-------------------------- MODULE MCOrderCheckout --------------------------
(* Small instances of OrderCheckout for TLC.                               *)
EXTENDS OrderCheckout, TLC

CONSTANTS r1, r2, r3, r4, milk, bread, eggs

Of(i, n) == [item |-> i, qty |-> n]

\* The running totals that NeedAssumption describes.
NeedOf(lines) ==
  [r \in DOMAIN lines |->
     LET upTo[k \in 0 .. Len(lines[r])] ==
           IF k = 0 THEN Nothing
           ELSE [upTo[k - 1] EXCEPT ![lines[r][k].item] = @ + lines[r][k].qty]
     IN upTo]

\* Two carts list the rows in opposite orders; the other two compete for the
\* last eggs, one of them on two lines (a product and a bundle that contains
\* it), and meet the first two only at the order number.
CrossedCarts ==
  r1 :> <<Of(milk, 1), Of(bread, 1)>> @@
  r2 :> <<Of(bread, 1), Of(milk, 1)>> @@
  r3 :> <<Of(eggs, 1), Of(eggs, 1)>> @@
  r4 :> <<Of(eggs, 1)>>

CrossedNeed == NeedOf(CrossedCarts)

CrossedStock == milk :> 2 @@ bread :> 3 @@ eggs :> 2
=============================================================================
