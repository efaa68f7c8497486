----------------------------- MODULE StockBook -----------------------------
(***************************************************************************)
(* What the stock of one product in one store should be: a number that     *)
(* every sale, purchase, web order and cancellation moves once, by its own *)
(* units and in one step. A manual adjustment replaces the number. Nothing *)
(* is promised any more once the product has two rows in StockLevel.       *)
(***************************************************************************)
EXTENDS Integers

CONSTANTS
  Writers,  \* the calls that move the stock
  Change,   \* Change[w]: the units w adds
  Guarded,  \* the calls that may not take more than there is
  Manual,   \* the adjustments
  Rivals    \* Rivals[w]: the calls that exclude w

VARIABLES onHand, applied, split

vars == <<onHand, applied, split>>

Init == onHand \in Int /\ applied = {} /\ split = FALSE

\* w moves the stock by its units.
Apply(w) ==
  /\ ~split
  /\ w \notin Manual
  /\ w \in Guarded => onHand + Change[w] >= 0
  /\ onHand' = onHand + Change[w]

\* w leaves whatever it likes.
Overwrite(w) ==
  /\ split \/ w \in Manual
  /\ onHand' \in Int

Next ==
  \E w \in Writers \ applied :
    /\ Rivals[w] \cap applied = {}
    /\ Apply(w) \/ Overwrite(w)
    /\ applied' = applied \cup {w}
    /\ split' \in {split, TRUE}

Spec == Init /\ [][Next]_vars
=============================================================================
