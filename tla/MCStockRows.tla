---------------------------- MODULE MCStockRows ----------------------------
(* Small instances of StockRows for TLC.                                   *)
EXTENDS StockRows, TLC

CONSTANTS s1, web, p1, p2, c1, c2, adj, charged, paid

AllUnits ==
  s1 :> 2 @@ web :> 1 @@ p1 :> 1 @@ p2 :> 2 @@ c1 :> 1 @@ c2 :> 1 @@ adj :> -1

\* Both numbered purchases with whoever may create or take the row; all who
\* find a row and write it later; the two cancellations with the rest.
AllMixes == {{p1, p2, web, s1}, {p1, adj, s1, web}, {c1, c2, p1, s1}, {c1, c2, adj, web},
             {p1, p2, c1, c2}}

\* Two cancellations of one order that was charged to an account.
SameCharged == c1 :> charged @@ c2 :> charged

JustCancels == {{c1, c2}}

\* Two cancellations of one order that was paid in cash.
SamePaid == c1 :> paid @@ c2 :> paid
=============================================================================
