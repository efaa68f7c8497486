----------------------------- MODULE MCCashTill -----------------------------
(* Small instances of CashTill for TLC.                                    *)
EXTENDS CashTill, TLC

CONSTANTS morning, evening, order1, order2, withdraw, collect,
          close1, close2, cancel1

InitialOf == [s \in Opens |-> 10]

\* order1 is partly paid with a card, with change from the drawer; of order2
\* the card alone pays more than the total, and there is some cash.
PaymentOf ==
  [o \in Sales |-> IF o = order1 THEN [total |-> 9, cash |-> 6, other |-> 5]
                   ELSE [total |-> 7, cash |-> 2, other |-> 9]]

AmountOf == Restrict(withdraw :> -3 @@ collect :> 2, Movements)

\* Sound: no constant tells two closings, or the two shifts, apart.
TillSymmetry == Permutations(Closes) \cup Permutations(Opens)

CancelledOf == [c \in Cancels |-> order1]
=============================================================================
