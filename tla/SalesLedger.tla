---------------------------- MODULE SalesLedger ----------------------------
(***************************************************************************)
(* What the checkout of one store promises, as one atomic step per sale:   *)
(* a sale takes every line of its cart from stock or none of them, and the *)
(* receipts are numbered 1, 2, 3, ... in the order the sales take effect.  *)
(* There are no transactions, locks, attempts or failures here; module     *)
(* OrderCheckout shows that the code's transactions implement this.        *)
(***************************************************************************)
EXTENDS Integers

CONSTANTS
  Requests,      \* the POST /orders calls of one store
  Items,         \* the StockLevel rows of that store
  InitialStock,  \* the quantity of each row before the calls
  Total          \* Total[r][i]: the units of i the cart of r adds up to

VARIABLES
  stock,         \* stock[i]: the quantity of row i
  receipt,       \* receipt[r]: the number of the order r created, 0 if none
  last           \* the highest number given out

ledgerVars == <<stock, receipt, last>>

Init ==
  /\ stock = InitialStock
  /\ receipt = [r \in Requests |-> 0]
  /\ last = 0

\* The whole sale: all the lines are covered and leave the stock together.
Sell(r) ==
  /\ receipt[r] = 0
  /\ \A i \in Items : Total[r][i] > 0 => stock[i] >= Total[r][i]
  /\ stock' = [i \in Items |-> stock[i] - Total[r][i]]
  /\ receipt' = [receipt EXCEPT ![r] = last + 1]
  /\ last' = last + 1

Next == \E r \in Requests : Sell(r)

Spec == Init /\ [][Next]_ledgerVars
=============================================================================
