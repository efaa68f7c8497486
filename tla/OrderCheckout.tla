--------------------------- MODULE OrderCheckout ---------------------------
(***************************************************************************)
(* POST /orders: OrdersService.create and attemptCreate, for the calls of  *)
(* one store that run at the same time (order numbers and stock rows are   *)
(* per store, so stores do not meet here).                                 *)
(*                                                                         *)
(* Each attempt is one Prisma interactive transaction at READ COMMITTED:   *)
(*   - a statement sees what is committed, plus the transaction's own      *)
(*     writes; plain reads take no lock;                                   *)
(*   - the guarded UPDATE of a stock row locks the row until the end of    *)
(*     the transaction, and waits for a transaction that holds it;         *)
(*   - inserting an order number waits for an uncommitted insert of the    *)
(*     same number, and fails (P2002) once that number is committed.       *)
(*                                                                         *)
(* A cart is the sequence of decrementStockGuarded calls it leads to: one  *)
(* line per stock-tracked product or variant, one per tracked component of *)
(* a bundle. Prices, discounts, taxes and payments decide only whether a   *)
(* call is rejected, which any transaction may be.                         *)
(***************************************************************************)
EXTENDS Integers, Sequences, FiniteSetsExt

CONSTANTS
  Requests,      \* the POST /orders calls
  Items,         \* the StockLevel rows of the store
  Lines,         \* Lines[r]: the stock lines of r's cart, in cart order
  Need,          \* Need[r][k][i]: units of i in the first k lines of r
  InitialStock,  \* the committed quantity of each row at the start
  MaxAttempts,   \* MAX_ORDER_NUMBER_ATTEMPTS
  NoOne          \* the owner of a row nobody has locked

ASSUME LinesAssumption ==
  /\ NoOne \notin Requests
  /\ InitialStock \in [Items -> Int]
  /\ MaxAttempts \in Nat \ {0}
  /\ Lines \in [Requests -> Seq([item : Items, qty : Nat \ {0}])]

Nothing == [i \in Items |-> 0]

\* Need is the running total of Lines.
ASSUME NeedAssumption ==
  \A r \in Requests :
    /\ Need[r] \in [0 .. Len(Lines[r]) -> [Items -> Nat]]
    /\ Need[r][0] = Nothing
    /\ \A k \in 0 .. Len(Lines[r]) - 1 :
         Need[r][k + 1] = [Need[r][k] EXCEPT
                             ![Lines[r][k + 1].item] = @ + Lines[r][k + 1].qty]

VARIABLES
  stock,        \* stock[i]: the committed quantity of row i
  orderNumber,  \* orderNumber[r]: the number of r's committed order, 0 if none
  owner,        \* owner[i]: the request whose transaction has locked row i
  pc,           \* pc[r]: where the call is
  attempt,      \* attempt[r]: transactions begun by the loop of create
  line,         \* line[r]: stock lines decremented by the open transaction
  taken,        \* taken[r][i]: units decremented and not committed
  num           \* num[r]: the number getNextOrderNumber returned

vars == <<stock, orderNumber, owner, pc, attempt, line, taken, num>>

-----------------------------------------------------------------------------
(* States of a call.                                                       *)

InTx == {"lines", "insert", "written"}

\* committed: the order exists. rejected: an HttpException of a check.
\* soldOut: no stock. exhausted: P2002 on the last attempt. deadlocked: chosen
\* as victim by Postgres. lost: the transaction timed out or its process died.
Ended == {"committed", "rejected", "soldOut", "exhausted", "deadlocked", "lost"}

TypeOK ==
  /\ stock \in [Items -> Int]
  /\ orderNumber \in [Requests -> Nat]
  /\ owner \in [Items -> Requests \cup {NoOne}]
  /\ pc \in [Requests -> {"start"} \cup InTx \cup Ended]
  /\ attempt \in [Requests -> 0 .. MaxAttempts]
  /\ line \in [Requests -> Nat]
  /\ \A r \in Requests : line[r] <= Len(Lines[r])
  /\ taken \in [Requests -> [Items -> Nat]]
  /\ num \in [Requests -> Nat]

Init ==
  /\ stock = InitialStock
  /\ orderNumber = [r \in Requests |-> 0]
  /\ owner = [i \in Items |-> NoOne]
  /\ pc = [r \in Requests |-> "start"]
  /\ attempt = [r \in Requests |-> 0]
  /\ line = [r \in Requests |-> 0]
  /\ taken = [r \in Requests |-> Nothing]
  /\ num = [r \in Requests |-> 0]

-----------------------------------------------------------------------------
(* What a statement reads, and what it waits for.                          *)

\* MAX("orderNumber") over the committed orders, 0 when there are none.
MaxNumber(number) ==
  CHOOSE n \in {0} \cup {number[r] : r \in Requests} :
    \A r \in Requests : number[r] <= n

LastNumber == MaxNumber(orderNumber)

Line(r) == Lines[r][line[r] + 1]

HasLine(r) == pc[r] = "lines" /\ line[r] < Len(Lines[r])

\* Mutant of Covered: forgets what the transaction has already taken.
CoveredIgnoringOwn(r) == stock[Line(r).item] >= Line(r).qty

\* The balance check of the UPDATE, on the row as r sees it. Postgres tests it
\* on the committed version before it waits for the row, so a row that is too
\* low fails at once even while another transaction holds it.
Covered(r) == stock[Line(r).item] - taken[r][Line(r).item] >= Line(r).qty

\* The transactions r cannot go on without: the owner of the row of its next
\* line, or the one that has inserted the number r is about to insert.
WaitsFor(r) ==
  {q \in Requests \ {r} :
     \/ /\ HasLine(r)
        /\ Covered(r)
        /\ owner[Line(r).item] = q
     \/ /\ pc[r] = "insert"
        /\ pc[q] = "written"
        /\ num[q] = num[r]}

\* Mutants of OnCycle: nobody breaks deadlocks; any wait counts as one.
NeverDetected(r) == FALSE
AnyWait(r) == WaitsFor(r) # {}

\* r waits on a cycle: in S everyone waits for a member of S, and everyone is
\* waited for by one.
OnCycle(r) ==
  /\ WaitsFor(r) # {}
  /\ \E S \in SUBSET Requests :
       /\ r \in S
       /\ \A x \in S : /\ WaitsFor(x) \cap S # {}
                       /\ \E y \in S : x \in WaitsFor(y)

\* Mutant of Rollback: the decrements survive it.
RollbackKeepingTaken(r) ==
  /\ owner' = [i \in Items |-> IF owner[i] = r THEN NoOne ELSE owner[i]]
  /\ line' = [line EXCEPT ![r] = 0]
  /\ num' = [num EXCEPT ![r] = 0]
  /\ UNCHANGED <<stock, orderNumber, taken>>

\* ROLLBACK: the writes are gone and the row locks released.
Rollback(r) ==
  /\ owner' = [i \in Items |-> IF owner[i] = r THEN NoOne ELSE owner[i]]
  /\ line' = [line EXCEPT ![r] = 0]
  /\ taken' = [taken EXCEPT ![r] = Nothing]
  /\ num' = [num EXCEPT ![r] = 0]
  /\ UNCHANGED <<stock, orderNumber>>

-----------------------------------------------------------------------------
(* The steps of a call.                                                    *)

\* A turn of the loop of create: a new transaction.
Begin(r) ==
  /\ pc[r] = "start"
  /\ pc' = [pc EXCEPT ![r] = "lines"]
  /\ attempt' = [attempt EXCEPT ![r] = @ + 1]
  /\ UNCHANGED <<stock, orderNumber, owner, line, taken, num>>

\* decrementStockGuarded on the next line, affected = 1.
DecrementStockGuarded(r) ==
  /\ HasLine(r)
  /\ Covered(r)
  /\ owner[Line(r).item] \in {NoOne, r}
  /\ owner' = [owner EXCEPT ![Line(r).item] = r]
  /\ taken' = [taken EXCEPT ![r][Line(r).item] = @ + Line(r).qty]
  /\ line' = [line EXCEPT ![r] = @ + 1]
  /\ UNCHANGED <<stock, orderNumber, pc, attempt, num>>

\* Mutant of StockInsufficient: a line that is short is sold all the same.
SkipShortLine(r) ==
  /\ HasLine(r)
  /\ ~Covered(r)
  /\ line' = [line EXCEPT ![r] = @ + 1]
  /\ UNCHANGED <<stock, orderNumber, owner, pc, attempt, taken, num>>

\* decrementStockGuarded on the next line, affected = 0.
StockInsufficient(r) ==
  /\ HasLine(r)
  /\ ~Covered(r)
  /\ pc' = [pc EXCEPT ![r] = "soldOut"]
  /\ Rollback(r)
  /\ UNCHANGED attempt

\* Mutant of NextNumber: a counter that also sees uncommitted orders.
NextAfterUncommitted ==
  MaxNumber([r \in Requests |-> IF pc[r] = "written" THEN num[r] ELSE orderNumber[r]]) + 1

NextNumber == LastNumber + 1

\* After the last line and the payment checks: getNextOrderNumber.
GetNextOrderNumber(r) ==
  /\ pc[r] = "lines"
  /\ line[r] = Len(Lines[r])
  /\ pc' = [pc EXCEPT ![r] = "insert"]
  /\ num' = [num EXCEPT ![r] = NextNumber]
  /\ UNCHANGED <<stock, orderNumber, owner, attempt, line, taken>>

NumberTaken(n) == \E q \in Requests : orderNumber[q] = n

\* order.create finds its number free.
CreateOrder(r) ==
  /\ pc[r] = "insert"
  /\ ~NumberTaken(num[r])
  /\ WaitsFor(r) = {}
  /\ pc' = [pc EXCEPT ![r] = "written"]
  /\ UNCHANGED <<stock, orderNumber, owner, attempt, line, taken, num>>

\* Mutants of AfterDuplicate: one attempt too many, one too few.
OneMoreAttempt(r) == IF attempt[r] <= MaxAttempts THEN "start" ELSE "exhausted"
OneLessAttempt(r) == IF attempt[r] + 1 < MaxAttempts THEN "start" ELSE "exhausted"

AfterDuplicate(r) == IF attempt[r] < MaxAttempts THEN "start" ELSE "exhausted"

\* order.create violates the unique index (P2002): the whole transaction is
\* undone, and create tries again or gives up.
DuplicateNumber(r) ==
  /\ pc[r] = "insert"
  /\ NumberTaken(num[r])
  /\ pc' = [pc EXCEPT ![r] = AfterDuplicate(r)]
  /\ Rollback(r)
  /\ UNCHANGED attempt

\* The callback of the transaction returns: COMMIT.
Commit(r) ==
  /\ pc[r] = "written"
  /\ pc' = [pc EXCEPT ![r] = "committed"]
  /\ stock' = [i \in Items |-> stock[i] - taken[r][i]]
  /\ orderNumber' = [orderNumber EXCEPT ![r] = num[r]]
  /\ owner' = [i \in Items |-> IF owner[i] = r THEN NoOne ELSE owner[i]]
  /\ line' = [line EXCEPT ![r] = 0]
  /\ taken' = [taken EXCEPT ![r] = Nothing]
  /\ num' = [num EXCEPT ![r] = 0]
  /\ UNCHANGED attempt

\* One of the checks throws: shift, quote, product and discount limit among
\* the lines, payments after them, credit limit once the order is written.
Reject(r) ==
  /\ pc[r] \in {"lines", "written"}
  /\ pc' = [pc EXCEPT ![r] = "rejected"]
  /\ Rollback(r)
  /\ UNCHANGED attempt

\* Postgres breaks a cycle of waits (40P01, not retried by create).
DeadlockVictim(r) ==
  /\ OnCycle(r)
  /\ pc' = [pc EXCEPT ![r] = "deadlocked"]
  /\ Rollback(r)
  /\ UNCHANGED attempt

\* The interactive transaction times out, or its process dies.
Lose(r) ==
  /\ pc[r] \in {"start"} \cup InTx
  /\ pc' = [pc EXCEPT ![r] = "lost"]
  /\ Rollback(r)
  /\ UNCHANGED attempt

\* What the call and the database do by themselves.
Work(r) ==
  \/ Begin(r)
  \/ DecrementStockGuarded(r)
  \/ StockInsufficient(r)
  \/ GetNextOrderNumber(r)
  \/ CreateOrder(r)
  \/ DuplicateNumber(r)
  \/ Commit(r)
  \/ DeadlockVictim(r)

AllEnded == \A r \in Requests : pc[r] \in Ended

Terminating == AllEnded /\ UNCHANGED vars

Next ==
  \/ \E r \in Requests : Work(r) \/ Reject(r) \/ Lose(r)
  \/ Terminating

\* A call that can go on does: the event loop runs it and Postgres answers.
\* Nothing makes a call be rejected or lost.
Fairness == \A r \in Requests : WF_vars(Work(r))

Spec == Init /\ [][Next]_vars

FairSpec == Spec /\ Fairness

-----------------------------------------------------------------------------
(* Properties.                                                             *)

Total == [r \in Requests |-> Need[r][Len(Lines[r])]]

\* The calls whose order exists.
Sold == {r \in Requests : orderNumber[r] # 0}

\* decrementStockGuarded: "ninguna caja concurrente puede vender stock que no
\* existe". No interleaving of sales takes a row below zero (a row that starts
\* below zero, after an adjustment or an online sale, is never lowered).
NoOversell == \A i \in Items : stock[i] < InitialStock[i] => stock[i] >= 0

\* create: MAX+1 with the unique index and the retry gives every order its own
\* number, and the numbers of a store have no holes whatever is rolled back.
NumbersGapFree ==
  /\ \A r, q \in Requests :
       r # q /\ orderNumber[r] # 0 => orderNumber[r] # orderNumber[q]
  /\ \A n \in 1 .. LastNumber : NumberTaken(n)

\* "la transaccion entera hace rollback (stock incluido)": what left each row
\* is exactly what the orders that exist add up to, through every rollback,
\* retry, deadlock and loss.
StockAccounted ==
  \A i \in Items :
    stock[i] = InitialStock[i]
               - SumFunctionOnSet([r \in Requests |-> Total[r][i]], Sold)

\* MAX_ORDER_NUMBER_ATTEMPTS: a call runs out of attempts only if that many
\* other orders were committed meanwhile, never because of rolled back ones.
ExhaustedMeansContention ==
  \A r \in Requests : pc[r] = "exhausted" => LastNumber >= MaxAttempts

\* Two transactions never both have an uncommitted order: the number makes
\* the tail of attemptCreate (quote, account, audit) one at a time per store.
OneUncommittedOrder ==
  \A r, q \in Requests : pc[r] = "written" /\ pc[q] = "written" => r = q

\* Some cart lists row i before row j.
ListedBefore(i, j) ==
  \E r \in Requests : \E m, n \in 1 .. Len(Lines[r]) :
    m < n /\ Lines[r][m].item = i /\ Lines[r][n].item = j /\ i # j

\* No order of the rows agrees with all the carts, because of i among others.
Crossed(i) ==
  \E C \in SUBSET Items :
    /\ i \in C
    /\ \A x \in C : /\ \E y \in C : ListedBefore(x, y)
                    /\ \E y \in C : ListedBefore(y, x)

\* The code does not sort the lines of a cart. Only a call that takes a row
\* which the carts list in contradictory orders is ever sacrificed to break a
\* deadlock: neither the wait for the order number nor a row that all take in
\* one order can bring one about.
DeadlockNeedsCrossedCarts ==
  \A r \in Requests :
    pc[r] = "deadlocked" => \E k \in 1 .. Len(Lines[r]) : Crossed(Lines[r][k].item)

\* Every call is answered: nobody waits for ever for a row or a number, and
\* the loop of create is bounded.
EveryCallEnds == \A r \in Requests : <>(pc[r] \in Ended)

\* The transactions implement the atomic sale of SalesLedger.
Ledger == INSTANCE SalesLedger WITH receipt <- orderNumber, last <- LastNumber

LedgerSpec == Ledger!Spec

-----------------------------------------------------------------------------
(* The inductive invariant behind these properties.                        *)

\* Whoever has decremented a row owns it until its transaction ends, so the
\* committed quantity it was checked against is still there at the commit.
LockInv ==
  \A r \in Requests, i \in Items :
    /\ owner[i] = r => pc[r] \in InTx
    /\ taken[r][i] > 0 => owner[i] = r /\ stock[i] >= taken[r][i]

\* An open transaction has taken exactly its first lines, all of them once it
\* asks for a number; a closed one has taken nothing.
CartInv ==
  \A r \in Requests :
    /\ taken[r] = Need[r][line[r]]
    /\ pc[r] \notin InTx => line[r] = 0
    /\ pc[r] \in {"insert", "written"} => line[r] = Len(Lines[r])

\* The numbers are 1 .. LastNumber, and an uncommitted order has the next one.
NumberInv ==
  /\ LastNumber \in {0} \cup {orderNumber[r] : r \in Requests}
  /\ \A r \in Requests :
       /\ orderNumber[r] <= LastNumber
       /\ orderNumber[r] # 0 <=> pc[r] = "committed"
       /\ pc[r] = "insert" => num[r] \in 1 .. LastNumber + 1
       /\ pc[r] = "written" => num[r] = LastNumber + 1
  /\ NumbersGapFree
  /\ OneUncommittedOrder

\* Each attempt that failed on the number saw one more committed order.
AttemptInv ==
  \A r \in Requests :
    /\ pc[r] = "start" => attempt[r] < MaxAttempts /\ attempt[r] <= LastNumber
    /\ pc[r] \in InTx => attempt[r] - 1 <= LastNumber
    /\ pc[r] = "insert" => attempt[r] <= num[r]
    /\ pc[r] = "exhausted" => MaxAttempts <= LastNumber

\* A locked row is the row of a line its transaction has decremented.
OwnerInv ==
  \A r \in Requests, i \in Items :
    owner[i] = r => \E m \in 1 .. line[r] : Lines[r][m].item = i

CheckoutInv ==
  TypeOK /\ LockInv /\ CartInv /\ NumberInv /\ AttemptInv /\ NoOversell
=============================================================================
