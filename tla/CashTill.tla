------------------------------ MODULE CashTill ------------------------------
(***************************************************************************)
(* One cash register through its shifts: CashShiftsService (open, close,   *)
(* addMovement), and what the sales, the cash collections of current       *)
(* accounts and the cancellations of orders do to the cash of a shift.     *)
(*                                                                         *)
(* Every call is a transaction at READ COMMITTED (a cancellation is two):  *)
(* it first reads the shift and later writes its own row. Inserting an     *)
(* order or a movement does not conflict with the UPDATE that closes the   *)
(* shift it refers to, so nothing reads the shift again before it commits. *)
(* The last write of a call and its COMMIT are one step; the inner steps   *)
(* of a sale are in OrderCheckout.                                         *)
(***************************************************************************)
EXTENDS Integers, FiniteSets, Functions

CONSTANTS
  Opens,      \* calls that open a shift; each names the shift it creates
  Sales,      \* calls that sell; each names the order it creates
  Movements,  \* manual cash movements and cash collections of accounts
  Closes,     \* calls that close a shift
  Cancels,    \* calls that cancel an order
  Initial,    \* Initial[s]: the initialAmount of shift s
  Payment,    \* Payment[o]: the total of order o, what is handed over in cash
              \* and what is paid otherwise
  Amount,     \* Amount[m]: the movement, INFLOW > 0 or OUTFLOW < 0
  Cancelled,  \* Cancelled[c]: the order that c cancels
  NoShift

Shifts == Opens
Calls == Opens \cup Sales \cup Movements \cup Closes \cup Cancels

ASSUME TillAssumption ==
  /\ IsFiniteSet(Sales) /\ IsFiniteSet(Movements)
  /\ NoShift \notin Shifts
  /\ Opens \cap (Sales \cup Movements \cup Closes \cup Cancels) = {}
  /\ Sales \cap (Movements \cup Closes \cup Cancels) = {}
  /\ Movements \cap (Closes \cup Cancels) = {}
  /\ Closes \cap Cancels = {}
  /\ Initial \in [Opens -> Nat]
  /\ Payment \in [Sales -> [total : Nat, cash : Nat, other : Nat]]
  /\ Amount \in [Movements -> Int]
  /\ Cancelled \in [Cancels -> Sales]

VARIABLES
  status,      \* status[s]: "none", "OPEN" or "CLOSED"
  arqueo,      \* arqueo[s]: the expectedCash stored when s was closed
  place,       \* place[x]: the shift of a committed order or movement
  cancelled,   \* the orders whose status is CANCELLED
  pc,          \* pc[x]: where the call is
  shift,       \* shift[x]: the shift a call has read
  read,        \* read[c]: the results of the queries of a closing call
  begun,       \* history: begun[c]: the rows of its shift and the cancelled
               \* orders when the closing c began
  overlapped   \* history: the shifts closed while another call was using them

vars == <<status, arqueo, place, cancelled, pc, shift, read, begun, overlapped>>

Reading == {"inflows", "outflows", "sales"}
Running == {"ready", "creditNote", "reread"} \cup Reading
Ended == {"done", "refused", "lost"}

NothingRead == [inflows |-> 0, outflows |-> 0, sales |-> 0]
NotBegun == [rows |-> {}, void |-> {}]

TypeOK ==
  /\ status \in [Shifts -> {"none", "OPEN", "CLOSED"}]
  /\ arqueo \in [Shifts -> Int]
  /\ place \in [Sales \cup Movements -> Shifts \cup {NoShift}]
  /\ cancelled \subseteq Sales
  /\ pc \in [Calls -> {"start"} \cup Running \cup Ended]
  /\ shift \in [Calls -> Shifts \cup {NoShift}]
  /\ read \in [Closes -> [inflows : Nat, outflows : Nat, sales : Nat]]
  /\ begun \in [Closes -> [rows : SUBSET (Sales \cup Movements), void : SUBSET Sales]]
  /\ overlapped \subseteq Shifts

Init ==
  /\ status = [s \in Shifts |-> "none"]
  /\ arqueo = [s \in Shifts |-> 0]
  /\ place = [x \in Sales \cup Movements |-> NoShift]
  /\ cancelled = {}
  /\ pc = [x \in Calls |-> "start"]
  /\ shift = [x \in Calls |-> NoShift]
  /\ read = [c \in Closes |-> NothingRead]
  /\ begun = [c \in Closes |-> NotBegun]
  /\ overlapped = {}

-----------------------------------------------------------------------------
(* Cash arithmetic.                                                        *)

\* The checks of attemptCreate on what is paid.
Accepted(p) ==
  /\ p.cash + p.other >= p.total
  /\ p.cash + p.other > p.total => p.cash > 0

\* Mutant of NetCash: the change is not discounted.
RawCash(p) == p.cash

\* computeCashSalesTotal, for one order.
NetCash(p) ==
  LET due == IF p.total > p.other THEN p.total - p.other ELSE 0
  IN  IF p.cash < due THEN p.cash ELSE due

Inflow == [m \in Movements |-> IF Amount[m] > 0 THEN Amount[m] ELSE 0]

\* Mutant of Outflow: amounts keep their sign.
SignedOutflow == [m \in Movements |-> IF Amount[m] < 0 THEN Amount[m] ELSE 0]

Outflow == [m \in Movements |-> IF Amount[m] < 0 THEN -Amount[m] ELSE 0]

\* The rows of shift s that are committed now.
MovementsIn(s) == {m \in Movements : place[m] = s}

\* Mutant of SalesIn: the query does not look at the status of the orders.
SalesEver(s) == {o \in Sales : place[o] = s}

SalesIn(s) == {o \in Sales \ cancelled : place[o] = s}

\* The three results that computeSummary adds to the initial amount.
Inflows(s) == SumFunctionOnSet(Inflow, MovementsIn(s))
Outflows(s) == SumFunctionOnSet(Outflow, MovementsIn(s))
CashSales(s) == SumFunction([o \in SalesIn(s) |-> NetCash(Payment[o])])

ExpectedOf(s, inflows, outflows, sales) == Initial[s] + inflows - outflows + sales

\* computeSummary if nothing happened between its queries.
ExpectedCash(s) == ExpectedOf(s, Inflows(s), Outflows(s), CashSales(s))

-----------------------------------------------------------------------------
OpenShifts == {s \in Shifts : status[s] = "OPEN"}

\* The calls that have read shift s and not ended.
InFlight(s) == {x \in Calls : shift[x] = s}

Goto(x, l) == pc' = [pc EXCEPT ![x] = l]

\* Call x is answered, and forgets what it has read.
End(x, how) ==
  /\ Goto(x, how)
  /\ shift' = [shift EXCEPT ![x] = NoShift]
  /\ read' = [c \in Closes |-> IF c = x THEN NothingRead ELSE read[c]]
  /\ begun' = [c \in Closes |-> IF c = x THEN NotBegun ELSE begun[c]]

Refuse(x) ==
  /\ End(x, "refused")
  /\ UNCHANGED <<status, arqueo, place, cancelled, overlapped>>

\* Call x reads shift s OPEN and goes on at l. If it closes the shift while
\* others use it, or the other way round, the two overlap.
Enter(x, s, l) ==
  /\ Goto(x, l)
  /\ shift' = [shift EXCEPT ![x] = s]
  /\ overlapped' = IF \E y \in InFlight(s) : x \in Closes \/ y \in Closes
                   THEN overlapped \cup {s} ELSE overlapped
  /\ begun' = [c \in Closes |->
                 IF c = x THEN [rows |-> {y \in Sales \cup Movements : place[y] = s},
                                void |-> cancelled]
                 ELSE begun[c]]
  /\ UNCHANGED <<status, arqueo, place, cancelled, read>>

-----------------------------------------------------------------------------
(* open                                                                    *)

BeginOpen(s) ==
  /\ pc[s] = "start"
  /\ IF OpenShifts # {} THEN Refuse(s)
     ELSE /\ Goto(s, "ready")
          /\ UNCHANGED <<status, arqueo, place, cancelled, shift, read, begun, overlapped>>

\* Mutant of CreateShift: no unique index.
CreateAnyway(s) ==
  /\ pc[s] = "ready"
  /\ End(s, "done")
  /\ status' = [status EXCEPT ![s] = "OPEN"]
  /\ UNCHANGED <<arqueo, place, cancelled, overlapped>>

\* cashShift.create, under the partial unique index CashShift_one_open_per_register.
CreateShift(s) ==
  /\ pc[s] = "ready"
  /\ IF OpenShifts # {} THEN Refuse(s)
     ELSE /\ End(s, "done")
          /\ status' = [status EXCEPT ![s] = "OPEN"]
          /\ UNCHANGED <<arqueo, place, cancelled, overlapped>>

-----------------------------------------------------------------------------
(* Sales, addMovement and registerPayment with method CASH                 *)

\* Mutant of BeginCash: the status of the shift is not looked at.
BeginCashAnyShift(x, s) ==
  /\ pc[x] = "start"
  /\ status[s] # "none"
  /\ Enter(x, s, "ready")

\* What is paid is checked some statements later, with nothing written before
\* that another call can see.
BeginCash(x, s) ==
  /\ pc[x] = "start"
  /\ status[s] # "none"
  /\ IF status[s] = "OPEN" /\ (x \in Sales => Accepted(Payment[x]))
     THEN Enter(x, s, "ready") ELSE Refuse(x)

InsertCash(x) ==
  /\ pc[x] = "ready"
  /\ End(x, "done")
  /\ place' = [place EXCEPT ![x] = shift[x]]
  /\ UNCHANGED <<status, arqueo, cancelled, overlapped>>

-----------------------------------------------------------------------------
(* close: three queries of computeSummary, then the update by id           *)

BeginClose(c, s) ==
  /\ pc[c] = "start"
  /\ status[s] # "none"
  /\ IF status[s] = "OPEN" THEN Enter(c, s, "inflows") ELSE Refuse(c)

\* computeSummary issues its queries in this order over one connection.
Query(c, from, to) ==
  /\ pc[c] = from
  /\ Goto(c, to)
  /\ UNCHANGED <<status, arqueo, place, cancelled, shift, begun, overlapped>>

QueryInflows(c) ==
  /\ Query(c, "inflows", "outflows")
  /\ read' = [read EXCEPT ![c].inflows = Inflows(shift[c])]

QueryOutflows(c) ==
  /\ Query(c, "outflows", "sales")
  /\ read' = [read EXCEPT ![c].outflows = Outflows(shift[c])]

QueryCashSales(c) ==
  /\ Query(c, "sales", "ready")
  /\ read' = [read EXCEPT ![c].sales = CashSales(shift[c])]

\* cashShift.update by id.
CloseShift(c) ==
  /\ pc[c] = "ready"
  /\ End(c, "done")
  /\ status' = [status EXCEPT ![shift[c]] = "CLOSED"]
  /\ arqueo' =
       [arqueo EXCEPT ![shift[c]] =
          ExpectedOf(shift[c], read[c].inflows, read[c].outflows, read[c].sales)]
  /\ UNCHANGED <<place, cancelled, overlapped>>

-----------------------------------------------------------------------------
(* OrdersService.cancel                                                    *)

\* Phase 1: the order exists, is not cancelled, and its shift is open.
BeginCancel(c) ==
  LET o == Cancelled[c] IN
  /\ pc[c] = "start"
  /\ place[o] # NoShift
  /\ IF o \notin cancelled /\ status[place[o]] = "OPEN"
     THEN Enter(c, place[o], "creditNote") ELSE Refuse(c)

\* Phase 2, outside any transaction: the credit note, if one is needed.
CreditNote(c) ==
  /\ pc[c] = "creditNote"
  /\ Goto(c, "reread")
  /\ UNCHANGED <<status, arqueo, place, cancelled, shift, read, begun, overlapped>>

\* AFIP does not authorise it: the order stays as it is.
CreditNoteRejected(c) ==
  /\ pc[c] = "creditNote"
  /\ Refuse(c)

\* Phase 3: the order is read again, the shift is not ...
RereadOrder(c) ==
  /\ pc[c] = "reread"
  /\ IF Cancelled[c] \in cancelled THEN Refuse(c)
     ELSE /\ Goto(c, "ready")
          /\ UNCHANGED <<status, arqueo, place, cancelled, shift, read, begun, overlapped>>

\* ... and order.update by id.
CancelOrder(c) ==
  /\ pc[c] = "ready"
  /\ End(c, "done")
  /\ cancelled' = cancelled \cup {Cancelled[c]}
  /\ UNCHANGED <<status, arqueo, place, overlapped>>

-----------------------------------------------------------------------------
\* A time out, a crash, or another check of the same transaction failing.
Lose(x) ==
  /\ pc[x] \in Running
  /\ End(x, "lost")
  /\ UNCHANGED <<status, arqueo, place, cancelled, overlapped>>

\* What a call that has begun does by itself.
Work(x) ==
  \/ x \in Opens /\ CreateShift(x)
  \/ x \in Sales \cup Movements /\ InsertCash(x)
  \/ x \in Closes /\ QueryInflows(x)
  \/ x \in Closes /\ QueryOutflows(x)
  \/ x \in Closes /\ QueryCashSales(x)
  \/ x \in Closes /\ CloseShift(x)
  \/ x \in Cancels /\ (CreditNote(x) \/ RereadOrder(x) \/ CancelOrder(x))

Begin(x) ==
  \/ x \in Opens /\ BeginOpen(x)
  \/ x \in Sales \cup Movements /\ \E s \in Shifts : BeginCash(x, s)
  \/ x \in Closes /\ \E s \in Shifts : BeginClose(x, s)
  \/ x \in Cancels /\ BeginCancel(x)

Next ==
  \E x \in Calls :
    Begin(x) \/ Work(x) \/ Lose(x) \/ (x \in Cancels /\ CreditNoteRejected(x))

Spec == Init /\ [][Next]_vars

-----------------------------------------------------------------------------
(* Properties.                                                             *)

\* open: whatever two simultaneous openings read, one shift is OPEN at a time.
OneOpenShift == \A s, t \in OpenShifts : s = t

\* What a sale really leaves in the drawer: the cash less the change.
Kept(p) ==
  p.cash - (IF p.cash + p.other > p.total THEN p.cash + p.other - p.total ELSE 0)

\* The change that the cash of the sale does not cover: more than the total was
\* paid with cards, transfers, ...
Uncovered(p) == IF p.other > p.total THEN p.other - p.total ELSE 0

\* The cash in the drawer after the committed rows of shift s, and what is
\* missing from it for such changes.
DrawerAndUncovered(s) ==
  ExpectedOf(s, Inflows(s), Outflows(s),
             SumFunction([o \in SalesIn(s) |-> Kept(Payment[o]) + Uncovered(Payment[o])]))

\* close and computeCashSalesTotal ("El efectivo que realmente queda en el cajon
\* por una venta"): when no other call used the shift while it was being closed,
\* the stored expectedCash is what the drawer holds, and stays so, with the
\* change given and the cancelled orders discounted; it is too much by exactly
\* the change given beyond the cash of a sale, which attemptCreate lets through.
QuietCloseReconciles ==
  \A s \in Shifts \ overlapped : status[s] = "CLOSED" => arqueo[s] = DrawerAndUncovered(s)

\* The guards of close, addMovement, registerPayment, attemptCreate and cancel:
\* once a closed shift is in nobody's hands, no call ever takes it up again,
\* and neither its arqueo nor the cash that its rows add up to changes.
ClosedShiftSettles ==
  [][\A s \in Shifts :
       status[s] = "CLOSED" /\ InFlight(s) = {} =>
         /\ InFlight(s)' = {}
         /\ status'[s] = "CLOSED"
         /\ arqueo'[s] = arqueo[s]
         /\ ExpectedCash(s)' = ExpectedCash(s)]_vars

\* The sets of rows that a query of closing c may have added up: all those of
\* its shift when it began, less what was cancelled since; of the ones that
\* came later, any; and none that was cancelled already when it began.
MayCount(c, rows) ==
  {X \in SUBSET {x \in rows : place[x] = shift[c]} :
     /\ (rows \cap begun[c].rows) \ cancelled \subseteq X
     /\ X \cap begun[c].void = {}}

\* close and computeSummary: cash that comes in, goes out or is cancelled
\* between the queries may or may not be in the expectedCash that is stored,
\* but what was in the shift when the closing began is, once, and the query of
\* the outflows has seen every movement that the query of the inflows saw.
CloseCountsRows ==
  [][\A c \in Closes :
       pc[c] = "ready" /\ pc'[c] = "done" =>
         \E A \in MayCount(c, Movements), B \in MayCount(c, Movements),
            C \in MayCount(c, Sales) :
           /\ A \subseteq B
           /\ arqueo'[shift[c]] =
                ExpectedOf(shift[c], SumFunctionOnSet(Inflow, A),
                           SumFunctionOnSet(Outflow, B),
                           SumFunction([o \in C |-> NetCash(Payment[o])]))]_vars

\* cancel: "Esta venta pertenece a un turno de caja ya cerrado - no se puede
\* anular". An order is cancelled only while its shift is open. (It is not so:
\* phase 3 does not read the shift again.)
CancelledOnlyWhileOpen ==
  [][\A o \in cancelled' \ cancelled : status[place[o]] = "OPEN"]_vars

-----------------------------------------------------------------------------
(* The inductive invariant behind them. It needs no more of arqueo and read *)
(* than their domains; that the sums they hold are numbers comes after it.  *)

\* r gives every closing call the three results of its queries.
Results(r) ==
  r = [c \in Closes |-> [inflows |-> r[c].inflows,
                        outflows |-> r[c].outflows,
                        sales |-> r[c].sales]]

ShapeInv ==
  /\ status \in [Shifts -> {"none", "OPEN", "CLOSED"}]
  /\ arqueo = [s \in Shifts |-> arqueo[s]]
  /\ place \in [Sales \cup Movements -> Shifts \cup {NoShift}]
  /\ cancelled \subseteq Sales
  /\ pc \in [Calls -> {"start"} \cup Running \cup Ended]
  /\ shift \in [Calls -> Shifts \cup {NoShift}]
  /\ Results(read)
  /\ overlapped \subseteq Shifts

\* What a call has read matches where it is.
CallInv ==
  /\ \A s \in Opens : pc[s] # "done" => status[s] = "none"
  /\ \A x \in Calls : shift[x] = NoShift <=> x \in Opens \/ pc[x] \notin Running
  /\ \A x \in Calls : shift[x] # NoShift => status[shift[x]] # "none"
  /\ \A x \in Sales \cup Movements : pc[x] # "done" => place[x] = NoShift
  /\ \A o \in Sales : pc[o] \in {"ready", "done"} => Accepted(Payment[o])
  /\ \A c \in Closes : pc[c] \notin {"creditNote", "reread"}
  /\ \A c \in Cancels : pc[c] \in Running => place[Cancelled[c]] = shift[c]

\* A closing that overlaps nobody is alone on its shift, and what it has read
\* is still what the rows add up to; when it is done, nobody uses the shift.
QuietInv ==
  \A s \in Shifts \ overlapped :
    /\ status[s] = "CLOSED" => InFlight(s) = {}
    /\ \A c \in Closes : shift[c] = s =>
         /\ InFlight(s) = {c}
         /\ pc[c] \in {"outflows", "sales", "ready"} => read[c].inflows = Inflows(s)
         /\ pc[c] \in {"sales", "ready"} => read[c].outflows = Outflows(s)
         /\ pc[c] = "ready" => read[c].sales = CashSales(s)

\* What a quiet closing stored is what computeSummary would still compute.
StoredInv ==
  \A s \in Shifts \ overlapped : status[s] = "CLOSED" => arqueo[s] = ExpectedCash(s)

TillInv == ShapeInv /\ CallInv /\ OneOpenShift /\ QuietInv /\ StoredInv

\* What the closing c has read so far is the sum of rows that it may count.
Counted(c) ==
  pc[c] \in Reading \cup {"ready"} =>
    /\ begun[c].void \subseteq cancelled
    /\ \A x \in begun[c].rows : place[x] = shift[c]
    /\ pc[c] # "inflows" =>
         \E A \in MayCount(c, Movements) :
           /\ read[c].inflows = SumFunctionOnSet(Inflow, A)
           /\ pc[c] # "outflows" =>
                \E B \in MayCount(c, Movements) :
                  A \subseteq B /\ read[c].outflows = SumFunctionOnSet(Outflow, B)
    /\ pc[c] = "ready" =>
         \E C \in MayCount(c, Sales) :
           read[c].sales = SumFunction([o \in C |-> NetCash(Payment[o])])

CountedInv ==
  /\ begun \in [Closes -> [rows : SUBSET (Sales \cup Movements), void : SUBSET Sales]]
  /\ \A c \in Closes : Counted(c)
=============================================================================
