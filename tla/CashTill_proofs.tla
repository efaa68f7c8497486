-------------------------- MODULE CashTill_proofs --------------------------
(***************************************************************************)
(* Proofs about CashTill, for any calls, amounts and payments. TillInv     *)
(* computes no sum: it says which rows a sum is taken over. That the sums  *)
(* are numbers is proved at the end.                                       *)
(***************************************************************************)
EXTENDS CashTill, FiniteSetTheorems, TLAPS

\* The sums of a shift are a function of its rows.
LEMMA SameSums ==
  ASSUME NEW s, MovementsIn(s)' = MovementsIn(s), SalesIn(s)' = SalesIn(s)
  PROVE  /\ Inflows(s)' = Inflows(s)
         /\ Outflows(s)' = Outflows(s)
         /\ CashSales(s)' = CashSales(s)
         /\ ExpectedCash(s)' = ExpectedCash(s)
<1>1. Inflows(s)' = Inflows(s)
  BY DEF Inflows, Inflow
<1>2. Outflows(s)' = Outflows(s)
  BY DEF Outflows, Outflow
<1>3. CashSales(s)' = CashSales(s)
  BY DEF CashSales, NetCash
<1>4. QED
  BY <1>1, <1>2, <1>3 DEF ExpectedCash, ExpectedOf

\* The rows of a shift do not depend on anything but the places and the
\* cancelled orders.
LEMMA SameRows ==
  ASSUME UNCHANGED <<place, cancelled>>, NEW s
  PROVE  /\ MovementsIn(s)' = MovementsIn(s)
         /\ SalesIn(s)' = SalesIn(s)
BY DEF MovementsIn, SalesIn

\* The invariant holds before any call.
LEMMA InitInv == Init => TillInv
<1> SUFFICES ASSUME Init PROVE TillInv
  OBVIOUS
<1>1. ShapeInv
  BY DEF Init, ShapeInv, Results, Running, Reading, Ended, NothingRead
<1>2. CallInv
  BY TillAssumption DEF Init, CallInv, Running, Reading, Shifts, Calls
<1>3. OneOpenShift /\ StoredInv
  BY DEF Init, OneOpenShift, OpenShifts, StoredInv
<1>4. QuietInv
  BY TillAssumption DEF Init, QuietInv, Calls
<1>5. QED
  BY <1>1, <1>2, <1>3, <1>4 DEF TillInv

\* What a call does when it reads a shift OPEN.
LEMMA EnterInv ==
  ASSUME TillInv, NEW x \in Calls \ Opens, NEW s \in Shifts,
         NEW l \in {"ready", "inflows", "creditNote"},
         pc[x] = "start", status[s] = "OPEN", Enter(x, s, l),
         x \in Closes <=> l = "inflows",
         x \in Sales => Accepted(Payment[x]),
         x \in Cancels => place[Cancelled[x]] = s
  PROVE  TillInv'
<1> USE DEF TillInv, Enter, Goto
<1>1. ShapeInv'
  BY DEF ShapeInv, Running, Reading
<1>2. CallInv'
  <2>1. /\ pc' = [pc EXCEPT ![x] = l] /\ pc \in [Calls -> {"start"} \cup Running \cup Ended]
        /\ shift' = [shift EXCEPT ![x] = s] /\ shift \in [Calls -> Shifts \cup {NoShift}]
        /\ l \in Running /\ l # "done" /\ UNCHANGED <<status, place>>
    BY DEF ShapeInv, Running, Reading
  <2>2. QED
    BY <2>1, TillAssumption DEF CallInv, Calls, Running, Reading
<1>3. OneOpenShift'
  BY DEF OneOpenShift, OpenShifts
<1>4. QuietInv'
  <2> SUFFICES ASSUME NEW t \in Shifts, t \notin overlapped'
               PROVE  /\ status[t] = "CLOSED" => InFlight(t)' = {}
                      /\ \A c \in Closes : shift'[c] = t =>
                           /\ InFlight(t)' = {c}
                           /\ pc'[c] \in {"outflows", "sales", "ready"} => read[c].inflows = Inflows(t)
                           /\ pc'[c] \in {"sales", "ready"} => read[c].outflows = Outflows(t)
                           /\ pc'[c] = "ready" => read[c].sales = CashSales(t)
    BY SameRows, SameSums DEF QuietInv
  <2>0. t \notin overlapped
    OBVIOUS
  <2>1. CASE t # s
    <3>1. InFlight(t)' = InFlight(t)
      <4>1. shift[x] # t
        BY TillAssumption DEF CallInv, Running, Reading
      <4>2. shift' = [shift EXCEPT ![x] = s] /\ shift \in [Calls -> Shifts \cup {NoShift}]
        BY DEF ShapeInv
      <4>3. QED
        BY <2>1, <4>1, <4>2 DEF InFlight
    <3>2. QED
      BY <2>0, <2>1, <3>1, TillAssumption DEF QuietInv, ShapeInv, Calls, InFlight
  <2>2. CASE t = s
    <3>1. \A y \in InFlight(s) : x \notin Closes /\ y \notin Closes
      BY <2>2
    <3>2. ASSUME NEW c \in Closes, shift'[c] = s
          PROVE  c = x /\ InFlight(s)' = {x} /\ pc'[c] = "inflows"
      <4>1. c = x
        BY <3>1, <3>2 DEF InFlight, ShapeInv, Calls
      <4>2. InFlight(s) = {}
        BY <3>1, <4>1
      <4>3. InFlight(s)' = {x}
        BY <4>2 DEF InFlight, ShapeInv
      <4>4. QED
        BY <4>1, <4>3 DEF ShapeInv
    <3>3. QED
      BY <2>2, <3>2
  <2>3. QED
    BY <2>1, <2>2
<1>5. StoredInv'
  BY SameRows, SameSums DEF StoredInv
<1>6. QED
  BY <1>1, <1>2, <1>3, <1>4, <1>5

\* What is true of the shift a call leaves: it keeps no closing that was quiet.
LEMMA QuietAlone ==
  ASSUME QuietInv, NEW s \in Shifts, s \notin overlapped, NEW x \in InFlight(s)
  PROVE  /\ status[s] # "CLOSED"
         /\ \A c \in Closes : shift[c] = s => c = x
BY DEF QuietInv

\* A call that ends leaves every other call alone.
LEMMA EndShape ==
  ASSUME ShapeInv, CallInv, NEW x \in Calls, NEW how \in Ended, End(x, how),
         pc[x] # "done",
         x \in Opens \cup Sales \cup Movements => how # "done",
         UNCHANGED place,
         \A s \in Shifts : status[s] = "none" <=> status'[s] = "none"
  PROVE  /\ pc' \in [Calls -> {"start"} \cup Running \cup Ended]
         /\ shift' \in [Calls -> Shifts \cup {NoShift}]
         /\ Results(read')
         /\ CallInv'
<1> USE DEF End, Goto
<1>1. pc' = [pc EXCEPT ![x] = how] /\ pc' \in [Calls -> {"start"} \cup Running \cup Ended]
  BY DEF ShapeInv
<1>2. shift' = [shift EXCEPT ![x] = NoShift] /\ shift' \in [Calls -> Shifts \cup {NoShift}]
  BY DEF ShapeInv
<1>3. Results(read')
  BY DEF ShapeInv, Results, NothingRead
<1>4. how \notin Running
  BY DEF Running, Reading, Ended
<1>5. CallInv'
  <2>1. \A s \in Opens : pc'[s] # "done" => status'[s] = "none"
    BY <1>1, TillAssumption DEF CallInv, ShapeInv, Calls, Shifts
  <2>2. \A y \in Calls : shift'[y] = NoShift <=> y \in Opens \/ pc'[y] \notin Running
    BY <1>1, <1>2, <1>4, TillAssumption DEF CallInv, ShapeInv
  <2>3. \A y \in Sales \cup Movements : pc'[y] # "done" => place'[y] = NoShift
    BY <1>1, TillAssumption DEF CallInv, ShapeInv, Calls
  <2>4. \A c \in Closes : pc'[c] \notin {"creditNote", "reread"}
    BY <1>1, TillAssumption DEF CallInv, ShapeInv, Calls, Ended
  <2>5. \A c \in Cancels : pc'[c] \in Running => place'[Cancelled[c]] = shift'[c]
    BY <1>1, <1>2, <1>4, TillAssumption DEF CallInv, ShapeInv, Calls
  <2>6. \A y \in Calls : shift'[y] # NoShift => status'[shift'[y]] # "none"
    BY <1>2, TillAssumption DEF CallInv, ShapeInv
  <2>7. \A o \in Sales : pc'[o] \in {"ready", "done"} => Accepted(Payment[o])
    BY <1>1, TillAssumption DEF CallInv, ShapeInv, Calls, Ended
  <2>8. QED
    BY <2>1, <2>2, <2>3, <2>4, <2>5, <2>6, <2>7 DEF CallInv
<1>6. QED
  BY <1>1, <1>2, <1>3, <1>5

\* A shift whose rows the end of x does not change stays as quiet as it was.
LEMMA EndQuiet ==
  ASSUME ShapeInv, QuietInv, NEW x \in Calls, NEW how \in Ended, End(x, how),
         NEW t \in Shifts, t \notin overlapped,
         MovementsIn(t)' = MovementsIn(t), SalesIn(t)' = SalesIn(t)
  PROVE  /\ status[t] = "CLOSED" => InFlight(t)' = {}
         /\ \A c \in Closes : shift'[c] = t =>
              /\ InFlight(t)' = {c}
              /\ pc'[c] \in {"outflows", "sales", "ready"} => read'[c].inflows = Inflows(t)'
              /\ pc'[c] \in {"sales", "ready"} => read'[c].outflows = Outflows(t)'
              /\ pc'[c] = "ready" => read'[c].sales = CashSales(t)'
<1>1. InFlight(t)' = InFlight(t) \ {x}
  BY TillAssumption DEF InFlight, End, Goto, ShapeInv
<1>2. ASSUME NEW c \in Closes, shift'[c] = t
      PROVE  c # x /\ shift[c] = t /\ pc'[c] = pc[c] /\ read'[c] = read[c]
  BY <1>2, TillAssumption DEF End, Goto, ShapeInv, Calls
<1>3. QED
  BY <1>1, <1>2, SameSums DEF QuietInv

\* A call refused or lost leaves the invariant.
LEMMA GiveUpInv ==
  ASSUME TillInv, NEW x \in Calls, NEW how \in {"refused", "lost"}, End(x, how),
         pc[x] # "done",
         UNCHANGED <<status, arqueo, place, cancelled, overlapped>>
  PROVE  TillInv'
<1> USE DEF TillInv
<1>1. how \in Ended /\ how # "done"
  BY DEF Ended
<1>2. ShapeInv' /\ CallInv'
  BY <1>1, EndShape DEF ShapeInv
<1>3. OneOpenShift'
  BY DEF OneOpenShift, OpenShifts
<1>4. QuietInv'
  BY <1>1, EndQuiet, SameRows DEF QuietInv
<1>5. StoredInv'
  BY SameRows, SameSums DEF StoredInv
<1>6. QED
  BY <1>2, <1>3, <1>4, <1>5

\* So does a step of an opening or a cancellation that changes nothing else.
LEMMA MoveInv ==
  ASSUME TillInv, NEW x \in Opens \cup Cancels, NEW l \in {"ready", "reread"},
         x \in Opens => pc[x] = "start", x \in Cancels => pc[x] \in Running,
         Goto(x, l),
         UNCHANGED <<status, arqueo, place, cancelled, shift, read, overlapped>>
  PROVE  TillInv'
<1> USE DEF TillInv, Goto
<1>1. /\ pc' = [pc EXCEPT ![x] = l] /\ pc' \in [Calls -> {"start"} \cup Running \cup Ended]
      /\ l \in Running /\ l # "done"
  BY DEF ShapeInv, Running, Reading, Calls
<1>2. ShapeInv'
  BY <1>1 DEF ShapeInv
<1>3. CallInv'
  BY <1>1, TillAssumption DEF CallInv, ShapeInv, Calls
<1>4. OneOpenShift'
  BY DEF OneOpenShift, OpenShifts
<1>5. \A c \in Closes : pc'[c] = pc[c]
  BY <1>1, TillAssumption DEF ShapeInv, Calls
<1>6. \A s : InFlight(s)' = InFlight(s)
  BY DEF InFlight
<1>7. QuietInv'
  BY <1>5, <1>6, SameRows, SameSums DEF QuietInv
<1>8. StoredInv'
  BY SameRows, SameSums DEF StoredInv
<1>9. QED
  BY <1>2, <1>3, <1>4, <1>7, <1>8


\* A shift is opened only when the register has none open.
LEMMA CreateShiftInv ==
  ASSUME TillInv, NEW s \in Opens, CreateShift(s)
  PROVE  TillInv'
<1> USE DEF TillInv
<1>1. CASE OpenShifts # {}
  BY <1>1, GiveUpInv DEF CreateShift, Refuse, Calls
<1>2. CASE OpenShifts = {}
  <2> USE DEF End, Goto
  <2>1. /\ pc[s] = "ready" /\ status[s] = "none" /\ s \in Shifts
        /\ End(s, "done") /\ status' = [status EXCEPT ![s] = "OPEN"]
        /\ UNCHANGED <<arqueo, place, cancelled, overlapped>>
    BY <1>2 DEF CreateShift, CallInv, Shifts
  <2>2. /\ pc' = [pc EXCEPT ![s] = "done"] /\ pc' \in [Calls -> {"start"} \cup Running \cup Ended]
        /\ shift' = shift /\ read' = read
    BY <2>1, TillAssumption DEF ShapeInv, Results, CallInv, Ended, Calls
  <2>3. ShapeInv'
    BY <2>1, <2>2 DEF ShapeInv
  <2>4. CallInv'
    BY <2>1, <2>2, TillAssumption DEF CallInv, ShapeInv, Running, Reading, Calls, Shifts
  <2>5. OneOpenShift'
    BY <1>2, <2>1 DEF OneOpenShift, OpenShifts, ShapeInv
  <2>6. \A t \in Shifts : status'[t] = "CLOSED" => status[t] = "CLOSED"
    BY <2>1 DEF ShapeInv
  <2>7. \A c \in Closes : pc'[c] = pc[c]
    BY <2>2, TillAssumption DEF ShapeInv, Calls
  <2>8. \A t : InFlight(t)' = InFlight(t)
    BY <2>2 DEF InFlight
  <2>9. QuietInv'
    BY <2>1, <2>2, <2>6, <2>7, <2>8, SameRows, SameSums DEF QuietInv
  <2>10. StoredInv'
    BY <2>1, <2>6, SameRows, SameSums DEF StoredInv
  <2>11. QED
    BY <2>3, <2>4, <2>5, <2>9, <2>10
<1>3. QED
  BY <1>1, <1>2

\* A sale, a movement or a cancellation ends by changing the rows of its shift
\* only, which no quiet closing is using.
LEMMA QuietWhenRowsChange ==
  ASSUME TillInv, NEW x \in Calls \ Closes, NEW how \in Ended, End(x, how),
         UNCHANGED <<status, arqueo, overlapped>>,
         \A t \in Shifts : t # shift[x] => /\ MovementsIn(t)' = MovementsIn(t)
                                          /\ SalesIn(t)' = SalesIn(t)
  PROVE  QuietInv' /\ StoredInv'
<1> USE DEF TillInv
<1>1. ASSUME NEW t \in Shifts, t = shift[x], t \notin overlapped
      PROVE  status[t] # "CLOSED" /\ \A c \in Closes : shift'[c] # t
  <2>1. x \in InFlight(t)
    BY <1>1 DEF InFlight
  <2>2. QED
    BY <1>1, <2>1, QuietAlone, TillAssumption DEF End, ShapeInv, Calls
<1>2. QuietInv'
  BY <1>1, EndQuiet DEF QuietInv
<1>3. StoredInv'
  BY <1>1, SameSums DEF StoredInv
<1>4. QED
  BY <1>2, <1>3

\* The order or the movement is inserted.
LEMMA InsertCashInv ==
  ASSUME TillInv, NEW x \in Sales \cup Movements, InsertCash(x)
  PROVE  TillInv'
<1> USE DEF TillInv, InsertCash
<1>1. /\ x \in Calls \ Closes /\ x \notin Opens /\ x \notin Cancels
      /\ pc[x] = "ready" /\ place[x] = NoShift /\ shift[x] \in Shifts
  BY TillAssumption DEF CallInv, ShapeInv, Calls, Running, Reading
<1>2. /\ pc' = [pc EXCEPT ![x] = "done"] /\ shift' = [shift EXCEPT ![x] = NoShift]
      /\ place' = [place EXCEPT ![x] = shift[x]] /\ End(x, "done")
  BY DEF End, Goto
<1>3. read' = read
  BY <1>1 DEF End, ShapeInv, Results
<1>4. "done" \in Ended /\ "done" \notin Running
  BY DEF Ended, Running, Reading
<1>5. ShapeInv'
  BY <1>1, <1>2, <1>3, <1>4 DEF ShapeInv
<1>6. CallInv'
  <2>1. \A s \in Opens : pc'[s] # "done" => status'[s] = "none"
    BY <1>1, <1>2, TillAssumption DEF CallInv, ShapeInv, Calls
  <2>2. \A y \in Calls : shift'[y] = NoShift <=> y \in Opens \/ pc'[y] \notin Running
    BY <1>1, <1>2, <1>4, TillAssumption DEF CallInv, ShapeInv
  <2>3. \A y \in Sales \cup Movements : pc'[y] # "done" => place'[y] = NoShift
    BY <1>1, <1>2, TillAssumption DEF CallInv, ShapeInv, Calls
  <2>4. \A c \in Closes : pc'[c] \notin {"creditNote", "reread"}
    BY <1>1, <1>2, TillAssumption DEF CallInv, ShapeInv, Calls
  <2>5. ASSUME NEW c \in Cancels, pc'[c] \in Running
        PROVE  place'[Cancelled[c]] = shift'[c]
    <3>1. c \in Calls /\ c # x /\ pc[c] \in Running /\ shift'[c] = shift[c] /\ c \notin Opens
      BY <1>1, <1>2, <2>5, TillAssumption DEF ShapeInv, Calls
    <3>2. place[Cancelled[c]] # NoShift
      BY <3>1 DEF CallInv
    <3>3. QED
      BY <1>1, <1>2, <3>1, <3>2, TillAssumption DEF CallInv, ShapeInv
  <2>6. \A y \in Calls : shift'[y] # NoShift => status'[shift'[y]] # "none"
    BY <1>1, <1>2 DEF CallInv, ShapeInv
  <2>7. \A o \in Sales : pc'[o] \in {"ready", "done"} => Accepted(Payment[o])
    BY <1>1, <1>2 DEF CallInv, ShapeInv, Calls
  <2>8. QED
    BY <2>1, <2>2, <2>3, <2>4, <2>5, <2>6, <2>7 DEF CallInv
<1>7. OneOpenShift'
  BY DEF OneOpenShift, OpenShifts
<1>8. ASSUME NEW t \in Shifts, t # shift[x]
      PROVE  MovementsIn(t)' = MovementsIn(t) /\ SalesIn(t)' = SalesIn(t)
  BY <1>1, <1>2, <1>8, TillAssumption DEF MovementsIn, SalesIn, ShapeInv
<1>9. QuietInv' /\ StoredInv'
  BY <1>1, <1>2, <1>4, <1>8, QuietWhenRowsChange
<1>10. QED
  BY <1>5, <1>6, <1>7, <1>9

\* The order is marked CANCELLED.
LEMMA CancelOrderInv ==
  ASSUME TillInv, NEW c \in Cancels, CancelOrder(c)
  PROVE  TillInv'
<1> USE DEF TillInv, CancelOrder
<1>1. /\ c \in Calls \ Closes /\ c \notin Opens \cup Sales \cup Movements
      /\ pc[c] # "done" /\ place[Cancelled[c]] = shift[c] /\ Cancelled[c] \in Sales
  BY TillAssumption DEF CallInv, ShapeInv, Calls, Running, Reading
<1>2. "done" \in Ended
  BY DEF Ended
<1>3. ShapeInv' /\ CallInv'
  BY <1>1, <1>2, EndShape DEF ShapeInv
<1>4. OneOpenShift'
  BY DEF OneOpenShift, OpenShifts
<1>5. ASSUME NEW t \in Shifts, t # shift[c]
      PROVE  MovementsIn(t)' = MovementsIn(t) /\ SalesIn(t)' = SalesIn(t)
  BY <1>1, <1>5 DEF MovementsIn, SalesIn
<1>6. QuietInv' /\ StoredInv'
  BY <1>1, <1>2, <1>5, QuietWhenRowsChange
<1>7. QED
  BY <1>3, <1>4, <1>6


\* A query of a closing call changes nothing but what that call has read.
LEMMA QueryInv ==
  ASSUME TillInv, NEW c \in Closes, NEW from \in Reading, NEW to \in Running,
         to \in {"outflows", "sales", "ready"},
         Query(c, from, to),
         \A d \in Closes : d # c => read'[d] = read[d],
         Results(read'),
         \A s \in Shifts \ overlapped : shift[c] = s =>
           /\ read'[c].inflows = Inflows(s)
           /\ to \in {"sales", "ready"} => read'[c].outflows = Outflows(s)
           /\ to = "ready" => read'[c].sales = CashSales(s)
  PROVE  TillInv'
<1> USE DEF TillInv, Query, Goto
<1>1. /\ pc' = [pc EXCEPT ![c] = to] /\ pc' \in [Calls -> {"start"} \cup Running \cup Ended]
      /\ c \in Calls /\ to # "done" /\ from # "done" /\ from \in Running
      /\ to \notin {"creditNote", "reread"}
  BY DEF ShapeInv, Running, Reading, Calls
<1>2. ShapeInv'
  BY <1>1 DEF ShapeInv
<1>3. CallInv'
  BY <1>1, TillAssumption DEF CallInv, ShapeInv, Calls
<1>4. OneOpenShift'
  BY DEF OneOpenShift, OpenShifts
<1>5. \A s : InFlight(s)' = InFlight(s)
  BY DEF InFlight
<1>6. ASSUME NEW s \in Shifts, s \notin overlapped, NEW d \in Closes, shift[d] = s
      PROVE  /\ InFlight(s) = {d}
             /\ pc'[d] \in {"outflows", "sales", "ready"} => read'[d].inflows = Inflows(s)
             /\ pc'[d] \in {"sales", "ready"} => read'[d].outflows = Outflows(s)
             /\ pc'[d] = "ready" => read'[d].sales = CashSales(s)
  <2>1. CASE d = c
    BY <1>1, <1>6, <2>1 DEF QuietInv, ShapeInv
  <2>2. CASE d # c
    BY <1>1, <1>6, <2>2 DEF QuietInv, ShapeInv, Calls
  <2>3. QED
    BY <2>1, <2>2
<1>7. QuietInv'
  BY <1>5, <1>6, SameRows, SameSums DEF QuietInv
<1>8. StoredInv'
  BY SameRows, SameSums DEF StoredInv
<1>9. QED
  BY <1>2, <1>3, <1>4, <1>7, <1>8

\* The three queries of computeSummary, one by one.
LEMMA QueriesInv ==
  ASSUME TillInv, NEW c \in Closes,
         QueryInflows(c) \/ QueryOutflows(c) \/ QueryCashSales(c)
  PROVE  TillInv'
<1>0. ShapeInv /\ QuietInv
  BY DEF TillInv
<1>1. CASE QueryInflows(c)
  <2>1. /\ Query(c, "inflows", "outflows") /\ pc[c] = "inflows"
        /\ read' = [read EXCEPT ![c].inflows = Inflows(shift[c])]
    BY <1>1 DEF QueryInflows, Query
  <2>2. Results(read')
    BY <1>0, <2>1 DEF ShapeInv, Results
  <2>3. /\ read'[c].inflows = Inflows(shift[c])
        /\ \A d \in Closes : d # c => read'[d] = read[d]
    BY <1>0, <2>1 DEF ShapeInv, Results
  <2>4. \A s \in Shifts \ overlapped : shift[c] = s =>
          /\ read'[c].inflows = Inflows(s)
          /\ "outflows" \in {"sales", "ready"} => read'[c].outflows = Outflows(s)
          /\ "outflows" = "ready" => read'[c].sales = CashSales(s)
    BY <2>3
  <2>5. "inflows" \in Reading /\ "outflows" \in Running /\ "outflows" \in {"outflows", "sales", "ready"}
    BY DEF Running, Reading
  <2>6. QED
    BY <2>1, <2>2, <2>3, <2>4, <2>5, QueryInv
<1>2. CASE QueryOutflows(c)
  <2>1. /\ Query(c, "outflows", "sales") /\ pc[c] = "outflows"
        /\ read' = [read EXCEPT ![c].outflows = Outflows(shift[c])]
    BY <1>2 DEF QueryOutflows, Query
  <2>2. Results(read')
    BY <1>0, <2>1 DEF ShapeInv, Results
  <2>3. /\ read'[c].outflows = Outflows(shift[c]) /\ read'[c].inflows = read[c].inflows
        /\ \A d \in Closes : d # c => read'[d] = read[d]
    BY <1>0, <2>1 DEF ShapeInv, Results
  <2>4. \A s \in Shifts \ overlapped : shift[c] = s => read'[c].inflows = Inflows(s)
    BY <1>0, <2>1, <2>3 DEF QuietInv
  <2>5. \A s \in Shifts \ overlapped : shift[c] = s =>
          /\ read'[c].inflows = Inflows(s)
          /\ "sales" \in {"sales", "ready"} => read'[c].outflows = Outflows(s)
          /\ "sales" = "ready" => read'[c].sales = CashSales(s)
    BY <2>3, <2>4
  <2>6. "outflows" \in Reading /\ "sales" \in Running /\ "sales" \in {"outflows", "sales", "ready"}
    BY DEF Running, Reading
  <2>7. QED
    BY <2>1, <2>2, <2>3, <2>5, <2>6, QueryInv
<1>3. CASE QueryCashSales(c)
  <2>1. /\ Query(c, "sales", "ready") /\ pc[c] = "sales"
        /\ read' = [read EXCEPT ![c].sales = CashSales(shift[c])]
    BY <1>3 DEF QueryCashSales, Query
  <2>2. Results(read')
    BY <1>0, <2>1 DEF ShapeInv, Results
  <2>3. /\ read'[c].sales = CashSales(shift[c])
        /\ read'[c].inflows = read[c].inflows /\ read'[c].outflows = read[c].outflows
        /\ \A d \in Closes : d # c => read'[d] = read[d]
    BY <1>0, <2>1 DEF ShapeInv, Results
  <2>4. \A s \in Shifts \ overlapped : shift[c] = s =>
          read'[c].inflows = Inflows(s) /\ read'[c].outflows = Outflows(s)
    BY <1>0, <2>1, <2>3 DEF QuietInv
  <2>5. \A s \in Shifts \ overlapped : shift[c] = s =>
          /\ read'[c].inflows = Inflows(s)
          /\ read'[c].outflows = Outflows(s)
          /\ read'[c].sales = CashSales(s)
    BY <2>3, <2>4
  <2>6. "sales" \in Reading /\ "ready" \in Running /\ "ready" \in {"outflows", "sales", "ready"}
    BY DEF Running, Reading
  <2>7. QED
    BY <2>1, <2>2, <2>3, <2>5, <2>6, QueryInv
<1>4. QED
  BY <1>1, <1>2, <1>3

\* A quiet closing stores what the rows add up to and leaves nobody behind.
LEMMA CloseShiftInv ==
  ASSUME TillInv, NEW c \in Closes, CloseShift(c)
  PROVE  TillInv'
<1> USE DEF TillInv, CloseShift
<1>1. /\ c \in Calls /\ c \notin Opens \cup Sales \cup Movements
      /\ pc[c] = "ready" /\ shift[c] \in Shifts /\ "done" \in Ended
  BY TillAssumption DEF CallInv, ShapeInv, Calls, Running, Reading, Ended
<1>2. /\ status' = [status EXCEPT ![shift[c]] = "CLOSED"]
      /\ arqueo' = [arqueo EXCEPT ![shift[c]] =
                      ExpectedOf(shift[c], read[c].inflows, read[c].outflows, read[c].sales)]
      /\ End(c, "done") /\ UNCHANGED <<place, cancelled, overlapped>>
  OBVIOUS
<1>3. ShapeInv' /\ CallInv'
  <2>1. status[shift[c]] # "none"
    BY <1>1, TillAssumption DEF CallInv
  <2>2. \A s \in Shifts : status[s] = "none" <=> status'[s] = "none"
    BY <1>2, <2>1 DEF ShapeInv
  <2>3. status' \in [Shifts -> {"none", "OPEN", "CLOSED"}]
    BY <1>2 DEF ShapeInv
  <2>4. arqueo' = [s \in Shifts |-> arqueo'[s]]
    BY <1>2 DEF ShapeInv
  <2>5. CallInv' /\ /\ pc' \in [Calls -> {"start"} \cup Running \cup Ended]
                   /\ shift' \in [Calls -> Shifts \cup {NoShift}]
                   /\ Results(read')
    BY <1>1, <1>2, <2>2, EndShape
  <2>6. QED
    BY <2>3, <2>4, <2>5, <1>2 DEF ShapeInv
<1>4. OneOpenShift'
  BY <1>2 DEF OneOpenShift, OpenShifts, ShapeInv
<1>5. ASSUME NEW s \in Shifts, s = shift[c], s \notin overlapped
      PROVE  /\ InFlight(s)' = {}
             /\ arqueo'[s] = ExpectedCash(s)
  <2>1. InFlight(s) = {c} /\ arqueo'[s] = ExpectedCash(s)
    BY <1>1, <1>2, <1>5 DEF QuietInv, ShapeInv, ExpectedCash
  <2>2. InFlight(s)' = {}
    BY <1>2, <2>1, TillAssumption DEF InFlight, End, ShapeInv
  <2>3. QED
    BY <2>1, <2>2
<1>6. ASSUME NEW s \in Shifts, s # shift[c]
      PROVE  status'[s] = status[s] /\ arqueo'[s] = arqueo[s]
  BY <1>2, <1>6 DEF ShapeInv
<1>7. QuietInv'
  <2> SUFFICES ASSUME NEW s \in Shifts, s \notin overlapped
               PROVE  /\ status'[s] = "CLOSED" => InFlight(s)' = {}
                      /\ \A d \in Closes : shift'[d] = s =>
                           /\ InFlight(s)' = {d}
                           /\ pc'[d] \in {"outflows", "sales", "ready"} => read'[d].inflows = Inflows(s)'
                           /\ pc'[d] \in {"sales", "ready"} => read'[d].outflows = Outflows(s)'
                           /\ pc'[d] = "ready" => read'[d].sales = CashSales(s)'
    BY <1>2 DEF QuietInv
  <2>1. QED
    BY <1>1, <1>2, <1>5, <1>6, EndQuiet, SameRows
<1>8. StoredInv'
  BY <1>2, <1>5, <1>6, SameRows, SameSums DEF StoredInv
<1>9. QED
  BY <1>3, <1>4, <1>7, <1>8

\* Every call reads its shift OPEN, or reads none.
LEMMA BeginInv ==
  ASSUME TillInv, NEW x \in Calls, Begin(x)
  PROVE  TillInv'
<1>1. CASE x \in Opens /\ BeginOpen(x)
  <2>1. CASE OpenShifts # {}
    BY <1>1, <2>1, GiveUpInv DEF BeginOpen, Refuse
  <2>2. CASE OpenShifts = {}
    BY <1>1, <2>2, MoveInv, TillAssumption DEF BeginOpen
  <2>3. QED
    BY <2>1, <2>2
<1>2. CASE x \in Sales \cup Movements /\ \E s \in Shifts : BeginCash(x, s)
  <2>1. PICK s \in Shifts : BeginCash(x, s)
    BY <1>2
  <2>2. x \notin Opens /\ x \notin Closes /\ x \notin Cancels
    BY <1>2, TillAssumption
  <2>3. CASE status[s] = "OPEN" /\ (x \in Sales => Accepted(Payment[x]))
    BY <2>1, <2>2, <2>3, EnterInv DEF BeginCash
  <2>4. CASE ~(status[s] = "OPEN" /\ (x \in Sales => Accepted(Payment[x])))
    BY <2>1, <2>4, GiveUpInv DEF BeginCash, Refuse
  <2>5. QED
    BY <2>3, <2>4
<1>3. CASE x \in Closes /\ \E s \in Shifts : BeginClose(x, s)
  <2>1. PICK s \in Shifts : BeginClose(x, s)
    BY <1>3
  <2>2. x \notin Opens /\ x \notin Cancels /\ x \notin Sales
    BY <1>3, TillAssumption
  <2>3. CASE status[s] = "OPEN"
    BY <1>3, <2>1, <2>2, <2>3, EnterInv DEF BeginClose
  <2>4. CASE status[s] # "OPEN"
    BY <2>1, <2>4, GiveUpInv DEF BeginClose, Refuse
  <2>5. QED
    BY <2>3, <2>4
<1>4. CASE x \in Cancels /\ BeginCancel(x)
  <2>1. x \notin Opens /\ x \notin Closes /\ x \notin Sales
    BY <1>4, TillAssumption
  <2>2. CASE Cancelled[x] \notin cancelled /\ status[place[Cancelled[x]]] = "OPEN"
    <3>1. Cancelled[x] \in Sales /\ place[Cancelled[x]] \in Shifts
      BY <1>4, TillAssumption DEF BeginCancel, TillInv, ShapeInv
    <3>2. pc[x] = "start" /\ Enter(x, place[Cancelled[x]], "creditNote")
      BY <1>4, <2>2 DEF BeginCancel
    <3>3. QED
      BY <2>1, <2>2, <3>1, <3>2, EnterInv
  <2>3. CASE ~(Cancelled[x] \notin cancelled /\ status[place[Cancelled[x]]] = "OPEN")
    BY <1>4, <2>3, GiveUpInv DEF BeginCancel, Refuse
  <2>4. QED
    BY <2>2, <2>3
<1>5. QED
  BY <1>1, <1>2, <1>3, <1>4 DEF Begin

\* The steps of a cancellation that write nothing.
LEMMA CancelStepsInv ==
  ASSUME TillInv, NEW x \in Cancels,
         CreditNote(x) \/ CreditNoteRejected(x) \/ RereadOrder(x)
  PROVE  TillInv'
<1>1. x \in Calls /\ x \notin Opens
  BY TillAssumption DEF Calls
<1>2. CASE CreditNote(x)
  BY <1>1, <1>2, MoveInv DEF CreditNote, Running
<1>3. CASE CreditNoteRejected(x)
  BY <1>1, <1>3, GiveUpInv DEF CreditNoteRejected, Refuse
<1>4. CASE RereadOrder(x)
  <2>1. CASE Cancelled[x] \in cancelled
    BY <1>1, <1>4, <2>1, GiveUpInv DEF RereadOrder, Refuse
  <2>2. CASE Cancelled[x] \notin cancelled
    BY <1>1, <1>4, <2>2, MoveInv DEF RereadOrder, Running
  <2>3. QED
    BY <2>1, <2>2
<1>5. QED
  BY <1>2, <1>3, <1>4

\* Every step of Next keeps the invariant.
LEMMA NextInv ==
  ASSUME TillInv, [Next]_vars
  PROVE  TillInv'
<1>1. CASE Next
  <2>1. PICK x \in Calls :
          Begin(x) \/ Work(x) \/ Lose(x) \/ (x \in Cancels /\ CreditNoteRejected(x))
    BY <1>1 DEF Next
  <2>2. CASE Begin(x)
    BY <2>2, BeginInv
  <2>3. CASE Work(x)
    BY <2>3, CreateShiftInv, InsertCashInv, QueriesInv, CloseShiftInv,
       CancelStepsInv, CancelOrderInv DEF Work
  <2>4. CASE Lose(x)
    BY <2>4, GiveUpInv DEF Lose, Running, Reading
  <2>5. CASE x \in Cancels /\ CreditNoteRejected(x)
    BY <2>5, CancelStepsInv
  <2>6. QED
    BY <2>1, <2>2, <2>3, <2>4, <2>5
<1>2. CASE UNCHANGED vars
  <2> USE <1>2 DEF vars, TillInv
  <2>1. ShapeInv' /\ CallInv' /\ OneOpenShift'
    BY DEF ShapeInv, CallInv, OneOpenShift, OpenShifts
  <2>2. \A s : InFlight(s)' = InFlight(s)
    BY DEF InFlight
  <2>3. QuietInv' /\ StoredInv'
    BY <2>2, SameRows, SameSums DEF QuietInv, StoredInv
  <2>4. QED
    BY <2>1, <2>3
<1>3. QED
  BY <1>1, <1>2

\* TillInv holds in every reachable state.
THEOREM TillInvariant == Spec => []TillInv
BY InitInv, NextInv, PTL DEF Spec

\* open: a register never has two OPEN shifts, whatever simultaneous openings
\* read.
THEOREM TillOneOpenShift == Spec => []OneOpenShift
<1>1. TillInv => OneOpenShift
  BY DEF TillInv
<1>2. QED
  BY <1>1, TillInvariant, PTL

\* What computeCashSalesTotal counts of a payment attemptCreate accepts: the
\* cash less the change, or nothing where that is negative.
LEMMA NetCashIsKept ==
  ASSUME NEW p \in [total : Nat, cash : Nat, other : Nat], Accepted(p)
  PROVE  NetCash(p) = Kept(p) + Uncovered(p)
<1>1. p.total \in Nat /\ p.cash \in Nat /\ p.other \in Nat
  OBVIOUS
<1>2. QED
  BY <1>1 DEF Accepted, NetCash, Kept, Uncovered

\* close: an arqueo stored while nobody else used the shift is, then and ever
\* after, the cash in the drawer and the change its sales did not cover.
THEOREM TillQuietCloseReconciles == Spec => []QuietCloseReconciles
<1>1. ASSUME TillInv, NEW s \in Shifts
      PROVE  ExpectedCash(s) = DrawerAndUncovered(s)
  <2>1. \A o \in SalesIn(s) :
          NetCash(Payment[o]) = Kept(Payment[o]) + Uncovered(Payment[o])
    <3> SUFFICES ASSUME NEW o \in SalesIn(s)
                 PROVE  NetCash(Payment[o]) = Kept(Payment[o]) + Uncovered(Payment[o])
      OBVIOUS
    <3>1. o \in Sales /\ place[o] = s
      BY DEF SalesIn
    <3>2. Accepted(Payment[o])
      BY <1>1, <3>1, TillAssumption DEF TillInv, CallInv
    <3>3. QED
      BY <3>1, <3>2, NetCashIsKept, TillAssumption
  <2>2. [o \in SalesIn(s) |-> NetCash(Payment[o])]
          = [o \in SalesIn(s) |-> Kept(Payment[o]) + Uncovered(Payment[o])]
    BY <2>1
  <2>3. QED
    BY <2>2 DEF ExpectedCash, DrawerAndUncovered, CashSales
<1>2. TillInv => QuietCloseReconciles
  BY <1>1 DEF TillInv, StoredInv, QuietCloseReconciles
<1>3. QED
  BY <1>2, TillInvariant, PTL

\* A step leaves alone a closed shift that no call is using.
LEMMA SettledStep ==
  ASSUME TillInv, [Next]_vars, NEW s \in Shifts,
         status[s] = "CLOSED", InFlight(s) = {}
  PROVE  /\ status'[s] = "CLOSED"
         /\ arqueo'[s] = arqueo[s]
         /\ MovementsIn(s)' = MovementsIn(s)
         /\ SalesIn(s)' = SalesIn(s)
<1> DEFINE Same == UNCHANGED <<status, arqueo, place, cancelled>>
<1>0. ShapeInv /\ CallInv
  BY DEF TillInv
<1>1. CASE Same
  BY <1>1, SameRows
<1>2. CASE Next /\ ~Same
  <2>1. PICK x \in Calls :
          Begin(x) \/ Work(x) \/ Lose(x) \/ (x \in Cancels /\ CreditNoteRejected(x))
    BY <1>2 DEF Next
  <2>2. ~Begin(x) /\ ~Lose(x) /\ ~CreditNoteRejected(x)
    BY <1>2 DEF Begin, BeginOpen, BeginCash, BeginClose, BeginCancel, Lose,
                CreditNoteRejected, Refuse, Enter
  <2>3. \/ x \in Opens /\ CreateShift(x) /\ OpenShifts = {}
        \/ x \in Sales \cup Movements /\ InsertCash(x)
        \/ x \in Closes /\ CloseShift(x)
        \/ x \in Cancels /\ CancelOrder(x)
    BY <1>2, <2>1, <2>2 DEF Work, CreateShift, Refuse, QueryInflows, QueryOutflows,
                            QueryCashSales, Query, CreditNote, RereadOrder
  <2>4. shift[x] # s
    BY DEF InFlight
  <2>5. CASE x \in Opens /\ CreateShift(x) /\ OpenShifts = {}
    <3>1. status[x] = "none" /\ UNCHANGED <<arqueo, place, cancelled>>
          /\ status' = [status EXCEPT ![x] = "OPEN"]
      BY <1>0, <2>5 DEF CreateShift, CallInv
    <3>2. QED
      BY <1>0, <3>1, SameRows DEF ShapeInv
  <2>6. CASE x \in Sales \cup Movements /\ InsertCash(x)
    <3>1. place[x] = NoShift /\ UNCHANGED <<status, arqueo, cancelled>>
          /\ place' = [place EXCEPT ![x] = shift[x]]
      BY <1>0, <2>6 DEF InsertCash, CallInv
    <3>2. QED
      BY <1>0, <2>4, <3>1, TillAssumption DEF MovementsIn, SalesIn, ShapeInv
  <2>7. CASE x \in Closes /\ CloseShift(x)
    BY <1>0, <2>4, <2>7, SameRows DEF CloseShift, ShapeInv
  <2>8. CASE x \in Cancels /\ CancelOrder(x)
    <3>1. place[Cancelled[x]] = shift[x] /\ UNCHANGED <<status, arqueo, place>>
          /\ cancelled' = cancelled \cup {Cancelled[x]}
      BY <1>0, <2>8 DEF CancelOrder, CallInv, Running
    <3>2. QED
      BY <2>4, <3>1 DEF MovementsIn, SalesIn
  <2>9. QED
    BY <2>3, <2>5, <2>6, <2>7, <2>8
<1>3. QED
  BY <1>1, <1>2 DEF vars

\* Calls take up only an open shift: a closed one left alone stays alone.
LEMMA LeftAlone ==
  ASSUME TillInv, [Next]_vars, NEW s \in Shifts,
         status[s] = "CLOSED", InFlight(s) = {}
  PROVE  InFlight(s)' = {}
<1>0. ShapeInv
  BY DEF TillInv
<1>1. CASE UNCHANGED shift
  BY <1>1 DEF InFlight
<1>2. CASE \E x \in Calls, t \in Shifts \cup {NoShift} :
             t # s /\ shift' = [shift EXCEPT ![x] = t]
  BY <1>0, <1>2 DEF InFlight, ShapeInv
<1>3. NoShift # s
  BY TillAssumption
<1>4. CASE Next /\ shift' # shift
  <2>1. PICK x \in Calls :
          Begin(x) \/ Work(x) \/ Lose(x) \/ (x \in Cancels /\ CreditNoteRejected(x))
    BY <1>4 DEF Next
  <2>2. CASE shift' = [shift EXCEPT ![x] = NoShift]
    BY <1>2, <1>3, <2>2
  <2>3. CASE \E t \in Shifts : status[t] = "OPEN"
                              /\ shift' = [shift EXCEPT ![x] = t]
    BY <1>2, <2>3
  <2>4. CASE Begin(x)
    <3>1. CASE x \in Opens /\ BeginOpen(x)
      BY <1>4, <2>2, <3>1 DEF BeginOpen, Refuse, End
    <3>2. CASE x \in Sales \cup Movements /\ \E t \in Shifts : BeginCash(x, t)
      BY <2>2, <2>3, <3>2 DEF BeginCash, Refuse, End, Enter
    <3>3. CASE x \in Closes /\ \E t \in Shifts : BeginClose(x, t)
      BY <2>2, <2>3, <3>3 DEF BeginClose, Refuse, End, Enter
    <3>4. CASE x \in Cancels /\ BeginCancel(x)
      <4>1. place[Cancelled[x]] \in Shifts
        BY <1>0, <3>4, TillAssumption DEF BeginCancel, ShapeInv
      <4>2. QED
        BY <2>2, <2>3, <3>4, <4>1 DEF BeginCancel, Refuse, End, Enter
    <3>5. QED
      BY <2>4, <3>1, <3>2, <3>3, <3>4 DEF Begin
  <2>5. CASE Work(x)
    BY <1>4, <2>2, <2>5 DEF Work, CreateShift, InsertCash, QueryInflows, QueryOutflows,
                            QueryCashSales, Query, CloseShift, CreditNote, RereadOrder,
                            CancelOrder, Refuse, End
  <2>6. CASE Lose(x) \/ CreditNoteRejected(x)
    BY <2>2, <2>6 DEF Lose, CreditNoteRejected, Refuse, End
  <2>7. QED
    BY <2>1, <2>4, <2>5, <2>6
<1>5. QED
  BY <1>1, <1>4 DEF vars

\* close, addMovement, registerPayment, attemptCreate and cancel: no call takes
\* up a closed shift, and no step changes its arqueo or its cash.
THEOREM TillClosedShiftSettles == Spec => ClosedShiftSettles
<1>1. TillInv /\ [Next]_vars =>
        \A s \in Shifts :
          status[s] = "CLOSED" /\ InFlight(s) = {} =>
            /\ InFlight(s)' = {}
            /\ status'[s] = "CLOSED"
            /\ arqueo'[s] = arqueo[s]
            /\ ExpectedCash(s)' = ExpectedCash(s)
  BY LeftAlone, SettledStep, SameSums
<1>2. QED
  BY <1>1, TillInvariant, PTL DEF Spec, ClosedShiftSettles

-----------------------------------------------------------------------------
(* What a closing counts while cash comes in, goes out and is cancelled.    *)

\* Rows stay where they are, and no order comes back from CANCELLED.
LEMMA RowsStay ==
  ASSUME TillInv, [Next]_vars
  PROVE  /\ cancelled \subseteq cancelled'
         /\ \A y \in Sales \cup Movements : place[y] # NoShift => place'[y] = place[y]
<1>0. ShapeInv /\ CallInv
  BY DEF TillInv
<1>1. CASE UNCHANGED <<place, cancelled>>
  BY <1>1
<1>2. CASE Next /\ ~UNCHANGED <<place, cancelled>>
  <2>1. PICK x \in Calls :
          Begin(x) \/ Work(x) \/ Lose(x) \/ (x \in Cancels /\ CreditNoteRejected(x))
    BY <1>2 DEF Next
  <2>2. \/ x \in Sales \cup Movements /\ InsertCash(x)
        \/ x \in Cancels /\ CancelOrder(x)
    BY <1>2, <2>1 DEF Begin, BeginOpen, BeginCash, BeginClose, BeginCancel, Lose,
                      CreditNoteRejected, Refuse, Enter, Work, CreateShift, QueryInflows,
                      QueryOutflows, QueryCashSales, Query, CloseShift, CreditNote, RereadOrder
  <2>3. CASE x \in Sales \cup Movements /\ InsertCash(x)
    BY <1>0, <2>3 DEF InsertCash, CallInv, ShapeInv
  <2>4. CASE x \in Cancels /\ CancelOrder(x)
    BY <2>4 DEF CancelOrder
  <2>5. QED
    BY <2>2, <2>3, <2>4
<1>3. QED
  BY <1>1, <1>2 DEF vars

\* So what a closing may count it may count after any step of others.
LEMMA MayCountStays ==
  ASSUME TillInv, [Next]_vars, NEW c \in Closes, shift[c] \in Shifts,
         shift'[c] = shift[c], begun'[c] = begun[c],
         NEW rows, rows \subseteq Sales \cup Movements, NEW X \in MayCount(c, rows)
  PROVE  X \in MayCount(c, rows)'
<1>1. /\ cancelled \subseteq cancelled'
      /\ \A y \in Sales \cup Movements : place[y] # NoShift => place'[y] = place[y]
  BY RowsStay
<1>2. shift[c] # NoShift
  BY TillAssumption
<1>3. /\ X \subseteq {x \in rows : place[x] = shift[c]}
      /\ (rows \cap begun[c].rows) \ cancelled \subseteq X
      /\ X \cap begun[c].void = {}
  BY DEF MayCount
<1>4. X \subseteq {x \in rows : place'[x] = shift'[c]}
  BY <1>1, <1>2, <1>3
<1>5. (rows \cap begun'[c].rows) \ cancelled' \subseteq X
  BY <1>1, <1>3
<1>6. QED
  BY <1>3, <1>4, <1>5 DEF MayCount

\* A step of others leaves what a closing has read a sum of rows it may count.
LEMMA CountedStays ==
  ASSUME TillInv, [Next]_vars, NEW c \in Closes, Counted(c),
         begun \in [Closes -> [rows : SUBSET (Sales \cup Movements), void : SUBSET Sales]],
         UNCHANGED <<pc[c], shift[c], read[c], begun[c]>>
  PROVE  Counted(c)'
<1>1. SUFFICES ASSUME pc[c] \in Reading \cup {"ready"} PROVE Counted(c)'
  BY DEF Counted
<1>2. shift[c] \in Shifts /\ shift[c] # NoShift
  BY <1>1, TillAssumption DEF TillInv, CallInv, ShapeInv, Calls, Running
<1>3. \A X \in MayCount(c, Movements) : X \in MayCount(c, Movements)'
  BY <1>2, MayCountStays
<1>4. \A X \in MayCount(c, Sales) : X \in MayCount(c, Sales)'
  BY <1>2, MayCountStays
<1>5. begun'[c].void \subseteq cancelled'
  BY <1>1, RowsStay DEF Counted
<1>6. \A x \in begun'[c].rows : place'[x] = shift'[c]
  BY <1>1, <1>2, RowsStay DEF Counted
<1>7. pc[c] # "inflows" =>
        \E A \in MayCount(c, Movements)' :
          /\ read[c].inflows = SumFunctionOnSet(Inflow, A)
          /\ pc[c] # "outflows" =>
               \E B \in MayCount(c, Movements)' :
                 A \subseteq B /\ read[c].outflows = SumFunctionOnSet(Outflow, B)
  BY <1>1, <1>3 DEF Counted
<1>8. pc[c] = "ready" =>
        \E C \in MayCount(c, Sales)' :
          read[c].sales = SumFunction([o \in C |-> NetCash(Payment[o])])
  BY <1>1, <1>4 DEF Counted
<1>9. QED
  BY <1>5, <1>6, <1>7, <1>8 DEF Counted, Inflow, Outflow, NetCash

\* The rows that a query finds are rows that the closing may count.
LEMMA FoundMayCount ==
  ASSUME NEW c \in Closes, Counted(c), pc[c] \in Reading,
         begun \in [Closes -> [rows : SUBSET (Sales \cup Movements), void : SUBSET Sales]],
         Sales \cap Movements = {}
  PROVE  /\ MovementsIn(shift[c]) \in MayCount(c, Movements)
         /\ SalesIn(shift[c]) \in MayCount(c, Sales)
         /\ \A A \in MayCount(c, Movements) : A \subseteq MovementsIn(shift[c])
BY DEF Counted, MayCount, MovementsIn, SalesIn

\* One query of c: what it reads is a sum of rows that c may count.
LEMMA QueryCounted ==
  ASSUME TillInv, CountedInv, [Next]_vars, NEW c \in Closes,
         QueryInflows(c) \/ QueryOutflows(c) \/ QueryCashSales(c)
  PROVE  Counted(c)'
<1>1. /\ pc[c] \in Reading /\ shift'[c] = shift[c] /\ begun'[c] = begun[c]
      /\ UNCHANGED <<place, cancelled, shift, begun>>
      /\ begun \in [Closes -> [rows : SUBSET (Sales \cup Movements), void : SUBSET Sales]]
      /\ Counted(c)
  BY DEF QueryInflows, QueryOutflows, QueryCashSales, Query, Reading, CountedInv
<1>2. Sales \cap Movements = {} /\ c \in Calls
  BY TillAssumption DEF Calls
<1>3. /\ MovementsIn(shift[c]) \in MayCount(c, Movements)
      /\ SalesIn(shift[c]) \in MayCount(c, Sales)
      /\ \A A \in MayCount(c, Movements) : A \subseteq MovementsIn(shift[c])
  BY <1>1, <1>2, FoundMayCount
<1>4. \A rows : MayCount(c, rows)' = MayCount(c, rows)
  BY <1>1 DEF MayCount
<1>5. /\ begun[c].void \subseteq cancelled
      /\ \A x \in begun[c].rows : place[x] = shift[c]
  BY <1>1 DEF Counted
<1>6. pc \in [Calls -> {"start"} \cup Running \cup Ended] /\ Results(read)
  BY DEF TillInv, ShapeInv
<1>7. CASE QueryInflows(c)
  <2>1. pc'[c] = "outflows" /\ read'[c].inflows = SumFunctionOnSet(Inflow, MovementsIn(shift[c]))
    BY <1>2, <1>6, <1>7 DEF QueryInflows, Query, Goto, Results, Inflows
  <2>2. QED
    BY <1>1, <1>3, <1>4, <1>5, <2>1 DEF Counted, Inflow, Outflow, NetCash
<1>8. CASE QueryOutflows(c)
  <2>1. /\ pc[c] = "outflows" /\ pc'[c] = "sales"
        /\ read'[c].inflows = read[c].inflows
        /\ read'[c].outflows = SumFunctionOnSet(Outflow, MovementsIn(shift[c]))
    BY <1>2, <1>6, <1>8 DEF QueryOutflows, Query, Goto, Results, Outflows
  <2>2. PICK A \in MayCount(c, Movements) : read[c].inflows = SumFunctionOnSet(Inflow, A)
    BY <1>1, <2>1 DEF Counted
  <2>3. A \subseteq MovementsIn(shift[c])
    BY <1>3
  <2>4. QED
    BY <1>1, <1>3, <1>4, <1>5, <2>1, <2>2, <2>3 DEF Counted, Inflow, Outflow, NetCash
<1>9. CASE QueryCashSales(c)
  <2>1. /\ pc[c] = "sales" /\ pc'[c] = "ready"
        /\ read'[c].inflows = read[c].inflows /\ read'[c].outflows = read[c].outflows
        /\ read'[c].sales = SumFunction([o \in SalesIn(shift[c]) |-> NetCash(Payment[o])])
    BY <1>2, <1>6, <1>9 DEF QueryCashSales, Query, Goto, Results, CashSales
  <2>2. \E A \in MayCount(c, Movements) :
          /\ read[c].inflows = SumFunctionOnSet(Inflow, A)
          /\ \E B \in MayCount(c, Movements) :
               A \subseteq B /\ read[c].outflows = SumFunctionOnSet(Outflow, B)
    BY <1>1, <2>1 DEF Counted
  <2>3. QED
    BY <1>1, <1>3, <1>4, <1>5, <2>1, <2>2 DEF Counted, Inflow, Outflow, NetCash
<1>10. QED
  BY <1>7, <1>8, <1>9

\* The history of the closings keeps its type.
LEMMA BegunType ==
  ASSUME TillInv, CountedInv, [Next]_vars
  PROVE  begun' \in [Closes -> [rows : SUBSET (Sales \cup Movements), void : SUBSET Sales]]
<1> DEFINE T == [rows : SUBSET (Sales \cup Movements), void : SUBSET Sales]
<1> SUFFICES begun' \in [Closes -> T]
  OBVIOUS
<1>1. begun \in [Closes -> T] /\ NotBegun \in T
  BY DEF CountedInv, NotBegun
<1>2. CASE UNCHANGED begun
  BY <1>1, <1>2
<1>3. CASE \E x, how : End(x, how)
  <2>1. PICK x, how : End(x, how)
    BY <1>3
  <2> HIDE DEF T
  <2>2. QED
    BY <1>1, <2>1 DEF End
<1>4. CASE \E x, s, l : Enter(x, s, l)
  <2>1. PICK x, s, l : Enter(x, s, l)
    BY <1>4
  <2> DEFINE b == [rows |-> {y \in Sales \cup Movements : place[y] = s}, void |-> cancelled]
  <2>2. b \in T
    BY DEF TillInv, ShapeInv
  <2>3. begun' = [c \in Closes |-> IF c = x THEN b ELSE begun[c]]
    BY <2>1 DEF Enter
  <2> HIDE DEF T, b
  <2>4. QED
    BY <1>1, <2>2, <2>3
<1>5. CASE Next /\ ~UNCHANGED begun
  <2>1. PICK x \in Calls :
          Begin(x) \/ Work(x) \/ Lose(x) \/ (x \in Cancels /\ CreditNoteRejected(x))
    BY <1>5 DEF Next
  <2>2. CASE Begin(x)
    BY <1>3, <1>4, <1>5, <2>2 DEF Begin, BeginOpen, BeginCash, BeginClose, BeginCancel, Refuse
  <2>3. CASE Work(x)
    BY <1>3, <1>5, <2>3 DEF Work, CreateShift, InsertCash, QueryInflows, QueryOutflows,
                            QueryCashSales, Query, CloseShift, CreditNote, RereadOrder,
                            CancelOrder, Refuse
  <2>4. CASE Lose(x) \/ CreditNoteRejected(x)
    BY <1>3, <2>4 DEF Lose, CreditNoteRejected, Refuse
  <2>5. QED
    BY <2>1, <2>2, <2>3, <2>4
<1>6. QED
  BY <1>2, <1>5 DEF vars

\* A closing that begins has counted nothing; one that ends, no more.
LEMMA CountedStep ==
  ASSUME TillInv, CountedInv, [Next]_vars, NEW c \in Closes
  PROVE  Counted(c)'
<1>0. /\ Counted(c) /\ ShapeInv /\ c \in Calls
      /\ c \notin Opens \cup Sales \cup Movements \cup Cancels
      /\ begun \in [Closes -> [rows : SUBSET (Sales \cup Movements), void : SUBSET Sales]]
  BY TillAssumption DEF CountedInv, TillInv, Calls
<1>1. CASE UNCHANGED <<pc[c], shift[c], read[c], begun[c]>>
  BY <1>0, <1>1, CountedStays
<1>2. CASE \E how \in Ended : End(c, how)
  BY <1>0, <1>2 DEF End, Goto, ShapeInv, Counted, Reading, Ended
<1>3. CASE QueryInflows(c) \/ QueryOutflows(c) \/ QueryCashSales(c)
  BY <1>3, QueryCounted
<1>4. CASE \E s \in Shifts : Enter(c, s, "inflows")
  <2>1. PICK s \in Shifts : Enter(c, s, "inflows")
    BY <1>4
  <2>2. /\ pc'[c] = "inflows" /\ shift'[c] = s /\ UNCHANGED <<place, cancelled>>
        /\ begun'[c] = [rows |-> {y \in Sales \cup Movements : place[y] = s}, void |-> cancelled]
    BY <1>0, <2>1 DEF Enter, Goto, ShapeInv
  <2>3. QED
    BY <2>2 DEF Counted
<1>5. CASE Next
  <2>1. PICK x \in Calls :
          Begin(x) \/ Work(x) \/ Lose(x) \/ (x \in Cancels /\ CreditNoteRejected(x))
    BY <1>5 DEF Next
  <2>2. {"done", "refused", "lost"} = Ended
    BY DEF Ended
  <2>3. CASE x = c
    <3>1. CASE Begin(x)
      BY <1>0, <1>2, <1>4, <2>2, <2>3, <3>1 DEF Begin, BeginClose, Refuse
    <3>2. CASE Work(x)
      BY <1>0, <1>2, <1>3, <2>2, <2>3, <3>2 DEF Work, CloseShift
    <3>3. CASE Lose(x)
      BY <1>2, <2>2, <2>3, <3>3 DEF Lose
    <3>4. QED
      BY <1>0, <2>1, <2>3, <3>1, <3>2, <3>3
  <2>4. CASE x # c
    <3>1. CASE \E how : End(x, how)
      BY <1>0, <1>1, <2>4, <3>1 DEF End, Goto, ShapeInv, Results
    <3>2. CASE \E s, l : Enter(x, s, l)
      BY <1>0, <1>1, <2>4, <3>2 DEF Enter, Goto, ShapeInv
    <3>3. CASE \E l : Goto(x, l) /\ UNCHANGED <<shift, read, begun>>
      BY <1>0, <1>1, <2>4, <3>3 DEF Goto, ShapeInv
    <3>4. CASE QueryInflows(x) \/ QueryOutflows(x) \/ QueryCashSales(x)
      BY <1>0, <1>1, <2>4, <3>4
      DEF QueryInflows, QueryOutflows, QueryCashSales, Query, Goto, ShapeInv, Results
    <3>5. CASE Begin(x)
      BY <3>1, <3>2, <3>3, <3>5 DEF Begin, BeginOpen, BeginCash, BeginClose, BeginCancel, Refuse
    <3>6. CASE Work(x)
      BY <3>1, <3>3, <3>4, <3>6 DEF Work, CreateShift, InsertCash, CloseShift, CreditNote,
                                    RereadOrder, CancelOrder, Refuse
    <3>7. CASE Lose(x) \/ CreditNoteRejected(x)
      BY <3>1, <3>7 DEF Lose, CreditNoteRejected, Refuse
    <3>8. QED
      BY <2>1, <3>5, <3>6, <3>7
  <2>5. QED
    BY <2>3, <2>4
<1>6. QED
  BY <1>1, <1>5 DEF vars

\* CountedInv holds in every reachable state.
THEOREM TillCountedInvariant == Spec => []CountedInv
<1>1. Init => CountedInv
  BY DEF Init, CountedInv, Counted, NotBegun, Reading, Calls
<1>2. TillInv /\ CountedInv /\ [Next]_vars => CountedInv'
  BY BegunType, CountedStep DEF CountedInv
<1>3. QED
  BY <1>1, <1>2, TillInvariant, PTL DEF Spec

\* close and computeSummary: whatever comes in between the queries, the stored
\* expectedCash has each row that was there when the closing began, and no row
\* of another shift or cancelled before.
THEOREM TillCloseCountsRows == Spec => CloseCountsRows
<1>1. ASSUME TillInv, CountedInv, Next, NEW c \in Closes, pc[c] = "ready", pc'[c] = "done"
      PROVE  \E A \in MayCount(c, Movements), B \in MayCount(c, Movements),
                C \in MayCount(c, Sales) :
               /\ A \subseteq B
               /\ arqueo'[shift[c]] =
                    ExpectedOf(shift[c], SumFunctionOnSet(Inflow, A),
                               SumFunctionOnSet(Outflow, B),
                               SumFunction([o \in C |-> NetCash(Payment[o])]))
  <2>0. ShapeInv /\ CallInv /\ c \in Calls /\ shift[c] \in Shifts
        /\ c \notin Opens \cup Sales \cup Movements \cup Cancels
    BY <1>1, TillAssumption DEF TillInv, CallInv, ShapeInv, Calls, Running
  <2>1. CloseShift(c)
    <3>1. PICK x \in Calls :
            Begin(x) \/ Work(x) \/ Lose(x) \/ (x \in Cancels /\ CreditNoteRejected(x))
      BY <1>1 DEF Next
    <3>2. \/ \E l : Goto(x, l)
      BY <3>1 DEF Begin, BeginOpen, BeginCash, BeginClose, BeginCancel, Lose, Refuse, End, Enter,
                  CreditNoteRejected, Work, CreateShift, InsertCash, QueryInflows,
                  QueryOutflows, QueryCashSales, Query, CloseShift, CreditNote,
                  RereadOrder, CancelOrder
    <3>3. x = c
      BY <1>1, <2>0, <3>2 DEF Goto, ShapeInv
    <3>4. ~Begin(x) /\ ~Lose(x)
      BY <1>1, <2>0, <3>3 DEF Begin, BeginClose, Lose, End, Goto, ShapeInv
    <3>5. QED
      BY <1>1, <2>0, <3>1, <3>3, <3>4 DEF Work, QueryInflows, QueryOutflows, QueryCashSales, Query
  <2>2. arqueo'[shift[c]] =
          ExpectedOf(shift[c], read[c].inflows, read[c].outflows, read[c].sales)
    BY <2>0, <2>1 DEF CloseShift, ShapeInv
  <2>3. Counted(c)
    BY <1>1 DEF CountedInv
  <2>4. PICK A \in MayCount(c, Movements) :
          /\ read[c].inflows = SumFunctionOnSet(Inflow, A)
          /\ \E B \in MayCount(c, Movements) :
               A \subseteq B /\ read[c].outflows = SumFunctionOnSet(Outflow, B)
    BY <1>1, <2>3 DEF Counted
  <2>5. PICK B \in MayCount(c, Movements) :
          A \subseteq B /\ read[c].outflows = SumFunctionOnSet(Outflow, B)
    BY <2>4
  <2>6. PICK C \in MayCount(c, Sales) :
          read[c].sales = SumFunction([o \in C |-> NetCash(Payment[o])])
    BY <1>1, <2>3 DEF Counted
  <2>7. QED
    BY <2>2, <2>4, <2>5, <2>6
<1>2. TillInv /\ CountedInv /\ [Next]_vars =>
        \A c \in Closes :
          pc[c] = "ready" /\ pc'[c] = "done" =>
            \E A \in MayCount(c, Movements), B \in MayCount(c, Movements),
               C \in MayCount(c, Sales) :
              /\ A \subseteq B
              /\ arqueo'[shift[c]] =
                   ExpectedOf(shift[c], SumFunctionOnSet(Inflow, A),
                              SumFunctionOnSet(Outflow, B),
                              SumFunction([o \in C |-> NetCash(Payment[o])]))
  BY <1>1 DEF vars
<1>3. QED
  BY <1>2, TillInvariant, TillCountedInvariant, PTL DEF Spec, CloseCountsRows

-----------------------------------------------------------------------------
(* Sums over finite sets, as in OrderCheckout_proofs: what a closing call   *)
(* reads and stores is a number.                                            *)

\* The element a fold takes out of s next.
Some(s) == CHOOSE x \in s : TRUE

\* g sums f over every subset of T, one element at a time.
Unfolds(g, f, T) ==
  g = [s \in SUBSET T |-> IF s = {} THEN 0 ELSE f[Some(s)] + g[s \ {Some(s)}]]

\* Induction over finite sets, as a smallest counterexample: of the bad subsets
\* of S, one has no bad subset.
LEMMA SubsetMin ==
  ASSUME NEW S, IsFiniteSet(S), NEW B, B \subseteq SUBSET S, B # {}
  PROVE  \E s \in B : \A t \in B : ~(t \subseteq s /\ t # s)
<1>1. IsWellFoundedOn(StrictSubsetOrdering(S), SUBSET S)
  BY FS_StrictSubsetOrderingWellFounded, FS_FiniteSubsetsOfFinite
<1>2. PICK s \in B : \A t \in B : ~(<<t, s>> \in StrictSubsetOrdering(S))
  BY <1>1, WFMin
<1>3. QED
  BY <1>2 DEF StrictSubsetOrdering

\* Two functions that sum f agree wherever both are defined.
LEMMA UnfoldsUnique ==
  ASSUME NEW f, NEW S, IsFiniteSet(S), NEW U \in SUBSET S, NEW V \in SUBSET S,
         NEW g, Unfolds(g, f, U), NEW h, Unfolds(h, f, V),
         NEW T, T \subseteq U, T \subseteq V
  PROVE  g[T] = h[T]
<1> DEFINE B == {s \in SUBSET S : s \subseteq U /\ s \subseteq V /\ g[s] # h[s]}
<1>1. SUFFICES ASSUME B # {} PROVE FALSE
  OBVIOUS
<1>a. B \subseteq SUBSET S
  OBVIOUS
<1> HIDE DEF B
<1>2. PICK s \in B : \A t \in B : ~(t \subseteq s /\ t # s)
  BY <1>1, <1>a, SubsetMin
<1>3. s \in SUBSET U /\ s \in SUBSET V /\ g[s] # h[s] /\ s \in SUBSET S
  BY DEF B
<1>4. /\ g[s] = IF s = {} THEN 0 ELSE f[Some(s)] + g[s \ {Some(s)}]
      /\ h[s] = IF s = {} THEN 0 ELSE f[Some(s)] + h[s \ {Some(s)}]
  BY <1>3 DEF Unfolds
<1>5. s # {} /\ Some(s) \in s
  BY <1>3, <1>4 DEF Some
<1>6. g[s \ {Some(s)}] = h[s \ {Some(s)}]
  <2>1. s \ {Some(s)} \notin B
    BY <1>2, <1>5
  <2>2. QED
    BY <2>1, <1>3 DEF B
<1>7. QED
  BY <1>3, <1>4, <1>5, <1>6

\* The function SumFunctionOnSet chooses.
SumIs(f, T) == CHOOSE g : Unfolds(g, f, T)

\* There is a function that sums f, over any finite set.
LEMMA SumIsUnfolds ==
  ASSUME NEW f, NEW S, IsFiniteSet(S)
  PROVE  \A T \in SUBSET S : Unfolds(SumIs(f, T), f, T)
<1> DEFINE B == {T \in SUBSET S : ~Unfolds(SumIs(f, T), f, T)}
<1>1. SUFFICES ASSUME B # {} PROVE FALSE
  OBVIOUS
<1>a. B \subseteq SUBSET S
  OBVIOUS
<1> HIDE DEF B
<1>2. PICK T \in B : \A t \in B : ~(t \subseteq T /\ t # T)
  BY <1>1, <1>a, SubsetMin
<1>3. T \in SUBSET S /\ ~Unfolds(SumIs(f, T), f, T)
  BY DEF B
<1>4. \A u \in SUBSET T : u # T => Unfolds(SumIs(f, u), f, u)
  BY <1>2, <1>3 DEF B
<1> DEFINE Below(s) == s \ {Some(s)}
           g == [s \in SUBSET T |->
                   IF s = {} THEN 0 ELSE f[Some(s)] + SumIs(f, Below(s))[Below(s)]]
<1>5. ASSUME NEW u \in SUBSET T, u # T
      PROVE  g[u] = SumIs(f, u)[u]
  <2>1. Unfolds(SumIs(f, u), f, u)
    BY <1>4, <1>5
  <2>2. SumIs(f, u)[u] = IF u = {} THEN 0 ELSE f[Some(u)] + SumIs(f, u)[Below(u)]
    BY <2>1 DEF Unfolds
  <2>3. ASSUME u # {}
        PROVE  SumIs(f, u)[Below(u)] = SumIs(f, Below(u))[Below(u)]
    <3>1. Below(u) \in SUBSET T /\ Below(u) # T /\ Below(u) \subseteq u
      BY <2>3, <1>5 DEF Some
    <3>2. Unfolds(SumIs(f, Below(u)), f, Below(u))
      BY <1>4, <3>1
    <3>3. u \in SUBSET S /\ Below(u) \in SUBSET S
      BY <1>3, <3>1
    <3> HIDE DEF Below
    <3>4. QED
      BY <2>1, <3>1, <3>2, <3>3, UnfoldsUnique
  <2>4. QED
    BY <2>2, <2>3
<1>6. ASSUME NEW s \in SUBSET T
      PROVE  g[s] = IF s = {} THEN 0 ELSE f[Some(s)] + g[Below(s)]
  <2>1. CASE s = {}
    BY <2>1
  <2>2. CASE s # {}
    <3>1. Below(s) \in SUBSET T /\ Below(s) # T
      BY <2>2 DEF Some
    <3>2. QED
      BY <2>2, <3>1, <1>5
  <2>3. QED
    BY <2>1, <2>2
<1>7. Unfolds(g, f, T)
  <2>1. g = [s \in SUBSET T |-> IF s = {} THEN 0 ELSE f[Some(s)] + g[Below(s)]]
    <3>1. g = [s \in SUBSET T |-> g[s]]
      OBVIOUS
    <3> HIDE DEF g
    <3>2. QED
      BY <3>1, <1>6
  <2>2. QED
    BY <2>1 DEF Unfolds
<1> HIDE DEF g
<1>8. Unfolds(SumIs(f, T), f, T)
  BY <1>7 DEF SumIs
<1>9. QED
  BY <1>3, <1>8

\* The sum of f over T, as the specification writes it.
Sum(f, T) == SumFunctionOnSet(f, T)

\* SumFunctionOnSet, unfolded to the recursive function it is.
LEMMA SumDef ==
  ASSUME NEW f, NEW T
  PROVE  Sum(f, T) = SumIs(f, T)[T]
BY DEF Sum, SumFunctionOnSet, FoldFunctionOnSet, MapThenFoldSet, SumIs, Unfolds, Some

\* The equation of a sum over a finite set.
LEMMA SumStep ==
  ASSUME NEW f, NEW S, IsFiniteSet(S)
  PROVE  Sum(f, S) = IF S = {} THEN 0 ELSE f[Some(S)] + Sum(f, S \ {Some(S)})
<1>1. Unfolds(SumIs(f, S), f, S)
  BY SumIsUnfolds
<1>2. SumIs(f, S)[S] = IF S = {} THEN 0 ELSE f[Some(S)] + SumIs(f, S)[S \ {Some(S)}]
  BY <1>1 DEF Unfolds
<1> DEFINE T == S \ {Some(S)}
<1>3. T \in SUBSET S
  OBVIOUS
<1>4. Unfolds(SumIs(f, T), f, T)
  BY <1>3, SumIsUnfolds
<1>5. SumIs(f, S)[T] = SumIs(f, T)[T]
  <2> HIDE DEF T
  <2>1. QED
    BY <1>1, <1>3, <1>4, UnfoldsUnique
<1>6. QED
  BY <1>2, <1>5, SumDef
\* A sum of natural numbers is one.
LEMMA SumNat ==
  ASSUME NEW f, NEW S, IsFiniteSet(S), \A x \in S : f[x] \in Nat
  PROVE  Sum(f, S) \in Nat
<1> DEFINE B == {T \in SUBSET S : Sum(f, T) \notin Nat}
<1>1. SUFFICES ASSUME B # {} PROVE FALSE
  OBVIOUS
<1>a. B \subseteq SUBSET S
  OBVIOUS
<1> HIDE DEF B
<1>2. PICK T \in B : \A t \in B : ~(t \subseteq T /\ t # T)
  BY <1>1, <1>a, SubsetMin
<1>3. T \in SUBSET S /\ Sum(f, T) \notin Nat /\ IsFiniteSet(T)
  BY FS_Subset DEF B
<1>4. T # {} /\ Sum(f, T) = f[Some(T)] + Sum(f, T \ {Some(T)})
  <2>1. Sum(f, T) = IF T = {} THEN 0 ELSE f[Some(T)] + Sum(f, T \ {Some(T)})
    BY <1>3, SumStep
  <2>2. 0 \in Nat
    OBVIOUS
  <2>3. QED
    BY <1>3, <2>1, <2>2
<1>5. Some(T) \in T
  BY <1>4 DEF Some
<1>6. Sum(f, T \ {Some(T)}) \in Nat
  BY <1>2, <1>3, <1>5 DEF B
<1>7. QED
  BY <1>3, <1>4, <1>5, <1>6

\* A query of computeSummary adds up amounts that are not negative.
LEMMA SumsNat ==
  ASSUME NEW s
  PROVE  Inflows(s) \in Nat /\ Outflows(s) \in Nat /\ CashSales(s) \in Nat
<1>1. IsFiniteSet(MovementsIn(s)) /\ IsFiniteSet(SalesIn(s))
  BY TillAssumption, FS_Subset DEF MovementsIn, SalesIn
<1>2. Inflows(s) \in Nat
  <2>1. \A m \in MovementsIn(s) : Inflow[m] \in Nat
    BY TillAssumption DEF Inflow, MovementsIn
  <2>2. QED
    BY <1>1, <2>1, SumNat DEF Inflows, Sum
<1>3. Outflows(s) \in Nat
  <2>1. \A m \in MovementsIn(s) : Outflow[m] \in Nat
    BY TillAssumption DEF Outflow, MovementsIn
  <2>2. QED
    BY <1>1, <2>1, SumNat DEF Outflows, Sum
<1>4. CashSales(s) \in Nat
  <2> DEFINE cash == [o \in SalesIn(s) |-> NetCash(Payment[o])]
  <2>1. ASSUME NEW o \in SalesIn(s)
        PROVE  NetCash(Payment[o]) \in Nat
    <3>1. Payment[o] \in [total : Nat, cash : Nat, other : Nat]
      BY TillAssumption DEF SalesIn
    <3>2. /\ Payment[o].total \in Nat /\ Payment[o].cash \in Nat
          /\ Payment[o].other \in Nat
      BY <3>1
    <3>3. QED
      BY <3>2 DEF NetCash
  <2>2. DOMAIN cash = SalesIn(s) /\ \A o \in SalesIn(s) : cash[o] \in Nat
    BY <2>1
  <2>3. CashSales(s) = Sum(cash, SalesIn(s))
    BY <2>2 DEF CashSales, SumFunction, Sum
  <2> HIDE DEF cash
  <2>4. QED
    BY <1>1, <2>2, <2>3, SumNat
<1>5. QED
  BY <1>2, <1>3, <1>4

\* What has been read and stored is a number, whatever the rows.
NumbersInv ==
  /\ arqueo \in [Shifts -> Int]
  /\ read \in [Closes -> [inflows : Nat, outflows : Nat, sales : Nat]]

\* A call that ends forgets what it has read, and leaves what others have read.
LEMMA EndNumbers ==
  ASSUME NumbersInv, NEW x, NEW how, End(x, how)
  PROVE  read' \in [Closes -> [inflows : Nat, outflows : Nat, sales : Nat]]
<1>1. NothingRead \in [inflows : Nat, outflows : Nat, sales : Nat]
  BY DEF NothingRead
<1>2. QED
  BY <1>1 DEF End, NumbersInv

\* A step keeps the numbers: a query reads one, and close adds three of them.
LEMMA NumbersStep ==
  ASSUME TillInv, NumbersInv, [Next]_vars
  PROVE  NumbersInv'
<1>1. CASE UNCHANGED <<arqueo, read>>
  BY <1>1 DEF NumbersInv
<1>2. CASE Next /\ ~UNCHANGED <<arqueo, read>>
  <2>1. PICK x \in Calls :
          Begin(x) \/ Work(x) \/ Lose(x) \/ (x \in Cancels /\ CreditNoteRejected(x))
    BY <1>2 DEF Next
  <2>2. CASE \E how : End(x, how) /\ UNCHANGED arqueo
    BY <2>2, EndNumbers DEF NumbersInv
  <2>3. CASE Begin(x)
    BY <1>2, <2>2, <2>3 DEF Begin, BeginOpen, BeginCash, BeginClose, BeginCancel,
                            Refuse, Enter
  <2>4. CASE Lose(x) \/ CreditNoteRejected(x)
    BY <2>2, <2>4 DEF Lose, CreditNoteRejected, Refuse
  <2>5. CASE Work(x)
    <3>1. CASE \/ CreateShift(x) \/ InsertCash(x)
               \/ CreditNote(x) \/ RereadOrder(x) \/ CancelOrder(x)
      BY <1>2, <2>2, <3>1 DEF CreateShift, InsertCash, CreditNote, RereadOrder,
                              CancelOrder, Refuse
    <3>2. CASE x \in Closes /\ QueryInflows(x)
      BY <3>2, SumsNat DEF QueryInflows, Query, NumbersInv
    <3>3. CASE x \in Closes /\ QueryOutflows(x)
      BY <3>3, SumsNat DEF QueryOutflows, Query, NumbersInv
    <3>4. CASE x \in Closes /\ QueryCashSales(x)
      BY <3>4, SumsNat DEF QueryCashSales, Query, NumbersInv
    <3>5. CASE x \in Closes /\ CloseShift(x)
      <4>1. shift[x] \in Shifts
        BY <3>5, TillAssumption
        DEF CloseShift, TillInv, CallInv, ShapeInv, Calls, Running, Reading
      <4>2. Initial[shift[x]] \in Nat
        BY <4>1, TillAssumption DEF Shifts
      <4>3. read[x].inflows \in Nat /\ read[x].outflows \in Nat /\ read[x].sales \in Nat
        BY <3>5 DEF NumbersInv
      <4>4. ExpectedOf(shift[x], read[x].inflows, read[x].outflows, read[x].sales) \in Int
        BY <4>2, <4>3 DEF ExpectedOf
      <4>5. arqueo' \in [Shifts -> Int]
        BY <3>5, <4>1, <4>4 DEF CloseShift, NumbersInv
      <4>6. QED
        BY <3>5, <4>5, EndNumbers DEF CloseShift, NumbersInv
    <3>6. QED
      BY <2>5, <3>1, <3>2, <3>3, <3>4, <3>5 DEF Work
  <2>6. QED
    BY <2>1, <2>3, <2>4, <2>5
<1>3. QED
  BY <1>1, <1>2 DEF vars

\* open, close and the calls in between: every variable keeps its type, and the
\* expectedCash that close stores is a number.
THEOREM TillTypeOK == Spec => []TypeOK
<1>1. Init => NumbersInv
  BY DEF Init, NumbersInv, NothingRead
<1>2. TillInv /\ NumbersInv /\ [Next]_vars => NumbersInv'
  BY NumbersStep
<1>3. TillInv /\ NumbersInv /\ CountedInv => TypeOK
  BY DEF TillInv, ShapeInv, NumbersInv, CountedInv, TypeOK
<1>4. QED
  BY <1>1, <1>2, <1>3, TillInvariant, TillCountedInvariant, PTL DEF Spec

=============================================================================
