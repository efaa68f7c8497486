------------------------- MODULE QuoteBook_proofs -------------------------
(***************************************************************************)
(* Proofs about QuoteBook, for any set of calls, stores and attempts.      *)
(***************************************************************************)
EXTENDS QuoteBook, TLAPS

\* The calls of a series share it.
LEMMA SeriesShared ==
  ASSUME NEW x \in Numbered, NEW y \in Series(x)
  PROVE  y \in Numbered /\ Series(y) = Series(x)
  BY CallsAssumption DEF Series, Numbered, Users

\* A call is in its own series.
LEMMA SeriesOwn ==
  ASSUME NEW x \in Numbered
  PROVE  x \in Series(x)
  BY DEF Series, Numbered

\* A value that is among the numbers of a series and bounds them is the last.
LEMMA LastNumberIs ==
  ASSUME NEW x \in Numbered, number \in [Numbered -> Nat],
         NEW m \in {0} \cup {number[y] : y \in Series(x)},
         \A y \in Series(x) : number[y] <= m
  PROVE  LastNumber(x) = m
<1> DEFINE Bound(n) == \A y \in Series(x) : number[y] <= n
           S == {0} \cup {number[y] : y \in Series(x)}
<1>1. S \subseteq Nat
  BY DEF Series, Numbered
<1>2. LastNumber(x) \in S /\ Bound(LastNumber(x))
  BY DEF LastNumber
<1>3. LastNumber(x) <= m /\ m <= LastNumber(x)
  BY <1>1, <1>2
<1>4. QED
  BY <1>1, <1>2, <1>3

\* Steps that commit no number leave the last numbers as they are.
LEMMA SameLastNumber ==
  ASSUME UNCHANGED number
  PROVE  \A x \in Numbered : LastNumber(x)' = LastNumber(x)
  BY DEF LastNumber, Series

\* The invariant holds before any call.
LEMMA InitInv == Init => QuoteInv
<1> SUFFICES ASSUME Init PROVE QuoteInv
  OBVIOUS
<1>1. TypeOK
  BY CallsAssumption DEF Init, TypeOK
<1>2. FlowInv
  BY DEF Init, FlowInv, InTx, Calls, Users, Numbered
<1>3. HolderInv
  BY CallsAssumption DEF Init, HolderInv, Calls, Users
<1>4. \A x \in Numbered : LastNumber(x) = 0
  BY LastNumberIs, SeriesShared DEF Init
<1>5. SeriesInv
  BY <1>4, SeriesShared DEF Init, SeriesInv, Calls, Users, Numbered
<1>6. NumbersGapFree
  BY <1>4, SeriesShared DEF Init, NumbersGapFree
<1>7. SoldStaysMarked
  BY DEF Init, SoldStaysMarked, OrdersOf, Numbered
<1>8. AttemptInv
  BY CallsAssumption DEF Init, AttemptInv
<1>9. QED
  BY <1>1, <1>2, <1>3, <1>5, <1>6, <1>7, <1>8 DEF QuoteInv

-----------------------------------------------------------------------------
(* Steps that commit nothing.                                              *)

\* What a step that commits nothing must keep.
LEMMA UncommittedInv ==
  ASSUME QuoteInv, TypeOK', AttemptInv', FlowInv', HolderInv',
         UNCHANGED <<number, status, orderOf>>,
         NEW x \in Calls,
         \A y \in Calls \ {x} : pc'[y] = pc[y],
         \A y \in Numbered \ {x} : num'[y] = num[y],
         x \in Numbered =>
           /\ pc'[x] = "numbered" => num'[x] \in 1 .. LastNumber(x) + 1
           /\ pc'[x] \in {"inserted", "updated"} =>
                /\ num'[x] = LastNumber(x) + 1
                /\ \A y \in Series(x) \ {x} : pc[y] \notin {"inserted", "updated"}
  PROVE  QuoteInv'
<1>1. \A y \in Numbered : LastNumber(y)' = LastNumber(y)
  BY SameLastNumber
<1>2. SeriesInv'
  <2> SUFFICES ASSUME NEW y \in Numbered
               PROVE  /\ LastNumber(y)' \in {0} \cup {number'[z] : z \in Series(y)}
                      /\ \A z \in Series(y) : number'[z] <= LastNumber(y)'
                      /\ pc'[y] = "numbered" => num'[y] \in 1 .. LastNumber(y)' + 1
                      /\ pc'[y] \in {"inserted", "updated"} => num'[y] = LastNumber(y)' + 1
                      /\ \A z \in Series(y) \ {y} :
                           pc'[y] \in {"inserted", "updated"} => pc'[z] \notin {"inserted", "updated"}
    BY DEF SeriesInv, Series
  <2>1. /\ LastNumber(y)' \in {0} \cup {number'[z] : z \in Series(y)}
        /\ \A z \in Series(y) : number'[z] <= LastNumber(y)'
    BY <1>1 DEF QuoteInv, SeriesInv
  <2>2. /\ pc'[y] = "numbered" => num'[y] \in 1 .. LastNumber(y)' + 1
        /\ pc'[y] \in {"inserted", "updated"} => num'[y] = LastNumber(y)' + 1
    BY <1>1 DEF QuoteInv, SeriesInv, Calls, Users, Numbered
  <2>3. ASSUME NEW z \in Series(y) \ {y}, pc'[y] \in {"inserted", "updated"},
               pc'[z] \in {"inserted", "updated"}
        PROVE  FALSE
    <3>1. z \in Numbered /\ Series(z) = Series(y) /\ y \in Series(z) /\ z \in Calls /\ y \in Calls
      BY SeriesShared, SeriesOwn DEF Calls, Users, Numbered
    <3>2. CASE y = x
      BY <2>3, <3>1, <3>2
    <3>3. CASE z = x
      BY <2>3, <3>1, <3>3
    <3>4. CASE y # x /\ z # x
      BY <2>3, <3>1, <3>4 DEF QuoteInv, SeriesInv
    <3>5. QED
      BY <3>2, <3>3, <3>4
  <2>4. QED
    BY <2>1, <2>2, <2>3
<1>3. NumbersGapFree'
  <2>1. \A y \in Numbered : Series(y)' = Series(y)
    BY DEF Series
  <2>2. QED
    BY <1>1, <2>1 DEF QuoteInv, NumbersGapFree
<1>4. SoldStaysMarked'
  <2>1. \A q \in Creations : OrdersOf(q)' = OrdersOf(q)
    BY DEF OrdersOf
  <2>2. QED
    BY <2>1 DEF QuoteInv, SoldStaysMarked
<1>5. QED
  BY <1>2, <1>3, <1>4 DEF QuoteInv

\* Where calls are in a program that holds the invariant.
LEMMA CallKinds ==
  ASSUME QuoteInv, NEW x \in Calls
  PROVE  /\ pc \in [Calls -> {"start"} \cup InTx \cup Ended]
         /\ x \in Users => QuoteOf[x] \in Creations
         /\ x \notin Users <=> x \in Creations
         /\ x \notin Numbered <=> x \in Cancellations
         /\ x # NoOne
  BY CallsAssumption DEF QuoteInv, TypeOK, Calls, Users, Numbered

\* A read of the quote, or its refusal.
LEMMA ReadQuoteInv ==
  ASSUME QuoteInv, NEW x \in Users, ReadQuote(x) \/ QuoteSettled(x), TypeOK', AttemptInv'
  PROVE  QuoteInv'
<1> x \in Calls
  BY DEF Calls
<1>0. /\ pc[x] = "start"
      /\ pc' = [pc EXCEPT ![x] = "checked"] \/ pc' = [pc EXCEPT ![x] = "refused"]
      /\ status[QuoteOf[x]] # "none"
      /\ UNCHANGED <<number, status, orderOf, holder, num>>
  BY DEF ReadQuote, QuoteSettled, Tries
<1>1. FlowInv'
  BY <1>0, CallKinds DEF QuoteInv, FlowInv, InTx, Ended, Calls, Users, Numbered
<1>2. HolderInv'
  BY <1>0, CallKinds DEF QuoteInv, HolderInv, Calls
<1>3. QED
  BY <1>0, <1>1, <1>2, CallKinds, UncommittedInv DEF Calls, Numbered, Users

\* MAX + 1 is read.
LEMMA ReadNumberInv ==
  ASSUME QuoteInv, NEW x \in Numbered, ReadNumber(x), TypeOK', AttemptInv'
  PROVE  QuoteInv'
<1> x \in Calls
  BY DEF Calls, Users, Numbered
<1>0. LastNumber(x) \in Nat
  BY SeriesShared DEF QuoteInv, SeriesInv, TypeOK
<1>1. FlowInv'
  BY CallKinds DEF QuoteInv, FlowInv, ReadNumber, InTx, Ended, Calls, Users, Numbered
<1>2. HolderInv'
  BY CallKinds DEF QuoteInv, HolderInv, ReadNumber, Calls
<1>3. /\ pc'[x] = "numbered"
      /\ num'[x] \in 1 .. LastNumber(x) + 1
  BY <1>0, CallKinds DEF ReadNumber, QuoteInv, TypeOK
<1>4. /\ \A y \in Calls \ {x} : pc'[y] = pc[y]
      /\ \A y \in Numbered \ {x} : num'[y] = num[y]
  BY CallKinds DEF ReadNumber, QuoteInv, TypeOK, Calls
<1>5. UNCHANGED <<number, status, orderOf>>
  BY DEF ReadNumber
<1>6. QED
  BY <1>1, <1>2, <1>3, <1>4, <1>5, UncommittedInv

\* The row is inserted: nobody has the number, so it is the next one.
LEMMA InsertRowInv ==
  ASSUME QuoteInv, NEW x \in Numbered, InsertRow(x), TypeOK', AttemptInv'
  PROVE  QuoteInv'
<1> x \in Calls
  BY DEF Calls, Users, Numbered
<1>1. FlowInv'
  BY CallKinds DEF QuoteInv, FlowInv, InsertRow, InTx, Ended, Calls, Users, Numbered
<1>2. HolderInv'
  BY CallKinds DEF QuoteInv, HolderInv, InsertRow, Calls
<1>3. num[x] = LastNumber(x) + 1
  <2>1. /\ LastNumber(x) \in Nat
        /\ num[x] \in 1 .. LastNumber(x) + 1
    BY SeriesShared DEF QuoteInv, SeriesInv, TypeOK, InsertRow
  <2>2. num[x] \notin 1 .. LastNumber(x)
    BY DEF QuoteInv, NumbersGapFree, InsertRow, Taken
  <2>3. QED
    BY <2>1, <2>2
<1>4. \A y \in Series(x) \ {x} : pc[y] \notin {"inserted", "updated"}
  <2> TAKE y \in Series(x) \ {x}
  <2>1. y \in Numbered /\ LastNumber(y) = LastNumber(x)
    BY SeriesShared DEF LastNumber
  <2>2. QED
    BY <1>3, <2>1 DEF QuoteInv, SeriesInv, InsertRow
<1>5. /\ \A y \in Calls \ {x} : pc'[y] = pc[y]
      /\ pc'[x] = "inserted"
      /\ UNCHANGED <<number, status, orderOf, num>>
  BY CallKinds DEF InsertRow, Calls
<1>6. QED
  BY <1>1, <1>2, <1>3, <1>4, <1>5, UncommittedInv

\* A taken number: back to the start of the loop, or out of it.
LEMMA NumberTakenInv ==
  ASSUME QuoteInv, NEW x \in Numbered, NumberTaken(x), TypeOK', AttemptInv'
  PROVE  QuoteInv'
<1> x \in Calls
  BY DEF Calls, Users, Numbered
<1>0. /\ pc[x] = "numbered"
      /\ pc' = [pc EXCEPT ![x] = "start"] \/ pc' = [pc EXCEPT ![x] = "exhausted"]
      /\ num' = [num EXCEPT ![x] = 0]
      /\ UNCHANGED <<number, status, orderOf, holder>>
  BY DEF NumberTaken, AfterTaken
<1>1. FlowInv'
  BY <1>0, CallKinds DEF QuoteInv, FlowInv, InTx, Ended, Calls, Users, Numbered
<1>2. HolderInv'
  BY <1>0, CallKinds DEF QuoteInv, HolderInv, Calls
<1>3. QED
  BY <1>0, <1>1, <1>2, CallKinds, UncommittedInv DEF QuoteInv, TypeOK

\* The UPDATE of a quote whose row is free.
LEMMA UpdateQuoteInv ==
  ASSUME QuoteInv, NEW x \in Users, UpdateQuote(x), TypeOK', AttemptInv'
  PROVE  QuoteInv'
<1> x \in Calls
  BY DEF Calls
<1>0. /\ pc[x] = IF x \in Conversions THEN "inserted" ELSE "checked"
      /\ pc' = [pc EXCEPT ![x] = "updated"]
      /\ holder[QuoteOf[x]] = NoOne
      /\ holder' = [holder EXCEPT ![QuoteOf[x]] = x]
      /\ UNCHANGED <<number, status, orderOf, num>>
  BY DEF UpdateQuote
<1>1. FlowInv'
  BY <1>0, CallKinds DEF QuoteInv, FlowInv, InTx, Ended, Calls, Users, Numbered
<1>2. HolderInv'
  <2>1. \A y \in Users : pc'[y] = "updated" <=> holder'[QuoteOf[y]] = y
    BY <1>0, CallKinds DEF QuoteInv, HolderInv, TypeOK, Calls
  <2>2. \A q \in Creations : holder'[q] # NoOne => QuoteOf[holder'[q]] = q
    BY <1>0, CallKinds DEF QuoteInv, HolderInv, TypeOK
  <2>3. QED
    BY <2>1, <2>2 DEF HolderInv
<1>3. x \in Numbered => pc[x] = "inserted"
  BY <1>0, CallsAssumption DEF Numbered, Users
<1>4. x \in Numbered =>
        /\ num'[x] = LastNumber(x) + 1
        /\ \A y \in Series(x) \ {x} : pc[y] \notin {"inserted", "updated"}
  BY <1>0, <1>3 DEF QuoteInv, SeriesInv
<1>5. QED
  BY <1>0, <1>1, <1>2, <1>4, CallKinds, UncommittedInv

\* ROLLBACK keeps the invariant.
LEMMA FailInv ==
  ASSUME QuoteInv, NEW x \in Calls, Fail(x), TypeOK', AttemptInv'
  PROVE  QuoteInv'
<1>0. /\ pc[x] \in InTx
      /\ pc' = [pc EXCEPT ![x] = "lost"]
      /\ holder' = [q \in Creations |-> IF holder[q] = x THEN NoOne ELSE holder[q]]
      /\ UNCHANGED <<number, status, orderOf, num>>
  BY DEF Fail, Unlock
<1>1. FlowInv'
  BY <1>0, CallKinds DEF QuoteInv, FlowInv, InTx, Ended, Calls, Users, Numbered
<1>2. HolderInv'
  BY <1>0, CallKinds DEF QuoteInv, HolderInv, Calls
<1>3. QED
  BY <1>0, <1>1, <1>2, CallKinds, UncommittedInv

-----------------------------------------------------------------------------
(* Commits.                                                                *)

\* A committed number is the next of its series and of no other.
LEMMA CommittedNumber ==
  ASSUME QuoteInv, TypeOK', NEW x \in Numbered,
         pc[x] \in {"inserted", "updated"},
         pc' = [pc EXCEPT ![x] = "committed"],
         number' = [number EXCEPT ![x] = num[x]],
         UNCHANGED num
  PROVE  SeriesInv' /\ NumbersGapFree' /\ num[x] # 0
<1> DEFINE n == LastNumber(x) + 1
<1> x \in Calls
  BY DEF Calls, Users, Numbered
<1>1. /\ LastNumber(x) \in Nat
      /\ num[x] = n
      /\ \A y \in Series(x) : number[y] <= LastNumber(x)
  BY SeriesShared DEF QuoteInv, SeriesInv, TypeOK
<1>2. \A y \in Series(x) : LastNumber(y)' = n
  <2> TAKE y \in Series(x)
  <2>1. y \in Numbered /\ Series(y) = Series(x) /\ x \in Series(x)
    BY SeriesShared, SeriesOwn
  <2>2. number'[x] = n /\ number' \in [Numbered -> Nat] /\ number \in [Numbered -> Nat]
    BY <1>1 DEF QuoteInv, TypeOK
  <2>3. \A z \in Series(x) : number'[z] <= n
    BY <1>1, <2>2, SeriesShared DEF QuoteInv, TypeOK
  <2>4. n \in {0} \cup {number'[z] : z \in Series(x)}
    BY <2>1, <2>2
  <2>5. ASSUME NEW f \in [Numbered -> Nat],
               n \in {0} \cup {f[z] : z \in Series(x)},
               \A z \in Series(x) : f[z] <= n
        PROVE  (CHOOSE k \in {0} \cup {f[z] : z \in Series(x)} :
                  \A z \in Series(x) : f[z] <= k) = n
    <3> DEFINE S == {0} \cup {f[z] : z \in Series(x)}
               k == CHOOSE i \in S : \A z \in Series(x) : f[z] <= i
    <3>1. S \subseteq Nat
      BY <2>5, SeriesShared
    <3>2. k \in S /\ \A z \in Series(x) : f[z] <= k
      BY <2>5
    <3>3. k <= n /\ n <= k
      BY <2>5, <3>1, <3>2
    <3>4. QED
      BY <1>1, <3>1, <3>2, <3>3
  <2>6. (CHOOSE k \in {0} \cup {number'[z] : z \in Series(x)} :
           \A z \in Series(x) : number'[z] <= k) = n
    BY <2>2, <2>3, <2>4, <2>5
  <2>7. LastNumber(y)' = CHOOSE k \in {0} \cup {number'[z] : z \in Series(y)} :
                           \A z \in Series(y) : number'[z] <= k
    BY DEF LastNumber, Series
  <2>8. QED
    BY <2>1, <2>6, <2>7
<1>3. \A y \in Numbered \ Series(x) : /\ LastNumber(y)' = LastNumber(y)
                                      /\ x \notin Series(y)
  <2> TAKE y \in Numbered \ Series(x)
  <2>1. x \notin Series(y)
    BY SeriesShared, SeriesOwn
  <2>2. \A z \in Series(y) : number'[z] = number[z]
    BY <2>1, SeriesShared DEF QuoteInv, TypeOK
  <2>3. QED
    BY <2>1, <2>2 DEF LastNumber, Series
<1>4. SeriesInv'
  <2> SUFFICES ASSUME NEW y \in Numbered
               PROVE  /\ LastNumber(y)' \in {0} \cup {number'[z] : z \in Series(y)}
                      /\ \A z \in Series(y) : number'[z] <= LastNumber(y)'
                      /\ pc'[y] = "numbered" => num'[y] \in 1 .. LastNumber(y)' + 1
                      /\ pc'[y] \in {"inserted", "updated"} => num'[y] = LastNumber(y)' + 1
                      /\ \A z \in Series(y) \ {y} :
                           pc'[y] \in {"inserted", "updated"} => pc'[z] \notin {"inserted", "updated"}
    BY DEF SeriesInv, Series
  <2>0. y \in Calls
    BY DEF Calls, Users, Numbered
  <2>1. CASE y \in Series(x)
    <3>1. Series(y) = Series(x) /\ x \in Series(y) /\ LastNumber(y)' = n
      BY <1>2, <2>1, SeriesShared, SeriesOwn
    <3>2. number'[x] = n
      BY <1>1 DEF QuoteInv, TypeOK
    <3>3. \A z \in Series(y) : number'[z] <= n
      BY <1>1, <3>1, <3>2, SeriesShared DEF QuoteInv, TypeOK
    <3>4. LastNumber(y) = LastNumber(x)
      BY <3>1, <2>1 DEF LastNumber
    <3>5. pc'[y] = "numbered" => num'[y] \in 1 .. n + 1
      BY <1>1, <2>0, <3>4, CallKinds DEF QuoteInv, SeriesInv, TypeOK
    <3>6. pc'[y] \notin {"inserted", "updated"}
      BY <2>0, <2>1, CallKinds DEF QuoteInv, SeriesInv
    <3>7. QED
      BY <3>1, <3>2, <3>3, <3>5, <3>6
  <2>2. CASE y \notin Series(x)
    <3>1. y # x /\ x \notin Series(y) /\ LastNumber(y)' = LastNumber(y)
      BY <1>3, <2>2, SeriesOwn
    <3>2. \A z \in Series(y) : z \in Calls /\ z # x /\ number'[z] = number[z] /\ pc'[z] = pc[z]
      BY <3>1, SeriesShared, CallKinds DEF QuoteInv, TypeOK, Calls, Users, Numbered
    <3>3. pc'[y] = pc[y] /\ num'[y] = num[y]
      BY <2>0, <3>1, CallKinds
    <3>4. QED
      BY <3>1, <3>2, <3>3 DEF QuoteInv, SeriesInv
  <2>3. QED
    BY <2>1, <2>2
<1>5. NumbersGapFree'
  <2> SUFFICES ASSUME NEW y \in Numbered
               PROVE  /\ \A z \in Series(y) \ {y} : number'[y] # 0 => number'[z] # number'[y]
                      /\ \A k \in 1 .. LastNumber(y)' : \E z \in Series(y) : number'[z] = k
    BY DEF NumbersGapFree, Series
  <2>1. CASE y \in Series(x)
    <3>1. Series(y) = Series(x) /\ x \in Series(y) /\ LastNumber(y)' = n
      BY <1>2, <2>1, SeriesShared, SeriesOwn
    <3>2. number'[x] = n /\ \A z \in Series(y) \ {x} : number'[z] = number[z] /\ number[z] # n
      BY <1>1, <3>1, SeriesShared DEF QuoteInv, TypeOK
    <3>3. \A k \in 1 .. LastNumber(x) : \E z \in Series(x) \ {x} : number[z] = k
      <4>1. number[x] = 0
        BY DEF QuoteInv, FlowInv, Ended
      <4>2. QED
        BY <1>1, <4>1 DEF QuoteInv, NumbersGapFree
    <3>4. \A k \in 1 .. n : \E z \in Series(y) : number'[z] = k
      BY <1>1, <3>1, <3>2, <3>3
    <3>5. \A z \in Series(y) \ {y} : number'[y] # 0 => number'[z] # number'[y]
      BY <2>1, <3>1, <3>2 DEF QuoteInv, NumbersGapFree
    <3>6. QED
      BY <3>1, <3>4, <3>5
  <2>2. CASE y \notin Series(x)
    BY <1>3, <2>2, SeriesOwn, SeriesShared DEF QuoteInv, NumbersGapFree, TypeOK
  <2>3. QED
    BY <2>1, <2>2
<1>6. QED
  BY <1>1, <1>4, <1>5

\* A quote exists from its commit on, open and without an order.
LEMMA CommitQuoteInv ==
  ASSUME QuoteInv, NEW x \in Creations, CommitQuote(x), TypeOK', AttemptInv'
  PROVE  QuoteInv'
<1> x \in Calls /\ x \in Numbered /\ x \notin Users /\ x \notin Conversions
  BY CallsAssumption DEF Calls, Numbered, Users
<1>1. SeriesInv' /\ NumbersGapFree' /\ num[x] # 0
  BY CommittedNumber DEF CommitQuote
<1>2. FlowInv'
  BY <1>1, CallKinds
     DEF QuoteInv, FlowInv, TypeOK, CommitQuote, InTx, Ended, Calls, Users, Numbered
<1>3. HolderInv'
  BY CallKinds DEF QuoteInv, HolderInv, CommitQuote, Calls
<1>4. SoldStaysMarked'
  <2>1. \A q \in Creations : OrdersOf(q)' = OrdersOf(q)
    BY DEF OrdersOf, CommitQuote, QuoteInv, TypeOK, Numbered
  <2>2. OrdersOf(x) = {}
    BY DEF OrdersOf, CommitQuote, QuoteInv, FlowInv, Numbered, Users, Ended
  <2>3. QED
    BY <2>1, <2>2 DEF QuoteInv, TypeOK, SoldStaysMarked, CommitQuote
<1>5. QED
  BY <1>1, <1>2, <1>3, <1>4 DEF QuoteInv

\* The order and the mark on its quote are committed together.
LEMMA CommitConversionInv ==
  ASSUME QuoteInv, NEW x \in Conversions, CommitConversion(x), TypeOK', AttemptInv'
  PROVE  QuoteInv'
<1> x \in Calls /\ x \in Numbered /\ x \in Users /\ x \notin Creations
  BY CallsAssumption DEF Calls, Numbered, Users
<1>1. SeriesInv' /\ NumbersGapFree' /\ num[x] # 0
  BY CommittedNumber DEF CommitConversion
<1>2. FlowInv'
  BY <1>1, CallKinds
     DEF QuoteInv, FlowInv, TypeOK, CommitConversion, InTx, Ended, Calls, Users, Numbered
<1>3. HolderInv'
  BY CallKinds DEF QuoteInv, HolderInv, CommitConversion, Unlock, Calls
<1>4. SoldStaysMarked'
  <2>1. \A q \in Creations :
          OrdersOf(q)' = IF q = QuoteOf[x] THEN OrdersOf(q) \cup {x} ELSE OrdersOf(q)
    BY <1>1 DEF OrdersOf, CommitConversion, QuoteInv, TypeOK, Numbered
  <2>2. /\ status'[QuoteOf[x]] = "CONVERTED" /\ orderOf'[QuoteOf[x]] = x
        /\ \A q \in Creations \ {QuoteOf[x]} : status'[q] = status[q] /\ orderOf'[q] = orderOf[q]
    BY CallKinds DEF QuoteInv, TypeOK, CommitConversion
  <2>3. ASSUME NEW q \in Creations
        PROVE  /\ OrdersOf(q)' # {} => status'[q] # "OPEN"
               /\ OrdersOf(q)' = {} => status'[q] # "CONVERTED"
               /\ orderOf'[q] \in IF OrdersOf(q)' = {} THEN {NoOne} ELSE OrdersOf(q)'
    <3>1. CASE q = QuoteOf[x]
      BY <2>1, <2>2, <3>1
    <3>2. CASE q # QuoteOf[x]
      BY <2>1, <2>2, <3>2 DEF QuoteInv, SoldStaysMarked
    <3>3. QED
      BY <3>1, <3>2
  <2>4. QED
    BY <2>3 DEF SoldStaysMarked
<1>5. QED
  BY <1>1, <1>2, <1>3, <1>4 DEF QuoteInv

\* A cancellation writes the status and leaves the order.
LEMMA CommitCancellationInv ==
  ASSUME QuoteInv, NEW x \in Cancellations, CommitCancellation(x), TypeOK', AttemptInv'
  PROVE  QuoteInv'
<1> x \in Calls /\ x \notin Numbered /\ x \in Users
  BY CallsAssumption DEF Calls, Numbered, Users
<1>2. FlowInv'
  BY CallKinds
     DEF QuoteInv, FlowInv, TypeOK, CommitCancellation, InTx, Ended, Calls, Users, Numbered
<1>3. HolderInv'
  BY CallKinds DEF QuoteInv, HolderInv, CommitCancellation, Unlock, Calls
<1>4. SoldStaysMarked'
  <2>1. \A q \in Creations : OrdersOf(q)' = OrdersOf(q)
    BY DEF OrdersOf, CommitCancellation
  <2>2. /\ orderOf' = orderOf
        /\ \A q \in Creations : status'[q] = status[q] \/ status'[q] = "CANCELLED"
    BY DEF QuoteInv, TypeOK, CommitCancellation
  <2>3. QED
    BY <2>1, <2>2 DEF QuoteInv, SoldStaysMarked
<1>5. SeriesInv'
  <2>1. \A y \in Numbered : LastNumber(y)' = LastNumber(y) /\ pc'[y] = pc[y] /\ y \in Calls
    BY SameLastNumber, CallKinds DEF CommitCancellation, Calls, Users, Numbered
  <2>2. \A y \in Numbered : Series(y) \subseteq Numbered
    BY SeriesShared
  <2>3. QED
    BY <2>1, <2>2 DEF QuoteInv, SeriesInv, CommitCancellation, Series
<1>6. NumbersGapFree'
  BY SameLastNumber DEF QuoteInv, NumbersGapFree, CommitCancellation, Series
<1>7. QED
  BY <1>2, <1>3, <1>4, <1>5, <1>6 DEF QuoteInv

-----------------------------------------------------------------------------
(* The theorems.                                                           *)

\* Every step keeps the types, and the count of attempts.
LEMMA TypeStep ==
  ASSUME QuoteInv, [Next]_vars
  PROVE  TypeOK' /\ AttemptInv'
<1> USE DEF QuoteInv, TypeOK, AttemptInv
<1>0. CASE UNCHANGED vars
  BY <1>0 DEF vars
<1>1. ASSUME NEW x \in Users, ReadQuote(x) \/ QuoteSettled(x)
      PROVE  TypeOK' /\ AttemptInv'
  BY <1>1, CallsAssumption
     DEF ReadQuote, QuoteSettled, Tries, InTx, Ended, Calls, Numbered, Users
<1>2. ASSUME NEW x \in Users, UpdateQuote(x)
      PROVE  TypeOK' /\ AttemptInv'
  BY <1>2, CallsAssumption DEF UpdateQuote, InTx, Ended, Calls
<1>3. ASSUME NEW x \in Numbered, ReadNumber(x)
      PROVE  TypeOK' /\ AttemptInv'
  <2>1. LastNumber(x) \in Nat
    BY SeriesShared DEF SeriesInv
  <2>2. QED
    BY <1>3, <2>1, CallsAssumption DEF ReadNumber, InTx, Ended, Calls, Users, Numbered
<1>4. ASSUME NEW x \in Numbered, InsertRow(x)
      PROVE  TypeOK' /\ AttemptInv'
  BY <1>4, CallsAssumption DEF InsertRow, InTx, Ended, Calls, Users, Numbered
<1>5. ASSUME NEW x \in Numbered, NumberTaken(x)
      PROVE  TypeOK' /\ AttemptInv'
  BY <1>5, CallsAssumption DEF NumberTaken, AfterTaken, InTx, Ended, Calls, Users, Numbered
<1>6. ASSUME NEW x \in Calls, CommitQuote(x) \/ CommitConversion(x) \/ CommitCancellation(x)
      PROVE  TypeOK' /\ AttemptInv'
  BY <1>6, CallsAssumption
     DEF CommitQuote, CommitConversion, CommitCancellation, Unlock, InTx, Ended, Calls, Users, Numbered
<1>7. ASSUME NEW x \in Calls, Fail(x)
      PROVE  TypeOK' /\ AttemptInv'
  BY <1>7 DEF Fail, Unlock, InTx, Ended
<1>8. QED
  BY <1>0, <1>1, <1>2, <1>3, <1>4, <1>5, <1>6, <1>7 DEF Next, Work

\* QuoteInv is inductive.
LEMMA StepInv ==
  ASSUME QuoteInv, [Next]_vars
  PROVE  QuoteInv'
<1> TypeOK' /\ AttemptInv'
  BY TypeStep
<1>1. CASE UNCHANGED vars
  <2>1. \A x \in Numbered : LastNumber(x)' = LastNumber(x) /\ Series(x)' = Series(x)
    BY <1>1, SameLastNumber DEF vars, Series
  <2>2. \A q \in Creations : OrdersOf(q)' = OrdersOf(q)
    BY <1>1 DEF vars, OrdersOf
  <2>3. SeriesInv' /\ NumbersGapFree'
    BY <1>1, <2>1 DEF vars, QuoteInv, SeriesInv, NumbersGapFree
  <2>4. SoldStaysMarked'
    BY <1>1, <2>2 DEF vars, QuoteInv, SoldStaysMarked
  <2>5. QED
    BY <1>1, <2>3, <2>4 DEF vars, QuoteInv, FlowInv, HolderInv
<1>2. ASSUME NEW x \in Calls, Work(x)
      PROVE  QuoteInv'
  BY <1>2, ReadQuoteInv, ReadNumberInv, InsertRowInv, NumberTakenInv, UpdateQuoteInv,
     CommitQuoteInv, CommitConversionInv, CommitCancellationInv
     DEF Work, CommitQuote, CommitConversion, CommitCancellation
<1>3. ASSUME NEW x \in Calls, Fail(x)
      PROVE  QuoteInv'
  BY <1>3, FailInv
<1>4. QED
  BY <1>1, <1>2, <1>3 DEF Next

\* The inductive invariant holds in every reachable state.
THEOREM QuoteInvariant == Spec => []QuoteInv
<1>1. Init => QuoteInv
  BY InitInv
<1>2. QuoteInv /\ [Next]_vars => QuoteInv'
  BY StepInv
<1>3. QED
  BY <1>1, <1>2, PTL DEF Spec

\* Every variable keeps its type.
THEOREM QuoteTypeOK == Spec => []TypeOK
<1>1. QuoteInv => TypeOK
  BY DEF QuoteInv
<1>2. QED
  BY <1>1, QuoteInvariant, PTL

\* Quote and order numbers are 1 .. n per store, without repetition.
THEOREM QuoteNumbersGapFree == Spec => []NumbersGapFree
<1>1. QuoteInv => NumbersGapFree
  BY DEF QuoteInv
<1>2. QED
  BY <1>1, QuoteInvariant, PTL

\* A quote that was sold is never open again and names one of its orders.
THEOREM QuoteSoldStaysMarked == Spec => []SoldStaysMarked
<1>1. QuoteInv => SoldStaysMarked
  BY DEF QuoteInv
<1>2. QED
  BY <1>1, QuoteInvariant, PTL

\* What changes a settled quote was already at work when it was settled.
THEOREM QuoteSettledForGood == Spec => SettledForGood
<1> DEFINE Kept(q) ==
             /\ SettledAndQuiet(q)'
             /\ <<status[q], orderOf[q], OrdersOf(q)>>' = <<status[q], orderOf[q], OrdersOf(q)>>
           Step == \A q \in Creations : SettledAndQuiet(q) => Kept(q)
<1>1. ASSUME QuoteInv, [Next]_vars
      PROVE  [Step]_vars
  <2> SUFFICES ASSUME NEW q \in Creations, SettledAndQuiet(q), Next
               PROVE  Kept(q)
    BY <1>1
  <2>1. PICK x \in Calls : Work(x) \/ Fail(x)
    BY DEF Next
  <2>2. CASE x \in Users /\ QuoteOf[x] = q
    <3>1. QuoteSettled(x)
      BY <2>1, <2>2, CallsAssumption
         DEF SettledAndQuiet, Work, Fail, ReadQuote, Tries, UpdateQuote, ReadNumber,
             InsertRow, NumberTaken, CommitQuote, CommitConversion, CommitCancellation,
             InTx, Users
    <3>2. QED
      BY <1>1, <2>2, <3>1, CallKinds
         DEF QuoteSettled, SettledAndQuiet, OrdersOf, InTx, Calls
  <2>3. CASE ~ (x \in Users /\ QuoteOf[x] = q)
    <3>1. \A y \in Calls \ {x} : pc'[y] = pc[y]
      BY <1>1, <2>1, CallKinds
         DEF Work, Fail, ReadQuote, QuoteSettled, UpdateQuote, ReadNumber,
             InsertRow, NumberTaken, CommitQuote, CommitConversion, CommitCancellation
    <3>2. pc[q] = "committed" /\ (x = q => FALSE)
      BY <1>1, <2>1, CallsAssumption
         DEF SettledAndQuiet, QuoteInv, FlowInv, Work, Fail, ReadNumber, InsertRow,
             NumberTaken, CommitQuote, CommitConversion, CommitCancellation, InTx
    <3>3. status'[q] = status[q] /\ orderOf'[q] = orderOf[q]
      BY <1>1, <2>1, <2>3, <3>2
         DEF QuoteInv, TypeOK, Work, Fail, ReadQuote, QuoteSettled, UpdateQuote, ReadNumber,
             InsertRow, NumberTaken, CommitQuote, CommitConversion, CommitCancellation, Users
    <3>4. OrdersOf(q)' = OrdersOf(q)
      <4>1. \A y \in Conversions : QuoteOf[y] = q => number'[y] = number[y]
        BY <1>1, <2>1, <2>3, CallsAssumption
           DEF QuoteInv, TypeOK, Work, Fail, ReadQuote, QuoteSettled, UpdateQuote, ReadNumber,
               InsertRow, NumberTaken, CommitQuote, CommitConversion, CommitCancellation,
               Users, Numbered
      <4>2. QED
        BY <4>1 DEF OrdersOf
    <3>5. QED
      BY <2>3, <3>1, <3>3, <3>4 DEF SettledAndQuiet, Calls
  <2>4. QED
    BY <2>2, <2>3
<1>2. QED
  BY <1>1, QuoteInvariant, PTL DEF Spec, SettledForGood
=============================================================================
