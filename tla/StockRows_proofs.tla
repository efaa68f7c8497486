------------------------- MODULE StockRows_proofs --------------------------
(***************************************************************************)
(* Proofs about StockRows, for any calls, units and orders.                *)
(***************************************************************************)
EXTENDS StockRows, FiniteSetTheorems, TLAPS

-----------------------------------------------------------------------------
(* Sums over finite sets: the lemmas of OrderCheckout_proofs.              *)

\* The element a fold takes out of s next.
Some(s) == CHOOSE x \in s : TRUE

\* g sums f over every subset of T, one element at a time.
Unfolds(g, f, T) ==
  g = [s \in SUBSET T |-> IF s = {} THEN 0 ELSE f[Some(s)] + g[s \ {Some(s)}]]

\* Induction over finite sets, as a smallest counterexample: of the bad subsets
\* of S, one has no bad subset.
LEMMA SubsetMin ==
  ASSUME NEW S, IsFiniteSet(S), NEW B, B \subseteq SUBSET S, B # {}
  PROVE  \E s \in B : \A t \in B : ~(t \subseteq s /\ t # s)
<1>1. IsWellFoundedOn(StrictSubsetOrdering(S), SUBSET S)
  BY FS_StrictSubsetOrderingWellFounded, FS_FiniteSubsetsOfFinite
<1>2. PICK s \in B : \A t \in B : ~(<<t, s>> \in StrictSubsetOrdering(S))
  BY <1>1, WFMin
<1>3. QED
  BY <1>2 DEF StrictSubsetOrdering

\* Two functions that sum f agree wherever both are defined.
LEMMA UnfoldsUnique ==
  ASSUME NEW f, NEW S, IsFiniteSet(S), NEW U \in SUBSET S, NEW V \in SUBSET S,
         NEW g, Unfolds(g, f, U), NEW h, Unfolds(h, f, V),
         NEW T, T \subseteq U, T \subseteq V
  PROVE  g[T] = h[T]
<1> DEFINE B == {s \in SUBSET S : s \subseteq U /\ s \subseteq V /\ g[s] # h[s]}
<1>1. SUFFICES ASSUME B # {} PROVE FALSE
  OBVIOUS
<1>a. B \subseteq SUBSET S
  OBVIOUS
<1> HIDE DEF B
<1>2. PICK s \in B : \A t \in B : ~(t \subseteq s /\ t # s)
  BY <1>1, <1>a, SubsetMin
<1>3. s \in SUBSET U /\ s \in SUBSET V /\ g[s] # h[s] /\ s \in SUBSET S
  BY DEF B
<1>4. /\ g[s] = IF s = {} THEN 0 ELSE f[Some(s)] + g[s \ {Some(s)}]
      /\ h[s] = IF s = {} THEN 0 ELSE f[Some(s)] + h[s \ {Some(s)}]
  BY <1>3 DEF Unfolds
<1>5. s # {} /\ Some(s) \in s
  BY <1>3, <1>4 DEF Some
<1>6. g[s \ {Some(s)}] = h[s \ {Some(s)}]
  <2>1. s \ {Some(s)} \notin B
    BY <1>2, <1>5
  <2>2. QED
    BY <2>1, <1>3 DEF B
<1>7. QED
  BY <1>3, <1>4, <1>5, <1>6

\* The function SumFunctionOnSet chooses.
SumIs(f, T) == CHOOSE g : Unfolds(g, f, T)

\* There is a function that sums f, over any finite set.
LEMMA SumIsUnfolds ==
  ASSUME NEW f, NEW S, IsFiniteSet(S)
  PROVE  \A T \in SUBSET S : Unfolds(SumIs(f, T), f, T)
<1> DEFINE B == {T \in SUBSET S : ~Unfolds(SumIs(f, T), f, T)}
<1>1. SUFFICES ASSUME B # {} PROVE FALSE
  OBVIOUS
<1>a. B \subseteq SUBSET S
  OBVIOUS
<1> HIDE DEF B
<1>2. PICK T \in B : \A t \in B : ~(t \subseteq T /\ t # T)
  BY <1>1, <1>a, SubsetMin
<1>3. T \in SUBSET S /\ ~Unfolds(SumIs(f, T), f, T)
  BY DEF B
<1>4. \A u \in SUBSET T : u # T => Unfolds(SumIs(f, u), f, u)
  BY <1>2, <1>3 DEF B
<1> DEFINE Below(s) == s \ {Some(s)}
           g == [s \in SUBSET T |->
                   IF s = {} THEN 0 ELSE f[Some(s)] + SumIs(f, Below(s))[Below(s)]]
<1>5. ASSUME NEW u \in SUBSET T, u # T
      PROVE  g[u] = SumIs(f, u)[u]
  <2>1. Unfolds(SumIs(f, u), f, u)
    BY <1>4, <1>5
  <2>2. SumIs(f, u)[u] = IF u = {} THEN 0 ELSE f[Some(u)] + SumIs(f, u)[Below(u)]
    BY <2>1 DEF Unfolds
  <2>3. ASSUME u # {}
        PROVE  SumIs(f, u)[Below(u)] = SumIs(f, Below(u))[Below(u)]
    <3>1. Below(u) \in SUBSET T /\ Below(u) # T /\ Below(u) \subseteq u
      BY <2>3, <1>5 DEF Some
    <3>2. Unfolds(SumIs(f, Below(u)), f, Below(u))
      BY <1>4, <3>1
    <3>3. u \in SUBSET S /\ Below(u) \in SUBSET S
      BY <1>3, <3>1
    <3> HIDE DEF Below
    <3>4. QED
      BY <2>1, <3>1, <3>2, <3>3, UnfoldsUnique
  <2>4. QED
    BY <2>2, <2>3
<1>6. ASSUME NEW s \in SUBSET T
      PROVE  g[s] = IF s = {} THEN 0 ELSE f[Some(s)] + g[Below(s)]
  <2>1. CASE s = {}
    BY <2>1
  <2>2. CASE s # {}
    <3>1. Below(s) \in SUBSET T /\ Below(s) # T
      BY <2>2 DEF Some
    <3>2. QED
      BY <2>2, <3>1, <1>5
  <2>3. QED
    BY <2>1, <2>2
<1>7. Unfolds(g, f, T)
  <2>1. g = [s \in SUBSET T |-> IF s = {} THEN 0 ELSE f[Some(s)] + g[Below(s)]]
    <3>1. g = [s \in SUBSET T |-> g[s]]
      OBVIOUS
    <3> HIDE DEF g
    <3>2. QED
      BY <3>1, <1>6
  <2>2. QED
    BY <2>1 DEF Unfolds
<1> HIDE DEF g
<1>8. Unfolds(SumIs(f, T), f, T)
  BY <1>7 DEF SumIs
<1>9. QED
  BY <1>3, <1>8

\* The sum of f over T, as the specification writes it.
Sum(f, T) == SumFunctionOnSet(f, T)

\* SumFunctionOnSet, unfolded to the recursive function it is.
LEMMA SumDef ==
  ASSUME NEW f, NEW T
  PROVE  Sum(f, T) = SumIs(f, T)[T]
BY DEF Sum, SumFunctionOnSet, FoldFunctionOnSet, MapThenFoldSet, SumIs, Unfolds, Some

\* The equation of a sum over a finite set.
LEMMA SumStep ==
  ASSUME NEW f, NEW S, IsFiniteSet(S)
  PROVE  Sum(f, S) = IF S = {} THEN 0 ELSE f[Some(S)] + Sum(f, S \ {Some(S)})
<1>1. Unfolds(SumIs(f, S), f, S)
  BY SumIsUnfolds
<1>2. SumIs(f, S)[S] = IF S = {} THEN 0 ELSE f[Some(S)] + SumIs(f, S)[S \ {Some(S)}]
  BY <1>1 DEF Unfolds
<1> DEFINE T == S \ {Some(S)}
<1>3. T \in SUBSET S
  OBVIOUS
<1>4. Unfolds(SumIs(f, T), f, T)
  BY <1>3, SumIsUnfolds
<1>5. SumIs(f, S)[T] = SumIs(f, T)[T]
  <2> HIDE DEF T
  <2>1. QED
    BY <1>1, <1>3, <1>4, UnfoldsUnique
<1>6. QED
  BY <1>2, <1>5, SumDef

\* Nothing adds up to 0.
LEMMA SumEmpty ==
  ASSUME NEW f
  PROVE  Sum(f, {}) = 0
BY SumStep, FS_EmptySet

\* A sum of integers is an integer.
LEMMA SumInt ==
  ASSUME NEW f, NEW S, IsFiniteSet(S), \A x \in S : f[x] \in Int
  PROVE  Sum(f, S) \in Int
<1> DEFINE B == {T \in SUBSET S : Sum(f, T) \notin Int}
<1>1. SUFFICES ASSUME B # {} PROVE FALSE
  OBVIOUS
<1>a. B \subseteq SUBSET S
  OBVIOUS
<1> HIDE DEF B
<1>2. PICK T \in B : \A t \in B : ~(t \subseteq T /\ t # T)
  BY <1>1, <1>a, SubsetMin
<1>3. T \in SUBSET S /\ Sum(f, T) \notin Int /\ IsFiniteSet(T)
  BY FS_Subset DEF B
<1>4. T # {} /\ Sum(f, T) = f[Some(T)] + Sum(f, T \ {Some(T)})
  BY <1>3, SumStep
<1>5. Some(T) \in T
  BY <1>4 DEF Some
<1>6. Sum(f, T \ {Some(T)}) \in Int
  BY <1>2, <1>3, <1>5 DEF B
<1>7. QED
  BY <1>3, <1>4, <1>5, <1>6

\* Any element may be taken out first.
LEMMA SumTakeOut ==
  ASSUME NEW f, NEW S, IsFiniteSet(S), \A x \in S : f[x] \in Int, NEW x \in S
  PROVE  Sum(f, S) = f[x] + Sum(f, S \ {x})
<1> DEFINE B == {T \in SUBSET S : \E y \in T : Sum(f, T) # f[y] + Sum(f, T \ {y})}
<1>1. SUFFICES ASSUME B # {} PROVE FALSE
  OBVIOUS
<1>a. B \subseteq SUBSET S
  OBVIOUS
<1> HIDE DEF B
<1>2. PICK T \in B : \A t \in B : ~(t \subseteq T /\ t # T)
  BY <1>1, <1>a, SubsetMin
<1>3. T \in SUBSET S
  BY DEF B
<1>4. PICK y \in T : Sum(f, T) # f[y] + Sum(f, T \ {y})
  BY DEF B
<1>5. \A U \in SUBSET S : IsFiniteSet(U) /\ Sum(f, U) \in Int
  BY FS_Subset, SumInt
<1> DEFINE c == Some(T)
<1>6. c \in T /\ Sum(f, T) = f[c] + Sum(f, T \ {c})
  BY <1>3, <1>5, SumStep DEF Some
<1> HIDE DEF c
<1>7. y # c
  BY <1>4, <1>6
<1> DEFINE R == (T \ {y}) \ {c}
<1>8. Sum(f, T \ {c}) = f[y] + Sum(f, R)
  <2>1. Sum(f, T \ {c}) = f[y] + Sum(f, (T \ {c}) \ {y})
    BY <1>2, <1>3, <1>6, <1>7 DEF B
  <2>2. (T \ {c}) \ {y} = R
    OBVIOUS
  <2>3. QED
    BY <2>1, <2>2
<1>9. Sum(f, T \ {y}) = f[c] + Sum(f, R)
  BY <1>2, <1>3, <1>6, <1>7 DEF B
<1>10. f[c] \in Int /\ f[y] \in Int /\ Sum(f, R) \in Int
  BY <1>3, <1>5, <1>6
<1> HIDE DEF R
<1>11. QED
  BY <1>4, <1>6, <1>8, <1>9, <1>10

\* A new element adds its value.
LEMMA SumAdd ==
  ASSUME NEW f, NEW S, IsFiniteSet(S), NEW x, x \notin S,
         \A y \in S \cup {x} : f[y] \in Int
  PROVE  Sum(f, S \cup {x}) = f[x] + Sum(f, S)
<1>1. IsFiniteSet(S \cup {x}) /\ (S \cup {x}) \ {x} = S
  BY FS_AddElement
<1>2. Sum(f, S \cup {x}) = f[x] + Sum(f, (S \cup {x}) \ {x})
  BY <1>1, SumTakeOut
<1>3. QED
  BY <1>1, <1>2

\* Only the values over the set matter.
LEMMA SumSame ==
  ASSUME NEW f, NEW g, NEW S, IsFiniteSet(S), \A x \in S : f[x] = g[x]
  PROVE  Sum(f, S) = Sum(g, S)
<1> DEFINE B == {T \in SUBSET S : Sum(f, T) # Sum(g, T)}
<1>1. SUFFICES ASSUME B # {} PROVE FALSE
  OBVIOUS
<1>a. B \subseteq SUBSET S
  OBVIOUS
<1> HIDE DEF B
<1>2. PICK T \in B : \A t \in B : ~(t \subseteq T /\ t # T)
  BY <1>1, <1>a, SubsetMin
<1>3. T \in SUBSET S /\ Sum(f, T) # Sum(g, T) /\ IsFiniteSet(T)
  BY FS_Subset DEF B
<1>4. /\ Sum(f, T) = IF T = {} THEN 0 ELSE f[Some(T)] + Sum(f, T \ {Some(T)})
      /\ Sum(g, T) = IF T = {} THEN 0 ELSE g[Some(T)] + Sum(g, T \ {Some(T)})
  BY <1>3, SumStep
<1>5. T # {} /\ Some(T) \in T
  BY <1>3, <1>4 DEF Some
<1>6. Sum(f, T \ {Some(T)}) = Sum(g, T \ {Some(T)})
  BY <1>2, <1>3, <1>5 DEF B
<1>7. QED
  BY <1>3, <1>4, <1>5, <1>6

-----------------------------------------------------------------------------
(* The calls and their steps.                                              *)

\* The kinds of call are disjoint, and so are rows nobody created.
LEMMA Kinds ==
  /\ Purchases \subseteq Writers
  /\ Cancels \subseteq Writers
  /\ Sales \subseteq Writers
  /\ Writers \subseteq RowIds
  /\ NoOne \notin Writers
  /\ \A w \in Writers : Units[w] \in Int
  /\ \A p \in Purchases : p \notin Sales /\ p \notin WebOrders /\ p \notin Cancels
  /\ \A c \in Cancels : c \notin Sales /\ c \notin WebOrders /\ c \notin Purchases
BY StockAssumption DEF Writers, RowIds

\* The transactions that are undone, as one.
Undo(w) ==
  /\ pc[w] \in Open
  /\ Rollback(w)
  /\ UNCHANGED attempt
  /\ \E s \in {"start", "failed"} :
       /\ pc' = [pc EXCEPT ![w] = s]
       /\ s = "start" => w \in Purchases /\ pc[w] = "number" /\ attempt[w] < MaxAttempts

\* The steps that end a transaction without a commit all roll it back.
LEMMA UndoCases ==
  ASSUME NEW w \in Writers,
         \/ DuplicatePurchase(w)
         \/ StockInsufficient(w)
         \/ DuplicateReversal(w)
         \/ Abort(w)
  PROVE  Undo(w)
<1>1. CASE DuplicatePurchase(w)
  BY <1>1 DEF DuplicatePurchase, Undo, Open, Go
<1>2. CASE StockInsufficient(w)
  BY <1>2 DEF StockInsufficient, Undo, Open, Go
<1>3. CASE DuplicateReversal(w)
  BY <1>3 DEF DuplicateReversal, Undo, Open, Go
<1>4. CASE Abort(w)
  BY <1>4 DEF Abort, Undo, Go
<1>5. QED
  BY <1>1, <1>2, <1>3, <1>4

\* The steps that only move the call along, as one.
Advance(w) ==
  \/ ReadOrder(w)
  \/ UpdateCost(w)
  \/ CreatePurchase(w)
  \/ Find(w)
  \/ UpdateOrder(w)
  \/ ReverseCharge(w)

\* The steps that write stock.
WriteStock(w) == UpdateRows(w) \/ CreateRow(w)

LEMMA StepCases ==
  ASSUME [Next]_vars
  PROVE  \/ UNCHANGED vars
         \/ \E w \in Writers : Advance(w) \/ WriteStock(w) \/ Undo(w) \/ Commit(w)
<1>1. CASE UNCHANGED vars
  BY <1>1
<1>2. CASE Terminating
  BY <1>2 DEF Terminating
<1>3. CASE \E w \in Writers : Work(w) \/ Abort(w)
  <2>1. PICK w \in Writers : Work(w) \/ Abort(w)
    BY <1>3
  <2>2. Advance(w) \/ WriteStock(w) \/ Undo(w) \/ Commit(w)
    BY <2>1, UndoCases DEF Work, Advance, WriteStock
  <2>3. QED
    BY <2>2
<1>4. QED
  BY <1>1, <1>2, <1>3 DEF Next

-----------------------------------------------------------------------------
(* Type correctness.                                                       *)

LEMMA InitType == Init => TypeOK
<1> SUFFICES ASSUME Init PROVE TypeOK
  OBVIOUS
<1>1. PICK calls \in Mixes :
        pc = [w \in Writers |-> IF w \notin calls THEN "failed" ELSE
                IF w \in Purchases \cup Cancels THEN "start" ELSE "find"]
  BY DEF Init
<1>2. pc \in [Writers -> {"start"} \cup Open \cup Ended]
  BY <1>1 DEF Open, Ended
<1>3. QED
  BY <1>2, StockAssumption DEF Init, TypeOK, RowIds

\* What w leaves in a row is a number.
LEMMA MovedInt ==
  ASSUME TypeOK, NEW w \in Writers, NEW i \in RowIds
  PROVE  Moved(w, i) \in Int
<1>1. quantity[i] \in Int /\ base[w] \in Int /\ Units[w] \in Int
  BY Kinds DEF TypeOK
<1>2. w \in Sales \cup WebOrders \/ w \in Purchases \cup Cancels \/ w \in Adjustments
  BY DEF Writers
<1>3. QED
  BY <1>1, <1>2 DEF Moved

LEMMA AffectedFound ==
  ASSUME NEW w
  PROVE  Affected(w) \subseteq found[w]
BY DEF Affected

LEMMA FindableVisible ==
  ASSUME NEW w, NEW F \in Findable(w)
  PROVE  /\ F \subseteq rows
         /\ w \in Purchases /\ F = {} => rows = {}
<1>1. CASE w \in Sales
  BY <1>1, Kinds DEF Findable, Visible
<1>2. CASE w \notin Sales /\ w \in WebOrders
  BY <1>2, Kinds DEF Findable, Visible
<1>3. CASE w \notin Sales /\ w \notin WebOrders
  BY <1>3 DEF Findable, Visible
<1>4. QED
  BY <1>1, <1>2, <1>3

LEMMA AdvanceType ==
  ASSUME TypeOK, BuyInv, NEW w \in Writers, Advance(w)
  PROVE  TypeOK'
<1>1. CASE ReadOrder(w)
  BY <1>1 DEF TypeOK, ReadOrder, Go, table, Open, Ended
<1>2. CASE UpdateCost(w)
  <2>1. attempt[w] + 1 \in 0 .. MaxAttempts
    BY <1>2, StockAssumption DEF BuyInv, TypeOK, UpdateCost
  <2>2. QED
    BY <1>2, <2>1 DEF TypeOK, UpdateCost, Go, table, Open
<1>3. CASE CreatePurchase(w)
  BY <1>3 DEF TypeOK, CreatePurchase, Go, table, Open
<1>4. CASE Find(w)
  <2>1. PICK F \in Findable(w) :
          /\ found' = [found EXCEPT ![w] = F]
          /\ base' = [base EXCEPT ![w] =
                        IF w \in Adjustments THEN QuantityIn(F) ELSE 0]
    BY <1>4 DEF Find
  <2>2. F \subseteq rows /\ F \subseteq RowIds
    BY FindableVisible DEF TypeOK
  <2>3. QuantityIn(F) \in Int
    <3>1. CASE F = {}
      BY <3>1 DEF QuantityIn
    <3>2. CASE F # {}
      <4>1. (CHOOSE i \in F : TRUE) \in RowIds
        BY <3>2, <2>2
      <4>2. QED
        BY <3>2, <4>1 DEF QuantityIn, TypeOK
    <3>3. QED
      BY <3>1, <3>2
  <2>4. QED
    BY <1>4, <2>1, <2>2, <2>3 DEF TypeOK, Find, Go, table, Open
<1>5. CASE UpdateOrder(w)
  BY <1>5 DEF TypeOK, UpdateOrder, Go, table, Open
<1>6. CASE ReverseCharge(w)
  BY <1>6 DEF TypeOK, ReverseCharge, Go, table, Open
<1>7. QED
  BY <1>1, <1>2, <1>3, <1>4, <1>5, <1>6 DEF Advance

LEMMA WriteStockType ==
  ASSUME TypeOK, NEW w \in Writers, WriteStock(w)
  PROVE  TypeOK'
<1>1. AfterStock(w) \in Open
  BY DEF AfterStock, Open
<1>2. CASE UpdateRows(w)
  <2>1. \A i \in RowIds : Moved(w, i) \in Int
    BY MovedInt
  <2>2. QED
    BY <1>1, <1>2, <2>1 DEF TypeOK, UpdateRows, Go
<1>3. CASE CreateRow(w)
  BY <1>1, <1>3, Kinds DEF TypeOK, CreateRow, Go
<1>4. QED
  BY <1>2, <1>3 DEF WriteStock

LEMMA UndoType ==
  ASSUME TypeOK, NEW w \in Writers, Undo(w)
  PROVE  TypeOK'
BY DEF TypeOK, Undo, Rollback, Open, Ended

LEMMA CommitType ==
  ASSUME TypeOK, NEW w \in Writers, Commit(w)
  PROVE  TypeOK'
<1>1. \A c \in {w} \cap Cancels : OrderOf[c] \in Orders
  BY StockAssumption
<1>2. QED
  BY <1>1 DEF TypeOK, Commit, Go, Open, Ended

-----------------------------------------------------------------------------
(* The rows.                                                               *)

LEMMA AdvanceRow ==
  ASSUME TypeOK, RowInv, NEW w \in Writers, Advance(w)
  PROVE  RowInv'
<1>1. /\ UNCHANGED <<rows, draft, owner>>
      /\ pc[w] \in {"start", "number", "find", "order", "reversal"}
      /\ \E s \in {"failed", "number", "find", "write", "reversal", "written"} :
           /\ pc' = [pc EXCEPT ![w] = s]
           /\ pc[w] \in {"order", "reversal"} => s \in {"reversal", "written"}
  BY DEF Advance, ReadOrder, UpdateCost, CreatePurchase, Find, UpdateOrder,
         ReverseCharge, Go, table
<1>2. PICK s \in {"failed", "number", "find", "write", "reversal", "written"} :
        /\ pc' = [pc EXCEPT ![w] = s]
        /\ pc[w] \in {"order", "reversal"} => s \in {"reversal", "written"}
  BY <1>1
<1>3. ASSUME NEW i \in RowIds, owner[i] # NoOne
      PROVE  pc'[owner[i]] \in {"order", "reversal", "written"}
  BY <1>1, <1>2, <1>3 DEF RowInv, TypeOK
<1>4. \A v \in Writers \cap rows : pc'[v] = "committed"
  BY <1>1, <1>2 DEF RowInv, TypeOK
<1>5. QED
  BY <1>1, <1>3, <1>4 DEF RowInv

LEMMA WriteStockRow ==
  ASSUME TypeOK, RowInv, NEW w \in Writers, WriteStock(w)
  PROVE  RowInv'
<1>1. /\ pc[w] = "write"
      /\ pc' = [pc EXCEPT ![w] = AfterStock(w)]
      /\ AfterStock(w) \in {"order", "written"}
      /\ rows' = rows
      /\ w \notin rows
  BY DEF WriteStock, UpdateRows, CreateRow, Go, AfterStock, RowInv
<1>2. CASE UpdateRows(w)
  <2>1. \A i \in Affected(w) : i \in rows /\ owner[i] = NoOne
    BY <1>2, AffectedFound DEF UpdateRows, Free, TypeOK
  <2>2. ASSUME w \in Sales, NEW i \in Affected(w), i \in RowIds
        PROVE  Moved(w, i) >= 0
    <3>1. quantity[i] \in Int /\ Units[w] \in Int
      BY <2>2, Kinds DEF TypeOK
    <3>2. quantity[i] >= Units[w]
      BY <2>2 DEF Affected, Enough
    <3>3. Moved(w, i) = quantity[i] - Units[w]
      BY <2>2, StockAssumption DEF Moved
    <3>4. QED
      BY <3>1, <3>2, <3>3
  <2>3. ASSUME NEW i \in RowIds, owner'[i] # NoOne
        PROVE  /\ pc'[owner'[i]] \in {"order", "reversal", "written"}
               /\ i \notin rows => owner'[i] = i
               /\ owner'[i] \in Sales => draft'[i] >= 0
    <3>1. CASE i \in Affected(w)
      <4>1. owner'[i] = w /\ draft'[i] = Moved(w, i)
        BY <1>2, <3>1 DEF UpdateRows
      <4>2. QED
        BY <1>1, <2>1, <2>2, <3>1, <4>1 DEF TypeOK
    <3>2. CASE i \notin Affected(w)
      <4>1. owner'[i] = owner[i] /\ draft'[i] = draft[i] /\ owner[i] \in Writers
        BY <1>2, <2>3, <3>2 DEF UpdateRows, TypeOK
      <4>2. pc'[owner[i]] \in {"order", "reversal", "written"}
        BY <1>1, <2>3, <4>1 DEF RowInv, TypeOK
      <4>3. QED
        BY <2>3, <4>1, <4>2 DEF RowInv
    <3>3. QED
      BY <3>1, <3>2
  <2>4. \A v \in Writers \cap rows : pc'[v] = "committed"
    BY <1>1 DEF RowInv, TypeOK
  <2>5. QED
    BY <1>1, <2>3, <2>4 DEF RowInv
<1>3. CASE CreateRow(w)
  BY <1>1, <1>3, Kinds DEF CreateRow, RowInv, TypeOK
<1>4. QED
  BY <1>2, <1>3 DEF WriteStock

LEMMA UndoRow ==
  ASSUME TypeOK, RowInv, NEW w \in Writers, Undo(w)
  PROVE  RowInv'
BY Kinds DEF Undo, Rollback, RowInv, TypeOK, Open

LEMMA CommitRow ==
  ASSUME TypeOK, RowInv, NEW w \in Writers, Commit(w)
  PROVE  RowInv'
<1>1. \A i \in RowIds : owner[i] = w /\ i \notin rows => i = w
  BY Kinds DEF RowInv
<1>2. QED
  BY <1>1, Kinds DEF Commit, Go, RowInv, TypeOK

-----------------------------------------------------------------------------
(* One purchase at a time.                                                 *)

\* A purchase that moves on is alone in holding the product.
LEMMA KeepBuying ==
  ASSUME TypeOK, BuyInv, NEW w \in Writers, NEW s,
         pc' = [pc EXCEPT ![w] = s],
         \A p \in Purchases \ {w} : attempt'[p] = attempt[p],
         w \in Purchases =>
           /\ s \notin {"order", "reversal"}
           /\ s = "start" => attempt'[w] < MaxAttempts
           /\ s \in {"number", "find", "write", "written"} =>
                \A q \in Purchases : Buying(q) => q = w
  PROVE  BuyInv'
<1>1. \A p \in Purchases : p # w => pc'[p] = pc[p]
  BY Kinds DEF TypeOK
<1>2. pc'[w] = s
  BY DEF TypeOK
<1>3. QED
  BY <1>1, <1>2 DEF BuyInv, Buying

LEMMA AdvanceBuy ==
  ASSUME TypeOK, BuyInv, NEW w \in Writers, Advance(w)
  PROVE  BuyInv'
<1>1. CASE ReadOrder(w)
  BY <1>1, KeepBuying, Kinds DEF ReadOrder, Go
<1>2. CASE UpdateCost(w)
  <2>1. \A p \in Purchases \ {w} : attempt'[p] = attempt[p]
    BY <1>2 DEF UpdateCost, TypeOK
  <2>2. QED
    BY <1>2, <2>1, KeepBuying DEF UpdateCost, Go
<1>3. CASE CreatePurchase(w)
  <2>1. \A q \in Purchases : Buying(q) => q = w
    BY <1>3 DEF CreatePurchase, BuyInv, Buying
  <2>2. QED
    BY <1>3, <2>1, KeepBuying DEF CreatePurchase, Go
<1>4. CASE Find(w)
  <2>1. w \in Purchases => \A q \in Purchases : Buying(q) => q = w
    BY <1>4 DEF Find, BuyInv, Buying
  <2>2. QED
    BY <1>4, <2>1, KeepBuying DEF Find, Go
<1>5. CASE UpdateOrder(w)
  BY <1>5, KeepBuying, Kinds DEF UpdateOrder, Go
<1>6. CASE ReverseCharge(w)
  BY <1>6, KeepBuying, Kinds DEF ReverseCharge, Go
<1>7. QED
  BY <1>1, <1>2, <1>3, <1>4, <1>5, <1>6 DEF Advance

LEMMA WriteStockBuy ==
  ASSUME TypeOK, BuyInv, NEW w \in Writers, WriteStock(w)
  PROVE  BuyInv'
<1>1. /\ pc[w] = "write"
      /\ pc' = [pc EXCEPT ![w] = AfterStock(w)]
      /\ w \in Purchases => AfterStock(w) = "written"
      /\ attempt' = attempt
  BY Kinds DEF WriteStock, UpdateRows, CreateRow, Go, AfterStock
<1>2. w \in Purchases => \A q \in Purchases : Buying(q) => q = w
  BY <1>1 DEF BuyInv, Buying
<1>3. QED
  BY <1>1, <1>2, KeepBuying

LEMMA UndoBuy ==
  ASSUME TypeOK, BuyInv, NEW w \in Writers, Undo(w)
  PROVE  BuyInv'
<1>1. PICK s \in {"start", "failed"} :
        /\ pc' = [pc EXCEPT ![w] = s]
        /\ s = "start" => w \in Purchases /\ pc[w] = "number" /\ attempt[w] < MaxAttempts
  BY DEF Undo
<1>2. QED
  BY <1>1, KeepBuying DEF Undo

LEMMA CommitBuy ==
  ASSUME TypeOK, BuyInv, NEW w \in Writers, Commit(w)
  PROVE  BuyInv'
BY KeepBuying DEF Commit, Go

-----------------------------------------------------------------------------
(* Purchases and the rows they create.                                     *)

\* What ShareInv says of a purchase about to create a row, or that has.
LEMMA AloneMeans ==
  ASSUME ShareInv, NEW p \in Purchases,
         (pc[p] = "write" /\ found[p] = {}) \/ owner[p] = p
  PROVE  rows \cap Purchases = {}
BY DEF ShareInv

LEMMA AdvanceShare ==
  ASSUME TypeOK, ShareInv, NEW w \in Writers, Advance(w)
  PROVE  ShareInv'
<1>1. UNCHANGED <<rows, owner>> /\ pc[w] # "write"
  BY DEF Advance, ReadOrder, UpdateCost, CreatePurchase, Find, UpdateOrder,
         ReverseCharge, table
<1>2. ASSUME NEW p \in Purchases, pc'[p] = "write", found'[p] = {}
      PROVE  rows \cap Purchases = {}
  <2>1. CASE p = w
    <3>1. Find(w)
      BY <1>2, <2>1 DEF Advance, ReadOrder, UpdateCost, CreatePurchase,
                       UpdateOrder, ReverseCharge, Go, TypeOK
    <3>2. PICK F \in Findable(w) : found' = [found EXCEPT ![w] = F]
      BY <3>1 DEF Find
    <3>3. F = {}
      BY <1>2, <2>1, <3>2 DEF TypeOK
    <3>4. QED
      BY <2>1, <3>3, FindableVisible
  <2>2. CASE p # w
    <3>1. pc[p] = "write" /\ found[p] = {}
      BY <1>2, <2>2, Kinds DEF Advance, ReadOrder, UpdateCost, CreatePurchase,
                       Find, UpdateOrder, ReverseCharge, Go, TypeOK
    <3>2. QED
      BY <3>1, AloneMeans
  <2>3. QED
    BY <2>1, <2>2
<1>3. QED
  BY <1>1, <1>2 DEF ShareInv, PurchasesShareRow

LEMMA WriteStockShare ==
  ASSUME TypeOK, RowInv, ShareInv, NEW w \in Writers, WriteStock(w)
  PROVE  ShareInv'
<1>1. /\ rows' = rows
      /\ pc[w] = "write"
      /\ pc'[w] # "write"
      /\ \A p \in Writers \ {w} : pc'[p] = pc[p] /\ found'[p] = found[p]
  BY DEF WriteStock, UpdateRows, CreateRow, Go, AfterStock, TypeOK
<1>2. ASSUME NEW p \in Purchases, pc'[p] = "write", found'[p] = {}
      PROVE  rows \cap Purchases = {}
  <2>1. pc[p] = "write" /\ found[p] = {}
    BY <1>1, <1>2, Kinds
  <2>2. QED
    BY <2>1, AloneMeans
<1>3. ASSUME NEW p \in Purchases, owner'[p] = p
      PROVE  rows \cap Purchases = {}
  <2>1. CASE owner[p] = p
    BY <2>1, AloneMeans
  <2>2. CASE owner[p] # p /\ UpdateRows(w)
    <3>1. p = w /\ p \in Affected(w)
      BY <1>3, <2>2, Kinds DEF UpdateRows
    <3>2. p \in rows
      BY <3>1, AffectedFound DEF TypeOK
    <3>3. QED
      BY <1>1, <3>1, <3>2 DEF RowInv
  <2>3. CASE owner[p] # p /\ CreateRow(w)
    <3>1. p = w /\ found[p] = {}
      BY <1>3, <2>3, Kinds DEF CreateRow, TypeOK
    <3>2. QED
      BY <1>1, <3>1, AloneMeans
  <2>4. QED
    BY <2>1, <2>2, <2>3 DEF WriteStock
<1>4. QED
  BY <1>1, <1>2, <1>3 DEF ShareInv, PurchasesShareRow

LEMMA UndoShare ==
  ASSUME TypeOK, ShareInv, NEW w \in Writers, Undo(w)
  PROVE  ShareInv'
<1>1. /\ rows' = rows
      /\ pc'[w] # "write"
      /\ \A p \in Writers \ {w} : pc'[p] = pc[p] /\ found'[p] = found[p]
      /\ \A p \in Writers : owner'[p] = p => owner[p] = p
  BY Kinds DEF Undo, Rollback, TypeOK
<1>2. QED
  BY <1>1, Kinds DEF ShareInv, PurchasesShareRow

LEMMA CommitShare ==
  ASSUME TypeOK, RowInv, BuyInv, ShareInv, NEW w \in Writers, Commit(w)
  PROVE  ShareInv'
<1>1. /\ pc[w] = "written"
      /\ rows' = rows \cup {i \in RowIds : owner[i] = w}
      /\ pc'[w] = "committed"
      /\ owner'[w] # w
      /\ \A v \in Writers : v # w => /\ pc'[v] = pc[v]
                                     /\ found'[v] = found[v]
                                     /\ (owner'[v] = v => owner[v] = v)
  BY Kinds DEF Commit, Go, TypeOK
<1>2. rows' \subseteq rows \cup {w} /\ (owner[w] # w => rows' \subseteq rows)
  BY <1>1, Kinds DEF RowInv
<1>3. ASSUME NEW p \in Purchases,
             (pc'[p] = "write" /\ found'[p] = {}) \/ owner'[p] = p
      PROVE  rows' \cap Purchases = {}
  <2>1. p # w
    BY <1>1, <1>3
  <2>2. (pc[p] = "write" /\ found[p] = {}) \/ owner[p] = p
    <3>1. p \in Writers
      BY Kinds
    <3>2. /\ pc'[p] = pc[p]
          /\ found'[p] = found[p]
          /\ (owner'[p] = p => owner[p] = p)
      BY <1>1, <2>1, <3>1
    <3>3. QED
      BY <1>3, <3>2
  <2>3. rows \cap Purchases = {}
    BY <2>2, AloneMeans
  <2>4. Buying(p)
    <3>1. p \in RowIds /\ p # NoOne
      BY Kinds
    <3>2. owner[p] = p => pc[p] \in {"order", "reversal", "written"}
      BY <3>1 DEF RowInv
    <3>3. pc[p] \notin {"order", "reversal"}
      BY DEF BuyInv
    <3>4. QED
      BY <2>2, <3>2, <3>3 DEF Buying
  <2>5. w \notin Purchases
    BY <1>1, <2>1, <2>4 DEF Buying, BuyInv
  <2>6. QED
    BY <1>2, <2>3, <2>5
<1>4. PurchasesShareRow'
  <2>1. CASE owner[w] = w /\ w \in Purchases
    <3>1. rows \cap Purchases = {}
      BY <2>1, AloneMeans
    <3>2. QED
      BY <1>2, <3>1 DEF PurchasesShareRow
  <2>2. CASE owner[w] # w \/ w \notin Purchases
    <3>1. rows' \cap Purchases \subseteq rows \cap Purchases
      BY <1>2, <2>2
    <3>2. QED
      BY <3>1 DEF ShareInv, PurchasesShareRow
  <2>3. QED
    BY <2>1, <2>2
<1>5. QED
  BY <1>3, <1>4 DEF ShareInv

-----------------------------------------------------------------------------
(* The cancellations.                                                      *)

Holds(c) == pc[c] \in {"reversal", "written"}

\* A step of a call that neither begins to hold its order nor commits.
LEMMA KeepReversals ==
  ASSUME TypeOK, ReversalInv, reversed' = reversed, NEW w \in Writers, NEW s,
         pc' = [pc EXCEPT ![w] = s],
         w \in Cancels => s \notin {"reversal", "written", "committed"}
  PROVE  ReversalInv'
<1>1. \A c \in Cancels : pc'[c] = (IF c = w THEN s ELSE pc[c])
  BY Kinds DEF TypeOK
<1>2. QED
  BY <1>1 DEF ReversalInv, RestockedOnceOnAccount, Restocked, Committed

LEMMA AdvanceReversal ==
  ASSUME TypeOK, BuyInv, ReversalInv, NEW w \in Writers, Advance(w)
  PROVE  ReversalInv'
<1>1. CASE ReadOrder(w)
  BY <1>1, KeepReversals DEF ReadOrder, Go
<1>2. CASE UpdateCost(w)
  BY <1>2, KeepReversals DEF UpdateCost, Go
<1>3. CASE CreatePurchase(w)
  BY <1>3, KeepReversals DEF CreatePurchase, Go
<1>4. CASE Find(w)
  BY <1>4, KeepReversals DEF Find, Go
<1>5. CASE UpdateOrder(w)
  <2>1. /\ pc'[w] = IF OrderOf[w] \in OnAccount THEN "reversal" ELSE "written"
        /\ \A c \in Cancels \ {w} : pc'[c] = pc[c]
        /\ reversed' = reversed
    BY <1>5, Kinds DEF UpdateOrder, Go, TypeOK
  <2>2. \A c \in Cancels \ {w} : Holds(c) => OrderOf[c] # OrderOf[w]
    BY <1>5 DEF UpdateOrder, OrderHeld, Holds
  <2>3. QED
    BY <2>1, <2>2, <1>5 DEF ReversalInv, Holds, RestockedOnceOnAccount, Restocked, Committed,
                            UpdateOrder
<1>6. CASE ReverseCharge(w)
  <2>1. /\ pc[w] = "reversal"
        /\ pc'[w] = "written"
        /\ OrderOf[w] \notin reversed
        /\ \A c \in Cancels \ {w} : pc'[c] = pc[c]
        /\ reversed' = reversed
    BY <1>6, Kinds DEF ReverseCharge, Go, TypeOK
  <2>2. QED
    BY <2>1 DEF ReversalInv, RestockedOnceOnAccount, Restocked, Committed
<1>7. QED
  BY <1>1, <1>2, <1>3, <1>4, <1>5, <1>6 DEF Advance

LEMMA WriteStockReversal ==
  ASSUME TypeOK, ReversalInv, NEW w \in Writers, WriteStock(w)
  PROVE  ReversalInv'
<1>1. /\ pc' = [pc EXCEPT ![w] = AfterStock(w)]
      /\ w \in Cancels => AfterStock(w) = "order"
      /\ reversed' = reversed
  BY DEF WriteStock, UpdateRows, CreateRow, Go, AfterStock
<1>2. QED
  BY <1>1, KeepReversals

LEMMA UndoReversal ==
  ASSUME TypeOK, ReversalInv, NEW w \in Writers, Undo(w)
  PROVE  ReversalInv'
BY KeepReversals DEF Undo, Rollback

LEMMA CommitReversal ==
  ASSUME TypeOK, ReversalInv, NEW w \in Writers, Commit(w)
  PROVE  ReversalInv'
<1>1. /\ pc[w] = "written"
      /\ pc'[w] = "committed"
      /\ \A c \in Cancels \ {w} : pc'[c] = pc[c]
  BY Kinds DEF Commit, Go, TypeOK
<1>2. CASE w \notin Cancels
  BY <1>1, <1>2 DEF Commit, ReversalInv, RestockedOnceOnAccount, Restocked, Committed
<1>3. CASE w \in Cancels
  <2>1. reversed' = reversed \cup ({OrderOf[w]} \cap OnAccount)
    BY <1>3 DEF Commit
  <2>2. \A c \in Cancels \ {w} : OrderOf[c] = OrderOf[w] => pc[c] \notin {"reversal", "written"}
    BY <1>1, <1>3 DEF ReversalInv
  <2>3. \A c \in Cancels \ {w} :
          OrderOf[c] = OrderOf[w] /\ OrderOf[w] \in OnAccount => pc[c] # "committed"
    BY <1>1, <1>3 DEF ReversalInv
  <2>4. QED
    BY <1>1, <1>3, <2>1, <2>2, <2>3, Kinds
       DEF ReversalInv, RestockedOnceOnAccount, Restocked, Committed
<1>4. QED
  BY <1>2, <1>3

-----------------------------------------------------------------------------
(* The drafts.                                                             *)

Moving == {"order", "reversal", "written"}

\* What a call does to the stock, by its kind.
LEMMA EffectFacts ==
  ASSUME NEW w \in Writers
  PROVE  /\ Effect[w] \in Int
         /\ w \in Sales => Effect[w] = -Units[w]
         /\ w \in WebOrders => Effect[w] = -Units[w]
         /\ w \notin Sales \cup WebOrders => Effect[w] = Units[w]
BY Kinds DEF Effect

\* A call that is about to write has written nothing.
LEMMA WritesOnce ==
  ASSUME TypeOK, RowInv, NEW w \in Writers, pc[w] \notin Moving
  PROVE  \A i \in RowIds : owner[i] # w
BY Kinds DEF RowInv, Moving

LEMMA AdvanceDraft ==
  ASSUME TypeOK, DraftInv, NEW w \in Writers, Advance(w)
  PROVE  DraftInv'
<1>1. /\ UNCHANGED <<rows, quantity, draft, owner>>
      /\ \E s \in {"failed", "number", "find", "write", "reversal", "written"} :
           /\ pc' = [pc EXCEPT ![w] = s]
           /\ s \in Moving => pc[w] \in Moving
  BY DEF Advance, ReadOrder, UpdateCost, CreatePurchase, Find, UpdateOrder,
         ReverseCharge, Go, table, Moving
<1>2. \A v \in Writers : pc'[v] \in Moving => pc[v] \in Moving
  BY <1>1 DEF TypeOK
<1>3. QED
  BY <1>1, <1>2 DEF DraftInv, Moving

LEMMA UpdateRowsDraft ==
  ASSUME TypeOK, RowInv, DraftInv, NEW w \in Writers, UpdateRows(w)
  PROVE  DraftInv'
<1>1. /\ Affected(w) # {}
      /\ Affected(w) \subseteq rows
      /\ Affected(w) \subseteq RowIds
      /\ \A i \in Affected(w) : owner[i] = NoOne
  BY AffectedFound DEF UpdateRows, Free, TypeOK
<1>2. \A i \in RowIds : /\ owner[i] # w
                        /\ owner'[i] = IF i \in Affected(w) THEN w ELSE owner[i]
                        /\ draft'[i] = IF i \in Affected(w) THEN Moved(w, i) ELSE draft[i]
  BY WritesOnce DEF UpdateRows, Moving
<1>3. rows' = rows /\ quantity' = quantity
  BY DEF UpdateRows
<1>4. ASSUME NEW v \in Writers, pc'[v] \in Moving
      PROVE  \E i \in RowIds : owner'[i] = v
  <2>1. CASE v = w
    BY <1>1, <1>2, <2>1
  <2>2. CASE v # w
    <3>1. pc[v] \in Moving
      BY <1>4, <2>2 DEF UpdateRows, Go, TypeOK
    <3>2. PICK i \in RowIds : owner[i] = v
      BY <3>1 DEF DraftInv, Moving
    <3>3. i \notin Affected(w)
      BY <1>1, <3>2, Kinds
    <3>4. QED
      BY <1>2, <3>2, <3>3
  <2>3. QED
    BY <2>1, <2>2
<1>5. ASSUME NEW i \in RowIds, owner'[i] # NoOne
      PROVE  /\ i \notin rows => \A j \in RowIds : owner'[j] = owner'[i] => j = i
             /\ owner'[i] \notin Adjustments =>
                  draft'[i] = quantity[i] + Effect[owner'[i]]
  <2>1. CASE i \in Affected(w)
    <3>1. quantity[i] \in Int /\ Units[w] \in Int
      BY Kinds DEF TypeOK
    <3>2. w \notin Adjustments => Moved(w, i) = quantity[i] + Effect[w]
      BY <3>1, EffectFacts, StockAssumption DEF Moved, Writers
    <3>3. QED
      BY <1>1, <1>2, <2>1, <3>2
  <2>2. CASE i \notin Affected(w)
    <3>1. owner'[i] = owner[i] /\ draft'[i] = draft[i]
      BY <1>2, <2>2
    <3>2. \A j \in RowIds : owner'[j] = owner[i] => owner[j] = owner[i]
      BY <1>2
    <3>3. QED
      BY <1>5, <3>1, <3>2 DEF DraftInv
  <2>3. QED
    BY <2>1, <2>2
<1>6. QED
  BY <1>3, <1>4, <1>5 DEF DraftInv, Moving

LEMMA CreateRowDraft ==
  ASSUME TypeOK, RowInv, DraftInv, NEW w \in Writers, CreateRow(w)
  PROVE  DraftInv'
<1>1. w \notin rows /\ w \in RowIds
  BY Kinds DEF CreateRow, RowInv
<1>2. \A i \in RowIds : owner[i] # w
  BY WritesOnce DEF CreateRow, Moving
<1>3. owner[w] = NoOne
  BY <1>1, <1>2 DEF RowInv
<1>4. /\ owner' = [owner EXCEPT ![w] = w]
      /\ draft' = [draft EXCEPT ![w] = IF w \in WebOrders THEN -Units[w] ELSE Units[w]]
      /\ rows' = rows
      /\ quantity' = quantity
      /\ w \notin Sales
      /\ quantity[w] = 0
  BY <1>1 DEF CreateRow, DraftInv
<1>5. ASSUME NEW v \in Writers, pc'[v] \in Moving
      PROVE  \E i \in RowIds : owner'[i] = v
  <2>1. CASE v = w
    BY <1>1, <1>4, <2>1 DEF TypeOK
  <2>2. CASE v # w
    <3>1. pc[v] \in Moving
      BY <1>5, <2>2 DEF CreateRow, Go, TypeOK
    <3>2. PICK i \in RowIds : owner[i] = v
      BY <3>1 DEF DraftInv, Moving
    <3>3. i # w
      BY <1>3, <3>2, Kinds
    <3>4. QED
      BY <1>4, <3>2, <3>3 DEF TypeOK
  <2>3. QED
    BY <2>1, <2>2
<1>6. ASSUME NEW i \in RowIds, owner'[i] # NoOne
      PROVE  /\ i \notin rows => \A j \in RowIds : owner'[j] = owner'[i] => j = i
             /\ owner'[i] \notin Adjustments =>
                  draft'[i] = quantity[i] + Effect[owner'[i]]
  <2>1. CASE i = w
    <3>1. owner'[i] = w /\ \A j \in RowIds : owner'[j] = w => j = w
      BY <1>1, <1>2, <1>4, <2>1 DEF TypeOK
    <3>2. draft'[i] = Effect[w]
      BY <1>1, <1>4, <2>1, EffectFacts DEF TypeOK
    <3>3. quantity[i] + Effect[w] = Effect[w]
      BY <1>4, <2>1, EffectFacts
    <3>4. QED
      BY <2>1, <3>1, <3>2, <3>3
  <2>2. CASE i # w
    <3>1. owner'[i] = owner[i] /\ draft'[i] = draft[i] /\ owner[i] # w
      BY <1>2, <1>4, <2>2 DEF TypeOK
    <3>2. \A j \in RowIds : owner'[j] = owner[i] => owner[j] = owner[i]
      BY <1>4, <3>1 DEF TypeOK
    <3>3. QED
      BY <1>6, <3>1, <3>2 DEF DraftInv
  <2>3. QED
    BY <2>1, <2>2
<1>7. QED
  BY <1>4, <1>5, <1>6 DEF DraftInv, Moving

\* The rows of a transaction that ends are free, the others as they were.
LEMMA ReleasedRows ==
  ASSUME TypeOK, NEW w \in Writers,
         owner' = [i \in RowIds |-> IF owner[i] = w THEN NoOne ELSE owner[i]],
         draft' = [i \in RowIds |-> IF owner[i] = w THEN 0 ELSE draft[i]],
         NEW i \in RowIds, owner'[i] # NoOne
  PROVE  /\ owner[i] # w /\ owner'[i] = owner[i] /\ draft'[i] = draft[i]
         /\ \A j \in RowIds : owner'[j] = owner'[i] => owner[j] = owner[i]
OBVIOUS

\* Whoever has moved stock, other than the call that ends, still holds it.
LEMMA OthersMoving ==
  ASSUME TypeOK, DraftInv, NEW w \in Writers, NEW s, s \notin Moving,
         pc' = [pc EXCEPT ![w] = s],
         owner' = [i \in RowIds |-> IF owner[i] = w THEN NoOne ELSE owner[i]]
  PROVE  \A v \in Writers : pc'[v] \in Moving => \E i \in RowIds : owner'[i] = v
<1> SUFFICES ASSUME NEW v \in Writers, pc'[v] \in Moving
             PROVE  \E i \in RowIds : owner'[i] = v
  OBVIOUS
<1>1. v # w /\ pc[v] \in Moving
  BY DEF TypeOK
<1>2. PICK i \in RowIds : owner[i] = v
  BY <1>1 DEF DraftInv, Moving
<1>3. QED
  BY <1>1, <1>2

LEMMA UndoDraft ==
  ASSUME TypeOK, DraftInv, NEW w \in Writers, Undo(w)
  PROVE  DraftInv'
<1>1. /\ owner' = [i \in RowIds |-> IF owner[i] = w THEN NoOne ELSE owner[i]]
      /\ draft' = [i \in RowIds |-> IF owner[i] = w THEN 0 ELSE draft[i]]
      /\ rows' = rows
      /\ quantity' = quantity
  BY DEF Undo, Rollback
<1>2. \A v \in Writers : pc'[v] \in Moving => \E i \in RowIds : owner'[i] = v
  <2>1. PICK s \in {"start", "failed"} : pc' = [pc EXCEPT ![w] = s]
    BY DEF Undo
  <2>2. QED
    BY <1>1, <2>1, OthersMoving DEF Moving
<1>3. \A i \in RowIds :
        owner'[i] # NoOne =>
          /\ i \notin rows => \A j \in RowIds : owner'[j] = owner'[i] => j = i
          /\ owner'[i] \notin Adjustments => draft'[i] = quantity[i] + Effect[owner'[i]]
  BY <1>1, ReleasedRows DEF DraftInv
<1>4. QED
  BY <1>1, <1>2, <1>3 DEF DraftInv, Moving

\* A commit adds one row at most, and then its writer holds no other.
LEMMA CommitRows ==
  ASSUME TypeOK, RowInv, DraftInv, NEW w \in Writers, Commit(w)
  PROVE  \/ /\ rows' = rows
            /\ \A i \in RowIds : owner[i] = w => i \in rows
            /\ \E i \in rows : owner[i] = w
         \/ /\ rows' = rows \cup {w}
            /\ w \notin rows
            /\ \A i \in RowIds : owner[i] = w <=> i = w
<1>1. PICK i \in RowIds : owner[i] = w
  BY DEF Commit, DraftInv
<1>2. rows' = rows \cup {j \in RowIds : owner[j] = w}
  BY DEF Commit
<1>3. CASE \A j \in RowIds : owner[j] = w => j \in rows
  BY <1>1, <1>2, <1>3
<1>4. CASE \E j \in RowIds : owner[j] = w /\ j \notin rows
  <2>1. PICK j \in RowIds : owner[j] = w /\ j \notin rows
    BY <1>4
  <2>2. j = w /\ \A k \in RowIds : owner[k] = w => k = w
    BY <2>1, Kinds DEF RowInv, DraftInv
  <2>3. QED
    BY <1>2, <2>1, <2>2
<1>5. QED
  BY <1>3, <1>4

LEMMA CommitDraft ==
  ASSUME TypeOK, RowInv, DraftInv, NEW w \in Writers, Commit(w)
  PROVE  DraftInv'
<1>1. /\ owner' = [i \in RowIds |-> IF owner[i] = w THEN NoOne ELSE owner[i]]
      /\ draft' = [i \in RowIds |-> IF owner[i] = w THEN 0 ELSE draft[i]]
      /\ pc' = [pc EXCEPT ![w] = "committed"]
      /\ \A i \in RowIds : owner[i] # w => quantity'[i] = quantity[i]
      /\ \A i \in RowIds : i \notin rows' => i \notin rows /\ owner[i] # w
      /\ rows \subseteq rows'
  BY DEF Commit, Go
<1>2. IsFiniteSet(rows')
  BY CommitRows, FS_AddElement DEF DraftInv
<1>3. \A i \in RowIds \ rows' : quantity'[i] = 0
  BY <1>1 DEF DraftInv
<1>4. \A v \in Writers : pc'[v] \in Moving => \E i \in RowIds : owner'[i] = v
  BY <1>1, OthersMoving DEF Moving
<1>5. \A i \in RowIds :
        owner'[i] # NoOne =>
          /\ i \notin rows' => \A j \in RowIds : owner'[j] = owner'[i] => j = i
          /\ owner'[i] \notin Adjustments => draft'[i] = quantity'[i] + Effect[owner'[i]]
  BY <1>1, ReleasedRows DEF DraftInv
<1>6. QED
  BY <1>2, <1>3, <1>4, <1>5 DEF DraftInv, Moving

-----------------------------------------------------------------------------
(* The theorems.                                                           *)

LEMMA InitInv == Init => StockInv
<1> SUFFICES ASSUME Init PROVE StockInv
  OBVIOUS
<1>1. \A w \in Writers : pc[w] \in {"start", "find", "failed"}
  BY DEF Init
<1>2. \A p \in Purchases : pc[p] \in {"start", "failed"}
  BY Kinds DEF Init
<1>3. BuyInv
  BY <1>2, StockAssumption DEF Init, BuyInv, Buying
<1>4. RowInv
  BY StockAssumption DEF Init, RowInv
<1>5. ShareInv
  BY <1>2, StockAssumption, Kinds DEF Init, ShareInv, PurchasesShareRow
<1>6. ReversalInv
  BY <1>1, Kinds DEF ReversalInv, RestockedOnceOnAccount, Restocked, Committed
<1>7. QED
  BY <1>3, <1>4, <1>5, <1>6, InitType DEF StockInv

LEMMA NextInv ==
  ASSUME StockInv, [Next]_vars
  PROVE  StockInv'
<1> USE DEF StockInv
<1>1. CASE UNCHANGED vars
  <2>1. TypeOK' /\ RowInv'
    BY <1>1 DEF vars, TypeOK, RowInv
  <2>2. BuyInv'
    BY <1>1 DEF vars, BuyInv, Buying
  <2>3. ShareInv' /\ ReversalInv'
    BY <1>1 DEF vars, ShareInv, PurchasesShareRow, ReversalInv, RestockedOnceOnAccount,
                Restocked, Committed
  <2>4. QED
    BY <2>1, <2>2, <2>3
<1>2. ASSUME NEW w \in Writers, Advance(w)
      PROVE  StockInv'
  BY <1>2, AdvanceType, AdvanceRow, AdvanceBuy, AdvanceShare, AdvanceReversal
<1>3. ASSUME NEW w \in Writers, WriteStock(w)
      PROVE  StockInv'
  BY <1>3, WriteStockType, WriteStockRow, WriteStockBuy, WriteStockShare,
     WriteStockReversal
<1>4. ASSUME NEW w \in Writers, Undo(w)
      PROVE  StockInv'
  BY <1>4, UndoType, UndoRow, UndoBuy, UndoShare, UndoReversal
<1>5. ASSUME NEW w \in Writers, Commit(w)
      PROVE  StockInv'
  BY <1>5, CommitType, CommitRow, CommitBuy, CommitShare, CommitReversal
<1>6. QED
  BY <1>1, <1>2, <1>3, <1>4, <1>5, StepCases

\* The inductive invariant: rows are written under lock, purchases come one at
\* a time, and the reversal of an order is posted by one cancellation.
THEOREM StockInvariant == Spec => []StockInv
BY InitInv, NextInv, PTL DEF Spec

\* Every variable keeps its type, for any calls, units and orders.
THEOREM StockTypeOK == Spec => []TypeOK
<1>1. StockInv => TypeOK
  BY DEF StockInv
<1>2. QED
  BY <1>1, StockInvariant, PTL

\* No two purchases of the store ever create rows for one product.
THEOREM StockPurchasesShareRow == Spec => []PurchasesShareRow
<1>1. StockInv => PurchasesShareRow
  BY DEF StockInv, ShareInv
<1>2. QED
  BY <1>1, StockInvariant, PTL

\* An order with a charge gives its stock back once, however many
\* cancellations of it run.
THEOREM StockRestockedOnce == Spec => []RestockedOnceOnAccount
<1>1. StockInv => RestockedOnceOnAccount
  BY DEF StockInv, ReversalInv
<1>2. QED
  BY <1>1, StockInvariant, PTL

\* No sale takes a row below zero, whatever else writes the row meanwhile.
THEOREM StockSaleNeverOverdraws == Spec => SaleNeverOverdraws
<1> DEFINE Step == \A s \in Sales, i \in RowIds :
       pc[s] = "written" /\ pc'[s] = "committed" /\ quantity'[i] # quantity[i]
         => quantity'[i] >= 0
<1>1. ASSUME StockInv, [Next]_vars
      PROVE  [Step]_vars
  <2>1. SUFFICES ASSUME NEW s \in Sales, NEW i \in RowIds,
                        pc[s] = "written", pc'[s] = "committed",
                        quantity'[i] # quantity[i]
                 PROVE  quantity'[i] >= 0
    OBVIOUS
  <2>2. Commit(s)
    BY <1>1, <2>1, StepCases, Kinds
       DEF StockInv, TypeOK, vars, Advance, ReadOrder, UpdateCost,
           CreatePurchase, Find, UpdateOrder, ReverseCharge, WriteStock, UpdateRows,
           CreateRow, AfterStock, Undo, Commit, Go
  <2>3. owner[i] = s /\ quantity'[i] = draft[i]
    BY <2>1, <2>2 DEF Commit
  <2>4. QED
    BY <1>1, <2>1, <2>3, Kinds DEF StockInv, RowInv
<1>2. QED
  BY <1>1, StockInvariant, PTL DEF Spec, SaleNeverOverdraws

\* Every draft is what its row had and the effect of the call.
LEMMA DraftInvariant == Spec => []DraftInv
<1>1. Init => DraftInv
  <2> SUFFICES ASSUME Init PROVE DraftInv
    OBVIOUS
  <2>1. \A w \in Writers : pc[w] \notin Moving
    BY DEF Init, Moving
  <2>2. IsFiniteSet(rows)
    <3>1. rows = {} \/ rows = {Origin}
      BY DEF Init
    <3>2. IsFiniteSet({}) /\ IsFiniteSet({Origin})
      BY FS_EmptySet, FS_Singleton
    <3>3. QED
      BY <3>1, <3>2
  <2>3. QED
    BY <2>1, <2>2 DEF Init, DraftInv, Moving
<1>2. StockInv /\ DraftInv /\ [Next]_vars => DraftInv'
  <2> SUFFICES ASSUME StockInv, DraftInv, [Next]_vars PROVE DraftInv'
    OBVIOUS
  <2>1. CASE UNCHANGED vars
    BY <2>1 DEF vars, DraftInv
  <2>2. QED
    BY <2>1, StepCases, AdvanceDraft, UpdateRowsDraft, CreateRowDraft, UndoDraft,
       CommitDraft DEF StockInv, WriteStock
<1>3. QED
  BY <1>1, <1>2, StockInvariant, PTL DEF Spec

-----------------------------------------------------------------------------
(* One row is an atomic counter.                                           *)

Split == Cardinality(rows) > 1

LEMMA OnHandInt ==
  ASSUME NEW q \in [RowIds -> Int], NEW R \in SUBSET RowIds, IsFiniteSet(R)
  PROVE  SumFunctionOnSet(q, R) \in Int
<1>1. \A i \in R : q[i] \in Int
  OBVIOUS
<1>2. QED
  BY <1>1, SumInt DEF Sum

\* Writing the only row, or creating another, moves the stock by the effect.
LEMMA CommitMoves ==
  ASSUME TypeOK, RowInv, DraftInv, NEW w \in Writers, Commit(w), ~Split,
         w \notin Adjustments
  PROVE  OnHand' = OnHand + Effect[w] /\ (w \in Sales => OnHand' >= 0)
<1>1. /\ \A i \in RowIds : quantity'[i] = IF owner[i] = w THEN draft[i] ELSE quantity[i]
      /\ quantity \in [RowIds -> Int] /\ quantity' \in [RowIds -> Int]
      /\ rows \subseteq RowIds
      /\ IsFiniteSet(rows)
      /\ Effect[w] \in Int
      /\ w # NoOne
  BY EffectFacts, Kinds DEF Commit, TypeOK, DraftInv
<1>2. \A i \in RowIds : owner[i] = w => /\ draft[i] = quantity[i] + Effect[w]
                                        /\ w \in Sales => draft[i] >= 0
  BY <1>1 DEF DraftInv, RowInv
<1>3. CASE rows' = rows /\ \E i \in rows : owner[i] = w
  <2>1. PICK i \in rows : owner[i] = w
    BY <1>3
  <2>2. rows = {i}
    <3>1. Cardinality(rows) \in Nat /\ Cardinality(rows) # 0
      BY <1>1, <2>1, FS_CardinalityType, FS_EmptySet
    <3>2. Cardinality(rows) = 1
      BY <3>1 DEF Split
    <3>3. QED
      BY <1>1, <2>1, <3>2, FS_Singleton
  <2>3. ASSUME NEW q, q[i] \in Int
        PROVE  SumFunctionOnSet(q, {i}) = q[i]
    <3>1. SumFunctionOnSet(q, {} \cup {i}) = q[i] + SumFunctionOnSet(q, {})
      BY <2>3, FS_EmptySet, SumAdd DEF Sum
    <3>2. SumFunctionOnSet(q, {}) = 0 /\ {} \cup {i} = {i}
      BY SumEmpty DEF Sum
    <3>3. QED
      BY <2>3, <3>1, <3>2
  <2>4. OnHand = quantity[i] /\ OnHand' = quantity'[i]
    BY <1>1, <1>3, <2>2, <2>3 DEF OnHand
  <2>5. QED
    BY <1>1, <1>2, <2>1, <2>4
<1>4. CASE rows' = rows \cup {w} /\ w \notin rows /\ \A i \in RowIds : owner[i] = w <=> i = w
  <2>1. w \in RowIds /\ \A i \in rows : quantity'[i] = quantity[i]
    BY <1>1, <1>4, Kinds
  <2>2. SumFunctionOnSet(quantity', rows) = OnHand
    BY <1>1, <2>1, SumSame DEF OnHand, Sum
  <2>3. OnHand' = quantity'[w] + OnHand
    <3>1. \A i \in rows \cup {w} : quantity'[i] \in Int
      BY <1>1, <2>1
    <3>2. SumFunctionOnSet(quantity', rows \cup {w})
            = quantity'[w] + SumFunctionOnSet(quantity', rows)
      BY <1>1, <1>4, <3>1, SumAdd DEF Sum
    <3>3. QED
      BY <1>4, <2>2, <3>2 DEF OnHand
  <2>4. quantity'[w] = Effect[w]
    BY <1>1, <1>2, <1>4, <2>1 DEF DraftInv
  \* A sale would leave the new row below zero.
  <2>5. w \notin Sales
    BY <1>1, <1>2, <1>4, <2>1, EffectFacts, StockAssumption, Kinds DEF DraftInv
  <2>6. QED
    BY <1>1, <2>3, <2>4, <2>5, OnHandInt DEF OnHand
<1>5. QED
  BY <1>3, <1>4, CommitRows

\* Nothing commits with a rival that has.
LEMMA CommitAlone ==
  ASSUME StockInv, NEW w \in Writers, Commit(w)
  PROVE  /\ w \notin Committed /\ Committed' = Committed \cup {w}
         /\ Rivals[w] \cap Committed = {}
<1>1. w \notin Committed /\ Committed' = Committed \cup {w}
  BY DEF StockInv, TypeOK, Commit, Go, Committed
<1>2. Rivals[w] \cap Committed = {}
  BY DEF StockInv, ReversalInv, Commit, Rivals, Committed
<1>3. QED
  BY <1>1, <1>2

\* Each commit is a step of the book.
LEMMA CommitIsBookStep ==
  ASSUME StockInv, DraftInv, NEW w \in Writers, Commit(w)
  PROVE  Book!Next
<1> USE DEF StockInv
<1>1. OnHand' \in Int
  <2>1. TypeOK' /\ DraftInv'
    BY CommitType, CommitDraft
  <2>2. quantity' \in [RowIds -> Int] /\ rows' \in SUBSET RowIds /\ IsFiniteSet(rows')
    BY <2>1 DEF TypeOK, DraftInv
  <2>3. QED
    BY <2>2, OnHandInt DEF OnHand
<1>2. Split' \in {Split, TRUE}
  <2>1. IsFiniteSet(rows) /\ IsFiniteSet(rows') /\ rows \subseteq rows'
    BY CommitDraft DEF DraftInv, Commit
  <2>2. Cardinality(rows) <= Cardinality(rows')
    BY <2>1, FS_Subset
  <2>3. Cardinality(rows) \in Nat /\ Cardinality(rows') \in Nat
    BY <2>1, FS_CardinalityType
  <2>4. Cardinality(rows) > 1 => Cardinality(rows') > 1
    BY <2>2, <2>3
  <2> DEFINE before == Cardinality(rows) > 1
             after == Cardinality(rows') > 1
  <2>5. before \in BOOLEAN /\ after \in BOOLEAN /\ (before => after)
    BY <2>3, <2>4
  <2> HIDE DEF before, after
  <2>6. after \in {before, TRUE}
    BY <2>5, Zenon
  <2>7. QED
    BY <2>6, Zenon DEF Split, before, after
<1>3. Book!Apply(w) \/ Book!Overwrite(w)
  <2>1. CASE Split \/ w \in Adjustments
    BY <1>1, <2>1 DEF Book!Overwrite, Split
  <2>2. CASE ~Split /\ w \notin Adjustments
    BY <2>2, CommitMoves DEF Book!Apply, Split
  <2>3. QED
    BY <2>1, <2>2
<1>4. QED
  BY <1>2, <1>3, CommitAlone DEF Book!Next, Split

\* The five kinds of transaction implement StockBook: while a product has one
\* row, every sale, purchase, web order and cancellation that commits moves its
\* stock by its own units, once and at its commit, whatever runs between its
\* read and its write.
THEOREM StockImplementsBook == Spec => BookSpec
<1>1. Init => Book!Init
  <2> SUFFICES ASSUME Init PROVE Book!Init
    OBVIOUS
  <2>1. Committed = {}
    BY DEF Init, Committed
  <2>2. rows = {} \/ rows = {Origin}
    BY DEF Init
  <2>3. ~(Cardinality(rows) > 1)
    <3>1. Cardinality({}) = 0 /\ Cardinality({Origin}) = 1
      BY FS_EmptySet, FS_Singleton
    <3>2. Cardinality(rows) = 0 \/ Cardinality(rows) = 1
      BY <2>2, <3>1
    <3>3. QED
      BY <3>2
  <2>4. OnHand \in Int
    <3>1. \A i \in rows : quantity[i] \in Int
      BY StockAssumption DEF Init, RowIds
    <3>2. QED
      BY <2>2, <3>1, FS_EmptySet, FS_Singleton, SumInt DEF OnHand, Sum
  <2>5. QED
    BY <2>1, <2>3, <2>4 DEF Book!Init
<1>2. StockInv /\ DraftInv /\ [Next]_vars => [Book!Next]_(Book!vars)
  <2> SUFFICES ASSUME StockInv, DraftInv, [Next]_vars
               PROVE  Book!Next \/ UNCHANGED Book!vars
    OBVIOUS
  <2>1. ASSUME UNCHANGED <<rows, quantity>>, Committed' = Committed
        PROVE  UNCHANGED Book!vars
    BY <2>1 DEF Book!vars, OnHand
  <2>2. CASE UNCHANGED vars
    BY <2>1, <2>2 DEF vars, Committed
  <2>3. ASSUME NEW w \in Writers, Advance(w) \/ WriteStock(w) \/ Undo(w)
        PROVE  UNCHANGED Book!vars
    <3>1. UNCHANGED <<rows, quantity>>
      BY <2>3 DEF Advance, ReadOrder, UpdateCost, CreatePurchase, Find, UpdateOrder,
         ReverseCharge, WriteStock, UpdateRows, CreateRow, Undo, Rollback, table
    <3>2. PICK s : pc' = [pc EXCEPT ![w] = s] /\ s # "committed" /\ pc[w] # "committed"
      BY <2>3 DEF Advance, ReadOrder, UpdateCost, CreatePurchase, Find, UpdateOrder,
         ReverseCharge, WriteStock, UpdateRows, CreateRow, AfterStock, Undo, Open, Go
    <3>3. Committed' = Committed
      BY <3>2 DEF Committed, StockInv, TypeOK
    <3>4. QED
      BY <2>1, <3>1, <3>3
  <2>4. QED
    BY <2>2, <2>3, StepCases, CommitIsBookStep
<1>3. QED
  BY <1>1, <1>2, StockInvariant, DraftInvariant, PTL DEF Spec, BookSpec, Book!Spec
=============================================================================
