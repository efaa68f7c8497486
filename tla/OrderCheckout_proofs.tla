----------------------- MODULE OrderCheckout_proofs -----------------------
(***************************************************************************)
(* Proofs about the sales of the counter: about OrderCheckout, for any set *)
(* of calls and rows, any carts and any number of attempts, and about the  *)
(* till that makes the calls, SaleScreen, for any products, prices,        *)
(* discounts and bounds. Both need the sums over finite sets.              *)
(***************************************************************************)
EXTENDS OrderCheckout, SaleScreen, SequenceTheorems, FiniteSetTheorems, TLAPS

-----------------------------------------------------------------------------
(* Sums over finite sets. The theorems of the library about folds need an  *)
(* operator as a parameter; these are about the functions SumFunctionOnSet *)
(* takes, and their induction is over the strict subsets of a finite set.  *)

\* The element a fold takes out of s next.
Some(s) == CHOOSE x \in s : TRUE

\* g sums f over every subset of T, one element at a time.
Unfolds(g, f, T) ==
  g = [s \in SUBSET T |-> IF s = {} THEN 0 ELSE f[Some(s)] + g[s \ {Some(s)}]]

\* Induction over finite sets, as a smallest counterexample: of the bad subsets
\* of S, one has no bad subset.
LEMMA SubsetMin ==
  ASSUME NEW S, IsFiniteSet(S), NEW B, B \subseteq SUBSET S, B # {}
  PROVE  \E s \in B : \A t \in B : ~(t \subseteq s /\ t # s)
<1>1. IsWellFoundedOn(StrictSubsetOrdering(S), SUBSET S)
  BY FS_StrictSubsetOrderingWellFounded, FS_FiniteSubsetsOfFinite
<1>2. PICK s \in B : \A t \in B : ~(<<t, s>> \in StrictSubsetOrdering(S))
  BY <1>1, WFMin
<1>3. QED
  BY <1>2 DEF StrictSubsetOrdering

\* Two functions that sum f agree wherever both are defined.
LEMMA UnfoldsUnique ==
  ASSUME NEW f, NEW S, IsFiniteSet(S), NEW U \in SUBSET S, NEW V \in SUBSET S,
         NEW g, Unfolds(g, f, U), NEW h, Unfolds(h, f, V),
         NEW T, T \subseteq U, T \subseteq V
  PROVE  g[T] = h[T]
<1> DEFINE B == {s \in SUBSET S : s \subseteq U /\ s \subseteq V /\ g[s] # h[s]}
<1>1. SUFFICES ASSUME B # {} PROVE FALSE
  OBVIOUS
<1>a. B \subseteq SUBSET S
  OBVIOUS
<1> HIDE DEF B
<1>2. PICK s \in B : \A t \in B : ~(t \subseteq s /\ t # s)
  BY <1>1, <1>a, SubsetMin
<1>3. s \in SUBSET U /\ s \in SUBSET V /\ g[s] # h[s] /\ s \in SUBSET S
  BY DEF B
<1>4. /\ g[s] = IF s = {} THEN 0 ELSE f[Some(s)] + g[s \ {Some(s)}]
      /\ h[s] = IF s = {} THEN 0 ELSE f[Some(s)] + h[s \ {Some(s)}]
  BY <1>3 DEF Unfolds
<1>5. s # {} /\ Some(s) \in s
  BY <1>3, <1>4 DEF Some
<1>6. g[s \ {Some(s)}] = h[s \ {Some(s)}]
  <2>1. s \ {Some(s)} \notin B
    BY <1>2, <1>5
  <2>2. QED
    BY <2>1, <1>3 DEF B
<1>7. QED
  BY <1>3, <1>4, <1>5, <1>6

\* The function SumFunctionOnSet chooses.
SumIs(f, T) == CHOOSE g : Unfolds(g, f, T)

\* There is a function that sums f, over any finite set.
LEMMA SumIsUnfolds ==
  ASSUME NEW f, NEW S, IsFiniteSet(S)
  PROVE  \A T \in SUBSET S : Unfolds(SumIs(f, T), f, T)
<1> DEFINE B == {T \in SUBSET S : ~Unfolds(SumIs(f, T), f, T)}
<1>1. SUFFICES ASSUME B # {} PROVE FALSE
  OBVIOUS
<1>a. B \subseteq SUBSET S
  OBVIOUS
<1> HIDE DEF B
<1>2. PICK T \in B : \A t \in B : ~(t \subseteq T /\ t # T)
  BY <1>1, <1>a, SubsetMin
<1>3. T \in SUBSET S /\ ~Unfolds(SumIs(f, T), f, T)
  BY DEF B
<1>4. \A u \in SUBSET T : u # T => Unfolds(SumIs(f, u), f, u)
  BY <1>2, <1>3 DEF B
<1> DEFINE Below(s) == s \ {Some(s)}
           g == [s \in SUBSET T |->
                   IF s = {} THEN 0 ELSE f[Some(s)] + SumIs(f, Below(s))[Below(s)]]
<1>5. ASSUME NEW u \in SUBSET T, u # T
      PROVE  g[u] = SumIs(f, u)[u]
  <2>1. Unfolds(SumIs(f, u), f, u)
    BY <1>4, <1>5
  <2>2. SumIs(f, u)[u] = IF u = {} THEN 0 ELSE f[Some(u)] + SumIs(f, u)[Below(u)]
    BY <2>1 DEF Unfolds
  <2>3. ASSUME u # {}
        PROVE  SumIs(f, u)[Below(u)] = SumIs(f, Below(u))[Below(u)]
    <3>1. Below(u) \in SUBSET T /\ Below(u) # T /\ Below(u) \subseteq u
      BY <2>3, <1>5 DEF Some
    <3>2. Unfolds(SumIs(f, Below(u)), f, Below(u))
      BY <1>4, <3>1
    <3>3. u \in SUBSET S /\ Below(u) \in SUBSET S
      BY <1>3, <3>1
    <3> HIDE DEF Below
    <3>4. QED
      BY <2>1, <3>1, <3>2, <3>3, UnfoldsUnique
  <2>4. QED
    BY <2>2, <2>3
<1>6. ASSUME NEW s \in SUBSET T
      PROVE  g[s] = IF s = {} THEN 0 ELSE f[Some(s)] + g[Below(s)]
  <2>1. CASE s = {}
    BY <2>1
  <2>2. CASE s # {}
    <3>1. Below(s) \in SUBSET T /\ Below(s) # T
      BY <2>2 DEF Some
    <3>2. QED
      BY <2>2, <3>1, <1>5
  <2>3. QED
    BY <2>1, <2>2
<1>7. Unfolds(g, f, T)
  <2>1. g = [s \in SUBSET T |-> IF s = {} THEN 0 ELSE f[Some(s)] + g[Below(s)]]
    <3>1. g = [s \in SUBSET T |-> g[s]]
      OBVIOUS
    <3> HIDE DEF g
    <3>2. QED
      BY <3>1, <1>6
  <2>2. QED
    BY <2>1 DEF Unfolds
<1> HIDE DEF g
<1>8. Unfolds(SumIs(f, T), f, T)
  BY <1>7 DEF SumIs
<1>9. QED
  BY <1>3, <1>8

\* The sum of f over T, as the specification writes it.
Sum(f, T) == SumFunctionOnSet(f, T)

\* SumFunctionOnSet, unfolded to the recursive function it is.
LEMMA SumDef ==
  ASSUME NEW f, NEW T
  PROVE  Sum(f, T) = SumIs(f, T)[T]
BY DEF Sum, SumFunctionOnSet, FoldFunctionOnSet, MapThenFoldSet, SumIs, Unfolds, Some

\* The equation of a sum over a finite set.
LEMMA SumStep ==
  ASSUME NEW f, NEW S, IsFiniteSet(S)
  PROVE  Sum(f, S) = IF S = {} THEN 0 ELSE f[Some(S)] + Sum(f, S \ {Some(S)})
<1>1. Unfolds(SumIs(f, S), f, S)
  BY SumIsUnfolds
<1>2. SumIs(f, S)[S] = IF S = {} THEN 0 ELSE f[Some(S)] + SumIs(f, S)[S \ {Some(S)}]
  BY <1>1 DEF Unfolds
<1> DEFINE T == S \ {Some(S)}
<1>3. T \in SUBSET S
  OBVIOUS
<1>4. Unfolds(SumIs(f, T), f, T)
  BY <1>3, SumIsUnfolds
<1>5. SumIs(f, S)[T] = SumIs(f, T)[T]
  <2> HIDE DEF T
  <2>1. QED
    BY <1>1, <1>3, <1>4, UnfoldsUnique
<1>6. QED
  BY <1>2, <1>5, SumDef

\* Nothing adds up to 0.
LEMMA SumEmpty ==
  ASSUME NEW f
  PROVE  Sum(f, {}) = 0
BY SumStep, FS_EmptySet

\* A sum of integers is an integer.
LEMMA SumInt ==
  ASSUME NEW f, NEW S, IsFiniteSet(S), \A x \in S : f[x] \in Int
  PROVE  Sum(f, S) \in Int
<1> DEFINE B == {T \in SUBSET S : Sum(f, T) \notin Int}
<1>1. SUFFICES ASSUME B # {} PROVE FALSE
  OBVIOUS
<1>a. B \subseteq SUBSET S
  OBVIOUS
<1> HIDE DEF B
<1>2. PICK T \in B : \A t \in B : ~(t \subseteq T /\ t # T)
  BY <1>1, <1>a, SubsetMin
<1>3. T \in SUBSET S /\ Sum(f, T) \notin Int /\ IsFiniteSet(T)
  BY FS_Subset DEF B
<1>4. T # {} /\ Sum(f, T) = f[Some(T)] + Sum(f, T \ {Some(T)})
  BY <1>3, SumStep
<1>5. Some(T) \in T
  BY <1>4 DEF Some
<1>6. Sum(f, T \ {Some(T)}) \in Int
  BY <1>2, <1>3, <1>5 DEF B
<1>7. QED
  BY <1>3, <1>4, <1>5, <1>6

\* Any element may be taken out first.
LEMMA SumTakeOut ==
  ASSUME NEW f, NEW S, IsFiniteSet(S), \A x \in S : f[x] \in Int, NEW x \in S
  PROVE  Sum(f, S) = f[x] + Sum(f, S \ {x})
<1> DEFINE B == {T \in SUBSET S : \E y \in T : Sum(f, T) # f[y] + Sum(f, T \ {y})}
<1>1. SUFFICES ASSUME B # {} PROVE FALSE
  OBVIOUS
<1>a. B \subseteq SUBSET S
  OBVIOUS
<1> HIDE DEF B
<1>2. PICK T \in B : \A t \in B : ~(t \subseteq T /\ t # T)
  BY <1>1, <1>a, SubsetMin
<1>3. T \in SUBSET S
  BY DEF B
<1>4. PICK y \in T : Sum(f, T) # f[y] + Sum(f, T \ {y})
  BY DEF B
<1>5. \A U \in SUBSET S : IsFiniteSet(U) /\ Sum(f, U) \in Int
  BY FS_Subset, SumInt
<1> DEFINE c == Some(T)
<1>6. c \in T /\ Sum(f, T) = f[c] + Sum(f, T \ {c})
  BY <1>3, <1>5, SumStep DEF Some
<1> HIDE DEF c
<1>7. y # c
  BY <1>4, <1>6
<1> DEFINE R == (T \ {y}) \ {c}
<1>8. Sum(f, T \ {c}) = f[y] + Sum(f, R)
  <2>1. Sum(f, T \ {c}) = f[y] + Sum(f, (T \ {c}) \ {y})
    BY <1>2, <1>3, <1>6, <1>7 DEF B
  <2>2. (T \ {c}) \ {y} = R
    OBVIOUS
  <2>3. QED
    BY <2>1, <2>2
<1>9. Sum(f, T \ {y}) = f[c] + Sum(f, R)
  BY <1>2, <1>3, <1>6, <1>7 DEF B
<1>10. f[c] \in Int /\ f[y] \in Int /\ Sum(f, R) \in Int
  BY <1>3, <1>5, <1>6
<1> HIDE DEF R
<1>11. QED
  BY <1>4, <1>6, <1>8, <1>9, <1>10

\* A new element adds its value.
LEMMA SumAdd ==
  ASSUME NEW f, NEW S, IsFiniteSet(S), NEW x, x \notin S,
         \A y \in S \cup {x} : f[y] \in Int
  PROVE  Sum(f, S \cup {x}) = f[x] + Sum(f, S)
<1>1. IsFiniteSet(S \cup {x}) /\ (S \cup {x}) \ {x} = S
  BY FS_AddElement
<1>2. Sum(f, S \cup {x}) = f[x] + Sum(f, (S \cup {x}) \ {x})
  BY <1>1, SumTakeOut
<1>3. QED
  BY <1>1, <1>2

\* Only the values over the set matter.
LEMMA SumSame ==
  ASSUME NEW f, NEW g, NEW S, IsFiniteSet(S), \A x \in S : f[x] = g[x]
  PROVE  Sum(f, S) = Sum(g, S)
<1> DEFINE B == {T \in SUBSET S : Sum(f, T) # Sum(g, T)}
<1>1. SUFFICES ASSUME B # {} PROVE FALSE
  OBVIOUS
<1>a. B \subseteq SUBSET S
  OBVIOUS
<1> HIDE DEF B
<1>2. PICK T \in B : \A t \in B : ~(t \subseteq T /\ t # T)
  BY <1>1, <1>a, SubsetMin
<1>3. T \in SUBSET S /\ Sum(f, T) # Sum(g, T) /\ IsFiniteSet(T)
  BY FS_Subset DEF B
<1>4. /\ Sum(f, T) = IF T = {} THEN 0 ELSE f[Some(T)] + Sum(f, T \ {Some(T)})
      /\ Sum(g, T) = IF T = {} THEN 0 ELSE g[Some(T)] + Sum(g, T \ {Some(T)})
  BY <1>3, SumStep
<1>5. T # {} /\ Some(T) \in T
  BY <1>3, <1>4 DEF Some
<1>6. Sum(f, T \ {Some(T)}) = Sum(g, T \ {Some(T)})
  BY <1>2, <1>3, <1>5 DEF B
<1>7. QED
  BY <1>3, <1>4, <1>5, <1>6

\* A sum of natural numbers is one.
LEMMA SumNat ==
  ASSUME NEW f, NEW S, IsFiniteSet(S), \A x \in S : f[x] \in Nat
  PROVE  Sum(f, S) \in Nat
<1> DEFINE B == {T \in SUBSET S : Sum(f, T) \notin Nat}
<1>1. SUFFICES ASSUME B # {} PROVE FALSE
  OBVIOUS
<1>a. B \subseteq SUBSET S
  OBVIOUS
<1> HIDE DEF B
<1>2. PICK T \in B : \A t \in B : ~(t \subseteq T /\ t # T)
  BY <1>1, <1>a, SubsetMin
<1>3. T \in SUBSET S /\ Sum(f, T) \notin Nat /\ IsFiniteSet(T)
  BY FS_Subset DEF B
<1>4. T # {} /\ Sum(f, T) = f[Some(T)] + Sum(f, T \ {Some(T)})
  <2>1. Sum(f, T) = IF T = {} THEN 0 ELSE f[Some(T)] + Sum(f, T \ {Some(T)})
    BY <1>3, SumStep
  <2>2. 0 \in Nat
    OBVIOUS
  <2>3. QED
    BY <1>3, <2>1, <2>2
<1>5. Some(T) \in T
  BY <1>4 DEF Some
<1>6. Sum(f, T \ {Some(T)}) \in Nat
  BY <1>2, <1>3, <1>5 DEF B
<1>7. QED
  BY <1>3, <1>4, <1>5, <1>6

\* x and y differ by at most e.
Near(x, y, e) == x <= y + e /\ y <= x + e

\* Nearness adds up.
LEMMA NearAdds ==
  ASSUME NEW a \in Int, NEW b \in Int, NEW f \in Int, NEW g \in Int,
         NEW F \in Int, NEW G \in Int, NEW d \in Int, NEW e \in Int,
         Near(a * f, b * g, d), Near(a * F, b * G, e)
  PROVE  Near(a * (f + F), b * (g + G), d + e)
<1>1. a * (f + F) = a * f + a * F /\ b * (g + G) = b * g + b * G
  OBVIOUS
<1>2. a * f \in Int /\ a * F \in Int /\ b * g \in Int /\ b * G \in Int
  OBVIOUS
<1>3. \A u, v, w, z \in Int :
        Near(u, w, d) /\ Near(v, z, e) => Near(u + v, w + z, d + e)
  BY DEF Near
<1>4. QED
  BY <1>1, <1>2, <1>3

\* Two sums are as near as their terms, when only those of W differ.
LEMMA SumNear ==
  ASSUME NEW f, NEW g, NEW S, IsFiniteSet(S), NEW W,
         NEW a \in Int, NEW b \in Int, NEW e \in Nat,
         \A x \in S : /\ f[x] \in Int /\ g[x] \in Int
                      /\ Near(a * f[x], b * g[x], IF x \in W THEN e ELSE 0)
  PROVE  Near(a * Sum(f, S), b * Sum(g, S), e * Cardinality(S \cap W))
<1> DEFINE Bad(T) == ~Near(a * Sum(f, T), b * Sum(g, T), e * Cardinality(T \cap W))
           B == {T \in SUBSET S : Bad(T)}
<1>1. SUFFICES ASSUME B # {} PROVE FALSE
  OBVIOUS
<1>a. B \subseteq SUBSET S
  OBVIOUS
<1>b. \A T \in SUBSET S : Bad(T) <=> T \in B
  OBVIOUS
<1> HIDE DEF B
<1>2. PICK T \in B : \A t \in B : ~(t \subseteq T /\ t # T)
  BY <1>1, <1>a, SubsetMin
<1>3. T \in SUBSET S /\ Bad(T) /\ IsFiniteSet(T)
  BY <1>a, <1>b, FS_Subset
<1>4. T # {}
  <2> SUFFICES ASSUME T = {} PROVE FALSE
    OBVIOUS
  <2>1. Sum(f, {}) = 0 /\ Sum(g, {}) = 0 /\ Cardinality({} \cap W) = 0
    BY SumEmpty, FS_EmptySet
  <2>2. Near(a * 0, b * 0, e * 0)
    BY DEF Near
  <2>3. QED
    BY <1>3, <2>1, <2>2
<1> DEFINE c == Some(T)
           U == T \ {c}
<1>5. c \in T /\ c \in S /\ U \in SUBSET S /\ U \subseteq T /\ U # T /\ IsFiniteSet(U)
  BY <1>3, <1>4, FS_Subset DEF Some
<1>6. Sum(f, T) = f[c] + Sum(f, U) /\ Sum(g, T) = g[c] + Sum(g, U)
  BY <1>3, <1>4, SumStep
<1>7. Near(a * Sum(f, U), b * Sum(g, U), e * Cardinality(U \cap W))
  BY <1>b, <1>2, <1>5
<1>8. Sum(f, U) \in Int /\ Sum(g, U) \in Int /\ f[c] \in Int /\ g[c] \in Int
  BY <1>5, SumInt
<1>u. U = T \ {c}
  OBVIOUS
<1> HIDE DEF c, U
<1> DEFINE d == IF c \in W THEN e ELSE 0
<1>9. d + e * Cardinality(U \cap W) = e * Cardinality(T \cap W)
  <2>1. IsFiniteSet(T \cap W) /\ IsFiniteSet(U \cap W)
    BY <1>3, <1>5, FS_Subset
  <2>2. CASE c \in W
    <3>1. U \cap W = (T \cap W) \ {c} /\ c \in T \cap W
      BY <1>5, <1>u, <2>2
    <3>2. Cardinality(U \cap W) = Cardinality(T \cap W) - 1
      BY <2>1, <3>1, FS_RemoveElement
    <3>3. Cardinality(T \cap W) \in Nat
      BY <2>1, FS_CardinalityType
    <3>4. \A n \in Nat : e + e * (n - 1) = e * n
      OBVIOUS
    <3>5. QED
      BY <2>2, <3>2, <3>3, <3>4
  <2>3. CASE c \notin W
    <3>1. U \cap W = T \cap W
      BY <1>u, <2>3
    <3>2. Cardinality(T \cap W) \in Nat
      BY <2>1, FS_CardinalityType
    <3>3. \A n \in Nat : 0 + e * n = e * n
      OBVIOUS
    <3>4. QED
      BY <2>3, <3>1, <3>2, <3>3
  <2>4. QED
    BY <2>2, <2>3
<1>10. Near(a * f[c], b * g[c], d)
  BY <1>5
<1>11. d \in Int /\ e * Cardinality(U \cap W) \in Int
  <2>1. Cardinality(U \cap W) \in Nat
    BY <1>5, FS_Subset, FS_CardinalityType
  <2>2. QED
    BY <2>1
<1> HIDE DEF d
<1>12. Near(a * (f[c] + Sum(f, U)), b * (g[c] + Sum(g, U)), d + e * Cardinality(U \cap W))
  BY <1>7, <1>8, <1>10, <1>11, NearAdds
<1>13. QED
  BY <1>3, <1>6, <1>9, <1>12

-----------------------------------------------------------------------------
(* The carts and the numbers.                                              *)

\* Reading the assumption on Need line by line.
LEMMA NeedFacts ==
  ASSUME NEW r \in Requests
  PROVE  /\ Len(Lines[r]) \in Nat
         /\ Need[r] \in [0 .. Len(Lines[r]) -> [Items -> Nat]]
         /\ Need[r][0] = Nothing
         /\ \A k \in 0 .. Len(Lines[r]) - 1 :
              /\ Lines[r][k + 1] \in [item : Items, qty : Nat \ {0}]
              /\ Need[r][k + 1] = [Need[r][k] EXCEPT
                             ![Lines[r][k + 1].item] = @ + Lines[r][k + 1].qty]
<1>1. Lines[r] \in Seq([item : Items, qty : Nat \ {0}])
  BY LinesAssumption
<1>2. Len(Lines[r]) \in Nat
  BY <1>1
<1>3. \A k \in 0 .. Len(Lines[r]) - 1 :
        Lines[r][k + 1] \in [item : Items, qty : Nat \ {0}]
  <2> TAKE k \in 0 .. Len(Lines[r]) - 1
  <2>1. k + 1 \in 1 .. Len(Lines[r])
    BY <1>2
  <2>2. QED
    BY <1>1, <2>1, ElementOfSeq
<1>4. QED
  BY <1>2, <1>3, NeedAssumption

\* A value that is among the numbers and bounds them is their maximum.
LEMMA MaxNumberIs ==
  ASSUME NEW f \in [Requests -> Nat],
         NEW m \in {0} \cup {f[r] : r \in Requests},
         \A r \in Requests : f[r] <= m
  PROVE  MaxNumber(f) = m
<1> DEFINE Bound(n) == \A r \in Requests : f[r] <= n
           S == {0} \cup {f[r] : r \in Requests}
<1>1. S \subseteq Nat
  OBVIOUS
<1>2. MaxNumber(f) \in S /\ Bound(MaxNumber(f))
  BY DEF MaxNumber
<1>3. MaxNumber(f) <= m
  BY <1>1, <1>2
<1>4. m <= MaxNumber(f)
  BY <1>1, <1>2
<1>5. QED
  BY <1>1, <1>2, <1>3, <1>4

\* The five ways a transaction is undone, as one.
Undo(r) ==
  /\ pc[r] \in {"start"} \cup InTx
  /\ Rollback(r)
  /\ UNCHANGED attempt
  /\ \/ DuplicateNumber(r)
     \/ \E s \in Ended \ {"committed", "exhausted"} :
          pc' = [pc EXCEPT ![r] = s]

\* The steps that end an attempt without a commit all roll it back.
LEMMA UndoCases ==
  ASSUME NEW r \in Requests,
         \/ StockInsufficient(r)
         \/ DuplicateNumber(r)
         \/ Reject(r)
         \/ DeadlockVictim(r)
         \/ Lose(r)
  PROVE  Undo(r)
<1>1. CASE StockInsufficient(r)
  BY <1>1 DEF StockInsufficient, HasLine, Undo, InTx, Ended
<1>2. CASE DuplicateNumber(r)
  BY <1>2 DEF DuplicateNumber, AfterDuplicate, Undo, InTx
<1>3. CASE Reject(r)
  BY <1>3 DEF Reject, Undo, InTx, Ended
<1>4. CASE DeadlockVictim(r)
  <2>1. PICK q \in Requests : q \in WaitsFor(r)
    BY <1>4 DEF DeadlockVictim, OnCycle, WaitsFor
  <2>2. pc[r] \in InTx
    BY <2>1 DEF WaitsFor, HasLine, InTx
  <2>3. QED
    BY <1>4, <2>2 DEF DeadlockVictim, Undo, Ended
<1>5. CASE Lose(r)
  BY <1>5 DEF Lose, Undo, Ended
<1>6. QED
  BY <1>1, <1>2, <1>3, <1>4, <1>5

\* Every step is one of these.
LEMMA StepCases ==
  ASSUME [Next]_vars
  PROVE  \/ UNCHANGED vars
         \/ \E r \in Requests :
              \/ Begin(r)
              \/ DecrementStockGuarded(r)
              \/ GetNextOrderNumber(r)
              \/ CreateOrder(r)
              \/ Commit(r)
              \/ Undo(r)
  BY UndoCases DEF Next, Work, Terminating

-----------------------------------------------------------------------------
(* The invariant, one action at a time.                                    *)

\* The invariant holds before any call.
LEMMA InitInv == Init => CheckoutInv
<1> SUFFICES ASSUME Init PROVE CheckoutInv
  OBVIOUS
<1>1. TypeOK
  BY NeedFacts, LinesAssumption DEF Init, TypeOK, Nothing
<1>2. LockInv
  BY LinesAssumption DEF Init, LockInv, Nothing
<1>3. CartInv
  BY NeedFacts DEF Init, CartInv, InTx
<1>4. LastNumber = 0
  BY MaxNumberIs DEF Init, LastNumber
<1>5. NumberInv
  BY <1>4 DEF Init, NumberInv, NumbersGapFree, NumberTaken, OneUncommittedOrder
<1>6. AttemptInv
  BY <1>4, LinesAssumption DEF Init, AttemptInv, InTx
<1>7. NoOversell
  BY LinesAssumption DEF Init, NoOversell
<1>8. QED
  BY <1>1, <1>2, <1>3, <1>5, <1>6, <1>7 DEF CheckoutInv

\* Steps that commit nothing leave the highest number as it is.
LEMMA SameLastNumber ==
  ASSUME UNCHANGED orderNumber
  PROVE  LastNumber' = LastNumber
  BY DEF LastNumber

\* A turn of the loop of create takes nothing.
LEMMA BeginInv ==
  ASSUME CheckoutInv, NEW r \in Requests, Begin(r)
  PROVE  CheckoutInv'
<1> USE DEF CheckoutInv, Begin
<1>0. LastNumber' = LastNumber
  BY SameLastNumber
<1>1. TypeOK'
  BY LinesAssumption DEF TypeOK, InTx, AttemptInv
<1>2. LockInv'
  BY DEF LockInv, TypeOK, InTx
<1>3. CartInv'
  BY DEF CartInv, TypeOK, InTx
<1>4. NumberInv'
  BY <1>0 DEF NumberInv, NumbersGapFree, NumberTaken, OneUncommittedOrder, TypeOK
<1>5. AttemptInv'
  BY <1>0, LinesAssumption DEF AttemptInv, TypeOK, InTx, NumberInv
<1>6. NoOversell'
  BY DEF NoOversell
<1>7. QED
  BY <1>1, <1>2, <1>3, <1>4, <1>5, <1>6

\* decrementStockGuarded locks the row whose balance it has checked.
LEMMA DecrementInv ==
  ASSUME CheckoutInv, NEW r \in Requests, DecrementStockGuarded(r)
  PROVE  CheckoutInv'
<1> USE DEF CheckoutInv, DecrementStockGuarded
<1> DEFINE item == Line(r).item
           qty == Line(r).qty
<1>0. LastNumber' = LastNumber
  BY SameLastNumber
<1>1. /\ line[r] \in 0 .. Len(Lines[r]) - 1
      /\ item \in Items
      /\ qty \in Nat \ {0}
      /\ Need[r][line[r] + 1] = [Need[r][line[r]] EXCEPT ![item] = @ + qty]
  <2>1. line[r] \in 0 .. Len(Lines[r]) - 1
    BY NeedFacts DEF TypeOK, HasLine
  <2>2. /\ Line(r) \in [item : Items, qty : Nat \ {0}]
        /\ Need[r][line[r] + 1] = [Need[r][line[r]] EXCEPT
                                     ![Line(r).item] = @ + Line(r).qty]
    BY <2>1, NeedFacts DEF Line
  <2>3. QED
    BY <2>1, <2>2
<1>2. stock[item] \in Int /\ taken[r] \in [Items -> Nat]
  BY <1>1 DEF TypeOK
<1>3. TypeOK'
  <2>1. owner' \in [Items -> Requests \cup {NoOne}]
    BY <1>1 DEF TypeOK
  <2>2. taken' \in [Requests -> [Items -> Nat]]
    BY <1>1, <1>2 DEF TypeOK
  <2>3. /\ line' \in [Requests -> Nat]
        /\ \A q \in Requests : line'[q] <= Len(Lines[q])
    <3>1. line' = [line EXCEPT ![r] = line[r] + 1]
      OBVIOUS
    <3>2. line[r] \in Nat /\ Len(Lines[r]) \in Nat /\ line[r] + 1 <= Len(Lines[r])
      BY <1>1, NeedFacts DEF TypeOK
    <3>3. QED
      BY <3>1, <3>2 DEF TypeOK
  <2>4. QED
    BY <2>1, <2>2, <2>3 DEF TypeOK
<1>4. LockInv'
  <2> SUFFICES ASSUME NEW q \in Requests, NEW i \in Items
               PROVE  /\ owner'[i] = q => pc'[q] \in InTx
                      /\ taken'[q][i] > 0 => owner'[i] = q /\ stock'[i] >= taken'[q][i]
    BY DEF LockInv
  <2>1. CASE q = r /\ i = item
    BY <2>1, <1>1, <1>2 DEF TypeOK, HasLine, InTx, Covered
  <2>2. CASE q # r /\ i = item
    BY <2>2, <1>1, <1>2, LinesAssumption DEF TypeOK, LockInv
  <2>3. CASE i # item
    BY <2>3, <1>1, <1>2 DEF TypeOK, LockInv
  <2>4. QED
    BY <2>1, <2>2, <2>3
<1>5. CartInv'
  <2>1. taken'[r] = [taken[r] EXCEPT ![item] = @ + qty]
    BY <1>1, <1>2 DEF TypeOK
  <2>2. taken'[r] = Need[r][line'[r]]
    BY <2>1, <1>1 DEF TypeOK, CartInv
  <2>3. QED
    BY <2>2 DEF CartInv, TypeOK, HasLine, InTx
<1>6. NumberInv'
  BY <1>0 DEF NumberInv, NumbersGapFree, NumberTaken, OneUncommittedOrder, TypeOK
<1>7. AttemptInv'
  BY <1>0 DEF AttemptInv
<1>8. NoOversell'
  BY DEF NoOversell
<1>9. QED
  BY <1>3, <1>4, <1>5, <1>6, <1>7, <1>8

\* getNextOrderNumber reads the number after the last committed one.
LEMMA GetNextOrderNumberInv ==
  ASSUME CheckoutInv, NEW r \in Requests, GetNextOrderNumber(r)
  PROVE  CheckoutInv'
<1> USE DEF CheckoutInv, GetNextOrderNumber, NextNumber
<1>0. LastNumber' = LastNumber /\ LastNumber \in Nat
  BY SameLastNumber DEF NumberInv, TypeOK
<1>1. TypeOK'
  BY <1>0 DEF TypeOK, InTx
<1>2. LockInv'
  BY DEF LockInv, TypeOK, InTx
<1>3. CartInv'
  BY DEF CartInv, TypeOK, InTx
<1>4. NumberInv'
  BY <1>0 DEF NumberInv, NumbersGapFree, NumberTaken, OneUncommittedOrder, TypeOK
<1>5. AttemptInv'
  BY <1>0 DEF AttemptInv, TypeOK, InTx
<1>6. NoOversell'
  BY DEF NoOversell
<1>7. QED
  BY <1>1, <1>2, <1>3, <1>4, <1>5, <1>6

\* order.create inserts a number nobody else has, committed or not.
LEMMA CreateOrderInv ==
  ASSUME CheckoutInv, NEW r \in Requests, CreateOrder(r)
  PROVE  CheckoutInv'
<1> USE DEF CheckoutInv, CreateOrder
<1>0. LastNumber' = LastNumber /\ LastNumber \in Nat
  BY SameLastNumber DEF NumberInv, TypeOK
\* The number is above every committed one, so it is the next.
<1>1. num[r] = LastNumber + 1
  <2>1. num[r] \in 1 .. LastNumber + 1
    BY DEF NumberInv
  <2>2. num[r] \notin 1 .. LastNumber
    BY DEF NumberInv, NumbersGapFree
  <2>3. QED
    BY <1>0, <2>1, <2>2
\* Another uncommitted order would have the same number and be waited for.
<1>2. \A q \in Requests \ {r} : pc[q] # "written"
  BY <1>1 DEF NumberInv, WaitsFor
<1>3. TypeOK'
  BY DEF TypeOK, InTx
<1>4. LockInv'
  BY DEF LockInv, TypeOK, InTx
<1>5. CartInv'
  BY DEF CartInv, TypeOK, InTx
<1>6. NumberInv'
  BY <1>0, <1>1, <1>2
     DEF NumberInv, NumbersGapFree, NumberTaken, OneUncommittedOrder, TypeOK
<1>7. AttemptInv'
  BY <1>0 DEF AttemptInv, TypeOK, InTx
<1>8. NoOversell'
  BY DEF NoOversell
<1>9. QED
  BY <1>3, <1>4, <1>5, <1>6, <1>7, <1>8

\* ROLLBACK, whatever brought it about, keeps the invariant.
LEMMA UndoInv ==
  ASSUME CheckoutInv, NEW r \in Requests, Undo(r)
  PROVE  CheckoutInv'
<1> USE DEF CheckoutInv, Undo, Rollback
<1>0. LastNumber' = LastNumber /\ LastNumber \in Nat
  BY SameLastNumber DEF NumberInv, TypeOK
<1> DEFINE After(s) == pc' = [pc EXCEPT ![r] = s]
<1>a. PICK s \in {"start"} \cup (Ended \ {"committed"}) : After(s)
  BY DEF DuplicateNumber, AfterDuplicate, Ended
<1>1. TypeOK'
  <2>1. pc' \in [Requests -> {"start"} \cup InTx \cup Ended]
    BY <1>a DEF TypeOK
  <2>2. /\ line' \in [Requests -> Nat]
        /\ \A q \in Requests : line'[q] <= Len(Lines[q])
    BY NeedFacts DEF TypeOK
  <2>3. taken' \in [Requests -> [Items -> Nat]]
    BY DEF TypeOK, Nothing
  <2>4. owner' \in [Items -> Requests \cup {NoOne}]
    BY DEF TypeOK
  <2>5. QED
    BY <2>1, <2>2, <2>3, <2>4 DEF TypeOK
<1>2. LockInv'
  BY <1>a, LinesAssumption DEF LockInv, TypeOK, Nothing
<1>3. CartInv'
  BY <1>a, NeedFacts DEF CartInv, TypeOK, InTx, Ended
<1>4. /\ pc'[r] \in {"start"} \cup (Ended \ {"committed"})
      /\ \A q \in Requests \ {r} : pc'[q] = pc[q]
  BY <1>a DEF TypeOK
<1>5. NumberInv'
  <2>1. ASSUME NEW q \in Requests
        PROVE  /\ orderNumber[q] # 0 <=> pc'[q] = "committed"
               /\ pc'[q] = "insert" => num'[q] \in 1 .. LastNumber + 1
               /\ pc'[q] = "written" => num'[q] = LastNumber + 1
    BY <1>4 DEF NumberInv, TypeOK, InTx, Ended
  <2>2. NumbersGapFree'
    BY <1>0 DEF NumberInv, NumbersGapFree, NumberTaken
  <2>3. OneUncommittedOrder'
    BY <1>4 DEF NumberInv, OneUncommittedOrder, InTx, Ended
  <2>4. QED
    BY <1>0, <2>1, <2>2, <2>3 DEF NumberInv
<1>6. AttemptInv'
  <2>1. CASE DuplicateNumber(r)
    <3>1. attempt[r] <= LastNumber
      BY <2>1, <1>0 DEF DuplicateNumber, AfterDuplicate, NumberTaken, NumberInv, AttemptInv, TypeOK
    <3>2. pc' = [pc EXCEPT ![r] = IF attempt[r] < MaxAttempts THEN "start"
                                  ELSE "exhausted"]
      BY <2>1 DEF DuplicateNumber, AfterDuplicate
    <3>3. QED
      BY <3>1, <3>2, <1>0, LinesAssumption DEF AttemptInv, TypeOK, InTx
  <2>2. CASE \E how \in Ended \ {"committed", "exhausted"} :
               pc' = [pc EXCEPT ![r] = how]
    BY <2>2, <1>0 DEF AttemptInv, TypeOK, InTx, Ended
  <2>3. QED
    BY <2>1, <2>2
<1>7. NoOversell'
  BY DEF NoOversell
<1>8. QED
  BY <1>1, <1>2, <1>3, <1>5, <1>6, <1>7

\* COMMIT adds one order with the next number and takes its whole cart.
LEMMA CommitInv ==
  ASSUME CheckoutInv, NEW r \in Requests, Commit(r)
  PROVE  CheckoutInv' /\ LastNumber' = LastNumber + 1
<1> USE DEF CheckoutInv, Commit
<1>0. LastNumber \in Nat /\ num[r] = LastNumber + 1
  BY DEF NumberInv, TypeOK
<1>1. /\ pc'[r] = "committed"
      /\ orderNumber'[r] = LastNumber + 1
      /\ \A q \in Requests \ {r} : /\ pc'[q] = pc[q]
                                   /\ orderNumber'[q] = orderNumber[q]
                                   /\ pc[q] # "written"
  BY <1>0 DEF TypeOK, NumberInv, OneUncommittedOrder
<1>2. LastNumber' = LastNumber + 1
  <2>1. orderNumber' \in [Requests -> Nat]
    BY DEF TypeOK
  <2>2. \A q \in Requests : orderNumber'[q] <= LastNumber + 1
    BY <1>0, <1>1 DEF NumberInv, TypeOK
  <2>3. MaxNumber(orderNumber') = LastNumber + 1
    BY <1>1, <2>1, <2>2, MaxNumberIs
  <2>4. QED
    BY <2>3 DEF LastNumber
\* The rows r has not locked keep their quantity, the others were checked.
<1>3. \A i \in Items : /\ stock'[i] = stock[i] - taken[r][i]
                       /\ stock[i] \in Int /\ taken[r][i] \in Nat
                       /\ taken[r][i] > 0 => owner[i] = r /\ stock[i] >= taken[r][i]
  BY DEF TypeOK, LockInv
<1>4. TypeOK'
  <2>1. line' \in [Requests -> Nat] /\ \A q \in Requests : line'[q] <= Len(Lines[q])
    BY NeedFacts DEF TypeOK
  <2>2. taken' \in [Requests -> [Items -> Nat]]
    BY DEF TypeOK, Nothing
  <2>3. owner' \in [Items -> Requests \cup {NoOne}]
    BY DEF TypeOK
  <2>4. stock' \in [Items -> Int]
    BY <1>3
  <2>5. pc' \in [Requests -> {"start"} \cup InTx \cup Ended]
    BY DEF TypeOK, Ended
  <2>6. QED
    BY <2>1, <2>2, <2>3, <2>4, <2>5 DEF TypeOK
<1>5. LockInv'
  <2> SUFFICES ASSUME NEW q \in Requests, NEW i \in Items
               PROVE  /\ owner'[i] = q => pc'[q] \in InTx
                      /\ taken'[q][i] > 0 => owner'[i] = q /\ stock'[i] >= taken'[q][i]
    BY DEF LockInv
  <2>1. CASE q = r
    BY <2>1, LinesAssumption DEF TypeOK, Nothing
  <2>2. CASE q # r
    <3>1. taken'[q][i] = taken[q][i] /\ taken[q][i] \in Nat
      BY <2>2 DEF TypeOK
    <3>2. taken[q][i] > 0 => owner[i] = q /\ stock[i] >= taken[q][i]
      BY DEF LockInv
    <3>3. taken[q][i] > 0 => stock'[i] = stock[i]
      BY <1>3, <2>2, <3>2
    <3>4. owner'[i] = q => owner[i] = q
      BY <2>2, LinesAssumption DEF TypeOK
    <3>5. taken[q][i] > 0 => owner'[i] = q
      BY <2>2, <3>2
    <3>6. QED
      BY <1>1, <2>2, <3>1, <3>2, <3>3, <3>4, <3>5 DEF LockInv
  <2>3. QED
    BY <2>1, <2>2
<1>6. CartInv'
  BY NeedFacts, <1>1 DEF CartInv, TypeOK, InTx
<1>7. NumberInv'
  <2>1. NumbersGapFree'
    <3>1. \A q, p \in Requests :
            q # p /\ orderNumber'[q] # 0 => orderNumber'[q] # orderNumber'[p]
      <4>1. \A q \in Requests \ {r} : /\ orderNumber'[q] = orderNumber[q]
                                     /\ orderNumber[q] # orderNumber'[r]
        <5>1. \A q \in Requests : orderNumber[q] \in Int /\ orderNumber[q] <= LastNumber
          BY DEF TypeOK, NumberInv
        <5>2. QED
          BY <1>0, <1>1, <5>1
      <4>2. \A q, p \in Requests :
              q # p /\ orderNumber[q] # 0 => orderNumber[q] # orderNumber[p]
        BY DEF NumberInv, NumbersGapFree
      <4>3. QED
        BY <4>1, <4>2
    <3>2. ASSUME NEW n \in 1 .. LastNumber + 1
          PROVE  \E q \in Requests : orderNumber'[q] = n
      <4>1. CASE n = LastNumber + 1
        BY <4>1, <1>1
      <4>2. CASE n \in 1 .. LastNumber
        <5>1. PICK q \in Requests : orderNumber[q] = n
          BY <4>2 DEF NumberInv, NumbersGapFree, NumberTaken
        <5>2. q # r
          <6>1. orderNumber[r] = 0
            BY DEF NumberInv
          <6>2. n # 0
            BY <4>2
          <6>3. QED
            BY <5>1, <6>1, <6>2
        <5>3. QED
          BY <1>1, <5>1, <5>2
      <4>3. QED
        BY <1>0, <4>1, <4>2
    <3>3. QED
      BY <1>2, <3>1, <3>2 DEF NumbersGapFree, NumberTaken
  <2>2. OneUncommittedOrder'
    BY <1>1 DEF OneUncommittedOrder
  <2>3. LastNumber' \in {0} \cup {orderNumber'[q] : q \in Requests}
    BY <1>1, <1>2
  <2>4. ASSUME NEW q \in Requests
        PROVE  /\ orderNumber'[q] <= LastNumber + 1
               /\ orderNumber'[q] # 0 <=> pc'[q] = "committed"
               /\ pc'[q] = "insert" => num'[q] \in 1 .. LastNumber + 2
               /\ pc'[q] # "written"
    <3>1. CASE q = r
      BY <1>0, <1>1, <3>1
    <3>2. CASE q # r
      BY <1>0, <1>1, <3>2 DEF NumberInv, TypeOK
    <3>3. QED
      BY <3>1, <3>2
  <2>5. QED
    BY <1>0, <1>2, <2>1, <2>2, <2>3, <2>4 DEF NumberInv
<1>8. AttemptInv'
  <2> SUFFICES ASSUME NEW q \in Requests
               PROVE  /\ pc'[q] = "start" => /\ attempt'[q] < MaxAttempts
                                             /\ attempt'[q] <= LastNumber + 1
                      /\ pc'[q] \in InTx => attempt'[q] - 1 <= LastNumber + 1
                      /\ pc'[q] = "insert" => attempt'[q] <= num'[q]
                      /\ pc'[q] = "exhausted" => MaxAttempts <= LastNumber + 1
    BY <1>2 DEF AttemptInv
  <2>1. CASE q = r
    BY <2>1, <1>1 DEF InTx
  <2>2. CASE q # r
    <3>1. /\ attempt'[q] = attempt[q]
          /\ attempt[q] \in Int
          /\ num'[q] = num[q]
          /\ pc'[q] = pc[q]
          /\ MaxAttempts \in Int
      BY <1>1, <2>2, LinesAssumption DEF TypeOK
    <3>2. QED
      BY <1>0, <3>1 DEF AttemptInv
  <2>3. QED
    BY <2>1, <2>2
<1>9. NoOversell'
  <2> SUFFICES ASSUME NEW i \in Items, stock'[i] < InitialStock[i]
               PROVE  stock'[i] >= 0
    BY DEF NoOversell
  <2>1. InitialStock[i] \in Int /\ (stock[i] < InitialStock[i] => stock[i] >= 0)
    BY LinesAssumption DEF NoOversell
  <2>2. CASE taken[r][i] = 0
    BY <1>3, <2>1, <2>2
  <2>3. CASE taken[r][i] > 0
    BY <1>3, <2>3
  <2>4. QED
    BY <1>3, <2>2, <2>3
<1>10. QED
  BY <1>2, <1>4, <1>5, <1>6, <1>7, <1>8, <1>9

\* create and attemptCreate: CheckoutInv holds in every reachable state, for
\* any carts, stock and number of attempts.
THEOREM CheckoutInvariant == Spec => []CheckoutInv
<1>1. CheckoutInv /\ [Next]_vars => CheckoutInv'
  <2> SUFFICES ASSUME CheckoutInv, [Next]_vars PROVE CheckoutInv'
    OBVIOUS
  <2>1. CASE UNCHANGED vars
    <3>1. LastNumber' = LastNumber
      BY <2>1, SameLastNumber DEF vars
    <3>2. QED
      BY <2>1, <3>1
         DEF vars, CheckoutInv, TypeOK, LockInv, CartInv, NumberInv, NumbersGapFree,
             NumberTaken, OneUncommittedOrder, AttemptInv, NoOversell
  <2>2. QED
    BY <2>1, StepCases, BeginInv, DecrementInv, GetNextOrderNumberInv,
       CreateOrderInv, CommitInv, UndoInv
<1>2. QED
  BY InitInv, <1>1, PTL DEF Spec

-----------------------------------------------------------------------------
(* What follows from it.                                                   *)

\* The variables keep their types: in particular no call begins more than
\* MaxAttempts transactions.
THEOREM CheckoutTypeOK == Spec => []TypeOK
  BY CheckoutInvariant, PTL DEF CheckoutInv

\* decrementStockGuarded: however the calls interleave, a sale never takes a
\* row below zero.
THEOREM CheckoutNoOversell == Spec => []NoOversell
  BY CheckoutInvariant, PTL DEF CheckoutInv

\* getNextOrderNumber and the unique index: the committed numbers of a store
\* are distinct and have no holes.
THEOREM CheckoutNumbersGapFree == Spec => []NumbersGapFree
<1>1. CheckoutInv => NumbersGapFree
  BY DEF CheckoutInv, NumberInv
<1>2. QED
  BY <1>1, CheckoutInvariant, PTL

\* After order.create, a transaction is alone with an uncommitted order.
THEOREM CheckoutOneUncommittedOrder == Spec => []OneUncommittedOrder
<1>1. CheckoutInv => OneUncommittedOrder
  BY DEF CheckoutInv, NumberInv
<1>2. QED
  BY <1>1, CheckoutInvariant, PTL

\* create gives up only after MaxAttempts other orders were committed.
THEOREM CheckoutExhausted == Spec => []ExhaustedMeansContention
<1>1. CheckoutInv => ExhaustedMeansContention
  <2> SUFFICES ASSUME CheckoutInv, NEW r \in Requests, pc[r] = "exhausted"
               PROVE  LastNumber >= MaxAttempts
    BY DEF ExhaustedMeansContention
  <2>1. LastNumber \in Int /\ MaxAttempts \in Int
    BY LinesAssumption DEF CheckoutInv, NumberInv, TypeOK
  <2>2. QED
    BY <2>1 DEF CheckoutInv, AttemptInv
<1>2. QED
  BY <1>1, CheckoutInvariant, PTL

-----------------------------------------------------------------------------
(* The stock that left the rows is in the orders.                          *)

\* What each sold cart took of i, as the function StockAccounted sums.
Units(i) == [r \in Requests |-> Total[r][i]]

\* What a call takes of a row is an amount.
LEMMA UnitsNat ==
  ASSUME NEW i \in Items
  PROVE  \A r \in Requests : Units(i)[r] = Total[r][i] /\ Units(i)[r] \in Nat
<1> SUFFICES ASSUME NEW r \in Requests PROVE Total[r][i] \in Nat
  BY DEF Units
<1>1. Len(Lines[r]) \in 0 .. Len(Lines[r])
  BY NeedFacts
<1>2. QED
  BY <1>1, NeedFacts DEF Total

\* Only the commits count, and there have been finitely many.
Accounted == IsFiniteSet(Sold) /\ StockAccounted

\* The commit moves its call, and what it took, into the sum.
LEMMA CommitAccounted ==
  ASSUME CheckoutInv, Accounted, NEW r \in Requests, Commit(r)
  PROVE  Accounted'
<1>1. /\ orderNumber[r] = 0 /\ num[r] = LastNumber + 1 /\ LastNumber \in Nat
      /\ orderNumber \in [Requests -> Nat] /\ stock \in [Items -> Int]
      /\ taken[r] = Total[r]
  BY DEF CheckoutInv, TypeOK, NumberInv, CartInv, Commit, Total
<1>2. r \notin Sold /\ Sold' = Sold \cup {r}
  BY <1>1 DEF Commit, Sold
<1>3. IsFiniteSet(Sold')
  BY <1>2, FS_AddElement DEF Accounted
<1>4. StockAccounted'
  <2> SUFFICES ASSUME NEW i \in Items
               PROVE  stock'[i] = InitialStock[i] - SumFunctionOnSet(Units(i), Sold')
    BY DEF StockAccounted, Units
  <2>1. stock[i] = InitialStock[i] - SumFunctionOnSet(Units(i), Sold)
    BY DEF Accounted, StockAccounted, Units
  <2>2. Sold \subseteq Requests
    BY DEF Sold
  <2>3. SumFunctionOnSet(Units(i), Sold) \in Int
    BY <2>2, UnitsNat, SumInt DEF Accounted, Sum
  <2>4. SumFunctionOnSet(Units(i), Sold') = Total[r][i] + SumFunctionOnSet(Units(i), Sold)
    BY <1>2, <2>2, UnitsNat, SumAdd DEF Accounted, Sum
  <2>5. stock'[i] = stock[i] - Total[r][i]
    BY <1>1 DEF Commit
  <2>6. Total[r][i] \in Int /\ InitialStock[i] \in Int
    BY UnitsNat, LinesAssumption
  <2>7. QED
    BY <2>1, <2>3, <2>4, <2>5, <2>6
<1>5. QED
  BY <1>3, <1>4 DEF Accounted

\* "la transaccion entera hace rollback (stock incluido)": through every
\* rollback, retry, deadlock and loss, what has left each row is what the
\* committed orders add up to, for any number of calls.
THEOREM CheckoutStockAccounted == Spec => []StockAccounted
<1>1. Init => Accounted
  <2> SUFFICES ASSUME Init PROVE Accounted
    OBVIOUS
  <2>1. Sold = {}
    BY DEF Init, Sold
  <2>2. \A i \in Items : SumFunctionOnSet(Units(i), Sold) = 0
    BY <2>1, SumEmpty DEF Sum
  <2>3. StockAccounted
    BY <2>2, LinesAssumption DEF Init, StockAccounted, Units
  <2>4. QED
    BY <2>1, <2>3, FS_EmptySet DEF Accounted
<1>2. CheckoutInv /\ Accounted /\ [Next]_vars => Accounted'
  <2> SUFFICES ASSUME CheckoutInv, Accounted, [Next]_vars PROVE Accounted'
    OBVIOUS
  <2>1. ASSUME UNCHANGED <<stock, orderNumber>>
        PROVE  Accounted'
    BY <2>1 DEF Accounted, Sold, StockAccounted
  <2>2. QED
    BY <2>1, CommitAccounted, StepCases
       DEF vars, Begin, DecrementStockGuarded, GetNextOrderNumber, CreateOrder,
           Undo, Rollback
<1>3. Accounted => StockAccounted
  BY DEF Accounted
<1>4. QED
  BY <1>1, <1>2, <1>3, CheckoutInvariant, PTL DEF Spec

-----------------------------------------------------------------------------
(* Deadlocks.                                                              *)

\* Rows are locked by lines that have been decremented.
LEMMA OwnerInvariant == Spec => []OwnerInv
<1>1. Init => OwnerInv
  BY LinesAssumption DEF Init, OwnerInv
<1>2. CheckoutInv /\ OwnerInv /\ [Next]_vars => OwnerInv'
  <2> SUFFICES ASSUME CheckoutInv, OwnerInv, [Next]_vars PROVE OwnerInv'
    OBVIOUS
  <2>1. ASSUME UNCHANGED <<owner, line>>
        PROVE  OwnerInv'
    BY <2>1 DEF OwnerInv
  <2>2. ASSUME NEW r \in Requests, DecrementStockGuarded(r)
        PROVE  OwnerInv'
    <3> SUFFICES ASSUME NEW q \in Requests, NEW i \in Items, owner'[i] = q
                 PROVE  \E m \in 1 .. line'[q] : Lines[q][m].item = i
      BY DEF OwnerInv
    <3>1. line[r] \in Nat /\ line[q] \in Nat /\ line'[q] = IF q = r THEN line[q] + 1 ELSE line[q]
      BY <2>2 DEF CheckoutInv, TypeOK, DecrementStockGuarded
    <3>2. CASE i = Line(r).item
      <4>1. q = r
        BY <2>2, <3>2 DEF CheckoutInv, TypeOK, DecrementStockGuarded
      <4>2. QED
        BY <3>1, <3>2, <4>1 DEF Line
    <3>3. CASE i # Line(r).item
      <4>1. owner[i] = q
        BY <2>2, <3>3 DEF CheckoutInv, TypeOK, DecrementStockGuarded
      <4>2. QED
        BY <3>1, <4>1 DEF OwnerInv
    <3>4. QED
      BY <3>2, <3>3
  <2>3. ASSUME NEW r \in Requests, Undo(r) \/ Commit(r)
        PROVE  OwnerInv'
    <3> SUFFICES ASSUME NEW q \in Requests, NEW i \in Items, owner'[i] = q
                 PROVE  \E m \in 1 .. line'[q] : Lines[q][m].item = i
      BY DEF OwnerInv
    <3>1. /\ owner' = [j \in Items |-> IF owner[j] = r THEN NoOne ELSE owner[j]]
          /\ line' = [line EXCEPT ![r] = 0]
      BY <2>3 DEF Undo, Rollback, Commit
    <3>2. q # r /\ owner[i] = q
      BY <3>1, LinesAssumption
    <3>3. line'[q] = line[q]
      BY <3>1, <3>2 DEF CheckoutInv, TypeOK
    <3>4. QED
      BY <3>2, <3>3 DEF OwnerInv
  <2>4. QED
    BY <2>1, <2>2, <2>3, StepCases DEF vars, Begin, GetNextOrderNumber, CreateOrder
<1>3. QED
  BY <1>1, <1>2, CheckoutInvariant, PTL DEF Spec

\* Whoever waits for a row has decremented what it holds in an earlier line.
LEMMA HeldBeforeWanted ==
  ASSUME CheckoutInv, OwnerInv, NEW x \in Requests, HasLine(x),
         NEW i \in Items, owner[i] = x, owner[Line(x).item] # x
  PROVE  ListedBefore(i, Line(x).item)
<1>1. line[x] \in Nat /\ line[x] + 1 \in 1 .. Len(Lines[x])
  BY NeedFacts DEF CheckoutInv, TypeOK, HasLine
<1>2. PICK m \in 1 .. line[x] : Lines[x][m].item = i
  BY DEF OwnerInv
<1>3. m \in 1 .. Len(Lines[x]) /\ m < line[x] + 1
  BY <1>1, <1>2, NeedFacts
<1>4. QED
  BY <1>1, <1>2, <1>3 DEF ListedBefore, Line

\* Nobody on a cycle waits for an order number: who has inserted it waits for
\* nothing. So each waits for a row that another one on the cycle holds.
LEMMA CycleOfRows ==
  ASSUME CheckoutInv, NEW S \in SUBSET Requests,
         \A x \in S : WaitsFor(x) \cap S # {},
         NEW x \in S, NEW y \in S, y \in WaitsFor(x)
  PROVE  HasLine(x) /\ owner[Line(x).item] = y /\ y # x
<1>1. pc[y] # "written"
  BY DEF WaitsFor, HasLine
<1>2. QED
  BY <1>1 DEF WaitsFor

\* The rows that a cycle of calls wants cross its carts.
LEMMA CycleIsCrossed ==
  ASSUME CheckoutInv, OwnerInv, NEW r \in Requests, OnCycle(r)
  PROVE  \E k \in 1 .. Len(Lines[r]) : Crossed(Lines[r][k].item)
<1>1. PICK S \in SUBSET Requests :
        /\ r \in S
        /\ \A x \in S : /\ WaitsFor(x) \cap S # {}
                        /\ \E y \in S : x \in WaitsFor(y)
  BY DEF OnCycle
<1>2. ASSUME NEW x \in S
      PROVE  /\ HasLine(x)
             /\ Line(x).item \in Items
             /\ owner[Line(x).item] \in S \ {x}
  <2>1. PICK y \in S : y \in WaitsFor(x)
    BY <1>1
  <2>2. HasLine(x) /\ owner[Line(x).item] = y /\ y # x
    BY <1>1, <2>1, CycleOfRows
  <2>3. line[x] \in 0 .. Len(Lines[x]) - 1
    <3>1. line[x] \in Nat
      BY DEF CheckoutInv, TypeOK
    <3>2. Len(Lines[x]) \in Nat
      BY NeedFacts
    <3>3. line[x] < Len(Lines[x])
      BY <2>2 DEF HasLine
    <3>4. QED
      BY <3>1, <3>2, <3>3
  <2>4. Line(x) \in [item : Items, qty : Nat \ {0}]
    BY <2>3, NeedFacts DEF Line
  <2>5. QED
    BY <2>2, <2>4
<1> DEFINE C == {Line(x).item : x \in S}
\* The holder of a wanted row wants another.
<1>3. ASSUME NEW i \in C
      PROVE  \E j \in C : ListedBefore(i, j)
  <2>1. PICK x \in S : i = Line(x).item
    OBVIOUS
  <2>2. PICK z \in S : owner[i] = z
    BY <1>2, <2>1
  <2>3. ListedBefore(i, Line(z).item)
    BY <1>2, <2>1, <2>2, HeldBeforeWanted
  <2>4. QED
    BY <2>3
\* Who wants it holds another, which somebody wants.
<1>4. ASSUME NEW i \in C
      PROVE  \E j \in C : ListedBefore(j, i)
  <2>1. PICK x \in S : i = Line(x).item
    OBVIOUS
  <2>2. PICK y \in S : x \in WaitsFor(y)
    BY <1>1
  <2>3. owner[Line(y).item] = x
    BY <1>1, <2>2, CycleOfRows
  <2>4. ListedBefore(Line(y).item, i)
    BY <1>2, <2>1, <2>3, HeldBeforeWanted
  <2>5. QED
    BY <2>4
<1>5. Crossed(Line(r).item)
  <2>1. C \in SUBSET Items /\ Line(r).item \in C
    BY <1>1, <1>2
  <2> HIDE DEF C
  <2>2. QED
    BY <1>3, <1>4, <2>1 DEF Crossed
<1>6. line[r] + 1 \in 1 .. Len(Lines[r])
  <2>1. HasLine(r)
    BY <1>1, <1>2
  <2>2. line[r] \in Nat /\ Len(Lines[r]) \in Nat
    BY NeedFacts DEF CheckoutInv, TypeOK
  <2>3. QED
    BY <2>1, <2>2 DEF HasLine
<1>7. QED
  BY <1>5, <1>6 DEF Line

\* The carts are not sorted. Only a call that takes a row which the carts list
\* in contradictory orders is sacrificed to break a deadlock, however many
\* calls and rows there are: the order number never closes a cycle.
THEOREM CheckoutDeadlock == Spec => []DeadlockNeedsCrossedCarts
<1>1. Init => DeadlockNeedsCrossedCarts
  BY DEF Init, DeadlockNeedsCrossedCarts
<1>2. CheckoutInv /\ OwnerInv /\ DeadlockNeedsCrossedCarts /\ [Next]_vars
        => DeadlockNeedsCrossedCarts'
  <2> SUFFICES ASSUME CheckoutInv, OwnerInv, DeadlockNeedsCrossedCarts, [Next]_vars,
                      NEW r \in Requests, pc'[r] = "deadlocked"
               PROVE  \E k \in 1 .. Len(Lines[r]) : Crossed(Lines[r][k].item)
    BY DEF DeadlockNeedsCrossedCarts
  <2>1. CASE pc[r] = "deadlocked"
    BY <2>1 DEF DeadlockNeedsCrossedCarts
  <2>2. CASE pc[r] # "deadlocked"
    <3>1. DeadlockVictim(r)
      BY <2>2 DEF CheckoutInv, TypeOK, Next, vars, Terminating, Work, Begin,
         DecrementStockGuarded, StockInsufficient, GetNextOrderNumber, CreateOrder,
         DuplicateNumber, AfterDuplicate, Commit, Reject, Lose, DeadlockVictim
    <3>2. QED
      BY <3>1, CycleIsCrossed DEF DeadlockVictim
  <2>3. QED
    BY <2>1, <2>2
<1>3. QED
  BY <1>1, <1>2, CheckoutInvariant, OwnerInvariant, PTL DEF Spec

-----------------------------------------------------------------------------
(* The transactions implement the atomic sale.                             *)

\* The commit of a transaction is the sale; its lines are still covered.
LEMMA CommitIsSell ==
  ASSUME CheckoutInv, NEW r \in Requests, Commit(r)
  PROVE  Ledger!Sell(r)
<1>1. LastNumber' = LastNumber + 1 /\ num[r] = LastNumber + 1
  BY CommitInv DEF CheckoutInv, NumberInv, Commit
<1>2. taken[r] = Total[r]
  BY DEF CheckoutInv, CartInv, Commit, Total
<1>3. orderNumber[r] = 0
  BY DEF CheckoutInv, NumberInv, Commit
<1>4. \A i \in Items : Total[r][i] > 0 => stock[i] >= Total[r][i]
  BY <1>2 DEF CheckoutInv, LockInv
<1>5. QED
  BY <1>1, <1>2, <1>3, <1>4 DEF Commit, Ledger!Sell

\* OrdersService.create implements SalesLedger: each sale happens whole, at its
\* commit, with the next number, and no other step changes stock or orders.
THEOREM CheckoutImplementsLedger == Spec => LedgerSpec
<1>1. Init => Ledger!Init
  <2> SUFFICES ASSUME Init PROVE LastNumber = 0
    BY DEF Init, Ledger!Init
  <2>1. QED
    BY MaxNumberIs DEF Init, LastNumber
<1>2. CheckoutInv /\ [Next]_vars => [Ledger!Next]_(Ledger!ledgerVars)
  <2> SUFFICES ASSUME CheckoutInv, [Next]_vars
               PROVE  Ledger!Next \/ UNCHANGED Ledger!ledgerVars
    OBVIOUS
  <2>1. ASSUME UNCHANGED <<stock, orderNumber>>
        PROVE  UNCHANGED Ledger!ledgerVars
    BY <2>1, SameLastNumber DEF Ledger!ledgerVars
  <2>2. ASSUME NEW r \in Requests, Commit(r)
        PROVE  Ledger!Next
    BY <2>2, CommitIsSell DEF Ledger!Next
  <2>3. QED
    BY <2>1, <2>2, StepCases
       DEF vars, Begin, DecrementStockGuarded, GetNextOrderNumber, NextNumber, CreateOrder,
           Undo, Rollback
<1>3. QED
  BY <1>1, <1>2, CheckoutInvariant, PTL DEF Spec, LedgerSpec, Ledger!Spec

-----------------------------------------------------------------------------
(* The till that sends the requests (SaleScreen): its arithmetic.          *)

\* Half a cent is rounded up: the rounding is off by half a cent at most.
LEMMA RoundNear ==
  ASSUME NEW n \in Nat, NEW d \in Nat \ {0}
  PROVE  /\ Round(n, d) \in Nat
         /\ Near(2 * d * Round(n, d), 2 * n, d)
<1> DEFINE k == Round(n, d)
           m == 2 * d
           x == 2 * n + d
<1>1. m \in Nat \ {0} /\ x \in Nat
  OBVIOUS
<1>2. k = x \div m
  BY DEF Round
<1> HIDE DEF k, m, x
<1>3. k \in Nat /\ m * k <= x /\ x < m * k + m
  BY <1>1, <1>2
<1>4. Near(m * k, 2 * n, d)
  <2>1. m * k \in Nat
    BY <1>1, <1>3
  <2>2. QED
    BY <1>3, <2>1 DEF Near, m, x
<1>5. QED
  BY <1>3, <1>4 DEF k, m

\* The rounding of what is at most a whole amount does not exceed it.
LEMMA RoundBounded ==
  ASSUME NEW g \in Nat, NEW d \in Nat \ {0}, NEW n \in Nat, n <= g * d
  PROVE  Round(n, d) <= g
<1> DEFINE k == Round(n, d)
<1>1. k \in Nat /\ Near(2 * d * k, 2 * n, d)
  BY RoundNear
<1> HIDE DEF k
<1>2. SUFFICES ASSUME k >= g + 1 PROVE FALSE
  BY <1>1 DEF k
<1>3. d * k >= d * (g + 1)
  BY <1>1, <1>2
<1>4. d * (g + 1) = g * d + d /\ 2 * d * k = 2 * (d * k)
  BY <1>1
<1>5. d * k \in Nat /\ g * d \in Nat
  BY <1>1
<1>6. QED
  BY <1>1, <1>3, <1>4, <1>5 DEF Near

\* A whole amount is its own rounding.
LEMMA RoundExact ==
  ASSUME NEW n \in Nat, NEW d \in Nat \ {0}
  PROVE  Round(n * d, d) = n
<1> DEFINE k == Round(n * d, d)
<1>1. n * d \in Nat
  OBVIOUS
<1>2. k \in Nat /\ Near(2 * d * k, 2 * (n * d), d)
  BY <1>1, RoundNear
<1>3. k <= n
  BY <1>1, RoundBounded
<1> HIDE DEF k
<1>4. SUFFICES ASSUME k <= n - 1 PROVE FALSE
  BY <1>2, <1>3 DEF k
<1>5. d * k <= d * (n - 1)
  BY <1>2, <1>4
<1>6. d * (n - 1) = n * d - d /\ 2 * d * k = 2 * (d * k)
  BY <1>2
<1>7. d * k \in Nat
  BY <1>2
<1>8. QED
  BY <1>1, <1>2, <1>5, <1>6, <1>7 DEF Near

\* A line of a cart, of a request or of a quote, or none.
AnyLine == [quantity : Nat, price : Nat, discount : Discount]

\* The lesser is one of the two, and at most each.
LEMMA LeastIs ==
  ASSUME NEW a \in Int, NEW b \in Int
  PROVE  Least(a, b) \in {a, b} /\ Least(a, b) <= a /\ Least(a, b) <= b
BY DEF Least

\* A line's own discount takes no more than the line costs.
LEMMA LineFacts ==
  ASSUME NEW entry \in AnyLine
  PROVE  /\ Gross(entry) \in Nat /\ OwnCut(entry) \in Nat /\ NetOfOwn(entry) \in Nat
         /\ OwnCut(entry) + NetOfOwn(entry) = 100 * Gross(entry)
         /\ entry.quantity = 0 => Gross(entry) = 0
<1> DEFINE g == Gross(entry)
           v == entry.discount.value
<1>1. entry.quantity \in Nat /\ entry.price \in Nat /\ v \in Nat
  BY DEF AnyLine, Discount
<1>2. g \in Nat /\ (entry.quantity = 0 => g = 0)
  BY <1>1 DEF Gross
<1>3. OwnCut(entry) \in Nat /\ OwnCut(entry) <= 100 * g
  <2>1. CASE entry.discount.kind = "PERCENTAGE"
    <3>1. OwnCut(entry) = g * Least(v, 100)
      BY <2>1 DEF OwnCut
    <3>2. Least(v, 100) \in 0 .. 100
      BY <1>1 DEF Least
    <3> HIDE DEF g, v
    <3>3. \A k \in 0 .. 100 : g * k \in Nat /\ g * k <= 100 * g
      BY <1>2
    <3>4. QED
      BY <3>1, <3>2, <3>3
  <2>2. CASE entry.discount.kind # "PERCENTAGE"
    <3>1. OwnCut(entry) = 100 * Least(v, g)
      BY <2>2 DEF OwnCut
    <3>2. Least(v, g) \in 0 .. g
      BY <1>1, <1>2 DEF Least
    <3> HIDE DEF g, v
    <3>3. QED
      BY <1>2, <3>1, <3>2
  <2>3. QED
    BY <2>1, <2>2
<1>4. NetOfOwn(entry) = 100 * g - OwnCut(entry)
  BY DEF NetOfOwn
<1> HIDE DEF g
<1>5. QED
  BY <1>2, <1>3, <1>4 DEF g

\* The fraction of the whole cart's discount is one.
LEMMA PartFacts ==
  ASSUME NEW c, c.discount \in Discount, NEW base \in Nat
  PROVE  LET part == GlobalPart(c, base)
         IN /\ part[1] \in Nat /\ part[2] \in Nat \ {0} /\ part[1] <= part[2]
            /\ c.discount = NoDiscount => part[1] = 0
<1>1. c.discount.value \in Nat
  BY DEF Discount
<1>2. CASE c.discount.kind = "PERCENTAGE"
  BY <1>1, <1>2 DEF GlobalPart, Least, NoDiscount
<1>3. CASE c.discount.kind # "PERCENTAGE"
  BY <1>1, <1>3 DEF GlobalPart, Least, NoDiscount
<1>4. QED
  BY <1>2, <1>3

\* What is sent for a line is its exact discount, rounded, and no more than it
\* costs.
LEMMA SentFacts ==
  ASSUME NEW entry \in AnyLine, NEW part, part[1] \in Nat, part[2] \in Nat \ {0},
         part[1] <= part[2]
  PROVE  LET exact == OwnCut(entry) * part[2] + NetOfOwn(entry) * part[1]
             sentFor == SentDiscount(entry, part)
             cents == 100 * part[2]
         IN /\ sentFor \in Nat /\ sentFor <= Gross(entry)
            /\ exact \in Nat
            /\ exact = cents * Gross(entry) - (part[2] - part[1]) * NetOfOwn(entry)
            /\ Near(2 * cents * sentFor, 2 * exact, cents)
            /\ entry.quantity = 0 => sentFor = 0 /\ exact = 0
<1> DEFINE a == OwnCut(entry)
           b == NetOfOwn(entry)
           g == Gross(entry)
           p == part[1]
           q == part[2]
           s == SentDiscount(entry, part)
           x == a * q + b * p
           d == 100 * q
<1>1. /\ a \in Nat /\ b \in Nat /\ g \in Nat /\ a + b = 100 * g
      /\ entry.quantity = 0 => g = 0
  BY LineFacts
<1>2. s = Round(x, d)
  BY DEF SentDiscount
<1> HIDE DEF a, b, g, s
<1>3. p \in Nat /\ q \in Nat \ {0} /\ p <= q /\ d \in Nat \ {0}
  OBVIOUS
<1> HIDE DEF p, q
<1>4. x \in Nat
  BY <1>1, <1>3
<1>5. x = d * g - (q - p) * b
  <2>1. a = 100 * g - b
    BY <1>1
  <2>2. (100 * g - b) * q = 100 * g * q - b * q
    BY <1>1, <1>3
  <2>3. (q - p) * b = b * q - b * p
    BY <1>1, <1>3
  <2>4. 100 * g * q = d * g
    BY <1>1, <1>3
  <2>5. b * q \in Int /\ b * p \in Int /\ d * g \in Int
    BY <1>1, <1>3
  <2>6. QED
    BY <2>1, <2>2, <2>3, <2>4, <2>5
<1>6. x <= g * d
  <2>1. (q - p) * b \in Nat /\ d * g \in Nat /\ d * g = g * d
    BY <1>1, <1>3
  <2>2. QED
    BY <1>5, <2>1
<1> HIDE DEF x, d
<1>7. s \in Nat /\ Near(2 * d * s, 2 * x, d) /\ s <= g
  BY <1>1, <1>2, <1>3, <1>4, <1>6, RoundNear, RoundBounded
<1>8. entry.quantity = 0 => s = 0 /\ x = 0
  <2> SUFFICES ASSUME entry.quantity = 0 PROVE s = 0 /\ x = 0
    OBVIOUS
  <2>1. g = 0 /\ a = 0 /\ b = 0
    BY <1>1
  <2>2. QED
    BY <1>3, <1>7, <2>1 DEF x
<1>9. QED
  BY <1>4, <1>5, <1>7, <1>8 DEF a, b, g, p, q, s, x, d

\* The lines and the discount of a cart, and the fraction of the latter.
AnyCart(c) == c.lines \in [Products -> AnyLine] /\ c.discount \in Discount
PartOf(c) == GlobalPart(c, Base(c))

\* What the lines of a cart cost is an amount.
LEMMA BaseNat ==
  ASSUME IsFiniteSet(Products), NEW c, AnyCart(c)
  PROVE  Base(c) \in Nat
<1> DEFINE f == [p \in Products |-> NetOfOwn(c.lines[p])]
<1>1. \A p \in Products : f[p] \in Nat
  BY LineFacts DEF AnyCart
<1>2. Base(c) = Sum(f, Products)
  BY DEF Sum, Base, SumOver
<1> HIDE DEF f
<1>3. QED
  BY <1>1, <1>2, SumNat

\* The cart's own discount takes a fraction of it.
LEMMA PartOfFacts ==
  ASSUME IsFiniteSet(Products), NEW c, AnyCart(c)
  PROVE  /\ PartOf(c)[1] \in Nat /\ PartOf(c)[2] \in Nat \ {0} /\ PartOf(c)[1] <= PartOf(c)[2]
         /\ c.discount = NoDiscount => PartOf(c)[1] = 0
BY BaseNat, PartFacts DEF AnyCart, PartOf

\* The request of a cart: its quantities, and discounts within the price.
LEMMA BodyFacts ==
  ASSUME IsFiniteSet(Products), NEW c, AnyCart(c), NEW p \in Products
  PROVE  LET item == BodyItems(c)[p]
         IN /\ item = [quantity |-> c.lines[p].quantity,
                       discount |-> SentDiscount(c.lines[p], PartOf(c))]
            /\ item.discount \in Nat /\ item.discount <= Gross(c.lines[p])
<1>1. BodyItems(c)[p] = [quantity |-> c.lines[p].quantity,
                              discount |-> SentDiscount(c.lines[p], PartOf(c))]
  BY DEF BodyItems, PartOf
<1>2. c.lines[p] \in AnyLine
  BY DEF AnyCart
<1>3. QED
  BY <1>1, <1>2, PartOfFacts, SentFacts

\* The total the till shows is an amount.
LEMMA ShownNear ==
  ASSUME IsFiniteSet(Products), NEW c, AnyCart(c)
  PROVE  LET q == PartOf(c)[2]
             kept == q - PartOf(c)[1]
             cents == 100 * q
         IN /\ ShownTotal(c) \in Nat
            /\ Near(2 * cents * ShownTotal(c), 2 * (Base(c) * kept), cents)
<1> DEFINE q == PartOf(c)[2]
           k == q - PartOf(c)[1]
           b == Base(c)
<1>1. q \in Nat \ {0} /\ k \in Nat /\ b \in Nat
  BY PartOfFacts, BaseNat
<1>2. ShownTotal(c) = Round(b * k, 100 * q)
  BY DEF ShownTotal, PartOf
<1> HIDE DEF q, k, b
<1>3. b * k \in Nat /\ 100 * q \in Nat \ {0}
  BY <1>1
<1>4. QED
  BY <1>2, <1>3, RoundNear DEF q, k, b

\* The terms of ServerTotal.
Kept(c) ==
  [p \in Products |->
     Gross(c.lines[p]) - Least(BodyItems(c)[p].discount, Gross(c.lines[p]))]

\* Per line, the server keeps the line's share of the till's exact total, up to
\* half a cent.
LEMMA KeptNear ==
  ASSUME IsFiniteSet(Products), NEW c, AnyCart(c), NEW p \in Products
  PROVE  LET q == PartOf(c)[2]
             kept == q - PartOf(c)[1]
             cents == 100 * q
         IN /\ Kept(c)[p] \in Nat
            /\ Near(2 * cents * Kept(c)[p], 2 * kept * NetOfOwn(c.lines[p]),
                    IF p \in InCart(c) THEN cents ELSE 0)
<1> DEFINE part == PartOf(c)
           q == part[2]
           k == q - part[1]
           d == 100 * q
           g == Gross(c.lines[p])
           b == NetOfOwn(c.lines[p])
           s == SentDiscount(c.lines[p], part)
           x == OwnCut(c.lines[p]) * part[2] + NetOfOwn(c.lines[p]) * part[1]
<1>1. c.lines[p] \in AnyLine
  BY DEF AnyCart
<1>2. part[1] \in Nat /\ part[2] \in Nat \ {0} /\ part[1] <= part[2]
  BY PartOfFacts
<1>3. g \in Nat /\ b \in Nat
  BY <1>1, LineFacts
<1>4. /\ s \in Nat /\ s <= g /\ x \in Nat
      /\ x = d * g - k * b
      /\ Near(2 * d * s, 2 * x, d)
      /\ c.lines[p].quantity = 0 => s = 0 /\ x = 0
  BY <1>1, <1>2, SentFacts
<1>5. Kept(c)[p] = g - s
  <2>1. BodyItems(c)[p] = [quantity |-> c.lines[p].quantity, discount |-> s]
    BY BodyFacts
  <2>2. Least(s, g) = s
    BY <1>3, <1>4 DEF Least
  <2>3. QED
    BY <2>1, <2>2 DEF Kept
<1>6. p \in InCart(c) <=> c.lines[p].quantity # 0
  BY <1>1 DEF InCart, AnyLine
<1>7. q \in Nat \ {0} /\ k \in Nat /\ d \in Nat
  BY <1>2
<1> HIDE DEF q, k, d, g, b, s, x
<1>8. /\ 2 * d * (g - s) = 2 * d * g - 2 * d * s
      /\ 2 * k * b = 2 * d * g - 2 * x
      /\ 2 * d * g \in Int /\ 2 * d * s \in Int
  <2>1. d * g \in Int /\ d * s \in Int /\ k * b \in Int
    BY <1>3, <1>4, <1>7
  <2>2. 2 * d * g = 2 * (d * g) /\ 2 * d * s = 2 * (d * s) /\ 2 * k * b = 2 * (k * b)
    BY <1>3, <1>4, <1>7
  <2>3. 2 * d * (g - s) = 2 * (d * g) - 2 * (d * s)
    BY <1>3, <1>4, <1>7
  <2>4. QED
    BY <1>4, <2>1, <2>2, <2>3
<1>9. Near(2 * d * (g - s), 2 * k * b, IF p \in InCart(c) THEN d ELSE 0)
  <2>1. CASE p \in InCart(c)
    BY <1>4, <1>7, <1>8, <2>1 DEF Near
  <2>2. CASE p \notin InCart(c)
    <3>1. 2 * d * s = 0 /\ x = 0
      BY <1>4, <1>6, <1>7, <2>2
    <3>2. QED
      BY <1>8, <2>2, <3>1 DEF Near
  <2>3. QED
    BY <2>1, <2>2
<1>10. QED
  BY <1>3, <1>4, <1>5, <1>9 DEF q, k, d, b

\* The total the till shows and the one the server makes of the same prices
\* differ by half a cent for each line and half a cent for the sum, at most.
LEMMA TotalsNear ==
  ASSUME IsFiniteSet(Products), NEW c, AnyCart(c)
  PROVE  /\ ServerTotal(c) \in Nat
         /\ Near(2 * ShownTotal(c), 2 * ServerTotal(c),
                 Cardinality(InCart(c)) + 1)
<1> DEFINE q == PartOf(c)[2]
           k == q - PartOf(c)[1]
           d == 100 * q
           f == Kept(c)
           h == [p \in Products |-> NetOfOwn(c.lines[p])]
           S == ServerTotal(c)
           T == ShownTotal(c)
           B == Base(c)
           n == Cardinality(InCart(c))
<1>1. S = Sum(f, Products) /\ B = Sum(h, Products)
  BY DEF Sum, ServerTotal, Base, SumOver, Kept
<1>2. q \in Nat \ {0} /\ k \in Nat /\ d \in Nat \ {0}
  BY PartOfFacts
<1>3. \A p \in Products : h[p] \in Nat
  BY LineFacts DEF AnyCart
<1>4. \A p \in Products :
        f[p] \in Nat /\ Near(2 * d * f[p], 2 * k * h[p], IF p \in InCart(c) THEN d ELSE 0)
  BY KeptNear
<1>5. n \in Nat /\ Products \cap InCart(c) = InCart(c)
  BY FS_Subset, FS_CardinalityType DEF InCart
<1>6. T \in Nat /\ Near(2 * d * T, 2 * (B * k), d)
  BY ShownNear
<1> HIDE DEF q, k, d, f, h, S, T, B, n
<1>7. S \in Nat /\ B \in Nat
  BY <1>1, <1>3, <1>4, SumNat
<1>8. Near(2 * d * S, 2 * k * B, d * n)
  <2> DEFINE u == 2 * d
             v == 2 * k
             W == InCart(c)
  <2>1. u \in Int /\ v \in Int /\ d \in Nat
    BY <1>2
  <2>a. \A p \in Products : /\ f[p] \in Int /\ h[p] \in Int
                             /\ Near(u * f[p], v * h[p], IF p \in W THEN d ELSE 0)
    BY <1>3, <1>4
  <2> HIDE DEF u, v, W
  <2>b. Near(u * Sum(f, Products), v * Sum(h, Products), d * Cardinality(Products \cap W))
    BY <2>1, <2>a, SumNear
  <2>2. Near(2 * d * Sum(f, Products), 2 * k * Sum(h, Products),
             d * Cardinality(Products \cap InCart(c)))
    BY <2>b DEF u, v, W
  <2>3. QED
    BY <1>1, <1>5, <2>2 DEF n
<1>9. Near(2 * T, 2 * S, n + 1)
  <2>1. 2 * k * B = 2 * (B * k)
    BY <1>2, <1>7
  <2>2. 2 * d * T = d * (2 * T) /\ 2 * d * S = d * (2 * S)
    BY <1>2, <1>6, <1>7
  <2>3. d * (2 * T) \in Int /\ d * (2 * S) \in Int /\ 2 * (B * k) \in Int /\ d * n \in Int
    BY <1>2, <1>5, <1>6, <1>7
  <2>4. Near(d * (2 * T), d * (2 * S), d * n + d)
    BY <1>2, <1>6, <1>8, <2>1, <2>2, <2>3 DEF Near
  <2>5. \A u, v, w \in Int : d * u <= d * v + (d * w + d) => u <= v + (w + 1)
    <3> SUFFICES ASSUME NEW u \in Int, NEW v \in Int, NEW w \in Int,
                        d * u <= d * v + (d * w + d), u >= v + (w + 1) + 1
                 PROVE  FALSE
      OBVIOUS
    <3>1. d * u >= d * (v + (w + 1) + 1)
      BY <1>2
    <3>2. d * (v + (w + 1) + 1) = d * v + (d * w + d) + d
      BY <1>2
    <3>3. d * u \in Int /\ d * v \in Int /\ d * w \in Int
      BY <1>2
    <3>4. QED
      BY <1>2, <3>1, <3>2, <3>3
  <2>6. QED
    BY <1>5, <1>6, <1>7, <2>4, <2>5 DEF Near
<1>10. QED
  BY <1>7, <1>9 DEF S, T, n

\* The prices are amounts, and the lines of a sale lines.
LEMMA ScreenFacts ==
  /\ IsFiniteSet(Products) /\ IsFiniteSet(Confirmations)
  /\ Prices \subseteq Nat
  /\ MaxQuantity \in Nat
  /\ CartLine \subseteq AnyLine
  /\ NoLine \in CartLine
<1>1. IsFiniteSet(Products) /\ IsFiniteSet(Confirmations) /\ MaxQuantity \in Nat
  BY ScreenAssumption
<1>2. Prices \subseteq Nat
  BY ScreenAssumption DEF Prices
<1>3. NoLine \in AnyLine /\ NoLine \in CartLine
  BY DEF NoLine, NoDiscount, AnyLine, Discount, CartLine
<1>4. CartLine \subseteq AnyLine
  <2> SUFFICES ASSUME NEW entry \in CartLine PROVE entry \in AnyLine
    OBVIOUS
  <2>1. CASE entry = NoLine
    BY <1>3, <2>1
  <2>2. CASE entry \in [quantity : 1 .. MaxQuantity, price : Prices, discount : Discount]
    <3>1. entry.quantity \in 1 .. MaxQuantity /\ entry.price \in Prices
          /\ entry.discount \in Discount
      BY <2>2
    <3>2. entry = [quantity |-> entry.quantity, price |-> entry.price,
                    discount |-> entry.discount]
      BY <2>2
    <3>3. entry.quantity \in Nat /\ entry.price \in Nat
      <4>1. entry.quantity \in Nat
        BY <1>1, <3>1
      <4>2. entry.price \in Nat
        BY <1>2, <3>1
      <4>3. QED
        BY <4>1, <4>2
    <3> HIDE <2>2
    <3>4. QED
      BY <3>1, <3>2, <3>3 DEF AnyLine
  <2>3. QED
    BY <2>1, <2>2 DEF CartLine
<1>5. QED
  BY <1>1, <1>2, <1>3, <1>4

\* A discount in money within the price of its line.
InMoney(entry) == entry.discount.kind = "FIXED" /\ entry.discount.value <= Gross(entry)

\* The server stores discounts in money, within the price.
LEMMA ResolvedFacts ==
  ASSUME price \in [Products -> Prices], NEW items,
         items \in [Products -> [quantity : 0 .. MaxQuantity, discount : Nat]],
         NEW p \in Products
  PROVE  Resolved(items)[p] \in CartLine /\ InMoney(Resolved(items)[p])
<1> DEFINE n == items[p].quantity
           d == items[p].discount
           g == price[p] * n
           m == Least(d, g)
           kept == [kind |-> "FIXED", value |-> m]
           new == [quantity |-> n, price |-> price[p], discount |-> kept]
<1>1. n \in 0 .. MaxQuantity /\ d \in Nat /\ price[p] \in Prices /\ price[p] \in Nat
  BY ScreenFacts
<1>2. Resolved(items)[p] = IF n = 0 THEN NoLine ELSE new
  BY DEF Resolved
<1>3. CASE n = 0
  <2>1. InMoney(NoLine)
    BY DEF InMoney, NoLine, NoDiscount, Gross
  <2>2. QED
    BY <1>2, <1>3, <2>1, ScreenFacts
<1>4. CASE n # 0
  <2>1. g \in Nat /\ n \in 1 .. MaxQuantity
    BY <1>1, <1>4, ScreenFacts
  <2>2. m \in Nat /\ m <= g
    <3> HIDE DEF g, d
    <3>1. QED
      BY <1>1, <2>1 DEF Least
  <2> HIDE DEF m
  <2>3. kept \in Discount
    BY <2>2 DEF Discount
  <2>4. new \in CartLine
    BY <1>1, <2>1, <2>3 DEF CartLine
  <2>5. InMoney(new)
    BY <2>2 DEF InMoney, Gross
  <2>6. QED
    BY <1>2, <1>4, <2>4, <2>5
<1>5. QED
  BY <1>3, <1>4

\* The total of such lines is an amount.
LEMMA TotalNat ==
  ASSUME NEW lines \in [Products -> CartLine],
         \A p \in Products : InMoney(lines[p])
  PROVE  TotalOf(lines) \in Nat
<1> DEFINE f == [p \in Products |-> Gross(lines[p]) - lines[p].discount.value]
<1>1. TotalOf(lines) = Sum(f, Products)
  BY DEF Sum, TotalOf, SumOver
<1>2. ASSUME NEW p \in Products
      PROVE  f[p] \in Nat
  <2>1. lines[p] \in AnyLine
    BY ScreenFacts
  <2>2. Gross(lines[p]) \in Nat /\ lines[p].discount.value \in Nat
    BY <2>1, LineFacts DEF AnyLine, Discount
  <2>3. QED
    BY <2>2 DEF InMoney
<1> HIDE DEF f
<1>3. QED
  BY <1>1, <1>2, ScreenFacts, SumNat

\* A discount in money is sent as it is, when nothing else is taken off.
LEMMA SentExactly ==
  ASSUME IsFiniteSet(Products), NEW c, AnyCart(c), c.discount = NoDiscount,
         NEW p \in Products, InMoney(c.lines[p])
  PROVE  BodyItems(c)[p] = [quantity |-> c.lines[p].quantity,
                                 discount |-> c.lines[p].discount.value]
<1> DEFINE part == PartOf(c)
           v == c.lines[p].discount.value
           q == part[2]
<1>1. part[1] = 0 /\ q \in Nat \ {0}
  BY PartOfFacts
<1>2. c.lines[p] \in AnyLine
  BY DEF AnyCart
<1>3. v \in Nat /\ Gross(c.lines[p]) \in Nat /\ v <= Gross(c.lines[p])
  BY <1>2, LineFacts DEF AnyLine, Discount, InMoney
<1>4. OwnCut(c.lines[p]) = 100 * v
  <2>1. OwnCut(c.lines[p]) = 100 * Least(v, Gross(c.lines[p]))
    BY DEF OwnCut, InMoney
  <2>2. Least(v, Gross(c.lines[p])) = v
    BY <1>3 DEF Least
  <2>3. QED
    BY <2>1, <2>2
<1>5. SentDiscount(c.lines[p], part) = Round(100 * v * q + NetOfOwn(c.lines[p]) * 0, 100 * q)
  BY <1>1, <1>4 DEF SentDiscount
<1>6. NetOfOwn(c.lines[p]) \in Nat
  BY <1>2, LineFacts
<1> HIDE DEF q
<1>7. 100 * v * q + NetOfOwn(c.lines[p]) * 0 = v * (100 * q) /\ 100 * q \in Nat \ {0}
  BY <1>1, <1>3, <1>6
<1>8. SentDiscount(c.lines[p], part) = v
  BY <1>3, <1>5, <1>7, RoundExact
<1>9. QED
  BY <1>8, BodyFacts

\* And the till shows their total.
LEMMA ShownExactly ==
  ASSUME NEW c, c.lines \in [Products -> CartLine],
         c.discount = NoDiscount, \A p \in Products : InMoney(c.lines[p])
  PROVE  ShownTotal(c) = TotalOf(c.lines)
<1> DEFINE f == [p \in Products |-> Gross(c.lines[p]) - c.lines[p].discount.value]
           h == [p \in Products |-> NetOfOwn(c.lines[p])]
           T == TotalOf(c.lines)
           B == Base(c)
           q == PartOf(c)[2]
<1>1. IsFiniteSet(Products) /\ AnyCart(c)
  BY ScreenFacts DEF AnyCart, NoDiscount, Discount
<1>2. T = Sum(f, Products) /\ B = Sum(h, Products)
  BY DEF Sum, TotalOf, Base, SumOver
<1>3. ASSUME NEW p \in Products
      PROVE  f[p] \in Int /\ h[p] \in Int /\ Near(1 * h[p], 100 * f[p], IF p \in {} THEN 0 ELSE 0)
  <2> DEFINE v == c.lines[p].discount.value
             g == Gross(c.lines[p])
  <2>1. c.lines[p] \in AnyLine
    BY ScreenFacts
  <2>2. v \in Nat /\ g \in Nat /\ v <= g
    BY <2>1, LineFacts DEF AnyLine, Discount, InMoney
  <2>3. h[p] = 100 * g - 100 * v
    <3>1. Least(v, g) = v
      BY <2>2 DEF Least
    <3>2. QED
      BY <3>1 DEF NetOfOwn, OwnCut, InMoney
  <2>4. f[p] = g - v
    OBVIOUS
  <2> HIDE DEF v, g, f, h
  <2>5. QED
    BY <2>2, <2>3, <2>4 DEF Near
<1>4. T \in Nat
  BY TotalNat
<1>5. B \in Nat
  BY <1>1, BaseNat
<1>6. PartOf(c)[1] = 0 /\ q \in Nat \ {0}
  BY <1>1, PartOfFacts
<1> HIDE DEF f, h, T, B
<1>7. B = T * 100
  <2> DEFINE u == 1
             v == 100
             e == 0
             W == {}
  <2>a. u \in Int /\ v \in Int /\ e \in Nat
    OBVIOUS
  <2>b. \A p \in Products : /\ h[p] \in Int /\ f[p] \in Int
                             /\ Near(u * h[p], v * f[p], IF p \in W THEN e ELSE 0)
    BY <1>3
  <2> HIDE DEF u, v, e, W
  <2>c. Near(u * Sum(h, Products), v * Sum(f, Products), e * Cardinality(Products \cap W))
    BY <1>1, <2>a, <2>b, SumNear
  <2>1. Near(1 * Sum(h, Products), 100 * Sum(f, Products), 0 * Cardinality(Products \cap {}))
    BY <2>c DEF u, v, e, W
  <2>2. Cardinality(Products \cap {}) \in Nat
    BY FS_EmptySet
  <2>3. QED
    BY <1>2, <1>4, <1>5, <2>1, <2>2 DEF Near
<1>8. ShownTotal(c) = Round(B * (q - 0), 100 * q)
  BY <1>6 DEF ShownTotal, PartOf, B
<1> HIDE DEF q
<1>9. B * (q - 0) = T * (100 * q) /\ 100 * q \in Nat \ {0}
  BY <1>4, <1>6, <1>7
<1>10. ShownTotal(c) = T
  BY <1>4, <1>8, <1>9, RoundExact
<1>11. QED
  BY <1>10 DEF T

\* At current prices the server's lines add up to ServerTotal.
LEMMA ResolvedTotal ==
  ASSUME IsFiniteSet(Products), NEW c, AnyCart(c), price \in [Products -> Nat],
         \A p \in InCart(c) : c.lines[p].price = price[p]
  PROVE  TotalOf(Resolved(BodyItems(c))) = ServerTotal(c)
<1> DEFINE lines == Resolved(BodyItems(c))
<1>1. ASSUME NEW p \in Products
      PROVE  Gross(lines[p]) - lines[p].discount.value = Kept(c)[p]
  <2> DEFINE d == BodyItems(c)[p].discount
             n == BodyItems(c)[p].quantity
             g == Gross(c.lines[p])
             m == Least(d, price[p] * n)
  <2>1. c.lines[p] \in AnyLine
    BY DEF AnyCart
  <2>2. n = c.lines[p].quantity /\ d \in Nat /\ d <= g
    <3>1. BodyItems(c)[p] = [quantity |-> c.lines[p].quantity,
                                  discount |-> SentDiscount(c.lines[p], PartOf(c))]
      BY BodyFacts
    <3>2. d \in Nat /\ d <= g
      BY BodyFacts
    <3>3. QED
      BY <3>1, <3>2
  <2>3. lines[p] = IF n = 0 THEN NoLine
                   ELSE [quantity |-> n, price |-> price[p],
                         discount |-> [kind |-> "FIXED", value |-> m]]
    BY DEF Resolved
  <2>4. Kept(c)[p] = g - Least(d, g)
    BY DEF Kept
  <2> HIDE DEF lines, d, n
  <2>5. CASE n = 0
    <3>1. g = 0
      BY <2>1, <2>2, <2>5, LineFacts
    <3>2. d = 0
      BY <2>2, <3>1
    <3>3. Gross(lines[p]) = 0 /\ lines[p].discount.value = 0
      BY <2>3, <2>5 DEF NoLine, NoDiscount, Gross
    <3>4. QED
      BY <2>4, <3>1, <3>2, <3>3 DEF Least
  <2>6. CASE n # 0
    <3>1. p \in InCart(c)
      BY <2>1, <2>2, <2>6 DEF InCart, AnyLine
    <3>2. price[p] * n = g
      BY <2>2, <3>1 DEF Gross
    <3>3. Gross(lines[p]) = g /\ lines[p].discount.value = m
      BY <2>3, <2>6, <3>2 DEF Gross
    <3>4. QED
      BY <2>4, <3>2, <3>3
  <2>7. QED
    BY <2>5, <2>6
<1>2. [p \in Products |-> Gross(lines[p]) - lines[p].discount.value] = Kept(c)
  BY <1>1 DEF Kept
<1>3. QED
  BY <1>2 DEF TotalOf, ServerTotal, Kept

-----------------------------------------------------------------------------
(* The till: what its steps do.                                            *)

\* c is the cart on the screen with other lines or another discount.
SameSale(c) ==
  /\ c \in Cart
  /\ c.quote = cart.quote /\ c.fill = cart.fill /\ c.from = cart.from

\* An edit of the cart on the screen.
Edits == \E c : SameSale(c) /\ EditCart(c)

\* A discount other than the cashier's own is none.
LEMMA NoDiscountIs == NoDiscount \in Discount
BY DEF NoDiscount, Discount

\* The edits of a line or of the discount change the cart within its sale.
LEMMA EditCases ==
  ASSUME ShapeInv,
         \/ \E p \in Products : EditsOf(p)
         \/ \E d \in GlobalDiscounts \cup {NoDiscount} : SetGlobalDiscount(d)
  PROVE  Edits
<1>1. cart \in Cart /\ catalog \in [Products -> Prices]
  BY DEF ShapeInv
<1>2. cart.lines \in [Products -> CartLine]
  BY <1>1 DEF Cart
<1>3. ASSUME NEW p \in Products, NEW new_line \in CartLine,
             EditCart([cart EXCEPT !.lines[p] = new_line])
      PROVE  Edits
  <2>1. SameSale([cart EXCEPT !.lines[p] = new_line])
    BY <1>1, <1>2 DEF SameSale, Cart
  <2>2. QED
    BY <1>3, <2>1 DEF Edits
<1>4. ASSUME NEW p \in Products, AddItem(p)
      PROVE  Edits
  <2> DEFINE old == cart.lines[p]
             new == OneMore(old, p)
  <2>1. EditCart([cart EXCEPT !.lines[p] = new])
    BY <1>4 DEF AddItem
  <2>2. old \in CartLine /\ old.quantity < MaxQuantity /\ catalog[p] \in Prices
    BY <1>1, <1>2, <1>4 DEF AddItem
  <2>3. new \in CartLine
    <3>1. CASE old.quantity = 0
      <4>1. new = [quantity |-> 1, price |-> catalog[p], discount |-> NoDiscount]
        BY <3>1 DEF NoLine, OneMore
      <4>2. 1 \in 1 .. MaxQuantity
        BY <2>2, <3>1, ScreenFacts
      <4>3. QED
        BY <2>2, <4>1, <4>2, NoDiscountIs DEF CartLine
    <3>2. CASE old.quantity # 0
      <4>1. old \in [quantity : 1 .. MaxQuantity, price : Prices, discount : Discount]
        BY <2>2, <3>2 DEF CartLine, NoLine
      <4>2. old.quantity + 1 \in 1 .. MaxQuantity
        BY <2>2, <4>1, ScreenFacts
      <4>3. new = [old EXCEPT !.quantity = old.quantity + 1]
        BY <3>2 DEF OneMore
      <4>4. [old EXCEPT !.quantity = old.quantity + 1]
              \in [quantity : 1 .. MaxQuantity, price : Prices, discount : Discount]
        BY <4>1, <4>2
      <4>5. QED
        BY <4>3, <4>4 DEF CartLine
    <3>3. QED
      BY <3>1, <3>2
  <2> HIDE DEF new
  <2>4. QED
    BY <2>1, <2>3, <1>3
<1>5. ASSUME NEW p \in Products, DecrementItem(p)
      PROVE  Edits
  <2> DEFINE old == cart.lines[p]
             new == OneFewer(old)
  <2>1. EditCart([cart EXCEPT !.lines[p] = new])
    BY <1>5, <1>1 DEF DecrementItem
  <2>2. old \in [quantity : 1 .. MaxQuantity, price : Prices, discount : Discount]
    BY <1>2, <1>5 DEF DecrementItem, CartLine, NoLine
  <2>3. new \in CartLine
    <3>1. CASE old.quantity = 1
      BY <3>1, ScreenFacts DEF OneFewer
    <3>2. CASE old.quantity # 1
      <4>1. new = [old EXCEPT !.quantity = old.quantity - 1]
        BY <3>2 DEF OneFewer
      <4>2. old.quantity - 1 \in 1 .. MaxQuantity
        BY <2>2, <3>2, ScreenFacts
      <4>3. [old EXCEPT !.quantity = old.quantity - 1]
              \in [quantity : 1 .. MaxQuantity, price : Prices, discount : Discount]
        BY <2>2, <4>2
      <4>4. QED
        BY <4>1, <4>3 DEF CartLine
    <3>3. QED
      BY <3>1, <3>2
  <2> HIDE DEF new
  <2>4. QED
    BY <2>1, <2>3, <1>3
<1>6. ASSUME NEW p \in Products, NEW d \in OwnDiscounts \cup {NoDiscount},
             SetLineDiscount(p, d)
      PROVE  Edits
  <2> DEFINE old == cart.lines[p]
             new == [old EXCEPT !.discount = d]
  <2>1. d \in Discount
    BY NoDiscountIs, ScreenAssumption
  <2>2. old \in [quantity : 1 .. MaxQuantity, price : Prices, discount : Discount]
    BY <1>2, <1>6 DEF SetLineDiscount, CartLine, NoLine
  <2>3. new \in CartLine
    BY <2>1, <2>2 DEF CartLine
  <2>4. [cart EXCEPT !.lines[p].discount = d] = [cart EXCEPT !.lines[p] = new]
    BY <1>1, <1>2, <2>2 DEF Cart
  <2>5. EditCart([cart EXCEPT !.lines[p].discount = d])
    BY <1>6 DEF SetLineDiscount
  <2> HIDE DEF new
  <2>6. QED
    BY <2>3, <2>4, <2>5, <1>3
<1>7. ASSUME NEW d \in GlobalDiscounts \cup {NoDiscount}, SetGlobalDiscount(d)
      PROVE  Edits
  <2>1. d \in Discount
    BY NoDiscountIs, ScreenAssumption
  <2>2. SameSale([cart EXCEPT !.discount = d])
    BY <1>1, <2>1 DEF SameSale, Cart
  <2>3. QED
    BY <1>7, <2>2 DEF Edits, SetGlobalDiscount
<1>8. QED
  BY <1>4, <1>5, <1>6, <1>7 DEF EditsOf

\* A quote is loaded, whole or in part.
Conversion(q) == \E gone \in SUBSET InCart(quote[q]) : Convert(q, gone)

\* The steps of the till and of the server, with the edits and the payments taken
\* together.
LEMMA TillCases ==
  ASSUME ShapeInv, ScreenNext
  PROVE  \/ Edits
         \/ \E p \in Products : \E v \in PricesOf[p] : ChangePrice(p, v)
         \/ LoadCatalog
         \/ ClearCart \/ NewSale \/ \E q \in Quotes : Conversion(q)
         \/ \E q \in Quotes : CreateQuote(q) \/ CancelQuote(q)
         \/ OpenCheckout
         \/ \E cash, card \in Nat : EditPayment(cash, card)
         \/ CloseCheckout
         \/ \E r \in Confirmations :
              \/ Confirm(r) \/ StoreOrder(r) \/ RefuseOrder(r)
              \/ Answer(r) \/ LoseConnection(r)
<1>1. AnyCart(cart)
  BY ScreenFacts DEF ShapeInv, Cart, AnyCart
<1>2. ShownTotal(cart) \in Nat
  BY <1>1, ShownNear, ScreenFacts
<1>3. Pays => \E cash, card \in Nat : EditPayment(cash, card)
  <2>1. \A x \in Extras : ShownTotal(cart) + x \in Nat
    BY <1>2, ScreenAssumption
  <2>2. 0 \in Nat
    OBVIOUS
  <2>3. QED
    BY <1>2, <2>1, <2>2 DEF Pays
<1>4. QED
  BY <1>3, EditCases DEF ScreenNext, Steps, Conversion

\* An empty cart takes the next number if the last cart was sent.
LEMMA ClearedFacts ==
  ASSUME ShapeInv
  PROVE  /\ Cleared \in Cart
         /\ Cleared = EmptyCart(Cleared.fill)
         /\ \/ /\ Cleared.fill = cart.fill
               /\ \A r \in Confirmations : Live(r) => FillOf(r) # cart.fill
            \/ /\ Cleared.fill = cart.fill + 1
               /\ \E r \in Confirmations : Live(r) /\ FillOf(r) = cart.fill
<1> DEFINE n == NextFill
<1>1. cart.fill \in Nat \ {0}
  BY DEF ShapeInv, Cart
<1>2. \A r \in Confirmations :
        Live(r) <=> stage[r] # "unsent" /\ ~ (stage[r] = "refused")
  BY DEF ShapeInv, Live
<1>3. \A r \in Confirmations : stage[r] = "refused" => FillOf(r) = 0
  BY DEF ShapeInv, FillOf
<1>4. \/ n = cart.fill /\ \A r \in Confirmations : Live(r) => FillOf(r) # cart.fill
      \/ n = cart.fill + 1 /\ \E r \in Confirmations : Live(r) /\ FillOf(r) = cart.fill
  BY <1>1, <1>2, <1>3 DEF NextFill
<1>5. Cleared = EmptyCart(n)
  BY DEF Cleared
<1> HIDE DEF n
<1>6. n \in Nat \ {0}
  BY <1>1, <1>4
<1>7. EmptyCart(n) \in Cart /\ EmptyCart(n).fill = n
  BY <1>6, NoDiscountIs, ScreenFacts DEF EmptyCart, Cart
<1>8. QED
  BY <1>4, <1>5, <1>7

\* A quoted line at the till's price is a line.
LEMMA LoadedLineFacts ==
  ASSUME ShapeInv, NEW q \in Quotes
  PROVE  [p \in Products |-> LoadedLine(q, p)] \in [Products -> CartLine]
<1> SUFFICES ASSUME NEW p \in Products PROVE LoadedLine(q, p) \in CartLine
  OBVIOUS
<1> DEFINE old == quote[q].lines[p]
<1>1. old \in CartLine /\ catalog[p] \in Prices
  BY DEF ShapeInv
<1>2. LoadedLine(q, p) = IF old = NoLine THEN NoLine
                              ELSE [old EXCEPT !.price = catalog[p]]
  BY DEF LoadedLine
<1> HIDE DEF old
<1>3. CASE old = NoLine
  BY <1>2, <1>3, ScreenFacts
<1>4. CASE old # NoLine
  BY <1>1, <1>2, <1>4 DEF CartLine
<1>5. QED
  BY <1>3, <1>4

\* What a cart sends has its shape.
LEMMA BodyShape ==
  ASSUME NEW c \in Cart
  PROVE  BodyItems(c) \in [Products -> [quantity : 0 .. MaxQuantity, discount : Nat]]
<1>1. AnyCart(c) /\ c.lines \in [Products -> CartLine]
  BY ScreenFacts DEF AnyCart, Cart
<1>2. ASSUME NEW p \in Products
      PROVE  BodyItems(c)[p] \in [quantity : 0 .. MaxQuantity, discount : Nat]
  <2>1. BodyItems(c)[p] = [quantity |-> c.lines[p].quantity,
                                discount |-> SentDiscount(c.lines[p], PartOf(c))]
    BY <1>1, ScreenFacts, BodyFacts
  <2>2. BodyItems(c)[p].discount \in Nat
    BY <1>1, ScreenFacts, BodyFacts
  <2>3. c.lines[p].quantity \in 0 .. MaxQuantity
    <3>1. c.lines[p] \in CartLine
      BY <1>1
    <3>2. QED
      BY <3>1, ScreenFacts DEF CartLine, NoLine
  <2>4. QED
    BY <2>1, <2>2, <2>3
<1>3. BodyItems(c) = [p \in Products |-> BodyItems(c)[p]]
  BY DEF BodyItems
<1>4. QED
  BY <1>2, <1>3

\* What the server makes of a request: lines, and a total.
LEMMA ResolvedShape ==
  ASSUME price \in [Products -> Prices], NEW items,
         items \in [Products -> [quantity : 0 .. MaxQuantity, discount : Nat]]
  PROVE  /\ Resolved(items) \in [Products -> CartLine]
         /\ \A p \in Products : InMoney(Resolved(items)[p])
         /\ TotalOf(Resolved(items)) \in Nat
<1>1. Resolved(items) = [p \in Products |-> Resolved(items)[p]]
  BY DEF Resolved
<1>2. \A p \in Products : Resolved(items)[p] \in CartLine /\ InMoney(Resolved(items)[p])
  BY ResolvedFacts
<1>3. Resolved(items) \in [Products -> CartLine]
  BY <1>1, <1>2
<1>4. QED
  BY <1>2, <1>3, TotalNat

\* The dialog, the stored orders and the stored quotes, as ShapeInv has them.
Views == {"closed", "open", "charging", "charged"}
Dialog == [view : Views, request : Confirmations \cup {NoRequest},
           cash : Nat, card : Nat, touched : BOOLEAN]
Order == [total : Nat, fill : Nat, fresh : BOOLEAN]
Quoted == [status : {"none", "OPEN", "CONVERTED", "CANCELLED"},
           lines : [Products -> CartLine], total : Nat]

\* What the dialog may become.
LEMMA DialogShape ==
  ASSUME NEW d \in Dialog
  PROVE  /\ \A b \in BOOLEAN : [d EXCEPT !.touched = b] \in Dialog
         /\ Closed \in Dialog
         /\ \A b \in BOOLEAN, v \in Views : \A r \in Confirmations \cup {NoRequest} :
              [d EXCEPT !.view = v, !.request = r, !.touched = b] \in Dialog
         /\ \A n \in Nat : [Closed EXCEPT !.view = "open", !.cash = n] \in Dialog
         /\ \A m, n \in Nat : \A b \in BOOLEAN :
              [d EXCEPT !.cash = m, !.card = n, !.touched = b] \in Dialog
         /\ \A v \in Views : [d EXCEPT !.view = v] \in Dialog
BY DEF Dialog, Views, Closed

ShapeRest ==
  /\ UNCHANGED <<price, catalog, quote, stage, sent, order>>
  /\ cart' \in Cart /\ checkout' \in Dialog

\* The steps that change the cart and the dialog alone.
LEMMA ShapeFrame ==
  ASSUME ShapeInv, ShapeRest
  PROVE  ShapeInv'
BY DEF ShapeInv, ShapeRest, Dialog, Views

\* Every step keeps the shape of the state.
LEMMA ShapeStep ==
  ASSUME ShapeInv, DialogInv, [ScreenNext]_screenVars
  PROVE  ShapeInv'
<1> DEFINE touch == [checkout EXCEPT !.touched = checkout.touched \/ Confirmed]
<1>1. /\ cart \in Cart /\ checkout \in Dialog
      /\ price \in [Products -> Prices] /\ catalog \in [Products -> Prices]
      /\ quote \in [Quotes -> Quoted] /\ order \in [Confirmations -> Order]
  BY DEF ShapeInv, Dialog, Views, Quoted, Order
<1>2. touch \in Dialog
  <2>1. (checkout.touched \/ Confirmed) \in BOOLEAN
    OBVIOUS
  <2>2. QED
    BY <1>1, <2>1, DialogShape
<1>3. CASE UNCHANGED screenVars
  BY <1>1, <1>3, ShapeFrame DEF ShapeRest, screenVars
<1>4. CASE Edits
  <2>1. PICK c : SameSale(c) /\ EditCart(c)
    BY <1>4 DEF Edits
  <2>2. cart' \in Cart
    BY <2>1 DEF SameSale, EditCart, Cart
  <2>3. checkout' \in Dialog
    BY <1>2, <2>1 DEF EditCart
  <2>4. QED
    BY <2>1, <2>2, <2>3, ShapeFrame DEF ShapeRest, EditCart
<1>5. ASSUME NEW p \in Products, NEW v \in PricesOf[p], ChangePrice(p, v)
      PROVE  ShapeInv'
  <2>1. v \in Prices
    BY DEF Prices
  <2>2. price' \in [Products -> Prices]
    BY <1>1, <1>5, <2>1 DEF ChangePrice
  <2>3. QED
    BY <1>5, <2>2 DEF ShapeInv, ChangePrice
<1>6. CASE LoadCatalog
  BY <1>6 DEF ShapeInv, LoadCatalog
<1>7. CASE ClearCart
  BY <1>2, <1>7, ClearedFacts, ShapeFrame DEF ShapeRest, ClearCart
<1>8. CASE NewSale
  BY <1>1, <1>8, ClearedFacts, DialogShape, ShapeFrame DEF ShapeRest, NewSale, AfterSale
<1>9. ASSUME NEW q \in Quotes, Conversion(q)
      PROVE  ShapeInv'
  <2> PICK gone \in SUBSET InCart(quote[q]) : Convert(q, gone)
    BY <1>9 DEF Conversion
  <2>1. cart' \in Cart
    <3> DEFINE lines == [p \in Products |-> IF p \in gone THEN NoLine ELSE LoadedLine(q, p)]
    <3>1. lines \in [Products -> CartLine]
      BY LoadedLineFacts DEF CartLine
    <3>2. cart' = [Cleared EXCEPT !.lines = lines, !.quote = q, !.from = q,
                                  !.edited = (gone # {})]
      BY DEF Convert
    <3> HIDE DEF lines
    <3>3. QED
      BY <3>1, <3>2, ClearedFacts DEF Cart
  <2>2. QED
    BY <1>1, <2>1, ShapeFrame DEF ShapeRest, Convert
<1>10. ASSUME NEW q \in Quotes, CreateQuote(q)
       PROVE  ShapeInv'
  <2> DEFINE lines == Resolved(BodyItems(cart))
             new == [status |-> "OPEN", lines |-> lines, total |-> TotalOf(lines)]
  <2>1. new \in Quoted
    BY <1>1, BodyShape, ResolvedShape DEF Quoted
  <2>2. quote' = [quote EXCEPT ![q] = new]
    BY <1>10 DEF CreateQuote
  <2> HIDE DEF new
  <2>3. quote' \in [Quotes -> Quoted]
    BY <1>1, <2>1, <2>2
  <2>4. QED
    BY <1>10, <2>3 DEF ShapeInv, CreateQuote, Quoted
<1>11. ASSUME NEW q \in Quotes, CancelQuote(q)
       PROVE  ShapeInv'
  <2>1. quote' \in [Quotes -> Quoted]
    BY <1>1, <1>11 DEF CancelQuote, Quoted
  <2>2. QED
    BY <1>11, <2>1 DEF ShapeInv, CancelQuote, Quoted
<1>12. CASE OpenCheckout
  <2>1. ShownTotal(cart) \in Nat
    <3>1. AnyCart(cart)
      BY <1>1, ScreenFacts DEF Cart, AnyCart
    <3>2. QED
      BY <3>1, ShownNear, ScreenFacts
  <2>2. QED
    BY <1>1, <1>12, <2>1, DialogShape, ShapeFrame DEF ShapeRest, OpenCheckout
<1>13. ASSUME NEW cash \in Nat, NEW card \in Nat, EditPayment(cash, card)
       PROVE  ShapeInv'
  <2>1. (checkout.touched \/ Confirmed) \in BOOLEAN
    OBVIOUS
  <2>2. checkout' \in Dialog
    BY <1>1, <1>13, <2>1, DialogShape DEF EditPayment
  <2>3. QED
    BY <1>1, <1>13, <2>2, ShapeFrame DEF ShapeRest, EditPayment
<1>14. CASE CloseCheckout
  BY <1>1, <1>14, DialogShape, ShapeFrame DEF ShapeRest, CloseCheckout
<1>15. ASSUME NEW r \in Confirmations, Confirm(r)
       PROVE  ShapeInv'
  <2> DEFINE new == [items |-> BodyItems(cart), quote |-> cart.quote,
                     cash |-> checkout.cash, card |-> checkout.card, cart |-> cart]
  <2>1. new \in Request
    BY <1>1, BodyShape DEF Request, Cart, Dialog
  <2>2. checkout' \in Dialog
    BY <1>1, <1>15, DialogShape DEF Confirm, Views
  <2>3. /\ sent' = [sent EXCEPT ![r] = new]
        /\ stage' = [stage EXCEPT ![r] = "travelling"] /\ stage[r] = "unsent"
        /\ UNCHANGED <<price, quote, catalog, cart, order>>
    BY <1>15 DEF Confirm
  <2> HIDE DEF new
  <2>4. QED
    BY <2>1, <2>2, <2>3 DEF ShapeInv, Dialog, Views
<1>16. ASSUME NEW r \in Confirmations, StoreOrder(r)
       PROVE  ShapeInv'
  <2> DEFINE new == [total |-> TotalOf(Resolved(sent[r].items)),
                     fill |-> sent[r].cart.fill, fresh |-> Fresh(r)]
  <2>1. stage[r] = "travelling" /\ sent[r] \in Request
    BY <1>16 DEF StoreOrder, ShapeInv
  <2>2. new \in Order
    <3>1. TotalOf(Resolved(sent[r].items)) \in Nat
      BY <1>1, <2>1, ResolvedShape DEF Request
    <3>2. sent[r].cart.fill \in Nat
      BY <2>1 DEF Request, Cart
    <3>3. Fresh(r) \in BOOLEAN
      BY DEF Fresh
    <3>4. QED
      BY <3>1, <3>2, <3>3 DEF Order
  <2>3. /\ order' = [order EXCEPT ![r] = new]
        /\ stage' = [stage EXCEPT ![r] = "stored"] /\ sent' = [sent EXCEPT ![r] = NoRequest]
        /\ UNCHANGED <<price, catalog, cart, checkout>>
    BY <1>16 DEF StoreOrder
  <2> HIDE DEF new
  <2>4. quote' \in [Quotes -> Quoted]
    BY <1>1, <1>16 DEF StoreOrder, Quoted
  <2>5. order' \in [Confirmations -> Order]
    BY <1>1, <2>2, <2>3
  <2>6. QED
    BY <2>3, <2>4, <2>5 DEF ShapeInv, Quoted, Order
<1>17. ASSUME NEW r \in Confirmations, RefuseOrder(r)
       PROVE  ShapeInv'
  BY <1>17 DEF RefuseOrder, ShapeInv
<1>18. ASSUME NEW r \in Confirmations, Answer(r)
       PROVE  ShapeInv'
  <2>1. checkout' \in Dialog
    BY <1>1, <1>18, DialogShape DEF Answer, Views
  <2>2. QED
    BY <1>1, <1>18, <2>1, ShapeFrame DEF ShapeRest, Answer
<1>19. ASSUME NEW r \in Confirmations, LoseConnection(r)
       PROVE  ShapeInv'
  <2>1. checkout' \in Dialog
    BY <1>1, <1>19, DialogShape DEF LoseConnection, Views
  <2>2. QED
    BY <1>1, <1>19, <2>1, ShapeFrame DEF ShapeRest, LoseConnection
<1>20. QED
  BY <1>3, <1>4, <1>5, <1>6, <1>7, <1>8, <1>9, <1>10, <1>11, <1>12, <1>13, <1>14, <1>15,
     <1>16, <1>17, <1>18, <1>19, TillCases

-----------------------------------------------------------------------------
(* The till: one sale for each cart.                                       *)

\* The request the dialog awaits or shows the receipt of.
Watched(r) == Confirmed /\ checkout.request = r

\* Every step keeps DialogInv.
LEMMA DialogStep ==
  ASSUME ShapeInv, DialogInv, [ScreenNext]_screenVars
  PROVE  DialogInv'
<1> USE DEF DialogInv, Confirmed, Stored
<1>1. /\ checkout \in Dialog
      /\ stage \in [Confirmations -> {"unsent", "travelling", "stored", "refused"}]
  BY DEF ShapeInv, Dialog, Views
<1>2. CASE UNCHANGED screenVars
  BY <1>2 DEF screenVars
<1>3. CASE Edits
  BY <1>1, <1>3 DEF Edits, EditCart, Dialog
<1>4. ASSUME NEW p \in Products, NEW v \in PricesOf[p], ChangePrice(p, v)
      PROVE  DialogInv'
  BY <1>4 DEF ChangePrice
<1>5. CASE LoadCatalog
  BY <1>5 DEF LoadCatalog
<1>6. CASE ClearCart
  BY <1>1, <1>6 DEF ClearCart, Dialog
<1>7. CASE NewSale
  BY <1>7 DEF NewSale, Closed
<1>8. ASSUME NEW q \in Quotes, Conversion(q) \/ CreateQuote(q) \/ CancelQuote(q)
      PROVE  DialogInv'
  BY <1>8 DEF Conversion, Convert, CreateQuote, CancelQuote
<1>9. CASE OpenCheckout
  BY <1>9 DEF OpenCheckout, Closed
<1>10. ASSUME NEW cash \in Nat, NEW card \in Nat, EditPayment(cash, card)
       PROVE  DialogInv'
  BY <1>1, <1>10 DEF EditPayment, Dialog
<1>11. CASE CloseCheckout
  BY <1>11 DEF CloseCheckout, Closed
<1>12. ASSUME NEW r \in Confirmations, Confirm(r)
       PROVE  DialogInv'
  BY <1>1, <1>12 DEF Confirm, Dialog
<1>13. ASSUME NEW r \in Confirmations, StoreOrder(r) \/ RefuseOrder(r)
       PROVE  DialogInv'
  BY <1>1, <1>13 DEF StoreOrder, RefuseOrder
<1>14. ASSUME NEW r \in Confirmations, Answer(r)
       PROVE  DialogInv'
  BY <1>1, <1>14 DEF Answer, Awaited, Dialog
<1>15. ASSUME NEW r \in Confirmations, LoseConnection(r)
       PROVE  DialogInv'
  BY <1>1, <1>15 DEF LoseConnection, Dialog
<1>16. QED
  BY <1>2, <1>3, <1>4, <1>5, <1>6, <1>7, <1>8, <1>9, <1>10, <1>11, <1>12, <1>13, <1>14,
     <1>15, TillCases

\* A step that sends no request and starts no cart: the dialog may lose sight
\* of the request it watched, which is then left or was refused.
SameFill ==
  /\ cart'.fill = cart.fill
  /\ \A r \in Confirmations :
       /\ stage'[r] # "unsent" <=> stage[r] # "unsent"
       /\ Live(r)' => Live(r) /\ FillOf(r)' = FillOf(r)
       /\ Live(r)' /\ Watched(r) => Watched(r)' \/ FillOf(r) \in left'
  /\ left \subseteq left'
  /\ \A n \in left' \ left : \E r \in Confirmations : Live(r) /\ n = FillOf(r)

\* A step that empties the cart.
NextCart ==
  /\ cart'.fill = Cleared.fill
  /\ UNCHANGED <<stage, sent, order, left>>

\* For the numbers of the carts, every step is one of three.
LEMMA FillCases ==
  ASSUME ShapeInv, DialogInv, [ScreenNext]_screenVars
  PROVE  SameFill \/ NextCart \/ \E r \in Confirmations : Confirm(r)
<1> DEFINE Calm == /\ UNCHANGED <<stage, sent, order, left>>
                   /\ cart'.fill = cart.fill
                   /\ \A r \in Confirmations : Watched(r) => Watched(r)'
<1>1. /\ checkout \in Dialog /\ cart \in Cart
      /\ stage \in [Confirmations -> {"unsent", "travelling", "stored", "refused"}]
      /\ order \in [Confirmations -> Order] /\ DOMAIN sent = Confirmations
  BY DEF ShapeInv, Dialog, Views, Order
<1>2. Calm => SameFill
  BY DEF SameFill, Live, FillOf
<1>3. CASE UNCHANGED screenVars
  <2>1. Calm
    BY <1>3 DEF screenVars, Watched, Confirmed
  <2>2. QED
    BY <1>2, <2>1
<1>4. CASE Edits
  <2>1. Calm
    BY <1>1, <1>4 DEF Edits, SameSale, EditCart, Cart, Watched, Confirmed, Dialog
  <2>2. QED
    BY <1>2, <2>1
<1>5. CASE \/ \E p \in Products : \E v \in PricesOf[p] : ChangePrice(p, v)
           \/ LoadCatalog
           \/ \E q \in Quotes : CreateQuote(q) \/ CancelQuote(q)
  <2>1. Calm
    BY <1>5 DEF ChangePrice, LoadCatalog, CreateQuote, CancelQuote,
       Watched, Confirmed
  <2>2. QED
    BY <1>2, <2>1
<1>6. CASE \/ OpenCheckout
           \/ \E cash, card \in Nat : EditPayment(cash, card)
  <2>1. Calm
    BY <1>1, <1>6 DEF OpenCheckout, EditPayment, Watched, Confirmed, Dialog
  <2>2. QED
    BY <1>2, <2>1
<1>7. CASE ClearCart \/ NewSale \/ \E q \in Quotes : Conversion(q)
  BY <1>7, ClearedFacts DEF NextCart, ClearCart, NewSale, AfterSale, Conversion,
     Convert, Cart
<1>8. ASSUME NEW r \in Confirmations, UNCHANGED <<stage, sent, order, cart>>,
             stage[r] # "unsent", \A s \in Confirmations : Watched(s) => s = r,
             left' = LeftBehind(r)
      PROVE  SameFill
  <2>1. \A s \in Confirmations : Live(s)' = Live(s) /\ FillOf(s)' = FillOf(s)
    BY <1>8 DEF Live, FillOf
  <2>2. Live(r) => FillOf(r) \in left'
    BY <1>8 DEF Live, LeftBehind
  <2>3. stage[r] = "refused" \/ Live(r)
    BY <1>1, <1>8 DEF Live
  <2>4. \A n \in left' \ left : Live(r) /\ n = FillOf(r)
    BY <1>8, <2>3 DEF LeftBehind
  <2>5. left \subseteq left'
    BY <1>8 DEF LeftBehind
  <2>6. QED
    BY <1>8, <2>1, <2>2, <2>4, <2>5 DEF SameFill
<1>9. CASE CloseCheckout
  <2>1. CASE Confirmed
    BY <1>8, <1>9, <2>1 DEF CloseCheckout, DialogInv, Watched
  <2>2. CASE ~ Confirmed
    <3>1. Calm
      BY <1>9, <2>2 DEF CloseCheckout, Watched
    <3>2. QED
      BY <1>2, <3>1
  <2>3. QED
    BY <2>1, <2>2
<1>10. ASSUME NEW r \in Confirmations, LoseConnection(r)
       PROVE  SameFill
  <2>1. Confirmed /\ checkout.request = r
    BY <1>10 DEF LoseConnection, Awaited, Confirmed
  <2>2. QED
    BY <1>8, <1>10, <2>1 DEF LoseConnection, DialogInv, Watched
<1>11. ASSUME NEW r \in Confirmations, Answer(r)
       PROVE  SameFill
  <2>1. CASE stage[r] = "stored"
    <3>1. Calm
      BY <1>1, <1>11, <2>1 DEF Answer, Awaited, Watched, Confirmed, Dialog
    <3>2. QED
      BY <1>2, <3>1
  <2>2. CASE stage[r] = "refused"
    <3>1. \A s \in Confirmations : Watched(s) => s = r
      BY <1>11 DEF Answer, Awaited, Watched
    <3>2. UNCHANGED <<stage, sent, order, left, cart>>
      BY <1>11 DEF Answer
    <3>3. \A s \in Confirmations : Live(s)' = Live(s) /\ FillOf(s)' = FillOf(s)
      BY <3>2 DEF Live, FillOf
    <3>4. QED
      BY <2>2, <3>1, <3>2, <3>3 DEF SameFill, Live
  <2>3. QED
    BY <1>11, <2>1, <2>2 DEF Answer
<1>12. ASSUME NEW r \in Confirmations, StoreOrder(r)
       PROVE  SameFill
  <2>1. /\ stage[r] = "travelling" /\ stage' = [stage EXCEPT ![r] = "stored"]
        /\ sent' = [sent EXCEPT ![r] = NoRequest]
        /\ UNCHANGED <<cart, checkout, left>>
    BY <1>12 DEF StoreOrder
  <2>2. \A s \in Confirmations : s # r => order'[s] = order[s]
    BY <1>1, <1>12 DEF StoreOrder
  <2>3. order'[r].fill = sent[r].cart.fill
    BY <1>1, <1>12 DEF StoreOrder
  <2>4. \A s \in Confirmations : Live(s)' = Live(s) /\ FillOf(s)' = FillOf(s)
    BY <1>1, <2>1, <2>2, <2>3 DEF Live, FillOf
  <2>5. \A s \in Confirmations : stage'[s] # "unsent" <=> stage[s] # "unsent"
    BY <1>1, <2>1
  <2>6. \A s \in Confirmations : Watched(s)' <=> Watched(s)
    BY <2>1 DEF Watched, Confirmed
  <2>7. QED
    BY <2>1, <2>4, <2>5, <2>6 DEF SameFill
<1>13. ASSUME NEW r \in Confirmations, RefuseOrder(r)
       PROVE  SameFill
  <2>1. /\ stage[r] = "travelling" /\ stage' = [stage EXCEPT ![r] = "refused"]
        /\ sent' = [sent EXCEPT ![r] = NoRequest]
        /\ UNCHANGED <<cart, checkout, left, order>>
    BY <1>13 DEF RefuseOrder
  <2>2. \A s \in Confirmations : /\ Live(s)' <=> Live(s) /\ s # r
                                 /\ s # r => FillOf(s)' = FillOf(s)
    BY <1>1, <2>1 DEF Live, FillOf
  <2>3. \A s \in Confirmations : stage'[s] # "unsent" <=> stage[s] # "unsent"
    BY <1>1, <2>1
  <2>4. \A s \in Confirmations : Watched(s)' <=> Watched(s)
    BY <2>1 DEF Watched, Confirmed
  <2>5. QED
    BY <2>1, <2>2, <2>3, <2>4 DEF SameFill
<1>14. QED
  BY <1>3, <1>4, <1>5, <1>6, <1>7, <1>9, <1>10, <1>11, <1>12, <1>13, TillCases

\* Every step keeps FillInv.
LEMMA FillStep ==
  ASSUME ShapeInv, DialogInv, FillInv, [ScreenNext]_screenVars
  PROVE  FillInv'
<1>1. cart \in Cart /\ cart.fill \in Nat \ {0}
  BY DEF ShapeInv, Cart
<1>2. CASE SameFill
  BY <1>2 DEF SameFill, FillInv, Watched
<1>3. CASE NextCart
  <2>1. \A r \in Confirmations : Live(r)' = Live(r) /\ FillOf(r)' = FillOf(r)
    BY <1>3 DEF NextCart, Live, FillOf
  <2>2. \/ /\ cart'.fill = cart.fill
           /\ \A r \in Confirmations : Live(r) => FillOf(r) # cart.fill
        \/ cart'.fill = cart.fill + 1
    BY <1>3, ClearedFacts DEF NextCart
  <2>3. \A r \in Confirmations : Live(r) =>
          FillOf(r) \in 1 .. cart'.fill /\ FillOf(r) # cart'.fill
    BY <1>1, <2>2 DEF FillInv
  <2>4. QED
    BY <1>3, <2>1, <2>3 DEF NextCart, FillInv
<1>4. ASSUME NEW r \in Confirmations, Confirm(r)
      PROVE  FillInv'
  <2>1. /\ checkout.view = "open" /\ stage[r] = "unsent"
        /\ stage' = [stage EXCEPT ![r] = "travelling"]
        /\ sent'[r].cart = cart
        /\ \A s \in Confirmations : s # r => sent'[s] = sent[s]
        /\ Watched(r)'
        /\ UNCHANGED <<cart, order, left>>
    BY <1>4 DEF Confirm, ShapeInv, Watched, Confirmed
  <2>2. \A s \in Confirmations : IF s = r
          THEN Live(s)' /\ ~ Live(s) /\ FillOf(s)' = cart.fill
          ELSE Live(s)' = Live(s) /\ FillOf(s)' = FillOf(s)
    BY <2>1 DEF ShapeInv, Live, FillOf
  <2>3. \A s \in Confirmations : ~ Watched(s)
    BY <2>1 DEF Watched, Confirmed
  <2>4. \A s \in Confirmations : Live(s) =>
          FillOf(s) \in 1 .. cart.fill /\ (FillOf(s) = cart.fill => cart.fill \in left)
    BY <2>3 DEF FillInv, Watched
  <2>5. \A s \in Confirmations : Live(s)' =>
          /\ FillOf(s)' \in 1 .. cart.fill
          /\ FillOf(s)' = cart.fill /\ ~ Watched(s)' => cart.fill \in left
    BY <1>1, <2>1, <2>2, <2>4
  <2>6. \A s, t \in Confirmations :
          s # t /\ Live(s)' /\ Live(t)' /\ FillOf(s)' = FillOf(t)'
            => FillOf(s)' \in left
    BY <2>2, <2>4 DEF FillInv
  <2>7. QED
    BY <2>1, <2>5, <2>6 DEF FillInv, Watched
<1>5. QED
  BY <1>2, <1>3, <1>4, FillCases

\* The requests that were sent.
Used == {r \in Confirmations : stage[r] # "unsent"}

\* Every step keeps CountInv.
LEMMA CountStep ==
  ASSUME ShapeInv, DialogInv, FillInv, CountInv,
         [ScreenNext]_screenVars
  PROVE  CountInv'
<1> DEFINE Count(n, used, gone) ==
             /\ n <= used + 1
             /\ \A r \in Confirmations : Live(r) /\ FillOf(r) = n => n <= used
             /\ gone \subseteq 1 .. n
<1>1. cart.fill \in Nat \ {0}
  BY DEF ShapeInv, Cart
<1>2. IsFiniteSet(Used) /\ Cardinality(Used) \in Nat
  BY ScreenFacts, FS_Subset, FS_CardinalityType DEF Used
<1>3. Count(cart.fill, Cardinality(Used), left)
  BY DEF CountInv, Used
<1>4. SUFFICES /\ cart'.fill <= Cardinality(Used') + 1
               /\ \A r \in Confirmations : Live(r)' /\ FillOf(r)' = cart'.fill
                                       => cart'.fill <= Cardinality(Used')
               /\ left' \subseteq 1 .. cart'.fill
  BY DEF CountInv, Used
<1>5. CASE SameFill
  <2>1. Used' = Used
    BY <1>5 DEF SameFill, Used
  <2>2. left' \subseteq 1 .. cart.fill
    BY <1>3, <1>5 DEF SameFill, FillInv
  <2>3. QED
    BY <1>3, <1>5, <2>1, <2>2 DEF SameFill
<1>6. CASE NextCart
  <2>1. Used' = Used
    BY <1>6 DEF NextCart, Used
  <2>2. \A r \in Confirmations : Live(r)' = Live(r) /\ FillOf(r)' = FillOf(r)
    BY <1>6 DEF NextCart, Live, FillOf
  <2>3. \/ /\ cart'.fill = cart.fill
           /\ \A r \in Confirmations : Live(r) => FillOf(r) # cart.fill
        \/ /\ cart'.fill = cart.fill + 1
           /\ \E r \in Confirmations : Live(r) /\ FillOf(r) = cart.fill
    BY <1>6, ClearedFacts DEF NextCart
  <2>4. \A r \in Confirmations : Live(r) => FillOf(r) <= cart.fill
    BY <1>1 DEF FillInv
  <2>5. CASE cart'.fill = cart.fill
    BY <1>3, <1>6, <2>1, <2>2, <2>5 DEF NextCart
  <2>6. CASE cart'.fill # cart.fill
    <3>1. cart'.fill = cart.fill + 1 /\ cart.fill <= Cardinality(Used)
      BY <1>3, <2>3, <2>6
    <3>2. \A r \in Confirmations : Live(r) => FillOf(r) # cart'.fill
      BY <1>1, <2>4, <3>1 DEF FillInv
    <3>3. 1 .. cart.fill \subseteq 1 .. cart'.fill
      BY <1>1, <3>1
    <3>4. QED
      BY <1>1, <1>2, <1>3, <1>6, <2>1, <2>2, <3>1, <3>2, <3>3 DEF NextCart
  <2>7. QED
    BY <2>5, <2>6
<1>7. ASSUME NEW r \in Confirmations, Confirm(r)
      PROVE  /\ cart'.fill <= Cardinality(Used') + 1
             /\ cart'.fill <= Cardinality(Used')
             /\ left' \subseteq 1 .. cart'.fill
  <2>1. stage[r] = "unsent" /\ stage' = [stage EXCEPT ![r] = "travelling"]
        /\ UNCHANGED <<cart, left>>
    BY <1>7 DEF Confirm
  <2>2. Used' = Used \cup {r} /\ r \notin Used
    BY <2>1 DEF Used, ShapeInv
  <2>3. Cardinality(Used') = Cardinality(Used) + 1
    BY <1>2, <2>2, FS_AddElement
  <2>4. QED
    BY <1>1, <1>2, <1>3, <2>1, <2>3
<1>8. QED
  BY <1>5, <1>6, <1>7, FillCases

-----------------------------------------------------------------------------
(* The till: quotes and totals.                                            *)

\* Loaded(c), of the quotes Q.
LoadedFrom(c, Q) ==
  /\ c.quote = c.from
  /\ c.from # NoQuote => Q[c.from].status # "none"
  /\ c.from # NoQuote /\ ~ c.edited =>
       /\ c.discount = NoDiscount
       /\ \A p \in Products :
            c.lines[p] = IF Q[c.from].lines[p] = NoLine THEN NoLine
                         ELSE [Q[c.from].lines[p] EXCEPT !.price = c.lines[p].price]

\* QuotedInv of the quotes.
QuotesIn(Q) ==
  \A q \in Quotes :
    /\ Q[q].total = TotalOf(Q[q].lines)
    /\ \A p \in Products : InMoney(Q[q].lines[p])

\* QuotedInv of the requests.
Faithful(s) == /\ s.quote = s.cart.quote
               /\ s.items = BodyItems(s.cart)

\* QuotedInv in these parts, whose parameters may be primed.
LEMMA QuotedIs ==
  QuotedInv <=>
    /\ QuotesIn(quote)
    /\ LoadedFrom(cart, quote)
    /\ \A r \in Confirmations :
         stage[r] = "travelling" => LoadedFrom(sent[r].cart, quote) /\ Faithful(sent[r])
BY DEF QuotedInv, QuotesIn, InMoney, Loaded, LoadedFrom, Faithful

\* A quote keeps its lines once it is made.
QuotesKept(Q, R) ==
  \A q \in Quotes : Q[q].status # "none" => R[q].status # "none" /\ R[q].lines = Q[q].lines

\* A loaded cart stays so while its quote keeps its lines.
LEMMA LoadedKept ==
  ASSUME NEW Q, NEW R, QuotesKept(Q, R), NEW c, c.from \in Quotes \cup {NoQuote},
         LoadedFrom(c, Q)
  PROVE  LoadedFrom(c, R)
BY DEF QuotesKept, LoadedFrom

\* A step that makes no quote, starts no cart and sends nothing.
SameQuoted ==
  /\ QuotesKept(quote, quote') /\ QuotesIn(quote')
  /\ \A r \in Confirmations :
       stage'[r] = "travelling" => stage[r] = "travelling" /\ sent'[r] = sent[r]

\* Every step keeps QuotedInv.
LEMMA QuotedStep ==
  ASSUME ShapeInv, QuotedInv, [ScreenNext]_screenVars
  PROVE  QuotedInv'
<1>1. /\ cart \in Cart /\ quote \in [Quotes -> Quoted] /\ price \in [Products -> Prices]
      /\ stage \in [Confirmations -> {"unsent", "travelling", "stored", "refused"}]
      /\ DOMAIN sent = Confirmations
      /\ \A r \in Confirmations : stage[r] = "travelling" => sent[r] \in Request
  BY DEF ShapeInv, Quoted
<1>2. /\ QuotesIn(quote)
      /\ LoadedFrom(cart, quote)
      /\ \A r \in Confirmations :
           stage[r] = "travelling" => LoadedFrom(sent[r].cart, quote) /\ Faithful(sent[r])
  BY QuotedIs
<1>3. ASSUME QuotesIn(quote'), LoadedFrom(cart', quote'),
             \A r \in Confirmations :
               stage'[r] = "travelling"
                 => LoadedFrom(sent'[r].cart, quote') /\ Faithful(sent'[r])
      PROVE  QuotedInv'
  BY <1>3 DEF QuotedInv, QuotesIn, InMoney, Loaded, LoadedFrom, Faithful
<1>4. ASSUME SameQuoted, UNCHANGED cart
      PROVE  QuotedInv'
  <2>1. \A r \in Confirmations : stage[r] = "travelling" => LoadedFrom(sent[r].cart, quote')
    <3> SUFFICES ASSUME NEW r \in Confirmations, stage[r] = "travelling"
                 PROVE  LoadedFrom(sent[r].cart, quote')
      OBVIOUS
    <3>1. sent[r].cart.from \in Quotes \cup {NoQuote}
      BY <1>1 DEF Request, Cart
    <3>2. QED
      BY <1>2, <1>4, <3>1, LoadedKept DEF SameQuoted
  <2>2. LoadedFrom(cart, quote')
    <3>1. cart.from \in Quotes \cup {NoQuote}
      BY <1>1 DEF Cart
    <3>2. QED
      BY <1>2, <1>4, <3>1, LoadedKept DEF SameQuoted
  <2>3. QED
    BY <1>2, <1>3, <1>4, <2>1, <2>2 DEF SameQuoted
<1>5. QuotesKept(quote, quote)
  BY DEF QuotesKept
\* The steps that leave the quotes alone and send nothing.
<1>6. ASSUME UNCHANGED <<quote, stage, sent>>, LoadedFrom(cart', quote)
      PROVE  QuotedInv'
  BY <1>2, <1>3, <1>6
<1>7. CASE UNCHANGED screenVars
  BY <1>2, <1>6, <1>7 DEF screenVars
<1>8. CASE Edits
  <2>1. PICK c : SameSale(c) /\ EditCart(c)
    BY <1>8 DEF Edits
  <2>2. cart' = [c EXCEPT !.edited = TRUE] /\ UNCHANGED <<quote, stage, sent>>
    BY <2>1 DEF EditCart
  <2>3. cart'.quote = cart.quote /\ cart'.from = cart.from /\ cart'.edited
    BY <2>1, <2>2 DEF SameSale, Cart
  <2>4. LoadedFrom(cart', quote)
    BY <1>2, <2>3 DEF LoadedFrom
  <2>5. QED
    BY <1>6, <2>2, <2>4
<1>9. CASE \/ \E p \in Products : \E v \in PricesOf[p] : ChangePrice(p, v)
           \/ LoadCatalog
           \/ OpenCheckout
           \/ \E cash, card \in Nat : EditPayment(cash, card)
           \/ CloseCheckout
           \/ \E r \in Confirmations : Answer(r) \/ LoseConnection(r)
  <2>1. UNCHANGED <<quote, stage, sent, cart>>
    BY <1>9 DEF ChangePrice, LoadCatalog, OpenCheckout, EditPayment,
       CloseCheckout, Answer, LoseConnection
  <2>2. QED
    BY <1>2, <1>6, <2>1
<1>10. CASE ClearCart \/ NewSale
  <2>1. cart' = Cleared /\ UNCHANGED <<quote, stage, sent>>
    BY <1>10 DEF ClearCart, NewSale, AfterSale
  <2>2. LoadedFrom(cart', quote)
    BY <2>1 DEF LoadedFrom, Cleared, EmptyCart
  <2>3. QED
    BY <1>6, <2>1, <2>2
<1>11. ASSUME NEW q \in Quotes, Conversion(q)
       PROVE  QuotedInv'
  <2> PICK gone \in SUBSET InCart(quote[q]) : Convert(q, gone)
    BY <1>11 DEF Conversion
  <2> DEFINE lines == [p \in Products |-> IF p \in gone THEN NoLine ELSE LoadedLine(q, p)]
             partly == (gone # {})
  <2>1. /\ cart' = [Cleared EXCEPT !.lines = lines, !.quote = q, !.from = q, !.edited = partly]
        /\ quote[q].status # "none" /\ UNCHANGED <<quote, stage, sent>>
    BY DEF Convert
  <2>2. ASSUME ~ partly, NEW p \in Products
        PROVE  lines[p] = IF quote[q].lines[p] = NoLine THEN NoLine
                          ELSE [quote[q].lines[p] EXCEPT !.price = lines[p].price]
    <3> DEFINE old == quote[q].lines[p]
    <3>1. lines[p] = IF old = NoLine THEN NoLine
                     ELSE [old EXCEPT !.price = catalog[p]]
      BY <2>2 DEF LoadedLine
    <3>2. old \in CartLine
      BY <1>1 DEF Quoted
    <3> HIDE DEF old, lines
    <3>3. old # NoLine => [old EXCEPT !.price = catalog[p]].price = catalog[p]
      BY <3>2 DEF CartLine
    <3>4. QED
      BY <3>1, <3>3 DEF old
  <2> HIDE DEF lines, partly
  <2>3. /\ cart'.quote = q /\ cart'.from = q /\ cart'.edited = partly
        /\ cart'.discount = NoDiscount /\ cart'.lines = lines
    BY <2>1 DEF Cleared, EmptyCart
  <2>4. LoadedFrom(cart', quote)
    BY <2>1, <2>2, <2>3 DEF LoadedFrom
  <2>5. QED
    BY <1>6, <2>1, <2>4
<1>12. ASSUME NEW q \in Quotes, CreateQuote(q)
       PROVE  QuotedInv'
  <2> DEFINE lines == Resolved(BodyItems(cart))
             total == TotalOf(lines)
             new == [status |-> "OPEN", lines |-> lines, total |-> total]
  <2>1. /\ quote[q].status = "none" /\ quote' = [quote EXCEPT ![q] = new]
        /\ UNCHANGED <<cart, stage, sent>>
    BY <1>12 DEF CreateQuote
  <2>2. \A p \in Products : InMoney(lines[p])
    BY <1>1, BodyShape, ResolvedShape
  <2>3. new.total = TotalOf(new.lines) /\ \A p \in Products : InMoney(new.lines[p])
    BY <2>2
  <2> HIDE DEF new
  <2>4. \A x \in Quotes : quote'[x] = IF x = q THEN new ELSE quote[x]
    BY <1>1, <2>1
  <2>5. QuotesIn(quote') /\ QuotesKept(quote, quote')
    BY <1>2, <2>1, <2>3, <2>4 DEF QuotesIn, QuotesKept
  <2>6. QED
    BY <1>4, <2>1, <2>5 DEF SameQuoted
<1>13. ASSUME NEW q \in Quotes, NEW new \in {"CONVERTED", "CANCELLED"},
              quote' = [quote EXCEPT ![q].status = new], UNCHANGED cart,
              \A r \in Confirmations :
                stage'[r] = "travelling" => stage[r] = "travelling" /\ sent'[r] = sent[r]
       PROVE  QuotedInv'
  <2>1. \A x \in Quotes : /\ quote'[x].lines = quote[x].lines
                          /\ quote'[x].total = quote[x].total
                          /\ quote'[x].status = IF x = q THEN new ELSE quote[x].status
    BY <1>1, <1>13 DEF Quoted
  <2>2. QuotesIn(quote') /\ QuotesKept(quote, quote')
    BY <1>2, <2>1 DEF QuotesIn, QuotesKept
  <2>3. QED
    BY <1>4, <1>13, <2>2 DEF SameQuoted
<1>14. ASSUME NEW q \in Quotes, CancelQuote(q)
       PROVE  QuotedInv'
  BY <1>13, <1>14 DEF CancelQuote
<1>15. ASSUME NEW r \in Confirmations, Confirm(r)
       PROVE  QuotedInv'
  <2> DEFINE new == [items |-> BodyItems(cart), quote |-> cart.quote,
                     cash |-> checkout.cash, card |-> checkout.card, cart |-> cart]
  <2>1. /\ stage' = [stage EXCEPT ![r] = "travelling"] /\ sent' = [sent EXCEPT ![r] = new]
        /\ UNCHANGED <<quote, cart>>
    BY <1>15 DEF Confirm
  <2>2. Faithful(new) /\ new.cart = cart
    BY DEF Faithful
  <2> HIDE DEF new
  <2>3. \A s \in Confirmations : sent'[s] = (IF s = r THEN new ELSE sent[s])
                            /\ (stage'[s] = "travelling" <=> s = r \/ stage[s] = "travelling")
    BY <1>1, <2>1
  <2>4. QED
    BY <1>2, <1>3, <2>1, <2>2, <2>3
<1>16. ASSUME NEW r \in Confirmations, StoreOrder(r) \/ RefuseOrder(r)
       PROVE  QuotedInv'
  <2>1. /\ \A s \in Confirmations :
             stage'[s] = "travelling" => stage[s] = "travelling" /\ sent'[s] = sent[s]
        /\ UNCHANGED cart
    BY <1>1, <1>16 DEF StoreOrder, RefuseOrder
  <2>2. CASE UNCHANGED quote
    BY <1>2, <1>5, <1>4, <2>1, <2>2 DEF SameQuoted
  <2>3. CASE ~ UNCHANGED quote
    <3>1. stage[r] = "travelling" /\ sent[r].quote # NoQuote
          /\ quote' = [quote EXCEPT ![sent[r].quote].status = "CONVERTED"]
      BY <1>16, <2>3 DEF StoreOrder, RefuseOrder
    <3>2. sent[r].quote \in Quotes
      BY <1>1, <3>1 DEF Request
    <3>3. QED
      BY <1>13, <2>1, <3>1, <3>2
  <2>4. QED
    BY <2>2, <2>3
<1>17. QED
  BY <1>7, <1>8, <1>9, <1>10, <1>11, <1>12, <1>14, <1>15, <1>16, TillCases

\* ChargeInv, of a dialog, a cart, and the request's stage, cart and order.
Agrees(d, c, r, s, q, o) ==
  /\ PaymentCovers(d, ShownTotal(c))
  /\ s = "travelling" => q.cart = c
  /\ s = "stored" /\ o.fresh => o.total = ServerTotal(c)

\* Every step keeps ChargeInv.
LEMMA ChargeStep ==
  ASSUME ShapeInv, DialogInv, QuotedInv, ChargeInv,
         [ScreenNext]_screenVars
  PROVE  ChargeInv'
<1> DEFINE Open(d) == d.view \notin {"charging", "charged"} \/ d.touched
           r == checkout.request
<1>1. /\ checkout \in Dialog /\ cart \in Cart
      /\ stage \in [Confirmations -> {"unsent", "travelling", "stored", "refused"}]
      /\ DOMAIN sent = Confirmations /\ order \in [Confirmations -> Order]
  BY DEF ShapeInv, Dialog, Views, Order
<1>2. Open(checkout) \/ Agrees(checkout, cart, r, stage[r], sent[r], order[r])
  BY DEF ChargeInv, Confirmed, Stored, Agrees
<1>3. ASSUME Open(checkout')
      PROVE  ChargeInv'
  BY <1>3 DEF ChargeInv, Confirmed
<1>4. ASSUME NEW s, s = checkout'.request,
             Agrees(checkout', cart', s, stage'[s], sent'[s], order'[s])
      PROVE  ChargeInv'
  BY <1>4 DEF ChargeInv, Confirmed, Stored, Agrees
<1>5. ASSUME UNCHANGED <<checkout, cart>>, stage'[r] = stage[r], sent'[r] = sent[r],
             order'[r] = order[r]
      PROVE  ChargeInv'
  BY <1>2, <1>3, <1>4, <1>5
<1>6. CASE UNCHANGED screenVars
  BY <1>5, <1>6 DEF screenVars
<1>7. CASE Edits \/ ClearCart
  <2>1. checkout' = [checkout EXCEPT !.touched = checkout.touched \/ Confirmed]
    BY <1>7 DEF Edits, EditCart, ClearCart
  <2>2. Open(checkout')
    BY <1>1, <2>1 DEF Dialog, Confirmed
  <2>3. QED
    BY <1>3, <2>2
<1>8. CASE \/ \E p \in Products : \E v \in PricesOf[p] : ChangePrice(p, v)
           \/ LoadCatalog
           \/ \E q \in Quotes : CreateQuote(q) \/ CancelQuote(q)
  BY <1>5, <1>8 DEF ChangePrice, LoadCatalog, CreateQuote, CancelQuote
<1>9. CASE \/ NewSale \/ OpenCheckout \/ CloseCheckout
           \/ \E q \in Quotes : Conversion(q)
           \/ \E s \in Confirmations : LoseConnection(s)
  <2>1. CASE NewSale \/ CloseCheckout
    BY <2>1, <1>3 DEF NewSale, CloseCheckout, Closed
  <2>2. CASE OpenCheckout
    BY <2>2, <1>3 DEF OpenCheckout, Closed
  <2>3. CASE \E q \in Quotes : Conversion(q)
    BY <2>3, <1>3 DEF Conversion, Convert
  <2>4. CASE \E s \in Confirmations : LoseConnection(s)
    BY <1>1, <2>4, <1>3 DEF LoseConnection, Dialog
  <2>5. QED
    BY <1>9, <2>1, <2>2, <2>3, <2>4
<1>10. ASSUME NEW cash \in Nat, NEW card \in Nat, EditPayment(cash, card)
       PROVE  ChargeInv'
  <2>1. Open(checkout')
    BY <1>1, <1>10 DEF EditPayment, Confirmed, Dialog
  <2>2. QED
    BY <1>3, <2>1
<1>11. ASSUME NEW s \in Confirmations, Confirm(s)
       PROVE  ChargeInv'
  <2>1. /\ PaymentCovers(checkout, ShownTotal(cart))
        /\ checkout'.request = s
        /\ checkout'.cash = checkout.cash /\ checkout'.card = checkout.card
        /\ cart' = cart /\ stage'[s] = "travelling" /\ sent'[s].cart = cart
    BY <1>1, <1>11 DEF Confirm, Dialog
  <2>2. PaymentCovers(checkout', ShownTotal(cart'))
    BY <2>1 DEF PaymentCovers, Paid
  <2>3. Agrees(checkout', cart', s, stage'[s], sent'[s], order'[s])
    BY <2>1, <2>2 DEF Agrees
  <2>4. QED
    BY <1>4, <2>1, <2>3
<1>12. ASSUME NEW s \in Confirmations, StoreOrder(s)
       PROVE  ChargeInv'
  <2>1. /\ stage[s] = "travelling" /\ stage' = [stage EXCEPT ![s] = "stored"]
        /\ sent' = [sent EXCEPT ![s] = NoRequest]
        /\ UNCHANGED <<cart, checkout>>
        /\ \A t \in Confirmations : t # s => order'[t] = order[t]
        /\ order'[s].fresh = Fresh(s)
        /\ order'[s].total = TotalOf(Resolved(sent[s].items))
    BY <1>1, <1>12 DEF StoreOrder
  <2>2. CASE Open(checkout)
    BY <1>3, <2>1, <2>2
  <2>3. CASE ~ Open(checkout) /\ r # s
    <3>1. r \in Confirmations
      BY <2>3 DEF DialogInv, Confirmed
    <3>2. QED
      BY <1>1, <1>5, <2>1, <2>3, <3>1
  <2>4. CASE ~ Open(checkout) /\ r = s
    <3>1. sent[s].cart = cart
      BY <1>2, <2>1, <2>4 DEF Agrees
    <3>2. sent[s].items = BodyItems(cart)
      BY <2>1, <3>1 DEF QuotedInv
    <3>3. Fresh(s) => order'[s].total = ServerTotal(cart)
      <4>1. AnyCart(cart) /\ IsFiniteSet(Products) /\ price \in [Products -> Nat]
        BY <1>1, ScreenFacts DEF Cart, AnyCart, ShapeInv
      <4>2. QED
        BY <2>1, <3>1, <3>2, <4>1, ResolvedTotal DEF Fresh
    <3>4. Agrees(checkout', cart', s, stage'[s], sent'[s], order'[s])
      BY <1>1, <1>2, <2>1, <2>4, <3>3 DEF Agrees
    <3>5. QED
      BY <1>4, <2>1, <2>4, <3>4
  <2>5. QED
    BY <2>2, <2>3, <2>4
<1>13. ASSUME NEW s \in Confirmations, RefuseOrder(s)
       PROVE  ChargeInv'
  <2>1. /\ stage' = [stage EXCEPT ![s] = "refused"] /\ sent' = [sent EXCEPT ![s] = NoRequest]
        /\ UNCHANGED <<cart, checkout, order>>
    BY <1>13 DEF RefuseOrder
  <2>2. CASE Open(checkout)
    BY <1>3, <2>1, <2>2
  <2>3. CASE ~ Open(checkout)
    <3>1. r \in Confirmations
      BY <2>3 DEF DialogInv, Confirmed
    <3>2. stage'[r] = "refused" \/ (stage'[r] = stage[r] /\ sent'[r] = sent[r])
      BY <1>1, <2>1, <3>1
    <3>3. Agrees(checkout', cart', r, stage'[r], sent'[r], order'[r])
      BY <1>2, <2>1, <2>3, <3>2 DEF Agrees
    <3>4. QED
      BY <1>4, <2>1, <3>3
  <2>4. QED
    BY <2>2, <2>3
<1>14. ASSUME NEW s \in Confirmations, Answer(s)
       PROVE  ChargeInv'
  <2>1. /\ checkout.view = "charging" /\ r = s /\ UNCHANGED <<cart, stage, sent, order>>
    BY <1>14 DEF Answer, Awaited
  <2>2. CASE stage[s] # "stored"
    <3>1. Open(checkout')
      BY <1>1, <1>14, <2>2 DEF Answer, Dialog
    <3>2. QED
      BY <1>3, <3>1
  <2>3. CASE stage[s] = "stored"
    <3>1. /\ checkout'.request = r /\ checkout'.touched = checkout.touched
          /\ checkout'.cash = checkout.cash /\ checkout'.card = checkout.card
      BY <1>1, <1>14, <2>3 DEF Answer, Dialog
    <3>2. CASE Open(checkout)
      BY <1>3, <2>1, <3>1, <3>2
    <3>3. CASE ~ Open(checkout)
      <4>1. PaymentCovers(checkout', ShownTotal(cart'))
        BY <1>2, <2>1, <3>1, <3>3 DEF Agrees, PaymentCovers, Paid
      <4>2. Agrees(checkout', cart', r, stage'[r], sent'[r], order'[r])
        BY <1>2, <2>1, <3>3, <4>1 DEF Agrees
      <4>3. QED
        BY <1>4, <3>1, <4>2
    <3>4. QED
      BY <3>2, <3>3
  <2>4. QED
    BY <2>2, <2>3
<1>15. QED
  BY <1>6, <1>7, <1>8, <1>9, <1>10, <1>11, <1>12, <1>13, <1>14, TillCases

-----------------------------------------------------------------------------
(* The till: the theorems.                                                 *)

\* The total of a quote nobody has made.
LEMMA NoLinesTotal ==
  TotalOf(NoQuoteYet.lines) = 0
<1> DEFINE lines == NoQuoteYet.lines
           f == [p \in Products |-> Gross(lines[p]) - lines[p].discount.value]
           a == 1
           b == 0
           e == 0
           W == {}
<1>1. TotalOf(lines) = Sum(f, Products)
  BY DEF Sum, TotalOf, SumOver
<1>2. \A p \in Products : f[p] = 0
  BY DEF NoQuoteYet, NoLine, NoDiscount, Gross
<1>3. \A p \in Products : f[p] \in Int /\ Near(a * f[p], b * f[p], IF p \in W THEN e ELSE 0)
  BY <1>2 DEF Near
<1>4. a \in Int /\ b \in Int /\ e \in Nat
  OBVIOUS
<1>5. \A k, n \in Int : Near(1 * k, 0 * k, 0 * n) => k = 0
  BY DEF Near
<1>6. Cardinality(Products \cap {}) \in Int
  BY FS_EmptySet
<1> HIDE DEF f, a, b, e, W
<1>7. Sum(f, Products) \in Int
  BY <1>3, ScreenFacts, SumInt
<1>8. Near(a * Sum(f, Products), b * Sum(f, Products), e * Cardinality(Products \cap W))
  BY <1>3, <1>4, ScreenFacts, SumNear
<1>9. Near(1 * Sum(f, Products), 0 * Sum(f, Products), 0 * Cardinality(Products \cap {}))
  BY <1>8 DEF a, b, e, W
<1>10. QED
  BY <1>1, <1>5, <1>6, <1>7, <1>9

\* The empty cart of a till that has just started.
LEMMA ScreenStarts ==
  ASSUME ScreenInit
  PROVE  ScreenInv
<1>1. ShapeInv
  <2>1. price \in [Products -> Prices] /\ catalog = price
    BY DEF ScreenInit
  <2>2. NoQuoteYet \in Quoted /\ NoOrder \in Order
    BY ScreenFacts DEF NoQuoteYet, Quoted, NoOrder, Order
  <2>3. cart \in Cart
    <3>1. [p \in Products |-> NoLine] \in [Products -> CartLine]
      BY ScreenFacts
    <3>2. cart = [lines |-> [p \in Products |-> NoLine], discount |-> NoDiscount,
                  quote |-> NoQuote, fill |-> 1, from |-> NoQuote, edited |-> FALSE]
      BY DEF ScreenInit, EmptyCart
    <3>3. QED
      BY <3>1, <3>2, NoDiscountIs DEF Cart
  <2>4. checkout \in Dialog
    BY DEF ScreenInit, Closed, Dialog, Views
  <2>5. /\ quote = [q \in Quotes |-> NoQuoteYet]
        /\ order = [r \in Confirmations |-> NoOrder]
        /\ stage = [r \in Confirmations |-> "unsent"]
        /\ sent = [r \in Confirmations |-> NoRequest]
    BY DEF ScreenInit
  <2>6. quote \in [Quotes -> Quoted] /\ order \in [Confirmations -> Order]
    BY <2>2, <2>5
  <2>7. \A r \in Confirmations : order[r].fill = 0
    BY <2>5 DEF NoOrder
  <2>8. stage \in [Confirmations -> {"unsent", "travelling", "stored", "refused"}]
        /\ DOMAIN sent = Confirmations /\ \A r \in Confirmations : stage[r] = "unsent"
    BY <2>5
  <2>9. QED
    BY <2>1, <2>3, <2>4, <2>6, <2>7, <2>8 DEF ShapeInv, Dialog, Views, Quoted, Order
<1>2. \A r \in Confirmations : stage[r] = "unsent"
  BY DEF ScreenInit
<1>3. checkout.view = "closed" /\ ~ Confirmed
  BY DEF ScreenInit, Closed, Confirmed
<1>4. DialogInv /\ ChargeInv
  BY <1>3 DEF DialogInv, ChargeInv
<1>5. FillInv
  BY <1>2 DEF FillInv, Live
<1>6. CountInv
  <2>1. Used = {}
    BY <1>2 DEF Used
  <2>2. Cardinality(Used) = 0
    BY <2>1, FS_EmptySet
  <2>3. cart.fill = 1 /\ left = {}
    BY DEF ScreenInit, EmptyCart
  <2>4. QED
    BY <1>2, <2>2, <2>3 DEF CountInv, Live, Used
<1>7. QuotedInv
  <2>1. quote = [q \in Quotes |-> NoQuoteYet]
    BY DEF ScreenInit
  <2>2. \A p \in Products : InMoney(NoQuoteYet.lines[p])
    BY DEF InMoney, NoQuoteYet, NoLine, NoDiscount, Gross
  <2>3. QuotesIn(quote)
    BY <2>1, <2>2, NoLinesTotal DEF QuotesIn, NoQuoteYet
  <2>4. LoadedFrom(cart, quote)
    BY DEF ScreenInit, EmptyCart, LoadedFrom
  <2>5. QED
    BY <1>2, <2>3, <2>4, QuotedIs
<1>8. QED
  BY <1>1, <1>4, <1>5, <1>6, <1>7 DEF ScreenInv

\* Every step of the till or of the server keeps the invariant.
LEMMA ScreenStep ==
  ASSUME ScreenInv, [ScreenNext]_screenVars
  PROVE  ScreenInv'
<1>1. /\ ShapeInv /\ DialogInv /\ FillInv /\ CountInv
      /\ QuotedInv /\ ChargeInv
  BY DEF ScreenInv
<1>2. ShapeInv'
  BY <1>1, ShapeStep
<1>3. DialogInv'
  BY <1>1, DialogStep
<1>4. FillInv'
  BY <1>1, FillStep
<1>5. CountInv'
  BY <1>1, CountStep
<1>6. QuotedInv'
  BY <1>1, QuotedStep
<1>7. ChargeInv'
  BY <1>1, ChargeStep
<1>8. QED
  BY <1>2, <1>3, <1>4, <1>5, <1>6, <1>7 DEF ScreenInv

\* What the dialog, the cart, the requests on their way and the stored orders say
\* of each other, after any steps of the till and of the server (useCartStore,
\* CheckoutModal, QuoteDetailPage, attemptCreate).
THEOREM ScreenInvariant ==
  ScreenSpec => []ScreenInv
<1>1. ScreenInit => ScreenInv
  BY ScreenStarts
<1>2. ScreenInv /\ [ScreenNext]_screenVars => ScreenInv'
  BY ScreenStep
<1>3. QED
  BY <1>1, <1>2, PTL DEF ScreenSpec

\* Amounts are amounts, and the carts no more than the requests and one.
LEMMA ScreenTyped ==
  ASSUME ScreenInv
  PROVE  ScreenTypeOK
<1>1. ShapeInv /\ FillInv /\ CountInv
  BY DEF ScreenInv
<1> DEFINE n == Cardinality(Confirmations)
<1>2. /\ cart \in Cart /\ quote \in [Quotes -> Quoted] /\ checkout \in Dialog
      /\ order \in [Confirmations -> Order]
      /\ stage \in [Confirmations -> {"unsent", "travelling", "stored", "refused"}]
      /\ price \in [Products -> Prices] /\ catalog \in [Products -> Prices]
      /\ \A r \in Confirmations : stage[r] # "stored" => order[r].fill = 0
  BY <1>1 DEF ShapeInv, Quoted, Dialog, Views, Order
<1>3. Cardinality(Used) \in Nat /\ n \in Nat /\ Cardinality(Used) <= n
  <2>1. Used \subseteq Confirmations /\ IsFiniteSet(Confirmations)
    BY ScreenFacts DEF Used
  <2>2. Cardinality(Used) \in Nat /\ Cardinality(Confirmations) \in Nat
        /\ Cardinality(Used) <= Cardinality(Confirmations)
    BY <2>1, FS_Subset, FS_CardinalityType
  <2>3. QED
    BY <2>2
<1>4. cart.fill <= Cardinality(Used) + 1 /\ left \subseteq 1 .. cart.fill
  BY <1>1 DEF CountInv, Used
<1> HIDE DEF n
<1>5. cart.fill \in 1 .. n + 1 /\ left \subseteq 1 .. n + 1
  <2>1. cart.fill \in Nat \ {0}
    BY <1>2 DEF Cart
  <2>2. cart.fill \in 1 .. n + 1
    BY <1>3, <1>4, <2>1
  <2>3. \A k \in 1 .. cart.fill : k \in 1 .. n + 1
    BY <1>3, <2>2
  <2>4. QED
    BY <1>4, <2>2, <2>3
<1>6. ASSUME NEW r \in Confirmations
      PROVE  order[r].total \in Nat /\ order[r].fill \in 0 .. n + 1
  <2>1. order[r].total \in Nat /\ order[r].fill \in Nat
    BY <1>2 DEF Order
  <2>2. CASE stage[r] = "stored"
    <3>1. order[r].fill \in 1 .. cart.fill
      BY <1>1, <2>2 DEF FillInv, Live, FillOf
    <3>2. QED
      BY <1>3, <1>5, <2>1, <3>1
  <2>3. CASE stage[r] # "stored"
    BY <1>2, <1>3, <2>1, <2>3
  <2>4. QED
    BY <2>2, <2>3
<1>7. ASSUME NEW q \in Quotes
      PROVE  /\ quote[q].status \in {"none", "OPEN", "CONVERTED", "CANCELLED"}
             /\ quote[q].lines \in [Products -> CartLine] /\ quote[q].total \in Nat
  BY <1>2 DEF Quoted
<1>8. /\ cart.lines \in [Products -> CartLine]
      /\ cart.quote \in Quotes \cup {NoQuote} /\ cart.from \in Quotes \cup {NoQuote}
  BY <1>2 DEF Cart
<1>9. /\ checkout.view \in {"closed", "open", "charging", "charged"}
      /\ checkout.request \in Confirmations \cup {NoRequest}
      /\ checkout.cash \in Nat /\ checkout.card \in Nat
  BY <1>2 DEF Dialog, Views
<1>10. QED
  BY <1>2, <1>5, <1>6, <1>7, <1>8, <1>9 DEF ScreenTypeOK, n

\* The amounts of the till stay amounts, and it never numbers more carts than it
\* sent requests, and one (useCartStore, CheckoutModal).
THEOREM ScreenKeepsTypes ==
  ScreenSpec => []ScreenTypeOK
<1>1. ScreenSpec => []ScreenInv
  BY ScreenInvariant
<1>2. ScreenInv => ScreenTypeOK
  BY ScreenTyped
<1>3. QED
  BY <1>1, <1>2, PTL

\* A cart is sold twice only if the till lost sight of one of its requests: the
\* dialog closed, its connection broken or the page loaded again (handleConfirm,
\* onNewSale).
THEOREM ScreenTwiceOnlyIfLeft ==
  ScreenSpec => []TwiceOnlyIfLeft
<1>1. ScreenSpec => []ScreenInv
  BY ScreenInvariant
<1>2. ScreenInv => TwiceOnlyIfLeft
  BY DEF ScreenInv, FillInv, Live, FillOf, Stored, TwiceOnlyIfLeft
<1>3. QED
  BY <1>1, <1>2, PTL

\* The change out of a payment that covers the total leaves the total, up to a cent.
LEMMA DrawerNear ==
  ASSUME NEW paid \in Nat, NEW shown \in Nat, NEW total \in Nat, NEW n \in Nat,
         paid >= shown - 1, Near(2 * shown, 2 * total, n + 1)
  PROVE  2 * Distance(paid - (IF paid - shown <= 1 THEN 0 ELSE paid - shown), total)
           <= n + 3
<1> DEFINE kept == paid - (IF paid - shown <= 1 THEN 0 ELSE paid - shown)
<1>1. kept \in Int /\ kept >= shown - 1 /\ kept <= shown + 1
  OBVIOUS
<1> HIDE DEF kept
<1>2. QED
  BY <1>1 DEF Distance, Near, kept

\* With current prices and nothing touched after the confirmation, what stays in
\* the drawer differs from the stored total by the roundings, half a cent for each
\* line and one for the sum, and the cent of tolerance (computeCartTotals,
\* computeOrderItemsPayload, computeChange, attemptCreate).
THEOREM ScreenDrawerKeepsTotal ==
  ScreenSpec => []DrawerKeepsTotal
<1>1. ScreenSpec => []ScreenInv
  BY ScreenInvariant
<1>2. ASSUME ScreenInv
      PROVE  DrawerKeepsTotal
  <2> DEFINE r == checkout.request
             shown == ShownTotal(cart)
             total == order[r].total
             paid == Paid(checkout)
             n == Cardinality(InCart(cart))
  <2>1. ShapeInv /\ DialogInv /\ ChargeInv
    BY <1>2 DEF ScreenInv
  <2>2. SUFFICES ASSUME checkout.view = "charged", ~ checkout.touched, order[r].fresh
                 PROVE  2 * Distance(paid - Change(checkout, shown), total)
                          <= Cardinality(InCart(cart)) + 3
    BY DEF DrawerKeepsTotal
  <2>3. PaymentCovers(checkout, shown) /\ total = ServerTotal(cart)
    BY <2>1, <2>2 DEF DialogInv, ChargeInv, Confirmed
  <2>4. IsFiniteSet(Products) /\ AnyCart(cart)
    BY <2>1, ScreenFacts DEF ShapeInv, Cart, AnyCart
  <2>5. shown \in Nat /\ total \in Nat /\ Near(2 * shown, 2 * total, n + 1)
    BY <2>3, <2>4, ShownNear, TotalsNear
  <2>6. paid \in Nat
    BY <2>1 DEF ShapeInv, Paid
  <2>7. n \in Nat
    BY <2>4, FS_Subset, FS_CardinalityType DEF InCart
  <2>8. paid >= shown - 1
    BY <2>3 DEF PaymentCovers
  <2>9. Change(checkout, shown) = IF paid - shown <= 1 THEN 0 ELSE paid - shown
    BY DEF Change
  <2> HIDE DEF paid, shown, total, n
  <2>10. 2 * Distance(paid - (IF paid - shown <= 1 THEN 0 ELSE paid - shown), total)
           <= n + 3
    BY <2>5, <2>6, <2>7, <2>8, DrawerNear
  <2>11. QED
    BY <2>9, <2>10 DEF n
<1>3. QED
  BY <1>1, <1>2, PTL

\* A request is stored by StoreOrder alone.
LEMMA StoredBy ==
  ASSUME ShapeInv, [ScreenNext]_screenVars, NEW r \in Confirmations,
         stage[r] = "travelling", stage'[r] = "stored"
  PROVE  StoreOrder(r)
<1>1. stage \in [Confirmations -> {"unsent", "travelling", "stored", "refused"}]
  BY DEF ShapeInv
<1>2. stage' # stage
  OBVIOUS
<1>3. ASSUME NEW s \in Confirmations, Confirm(s) \/ RefuseOrder(s)
      PROVE  FALSE
  BY <1>1, <1>3 DEF Confirm, RefuseOrder
<1>4. ASSUME NEW s \in Confirmations, StoreOrder(s)
      PROVE  s = r
  BY <1>1, <1>4 DEF StoreOrder
<1>5. CASE Edits
  BY <1>2, <1>5 DEF Edits, EditCart
<1>6. CASE UNCHANGED screenVars
  BY <1>2, <1>6 DEF screenVars
<1>7. CASE \/ \E p \in Products : \E v \in PricesOf[p] : ChangePrice(p, v)
           \/ LoadCatalog \/ ClearCart \/ NewSale
           \/ \E q \in Quotes : Conversion(q) \/ CreateQuote(q) \/ CancelQuote(q)
  BY <1>2, <1>7 DEF ChangePrice, LoadCatalog, ClearCart, NewSale,
     Conversion, Convert, CreateQuote, CancelQuote
<1>8. CASE \/ OpenCheckout \/ CloseCheckout
           \/ \E cash, card \in Nat : EditPayment(cash, card)
           \/ \E s \in Confirmations : Answer(s) \/ LoseConnection(s)
  BY <1>2, <1>8 DEF OpenCheckout, CloseCheckout, EditPayment, Answer,
     LoseConnection
<1>9. QED
  BY <1>3, <1>4, <1>5, <1>6, <1>7, <1>8, TillCases

\* A line of a quote, at the price it was made with, is resolved to itself.
LEMMA ResolvedAgain ==
  ASSUME NEW entry \in CartLine, InMoney(entry), NEW items, NEW p \in Products,
         items[p] = [quantity |-> entry.quantity, discount |-> entry.discount.value],
         entry.quantity = 0 <=> entry = NoLine,
         entry.quantity # 0 => entry.price = price[p]
  PROVE  Resolved(items)[p] = entry
<1> DEFINE n == entry.quantity
           v == entry.discount.value
           g == price[p] * n
<1>1. Resolved(items)[p] =
        IF n = 0 THEN NoLine
        ELSE [quantity |-> n, price |-> price[p],
              discount |-> [kind |-> "FIXED", value |-> Least(v, g)]]
  BY DEF Resolved
<1>2. CASE n = 0
  BY <1>1, <1>2
<1>3. CASE n # 0
  <2>1. entry \in AnyLine
    BY ScreenFacts
  <2>2. entry.price = price[p] /\ Gross(entry) = g
    BY <1>3 DEF Gross
  <2>3. v \in Nat /\ g \in Nat /\ v <= g
    BY <2>1, <2>2, LineFacts DEF AnyLine, Discount, InMoney
  <2>4. Least(v, g) = v
    BY <2>3 DEF Least
  <2>5. entry.discount = [kind |-> "FIXED", value |-> v]
    BY <2>1 DEF AnyLine, Discount, InMoney
  <2>6. entry = [quantity |-> n, price |-> price[p], discount |-> entry.discount]
    BY <2>1, <2>2 DEF AnyLine
  <2>7. QED
    BY <1>1, <1>3, <2>4, <2>5, <2>6
<1>4. QED
  BY <1>2, <1>3

\* QuoteHonoured, of one step.
LEMMA QuoteSold ==
  ASSUME ScreenInv, [ScreenNext]_screenVars, NEW r \in Confirmations,
         stage[r] = "travelling", stage'[r] = "stored", SellsQuote(r)
  PROVE  /\ order'[r].total = quote[sent[r].cart.from].total
         /\ Fresh(r) => ShownTotal(sent[r].cart) = order'[r].total
<1> DEFINE c == sent[r].cart
           items == sent[r].items
           q == c.from
           lines == quote[q].lines
<1>1. ShapeInv /\ QuotedInv
  BY DEF ScreenInv
<1>2. order'[r].total = TotalOf(Resolved(items))
  <2>1. StoreOrder(r)
    BY <1>1, StoredBy
  <2>2. r \in DOMAIN order
    BY <1>1 DEF ShapeInv
  <2>3. QED
    BY <2>1, <2>2 DEF StoreOrder
<1>3. sent[r] \in Request /\ c \in Cart
  BY <1>1 DEF ShapeInv, Request
<1>4. q \in Quotes /\ ~ c.edited
      /\ \A p \in InCart(c) :
           lines[p].price = price[p] /\ c.lines[p].discount.value <= Gross(c.lines[p])
  BY <1>3 DEF SellsQuote, Cart
<1>5. /\ c.discount = NoDiscount
      /\ \A p \in Products :
           c.lines[p] = IF lines[p] = NoLine THEN NoLine
                        ELSE [lines[p] EXCEPT !.price = c.lines[p].price]
      /\ items = BodyItems(c)
      /\ quote[q].total = TotalOf(lines)
      /\ \A p \in Products : InMoney(lines[p])
  <2>1. LoadedFrom(c, quote) /\ Faithful(sent[r]) /\ QuotesIn(quote)
    BY <1>1, QuotedIs
  <2>2. q # NoQuote
    BY DEF SellsQuote
  <2>3. QED
    BY <1>4, <2>1, <2>2 DEF LoadedFrom, Faithful, QuotesIn
<1>6. lines \in [Products -> CartLine] /\ c.lines \in [Products -> CartLine]
  BY <1>1, <1>3, <1>4 DEF ShapeInv, Cart
<1>a. AnyCart(c) /\ IsFiniteSet(Products)
  BY <1>3, ScreenFacts DEF AnyCart, Cart
<1> HIDE DEF c, items, q, lines
<1>7. ASSUME NEW p \in Products
      PROVE  /\ InMoney(c.lines[p])
             /\ Resolved(items)[p] = lines[p]
             /\ p \in InCart(c) /\ c.lines[p].price = price[p] => c.lines[p] = lines[p]
             /\ p \notin InCart(c) => c.lines[p] = lines[p]
  <2>1. lines[p] \in CartLine /\ c.lines[p] \in CartLine /\ InMoney(lines[p])
        /\ c.lines[p] \in AnyLine
    BY <1>5, <1>6, ScreenFacts
  <2>2. /\ c.lines[p].quantity = lines[p].quantity /\ c.lines[p].discount = lines[p].discount
        /\ lines[p].quantity = 0 <=> lines[p] = NoLine
    <3>1. CASE lines[p] = NoLine
      <4>1. c.lines[p] = NoLine /\ NoLine.quantity = 0
        BY <1>5, <3>1 DEF NoLine
      <4>2. QED
        BY <3>1, <4>1
    <3>2. CASE lines[p] # NoLine
      <4>1. lines[p].quantity \in 1 .. MaxQuantity
        BY <2>1, <3>2 DEF CartLine
      <4>2. c.lines[p] = [lines[p] EXCEPT !.price = c.lines[p].price]
        BY <1>5, <3>2
      <4>3. lines[p] \in AnyLine
        BY <2>1, ScreenFacts
      <4>4. QED
        BY <3>2, <4>1, <4>2, <4>3, ScreenFacts DEF AnyLine
    <3>3. QED
      BY <3>1, <3>2
  <2>3. p \in InCart(c) <=> lines[p].quantity # 0
    BY <2>1, <2>2 DEF InCart, AnyLine
  <2>4. lines[p].quantity # 0 => lines[p].price = price[p]
    BY <1>4, <2>3
  <2>5. InMoney(c.lines[p])
    <3>1. CASE p \in InCart(c)
      BY <1>4, <2>1, <2>2, <3>1 DEF InMoney
    <3>2. CASE p \notin InCart(c)
      <4>1. c.lines[p] = NoLine
        BY <1>5, <2>2, <2>3, <3>2
      <4>2. QED
        BY <4>1 DEF InMoney, NoLine, NoDiscount, Gross
    <3>3. QED
      BY <3>1, <3>2
  <2>6. items[p] = [quantity |-> lines[p].quantity, discount |-> lines[p].discount.value]
    BY <1>5, <1>a, <2>2, <2>5, SentExactly
  <2>7. Resolved(items)[p] = lines[p]
    BY <2>1, <2>2, <2>4, <2>6, ResolvedAgain
  <2>8. p \in InCart(c) /\ c.lines[p].price = price[p] => c.lines[p] = lines[p]
    <3> SUFFICES ASSUME p \in InCart(c), c.lines[p].price = price[p]
                 PROVE  c.lines[p] = lines[p]
      OBVIOUS
    <3>1. lines[p] # NoLine /\ lines[p].price = c.lines[p].price
      BY <2>2, <2>3, <2>4
    <3>2. lines[p] \in AnyLine
      BY <2>1, ScreenFacts
    <3>3. c.lines[p] = [lines[p] EXCEPT !.price = lines[p].price]
      BY <1>5, <3>1
    <3>4. QED
      BY <3>2, <3>3 DEF AnyLine
  <2>9. p \notin InCart(c) => c.lines[p] = lines[p]
    BY <1>5, <2>2, <2>3
  <2>10. QED
    BY <2>5, <2>7, <2>8, <2>9
<1>8. Resolved(items) = lines
  <2>1. Resolved(items) = [p \in Products |-> Resolved(items)[p]]
    BY DEF Resolved
  <2>2. QED
    BY <1>6, <1>7, <2>1
<1>9. order'[r].total = quote[q].total
  BY <1>2, <1>5, <1>8
<1>10. ASSUME Fresh(r)
       PROVE  ShownTotal(c) = order'[r].total
  <2>1. \A p \in Products : c.lines[p] = lines[p]
    BY <1>7, <1>10 DEF Fresh, c
  <2>2. c.lines = lines
    BY <1>6, <2>1
  <2>3. ShownTotal(c) = TotalOf(c.lines)
    BY <1>5, <1>6, <1>7, ShownExactly
  <2>4. QED
    BY <1>5, <1>9, <2>2, <2>3
<1>11. QED
  BY <1>9, <1>10 DEF c, q

\* A quote sold as it was loaded, at the prices it was made with, is sold for its
\* total, and the till shows that total (handleConvert, computeOrderItemsPayload,
\* attemptCreate of quotes and of orders).
THEOREM ScreenQuoteHonoured ==
  ScreenSpec => QuoteHonoured
<1>1. ScreenSpec => []ScreenInv
  BY ScreenInvariant
<1>2. ScreenInv /\ [ScreenNext]_screenVars =>
        [\A r \in Confirmations :
           stage[r] = "travelling" /\ stage'[r] = "stored" /\ SellsQuote(r) =>
             /\ order'[r].total = quote[sent[r].cart.from].total
             /\ Fresh(r) => ShownTotal(sent[r].cart) = order'[r].total]_screenVars
  BY QuoteSold
<1>3. QED
  BY <1>1, <1>2, PTL DEF ScreenSpec, QuoteHonoured

\* QuoteOfItsCart, of one step.
LEMMA QuoteConverted ==
  ASSUME ScreenInv, [ScreenNext]_screenVars, NEW q \in Quotes,
         quote[q].status # "CONVERTED", quote'[q].status = "CONVERTED"
  PROVE  \E r \in Confirmations :
           stage[r] = "travelling" /\ stage'[r] = "stored" /\ sent[r].cart.from = q
<1>1. /\ ShapeInv /\ quote \in [Quotes -> Quoted]
      /\ stage \in [Confirmations -> {"unsent", "travelling", "stored", "refused"}]
  BY DEF ScreenInv, ShapeInv, Quoted
<1>2. quote' # quote
  OBVIOUS
<1>3. ASSUME NEW r \in Confirmations, StoreOrder(r)
      PROVE  stage[r] = "travelling" /\ stage'[r] = "stored" /\ sent[r].cart.from = q
  <2>1. /\ stage[r] = "travelling" /\ stage' = [stage EXCEPT ![r] = "stored"]
        /\ sent[r].quote # NoQuote
        /\ quote' = [quote EXCEPT ![sent[r].quote].status = "CONVERTED"]
    BY <1>2, <1>3 DEF StoreOrder
  <2>2. stage'[r] = "stored"
    BY <1>1, <2>1
  <2>3. sent[r].quote = q
    BY <1>1, <2>1 DEF Quoted
  <2>4. sent[r].quote = sent[r].cart.from
    BY <2>1, QuotedIs DEF ScreenInv, Faithful, LoadedFrom
  <2>5. QED
    BY <2>1, <2>2, <2>3, <2>4
<1>4. ASSUME NEW s \in Quotes, CreateQuote(s) \/ CancelQuote(s)
      PROVE  FALSE
  <2>1. CASE CancelQuote(s)
    BY <1>1, <2>1 DEF CancelQuote, Quoted
  <2>2. CASE CreateQuote(s)
    <3> DEFINE lines == Resolved(BodyItems(cart))
               new == [status |-> "OPEN", lines |-> lines, total |-> TotalOf(lines)]
    <3>1. quote' = [quote EXCEPT ![s] = new] /\ new.status = "OPEN"
      BY <2>2 DEF CreateQuote
    <3> HIDE DEF new
    <3>2. quote'[q] = new \/ quote'[q] = quote[q]
      BY <1>1, <3>1
    <3>3. QED
      BY <3>1, <3>2
  <2>3. QED
    BY <1>4, <2>1, <2>2
<1>5. CASE Edits
  BY <1>2, <1>5 DEF Edits, EditCart
<1>6. CASE UNCHANGED screenVars
  BY <1>2, <1>6 DEF screenVars
<1>7. CASE \/ \E p \in Products : \E v \in PricesOf[p] : ChangePrice(p, v)
           \/ LoadCatalog \/ ClearCart \/ NewSale
           \/ \E s \in Quotes : Conversion(s)
  BY <1>2, <1>7 DEF ChangePrice, LoadCatalog, ClearCart, NewSale,
     Conversion, Convert
<1>8. CASE \/ OpenCheckout \/ CloseCheckout
           \/ \E cash, card \in Nat : EditPayment(cash, card)
           \/ \E s \in Confirmations : \/ Confirm(s) \/ RefuseOrder(s)
                                  \/ Answer(s) \/ LoseConnection(s)
  BY <1>2, <1>8 DEF OpenCheckout, CloseCheckout, EditPayment, Confirm,
     RefuseOrder, Answer, LoseConnection
<1>9. QED
  BY <1>1, <1>3, <1>4, <1>5, <1>6, <1>7, <1>8, TillCases

\* A sale converts the quote its cart was loaded from, and no other: clearing,
\* selling and loading leave no quote behind for the next cart (setQuoteId,
\* clearCart).
THEOREM ScreenQuoteOfItsCart ==
  ScreenSpec => QuoteOfItsCart
<1>1. ScreenSpec => []ScreenInv
  BY ScreenInvariant
<1>2. ScreenInv /\ [ScreenNext]_screenVars =>
        [\A q \in Quotes :
           quote[q].status # "CONVERTED" /\ quote'[q].status = "CONVERTED" =>
             \E r \in Confirmations :
               stage[r] = "travelling" /\ stage'[r] = "stored" /\ sent[r].cart.from = q]_screenVars
  BY QuoteConverted
<1>3. QED
  BY <1>1, <1>2, PTL DEF ScreenSpec, QuoteOfItsCart
=============================================================================
