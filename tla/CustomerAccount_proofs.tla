---------------------- MODULE CustomerAccount_proofs ----------------------
(***************************************************************************)
(* Proofs about CustomerAccount, for any set of calls, amounts and limits. *)
(***************************************************************************)
EXTENDS CustomerAccount, SequenceTheorems, TLAPS

\* A movement of the ledger is a movement.
LEMMA PostedTyped ==
  ASSUME TypeOK
  PROVE  /\ Len(ledger) \in Nat
         /\ \A k \in 1 .. Len(ledger) : ledger[k] \in Movements
         /\ Posted \subseteq Movements
<1>1. Len(ledger) \in Nat
  BY DEF TypeOK
<1>2. \A k \in 1 .. Len(ledger) : ledger[k] \in Movements
  BY ElementOfSeq DEF TypeOK
<1>3. QED
  BY <1>1, <1>2 DEF Posted

\* The amount a prepared call is about to post.
LEMMA DeltaTyped ==
  ASSUME TypeOK, NEW op \in Ops, Prepared(op)
  PROVE  /\ Delta(op) \in Int
         /\ Kind[op] = "CHARGE" => Delta(op) > 0
         /\ Kind[op] \in {"PAYMENT", "CHARGE_REVERSAL"} => Delta(op) < 0
         /\ Kind[op] = "CHARGE_REVERSAL" =>
              \E c \in ChargesOf(OrderOf[op]) : Delta(op) = -c.amount
<1>1. CASE Kind[op] = "CHARGE_REVERSAL"
  <2>1. PICK c \in ChargesOf(OrderOf[op]) : Delta(op) = -c.amount
    BY <1>1 DEF Prepared, Delta
  <2>2. c.amount \in Int /\ c.amount > 0
    BY PostedTyped DEF ChargesOf, Movements
  <2>3. QED
    BY <1>1, <2>1, <2>2
<1>2. CASE Kind[op] = "PAYMENT"
  BY <1>2, AccountAssumption DEF Delta
<1>3. CASE Kind[op] \notin {"CHARGE_REVERSAL", "PAYMENT"}
  BY <1>3, AccountAssumption DEF Delta
<1>4. QED
  BY <1>1, <1>2, <1>3

\* The invariant holds of an account without movements.
LEMMA InitInv == Init => AccountInv
<1> SUFFICES ASSUME Init PROVE AccountInv
  OBVIOUS
<1>1. NoEntry \in Movements
  BY DEF NoEntry, Movements, Kinds
<1>2. TypeOK
  BY <1>1, AccountAssumption DEF Init, TypeOK
<1>3. HolderInv /\ EntryInv
  BY AccountAssumption DEF Init, HolderInv, EntryInv
<1>4. LedgerChained
  BY DEF Init, LedgerChained, BalanceBefore
<1>5. PostedOnce /\ CancelledOrdersOweNothing
  BY DEF Init, PostedOnce, CancelledOrdersOweNothing, ChargesOf, ReversalsOf, Posted
<1>6. QED
  BY <1>2, <1>3, <1>4, <1>5 DEF AccountInv

\* A step that leaves the ledger and the orders as they are leaves what is
\* said about them.
LEMMA SameLedger ==
  ASSUME LedgerChained, PostedOnce, CancelledOrdersOweNothing,
         UNCHANGED <<balance, ledger, order>>
  PROVE  /\ LedgerChained' /\ PostedOnce' /\ CancelledOrdersOweNothing'
         /\ Posted' = Posted
         /\ \A o \in Orders : ChargesOf(o)' = ChargesOf(o)
<1>1. Posted' = Posted
  BY DEF Posted
<1>2. \A o \in Orders : ChargesOf(o)' = ChargesOf(o)
  BY <1>1 DEF ChargesOf
<1>3. LedgerChained'
  BY DEF LedgerChained, BalanceBefore
<1>4. PostedOnce'
  BY DEF PostedOnce
<1>5. CancelledOrdersOweNothing'
  BY <1>1, <1>2 DEF CancelledOrdersOweNothing, ReversalsOf
<1>6. QED
  BY <1>1, <1>2, <1>3, <1>4, <1>5

\* A step that also leaves the limit and the entry of op leaves what it fits.
LEMMA SameFits ==
  ASSUME NEW op \in Ops, Fits(op), AccountInv,
         UNCHANGED <<balance, limit, ledger, order>>,
         UNCHANGED <<entry[op], pc[op]>>
  PROVE  Fits(op)'
<1>1. /\ Posted' = Posted
      /\ \A o \in Orders : ChargesOf(o)' = ChargesOf(o)
  BY SameLedger DEF AccountInv
<1>2. Conflicts(entry[op])' <=> Conflicts(entry[op])
  BY <1>1 DEF Conflicts
<1>3. Kind[op] = "CHARGE_REVERSAL" => OrderOf[op] \in Orders
  BY AccountAssumption
<1>4. QED
  BY <1>1, <1>2, <1>3 DEF Fits

\* The calls that only read before they post.
LEMMA BeginInv ==
  ASSUME AccountInv, NEW op \in Ops,
         BeginDirect(op) \/ BeginPayment(op) \/ BeginReversal(op)
  PROVE  AccountInv'
<1>1. /\ UNCHANGED <<balance, limit, ledger, order, holder, orderHolder, entry>>
      /\ pc[op] = "start"
      /\ \E s \in {"ready", "replayed", "refused"} : pc' = [pc EXCEPT ![op] = s]
  BY DEF BeginDirect, BeginPayment, BeginReversal
<1>2. TypeOK'
  BY <1>1 DEF AccountInv, TypeOK, Ended
<1>3. HolderInv'
  BY <1>1 DEF AccountInv, TypeOK, HolderInv
<1>4. EntryInv'
  BY <1>1, SameFits DEF AccountInv, TypeOK, EntryInv
<1>5. QED
  BY <1>1, <1>2, <1>3, <1>4, SameLedger DEF AccountInv

\* Locking the Order row of a cancellation changes nothing committed.
LEMMA LockOrderInv ==
  ASSUME AccountInv, NEW op \in Ops, LockOrder(op)
  PROVE  AccountInv'
<1>1. TypeOK'
  BY DEF AccountInv, TypeOK, LockOrder
<1>2. HolderInv'
  BY DEF AccountInv, HolderInv, LockOrder
<1>3. EntryInv'
  BY SameFits DEF AccountInv, EntryInv, LockOrder
<1>4. QED
  BY <1>1, <1>2, <1>3, SameLedger DEF AccountInv, LockOrder

\* CustomersService.update cannot change the limit under a posting in course.
LEMMA SetLimitInv ==
  ASSUME AccountInv, NEW l \in Limits \cup {NoLimit}, SetLimit(l)
  PROVE  AccountInv'
<1>1. TypeOK'
  BY DEF AccountInv, TypeOK, SetLimit, CustomerFree
<1>2. HolderInv'
  BY DEF AccountInv, HolderInv, SetLimit, CustomerFree
\* Nobody has the row, so nobody has tested the old limit.
<1>3. EntryInv'
  BY <1>2, AccountAssumption DEF EntryInv, HolderInv, SetLimit, CustomerFree
<1>4. QED
  BY <1>1, <1>2, <1>3, SameLedger DEF AccountInv, SetLimit, CustomerFree

\* The guarded UPDATE prepares an entry that fits the committed rows.
LEMMA ApplyInv ==
  ASSUME AccountInv, NEW op \in Ops, Apply(op)
  PROVE  AccountInv'
<1> DEFINE m == [type |-> Kind[op], amount |-> Delta(op),
                 after |-> balance + Delta(op),
                 order |-> OrderOf[op], key |-> KeyOf[op]]
<1>1. /\ Delta(op) \in Int /\ balance \in Int
      /\ Kind[op] = "CHARGE" => Delta(op) > 0
      /\ Kind[op] \in {"PAYMENT", "CHARGE_REVERSAL"} => Delta(op) < 0
  BY DeltaTyped DEF AccountInv, TypeOK, Apply
<1>2. m \in Movements
  BY <1>1, AccountAssumption DEF Movements
<1>3. entry' = [entry EXCEPT ![op] = m]
  BY DEF Apply, CustomerFree
<1>4. TypeOK'
  BY <1>2, <1>3 DEF AccountInv, TypeOK, Apply, CustomerFree
<1>5. HolderInv'
  BY AccountAssumption DEF AccountInv, TypeOK, HolderInv, Apply, CustomerFree
<1>6. EntryInv'
  <2> SUFFICES ASSUME NEW q \in Ops, pc'[q] \in {"applied", "inserted"}
               PROVE  Fits(q)'
    BY DEF EntryInv
  <2>1. q = op
    BY <1>5, AccountAssumption DEF HolderInv, Apply, CustomerFree
  <2>2. entry'[op] = m /\ pc'[op] = "applied"
    BY <1>3 DEF AccountInv, TypeOK, Apply, CustomerFree
  <2>3. UNCHANGED <<balance, limit, ledger, order>> /\ WithinLimit(Delta(op))
    BY DEF Apply, CustomerFree
  <2>4. m.amount > 0 /\ limit # NoLimit => m.after <= limit
    BY <2>3 DEF WithinLimit
  <2>5. Kind[op] = "CHARGE_REVERSAL" =>
          \E c \in ChargesOf(OrderOf[op])' : Delta(op) = -c.amount
    BY <2>3, DeltaTyped, SameLedger, AccountAssumption DEF AccountInv, Apply, CustomerFree
  <2>6. QED
    BY <2>1, <2>2, <2>3, <2>4, <2>5 DEF Fits
<1>7. QED
  BY <1>4, <1>5, <1>6, SameLedger DEF AccountInv, Apply, CustomerFree

\* customerAccountMovement.create succeeds only when no index objects.
LEMMA InsertInv ==
  ASSUME AccountInv, NEW op \in Ops, Insert(op)
  PROVE  AccountInv'
<1>1. TypeOK'
  BY DEF AccountInv, TypeOK, Insert
<1>2. HolderInv'
  BY DEF AccountInv, TypeOK, HolderInv, Insert
<1>3. EntryInv'
  <2> SUFFICES ASSUME NEW q \in Ops, pc'[q] \in {"applied", "inserted"}
               PROVE  Fits(q)'
    BY DEF EntryInv
  <2>1. q = op /\ Fits(op)
    BY <1>2 DEF AccountInv, HolderInv, EntryInv, Insert
  <2>2. /\ Posted' = Posted
        /\ \A o \in Orders : ChargesOf(o)' = ChargesOf(o)
    BY SameLedger DEF AccountInv, Insert
  <2>3. ~Conflicts(entry[op])'
    BY <2>2 DEF Conflicts, Insert
  <2>4. QED
    BY <2>1, <2>2, <2>3, AccountAssumption DEF Fits, Insert
<1>4. QED
  BY <1>1, <1>2, <1>3, SameLedger DEF AccountInv, Insert

\* Every way a call ends without posting.
LEMMA AbortInv ==
  ASSUME AccountInv, NEW op \in Ops, NEW how \in Ended, Abort(op, how)
  PROVE  AccountInv'
<1> USE DEF Abort, Release
<1>1. NoEntry \in Movements
  BY DEF NoEntry, Movements, Kinds
<1>2. TypeOK'
  BY <1>1 DEF AccountInv, TypeOK
<1>3. HolderInv'
  BY AccountAssumption DEF AccountInv, TypeOK, HolderInv, Ended
<1>4. EntryInv'
  BY SameFits DEF AccountInv, TypeOK, EntryInv, Ended
<1>5. QED
  BY <1>2, <1>3, <1>4, SameLedger DEF AccountInv

\* COMMIT appends to the ledger the entry that fits it.
LEMMA CommitInv ==
  ASSUME AccountInv, NEW op \in Ops, Commit(op)
  PROVE  AccountInv'
<1> USE DEF Commit, Release
<1> DEFINE e == entry[op]
<1>n. PICK n \in Nat : n = Len(ledger)
  BY PostedTyped DEF AccountInv
<1>1. /\ e \in Movements
      /\ Fits(op) /\ ~Conflicts(e) /\ holder = op
      /\ ledger \in Seq(Movements)
  BY PostedTyped DEF AccountInv, TypeOK, EntryInv, HolderInv, Fits
<1>2. /\ Len(ledger') = n + 1
      /\ ledger'[n + 1] = e
      /\ \A k \in 1 .. n : ledger'[k] = ledger[k]
  BY <1>n, <1>1
<1>3. Posted' = Posted \cup {e}
  <2>1. 1 .. n + 1 = 1 .. n \cup {n + 1}
    OBVIOUS
  <2>2. QED
    BY <1>n, <1>2, <2>1 DEF Posted
<1>4. TypeOK'
  <2>1. ledger' \in Seq(Movements)
    BY <1>1
  <2>2. NoEntry \in Movements
    BY DEF NoEntry, Movements, Kinds
  <2>3. e.after \in Int
    BY <1>1 DEF Movements
  <2>4. order' \in [Orders -> {"none", "COMPLETED", "CANCELLED"}]
    BY DEF AccountInv, TypeOK
  <2>5. QED
    BY <2>1, <2>2, <2>3, <2>4 DEF AccountInv, TypeOK, Ended
<1>5. HolderInv'
  BY <1>1, AccountAssumption DEF AccountInv, TypeOK, HolderInv
<1>6. EntryInv'
  BY <1>1, <1>5, AccountAssumption DEF EntryInv, HolderInv
<1>7. LedgerChained'
  <2>1. e.after = BalanceBefore(n + 1) + e.amount
    BY <1>n, <1>1 DEF Fits, AccountInv, LedgerChained
  <2>2. BalanceBefore(n + 2)' = e.after
    BY <1>1, <1>2 DEF BalanceBefore
  <2>3. \A k \in 1 .. n + 1 : BalanceBefore(k)' = BalanceBefore(k)
    BY <1>1, <1>2 DEF BalanceBefore
  <2>4. ASSUME NEW k \in 1 .. n + 1
        PROVE  ledger'[k].after = BalanceBefore(k)' + ledger'[k].amount
    <3>1. CASE k = n + 1
      BY <1>2, <2>1, <2>3, <3>1
    <3>2. CASE k \in 1 .. n
      <4>1. ledger[k].after = BalanceBefore(k) + ledger[k].amount
        BY <1>n, <3>2 DEF AccountInv, LedgerChained
      <4>2. ledger'[k] = ledger[k]
        BY <1>2, <3>2
      <4>3. BalanceBefore(k)' = BalanceBefore(k)
        BY <2>3
      <4>4. QED
        BY <4>1, <4>2, <4>3
    <3>3. k = n + 1 \/ k \in 1 .. n
      OBVIOUS
    <3>4. QED
      BY <3>1, <3>2, <3>3
  <2>5. QED
    BY <1>2, <2>2, <2>4 DEF LedgerChained
<1>8. PostedOnce'
  <2>1. \A k \in 1 .. n : /\ ~SameOrderAndType(e, ledger[k]) /\ ~SameKey(e, ledger[k])
                         /\ ~SameOrderAndType(ledger[k], e) /\ ~SameKey(ledger[k], e)
    BY <1>n, <1>1 DEF Conflicts, Posted, SameOrderAndType, SameKey
  <2>2. QED
    BY <1>n, <1>2, <2>1 DEF AccountInv, PostedOnce
<1>9. CancelledOrdersOweNothing'
  <2> SUFFICES ASSUME NEW o \in Orders
               PROVE  /\ order'[o] # "none" <=> ChargesOf(o)' # {}
                      /\ order'[o] = "CANCELLED" <=> ReversalsOf(o)' # {}
                      /\ \A m \in ReversalsOf(o)' :
                           \E c \in ChargesOf(o)' : m.amount = -c.amount
    BY DEF CancelledOrdersOweNothing
  <2>1. /\ order[o] # "none" <=> ChargesOf(o) # {}
        /\ order[o] = "CANCELLED" <=> ReversalsOf(o) # {}
        /\ \A m \in ReversalsOf(o) : \E c \in ChargesOf(o) : m.amount = -c.amount
    BY DEF AccountInv, CancelledOrdersOweNothing
  <2>2. e.order = OrderOf[op] /\ e.type = Kind[op]
    BY <1>1 DEF Fits
  <2>3. CASE e.order # o
    <3>1. /\ order'[o] = order[o]
          /\ ChargesOf(o)' = ChargesOf(o) /\ ReversalsOf(o)' = ReversalsOf(o)
      BY <1>3, <2>2, <2>3 DEF ChargesOf, ReversalsOf, AccountInv, TypeOK
    <3>2. QED
      BY <2>1, <3>1
  <2>4. CASE e.order = o /\ Kind[op] = "CHARGE"
    <3>1. ChargesOf(o) = {}
      BY <1>1, <2>2, <2>4, AccountAssumption
         DEF Conflicts, SameOrderAndType, ChargesOf
    <3>2. ReversalsOf(o)' = {} /\ ChargesOf(o)' = {e}
      BY <1>3, <2>1, <2>2, <2>4, <3>1 DEF ChargesOf, ReversalsOf
    <3>3. order'[o] = "COMPLETED"
      BY <2>2, <2>4 DEF AccountInv, TypeOK
    <3>4. QED
      BY <3>2, <3>3
  <2>5. CASE e.order = o /\ Kind[op] = "CHARGE_REVERSAL"
    <3>1. PICK c \in ChargesOf(o) : e.amount = -c.amount
      BY <1>1, <2>2, <2>5 DEF Fits
    <3>2. ReversalsOf(o)' = ReversalsOf(o) \cup {e} /\ ChargesOf(o)' = ChargesOf(o)
      BY <1>3, <2>2, <2>5 DEF ChargesOf, ReversalsOf
    <3>3. order'[o] = "CANCELLED"
      BY <2>2, <2>5 DEF AccountInv, TypeOK
    <3>4. QED
      BY <2>1, <3>1, <3>2, <3>3
  <2>6. QED
    BY <2>2, <2>3, <2>4, <2>5, AccountAssumption DEF Kinds
<1>10. QED
  BY <1>4, <1>5, <1>6, <1>7, <1>8, <1>9 DEF AccountInv

\* Every step of the account keeps the invariant.
LEMMA StepInv == AccountInv /\ [Next]_vars => AccountInv'
<1> SUFFICES ASSUME AccountInv, [Next]_vars PROVE AccountInv'
  OBVIOUS
<1>1. ASSUME NEW op \in Ops, Work(op) PROVE AccountInv'
  <2>1. CASE OverLimit(op)
    BY <2>1, AbortInv DEF OverLimit, Ended
  <2>2. CASE Duplicate(op)
    BY <2>2, AbortInv DEF Duplicate, Ended
  <2>3. QED
    BY <1>1, <2>1, <2>2, BeginInv, LockOrderInv, ApplyInv, InsertInv, CommitInv
       DEF Work
<1>2. ASSUME NEW op \in Ops, Lose(op) PROVE AccountInv'
  BY <1>2, AbortInv DEF Lose, Ended
<1>3. CASE UNCHANGED vars
  <2>1. TypeOK' /\ HolderInv'
    BY <1>3 DEF vars, AccountInv, TypeOK, HolderInv
  <2>2. EntryInv'
    BY <1>3, SameFits DEF vars, AccountInv, EntryInv
  <2>3. QED
    BY <1>3, <2>1, <2>2, SameLedger DEF vars, AccountInv
<1>4. QED
  BY <1>1, <1>2, <1>3, SetLimitInv DEF Next

\* applyAccountMovement and its callers: AccountInv holds in every reachable
\* state, for any calls, amounts and limits.
THEOREM AccountInvariant == Spec => []AccountInv
  BY InitInv, StepInv, PTL DEF Spec

-----------------------------------------------------------------------------
(* What follows from it.                                                   *)

\* The variables keep their types.
THEOREM AccountTypeOK == Spec => []TypeOK
  BY AccountInvariant, PTL DEF AccountInv

\* applyAccountMovement: each balanceAfter is the one before plus the amount,
\* and the customer's balance is the last one.
THEOREM AccountLedgerChained == Spec => []LedgerChained
  BY AccountInvariant, PTL DEF AccountInv

\* A key collects once; an order is charged once and reversed once.
THEOREM AccountPostedOnce == Spec => []PostedOnce
  BY AccountInvariant, PTL DEF AccountInv

\* Cancelling an order gives back exactly what it charged.
THEOREM AccountCancelledOrders == Spec => []CancelledOrdersOweNothing
  BY AccountInvariant, PTL DEF AccountInv

\* No commit takes the debt above the credit limit in force.
THEOREM AccountLimitRespected == Spec => LimitRespected
<1>1. AccountInv /\ [Next]_vars
        => [balance' > balance /\ limit # NoLimit => balance' <= limit]_vars
  <2> SUFFICES ASSUME AccountInv, Next,
                      balance' > balance, limit # NoLimit
               PROVE  balance' <= limit
    BY DEF vars
  <2>1. balance \in Int
    BY DEF AccountInv, TypeOK
  <2>2. PICK op \in Ops : Commit(op)
    BY <2>1 DEF Next, Work, BeginDirect, BeginPayment, BeginReversal, LockOrder,
                Apply, OverLimit, Insert, Duplicate, Lose, Abort, SetLimit
  <2>3. Fits(op) /\ entry[op].amount \in Int
    BY <2>2 DEF Commit, AccountInv, EntryInv, TypeOK, Movements
  <2>4. balance' = balance + entry[op].amount /\ balance' = entry[op].after
    BY <2>2, <2>3 DEF Commit, Fits
  <2>5. entry[op].amount > 0
    BY <2>1, <2>3, <2>4
  <2>6. QED
    BY <2>3, <2>4, <2>5 DEF Fits
<1>2. QED
  BY <1>1, AccountInvariant, PTL DEF Spec, LimitRespected
=============================================================================
