-------------------------- MODULE CustomerAccount --------------------------
(***************************************************************************)
(* The current account of one customer: applyAccountMovement and the four  *)
(* kinds of transaction that call it. A sale charged to the account posts  *)
(* CHARGE, the cancellation of that sale CHARGE_REVERSAL, a collection     *)
(* PAYMENT and a manual correction ADJUSTMENT.                             *)
(*                                                                         *)
(* The transactions run at READ COMMITTED. The guarded UPDATE locks the    *)
(* Customer row until the transaction ends; order.update of a cancellation *)
(* locks the Order row. A read sees what is committed and locks nothing.   *)
(* What else a sale or a cancellation does is in the modules about stock   *)
(* and cash; here each is its account part and its order row.              *)
(***************************************************************************)
EXTENDS Integers, Sequences

CONSTANTS
  Ops,             \* the calls: each tries to post one movement
  Kind,            \* Kind[op]: the AccountMovementType it posts
  Amount,          \* Amount[op]: dto.amount, dto.delta or the account payment
  OrderOf,         \* OrderOf[op]: the order of a CHARGE or CHARGE_REVERSAL
  KeyOf,           \* KeyOf[op]: the idempotencyKey of a PAYMENT, or NoKey
  Orders,
  Keys,
  Limits,          \* the values creditLimit takes, besides NoLimit
  InitialBalance,
  NoOne, NoOrder, NoKey, NoLimit

Kinds == {"CHARGE", "CHARGE_REVERSAL", "PAYMENT", "ADJUSTMENT"}

ASSUME AccountAssumption ==
  /\ NoOne \notin Ops /\ NoOrder \notin Orders /\ NoKey \notin Keys
  /\ Limits \subseteq Int /\ NoLimit \notin Int
  /\ InitialBalance \in Int
  /\ Kind \in [Ops -> Kinds]
  /\ Amount \in [Ops -> Int]
  /\ OrderOf \in [Ops -> Orders \cup {NoOrder}]
  /\ KeyOf \in [Ops -> Keys \cup {NoKey}]
  /\ \A op \in Ops :
       /\ Kind[op] \in {"CHARGE", "CHARGE_REVERSAL"} <=> OrderOf[op] \in Orders
       /\ KeyOf[op] # NoKey => Kind[op] = "PAYMENT"
       /\ Kind[op] \in {"CHARGE", "PAYMENT"} => Amount[op] > 0
  \* A sale creates its own order.
  /\ \A a, b \in Ops :
       Kind[a] = "CHARGE" /\ Kind[b] = "CHARGE" /\ OrderOf[a] = OrderOf[b] => a = b

VARIABLES
  balance,      \* Customer.accountBalance, committed
  limit,        \* Customer.creditLimit
  ledger,       \* the committed CustomerAccountMovement rows, in commit order
  order,        \* order[o]: "none" until its sale commits, then its status
  pc,           \* pc[op]: where the call is
  holder,       \* who has locked the Customer row
  orderHolder,  \* orderHolder[o]: who has locked the Order row
  entry         \* entry[op]: the movement the open transaction is posting

vars == <<balance, limit, ledger, order, pc, holder, orderHolder, entry>>

-----------------------------------------------------------------------------
\* A charge raises the debt; a payment and a reversal lower it.
Movements ==
  {m \in [type : Kinds, amount : Int, after : Int,
          order : Orders \cup {NoOrder}, key : Keys \cup {NoKey}] :
     /\ m.type = "CHARGE" => m.amount > 0
     /\ m.type \in {"PAYMENT", "CHARGE_REVERSAL"} => m.amount < 0}

NoEntry == [type |-> "ADJUSTMENT", amount |-> 0, after |-> 0,
            order |-> NoOrder, key |-> NoKey]

Ended == {"posted", "replayed", "refused", "duplicate", "lost"}

TypeOK ==
  /\ balance \in Int
  /\ limit \in Limits \cup {NoLimit}
  /\ ledger \in Seq(Movements)
  /\ order \in [Orders -> {"none", "COMPLETED", "CANCELLED"}]
  /\ pc \in [Ops -> {"start", "ready", "applied", "inserted"} \cup Ended]
  /\ holder \in Ops \cup {NoOne}
  /\ orderHolder \in [Orders -> Ops \cup {NoOne}]
  /\ entry \in [Ops -> Movements]

Init ==
  /\ balance = InitialBalance
  /\ limit \in Limits \cup {NoLimit}
  /\ ledger = <<>>
  /\ order = [o \in Orders |-> "none"]
  /\ pc = [op \in Ops |-> "start"]
  /\ holder = NoOne
  /\ orderHolder = [o \in Orders |-> NoOne]
  /\ entry = [op \in Ops |-> NoEntry]

-----------------------------------------------------------------------------
(* The unique indexes of CustomerAccountMovement, NULLs being distinct.    *)

SameOrderAndType(m, n) ==
  m.order # NoOrder /\ m.order = n.order /\ m.type = n.type

SameKey(m, n) == m.key # NoKey /\ m.key = n.key

Posted == {ledger[k] : k \in 1 .. Len(ledger)}

\* Mutant of Conflicts: there is no unique index on the key.
SameOrderOnly(m) == \E n \in Posted : SameOrderAndType(m, n)

Conflicts(m) == \E n \in Posted : SameOrderAndType(m, n) \/ SameKey(m, n)

\* Mutant of WithinLimit: tests the debt before the movement.
DebtWithinLimit(delta) == delta > 0 /\ limit # NoLimit => balance <= limit

\* The condition of the guarded UPDATE on the committed row.
WithinLimit(delta) == delta > 0 /\ limit # NoLimit => balance + delta <= limit

ChargesOf(o) == {m \in Posted : m.order = o /\ m.type = "CHARGE"}

\* Mutant of Delta: a reversal of something else than the charge.
PartialReversal(op) ==
  CASE Kind[op] = "PAYMENT" -> -Amount[op]
    [] Kind[op] = "CHARGE_REVERSAL" -> -1
    [] OTHER -> Amount[op]

\* The signed amount: a payment is -Math.abs(dto.amount), a reversal takes back
\* the charge that cancel has just read.
Delta(op) ==
  CASE Kind[op] = "PAYMENT" -> -Amount[op]
    [] Kind[op] = "CHARGE_REVERSAL" ->
         -(CHOOSE m \in ChargesOf(OrderOf[op]) : TRUE).amount
    [] OTHER -> Amount[op]

\* Mutant of CustomerFree: the UPDATE does not lock the row.
Unlocked == TRUE

\* The Customer row can be locked.
CustomerFree == holder = NoOne

\* Mutant of Release: the Order row stays locked.
ReleaseCustomer(op) ==
  /\ holder' = IF holder = op THEN NoOne ELSE holder
  /\ entry' = [entry EXCEPT ![op] = NoEntry]
  /\ UNCHANGED orderHolder

\* End of the transaction of op: its row locks are released.
Release(op) ==
  /\ holder' = IF holder = op THEN NoOne ELSE holder
  /\ orderHolder' = [o \in Orders |->
                       IF orderHolder[o] = op THEN NoOne ELSE orderHolder[o]]
  /\ entry' = [entry EXCEPT ![op] = NoEntry]

Abort(op, how) ==
  /\ pc' = [pc EXCEPT ![op] = how]
  /\ Release(op)
  /\ UNCHANGED <<balance, limit, ledger, order>>

-----------------------------------------------------------------------------
(* The first reads of each kind of call.                                   *)

\* attemptCreate and registerAdjustment read nothing of the account first.
BeginDirect(op) ==
  /\ pc[op] = "start"
  /\ Kind[op] \in {"CHARGE", "ADJUSTMENT"}
  /\ pc' = [pc EXCEPT ![op] = "ready"]
  /\ UNCHANGED <<balance, limit, ledger, order, holder, orderHolder, entry>>

\* registerPayment looks the key up before anything else.
BeginPayment(op) ==
  /\ pc[op] = "start"
  /\ Kind[op] = "PAYMENT"
  /\ pc' = [pc EXCEPT ![op] =
              IF KeyOf[op] # NoKey /\ \E m \in Posted : m.key = KeyOf[op]
              THEN "replayed" ELSE "ready"]
  /\ UNCHANGED <<balance, limit, ledger, order, holder, orderHolder, entry>>

\* The third phase of cancel reads the order again.
BeginReversal(op) ==
  /\ pc[op] = "start"
  /\ Kind[op] = "CHARGE_REVERSAL"
  /\ pc' = [pc EXCEPT ![op] =
              IF order[OrderOf[op]] = "COMPLETED" THEN "ready" ELSE "refused"]
  /\ UNCHANGED <<balance, limit, ledger, order, holder, orderHolder, entry>>

-----------------------------------------------------------------------------
(* Posting.                                                                *)

\* order.update of cancel, by id: it waits for the row and then overwrites the
\* status whatever it has become.
LockOrder(op) ==
  /\ pc[op] = "ready"
  /\ Kind[op] = "CHARGE_REVERSAL"
  /\ orderHolder[OrderOf[op]] = NoOne
  /\ orderHolder' = [orderHolder EXCEPT ![OrderOf[op]] = op]
  /\ UNCHANGED <<balance, limit, ledger, order, pc, holder, entry>>

Prepared(op) ==
  /\ pc[op] = "ready"
  /\ Kind[op] = "CHARGE_REVERSAL" => /\ orderHolder[OrderOf[op]] = op
                                     /\ ChargesOf(OrderOf[op]) # {}

\* The guarded UPDATE, and the balance read back from the locked row.
Apply(op) ==
  /\ Prepared(op)
  /\ CustomerFree
  /\ WithinLimit(Delta(op))
  /\ holder' = op
  /\ entry' = [entry EXCEPT ![op] =
                 [type |-> Kind[op], amount |-> Delta(op),
                  after |-> balance + Delta(op),
                  order |-> OrderOf[op], key |-> KeyOf[op]]]
  /\ pc' = [pc EXCEPT ![op] = "applied"]
  /\ UNCHANGED <<balance, limit, ledger, order, orderHolder>>

\* No row affected: Postgres tests the committed row before waiting for it.
OverLimit(op) ==
  /\ Prepared(op)
  /\ ~WithinLimit(Delta(op))
  /\ Abort(op, "refused")

\* customerAccountMovement.create.
Insert(op) ==
  /\ pc[op] = "applied"
  /\ ~Conflicts(entry[op])
  /\ pc' = [pc EXCEPT ![op] = "inserted"]
  /\ UNCHANGED <<balance, limit, ledger, order, holder, orderHolder, entry>>

\* ... or P2002, which fails the call and undoes the UPDATE.
Duplicate(op) ==
  /\ pc[op] = "applied"
  /\ Conflicts(entry[op])
  /\ Abort(op, "duplicate")

\* COMMIT of the sale, the cancellation, the collection or the correction.
Commit(op) ==
  /\ pc[op] = "inserted"
  /\ pc' = [pc EXCEPT ![op] = "posted"]
  /\ balance' = entry[op].after
  /\ ledger' = Append(ledger, entry[op])
  /\ order' = [o \in Orders |->
                 IF OrderOf[op] # o THEN order[o]
                 ELSE IF Kind[op] = "CHARGE" THEN "COMPLETED" ELSE "CANCELLED"]
  /\ Release(op)
  /\ UNCHANGED limit

\* A time out, a crash, or another check of the same transaction failing.
Lose(op) ==
  /\ pc[op] \in {"start", "ready", "applied", "inserted"}
  /\ Abort(op, "lost")

\* CustomersService.update with a new creditLimit: waits for the row.
SetLimit(l) ==
  /\ CustomerFree
  /\ limit' = l
  /\ UNCHANGED <<balance, ledger, order, pc, holder, orderHolder, entry>>

Work(op) ==
  \/ BeginDirect(op) \/ BeginPayment(op) \/ BeginReversal(op)
  \/ LockOrder(op) \/ Apply(op) \/ OverLimit(op)
  \/ Insert(op) \/ Duplicate(op) \/ Commit(op)

Next ==
  \/ \E op \in Ops : Work(op) \/ Lose(op)
  \/ \E l \in Limits \cup {NoLimit} : SetLimit(l)

Spec == Init /\ [][Next]_vars

\* Calls go on when they can; nothing forces them to be lost.
FairSpec == Spec /\ \A op \in Ops : WF_vars(Work(op))

-----------------------------------------------------------------------------
(* Properties.                                                             *)

\* The balance the movement before number k left behind.
BalanceBefore(k) == IF k = 1 THEN InitialBalance ELSE ledger[k - 1].after

\* applyAccountMovement reads the balance back after its UPDATE: in commit
\* order every balanceAfter is the one before plus the amount, and the last is
\* the balance of the customer. Concurrent movements never lose one.
LedgerChained ==
  /\ \A k \in 1 .. Len(ledger) :
       ledger[k].after = BalanceBefore(k) + ledger[k].amount
  /\ balance = BalanceBefore(Len(ledger) + 1)

\* registerPayment and cancel: whatever is repeated or runs at once, a key
\* collects once and an order is charged once and reversed once.
PostedOnce ==
  \A j, k \in 1 .. Len(ledger) :
    SameOrderAndType(ledger[j], ledger[k]) \/ SameKey(ledger[j], ledger[k])
      => j = k

ReversalsOf(o) == {m \in Posted : m.order = o /\ m.type = "CHARGE_REVERSAL"}

\* An order that exists has been charged, and it is cancelled exactly when the
\* same amount has been given back.
CancelledOrdersOweNothing ==
  \A o \in Orders :
    /\ order[o] # "none" <=> ChargesOf(o) # {}
    /\ order[o] = "CANCELLED" <=> ReversalsOf(o) # {}
    /\ \A m \in ReversalsOf(o) : \E c \in ChargesOf(o) : m.amount = -c.amount

\* "sin necesidad de un lock pesimista": no commit raises the debt above the
\* limit in force at that moment, though the limit was tested at the UPDATE.
LimitRespected ==
  [][balance' > balance /\ limit # NoLimit => balance' <= limit]_vars

\* Every call is answered: nobody waits for ever for the customer or the order.
EveryOpEnds == \A op \in Ops : <>(pc[op] \in Ended)

-----------------------------------------------------------------------------
(* The inductive invariant behind them.                                    *)

\* The Customer row is locked by the one transaction that has updated it.
HolderInv ==
  \A op \in Ops : holder = op <=> pc[op] \in {"applied", "inserted"}

\* What a transaction that holds the row is about to post fits the committed
\* rows, and will until it commits.
Fits(op) ==
  /\ entry[op].type = Kind[op]
  /\ entry[op].order = OrderOf[op]
  /\ entry[op].key = KeyOf[op]
  /\ entry[op].after = balance + entry[op].amount
  /\ entry[op].amount > 0 /\ limit # NoLimit => entry[op].after <= limit
  /\ Kind[op] = "CHARGE_REVERSAL" =>
       \E c \in ChargesOf(OrderOf[op]) : entry[op].amount = -c.amount
  /\ pc[op] = "inserted" => ~Conflicts(entry[op])

EntryInv ==
  \A op \in Ops : pc[op] \in {"applied", "inserted"} => Fits(op)

AccountInv ==
  /\ TypeOK
  /\ HolderInv
  /\ EntryInv
  /\ LedgerChained
  /\ PostedOnce
  /\ CancelledOrdersOweNothing
=============================================================================
