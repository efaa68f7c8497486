--------------------------- MODULE TenantBilling ---------------------------
(***************************************************************************)
(* One tenant's subscription: the notices of Mercado Pago, which           *)
(* MpWebhookController.dispatch fetches and SubscriptionService applies,   *)
(* the changes of the platform's staff, what                               *)
(* SubscriptionEnforcementInterceptor lets the tenant do, and the daily    *)
(* purge of expired demos (DemoPurgeService), which races all of them.     *)
(*                                                                         *)
(* Dates are days. A notice carries only the id of a payment or of the     *)
(* subscription: the handler asks Mercado Pago for its state and applies   *)
(* it in a transaction. Handlers run at once and answer 200 whatever       *)
(* happens, so a failed one is not delivered again.                        *)
(*                                                                         *)
(* SubscriptionEvent references Tenant without a cascade: an insert share- *)
(* locks the tenant's row, and the row can only be deleted when no event   *)
(* is left.                                                                *)
(***************************************************************************)
EXTENDS Integers

CONSTANTS
  Payments,     \* the monthly payments of the subscription
  PayNotices,   \* notices of subscription_authorized_payment
  SubNotices,   \* notices of subscription_preapproval
  PaymentOf,    \* the payment each payment notice is about
  Patches,      \* calls of PATCH /platform/tenants/:id
  PatchEnds,      \* the currentPeriodEnd a patch may set
  PatchStatuses,  \* the subscriptionStatus it may set
  PatchPolicies,  \* the enforcementPolicy it may set
  FirstTier,    \* planTier at the start: "demo" or "standard"
  FirstEnd,     \* trialEndsAt, and demoExpiresAt of a demo
  Month,        \* the length of a month
  GraceDays,    \* BILLING_GRACE_DAYS
  PurgeGrace,   \* DEMO_PURGE_GRACE_DAYS
  LastDay       \* bound: the days that go by

Notices == PayNotices \cup SubNotices
Calls == Notices \cup Patches

Statuses == {"TRIAL", "ACTIVE", "PAST_DUE", "CANCELLED"}
Policies == {"WARN_ONLY", "READ_ONLY", "BLOCK"}

ASSUME CallsAssumption ==
  /\ PayNotices \cap SubNotices = {}
  /\ Notices \cap Patches = {}
  /\ PaymentOf \in [PayNotices -> Payments]
  /\ PatchEnds \subseteq Nat \ {0}
  /\ PatchStatuses \subseteq Statuses /\ PatchPolicies \subseteq Policies
  /\ FirstTier \in {"demo", "standard"}
  /\ FirstEnd \in Nat \ {0} /\ Month \in Nat \ {0}
  /\ GraceDays \in Nat /\ PurgeGrace \in Nat /\ LastDay \in Nat

VARIABLES
  exists,     \* the tenant's row is there
  tier,       \* planTier
  status,     \* subscriptionStatus
  periodEnd,  \* currentPeriodEnd, 0 for NULL
  policy,     \* enforcementPolicy
  events,     \* the mpPaymentIds of the committed SubscriptionEvents
  today,      \* the date
  pc,         \* pc[c]: where the call is
  got,        \* got[n]: the state Mercado Pago answered
  readEnd,    \* readEnd[n]: the currentPeriodEnd that applyPayment read
  readTier,   \* readTier[n]: the planTier that applyPayment read
  due,        \* due[n]: the period end it computed; in the end, its event's
  purge,      \* where the purge of this tenant is
  fresh,      \* an event was committed since the purge deleted them
  disturbed,  \* history: a credit used an outdated readEnd, or a patch set it
  settled     \* history: the notices that made it a paying tenant, and not
              \* between the purge's check and its delete of the events

row == <<exists, tier, status, periodEnd, policy>>
local == <<got, readEnd, readTier, due>>
vars == <<row, events, today, pc, local, purge, fresh, disturbed, settled>>

\* "approved" or "accredited"; "pending" stands for every other state.
PayStates == {"scheduled", "pending", "approved"}
SubStates == {"pending", "authorized", "paused", "cancelled"}

\* fetched: Mercado Pago has answered. read: the tenant is read. recorded: the
\* event is inserted, not committed. credited: a month was given. done: any
\* other end, after which what the call had read is forgotten.
Busy == {"fetched", "read", "recorded"}
Ended == {"credited", "done"}
PurgeStates == {"idle", "listed", "checked", "cleared"}

\* mpPaymentId: payment.payment.id, or the id of the authorised payment while
\* there is no payment yet.
Key(n) == IF got[n] = "scheduled" THEN <<PaymentOf[n], "authorized">>
          ELSE <<PaymentOf[n], "payment">>

TypeOK ==
  /\ exists \in BOOLEAN
  /\ tier \in {"demo", "standard"}
  /\ status \in Statuses
  /\ periodEnd \in Nat
  /\ policy \in Policies
  /\ events \subseteq Payments \X {"authorized", "payment"}
  /\ today \in Nat
  /\ pc \in [Calls -> {"start"} \cup Busy \cup Ended]
  /\ got \in [Notices -> {"none"} \cup PayStates \cup SubStates]
  /\ readEnd \in [PayNotices -> Nat]
  /\ readTier \in [PayNotices -> {"demo", "standard"}]
  /\ due \in [PayNotices -> Nat]
  /\ purge \in PurgeStates
  /\ fresh \in BOOLEAN
  /\ disturbed \in BOOLEAN
  /\ settled \subseteq Notices

\* A tenant as DemoService.provision or AuthService.registerTenant creates it.
Init ==
  /\ exists = TRUE
  /\ tier = FirstTier
  /\ status = "TRIAL"
  /\ periodEnd = 0
  /\ policy = "WARN_ONLY"
  /\ events = {}
  /\ today = 1
  /\ pc = [c \in Calls |-> "start"]
  /\ got = [n \in Notices |-> "none"]
  /\ readEnd = [n \in PayNotices |-> 0]
  /\ readTier = [n \in PayNotices |-> "demo"]
  /\ due = [n \in PayNotices |-> 0]
  /\ purge = "idle"
  /\ fresh = FALSE
  /\ disturbed = FALSE
  /\ settled = {}

-----------------------------------------------------------------------------
(* What the dates mean: resolveSubscription and the interceptor.           *)

\* Active until the day, then some days of grace.
ByDate(end) ==
  IF end > today THEN "ACTIVE"
  ELSE IF end + GraceDays > today THEN "GRACE" ELSE "EXPIRED"

\* Mutant of EffectiveState: a cancellation ends the paid period at once.
CancelledAtOnce ==
  IF status = "CANCELLED" THEN "CANCELLED"
  ELSE IF periodEnd # 0 THEN ByDate(periodEnd) ELSE ByDate(FirstEnd)

\* A cancelled subscription lasts until its period ends; a paid period rules
\* over the trial.
EffectiveState ==
  IF status = "CANCELLED" THEN IF periodEnd > today THEN "ACTIVE" ELSE "CANCELLED"
  ELSE IF periodEnd # 0 THEN ByDate(periodEnd) ELSE ByDate(FirstEnd)

Overdue == EffectiveState \in {"EXPIRED", "CANCELLED"}

\* The interceptor refuses every request of an expired demo, and by policy
\* those of a tenant that is overdue.
BlocksAccess ==
  \/ tier = "demo" /\ FirstEnd < today
  \/ Overdue /\ policy = "BLOCK"
BlocksWrites == BlocksAccess \/ (Overdue /\ policy = "READ_ONLY")

-----------------------------------------------------------------------------
Tick ==
  /\ today < LastDay
  /\ today' = today + 1
  /\ UNCHANGED <<row, events, pc, local, purge, fresh, disturbed, settled>>

-----------------------------------------------------------------------------
(* The notices.                                                            *)

\* getAuthorizedPayment, getPreapproval: outside any transaction. Nothing is
\* assumed of the order of the states: payments are retried and refunded, and a
\* tenant that cancelled may subscribe again.
Fetch(n, states) ==
  /\ pc[n] = "start"
  /\ got' \in {[got EXCEPT ![n] = s] : s \in states}
  /\ pc' = [pc EXCEPT ![n] = "fetched"]
  /\ UNCHANGED <<row, events, today, readEnd, readTier, due, purge, fresh, disturbed, settled>>

\* Mutant of Extended: a month from now, not from the end of the paid period.
ExtendedFromToday(end) == today + Month

\* addOneMonth(maxDate(currentPeriodEnd, new Date())).
Extended(end) == (IF end > today THEN end ELSE today) + Month

\* applyPayment: findUnique, no lock.
ReadTenant(n) ==
  /\ pc[n] = "fetched"
  /\ exists
  /\ readEnd' = [readEnd EXCEPT ![n] = periodEnd]
  /\ readTier' = [readTier EXCEPT ![n] = tier]
  /\ due' = [due EXCEPT ![n] = Extended(periodEnd)]
  /\ pc' = [pc EXCEPT ![n] = "read"]
  /\ UNCHANGED <<row, events, today, got, purge, fresh, disturbed, settled>>

\* The end of a call that gives no month.
End(n) ==
  /\ pc' = [pc EXCEPT ![n] = "done"]
  /\ got' = [got EXCEPT ![n] = "none"]
  /\ IF n \in PayNotices
     THEN /\ readEnd' = [readEnd EXCEPT ![n] = 0]
          /\ readTier' = [readTier EXCEPT ![n] = "demo"]
          /\ due' = [due EXCEPT ![n] = 0]
     ELSE UNCHANGED <<readEnd, readTier, due>>

\* The notices whose insert n would wait for.
Inserting(n) == {k \in PayNotices \ {n} : pc[k] = "recorded" /\ Key(k) = Key(n)}

\* The insert under mpPaymentId @unique, "la barrera de idempotencia".
Record(n) ==
  /\ pc[n] = "read"
  /\ exists
  /\ Inserting(n) = {}
  /\ Key(n) \notin events
  /\ pc' = [pc EXCEPT ![n] = "recorded"]
  /\ UNCHANGED <<row, events, today, local, purge, fresh, disturbed, settled>>

\* P2002. A row the purge has deleted and not committed makes the insert wait.
Duplicate(n) ==
  /\ pc[n] = "read"
  /\ Key(n) \in events
  /\ purge # "cleared"
  /\ End(n)
  /\ UNCHANGED <<row, events, today, purge, fresh, disturbed, settled>>

\* convertDemoIfPaid, with the tier its caller read.
ConvertDemoIfPaid(read) == tier' = IF read = "demo" THEN "standard" ELSE tier

Settle(n) == settled' = IF purge = "checked" THEN settled ELSE settled \cup {n}

\* An event is committed.
CommitEvent == fresh' = (fresh \/ purge = "cleared")

\* The rest of applyPayment and its COMMIT, for an approved payment.
Credit(n) ==
  /\ pc[n] = "recorded"
  /\ got[n] = "approved"
  /\ periodEnd' = due[n]
  /\ status' = "ACTIVE"
  /\ ConvertDemoIfPaid(readTier[n])
  /\ events' = events \cup {Key(n)}
  /\ CommitEvent
  /\ disturbed' = (disturbed \/ readEnd[n] # periodEnd)
  /\ Settle(n)
  /\ pc' = [pc EXCEPT ![n] = "credited"]
  /\ readEnd' = [readEnd EXCEPT ![n] = 0]
  /\ readTier' = [readTier EXCEPT ![n] = "demo"]
  /\ UNCHANGED <<exists, policy, today, got, due, purge>>

\* The same for a payment in any other state.
NotePayment(n) ==
  /\ pc[n] = "recorded"
  /\ got[n] # "approved"
  /\ status' = "PAST_DUE"
  /\ events' = events \cup {Key(n)}
  /\ CommitEvent
  /\ End(n)
  /\ UNCHANGED <<exists, tier, periodEnd, policy, today, purge, disturbed, settled>>

MapPreapprovalStatus(s) ==
  CASE s = "authorized" -> "ACTIVE"
    [] s = "paused" -> "PAST_DUE"
    [] s = "cancelled" -> "CANCELLED"
    [] OTHER -> "TRIAL"

\* applyPreapprovalStatus: one UPDATE, which also returns the tier, the event
\* and the COMMIT.
ApplyPreapprovalStatus(n) ==
  /\ pc[n] = "fetched"
  /\ exists
  /\ status' = MapPreapprovalStatus(got[n])
  /\ IF status' = "ACTIVE"
     THEN /\ ConvertDemoIfPaid(tier)
          /\ Settle(n)
     ELSE UNCHANGED <<tier, settled>>
  /\ CommitEvent
  /\ End(n)
  /\ UNCHANGED <<exists, periodEnd, policy, events, today, purge, disturbed>>

\* The tenant is gone (NotFound, P2025, a foreign key), or Mercado Pago, the
\* process or the transaction fails; the answer is 200 and no notice follows.
\* A lost transaction leaves nothing.
Drop(n) ==
  /\ pc[n] \in Busy
  /\ End(n)
  /\ UNCHANGED <<row, events, today, purge, fresh, disturbed, settled>>

-----------------------------------------------------------------------------
(* The platform and the purge.                                             *)

\* updateFromPlatform: each field is set or left as it is.
UpdateFromPlatform(c) ==
  /\ pc[c] = "start"
  /\ exists
  /\ status' \in {status} \cup PatchStatuses
  /\ policy' \in {policy} \cup PatchPolicies
  /\ periodEnd' \in {periodEnd} \cup PatchEnds
  /\ disturbed' = (disturbed \/ periodEnd' # periodEnd)
  /\ CommitEvent
  /\ pc' = [pc EXCEPT ![c] = "done"]
  /\ UNCHANGED <<exists, tier, events, today, local, purge, settled>>

\* purgeExpired: the list, in a transaction of its own.
ListExpired ==
  /\ purge = "idle"
  /\ exists
  /\ tier = "demo"
  /\ FirstEnd + PurgeGrace < today
  /\ purge' = "listed"
  /\ UNCHANGED <<row, events, today, pc, local, fresh, disturbed, settled>>

\* purgeTenant: "nunca borrar un tenant que no sea demo".
CheckDemo ==
  /\ purge = "listed"
  /\ purge' = IF tier = "demo" THEN "checked" ELSE "idle"
  /\ UNCHANGED <<row, events, today, pc, local, fresh, disturbed, settled>>

\* The deletes of the children, the events last.
DeleteEvents ==
  /\ purge = "checked"
  /\ purge' = "cleared"
  /\ fresh' = FALSE
  /\ UNCHANGED <<row, events, today, pc, local, disturbed, settled>>

\* Mutant of Referenced: the foreign key cascades.
Cascades == FALSE

\* The foreign key of SubscriptionEvent: RESTRICT.
Referenced == fresh

\* tenant.delete and COMMIT. It waits for the share locks of the inserts.
DeleteTenant ==
  /\ purge = "cleared"
  /\ \A n \in PayNotices : pc[n] # "recorded"
  /\ ~ Referenced
  /\ exists' = FALSE
  /\ events' = {}
  /\ purge' = "idle"
  /\ UNCHANGED <<tier, status, periodEnd, policy, today, pc, local, fresh, disturbed, settled>>

\* A foreign key, the transaction's limit or the process: nothing is deleted,
\* and a later run finds the tenant again.
PurgeFails ==
  /\ purge # "idle"
  /\ purge' = "idle"
  /\ fresh' = FALSE
  /\ UNCHANGED <<row, events, today, pc, local, disturbed, settled>>

-----------------------------------------------------------------------------
ApplyPayment(n) ==
  ReadTenant(n) \/ Record(n) \/ Duplicate(n) \/ Credit(n) \/ NotePayment(n)

Handle(n) ==
  \/ n \in PayNotices /\ (Fetch(n, PayStates) \/ ApplyPayment(n))
  \/ n \in SubNotices /\ (Fetch(n, SubStates) \/ ApplyPreapprovalStatus(n))
  \/ Drop(n)

PurgeExpired == ListExpired \/ CheckDemo \/ DeleteEvents \/ DeleteTenant \/ PurgeFails

Next ==
  \/ \E n \in Notices : Handle(n)
  \/ \E c \in Patches : UpdateFromPlatform(c)
  \/ PurgeExpired
  \/ Tick

Spec == Init /\ [][Next]_vars

-----------------------------------------------------------------------------
(* Properties.                                                             *)

Credited == {n \in PayNotices : pc[n] = "credited"}

\* "que el periodo se extienda UNA sola vez": however notices are repeated and
\* interleaved, two that credit a month are about different payments. Their
\* months do not overlap, and the period reaches the end of each, unless a
\* credit used a period end that was out of date, or the staff set one.
OneMonthPerPayment ==
  /\ \A n, k \in Credited : n # k =>
       /\ PaymentOf[n] # PaymentOf[k]
       /\ disturbed \/ due[n] >= due[k] + Month \/ due[k] >= due[n] + Month
  /\ \A n \in Credited : disturbed \/ periodEnd >= due[n]

\* Whoever paid works until the end of the period, demo or not, whatever the
\* policy, and whatever notices of pauses, cancellations and failed debits are
\* applied in whatever order (applyPayment, convertDemoIfPaid, resolveState,
\* the interceptor).
PaidNotBlocked ==
  exists /\ Credited # {} /\ periodEnd > today => ~ BlocksWrites

\* The purge deletes no tenant whose payment or authorisation was applied
\* before the check of purgeTenant, nor one whose event came after the events
\* were deleted. In between, nothing protects it.
PurgeSparesPaid == ~ exists => settled = {}

-----------------------------------------------------------------------------
(* The inductive invariant behind these properties.                        *)

\* A payment in the hands of a call: its row is its own, its date is a month
\* after what it read, and a tenant read as standard is standard.
PaymentInv ==
  \A n \in PayNotices :
    /\ pc[n] \in Busy \cup {"credited"} => got[n] \in PayStates
    /\ pc[n] \in {"read", "recorded"} =>
         /\ due[n] >= readEnd[n] + Month
         /\ readTier[n] = "standard" => tier = "standard"
    /\ pc[n] = "recorded" =>
         exists /\ Key(n) \notin events /\ Inserting(n) = {}
    /\ pc[n] = "credited" =>
         got[n] = "approved" /\ (exists => Key(n) \in events)

SubscriptionInv ==
  \A n \in SubNotices : pc[n] \in {"start", "fetched", "done"}
                      /\ (pc[n] = "fetched" => got[n] \in SubStates)

\* A tenant that pays is no demo, and the purge has seen the tier it deletes by.
PurgeInv ==
  /\ Credited # {} \/ settled # {} => tier = "standard"
  /\ purge = "checked" => settled = {}
  /\ purge = "cleared" => settled = {} \/ fresh
  /\ purge # "idle" => exists

BillingInv ==
  /\ TypeOK /\ PaymentInv /\ SubscriptionInv
  /\ OneMonthPerPayment /\ PurgeInv /\ PurgeSparesPaid
=============================================================================
