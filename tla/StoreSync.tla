------------------------------ MODULE StoreSync ------------------------------
(***************************************************************************)
(* One product kept in step with a web shop, WooCommerce or Tienda Nube:   *)
(* the outbound jobs that tell the shop a quantity (WooStockSyncService,   *)
(* TnStockSyncService), the inbound jobs that take web orders off the      *)
(* stock, the workers that run both, and the retry of a failed log.        *)
(*                                                                         *)
(* A sale, purchase or adjustment commits; then a transaction of its own   *)
(* reads the stock and queues a job that carries what it read. The worker  *)
(* runs five jobs at once and retries a failed one later, so jobs pass     *)
(* each other; a job whose worker dies is given to another one (BullMQ's   *)
(* stalled jobs), and does again what it had done.                         *)
(*                                                                         *)
(* The product is linked to its line in the shop from the beginning or at  *)
(* some later moment; before that nothing travels in either direction.     *)
(*                                                                         *)
(* Each job has one SyncLog row, except that a retry reuses the row of the *)
(* job it repeats. Prices go the same way as quantities. Nothing tells a   *)
(* shop what the other shop sold. Queue and shop are external.             *)
(***************************************************************************)
EXTENDS Integers, FiniteSets

CONSTANTS
  Changes,      \* sales, purchases and adjustments; each has one outbound job
  Delta,        \* what a change adds to the stock
  Retries,      \* calls of SyncLogService.retry; each has its job
  RetryOf,      \* the change or the delivery whose job a retry repeats
  Deliveries,   \* webhook deliveries; each has one inbound job
  WebOrders,    \* orders of one unit placed and paid in the shop
  OrderOf,      \* the web order of a delivery
  FirstStock,   \* the quantity at first, in the stock and in the shop
  MaxAttempts,  \* attempts, the same in both queues' defaultJobOptions
  MaxFaults,    \* bound: failed attempts and deaths of workers, in all
  NoOne         \* no change yet

Outbound == Changes \cup Retries
Jobs == Outbound \cup Deliveries

\* The jobs that carry a quantity, and those that repeat a web order.
StockJobs == Changes \cup {r \in Retries : RetryOf[r] \in Changes}
OrderRetries == {r \in Retries : RetryOf[r] \in Deliveries}

ASSUME SyncAssumption ==
  /\ Changes \cap Retries = {} /\ Outbound \cap Deliveries = {}
  /\ NoOne \notin Changes
  /\ Delta \in [Changes -> Int]
  /\ RetryOf \in [Retries -> Changes \cup Deliveries]
  /\ OrderOf \in [Deliveries -> WebOrders]
  /\ FirstStock \in Nat
  /\ MaxAttempts \in Nat \ {0}
  /\ MaxFaults \in Nat

VARIABLES
  platform, \* "woo" or "tiendanube", for good
  stock,    \* StockLevel.quantity
  shop,     \* the quantity the shop shows
  active,   \* isActive of the shop's configuration
  linked,   \* the product has the id of its line in the shop
  sold,     \* the web orders placed
  log,      \* log[j]: SyncLog.status, "none" without a row
  qty,      \* qty[s]: the quantity the job of change s carries
  pc,       \* pc[j]: where the job, or the change before it, is
  failed,   \* failed[j]: the attempts that have failed
  stalled,  \* the jobs that have been given to another worker
  faults,   \* failures and deaths so far
  \* History, of no effect on the rest:
  taken,    \* taken[o]: how many times web order o was taken off the stock
  skipped,  \* the web orders processed without a linked product
  crowded,  \* the web orders of which two attempts overlapped or one stalled
  lastRead, \* the change whose sync read the stock last
  seen,     \* seen[s]: the web orders off the stock when s was read
  lastSent, \* the change whose quantity was written to the shop last
  crossed   \* the web orders sold before that and not seen by it

history == <<taken, skipped, crowded, lastRead, seen, lastSent, crossed>>
vars == <<platform, stock, shop, active, linked, sold, log, qty, pc, failed, stalled, faults, history>>

\* running: the configuration was found active. sent: the shop has the
\* quantity. checked: no finished log of the web order was found. taken: the
\* web order is off the stock, the queue does not know yet.
InWork == {"running", "sent", "checked", "taken"}

TypeOK ==
  /\ platform \in {"woo", "tiendanube"}
  /\ stock \in Int /\ shop \in Int /\ active \in BOOLEAN /\ linked \in BOOLEAN
  /\ sold \in SUBSET WebOrders
  /\ log \in [Changes \cup Deliveries -> {"none", "PENDING", "SUCCESS", "FAILED"}]
  /\ qty \in [Changes -> Int]
  /\ platform = "woo" => shop >= 0 /\ \A s \in Changes : qty[s] >= 0
  /\ pc \in [Jobs -> {"idle", "changed", "unsynced", "queued", "done", "dead"}
                     \cup InWork]
  /\ failed \in [Jobs -> 0 .. MaxAttempts]
  /\ stalled \in SUBSET Jobs
  /\ faults \in 0 .. MaxFaults
  /\ taken \in [WebOrders -> Nat]
  /\ skipped \in SUBSET WebOrders /\ crowded \in SUBSET WebOrders
  /\ lastRead \in Changes \cup {NoOne} /\ lastSent \in Changes \cup {NoOne}
  /\ seen \in [Changes -> SUBSET WebOrders] /\ crossed \in SUBSET WebOrders

Init ==
  /\ platform \in {"woo", "tiendanube"}
  /\ stock = FirstStock /\ shop = FirstStock /\ active = TRUE /\ linked \in BOOLEAN
  /\ sold = {}
  /\ log = [j \in Changes \cup Deliveries |-> "none"]
  /\ qty = [s \in Changes |-> 0]
  /\ pc = [j \in Jobs |-> "idle"]
  /\ failed = [j \in Jobs |-> 0]
  /\ stalled = {} /\ faults = 0
  /\ taken = [o \in WebOrders |-> 0] /\ skipped = {} /\ crowded = {}
  /\ lastRead = NoOne /\ lastSent = NoOne
  /\ seen = [s \in Changes |-> {}] /\ crossed = {}

-----------------------------------------------------------------------------
RowOf(j) == IF j \in Retries THEN RetryOf[j] ELSE j

\* WooCommerce is never told a negative quantity.
Shown(q) == IF platform = "woo" /\ q < 0 THEN 0 ELSE q

\* The configuration a job finds. An inbound job of WooCommerce needs none that
\* is active; a retry is queued for WooCommerce, whoever's row it is about.
Usable(j) ==
  IF platform = "woo" THEN active \/ j \in Deliveries ELSE active /\ j \notin Retries

-----------------------------------------------------------------------------
(* The change, and the transaction that queues its job.                    *)

\* A sale leaves no less than zero (the conditional UPDATE).
Commit(s) ==
  /\ pc[s] = "idle"
  /\ Delta[s] < 0 => stock + Delta[s] >= 0
  /\ stock' = stock + Delta[s]
  /\ pc' = [pc EXCEPT ![s] = "changed"]
  /\ UNCHANGED <<platform, shop, active, linked, sold, log, qty, failed, stalled,
                 faults, history>>

\* Mutant of SyncedLevel: the level is the one before the change.
LevelBefore(s) == stock - Delta[s]

SyncedLevel(s) == stock

\* The level is read, the row is written and addStockOutbound is called in one
\* transaction. Should the job run before the row is there, marking it fails
\* (FailOutbound).
EnqueueStockSync(s) ==
  /\ pc[s] = "changed"
  /\ active /\ linked
  /\ qty' = [qty EXCEPT ![s] = Shown(SyncedLevel(s))]
  /\ log' = [log EXCEPT ![s] = "PENDING"]
  /\ pc' = [pc EXCEPT ![s] = "queued"]
  /\ lastRead' = s
  /\ seen' = [seen EXCEPT ![s] = {o \in WebOrders : taken[o] > 0}]
  /\ UNCHANGED <<platform, stock, shop, active, linked, sold, failed, stalled, faults,
                 taken, skipped, crowded, lastSent, crossed>>

\* The configuration is off or the product not linked; or, whatever they are,
\* the process dies or Redis or the database fails, which is logged and forgotten.
NotSynced(s) ==
  /\ pc[s] = "changed"
  /\ pc' = [pc EXCEPT ![s] = "unsynced"]
  /\ UNCHANGED <<platform, stock, shop, active, linked, sold, log, qty, failed,
                 stalled, faults, history>>

\* SyncLogService.retry of a stock row, with the quantity it carried, or of a
\* web order's.
Retry(r) ==
  /\ pc[r] = "idle"
  /\ log[RetryOf[r]] = "FAILED"
  /\ log' = [log EXCEPT ![RetryOf[r]] = "PENDING"]
  /\ pc' = [pc EXCEPT ![r] = "queued"]
  /\ UNCHANGED <<platform, stock, shop, active, linked, sold, qty, failed, stalled,
                 faults, history>>

-----------------------------------------------------------------------------
(* processStockOutbound.                                                   *)

Begin(j) ==
  /\ pc[j] = "queued"
  /\ Usable(j)
  /\ pc' = [pc EXCEPT ![j] = "running"]
  /\ UNCHANGED <<platform, stock, shop, active, linked, sold, log, qty, failed,
                 stalled, faults, history>>

\* gateway.updateStock, at the shop.
UpdateStock(j) ==
  /\ pc[j] = "running"
  /\ shop' = qty[RowOf(j)]
  /\ pc' = [pc EXCEPT ![j] = "sent"]
  /\ lastSent' = RowOf(j)
  /\ crossed' = sold \ seen[RowOf(j)]
  /\ UNCHANGED <<platform, stock, active, linked, sold, log, qty, failed, stalled,
                 faults, taken, skipped, crowded, lastRead, seen>>

\* The queue is told at once: a worker that died in between would do again
\* what one that dies in "sent" does.
MarkSuccess(j) ==
  /\ pc[j] = "sent"
  /\ log' = [log EXCEPT ![RowOf(j)] = "SUCCESS"]
  /\ pc' = [pc EXCEPT ![j] = "done"]
  /\ UNCHANGED <<platform, stock, shop, active, linked, sold, qty, failed, stalled,
                 faults, history>>

AfterFailure(j) == IF failed[j] + 1 < MaxAttempts THEN "queued" ELSE "dead"

\* The shop's error, before or after it took the quantity, or an error of the
\* database that may also keep the row from being marked.
FailOutbound(j) ==
  /\ pc[j] \in {"running", "sent"}
  /\ log' \in {log, [log EXCEPT ![RowOf(j)] = "FAILED"]}
  /\ pc' = [pc EXCEPT ![j] = AfterFailure(j)]
  /\ faults < MaxFaults /\ faults' = faults + 1
  /\ failed' = [failed EXCEPT ![j] = @ + 1]
  /\ UNCHANGED <<platform, stock, shop, active, linked, sold, qty, stalled, history>>

-----------------------------------------------------------------------------
(* The shop and its webhook.                                               *)

\* External: a customer buys a unit the shop still shows.
Sell(o) ==
  /\ o \notin sold
  /\ shop > 0
  /\ shop' = shop - 1
  /\ sold' = sold \cup {o}
  /\ UNCHANGED <<platform, stock, active, linked, log, qty, pc, failed, stalled,
                 faults, history>>

\* handleOrderWebhook, for the status "processing", again for "completed", and
\* whenever the shop repeats one; ignored while the configuration is off.
Deliver(d) ==
  /\ pc[d] = "idle"
  /\ OrderOf[d] \in sold
  /\ \/ /\ active
        /\ log' = [log EXCEPT ![d] = "PENDING"]
        /\ pc' = [pc EXCEPT ![d] = "queued"]
     \/ /\ ~ active
        /\ pc' = [pc EXCEPT ![d] = "unsynced"]
        /\ UNCHANGED log
  /\ UNCHANGED <<platform, stock, shop, active, linked, sold, qty, failed, stalled,
                 faults, history>>

\* syncCatalog finds the product's SKU in the shop and stores its id there.
\* Nothing ever takes the link away, and no quantity travels with it.
Link ==
  /\ ~ linked
  /\ linked' = TRUE
  /\ UNCHANGED <<platform, stock, shop, active, sold, log, qty, pc, failed, stalled,
                 faults, history>>

\* WooConfigService.update, TnConfigService.update.
Configure ==
  /\ active' = ~ active
  /\ UNCHANGED <<platform, stock, shop, linked, sold, log, qty, pc, failed, stalled,
                 faults, history>>

-----------------------------------------------------------------------------
(* processOrderInbound.                                                    *)

Siblings(d) == {k \in Deliveries \ {d} : OrderOf[k] = OrderOf[d]}

\* Mutants of AnotherDone: no finished row is looked for; a row of the web
\* order counts whatever its status.
AnotherIgnored(d) == FALSE
AnotherKnown(d) == \E k \in Siblings(d) : log[k] # "none"

\* Another inbound row of this web order says SUCCESS. Its own does not count.
AnotherDone(d) == \E k \in Siblings(d) : log[k] = "SUCCESS"

SkipDuplicate(d) ==
  /\ pc[d] = "queued"
  /\ AnotherDone(d)
  /\ log' = [log EXCEPT ![d] = "SUCCESS"]
  /\ pc' = [pc EXCEPT ![d] = "done"]
  /\ UNCHANGED <<platform, stock, shop, active, linked, sold, qty, failed, stalled,
                 faults, history>>

Check(d) ==
  /\ pc[d] = "queued"
  /\ ~ AnotherDone(d)
  /\ Usable(d)
  /\ pc' = [pc EXCEPT ![d] = "checked"]
  /\ crowded' = IF \E k \in Siblings(d) : pc[k] = "checked"
                THEN crowded \cup {OrderOf[d]} ELSE crowded
  /\ UNCHANGED <<platform, stock, shop, active, linked, sold, log, qty, failed,
                 stalled, faults, taken, skipped, lastRead, seen, lastSent, crossed>>

\* "La integracion ya no esta activa": the job is over. Both directions.
RefuseInactive(j) ==
  /\ pc[j] = "queued"
  /\ ~ Usable(j)
  /\ j \in Deliveries => ~ AnotherDone(j)
  /\ log' = [log EXCEPT ![RowOf(j)] = "FAILED"]
  /\ pc' = [pc EXCEPT ![j] = "done"]
  /\ UNCHANGED <<platform, stock, shop, active, linked, sold, qty, failed, stalled,
                 faults, history>>

\* decrementAllowingNegative and the row, in one transaction. A line without a
\* linked product takes nothing off, and the row says SUCCESS all the same.
TakeOff(d) ==
  /\ pc[d] = "checked"
  /\ \/ /\ linked
        /\ stock' = stock - 1
        /\ taken' = [taken EXCEPT ![OrderOf[d]] = @ + 1]
        /\ UNCHANGED skipped
     \/ /\ ~ linked
        /\ skipped' = skipped \cup {OrderOf[d]}
        /\ UNCHANGED <<stock, taken>>
  /\ log' = [log EXCEPT ![d] = "SUCCESS"]
  /\ pc' = [pc EXCEPT ![d] = "taken"]
  /\ UNCHANGED <<platform, shop, active, linked, sold, qty, failed, stalled, faults,
                 crowded, lastRead, seen, lastSent, crossed>>

\* Everything is rolled back; only Tienda Nube's worker, whose getOrder failed,
\* says so in the row.
FailInbound(d) ==
  /\ pc[d] = "checked"
  /\ log' \in {log} \cup IF platform = "tiendanube"
                         THEN {[log EXCEPT ![d] = "FAILED"]} ELSE {}
  /\ pc' = [pc EXCEPT ![d] = AfterFailure(d)]
  /\ faults < MaxFaults /\ faults' = faults + 1
  /\ failed' = [failed EXCEPT ![d] = @ + 1]
  /\ UNCHANGED <<platform, stock, shop, active, linked, sold, qty, stalled, history>>

\* A retried row of Tienda Nube is run by the worker of WooCommerce, which
\* looks for duplicates by a wooOrderId that the row does not have: Prisma
\* refuses the filter, and no attempt gets far enough to mark the row. (The
\* rows of WooCommerce's web orders are never FAILED.)
FailOrderRetry(r) ==
  /\ pc[r] = "queued"
  /\ pc' = [pc EXCEPT ![r] = AfterFailure(r)]
  /\ failed' = [failed EXCEPT ![r] = @ + 1]
  /\ UNCHANGED <<platform, stock, shop, active, linked, sold, log, qty, stalled,
                 faults, history>>

-----------------------------------------------------------------------------
(* The queue (BullMQ, external).                                           *)

Complete(d) ==
  /\ pc[d] = "taken"
  /\ pc' = [pc EXCEPT ![d] = "done"]
  /\ UNCHANGED <<platform, stock, shop, active, linked, sold, log, qty, failed,
                 stalled, faults, history>>

\* The worker dies; the job is given to another one, once (maxStalledCount).
Stall(j) ==
  /\ pc[j] \in InWork
  /\ pc' = [pc EXCEPT ![j] = IF j \in stalled THEN "dead" ELSE "queued"]
  /\ faults < MaxFaults /\ faults' = faults + 1
  /\ stalled' = stalled \cup {j}
  /\ crowded' = IF j \in Deliveries /\ pc[j] = "taken"
                THEN crowded \cup {OrderOf[j]} ELSE crowded
  /\ UNCHANGED <<platform, stock, shop, active, linked, sold, log, qty, failed, taken,
                 skipped, lastRead, seen, lastSent, crossed>>

-----------------------------------------------------------------------------
Work(j) ==
  \/ j \in Changes /\ (EnqueueStockSync(j) \/ NotSynced(j))
  \/ j \in StockJobs /\ (Begin(j) \/ UpdateStock(j) \/ MarkSuccess(j) \/ FailOutbound(j))
  \/ j \in Deliveries /\ (SkipDuplicate(j) \/ Check(j) \/ TakeOff(j) \/ FailInbound(j)
                         \/ Complete(j))
  \/ j \in StockJobs \cup Deliveries /\ RefuseInactive(j)
  \/ j \in OrderRetries /\ FailOrderRetry(j)

Next ==
  \/ \E s \in Changes : Commit(s)
  \/ \E r \in Retries : Retry(r)
  \/ \E d \in Deliveries : Deliver(d)
  \/ \E o \in WebOrders : Sell(o)
  \/ Link
  \/ Configure
  \/ \E j \in Jobs : Work(j) \/ Stall(j)

Spec == Init /\ [][Next]_vars

-----------------------------------------------------------------------------
(* Properties.                                                             *)

\* A web order whose jobs did not overlap, and of which no finished job was
\* handed to a second worker, is processed at most once, however often the shop
\* repeats it and however often an attempt fails: it is not taken off twice, nor
\* taken off after it was passed over for want of a link (processOrderInbound;
\* its test of duplicates leaves out its own row).
OncePerWebOrder ==
  \A o \in WebOrders \ crowded : taken[o] + (IF o \in skipped THEN 1 ELSE 0) <= 1

Processed(o) == taken[o] >= 1 \/ o \in skipped

\* A row that says SUCCESS, a duplicate's too, means that the web order was
\* really processed, by this job or by another: no failed attempt makes the
\* next delivery of a paid order pass for a duplicate. Only a product that was
\* not linked is left as it was.
SuccessIsProcessed ==
  \A d \in Deliveries : log[d] = "SUCCESS" => Processed(OrderOf[d])

\* Every change has been synced and every web order has been taken off, once.
Settled ==
  /\ \A s \in Changes : pc[s] \in {"idle", "done", "dead"}
  /\ \A o \in sold : taken[o] = 1

\* "Si dos ajustes se pisan, gana el ultimo encolado, que es el estado real del
\* POS": only if the job that read last was also the last to reach the shop,
\* and then the shop shows too much by exactly the web orders that were on
\* their way across that job.
ShopInStep ==
  Settled /\ lastSent = lastRead =>
    LET due == stock + Cardinality(crossed)
    IN shop = IF platform = "woo" /\ due < 0 THEN 0 ELSE due

-----------------------------------------------------------------------------
(* The inductive invariant behind OncePerWebOrder and SuccessIsProcessed.  *)

\* A web order whose attempts never crowded: one attempt at a time is under
\* way, none once the order is processed, and a row that says so keeps the next
\* one away, its own job being past its test.
OnceInv ==
  \A o \in WebOrders \ crowded :
    /\ taken[o] <= 1
    /\ taken[o] = 1 => o \notin skipped
    /\ \A d, k \in Deliveries :
         OrderOf[d] = o /\ OrderOf[k] = o /\ pc[d] = "checked" /\ pc[k] = "checked"
           => d = k
    /\ Processed(o) =>
         /\ \A d \in Deliveries : OrderOf[d] = o => pc[d] # "checked"
         /\ \E k \in Deliveries : /\ OrderOf[k] = o
                                  /\ log[k] = "SUCCESS"
                                  /\ pc[k] \in {"taken", "done", "dead"}

\* A job that is not given up has attempts left.
AttemptInv == \A j \in Jobs : pc[j] # "dead" => failed[j] < MaxAttempts

SyncInv == TypeOK /\ AttemptInv /\ SuccessIsProcessed /\ OnceInv

-----------------------------------------------------------------------------
(* The inductive invariant behind ShopInStep.                              *)

Off == {o \in WebOrders : taken[o] > 0}

\* What the job of s carries, and what was off the stock when it was read;
\* before any job, what both sides were given at first.
Carried(s) == IF s = NoOne THEN FirstStock ELSE qty[s]
SeenBy(s) == IF s = NoOne THEN {} ELSE seen[s]

\* A change has a row once its job is queued, and only what has a row is sent;
\* a web order has deliveries only once it is sold.
RowInv ==
  /\ \A s \in Changes : pc[s] \in {"idle", "changed", "unsynced"} <=> log[s] = "none"
  /\ \A r \in Retries : pc[r] # "idle" => log[RetryOf[r]] # "none"
  /\ \A s \in {lastRead, lastSent} \ {NoOne} : log[s] # "none"
  /\ \A d \in Deliveries : pc[d] # "idle" => OrderOf[d] \in sold

\* Orders are sold, then taken off, then seen.
SoldInv ==
  /\ IsFiniteSet(sold)
  /\ Off \subseteq sold
  /\ \A s \in Changes : seen[s] \subseteq Off
  /\ crossed \subseteq sold \ SeenBy(lastSent)

\* Unless a change is still to be synced, or never was, the job that read last
\* carries the stock as it was before the web orders it did not see.
LevelInv ==
  /\ \A o \in WebOrders : taken[o] <= 1
  /\ \A s \in Changes : pc[s] \notin {"changed", "unsynced"}
  => Carried(lastRead) = Shown(stock + Cardinality(Off \ SeenBy(lastRead)))

\* The shop has what was sent last, less what it has sold since.
ShopInv ==
  shop = Carried(lastSent) - Cardinality(sold \ (SeenBy(lastSent) \cup crossed))

StoreInv == SyncInv /\ RowInv /\ SoldInv /\ LevelInv /\ ShopInv
=============================================================================
