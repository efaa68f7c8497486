------------------------- MODULE StoreSync_proofs -------------------------
(***************************************************************************)
(* Proofs about StoreSync, for any changes, retries, deliveries and orders *)
(* and any number of attempts and faults.                                  *)
(***************************************************************************)
EXTENDS StoreSync, FiniteSetTheorems, TLAPS

\* The kinds of jobs, and the row of each.
LEMMA Kinds ==
  /\ \A s \in Changes : s \in StockJobs /\ s \in Jobs /\ s \notin Deliveries
                        /\ s \notin Retries
  /\ \A r \in Retries : r \in Jobs /\ r \notin Deliveries /\ r \notin Changes
                       /\ RowOf(r) = RetryOf[r]
  /\ \A d \in Deliveries : d \in Jobs /\ d \notin StockJobs /\ d \notin Retries
                           /\ d \notin Changes
                           /\ RowOf(d) = d /\ OrderOf[d] \in WebOrders
  /\ \A j \in StockJobs : j \in Jobs /\ j \notin Deliveries /\ RowOf(j) \in Changes
                          /\ RowOf(j) \notin Deliveries
  /\ \A r \in OrderRetries : r \in Retries /\ r \in Jobs
  /\ \A j \in Jobs : j \in StockJobs \/ j \in Deliveries \/ j \in OrderRetries
  /\ \A j \in Jobs : RowOf(j) \in Changes \cup Deliveries
  BY SyncAssumption DEF Outbound, Jobs, StockJobs, OrderRetries, RowOf

\* The invariant holds before anything is sold or queued.
LEMMA InitInv == Init => SyncInv
<1> SUFFICES ASSUME Init PROVE SyncInv
  OBVIOUS
<1>1. TypeOK
  BY SyncAssumption DEF Init, TypeOK
<1>2. AttemptInv
  BY SyncAssumption DEF Init, AttemptInv
<1>3. SuccessIsProcessed /\ OnceInv
  BY Kinds DEF Init, SuccessIsProcessed, Processed, OnceInv
<1>4. QED
  BY <1>1, <1>2, <1>3 DEF SyncInv

-----------------------------------------------------------------------------
(* Types and attempts, one action at a time.                               *)

\* The conjuncts a step has to keep first.
Typed == TypeOK /\ AttemptInv

\* A level that is sent is a number, and for WooCommerce not a negative one.
LEMMA ShownType ==
  ASSUME NEW q \in Int
  PROVE  Shown(q) \in Int /\ (platform = "woo" => Shown(q) >= 0)
  BY DEF Shown

\* What the workers and the queue do to an outbound job.
LEMMA OutboundTyped ==
  ASSUME Typed, NEW j \in StockJobs,
         Begin(j) \/ UpdateStock(j) \/ MarkSuccess(j) \/ FailOutbound(j)
  PROVE  Typed'
<1> USE Kinds, SyncAssumption
<1>1. CASE Begin(j)
  BY <1>1 DEF Begin, Typed, TypeOK, AttemptInv, InWork, history
<1>2. CASE UpdateStock(j)
  BY <1>2 DEF UpdateStock, Typed, TypeOK, AttemptInv, InWork
<1>3. CASE MarkSuccess(j)
  BY <1>3 DEF MarkSuccess, Typed, TypeOK, AttemptInv, InWork, history
<1>4. CASE FailOutbound(j)
  <2>1. failed[j] < MaxAttempts /\ failed[j] \in Nat
    BY <1>4 DEF FailOutbound, Typed, TypeOK, AttemptInv
  <2>2. TypeOK'
    <3>1. pc' = [pc EXCEPT ![j] = AfterFailure(j)] /\ AfterFailure(j) \in {"queued", "dead"}
      BY <1>4 DEF FailOutbound, AfterFailure
    <3>2. failed' \in [Jobs -> 0 .. MaxAttempts] /\ faults' \in 0 .. MaxFaults
      BY <1>4, <2>1 DEF FailOutbound, Typed, TypeOK
    <3>3. log' \in [Changes \cup Deliveries -> {"none", "PENDING", "SUCCESS", "FAILED"}]
      BY <1>4 DEF FailOutbound, Typed, TypeOK
    <3>4. QED
      BY <1>4, <3>1, <3>2, <3>3 DEF FailOutbound, Typed, TypeOK, history
  <2>3. AttemptInv'
    BY <1>4, <2>1 DEF FailOutbound, AfterFailure, Typed, TypeOK, AttemptInv
  <2>4. QED
    BY <2>2, <2>3 DEF Typed
<1>5. QED
  BY <1>1, <1>2, <1>3, <1>4

\* What they do to an inbound one.
LEMMA InboundTyped ==
  ASSUME Typed, NEW d \in Deliveries,
         SkipDuplicate(d) \/ Check(d) \/ TakeOff(d) \/ FailInbound(d) \/ Complete(d)
  PROVE  Typed'
<1> USE Kinds, SyncAssumption
<1>1. CASE SkipDuplicate(d)
  BY <1>1 DEF SkipDuplicate, Typed, TypeOK, AttemptInv, InWork, history
<1>2. CASE Check(d)
  BY <1>2 DEF Check, Typed, TypeOK, AttemptInv, InWork
<1>3. CASE TakeOff(d)
  BY <1>3 DEF TakeOff, Typed, TypeOK, AttemptInv, InWork
<1>4. CASE FailInbound(d)
  <2>1. failed[d] < MaxAttempts /\ failed[d] \in Nat
    BY <1>4 DEF FailInbound, Typed, TypeOK, AttemptInv
  <2>2. TypeOK'
    BY <1>4, <2>1 DEF FailInbound, AfterFailure, Typed, TypeOK, InWork, history
  <2>3. AttemptInv'
    BY <1>4, <2>1 DEF FailInbound, AfterFailure, Typed, TypeOK, AttemptInv
  <2>4. QED
    BY <2>2, <2>3 DEF Typed
<1>5. CASE Complete(d)
  BY <1>5 DEF Complete, Typed, TypeOK, AttemptInv, InWork, history
<1>6. QED
  BY <1>1, <1>2, <1>3, <1>4, <1>5

\* What happens to a change before its job, and to any job that waits.
LEMMA OthersTyped ==
  ASSUME Typed,
         \/ \E s \in Changes : Commit(s) \/ EnqueueStockSync(s) \/ NotSynced(s)
         \/ \E r \in Retries : Retry(r)
         \/ \E d \in Deliveries : Deliver(d)
         \/ \E o \in WebOrders : Sell(o)
         \/ Link \/ Configure
         \/ \E j \in StockJobs \cup Deliveries : RefuseInactive(j)
         \/ \E j \in Jobs : Stall(j)
         \/ \E r \in OrderRetries : FailOrderRetry(r)
  PROVE  Typed'
<1> USE Kinds, SyncAssumption
<1>1. CASE \E s \in Changes : Commit(s)
  BY <1>1 DEF Commit, Typed, TypeOK, AttemptInv, InWork, history
<1>2. CASE \E s \in Changes : EnqueueStockSync(s)
  BY <1>2, ShownType DEF EnqueueStockSync, SyncedLevel, Typed, TypeOK, AttemptInv, InWork
<1>3. CASE \E s \in Changes : NotSynced(s)
  BY <1>3 DEF NotSynced, Typed, TypeOK, AttemptInv, InWork, history
<1>4. CASE \E r \in Retries : Retry(r)
  BY <1>4 DEF Retry, Typed, TypeOK, AttemptInv, InWork, history
<1>5. CASE \E d \in Deliveries : Deliver(d)
  BY <1>5 DEF Deliver, Typed, TypeOK, AttemptInv, InWork, history
<1>6. CASE \E o \in WebOrders : Sell(o)
  BY <1>6 DEF Sell, Typed, TypeOK, AttemptInv, InWork, history
<1>7. CASE Link \/ Configure
  <2>1. CASE Link
    BY <2>1 DEF Link, Typed, TypeOK, AttemptInv, InWork, history
  <2>2. CASE Configure
    BY <2>2 DEF Configure, Typed, TypeOK, AttemptInv, InWork, history
  <2>3. QED
    BY <1>7, <2>1, <2>2
<1>8. CASE \E j \in StockJobs \cup Deliveries : RefuseInactive(j)
  BY <1>8 DEF RefuseInactive, Typed, TypeOK, AttemptInv, InWork, history
<1>9. CASE \E j \in Jobs : Stall(j)
  BY <1>9 DEF Stall, Typed, TypeOK, AttemptInv, InWork
<1>10. CASE \E r \in OrderRetries : FailOrderRetry(r)
  <2> PICK r \in OrderRetries : FailOrderRetry(r)
    BY <1>10
  <2>1. failed[r] < MaxAttempts /\ failed[r] \in Nat
    BY DEF FailOrderRetry, Typed, TypeOK, AttemptInv
  <2>2. TypeOK'
    BY <2>1 DEF FailOrderRetry, AfterFailure, Typed, TypeOK, InWork, history
  <2>3. AttemptInv'
    BY <2>1 DEF FailOrderRetry, AfterFailure, Typed, TypeOK, AttemptInv
  <2>4. QED
    BY <2>2, <2>3 DEF Typed
<1>11. QED
  BY <1>1, <1>2, <1>3, <1>4, <1>5, <1>6, <1>7, <1>8, <1>9, <1>10

\* Every step is one of those the lemmas above take.
LEMMA StepCases ==
  ASSUME Next
  PROVE  \/ \E j \in StockJobs :
              Begin(j) \/ UpdateStock(j) \/ MarkSuccess(j) \/ FailOutbound(j)
         \/ \E d \in Deliveries :
              SkipDuplicate(d) \/ Check(d) \/ TakeOff(d) \/ FailInbound(d) \/ Complete(d)
         \/ \E s \in Changes : Commit(s) \/ EnqueueStockSync(s) \/ NotSynced(s)
         \/ \E r \in Retries : Retry(r)
         \/ \E d \in Deliveries : Deliver(d)
         \/ \E o \in WebOrders : Sell(o)
         \/ Link \/ Configure
         \/ \E j \in StockJobs \cup Deliveries : RefuseInactive(j)
         \/ \E j \in Jobs : Stall(j)
         \/ \E r \in OrderRetries : FailOrderRetry(r)
  BY Kinds DEF Next, Work

-----------------------------------------------------------------------------
(* Web orders.                                                             *)

\* What the invariant of web orders reads, for the steps that only send
\* quantities, sell, or change the configuration: an inbound job may move on
\* without being checked, a row of it from nothing or out of the way.
Aside ==
  /\ taken' = taken /\ skipped' = skipped /\ crowded \subseteq crowded'
  /\ \A d \in Deliveries : pc'[d] = "checked" => pc[d] = "checked"
  /\ \A d \in Deliveries : log'[d] = "SUCCESS" => log[d] = "SUCCESS"
  /\ \A d \in Deliveries :
       /\ OrderOf[d] \notin crowded' /\ log[d] = "SUCCESS"
       /\ pc[d] \in {"taken", "done", "dead"}
       => log'[d] = "SUCCESS" /\ pc'[d] \in {"taken", "done", "dead"}

\* Such a step keeps it.
LEMMA AsideKeeps ==
  ASSUME SuccessIsProcessed, OnceInv, Aside
  PROVE  SuccessIsProcessed' /\ OnceInv'
<1>1. SuccessIsProcessed'
  BY DEF Aside, SuccessIsProcessed, Processed
<1>2. ASSUME NEW o \in WebOrders \ crowded'
      PROVE  o \in WebOrders \ crowded
  BY <1>2 DEF Aside
<1>3. OnceInv'
  <2> SUFFICES ASSUME NEW o \in WebOrders \ crowded'
               PROVE  /\ taken'[o] <= 1
                      /\ taken'[o] = 1 => o \notin skipped'
                      /\ \A d, k \in Deliveries :
                           OrderOf[d] = o /\ OrderOf[k] = o
                             /\ pc'[d] = "checked" /\ pc'[k] = "checked" => d = k
                      /\ Processed(o)' =>
                           /\ \A d \in Deliveries : OrderOf[d] = o => pc'[d] # "checked"
                           /\ \E k \in Deliveries :
                                /\ OrderOf[k] = o
                                /\ log'[k] = "SUCCESS"
                                /\ pc'[k] \in {"taken", "done", "dead"}
    BY DEF OnceInv
  <2>1. o \in WebOrders \ crowded
    BY <1>2
  <2>2. QED
    BY <2>1 DEF OnceInv, Processed, Aside
<1>4. QED
  BY <1>1, <1>3

\* All steps but three are of that kind.
LEMMA MostAside ==
  ASSUME Typed, Next,
         ~ \E d \in Deliveries : SkipDuplicate(d) \/ Check(d) \/ TakeOff(d)
  PROVE  Aside
<1> USE Kinds
<1>1. CASE \E j \in StockJobs :
             Begin(j) \/ UpdateStock(j) \/ MarkSuccess(j) \/ FailOutbound(j)
  BY <1>1 DEF Begin, UpdateStock, MarkSuccess, FailOutbound, Typed, TypeOK, Aside, history
<1>2. CASE \E d \in Deliveries : FailInbound(d)
  BY <1>2 DEF FailInbound, AfterFailure, Typed, TypeOK, Aside, history
<1>3. CASE \E d \in Deliveries : Complete(d)
  BY <1>3 DEF Complete, Typed, TypeOK, Aside, history
<1>4. CASE \E s \in Changes : Commit(s) \/ EnqueueStockSync(s) \/ NotSynced(s)
  BY <1>4 DEF Commit, EnqueueStockSync, NotSynced, Typed, TypeOK, Aside, history
<1>5. CASE \E r \in Retries : Retry(r)
  BY <1>5, SyncAssumption DEF Retry, Typed, TypeOK, Aside, history
<1>6. CASE \E d \in Deliveries : Deliver(d)
  BY <1>6 DEF Deliver, Typed, TypeOK, Aside, history
<1>7. CASE (\E o \in WebOrders : Sell(o)) \/ Link \/ Configure
  BY <1>7 DEF Sell, Link, Configure, Aside, history
<1>8. CASE \E j \in StockJobs \cup Deliveries : RefuseInactive(j)
  BY <1>8 DEF RefuseInactive, Typed, TypeOK, Aside, history
<1>9. CASE \E j \in Jobs : Stall(j)
  <2> PICK j \in Jobs : Stall(j)
    BY <1>9
  <2>1. taken' = taken /\ skipped' = skipped /\ log' = log /\ crowded \subseteq crowded'
    BY DEF Stall
  <2>2. \A d \in Deliveries : pc'[d] = "checked" => pc[d] = "checked"
    BY DEF Stall, Typed, TypeOK
  <2>3. ASSUME NEW d \in Deliveries, OrderOf[d] \notin crowded',
               pc[d] \in {"taken", "done", "dead"}
        PROVE  pc'[d] \in {"taken", "done", "dead"}
    BY <2>3 DEF Stall, InWork, Typed, TypeOK
  <2>4. QED
    BY <2>1, <2>2, <2>3 DEF Aside
<1>10. CASE \E r \in OrderRetries : FailOrderRetry(r)
  BY <1>10 DEF FailOrderRetry, AfterFailure, Typed, TypeOK, Aside, history
<1>11. QED
  BY <1>1, <1>2, <1>3, <1>4, <1>5, <1>6, <1>7, <1>8, <1>9, <1>10, StepCases

\* A row found finished belongs to another delivery of the same web order.
LEMMA SkipKeeps ==
  ASSUME Typed, SuccessIsProcessed, OnceInv, NEW d \in Deliveries, SkipDuplicate(d)
  PROVE  SuccessIsProcessed' /\ OnceInv'
<1> USE Kinds
<1>1. PICK k \in Deliveries : OrderOf[k] = OrderOf[d] /\ log[k] = "SUCCESS"
  BY DEF SkipDuplicate, AnotherDone, Siblings
<1>2. Processed(OrderOf[d])
  BY <1>1 DEF SuccessIsProcessed
<1>3. taken' = taken /\ skipped' = skipped /\ crowded' = crowded
  BY DEF SkipDuplicate, history
<1>4. \A e \in Deliveries : /\ log'[e] = IF e = d THEN "SUCCESS" ELSE log[e]
                            /\ pc'[e] = IF e = d THEN "done" ELSE pc[e]
  BY DEF SkipDuplicate, Typed, TypeOK
<1>5. SuccessIsProcessed'
  BY <1>2, <1>3, <1>4 DEF SuccessIsProcessed, Processed
<1>6. OnceInv'
  BY <1>3, <1>4 DEF OnceInv, Processed
<1>7. QED
  BY <1>5, <1>6

\* A delivery that finds no finished row starts on an order that is not off;
\* if another one is at it, the order is crowded.
LEMMA CheckKeeps ==
  ASSUME Typed, SuccessIsProcessed, OnceInv, NEW d \in Deliveries, Check(d)
  PROVE  SuccessIsProcessed' /\ OnceInv'
<1> USE Kinds
<1>1. taken' = taken /\ skipped' = skipped /\ log' = log /\ crowded \subseteq crowded'
  BY DEF Check
<1>2. \A e \in Deliveries : pc'[e] = IF e = d THEN "checked" ELSE pc[e]
  BY DEF Check, Typed, TypeOK
<1>3. SuccessIsProcessed'
  BY <1>1 DEF SuccessIsProcessed, Processed
<1>4. OnceInv'
  <2> SUFFICES ASSUME NEW o \in WebOrders \ crowded'
               PROVE  /\ taken[o] <= 1
                      /\ taken[o] = 1 => o \notin skipped
                      /\ \A e, k \in Deliveries :
                           OrderOf[e] = o /\ OrderOf[k] = o
                             /\ pc'[e] = "checked" /\ pc'[k] = "checked" => e = k
                      /\ Processed(o) =>
                           /\ \A e \in Deliveries : OrderOf[e] = o => pc'[e] # "checked"
                           /\ \E k \in Deliveries :
                                /\ OrderOf[k] = o
                                /\ log[k] = "SUCCESS"
                                /\ pc'[k] \in {"taken", "done", "dead"}
    BY <1>1 DEF OnceInv, Processed
  <2>1. o \in WebOrders \ crowded
    BY <1>1
  <2>2. CASE OrderOf[d] # o
    BY <1>2, <2>1, <2>2 DEF OnceInv
  <2>3. CASE OrderOf[d] = o
    <3>1. \A k \in Deliveries \ {d} : OrderOf[k] = o => pc[k] # "checked"
      BY <2>3 DEF Check, Siblings
    <3>2. \A k \in Deliveries \ {d} : OrderOf[k] = o => log[k] # "SUCCESS"
      BY <2>3 DEF Check, AnotherDone, Siblings
    <3>3. pc[d] = "queued"
      BY DEF Check
    <3>4. ~ Processed(o)
      BY <2>1, <3>2, <3>3 DEF OnceInv
    <3>5. QED
      BY <1>2, <2>1, <3>1, <3>4 DEF OnceInv
  <2>4. QED
    BY <2>2, <2>3
<1>5. QED
  BY <1>3, <1>4

\* A delivery that takes an uncrowded order off, or passes over it for want of a
\* link, is the first to do either.
LEMMA TakeOffKeeps ==
  ASSUME Typed, SuccessIsProcessed, OnceInv, NEW d \in Deliveries, TakeOff(d)
  PROVE  SuccessIsProcessed' /\ OnceInv'
<1> USE Kinds
<1>1. crowded' = crowded
  BY DEF TakeOff
<1>2. \A e \in Deliveries : /\ log'[e] = IF e = d THEN "SUCCESS" ELSE log[e]
                            /\ pc'[e] = IF e = d THEN "taken" ELSE pc[e]
  BY DEF TakeOff, Typed, TypeOK
<1>3. \A o \in WebOrders : o # OrderOf[d] =>
        taken'[o] = taken[o] /\ (o \in skipped' <=> o \in skipped)
  BY DEF TakeOff, Typed, TypeOK
<1>4. \/ taken'[OrderOf[d]] = taken[OrderOf[d]] + 1 /\ skipped' = skipped
      \/ taken'[OrderOf[d]] = taken[OrderOf[d]] /\ OrderOf[d] \in skipped'
  BY DEF TakeOff, Typed, TypeOK
<1>5. \A o \in WebOrders : taken[o] \in Nat
  BY DEF Typed, TypeOK
<1>6. Processed(OrderOf[d])' /\ \A o \in WebOrders : Processed(o) => Processed(o)'
  BY <1>3, <1>4, <1>5 DEF Processed
<1>7. SuccessIsProcessed'
  BY <1>2, <1>6 DEF SuccessIsProcessed
<1>8. OnceInv'
  <2> SUFFICES ASSUME NEW o \in WebOrders \ crowded
               PROVE  /\ taken'[o] <= 1
                      /\ taken'[o] = 1 => o \notin skipped'
                      /\ \A e, k \in Deliveries :
                           OrderOf[e] = o /\ OrderOf[k] = o
                             /\ pc'[e] = "checked" /\ pc'[k] = "checked" => e = k
                      /\ Processed(o)' =>
                           /\ \A e \in Deliveries : OrderOf[e] = o => pc'[e] # "checked"
                           /\ \E k \in Deliveries :
                                /\ OrderOf[k] = o
                                /\ log'[k] = "SUCCESS"
                                /\ pc'[k] \in {"taken", "done", "dead"}
    BY <1>1 DEF OnceInv
  <2>1. CASE OrderOf[d] # o
    <3>1. Processed(o)' <=> Processed(o)
      BY <1>3, <2>1 DEF Processed
    <3>2. QED
      BY <1>2, <1>3, <2>1, <3>1 DEF OnceInv
  <2>2. CASE OrderOf[d] = o
    <3>1. pc[d] = "checked"
      BY DEF TakeOff
    <3>2. taken[o] = 0 /\ o \notin skipped
      BY <1>5, <2>2, <3>1 DEF OnceInv, Processed
    <3>3. \A k \in Deliveries : OrderOf[k] = o /\ pc[k] = "checked" => k = d
      BY <2>2, <3>1 DEF OnceInv
    <3>4. taken'[o] <= 1 /\ (taken'[o] = 1 => o \notin skipped')
      BY <1>4, <2>2, <3>2
    <3>5. QED
      BY <1>2, <2>2, <3>3, <3>4
  <2>3. QED
    BY <2>1, <2>2
<1>9. QED
  BY <1>7, <1>8

-----------------------------------------------------------------------------
(* The invariant and what follows from it.                                 *)

\* SyncInv is inductive: nothing the shop, the workers, a retry or a failure
\* does takes the system out of it.
LEMMA StepInv == SyncInv /\ [Next]_vars => SyncInv'
<1> SUFFICES ASSUME SyncInv, [Next]_vars PROVE SyncInv'
  OBVIOUS
<1>1. Typed /\ SuccessIsProcessed /\ OnceInv
  BY DEF SyncInv, Typed
<1>2. CASE UNCHANGED vars
  BY <1>2 DEF SyncInv, TypeOK, AttemptInv, SuccessIsProcessed, OnceInv, Processed, vars,
             history, InWork
<1>3. CASE Next
  <2>1. Typed'
    BY <1>1, <1>3, StepCases, OutboundTyped, InboundTyped, OthersTyped
  <2>2. SuccessIsProcessed' /\ OnceInv'
    BY <1>1, <1>3, SkipKeeps, CheckKeeps, TakeOffKeeps, MostAside, AsideKeeps
  <2>3. QED
    BY <2>1, <2>2 DEF SyncInv, Typed
<1>4. QED
  BY <1>2, <1>3

\* Every reachable state satisfies the invariant.
THEOREM SyncInvariant == Spec => []SyncInv
<1>1. QED
  BY InitInv, StepInv, PTL DEF Spec

\* The state keeps its types, no quantity sent to WooCommerce is negative, and
\* no job is tried more often than its queue allows.
THEOREM SyncTypeOK == Spec => []TypeOK
<1>1. SyncInv => TypeOK
  BY DEF SyncInv
<1>2. QED
  BY <1>1, SyncInvariant, PTL

\* A web order is processed at most once, taken off or passed over, unless its
\* jobs overlapped or a worker died between the commit and the queue hearing of
\* it (processOrderInbound).
THEOREM SyncOncePerWebOrder == Spec => []OncePerWebOrder
<1>1. SyncInv => OncePerWebOrder
  <2> SUFFICES ASSUME SyncInv, NEW o \in WebOrders \ crowded
               PROVE  taken[o] + (IF o \in skipped THEN 1 ELSE 0) <= 1
    BY DEF OncePerWebOrder
  <2>1. taken[o] \in Nat /\ taken[o] <= 1 /\ (taken[o] = 1 => o \notin skipped)
    BY DEF SyncInv, TypeOK, OnceInv
  <2>2. QED
    BY <2>1
<1>2. QED
  BY <1>1, SyncInvariant, PTL

\* A finished inbound row, a duplicate's too, means that the web order was
\* processed, whichever of its jobs failed, stalled or was refused.
THEOREM SyncSuccessIsProcessed == Spec => []SuccessIsProcessed
<1>1. SyncInv => SuccessIsProcessed
  BY DEF SyncInv
<1>2. QED
  BY <1>1, SyncInvariant, PTL

-----------------------------------------------------------------------------
(* The shop in step.                                                       *)

Before == {"idle", "changed", "unsynced"}
Unread == {"changed", "unsynced"}

\* Only what has a row is worked on, by a retry too.
LEMMA WorkedOnHasRow ==
  ASSUME RowInv, NEW j \in StockJobs, pc[j] \notin Before
  PROVE  RowOf(j) \in Changes /\ log[RowOf(j)] # "none"
BY Kinds, SyncAssumption DEF RowInv, Before, RowOf, Outbound

\* A step that moves jobs along: no quantity, no stock and no web order moves,
\* no change is read, and a job begins only where it may.
Quiet ==
  /\ UNCHANGED <<platform, stock, shop, sold, qty, taken, lastRead, seen, lastSent,
               crossed>>
  /\ \A s \in Changes : /\ pc[s] \in Unread => pc'[s] \in Unread
                        /\ pc'[s] \in Before <=> pc[s] \in Before
                        /\ log'[s] = "none" <=> log[s] = "none"
  /\ \A d \in Deliveries : log[d] # "none" => log'[d] # "none"
  /\ \A r \in Retries : pc'[r] # "idle" => pc[r] # "idle" \/ log[RetryOf[r]] # "none"
  /\ \A d \in Deliveries : pc'[d] # "idle" => pc[d] # "idle" \/ OrderOf[d] \in sold

LEMMA QuietKeeps ==
  ASSUME Typed, RowInv, SoldInv, LevelInv, ShopInv, Quiet
  PROVE  RowInv' /\ SoldInv' /\ LevelInv' /\ ShopInv'
<1>1. RowInv'
  BY Kinds, SyncAssumption DEF Quiet, RowInv, Before, Typed, TypeOK
<1>2. SoldInv'
  BY DEF Quiet, SoldInv, Off, SeenBy
<1>3. LevelInv'
  BY DEF Quiet, LevelInv, Off, SeenBy, Carried, Shown, Unread
<1>4. ShopInv'
  BY DEF Quiet, ShopInv, SeenBy, Carried
<1>5. QED
  BY <1>1, <1>2, <1>3, <1>4

\* The job of j moves from one state to another and at most its row is marked.
LEMMA MoveIsQuiet ==
  ASSUME Typed, RowInv, NEW j \in Jobs, pc[j] \notin Before,
         NEW where, where \notin Before, pc' = [pc EXCEPT ![j] = where],
         NEW status, status # "none", log' \in {log, [log EXCEPT ![RowOf(j)] = status]},
         UNCHANGED <<platform, stock, shop, sold, qty, taken, lastRead, seen, lastSent,
                     crossed>>
  PROVE  Quiet
<1>1. \A k \in Jobs : pc'[k] = IF k = j THEN where ELSE pc[k]
  BY DEF Typed, TypeOK
<1>2. \A s \in Changes : log'[s] = "none" <=> log[s] = "none"
  <2>1. CASE j \in StockJobs
    BY <2>1, WorkedOnHasRow DEF Typed, TypeOK
  <2>2. CASE j \in Deliveries
    BY <2>2, Kinds DEF Typed, TypeOK
  <2>3. CASE j \in OrderRetries
    <3>1. RowOf(j) \in Deliveries
      BY <2>3, Kinds DEF OrderRetries
    <3>2. QED
      BY <3>1, Kinds DEF Typed, TypeOK
  <2>4. QED
    BY <2>1, <2>2, <2>3, Kinds
<1>3. \A d \in Deliveries : log[d] # "none" => log'[d] # "none"
  BY Kinds DEF Typed, TypeOK
<1>4. QED
  BY <1>1, <1>2, <1>3, Kinds DEF Quiet, Before, Unread

LEMMA MostQuiet ==
  ASSUME Typed, RowInv,
         \/ \E j \in StockJobs : Begin(j) \/ MarkSuccess(j) \/ FailOutbound(j)
         \/ \E d \in Deliveries :
              SkipDuplicate(d) \/ Check(d) \/ FailInbound(d) \/ Complete(d)
         \/ \E s \in Changes : NotSynced(s)
         \/ \E r \in Retries : Retry(r)
         \/ \E d \in Deliveries : Deliver(d)
         \/ Link \/ Configure
         \/ \E j \in StockJobs \cup Deliveries : RefuseInactive(j)
         \/ \E j \in Jobs : Stall(j)
         \/ \E r \in OrderRetries : FailOrderRetry(r)
  PROVE  Quiet
<1> USE Kinds
<1> DEFINE Same == UNCHANGED <<platform, stock, shop, sold, qty, taken, lastRead, seen,
                               lastSent, crossed>>
           Moves(j) == /\ pc[j] \notin Before
                       /\ \E where : where \notin Before /\ pc' = [pc EXCEPT ![j] = where]
                       /\ \E status : /\ status # "none"
                                      /\ log' \in {log, [log EXCEPT ![RowOf(j)] = status]}
                       /\ Same
<1>0. ASSUME NEW j \in Jobs, Moves(j)
      PROVE  Quiet
  BY <1>0, MoveIsQuiet
<1>1. ASSUME NEW j \in StockJobs, Begin(j) \/ MarkSuccess(j) \/ FailOutbound(j)
      PROVE  Moves(j)
  <2>1. CASE Begin(j)
    BY <2>1 DEF Begin, Before, history
  <2>2. CASE MarkSuccess(j)
    BY <2>2 DEF MarkSuccess, Before, history
  <2>3. CASE FailOutbound(j)
    BY <2>3 DEF FailOutbound, AfterFailure, Before, history
  <2>4. QED
    BY <1>1, <2>1, <2>2, <2>3
<1>2. ASSUME NEW d \in Deliveries,
             SkipDuplicate(d) \/ Check(d) \/ FailInbound(d) \/ Complete(d)
      PROVE  Moves(d)
  <2>1. CASE SkipDuplicate(d)
    BY <2>1 DEF SkipDuplicate, Before, history
  <2>2. CASE Check(d)
    BY <2>2 DEF Check, Before, history
  <2>3. CASE FailInbound(d)
    BY <2>3 DEF FailInbound, AfterFailure, Before, history
  <2>4. CASE Complete(d)
    BY <2>4 DEF Complete, Before, history
  <2>5. QED
    BY <1>2, <2>1, <2>2, <2>3, <2>4
<1>3. ASSUME NEW j \in Jobs, RefuseInactive(j) \/ Stall(j)
      PROVE  Moves(j)
  <2>1. CASE RefuseInactive(j)
    BY <2>1 DEF RefuseInactive, Before, history
  <2>2. CASE Stall(j)
    BY <2>2 DEF Stall, InWork, Before
  <2>3. QED
    BY <1>3, <2>1, <2>2
<1>4. ASSUME NEW r \in OrderRetries, FailOrderRetry(r)
      PROVE  Moves(r)
  BY <1>4 DEF FailOrderRetry, AfterFailure, Before, history
<1> HIDE DEF Moves
<1>5. CASE \E s \in Changes : NotSynced(s)
  BY <1>5 DEF NotSynced, Quiet, Before, Unread, Typed, TypeOK, history
<1>6. CASE \E r \in Retries : Retry(r)
  BY <1>6, SyncAssumption DEF Retry, Quiet, Typed, TypeOK, history
<1>7. CASE \E d \in Deliveries : Deliver(d)
  BY <1>7 DEF Deliver, Quiet, Typed, TypeOK, history
<1>8. CASE Link \/ Configure
  BY <1>8 DEF Link, Configure, Quiet, history
<1>9. QED
  BY <1>0, <1>1, <1>2, <1>3, <1>4, <1>5, <1>6, <1>7, <1>8

\* A change makes the stock run ahead of what was read, until it is read.
LEMMA CommitKeeps ==
  ASSUME Typed, RowInv, SoldInv, ShopInv, NEW s \in Changes, Commit(s)
  PROVE  RowInv' /\ SoldInv' /\ LevelInv' /\ ShopInv'
<1> USE Kinds
<1>1. \A j \in Jobs : pc'[j] = IF j = s THEN "changed" ELSE pc[j]
  BY DEF Commit, Typed, TypeOK
<1>2. RowInv'
  BY <1>1 DEF Commit, RowInv, history
<1>3. SoldInv' /\ ShopInv'
  BY DEF Commit, SoldInv, ShopInv, Off, SeenBy, Carried, history
<1>4. LevelInv'
  BY <1>1 DEF LevelInv
<1>5. QED
  BY <1>2, <1>3, <1>4

\* The sync of s reads the stock as it is, with every web order taken so far.
LEMMA EnqueueKeeps ==
  ASSUME Typed, RowInv, SoldInv, ShopInv, NEW s \in Changes, EnqueueStockSync(s)
  PROVE  RowInv' /\ SoldInv' /\ LevelInv' /\ ShopInv'
<1> USE Kinds
<1>1. /\ \A j \in Jobs : pc'[j] = IF j = s THEN "queued" ELSE pc[j]
      /\ \A k \in Changes \cup Deliveries : log'[k] = IF k = s THEN "PENDING" ELSE log[k]
      /\ \A k \in Changes : /\ qty'[k] = IF k = s THEN Shown(stock) ELSE qty[k]
                            /\ seen'[k] = IF k = s THEN Off ELSE seen[k]
      /\ lastRead' = s
      /\ UNCHANGED <<platform, stock, shop, sold, taken, lastSent, crossed>>
  <2>1. \A k \in Changes \cup Deliveries : log'[k] = IF k = s THEN "PENDING" ELSE log[k]
    BY DEF EnqueueStockSync, Typed, TypeOK
  <2>2. \A k \in Changes : /\ qty'[k] = IF k = s THEN Shown(stock) ELSE qty[k]
                          /\ seen'[k] = IF k = s THEN Off ELSE seen[k]
    BY DEF EnqueueStockSync, SyncedLevel, Off, Typed, TypeOK
  <2>3. \A j \in Jobs : pc'[j] = IF j = s THEN "queued" ELSE pc[j]
    BY DEF EnqueueStockSync, Typed, TypeOK
  <2>4. lastRead' = s /\ UNCHANGED <<platform, stock, shop, sold, taken, lastSent, crossed>>
    BY DEF EnqueueStockSync
  <2>5. QED
    BY <2>1, <2>2, <2>3, <2>4
\* What was sent before is of another change: s had no row.
<1>2. log[s] = "none" /\ lastSent # s /\ s # NoOne
  BY SyncAssumption DEF EnqueueStockSync, RowInv
<1>3. lastSent \in Changes \cup {NoOne} /\ lastRead \in Changes \cup {NoOne}
  BY DEF Typed, TypeOK
<1>4. RowInv'
  BY <1>1, <1>2, <1>3, SyncAssumption DEF RowInv
<1>5. Off' = Off /\ SeenBy(lastSent)' = SeenBy(lastSent) /\ Carried(lastSent)' = Carried(lastSent)
  BY <1>1, <1>2, <1>3 DEF Off, SeenBy, Carried
<1>6. SoldInv'
  BY <1>1, <1>5 DEF SoldInv
<1>7. ShopInv'
  BY <1>1, <1>5 DEF ShopInv
<1>8. LevelInv'
  <2>1. Carried(lastRead)' = Shown(stock) /\ SeenBy(lastRead)' = Off
    BY <1>1, <1>2 DEF Carried, SeenBy
  <2>2. Off \ Off = {} /\ Cardinality({}) = 0 /\ stock + 0 = stock
    BY FS_EmptySet DEF Typed, TypeOK
  <2>3. Shown(stock + Cardinality(Off \ SeenBy(lastRead)))' = Shown(stock)
    <3>1. (Off \ SeenBy(lastRead))' = {}
      BY <1>5, <2>1
    <3>2. (stock + Cardinality(Off \ SeenBy(lastRead)))' = stock
      BY <1>1, <2>2, <3>1
    <3>3. QED
      BY <1>1, <3>2 DEF Shown
  <2>4. QED
    BY <2>1, <2>3 DEF LevelInv
<1>9. QED
  BY <1>4, <1>6, <1>7, <1>8

\* The shop gets the quantity of a row; what was sold by then and not seen by
\* that job has crossed it.
LEMMA UpdateStockKeeps ==
  ASSUME Typed, RowInv, SoldInv, LevelInv, NEW j \in StockJobs, UpdateStock(j)
  PROVE  RowInv' /\ SoldInv' /\ LevelInv' /\ ShopInv'
<1> USE Kinds
<1> DEFINE s == RowOf(j)
<1>1. /\ \A k \in Jobs : pc'[k] = IF k = j THEN "sent" ELSE pc[k]
      /\ pc[j] = "running"
      /\ shop' = qty[s]
      /\ lastSent' = s
      /\ crossed' = sold \ seen[s]
      /\ UNCHANGED <<platform, stock, sold, log, qty, taken, lastRead, seen>>
  BY DEF UpdateStock, Typed, TypeOK
<1>2. s \in Changes /\ s # NoOne /\ log[s] # "none"
  BY <1>1, WorkedOnHasRow, SyncAssumption DEF Before
<1> HIDE DEF s
<1>3. RowInv'
  BY <1>1, <1>2 DEF RowInv
<1>4. Off' = Off /\ SeenBy(lastRead)' = SeenBy(lastRead) /\ Carried(lastRead)' = Carried(lastRead)
  BY <1>1 DEF Off, SeenBy, Carried
<1>5. LevelInv'
  <2>1. \A k \in Changes : pc'[k] \notin Unread => pc[k] \notin Unread
    BY <1>1 DEF Unread
  <2>2. QED
    BY <1>1, <1>4, <2>1 DEF LevelInv, Shown, Unread
<1>6. SeenBy(lastSent)' = seen[s] /\ Carried(lastSent)' = qty[s]
  BY <1>1, <1>2 DEF SeenBy, Carried
<1>7. SoldInv'
  BY <1>1, <1>2, <1>4, <1>6 DEF SoldInv
<1>8. ShopInv'
  <2>1. sold \ (seen[s] \cup (sold \ seen[s])) = {} /\ Cardinality({}) = 0
    BY FS_EmptySet
  <2>2. qty[s] \in Int
    BY <1>2 DEF Typed, TypeOK
  <2> DEFINE left == sold' \ (SeenBy(lastSent)' \cup crossed')
             sent == Carried(lastSent)'
  <2>3. left = {} /\ shop' = qty[s] /\ sent = qty[s]
    BY <1>1, <1>6, <2>1
  <2> HIDE DEF left, sent
  <2>4. shop' = sent - Cardinality(left)
    BY <2>1, <2>2, <2>3
  <2>5. QED
    BY <2>4 DEF ShopInv, left, sent
<1>9. QED
  BY <1>3, <1>5, <1>7, <1>8

\* The shop sells one of what it shows.
LEMMA SellKeeps ==
  ASSUME Typed, RowInv, SoldInv, LevelInv, ShopInv, NEW o \in WebOrders, Sell(o)
  PROVE  RowInv' /\ SoldInv' /\ LevelInv' /\ ShopInv'
<1>1. /\ o \notin sold
      /\ shop' = shop - 1
      /\ sold' = sold \cup {o}
      /\ UNCHANGED <<platform, stock, log, qty, pc, taken, lastRead, seen, lastSent, crossed>>
  BY DEF Sell, history
<1>2. RowInv'
  BY <1>1 DEF RowInv
<1>3. LevelInv'
  BY <1>1 DEF LevelInv, Off, SeenBy, Carried, Shown
<1>4. SoldInv'
  BY <1>1, FS_AddElement DEF SoldInv, Off, SeenBy
<1>5. ShopInv'
  <2> DEFINE known == SeenBy(lastSent) \cup crossed
  <2>1. SeenBy(lastSent)' = SeenBy(lastSent) /\ Carried(lastSent)' = Carried(lastSent)
    BY <1>1 DEF SeenBy, Carried
  <2>2. o \notin known
    BY <1>1 DEF SoldInv, SeenBy, Typed, TypeOK
  <2>3. IsFiniteSet(sold \ known)
    BY FS_Subset DEF SoldInv
  <2>4. sold' \ known = (sold \ known) \cup {o} /\ o \notin sold \ known
    BY <1>1, <2>2
  <2>5. Cardinality(sold' \ known) = Cardinality(sold \ known) + 1
    BY <2>3, <2>4, FS_AddElement
  <2>6. Cardinality(sold \ known) \in Nat
    BY <2>3, FS_CardinalityType
  <2>7. Carried(lastSent) \in Int /\ shop = Carried(lastSent) - Cardinality(sold \ known)
    BY SyncAssumption DEF ShopInv, Carried, Typed, TypeOK
  <2> HIDE DEF known
  <2>8. shop' = Carried(lastSent) - Cardinality(sold' \ known)
    BY <1>1, <2>5, <2>6, <2>7
  <2>9. QED
    BY <1>1, <2>1, <2>8 DEF ShopInv, known
<1>6. QED
  BY <1>2, <1>3, <1>4, <1>5

\* Without a link only the job moves.
LEMMA PassOverQuiet ==
  ASSUME Typed, RowInv, NEW d \in Deliveries, TakeOff(d), ~ linked
  PROVE  Quiet
<1>1. /\ pc[d] = "checked" /\ pc' = [pc EXCEPT ![d] = "taken"]
      /\ log' = [log EXCEPT ![RowOf(d)] = "SUCCESS"]
      /\ UNCHANGED <<platform, stock, shop, sold, qty, taken, lastRead, seen, lastSent,
               crossed>>
  BY Kinds DEF TakeOff
<1>2. d \in Jobs /\ pc[d] \notin Before /\ "taken" \notin Before
  BY <1>1, Kinds DEF Before
<1>3. QED
  BY <1>1, <1>2, MoveIsQuiet

\* A web order goes off the stock, and is one that nobody has seen.
LEMMA TakeOffInStep ==
  ASSUME Typed, RowInv, SoldInv, LevelInv, ShopInv, NEW d \in Deliveries, TakeOff(d),
         linked
  PROVE  RowInv' /\ SoldInv' /\ LevelInv' /\ ShopInv'
<1> USE Kinds
<1> DEFINE o == OrderOf[d]
<1>1. /\ \A j \in Jobs : pc'[j] = IF j = d THEN "taken" ELSE pc[j]
      /\ \A k \in Changes \cup Deliveries : log'[k] = IF k = d THEN "SUCCESS" ELSE log[k]
      /\ o \in WebOrders
      /\ \A w \in WebOrders : /\ taken[w] \in Nat
                              /\ taken'[w] = IF w = o THEN taken[w] + 1 ELSE taken[w]
      /\ stock' = stock - 1
      /\ pc[d] = "checked"
      /\ UNCHANGED <<platform, shop, sold, qty, lastRead, seen, lastSent, crossed>>
  BY DEF TakeOff, Typed, TypeOK
<1> HIDE DEF o
<1>2. o \in sold
  BY <1>1 DEF RowInv, o
<1>3. RowInv'
  <2>1. \A s \in Changes : pc'[s] = pc[s] /\ log'[s] = log[s]
    BY <1>1
  <2>2. \A r \in Retries : pc'[r] = pc[r] /\ log'[RetryOf[r]] \in {log[RetryOf[r]], "SUCCESS"}
    BY <1>1, <2>1, SyncAssumption
  <2>3. \A s \in {lastRead, lastSent} \ {NoOne} : log'[s] = log[s]
    BY <2>1 DEF Typed, TypeOK
  <2>4. \A e \in Deliveries : pc'[e] # "idle" => OrderOf[e] \in sold
    BY <1>1, <1>2 DEF RowInv, o
  <2>5. QED
    BY <1>1, <2>1, <2>2, <2>3, <2>4 DEF RowInv
<1>4. Off' = Off \cup {o}
  BY <1>1 DEF Off
<1>5. SoldInv'
  BY <1>1, <1>2, <1>4 DEF SoldInv, SeenBy
<1>6. ShopInv'
  BY <1>1 DEF ShopInv, SeenBy, Carried
<1>7. LevelInv'
  <2> SUFFICES ASSUME \A w \in WebOrders : taken'[w] <= 1,
                      \A s \in Changes : pc'[s] \notin Unread
               PROVE  Carried(lastRead)
                        = Shown(stock - 1 + Cardinality((Off \cup {o}) \ SeenBy(lastRead)))
    BY <1>1, <1>4 DEF LevelInv, Carried, SeenBy, Shown, Unread
  <2>1. \A w \in WebOrders : taken[w] <= 1
    BY <1>1
  <2>2. \A s \in Changes : pc[s] \notin Unread
    BY <1>1
  <2>3. o \notin Off
    BY <1>1 DEF Off
  <2> DEFINE missed == Off \ SeenBy(lastRead)
  <2>4. SeenBy(lastRead) \subseteq Off
    BY DEF SoldInv, SeenBy, Typed, TypeOK
  <2>5. (Off \cup {o}) \ SeenBy(lastRead) = missed \cup {o} /\ o \notin missed
    BY <2>3, <2>4
  <2>6. IsFiniteSet(missed)
    BY FS_Subset DEF SoldInv
  <2>7. Cardinality(missed \cup {o}) = Cardinality(missed) + 1
    BY <2>5, <2>6, FS_AddElement
  <2>8. Cardinality(missed) \in Nat /\ stock \in Int
    BY <2>6, FS_CardinalityType DEF Typed, TypeOK
  <2>9. Carried(lastRead) = Shown(stock + Cardinality(missed))
    BY <2>1, <2>2 DEF LevelInv, Unread
  <2> HIDE DEF missed
  <2>10. stock - 1 + Cardinality(missed \cup {o}) = stock + Cardinality(missed)
    BY <2>7, <2>8
  <2>11. QED
    BY <2>5, <2>9, <2>10
<1>8. QED
  BY <1>3, <1>5, <1>6, <1>7

\* Whatever is sent, sold, taken off, retried or lost, the four parts hold.
LEMMA StoreStep == StoreInv /\ [Next]_vars => StoreInv'
<1> SUFFICES ASSUME StoreInv, [Next]_vars PROVE StoreInv'
  OBVIOUS
<1>1. SyncInv' /\ Typed
  BY StepInv DEF StoreInv, SyncInv, Typed
<1>2. CASE UNCHANGED vars
  BY <1>1, <1>2
     DEF StoreInv, RowInv, SoldInv, LevelInv, ShopInv, Off, SeenBy, Carried, Shown, vars,
         history
<1>3. CASE Next
  <2>1. RowInv' /\ SoldInv' /\ LevelInv' /\ ShopInv'
    BY <1>1, <1>3, StepCases, MostQuiet, QuietKeeps, CommitKeeps, EnqueueKeeps,
       UpdateStockKeeps, SellKeeps, PassOverQuiet, TakeOffInStep DEF StoreInv
  <2>2. QED
    BY <1>1, <2>1 DEF StoreInv
<1>4. QED
  BY <1>2, <1>3

\* What is queued, sent, sold and taken off always adds up: every step of the
\* jobs, of their queues and of the shop preserves the invariant.
THEOREM StoreInvariant == Spec => []StoreInv
<1>1. Init => StoreInv
  <2> SUFFICES ASSUME Init PROVE StoreInv
    OBVIOUS
  <2>1. SyncInv
    BY InitInv
  <2>2. Off = {} /\ SeenBy(lastRead) = {} /\ Carried(lastRead) = FirstStock
    BY DEF Init, Off, SeenBy, Carried
  <2>3. RowInv
    BY Kinds DEF Init, RowInv
  <2>4. SoldInv
    BY <2>2, FS_EmptySet DEF Init, SoldInv
  <2>5. FirstStock \in Nat /\ Cardinality({}) = 0 /\ FirstStock + 0 = FirstStock
        /\ FirstStock - 0 = FirstStock
    BY SyncAssumption, FS_EmptySet
  <2>6. LevelInv
    <3>1. Off \ SeenBy(lastRead) = {} /\ stock = FirstStock
      BY <2>2 DEF Init
    <3>2. Shown(FirstStock) = FirstStock
      BY <2>5 DEF Shown
    <3>3. QED
      BY <2>2, <2>5, <3>1, <3>2 DEF LevelInv
  <2>7. ShopInv
    <3>1. sold \ (SeenBy(lastSent) \cup crossed) = {} /\ shop = FirstStock
          /\ Carried(lastSent) = FirstStock
      BY DEF Init, Carried
    <3>2. QED
      BY <2>5, <3>1 DEF ShopInv
  <2>8. QED
    BY <2>1, <2>3, <2>4, <2>6, <2>7 DEF StoreInv
<1>2. QED
  BY <1>1, StoreStep, PTL DEF Spec

\* When everything is settled and what was read last was sent last, the shop
\* shows the stock and the web orders that were on their way across that job.
THEOREM SyncShopInStep == Spec => []ShopInStep
<1>1. StoreInv => ShopInStep
  <2> DEFINE due == stock + Cardinality(crossed)
  <2> SUFFICES ASSUME StoreInv, Settled, lastSent = lastRead
               PROVE  shop = IF platform = "woo" /\ due < 0 THEN 0 ELSE due
    BY DEF ShopInStep
  <2>1. TypeOK /\ SoldInv /\ LevelInv /\ ShopInv
    BY DEF StoreInv, SyncInv
  <2>2. Off = sold
    BY <2>1 DEF Settled, Off, SoldInv, TypeOK
  <2>3. \A o \in WebOrders : taken[o] <= 1
    BY <2>1, <2>2 DEF Settled, Off, TypeOK
  <2> DEFINE known == SeenBy(lastSent)
             missed == sold \ known
             rest == sold \ (known \cup crossed)
             level == stock + Cardinality(missed)
  <2>4. Carried(lastSent) = Shown(level)
    BY <2>1, <2>2, <2>3 DEF Settled, LevelInv
  <2>5. shop = Shown(level) - Cardinality(rest)
    BY <2>1, <2>4 DEF ShopInv
  \* What was not seen had crossed, or was sold after the quantity was sent.
  <2>6. Cardinality(missed) = Cardinality(rest) + Cardinality(crossed)
    <3>1. crossed \subseteq missed /\ IsFiniteSet(missed) /\ rest = missed \ crossed
      BY <2>1, FS_Subset DEF SoldInv
    <3>2. IsFiniteSet(crossed) /\ IsFiniteSet(rest) /\ crossed \cap rest = {}
          /\ missed = crossed \cup rest
      BY <3>1, FS_Subset
    <3> HIDE DEF missed, rest
    <3>3. Cardinality(crossed \cup rest)
            = Cardinality(crossed) + Cardinality(rest) - Cardinality(crossed \cap rest)
      BY <3>2, FS_Union
    <3>4. Cardinality(crossed) \in Nat /\ Cardinality(rest) \in Nat
          /\ Cardinality(crossed \cap rest) = 0
      BY <3>2, FS_CardinalityType, FS_EmptySet
    <3>5. QED
      BY <3>2, <3>3, <3>4
  <2>7. Cardinality(rest) \in Nat /\ Cardinality(crossed) \in Nat /\ stock \in Int
    <3>1. IsFiniteSet(rest) /\ IsFiniteSet(crossed)
      BY <2>1, FS_Subset DEF SoldInv
    <3>2. QED
      BY <2>1, <3>1, FS_CardinalityType DEF TypeOK
  <2>8. shop \in Int /\ (platform = "woo" => shop >= 0)
    BY <2>1 DEF TypeOK
  <2> HIDE DEF known, missed, rest
  <2>9. QED
    BY <2>5, <2>6, <2>7, <2>8 DEF Shown
<1>2. QED
  BY <1>1, StoreInvariant, PTL
=============================================================================
