----------------------- MODULE TenantBilling_proofs -----------------------
(***************************************************************************)
(* Proofs about TenantBilling, for any payments, notices and patches, any  *)
(* dates and any lengths of the month and of the grace periods.            *)
(***************************************************************************)
EXTENDS TenantBilling, TLAPS

\* The kinds of calls.
LEMMA Kinds ==
  /\ \A n \in PayNotices : n \in Notices /\ n \in Calls /\ n \notin SubNotices
                           /\ PaymentOf[n] \in Payments
  /\ \A n \in SubNotices : n \in Notices /\ n \in Calls /\ n \notin PayNotices
  /\ \A n \in Notices : n \in Calls /\ n \notin Patches
  /\ \A c \in Patches : c \in Calls /\ c \notin Notices /\ c \notin PayNotices
                        /\ c \notin SubNotices
  BY CallsAssumption DEF Calls, Notices

\* The invariant holds for a tenant that was just created.
LEMMA InitInv == Init => BillingInv
<1> SUFFICES ASSUME Init PROVE BillingInv
  OBVIOUS
<1> USE Kinds, CallsAssumption DEF Init
<1>1. TypeOK
  BY DEF TypeOK, Statuses, Policies, PurgeStates
<1>2. PaymentInv /\ SubscriptionInv
  BY DEF PaymentInv, SubscriptionInv, Busy
<1>3. Credited = {}
  BY DEF Credited
<1>4. OneMonthPerPayment /\ PurgeInv /\ PurgeSparesPaid
  BY <1>3 DEF OneMonthPerPayment, PurgeInv, PurgeSparesPaid
<1>5. QED
  BY <1>1, <1>2, <1>4 DEF BillingInv

-----------------------------------------------------------------------------
(* Types, one action at a time.                                            *)

\* A period is extended by a month at least.
LEMMA ExtendedType ==
  ASSUME NEW end \in Nat, today \in Nat
  PROVE  Extended(end) \in Nat /\ Extended(end) >= end + Month
                               /\ Extended(end) >= today + Month
  BY CallsAssumption DEF Extended

\* The end of a call keeps the types of what it forgets.
LEMMA EndType ==
  ASSUME TypeOK, NEW n \in Notices, End(n)
  PROVE  /\ pc' \in [Calls -> {"start"} \cup Busy \cup Ended]
         /\ got' \in [Notices -> {"none"} \cup PayStates \cup SubStates]
         /\ readEnd' \in [PayNotices -> Nat]
         /\ readTier' \in [PayNotices -> {"demo", "standard"}]
         /\ due' \in [PayNotices -> Nat]
<1> USE Kinds
<1>1. CASE n \in PayNotices
  BY <1>1 DEF End, TypeOK, Ended
<1>2. CASE n \notin PayNotices
  BY <1>2 DEF End, TypeOK, Ended
<1>3. QED
  BY <1>1, <1>2

\* The tier stays one of the two.
LEMMA ConvertType ==
  ASSUME tier \in {"demo", "standard"}, NEW t, ConvertDemoIfPaid(t)
  PROVE  tier' \in {"demo", "standard"}
  BY DEF ConvertDemoIfPaid

\* What a payment notice does.
LEMMA PaymentTyped ==
  ASSUME TypeOK, NEW n \in PayNotices, Fetch(n, PayStates) \/ ApplyPayment(n)
  PROVE  TypeOK'
<1> USE Kinds, CallsAssumption
<1>1. CASE Fetch(n, PayStates)
  BY <1>1 DEF Fetch, TypeOK, Busy, row
<1>2. CASE ReadTenant(n)
  BY <1>2, ExtendedType DEF ReadTenant, TypeOK, Busy, row
<1>3. CASE Record(n)
  BY <1>3 DEF Record, TypeOK, Busy, row, local
<1>4. CASE Duplicate(n)
  BY <1>4, EndType DEF Duplicate, TypeOK, row
<1>5. Key(n) \in Payments \X {"authorized", "payment"}
  BY DEF Key
<1>6. CASE Credit(n)
  <2>1. settled' \subseteq Notices
    BY <1>6 DEF Credit, Settle, TypeOK
  <2>2. tier' \in {"demo", "standard"}
    BY <1>6, ConvertType DEF Credit, TypeOK
  <2>3. periodEnd' \in Nat /\ status' \in Statuses /\ events' \subseteq Payments \X {"authorized", "payment"}
    BY <1>5, <1>6 DEF Credit, TypeOK, Statuses
  <2>4. pc' \in [Calls -> {"start"} \cup Busy \cup Ended]
    BY <1>6 DEF Credit, TypeOK, Ended
  <2>5. fresh' \in BOOLEAN /\ disturbed' \in BOOLEAN
    BY <1>6 DEF Credit, CommitEvent, TypeOK
  <2>6. readEnd' \in [PayNotices -> Nat] /\ readTier' \in [PayNotices -> {"demo", "standard"}]
    BY <1>6 DEF Credit, TypeOK
  <2>7. QED
    BY <1>6, <2>1, <2>2, <2>3, <2>4, <2>5, <2>6 DEF Credit, TypeOK
<1>7. CASE NotePayment(n)
  <2>1. status' \in Statuses /\ events' \subseteq Payments \X {"authorized", "payment"}
    BY <1>5, <1>7 DEF NotePayment, TypeOK, Statuses
  <2>2. fresh' \in BOOLEAN
    BY <1>7 DEF NotePayment, CommitEvent, TypeOK
  <2>3. QED
    BY <1>7, <2>1, <2>2, EndType DEF NotePayment, TypeOK
<1>8. QED
  BY <1>1, <1>2, <1>3, <1>4, <1>6, <1>7 DEF ApplyPayment

\* What a notice of the subscription does.
LEMMA SubscriptionTyped ==
  ASSUME TypeOK, NEW n \in SubNotices, Fetch(n, SubStates) \/ ApplyPreapprovalStatus(n)
  PROVE  TypeOK'
<1> USE Kinds, CallsAssumption
<1>1. CASE Fetch(n, SubStates)
  BY <1>1 DEF Fetch, TypeOK, Busy, row
<1>2. CASE ApplyPreapprovalStatus(n)
  <2>1. status' \in Statuses
    BY <1>2 DEF ApplyPreapprovalStatus, MapPreapprovalStatus, Statuses
  <2>2. tier' \in {"demo", "standard"} /\ settled' \subseteq Notices
    BY <1>2, ConvertType DEF ApplyPreapprovalStatus, Settle, TypeOK
  <2>3. fresh' \in BOOLEAN
    BY <1>2 DEF ApplyPreapprovalStatus, CommitEvent, TypeOK
  <2>4. QED
    BY <1>2, <2>1, <2>2, <2>3, EndType DEF ApplyPreapprovalStatus, TypeOK
<1>3. QED
  BY <1>1, <1>2

\* What the staff, the purge, a failure and the calendar do.
LEMMA OthersTyped ==
  ASSUME TypeOK,
         \/ \E c \in Patches : UpdateFromPlatform(c)
         \/ \E n \in Notices : Drop(n)
         \/ PurgeExpired
         \/ Tick
  PROVE  TypeOK'
<1> USE Kinds, CallsAssumption
<1>1. CASE \E c \in Patches : UpdateFromPlatform(c)
  <2>1. PICK c \in Patches : UpdateFromPlatform(c)
    BY <1>1
  <2>2. fresh' \in BOOLEAN /\ disturbed' \in BOOLEAN
    BY <2>1 DEF UpdateFromPlatform, CommitEvent, TypeOK
  <2>3. pc' \in [Calls -> {"start"} \cup Busy \cup Ended]
    BY <2>1 DEF UpdateFromPlatform, TypeOK, Ended
  <2>4. status' \in Statuses /\ policy' \in Policies /\ periodEnd' \in Nat
    BY <2>1 DEF UpdateFromPlatform, TypeOK
  <2>5. QED
    BY <2>1, <2>2, <2>3, <2>4 DEF UpdateFromPlatform, TypeOK, local
<1>2. CASE \E n \in Notices : Drop(n)
  BY <1>2, EndType DEF Drop, TypeOK, row
<1>3. CASE PurgeExpired
  BY <1>3 DEF PurgeExpired, ListExpired, CheckDemo, DeleteEvents, DeleteTenant,
              PurgeFails, TypeOK, PurgeStates, row, local
<1>4. CASE Tick
  BY <1>4 DEF Tick, TypeOK, row, local
<1>5. QED
  BY <1>1, <1>2, <1>3, <1>4

-----------------------------------------------------------------------------
(* The payments in hand.                                                   *)

\* Nothing of notice k changes.
Still(k) ==
  /\ pc'[k] = pc[k] /\ got'[k] = got[k]
  /\ readEnd'[k] = readEnd[k] /\ readTier'[k] = readTier[k] /\ due'[k] = due[k]

\* What PaymentInv says of one notice.
Payment(n) ==
  /\ pc[n] \in Busy \cup {"credited"} => got[n] \in PayStates
  /\ pc[n] \in {"read", "recorded"} =>
       /\ due[n] >= readEnd[n] + Month
       /\ readTier[n] = "standard" => tier = "standard"
  /\ pc[n] = "recorded" =>
       exists /\ Key(n) \notin events /\ Inserting(n) = {}
  /\ pc[n] = "credited" =>
       got[n] = "approved" /\ (exists => Key(n) \in events)

LEMMA PaymentParts == PaymentInv <=> \A n \in PayNotices : Payment(n)
  BY DEF PaymentInv, Payment

\* A notice that waits on its own has no rival for its row after a step that
\* inserts none.
LEMMA RivalsGone ==
  ASSUME NEW k \in PayNotices, Inserting(k) = {}, Still(k),
         \A j \in PayNotices \ {k} : pc'[j] = "recorded" => Still(j)
  PROVE  Inserting(k)' = {}
  BY DEF Inserting, Still, Key

\* A notice that a step leaves alone keeps what is said of it, provided the
\* tier does not go back and no event of its key appears or disappears.
LEMMA StillPayment ==
  ASSUME NEW k \in PayNotices, Payment(k), Still(k),
         tier = "standard" => tier' = "standard",
         exists' => exists,
         pc[k] = "recorded" =>
           exists' /\ (Key(k) \notin events => Key(k) \notin events')
           /\ (Inserting(k) = {} => Inserting(k)' = {}),
         exists' /\ Key(k) \in events => Key(k) \in events'
  PROVE  Payment(k)'
<1>1. Key(k)' = Key(k)
  BY DEF Still, Key
<1>2. QED
  BY <1>1 DEF Still, Payment

\* A step of notice n leaves the others alone.
LEMMA OthersStill ==
  ASSUME TypeOK, NEW n \in Notices,
         \/ \E S \in {PayStates, SubStates} : Fetch(n, S)
         \/ n \in PayNotices /\ ApplyPayment(n)
         \/ n \in SubNotices /\ ApplyPreapprovalStatus(n)
         \/ Drop(n)
  PROVE  \A k \in PayNotices \ {n} : Still(k)
<1> USE Kinds
<1> SUFFICES ASSUME NEW k \in PayNotices \ {n} PROVE Still(k)
  OBVIOUS
<1>1. End(n) => Still(k)
  BY DEF End, Still, TypeOK
<1>2. CASE \E S \in {PayStates, SubStates} : Fetch(n, S)
  BY <1>2 DEF Fetch, Still, TypeOK
<1>3. CASE n \in PayNotices /\ ApplyPayment(n)
  BY <1>1, <1>3 DEF ApplyPayment, ReadTenant, Record, Duplicate, Credit, NotePayment,
                    Still, TypeOK, local
<1>4. CASE n \in SubNotices /\ ApplyPreapprovalStatus(n)
  BY <1>1, <1>4 DEF ApplyPreapprovalStatus
<1>5. CASE Drop(n)
  BY <1>1, <1>5 DEF Drop
<1>6. QED
  BY <1>2, <1>3, <1>4, <1>5

\* Nothing turns a standard tenant into a demo.
LEMMA TierStays ==
  ASSUME [Next]_vars
  PROVE  tier = "standard" => tier' = "standard"
  BY DEF Next, vars, Handle, ApplyPayment, PurgeExpired, Fetch, ReadTenant, Record,
         Duplicate, Credit, NotePayment, ApplyPreapprovalStatus, ConvertDemoIfPaid,
         Drop, UpdateFromPlatform, ListExpired, CheckDemo, DeleteEvents,
         DeleteTenant, PurgeFails, Tick, row

\* Steps of a notice that insert no row and commit none.
LEMMA WaitKeeps ==
  ASSUME TypeOK, PaymentInv, NEW n \in Notices,
         \/ n \in PayNotices /\ (Fetch(n, PayStates) \/ ReadTenant(n) \/ Duplicate(n))
         \/ n \in SubNotices /\ (Fetch(n, SubStates) \/ ApplyPreapprovalStatus(n))
         \/ Drop(n)
  PROVE  PaymentInv'
<1> USE Kinds
<1>1. \A k \in PayNotices \ {n} : Still(k)
  BY OthersStill DEF ApplyPayment
<1>2. events' = events /\ exists' = exists /\ (tier = "standard" => tier' = "standard")
  BY DEF Fetch, ReadTenant, Duplicate, ApplyPreapprovalStatus, ConvertDemoIfPaid, Drop, row
<1>3. pc'[n] \in {"fetched", "read", "done"}
  BY DEF Fetch, ReadTenant, Duplicate, ApplyPreapprovalStatus, Drop, End, TypeOK
<1>4. \A k \in PayNotices \ {n} : Payment(k)'
  <2> SUFFICES ASSUME NEW k \in PayNotices \ {n} PROVE Payment(k)'
    OBVIOUS
  <2>1. Payment(k) /\ Still(k)
    BY <1>1, PaymentParts
  <2>2. Inserting(k) = {} => Inserting(k)' = {}
    BY <1>1, <1>3, <2>1, RivalsGone
  <2>3. pc[k] = "recorded" => exists
    BY <2>1 DEF Payment
  <2>4. QED
    BY <1>2, <2>1, <2>2, <2>3, StillPayment
<1>5. n \in PayNotices => Payment(n)'
  <2> SUFFICES ASSUME n \in PayNotices PROVE Payment(n)'
    OBVIOUS
  <2>1. CASE Fetch(n, PayStates)
    BY <2>1 DEF Fetch, Payment, TypeOK
  <2>2. CASE ReadTenant(n)
    <3>1. pc'[n] = "read" /\ due'[n] = Extended(periodEnd) /\ readEnd'[n] = periodEnd
          /\ readTier'[n] = tier /\ got'[n] = got[n] /\ tier' = tier
      BY <2>2 DEF ReadTenant, TypeOK, row
    <3>2. got[n] \in PayStates
      BY <2>2 DEF ReadTenant, PaymentInv, Busy
    <3>3. due'[n] >= readEnd'[n] + Month
      BY <3>1, ExtendedType DEF TypeOK
    <3>4. QED
      BY <3>1, <3>2, <3>3 DEF Payment
  <2>3. CASE Duplicate(n) \/ Drop(n)
    <3>1. pc'[n] = "done"
      BY <2>3 DEF Duplicate, Drop, End, TypeOK
    <3>2. QED
      BY <3>1 DEF Payment, Busy
  <2>4. QED
    BY <2>1, <2>2, <2>3
<1>6. QED
  BY <1>4, <1>5, PaymentParts DEF PaymentInv, Payment

\* The insert: the row is nobody else's.
LEMMA RecordKeeps ==
  ASSUME TypeOK, PaymentInv, NEW n \in PayNotices, Record(n)
  PROVE  PaymentInv'
<1> USE Kinds
<1>1. \A k \in PayNotices \ {n} : Still(k)
  BY OthersStill DEF ApplyPayment
<1>2. events' = events /\ exists' = exists /\ tier' = tier /\ exists
  BY DEF Record, row
<1>3. pc[n] = "read" /\ pc'[n] = "recorded" /\ Inserting(n) = {} /\ Key(n) \notin events
  BY DEF Record, TypeOK
<1>4. got' = got /\ due' = due /\ readEnd' = readEnd /\ readTier' = readTier
  BY DEF Record, local
<1>5. \A k \in PayNotices : Key(k)' = Key(k)
  BY <1>4 DEF Key
<1>6. \A k \in PayNotices \ {n} : Payment(k)'
  <2> SUFFICES ASSUME NEW k \in PayNotices \ {n} PROVE Payment(k)'
    OBVIOUS
  <2>1. Payment(k) /\ Still(k)
    BY <1>1, PaymentParts
  <2>2. pc[k] = "recorded" => Key(k) # Key(n)
    BY <1>3 DEF Inserting
  <2>3. pc[k] = "recorded" /\ Inserting(k) = {} => Inserting(k)' = {}
    <3> SUFFICES ASSUME pc[k] = "recorded", Inserting(k) = {},
                        NEW j \in PayNotices \ {k}, pc'[j] = "recorded",
                        Key(j)' = Key(k)'
                 PROVE  FALSE
      BY DEF Inserting
    <3>1. j # n
      BY <1>5, <2>2
    <3>2. pc[j] = "recorded" /\ Key(j) = Key(k)
      BY <1>1, <1>5, <3>1 DEF Still
    <3>3. QED
      BY <3>2 DEF Inserting
  <2>4. QED
    BY <1>2, <2>1, <2>3, StillPayment
<1>7. Payment(n)'
  <2>1. Payment(n)
    BY PaymentParts
  <2>2. Inserting(n)' = {}
    BY <1>1, <1>3, <1>5 DEF Inserting, Still
  <2>3. QED
    BY <1>2, <1>3, <1>4, <1>5, <2>1, <2>2 DEF Payment, Busy
<1>8. QED
  BY <1>6, <1>7, PaymentParts DEF PaymentInv, Payment

\* The commit of a payment's row, credited or not.
LEMMA CommitKeeps ==
  ASSUME TypeOK, PaymentInv, NEW n \in PayNotices, Credit(n) \/ NotePayment(n)
  PROVE  PaymentInv'
<1> USE Kinds
<1>1. \A k \in PayNotices \ {n} : Still(k)
  BY OthersStill DEF ApplyPayment
<1>2. events' = events \cup {Key(n)} /\ exists' = exists
      /\ (tier = "standard" => tier' = "standard") /\ pc[n] = "recorded"
  BY DEF Credit, NotePayment, ConvertDemoIfPaid
<1>3. pc'[n] \in {"credited", "done"}
  BY DEF Credit, NotePayment, End, TypeOK
<1>4. Inserting(n) = {}
  BY <1>2, PaymentParts DEF Payment
<1>5. \A k \in PayNotices \ {n} : Payment(k)'
  <2> SUFFICES ASSUME NEW k \in PayNotices \ {n} PROVE Payment(k)'
    OBVIOUS
  <2>1. Payment(k) /\ Still(k)
    BY <1>1, PaymentParts
  <2>2. pc[k] = "recorded" => Key(k) # Key(n)
    BY <1>4 DEF Inserting
  <2>3. Inserting(k) = {} => Inserting(k)' = {}
    BY <1>1, <1>3, <2>1, RivalsGone
  <2>4. pc[k] = "recorded" => exists
    BY <2>1 DEF Payment
  <2>5. QED
    BY <1>2, <2>1, <2>2, <2>3, <2>4, StillPayment
<1>6. Payment(n)'
  <2>1. CASE Credit(n)
    <3>1. pc'[n] = "credited" /\ got[n] = "approved" /\ got' = got
      BY <2>1 DEF Credit, TypeOK
    <3>2. Key(n)' = Key(n)
      BY <3>1 DEF Key
    <3>3. QED
      BY <1>2, <3>1, <3>2 DEF Payment, PayStates, Busy
  <2>2. CASE NotePayment(n)
    <3>1. pc'[n] = "done"
      BY <2>2 DEF NotePayment, End, TypeOK
    <3>2. QED
      BY <3>1 DEF Payment, Busy
  <2>3. QED
    BY <2>1, <2>2
<1>7. QED
  BY <1>5, <1>6, PaymentParts DEF PaymentInv, Payment

\* The staff, the purge and the calendar hold no payment.
LEMMA OthersKeep ==
  ASSUME TypeOK, PaymentInv,
         (\E c \in Patches : UpdateFromPlatform(c)) \/ PurgeExpired \/ Tick
  PROVE  PaymentInv'
<1> USE Kinds
<1>1. \A k \in PayNotices : Still(k)
  BY DEF UpdateFromPlatform, PurgeExpired, ListExpired, CheckDemo, DeleteEvents,
         DeleteTenant, PurgeFails, Tick, Still, TypeOK, local
<1>2. tier' = tier
  BY DEF UpdateFromPlatform, PurgeExpired, ListExpired, CheckDemo, DeleteEvents,
         DeleteTenant, PurgeFails, Tick, row
<1>3. \/ exists' = exists /\ events' = events
      \/ exists' = FALSE /\ \A k \in PayNotices : pc[k] # "recorded"
  BY DEF UpdateFromPlatform, PurgeExpired, ListExpired, CheckDemo, DeleteEvents,
         DeleteTenant, PurgeFails, Tick, row
<1>4. exists' => exists
  BY <1>3 DEF TypeOK
<1> SUFFICES ASSUME NEW k \in PayNotices PROVE Payment(k)'
  BY PaymentParts DEF PaymentInv, Payment
<1>5. Payment(k)
  BY PaymentParts
<1>6. Inserting(k) = {} => Inserting(k)' = {}
  BY <1>1, RivalsGone
<1>7. pc[k] = "recorded" => exists
  BY <1>5 DEF Payment
<1>8. QED
  BY <1>1, <1>2, <1>3, <1>4, <1>5, <1>6, <1>7, StillPayment

-----------------------------------------------------------------------------
(* The months and the purge.                                               *)

\* What a step of Next can be.
LEMMA StepCases ==
  ASSUME Next
  PROVE  \/ \E n \in PayNotices : Fetch(n, PayStates) \/ ReadTenant(n) \/ Duplicate(n)
         \/ \E n \in SubNotices : Fetch(n, SubStates) \/ ApplyPreapprovalStatus(n)
         \/ \E n \in Notices : Drop(n)
         \/ \E n \in PayNotices : Record(n)
         \/ \E n \in PayNotices : Credit(n) \/ NotePayment(n)
         \/ (\E c \in Patches : UpdateFromPlatform(c)) \/ PurgeExpired \/ Tick
  BY DEF Next, Handle, ApplyPayment, Notices

\* Every step keeps the types.
LEMMA StepTyped ==
  ASSUME TypeOK, Next
  PROVE  TypeOK'
  BY StepCases, PaymentTyped, SubscriptionTyped, OthersTyped DEF ApplyPayment

\* Every step keeps what is known of the payments in hand.
LEMMA StepPayment ==
  ASSUME TypeOK, PaymentInv, Next
  PROVE  PaymentInv'
  BY StepCases, WaitKeeps, RecordKeeps, CommitKeeps, OthersKeep, Kinds

\* A notice of the subscription is fetched, then applied or dropped.
LEMMA StepSubscription ==
  ASSUME TypeOK, SubscriptionInv, Next
  PROVE  SubscriptionInv'
<1> USE Kinds
<1> SUFFICES ASSUME NEW k \in SubNotices
             PROVE  /\ pc'[k] \in {"start", "fetched", "done"}
                    /\ pc'[k] = "fetched" => got'[k] \in SubStates
  BY DEF SubscriptionInv
<1>1. pc[k] \in {"start", "fetched", "done"} /\ (pc[k] = "fetched" => got[k] \in SubStates)
  BY DEF SubscriptionInv
<1>2. CASE \E n \in PayNotices : Fetch(n, PayStates) \/ ApplyPayment(n)
  BY <1>1, <1>2 DEF Fetch, ApplyPayment, ReadTenant, Record, Duplicate, Credit,
                    NotePayment, End, TypeOK, local
<1>3. CASE \E n \in SubNotices : Fetch(n, SubStates) \/ ApplyPreapprovalStatus(n)
  BY <1>1, <1>3 DEF Fetch, ApplyPreapprovalStatus, End, TypeOK
<1>4. CASE \E n \in Notices : Drop(n)
  BY <1>1, <1>4 DEF Drop, End, TypeOK
<1>5. CASE (\E c \in Patches : UpdateFromPlatform(c)) \/ PurgeExpired \/ Tick
  BY <1>1, <1>5 DEF UpdateFromPlatform, PurgeExpired, ListExpired, CheckDemo,
         DeleteEvents, DeleteTenant, PurgeFails, Tick, TypeOK, local
<1>6. QED
  BY <1>2, <1>3, <1>4, <1>5, StepCases DEF ApplyPayment

\* A step that credits nothing leaves the credited notices as they are.
LEMMA CreditedStays ==
  ASSUME TypeOK, Next, \A n \in PayNotices : ~ Credit(n)
  PROVE  Credited' = Credited /\ \A n \in Credited : due'[n] = due[n]
<1> USE Kinds
<1>1. \A k \in PayNotices : /\ (pc'[k] = "credited") <=> (pc[k] = "credited")
                            /\ pc[k] = "credited" => due'[k] = due[k]
  <2> SUFFICES ASSUME NEW k \in PayNotices
               PROVE  /\ (pc'[k] = "credited") <=> (pc[k] = "credited")
                      /\ pc[k] = "credited" => due'[k] = due[k]
    OBVIOUS
  <2>1. CASE \E n \in PayNotices : Fetch(n, PayStates) \/ ReadTenant(n) \/ Duplicate(n)
    BY <2>1 DEF Fetch, ReadTenant, Duplicate, End, TypeOK
  <2>2. CASE \E n \in SubNotices : Fetch(n, SubStates) \/ ApplyPreapprovalStatus(n)
    BY <2>2 DEF Fetch, ApplyPreapprovalStatus, End, TypeOK
  <2>3. CASE \E n \in Notices : Drop(n)
    BY <2>3 DEF Drop, End, TypeOK, Busy
  <2>4. CASE \E n \in PayNotices : Record(n) \/ NotePayment(n)
    BY <2>4 DEF Record, NotePayment, End, TypeOK, local
  <2>5. CASE (\E c \in Patches : UpdateFromPlatform(c)) \/ PurgeExpired \/ Tick
    BY <2>5 DEF UpdateFromPlatform, PurgeExpired, ListExpired, CheckDemo,
         DeleteEvents, DeleteTenant, PurgeFails, Tick, TypeOK, local
  <2>6. QED
    BY <2>1, <2>2, <2>3, <2>4, <2>5, StepCases
<1>2. \A k : k \in Credited' <=> k \in Credited
  BY <1>1 DEF Credited
<1>3. \A n \in Credited : due'[n] = due[n]
  BY <1>1 DEF Credited
<1>4. Credited' = Credited
  BY <1>2 DEF Credited
<1>5. QED
  BY <1>3, <1>4

\* A credit adds a month after the last, or is known to be out of date.
LEMMA StepMonths ==
  ASSUME TypeOK, PaymentInv, OneMonthPerPayment, Next
  PROVE  OneMonthPerPayment'
<1> USE Kinds, CallsAssumption
<1>1. CASE \A n \in PayNotices : ~ Credit(n)
  <2>1. Credited' = Credited /\ \A n \in Credited : due'[n] = due[n]
    BY <1>1, CreditedStays
  <2>2. disturbed' \/ (disturbed' = disturbed /\ periodEnd' = periodEnd)
    <3>1. CASE \E c \in Patches : UpdateFromPlatform(c)
      BY <3>1 DEF UpdateFromPlatform, TypeOK
    <3>2. CASE ~ \E c \in Patches : UpdateFromPlatform(c)
      BY <1>1, <3>2, StepCases DEF Fetch, ReadTenant, Duplicate, ApplyPreapprovalStatus,
         Drop, Record, NotePayment, PurgeExpired, ListExpired, CheckDemo,
         DeleteEvents, DeleteTenant, PurgeFails, Tick, row
    <3>3. QED
      BY <3>1, <3>2
  <2>3. disturbed => disturbed'
    BY <1>1, StepCases DEF Fetch, ReadTenant, Duplicate, ApplyPreapprovalStatus,
       Drop, Record, NotePayment, PurgeExpired, ListExpired, CheckDemo,
       DeleteEvents, DeleteTenant, PurgeFails, Tick, UpdateFromPlatform
  <2>4. QED
    BY <2>1, <2>2, <2>3 DEF OneMonthPerPayment
<1>2. CASE \E n \in PayNotices : Credit(n)
  <2>1. PICK n \in PayNotices : Credit(n)
    BY <1>2
  <2>2. due' = due /\ periodEnd' = due[n] /\ pc[n] = "recorded" /\ got[n] = "approved"
        /\ (disturbed \/ readEnd[n] # periodEnd => disturbed')
    BY <2>1 DEF Credit, TypeOK
  <2>3. Credited' = Credited \cup {n}
    BY <2>1 DEF Credit, Credited, TypeOK
  <2>4. exists /\ Key(n) \notin events /\ due[n] >= readEnd[n] + Month
    BY <2>2 DEF PaymentInv
  <2>5. due \in [PayNotices -> Nat] /\ periodEnd \in Nat /\ readEnd \in [PayNotices -> Nat]
    BY DEF TypeOK
  <2>6. \A k \in Credited :
          /\ PaymentOf[n] # PaymentOf[k]
          /\ disturbed' \/ due[n] >= due[k] + Month
    <3> SUFFICES ASSUME NEW k \in Credited
                 PROVE  /\ PaymentOf[n] # PaymentOf[k]
                        /\ disturbed' \/ due[n] >= due[k] + Month
      OBVIOUS
    <3>1. got[k] = "approved" /\ Key(k) \in events /\ k \in PayNotices
      BY <2>4 DEF PaymentInv, Credited
    <3>2. PaymentOf[n] # PaymentOf[k]
      BY <2>2, <2>4, <3>1 DEF Key
    <3>3. disturbed \/ periodEnd >= due[k]
      BY DEF OneMonthPerPayment
    <3>4. QED
      BY <2>2, <2>4, <2>5, <3>1, <3>2, <3>3
  <2>7. \A k \in Credited \cup {n} : disturbed' \/ due[n] >= due[k]
    BY <2>5, <2>6 DEF Credited
  <2>8. \A k, m \in Credited : k # m =>
          /\ PaymentOf[k] # PaymentOf[m]
          /\ disturbed' \/ due[k] >= due[m] + Month \/ due[m] >= due[k] + Month
    BY <2>2 DEF OneMonthPerPayment
  <2>9. QED
    BY <2>2, <2>3, <2>6, <2>7, <2>8 DEF OneMonthPerPayment
<1>3. QED
  BY <1>1, <1>2

\* A conversion leaves a standard tenant.
LEMMA Converted ==
  ASSUME tier \in {"demo", "standard"}, NEW t, ConvertDemoIfPaid(t), t = tier
  PROVE  tier' = "standard"
  BY DEF ConvertDemoIfPaid

\* Who pays while the purge is at work is seen by its check or by the foreign
\* key, or pays between the two.
LEMMA StepPurge ==
  ASSUME TypeOK, PaymentInv, PurgeInv, PurgeSparesPaid, Next
  PROVE  PurgeInv' /\ PurgeSparesPaid'
<1> USE Kinds
<1>1. CASE \E n \in PayNotices : Credit(n)
  <2>1. PICK n \in PayNotices : Credit(n)
    BY <1>1
  <2>2. exists /\ exists' = exists /\ purge' = purge /\ fresh' = (fresh \/ purge = "cleared")
    BY <2>1 DEF Credit, CommitEvent, PaymentInv
  <2>3. tier' = "standard"
    BY <2>1 DEF Credit, ConvertDemoIfPaid, PaymentInv, TypeOK
  <2>4. settled' = IF purge = "checked" THEN settled ELSE settled \cup {n}
    BY <2>1 DEF Credit, Settle
  <2>5. QED
    BY <2>2, <2>3, <2>4 DEF PurgeInv, PurgeSparesPaid
<1>2. CASE \E n \in SubNotices : ApplyPreapprovalStatus(n)
  <2>1. PICK n \in SubNotices : ApplyPreapprovalStatus(n)
    BY <1>2
  <2>2. exists /\ exists' = exists /\ purge' = purge /\ fresh' = (fresh \/ purge = "cleared")
    BY <2>1 DEF ApplyPreapprovalStatus, CommitEvent
  <2>3. Credited' = Credited
    BY <2>1, CreditedStays, StepCases DEF ApplyPreapprovalStatus, End, Credited, TypeOK
  <2>4. CASE status' = "ACTIVE"
    <3>1. tier' = "standard"
      BY <2>1, <2>4 DEF ApplyPreapprovalStatus, ConvertDemoIfPaid, TypeOK
    <3>2. settled' = IF purge = "checked" THEN settled ELSE settled \cup {n}
      BY <2>1, <2>4 DEF ApplyPreapprovalStatus, Settle
    <3>3. QED
      BY <2>2, <3>1, <3>2 DEF PurgeInv, PurgeSparesPaid
  <2>5. CASE status' # "ACTIVE"
    <3>1. tier' = tier /\ settled' = settled
      BY <2>1, <2>5 DEF ApplyPreapprovalStatus
    <3>2. QED
      BY <2>2, <2>3, <3>1 DEF PurgeInv, PurgeSparesPaid
  <2>6. QED
    BY <2>4, <2>5
<1>3. CASE /\ \A n \in PayNotices : ~ Credit(n)
           /\ \A n \in SubNotices : ~ ApplyPreapprovalStatus(n)
  <2>1. Credited' = Credited
    BY <1>3, CreditedStays
  <2>2. tier' = tier /\ settled' = settled
    BY <1>3, StepCases DEF Fetch, ReadTenant, Duplicate, Drop, Record, NotePayment,
       PurgeExpired, ListExpired, CheckDemo, DeleteEvents, DeleteTenant, PurgeFails,
       Tick, UpdateFromPlatform, row
  <2>3. CASE PurgeExpired
    BY <2>1, <2>2, <2>3 DEF PurgeExpired, ListExpired, CheckDemo, DeleteEvents,
       DeleteTenant, PurgeFails, Referenced, PurgeInv, PurgeSparesPaid, TypeOK, row
  <2>4. CASE ~ PurgeExpired
    <3>1. exists' = exists /\ purge' = purge
      BY <1>3, <2>4, StepCases DEF Fetch, ReadTenant, Duplicate, Drop, Record,
         NotePayment, Tick, UpdateFromPlatform, row
    <3>2. fresh' = fresh \/ fresh' = (fresh \/ purge = "cleared")
      BY <1>3, <2>4, StepCases DEF Fetch, ReadTenant, Duplicate, Drop, Record,
         NotePayment, Tick, UpdateFromPlatform, CommitEvent
    <3>3. QED
      BY <2>1, <2>2, <3>1, <3>2 DEF PurgeInv, PurgeSparesPaid, TypeOK
  <2>5. QED
    BY <2>3, <2>4
<1>4. QED
  BY <1>1, <1>2, <1>3

-----------------------------------------------------------------------------
(* The invariant and what follows from it.                                 *)

\* BillingInv is inductive: no notice, change, purge, failure or day takes the
\* tenant out of it.
LEMMA StepInv == BillingInv /\ [Next]_vars => BillingInv'
<1> SUFFICES ASSUME BillingInv, [Next]_vars PROVE BillingInv'
  OBVIOUS
<1>1. CASE UNCHANGED vars
  BY <1>1 DEF BillingInv, TypeOK, PaymentInv, SubscriptionInv, OneMonthPerPayment,
     PurgeInv, PurgeSparesPaid, Credited, Inserting, Key, vars, row, local
<1>2. CASE Next
  BY <1>2, StepTyped, StepPayment, StepSubscription, StepMonths, StepPurge DEF BillingInv
<1>3. QED
  BY <1>1, <1>2

\* Every reachable state satisfies the invariant.
THEOREM BillingInvariant == Spec => []BillingInv
<1>1. QED
  BY InitInv, StepInv, PTL DEF Spec

\* The state keeps its types: no status but the four of the schema is stored.
THEOREM BillingTypeOK == Spec => []TypeOK
<1>1. BillingInv => TypeOK
  BY DEF BillingInv
<1>2. QED
  BY <1>1, BillingInvariant, PTL

\* Two credited months are of different payments and apart, unless a credit
\* used an outdated period end or the staff moved it.
THEOREM BillingOneMonthPerPayment == Spec => []OneMonthPerPayment
<1>1. BillingInv => OneMonthPerPayment
  BY DEF BillingInv
<1>2. QED
  BY <1>1, BillingInvariant, PTL

\* A tenant within the period it paid is never refused a request.
THEOREM BillingPaidNotBlocked == Spec => []PaidNotBlocked
<1>1. BillingInv => PaidNotBlocked
  <2> SUFFICES ASSUME BillingInv, Credited # {}, periodEnd > today
               PROVE  ~ BlocksWrites
    BY DEF PaidNotBlocked
  <2>1. tier = "standard"
    BY DEF BillingInv, PurgeInv
  <2>2. EffectiveState = "ACTIVE"
    BY DEF BillingInv, TypeOK, EffectiveState, ByDate
  <2>3. QED
    BY <2>1, <2>2 DEF BlocksWrites, BlocksAccess, Overdue
<1>2. QED
  BY <1>1, BillingInvariant, PTL

\* The purge deletes no tenant that paid before its check or after it deleted
\* the events.
THEOREM BillingPurgeSparesPaid == Spec => []PurgeSparesPaid
<1>1. BillingInv => PurgeSparesPaid
  BY DEF BillingInv
<1>2. QED
  BY <1>1, BillingInvariant, PTL
=============================================================================
