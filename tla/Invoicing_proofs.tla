------------------------- MODULE Invoicing_proofs -------------------------
(***************************************************************************)
(* Proofs about Invoicing, for any orders and calls.                       *)
(***************************************************************************)
EXTENDS Invoicing, TLAPS

\* The kinds of calls, and the series they number in.
LEMMA Kinds ==
  /\ \A c \in Tickets : /\ c \in Issues /\ c \in Calls /\ c \notin Fiscals
                        /\ c \notin Cancels /\ c \notin Askers /\ Series(c) = Tickets
  /\ \A c \in Fiscals : /\ c \in Issues /\ c \in Calls /\ c \in Askers
                        /\ c \notin Tickets /\ c \notin Cancels /\ Series(c) = Fiscals
  /\ \A c \in Cancels : /\ c \in Askers /\ c \in Calls /\ c \notin Tickets
                        /\ c \notin Fiscals /\ c \notin Issues /\ Series(c) = Cancels
  /\ \A c \in Calls : c \in Tickets \/ c \in Fiscals \/ c \in Cancels
  /\ \A c \in Askers : c \in Fiscals \/ c \in Cancels
  /\ \A c \in Issues : c \in Tickets \/ c \in Fiscals
  /\ \A c \in Calls : OrderOf[c] \in Orders
  /\ NoOne \notin Fiscals
  BY CallsAssumption DEF Series, Calls, Askers, Issues

\* A value of the series that bounds it is its last number.
LEMMA LastOfIs ==
  ASSUME NEW c, NEW f, \A d \in Series(c) : f[d] \in Nat,
         NEW m \in {0} \cup {f[d] : d \in Series(c)},
         \A d \in Series(c) : f[d] <= m
  PROVE  LastOf(c, f) = m
<1> DEFINE S == {0} \cup {f[d] : d \in Series(c)}
           k == CHOOSE n \in S : \A d \in Series(c) : f[d] <= n
<1>1. S \subseteq Nat
  OBVIOUS
<1>2. k \in S /\ \A d \in Series(c) : f[d] <= k
  OBVIOUS
<1>3. k <= m /\ m <= k
  BY <1>1, <1>2
<1>4. k = m
  BY <1>1, <1>2, <1>3
<1>5. QED
  BY <1>4 DEF LastOf

\* A series that gains a number keeps having a last one.
LEMMA LastBumped ==
  ASSUME NEW c, NEW f, NEW g, NEW n \in Nat, c \in Series(c),
         \A d \in Series(c) : f[d] \in Nat,
         \A d \in Series(c) \ {c} : g[d] = f[d],
         g[c] = n, f[c] <= n,
         LastOf(c, f) \in {0} \cup {f[d] : d \in Series(c)},
         \A d \in Series(c) : f[d] <= LastOf(c, f)
  PROVE  /\ LastOf(c, g) \in {0} \cup {g[d] : d \in Series(c)}
         /\ \A d \in Series(c) : g[d] <= LastOf(c, g)
<1> DEFINE last == LastOf(c, f)
<1>1. last \in Nat
  OBVIOUS
<1>2. \A d \in Series(c) : g[d] \in Nat
  OBVIOUS
<1>3. CASE n >= last
  <2>1. n \in {0} \cup {g[d] : d \in Series(c)} /\ \A d \in Series(c) : g[d] <= n
    BY <1>1, <1>3
  <2>2. LastOf(c, g) = n
    BY <1>2, <2>1, LastOfIs
  <2>3. QED
    BY <2>1, <2>2
<1>4. CASE n < last
  <2>1. PICK d \in Series(c) : f[d] = last
    BY <1>1, <1>4
  <2>2. g[d] = last
    BY <1>1, <1>4, <2>1
  <2>3. last \in {0} \cup {g[e] : e \in Series(c)} /\ \A e \in Series(c) : g[e] <= last
    BY <1>1, <1>4, <2>2
  <2>4. LastOf(c, g) = last
    BY <1>2, <2>3, LastOfIs
  <2>5. QED
    BY <2>3, <2>4
<1>5. QED
  BY <1>1, <1>3, <1>4

\* The last number of a series depends on that series only.
LEMMA LastSame ==
  ASSUME NEW c, NEW f, NEW g, \A d \in Series(c) : g[d] = f[d]
  PROVE  LastOf(c, g) = LastOf(c, f)
<1>1. {g[d] : d \in Series(c)} = {f[d] : d \in Series(c)}
  OBVIOUS
<1>2. \A n : (\A d \in Series(c) : g[d] <= n) <=> (\A d \in Series(c) : f[d] <= n)
  OBVIOUS
<1>3. QED
  BY <1>1, <1>2 DEF LastOf

\* The invariant holds before any call.
LEMMA InitInv == Init => InvoiceInv
<1> SUFFICES ASSUME Init PROVE InvoiceInv
  OBVIOUS
<1> USE Kinds
<1>1. TypeOK
  BY CallsAssumption DEF Init, TypeOK
<1>2. FlowInv
  BY DEF Init, FlowInv
<1>3. AttemptInv
  BY CallsAssumption DEF Init, AttemptInv
<1>4. \A c \in Askers : LastOf(c, granted) = 0
  BY LastOfIs DEF Init
<1>5. \A c \in Tickets : LastOf(c, docNro) = 0
  BY LastOfIs DEF Init
<1>6. GrantInv
  BY <1>4 DEF Init, GrantInv, LastInv
<1>7. TicketInv
  BY <1>5 DEF Init, TicketInv, LastInv
<1>8. CancelInv /\ VoidedOnce
  BY DEF Init, CancelInv, VoidedOnce, NotesOf
<1>9. QED
  BY <1>1, <1>2, <1>3, <1>6, <1>7, <1>8 DEF InvoiceInv

-----------------------------------------------------------------------------
(* Each conjunct over all steps.                                           *)

\* The numbers of tickets and of AFIP's series are numbers.
LEMMA LastIsNat ==
  ASSUME InvoiceInv
  PROVE  /\ \A c \in Askers : LastOf(c, granted) \in Nat
         /\ \A c \in Tickets : LastOf(c, docNro) \in Nat
  BY Kinds DEF InvoiceInv, TypeOK, GrantInv, TicketInv, LastInv, Calls, Askers, Issues

\* Every step is one of these.
LEMMA StepCases ==
  ASSUME InvoiceInv, [Next]_vars
  PROVE  \/ UNCHANGED vars
         \/ \E c \in Issues : LoadOrder(c) \/ RefuseIssue(c)
         \/ \E c \in Tickets : GetNextTicketNumber(c) \/ CreateTicket(c) \/ TicketNumberTaken(c)
         \/ \E c \in Askers : AskLastVoucher(c) \/ AfipGrants(c) \/ AfipFails(c)
                              \/ StoreIssued(c) \/ StoreConflict(c)
         \/ \E c \in Fiscals : StoreRejected(c)
         \/ \E c \in Cancels : ReadForCancel(c) \/ PrepareNote(c) \/ CommitCancel(c) \/ RefuseCancel(c)
         \/ \E c \in Calls : Lose(c)
  BY DEF Next, Work

\* Types, control flow and attempts.
LEMMA TypeStep ==
  ASSUME InvoiceInv, [Next]_vars
  PROVE  TypeOK' /\ FlowInv' /\ AttemptInv'
<1> USE Kinds DEF InvoiceInv, TypeOK, FlowInv, AttemptInv, Busy, Ended
<1>1. CASE UNCHANGED vars
  BY <1>1 DEF vars
<1>2. ASSUME NEW c \in Issues, LoadOrder(c) \/ RefuseIssue(c)
      PROVE  TypeOK' /\ FlowInv' /\ AttemptInv'
  BY <1>2, CallsAssumption DEF LoadOrder, Loadable, RefuseIssue
<1>3. ASSUME NEW c \in Tickets, GetNextTicketNumber(c)
      PROVE  TypeOK' /\ FlowInv' /\ AttemptInv'
  BY <1>3, LastIsNat DEF GetNextTicketNumber
<1>4. ASSUME NEW c \in Tickets, CreateTicket(c)
      PROVE  TypeOK' /\ FlowInv' /\ AttemptInv'
  BY <1>4 DEF CreateTicket, Store
<1>5. ASSUME NEW c \in Tickets, TicketNumberTaken(c)
      PROVE  TypeOK' /\ FlowInv' /\ AttemptInv'
  BY <1>5 DEF TicketNumberTaken, RetryTicket
<1>6. ASSUME NEW c \in Askers, AskLastVoucher(c) \/ AfipGrants(c)
      PROVE  TypeOK' /\ FlowInv' /\ AttemptInv'
  BY <1>6, LastIsNat DEF AskLastVoucher, AfipGrants
<1>7. ASSUME NEW c \in Askers, AfipFails(c) \/ StoreConflict(c)
      PROVE  TypeOK' /\ FlowInv' /\ AttemptInv'
  BY <1>7 DEF AfipFails, AfterFailure, StoreConflict
<1>8. ASSUME NEW c \in Askers, StoreIssued(c)
      PROVE  TypeOK' /\ FlowInv' /\ AttemptInv'
  BY <1>8 DEF StoreIssued, Store
<1>9. ASSUME NEW c \in Fiscals, StoreRejected(c)
      PROVE  TypeOK' /\ FlowInv' /\ AttemptInv'
  BY <1>9 DEF StoreRejected, Store
<1>10. ASSUME NEW c \in Cancels, ReadForCancel(c)
       PROVE  TypeOK' /\ FlowInv' /\ AttemptInv'
  <2>1. {d \in SaleDocuments(OrderOf[c]) : doc[d] = "ISSUED"} \in SUBSET Issues
    BY DEF SaleDocuments
  <2>2. QED
    BY <1>10, <2>1 DEF ReadForCancel
<1>11. ASSUME NEW c \in Cancels, PrepareNote(c) \/ CommitCancel(c) \/ RefuseCancel(c)
       PROVE  TypeOK' /\ FlowInv' /\ AttemptInv'
  BY <1>11 DEF PrepareNote, CommitCancel, RefuseCancel
<1>12. ASSUME NEW c \in Calls, Lose(c)
       PROVE  TypeOK' /\ FlowInv' /\ AttemptInv'
  BY <1>12 DEF Lose
<1>13. QED
  BY <1>1, <1>2, <1>3, <1>4, <1>5, <1>6, <1>7, <1>8, <1>9, <1>10, <1>11, <1>12, StepCases

\* AFIP's numbers, and the documents that carry them.
LEMMA GrantStep ==
  ASSUME InvoiceInv, [Next]_vars, TypeOK', FlowInv'
  PROVE  GrantInv'
<1> USE Kinds
<1>1. CASE UNCHANGED granted
  <2>1. LastInv(granted, Askers)'
    BY <1>1 DEF InvoiceInv, GrantInv, LastInv
  <2>2. \A c \in Askers : \A d \in Series(c) \ {c} :
          granted'[c] # 0 => granted'[d] # granted'[c]
    BY <1>1 DEF InvoiceInv, GrantInv
  <2> DEFINE Carries ==
               \A c \in Askers :
                 /\ pc[c] = "granted" => granted[c] = num[c] /\ num[c] # 0
                 /\ doc[c] = "ISSUED" => granted[c] = docNro[c] /\ docNro[c] # 0
  <2>3. Carries'
    <3> USE DEF InvoiceInv, GrantInv, TypeOK, FlowInv, Busy, Ended
    <3>1. CASE UNCHANGED vars
      BY <3>1 DEF vars
    <3>2. ASSUME NEW x \in Issues, LoadOrder(x) \/ RefuseIssue(x) PROVE  Carries'
      BY <3>2 DEF LoadOrder, Loadable, RefuseIssue
    <3>3. ASSUME NEW x \in Tickets,
                 GetNextTicketNumber(x) \/ CreateTicket(x) \/ TicketNumberTaken(x)
          PROVE  Carries'
      BY <3>3 DEF GetNextTicketNumber, CreateTicket, TicketNumberTaken, RetryTicket, Store
    <3>4. ASSUME NEW x \in Askers, AskLastVoucher(x) \/ AfipFails(x) \/ StoreConflict(x)
          PROVE  Carries'
      BY <1>1, <3>4 DEF AskLastVoucher, AfipFails, AfterFailure, StoreConflict
    <3>5. ASSUME NEW x \in Askers, StoreIssued(x) PROVE  Carries'
      BY <1>1, <3>5 DEF StoreIssued, Store
    <3>6. ASSUME NEW x \in Fiscals, StoreRejected(x) PROVE  Carries'
      BY <1>1, <3>6 DEF StoreRejected, Store
    <3>7. ASSUME NEW x \in Cancels, ReadForCancel(x) \/ PrepareNote(x) \/ CommitCancel(x) \/ RefuseCancel(x)
          PROVE  Carries'
      BY <1>1, <3>7 DEF ReadForCancel, PrepareNote, CommitCancel, RefuseCancel
    <3>8. ASSUME NEW x \in Calls, Lose(x) PROVE  Carries'
      BY <1>1, <3>8 DEF Lose
    <3>9. ASSUME NEW x \in Askers, AfipGrants(x) PROVE  Carries'
      <4>1. num[x] # 0
        BY <3>9, LastIsNat DEF AfipGrants
      <4>2. /\ granted' = granted /\ granted'[x] = num[x]
            /\ doc' = doc /\ docNro' = docNro /\ num' = num
            /\ pc' = [pc EXCEPT ![x] = "granted"]
        BY <1>1, <3>9 DEF AfipGrants
      <4>3. QED
        BY <4>1, <4>2
    <3>10. QED
      BY <3>1, <3>2, <3>3, <3>4, <3>5, <3>6, <3>7, <3>8, <3>9, StepCases
  <2>4. QED
    BY <2>1, <2>2, <2>3 DEF GrantInv
<1>2. ASSUME NEW x \in Askers, AfipGrants(x)
      PROVE  GrantInv'
  <2> DEFINE n == LastOf(x, granted) + 1
  <2>1. /\ n \in Nat /\ num[x] = n /\ granted' = [granted EXCEPT ![x] = n]
        /\ x \in Series(x) /\ granted \in [Askers -> Nat]
        /\ \A d \in Series(x) : d \in Askers /\ granted[d] < n /\ Series(d) = Series(x)
    BY <1>2, LastIsNat DEF AfipGrants, InvoiceInv, TypeOK, GrantInv, LastInv, Askers
  <2>2. /\ LastOf(x, granted') \in {0} \cup {granted'[d] : d \in Series(x)}
        /\ \A d \in Series(x) : granted'[d] <= LastOf(x, granted')
    <3>1. /\ LastOf(x, granted) \in {0} \cup {granted[d] : d \in Series(x)}
          /\ \A d \in Series(x) : granted[d] <= LastOf(x, granted)
      BY DEF InvoiceInv, GrantInv, LastInv
    <3>2. \A d \in Series(x) : granted[d] \in Nat
      BY <2>1
    <3>3. /\ x \in Series(x) /\ num[x] \in Nat /\ granted'[x] = num[x] /\ granted[x] <= num[x]
          /\ \A d \in Series(x) \ {x} : granted'[d] = granted[d]
      BY <2>1
    <3>4. QED
      BY <3>1, <3>2, <3>3, LastBumped
  <2>3. LastInv(granted, Askers)'
    <3> SUFFICES ASSUME NEW c \in Askers
                 PROVE  /\ LastOf(c, granted') \in {0} \cup {granted'[d] : d \in Series(c)}
                        /\ \A d \in Series(c) : granted'[d] <= LastOf(c, granted')
      BY DEF LastInv
    <3>1. CASE Series(c) = Series(x)
      <4>1. LastOf(c, granted') = LastOf(x, granted')
        BY <3>1 DEF LastOf
      <4>2. QED
        BY <2>2, <3>1, <4>1
    <3>2. CASE Series(c) # Series(x)
      <4>1. \A d \in Series(c) : granted'[d] = granted[d]
        BY <2>1, <3>2
      <4>2. LastOf(c, granted') = LastOf(c, granted)
        BY <4>1, LastSame
      <4>3. QED
        BY <4>1, <4>2 DEF InvoiceInv, GrantInv, LastInv
    <3>3. QED
      BY <3>1, <3>2
  <2>4. \A c \in Askers : \A d \in Series(c) \ {c} :
          granted'[c] # 0 => granted'[d] # granted'[c]
    <3> SUFFICES ASSUME NEW c \in Askers, NEW d \in Series(c) \ {c}, granted'[c] # 0
                 PROVE  granted'[d] # granted'[c]
      OBVIOUS
    <3>1. d \in Askers /\ Series(d) = Series(c) /\ c \in Series(c)
      OBVIOUS
    <3>2. QED
      BY <2>1, <3>1 DEF InvoiceInv, GrantInv
  <2>5. \A c \in Askers :
          /\ pc'[c] = "granted" => granted'[c] = num'[c] /\ num'[c] # 0
          /\ doc'[c] = "ISSUED" => granted'[c] = docNro'[c] /\ docNro'[c] # 0
    <3>1. doc[x] = "none"
      BY <1>2 DEF AfipGrants, InvoiceInv, TypeOK, FlowInv, CancelInv
    <3>2. QED
      BY <1>2, <2>1, <3>1 DEF AfipGrants, InvoiceInv, TypeOK, GrantInv
  <2>6. QED
    BY <2>3, <2>4, <2>5 DEF GrantInv
<1>3. UNCHANGED granted \/ \E x \in Askers : AfipGrants(x)
  BY StepCases
     DEF vars, LoadOrder, Loadable, RefuseIssue, GetNextTicketNumber, CreateTicket, TicketNumberTaken,
         AskLastVoucher, AfipFails, StoreIssued, StoreConflict, StoreRejected, ReadForCancel,
         PrepareNote, CommitCancel, RefuseCancel, Lose
<1>4. QED
  BY <1>1, <1>2, <1>3

\* The local numbers of Ticket X.
LEMMA TicketStep ==
  ASSUME InvoiceInv, [Next]_vars
  PROVE  TicketInv'
<1> USE Kinds
<1> DEFINE Same == \A c \in Tickets :
                     /\ docNro'[c] = docNro[c] /\ doc'[c] = doc[c]
                     /\ pc'[c] = "numbered" => pc[c] = "numbered" /\ num'[c] = num[c]
<1>1. ASSUME Same PROVE TicketInv'
  <2>1. \A c \in Tickets : LastOf(c, docNro') = LastOf(c, docNro)
    BY <1>1, LastSame
  <2>2. QED
    BY <1>1, <2>1 DEF InvoiceInv, TicketInv, LastInv
<1>2. CASE UNCHANGED vars
  BY <1>1, <1>2 DEF vars
<1>3. ASSUME NEW x \in Issues, LoadOrder(x) \/ RefuseIssue(x) PROVE TicketInv'
  BY <1>1, <1>3 DEF InvoiceInv, TypeOK, LoadOrder, Loadable, RefuseIssue
<1>4. ASSUME NEW x \in Tickets, TicketNumberTaken(x) PROVE TicketInv'
  BY <1>1, <1>4 DEF InvoiceInv, TypeOK, TicketNumberTaken, RetryTicket
<1>5. ASSUME NEW x \in Askers, AskLastVoucher(x) \/ AfipGrants(x) \/ AfipFails(x) \/ StoreIssued(x) \/ StoreConflict(x)
      PROVE  TicketInv'
  BY <1>1, <1>5
     DEF InvoiceInv, TypeOK, AskLastVoucher, AfipGrants, AfipFails, StoreIssued, Store, StoreConflict
<1>6. ASSUME NEW x \in Fiscals, StoreRejected(x) PROVE TicketInv'
  BY <1>1, <1>6 DEF InvoiceInv, TypeOK, StoreRejected, Store
<1>7. ASSUME NEW x \in Cancels, ReadForCancel(x) \/ PrepareNote(x) \/ CommitCancel(x) \/ RefuseCancel(x)
      PROVE  TicketInv'
  <2>1. Same
    BY <1>7 DEF InvoiceInv, TypeOK, ReadForCancel, PrepareNote, CommitCancel, RefuseCancel
  <2>2. QED
    BY <1>1, <2>1
<1>8. ASSUME NEW x \in Calls, Lose(x) PROVE TicketInv'
  BY <1>1, <1>8 DEF InvoiceInv, TypeOK, Lose
<1>9. ASSUME NEW x \in Tickets, GetNextTicketNumber(x) PROVE TicketInv'
  <2>1. LastOf(x, docNro) + 1 # 0
    BY LastIsNat
  <2>2. \A c \in Tickets : LastOf(c, docNro') = LastOf(c, docNro)
    BY <1>9 DEF GetNextTicketNumber
  <2>3. QED
    BY <1>9, <2>1, <2>2 DEF InvoiceInv, TypeOK, GetNextTicketNumber, TicketInv, LastInv
<1>10. ASSUME NEW x \in Tickets, CreateTicket(x) PROVE TicketInv'
  <2>1. /\ docNro' = [docNro EXCEPT ![x] = num[x]] /\ doc' = [doc EXCEPT ![x] = "ISSUED"]
        /\ docNro[x] = 0 /\ num[x] \in Nat \ {0}
        /\ docNro \in [Calls -> Nat]
        /\ \A d \in Tickets : docNro[d] # num[x]
    <3>1. doc[x] # "ISSUED" /\ pc[x] = "numbered"
      BY <1>10 DEF CreateTicket, InvoiceInv, FlowInv
    <3>2. QED
      BY <1>10, <3>1 DEF CreateTicket, Store, NumberTaken, InvoiceInv, TypeOK, FlowInv, TicketInv
  <2>2. /\ LastOf(x, docNro') \in {0} \cup {docNro'[d] : d \in Series(x)}
        /\ \A d \in Series(x) : docNro'[d] <= LastOf(x, docNro')
    <3>1. /\ LastOf(x, docNro) \in {0} \cup {docNro[d] : d \in Series(x)}
          /\ \A d \in Series(x) : docNro[d] <= LastOf(x, docNro)
      BY DEF InvoiceInv, TicketInv, LastInv
    <3>2. /\ x \in Series(x) /\ num[x] \in Nat /\ docNro'[x] = num[x] /\ docNro[x] <= num[x]
          /\ \A d \in Series(x) : docNro[d] \in Nat
          /\ \A d \in Series(x) \ {x} : docNro'[d] = docNro[d]
      BY <2>1
    <3>3. QED
      BY <3>1, <3>2, LastBumped
  <2>3. LastInv(docNro, Tickets)'
    <3> SUFFICES ASSUME NEW c \in Tickets
                 PROVE  /\ LastOf(c, docNro') \in {0} \cup {docNro'[d] : d \in Series(c)}
                        /\ \A d \in Series(c) : docNro'[d] <= LastOf(c, docNro')
      BY DEF LastInv
    <3>1. Series(c) = Series(x)
      OBVIOUS
    <3>2. LastOf(c, docNro') = LastOf(x, docNro')
      BY <3>1 DEF LastOf
    <3>3. QED
      BY <2>2, <3>1, <3>2
  <2>4. \A c \in Tickets :
          /\ pc'[c] = "numbered" => num'[c] # 0
          /\ doc'[c] = "ISSUED" => docNro'[c] # 0
    BY <1>10, <2>1 DEF CreateTicket, InvoiceInv, TypeOK, TicketInv
  <2>5. \A c \in Tickets : \A d \in Tickets \ {c} : docNro'[c] # 0 => docNro'[d] # docNro'[c]
    BY <2>1 DEF InvoiceInv, TicketInv
  <2>6. QED
    BY <2>3, <2>4, <2>5 DEF TicketInv
<1>11. QED
  BY <1>2, <1>3, <1>4, <1>5, <1>6, <1>7, <1>8, <1>9, <1>10, StepCases

\* What a cancellation found, and the one credit note of each invoice.
LEMMA CancelStep ==
  ASSUME InvoiceInv, [Next]_vars
  PROVE  CancelInv' /\ VoidedOnce'
<1> USE Kinds DEF InvoiceInv, TypeOK, FlowInv, CancelInv, Busy, Ended
<1> DEFINE SameDocs == \A c \in Cancels : doc'[c] = doc[c] /\ target'[c] = target[c]
           Idle == \A c \in Cancels : pc'[c] = pc[c] /\ seen'[c] = seen[c]
<1>1. ASSUME SameDocs PROVE VoidedOnce'
  BY <1>1 DEF VoidedOnce, NotesOf
<1>2. ASSUME SameDocs, Idle PROVE CancelInv' /\ VoidedOnce'
  BY <1>1, <1>2
<1>3. CASE UNCHANGED vars
  BY <1>2, <1>3 DEF vars
<1>4. ASSUME NEW x \in Issues, LoadOrder(x) \/ RefuseIssue(x)
      PROVE  CancelInv' /\ VoidedOnce'
  BY <1>2, <1>4 DEF LoadOrder, Loadable, RefuseIssue
<1>5. ASSUME NEW x \in Tickets, GetNextTicketNumber(x) \/ CreateTicket(x) \/ TicketNumberTaken(x)
      PROVE  CancelInv' /\ VoidedOnce'
  BY <1>2, <1>5 DEF GetNextTicketNumber, CreateTicket, TicketNumberTaken, Store
<1>6. ASSUME NEW x \in Askers, AskLastVoucher(x) \/ AfipGrants(x) \/ AfipFails(x) \/ StoreConflict(x)
      PROVE  CancelInv' /\ VoidedOnce'
  <2>1. VoidedOnce'
    BY <1>1, <1>6 DEF AskLastVoucher, AfipGrants, AfipFails, StoreConflict
  <2>2. CancelInv'
    BY <1>6 DEF AskLastVoucher, AfipGrants, AfipFails, AfterFailure, StoreConflict
  <2>3. QED
    BY <2>1, <2>2
<1>7. ASSUME NEW x \in Fiscals, StoreIssued(x) \/ StoreRejected(x)
      PROVE  CancelInv' /\ VoidedOnce'
  BY <1>2, <1>7 DEF StoreIssued, StoreRejected, Store
<1>8. ASSUME NEW x \in Cancels, StoreIssued(x)
      PROVE  CancelInv' /\ VoidedOnce'
  <2>1. CancelInv'
    BY <1>8 DEF StoreIssued, Store
  <2>2. /\ doc' = [doc EXCEPT ![x] = "ISSUED"] /\ UNCHANGED target
        /\ \A c \in Cancels : doc[c] = "ISSUED" => target[c] # target[x]
    BY <1>8 DEF StoreIssued, Store, Conflicts, NotesOf
  <2>3. VoidedOnce'
    BY <2>2 DEF VoidedOnce, NotesOf
  <2>4. QED
    BY <2>1, <2>3
<1>9. ASSUME NEW x \in Cancels, ReadForCancel(x)
      PROVE  CancelInv' /\ VoidedOnce'
  <2> DEFINE found == {d \in SaleDocuments(OrderOf[x]) : doc[d] = "ISSUED"}
  <2>1. /\ seen' = [seen EXCEPT ![x] = found]
        /\ UNCHANGED <<doc, cancelled>>
        /\ \/ /\ \A f \in Fiscals : found # {f}
              /\ pc' = [pc EXCEPT ![x] = "cancelling"]
              /\ UNCHANGED target
           \/ \E f \in found \cap Fiscals :
                /\ target' = [target EXCEPT ![x] = f]
                /\ pc' = [pc EXCEPT ![x] = "voiding"]
    BY <1>9 DEF ReadForCancel
  <2>2. pc[x] = "start" /\ target[x] = NoOne /\ doc[x] = "none"
    BY <1>9 DEF ReadForCancel
  <2>3. CASE /\ \A f \in Fiscals : found # {f}
             /\ pc' = [pc EXCEPT ![x] = "cancelling"]
             /\ UNCHANGED target
    <3>1. \A f \in Fiscals : seen'[x] # {f}
      BY <2>1, <2>3
    <3>2. \A c \in Cancels \ {x} : seen'[c] = seen[c] /\ pc'[c] = pc[c]
      BY <2>1, <2>3
    <3>3. CancelInv'
      BY <2>1, <2>2, <2>3, <3>1, <3>2
    <3>4. QED
      BY <1>1, <2>1, <2>3, <3>3
  <2>4. ASSUME NEW f \in found \cap Fiscals,
               target' = [target EXCEPT ![x] = f], pc' = [pc EXCEPT ![x] = "voiding"]
        PROVE  CancelInv' /\ VoidedOnce'
    <3>1. \A g \in Fiscals : seen'[x] = {g} => target'[x] = g
      BY <2>1, <2>4
    <3>2. \A c \in Cancels \ {x} : seen'[c] = seen[c] /\ pc'[c] = pc[c] /\ target'[c] = target[c]
      BY <2>1, <2>4
    <3>3. CancelInv'
      BY <2>1, <2>2, <2>4, <3>1, <3>2
    <3>4. VoidedOnce'
      BY <2>1, <2>2, <3>2 DEF VoidedOnce, NotesOf
    <3>5. QED
      BY <3>3, <3>4
  <2>5. QED
    BY <2>1, <2>3, <2>4
<1>10. ASSUME NEW x \in Cancels, PrepareNote(x) \/ CommitCancel(x) \/ RefuseCancel(x)
       PROVE  CancelInv' /\ VoidedOnce'
  <2>1. VoidedOnce'
    BY <1>1, <1>10 DEF PrepareNote, CommitCancel, RefuseCancel
  <2>2. CancelInv'
    BY <1>10 DEF PrepareNote, CommitCancel, RefuseCancel
  <2>3. QED
    BY <2>1, <2>2
<1>11. ASSUME NEW x \in Calls, Lose(x)
       PROVE  CancelInv' /\ VoidedOnce'
  <2>1. VoidedOnce'
    BY <1>1, <1>11 DEF Lose
  <2>2. CancelInv'
    BY <1>11 DEF Lose
  <2>3. QED
    BY <2>1, <2>2
<1>12. QED
  BY <1>3, <1>4, <1>5, <1>6, <1>7, <1>8, <1>9, <1>10, <1>11, StepCases

-----------------------------------------------------------------------------
(* The theorems.                                                           *)

\* The inductive invariant holds in every reachable state.
THEOREM InvoiceInvariant == Spec => []InvoiceInv
<1>1. Init => InvoiceInv
  BY InitInv
<1>2. InvoiceInv /\ [Next]_vars => InvoiceInv'
  BY TypeStep, GrantStep, TicketStep, CancelStep DEF InvoiceInv
<1>3. QED
  BY <1>1, <1>2, PTL DEF Spec

\* Every variable keeps its type.
THEOREM InvoiceTypeOK == Spec => []TypeOK
<1>1. InvoiceInv => TypeOK
  BY DEF InvoiceInv
<1>2. QED
  BY <1>1, InvoiceInvariant, PTL

\* What is stored as ISSUED carries the one number AFIP gave it.
THEOREM InvoiceIssuedIsAuthorised == Spec => []IssuedIsAuthorised
<1>1. InvoiceInv => IssuedIsAuthorised
  <2> SUFFICES ASSUME InvoiceInv, NEW c \in Calls, doc[c] = "ISSUED"
               PROVE  /\ c \in Askers => granted[c] = docNro[c]
                      /\ docNro[c] # 0
                      /\ \A d \in Series(c) \ {c} : docNro[d] # docNro[c]
    BY DEF IssuedIsAuthorised
  <2>1. CASE c \in Tickets
    BY <2>1, Kinds DEF InvoiceInv, TicketInv
  <2>2. CASE c \in Askers
    <3>1. granted[c] = docNro[c] /\ docNro[c] # 0
      BY <2>2 DEF InvoiceInv, GrantInv
    <3>2. ASSUME NEW d \in Series(c) \ {c}, docNro[d] = docNro[c] PROVE FALSE
      <4>1. d \in Askers /\ d \in Calls
        BY <2>2, Kinds
      <4>2. granted[d] = docNro[d]
        BY <3>1, <3>2, <4>1 DEF InvoiceInv, FlowInv, GrantInv
      <4>3. QED
        BY <2>2, <3>1, <3>2, <4>2 DEF InvoiceInv, GrantInv
    <3>3. QED
      BY <3>1, <3>2
  <2>3. QED
    BY <2>1, <2>2, Kinds
<1>2. QED
  BY <1>1, InvoiceInvariant, PTL

\* A cancellation that found one invoice has its credit note.
THEOREM InvoiceCancelledIsVoided == Spec => []CancelledIsVoided
<1>1. InvoiceInv => CancelledIsVoided
  <2> SUFFICES ASSUME InvoiceInv, NEW c \in Cancels, pc[c] = "done",
                      NEW f \in Fiscals, seen[c] = {f}
               PROVE  c \in NotesOf(f)
    BY DEF CancelledIsVoided
  <2>1. target[c] = f /\ f # NoOne
    BY Kinds DEF InvoiceInv, CancelInv
  <2>2. doc[c] = "ISSUED"
    BY <2>1 DEF InvoiceInv, CancelInv
  <2>3. QED
    BY <2>1, <2>2 DEF NotesOf
<1>2. QED
  BY <1>1, InvoiceInvariant, PTL

\* No invoice has two credit notes.
THEOREM InvoiceVoidedOnce == Spec => []VoidedOnce
<1>1. InvoiceInv => VoidedOnce
  BY DEF InvoiceInv
<1>2. QED
  BY <1>1, InvoiceInvariant, PTL

\* A sale that has a document, and no call at work on another, gets no other.
THEOREM InvoiceOneDocument == Spec => OneDocumentUnlessOverlap
<1> DEFINE Step == \A o \in Orders : DocumentedAndQuiet(o) =>
                     DocumentedAndQuiet(o)' /\ SaleDocuments(o)' = SaleDocuments(o)
<1>1. ASSUME InvoiceInv, [Next]_vars
      PROVE  [Step]_vars
  <2> USE Kinds DEF InvoiceInv, TypeOK, FlowInv, Busy, Ended
  <2> SUFFICES ASSUME NEW o \in Orders, DocumentedAndQuiet(o), Next
               PROVE  DocumentedAndQuiet(o)' /\ SaleDocuments(o)' = SaleDocuments(o)
    BY <1>1
  <2> DEFINE Kept == \A c \in Issues : OrderOf[c] = o =>
                       doc'[c] = doc[c] /\ pc'[c] \notin Busy
  <2>1. ASSUME Kept
        PROVE  DocumentedAndQuiet(o)' /\ SaleDocuments(o)' = SaleDocuments(o)
    BY <2>1 DEF DocumentedAndQuiet, SaleDocuments
  <2>2. PICK c \in Calls : Work(c) \/ Lose(c)
    BY DEF Next
  <2>3. CASE c \in Cancels
    <3>1. \A d \in Issues : d # c
      BY <2>3
    <3>2. Kept
      BY <1>1, <2>2, <2>3, <3>1
         DEF DocumentedAndQuiet, Work, Lose, AskLastVoucher, AfipGrants, AfipFails, StoreIssued,
             StoreConflict, ReadForCancel, PrepareNote, CommitCancel, RefuseCancel, Store
    <3>3. QED
      BY <2>1, <3>2
  <2>4. CASE c \in Issues /\ OrderOf[c] # o
    <3>1. \A d \in Calls \ {c} : doc'[d] = doc[d] /\ pc'[d] = pc[d]
      BY <1>1, <2>2, <2>4
         DEF Work, Lose, LoadOrder, Loadable, RefuseIssue, GetNextTicketNumber, CreateTicket,
             TicketNumberTaken, AskLastVoucher, AfipGrants, AfipFails, StoreIssued,
             StoreConflict, StoreRejected, Store
    <3>2. Kept
      BY <2>4, <3>1 DEF DocumentedAndQuiet
    <3>3. QED
      BY <2>1, <3>2
  <2>5. CASE c \in Issues /\ OrderOf[c] = o
    <3>1. pc[c] \notin Busy /\ SaleDocuments(o) # {}
      BY <2>5 DEF DocumentedAndQuiet
    <3>2. RefuseIssue(c)
      BY <1>1, <2>2, <2>5, <3>1
         DEF Work, Lose, LoadOrder, Loadable, GetNextTicketNumber, CreateTicket,
             TicketNumberTaken, AskLastVoucher, AfipGrants, AfipFails, StoreIssued,
             StoreConflict, StoreRejected
    <3>3. Kept
      BY <1>1, <3>2 DEF RefuseIssue, Loadable, DocumentedAndQuiet
    <3>4. QED
      BY <2>1, <3>3
  <2>6. QED
    BY <2>3, <2>4, <2>5
<1>2. QED
  BY <1>1, InvoiceInvariant, PTL DEF Spec, OneDocumentUnlessOverlap
=============================================================================
