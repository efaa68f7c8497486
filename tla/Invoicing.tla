----------------------------- MODULE Invoicing -----------------------------
(***************************************************************************)
(* The documents of a store's sales: InvoicesService.issue (Ticket X and   *)
(* fiscal invoices) and issueCreditNote, with the three phases of          *)
(* OrdersService.cancel that ask for the credit note.                      *)
(*                                                                         *)
(* A fiscal document is a short transaction that loads and checks, then    *)
(* two calls to AFIP outside any transaction (last voucher number, CAE),   *)
(* then a short transaction that stores the result. AFIP numbers invoices  *)
(* and credit notes apart, and grants a CAE only to the number that        *)
(* follows its last one; an answer may be lost after the CAE was granted.  *)
(*                                                                         *)
(* A call makes at most one document, so the call stands for it. The       *)
(* letters A, B and C, the amounts and the fiscal data of the parties      *)
(* decide only whether a call is refused. Stock, account and till of a     *)
(* cancellation are in StockRows, CustomerAccount and CashTill.            *)
(***************************************************************************)
EXTENDS Integers

CONSTANTS
  Orders,        \* the orders of one store, all COMPLETED at the start
  Tickets,       \* calls of POST /invoices for a Ticket X
  Fiscals,       \* calls of POST /invoices for an invoice A or B
  Cancels,       \* calls of POST /orders/:id/cancel
  OrderOf,       \* the order each call is about
  MaxAttempts,   \* MAX_TICKET_NUMBER_ATTEMPTS
  NoOne          \* no invoice

Issues == Tickets \cup Fiscals
Askers == Fiscals \cup Cancels   \* the calls that may go to AFIP
Calls == Issues \cup Cancels

ASSUME CallsAssumption ==
  /\ Tickets \cap Fiscals = {}
  /\ Issues \cap Cancels = {}
  /\ NoOne \notin Calls
  /\ OrderOf \in [Calls -> Orders]
  /\ MaxAttempts \in Nat \ {0}

VARIABLES
  cancelled,  \* the orders that are CANCELLED
  doc,        \* doc[c]: the status of the document c has stored, or "none"
  docNro,     \* docNro[c]: its cbteNro, 0 for NULL
  granted,    \* granted[c]: the number AFIP authorised for c, 0 if none
  pc,         \* pc[c]: where the call is
  attempt,    \* attempt[c]: transactions a Ticket X has begun
  num,        \* num[c]: the number the call has computed
  target,     \* target[c]: the invoice a cancellation voids
  seen        \* seen[c]: the ISSUED sale documents phase 1 of c could find

vars == <<cancelled, doc, docNro, granted, pc, attempt, num, target, seen>>

\* loaded: checks passed. numbered: MAX + 1 of the tickets is read. voiding: an
\* invoice has to be voided first. asked: AFIP's last number is known. granted:
\* AFIP has answered. rejected: a REJECTED row is due. cancelling: phase 3.
Busy == {"loaded", "numbered", "voiding", "asked", "granted", "rejected", "cancelling"}
Ended == {"done", "refused", "lost"}

TypeOK ==
  /\ cancelled \subseteq Orders
  /\ doc \in [Calls -> {"none", "ISSUED", "REJECTED"}]
  /\ docNro \in [Calls -> Nat]
  /\ granted \in [Askers -> Nat]
  /\ pc \in [Calls -> {"start"} \cup Busy \cup Ended]
  /\ attempt \in [Tickets -> 0 .. MaxAttempts]
  /\ num \in [Calls -> Nat]
  /\ target \in [Cancels -> Fiscals \cup {NoOne}]
  /\ seen \in [Cancels -> SUBSET Issues]

Init ==
  /\ cancelled = {}
  /\ doc = [c \in Calls |-> "none"]
  /\ docNro = [c \in Calls |-> 0]
  /\ granted = [c \in Askers |-> 0]
  /\ pc = [c \in Calls |-> "start"]
  /\ attempt = [c \in Tickets |-> 0]
  /\ num = [c \in Calls |-> 0]
  /\ target = [c \in Cancels |-> NoOne]
  /\ seen = [c \in Cancels |-> {}]

-----------------------------------------------------------------------------
(* What the queries find.                                                  *)

\* The documents numbered together with c's: tickets, invoices, credit notes.
Series(c) ==
  IF c \in Tickets THEN Tickets ELSE IF c \in Fiscals THEN Fiscals ELSE Cancels

\* The sale documents of o, of any status, REJECTED ones too: credit notes are
\* left out.
SaleDocuments(o) == {c \in Issues : OrderOf[c] = o /\ doc[c] # "none"}

\* The credit note of invoice f, through relatedInvoiceId.
NotesOf(f) == {c \in Cancels : target[c] = f /\ doc[c] = "ISSUED"}

LastOf(c, number) ==
  CHOOSE n \in {0} \cup {number[d] : d \in Series(c)} :
    \A d \in Series(c) : number[d] <= n

-----------------------------------------------------------------------------
(* Issuing: loadOrderAndCustomer, and Ticket X with its retries.           *)

\* Mutant of Loadable: a rejected document does not count.
LoadableAfterRejection(c) ==
  /\ OrderOf[c] \notin cancelled
  /\ \A d \in SaleDocuments(OrderOf[c]) : doc[d] # "ISSUED"

\* No document of the sale may exist, a REJECTED one included.
Loadable(c) == OrderOf[c] \notin cancelled /\ SaleDocuments(OrderOf[c]) = {}

LoadOrder(c) ==
  /\ pc[c] = "start"
  /\ Loadable(c)
  /\ pc' = [pc EXCEPT ![c] = "loaded"]
  /\ attempt' = IF c \in Tickets THEN [attempt EXCEPT ![c] = @ + 1] ELSE attempt
  /\ UNCHANGED <<cancelled, doc, docNro, granted, num, target, seen>>

\* BadRequest on a cancelled order, Conflict on one that has a document.
RefuseIssue(c) ==
  /\ pc[c] = "start"
  /\ ~ Loadable(c)
  /\ pc' = [pc EXCEPT ![c] = "refused"]
  /\ UNCHANGED <<cancelled, doc, docNro, granted, attempt, num, target, seen>>

GetNextTicketNumber(c) ==
  /\ pc[c] = "loaded"
  /\ pc' = [pc EXCEPT ![c] = "numbered"]
  /\ num' = [num EXCEPT ![c] = LastOf(c, docNro) + 1]
  /\ UNCHANGED <<cancelled, doc, docNro, granted, attempt, target, seen>>

NumberTaken(c) == \E d \in Series(c) : doc[d] = "ISSUED" /\ docNro[d] = num[c]

\* The insert is the last statement of its transaction, so it commits with it.
Store(c, status, nro) ==
  /\ doc' = [doc EXCEPT ![c] = status]
  /\ docNro' = [docNro EXCEPT ![c] = nro]

CreateTicket(c) ==
  /\ pc[c] = "numbered"
  /\ ~ NumberTaken(c)
  /\ Store(c, "ISSUED", num[c])
  /\ pc' = [pc EXCEPT ![c] = "done"]
  /\ UNCHANGED <<cancelled, granted, attempt, num, target, seen>>

RetryTicket(c) == IF attempt[c] < MaxAttempts THEN "start" ELSE "refused"

TicketNumberTaken(c) ==
  /\ pc[c] = "numbered"
  /\ NumberTaken(c)
  /\ pc' = [pc EXCEPT ![c] = RetryTicket(c)]
  /\ UNCHANGED <<cancelled, doc, docNro, granted, attempt, num, target, seen>>

-----------------------------------------------------------------------------
(* AFIP: issueFiscal and issueCreditNote outside their transactions.       *)

\* getLastVoucherNumber + 1.
AskLastVoucher(c) ==
  /\ pc[c] = "loaded"
  /\ pc' = [pc EXCEPT ![c] = "asked"]
  /\ num' = [num EXCEPT ![c] = LastOf(c, granted) + 1]
  /\ UNCHANGED <<cancelled, doc, docNro, granted, attempt, target, seen>>

\* solicitarCae, at AFIP: only the next number is authorised.
AfipGrants(c) ==
  /\ pc[c] = "asked"
  /\ num[c] = LastOf(c, granted) + 1
  /\ granted' = [granted EXCEPT ![c] = num[c]]
  /\ pc' = [pc EXCEPT ![c] = "granted"]
  /\ UNCHANGED <<cancelled, doc, docNro, attempt, num, target, seen>>

\* Mutants of AfterFailure: the invoice goes on as if it had its CAE; the
\* cancellation goes on without its credit note.
FailureIgnored(c) == IF c \in Fiscals THEN "granted" ELSE "refused"
CancelAnyway(c) == IF c \in Fiscals THEN "rejected" ELSE "cancelling"

\* An invoice keeps a REJECTED row; a credit note throws, and with it phase 2
\* of the cancellation.
AfterFailure(c) == IF c \in Fiscals THEN "rejected" ELSE "refused"

\* AFIP refuses (another voucher took the number, or any other reason), or the
\* connection fails, before the CAE was granted or after it.
AfipFails(c) ==
  /\ pc[c] \in {"loaded", "asked", "granted"}
  /\ pc' = [pc EXCEPT ![c] = AfterFailure(c)]
  /\ UNCHANGED <<cancelled, doc, docNro, granted, attempt, num, target, seen>>

StoreRejected(c) ==
  /\ pc[c] = "rejected"
  /\ Store(c, "REJECTED", 0)
  /\ pc' = [pc EXCEPT ![c] = "done"]
  /\ UNCHANGED <<cancelled, granted, attempt, num, target, seen>>

\* Mutant of Conflicts: relatedInvoiceId is not unique.
NumberTakenOnly(c) == NumberTaken(c)

\* @@unique([storeId, invoiceType, cbteNro]) and relatedInvoiceId @unique.
Conflicts(c) ==
  \/ NumberTaken(c)
  \/ c \in Cancels /\ NotesOf(target[c]) # {}

\* The second short transaction, after a CAE.
StoreIssued(c) ==
  /\ pc[c] = "granted"
  /\ ~ Conflicts(c)
  /\ Store(c, "ISSUED", num[c])
  /\ pc' = [pc EXCEPT ![c] = IF c \in Fiscals THEN "done" ELSE "cancelling"]
  /\ UNCHANGED <<cancelled, granted, attempt, num, target, seen>>

\* P2002 after a CAE: the error is the answer, the document stays at AFIP.
StoreConflict(c) ==
  /\ pc[c] = "granted"
  /\ Conflicts(c)
  /\ pc' = [pc EXCEPT ![c] = "refused"]
  /\ UNCHANGED <<cancelled, doc, docNro, granted, attempt, num, target, seen>>

-----------------------------------------------------------------------------
(* OrdersService.cancel.                                                   *)

\* Phase 1: findFirst of the ISSUED sale documents, in no stated order; only an
\* invoice needs a credit note.
ReadForCancel(c) ==
  /\ pc[c] = "start"
  /\ OrderOf[c] \notin cancelled
  /\ LET found == {d \in SaleDocuments(OrderOf[c]) : doc[d] = "ISSUED"}
     IN /\ seen' = [seen EXCEPT ![c] = found]
        /\ \/ /\ found \cap Tickets # {} \/ found = {}
              /\ pc' = [pc EXCEPT ![c] = "cancelling"]
              /\ UNCHANGED target
           \/ \E f \in found \cap Fiscals :
                /\ target' = [target EXCEPT ![c] = f]
                /\ pc' = [pc EXCEPT ![c] = "voiding"]
  /\ UNCHANGED <<cancelled, doc, docNro, granted, attempt, num>>

\* issueCreditNote: the invoice has no credit note yet.
PrepareNote(c) ==
  /\ pc[c] = "voiding"
  /\ pc' = [pc EXCEPT ![c] = IF NotesOf(target[c]) = {} THEN "loaded" ELSE "refused"]
  /\ UNCHANGED <<cancelled, doc, docNro, granted, attempt, num, target, seen>>

\* Phase 3.
CommitCancel(c) ==
  /\ pc[c] = "cancelling"
  /\ OrderOf[c] \notin cancelled
  /\ cancelled' = cancelled \cup {OrderOf[c]}
  /\ pc' = [pc EXCEPT ![c] = "done"]
  /\ UNCHANGED <<doc, docNro, granted, attempt, num, target, seen>>

\* The order is CANCELLED already, in phase 1 or in phase 3.
RefuseCancel(c) ==
  /\ pc[c] \in {"start", "cancelling"}
  /\ OrderOf[c] \in cancelled
  /\ pc' = [pc EXCEPT ![c] = "refused"]
  /\ UNCHANGED <<cancelled, doc, docNro, granted, attempt, num, target, seen>>

\* A check of the fiscal data throws, the process dies or a transaction times out.
Lose(c) ==
  /\ pc[c] \in Busy
  /\ pc' = [pc EXCEPT ![c] = "lost"]
  /\ UNCHANGED <<cancelled, doc, docNro, granted, attempt, num, target, seen>>

-----------------------------------------------------------------------------
Work(c) ==
  \/ c \in Issues /\ (LoadOrder(c) \/ RefuseIssue(c))
  \/ c \in Tickets /\ (GetNextTicketNumber(c) \/ CreateTicket(c) \/ TicketNumberTaken(c))
  \/ c \in Askers /\ \/ AskLastVoucher(c) \/ AfipGrants(c) \/ AfipFails(c)
                     \/ StoreIssued(c) \/ StoreConflict(c)
  \/ c \in Fiscals /\ StoreRejected(c)
  \/ c \in Cancels /\ \/ ReadForCancel(c) \/ PrepareNote(c)
                      \/ CommitCancel(c) \/ RefuseCancel(c)

Next == \E c \in Calls : Work(c) \/ Lose(c)

Spec == Init /\ [][Next]_vars

-----------------------------------------------------------------------------
(* Properties.                                                             *)

\* An ISSUED invoice or credit note is one AFIP authorised, under the number
\* AFIP gave it, and no two of a series share their number, whatever rejections
\* and lost answers came between (issueFiscal, issueCreditNote).
IssuedIsAuthorised ==
  \A c \in Calls : doc[c] = "ISSUED" =>
    /\ c \in Askers => granted[c] = docNro[c]
    /\ docNro[c] # 0
    /\ \A d \in Series(c) \ {c} : docNro[d] # docNro[c]

\* "quedaria una venta anulada en el sistema y viva ante AFIP": a cancelled
\* order has an invoice without its credit note only if the invoice was stored
\* after phase 1 looked, or phase 1 found another document beside it.
CancelledIsVoided ==
  \A c \in Cancels : pc[c] = "done" =>
    \A f \in Fiscals : seen[c] = {f} => NotesOf(f) # {}

\* An invoice has one credit note at most, however many cancellations of its
\* order run at once (relatedInvoiceId @unique).
VoidedOnce == \A f \in Fiscals : \A c, d \in NotesOf(f) : c = d

\* o has a document, and no call that found none is at work.
DocumentedAndQuiet(o) ==
  /\ SaleDocuments(o) # {}
  /\ \A c \in Issues : OrderOf[c] = o => pc[c] \notin Busy

\* Two documents of one sale come only from calls that overlapped: a sale with
\* a document, were it a REJECTED one, never gets another later on
\* (loadOrderAndCustomer).
OneDocumentUnlessOverlap ==
  [][\A o \in Orders : DocumentedAndQuiet(o) =>
       DocumentedAndQuiet(o)' /\ SaleDocuments(o)' = SaleDocuments(o)]_vars

-----------------------------------------------------------------------------
(* The inductive invariant behind these properties.                        *)

\* Which states each kind of call goes through.
FlowInv ==
  /\ \A c \in Tickets : pc[c] \in {"start", "loaded", "numbered"} \cup Ended
  /\ \A c \in Fiscals :
       pc[c] \in {"start", "loaded", "asked", "granted", "rejected"} \cup Ended
  /\ \A c \in Cancels :
       pc[c] \in {"start", "voiding", "loaded", "asked", "granted", "cancelling"} \cup Ended
  /\ \A c \in Issues : doc[c] # "none" => pc[c] = "done"
  /\ \A c \in Calls : docNro[c] # 0 => doc[c] = "ISSUED"

\* The loop of issueTicketXWithRetry begins only while it has attempts left.
AttemptInv == \A c \in Tickets : pc[c] = "start" => attempt[c] < MaxAttempts

\* A series has a last number: nothing is above it.
LastInv(number, S) ==
  \A c \in S :
    /\ LastOf(c, number) \in {0} \cup {number[d] : d \in Series(c)}
    /\ \A d \in Series(c) : number[d] <= LastOf(c, number)

\* AFIP gives a number once; what is stored as ISSUED carries it.
GrantInv ==
  /\ LastInv(granted, Askers)
  /\ \A c \in Askers : \A d \in Series(c) \ {c} :
       granted[c] # 0 => granted[d] # granted[c]
  /\ \A c \in Askers :
       /\ pc[c] = "granted" => granted[c] = num[c] /\ num[c] # 0
       /\ doc[c] = "ISSUED" => granted[c] = docNro[c] /\ docNro[c] # 0

\* Tickets number themselves: the unique index keeps them apart.
TicketInv ==
  /\ LastInv(docNro, Tickets)
  /\ \A c \in Tickets :
       /\ pc[c] = "numbered" => num[c] # 0
       /\ doc[c] = "ISSUED" => docNro[c] # 0
       /\ \A d \in Tickets \ {c} : docNro[c] # 0 => docNro[d] # docNro[c]

\* A cancellation that found an invoice voids it before phase 3.
CancelInv ==
  \A c \in Cancels :
    /\ pc[c] = "start" => target[c] = NoOne /\ seen[c] = {}
    /\ pc[c] \in {"voiding", "loaded", "asked", "granted"} =>
         target[c] # NoOne /\ doc[c] = "none"
    /\ doc[c] # "none" => doc[c] = "ISSUED" /\ target[c] # NoOne
    /\ target[c] # NoOne /\ pc[c] \in {"cancelling", "done"} => doc[c] = "ISSUED"
    /\ \A f \in Fiscals :
         seen[c] = {f} /\ pc[c] \in Busy \cup {"done"} => target[c] = f

InvoiceInv ==
  /\ TypeOK /\ FlowInv /\ AttemptInv /\ GrantInv /\ TicketInv
  /\ CancelInv /\ VoidedOnce
=============================================================================
