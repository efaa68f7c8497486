----------------------------- MODULE QuoteBook -----------------------------
(***************************************************************************)
(* Quotes (presupuestos): QuotesService.create and cancel, and the sales   *)
(* of OrdersService.create that carry a quoteId and convert the quote.     *)
(*                                                                         *)
(* Every call is one READ COMMITTED transaction, tried again from nothing  *)
(* when its number is taken (P2002). A read sees what is committed and     *)
(* takes no lock; inserting a number waits for an uncommitted insert of    *)
(* the same number; the UPDATE of a quote names it by id alone, waits for  *)
(* a transaction that has updated it, and then overwrites.                 *)
(*                                                                         *)
(* Not here: items and prices, the stock lines of the sale (OrderCheckout),*)
(* and EXPIRED, which resolveQuoteState derives from the date on reading   *)
(* and no transaction tests.                                               *)
(***************************************************************************)
EXTENDS Integers, FiniteSets

CONSTANTS
  Creations,      \* calls of POST /quotes; each stands for the quote it makes
  Conversions,    \* calls of POST /orders with a quoteId
  Cancellations,  \* calls of POST /quotes/:id/cancel
  StoreOf,        \* the store of a creation or of a conversion
  QuoteOf,        \* the quote a conversion or a cancellation is about
  MaxAttempts,    \* MAX_QUOTE_NUMBER_ATTEMPTS, MAX_ORDER_NUMBER_ATTEMPTS
  NoOne           \* the order of a quote with none; the holder of a free row

Numbered == Creations \cup Conversions
Users == Conversions \cup Cancellations
Calls == Creations \cup Users

ASSUME CallsAssumption ==
  /\ Creations \cap Users = {}
  /\ Conversions \cap Cancellations = {}
  /\ NoOne \notin Calls
  /\ QuoteOf \in [Users -> Creations]
  /\ MaxAttempts \in Nat \ {0}

VARIABLES
  number,   \* number[x]: the committed quote or order number of x, 0 if none
  status,   \* status[q]: the committed QuoteStatus, "none" before the quote
  orderOf,  \* orderOf[q]: Quote.orderId, as the conversion that wrote it
  holder,   \* holder[q]: the transaction that has updated quote q
  pc,       \* pc[x]: where the call is
  attempt,  \* attempt[x]: transactions the call has begun
  num       \* num[x]: the number MAX + 1 the open transaction has read

vars == <<number, status, orderOf, holder, pc, attempt, num>>

\* checked: the quote was read OPEN. numbered: MAX + 1 was read. inserted: the
\* numbered row is written. updated: the quote row is written.
InTx == {"checked", "numbered", "inserted", "updated"}
Ended == {"committed", "refused", "exhausted", "lost"}

TypeOK ==
  /\ number \in [Numbered -> Nat]
  /\ status \in [Creations -> {"none", "OPEN", "CONVERTED", "CANCELLED"}]
  /\ orderOf \in [Creations -> Conversions \cup {NoOne}]
  /\ holder \in [Creations -> Users \cup {NoOne}]
  /\ pc \in [Calls -> {"start"} \cup InTx \cup Ended]
  /\ attempt \in [Numbered -> 0 .. MaxAttempts]
  /\ num \in [Numbered -> Nat]

Init ==
  /\ number = [x \in Numbered |-> 0]
  /\ status = [q \in Creations |-> "none"]
  /\ orderOf = [q \in Creations |-> NoOne]
  /\ holder = [q \in Creations |-> NoOne]
  /\ pc = [x \in Calls |-> "start"]
  /\ attempt = [x \in Numbered |-> 0]
  /\ num = [x \in Numbered |-> 0]

-----------------------------------------------------------------------------
\* Quotes and orders are numbered apart, each per store.
Series(x) ==
  {y \in IF x \in Creations THEN Creations ELSE Conversions :
     StoreOf[y] = StoreOf[x]}

\* _max of quoteNumber or orderNumber over the committed rows of the store.
LastNumber(x) ==
  CHOOSE n \in {0} \cup {number[y] : y \in Series(x)} :
    \A y \in Series(x) : number[y] <= n

\* The quote row that x's transaction had locked, if any, is free again.
Unlock(x) ==
  holder' = [q \in Creations |-> IF holder[q] = x THEN NoOne ELSE holder[q]]

-----------------------------------------------------------------------------
(* Reading the quote: attemptCreate with a quoteId, and cancel.            *)

\* Mutant of Tries: a cancellation does not look at the status.
TriesUnread(x) ==
  /\ pc[x] = "start"
  /\ status[QuoteOf[x]] # "none"
  /\ x \in Cancellations \/ status[QuoteOf[x]] = "OPEN"

\* The quote exists (its id reached a client) and is neither converted nor
\* cancelled.
Tries(x) ==
  /\ pc[x] = "start"
  /\ status[QuoteOf[x]] = "OPEN"

ReadQuote(x) ==
  /\ Tries(x)
  /\ pc' = [pc EXCEPT ![x] = "checked"]
  /\ attempt' = IF x \in Conversions
                THEN [attempt EXCEPT ![x] = @ + 1] ELSE attempt
  /\ UNCHANGED <<number, status, orderOf, holder, num>>

\* BadRequest: the quote is converted or cancelled.
QuoteSettled(x) ==
  /\ pc[x] = "start"
  /\ status[QuoteOf[x]] \in {"CONVERTED", "CANCELLED"}
  /\ pc' = [pc EXCEPT ![x] = "refused"]
  /\ UNCHANGED <<number, status, orderOf, holder, attempt, num>>

-----------------------------------------------------------------------------
(* The number: getNextQuoteNumber and getNextOrderNumber.                  *)

\* A creation begins here; a conversion has read its quote first.
ReadNumber(x) ==
  /\ pc[x] = IF x \in Creations THEN "start" ELSE "checked"
  /\ pc' = [pc EXCEPT ![x] = "numbered"]
  /\ num' = [num EXCEPT ![x] = LastNumber(x) + 1]
  /\ attempt' = IF x \in Creations
                THEN [attempt EXCEPT ![x] = @ + 1] ELSE attempt
  /\ UNCHANGED <<number, status, orderOf, holder>>

Taken(x) == \E y \in Series(x) : number[y] = num[x]

\* quote.create or order.create: no committed row has the number, and no
\* uncommitted one either (the insert waits for that one to end).
InsertRow(x) ==
  /\ pc[x] = "numbered"
  /\ ~ Taken(x)
  /\ \A y \in Series(x) : pc[y] \in {"inserted", "updated"} => num[y] # num[x]
  /\ pc' = [pc EXCEPT ![x] = "inserted"]
  /\ UNCHANGED <<number, status, orderOf, holder, attempt, num>>

\* Mutant of AfterTaken: the loop has no bound and reads the number only once.
AfterTakenForever(x) == "numbered"

\* The loop of create, after a P2002.
AfterTaken(x) == IF attempt[x] < MaxAttempts THEN "start" ELSE "exhausted"

NumberTaken(x) ==
  /\ pc[x] = "numbered"
  /\ Taken(x)
  /\ pc' = [pc EXCEPT ![x] = AfterTaken(x)]
  /\ num' = [num EXCEPT ![x] = 0]
  /\ UNCHANGED <<number, status, orderOf, holder, attempt>>

-----------------------------------------------------------------------------
(* Writing the quote.                                                      *)

\* quote.update where id: by a conversion after its order, by a cancellation
\* after its read. It waits for a transaction that has updated the row.
UpdateQuote(x) ==
  /\ pc[x] = IF x \in Conversions THEN "inserted" ELSE "checked"
  /\ holder[QuoteOf[x]] = NoOne
  /\ holder' = [holder EXCEPT ![QuoteOf[x]] = x]
  /\ pc' = [pc EXCEPT ![x] = "updated"]
  /\ UNCHANGED <<number, status, orderOf, attempt, num>>

CommitQuote(x) ==
  /\ x \in Creations
  /\ pc[x] = "inserted"
  /\ number' = [number EXCEPT ![x] = num[x]]
  /\ status' = [status EXCEPT ![x] = "OPEN"]
  /\ pc' = [pc EXCEPT ![x] = "committed"]
  /\ UNCHANGED <<orderOf, holder, attempt, num>>

CommitConversion(x) ==
  /\ x \in Conversions
  /\ pc[x] = "updated"
  /\ number' = [number EXCEPT ![x] = num[x]]
  /\ status' = [status EXCEPT ![QuoteOf[x]] = "CONVERTED"]
  /\ orderOf' = [orderOf EXCEPT ![QuoteOf[x]] = x]
  /\ pc' = [pc EXCEPT ![x] = "committed"]
  /\ Unlock(x)
  /\ UNCHANGED <<attempt, num>>

\* A cancellation leaves Quote.orderId as it is.
CommitCancellation(x) ==
  /\ x \in Cancellations
  /\ pc[x] = "updated"
  /\ status' = [status EXCEPT ![QuoteOf[x]] = "CANCELLED"]
  /\ pc' = [pc EXCEPT ![x] = "committed"]
  /\ Unlock(x)
  /\ UNCHANGED <<number, orderOf, attempt, num>>

\* A check of the sale or of the quote's lines throws (any of them may), or
\* the transaction times out, or the process dies: everything is rolled back.
Fail(x) ==
  /\ pc[x] \in InTx
  /\ pc' = [pc EXCEPT ![x] = "lost"]
  /\ Unlock(x)
  /\ UNCHANGED <<number, status, orderOf, attempt, num>>

-----------------------------------------------------------------------------
Work(x) ==
  \/ x \in Users /\ (ReadQuote(x) \/ QuoteSettled(x) \/ UpdateQuote(x))
  \/ x \in Numbered /\ (ReadNumber(x) \/ InsertRow(x) \/ NumberTaken(x))
  \/ CommitQuote(x)
  \/ CommitConversion(x)
  \/ CommitCancellation(x)

Next == \E x \in Calls : Work(x) \/ Fail(x)

Spec == Init /\ [][Next]_vars

\* A transaction is open, or the loop of create is between two of them.
AtWork(x) == pc[x] \in InTx \/ (pc[x] = "start" /\ x \in Numbered /\ attempt[x] > 0)

\* A call at work goes on when it can; nobody has to make one.
FairSpec == Spec /\ \A x \in Calls : WF_vars(AtWork(x) /\ Work(x))

-----------------------------------------------------------------------------
(* Properties.                                                             *)

\* The committed numbers of a store's quotes, and those of its orders, are
\* 1 .. n: retries and failed transactions leave neither a hole nor a
\* repetition (getNextQuoteNumber, @@unique of quoteNumber and orderNumber).
NumbersGapFree ==
  \A x \in Numbered :
    /\ \A y \in Series(x) \ {x} : number[x] # 0 => number[y] # number[x]
    /\ \A n \in 1 .. LastNumber(x) : \E y \in Series(x) : number[y] = n

OrdersOf(q) == {x \in Conversions : QuoteOf[x] = q /\ number[x] # 0}

\* q is converted or cancelled, and no call that read it OPEN is at work.
SettledAndQuiet(q) ==
  /\ status[q] \in {"CONVERTED", "CANCELLED"}
  /\ \A x \in Users : QuoteOf[x] = q => pc[x] \notin InTx

\* Two orders from one quote, or a cancellation over a conversion, come only
\* from transactions that overlapped: a quote that is settled and quiet is so
\* for good, with its status and its orders, however many calls still try or
\* retry (the status checks of attemptCreate and of cancel).
SettledForGood ==
  [][\A q \in Creations : SettledAndQuiet(q) =>
       /\ SettledAndQuiet(q)'
       /\ <<status[q], orderOf[q], OrdersOf(q)>>' = <<status[q], orderOf[q], OrdersOf(q)>>]_vars

\* Every call that has begun is answered: an insert waits for an uncommitted
\* number, a conversion that has inserted its order waits for the quote that
\* another call has updated, and a taken number is tried again; none of these
\* waits or retries goes on for ever, nor do they wait for each other.
EveryCallEnds == \A x \in Calls : AtWork(x) ~> pc[x] \in Ended

\* "@unique es la red de seguridad real contra convertir dos veces el mismo
\* presupuesto" (schema.prisma, Quote.orderId; attemptCreate says the same of
\* two conversions at once): a quote is sold once. (It is not so: the orders of
\* two conversions differ, and the index compares orders.)
OneSalePerQuote == \A q \in Creations : Cardinality(OrdersOf(q)) <= 1

-----------------------------------------------------------------------------
(* The inductive invariant behind these properties.                        *)

\* What is left of "a quote is sold once" when conversions and cancellations
\* race: a quote that was sold is never OPEN again and names one of the orders
\* made from it, and a CONVERTED quote was sold (orders.service.ts, quote.update).
SoldStaysMarked ==
  \A q \in Creations :
    /\ OrdersOf(q) # {} => status[q] # "OPEN"
    /\ OrdersOf(q) = {} => status[q] # "CONVERTED"
    /\ orderOf[q] \in IF OrdersOf(q) = {} THEN {NoOne} ELSE OrdersOf(q)

\* Which steps each kind of call takes.
FlowInv ==
  /\ \A x \in Creations : pc[x] \notin {"checked", "updated"}
  /\ \A x \in Cancellations : pc[x] \notin {"numbered", "inserted"}
  /\ \A x \in Numbered : number[x] # 0 <=> pc[x] = "committed"
  /\ \A q \in Creations : status[q] # "none" <=> pc[q] = "committed"
  /\ \A x \in Users : pc[x] \in InTx \cup {"committed"} => status[QuoteOf[x]] # "none"

\* The loop of create begins an attempt only while it has one left.
AttemptInv == \A x \in Numbered : pc[x] = "start" => attempt[x] < MaxAttempts

\* A quote's row is locked by the one transaction that has updated it.
HolderInv ==
  /\ \A x \in Users : pc[x] = "updated" <=> holder[QuoteOf[x]] = x
  /\ \A q \in Creations : holder[q] # NoOne => QuoteOf[holder[q]] = q

\* Each series is 1 .. LastNumber, and an uncommitted row has the next number.
SeriesInv ==
  \A x \in Numbered :
    /\ LastNumber(x) \in {0} \cup {number[y] : y \in Series(x)}
    /\ \A y \in Series(x) : number[y] <= LastNumber(x)
    /\ pc[x] = "numbered" => num[x] \in 1 .. LastNumber(x) + 1
    /\ pc[x] \in {"inserted", "updated"} => num[x] = LastNumber(x) + 1
    /\ \A y \in Series(x) \ {x} :
         pc[x] \in {"inserted", "updated"} => pc[y] \notin {"inserted", "updated"}

QuoteInv ==
  TypeOK /\ FlowInv /\ AttemptInv /\ HolderInv /\ SeriesInv /\ NumbersGapFree /\ SoldStaysMarked
=============================================================================
