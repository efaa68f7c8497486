# Verification of the point of sale

TLA+ specifications of *POS SaaS*: its server (`apps/api`, with the schema and
the transaction helper of `packages/database`) and the sale screen of its web
client (`apps/pos-web`); the TLC models that check them on small instances, and
proofs that TLAPS checks for every value of the constants. Paths below are
relative to `src/`; `orders.service.ts` and its like are under `apps/api/src/`.

Contents: 1 the system; 2 the common model of the database; 3 the modules and
the code; 4 the runs; 5 fairness; 6 the proofs; 7 findings; 8 what else the
code allows; 9 what is not modelled; 10 plan.

## 1. The system

A multi-tenant web point of sale: NestJS controllers and services over
Postgres (Prisma), BullMQ jobs over Redis, a Next.js client, and three outside
services: AFIP (fiscal authorisation), WooCommerce and Tienda Nube (online
shops), Mercado Pago (subscriptions). Everything a request changes it changes
inside `withTenantContext` (`packages/database/src/tenant-context.ts`), one
interactive transaction at READ COMMITTED.

| Component | State it keeps | Operations | Modelled |
|---|---|---|---|
| Counter sales (`orders/`) | Order, OrderItem, Payment; the order number of each store | create (with retries), cancel (three phases) | OrderCheckout, parts in CashTill, CustomerAccount, StockRows |
| Stock (`stock/`) | StockLevel rows per store and product or variant | guarded decrement, increment, manual adjustment | StockRows, OrderCheckout |
| Current accounts (`customers/`) | Customer.accountBalance and creditLimit, the movements with their running balance | charge, collection, correction, reversal, change of limit | CustomerAccount |
| Cash shifts (`cash-shifts/`) | CashShift, CashMovement | open, movement, summary, close | CashTill |
| Purchases (`purchases/`) | Purchase, PurchaseItem, product cost | create (with retries) | StockRows, one product |
| Quotes (`quotes/`) | Quote with status, number and the order it became | create (with retries), cancel; converted by a sale | QuoteBook |
| Invoices (`invoices/`) | Invoice, credit notes | Ticket X (with retries), fiscal invoice, credit note | Invoicing |
| AFIP gateway (`afip/`) | the numbers it authorised; a cached access ticket | last voucher, authorise | Invoicing, without the ticket |
| WooCommerce (`woocommerce/`) | configuration, mappings, sync log, jobs | stock and price out, orders in, retry | StoreSync, one product, without prices |
| Tienda Nube (`tiendanube/`) | the same | the same, the order fetched by the worker | StoreSync, by its variable `platform` |
| Subscription billing (`billing/`) | status, period and tier of the tenant, SubscriptionEvent | notices, changes by the staff, the state in force | TenantBilling |
| Demo tenants (`demo/`) | expiry of the tenant | create, convert, purge | TenantBilling, without the creation |
| Sessions (`auth/`) | refresh tokens | login, rotation, logout | no |
| Catalogue (`products/` and others) | products, categories, suppliers, discounts | CRUD, imports | no; its prices change in SaleScreen |
| Reports, audit, support | append-only log | queries, mail | no |
| Administration (`users/`, `stores/`) | users, stores, fiscal data | CRUD | no |
| Schema and tenant isolation | unique indexes, row-level security | | the indexes, in every module |
| Sale screen (`apps/pos-web`) | the cart (kept over a reload), the checkout dialog, the loaded catalogue | edit the cart, confirm a payment, make and convert quotes | SaleScreen |
| Rest of the web client | presentation | | no |

How they interact:

- **Shared rows.** A sale writes stock, the customer's balance, a quote and the
  payments of a shift in one transaction. A cancellation undoes each of these.
  A purchase, a web order and a manual adjustment write the same stock; a
  collection writes both an account and a shift. So correctness is mostly a
  question of what two transactions over the same rows can read and overwrite.
- **Between two transactions.** `cancel` reads in one transaction, asks AFIP
  for a credit note in none, and writes in another. `create` enqueues the stock
  jobs for the shops after the commit. Webhooks fetch the state of a remote
  object and apply it later.
- **Between the till and the server.** The till computes totals and change from
  the prices it loaded; it sends quantities, discounts in money and payments,
  and the server prices every line again. A request has no key of its own.
- **Serialisation.** There is no explicit lock and no SERIALIZABLE anywhere.
  What serialises are the row locks of UPDATE, guarded UPDATEs, unique indexes
  (order, purchase, quote and ticket numbers; one open shift per register; one
  movement per order and type; one per idempotency key) and bounded retries on
  P2002.

What is hard, and the properties that make each component correct:

- *Sales*: any number of tills sell the same rows. No row is oversold, a
  rolled-back sale leaves nothing behind, numbers are unique and gap-free,
  retries are bounded and fail only under real contention, no call hangs.
- *Stock*: five kinds of writer, a row that may not exist yet, and a unique
  index that never applies because one of its columns is always NULL. The
  quantity is what the committed operations add up to; sales never overdraw; a
  cancelled order gives its stock back once.
- *Accounts*: repeated collections, simultaneous cancellations and a moving
  credit limit. The ledger chains, nothing is posted twice, a cancelled order
  owes nothing, the limit holds at the commit.
- *Shifts*: cash comes in while the shift is being counted. One shift is open,
  a closing nobody disturbs stores what the drawer holds (and the change that an
  overpaid sale took from elsewhere, section 8), any other at least counts what
  was there when it began, a closed shift stays as it was.
- *Quotes*: sales and cancellations of one quote at once. A quote is sold once
  and not cancelled over its sale (neither holds: finding 3 and section 8); once it is
  settled and nothing that read it open is at work it is settled for good, and
  calls that wait for one another's rows all end.
- *Invoices*: two requests at AFIP, answers lost after the authorisation,
  cancellations meanwhile. What is stored as issued is what AFIP authorised, an
  order that is cancelled after its invoice has its credit note, one per invoice.
- *Shops*: jobs pass each other, run again and arrive twice. A web order is
  processed once unless its deliveries overlap, a row that says SUCCESS tells
  the truth (one that says PENDING may not: section 8 has both), and what
  the shop shows is off by exactly what crossed.
- *Billing*: notices are repeated and come in any order. One month for each
  payment, whoever paid works, and a tenant that pays is not purged.
- *Sale screen*: two computations of one total, and answers nobody waits for.
  The drawer keeps what the order says, a cart is sold twice only if the till
  lost sight of a request, a quote is honoured and sold with its own cart.

`PROJECT.json` lists the hazards one by one, at the line where each bites, and
the properties that would catch it.

## 2. The database, as all modules see it

The modules share one reading of Postgres at READ COMMITTED:

- a statement sees what was committed when it began, and the transaction's own
  writes; a plain SELECT locks nothing;
- an UPDATE locks the rows it changes until the transaction ends, waits for a
  row that another transaction holds, and tests its condition again on the row
  it waited for;
- an INSERT that collides with an uncommitted row under a unique index waits
  for it, and fails (P2002) once that row is committed; a failed statement
  undoes its whole transaction;
- a cycle of waits is broken by undoing one of its members (40P01), which no
  caller retries;
- a transaction may be lost at any moment (Prisma's default limit of an
  interactive transaction, the process, the connection). It leaves nothing.

In TLA+ a committed value is a variable (`stock`, `balance`, `quantity`), what
an open transaction has written is another (`taken`, `entry`, `draft`), and a
lock is an owner. An action is one statement where the interleaving of
statements matters. Where it does not, the last write and its COMMIT are one
step, and the module says so (CashTill, Invoicing, TenantBilling; in SaleScreen
a whole request is one step of the server). Each module is one tenant. Each is
one store too, except QuoteBook, where a quote may be sold in another store, as
the code allows. Dates are days (TenantBilling), amounts are units or cents.

## 3. The modules and the code

### OrderCheckout, and SalesLedger that it implements

`OrdersService.create` (orders.service.ts:98-130) calls `attemptCreate`
(165-480) up to `MAX_ORDER_NUMBER_ATTEMPTS` times. One call is one process:

| Action | Code |
|---|---|
| `Begin` | a turn of the loop of `create`, a new transaction |
| `DecrementStockGuarded`, `StockInsufficient` | `decrementStockGuarded` (stock-mutations.ts:58-78), once per tracked line or bundle component, in cart order |
| `GetNextOrderNumber` | `getNextOrderNumber` (714-724): MAX + 1 of what is committed |
| `CreateOrder`, `DuplicateNumber` | `order.create` under the unique (tenant, store, number), P2002 and the retry |
| `Commit` | the tail of the transaction |
| `Reject` | any `BadRequestException` of the validation |
| `DeadlockVictim`, `Lose` | Postgres and the transaction's limit |

A cart is its sequence of decrements (`Lines`); the same row may come twice,
from a product and from a bundle that contains it. Prices, discounts, taxes and
payments decide only whether a call is rejected, and any call may be.
`Need` is the running total of `Lines`. It is a constant defined by
`NeedAssumption` and not a recursive definition, so that proofs can use it.

`SalesLedger` is the promise: a sale takes its whole cart in one step and gets
the next number. `LedgerSpec` maps `receipt` to the committed numbers and
`last` to their maximum; only `Commit` is not a stutter.

### CustomerAccount

The account of one customer: `applyAccountMovement`
(customers/customer-account.ts:34-82) and the four transactions around it.
`BeginDirect` is a sale on account or a correction, `BeginPayment` a collection
with its lookup by key, `BeginReversal` phase 3 of a cancellation, `LockOrder`
its `order.update`. `Apply`/`OverLimit` are the guarded UPDATE and its failure,
`Insert`/`Duplicate` the movement under its two unique indexes. `SetLimit` is
an edit of the customer, which runs at any time. A collection that finds its
key already used is answered with the stored movement (`replayed`).

### CashTill

One register: `open`, `addMovement`, `close` of `cash-shifts.service.ts`, with
the cash part of sales, collections and cancellations. A call reads a shift
(`BeginCash`, `BeginClose`, `BeginCancel`) and writes later (`InsertCash`,
`CloseShift`, `CancelOrder`). The three queries of `computeSummary` (191-222)
are three actions, because each has its own snapshot. `CreditNote` is the round
trip to AFIP between the two transactions of `cancel`, and may fail.
The last write and the COMMIT are one step: nothing reads between them that
this module follows. Two variables are history: `overlapped`, the shifts that
were closed while another call was using them, and `begun`, the rows of its shift
and the cancelled orders that a closing found when it began.

### StockRows, and StockBook that it implements

The StockLevel rows of one product in one store, and five kinds of writer:
sales (`decrementStockGuarded`), web orders (`decrementAllowingNegative`,
woo-worker.service.ts:265-291), purchases and cancellations
(`incrementStock`, stock-mutations.ts:34-52) and manual adjustments
(`StockService.adjust`). The actions follow the statements: a read of the order
or an UPDATE of the product's cost first (`ReadOrder`, `UpdateCost`), the
purchase number (`CreatePurchase`, `DuplicatePurchase`), the search for the row
(`Find`), the write (`UpdateRows`, `CreateRow`, `StockInsufficient`), and for a
cancellation the order and the reversal (`UpdateOrder`, `ReverseCharge`,
`DuplicateReversal`). A row is named after the call that created it; `Origin`
is the one created with the product, which may be missing.

`StockBook` is the promise: one number that every call moves by its units in
one step, sales never below zero, two cancellations of an order on account
exclude each other, an adjustment leaves any number. It promises nothing once
the product has two rows, since the code reads and writes one of them.

### QuoteBook

Calls of `QuotesService.create` (a quote is named after the call that makes it)
and `cancel`, and the calls of `OrdersService.create` that carry a quote
(orders.service.ts:193-210, 427-432). `ReadQuote`/`QuoteSettled` are the status
check, `ReadNumber`, `InsertRow`, `NumberTaken` the number with its retries,
`UpdateQuote` the update by id that waits for another holder of the row, and
the three commits what each kind of call leaves. `Fail` is any rejection, limit
or crash inside the transaction. EXPIRED is derived on reading, and no
transaction tests it.

### Invoicing

`InvoicesService.issue` and `issueCreditNote` and the three phases of
`OrdersService.cancel`, across the calls to AFIP that happen in no transaction.
`LoadOrder` is `loadOrderAndCustomer`; a ticket numbers itself
(`GetNextTicketNumber`, `CreateTicket`, `TicketNumberTaken`); an invoice or a
credit note asks (`AskLastVoucher`), is authorised (`AfipGrants`) or not
(`AfipFails`, also after the authorisation, when the answer is lost), and is
stored (`StoreIssued`, `StoreRejected`) or collides (`StoreConflict`).
`ReadForCancel`, `PrepareNote` and `CommitCancel` are phase 1, the start of
phase 2 and phase 3. AFIP is external: it authorises only the number after its
last one. `seen` is a history variable: the documents phase 1 could find.

### StoreSync

One product, one shop: `platform` is WooCommerce or Tienda Nube, chosen at first
and for good. The product is linked to its line in the shop from the
beginning or from some moment on (`Link`, a match of the catalogue's sync).
`Commit` is a change of the stock, `EnqueueStockSync` the transaction after it
that reads the level and queues a job; `NotSynced` is what happens when that is
lost, or nothing is linked. `Begin`, `UpdateStock`, `MarkSuccess` and
`FailOutbound` are `processStockOutbound`; `Deliver` is `handleOrderWebhook`;
`Check`, `SkipDuplicate`, `TakeOff`, `FailInbound` are `processOrderInbound`;
`TakeOff` has the branch of a line whose product is not linked, which takes
nothing off and says SUCCESS all the same. `RefuseInactive` ends a job of either
direction that finds the configuration off. `Retry` is `SyncLogService.retry`, of
a row of a quantity or of a web order; the second exist for Tienda Nube only and
go to WooCommerce's worker, where every attempt fails (`FailOrderRetry`). The
shop (`Sell`) and the queue (attempts, `Complete`, `Stall`) are external. The
history variables say how often a web order was taken off (`taken`) or passed
over (`skipped`), whose attempts overlapped or were given to a second worker
after their commit (`crowded`), which change was read last and sent last
(`lastRead`, `lastSent`), and which web orders crossed a job (`seen`, `crossed`).

### TenantBilling

A notice is fetched from Mercado Pago (`Fetch`) and applied in a transaction:
`ReadTenant`, `Record` or `Duplicate`, `Credit` or `NotePayment` are
`applyPayment`, `ApplyPreapprovalStatus` the notice of a subscription; `Drop`
is whatever loses it. `UpdateFromPlatform` is a change by the staff. The purge
is `ListExpired`, `CheckDemo`, `DeleteEvents`, `DeleteTenant`, `PurgeFails`.
`EffectiveState`, `BlocksAccess` and `BlocksWrites` are
`resolveSubscription` and the interceptor. History: `disturbed` (a credit used
an outdated period end, or the staff set one) and `settled` (the notices that
made the tenant a paying one outside the window of the purge).

### SaleScreen

The cart store, the checkout and quote dialogs and the conversion of a quote,
against a server whose requests are single steps (their statements are in
OrderCheckout and QuoteBook). The operators follow
`cart-calculations.ts` (`BodyItems`, `ShownTotal`), `payment-calculations.ts`
(`PaymentCovers`, `Change`) and, for the server, `attemptCreate` (`Resolved`,
`TotalOf`, `DiscountsAllowed`). `AddItem`, `DecrementItem`, `SetLineDiscount`,
`SetGlobalDiscount`, `ClearCart` edit the cart, under the dialog too;
`OpenCheckout`, `EditPayment`, `Confirm`, `CloseCheckout`, `NewSale` are the
dialog; `StoreOrder`, `RefuseOrder`, `Answer`, `LoseConnection` the request and
its way back. `CreateQuote`, `CancelQuote`, `Convert` are the quotes;
`Convert` drops the lines of products that are gone from the till's catalogue,
any of them, and keeps the quote. `ChangePrice` and `LoadCatalog` move the prices
of the two sides apart. Of no effect on the rest are `fill` (which cart this is),
`from` and `edited` (loaded in part, or changed since) of a cart, `touched` of the dialog, `fresh` of an order, and `left` (carts whose
request the till lost sight of). `work` counts against the bound.

### MC modules

`MCOrderCheckout`, `MCCustomerAccount`, `MCCashTill`, `MCStockRows`,
`MCQuoteBook`, `MCInvoicing`, `MCStoreSync`, `MCTenantBilling` and
`MCSaleScreen` give the function-valued constants. Definitions marked "Mutant
of ..." in the modules are plausible wrong versions of the definition next to
them; no specification uses them. For each property of each run,
`PROJECT.json` names one that makes TLC refute that property.

## 4. The runs

| Run | Instance | Distinct states | Shows |
|---|---|---|---|
| `checkout` | 4 sales, 3 rows, 2 attempts | 13 990 | no overselling, stock accounted for, numbers gap-free, retries fail only under contention, deadlocks only from crossed carts, SalesLedger implemented, every call ends |
| `account` | a sale on account, 2 cancellations of it, one collection sent twice, a correction, limit 4 or none | 48 328 | the ledger chains, nothing posted twice, cancelled orders owe nothing, the limit holds, every call ends |
| `till` | 2 openings, a sale with change, one overpaid by card, a withdrawal, a collection, 2 closings, a cancellation | 1 667 289 | one open shift, an undisturbed closing stores the drawer and the change not covered, any closing counts what was there when it began, a closed shift settles |
| `stock` | 5 mixes of 4 calls out of 7, with and without a first row, stock 2, 2 attempts | 42 815 | StockBook implemented, sales never overdraw, stock of an order on account back once, every call ends |
| `quotes` | 2 creations; 3 sales of one store and a cancellation over both quotes, 2 attempts | 30 691 | settled and quiet is settled for good, every call that has begun is answered |
| `invoicing` | an order with a ticket, an invoice and 2 cancellations; an order with 2 tickets; 2 attempts | 924 660 | issued is authorised, a cancellation after the invoice has its credit note, one per invoice, two documents only from overlapping calls |
| `sync` | either shop: a sale, a purchase, a retry of the sale's job; a web order delivered twice, a retry of the first delivery; 2 attempts, 1 fault | 3 473 560 | a web order is processed once, a row of success means it was, the shop is off by what crossed |
| `billing` | a demo; 2 payments, one notified twice, a notice of the subscription, a change by the staff; 2 days | 2 660 949 | one month for each payment, whoever paid works, the purge spares whoever paid |
| `counter` | 2 products, one of which changes its price; 1 quote, 2 requests; discounts of 5 and 10 %; 20 too much in cash | 2 125 640 | the drawer keeps the order's total, a cart is sold twice only if left, a quote is honoured, and converted by its own cart |
| `till_cancel` | a shift, a sale, its cancellation, a closing | | violation: finding 1 |
| `stock_restock` | two cancellations of a cash order | | violation: finding 2 |
| `quotes_twice` | 3 creations; 3 sales of one quote in 2 stores, 1 cancellation of it | | violation: finding 3 |

The type invariants of `checkout`, `till`, `stock` and `counter` are checked by
their runs; those of the other modules are proved for every instance (section
6) and left out of the runs.

Why the bounds are enough, and what they are:

- `checkout`: two carts take two rows in opposite orders (the smallest
  deadlock), two compete for the last units of a third row, one of them on two
  lines (so a call decrements its own locked row), and all four meet at the
  number. `MaxAttempts` is 2, not the code's 3: with four calls three
  collisions of one call need every other call to win, and two already reach
  exhaustion together with calls that still retry.
- `account`: each kind of movement, and the two pairs that collide under a
  unique index. The correction raises the debt by 2 after a sale of 3, so that
  limit 4 stops whichever comes second unless the collection comes between.
- `till`: one sale is partly paid by card with change, so the cash of the sale
  is neither what was handed over nor the total; of the other the card alone
  pays more than the total, so that its change exceeds its cash. A withdrawal and a collection
  are what one query of a closing may see and another not. Two shifts let a call
  meet a shift other than the one it is about; two closings race on one shift.
- `stock`: the constant `Mixes` keeps the calls that arrive together to four.
  Each pair of kinds that can write the row together is in some mix.
- `quotes`: two sales and the cancellation race for one quote; a third sale
  wants the other quote, and all three want one number while they hold or want
  the rows of the two quotes. A third sale is what lets a call lose its number
  twice and give up.
- `invoicing`: the ticket and the invoice of one order race each other and both
  cancellations; the two credit notes ask AFIP for one number. The second order
  makes tickets collide without a document of their own order in the way.
- `sync`: two changes in opposite directions are enough for their jobs to pass
  each other, and the retry repeats the older one. One unit at first lets the
  web order and the sale both take it, so the stock goes below zero. One fault
  is a failed attempt, after which the job is run again, or the death of a
  worker at any point. (A job that ends dead because of its own failures needs two; the
  proofs hold for any number.) The product is linked at first, or later, or
  never. The retried delivery is one whose row Tienda Nube's worker has marked
  FAILED, because its attempt failed or the configuration was off.
- `billing`: a payment and its repetition race a second payment, a pause or a
  cancellation, the staff and the purge. A month and the grace are one day, and
  on the second day the demo has expired and may be purged, the first month
  still lasts or has ended, and the period the staff sets is over.
- `counter`: prices 36 and 33 make both roundings differ, and a quote changes
  the kind of its discount. Two requests are the pair of TwiceOnlyIfLeft; three
  changes before a confirmation are a cart of two lines with a discount, or of
  one with a discount and a new price. Both discounts on one unit are 22.2 % of
  36 and 24.2 % of 33: the limit of 23 % lies between, so the server takes the
  one and refuses the other.

What bounds a run are the sets of calls and messages, `Limits`, `MaxAttempts`,
`Mixes`, `InitialStock`, and three bounds that stand in guards: `MaxFaults`
(StoreSync), `LastDay` (TenantBilling) and `MaxWork` with `MaxQuantity`
(SaleScreen); each is marked as a bound where it is declared. Symmetry is
declared where calls or messages are alike and nothing is checked but safety: the
two closings and the two shifts (`till`), the two notices of one payment
(`billing`), the requests (`counter`). `CHECK_DEADLOCK FALSE` appears for CashTill, QuoteBook,
Invoicing, StoreSync, TenantBilling and SaleScreen, where calls may never be
made (nobody has to close a shift or cancel a quote) and each call is made
once, so the system may stop. In the other modules every call is made, and
`Terminating` (or `SetLimit`) is the only step left when all have ended.

## 5. Fairness

`FairSpec` has weak fairness of `Work` for each call: a statement that can run
does. The event loop runs every request whose awaited query has been answered,
and Postgres answers a statement that waits for no lock and grants a lock when
its holder ends. Weak fairness is enough because a call that waits is made able
to go on by the end of another and stays able, or is overtaken finitely often:
every other call is answered once. Nothing makes `Lose`, `Abort`, `Reject`,
`SetLimit` or the rejection by AFIP happen. `DeadlockVictim` is part of `Work`:
Postgres does detect a cycle. In QuoteBook
nobody has to make a call: a call is fair while it has a transaction open or is
between two attempts (`AtWork`). `Fail` is not made to happen there; an insert
waits only for a transaction that can itself go on.

CashTill, Invoicing, StoreSync, TenantBilling and SaleScreen state no
fairness, and only safety is checked there. What should happen in the end often
does not in this code: a change whose job was never queued is not synced until
the next one, a notice answered 200 does not come back, a dialog may stay open.
No call of CashTill waits or retries, so that each ends is no more than that its
statements run.

## 6. The proofs

TLAPS checks them for any number of calls, any carts, amounts and stock, under
the named assumptions on the constants (`LinesAssumption`, `NeedAssumption`,
`AccountAssumption`, `TillAssumption`, `StockAssumption`, `SyncAssumption`,
`ScreenAssumption`, and `CallsAssumption` in QuoteBook, Invoicing and
TenantBilling). TLC evaluates each assumption on the passing run of its module. They say only what the code or the
kind of data makes true: that quantities are positive integers, that a call is
of one kind, that a sale creates its own order, that a loop makes at least one
attempt, that products, requests, sales and cash movements are finitely many,
that no call is named like a placeholder. In each module the argument
is one inductive invariant, proved action by action, from which the properties
follow.

| Module | Inductive invariant | Theorems |
|---|---|---|
| `OrderCheckout_proofs` | `CheckoutInv` = TypeOK, LockInv, CartInv, NumberInv, AttemptInv, NoOversell; with OwnerInv | type correctness, NoOversell, NumbersGapFree, OneUncommittedOrder, ExhaustedMeansContention, StockAccounted, DeadlockNeedsCrossedCarts, `Spec => LedgerSpec` |
| `OrderCheckout_proofs`, of SaleScreen | `ScreenInv` = ShapeInv, DialogInv, FillInv, CountInv, QuotedInv, ChargeInv | type correctness, DrawerKeepsTotal, TwiceOnlyIfLeft, QuoteHonoured, QuoteOfItsCart |
| `CustomerAccount_proofs` | `AccountInv` = TypeOK, HolderInv, EntryInv, LedgerChained, PostedOnce, CancelledOrdersOweNothing | type correctness, LedgerChained, PostedOnce, CancelledOrdersOweNothing, LimitRespected |
| `CashTill_proofs` | `TillInv` = ShapeInv, CallInv, OneOpenShift, QuietInv, StoredInv; with NumbersInv and CountedInv | type correctness, OneOpenShift, QuietCloseReconciles, ClosedShiftSettles, CloseCountsRows |
| `StockRows_proofs` | `StockInv` = TypeOK, RowInv, BuyInv, ShareInv, ReversalInv; with DraftInv | type correctness, PurchasesShareRow, RestockedOnceOnAccount, SaleNeverOverdraws, `Spec => BookSpec` |
| `QuoteBook_proofs` | `QuoteInv` = TypeOK, FlowInv, AttemptInv, HolderInv, SeriesInv, NumbersGapFree, SoldStaysMarked | type correctness, NumbersGapFree, SoldStaysMarked, SettledForGood |
| `Invoicing_proofs` | `InvoiceInv` = TypeOK, FlowInv, AttemptInv, GrantInv, TicketInv, CancelInv, VoidedOnce | type correctness, IssuedIsAuthorised, CancelledIsVoided, VoidedOnce, OneDocumentUnlessOverlap |
| `StoreSync_proofs` | `SyncInv` = TypeOK, AttemptInv, SuccessIsProcessed, OnceInv; `StoreInv` adds RowInv, SoldInv, LevelInv, ShopInv | type correctness, OncePerWebOrder, SuccessIsProcessed, ShopInStep |
| `TenantBilling_proofs` | `BillingInv` = TypeOK, PaymentInv, SubscriptionInv, OneMonthPerPayment, PurgeInv, PurgeSparesPaid | type correctness, OneMonthPerPayment, PaidNotBlocked, PurgeSparesPaid |

The proofs about SaleScreen are beside those about OrderCheckout: they need the
same lemmas about sums, and what the till confirms becomes calls of POST /orders.
The module extends both, so the till's specification is called `ScreenSpec`,
`ScreenInit`, `ScreenNext`, and its requests `Confirmations`. Nothing in either
proof uses the state of the other.

`OneUncommittedOrder`, `PurchasesShareRow`, `NumbersGapFree` and
`SoldStaysMarked` of the quotes and the type invariants of CustomerAccount, QuoteBook, Invoicing, StoreSync and
TenantBilling are proved without a run of their own.

Why the properties are not inductive alone:

- **Sales.** NoOversell speaks of committed stock, and the check was made
  several statements before the commit. LockInv says why it still holds: whoever
  has taken units of a row owns the row, so the committed quantity still covers
  them. CartInv ties what was taken to the prefix of the cart, so that a commit
  is exactly one `Sell`. NumberInv says that an uncommitted order has the number
  after the last, which makes it the only one. AttemptInv charges each failed
  attempt to one committed order, whence ExhaustedMeansContention.
  StockAccounted is inductive with CartInv: the commit moves one call into the
  sum, and CartInv says that the rows it moves are those of its whole cart.
  DeadlockNeedsCrossedCarts needs OwnerInv: whoever owns a row took it in an
  earlier line of its cart than the one it is at. A call that has inserted its
  number waits for nothing, so on a cycle of waits every call waits for a row
  that another one on it holds. Of the rows wanted on the cycle each is then
  listed before another of them, and after another, which is what Crossed says.
- **Accounts.** LedgerChained must survive a commit of an entry computed
  earlier. EntryInv says that an entry being posted fits the committed ledger,
  and HolderInv that its transaction holds the customer. The same entry carries
  the limit tested at the UPDATE to the commit (LimitRespected).
- **Shifts.** QuietInv says that a closing nobody disturbs is alone on its
  shift and that each query it has made still gives the same result; StoredInv
  carries that past the closing. CloseCountsRows says something of every closing,
  disturbed or not, and CountedInv carries it from query to query: each result
  is the sum over some set of rows that has those of the beginning less the
  cancelled ones, and rows only come to an open shift, so the set a query
  summed stays such a set. Lemma `NetCashIsKept` is the arithmetic: what
  `computeCashSalesTotal` counts is what stays in the drawer and the change that
  the cash of the sale did not cover. The argument of TillInv computes no sum. That what a
  closing reads and stores is a number (NumbersInv, for the type invariant) needs
  one: amounts that are not negative have a sum that is not (`SumsNat`).
- **Stock.** ShareInv holds because of BuyInv: one purchase of the product is
  between its cost update and its end. ReversalInv uses the lock of the order
  and the unique reversal together. RowInv carries `quantity >= 0` from a
  sale's UPDATE to its commit.
  For BookSpec, DraftInv says what an open transaction is about to commit: who
  has written holds the lock of its row, a row it creates is its only one, and
  except in an adjustment the draft of a locked row is the committed quantity
  and the units of its holder. The commit is then one step of the book, and
  every other step leaves the book alone.
- **Quotes.** SoldStaysMarked is what the code leaves of "sold once" (finding
  3): a quote with an order is not OPEN and names one of its orders. A commit
  writes what was decided several statements before. FlowInv says that only a quote that
  exists is worked on, HolderInv that two updates of it never interleave, so
  that a commit replaces status and order together. SeriesInv carries the number
  from its reading to its insert. SettledForGood then needs no more than the
  status check: whoever starts on a settled quote is refused.
- **Invoices.** An answer of AFIP is stored in a later transaction, and GrantInv
  holds in between: the number a call carries is the one granted to it, and no
  other voucher of the series has it. TicketInv is the same for numbers that
  come from the table. CancelInv ties what phase 1 found to what phase 3 finds
  stored; VoidedOnce needs the unique index only where two notes are stored.
- **Shops.** OncePerWebOrder says nothing while an attempt is between its check
  and its commit. OnceInv does: as long as attempts did not overlap, one of them
  at a time is past its check; once the web order is processed none is, and a
  row of it says SUCCESS whose own job is past its check, so that every other
  delivery finds that row. A retried row was FAILED, hence not that one. ShopInStep compares two sides that are never in step
  while anything moves. LevelInv relates the quantity in the last job read to
  the stock and the web orders that were not off it yet; ShopInv relates the
  shop to the last job sent and the orders it has sold since; when both jobs
  are one and all is settled, the orders missing from the two differ by those
  that crossed the job (SoldInv orders sold, taken off and seen).
- **Billing.** OneMonthPerPayment is about months given, and the insert that
  excludes a second one is earlier. PaymentInv says that a recorded event is its
  own and not yet committed, and that the date computed is a month after what
  was read. PurgeInv carries the tier seen by the purge to its delete: events
  that came after the events were deleted hold it back by their foreign key.
- **The sale screen.** The code gives a cart no number, so TwiceOnlyIfLeft is
  about history. FillInv says that of the requests that carry the cart on the
  screen, the dialog has lost sight of all but the one it awaits; CountInv
  counts the carts, for the type invariant. QuoteOfItsCart and QuoteHonoured
  are about a request decided when it is stored and filled when it was sent, from
  a cart loaded earlier. QuotedInv carries the quote through the three: a quoted
  line has its discount in money and within its price, an unedited cart has the
  lines of its quote at the till's prices, and a request has what its cart
  gives. A discount in money then survives the payload unchanged (`SentExactly`)
  and is resolved to itself (`ResolvedAgain`). ChargeInv relates the dialog to
  the request that was confirmed in it. DrawerKeepsTotal follows from it and from
  `TotalsNear`: each line's rounding is off by half a cent at most
  (`RoundNear`), terms that near have sums that near (`SumNear`), and an absent
  line adds nothing.

Sums over a set of calls, rows or lines (`SumFunctionOnSet`) are recursive functions,
and the library's induction over finite sets takes an operator as a parameter,
which these provers cannot instantiate. The sum lemmas of OrderCheckout_proofs
(`SumEmpty`, `SumStep`, `SumAdd`, `SumSame`, `SumNat`, `SumNear`) are proved by a minimal
counterexample instead: if the recursion failed for some finite set, a smallest
such set would exist because strict inclusion is well founded on finite sets,
and taking one element out of it contradicts that. StockRows_proofs and
CashTill_proofs repeat the ones they need, because the three extend no common
module of proofs.

Only TLC checks liveness (`EveryCallEnds` of OrderCheckout, StockRows and
QuoteBook, `EveryOpEnds`): TLAPS here has no ENABLED. Every invariant and action property of a passing run is proved.

## 7. Findings

Each is a statement of a comment or a message of the code, and the run in
which TLC finds it violated by what the code does.

1. `till_cancel`, orders.service.ts:618. "Esta venta pertenece a un turno de
   caja ya cerrado" (:581) is decided in phase 1 of `cancel`. Phase 3 reads the
   order again but not its shift; a closing during the round trip to AFIP does
   not stop it, and the stored arqueo no longer matches the rows.
2. `stock_restock`, orders.service.ts:627. Two cancellations of an order
   without a charge both read it COMPLETED ("Se revalida: entre la fase 1 y
   esta pudo haberla cancelado otro request", :625), update it by id without a
   condition, and both put its stock back. For an order on account the unique
   reversal prevents it (`RestockedOnceOnAccount`, proved).
3. `quotes_twice`, orders.service.ts:428. Two conversions read a quote OPEN, the
   second waits for its row, overwrites `orderId` and commits. "El @@unique de
   Quote.orderId es la red de seguridad real contra la carrera entre dos
   conversiones concurrentes" (:194-196, schema.prisma:723 likewise): the two
   order ids differ, so the index has nothing to refuse.

## 8. What else the code allows

Steps the models take because the code does, and that the properties leave room
for. Most contradict nothing written; where a comment or a message says otherwise
it is quoted, and no run is made for it.

Stock and shifts:

- Two calls that find no row for a product each create one (cancellations, web
  orders, adjustments). stock-mutations.ts:31 says that adding has no relevant
  race; that is so while there is one row (`BookSpec`), and between purchases
  (`PurchasesShareRow`, proved).
- A manual adjustment by a delta writes a quantity computed from an earlier
  read, over sales that committed meanwhile. StockBook lets an adjustment leave
  any number.
- A web order may leave stock below zero; that is its design.
- The excess over the total is refused only when no payment is in cash
  (orders.service.ts:360). A sale overpaid by card with some cash is taken; its
  change is more than its cash, and `computeCashSalesTotal` counts 0 where
  cash-shifts.service.ts:225 promises "El efectivo que realmente queda en el
  cajon por una venta". `QuietCloseReconciles` says how much the arqueo is off.
- A closing that overlaps a sale, a movement or a collection may store less
  than the drawer holds: `QuietCloseReconciles` leaves such shifts out, and
  `overlapped` says exactly which. A cash collection (customers.service.ts:133)
  is among them although :91 wants it in an open shift: it is the race of
  finding 1 with another call.

Quotes (QuoteBook):

- Beside finding 3: "Este presupuesto ya se convirtio en una venta y no se puede
  anular" (quotes.service.ts:229-231) tests the status that was read; the update
  (:237) is by id alone, and makes a quote CANCELLED that was sold meanwhile.
  `SettledForGood` says that both need calls that overlap.
- The store of the quote is not compared with the sale's, and a quote whose
  validity is over can be converted.

Invoices (Invoicing):

- A REJECTED row counts as a document, so a sale whose invoice AFIP refused, or
  whose answer was lost, is never invoiced again; "Reintentar" in the checkout
  dialog meets the conflict every time.
- An authorisation whose answer is lost leaves a REJECTED row and a voucher
  that is live at AFIP; a P2002 or a crash after the authorisation leaves no
  row at all, although invoices.service.ts:342-344 says that one stays.
- A credit note that is stored while phase 3 is lost leaves an order that can
  no longer be cancelled: the next attempt finds the note and is refused.
- An invoice stored after phase 1 looked survives the cancellation
  (`CancelledIsVoided` is about those it could find).

Shops (StoreSync):

- Jobs pass each other, so the quantity queued last is not always the one that
  stays, against tn-stock-sync.service.ts:171-172 ("gana el ultimo encolado").
  `ShopInStep` claims something only when it is.
- A web order placed while a job is on its way is overwritten at the shop,
  which then shows one unit too many until the next change.
- No job tells a shop what its own or the other shop's web orders took.
- "Idempotencia ...: Tienda Nube reintenta los webhooks que no contesten 2xx, y
  order/paid puede llegar repetido" (tn-worker.service.ts:202-203). Two deliveries
  at work together both find no finished row (:204), and both take the order off.
  WooCommerce's worker looks and writes in one transaction at READ COMMITTED,
  which does not help. `OncePerWebOrder` leaves such orders out (`crowded`).
- "una PENDING ya tiene un job corriendo/esperando en Redis"
  (sync-log.service.ts:72-74): when a web order's job has used up its attempts
  the handler of "failed" only writes to the log (woo-worker.service.ts:44), the
  row stays PENDING, and `retry` refuses it.
- A job that is run again after its own commit takes the order off twice: the
  test of duplicates leaves out its own row.
- A retry of a Tienda Nube row goes to the WooCommerce queue and fails. That of
  a quantity is marked FAILED again; that of a web order never gets as far as to
  mark its row, which then says PENDING without a job. A FAILED row
  may still have an attempt of the queue waiting when it is retried.
- A web order of a product that is not linked is SUCCESS with nothing taken off,
  and stays so when the product is linked later.

Billing (TenantBilling):

- Two payments that overlap both extend the period they read, and one month is
  lost. `disturbed` says when.
- A payment first notified as pending takes the key of the payment, and its
  approval is then taken for a duplicate: its month is never given.
- Errors are answered 200 and no notice follows, while the comment at
  mp-webhook.controller.ts:88 counts on another one.
- Statuses of a subscription are applied in the order the answers arrive.
- A change by the staff may set a period end without making a demo a standard
  tenant; the interceptor then still refuses it as an expired demo.
- A payment applied between the purge's check and its delete of the events is
  deleted with the tenant (`settled` leaves it out).

Sale screen (SaleScreen):

- Four lines of 36 cents with 10 % off show 130, and the server adds up 128: the
  exact total by card is refused for two cents of excess, while
  cart-calculations.ts:57-58 wants the two not to drift apart. Within the
  roundings of `DrawerKeepsTotal` that is all they can drift.
- With a limit of 10 %, an exact 10 % on a price below some 50 pesos may be
  refused: the rounding of the line exceeds the tolerance of a hundredth of a
  point (orders.service.ts:147-150).
- A price that changes between the cart and the sale makes the change handed out
  differ from what the server counts (`fresh` leaves it out), and a converted
  quote is charged at today's prices.
- A converted quote loses a part of a discount if the till has loaded a price
  below that discount: `discountAmount` stops at the till's price, and what is
  sent is that (cart-calculations.ts:35-47). With the price back at what it was
  the sale is dearer than the quote (3 cents instead of 43 and a discount of 5:
  sold at 40, quoted at 38). `SellsQuote` leaves this case out.
- A quote of which some products left the catalogue is loaded in part (the page
  says so), sold in part, and CONVERTED; with every line gone its number waits
  for whatever is scanned next. `SellsQuote` leaves these carts out.
- What is scanned while a payment is confirmed or its receipt shown is gone with
  "Nueva venta". A quote stays with a cart whose lines were all removed one by
  one. A page loaded again on the receipt keeps the cart, and it can be sold a
  second time (`left`).

## 9. What is not modelled, and why

- Taxes and the composition of invoices: arithmetic of one request. Prices,
  discounts, change and their roundings are in SaleScreen; elsewhere a total is
  a number or decides only whether a call is rejected.
- Purchases of several products: StockRows follows one product. Two purchases
  that list products in opposite orders deadlock as carts do.
- The jobs that send prices (they repeat those of stock with a price read at
  the same moment), importing a shop's catalogue (that it links the product is
  a step of StoreSync), and OAuth.
- AFIP's access ticket: a cache of one value that is asked for again.
- Starting a subscription, the cache of the plan and its limits, the codes and
  the provisioning of demos. The limit of a demo counts before the insert, so
  two creations may both pass, which plan.service.ts:131 accepts; the cache is
  emptied before the commit and may be filled again with the old plan.
- Sessions, passwords, tokens and signatures; single-row CRUD; imports; reports;
  the rest of the web client (administration, printing, offline catalogue).
- In SaleScreen: sales on account and with several payments, bundles and variants.
- Liveness of CashTill and of the four last modules (section 5).
- Row-level security: every query has its tenant's filter, and each module is
  one tenant.
- Clocks: the limit of an interactive transaction is that it may be lost.

## 10. Plan

The order is that of the money and goods at stake. Done, each with its run:
OrderCheckout with SalesLedger, CustomerAccount, CashTill, StockRows with
StockBook, QuoteBook, Invoicing, StoreSync, TenantBilling, SaleScreen, all with
proofs. Left, in order:

1. Abstract specifications of the quote (open, then one end) and of the shop's
   stock, with the conditions of `SettledForGood` and `ShopInStep` as theirs.
2. Purchases of several products: their deadlocks and the rows they create.
3. Invoicing composed with CashTill: one cancellation, its credit note and its
   shift.
4. Proofs: the account as an implementation of an atomic ledger.

To check by hand, in this directory: `tlc -workers 2 -config checkout.cfg
MCOrderCheckout` (and likewise for the other runs of `PROJECT.json`), and
`tlapm OrderCheckout_proofs.tla` for the proofs.
