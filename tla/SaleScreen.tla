----------------------------- MODULE SaleScreen -----------------------------
(***************************************************************************)
(* The sale screen of one till (apps/pos-web: the cart store, the checkout *)
(* and quote dialogs, the conversion of a quote) against the server, which *)
(* prices every line again (OrdersService.create, QuotesService.create).   *)
(*                                                                         *)
(* The till computes totals, discounts and change from the prices it had   *)
(* when each line was added; the server from the catalogue at the moment   *)
(* of the sale. The till sends quantities, discounts in money and payments,*)
(* never a price. A request to the server is one step there: its statements*)
(* are in OrderCheckout and QuoteBook.                                     *)
(*                                                                         *)
(* Amounts are cents. Percentages are exact, where the code has doubles;   *)
(* half a cent is rounded up. An amount that differs from its limit by     *)
(* exactly the tolerance passes here, and the server may also refuse it.   *)
(*                                                                         *)
(* The specification is ScreenSpec: its proofs extend OrderCheckout too,   *)
(* whose calls the confirmations become.                                   *)
(***************************************************************************)
EXTENDS Integers, FiniteSetsExt

CONSTANTS
  Products,         \* sellable units; a line of the cart is one of them
  Quotes,           \* the quotes this till makes
  Confirmations,    \* the confirmations of a payment it sends
  PricesOf,         \* PricesOf[p]: the prices p may have
  OwnDiscounts,     \* the discounts the cashier types on a line
  GlobalDiscounts,  \* and on the whole cart
  Extras,           \* what a customer hands over beyond the total
  Limit,            \* the cashier's discount limit, in percent; NO_LIMIT = 100
  MaxQuantity,      \* bound: units of one line
  MaxWork,          \* bound: changes of cart or price and confirmations
  NoQuote, NoRequest

Discount == [kind : {"FIXED", "PERCENTAGE"}, value : Nat]

ASSUME ScreenAssumption ==
  /\ IsFiniteSet(Products) /\ IsFiniteSet(Confirmations)
  /\ PricesOf \in [Products -> SUBSET Nat]
  /\ OwnDiscounts \subseteq Discount /\ GlobalDiscounts \subseteq Discount
  /\ Extras \subseteq Nat
  /\ MaxQuantity \in Nat
  /\ NoQuote \notin Quotes /\ NoRequest \notin Confirmations

VARIABLES
  price,       \* price[p]: Product.price
  quote,       \* quote[q]: the stored quote; its status is "none" before it is
  catalog,     \* catalog[p]: the price the till has loaded
  cart,        \* the cart store (useCartStore)
  work,        \* how many of these there were, for the bound
  checkout,    \* the checkout dialog (CheckoutModal)
  sent,        \* sent[r]: what request r carries, while it is on its way
  stage,       \* stage[r]: how far r has gone
  order,       \* order[r]: the order the server stored for r
  left         \* carts still on the screen after the dialog of a sent request went

screenVars == <<price, quote, catalog, cart, work, checkout, sent, stage, order, left>>

Prices == UNION {PricesOf[p] : p \in Products}
NoDiscount == [kind |-> "FIXED", value |-> 0]
NoLine == [quantity |-> 0, price |-> 0, discount |-> NoDiscount]

\* A line is absent when its quantity is 0. fill numbers the carts, skipping
\* those no request was sent for; from is the quote this cart was loaded from, if
\* any, and edited says whether it was loaded in part only or has changed since:
\* the code keeps none of the three, the properties do.
EmptyCart(n) ==
  [lines |-> [p \in Products |-> NoLine], discount |-> NoDiscount,
   quote |-> NoQuote, fill |-> n, from |-> NoQuote, edited |-> FALSE]

\* touched: the cart or the payment changed after the confirmation.
Closed == [view |-> "closed", request |-> NoRequest, cash |-> 0, card |-> 0, touched |-> FALSE]

NoQuoteYet == [status |-> "none", lines |-> [p \in Products |-> NoLine], total |-> 0]
NoOrder == [total |-> 0, fill |-> 0, fresh |-> FALSE]

ScreenInit ==
  /\ price \in [Products -> Prices] /\ \A p \in Products : price[p] \in PricesOf[p]
  /\ quote = [q \in Quotes |-> NoQuoteYet]
  /\ catalog = price
  /\ cart = EmptyCart(1)
  /\ work = 0
  /\ checkout = Closed
  /\ sent = [r \in Confirmations |-> NoRequest]
  /\ stage = [r \in Confirmations |-> "unsent"]
  /\ order = [r \in Confirmations |-> NoOrder]
  /\ left = {}

-----------------------------------------------------------------------------
(* The arithmetic of the till: cart-calculations.ts, payment-calculations. *)

Least(a, b) == IF a < b THEN a ELSE b
SumOver(f) == SumFunctionOnSet(f, Products)

\* round2 of n / d cents.
Round(n, d) == (2 * n + d) \div (2 * d)

Gross(line) == line.price * line.quantity

\* discountAmount of a line's own discount, in hundredths of a cent.
OwnCut(line) ==
  IF line.discount.kind = "PERCENTAGE"
  THEN Gross(line) * Least(line.discount.value, 100)
  ELSE 100 * Least(line.discount.value, Gross(line))

NetOfOwn(line) == 100 * Gross(line) - OwnCut(line)
Base(c) == SumOver([p \in Products |-> NetOfOwn(c.lines[p])])

\* The part of the base the global discount takes, as a fraction.
GlobalPart(c, base) ==
  IF c.discount.kind = "PERCENTAGE" THEN <<Least(c.discount.value, 100), 100>>
  ELSE IF base = 0 THEN <<0, 1>>
  ELSE <<Least(100 * c.discount.value, base), base>>

\* Mutant of SentDiscount: the line's own discount only.
SentOwnDiscount(line, part) == Round(OwnCut(line), 100)

\* computeOrderItemsPayload: own discount and share of the global one, rounded.
SentDiscount(line, part) ==
  Round(OwnCut(line) * part[2] + NetOfOwn(line) * part[1], 100 * part[2])

BodyItems(c) ==
  LET part == GlobalPart(c, Base(c))
  IN [p \in Products |-> [quantity |-> c.lines[p].quantity,
                          discount |-> SentDiscount(c.lines[p], part)]]

\* computeCartTotals(...).total: rounded once, at the end.
ShownTotal(c) ==
  LET base == Base(c)
      part == GlobalPart(c, base)
  IN Round(base * (part[2] - part[1]), 100 * part[2])

InCart(c) == {p \in Products : c.lines[p].quantity > 0}
Paid(pay) == pay.cash + pay.card

\* validatePayments.
PaymentCovers(pay, total) ==
  /\ Paid(pay) >= total - 1
  /\ Paid(pay) > total + 1 => pay.cash > 0

\* computeChange.
Change(pay, total) == IF Paid(pay) - total <= 1 THEN 0 ELSE Paid(pay) - total

-----------------------------------------------------------------------------
(* The arithmetic of the server: attemptCreate of orders and of quotes.    *)

\* The lines of a request at today's prices, the discount clamped to the gross.
Resolved(items) ==
  [p \in Products |->
     LET gross == price[p] * items[p].quantity
     IN IF items[p].quantity = 0 THEN NoLine
        ELSE [quantity |-> items[p].quantity, price |-> price[p],
              discount |-> [kind |-> "FIXED", value |-> Least(items[p].discount, gross)]]]

TotalOf(lines) == SumOver([p \in Products |-> Gross(lines[p]) - lines[p].discount.value])

\* assertDiscountWithinLimit, tolerance of a hundredth of a point included.
WithinLimit(cut, gross) == 10000 * cut <= (100 * Limit + 1) * gross

DiscountsAllowed(lines) ==
  /\ \A p \in Products : WithinLimit(lines[p].discount.value, Gross(lines[p]))
  /\ WithinLimit(SumOver([p \in Products |-> lines[p].discount.value]),
                 SumOver([p \in Products |-> Gross(lines[p])]))

\* The bound.
Works == work < MaxWork /\ work' = work + 1

-----------------------------------------------------------------------------
(* The catalogue: an administrator changes a price; the till loads it.     *)

ChangePrice(p, v) ==
  /\ v # price[p]
  /\ Works
  /\ price' = [price EXCEPT ![p] = v]
  /\ UNCHANGED <<quote, catalog, cart, checkout, sent, stage, order, left>>

LoadCatalog ==
  /\ catalog # price
  /\ catalog' = price
  /\ UNCHANGED <<price, quote, cart, work, checkout, sent, stage, order, left>>

-----------------------------------------------------------------------------
(* The cart. The scanner and the keys work under the dialog as well.       *)

\* While a payment is being confirmed, or its receipt is shown.
Confirmed == checkout.view \in {"charging", "charged"}

EditCart(c) ==
  /\ Works
  /\ cart' = [c EXCEPT !.edited = TRUE]
  /\ checkout' = [checkout EXCEPT !.touched = @ \/ Confirmed]
  /\ UNCHANGED <<price, quote, catalog, sent, stage, order, left>>

\* addItem: a line keeps the price it was added with, and a second unit takes it
\* too.
OneMore(line, p) ==
  IF line.quantity = 0 THEN [NoLine EXCEPT !.quantity = 1, !.price = catalog[p]]
  ELSE [line EXCEPT !.quantity = @ + 1]

AddItem(p) ==
  /\ cart.lines[p].quantity < MaxQuantity
  /\ EditCart([cart EXCEPT !.lines[p] = OneMore(@, p)])

\* Mutant of OneFewer: the last unit leaves its line behind.
OneFewerKept(line) == [line EXCEPT !.quantity = @ - 1]

\* incrementQuantity(lineId, -1): the last unit takes the line with it.
OneFewer(line) == IF line.quantity = 1 THEN NoLine ELSE [line EXCEPT !.quantity = @ - 1]

DecrementItem(p) ==
  /\ cart.lines[p].quantity > 0
  /\ EditCart([cart EXCEPT !.lines[p] = OneFewer(@)])

SetLineDiscount(p, d) ==
  /\ cart.lines[p].quantity > 0
  /\ cart.lines[p].discount # d
  /\ EditCart([cart EXCEPT !.lines[p].discount = d])

SetGlobalDiscount(d) ==
  /\ cart.discount # d
  /\ EditCart([cart EXCEPT !.discount = d])

\* The cart that request r sells.
FillOf(r) == IF stage[r] = "travelling" THEN sent[r].cart.fill ELSE order[r].fill

NextFill ==
  IF \E r \in Confirmations : stage[r] # "unsent" /\ FillOf(r) = cart.fill
  THEN cart.fill + 1 ELSE cart.fill

\* Mutant of Cleared: the quote stays with the till.
ClearedButQuote == [EmptyCart(NextFill) EXCEPT !.quote = cart.quote]

\* clearCart.
Cleared == EmptyCart(NextFill)

\* F4, or another store: clearCart.
ClearCart ==
  /\ InCart(cart) # {}
  /\ cart' = Cleared
  /\ checkout' = [checkout EXCEPT !.touched = @ \/ Confirmed]
  /\ UNCHANGED <<price, quote, catalog, work, sent, stage, order, left>>

-----------------------------------------------------------------------------
(* Quotes.                                                                 *)

\* QuoteModal and QuotesService.create.
CreateQuote(q) ==
  /\ quote[q].status = "none"
  /\ checkout.view = "closed"
  /\ InCart(cart) # {}
  /\ LET lines == Resolved(BodyItems(cart))
     IN quote' = [quote EXCEPT ![q] =
                    [status |-> "OPEN", lines |-> lines, total |-> TotalOf(lines)]]
  /\ UNCHANGED <<price, catalog, cart, work, checkout, sent, stage, order, left>>

CancelQuote(q) ==
  /\ quote[q].status = "OPEN"
  /\ quote' = [quote EXCEPT ![q].status = "CANCELLED"]
  /\ UNCHANGED <<price, catalog, cart, work, checkout, sent, stage, order, left>>

\* Mutant of LoadedLine: the cart gets the units without their discount.
LoadedPlain(q, p) ==
  [NoLine EXCEPT !.quantity = quote[q].lines[p].quantity, !.price = catalog[p]]

\* A quoted line comes back with the discount in money and the price the till has
\* loaded.
LoadedLine(q, p) ==
  LET line == quote[q].lines[p]
  IN IF line = NoLine THEN NoLine ELSE [line EXCEPT !.price = catalog[p]]

\* handleConvert: the page shows the quote OPEN or EXPIRED, as it last read it.
\* The lines of the products that are gone from the till's catalogue are dropped;
\* the quote stays with the cart, were it empty, and the rest can be sold.
Convert(q, gone) ==
  /\ quote[q].status # "none"
  /\ checkout.view = "closed"
  /\ cart' = [Cleared EXCEPT
                !.lines = [p \in Products |-> IF p \in gone THEN NoLine ELSE LoadedLine(q, p)],
                !.quote = q, !.from = q, !.edited = (gone # {})]
  /\ UNCHANGED <<price, quote, catalog, work, checkout, sent, stage, order, left>>

-----------------------------------------------------------------------------
(* The checkout dialog.                                                    *)

OpenCheckout ==
  /\ checkout.view = "closed"
  /\ InCart(cart) # {}
  /\ checkout' = [Closed EXCEPT !.view = "open", !.cash = ShownTotal(cart)]
  /\ UNCHANGED <<price, quote, catalog, cart, work, sent, stage, order, left>>

\* Cash with something over, or the exact total by card.
EditPayment(cash, card) ==
  /\ checkout.view \in {"open", "charging"}
  /\ <<cash, card>> # <<checkout.cash, checkout.card>>
  /\ checkout' = [checkout EXCEPT !.cash = cash, !.card = card, !.touched = @ \/ Confirmed]
  /\ UNCHANGED <<price, quote, catalog, cart, work, sent, stage, order, left>>

\* handleConfirm. The cart goes along for the properties.
Confirm(r) ==
  /\ checkout.view = "open"
  /\ stage[r] = "unsent"
  /\ PaymentCovers(checkout, ShownTotal(cart))
  /\ Works
  /\ sent' = [sent EXCEPT ![r] =
       [items |-> BodyItems(cart), quote |-> cart.quote, cash |-> checkout.cash,
        card |-> checkout.card, cart |-> cart]]
  /\ stage' = [stage EXCEPT ![r] = "travelling"]
  /\ checkout' = [checkout EXCEPT !.view = "charging", !.request = r, !.touched = FALSE]
  /\ UNCHANGED <<price, quote, catalog, cart, order, left>>

LeftBehind(r) == IF stage[r] = "refused" THEN left ELSE left \cup {FillOf(r)}

\* Escape, or a click beside the dialog. In any view, a reload of the page, which
\* the cart survives (sessionStorage), or a shift closed elsewhere, which takes
\* the dialog off the screen. A request on its way goes on; nobody reads its answer.
CloseCheckout ==
  /\ checkout.view # "closed"
  /\ checkout' = Closed
  /\ left' = IF Confirmed THEN LeftBehind(checkout.request) ELSE left
  /\ UNCHANGED <<price, quote, catalog, cart, work, sent, stage, order>>

\* Mutant of AfterSale: the next sale starts from this cart.
SameCart == cart

AfterSale == Cleared

\* onNewSale.
NewSale ==
  /\ checkout.view = "charged"
  /\ cart' = AfterSale
  /\ checkout' = Closed
  /\ UNCHANGED <<price, quote, catalog, work, sent, stage, order, left>>

-----------------------------------------------------------------------------
(* The server, and the way back.                                           *)

\* The checks of attemptCreate on the amounts.
AmountsAccepted(r) ==
  LET lines == Resolved(sent[r].items)
  IN DiscountsAllowed(lines) /\ PaymentCovers(sent[r], TotalOf(lines))

\* The till's prices for r are those of the catalogue.
Fresh(r) == \A p \in InCart(sent[r].cart) : sent[r].cart.lines[p].price = price[p]

StoreOrder(r) ==
  /\ stage[r] = "travelling"
  /\ InCart(sent[r].cart) # {}
  /\ sent[r].quote # NoQuote => quote[sent[r].quote].status = "OPEN"
  /\ AmountsAccepted(r)
  /\ order' = [order EXCEPT ![r] =
       [total |-> TotalOf(Resolved(sent[r].items)),
        fill |-> sent[r].cart.fill, fresh |-> Fresh(r)]]
  /\ quote' = IF sent[r].quote = NoQuote THEN quote
              ELSE [quote EXCEPT ![sent[r].quote].status = "CONVERTED"]
  /\ stage' = [stage EXCEPT ![r] = "stored"]
  /\ sent' = [sent EXCEPT ![r] = NoRequest]
  /\ UNCHANGED <<price, catalog, cart, work, checkout, left>>

\* One of these checks fails, or any other: stock, shift, customer, a timeout.
RefuseOrder(r) ==
  /\ stage[r] = "travelling"
  /\ stage' = [stage EXCEPT ![r] = "refused"]
  /\ sent' = [sent EXCEPT ![r] = NoRequest]
  /\ UNCHANGED <<price, quote, catalog, cart, work, checkout, order, left>>

Awaited(r) == checkout.view = "charging" /\ checkout.request = r

\* The answer reaches the dialog that waits for it.
Answer(r) ==
  /\ Awaited(r)
  /\ stage[r] \in {"stored", "refused"}
  /\ checkout' = IF stage[r] = "stored" THEN [checkout EXCEPT !.view = "charged"]
                 ELSE [checkout EXCEPT !.view = "open", !.request = NoRequest, !.touched = FALSE]
  /\ UNCHANGED <<price, quote, catalog, cart, work, sent, stage, order, left>>

\* "No se pudo registrar la venta": the connection breaks, and the request may
\* be stored all the same, before or after.
LoseConnection(r) ==
  /\ Awaited(r)
  /\ checkout' = [checkout EXCEPT !.view = "open", !.request = NoRequest, !.touched = FALSE]
  /\ left' = LeftBehind(r)
  /\ UNCHANGED <<price, quote, catalog, cart, work, sent, stage, order>>

-----------------------------------------------------------------------------
EditsOf(p) ==
  AddItem(p) \/ DecrementItem(p) \/ \E d \in OwnDiscounts \cup {NoDiscount} : SetLineDiscount(p, d)

Pays ==
  LET total == ShownTotal(cart)
  IN EditPayment(0, total) \/ \E x \in Extras : EditPayment(total + x, 0)

Steps(r) ==
  Confirm(r) \/ StoreOrder(r) \/ RefuseOrder(r) \/ Answer(r) \/ LoseConnection(r)

ScreenNext ==
  \/ \E p \in Products : EditsOf(p) \/ \E v \in PricesOf[p] : ChangePrice(p, v)
  \/ \E d \in GlobalDiscounts \cup {NoDiscount} : SetGlobalDiscount(d)
  \/ \E q \in Quotes : \/ CreateQuote(q) \/ CancelQuote(q)
                       \/ \E gone \in SUBSET InCart(quote[q]) : Convert(q, gone)
  \/ \E r \in Confirmations : Steps(r)
  \/ LoadCatalog \/ ClearCart \/ OpenCheckout \/ Pays \/ CloseCheckout \/ NewSale

ScreenSpec == ScreenInit /\ [][ScreenNext]_screenVars

-----------------------------------------------------------------------------
(* Properties.                                                             *)

CartLine ==
  {NoLine} \cup [quantity : 1 .. MaxQuantity, price : Prices,
                discount : Discount]

ScreenTypeOK ==
  /\ price \in [Products -> Prices] /\ catalog \in [Products -> Prices]
  /\ \A q \in Quotes :
       /\ quote[q].status \in {"none", "OPEN", "CONVERTED", "CANCELLED"}
       /\ quote[q].lines \in [Products -> CartLine] /\ quote[q].total \in Nat
  /\ cart.lines \in [Products -> CartLine] /\ cart.fill \in 1 .. Cardinality(Confirmations) + 1
  /\ cart.quote \in Quotes \cup {NoQuote} /\ cart.from \in Quotes \cup {NoQuote}
  /\ checkout.view \in {"closed", "open", "charging", "charged"}
  /\ checkout.request \in Confirmations \cup {NoRequest}
  /\ checkout.cash \in Nat /\ checkout.card \in Nat
  /\ stage \in [Confirmations -> {"unsent", "travelling", "stored", "refused"}]
  /\ \A r \in Confirmations :
       order[r].total \in Nat /\ order[r].fill \in 0 .. Cardinality(Confirmations) + 1
  /\ left \subseteq 1 .. Cardinality(Confirmations) + 1

Stored(r) == stage[r] = "stored"

Distance(a, b) == IF a < b THEN b - a ELSE a - b

\* The drawer keeps what the order says. The receipt shows the change of the
\* till's total and the closing counts the server's (computeChange,
\* attemptCreate): with current prices and nothing touched after the
\* confirmation they differ by the roundings, half a cent for each line and one
\* for the sum, and the cent that either side tolerates.
DrawerKeepsTotal ==
  checkout.view = "charged" /\ ~ checkout.touched /\ order[checkout.request].fresh =>
    2 * Distance(Paid(checkout) - Change(checkout, ShownTotal(cart)),
                 order[checkout.request].total)
      <= Cardinality(InCart(cart)) + 3

\* POST /orders has no key of its own. A cart is sold twice only if the till
\* lost sight of one of its requests: the dialog was closed, its connection
\* broke, or the page was loaded again before "Nueva venta" (handleConfirm,
\* onNewSale, the persisted cart).
TwiceOnlyIfLeft ==
  \A r, s \in Confirmations :
    r # s /\ Stored(r) /\ Stored(s) /\ order[r].fill = order[s].fill =>
      order[r].fill \in left

\* The step sells, with r, the quote as it was loaded, whole, at the prices it
\* was made with, and no price the till had for it was less than its discount.
SellsQuote(r) ==
  LET c == sent[r].cart
  IN /\ c.from # NoQuote /\ ~ c.edited
     /\ \A p \in InCart(c) :
          /\ quote[c.from].lines[p].price = price[p]
          /\ c.lines[p].discount.value <= Gross(c.lines[p])

\* A quote sold as it was loaded, with all its lines and at the prices it was
\* made with, is sold for its total, the one the till shows: the discount in
\* money survives two roundings and the change of its kind (handleConvert,
\* computeOrderItemsPayload, attemptCreate of quotes and of orders).
QuoteHonoured ==
  [][\A r \in Confirmations :
       stage[r] = "travelling" /\ stage'[r] = "stored" /\ SellsQuote(r) =>
         /\ order'[r].total = quote[sent[r].cart.from].total
         /\ Fresh(r) => ShownTotal(sent[r].cart) = order'[r].total]_screenVars

\* A sale converts the quote its cart was loaded from, and no other: whatever
\* was cleared, sold or left between, a quote does not stay with the till for
\* the next customer (setQuoteId, clearCart).
QuoteOfItsCart ==
  [][\A q \in Quotes :
       quote[q].status # "CONVERTED" /\ quote'[q].status = "CONVERTED" =>
         \E r \in Confirmations :
           stage[r] = "travelling" /\ stage'[r] = "stored" /\ sent[r].cart.from = q]_screenVars

-----------------------------------------------------------------------------
(* The inductive invariant of the proofs.                                  *)

Cart ==
  [lines : [Products -> CartLine], discount : Discount, quote : Quotes \cup {NoQuote},
   fill : Nat \ {0}, from : Quotes \cup {NoQuote}, edited : BOOLEAN]

Request ==
  [items : [Products -> [quantity : 0 .. MaxQuantity, discount : Nat]],
   quote : Quotes \cup {NoQuote}, cash : Nat, card : Nat, cart : Cart]

ShapeInv ==
  /\ price \in [Products -> Prices] /\ catalog \in [Products -> Prices]
  /\ quote \in [Quotes -> [status : {"none", "OPEN", "CONVERTED", "CANCELLED"},
                           lines : [Products -> CartLine], total : Nat]]
  /\ cart \in Cart
  /\ checkout \in [view : {"closed", "open", "charging", "charged"},
                   request : Confirmations \cup {NoRequest},
                   cash : Nat, card : Nat, touched : BOOLEAN]
  /\ stage \in [Confirmations -> {"unsent", "travelling", "stored", "refused"}]
  /\ DOMAIN sent = Confirmations
  /\ \A r \in Confirmations : stage[r] = "travelling" => sent[r] \in Request
  /\ order \in [Confirmations -> [total : Nat, fill : Nat, fresh : BOOLEAN]]
  /\ \A r \in Confirmations : stage[r] # "stored" => order[r].fill = 0

\* The dialog speaks of a request it has sent.
DialogInv ==
  /\ Confirmed => checkout.request \in Confirmations /\ stage[checkout.request] # "unsent"
  /\ checkout.view = "charged" => Stored(checkout.request)

Live(r) == stage[r] \in {"travelling", "stored"}

\* The carts are numbered as they are sold: of the requests that carry the cart
\* on the screen, the dialog has lost sight of all but the one it awaits.
FillInv ==
  /\ \A r \in Confirmations :
       Live(r) =>
         /\ FillOf(r) \in 1 .. cart.fill
         /\ FillOf(r) = cart.fill /\ ~ (Confirmed /\ checkout.request = r) => cart.fill \in left
  /\ \A r, s \in Confirmations :
       r # s /\ Live(r) /\ Live(s) /\ FillOf(r) = FillOf(s) => FillOf(r) \in left

\* A number is skipped for a request that was sent.
CountInv ==
  LET used == Cardinality({r \in Confirmations : stage[r] # "unsent"})
  IN /\ cart.fill <= used + 1
     /\ \A r \in Confirmations : Live(r) /\ FillOf(r) = cart.fill => cart.fill <= used
     /\ left \subseteq 1 .. cart.fill

\* A cart has the quote it was loaded from; while nobody edits it, it has the
\* lines of that quote at the till's prices.
Loaded(c) ==
  /\ c.quote = c.from
  /\ c.from # NoQuote => quote[c.from].status # "none"
  /\ c.from # NoQuote /\ ~ c.edited =>
       /\ c.discount = NoDiscount
       /\ \A p \in Products :
            c.lines[p] = IF quote[c.from].lines[p] = NoLine THEN NoLine
                         ELSE [quote[c.from].lines[p] EXCEPT !.price = c.lines[p].price]

\* The lines of a quote have their discount in money, and its total is theirs.
QuotedInv ==
  /\ \A q \in Quotes :
       /\ quote[q].total = TotalOf(quote[q].lines)
       /\ \A p \in Products :
            LET line == quote[q].lines[p]
            IN line.discount.kind = "FIXED" /\ line.discount.value <= Gross(line)
  /\ Loaded(cart)
  /\ \A r \in Confirmations :
       stage[r] = "travelling" =>
         /\ Loaded(sent[r].cart)
         /\ sent[r].quote = sent[r].cart.quote
         /\ sent[r].items = BodyItems(sent[r].cart)

\* What the server makes of a cart whose prices are current.
ServerTotal(c) ==
  LET items == BodyItems(c)
  IN SumOver([p \in Products |->
                Gross(c.lines[p]) - Least(items[p].discount, Gross(c.lines[p]))])

\* Until something is touched, the dialog has the cart and the payment it sent.
ChargeInv ==
  Confirmed /\ ~ checkout.touched =>
    LET r == checkout.request
    IN /\ PaymentCovers(checkout, ShownTotal(cart))
       /\ stage[r] = "travelling" => sent[r].cart = cart
       /\ Stored(r) /\ order[r].fresh => order[r].total = ServerTotal(cart)

ScreenInv == ShapeInv /\ DialogInv /\ FillInv /\ CountInv /\ QuotedInv /\ ChargeInv
=============================================================================
