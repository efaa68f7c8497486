----------------------------- MODULE StockRows -----------------------------
(***************************************************************************)
(* The StockLevel rows of one product (or variant) in one store, and the   *)
(* five kinds of transaction that write them:                              *)
(*   - a sale: decrementStockGuarded, one UPDATE over the rows;            *)
(*   - a web order: decrementAllowingNegative, UPDATE or create;           *)
(*   - a purchase: the cost of the product is updated and the purchase     *)
(*     numbered, then incrementStock;                                      *)
(*   - the last phase of a cancellation: the order is read again, then     *)
(*     incrementStock, order.update, and the reversal of its charge;       *)
(*   - a manual adjustment: a quantity computed from an earlier read.      *)
(* incrementStock and the adjustment are findFirst, then UPDATE by id or   *)
(* create. Nothing keeps a product to one row: one of productId and        *)
(* variantId is always NULL, so the unique index never applies.            *)
(*                                                                         *)
(* Transactions are READ COMMITTED, as in OrderCheckout: a statement sees  *)
(* what was committed when it began, an UPDATE waits for the rows it found *)
(* and tests its condition again on what it waited for. Every call writes  *)
(* the product once.                                                       *)
(***************************************************************************)
EXTENDS Integers, FiniteSetsExt

CONSTANTS
  Sales, WebOrders, Purchases, Cancels, Adjustments,   \* the calls
  Mixes,         \* the sets of calls that may arrive together
  Units,         \* Units[w]: units of the call; the delta of an adjustment
  Orders,        \* the orders being cancelled
  OrderOf,       \* OrderOf[c]: the order that c cancels
  OnAccount,     \* the orders with a CHARGE on a customer's account
  Origin,        \* the row created with the product
  InitialStock,  \* its quantity
  MaxAttempts,   \* MAX_PURCHASE_NUMBER_ATTEMPTS
  NoOne          \* the owner of a row nobody has locked

Writers == Sales \cup WebOrders \cup Purchases \cup Cancels \cup Adjustments

\* A row that w creates is named w.
RowIds == {Origin} \cup Writers

ASSUME StockAssumption ==
  /\ Origin \notin Writers
  /\ NoOne \notin Writers
  /\ InitialStock \in Int
  /\ MaxAttempts \in Nat \ {0}
  /\ Mixes \subseteq SUBSET Writers
  /\ \A w \in Writers : Units[w] \in Int
  /\ \A w \in Writers \ Adjustments : Units[w] > 0
  /\ \A c \in Cancels : OrderOf[c] \in Orders
  /\ OnAccount \subseteq Orders
  /\ Sales \cap (WebOrders \cup Purchases \cup Cancels \cup Adjustments) = {}
  /\ WebOrders \cap (Purchases \cup Cancels \cup Adjustments) = {}
  /\ Purchases \cap (Cancels \cup Adjustments) = {}
  /\ Cancels \cap Adjustments = {}

VARIABLES
  rows,       \* the committed rows
  quantity,   \* quantity[i]: the committed quantity of row i
  draft,      \* draft[i]: what the owner of row i has written to it
  owner,      \* owner[i]: the transaction that has locked or created row i
  cancelled,  \* the orders whose committed status is CANCELLED
  reversed,   \* the orders with a committed CHARGE_REVERSAL
  pc,         \* pc[w]: where the call is
  found,      \* found[w]: the rows its query or its UPDATE found
  base,       \* base[w]: the quantity an adjustment read
  attempt     \* attempt[p]: transactions begun by the loop of create

table == <<rows, quantity, draft, owner>>
vars ==
  <<rows, quantity, draft, owner, cancelled, reversed, pc, found, base, attempt>>

-----------------------------------------------------------------------------
Open == {"number", "find", "write", "order", "reversal", "written"}

\* failed: rolled back for good, whether by a check, a P2002, the timeout of
\* the interactive transaction or the death of the process.
Ended == {"committed", "failed"}

TypeOK ==
  /\ rows \subseteq RowIds
  /\ quantity \in [RowIds -> Int]
  /\ draft \in [RowIds -> Int]
  /\ owner \in [RowIds -> Writers \cup {NoOne}]
  /\ cancelled \subseteq Orders
  /\ reversed \subseteq OnAccount
  /\ pc \in [Writers -> {"start"} \cup Open \cup Ended]
  /\ found \in [Writers -> SUBSET RowIds]
  /\ \A w \in Writers : found[w] \subseteq rows
  /\ base \in [Writers -> Int]
  /\ attempt \in [Purchases -> 0 .. MaxAttempts]

Init ==
  /\ rows \in {{}, {Origin}}
  /\ quantity = [i \in RowIds |-> IF i \in rows THEN InitialStock ELSE 0]
  /\ draft = [i \in RowIds |-> 0]
  /\ owner = [i \in RowIds |-> NoOne]
  /\ cancelled = {}
  /\ reversed = {}
  /\ \E calls \in Mixes : pc = [w \in Writers |-> IF w \notin calls THEN "failed" ELSE
                                IF w \in Purchases \cup Cancels THEN "start" ELSE "find"]
  /\ found = [w \in Writers |-> {}]
  /\ base = [w \in Writers |-> 0]
  /\ attempt = [p \in Purchases |-> 0]

\* Mutant of Rollback: the rows stay locked.
RollbackHoldingRows(w) ==
  /\ found' = [found EXCEPT ![w] = {}]
  /\ base' = [base EXCEPT ![w] = 0]
  /\ UNCHANGED <<table, cancelled, reversed>>

Go(w, where) == pc' = [pc EXCEPT ![w] = where]

\* ROLLBACK: the rows are released and what was written to them is gone.
Rollback(w) ==
  /\ owner' = [i \in RowIds |-> IF owner[i] = w THEN NoOne ELSE owner[i]]
  /\ draft' = [i \in RowIds |-> IF owner[i] = w THEN 0 ELSE draft[i]]
  /\ found' = [found EXCEPT ![w] = {}]
  /\ base' = [base EXCEPT ![w] = 0]
  /\ UNCHANGED <<rows, quantity, cancelled, reversed>>

-----------------------------------------------------------------------------
(* Before the stock.                                                       *)

\* The last phase of cancel reads the order again.
ReadOrder(c) ==
  /\ c \in Cancels
  /\ pc[c] = "start"
  /\ Go(c, IF OrderOf[c] \in cancelled THEN "failed" ELSE "find")
  /\ UNCHANGED <<table, cancelled, reversed, found, base, attempt>>

\* p has updated the product's cost and holds that row until it ends.
Buying(p) == pc[p] \in {"number", "find", "write", "written"}

\* A turn of the loop of purchases.create, up to product.update (or
\* productVariant.update), which waits for any other purchase of the product.
UpdateCost(p) ==
  /\ p \in Purchases
  /\ pc[p] = "start"
  /\ \A q \in Purchases : ~Buying(q)
  /\ Go(p, "number")
  /\ attempt' = [attempt EXCEPT ![p] = @ + 1]
  /\ UNCHANGED <<table, cancelled, reversed, found, base>>

\* getNextPurchaseNumber and purchase.create, before any stock is incremented.
CreatePurchase(p) ==
  /\ p \in Purchases
  /\ pc[p] = "number"
  /\ Go(p, "find")
  /\ UNCHANGED <<table, cancelled, reversed, found, base, attempt>>

\* P2002 on the number: a purchase of other products got it first. Undone, and
\* tried again or given up.
DuplicatePurchase(p) ==
  /\ p \in Purchases
  /\ pc[p] = "number"
  /\ Go(p, IF attempt[p] < MaxAttempts THEN "start" ELSE "failed")
  /\ Rollback(p)
  /\ UNCHANGED attempt

-----------------------------------------------------------------------------
(* The stock.                                                              *)

Enough(s, i) == quantity[i] >= Units[s]

\* Mutant of Visible: READ UNCOMMITTED.
VisibleDirty == rows \cup {i \in RowIds : owner[i] # NoOne}

\* READ COMMITTED.
Visible == rows

\* The rows the statement of w may find: the UPDATEs find every row that
\* meets their condition, findFirst some row.
Findable(w) ==
  CASE w \in Sales     -> {{i \in Visible : Enough(w, i)}}
    [] w \in WebOrders -> {Visible}
    [] OTHER           -> IF Visible = {} THEN {{}} ELSE {{i} : i \in Visible}

\* existing?.quantity ?? 0
QuantityIn(F) == IF F = {} THEN 0 ELSE quantity[CHOOSE i \in F : TRUE]

\* findStockLevel, or the scan of the UPDATE.
Find(w) ==
  /\ pc[w] = "find"
  /\ Go(w, "write")
  /\ \E F \in Findable(w) :
       /\ found' = [found EXCEPT ![w] = F]
       /\ base' = [base EXCEPT ![w] =
                      IF w \in Adjustments THEN QuantityIn(F) ELSE 0]
  /\ UNCHANGED <<table, cancelled, reversed, attempt>>

\* Mutant of Affected: the rows found are written without a second look.
AffectedBlindly(w) == found[w]

\* The rows found that meet the condition once they can be locked.
Affected(w) == IF w \in Sales THEN {i \in found[w] : Enough(w, i)} ELSE found[w]

\* Mutant of Free: nobody waits for a row.
NeverLocked(w) == TRUE

\* The rows w has found are not locked by another transaction.
Free(w) == \A i \in found[w] : owner[i] = NoOne

\* The quantity that w leaves in row i: relative to the row as it is when it
\* is locked, except for an adjustment.
Moved(w, i) ==
  CASE w \in Sales \cup WebOrders   -> quantity[i] - Units[w]
    [] w \in Purchases \cup Cancels -> quantity[i] + Units[w]
    [] w \in Adjustments            -> base[w] + Units[w]

AfterStock(w) == IF w \in Cancels THEN "order" ELSE "written"

\* The UPDATE of the rows.
UpdateRows(w) ==
  /\ pc[w] = "write"
  /\ Free(w)
  /\ Affected(w) # {}
  /\ owner' = [i \in RowIds |-> IF i \in Affected(w) THEN w ELSE owner[i]]
  /\ draft' = [i \in RowIds |-> IF i \in Affected(w) THEN Moved(w, i) ELSE draft[i]]
  /\ found' = [found EXCEPT ![w] = {}]
  /\ base' = [base EXCEPT ![w] = 0]
  /\ Go(w, AfterStock(w))
  /\ UNCHANGED <<rows, quantity, cancelled, reversed, attempt>>

\* stockLevel.create, when no row was found.
CreateRow(w) ==
  /\ pc[w] = "write"
  /\ found[w] = {}
  /\ w \notin Sales
  /\ owner' = [owner EXCEPT ![w] = w]
  /\ draft' = [draft EXCEPT ![w] = IF w \in WebOrders THEN -Units[w] ELSE Units[w]]
  /\ found' = [found EXCEPT ![w] = {}]
  /\ base' = [base EXCEPT ![w] = 0]
  /\ Go(w, AfterStock(w))
  /\ UNCHANGED <<rows, quantity, cancelled, reversed, attempt>>

\* decrementStockGuarded with affected = 0.
StockInsufficient(s) ==
  /\ s \in Sales
  /\ pc[s] = "write"
  /\ Free(s)
  /\ Affected(s) = {}
  /\ Go(s, "failed")
  /\ Rollback(s)
  /\ UNCHANGED attempt

-----------------------------------------------------------------------------
(* After the stock.                                                        *)

\* Another cancellation has updated the order and not committed.
OrderHeld(c) ==
  \E d \in Cancels \ {c} : OrderOf[d] = OrderOf[c] /\ pc[d] \in {"reversal", "written"}

\* order.update by id: no condition on the status.
UpdateOrder(c) ==
  /\ c \in Cancels
  /\ pc[c] = "order"
  /\ ~OrderHeld(c)
  /\ Go(c, IF OrderOf[c] \in OnAccount THEN "reversal" ELSE "written")
  /\ UNCHANGED <<table, cancelled, reversed, found, base, attempt>>

\* Mutant of ReverseCharge: (orderId, type) is not unique.
ReverseAgain(c) ==
  /\ c \in Cancels
  /\ pc[c] = "reversal"
  /\ Go(c, "written")
  /\ UNCHANGED <<table, cancelled, reversed, found, base, attempt>>

\* applyAccountMovement inserts the CHARGE_REVERSAL.
ReverseCharge(c) ==
  /\ c \in Cancels
  /\ pc[c] = "reversal"
  /\ OrderOf[c] \notin reversed
  /\ Go(c, "written")
  /\ UNCHANGED <<table, cancelled, reversed, found, base, attempt>>

\* The unique (orderId, type): the whole cancellation is undone.
DuplicateReversal(c) ==
  /\ c \in Cancels
  /\ pc[c] = "reversal"
  /\ OrderOf[c] \in reversed
  /\ Go(c, "failed")
  /\ Rollback(c)
  /\ UNCHANGED attempt

Commit(w) ==
  /\ pc[w] = "written"
  /\ Go(w, "committed")
  /\ rows' = rows \cup {i \in RowIds : owner[i] = w}
  /\ quantity' = [i \in RowIds |-> IF owner[i] = w THEN draft[i] ELSE quantity[i]]
  /\ owner' = [i \in RowIds |-> IF owner[i] = w THEN NoOne ELSE owner[i]]
  /\ draft' = [i \in RowIds |-> IF owner[i] = w THEN 0 ELSE draft[i]]
  /\ cancelled' = cancelled \cup {OrderOf[c] : c \in {w} \cap Cancels}
  /\ reversed' = reversed \cup ({OrderOf[c] : c \in {w} \cap Cancels} \cap OnAccount)
  /\ found' = [found EXCEPT ![w] = {}]
  /\ base' = [base EXCEPT ![w] = 0]
  /\ UNCHANGED attempt

\* Anything else that undoes the transaction: a later check of the call, the
\* timeout of the interactive transaction, the death of the process.
Abort(w) ==
  /\ pc[w] \in Open
  /\ Go(w, "failed")
  /\ Rollback(w)
  /\ UNCHANGED attempt

Work(w) ==
  \/ ReadOrder(w)
  \/ UpdateCost(w)
  \/ CreatePurchase(w)
  \/ DuplicatePurchase(w)
  \/ Find(w)
  \/ UpdateRows(w)
  \/ CreateRow(w)
  \/ StockInsufficient(w)
  \/ UpdateOrder(w)
  \/ ReverseCharge(w)
  \/ DuplicateReversal(w)
  \/ Commit(w)

Terminating == (\A w \in Writers : pc[w] \in Ended) /\ UNCHANGED vars

Next ==
  \/ \E w \in Writers : Work(w) \/ Abort(w)
  \/ Terminating

\* A transaction that can go on does; nothing makes it fail.
Fairness == \A w \in Writers : WF_vars(Work(w))

Spec == Init /\ [][Next]_vars

FairSpec == Spec /\ Fairness

-----------------------------------------------------------------------------
(* Properties.                                                             *)

OnHand == SumFunctionOnSet(quantity, rows)

Committed == {w \in Writers : pc[w] = "committed"}

\* What each call does to the stock.
Effect ==
  [w \in Writers |-> IF w \in Sales \cup WebOrders THEN -Units[w] ELSE Units[w]]

\* The cancellations that exclude w, by the unique reversal.
Rivals ==
  [w \in Writers |->
     {c \in Cancels : w \in Cancels /\ OrderOf[c] = OrderOf[w] /\ OrderOf[c] \in OnAccount}]

\* As long as the product has one row, its stock is the atomic counter of
\* StockBook: no sale, purchase, web order or cancellation is lost or counted
\* twice, whatever waits, retries and rollbacks there are between them.
Book == INSTANCE StockBook WITH
  Change  <- Effect,
  Guarded <- Sales,
  Manual  <- Adjustments,
  Rivals  <- Rivals,
  onHand  <- OnHand,
  applied <- Committed,
  split   <- Cardinality(rows) > 1

BookSpec == Book!Spec

\* decrementStockGuarded: a sale leaves no row below zero, even if the row it
\* found was adjusted, or taken by another sale or a web order, while it waited.
SaleNeverOverdraws ==
  [][\A s \in Sales, i \in RowIds :
       pc[s] = "written" /\ pc'[s] = "committed" /\ quantity'[i] # quantity[i]
         => quantity'[i] >= 0]_vars

\* incrementStock can create a second row of a product, but two purchases never
\* do: each updates the product's cost before it looks for the row, and by that
\* waits for the purchase before it.
PurchasesShareRow == \A p, q \in rows \cap Purchases : p = q

\* The cancellations that put stock back.
Restocked == Cancels \cap Committed

\* Nothing in cancel makes its check of the status atomic, but an order with a
\* charge gives its stock back once, thanks to the unique reversal.
RestockedOnceOnAccount ==
  \A c, d \in Restocked : OrderOf[c] = OrderOf[d] /\ OrderOf[c] \in OnAccount => c = d

\* cancel: "Se revalida: entre la fase 1 y esta pudo haberla cancelado otro
\* request". Every order should give its stock back at most once.
RestockedOnce == \A c, d \in Restocked : OrderOf[c] = OrderOf[d] => c = d

\* Nobody waits for ever: purchases wait for the product before a row, and
\* cancellations for a row before their order.
EveryCallEnds == \A w \in Writers : <>(pc[w] \in Ended)
-----------------------------------------------------------------------------
(* The inductive invariant behind these properties.                        *)

\* A row is new or locked only in the transaction that wrote it, a new row
\* bears the name of its writer, and a sale has left nothing below zero.
RowInv ==
  /\ \A i \in RowIds :
       owner[i] # NoOne =>
         /\ pc[owner[i]] \in {"order", "reversal", "written"}
         /\ i \notin rows => owner[i] = i
         /\ owner[i] \in Sales => draft[i] >= 0
  /\ \A w \in Writers \cap rows : pc[w] = "committed"

\* One purchase of the product at a time.
BuyInv ==
  /\ \A p \in Purchases :
       /\ pc[p] \notin {"order", "reversal"}
       /\ pc[p] = "start" => attempt[p] < MaxAttempts
  /\ \A p, q \in Purchases : Buying(p) /\ Buying(q) => p = q

\* A purchase about to create a row, or that has, sees no other purchase's row.
ShareInv ==
  /\ \A p \in Purchases :
       \/ pc[p] = "write" /\ found[p] = {}
       \/ owner[p] = p
       => rows \cap Purchases = {}
  /\ PurchasesShareRow

\* One transaction at a time holds an order, and the reversal is still missing
\* when its transaction is about to commit.
ReversalInv ==
  /\ \A c, d \in Cancels :
       /\ pc[c] \in {"reversal", "written"}
       /\ pc[d] \in {"reversal", "written"}
       /\ OrderOf[c] = OrderOf[d]
       => c = d
  /\ \A c \in Cancels :
       OrderOf[c] \in OnAccount =>
         /\ pc[c] = "written" => OrderOf[c] \notin reversed
         /\ pc[c] = "committed" => OrderOf[c] \in reversed
  /\ RestockedOnceOnAccount

\* Who has moved stock holds the rows it moved. A new row is all its writer
\* holds, and but for an adjustment a draft is the quantity and its effect.
DraftInv ==
  /\ IsFiniteSet(rows)
  /\ \A i \in RowIds \ rows : quantity[i] = 0
  /\ \A w \in Writers :
       pc[w] \in {"order", "reversal", "written"} => \E i \in RowIds : owner[i] = w
  /\ \A i \in RowIds :
       owner[i] # NoOne =>
         /\ i \notin rows => \A j \in RowIds : owner[j] = owner[i] => j = i
         /\ owner[i] \notin Adjustments => draft[i] = quantity[i] + Effect[owner[i]]

StockInv == TypeOK /\ RowInv /\ BuyInv /\ ShareInv /\ ReversalInv
=============================================================================
