---------------------------- MODULE OrderService ----------------------------
(***************************************************************************)
(* The orders of the shop, the stock they hold or have taken, and the      *)
(* handlers of OrdersService that change them.                             *)
(*                                                                         *)
(* A handler reads the order row outside any transaction, validates what   *)
(* it read, and later claims the row with a conditional updateMany inside  *)
(* a transaction.  Each handler is therefore a Read action, which puts     *)
(* what it read in `flight`, and a Commit action, which is the whole       *)
(* transaction.  Between the two anything may commit.  A request whose     *)
(* claim matches nothing, whose stock ran out, or whose process dies is    *)
(* dropped by Drop: the transaction leaves no trace.                       *)
(*                                                                         *)
(* Timestamps are compared only for equality with an earlier read of       *)
(* themselves.  A flight keeps in `fresh` the timestamps it will compare   *)
(* that no later write has replaced.                                       *)
(***************************************************************************)
EXTENDS Integers, FiniteSets, FiniteSetsExt

CONSTANTS
  Orders,       \* order ids, used or not yet used
  Products,
  Workers,      \* slots for requests and cron passes in flight at one time
  Carts,        \* item lists: the area purchased of each product, as functions
  Fees,         \* transport fees staff may quote
  NoFee,        \* transportFee is null
  Addresses,    \* complete delivery details
  NoDelivery,   \* no delivery row
  Placers,      \* who places orders here: a subset of {"CUSTOMER", "STAFF"}
  Handlers,     \* the handlers that run in this instance, a subset of Kinds
  InitialStock, \* quantityOnHandSqm of each product at the start
  Corrections,  \* changeAreaSqm values staff enter in adjustStock
  MaxOnHand,    \* bound on what corrections raise quantityOnHandSqm to
  MaxHeld       \* bound on what one order adds to reservedAreaSqm: it drifts

Kinds == {"checkout", "updateStatus", "updateItems", "saveDelivery",
          "sendQuotation", "viewQuotation", "renderQuotation",
          "markPaymentSubmitted", "rejectPayment", "verifyPayment",
          "expire", "promote"}

NoItems == [p \in Products |-> 0]

ASSUME OrdersAssumption == IsFiniteSet(Orders)
ASSUME CartsAssumption == Carts \subseteq [Products -> Nat] \ {NoItems}
ASSUME FeesAssumption == NoFee \notin Fees
ASSUME AddressesAssumption == NoDelivery \notin Addresses
ASSUME PlacersAssumption == Placers \subseteq {"CUSTOMER", "STAFF"}
ASSUME StockAssumption == /\ InitialStock \in [Products -> Nat]
                          /\ Corrections \subseteq Int
                          /\ MaxOnHand \in Nat
                          /\ MaxHeld \in Nat

VARIABLES
  order,     \* the Order rows with their items and delivery
  onHand,    \* Product.quantityOnHandSqm
  reserved,  \* Product.reservedAreaSqm
  taken,     \* per order, net area its StockAdjustment rows took off the shelf
  held,      \* history: per order, its net contribution to reservedAreaSqm
  crossed,   \* history: the orders a request wrote on a read that was overtaken
  flight     \* what each request or cron pass in flight has read

vars == <<order, onHand, reserved, taken, held, crossed, flight>>
stock == <<onHand, reserved, taken, held>>

-----------------------------------------------------------------------------
(* The rows and what a request remembers of them.                          *)

Status == {"NONE", "WAITLISTED", "PENDING", "PROCESSING",
           "READY_FOR_DISPATCH", "SHIPPED", "DELIVERED", "CANCELLED"}
QuotationStatus == {"AWAITING_REVIEW", "QUOTATION_SENT",
                    "PAYMENT_SUBMITTED", "PAYMENT_VERIFIED"}
Stamps == {"updatedAt", "reservationExpiresAt", "quotationSentAt"}

Items == Carts \cup {NoItems}
Quote == [fee : Fees \cup {NoFee}, priced : Items]
Unseen == [fee |-> NoFee, priced |-> NoItems]

\* hold is reservationExpiresAt: null, in the future or past.  priced is the
\* item list total was computed from.  seen is the quotation rendered when
\* quotationViewedAt was stamped, Unseen while it is null.
Row == [status : Status, quotation : QuotationStatus, items : Items,
        hold : {"none", "open", "lapsed"}, deducted : BOOLEAN,
        fee : Fees \cup {NoFee}, priced : Items, seen : Quote,
        delivery : Addresses \cup {NoDelivery}, byStaff : BOOLEAN]

\* row is the order as read, fresh its timestamps not rewritten since; the
\* other fields are the request's arguments and the decisions it took.
Flight == [kind : Kinds, order : Orders, row : Row, fresh : SUBSET Stamps,
           next : Status, cart : Items, fee : Fees \cup {NoFee},
           delivery : Addresses \cup {NoDelivery},
           assisted : BOOLEAN, short : BOOLEAN]

Idle == [kind |-> "idle"]

Blank == [status |-> "NONE", quotation |-> "AWAITING_REVIEW",
          items |-> NoItems, hold |-> "none", deducted |-> FALSE,
          fee |-> NoFee, priced |-> NoItems, seen |-> Unseen,
          delivery |-> NoDelivery, byStaff |-> FALSE]

Init ==
  /\ order = [o \in Orders |-> Blank]
  /\ onHand = InitialStock
  /\ reserved = NoItems
  /\ taken = [o \in Orders |-> NoItems]
  /\ held = [o \in Orders |-> NoItems]
  /\ crossed = {}
  /\ flight = [w \in Workers |-> Idle]

-----------------------------------------------------------------------------
(* Stock arithmetic.                                                       *)

Plus(f, g) == [p \in Products |-> f[p] + g[p]]
Minus(f, g) == [p \in Products |-> f[p] - g[p]]

\* availableAreaSqmOf
Available(p) == IF reserved[p] < onHand[p] THEN onHand[p] - reserved[p] ELSE 0

\* What the order's own hold adds to reservedAreaSqm, as a handler that read
\* the row sees it.
HeldBy(row) == IF row.hold = "none" THEN NoItems ELSE row.items

\* Mutant: the reservation is not conditional on availability.
CanReserveUnguarded(delta) == TRUE

\* The guard inside reserveAreaAtomically: a net release always applies.
CanReserve(delta) ==
  \A p \in Products : delta[p] <= 0 \/ onHand[p] - reserved[p] >= delta[p]

\* Mutant: the deduction is not conditional on what is on hand.
CanDeductUnguarded(items) == TRUE

\* The guard inside deductOnHandAtomically.
CanDeduct(items) == \A p \in Products : items[p] <= onHand[p]

\* bulkAdjustProductArea on reservedAreaSqm, for order o, within the bound.
AdjustReserved(o, delta) ==
  /\ reserved' = Plus(reserved, delta)
  /\ held' = [held EXCEPT ![o] = Plus(@, delta)]
  /\ \A p \in Products : held'[o][p] \in -MaxHeld .. MaxHeld

\* deductOrderStock and returnOrderStock: on-hand and the movement rows.
AdjustTaken(o, delta) ==
  /\ onHand' = Minus(onHand, delta)
  /\ taken' = [taken EXCEPT ![o] = Plus(@, delta)]

-----------------------------------------------------------------------------
(* Reading and claiming rows.                                              *)

\* What a handler of kind k knows after reading order o.
Read(k, o, stamps) ==
  [kind |-> k, order |-> o, row |-> order[o], fresh |-> stamps,
   next |-> order[o].status, cart |-> NoItems, fee |-> NoFee,
   delivery |-> NoDelivery, assisted |-> FALSE, short |-> FALSE]

\* Worker w starts a request of kind k, remembering f.
Start(w, k, f) ==
  /\ k \in Handlers
  /\ flight[w] = Idle
  /\ flight' = [flight EXCEPT ![w] = f]
  /\ UNCHANGED <<order, stock, crossed>>

InFlight(w, k) == flight[w].kind = k

\* Writing order o makes the timestamps it sets stale in what others read;
\* Prisma sets updatedAt on every write.
Restamp(f, o, stamps) ==
  IF f # Idle /\ f.order = o
    THEN [f EXCEPT !.fresh = @ \ (stamps \cup {"updatedAt"})]
    ELSE f

\* Mutants: cancelling returns nothing; the null check on the expiry is gone.
ReturnsNothing(f) == FALSE
ReleasesAnyPending(f) == f.row.status = "PENDING"

\* What updateStatus does to the stock.
Deducts(f) == f.next = "DELIVERED" /\ ~f.row.deducted
Returns(f) == f.next = "CANCELLED" /\ f.row.deducted
Releases(f) == f.row.status = "PENDING" /\ f.row.hold # "none"

\* f is about to write on a read that a revision of the order has overtaken,
\* which its claim does not notice: a cancellation or an expiry releases, a
\* promotion reserves and a quotation prices other items than the order has,
\* or a quotation goes out for an order that is back on the waitlist.
Overtaken(f) ==
  LET other == order[f.order].items # f.row.items
  IN  \/ f.kind \in {"updateStatus", "expire"} /\ Releases(f) /\ other
      \/ f.kind \in {"promote", "sendQuotation"} /\ other
      \/ f.kind = "sendQuotation" /\ order[f.order].hold = "none"

\* Worker w's transaction commits row for order o, setting stamps.
Write(w, o, row, stamps) ==
  /\ order' = [order EXCEPT ![o] = row]
  /\ crossed' = IF Overtaken(flight[w]) THEN crossed \cup {o} ELSE crossed
  /\ flight' = [v \in Workers |->
                  IF v = w THEN Idle ELSE Restamp(flight[v], o, stamps)]

\* Mutant: the claim does not pin the expiry that was read.
SameExpiryUnpinned(f) == TRUE

\* where: { reservationExpiresAt: <as read> }
SameExpiry(f) ==
  IF f.row.hold = "none" THEN order[f.order].hold = "none"
                         ELSE "reservationExpiresAt" \in f.fresh

Live(row) == row.status \notin {"NONE", "CANCELLED"}

\* A request fails its validation after a claim that matched nothing, rolls
\* back on InsufficientStockError, or its process dies before the commit.
Drop(w) ==
  /\ flight[w] # Idle
  /\ flight' = [flight EXCEPT ![w] = Idle]
  /\ UNCHANGED <<order, stock, crossed>>

-----------------------------------------------------------------------------
(* Checkout: create / createOnce.                                          *)

CheckoutRead(w, o, cart, placer, delivery) ==
  LET short == \E p \in Products : cart[p] > Available(p)
      assisted == placer = "STAFF"
  IN  /\ order[o].status = "NONE"
      /\ \A v \in Workers : flight[v] # Idle => flight[v].order # o
      \* more than is on hand at all opens a negotiation instead of an order
      /\ assisted \/ \A p \in Products : cart[p] <= onHand[p]
      /\ Start(w, "checkout",
               [Read("checkout", o, {}) EXCEPT
                  !.cart = cart, !.delivery = delivery,
                  !.assisted = assisted, !.short = short,
                  !.next = IF short /\ ~assisted THEN "WAITLISTED" ELSE "PENDING"])

CheckoutCommit(w) ==
  LET f == flight[w]
      holds == f.next = "PENDING"
  IN  /\ InFlight(w, "checkout")
      /\ holds /\ ~f.short => CanReserve(f.cart)
      /\ Write(w, f.order,
               [Blank EXCEPT !.status = f.next, !.items = f.cart,
                             !.priced = f.cart, !.delivery = f.delivery,
                             !.byStaff = f.assisted,
                             !.hold = IF holds THEN "open" ELSE "none"],
               Stamps)
      /\ AdjustReserved(f.order, IF holds THEN f.cart ELSE NoItems)
      /\ UNCHANGED <<onHand, taken>>

-----------------------------------------------------------------------------
(* updateStatus.                                                           *)

\* ORDER_STATUS_TRANSITIONS
Transitions ==
  [s \in Status |->
     CASE s = "WAITLISTED"         -> {"CANCELLED"}
       [] s = "PENDING"            -> {"PROCESSING", "CANCELLED"}
       [] s = "PROCESSING"         -> {"READY_FOR_DISPATCH", "CANCELLED"}
       [] s = "READY_FOR_DISPATCH" -> {"SHIPPED", "CANCELLED"}
       [] s = "SHIPPED"            -> {"DELIVERED"}
       [] OTHER                    -> {}]

\* Mutant: leaving PENDING does not ask for a verified payment.
UpdateStatusReadUnpaid(w, o, to) ==
  /\ Live(order[o])
  /\ to \in Transitions[order[o].status]
  /\ to = "DELIVERED" /\ ~order[o].deducted => CanDeduct(order[o].items)
  /\ Start(w, "updateStatus", [Read("updateStatus", o, {}) EXCEPT !.next = to])

UpdateStatusRead(w, o, to) ==
  /\ Live(order[o])
  /\ to \in Transitions[order[o].status]
  /\ order[o].status = "PENDING" /\ to # "CANCELLED"
       => order[o].quotation = "PAYMENT_VERIFIED"
  /\ to = "DELIVERED" /\ ~order[o].deducted => CanDeduct(order[o].items)
  /\ Start(w, "updateStatus", [Read("updateStatus", o, {}) EXCEPT !.next = to])

\* The claim pins status and stockDeductedAt only; the stock it moves is that
\* of the items read before the transaction.
UpdateStatusCommit(w) ==
  LET f == flight[w]
      row == order[f.order]
  IN  /\ InFlight(w, "updateStatus")
      /\ row.status = f.row.status
      /\ row.deducted = f.row.deducted
      /\ Deducts(f) => CanDeduct(f.row.items)
      /\ Write(w, f.order,
               [row EXCEPT !.status = f.next,
                           !.hold = IF Releases(f) THEN "none" ELSE @,
                           !.deducted = (@ \/ Deducts(f)) /\ ~Returns(f)],
               IF Releases(f) THEN {"reservationExpiresAt"} ELSE {})
      /\ AdjustTaken(f.order, IF Deducts(f) THEN f.row.items
                              ELSE IF Returns(f) THEN Minus(NoItems, f.row.items)
                              ELSE NoItems)
      /\ AdjustReserved(f.order, IF Releases(f) THEN Minus(NoItems, f.row.items)
                                 ELSE NoItems)

-----------------------------------------------------------------------------
(* updateItems: quantities agreed with the customer.                       *)

UpdateItemsRead(w, o, cart) ==
  LET row == order[o]
      othersHold(p) == reserved[p] - HeldBy(row)[p]
      room(p) == onHand[p] - (IF othersHold(p) > 0 THEN othersHold(p) ELSE 0)
      short == \E p \in Products : cart[p] > (IF room(p) > 0 THEN room(p) ELSE 0)
  IN  /\ row.status \in {"PENDING", "WAITLISTED"}
      /\ row.quotation \notin {"PAYMENT_VERIFIED", "PAYMENT_SUBMITTED"}
      /\ Start(w, "updateItems",
               [Read("updateItems", o, {"updatedAt"}) EXCEPT
                  !.cart = cart,
                  !.next = IF row.status = "WAITLISTED" \/ short
                             THEN "WAITLISTED" ELSE "PENDING"])

UpdateItemsCommit(w) ==
  LET f == flight[w]
      row == order[f.order]
      holds == f.next = "PENDING"
      delta == Minus(IF holds THEN f.cart ELSE NoItems, HeldBy(f.row))
  IN  /\ InFlight(w, "updateItems")
      /\ row.status = f.row.status
      /\ row.quotation = f.row.quotation
      /\ "updatedAt" \in f.fresh
      /\ CanReserve(delta)
      /\ Write(w, f.order,
               [row EXCEPT !.status = f.next, !.items = f.cart,
                           !.priced = f.cart,
                           !.hold = IF holds THEN "open" ELSE "none",
                           !.quotation = "AWAITING_REVIEW",
                           !.fee = NoFee, !.seen = Unseen],
               {"reservationExpiresAt", "quotationSentAt"})
      /\ AdjustReserved(f.order, delta)
      /\ UNCHANGED <<onHand, taken>>

-----------------------------------------------------------------------------
(* saveDeliveryDetails, sendQuotation, viewQuotation.                      *)

SaveDeliveryRead(w, o, address) ==
  /\ Live(order[o])
  /\ order[o].quotation = "AWAITING_REVIEW"
  /\ Start(w, "saveDelivery",
           [Read("saveDelivery", o, {}) EXCEPT !.delivery = address])

\* Mutant: the details are saved without re-checking the order row.
SaveDeliveryCommitUnclaimed(w) ==
  LET f == flight[w]
  IN  /\ InFlight(w, "saveDelivery")
      /\ Write(w, f.order, [order[f.order] EXCEPT !.delivery = f.delivery], {})
      /\ UNCHANGED stock

SaveDeliveryCommit(w) ==
  LET f == flight[w]
      row == order[f.order]
  IN  /\ InFlight(w, "saveDelivery")
      /\ row.quotation = "AWAITING_REVIEW"
      /\ row.status # "CANCELLED"
      /\ Write(w, f.order, [row EXCEPT !.delivery = f.delivery], {})
      /\ UNCHANGED stock

SendQuotationRead(w, o, fee) ==
  LET row == order[o] IN
  /\ row.status = "PENDING"
  /\ row.quotation \in {"AWAITING_REVIEW", "QUOTATION_SENT"}
  /\ row.hold # "none"
  /\ row.delivery # NoDelivery
  /\ Start(w, "sendQuotation", [Read("sendQuotation", o, {}) EXCEPT !.fee = fee])

\* The claim looks at quotationStatus and cancellation only; total is the
\* subtotal read before plus the fee, and the payment window starts now.
SendQuotationCommit(w) ==
  LET f == flight[w]
      row == order[f.order]
  IN  /\ InFlight(w, "sendQuotation")
      /\ row.status # "CANCELLED"
      /\ row.quotation \in {"AWAITING_REVIEW", "QUOTATION_SENT"}
      /\ Write(w, f.order,
               [row EXCEPT !.quotation = "QUOTATION_SENT", !.fee = f.fee,
                           !.priced = f.row.items, !.seen = Unseen,
                           !.hold = "open"],
               {"reservationExpiresAt", "quotationSentAt"})
      /\ UNCHANGED stock

\* The customer opens the quotation: first the access check ...
ViewQuotationOpen(w, o) ==
  /\ order[o].quotation # "AWAITING_REVIEW"
  /\ order[o].seen = Unseen
  /\ Start(w, "viewQuotation", Read("viewQuotation", o, {}))

\* ... then the read the PDF is rendered from ...
ViewQuotationRender(w) ==
  /\ InFlight(w, "viewQuotation")
  /\ flight' = [flight EXCEPT
       ![w] = Read("renderQuotation", flight[w].order, {"quotationSentAt"})]
  /\ UNCHANGED <<order, stock, crossed>>

\* Mutant: the stamp goes on whatever version is current.
ViewQuotationStampUnpinned(w) ==
  LET f == flight[w]
      row == order[f.order]
  IN  /\ InFlight(w, "renderQuotation")
      /\ row.seen = Unseen
      /\ Write(w, f.order,
               [row EXCEPT !.seen = [fee |-> f.row.fee, priced |-> f.row.priced]],
               {})
      /\ UNCHANGED stock

\* ... then the stamp, pinned to the version rendered.  quotationSentAt is
\* null exactly while the order awaits review.
ViewQuotationStamp(w) ==
  LET f == flight[w]
      row == order[f.order]
  IN  /\ InFlight(w, "renderQuotation")
      /\ row.seen = Unseen
      /\ IF f.row.quotation = "AWAITING_REVIEW"
           THEN row.quotation = "AWAITING_REVIEW"
           ELSE "quotationSentAt" \in f.fresh
      /\ Write(w, f.order,
               [row EXCEPT !.seen = [fee |-> f.row.fee, priced |-> f.row.priced]],
               {})
      /\ UNCHANGED stock

-----------------------------------------------------------------------------
(* markPaymentSubmitted, rejectPayment, verifyPayment.                     *)

MarkPaymentSubmittedRead(w, o, assisted) ==
  LET row == order[o] IN
  /\ Live(row)
  /\ assisted => row.byStaff
  /\ row.quotation = "QUOTATION_SENT"
  /\ assisted \/ row.seen # Unseen
  /\ Start(w, "markPaymentSubmitted",
           [Read("markPaymentSubmitted", o, {"quotationSentAt"})
              EXCEPT !.assisted = assisted])

MarkPaymentSubmittedCommit(w) ==
  LET f == flight[w]
      row == order[f.order]
  IN  /\ InFlight(w, "markPaymentSubmitted")
      /\ row.status # "CANCELLED"
      /\ row.quotation = "QUOTATION_SENT"
      /\ "quotationSentAt" \in f.fresh
      /\ f.assisted \/ row.seen # Unseen
      /\ Write(w, f.order, [row EXCEPT !.quotation = "PAYMENT_SUBMITTED"], {})
      /\ UNCHANGED stock

RejectPaymentRead(w, o) ==
  /\ Live(order[o])
  /\ order[o].quotation = "PAYMENT_SUBMITTED"
  /\ Start(w, "rejectPayment",
           Read("rejectPayment", o, {"reservationExpiresAt"}))

RejectPaymentCommit(w) ==
  LET f == flight[w]
      row == order[f.order]
      restarts == f.row.status = "PENDING" /\ f.row.hold # "none"
  IN  /\ InFlight(w, "rejectPayment")
      /\ row.quotation = "PAYMENT_SUBMITTED"
      /\ row.status # "CANCELLED"
      /\ SameExpiry(f)
      /\ Write(w, f.order,
               [row EXCEPT !.quotation = "QUOTATION_SENT",
                           !.hold = IF restarts THEN "open" ELSE @],
               IF restarts THEN {"reservationExpiresAt"} ELSE {})
      /\ UNCHANGED stock

VerifyPaymentRead(w, o) ==
  LET row == order[o] IN
  /\ Live(row)
  /\ row.quotation = "PAYMENT_SUBMITTED"
  /\ ~row.deducted => CanDeduct(row.items)
  /\ Start(w, "verifyPayment",
           Read("verifyPayment", o, {"reservationExpiresAt"}))

VerifyPaymentCommit(w) ==
  LET f == flight[w]
      row == order[f.order]
      moved == IF f.row.deducted THEN NoItems ELSE f.row.items
  IN  /\ InFlight(w, "verifyPayment")
      /\ row.quotation = "PAYMENT_SUBMITTED"
      /\ row.status # "CANCELLED"
      /\ row.deducted = f.row.deducted
      /\ SameExpiry(f)
      /\ CanDeduct(moved)
      /\ Write(w, f.order,
               [row EXCEPT !.quotation = "PAYMENT_VERIFIED", !.hold = "none",
                           !.deducted = TRUE],
               IF f.row.hold = "none" THEN {} ELSE {"reservationExpiresAt"})
      /\ AdjustReserved(f.order, Minus(NoItems, HeldBy(f.row)))
      /\ AdjustTaken(f.order, moved)

-----------------------------------------------------------------------------
(* The sweeps, the clock, and stock corrections.                           *)

\* releaseExpiredReservations: one order of the list the sweep read.
ExpireRead(w, o) ==
  /\ order[o].status = "PENDING"
  /\ order[o].quotation = "QUOTATION_SENT"
  /\ order[o].hold = "lapsed"
  /\ Start(w, "expire", Read("expire", o, {}))

\* Mutant: the sweep cancels what it listed without claiming it again.
ExpireCommitUnclaimed(w) ==
  LET f == flight[w]
  IN  /\ InFlight(w, "expire")
      /\ Write(w, f.order,
               [order[f.order] EXCEPT !.status = "CANCELLED", !.hold = "none"],
               {"reservationExpiresAt"})
      /\ AdjustReserved(f.order, Minus(NoItems, f.row.items))
      /\ UNCHANGED <<onHand, taken>>

ExpireCommit(w) ==
  LET f == flight[w]
      row == order[f.order]
  IN  /\ InFlight(w, "expire")
      /\ row.status = "PENDING"
      /\ row.quotation = "QUOTATION_SENT"
      /\ row.hold = "lapsed"
      /\ Write(w, f.order, [row EXCEPT !.status = "CANCELLED", !.hold = "none"],
               {"reservationExpiresAt"})
      /\ AdjustReserved(f.order, Minus(NoItems, f.row.items))
      /\ UNCHANGED <<onHand, taken>>

\* promoteWaitlistedOrders: one order of the list it read, on any trigger.
PromoteRead(w, o) ==
  /\ order[o].status = "WAITLISTED"
  /\ Start(w, "promote", Read("promote", o, {}))

\* Mutant: the promotion does not claim the WAITLISTED status.
PromoteCommitUnclaimed(w) ==
  LET f == flight[w]
  IN  /\ InFlight(w, "promote")
      /\ CanReserve(f.row.items)
      /\ Write(w, f.order,
               [order[f.order] EXCEPT !.status = "PENDING", !.hold = "open"],
               {"reservationExpiresAt"})
      /\ AdjustReserved(f.order, f.row.items)
      /\ UNCHANGED <<onHand, taken>>

PromoteCommit(w) ==
  LET f == flight[w]
      row == order[f.order]
  IN  /\ InFlight(w, "promote")
      /\ row.status = "WAITLISTED"
      /\ CanReserve(f.row.items)
      /\ Write(w, f.order, [row EXCEPT !.status = "PENDING", !.hold = "open"],
               {"reservationExpiresAt"})
      /\ AdjustReserved(f.order, f.row.items)
      /\ UNCHANGED <<onHand, taken>>

\* The payment window of order o runs out.
Lapse(o) ==
  /\ order[o].hold = "open"
  /\ order' = [order EXCEPT ![o].hold = "lapsed"]
  /\ UNCHANGED <<stock, crossed, flight>>

\* ProductsService.adjustStock, under the product's row lock.
AdjustStock(p, change) ==
  /\ onHand[p] + change \in 0 .. MaxOnHand
  /\ onHand' = [onHand EXCEPT ![p] = @ + change]
  /\ UNCHANGED <<order, reserved, taken, held, crossed, flight>>

-----------------------------------------------------------------------------

ReadStep(w, o) ==
  \/ \E cart \in Carts, placer \in Placers, d \in Addresses \cup {NoDelivery} :
       CheckoutRead(w, o, cart, placer, d)
  \/ \E to \in Status : UpdateStatusRead(w, o, to)
  \/ \E cart \in Carts : UpdateItemsRead(w, o, cart)
  \/ \E a \in Addresses : SaveDeliveryRead(w, o, a)
  \/ \E fee \in Fees : SendQuotationRead(w, o, fee)
  \/ ViewQuotationOpen(w, o)
  \/ \E assisted \in BOOLEAN : MarkPaymentSubmittedRead(w, o, assisted)
  \/ RejectPaymentRead(w, o)
  \/ VerifyPaymentRead(w, o)
  \/ ExpireRead(w, o)
  \/ PromoteRead(w, o)

CommitStep(w) ==
  \/ CheckoutCommit(w)
  \/ UpdateStatusCommit(w)
  \/ UpdateItemsCommit(w)
  \/ SaveDeliveryCommit(w)
  \/ SendQuotationCommit(w)
  \/ ViewQuotationRender(w)
  \/ ViewQuotationStamp(w)
  \/ MarkPaymentSubmittedCommit(w)
  \/ RejectPaymentCommit(w)
  \/ VerifyPaymentCommit(w)
  \/ ExpireCommit(w)
  \/ PromoteCommit(w)
  \/ Drop(w)

Next ==
  \/ \E w \in Workers, o \in Orders : ReadStep(w, o)
  \/ \E w \in Workers : CommitStep(w)
  \/ \E o \in Orders : Lapse(o)
  \/ \E p \in Products, change \in Corrections : AdjustStock(p, change)

Spec == Init /\ [][Next]_vars

-----------------------------------------------------------------------------
(* Properties.                                                             *)

\* The variables keep their types: in particular on-hand stock never goes
\* negative, whatever is deducted, returned or corrected concurrently.
TypeOK ==
  /\ order \in [Orders -> Row]
  /\ onHand \in [Products -> Nat]
  /\ reserved \in [Products -> Int]
  /\ taken \in [Orders -> [Products -> Int]]
  /\ held \in [Orders -> [Products -> Int]]
  /\ crossed \subseteq Orders
  /\ flight \in [Workers -> Flight \cup {Idle}]

\* An order's tiles leave the shelf exactly once and come back exactly once:
\* the movement rows of an order add up to its items while stockDeductedAt is
\* set and to nothing otherwise, whatever verifications, deliveries,
\* cancellations and revisions overlap (deductOrderStock, returnOrderStock).
StockLeavesOnce ==
  \A o \in Orders :
    taken[o] = IF order[o].deducted THEN order[o].items ELSE NoItems

Fulfilling == {"PROCESSING", "READY_FOR_DISPATCH", "SHIPPED", "DELIVERED"}

\* Fulfilment only ever runs on orders whose payment was verified and whose
\* tiles were taken off the shelf, and a verified order that is not cancelled
\* has had its tiles taken (updateStatus, verifyPayment).
FulfilmentIsPaid ==
  \A o \in Orders :
    /\ order[o].status \in Fulfilling => order[o].quotation = "PAYMENT_VERIFIED"
    /\ order[o].deducted <=> /\ order[o].quotation = "PAYMENT_VERIFIED"
                             /\ order[o].status # "CANCELLED"

\* Each order contributes to reservedAreaSqm exactly the items it has now if
\* it holds stock, and nothing if it does not: no hold is released twice,
\* leaked by a cancellation, or left behind by a revision.  The one way in
\* which an order leaves this is a request that writes on a read which a
\* revision of that order has overtaken (Overtaken).
HoldsMatchOrders ==
  \A o \in Orders \ crossed : held[o] = HeldBy(order[o])

\* The sum of a function over all orders.
Total(f) == MapThenSumSet(LAMBDA o : f[o], Orders)

\* reservedAreaSqm of every product is the sum of what the orders hold: the
\* items of each order that holds stock, nothing for one that does not, and
\* only for a crossed order whatever its requests have reserved and released.
ReservedIsAccountedFor ==
  \A p \in Products :
    reserved[p] = Total([o \in Orders |-> IF o \in crossed THEN held[o][p]
                                          ELSE HeldBy(order[o])[p]])

\* What the schema says: reservedAreaSqm of every product is the sum of the
\* items of the orders that hold stock, so that what other customers see as
\* unavailable is exactly what open payment windows hold.
ReservedCountsHolds ==
  \A p \in Products :
    reserved[p] = Total([o \in Orders |-> HeldBy(order[o])[p]])

\* A quotation the customer can pay against belongs to an order whose stock
\* is held, only a PENDING order holds any, and the total is that of the items
\* the order has (sendQuotation: "it can only go out once ... its stock is
\* actually held"; "Guarded on the same state read above"), unless a request
\* wrote the order on a read that a revision had overtaken.
QuotedOrdersHoldStock ==
  \A o \in Orders \ crossed :
    /\ order[o].priced = order[o].items
    /\ /\ order[o].quotation \in {"QUOTATION_SENT", "PAYMENT_SUBMITTED"}
       /\ order[o].status # "CANCELLED"
       => order[o].status = "PENDING" /\ order[o].hold # "none"
    /\ order[o].hold # "none" => order[o].status = "PENDING"

\* What a customer declared paid, and what staff then verified, is the very
\* quotation version that customer opened: the fee and the priced items.
\* Only a sales person may record a payment unseen, on a staff-created order.
PaidWhatWasSeen ==
  \A o \in Orders :
    /\ order[o].quotation \in {"PAYMENT_SUBMITTED", "PAYMENT_VERIFIED"}
    /\ ~order[o].byStaff
    => order[o].seen = [fee |-> order[o].fee, priced |-> order[o].priced]

\* Checkouts, revisions and promotions that compete for the last tiles never
\* reserve past them: as long as staff force no reservation in a shortage and
\* take no stock away by correction, the area counted as reserved stays within
\* what is on hand, also where an overtaken request has left the count wrong.
NeverOversold ==
  \A p \in Products : reserved[p] <= onHand[p]

\* Delivery details are locked from the moment a quotation is out: the fee
\* was costed against them (saveDeliveryDetails).
DeliveryLocked ==
  [][\A o \in Orders :
       order[o].quotation # "AWAITING_REVIEW"
         => order'[o].delivery = order[o].delivery]_vars

\* A cancelled order is over: no handler that read it earlier changes its
\* status, payment, items, delivery, price or stock any more.
CancelledIsOver ==
  [][\A o \in Orders :
       order[o].status = "CANCELLED"
         => /\ order'[o] = [order[o] EXCEPT !.seen = order'[o].seen,
                                            !.hold = order'[o].hold]
            /\ order'[o].hold = "none" <=> order[o].hold = "none"
            /\ held'[o] = held[o] /\ taken'[o] = taken[o]]_vars

\* README, orders: stock moves when an order is marked DELIVERED and at no
\* other step of an order (adjustStock aside, which changes no order).
StockMovesOnlyAtDelivery ==
  [][order' # order /\ onHand' # onHand
       => \E o \in Orders : /\ order[o].status = "SHIPPED"
                            /\ order'[o].status = "DELIVERED"]_vars

\* The refinement mapping: an order's tiles are where its hold and its
\* movement rows say, if the two agree with its items; the count of a crossed
\* order is lost.
Whereabouts(o) ==
  LET contributes == <<held[o], taken[o]>>
      all == order[o].items
  IN  IF o \in crossed THEN "lost"
      ELSE IF contributes = <<NoItems, NoItems>> THEN "none"
      ELSE IF contributes = <<all, NoItems>> THEN "held"
      ELSE IF contributes = <<NoItems, all>> THEN "taken"
      ELSE "lost"

Lifecycle == INSTANCE OrderLifecycle WITH
  stage   <- [o \in Orders |-> order[o].status],
  payment <- [o \in Orders |-> order[o].quotation],
  goods   <- [o \in Orders |-> Whereabouts(o)]

\* The handlers with all their overlaps do nothing to an order that the
\* abstract life cycle does not allow: status, payment and stock move together
\* and only along its steps, and the count of an order's tiles is lost only in
\* a cancellation, a promotion or a quotation.
ImplementsLifecycle == Lifecycle!Spec

=============================================================================
