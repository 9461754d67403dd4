------------------------- MODULE OrderServiceProofs -------------------------
(***************************************************************************)
(* Proofs about OrderService, for every number of orders, products and     *)
(* concurrent requests.                                                    *)
(***************************************************************************)
EXTENDS OrderService, FiniteSetTheorems, TLAPS

-----------------------------------------------------------------------------
(* Type correctness.                                                       *)

\* A worker whose request has a kind is not idle.
LEMMA InFlightType ==
  ASSUME TypeOK, NEW w \in Workers, NEW k \in Kinds, InFlight(w, k)
  PROVE  flight[w] \in Flight /\ flight[w].order \in Orders
BY DEF TypeOK, InFlight, Idle, Kinds, Flight

LEMMA BlankType == Blank \in Row
BY DEF Blank, Row, Status, QuotationStatus, Items, Unseen, Quote

\* Area arithmetic stays within functions from products to integers.
LEMMA AreaType ==
  /\ NoItems \in [Products -> Nat]
  /\ Items \subseteq [Products -> Nat]
  /\ \A f, g \in [Products -> Int] :
       Plus(f, g) \in [Products -> Int] /\ Minus(f, g) \in [Products -> Int]
BY CartsAssumption DEF NoItems, Items, Plus, Minus

LEMMA InitType == Init => TypeOK
BY BlankType, AreaType, StockAssumption DEF Init, TypeOK

LEMMA ReadType ==
  ASSUME TypeOK, NEW k \in Kinds, NEW o \in Orders, NEW stamps \in SUBSET Stamps
  PROVE  Read(k, o, stamps) \in Flight
BY DEF TypeOK, Read, Flight, Row, Items

LEMMA StartType ==
  ASSUME TypeOK, NEW w \in Workers, NEW k, NEW f \in Flight, Start(w, k, f)
  PROVE  TypeOK'
BY DEF TypeOK, Start, stock

LEMMA WriteType ==
  ASSUME TypeOK, NEW w \in Workers, NEW o \in Orders, NEW row \in Row,
         NEW stamps, Write(w, o, row, stamps)
  PROVE  /\ order' \in [Orders -> Row]
         /\ flight' \in [Workers -> Flight \cup {Idle}]
        /\ crossed' \subseteq Orders
<1>1. ASSUME NEW v \in Workers
      PROVE  Restamp(flight[v], o, stamps) \in Flight \cup {Idle}
  <2>1. CASE flight[v] # Idle /\ flight[v].order = o
    BY <2>1 DEF TypeOK, Restamp, Flight
  <2>2. CASE ~(flight[v] # Idle /\ flight[v].order = o)
    BY <2>2 DEF TypeOK, Restamp
  <2> QED BY <2>1, <2>2
<1>2. order' \in [Orders -> Row]
  BY DEF TypeOK, Write
<1>3. crossed' \subseteq Orders
  BY DEF TypeOK, Write
<1> QED BY <1>1, <1>2, <1>3 DEF Write

LEMMA AdjustReservedType ==
  ASSUME TypeOK, NEW o \in Orders, NEW delta \in [Products -> Int],
         AdjustReserved(o, delta)
  PROVE  reserved' \in [Products -> Int] /\ held' \in [Orders -> [Products -> Int]]
BY DEF TypeOK, AdjustReserved, Plus

\* A request's arguments, added to what it read.
LEMMA ArgumentsType ==
  ASSUME NEW f \in Flight
  PROVE  /\ \A cart \in Items, next \in Status, d \in Addresses \cup {NoDelivery},
               a \in BOOLEAN, s \in BOOLEAN :
              [f EXCEPT !.cart = cart, !.delivery = d, !.assisted = a,
                        !.short = s, !.next = next] \in Flight
         /\ \A next \in Status : [f EXCEPT !.next = next] \in Flight
         /\ \A cart \in Items, next \in Status :
              [f EXCEPT !.cart = cart, !.next = next] \in Flight
         /\ \A d \in Addresses : [f EXCEPT !.delivery = d] \in Flight
         /\ \A fee \in Fees : [f EXCEPT !.fee = fee] \in Flight
         /\ \A a \in BOOLEAN : [f EXCEPT !.assisted = a] \in Flight
BY DEF Flight

LEMMA ReadStepType ==
  ASSUME TypeOK, NEW w \in Workers, NEW o \in Orders, ReadStep(w, o)
  PROVE  TypeOK'
<1> USE DEF Kinds
<1>1. ASSUME NEW cart \in Carts, NEW placer \in Placers,
             NEW d \in Addresses \cup {NoDelivery},
             CheckoutRead(w, o, cart, placer, d)
      PROVE  TypeOK'
  <2> DEFINE short == \E p \in Products : cart[p] > Available(p)
             assisted == placer = "STAFF"
             next == IF short /\ ~assisted THEN "WAITLISTED" ELSE "PENDING"
             f == [Read("checkout", o, {}) EXCEPT
                     !.cart = cart, !.delivery = d, !.assisted = assisted,
                     !.short = short, !.next = next]
  <2>1. /\ Read("checkout", o, {}) \in Flight
        /\ cart \in Items /\ next \in Status
        /\ short \in BOOLEAN /\ assisted \in BOOLEAN
    BY ReadType DEF Items, Status
  <2>2. f \in Flight
    <3> HIDE DEF short, assisted, next
    <3> QED BY <2>1, ArgumentsType
  <2>3. Start(w, "checkout", f)
    BY <1>1 DEF CheckoutRead
  <2> QED BY <2>2, <2>3, StartType
<1>2. ASSUME NEW to \in Status, UpdateStatusRead(w, o, to)
      PROVE  TypeOK'
  <2> DEFINE f == [Read("updateStatus", o, {}) EXCEPT !.next = to]
  <2>1. Read("updateStatus", o, {}) \in Flight
    BY ReadType DEF Stamps
  <2>2. f \in Flight
    BY <2>1, ArgumentsType
  <2>3. Start(w, "updateStatus", f)
    BY <1>2 DEF UpdateStatusRead
  <2> QED BY <2>2, <2>3, StartType
<1>3. ASSUME NEW cart \in Carts, UpdateItemsRead(w, o, cart)
      PROVE  TypeOK'
  <2> Read("updateItems", o, {"updatedAt"}) \in Flight
    BY ReadType DEF Stamps
  <2> PICK next \in Status : Start(w, "updateItems",
        [Read("updateItems", o, {"updatedAt"}) EXCEPT !.cart = cart, !.next = next])
    BY <1>3 DEF UpdateItemsRead, Status
  <2> QED BY ArgumentsType, StartType DEF Items
<1>4. ASSUME NEW a \in Addresses, SaveDeliveryRead(w, o, a)
      PROVE  TypeOK'
  <2> DEFINE f == [Read("saveDelivery", o, {}) EXCEPT !.delivery = a]
  <2>1. Read("saveDelivery", o, {}) \in Flight
    BY ReadType DEF Stamps
  <2>2. f \in Flight
    BY <2>1, ArgumentsType
  <2>3. Start(w, "saveDelivery", f)
    BY <1>4 DEF SaveDeliveryRead
  <2> QED BY <2>2, <2>3, StartType
<1>5. ASSUME NEW fee \in Fees, SendQuotationRead(w, o, fee)
      PROVE  TypeOK'
  <2> DEFINE f == [Read("sendQuotation", o, {}) EXCEPT !.fee = fee]
  <2>1. Read("sendQuotation", o, {}) \in Flight
    BY ReadType DEF Stamps
  <2>2. f \in Flight
    BY <2>1, ArgumentsType
  <2>3. Start(w, "sendQuotation", f)
    BY <1>5 DEF SendQuotationRead
  <2> QED BY <2>2, <2>3, StartType
<1>6. ASSUME NEW assisted \in BOOLEAN, MarkPaymentSubmittedRead(w, o, assisted)
      PROVE  TypeOK'
  <2> DEFINE f == [Read("markPaymentSubmitted", o, {"quotationSentAt"}) EXCEPT !.assisted = assisted]
  <2>1. Read("markPaymentSubmitted", o, {"quotationSentAt"}) \in Flight
    BY ReadType DEF Stamps
  <2>2. f \in Flight
    BY <2>1, ArgumentsType
  <2>3. Start(w, "markPaymentSubmitted", f)
    BY <1>6 DEF MarkPaymentSubmittedRead
  <2> QED BY <2>2, <2>3, StartType
<1>7. CASE ViewQuotationOpen(w, o)
  BY <1>7, ReadType, StartType DEF ViewQuotationOpen
<1>8. CASE RejectPaymentRead(w, o)
  BY <1>8, ReadType, StartType DEF RejectPaymentRead, Stamps
<1>9. CASE VerifyPaymentRead(w, o)
  BY <1>9, ReadType, StartType DEF VerifyPaymentRead, Stamps
<1>10. CASE ExpireRead(w, o)
  BY <1>10, ReadType, StartType DEF ExpireRead
<1>11. CASE PromoteRead(w, o)
  BY <1>11, ReadType, StartType DEF PromoteRead
<1> QED BY <1>1, <1>2, <1>3, <1>4, <1>5, <1>6, <1>7, <1>8, <1>9, <1>10, <1>11
        DEF ReadStep
-----------------------------------------------------------------------------

LEMMA AdjustTakenType ==
  ASSUME TypeOK, NEW o \in Orders, NEW delta \in [Products -> Int],
         \A p \in Products : delta[p] <= onHand[p], AdjustTaken(o, delta)
  PROVE  onHand' \in [Products -> Nat] /\ taken' \in [Orders -> [Products -> Int]]
BY DEF TypeOK, AdjustTaken, Plus, Minus

\* What is read is a row: its parts have the types of the columns.
LEMMA FlightParts ==
  ASSUME NEW f \in Flight
  PROVE  /\ f.row \in Row /\ f.next \in Status /\ f.cart \in Items
         /\ f.fee \in Fees \cup {NoFee} /\ f.assisted \in BOOLEAN
         /\ f.delivery \in Addresses \cup {NoDelivery}
         /\ f.row.items \in Items /\ f.row.priced \in Items
         /\ f.row.fee \in Fees \cup {NoFee} /\ f.row.deducted \in BOOLEAN
         /\ HeldBy(f.row) \in Items
BY DEF Flight, Row, HeldBy, Items

LEMMA CommitStepType ==
  ASSUME TypeOK, NEW w \in Workers, CommitStep(w)
  PROVE  TypeOK'
<1> DEFINE f == flight[w]
           row == order[f.order]
<1> USE DEF Kinds
<1>1. CASE CheckoutCommit(w)
  <2>1. f \in Flight /\ f.order \in Orders
    BY <1>1, InFlightType DEF CheckoutCommit
  <2> DEFINE new == [Blank EXCEPT !.status = f.next, !.items = f.cart,
                       !.priced = f.cart, !.delivery = f.delivery,
                       !.byStaff = f.assisted,
                       !.hold = IF f.next = "PENDING" THEN "open" ELSE "none"]
  <2>2. new \in Row
    BY <2>1, BlankType, FlightParts DEF Row
  <2>3. Write(w, f.order, new, Stamps)
    BY <1>1 DEF CheckoutCommit
  <2>4. /\ order' \in [Orders -> Row]
        /\ flight' \in [Workers -> Flight \cup {Idle}]
        /\ crossed' \subseteq Orders
    BY <2>1, <2>2, <2>3, WriteType
  <2>5. (IF f.next = "PENDING" THEN f.cart ELSE NoItems) \in [Products -> Int]
    BY <2>1, FlightParts, AreaType
  <2>6. /\ reserved' \in [Products -> Int]
        /\ held' \in [Orders -> [Products -> Int]]
    BY <1>1, <2>1, <2>5, AdjustReservedType DEF CheckoutCommit
  <2> QED BY <1>1, <2>4, <2>6 DEF TypeOK, CheckoutCommit
<1>2. CASE UpdateStatusCommit(w)
  <2>1. f \in Flight /\ f.order \in Orders /\ row \in Row
    BY <1>2, InFlightType DEF UpdateStatusCommit, TypeOK
  <2> DEFINE new == [row EXCEPT !.status = f.next,
                       !.hold = IF Releases(f) THEN "none" ELSE @,
                       !.deducted = (@ \/ Deducts(f)) /\ ~Returns(f)]
             stamps == IF Releases(f) THEN {"reservationExpiresAt"} ELSE {}
             out == IF Deducts(f) THEN f.row.items
                    ELSE IF Returns(f) THEN Minus(NoItems, f.row.items)
                    ELSE NoItems
             rel == IF Releases(f) THEN Minus(NoItems, f.row.items) ELSE NoItems
  <2>2. new \in Row
    BY <2>1, FlightParts DEF Row
  <2>3. Write(w, f.order, new, stamps)
    BY <1>2 DEF UpdateStatusCommit
  <2>4. /\ order' \in [Orders -> Row]
        /\ flight' \in [Workers -> Flight \cup {Idle}]
        /\ crossed' \subseteq Orders
    <3> HIDE DEF new, stamps
    <3> QED BY <2>1, <2>2, <2>3, WriteType
  <2>5. Minus(NoItems, f.row.items) \in [Products -> Int]
    BY <2>1, FlightParts, AreaType
  <2>6. f.row.items \in [Products -> Nat] /\ NoItems \in [Products -> Nat]
    BY <2>1, FlightParts, AreaType
  <2>7. out \in [Products -> Int] /\ rel \in [Products -> Int]
    BY <2>5, <2>6
  <2>8. \A p \in Products : out[p] <= onHand[p]
    <3>1. CASE Deducts(f)
      BY <1>2, <3>1 DEF UpdateStatusCommit, CanDeduct
    <3>2. CASE ~Deducts(f)
      BY <2>6, <3>2 DEF TypeOK, Minus, NoItems
    <3> QED BY <3>1, <3>2
  <2>9. AdjustTaken(f.order, out) /\ AdjustReserved(f.order, rel)
    BY <1>2 DEF UpdateStatusCommit
  <2>10. /\ reserved' \in [Products -> Int]
         /\ held' \in [Orders -> [Products -> Int]]
         /\ onHand' \in [Products -> Nat]
         /\ taken' \in [Orders -> [Products -> Int]]
    <3> HIDE DEF out, rel
    <3> QED BY <2>1, <2>7, <2>8, <2>9, AdjustReservedType, AdjustTakenType
  <2> QED BY <2>4, <2>10 DEF TypeOK
<1>3. CASE UpdateItemsCommit(w)
  <2>1. f \in Flight /\ f.order \in Orders /\ row \in Row
    BY <1>3, InFlightType DEF UpdateItemsCommit, TypeOK
  <2> DEFINE new == [row EXCEPT !.status = f.next, !.items = f.cart,
                       !.priced = f.cart,
                       !.hold = IF f.next = "PENDING" THEN "open" ELSE "none",
                       !.quotation = "AWAITING_REVIEW",
                       !.fee = NoFee, !.seen = Unseen]
             delta == Minus(IF f.next = "PENDING" THEN f.cart ELSE NoItems,
                            HeldBy(f.row))
  <2>2. new \in Row
    BY <2>1, FlightParts, BlankType DEF Row, Blank, QuotationStatus
  <2>3. Write(w, f.order, new, {"reservationExpiresAt", "quotationSentAt"})
    BY <1>3 DEF UpdateItemsCommit
  <2>4. /\ order' \in [Orders -> Row]
        /\ flight' \in [Workers -> Flight \cup {Idle}]
        /\ crossed' \subseteq Orders
    BY <2>1, <2>2, <2>3, WriteType
  <2>5. delta \in [Products -> Int]
    BY <2>1, FlightParts, AreaType
  <2>6. AdjustReserved(f.order, delta)
    BY <1>3 DEF UpdateItemsCommit
  <2>7. /\ reserved' \in [Products -> Int]
        /\ held' \in [Orders -> [Products -> Int]]
    BY <2>1, <2>5, <2>6, AdjustReservedType
  <2> QED BY <1>3, <2>4, <2>7 DEF TypeOK, UpdateItemsCommit
<1>4. CASE SaveDeliveryCommit(w)
  <2>1. f \in Flight /\ f.order \in Orders /\ row \in Row
    BY <1>4, InFlightType DEF SaveDeliveryCommit, TypeOK
  <2>2. [row EXCEPT !.delivery = f.delivery] \in Row
    BY <2>1, FlightParts DEF Row
  <2> QED BY <1>4, <2>1, <2>2, WriteType DEF TypeOK, SaveDeliveryCommit, stock
<1>5. CASE SendQuotationCommit(w)
  <2>1. f \in Flight /\ f.order \in Orders /\ row \in Row
    BY <1>5, InFlightType DEF SendQuotationCommit, TypeOK
  <2>2. [row EXCEPT !.quotation = "QUOTATION_SENT", !.fee = f.fee,
                    !.priced = f.row.items, !.seen = Unseen,
                    !.hold = "open"] \in Row
    BY <2>1, FlightParts, BlankType DEF Row, Blank, QuotationStatus
  <2> QED BY <1>5, <2>1, <2>2, WriteType DEF TypeOK, SendQuotationCommit, stock
<1>6. CASE ViewQuotationRender(w)
  <2>1. f \in Flight /\ f.order \in Orders
    BY <1>6, InFlightType DEF ViewQuotationRender
  <2>2. Read("renderQuotation", f.order, {"quotationSentAt"}) \in Flight
    BY <2>1, ReadType DEF Stamps
  <2> QED BY <1>6, <2>2 DEF TypeOK, ViewQuotationRender, stock
<1>7. CASE ViewQuotationStamp(w)
  <2>1. f \in Flight /\ f.order \in Orders /\ row \in Row
    BY <1>7, InFlightType DEF ViewQuotationStamp, TypeOK
  <2>2. [row EXCEPT !.seen = [fee |-> f.row.fee, priced |-> f.row.priced]] \in Row
    BY <2>1, FlightParts DEF Row, Quote
  <2> QED BY <1>7, <2>1, <2>2, WriteType DEF TypeOK, ViewQuotationStamp, stock
<1>8. CASE MarkPaymentSubmittedCommit(w)
  <2>1. f \in Flight /\ f.order \in Orders /\ row \in Row
    BY <1>8, InFlightType DEF MarkPaymentSubmittedCommit, TypeOK
  <2>2. [row EXCEPT !.quotation = "PAYMENT_SUBMITTED"] \in Row
    BY <2>1 DEF Row, QuotationStatus
  <2> QED BY <1>8, <2>1, <2>2, WriteType
          DEF TypeOK, MarkPaymentSubmittedCommit, stock
<1>9. CASE RejectPaymentCommit(w)
  <2>1. f \in Flight /\ f.order \in Orders /\ row \in Row
    BY <1>9, InFlightType DEF RejectPaymentCommit, TypeOK
  <2> DEFINE restarts == f.row.status = "PENDING" /\ f.row.hold # "none"
             new == [row EXCEPT !.quotation = "QUOTATION_SENT",
                                !.hold = IF restarts THEN "open" ELSE @]
  <2>2. new \in Row
    BY <2>1 DEF Row, QuotationStatus
  <2>3. PICK stamps : Write(w, f.order, new, stamps)
    BY <1>9 DEF RejectPaymentCommit
  <2>4. /\ order' \in [Orders -> Row]
        /\ flight' \in [Workers -> Flight \cup {Idle}]
        /\ crossed' \subseteq Orders
    BY <2>1, <2>2, <2>3, WriteType
  <2> QED BY <1>9, <2>4 DEF TypeOK, RejectPaymentCommit, stock
<1>10. CASE VerifyPaymentCommit(w)
  <2>1. f \in Flight /\ f.order \in Orders /\ row \in Row
    BY <1>10, InFlightType DEF VerifyPaymentCommit, TypeOK
  <2> DEFINE new == [row EXCEPT !.quotation = "PAYMENT_VERIFIED",
                                !.hold = "none", !.deducted = TRUE]
             moved == IF f.row.deducted THEN NoItems ELSE f.row.items
  <2>2. new \in Row
    BY <2>1 DEF Row, QuotationStatus
  <2>3. PICK stamps : Write(w, f.order, new, stamps)
    BY <1>10 DEF VerifyPaymentCommit
  <2>4. /\ order' \in [Orders -> Row]
        /\ flight' \in [Workers -> Flight \cup {Idle}]
        /\ crossed' \subseteq Orders
    BY <2>1, <2>2, <2>3, WriteType
  <2>5. /\ moved \in [Products -> Int]
        /\ Minus(NoItems, HeldBy(f.row)) \in [Products -> Int]
    BY <2>1, FlightParts, AreaType
  <2>6. \A p \in Products : moved[p] <= onHand[p]
    BY <1>10 DEF VerifyPaymentCommit, CanDeduct
  <2>7. /\ AdjustTaken(f.order, moved)
        /\ AdjustReserved(f.order, Minus(NoItems, HeldBy(f.row)))
    BY <1>10 DEF VerifyPaymentCommit
  <2>8. /\ reserved' \in [Products -> Int]
        /\ held' \in [Orders -> [Products -> Int]]
        /\ onHand' \in [Products -> Nat]
        /\ taken' \in [Orders -> [Products -> Int]]
    <3> HIDE DEF moved
    <3> QED BY <2>1, <2>5, <2>6, <2>7, AdjustReservedType, AdjustTakenType
  <2> QED BY <2>4, <2>8 DEF TypeOK
<1>11. CASE ExpireCommit(w)
  <2>1. f \in Flight /\ f.order \in Orders /\ row \in Row
    BY <1>11, InFlightType DEF ExpireCommit, TypeOK
  <2>2. [row EXCEPT !.status = "CANCELLED", !.hold = "none"] \in Row
    BY <2>1 DEF Row, Status
  <2>3. Minus(NoItems, f.row.items) \in [Products -> Int]
    BY <2>1, FlightParts, AreaType
  <2> QED BY <1>11, <2>1, <2>2, <2>3, WriteType, AdjustReservedType
          DEF TypeOK, ExpireCommit
<1>12. CASE PromoteCommit(w)
  <2>1. f \in Flight /\ f.order \in Orders /\ row \in Row
    BY <1>12, InFlightType DEF PromoteCommit, TypeOK
  <2>2. [row EXCEPT !.status = "PENDING", !.hold = "open"] \in Row
    BY <2>1 DEF Row, Status
  <2>3. f.row.items \in [Products -> Int]
    BY <2>1, FlightParts, AreaType
  <2> QED BY <1>12, <2>1, <2>2, <2>3, WriteType, AdjustReservedType
          DEF TypeOK, PromoteCommit
<1>13. CASE Drop(w)
  BY <1>13 DEF TypeOK, Drop, stock
<1> QED BY <1>1, <1>2, <1>3, <1>4, <1>5, <1>6, <1>7, <1>8, <1>9, <1>10, <1>11,
           <1>12, <1>13 DEF CommitStep

LEMMA OtherStepType ==
  ASSUME TypeOK,
         \/ \E o \in Orders : Lapse(o)
         \/ \E p \in Products, change \in Corrections : AdjustStock(p, change)
  PROVE  TypeOK'
<1>1. ASSUME NEW o \in Orders, Lapse(o)
      PROVE  TypeOK'
  <2>1. [order[o] EXCEPT !.hold = "lapsed"] \in Row
    BY DEF TypeOK, Row
  <2> QED BY <1>1, <2>1 DEF TypeOK, Lapse, stock
<1>2. ASSUME NEW p \in Products, NEW change \in Corrections, AdjustStock(p, change)
      PROVE  TypeOK'
  BY <1>2, StockAssumption DEF TypeOK, AdjustStock
<1> QED BY <1>1, <1>2

\* The type invariant holds in every reachable state: in particular the area
\* on hand is never negative, whatever deductions, returns and corrections
\* overlap (deductOnHandAtomically, adjustStock).
THEOREM TypeCorrect == Spec => []TypeOK
<1>1. TypeOK /\ [Next]_vars => TypeOK'
  <2> SUFFICES ASSUME TypeOK, [Next]_vars PROVE TypeOK'
    OBVIOUS
  <2>1. CASE Next
    BY <2>1, ReadStepType, CommitStepType, OtherStepType DEF Next
  <2>2. CASE UNCHANGED vars
    BY <2>2 DEF TypeOK, vars
  <2> QED BY <2>1, <2>2
<1> QED BY InitType, <1>1, PTL DEF Spec
-----------------------------------------------------------------------------
(* Stock leaves once: the inductive invariant.                             *)

\* What holds of every row, and of every row some request remembers.
RowSafe(r) ==
  /\ r.status = "NONE" => r.quotation = "AWAITING_REVIEW"
  /\ r.status \in Fulfilling => r.quotation = "PAYMENT_VERIFIED"
  /\ r.deducted <=> r.quotation = "PAYMENT_VERIFIED" /\ r.status # "CANCELLED"
  /\ r.quotation \in {"QUOTATION_SENT", "PAYMENT_SUBMITTED"} /\ r.status # "CANCELLED"
       => r.hold # "none"

\* What the validation of each kind of request guarantees of what it read.
Validated(f) ==
  /\ RowSafe(f.row)
  /\ f.kind \in {"checkout", "updateItems"} => f.next \in {"WAITLISTED", "PENDING"}
  /\ f.kind = "updateItems" =>
       /\ f.row.status \in {"PENDING", "WAITLISTED"}
       /\ f.row.quotation \in {"AWAITING_REVIEW", "QUOTATION_SENT"}
  /\ f.kind = "updateStatus" =>
       /\ f.next \in Transitions[f.row.status]
       /\ f.row.status = "PENDING" /\ f.next # "CANCELLED"
            => f.row.quotation = "PAYMENT_VERIFIED"
  /\ f.kind \in {"rejectPayment", "verifyPayment"} =>
       f.row.quotation = "PAYMENT_SUBMITTED" /\ f.row.status # "CANCELLED"

\* How far what a request read still holds of the order: the items while the
\* expiry it read stands, and for good once the payment was verified.
UpToDate(f) ==
  LET row == order[f.order] IN
  /\ f.kind = "checkout" <=> row.status = "NONE"
  /\ "reservationExpiresAt" \in f.fresh => row.items = f.row.items
  /\ f.row.quotation = "PAYMENT_VERIFIED" =>
       row.quotation = "PAYMENT_VERIFIED" /\ row.items = f.row.items

Alone(w) == \A v \in Workers \ {w} :
              flight[v] # Idle => flight[v].order # flight[w].order

FlightSafe(w) ==
  flight[w] # Idle =>
    /\ Validated(flight[w])
    /\ UpToDate(flight[w])
    /\ flight[w].kind = "checkout" => Alone(w)

\* The inductive invariant behind StockLeavesOnce and FulfilmentIsPaid.
StockInv ==
  /\ TypeOK
  /\ \A o \in Orders : RowSafe(order[o])
  /\ StockLeavesOnce
  /\ \A w \in Workers : FlightSafe(w)

LEMMA RestampParts ==
  ASSUME NEW f \in Flight, NEW o, NEW stamps
  PROVE  LET g == Restamp(f, o, stamps) IN
         /\ g # Idle /\ g.kind = f.kind /\ g.order = f.order /\ g.row = f.row
         /\ g.next = f.next /\ g.cart = f.cart
         /\ g.fresh \subseteq f.fresh
         /\ f.order = o => g.fresh \cap stamps = {}
BY DEF Restamp, Flight, Idle, Kinds

LEMMA BusyType ==
  ASSUME TypeOK, NEW w \in Workers, flight[w] # Idle
  PROVE  flight[w] \in Flight /\ flight[w].order \in Orders
BY DEF TypeOK, Flight

\* A request that starts with a validated read keeps the invariant.
LEMMA StartSafe ==
  ASSUME StockInv, NEW w \in Workers, NEW k, NEW f \in Flight, Start(w, k, f),
         Validated(f), UpToDate(f),
         f.kind = "checkout" =>
           \A v \in Workers : flight[v] # Idle => flight[v].order # f.order
  PROVE  StockInv'
<1>1. TypeOK'
  BY StartType DEF StockInv
<1>2. /\ order' = order /\ taken' = taken
      /\ flight' = [flight EXCEPT ![w] = f] /\ flight[w] = Idle
  BY DEF Start, stock
<1>3. (\A o \in Orders : RowSafe(order[o]))' /\ StockLeavesOnce'
  BY <1>2 DEF StockInv, StockLeavesOnce, RowSafe
<1>4. ASSUME NEW v \in Workers
      PROVE  FlightSafe(v)'
  <2>1. CASE v = w
    BY <1>2, <2>1 DEF FlightSafe, Alone, UpToDate, StockInv, TypeOK
  <2>2. CASE v # w
    <3>1. flight'[v] = flight[v]
      BY <1>2, <2>2
    <3>2. flight[v] # Idle => Validated(flight'[v]) /\ UpToDate(flight[v])'
      BY <1>2, <3>1 DEF StockInv, FlightSafe, UpToDate
    <3>3. flight[v] # Idle /\ flight[v].kind = "checkout" => Alone(v)'
      <4> SUFFICES ASSUME flight[v] # Idle, flight[v].kind = "checkout"
                   PROVE  f.order # flight[v].order
        BY <1>2, <2>2, <3>1 DEF StockInv, FlightSafe, Alone, TypeOK
      <4> QED BY DEF StockInv, FlightSafe, UpToDate
    <3> QED BY <3>1, <3>2, <3>3 DEF FlightSafe
  <2> QED BY <2>1, <2>2
<1> QED BY <1>1, <1>3, <1>4 DEF StockInv

\* A claim that leaves a safe row, changes items only with the expiry stamp
\* and before payment, and keeps the movement rows in step, keeps the
\* invariant, also in what all other requests have read.
LEMMA WriteSafe ==
  ASSUME StockInv, TypeOK', NEW w \in Workers, flight[w] # Idle,
         NEW row \in Row, NEW stamps,
         Write(w, flight[w].order, row, stamps),
         RowSafe(row), row.status # "NONE",
         \/ row.items = order[flight[w].order].items
         \/ /\ "reservationExpiresAt" \in stamps
            /\ order[flight[w].order].quotation # "PAYMENT_VERIFIED",
         order[flight[w].order].quotation = "PAYMENT_VERIFIED"
           => row.quotation = "PAYMENT_VERIFIED",
         taken' = [taken EXCEPT ![flight[w].order] =
                     IF row.deducted THEN row.items ELSE NoItems]
  PROVE  StockInv'
<1> DEFINE o == flight[w].order
<1>1. /\ o \in Orders /\ flight[w] \in Flight
      /\ order' = [order EXCEPT ![o] = row]
      /\ flight' = [v \in Workers |->
                      IF v = w THEN Idle ELSE Restamp(flight[v], o, stamps)]
  BY BusyType DEF StockInv, Write
<1>2. (\A x \in Orders : RowSafe(order[x]))'
  BY <1>1 DEF StockInv, TypeOK
<1>3. StockLeavesOnce'
  BY <1>1 DEF StockInv, StockLeavesOnce, TypeOK
<1>4. ASSUME NEW v \in Workers, flight'[v] # Idle
      PROVE  /\ Validated(flight'[v])
             /\ UpToDate(flight[v])'
             /\ flight'[v].kind = "checkout" => Alone(v)'
  <2> DEFINE g == flight'[v]
             f == flight[v]
  <2>1. v # w /\ f # Idle /\ g = Restamp(f, o, stamps)
    BY <1>1, <1>4 DEF Restamp
  <2>2. f \in Flight /\ f.order \in Orders
    BY <2>1, BusyType DEF StockInv
  <2>3. /\ g.kind = f.kind /\ g.order = f.order /\ g.row = f.row
        /\ g.next = f.next /\ g.fresh \subseteq f.fresh
        /\ f.order = o => g.fresh \cap stamps = {}
    BY <2>1, <2>2, RestampParts
  <2>4. /\ Validated(f) /\ UpToDate(f)
        /\ f.kind = "checkout" => Alone(v)
    BY <2>1 DEF StockInv, FlightSafe
  <2>5. Validated(g)
    BY <2>3, <2>4 DEF Validated
  <2>6. UpToDate(f)'
    <3>1. CASE f.order # o
      BY <1>1, <2>2, <2>3, <2>4, <3>1 DEF UpToDate, StockInv, TypeOK
    <3>2. CASE f.order = o
      <4>1. order'[o] = row
        BY <1>1 DEF StockInv, TypeOK
      <4>2. f.kind # "checkout"
        BY <2>1, <2>4, <3>2 DEF Alone
      <4>3. "reservationExpiresAt" \in g.fresh => row.items = f.row.items
        BY <2>3, <2>4, <3>2 DEF UpToDate
      <4>4. f.row.quotation = "PAYMENT_VERIFIED" =>
              row.quotation = "PAYMENT_VERIFIED" /\ row.items = f.row.items
        BY <2>4, <3>2 DEF UpToDate
      <4> QED BY <2>3, <3>2, <4>1, <4>2, <4>3, <4>4 DEF UpToDate
    <3> QED BY <3>1, <3>2
  <2>7. ASSUME f.kind = "checkout", NEW u \in Workers \ {v}, flight'[u] # Idle
        PROVE  flight'[u].order # g.order
    <3>1. flight[u] # Idle /\ u # w /\ flight'[u] = Restamp(flight[u], o, stamps)
      BY <1>1, <2>7 DEF Restamp
    <3>2. flight'[u].order = flight[u].order
      BY <3>1, BusyType, RestampParts DEF StockInv
    <3> QED BY <2>3, <2>4, <2>7, <3>1, <3>2 DEF Alone
  <2> QED BY <2>3, <2>5, <2>6, <2>7 DEF Alone
<1>5. \A v \in Workers : FlightSafe(v)'
  BY <1>4 DEF FlightSafe
<1> QED BY <1>2, <1>3, <1>5 DEF StockInv
\* Every read step keeps the invariant: what it validated is what the
\* invariant records of the request.
LEMMA ReadStepSafe ==
  ASSUME StockInv, NEW w \in Workers, NEW o \in Orders, ReadStep(w, o)
  PROVE  StockInv'
<1> USE DEF Kinds, Stamps
<1>0. /\ TypeOK /\ order[o] \in Row /\ RowSafe(order[o])
      /\ \A k, stamps : /\ Read(k, o, stamps).kind = k
                        /\ Read(k, o, stamps).order = o
                        /\ Read(k, o, stamps).row = order[o]
  BY DEF StockInv, TypeOK, Read
<1>1. ASSUME NEW k \in Kinds \ {"checkout", "updateItems", "updateStatus"},
             NEW f \in Flight, Start(w, k, f), order[o].status # "NONE",
             f.kind = k, f.order = o, f.row = order[o],
             k \in {"rejectPayment", "verifyPayment"} =>
               order[o].quotation = "PAYMENT_SUBMITTED"
               /\ order[o].status # "CANCELLED"
      PROVE  StockInv'
  <2>1. Validated(f) /\ UpToDate(f)
    BY <1>0, <1>1 DEF Validated, UpToDate
  <2> QED BY <1>1, <2>1, StartSafe
<1>2. ASSUME NEW cart \in Carts, NEW placer \in Placers,
             NEW d \in Addresses \cup {NoDelivery},
             CheckoutRead(w, o, cart, placer, d)
      PROVE  StockInv'
  <2> DEFINE short == \E p \in Products : cart[p] > Available(p)
             assisted == placer = "STAFF"
             next == IF short /\ ~assisted THEN "WAITLISTED" ELSE "PENDING"
             f == [Read("checkout", o, {}) EXCEPT
                     !.cart = cart, !.delivery = d, !.assisted = assisted,
                     !.short = short, !.next = next]
  <2>1. /\ Read("checkout", o, {}) \in Flight
        /\ cart \in Items /\ next \in {"WAITLISTED", "PENDING"}
        /\ next \in Status
        /\ short \in BOOLEAN /\ assisted \in BOOLEAN
    BY <1>0, ReadType DEF Items, Status
  <2>2. /\ Start(w, "checkout", f) /\ order[o].status = "NONE"
        /\ \A v \in Workers : flight[v] # Idle => flight[v].order # o
    BY <1>2 DEF CheckoutRead
  <2> HIDE DEF short, assisted, next
  <2>3. f \in Flight
    BY <2>1, ArgumentsType
  <2>4. /\ f.kind = "checkout" /\ f.order = o /\ f.row = order[o]
        /\ f.next = next /\ f.fresh = {}
    BY DEF Read
  <2>5. Validated(f) /\ UpToDate(f)
    BY <1>0, <2>1, <2>2, <2>4 DEF Validated, UpToDate, RowSafe
  <2> QED BY <2>2, <2>3, <2>4, <2>5, StartSafe
<1>3. ASSUME NEW to \in Status, UpdateStatusRead(w, o, to)
      PROVE  StockInv'
  <2> DEFINE f == [Read("updateStatus", o, {}) EXCEPT !.next = to]
  <2>1. Read("updateStatus", o, {}) \in Flight
    BY <1>0, ReadType
  <2>2. f \in Flight
    BY <2>1, ArgumentsType
  <2>3. /\ f.kind = "updateStatus" /\ f.order = o /\ f.row = order[o]
        /\ f.next = to /\ f.fresh = {}
    BY DEF Read
  <2>4. Start(w, "updateStatus", f)
    BY <1>3 DEF UpdateStatusRead
  <2>5. Validated(f) /\ UpToDate(f)
    BY <1>0, <1>3, <2>3 DEF Validated, UpToDate, UpdateStatusRead, Live
  <2> QED BY <2>2, <2>3, <2>4, <2>5, StartSafe
<1>4. ASSUME NEW cart \in Carts, UpdateItemsRead(w, o, cart)
      PROVE  StockInv'
  <2>1. PICK next \in {"WAITLISTED", "PENDING"} : Start(w, "updateItems",
          [Read("updateItems", o, {"updatedAt"}) EXCEPT !.cart = cart, !.next = next])
    BY <1>4 DEF UpdateItemsRead
  <2> DEFINE f == [Read("updateItems", o, {"updatedAt"}) EXCEPT
                     !.cart = cart, !.next = next]
  <2>2. Read("updateItems", o, {"updatedAt"}) \in Flight
    BY <1>0, ReadType
  <2>3. f \in Flight
    BY <2>2, ArgumentsType DEF Items, Status
  <2>4. /\ f.kind = "updateItems" /\ f.order = o /\ f.row = order[o]
        /\ f.next = next
    BY DEF Read
  <2>5. order[o].quotation \in {"AWAITING_REVIEW", "QUOTATION_SENT"}
    BY <1>0, <1>4 DEF UpdateItemsRead, Row, QuotationStatus
  <2>6. Validated(f) /\ UpToDate(f)
    BY <1>0, <1>4, <2>4, <2>5 DEF Validated, UpToDate, UpdateItemsRead
  <2> QED BY <2>1, <2>3, <2>4, <2>6, StartSafe
<1>5. ASSUME NEW a \in Addresses, SaveDeliveryRead(w, o, a)
      PROVE  StockInv'
  <2> DEFINE f == [Read("saveDelivery", o, {}) EXCEPT !.delivery = a]
  <2>1. Read("saveDelivery", o, {}) \in Flight
    BY <1>0, ReadType
  <2>2. f \in Flight /\ f.kind = "saveDelivery" /\ f.order = o /\ f.row = order[o]
    BY <2>1, ArgumentsType DEF Read
  <2>3. Start(w, "saveDelivery", f) /\ order[o].status # "NONE"
    BY <1>5 DEF SaveDeliveryRead, Live
  <2> QED BY <1>1, <2>2, <2>3
<1>6. ASSUME NEW fee \in Fees, SendQuotationRead(w, o, fee)
      PROVE  StockInv'
  <2> DEFINE f == [Read("sendQuotation", o, {}) EXCEPT !.fee = fee]
  <2>1. Read("sendQuotation", o, {}) \in Flight
    BY <1>0, ReadType
  <2>2. f \in Flight /\ f.kind = "sendQuotation" /\ f.order = o /\ f.row = order[o]
    BY <2>1, ArgumentsType DEF Read
  <2>3. Start(w, "sendQuotation", f) /\ order[o].status # "NONE"
    BY <1>6 DEF SendQuotationRead
  <2> QED BY <1>1, <2>2, <2>3
<1>7. ASSUME NEW assisted \in BOOLEAN, MarkPaymentSubmittedRead(w, o, assisted)
      PROVE  StockInv'
  <2> DEFINE f == [Read("markPaymentSubmitted", o, {"quotationSentAt"})
                     EXCEPT !.assisted = assisted]
  <2>1. Read("markPaymentSubmitted", o, {"quotationSentAt"}) \in Flight
    BY <1>0, ReadType
  <2>2. /\ f \in Flight /\ f.kind = "markPaymentSubmitted"
        /\ f.order = o /\ f.row = order[o]
    BY <2>1, ArgumentsType DEF Read
  <2>3. Start(w, "markPaymentSubmitted", f) /\ order[o].status # "NONE"
    BY <1>7 DEF MarkPaymentSubmittedRead, Live
  <2> QED BY <1>1, <2>2, <2>3
<1>8. CASE ViewQuotationOpen(w, o)
  <2>1. order[o].status # "NONE"
    BY <1>0, <1>8 DEF ViewQuotationOpen, RowSafe
  <2> QED BY <1>0, <1>1, <1>8, <2>1, ReadType DEF ViewQuotationOpen
<1>9. CASE RejectPaymentRead(w, o)
  BY <1>0, <1>1, <1>9, ReadType DEF RejectPaymentRead, Live
<1>10. CASE VerifyPaymentRead(w, o)
  BY <1>0, <1>1, <1>10, ReadType DEF VerifyPaymentRead, Live
<1>11. CASE ExpireRead(w, o)
  BY <1>0, <1>1, <1>11, ReadType DEF ExpireRead
<1>12. CASE PromoteRead(w, o)
  BY <1>0, <1>1, <1>12, ReadType DEF PromoteRead
<1> QED BY <1>2, <1>3, <1>4, <1>5, <1>6, <1>7, <1>8, <1>9, <1>10, <1>11, <1>12
        DEF ReadStep
\* A claim that moves no stock keeps the movement rows in step.
LEMMA TakenUnchanged ==
  ASSUME StockInv, NEW o \in Orders, NEW row,
         row.deducted = order[o].deducted,
         row.deducted => row.items = order[o].items,
         taken' = taken
  PROVE  taken' = [taken EXCEPT ![o] = IF row.deducted THEN row.items ELSE NoItems]
BY DEF StockInv, StockLeavesOnce, TypeOK

LEMMA AddNothing ==
  /\ \A f \in [Products -> Int] : Plus(f, NoItems) = f
  /\ \A f \in [Products -> Int] : Plus(NoItems, f) = f
  /\ \A f \in [Products -> Int] : Plus(f, Minus(NoItems, f)) = NoItems
<1>1. ASSUME NEW f \in [Products -> Int]
      PROVE  /\ Plus(f, NoItems) = f /\ Plus(NoItems, f) = f
             /\ Plus(f, Minus(NoItems, f)) = NoItems
  <2>1. Plus(f, NoItems) = f
    BY DEF Plus, NoItems
  <2>2. Plus(NoItems, f) = f
    BY DEF Plus, NoItems
  <2>3. Plus(f, Minus(NoItems, f)) = NoItems
    BY DEF Plus, Minus, NoItems
  <2> QED BY <2>1, <2>2, <2>3
<1> QED BY <1>1

\* The state a claim finds: the invariant of the request and of its order.
LEMMA ClaimState ==
  ASSUME StockInv, NEW w \in Workers, NEW k \in Kinds, InFlight(w, k)
  PROVE  LET f == flight[w]
             row == order[f.order]
         IN  /\ f # Idle /\ f \in Flight /\ f.order \in Orders /\ f.kind = k
             /\ row \in Row /\ RowSafe(row)
             /\ Validated(f) /\ UpToDate(f)
             /\ k # "checkout" => row.status # "NONE"
<1>1. flight[w] # Idle /\ flight[w].kind = k
  BY DEF InFlight, Idle, Kinds
<1>2. flight[w] \in Flight /\ flight[w].order \in Orders
  BY InFlightType DEF StockInv
<1> QED BY <1>1, <1>2 DEF StockInv, TypeOK, FlightSafe, UpToDate

LEMMA CommitStepSafe ==
  ASSUME StockInv, NEW w \in Workers, CommitStep(w)
  PROVE  StockInv'
<1> DEFINE f == flight[w]
           o == f.order
           row == order[o]
<1> USE DEF Kinds
<1>0. TypeOK /\ TypeOK'
  BY CommitStepType DEF StockInv
<1>1. CASE CheckoutCommit(w)
  <2>1. /\ f # Idle /\ f \in Flight /\ o \in Orders /\ row \in Row
        /\ RowSafe(row) /\ Validated(f) /\ UpToDate(f) /\ f.kind = "checkout"
    BY <1>1, ClaimState DEF CheckoutCommit
  <2> DEFINE new == [Blank EXCEPT !.status = f.next, !.items = f.cart,
                       !.priced = f.cart, !.delivery = f.delivery,
                       !.byStaff = f.assisted,
                       !.hold = IF f.next = "PENDING" THEN "open" ELSE "none"]
  <2>2. /\ row.status = "NONE" /\ row.quotation = "AWAITING_REVIEW"
        /\ ~row.deducted /\ f.next \in {"WAITLISTED", "PENDING"}
    BY <2>1 DEF UpToDate, Validated, RowSafe, Row
  <2>3. new \in Row
    BY <2>1, BlankType, FlightParts DEF Row
  <2>4. /\ Write(w, o, new, Stamps) /\ taken' = taken
    BY <1>1 DEF CheckoutCommit
  <2>5. /\ new.status = f.next /\ new.quotation = "AWAITING_REVIEW"
        /\ new.deducted = FALSE
    BY DEF Blank
  <2> HIDE DEF new
  <2>6. RowSafe(new) /\ new.status # "NONE"
    BY <2>2, <2>5 DEF RowSafe, Fulfilling
  <2>7. taken' = [taken EXCEPT ![o] = IF new.deducted THEN new.items ELSE NoItems]
    BY <2>1, <2>2, <2>4, <2>5, TakenUnchanged
  <2>8. "reservationExpiresAt" \in Stamps
    BY DEF Stamps
  <2> QED BY <1>0, <2>1, <2>2, <2>3, <2>4, <2>5, <2>6, <2>7, <2>8, WriteSafe
<1>2. CASE UpdateStatusCommit(w)
  <2>1. /\ f # Idle /\ f \in Flight /\ o \in Orders /\ row \in Row
        /\ RowSafe(row) /\ Validated(f) /\ UpToDate(f)
        /\ f.kind = "updateStatus" /\ row.status # "NONE"
    BY <1>2, ClaimState DEF UpdateStatusCommit
  <2> DEFINE new == [row EXCEPT !.status = f.next,
                       !.hold = IF Releases(f) THEN "none" ELSE @,
                       !.deducted = (@ \/ Deducts(f)) /\ ~Returns(f)]
             stamps == IF Releases(f) THEN {"reservationExpiresAt"} ELSE {}
             out == IF Deducts(f) THEN f.row.items
                    ELSE IF Returns(f) THEN Minus(NoItems, f.row.items)
                    ELSE NoItems
  <2>2. new \in Row
    BY <2>1, FlightParts DEF Row
  <2>3. /\ Write(w, o, new, stamps) /\ AdjustTaken(o, out)
        /\ row.status = f.row.status /\ row.deducted = f.row.deducted
    BY <1>2 DEF UpdateStatusCommit
  <2>4. /\ f.next \in Transitions[row.status] /\ f.row \in Row
        /\ RowSafe(f.row) /\ row.status \in Status
        /\ row.status = "PENDING" /\ f.next # "CANCELLED"
             => f.row.quotation = "PAYMENT_VERIFIED"
    BY <2>1, <2>3, FlightParts DEF Validated, Row
  <2>5. /\ f.next = "CANCELLED"
           \/ /\ f.next \in Fulfilling
              /\ f.row.quotation = "PAYMENT_VERIFIED" /\ f.row.deducted
        /\ row.status # "CANCELLED"
    BY <2>3, <2>4 DEF Transitions, Fulfilling, RowSafe, Status
  <2>6. /\ new.status = f.next /\ new.quotation = row.quotation
        /\ new.items = row.items
        /\ new.deducted = ((row.deducted \/ Deducts(f)) /\ ~Returns(f))
        /\ f.next = "CANCELLED" \/ new.hold = row.hold \/ Releases(f)
    BY <2>1 DEF Row
  <2>7. ~Deducts(f) /\ (Returns(f) <=> f.next = "CANCELLED" /\ row.deducted)
    BY <2>3, <2>5 DEF Deducts, Returns, Fulfilling
  <2>8. row.deducted => row.items = f.row.items
    BY <2>1, <2>3, <2>4 DEF UpToDate, RowSafe
  <2> HIDE DEF new
  <2>9. RowSafe(new) /\ new.status # "NONE"
    <3>1. CASE f.next = "CANCELLED"
      BY <2>6, <2>7, <3>1 DEF RowSafe, Fulfilling
    <3>2. CASE f.next # "CANCELLED"
      <4>1. row.quotation = "PAYMENT_VERIFIED" /\ row.deducted
        BY <2>1, <2>3, <2>5, <3>2 DEF UpToDate
      <4> QED BY <2>5, <2>6, <2>7, <3>2, <4>1 DEF RowSafe, Fulfilling
    <3> QED BY <3>1, <3>2
  <2>10. taken' = [taken EXCEPT ![o] = IF new.deducted THEN new.items ELSE NoItems]
    <3>1. taken[o] = (IF row.deducted THEN row.items ELSE NoItems)
      BY <2>1 DEF StockInv, StockLeavesOnce
    <3>2. taken' = [taken EXCEPT ![o] = Plus(taken[o], out)]
      BY <2>3 DEF AdjustTaken
    <3>3. f.row.items \in [Products -> Int] /\ row.items \in [Products -> Int]
          /\ NoItems \in [Products -> Int]
      BY <2>1, <2>4, AreaType DEF Row
    <3>4. CASE Returns(f)
      BY <2>6, <2>7, <2>8, <3>1, <3>2, <3>3, <3>4, AddNothing
    <3>5. CASE ~Returns(f)
      BY <2>6, <2>7, <3>1, <3>2, <3>3, <3>5, AddNothing
    <3> QED BY <3>4, <3>5
  <2> HIDE DEF stamps
  <2> QED BY <1>0, <2>1, <2>2, <2>3, <2>6, <2>9, <2>10, WriteSafe
<1>3. CASE UpdateItemsCommit(w)
  <2>1. /\ f # Idle /\ f \in Flight /\ o \in Orders /\ row \in Row
        /\ RowSafe(row) /\ Validated(f) /\ f.kind = "updateItems"
    BY <1>3, ClaimState DEF UpdateItemsCommit
  <2> DEFINE new == [row EXCEPT !.status = f.next, !.items = f.cart,
                       !.priced = f.cart,
                       !.hold = IF f.next = "PENDING" THEN "open" ELSE "none",
                       !.quotation = "AWAITING_REVIEW",
                       !.fee = NoFee, !.seen = Unseen]
  <2>2. new \in Row
    BY <2>1, FlightParts, BlankType DEF Row, Blank, QuotationStatus
  <2>3. /\ Write(w, o, new, {"reservationExpiresAt", "quotationSentAt"})
        /\ taken' = taken /\ row.quotation = f.row.quotation
    BY <1>3 DEF UpdateItemsCommit
  <2>4. /\ new.status = f.next /\ new.quotation = "AWAITING_REVIEW"
        /\ new.deducted = row.deducted
    BY <2>1 DEF Row
  <2>5. /\ row.quotation # "PAYMENT_VERIFIED" /\ ~row.deducted
        /\ f.next \in {"WAITLISTED", "PENDING"}
    BY <2>1, <2>3 DEF Validated, RowSafe
  <2> HIDE DEF new
  <2>6. RowSafe(new) /\ new.status # "NONE"
    BY <2>4, <2>5 DEF RowSafe, Fulfilling
  <2>7. taken' = [taken EXCEPT ![o] = IF new.deducted THEN new.items ELSE NoItems]
    BY <2>1, <2>3, <2>4, <2>5, TakenUnchanged
  <2> QED BY <1>0, <2>1, <2>2, <2>3, <2>5, <2>6, <2>7, WriteSafe
<1>4. CASE SaveDeliveryCommit(w)
  <2>1. /\ f # Idle /\ f \in Flight /\ o \in Orders /\ row \in Row
        /\ RowSafe(row) /\ row.status # "NONE"
    BY <1>4, ClaimState DEF SaveDeliveryCommit
  <2> DEFINE new == [row EXCEPT !.delivery = f.delivery]
  <2>2. /\ new \in Row /\ new.items = row.items /\ new.quotation = row.quotation
        /\ new.status = row.status /\ new.hold = row.hold
        /\ new.deducted = row.deducted
    BY <2>1, FlightParts DEF Row
  <2>3. Write(w, o, new, {}) /\ taken' = taken
    BY <1>4 DEF SaveDeliveryCommit, stock
  <2> HIDE DEF new
  <2>4. RowSafe(new)
    BY <2>1, <2>2 DEF RowSafe
  <2>5. taken' = [taken EXCEPT ![o] = IF new.deducted THEN new.items ELSE NoItems]
    BY <2>1, <2>2, <2>3, TakenUnchanged
  <2> QED BY <1>0, <2>1, <2>2, <2>3, <2>4, <2>5, WriteSafe
<1>5. CASE SendQuotationCommit(w)
  <2>1. /\ f # Idle /\ f \in Flight /\ o \in Orders /\ row \in Row
        /\ RowSafe(row) /\ row.status # "NONE"
    BY <1>5, ClaimState DEF SendQuotationCommit
  <2> DEFINE new == [row EXCEPT !.quotation = "QUOTATION_SENT", !.fee = f.fee,
                                !.priced = f.row.items, !.seen = Unseen,
                                !.hold = "open"]
             stamps == {"reservationExpiresAt", "quotationSentAt"}
  <2>2. /\ new \in Row /\ new.items = row.items
        /\ new.quotation = "QUOTATION_SENT"
        /\ new.status = row.status /\ new.hold = "open"
        /\ new.deducted = row.deducted
    BY <2>1, FlightParts, BlankType DEF Row, Blank, QuotationStatus
  <2>3. /\ Write(w, o, new, stamps) /\ taken' = taken
        /\ row.quotation \in {"AWAITING_REVIEW", "QUOTATION_SENT"}
    BY <1>5 DEF SendQuotationCommit, stock
  <2> HIDE DEF new, stamps
  <2>4. RowSafe(new)
    BY <2>1, <2>2, <2>3 DEF RowSafe, Fulfilling
  <2>5. taken' = [taken EXCEPT ![o] = IF new.deducted THEN new.items ELSE NoItems]
    BY <2>1, <2>2, <2>3, TakenUnchanged
  <2> QED BY <1>0, <2>1, <2>2, <2>3, <2>4, <2>5, WriteSafe
<1>6. CASE ViewQuotationRender(w)
  <2> DEFINE g == Read("renderQuotation", o, {"quotationSentAt"})
  <2>1. /\ f # Idle /\ f \in Flight /\ o \in Orders /\ row \in Row
        /\ RowSafe(row) /\ row.status # "NONE"
    BY <1>6, ClaimState DEF ViewQuotationRender
  <2>2. /\ g.kind = "renderQuotation" /\ g.order = o /\ g.row = row
        /\ g.fresh = {"quotationSentAt"} /\ g # Idle
    BY DEF Read, Idle
  <2> HIDE DEF g
  <2>3. /\ flight' = [flight EXCEPT ![w] = g] /\ order' = order /\ taken' = taken
    BY <1>6 DEF ViewQuotationRender, stock, g
  <2>4. (\A x \in Orders : RowSafe(order[x]))' /\ StockLeavesOnce'
    BY <2>3 DEF StockInv, StockLeavesOnce, RowSafe
  <2>5. ASSUME NEW v \in Workers
        PROVE  FlightSafe(v)'
    <3>1. CASE v = w
      <4>1. flight'[v] = g
        BY <1>0, <2>3, <3>1 DEF TypeOK
      <4>2. Validated(g) /\ UpToDate(flight[v])'
        BY <2>1, <2>2, <2>3, <4>1 DEF Validated, UpToDate
      <4> QED BY <2>2, <4>1, <4>2 DEF FlightSafe
    <3>2. CASE v # w
      <4>1. flight'[v] = flight[v]
        BY <1>0, <2>3, <3>2 DEF TypeOK
      <4>2. flight[v] # Idle => Validated(flight'[v]) /\ UpToDate(flight[v])'
        BY <2>3, <4>1 DEF StockInv, FlightSafe, UpToDate
      <4>3. \A u \in Workers : flight'[u] # Idle =>
                flight[u] # Idle /\ flight'[u].order = flight[u].order
        BY <1>0, <2>1, <2>2, <2>3 DEF TypeOK
      <4>4. flight[v] # Idle /\ flight[v].kind = "checkout" => Alone(v)'
        BY <4>1, <4>3 DEF StockInv, FlightSafe, Alone
      <4> QED BY <4>1, <4>2, <4>4 DEF FlightSafe
    <3> QED BY <3>1, <3>2
  <2> QED BY <1>0, <2>4, <2>5 DEF StockInv
<1>7. CASE ViewQuotationStamp(w)
  <2>1. /\ f # Idle /\ f \in Flight /\ o \in Orders /\ row \in Row
        /\ RowSafe(row) /\ row.status # "NONE"
    BY <1>7, ClaimState DEF ViewQuotationStamp
  <2> DEFINE new == [row EXCEPT !.seen = [fee |-> f.row.fee, priced |-> f.row.priced]]
  <2>2. /\ new \in Row /\ new.items = row.items /\ new.quotation = row.quotation
        /\ new.status = row.status /\ new.hold = row.hold
        /\ new.deducted = row.deducted
    BY <2>1, FlightParts DEF Row, Quote
  <2>3. Write(w, o, new, {}) /\ taken' = taken
    BY <1>7 DEF ViewQuotationStamp, stock
  <2> HIDE DEF new
  <2>4. RowSafe(new)
    BY <2>1, <2>2 DEF RowSafe
  <2>5. taken' = [taken EXCEPT ![o] = IF new.deducted THEN new.items ELSE NoItems]
    BY <2>1, <2>2, <2>3, TakenUnchanged
  <2> QED BY <1>0, <2>1, <2>2, <2>3, <2>4, <2>5, WriteSafe
<1>8. CASE MarkPaymentSubmittedCommit(w)
  <2>1. /\ f # Idle /\ f \in Flight /\ o \in Orders /\ row \in Row
        /\ RowSafe(row) /\ row.status # "NONE"
    BY <1>8, ClaimState DEF MarkPaymentSubmittedCommit
  <2> DEFINE new == [row EXCEPT !.quotation = "PAYMENT_SUBMITTED"]
  <2>2. /\ new \in Row /\ new.items = row.items
        /\ new.quotation = "PAYMENT_SUBMITTED"
        /\ new.status = row.status /\ new.hold = row.hold
        /\ new.deducted = row.deducted
    BY <2>1 DEF Row, QuotationStatus
  <2>3. /\ Write(w, o, new, {}) /\ taken' = taken
        /\ row.quotation = "QUOTATION_SENT"
    BY <1>8 DEF MarkPaymentSubmittedCommit, stock
  <2> HIDE DEF new
  <2>4. RowSafe(new)
    BY <2>1, <2>2, <2>3 DEF RowSafe, Fulfilling
  <2>5. taken' = [taken EXCEPT ![o] = IF new.deducted THEN new.items ELSE NoItems]
    BY <2>1, <2>2, <2>3, TakenUnchanged
  <2> QED BY <1>0, <2>1, <2>2, <2>3, <2>4, <2>5, WriteSafe
<1>9. CASE RejectPaymentCommit(w)
  <2>1. /\ f # Idle /\ f \in Flight /\ o \in Orders /\ row \in Row
        /\ RowSafe(row) /\ row.status # "NONE"
    BY <1>9, ClaimState DEF RejectPaymentCommit
  <2> DEFINE restarts == f.row.status = "PENDING" /\ f.row.hold # "none"
             new == [row EXCEPT !.quotation = "QUOTATION_SENT",
                                !.hold = IF restarts THEN "open" ELSE @]
  <2>2. /\ new \in Row /\ new.items = row.items
        /\ new.quotation = "QUOTATION_SENT"
        /\ new.status = row.status /\ new.hold \in {"open", row.hold}
        /\ new.deducted = row.deducted
    BY <2>1 DEF Row, QuotationStatus
  <2>3. PICK stamps : Write(w, o, new, stamps)
    BY <1>9 DEF RejectPaymentCommit
  <2>4. /\ taken' = taken /\ row.quotation = "PAYMENT_SUBMITTED"
    BY <1>9 DEF RejectPaymentCommit, stock
  <2> HIDE DEF new
  <2>5. RowSafe(new)
    BY <2>1, <2>2, <2>4 DEF RowSafe, Fulfilling
  <2>6. taken' = [taken EXCEPT ![o] = IF new.deducted THEN new.items ELSE NoItems]
    BY <2>1, <2>2, <2>4, TakenUnchanged
  <2> QED BY <1>0, <2>1, <2>2, <2>3, <2>4, <2>5, <2>6, WriteSafe
<1>10. CASE VerifyPaymentCommit(w)
  <2>1. /\ f # Idle /\ f \in Flight /\ o \in Orders /\ row \in Row
        /\ RowSafe(row) /\ Validated(f) /\ UpToDate(f)
        /\ f.kind = "verifyPayment" /\ row.status # "NONE"
    BY <1>10, ClaimState DEF VerifyPaymentCommit
  <2> DEFINE new == [row EXCEPT !.quotation = "PAYMENT_VERIFIED",
                                !.hold = "none", !.deducted = TRUE]
             moved == IF f.row.deducted THEN NoItems ELSE f.row.items
  <2>2. /\ new \in Row /\ new.items = row.items /\ new.deducted = TRUE
        /\ new.quotation = "PAYMENT_VERIFIED" /\ new.status = row.status
    BY <2>1 DEF Row, QuotationStatus
  <2>3. PICK stamps : Write(w, o, new, stamps)
    BY <1>10 DEF VerifyPaymentCommit
  <2>4. /\ AdjustTaken(o, moved) /\ SameExpiry(f)
        /\ row.status # "CANCELLED" /\ row.deducted = f.row.deducted
        /\ row.quotation = "PAYMENT_SUBMITTED"
    BY <1>10 DEF VerifyPaymentCommit
  <2>5. f.row.hold # "none" /\ ~row.deducted
    BY <2>1, <2>4 DEF Validated, RowSafe
  <2>6. moved = row.items
    BY <2>1, <2>4, <2>5 DEF SameExpiry, UpToDate
  <2> HIDE DEF new, moved
  <2>7. RowSafe(new)
    BY <2>1, <2>2, <2>4 DEF RowSafe
  <2>8. taken' = [taken EXCEPT ![o] = IF new.deducted THEN new.items ELSE NoItems]
    <3>1. taken' = [taken EXCEPT ![o] = Plus(NoItems, row.items)]
      BY <2>1, <2>4, <2>5, <2>6 DEF AdjustTaken, StockInv, StockLeavesOnce
    <3>2. row.items \in [Products -> Int]
      BY <2>1, AreaType DEF Row
    <3> QED BY <2>2, <3>1, <3>2, AddNothing
  <2> QED BY <1>0, <2>1, <2>2, <2>3, <2>7, <2>8, WriteSafe
<1>11. CASE ExpireCommit(w)
  <2>1. /\ f # Idle /\ f \in Flight /\ o \in Orders /\ row \in Row
        /\ RowSafe(row) /\ row.status # "NONE"
    BY <1>11, ClaimState DEF ExpireCommit
  <2> DEFINE new == [row EXCEPT !.status = "CANCELLED", !.hold = "none"]
  <2>2. /\ new \in Row /\ new.items = row.items /\ new.quotation = row.quotation
        /\ new.status = "CANCELLED" /\ new.deducted = row.deducted
    BY <2>1 DEF Row, Status
  <2>3. /\ Write(w, o, new, {"reservationExpiresAt"}) /\ taken' = taken
        /\ row.quotation = "QUOTATION_SENT"
    BY <1>11 DEF ExpireCommit
  <2> HIDE DEF new
  <2>4. RowSafe(new)
    BY <2>1, <2>2, <2>3 DEF RowSafe, Fulfilling
  <2>5. taken' = [taken EXCEPT ![o] = IF new.deducted THEN new.items ELSE NoItems]
    BY <2>1, <2>2, <2>3, TakenUnchanged
  <2> QED BY <1>0, <2>1, <2>2, <2>3, <2>4, <2>5, WriteSafe
<1>12. CASE PromoteCommit(w)
  <2>1. /\ f # Idle /\ f \in Flight /\ o \in Orders /\ row \in Row
        /\ RowSafe(row) /\ row.status # "NONE"
    BY <1>12, ClaimState DEF PromoteCommit
  <2> DEFINE new == [row EXCEPT !.status = "PENDING", !.hold = "open"]
  <2>2. /\ new \in Row /\ new.items = row.items /\ new.quotation = row.quotation
        /\ new.status = "PENDING" /\ new.hold = "open"
        /\ new.deducted = row.deducted
    BY <2>1 DEF Row, Status
  <2>3. /\ Write(w, o, new, {"reservationExpiresAt"}) /\ taken' = taken
        /\ row.status = "WAITLISTED"
    BY <1>12 DEF PromoteCommit
  <2> HIDE DEF new
  <2>4. RowSafe(new)
    BY <2>1, <2>2, <2>3 DEF RowSafe, Fulfilling
  <2>5. taken' = [taken EXCEPT ![o] = IF new.deducted THEN new.items ELSE NoItems]
    BY <2>1, <2>2, <2>3, TakenUnchanged
  <2> QED BY <1>0, <2>1, <2>2, <2>3, <2>4, <2>5, WriteSafe
<1>13. CASE Drop(w)
  <2>1. /\ flight' = [flight EXCEPT ![w] = Idle] /\ order' = order
        /\ taken' = taken
    BY <1>13 DEF Drop, stock
  <2>2. (\A x \in Orders : RowSafe(order[x]))' /\ StockLeavesOnce'
    BY <2>1 DEF StockInv, StockLeavesOnce, RowSafe
  <2>3. \A v \in Workers : flight'[v] # Idle => v # w /\ flight'[v] = flight[v]
    BY <1>0, <2>1 DEF TypeOK
  <2>4. \A v \in Workers : FlightSafe(v)'
    BY <2>1, <2>3 DEF StockInv, FlightSafe, UpToDate, Alone
  <2> QED BY <1>0, <2>2, <2>4 DEF StockInv
<1> QED BY <1>1, <1>2, <1>3, <1>4, <1>5, <1>6, <1>7, <1>8, <1>9, <1>10, <1>11,
           <1>12, <1>13 DEF CommitStep

\* The clock and stock corrections leave what requests remember alone.
LEMMA OtherStepSafe ==
  ASSUME StockInv,
         \/ \E o \in Orders : Lapse(o)
         \/ \E p \in Products, change \in Corrections : AdjustStock(p, change)
  PROVE  StockInv'
<1>0. TypeOK /\ TypeOK'
  BY OtherStepType DEF StockInv
<1>1. ASSUME NEW o \in Orders, Lapse(o)
      PROVE  StockInv'
  <2>1. /\ order' = [order EXCEPT ![o].hold = "lapsed"]
        /\ taken' = taken /\ flight' = flight
    BY <1>1 DEF Lapse, stock
  <2>2. \A x \in Orders :
          /\ order'[x].status = order[x].status
          /\ order'[x].quotation = order[x].quotation
          /\ order'[x].items = order[x].items
          /\ order'[x].deducted = order[x].deducted
          /\ order[x].hold # "none" => order'[x].hold # "none"
    BY <1>0, <2>1 DEF TypeOK, Row
  <2>3. (\A x \in Orders : RowSafe(order[x]))'
    BY <2>2 DEF StockInv, RowSafe
  <2>4. StockLeavesOnce'
    BY <2>1, <2>2 DEF StockInv, StockLeavesOnce
  <2>5. \A v \in Workers : flight[v] # Idle => flight[v].order \in Orders
    BY <1>0, BusyType
  <2>6. \A v \in Workers : FlightSafe(v)'
    BY <2>1, <2>2, <2>5 DEF StockInv, FlightSafe, UpToDate, Alone
  <2> QED BY <1>0, <2>3, <2>4, <2>6 DEF StockInv
<1>2. ASSUME NEW p \in Products, NEW change \in Corrections, AdjustStock(p, change)
      PROVE  StockInv'
  BY <1>0, <1>2 DEF StockInv, AdjustStock, StockLeavesOnce, FlightSafe, UpToDate,
                    Alone
<1> QED BY <1>1, <1>2

LEMMA StockStarts == Init => StockInv
<1> SUFFICES ASSUME Init PROVE StockInv
  OBVIOUS
<1>1. RowSafe(Blank)
  BY DEF RowSafe, Blank, Fulfilling
<1>2. StockLeavesOnce
  BY DEF Init, StockLeavesOnce, Blank
<1> QED BY <1>1, <1>2, InitType DEF Init, StockInv, FlightSafe

LEMMA StockInvariant == Spec => []StockInv
<1>1. Init => StockInv
  BY StockStarts
<1>2. StockInv /\ [Next]_vars => StockInv'
  <2> SUFFICES ASSUME StockInv, [Next]_vars PROVE StockInv'
    OBVIOUS
  <2>1. CASE Next
    BY <2>1, ReadStepSafe, CommitStepSafe, OtherStepSafe DEF Next
  <2>2. CASE UNCHANGED vars
    BY <2>2 DEF StockInv, TypeOK, StockLeavesOnce, FlightSafe, UpToDate, Alone, vars
  <2> QED BY <2>1, <2>2
<1> QED BY <1>1, <1>2, PTL DEF Spec

\* An order's tiles leave the shelf once and come back once: the OUTBOUND and
\* INBOUND rows of an order always sum to its items or to nothing, as
\* stockDeductedAt says (deductOrderStock, returnOrderStock), however many
\* verifications, cancellations, revisions and sweeps overlap.
THEOREM StockLeavesOnceHolds == Spec => []StockLeavesOnce
<1>1. StockInv => StockLeavesOnce
  BY DEF StockInv
<1> QED BY <1>1, StockInvariant, PTL

\* No order is processed, shipped or delivered unless its payment was verified
\* and its tiles taken off the shelf (updateStatus, verifyPayment).
THEOREM FulfilmentIsPaidHolds == Spec => []FulfilmentIsPaid
<1>1. StockInv => FulfilmentIsPaid
  BY DEF StockInv, FulfilmentIsPaid, RowSafe
<1> QED BY <1>1, StockInvariant, PTL
-----------------------------------------------------------------------------
(* A cancelled order is over.                                              *)

\* What CancelledIsOver says of a step for order o.
Over(o) ==
  order[o].status = "CANCELLED"
    => /\ order'[o] = [order[o] EXCEPT !.seen = order'[o].seen,
                                       !.hold = order'[o].hold]
       /\ order'[o].hold = "none" <=> order[o].hold = "none"
       /\ held'[o] = held[o] /\ taken'[o] = taken[o]

LEMMA UntouchedIsOver ==
  ASSUME TypeOK, NEW o \in Orders,
         order'[o] = order[o], held'[o] = held[o], taken'[o] = taken[o]
  PROVE  Over(o)
<1>1. order[o] \in Row
  BY DEF TypeOK
<1>2. order[o] = [order[o] EXCEPT !.seen = order[o].seen, !.hold = order[o].hold]
  BY <1>1 DEF Row
<1> QED BY <1>2 DEF Over

\* A commit to an order that was not cancelled leaves every cancelled one be.
LEMMA OtherOrdersAreOver ==
  ASSUME TypeOK, NEW w, NEW o \in Orders, NEW row, NEW stamps,
         Write(w, o, row, stamps), order[o].status # "CANCELLED",
         \A x \in Orders \ {o} : held'[x] = held[x] /\ taken'[x] = taken[x]
  PROVE  \A x \in Orders : Over(x)
<1> SUFFICES ASSUME NEW x \in Orders, order[x].status = "CANCELLED"
             PROVE  Over(x)
  BY DEF Over
<1>1. x # o
  OBVIOUS
<1>2. order'[x] = order[x]
  BY <1>1 DEF Write, TypeOK
<1> QED BY <1>1, <1>2, UntouchedIsOver

\* What the stock helpers leave alone.
LEMMA AdjustsOneOrder ==
  ASSUME TypeOK, NEW o \in Orders
  PROVE  /\ \A d : AdjustReserved(o, d) => \A x \in Orders \ {o} : held'[x] = held[x]
         /\ \A d : AdjustTaken(o, d) => \A x \in Orders \ {o} : taken'[x] = taken[x]
BY DEF AdjustReserved, AdjustTaken, TypeOK

LEMMA CommitsAreOver ==
  ASSUME StockInv, NEW w \in Workers, CommitStep(w)
  PROVE  \A x \in Orders : Over(x)
<1> DEFINE f == flight[w]
           o == f.order
           row == order[o]
<1> USE DEF Kinds
<1>0. TypeOK
  BY DEF StockInv
<1>1. CASE CheckoutCommit(w)
  <2>1. o \in Orders /\ UpToDate(f) /\ f.kind = "checkout"
    BY <1>1, ClaimState DEF CheckoutCommit
  <2>2. row.status # "CANCELLED"
    BY <2>1 DEF UpToDate
  <2>3. \A x \in Orders \ {o} : held'[x] = held[x] /\ taken'[x] = taken[x]
    BY <1>0, <1>1, <2>1, AdjustsOneOrder DEF CheckoutCommit
  <2>4. \E new : Write(w, o, new, Stamps)
    BY <1>1 DEF CheckoutCommit
  <2> QED BY <1>0, <2>1, <2>2, <2>3, <2>4, OtherOrdersAreOver
<1>2. CASE UpdateStatusCommit(w)
  <2>1. o \in Orders /\ f \in Flight /\ Validated(f) /\ f.kind = "updateStatus"
    BY <1>2, ClaimState DEF UpdateStatusCommit
  <2>2. row.status \in Status /\ f.next \in Transitions[row.status]
    BY <1>2, <2>1, FlightParts DEF UpdateStatusCommit, Validated, Row
  <2>3. row.status # "CANCELLED"
    BY <2>2 DEF Transitions, Status
  <2>4. \A x \in Orders \ {o} : held'[x] = held[x] /\ taken'[x] = taken[x]
    BY <1>0, <1>2, <2>1, AdjustsOneOrder DEF UpdateStatusCommit
  <2>5. \E new, stamps : Write(w, o, new, stamps)
    BY <1>2 DEF UpdateStatusCommit
  <2> QED BY <1>0, <2>1, <2>3, <2>4, <2>5, OtherOrdersAreOver
<1>3. CASE UpdateItemsCommit(w)
  <2>1. o \in Orders /\ Validated(f) /\ f.kind = "updateItems"
    BY <1>3, ClaimState DEF UpdateItemsCommit
  <2>2. row.status # "CANCELLED"
    BY <1>3, <2>1 DEF UpdateItemsCommit, Validated
  <2>3. \A x \in Orders \ {o} : held'[x] = held[x] /\ taken'[x] = taken[x]
    BY <1>0, <1>3, <2>1, AdjustsOneOrder DEF UpdateItemsCommit
  <2>4. \E new, stamps : Write(w, o, new, stamps)
    BY <1>3 DEF UpdateItemsCommit
  <2> QED BY <1>0, <2>1, <2>2, <2>3, <2>4, OtherOrdersAreOver
<1>4. CASE SaveDeliveryCommit(w)
  <2>1. o \in Orders /\ row.status # "CANCELLED"
    BY <1>4, ClaimState DEF SaveDeliveryCommit
  <2>2. \A x \in Orders \ {o} : held'[x] = held[x] /\ taken'[x] = taken[x]
    BY <1>0, <1>4, <2>1 DEF SaveDeliveryCommit, stock
  <2>3. \E new, stamps : Write(w, o, new, stamps)
    BY <1>4 DEF SaveDeliveryCommit
  <2> QED BY <1>0, <2>1, <2>2, <2>3, OtherOrdersAreOver
<1>5. CASE SendQuotationCommit(w)
  <2>1. o \in Orders /\ row.status # "CANCELLED"
    BY <1>5, ClaimState DEF SendQuotationCommit
  <2>2. \A x \in Orders \ {o} : held'[x] = held[x] /\ taken'[x] = taken[x]
    BY <1>0, <1>5, <2>1 DEF SendQuotationCommit, stock
  <2>3. \E new, stamps : Write(w, o, new, stamps)
    BY <1>5 DEF SendQuotationCommit
  <2> QED BY <1>0, <2>1, <2>2, <2>3, OtherOrdersAreOver
<1>6. CASE MarkPaymentSubmittedCommit(w)
  <2>1. o \in Orders /\ row.status # "CANCELLED"
    BY <1>6, ClaimState DEF MarkPaymentSubmittedCommit
  <2>2. \A x \in Orders \ {o} : held'[x] = held[x] /\ taken'[x] = taken[x]
    BY <1>0, <1>6, <2>1 DEF MarkPaymentSubmittedCommit, stock
  <2>3. \E new, stamps : Write(w, o, new, stamps)
    BY <1>6 DEF MarkPaymentSubmittedCommit
  <2> QED BY <1>0, <2>1, <2>2, <2>3, OtherOrdersAreOver
<1>7. CASE RejectPaymentCommit(w)
  <2>1. o \in Orders /\ row.status # "CANCELLED"
    BY <1>7, ClaimState DEF RejectPaymentCommit
  <2>2. \A x \in Orders \ {o} : held'[x] = held[x] /\ taken'[x] = taken[x]
    BY <1>0, <1>7, <2>1 DEF RejectPaymentCommit, stock
  <2>3. \E new, stamps : Write(w, o, new, stamps)
    BY <1>7 DEF RejectPaymentCommit
  <2> QED BY <1>0, <2>1, <2>2, <2>3, OtherOrdersAreOver
<1>8. CASE VerifyPaymentCommit(w)
  <2>1. o \in Orders /\ row.status # "CANCELLED"
    BY <1>8, ClaimState DEF VerifyPaymentCommit
  <2>2. \A x \in Orders \ {o} : held'[x] = held[x] /\ taken'[x] = taken[x]
    BY <1>0, <1>8, <2>1, AdjustsOneOrder DEF VerifyPaymentCommit
  <2>3. \E new, stamps : Write(w, o, new, stamps)
    BY <1>8 DEF VerifyPaymentCommit
  <2> QED BY <1>0, <2>1, <2>2, <2>3, OtherOrdersAreOver
<1>9. CASE ExpireCommit(w)
  <2>1. o \in Orders /\ row.status # "CANCELLED"
    BY <1>9, ClaimState DEF ExpireCommit
  <2>2. \A x \in Orders \ {o} : held'[x] = held[x] /\ taken'[x] = taken[x]
    BY <1>0, <1>9, <2>1, AdjustsOneOrder DEF ExpireCommit
  <2>3. \E new, stamps : Write(w, o, new, stamps)
    BY <1>9 DEF ExpireCommit
  <2> QED BY <1>0, <2>1, <2>2, <2>3, OtherOrdersAreOver
<1>10. CASE PromoteCommit(w)
  <2>1. o \in Orders /\ row.status # "CANCELLED"
    BY <1>10, ClaimState DEF PromoteCommit
  <2>2. \A x \in Orders \ {o} : held'[x] = held[x] /\ taken'[x] = taken[x]
    BY <1>0, <1>10, <2>1, AdjustsOneOrder DEF PromoteCommit
  <2>3. \E new, stamps : Write(w, o, new, stamps)
    BY <1>10 DEF PromoteCommit
  <2> QED BY <1>0, <2>1, <2>2, <2>3, OtherOrdersAreOver
<1>11. CASE ViewQuotationStamp(w)
  <2>1. o \in Orders /\ row \in Row
    BY <1>11, ClaimState DEF ViewQuotationStamp
  <2>2. PICK seen : order' = [order EXCEPT ![o] = [row EXCEPT !.seen = seen]]
    BY <1>11 DEF ViewQuotationStamp, Write
  <2>3. held' = held /\ taken' = taken
    BY <1>11 DEF ViewQuotationStamp, stock
  <2>4. order'[o] = [row EXCEPT !.seen = seen]
    BY <1>0, <2>1, <2>2 DEF TypeOK
  <2>5. Over(o)
    BY <2>1, <2>3, <2>4 DEF Over, Row
  <2>6. ASSUME NEW x \in Orders, x # o PROVE Over(x)
    BY <1>0, <2>2, <2>3, <2>6, UntouchedIsOver DEF TypeOK
  <2> QED BY <2>5, <2>6
<1>12. CASE ViewQuotationRender(w) \/ Drop(w)
  BY <1>0, <1>12, UntouchedIsOver DEF ViewQuotationRender, Drop, stock
<1> QED BY <1>1, <1>2, <1>3, <1>4, <1>5, <1>6, <1>7, <1>8, <1>9, <1>10, <1>11,
           <1>12 DEF CommitStep

\* Reads change no row; neither do corrections of the stock.
LEMMA ReadsAreOver ==
  ASSUME TypeOK,
         \/ \E w \in Workers, o \in Orders : ReadStep(w, o)
         \/ \E p \in Products, change \in Corrections : AdjustStock(p, change)
         \/ UNCHANGED vars
  PROVE  \A x \in Orders : Over(x)
<1>1. order' = order /\ held' = held /\ taken' = taken
  <2>1. ASSUME NEW w \in Workers, NEW o \in Orders, ReadStep(w, o)
        PROVE  UNCHANGED <<order, stock>>
    BY <2>1 DEF ReadStep, Start, CheckoutRead, UpdateStatusRead, UpdateItemsRead,
                SaveDeliveryRead, SendQuotationRead, ViewQuotationOpen,
                MarkPaymentSubmittedRead, RejectPaymentRead, VerifyPaymentRead,
                ExpireRead, PromoteRead
  <2> QED BY <2>1 DEF AdjustStock, vars, stock
<1> QED BY <1>1, UntouchedIsOver

\* The end of a payment window only turns an open hold into a lapsed one.
LEMMA LapseIsOver ==
  ASSUME TypeOK, NEW o \in Orders, Lapse(o)
  PROVE  \A x \in Orders : Over(x)
<1>1. order[o] \in Row
  BY DEF TypeOK
<1>2. order' = [order EXCEPT ![o].hold = "lapsed"] /\ held' = held /\ taken' = taken
  BY DEF Lapse, stock
<1>3. order'[o] = [order[o] EXCEPT !.hold = "lapsed"] /\ order[o].hold = "open"
  BY <1>2 DEF Lapse, TypeOK
<1> DEFINE r == order[o]
           s == [r EXCEPT !.hold = "lapsed"]
<1>4. /\ s.seen = r.seen /\ s.hold = "lapsed"
      /\ s = [r EXCEPT !.seen = r.seen, !.hold = "lapsed"]
  BY <1>1 DEF Row
<1>5. order'[o] = s /\ r.hold = "open"
  BY <1>3
<1>6. Over(o)
  <2> HIDE DEF s
  <2>1. order'[o] = [r EXCEPT !.seen = order'[o].seen, !.hold = order'[o].hold]
    BY <1>4, <1>5
  <2>2. order'[o].hold = "lapsed"
    BY <1>4, <1>5
  <2> QED BY <1>2, <1>5, <2>1, <2>2 DEF Over
<1>7. ASSUME NEW x \in Orders, x # o PROVE Over(x)
  BY <1>2, <1>7, UntouchedIsOver DEF TypeOK
<1> QED BY <1>6, <1>7

\* A cancelled order is over: whichever handlers and sweeps read it before it
\* was cancelled, none of them changes its status, payment, items, delivery,
\* price or stock any more (the claims of orders.service.ts).
THEOREM CancelledStaysOver == Spec => CancelledIsOver
<1>1. StockInv /\ [Next]_vars =>
        \A o \in Orders :
          order[o].status = "CANCELLED"
            => /\ order'[o] = [order[o] EXCEPT !.seen = order'[o].seen,
                                               !.hold = order'[o].hold]
               /\ order'[o].hold = "none" <=> order[o].hold = "none"
               /\ held'[o] = held[o] /\ taken'[o] = taken[o]
  <2> SUFFICES ASSUME StockInv, [Next]_vars PROVE \A o \in Orders : Over(o)
    BY DEF Over
  <2>0. TypeOK
    BY DEF StockInv
  <2> QED BY <2>0, CommitsAreOver, ReadsAreOver, LapseIsOver DEF Next
<1> QED BY <1>1, StockInvariant, PTL DEF Spec, CancelledIsOver
-----------------------------------------------------------------------------
(* What each claim finds and writes, column by column.                     *)

SamePrice(new, row) ==
  new.fee = row.fee /\ new.priced = row.priced /\ new.seen = row.seen
SameGoods(new, row) ==
  new.items = row.items /\ new.hold = row.hold /\ new.deducted = row.deducted
SamePlace(new, row) ==
  new.delivery = row.delivery /\ new.byStaff = row.byStaff

LEMMA CheckoutWrites ==
  ASSUME StockInv, NEW w \in Workers, CheckoutCommit(w)
  PROVE  LET f == flight[w]
             holds == f.next = "PENDING"
         IN  /\ order[f.order].status = "NONE"
             /\ order[f.order].quotation = "AWAITING_REVIEW"
             /\ f.next \in {"WAITLISTED", "PENDING"}
             /\ holds /\ ~f.short => CanReserve(f.cart)
             /\ AdjustReserved(f.order, IF holds THEN f.cart ELSE NoItems)
             /\ onHand' = onHand /\ taken' = taken
             /\ \E new \in Row :
                  /\ Write(w, f.order, new, Stamps)
                  /\ new.status = f.next /\ new.quotation = "AWAITING_REVIEW"
                  /\ new.items = f.cart /\ new.priced = f.cart
                  /\ new.deducted = FALSE
                  /\ new.hold = IF holds THEN "open" ELSE "none"
                  /\ new.seen = Unseen
<1> DEFINE f == flight[w]
           row == order[f.order]
           holds == f.next = "PENDING"
           new == [Blank EXCEPT !.status = f.next, !.items = f.cart,
                       !.priced = f.cart, !.delivery = f.delivery,
                       !.byStaff = f.assisted,
                       !.hold = IF holds THEN "open" ELSE "none"]
<1>1. /\ f \in Flight /\ f.order \in Orders /\ f.kind = "checkout"
      /\ row \in Row /\ RowSafe(row) /\ Validated(f) /\ UpToDate(f)
  BY ClaimState DEF CheckoutCommit, Kinds
<1>2. /\ row.status = "NONE" /\ row.quotation = "AWAITING_REVIEW"
      /\ f.next \in {"WAITLISTED", "PENDING"}
  BY <1>1 DEF UpToDate, Validated, RowSafe
<1>3. new \in Row
  BY <1>1, BlankType, FlightParts DEF Row
<1>4. /\ Write(w, f.order, new, Stamps)
      /\ holds /\ ~f.short => CanReserve(f.cart)
      /\ AdjustReserved(f.order, IF holds THEN f.cart ELSE NoItems)
      /\ onHand' = onHand /\ taken' = taken
  BY DEF CheckoutCommit
<1>5. /\ new.status = f.next /\ new.quotation = "AWAITING_REVIEW"
      /\ new.items = f.cart /\ new.priced = f.cart /\ new.deducted = FALSE
      /\ new.hold = (IF holds THEN "open" ELSE "none")
      /\ new.seen = Unseen
  BY DEF Blank
<1> HIDE DEF new
<1> QED BY <1>2, <1>3, <1>4, <1>5

\* By the time updateStatus delivers, the tiles have left the shelf.
LEMMA UpdateStatusWrites ==
  ASSUME StockInv, NEW w \in Workers, UpdateStatusCommit(w)
  PROVE  LET f == flight[w]
             row == order[f.order]
         IN  /\ row.status = f.row.status /\ row.deducted = f.row.deducted
             /\ f.next \in Transitions[row.status] /\ row.status \in Status
             /\ f.next = "CANCELLED" \/ row.quotation = "PAYMENT_VERIFIED"
             /\ ~Deducts(f)
             /\ AdjustTaken(f.order, IF Returns(f) THEN Minus(NoItems, f.row.items)
                                     ELSE NoItems)
             /\ AdjustReserved(f.order, IF Releases(f) THEN Minus(NoItems, f.row.items)
                                        ELSE NoItems)
             /\ \E new \in Row : \E stamps :
                  /\ Write(w, f.order, new, stamps)
                  /\ new.status = f.next /\ new.quotation = row.quotation
                  /\ new.items = row.items
                  /\ new.hold = IF Releases(f) THEN "none" ELSE row.hold
                  /\ new.deducted = (row.deducted /\ ~Returns(f))
                  /\ SamePrice(new, row) /\ SamePlace(new, row)
<1> DEFINE f == flight[w]
           row == order[f.order]
           new == [row EXCEPT !.status = f.next,
                       !.hold = IF Releases(f) THEN "none" ELSE @,
                       !.deducted = (@ \/ Deducts(f)) /\ ~Returns(f)]
           stamps == IF Releases(f) THEN {"reservationExpiresAt"} ELSE {}
<1>1. /\ f \in Flight /\ f.order \in Orders /\ f.kind = "updateStatus"
      /\ row \in Row /\ RowSafe(row) /\ Validated(f) /\ UpToDate(f)
  BY ClaimState DEF UpdateStatusCommit, Kinds
<1>2. /\ row.status = f.row.status /\ row.deducted = f.row.deducted
      /\ Write(w, f.order, new, stamps)
      /\ AdjustTaken(f.order, IF Deducts(f) THEN f.row.items
                              ELSE IF Returns(f) THEN Minus(NoItems, f.row.items)
                              ELSE NoItems)
      /\ AdjustReserved(f.order, IF Releases(f) THEN Minus(NoItems, f.row.items)
                                 ELSE NoItems)
  BY DEF UpdateStatusCommit
<1>3. f.next \in Transitions[row.status] /\ row.status \in Status /\ RowSafe(f.row)
  BY <1>1, <1>2, FlightParts DEF Validated, Row
<1>4. \/ f.next = "CANCELLED"
      \/ f.row.quotation = "PAYMENT_VERIFIED" /\ f.row.status # "CANCELLED"
  <2>1. \/ f.next = "CANCELLED"
        \/ row.status \in {"PENDING", "PROCESSING", "READY_FOR_DISPATCH", "SHIPPED"}
    BY <1>3 DEF Transitions, Status
  <2> QED BY <1>1, <1>2, <1>3, <2>1 DEF Validated, RowSafe, Fulfilling
<1>5. f.next = "CANCELLED" \/ row.quotation = "PAYMENT_VERIFIED"
  BY <1>1, <1>4 DEF UpToDate
<1>6. ~Deducts(f)
  BY <1>3, <1>4 DEF Deducts, RowSafe
<1>7. new \in Row
  BY <1>1, FlightParts DEF Row
<1>8. /\ new.status = f.next /\ new.quotation = row.quotation
      /\ new.items = row.items
      /\ new.hold = (IF Releases(f) THEN "none" ELSE row.hold)
      /\ new.deducted = ((row.deducted \/ Deducts(f)) /\ ~Returns(f))
      /\ SamePrice(new, row) /\ SamePlace(new, row)
  BY <1>1 DEF Row, SamePrice, SamePlace
<1> HIDE DEF new, stamps
<1> QED BY <1>2, <1>3, <1>5, <1>6, <1>7, <1>8

LEMMA UpdateItemsWrites ==
  ASSUME StockInv, NEW w \in Workers, UpdateItemsCommit(w)
  PROVE  LET f == flight[w]
             row == order[f.order]
             holds == f.next = "PENDING"
             delta == Minus(IF holds THEN f.cart ELSE NoItems, HeldBy(f.row))
         IN  /\ row.status = f.row.status /\ row.status \in {"PENDING", "WAITLISTED"}
             /\ row.quotation \in {"AWAITING_REVIEW", "QUOTATION_SENT"}
             /\ f.next \in {"WAITLISTED", "PENDING"}
             /\ "updatedAt" \in f.fresh
             /\ CanReserve(delta)
             /\ AdjustReserved(f.order, delta)
             /\ onHand' = onHand /\ taken' = taken
             /\ \E new \in Row :
                  /\ Write(w, f.order, new, {"reservationExpiresAt", "quotationSentAt"})
                  /\ new.status = f.next /\ new.quotation = "AWAITING_REVIEW"
                  /\ new.items = f.cart /\ new.priced = f.cart
                  /\ new.deducted = row.deducted
                  /\ new.hold = IF holds THEN "open" ELSE "none"
                  /\ new.seen = Unseen /\ SamePlace(new, row)
<1> DEFINE f == flight[w]
           row == order[f.order]
           holds == f.next = "PENDING"
           delta == Minus(IF holds THEN f.cart ELSE NoItems, HeldBy(f.row))
           new == [row EXCEPT !.status = f.next, !.items = f.cart,
                       !.priced = f.cart,
                       !.hold = IF holds THEN "open" ELSE "none",
                       !.quotation = "AWAITING_REVIEW",
                       !.fee = NoFee, !.seen = Unseen]
<1>1. /\ f \in Flight /\ f.order \in Orders /\ f.kind = "updateItems"
      /\ row \in Row /\ Validated(f)
  BY ClaimState DEF UpdateItemsCommit, Kinds
<1>2. /\ row.status = f.row.status /\ row.quotation = f.row.quotation
      /\ Write(w, f.order, new, {"reservationExpiresAt", "quotationSentAt"})
      /\ "updatedAt" \in f.fresh
      /\ CanReserve(delta)
      /\ AdjustReserved(f.order, delta)
      /\ onHand' = onHand /\ taken' = taken
  BY DEF UpdateItemsCommit
<1>3. /\ row.status \in {"PENDING", "WAITLISTED"}
      /\ row.quotation \in {"AWAITING_REVIEW", "QUOTATION_SENT"}
      /\ f.next \in {"WAITLISTED", "PENDING"}
  BY <1>1, <1>2 DEF Validated
<1>4. new \in Row
  BY <1>1, FlightParts, BlankType DEF Row, Blank, QuotationStatus
<1>5. /\ new.status = f.next /\ new.quotation = "AWAITING_REVIEW"
      /\ new.items = f.cart /\ new.priced = f.cart
      /\ new.deducted = row.deducted
      /\ new.hold = (IF holds THEN "open" ELSE "none")
      /\ new.seen = Unseen /\ SamePlace(new, row)
  BY <1>1 DEF Row, SamePlace
<1> HIDE DEF new, delta
<1> QED BY <1>2, <1>3, <1>4, <1>5 DEF delta

LEMMA SaveDeliveryWrites ==
  ASSUME StockInv, NEW w \in Workers, SaveDeliveryCommit(w)
  PROVE  LET f == flight[w]
             row == order[f.order]
         IN  /\ row.quotation = "AWAITING_REVIEW"
             /\ row.status # "CANCELLED"
             /\ UNCHANGED stock
             /\ \E new \in Row :
                  /\ Write(w, f.order, new, {})
                  /\ new.status = row.status
                  /\ new.quotation = row.quotation
                  /\ new.byStaff = row.byStaff
                  /\ SameGoods(new, row)
                  /\ SamePrice(new, row)
<1> DEFINE f == flight[w]
           row == order[f.order]
           new == [row EXCEPT !.delivery = f.delivery]
<1>1. /\ f \in Flight /\ f.order \in Orders /\ f.kind = "saveDelivery"
      /\ row \in Row /\ RowSafe(row) /\ Validated(f) /\ UpToDate(f)
  BY ClaimState DEF SaveDeliveryCommit, Kinds
<1>2. /\ row.quotation = "AWAITING_REVIEW"
      /\ row.status # "CANCELLED"
      /\ UNCHANGED stock
      /\ Write(w, f.order, new, {})
  BY <1>1 DEF SaveDeliveryCommit
<1>3. new \in Row
  BY <1>1, FlightParts, BlankType DEF Row, Blank, QuotationStatus, Status, Quote
<1>4. /\ new.status = row.status
      /\ new.quotation = row.quotation
      /\ new.byStaff = row.byStaff
      /\ SameGoods(new, row)
      /\ SamePrice(new, row)
  BY <1>1 DEF Row, SamePrice, SameGoods, SamePlace
<1> HIDE DEF new
<1> QED BY <1>2, <1>3, <1>4

LEMMA SendQuotationWrites ==
  ASSUME StockInv, NEW w \in Workers, SendQuotationCommit(w)
  PROVE  LET f == flight[w]
             row == order[f.order]
         IN  /\ row.quotation \in {"AWAITING_REVIEW", "QUOTATION_SENT"}
             /\ row.status # "CANCELLED"
             /\ UNCHANGED stock
             /\ \E new \in Row :
                  /\ Write(w, f.order, new, {"reservationExpiresAt", "quotationSentAt"})
                  /\ new.status = row.status
                  /\ new.quotation = "QUOTATION_SENT"
                  /\ new.items = row.items /\ new.priced = f.row.items
                  /\ new.hold = "open"
                  /\ new.deducted = row.deducted
                  /\ new.seen = Unseen
                  /\ SamePlace(new, row)
<1> DEFINE f == flight[w]
           row == order[f.order]
           new == [row EXCEPT !.quotation = "QUOTATION_SENT", !.fee = f.fee,
                         !.priced = f.row.items, !.seen = Unseen, !.hold = "open"]
<1>1. /\ f \in Flight /\ f.order \in Orders /\ f.kind = "sendQuotation"
      /\ row \in Row /\ RowSafe(row) /\ Validated(f) /\ UpToDate(f)
  BY ClaimState DEF SendQuotationCommit, Kinds
<1>2. /\ row.quotation \in {"AWAITING_REVIEW", "QUOTATION_SENT"}
      /\ row.status # "CANCELLED"
      /\ UNCHANGED stock
      /\ Write(w, f.order, new, {"reservationExpiresAt", "quotationSentAt"})
  BY <1>1 DEF SendQuotationCommit
<1>3. new \in Row
  BY <1>1, FlightParts, BlankType DEF Row, Blank, QuotationStatus, Status, Quote
<1>4. /\ new.status = row.status
      /\ new.quotation = "QUOTATION_SENT"
      /\ new.items = row.items /\ new.priced = f.row.items
      /\ new.hold = "open"
      /\ new.deducted = row.deducted
      /\ new.seen = Unseen
      /\ SamePlace(new, row)
  BY <1>1 DEF Row, SamePrice, SameGoods, SamePlace
<1> HIDE DEF new
<1> QED BY <1>2, <1>3, <1>4

LEMMA StampWrites ==
  ASSUME StockInv, NEW w \in Workers, ViewQuotationStamp(w)
  PROVE  LET f == flight[w]
             row == order[f.order]
         IN  /\ row.seen = Unseen
             /\ IF f.row.quotation = "AWAITING_REVIEW"
                  THEN row.quotation = "AWAITING_REVIEW"
                  ELSE "quotationSentAt" \in f.fresh
             /\ UNCHANGED stock
             /\ \E new \in Row :
                  /\ Write(w, f.order, new, {})
                  /\ new.status = row.status
                  /\ new.quotation = row.quotation
                  /\ new.fee = row.fee
                  /\ new.priced = row.priced
                  /\ new.seen = [fee |-> f.row.fee, priced |-> f.row.priced]
                  /\ SameGoods(new, row)
                  /\ SamePlace(new, row)
<1> DEFINE f == flight[w]
           row == order[f.order]
           new == [row EXCEPT !.seen = [fee |-> f.row.fee, priced |-> f.row.priced]]
<1>1. /\ f \in Flight /\ f.order \in Orders /\ f.kind = "renderQuotation"
      /\ row \in Row /\ RowSafe(row) /\ Validated(f) /\ UpToDate(f)
  BY ClaimState DEF ViewQuotationStamp, Kinds
<1>2. /\ row.seen = Unseen
      /\ IF f.row.quotation = "AWAITING_REVIEW"
                  THEN row.quotation = "AWAITING_REVIEW"
                  ELSE "quotationSentAt" \in f.fresh
      /\ UNCHANGED stock
      /\ Write(w, f.order, new, {})
  BY <1>1 DEF ViewQuotationStamp
<1>3. new \in Row
  BY <1>1, FlightParts, BlankType DEF Row, Blank, QuotationStatus, Status, Quote
<1>4. /\ new.status = row.status
      /\ new.quotation = row.quotation
      /\ new.fee = row.fee
      /\ new.priced = row.priced
      /\ new.seen = [fee |-> f.row.fee, priced |-> f.row.priced]
      /\ SameGoods(new, row)
      /\ SamePlace(new, row)
  BY <1>1 DEF Row, SamePrice, SameGoods, SamePlace
<1> HIDE DEF new
<1> QED BY <1>2, <1>3, <1>4

LEMMA MarkPaymentSubmittedWrites ==
  ASSUME StockInv, NEW w \in Workers, MarkPaymentSubmittedCommit(w)
  PROVE  LET f == flight[w]
             row == order[f.order]
         IN  /\ row.quotation = "QUOTATION_SENT"
             /\ row.status # "CANCELLED"
             /\ f.assisted \/ row.seen # Unseen
             /\ UNCHANGED stock
             /\ \E new \in Row :
                  /\ Write(w, f.order, new, {})
                  /\ new.status = row.status
                  /\ new.quotation = "PAYMENT_SUBMITTED"
                  /\ SameGoods(new, row)
                  /\ SamePrice(new, row)
                  /\ SamePlace(new, row)
<1> DEFINE f == flight[w]
           row == order[f.order]
           new == [row EXCEPT !.quotation = "PAYMENT_SUBMITTED"]
<1>1. /\ f \in Flight /\ f.order \in Orders /\ f.kind = "markPaymentSubmitted"
      /\ row \in Row /\ RowSafe(row) /\ Validated(f) /\ UpToDate(f)
  BY ClaimState DEF MarkPaymentSubmittedCommit, Kinds
<1>2. /\ row.quotation = "QUOTATION_SENT"
      /\ row.status # "CANCELLED"
      /\ f.assisted \/ row.seen # Unseen
      /\ UNCHANGED stock
      /\ Write(w, f.order, new, {})
  BY <1>1 DEF MarkPaymentSubmittedCommit
<1>3. new \in Row
  BY <1>1, FlightParts, BlankType DEF Row, Blank, QuotationStatus, Status, Quote
<1>4. /\ new.status = row.status
      /\ new.quotation = "PAYMENT_SUBMITTED"
      /\ SameGoods(new, row)
      /\ SamePrice(new, row)
      /\ SamePlace(new, row)
  BY <1>1 DEF Row, SamePrice, SameGoods, SamePlace
<1> HIDE DEF new
<1> QED BY <1>2, <1>3, <1>4

LEMMA RejectPaymentWrites ==
  ASSUME StockInv, NEW w \in Workers, RejectPaymentCommit(w)
  PROVE  LET f == flight[w]
             row == order[f.order]
         IN  /\ row.quotation = "PAYMENT_SUBMITTED"
             /\ row.status # "CANCELLED"
             /\ UNCHANGED stock
             /\ \E new \in Row : \E stamps :
                  /\ Write(w, f.order, new, stamps)
                  /\ new.status = row.status
                  /\ new.quotation = "QUOTATION_SENT"
                  /\ new.items = row.items
                  /\ new.deducted = row.deducted
                  /\ new.hold \in {"open", row.hold}
                  /\ SamePrice(new, row)
                  /\ SamePlace(new, row)
<1> DEFINE f == flight[w]
           row == order[f.order]
           new == [row EXCEPT !.quotation = "QUOTATION_SENT",
                     !.hold = IF f.row.status = "PENDING" /\ f.row.hold # "none"
                              THEN "open" ELSE @]
<1>1. /\ f \in Flight /\ f.order \in Orders /\ f.kind = "rejectPayment"
      /\ row \in Row /\ RowSafe(row) /\ Validated(f) /\ UpToDate(f)
  BY ClaimState DEF RejectPaymentCommit, Kinds
<1>2. /\ row.quotation = "PAYMENT_SUBMITTED"
      /\ row.status # "CANCELLED"
      /\ UNCHANGED stock
      /\ Write(w, f.order, new, IF f.row.status = "PENDING" /\ f.row.hold # "none"
                              THEN {"reservationExpiresAt"} ELSE {})
  BY <1>1 DEF RejectPaymentCommit
<1>3. new \in Row
  <2> DEFINE hold == IF f.row.status = "PENDING" /\ f.row.hold # "none"
                      THEN "open" ELSE row.hold
  <2>1. hold \in {"none", "open", "lapsed"}
    BY <1>1 DEF Row
  <2> HIDE DEF hold
  <2>2. [row EXCEPT !.quotation = "QUOTATION_SENT", !.hold = hold] \in Row
    BY <1>1, <2>1 DEF Row, QuotationStatus
  <2> QED BY <2>2 DEF hold
<1>4. /\ new.status = row.status
      /\ new.quotation = "QUOTATION_SENT"
      /\ new.items = row.items
      /\ new.deducted = row.deducted
      /\ new.hold \in {"open", row.hold}
      /\ SamePrice(new, row)
      /\ SamePlace(new, row)
  BY <1>1 DEF Row, SamePrice, SameGoods, SamePlace
<1> HIDE DEF new
<1> QED BY <1>2, <1>3, <1>4

LEMMA VerifyPaymentWrites ==
  ASSUME StockInv, NEW w \in Workers, VerifyPaymentCommit(w)
  PROVE  LET f == flight[w]
             row == order[f.order]
         IN  /\ row.quotation = "PAYMENT_SUBMITTED"
             /\ row.status # "CANCELLED"
             /\ ~f.row.deducted /\ f.row.hold # "none"
             /\ row.items = f.row.items
             /\ AdjustReserved(f.order, Minus(NoItems, f.row.items))
             /\ AdjustTaken(f.order, f.row.items)
             /\ CanDeduct(f.row.items)
             /\ \E new \in Row : \E stamps :
                  /\ Write(w, f.order, new, stamps)
                  /\ new.status = row.status
                  /\ new.quotation = "PAYMENT_VERIFIED"
                  /\ new.items = row.items
                  /\ new.hold = "none"
                  /\ new.deducted = TRUE
                  /\ SamePrice(new, row)
                  /\ SamePlace(new, row)
<1> DEFINE f == flight[w]
           row == order[f.order]
           new == [row EXCEPT !.quotation = "PAYMENT_VERIFIED", !.hold = "none", !.deducted = TRUE]
<1>1. /\ f \in Flight /\ f.order \in Orders /\ f.kind = "verifyPayment"
      /\ row \in Row /\ RowSafe(row) /\ Validated(f) /\ UpToDate(f)
  BY ClaimState DEF VerifyPaymentCommit, Kinds
<1>2. /\ row.quotation = "PAYMENT_SUBMITTED" /\ row.status # "CANCELLED"
      /\ SameExpiry(f)
      /\ AdjustReserved(f.order, Minus(NoItems, HeldBy(f.row)))
      /\ AdjustTaken(f.order, IF f.row.deducted THEN NoItems ELSE f.row.items)
      /\ CanDeduct(IF f.row.deducted THEN NoItems ELSE f.row.items)
      /\ Write(w, f.order, new,
               IF f.row.hold = "none" THEN {} ELSE {"reservationExpiresAt"})
  BY DEF VerifyPaymentCommit
<1>3. ~f.row.deducted /\ f.row.hold # "none"
  BY <1>1, FlightParts DEF Validated, RowSafe
<1>4. row.items = f.row.items
  BY <1>1, <1>2, <1>3 DEF SameExpiry, UpToDate
<1>5. HeldBy(f.row) = f.row.items
  BY <1>3 DEF HeldBy
<1>6. new \in Row
  BY <1>1, FlightParts, BlankType DEF Row, Blank, QuotationStatus, Status, Quote
<1>7. /\ new.status = row.status
      /\ new.quotation = "PAYMENT_VERIFIED"
      /\ new.items = row.items
      /\ new.hold = "none"
      /\ new.deducted = TRUE
      /\ SamePrice(new, row)
      /\ SamePlace(new, row)
  BY <1>1 DEF Row, SamePrice, SameGoods, SamePlace
<1> HIDE DEF new
<1> QED BY <1>2, <1>6, <1>7, <1>3, <1>4, <1>5

LEMMA ExpireWrites ==
  ASSUME StockInv, NEW w \in Workers, ExpireCommit(w)
  PROVE  LET f == flight[w]
             row == order[f.order]
         IN  /\ row.status = "PENDING"
             /\ row.quotation = "QUOTATION_SENT"
             /\ row.hold = "lapsed"
             /\ AdjustReserved(f.order, Minus(NoItems, f.row.items))
             /\ onHand' = onHand /\ taken' = taken
             /\ \E new \in Row :
                  /\ Write(w, f.order, new, {"reservationExpiresAt"})
                  /\ new.status = "CANCELLED"
                  /\ new.quotation = row.quotation
                  /\ new.items = row.items
                  /\ new.hold = "none"
                  /\ new.deducted = row.deducted
                  /\ SamePrice(new, row)
                  /\ SamePlace(new, row)
<1> DEFINE f == flight[w]
           row == order[f.order]
           new == [row EXCEPT !.status = "CANCELLED", !.hold = "none"]
<1>1. /\ f \in Flight /\ f.order \in Orders /\ f.kind = "expire"
      /\ row \in Row /\ RowSafe(row) /\ Validated(f) /\ UpToDate(f)
  BY ClaimState DEF ExpireCommit, Kinds
<1>2. /\ row.status = "PENDING"
      /\ row.quotation = "QUOTATION_SENT"
      /\ row.hold = "lapsed"
      /\ AdjustReserved(f.order, Minus(NoItems, f.row.items))
      /\ onHand' = onHand /\ taken' = taken
      /\ Write(w, f.order, new, {"reservationExpiresAt"})
  BY <1>1 DEF ExpireCommit
<1>3. new \in Row
  BY <1>1, FlightParts, BlankType DEF Row, Blank, QuotationStatus, Status, Quote
<1>4. /\ new.status = "CANCELLED"
      /\ new.quotation = row.quotation
      /\ new.items = row.items
      /\ new.hold = "none"
      /\ new.deducted = row.deducted
      /\ SamePrice(new, row)
      /\ SamePlace(new, row)
  BY <1>1 DEF Row, SamePrice, SameGoods, SamePlace
<1> HIDE DEF new
<1> QED BY <1>2, <1>3, <1>4

LEMMA PromoteWrites ==
  ASSUME StockInv, NEW w \in Workers, PromoteCommit(w)
  PROVE  LET f == flight[w]
             row == order[f.order]
         IN  /\ row.status = "WAITLISTED"
             /\ CanReserve(f.row.items)
             /\ AdjustReserved(f.order, f.row.items)
             /\ onHand' = onHand /\ taken' = taken
             /\ \E new \in Row :
                  /\ Write(w, f.order, new, {"reservationExpiresAt"})
                  /\ new.status = "PENDING"
                  /\ new.quotation = row.quotation
                  /\ new.items = row.items
                  /\ new.hold = "open"
                  /\ new.deducted = row.deducted
                  /\ SamePrice(new, row)
                  /\ SamePlace(new, row)
<1> DEFINE f == flight[w]
           row == order[f.order]
           new == [row EXCEPT !.status = "PENDING", !.hold = "open"]
<1>1. /\ f \in Flight /\ f.order \in Orders /\ f.kind = "promote"
      /\ row \in Row /\ RowSafe(row) /\ Validated(f) /\ UpToDate(f)
  BY ClaimState DEF PromoteCommit, Kinds
<1>2. /\ row.status = "WAITLISTED"
      /\ CanReserve(f.row.items)
      /\ AdjustReserved(f.order, f.row.items)
      /\ onHand' = onHand /\ taken' = taken
      /\ Write(w, f.order, new, {"reservationExpiresAt"})
  BY <1>1 DEF PromoteCommit
<1>3. new \in Row
  BY <1>1, FlightParts, BlankType DEF Row, Blank, QuotationStatus, Status, Quote
<1>4. /\ new.status = "PENDING"
      /\ new.quotation = row.quotation
      /\ new.items = row.items
      /\ new.hold = "open"
      /\ new.deducted = row.deducted
      /\ SamePrice(new, row)
      /\ SamePlace(new, row)
  BY <1>1 DEF Row, SamePrice, SameGoods, SamePlace
<1> HIDE DEF new
<1> QED BY <1>2, <1>3, <1>4

\* What each handler remembers of its validated read.
LEMMA ReadsRow ==
  ASSUME TypeOK, NEW w \in Workers, NEW o \in Orders, ReadStep(w, o)
  PROVE  \E f \in Flight :
           /\ Start(w, f.kind, f) /\ f.order = o /\ f.row = order[o]
           /\ f.kind # "renderQuotation"
           /\ f.kind \in {"checkout", "updateItems"} => f.cart \in Carts
           /\ f.kind = "expire" => Releases(f)
           /\ f.kind = "markPaymentSubmitted" /\ f.assisted => order[o].byStaff
           /\ f.kind = "checkout" /\ f.next = "PENDING" /\ f.short
                => "STAFF" \in Placers
<1> DEFINE Remembers(f) ==
             /\ Start(w, f.kind, f) /\ f.order = o /\ f.row = order[o]
             /\ f.kind # "renderQuotation"
             /\ f.kind \in {"checkout", "updateItems"} => f.cart \in Carts
             /\ f.kind = "expire" => Releases(f)
             /\ f.kind = "markPaymentSubmitted" /\ f.assisted => order[o].byStaff
             /\ f.kind = "checkout" /\ f.next = "PENDING" /\ f.short
                  => "STAFF" \in Placers
<1> SUFFICES \E f \in Flight : Remembers(f)
  OBVIOUS
<1> USE DEF Kinds, Stamps
<1>0. \A k \in Kinds, stamps \in SUBSET Stamps :
        /\ Read(k, o, stamps) \in Flight /\ Read(k, o, stamps).kind = k
        /\ Read(k, o, stamps).order = o /\ Read(k, o, stamps).row = order[o]
  BY ReadType DEF Read
<1>1. ASSUME NEW k \in Kinds \ {"checkout", "updateItems", "sendQuotation",
                                "markPaymentSubmitted", "renderQuotation",
                                "expire"},
             NEW f \in Flight, Start(w, k, f), f.kind = k, f.order = o,
             f.row = order[o]
      PROVE  \E g \in Flight : Remembers(g)
  BY <1>1
<1>2. ASSUME NEW cart \in Carts, NEW placer \in Placers,
             NEW d \in Addresses \cup {NoDelivery},
             CheckoutRead(w, o, cart, placer, d)
      PROVE  \E f \in Flight : Remembers(f)
  <2> DEFINE short == \E p \in Products : cart[p] > Available(p)
             assisted == placer = "STAFF"
             next == IF short /\ ~assisted THEN "WAITLISTED" ELSE "PENDING"
             f == [Read("checkout", o, {}) EXCEPT
                     !.cart = cart, !.delivery = d, !.assisted = assisted,
                     !.short = short, !.next = next]
  <2>1. /\ Read("checkout", o, {}) \in Flight
        /\ cart \in Items /\ next \in Status
        /\ short \in BOOLEAN /\ assisted \in BOOLEAN
    BY <1>0 DEF Items, Status
  <2>2. Start(w, "checkout", f)
    BY <1>2 DEF CheckoutRead
  <2>3. next = "PENDING" /\ short => "STAFF" \in Placers
    OBVIOUS
  <2> HIDE DEF short, assisted, next
  <2>4. f \in Flight
    BY <2>1, ArgumentsType
  <2>5. /\ f.kind = "checkout" /\ f.order = o /\ f.row = order[o]
        /\ f.cart = cart /\ f.next = next /\ f.short = short
    BY DEF Read
  <2> HIDE DEF f
  <2>6. Remembers(f)
    BY <2>2, <2>3, <2>5
  <2> QED BY <2>4, <2>6
<1>3. ASSUME NEW to \in Status, UpdateStatusRead(w, o, to)
      PROVE  \E f \in Flight : Remembers(f)
  <2> DEFINE f == [Read("updateStatus", o, {}) EXCEPT !.next = to]
  <2>1. f \in Flight /\ f.kind = "updateStatus" /\ f.order = o /\ f.row = order[o]
    BY <1>0, ArgumentsType DEF Read
  <2>2. Start(w, "updateStatus", f)
    BY <1>3 DEF UpdateStatusRead
  <2> QED BY <1>1, <2>1, <2>2
<1>4. ASSUME NEW cart \in Carts, UpdateItemsRead(w, o, cart)
      PROVE  \E f \in Flight : Remembers(f)
  <2>1. PICK next \in {"WAITLISTED", "PENDING"} : Start(w, "updateItems",
          [Read("updateItems", o, {"updatedAt"}) EXCEPT !.cart = cart, !.next = next])
    BY <1>4 DEF UpdateItemsRead
  <2> DEFINE f == [Read("updateItems", o, {"updatedAt"}) EXCEPT
                     !.cart = cart, !.next = next]
  <2>2. f \in Flight
    BY <1>0, ArgumentsType DEF Items, Status
  <2>3. /\ f.kind = "updateItems" /\ f.order = o /\ f.row = order[o]
        /\ f.cart = cart
    BY DEF Read
  <2> HIDE DEF f
  <2>4. Remembers(f)
    BY <2>1, <2>3 DEF f
  <2> QED BY <2>2, <2>4
<1>5. ASSUME NEW a \in Addresses, SaveDeliveryRead(w, o, a)
      PROVE  \E f \in Flight : Remembers(f)
  <2> DEFINE f == [Read("saveDelivery", o, {}) EXCEPT !.delivery = a]
  <2>1. f \in Flight /\ f.kind = "saveDelivery" /\ f.order = o /\ f.row = order[o]
    BY <1>0, ArgumentsType DEF Read
  <2>2. Start(w, "saveDelivery", f)
    BY <1>5 DEF SaveDeliveryRead
  <2> QED BY <1>1, <2>1, <2>2
<1>6. ASSUME NEW fee \in Fees, SendQuotationRead(w, o, fee)
      PROVE  \E f \in Flight : Remembers(f)
  <2> DEFINE f == [Read("sendQuotation", o, {}) EXCEPT !.fee = fee]
  <2>1. f \in Flight /\ f.kind = "sendQuotation" /\ f.order = o /\ f.row = order[o]
    BY <1>0, ArgumentsType DEF Read
  <2>2. Start(w, "sendQuotation", f)
    BY <1>6 DEF SendQuotationRead
  <2> HIDE DEF f
  <2> QED BY <2>1, <2>2
<1>7. ASSUME NEW assisted \in BOOLEAN, MarkPaymentSubmittedRead(w, o, assisted)
      PROVE  \E f \in Flight : Remembers(f)
  <2> DEFINE f == [Read("markPaymentSubmitted", o, {"quotationSentAt"})
                     EXCEPT !.assisted = assisted]
  <2>1. /\ f \in Flight /\ f.kind = "markPaymentSubmitted"
        /\ f.order = o /\ f.row = order[o] /\ f.assisted = assisted
    BY <1>0, ArgumentsType DEF Read
  <2>2. Start(w, "markPaymentSubmitted", f) /\ (assisted => order[o].byStaff)
    BY <1>7 DEF MarkPaymentSubmittedRead
  <2> HIDE DEF f
  <2> QED BY <2>1, <2>2
<1>8. CASE ViewQuotationOpen(w, o)
  BY <1>0, <1>1, <1>8 DEF ViewQuotationOpen
<1>9. CASE RejectPaymentRead(w, o)
  BY <1>0, <1>1, <1>9 DEF RejectPaymentRead
<1>10. CASE VerifyPaymentRead(w, o)
  BY <1>0, <1>1, <1>10 DEF VerifyPaymentRead
<1>11. CASE ExpireRead(w, o)
  <2> DEFINE f == Read("expire", o, {})
  <2>1. f \in Flight /\ f.kind = "expire" /\ f.order = o /\ f.row = order[o]
    BY <1>0
  <2>2. /\ Start(w, "expire", f)
        /\ order[o].status = "PENDING" /\ order[o].hold = "lapsed"
    BY <1>11 DEF ExpireRead
  <2>3. Releases(f)
    BY <2>1, <2>2 DEF Releases
  <2> HIDE DEF f
  <2> QED BY <2>1, <2>2, <2>3
<1>12. CASE PromoteRead(w, o)
  BY <1>0, <1>1, <1>12 DEF PromoteRead
<1> QED BY <1>2, <1>3, <1>4, <1>5, <1>6, <1>7, <1>8, <1>9, <1>10, <1>11, <1>12
        DEF ReadStep

\* What a commit does to the requests of the other workers.
LEMMA OthersAfterWrite ==
  ASSUME TypeOK, NEW w \in Workers, NEW o \in Orders, NEW row, NEW stamps,
         Write(w, o, row, stamps), NEW v \in Workers, flight'[v] # Idle
  PROVE  LET f == flight[v]
             g == flight'[v]
         IN  /\ v # w /\ f # Idle /\ f \in Flight /\ f.order \in Orders
             /\ g.kind = f.kind /\ g.order = f.order /\ g.row = f.row
             /\ g.next = f.next /\ g.cart = f.cart
             /\ g.assisted = f.assisted /\ g.short = f.short
             /\ g.fresh \subseteq f.fresh
             /\ f.order = o => g.fresh \cap stamps = {} /\ "updatedAt" \notin g.fresh
             /\ f.order # o => order'[f.order] = order[f.order]
             /\ order'[o] = row
<1>1. v # w /\ flight[v] # Idle /\ flight'[v] = Restamp(flight[v], o, stamps)
  BY DEF Write, Restamp
<1>2. flight[v] \in Flight /\ flight[v].order \in Orders
  BY <1>1, BusyType
<1>3. order'[o] = row /\ (flight[v].order # o => order'[flight[v].order] = order[flight[v].order])
  BY <1>2 DEF Write, TypeOK
<1>4. LET f == flight[v]
          g == flight'[v]
      IN  /\ g.kind = f.kind /\ g.order = f.order /\ g.row = f.row
          /\ g.next = f.next /\ g.cart = f.cart
          /\ g.assisted = f.assisted /\ g.short = f.short
          /\ g.fresh \subseteq f.fresh
          /\ f.order = o => g.fresh \cap stamps = {} /\ "updatedAt" \notin g.fresh
  BY <1>1, <1>2 DEF Restamp, Flight
<1> QED BY <1>1, <1>2, <1>3, <1>4

-----------------------------------------------------------------------------
(* Holds and rows agree, but for the orders written on an overtaken read.  *)

\* When an order holds stock, and which combinations a row then has.
HoldSafe(r) ==
  /\ r.hold # "none" <=> r.status = "PENDING" /\ r.quotation # "PAYMENT_VERIFIED"
  /\ r.status = "WAITLISTED" => r.quotation = "AWAITING_REVIEW"
  /\ r.quotation \in {"QUOTATION_SENT", "PAYMENT_SUBMITTED"} /\ r.status # "CANCELLED"
       => r.status = "PENDING"
  /\ r.status # "NONE" => r.items \in Carts
  /\ r.priced = r.items

\* What a request on an order that is not crossed may rely on.
HoldFlight(f) ==
  /\ HoldSafe(f.row)
  /\ f.kind \in {"checkout", "updateItems"} => f.cart \in Carts
  /\ "updatedAt" \in f.fresh => HeldBy(order[f.order]) = HeldBy(f.row)
  /\ f.kind = "expire" => Releases(f)

HoldInv ==
  /\ StockInv
  /\ \A o \in Orders \ crossed : HoldSafe(order[o])
  /\ HoldsMatchOrders
  /\ \A w \in Workers :
       flight[w] # Idle /\ flight[w].order \notin crossed => HoldFlight(flight[w])

\* A worker turns to g, and no row and no hold changes.
LEMMA TurnKeepsHolds ==
  ASSUME HoldInv, StockInv', NEW w \in Workers, NEW g,
         flight' = [flight EXCEPT ![w] = g], order' = order, held' = held,
         crossed' = crossed, g # Idle /\ g.order \notin crossed => HoldFlight(g)
  PROVE  HoldInv'
<1>1. (\A o \in Orders \ crossed : HoldSafe(order[o]))' /\ HoldsMatchOrders'
  BY DEF HoldInv, HoldsMatchOrders, HoldSafe, HeldBy
<1>2. ASSUME NEW v \in Workers, flight'[v] # Idle, flight'[v].order \notin crossed'
      PROVE  HoldFlight(flight[v])'
  <2>1. flight'[v] = IF v = w THEN g ELSE flight[v]
    BY DEF HoldInv, StockInv, TypeOK
  <2>2. HoldFlight(flight'[v])
    BY <1>2, <2>1 DEF HoldInv
  <2> QED BY <2>2 DEF HoldFlight, HoldSafe, HeldBy, Releases
<1> QED BY <1>1, <1>2 DEF HoldInv

LEMMA ReadKeepsHolds ==
  ASSUME HoldInv, StockInv', NEW w \in Workers, NEW o \in Orders, ReadStep(w, o)
  PROVE  HoldInv'
<1>0. TypeOK
  BY DEF HoldInv, StockInv
<1>1. PICK f \in Flight :
        /\ Start(w, f.kind, f) /\ f.order = o /\ f.row = order[o]
        /\ f.kind \in {"checkout", "updateItems"} => f.cart \in Carts
        /\ f.kind = "expire" => Releases(f)
  BY <1>0, ReadsRow
<1>2. f.order \notin crossed => HoldFlight(f)
  BY <1>1 DEF HoldFlight, HoldInv
<1>3. /\ flight' = [flight EXCEPT ![w] = f] /\ order' = order /\ held' = held
      /\ crossed' = crossed
  BY <1>1 DEF Start, stock
<1> QED BY <1>2, <1>3, TurnKeepsHolds

\* A claim that crosses its order, or leaves a safe row and the hold that the
\* row says.
LEMMA WriteKeepsHolds ==
  ASSUME HoldInv, StockInv',
         NEW w \in Workers, flight[w] # Idle, NEW new, NEW stamps,
         Write(w, flight[w].order, new, stamps),
         \A x \in Orders \ {flight[w].order} : held'[x] = held[x],
         \/ flight[w].order \in crossed'
         \/ HoldSafe(new) /\ held'[flight[w].order] = HeldBy(new)
  PROVE  HoldInv'
<1> DEFINE o == flight[w].order
<1>0. TypeOK /\ o \in Orders
  BY BusyType DEF HoldInv, StockInv
<1>1. order' = [order EXCEPT ![o] = new] /\ crossed \subseteq crossed'
  BY DEF Write
<1>2. /\ order'[o] = new
      /\ \A x \in Orders \ {o} : order'[x] = order[x]
  BY <1>0, <1>1 DEF TypeOK
<1>3. \A x \in Orders \ crossed' : HoldSafe(order'[x]) /\ held'[x] = HeldBy(order'[x])
  BY <1>1, <1>2 DEF HoldInv, HoldsMatchOrders
<1>4. ASSUME NEW v \in Workers, flight'[v] # Idle, flight'[v].order \notin crossed'
      PROVE  HoldFlight(flight[v])'
  <2> DEFINE f == flight[v]
             g == flight'[v]
  <2>1. /\ f # Idle /\ f.order \in Orders
        /\ g.kind = f.kind /\ g.order = f.order /\ g.row = f.row
        /\ g.cart = f.cart /\ g.fresh \subseteq f.fresh
        /\ f.order = o => "updatedAt" \notin g.fresh
        /\ f.order # o => order'[f.order] = order[f.order]
    BY <1>0, <1>4, OthersAfterWrite
  <2>2. HoldFlight(f)
    BY <1>1, <1>4, <2>1 DEF HoldInv
  <2> QED BY <2>1, <2>2 DEF HoldFlight, HeldBy, Releases
<1>5. (\A x \in Orders \ crossed : HoldSafe(order[x]))' /\ HoldsMatchOrders'
  BY <1>3 DEF HoldsMatchOrders, HoldSafe, HeldBy
<1> QED BY <1>4, <1>5 DEF HoldInv

\* Taking back a hold and putting another in its place.
LEMMA Exchange ==
  \A f, g \in [Products -> Int] : Plus(f, Minus(g, f)) = g
<1> SUFFICES ASSUME NEW f \in [Products -> Int], NEW g \in [Products -> Int]
             PROVE  Plus(f, Minus(g, f)) = g
  OBVIOUS
<1>1. \A p \in Products : f[p] + (g[p] - f[p]) = g[p]
  OBVIOUS
<1>2. Plus(f, Minus(g, f)) = [p \in Products |-> g[p]]
  BY <1>1 DEF Plus, Minus
<1> QED BY <1>2

LEMMA HeldIs ==
  ASSUME HoldInv, NEW o \in Orders \ crossed, NEW delta, AdjustReserved(o, delta)
  PROVE  held'[o] = Plus(HeldBy(order[o]), delta)
<1>1. held \in [Orders -> [Products -> Int]] /\ held[o] = HeldBy(order[o])
  BY DEF HoldInv, HoldsMatchOrders, StockInv, TypeOK
<1> QED BY <1>1 DEF AdjustReserved

LEMMA AreasOf ==
  ASSUME NEW row \in Row
  PROVE  /\ row.items \in [Products -> Int] /\ HeldBy(row) \in [Products -> Int]
         /\ NoItems \in [Products -> Int]
BY AreaType DEF Row, HeldBy

\* updateStatus claims the payment as it read it, by way of stockDeductedAt.
LEMMA PaidAsRead ==
  ASSUME StockInv, NEW w \in Workers, UpdateStatusCommit(w)
  PROVE  flight[w].row.quotation = "PAYMENT_VERIFIED"
           <=> order[flight[w].order].quotation = "PAYMENT_VERIFIED"
<1> DEFINE f == flight[w]
           row == order[f.order]
<1>1. Validated(f) /\ UpToDate(f) /\ RowSafe(row)
  BY ClaimState DEF UpdateStatusCommit, Kinds
<1>2. /\ row.status = f.row.status /\ row.deducted = f.row.deducted
      /\ f.next \in Transitions[row.status] /\ row.status \in Status
  BY UpdateStatusWrites
<1>3. row.status # "CANCELLED"
  BY <1>2 DEF Transitions, Status
<1> QED BY <1>1, <1>2, <1>3 DEF Validated, RowSafe

\* No commit changes what another order has reserved.
LEMMA CommitHoldsOthers ==
  ASSUME TypeOK, NEW w \in Workers, CommitStep(w), flight[w].order \in Orders
  PROVE  \A x \in Orders \ {flight[w].order} : held'[x] = held[x]
BY AdjustsOneOrder
   DEF CommitStep, CheckoutCommit, UpdateStatusCommit, UpdateItemsCommit,
       SaveDeliveryCommit, SendQuotationCommit, ViewQuotationRender,
       ViewQuotationStamp, MarkPaymentSubmittedCommit, RejectPaymentCommit,
       VerifyPaymentCommit, ExpireCommit, PromoteCommit, Drop, stock

LEMMA CommitKeepsHolds ==
  ASSUME HoldInv, StockInv', NEW w \in Workers, CommitStep(w)
  PROVE  HoldInv'
<1> DEFINE f == flight[w]
           o == f.order
           row == order[o]
<1> USE DEF Kinds
<1>0. StockInv /\ TypeOK
  BY DEF HoldInv, StockInv
\* A claim that does not cross its order finds a safe row and a safe read.
<1>1. ASSUME NEW k \in Kinds, InFlight(w, k), o \notin crossed
      PROVE  /\ f # Idle /\ o \in Orders \ crossed /\ f \in Flight /\ f.kind = k
             /\ row \in Row /\ f.row \in Row /\ HoldSafe(row) /\ HoldFlight(f)
             /\ RowSafe(row)
             /\ HoldSafe(f.row) /\ (k # "checkout" => row.status # "NONE")
             /\ held[o] = HeldBy(row)
  BY <1>0, <1>1, ClaimState, FlightParts DEF HoldInv, HoldFlight, HoldsMatchOrders
<1>2. ASSUME NEW k \in Kinds, InFlight(w, k), NEW new, NEW stamps,
             Write(w, o, new, stamps),
             \/ o \in crossed'
             \/ HoldSafe(new) /\ held'[o] = HeldBy(new)
      PROVE  HoldInv'
  <2>1. f # Idle /\ o \in Orders
    BY <1>0, <1>2, ClaimState
  <2>2. \A x \in Orders \ {o} : held'[x] = held[x]
    BY <1>0, <2>1, CommitHoldsOthers
  <2> QED BY <1>2, <2>1, <2>2, WriteKeepsHolds
<1>3. ASSUME NEW new, NEW stamps, Write(w, o, new, stamps), o \notin crossed'
      PROVE  o \notin crossed /\ ~Overtaken(f)
  BY <1>3 DEF Write
<1>4. CASE CheckoutCommit(w)
  <2> InFlight(w, "checkout")
    BY <1>4 DEF CheckoutCommit
  <2>2. PICK new \in Row :
          /\ Write(w, o, new, Stamps)
          /\ new.status = f.next /\ new.quotation = "AWAITING_REVIEW"
          /\ new.items = f.cart /\ new.priced = f.cart
          /\ new.hold = IF f.next = "PENDING" THEN "open" ELSE "none"
    BY <1>0, <1>4, CheckoutWrites
  <2>3. /\ row.status = "NONE" /\ f.next \in {"WAITLISTED", "PENDING"}
        /\ AdjustReserved(o, IF f.next = "PENDING" THEN f.cart ELSE NoItems)
    BY <1>0, <1>4, CheckoutWrites
  <2>4. ASSUME o \notin crossed'
        PROVE  HoldSafe(new) /\ held'[o] = HeldBy(new)
    <3>1. /\ o \in Orders \ crossed /\ f \in Flight /\ f.kind = "checkout"
          /\ row \in Row /\ HoldSafe(row) /\ HoldFlight(f)
      BY <1>1, <1>3, <2>2, <2>4
    <3>2. HoldSafe(new)
      BY <3>1, <2>2, <2>3 DEF HoldSafe, HoldFlight
    <3>3. HeldBy(row) = NoItems
      BY <3>1, <2>3 DEF HoldSafe, HeldBy
    <3>4. HeldBy(new) = IF f.next = "PENDING" THEN f.cart ELSE NoItems
      BY <2>2 DEF HeldBy
    <3> QED BY <3>1, <2>2, <2>3, <3>2, <3>3, <3>4, HeldIs, AddNothing, AreasOf
  <2> QED BY <1>2, <2>2, <2>4
<1>5. CASE UpdateStatusCommit(w)
  <2> InFlight(w, "updateStatus")
    BY <1>5 DEF UpdateStatusCommit
  <2>2. PICK new \in Row : \E stamps :
          /\ Write(w, o, new, stamps)
          /\ new.status = f.next /\ new.quotation = row.quotation
          /\ new.items = row.items /\ new.priced = row.priced
          /\ new.hold = IF Releases(f) THEN "none" ELSE row.hold
    BY <1>0, <1>5, UpdateStatusWrites DEF SamePrice
  <2>3. /\ row.status = f.row.status
        /\ f.next \in Transitions[row.status] /\ row.status \in Status
        /\ f.next = "CANCELLED" \/ row.quotation = "PAYMENT_VERIFIED"
        /\ AdjustReserved(o, IF Releases(f) THEN Minus(NoItems, f.row.items)
                             ELSE NoItems)
    BY <1>0, <1>5, UpdateStatusWrites
  <2>4. ASSUME o \notin crossed'
        PROVE  HoldSafe(new) /\ held'[o] = HeldBy(new)
    <3>1. /\ o \in Orders \ crossed /\ f.kind = "updateStatus" /\ f.row \in Row
          /\ row \in Row /\ HoldSafe(row) /\ HoldFlight(f) /\ HoldSafe(f.row)
          /\ ~Overtaken(f) /\ row.status # "NONE"
      BY <1>1, <1>3, <2>2, <2>4
    <3>2. f.next \in Status \ {"NONE", "PENDING", "WAITLISTED"}
      BY <2>3 DEF Transitions, Status
    <3>3. f.row.quotation = "PAYMENT_VERIFIED" <=> row.quotation = "PAYMENT_VERIFIED"
      BY <1>0, <1>5, PaidAsRead
    <3>4. Releases(f) <=> row.hold # "none"
      BY <3>1, <2>3, <3>3 DEF Releases, HoldSafe
    <3>5. new.hold = "none" /\ HeldBy(new) = NoItems
      BY <2>2, <3>4 DEF HeldBy
    <3>6. HoldSafe(new)
      BY <3>1, <2>2, <2>3, <3>2, <3>5 DEF HoldSafe
    <3>7. Releases(f) => row.items = f.row.items
      BY <3>1 DEF Overtaken
    <3>8. Plus(HeldBy(row), IF Releases(f) THEN Minus(NoItems, f.row.items)
                            ELSE NoItems) = NoItems
      BY <3>1, <3>4, <3>7, AddNothing, AreasOf DEF HeldBy
    <3> QED BY <3>1, <2>3, <3>5, <3>6, <3>8, HeldIs
  <2> QED BY <1>2, <2>2, <2>4
<1>6. CASE UpdateItemsCommit(w)
  <2> InFlight(w, "updateItems")
    BY <1>6 DEF UpdateItemsCommit
  <2> DEFINE agreed == IF f.next = "PENDING" THEN f.cart ELSE NoItems
  <2>2. PICK new \in Row :
          /\ Write(w, o, new, {"reservationExpiresAt", "quotationSentAt"})
          /\ new.status = f.next /\ new.quotation = "AWAITING_REVIEW"
          /\ new.items = f.cart /\ new.priced = f.cart
          /\ new.hold = IF f.next = "PENDING" THEN "open" ELSE "none"
    BY <1>0, <1>6, UpdateItemsWrites
  <2>3. /\ f.next \in {"WAITLISTED", "PENDING"} /\ "updatedAt" \in f.fresh
        /\ AdjustReserved(o, Minus(agreed, HeldBy(f.row)))
    BY <1>0, <1>6, UpdateItemsWrites
  <2>4. ASSUME o \notin crossed'
        PROVE  HoldSafe(new) /\ held'[o] = HeldBy(new)
    <3>1. /\ o \in Orders \ crossed /\ f.kind = "updateItems" /\ f.row \in Row
          /\ row \in Row /\ HoldSafe(row) /\ HoldFlight(f) /\ f \in Flight
      BY <1>1, <1>3, <2>2, <2>4
    <3>2. HoldSafe(new)
      BY <3>1, <2>2, <2>3 DEF HoldSafe, HoldFlight
    <3>3. HeldBy(row) = HeldBy(f.row)
      BY <3>1, <2>3 DEF HoldFlight
    <3>4. HeldBy(new) = agreed
      BY <2>2 DEF HeldBy
    <3>5. agreed \in [Products -> Int] /\ HeldBy(row) \in [Products -> Int]
      BY <3>1, <2>2, <3>4, AreasOf
    <3> HIDE DEF agreed
    <3> QED BY <3>1, <2>3, <3>2, <3>3, <3>4, <3>5, HeldIs, Exchange
  <2> QED BY <1>2, <2>2, <2>4
<1>7. CASE SaveDeliveryCommit(w)
  <2> InFlight(w, "saveDelivery")
    BY <1>7 DEF SaveDeliveryCommit
  <2>2. PICK new \in Row :
          /\ Write(w, o, new, {})
          /\ new.status = row.status /\ new.quotation = row.quotation
          /\ SameGoods(new, row) /\ new.priced = row.priced
    BY <1>0, <1>7, SaveDeliveryWrites DEF SamePrice
  <2>3. held' = held
    BY <1>0, <1>7, SaveDeliveryWrites DEF stock
  <2>4. ASSUME o \notin crossed'
        PROVE  HoldSafe(new) /\ held'[o] = HeldBy(new)
    BY <1>1, <1>3, <2>2, <2>3, <2>4 DEF HoldSafe, HeldBy, SameGoods
  <2> QED BY <1>2, <2>2, <2>4
<1>8. CASE SendQuotationCommit(w)
  <2> InFlight(w, "sendQuotation")
    BY <1>8 DEF SendQuotationCommit
  <2>2. PICK new \in Row :
          /\ Write(w, o, new, {"reservationExpiresAt", "quotationSentAt"})
          /\ new.status = row.status /\ new.quotation = "QUOTATION_SENT"
          /\ new.items = row.items /\ new.priced = f.row.items /\ new.hold = "open"
    BY <1>0, <1>8, SendQuotationWrites
  <2>3. held' = held
    BY <1>0, <1>8, SendQuotationWrites DEF stock
  <2>4. ASSUME o \notin crossed'
        PROVE  HoldSafe(new) /\ held'[o] = HeldBy(new)
    <3>1. /\ HoldSafe(row) /\ held[o] = HeldBy(row) /\ f.kind = "sendQuotation"
          /\ ~Overtaken(f)
      BY <1>1, <1>3, <2>2, <2>4
    <3>2. row.hold # "none" /\ row.items = f.row.items
      BY <3>1 DEF Overtaken
    <3> QED BY <2>2, <2>3, <3>1, <3>2 DEF HoldSafe, HeldBy
  <2> QED BY <1>2, <2>2, <2>4
<1>9. CASE ViewQuotationRender(w)
  <2> DEFINE g == Read("renderQuotation", o, {"quotationSentAt"})
  <2>1. /\ g.kind = "renderQuotation" /\ g.order = o /\ g.row = row
        /\ g.fresh = {"quotationSentAt"}
    BY DEF Read
  <2>2. o \notin crossed => HoldSafe(row)
    BY <1>9, <1>1 DEF ViewQuotationRender
  <2>3. g.order \notin crossed => HoldFlight(g)
    BY <2>1, <2>2 DEF HoldFlight
  <2>4. /\ flight' = [flight EXCEPT ![w] = g] /\ order' = order /\ held' = held
        /\ crossed' = crossed
    BY <1>9 DEF ViewQuotationRender, stock
  <2> HIDE DEF g
  <2> QED BY <2>3, <2>4, TurnKeepsHolds
<1>10. CASE ViewQuotationStamp(w)
  <2> InFlight(w, "renderQuotation")
    BY <1>10 DEF ViewQuotationStamp
  <2>2. PICK new \in Row :
          /\ Write(w, o, new, {})
          /\ new.status = row.status /\ new.quotation = row.quotation
          /\ SameGoods(new, row) /\ new.priced = row.priced
    BY <1>0, <1>10, StampWrites
  <2>3. held' = held
    BY <1>0, <1>10, StampWrites DEF stock
  <2>4. ASSUME o \notin crossed'
        PROVE  HoldSafe(new) /\ held'[o] = HeldBy(new)
    BY <1>1, <1>3, <2>2, <2>3, <2>4 DEF HoldSafe, HeldBy, SameGoods
  <2> QED BY <1>2, <2>2, <2>4
<1>11. CASE MarkPaymentSubmittedCommit(w)
  <2> InFlight(w, "markPaymentSubmitted")
    BY <1>11 DEF MarkPaymentSubmittedCommit
  <2>2. PICK new \in Row :
          /\ Write(w, o, new, {})
          /\ new.status = row.status /\ new.quotation = "PAYMENT_SUBMITTED"
          /\ SameGoods(new, row) /\ new.priced = row.priced
    BY <1>0, <1>11, MarkPaymentSubmittedWrites DEF SamePrice
  <2>3. held' = held /\ row.quotation = "QUOTATION_SENT" /\ row.status # "CANCELLED"
    BY <1>0, <1>11, MarkPaymentSubmittedWrites DEF stock
  <2>4. ASSUME o \notin crossed'
        PROVE  HoldSafe(new) /\ held'[o] = HeldBy(new)
    BY <1>1, <1>3, <2>2, <2>3, <2>4 DEF HoldSafe, HeldBy, SameGoods
  <2> QED BY <1>2, <2>2, <2>4
<1>12. CASE RejectPaymentCommit(w)
  <2> InFlight(w, "rejectPayment")
    BY <1>12 DEF RejectPaymentCommit
  <2>2. PICK new \in Row : \E stamps :
          /\ Write(w, o, new, stamps)
          /\ new.status = row.status /\ new.quotation = "QUOTATION_SENT"
          /\ new.items = row.items /\ new.hold \in {"open", row.hold}
          /\ new.priced = row.priced
    BY <1>0, <1>12, RejectPaymentWrites DEF SamePrice
  <2>3. held' = held /\ row.quotation = "PAYMENT_SUBMITTED" /\ row.status # "CANCELLED"
    BY <1>0, <1>12, RejectPaymentWrites DEF stock
  <2>4. ASSUME o \notin crossed'
        PROVE  HoldSafe(new) /\ held'[o] = HeldBy(new)
    <3>1. HoldSafe(row) /\ held[o] = HeldBy(row)
      BY <1>1, <1>3, <2>2, <2>4
    <3>2. row.status = "PENDING" /\ row.hold # "none" /\ new.hold # "none"
      BY <2>2, <2>3, <3>1 DEF HoldSafe
    <3> QED BY <2>2, <2>3, <3>1, <3>2 DEF HoldSafe, HeldBy
  <2> QED BY <1>2, <2>2, <2>4
<1>13. CASE VerifyPaymentCommit(w)
  <2> InFlight(w, "verifyPayment")
    BY <1>13 DEF VerifyPaymentCommit
  <2>2. PICK new \in Row : \E stamps :
          /\ Write(w, o, new, stamps)
          /\ new.status = row.status /\ new.quotation = "PAYMENT_VERIFIED"
          /\ new.items = row.items /\ new.hold = "none"
          /\ new.priced = row.priced
    BY <1>0, <1>13, VerifyPaymentWrites DEF SamePrice
  <2>3. /\ row.quotation = "PAYMENT_SUBMITTED" /\ row.status # "CANCELLED"
        /\ row.items = f.row.items
        /\ AdjustReserved(o, Minus(NoItems, f.row.items))
    BY <1>0, <1>13, VerifyPaymentWrites
  <2>4. ASSUME o \notin crossed'
        PROVE  HoldSafe(new) /\ held'[o] = HeldBy(new)
    <3>1. o \in Orders \ crossed /\ HoldSafe(row) /\ row \in Row
      BY <1>1, <1>3, <2>2, <2>4
    <3>2. row.status = "PENDING" /\ HeldBy(row) = row.items
      BY <3>1, <2>3 DEF HoldSafe, HeldBy
    <3>3. HoldSafe(new) /\ HeldBy(new) = NoItems
      BY <3>1, <2>2, <3>2 DEF HoldSafe, HeldBy
    <3> QED BY <3>1, <2>3, <3>2, <3>3, HeldIs, AddNothing, AreasOf
  <2> QED BY <1>2, <2>2, <2>4
<1>14. CASE ExpireCommit(w)
  <2> InFlight(w, "expire")
    BY <1>14 DEF ExpireCommit
  <2>2. PICK new \in Row :
          /\ Write(w, o, new, {"reservationExpiresAt"})
          /\ new.status = "CANCELLED" /\ new.quotation = row.quotation
          /\ new.items = row.items /\ new.hold = "none"
          /\ new.priced = row.priced
    BY <1>0, <1>14, ExpireWrites DEF SamePrice
  <2>3. /\ row.status = "PENDING" /\ row.hold = "lapsed"
        /\ AdjustReserved(o, Minus(NoItems, f.row.items))
    BY <1>0, <1>14, ExpireWrites
  <2>4. ASSUME o \notin crossed'
        PROVE  HoldSafe(new) /\ held'[o] = HeldBy(new)
    <3>1. /\ o \in Orders \ crossed /\ HoldSafe(row) /\ row \in Row
          /\ HoldFlight(f) /\ f.kind = "expire" /\ ~Overtaken(f)
      BY <1>1, <1>3, <2>2, <2>4
    <3>2. row.items = f.row.items /\ HeldBy(row) = row.items
      BY <3>1, <2>3 DEF HoldFlight, HeldBy, Overtaken
    <3>3. HoldSafe(new) /\ HeldBy(new) = NoItems
      BY <3>1, <2>2, <2>3 DEF HoldSafe, HeldBy
    <3> QED BY <3>1, <2>3, <3>2, <3>3, HeldIs, AddNothing, AreasOf
  <2> QED BY <1>2, <2>2, <2>4
<1>15. CASE PromoteCommit(w)
  <2> InFlight(w, "promote")
    BY <1>15 DEF PromoteCommit
  <2>2. PICK new \in Row :
          /\ Write(w, o, new, {"reservationExpiresAt"})
          /\ new.status = "PENDING" /\ new.quotation = row.quotation
          /\ new.items = row.items /\ new.hold = "open"
          /\ new.priced = row.priced
    BY <1>0, <1>15, PromoteWrites DEF SamePrice
  <2>3. row.status = "WAITLISTED" /\ AdjustReserved(o, f.row.items)
    BY <1>0, <1>15, PromoteWrites
  <2>4. ASSUME o \notin crossed'
        PROVE  HoldSafe(new) /\ held'[o] = HeldBy(new)
    <3>1. /\ o \in Orders \ crossed /\ HoldSafe(row) /\ row \in Row
          /\ f.kind = "promote" /\ ~Overtaken(f)
      BY <1>1, <1>3, <2>2, <2>4
    <3>2. row.items = f.row.items /\ HeldBy(row) = NoItems
      BY <3>1, <2>3 DEF HoldSafe, HeldBy, Overtaken
    <3>3. HoldSafe(new) /\ HeldBy(new) = row.items
      BY <3>1, <2>2, <2>3 DEF HoldSafe, HeldBy
    <3> QED BY <3>1, <2>3, <3>2, <3>3, HeldIs, AddNothing, AreasOf
  <2> QED BY <1>2, <2>2, <2>4
<1>16. CASE Drop(w)
  BY <1>16, TurnKeepsHolds DEF Drop, stock
<1> QED BY <1>4, <1>5, <1>6, <1>7, <1>8, <1>9, <1>10, <1>11, <1>12, <1>13,
           <1>14, <1>15, <1>16 DEF CommitStep

LEMMA OtherKeepsHolds ==
  ASSUME HoldInv, StockInv',
         \/ \E o \in Orders : Lapse(o)
         \/ \E p \in Products, change \in Corrections : AdjustStock(p, change)
         \/ UNCHANGED vars
  PROVE  HoldInv'
<1>1. ASSUME NEW o \in Orders, Lapse(o) PROVE HoldInv'
  <2>1. /\ order' = [order EXCEPT ![o].hold = "lapsed"] /\ order[o].hold = "open"
        /\ held' = held /\ flight' = flight /\ crossed' = crossed
    BY <1>1 DEF Lapse, stock
  <2>2. \A x \in Orders :
          /\ order'[x].status = order[x].status
          /\ order'[x].quotation = order[x].quotation
          /\ order'[x].items = order[x].items
          /\ order'[x].priced = order[x].priced
          /\ order'[x].hold = "none" <=> order[x].hold = "none"
    BY <2>1 DEF HoldInv, StockInv, TypeOK, Row
  <2>3. \A x \in Orders : HeldBy(order'[x]) = HeldBy(order[x])
    BY <2>2 DEF HeldBy
  <2>4. (\A x \in Orders \ crossed : HoldSafe(order[x]))' /\ HoldsMatchOrders'
    BY <2>1, <2>2, <2>3 DEF HoldInv, HoldSafe, HoldsMatchOrders, HeldBy
  <2>5. ASSUME NEW v \in Workers, flight'[v] # Idle, flight'[v].order \notin crossed'
        PROVE  HoldFlight(flight[v])'
    <3>1. HoldFlight(flight[v]) /\ flight[v].order \in Orders /\ flight'[v] = flight[v]
      BY <2>1, <2>5, BusyType DEF HoldInv, StockInv
    <3> QED BY <2>2, <2>3, <3>1 DEF HoldFlight, HeldBy, Releases
  <2> QED BY <2>4, <2>5 DEF HoldInv
<1>2. ASSUME order' = order, held' = held, flight' = flight, crossed' = crossed
      PROVE  HoldInv'
  BY <1>2 DEF HoldInv, HoldSafe, HoldsMatchOrders, HeldBy, HoldFlight, Releases
<1> QED BY <1>1, <1>2 DEF AdjustStock, vars, stock

LEMMA HoldInvariant == Spec => []HoldInv
<1>1. Init => HoldInv
  <2> SUFFICES ASSUME Init PROVE HoldInv
    OBVIOUS
  <2>1. StockInv
    BY StockStarts
  <2>2. HoldSafe(Blank) /\ HeldBy(Blank) = NoItems
    BY DEF HoldSafe, Blank, HeldBy
  <2> QED BY <2>1, <2>2 DEF Init, HoldInv, HoldsMatchOrders
<1>2. HoldInv /\ StockInv' /\ [Next]_vars => HoldInv'
  BY ReadKeepsHolds, CommitKeepsHolds, OtherKeepsHolds DEF Next
<1> QED BY <1>1, <1>2, StockInvariant, PTL DEF Spec

\* With nothing assumed of how requests overlap, each order's net contribution
\* to reservedAreaSqm is exactly what its row holds, unless a cancellation, an
\* expiry, a promotion or a quotation wrote it on a read that a revision had
\* overtaken (updateStatus, releaseExpiredReservations and
\* promoteWaitlistedOrders read the items outside their transaction).
THEOREM HoldsMatch == Spec => []HoldsMatchOrders
<1>1. HoldInv => HoldsMatchOrders
  BY DEF HoldInv
<1> QED BY <1>1, HoldInvariant, PTL

\* A quotation that can be paid against belongs to an order that holds its
\* stock and is priced by the items it has, and only a PENDING order holds
\* any, with the same exception (sendQuotation, updateItems).
THEOREM QuotedOrdersHold == Spec => []QuotedOrdersHoldStock
<1>1. HoldInv => QuotedOrdersHoldStock
  BY DEF HoldInv, QuotedOrdersHoldStock, HoldSafe
<1> QED BY <1>1, HoldInvariant, PTL

-----------------------------------------------------------------------------
(* Sums over all orders.  Strict inclusion is well-founded on the subsets  *)
(* of a finite set, so what holds of every partial sum is shown for a least*)
(* set on which it might fail.                                             *)

\* The partial sums of f over the subsets of s, as the fold computes them.
Some(s) == CHOOSE o \in s : TRUE
Sums(f, s, g) ==
  g = [t \in SUBSET s |-> IF t = {} THEN 0 ELSE f[Some(t)] + g[t \ {Some(t)}]]

LEMMA SomeIsIn == \A s : s # {} => Some(s) \in s
BY DEF Some

LEMMA SumsOf ==
  ASSUME NEW f, NEW s, NEW g, Sums(f, s, g)
  PROVE  \A t \in SUBSET s :
           g[t] = IF t = {} THEN 0 ELSE f[Some(t)] + g[t \ {Some(t)}]
BY DEF Sums

\* A set of sets of orders has a minimal member.
LEMMA MinimalSubset ==
  ASSUME NEW T \in SUBSET SUBSET Orders, T # {}
  PROVE  \E s \in T : \A t \in SUBSET s : t # s => t \notin T
<1>1. IsWellFoundedOn(StrictSubsetOrdering(Orders), FiniteSubsetsOf(Orders))
  BY FS_StrictSubsetOrderingWellFounded
<1>2. FiniteSubsetsOf(Orders) = SUBSET Orders
  BY OrdersAssumption, FS_FiniteSubsetsOfFinite
<1>3. PICK s \in T : \A t \in T : <<t, s>> \notin StrictSubsetOrdering(Orders)
  BY <1>1, <1>2, WFMin
<1>4. ASSUME NEW t \in SUBSET s, t # s, t \in T
      PROVE  FALSE
  BY <1>3, <1>4 DEF StrictSubsetOrdering
<1> QED BY <1>3, <1>4

\* Partial sums are determined by f.
LEMMA SumsAgree ==
  ASSUME NEW f, NEW s \in SUBSET Orders, NEW g, Sums(f, s, g),
         NEW u \in SUBSET Orders, NEW h, Sums(f, u, h)
  PROVE  \A t \in (SUBSET s) \cap (SUBSET u) : g[t] = h[t]
<1> SUFFICES ASSUME NEW r \in (SUBSET s) \cap (SUBSET u), g[r] # h[r] PROVE FALSE
  OBVIOUS
<1> DEFINE Differ == {t \in (SUBSET s) \cap (SUBSET u) : g[t] # h[t]}
<1>1. Differ \in SUBSET SUBSET Orders /\ Differ # {}
  OBVIOUS
<1>2. PICK t \in Differ : \A q \in SUBSET t : q # t => q \notin Differ
  <2> HIDE DEF Differ
  <2> QED BY <1>1, MinimalSubset
<1>3. /\ \A q \in SUBSET s : g[q] = IF q = {} THEN 0 ELSE f[Some(q)] + g[q \ {Some(q)}]
      /\ \A q \in SUBSET u : h[q] = IF q = {} THEN 0 ELSE f[Some(q)] + h[q \ {Some(q)}]
  BY SumsOf
<1>4. t # {}
  BY <1>2, <1>3
<1>5. Some(t) \in t /\ t \ {Some(t)} \in SUBSET t /\ t \ {Some(t)} # t
  BY <1>4, SomeIsIn
<1>6. g[t \ {Some(t)}] = h[t \ {Some(t)}]
  BY <1>2, <1>5
<1>7. /\ g[t] = f[Some(t)] + g[t \ {Some(t)}]
      /\ h[t] = f[Some(t)] + h[t \ {Some(t)}]
  <2>1. t \in SUBSET s /\ t \in SUBSET u
    BY <1>2
  <2> HIDE DEF Differ
  <2> QED BY <1>4, <1>3, <2>1
<1> QED BY <1>2, <1>6, <1>7

\* They exist.
LEMMA SumsExist ==
  ASSUME NEW f
  PROVE  \A s \in SUBSET Orders : \E g : Sums(f, s, g)
<1> SUFFICES ASSUME NEW r \in SUBSET Orders, ~ \E g : Sums(f, r, g) PROVE FALSE
  OBVIOUS
<1> DEFINE Bad == {s \in SUBSET Orders : ~ \E g : Sums(f, s, g)}
           G(t) == CHOOSE g : Sums(f, t, g)
<1>1. PICK s \in Bad : \A t \in SUBSET s : t # s => t \notin Bad
  BY MinimalSubset
<1>2. ASSUME NEW t \in SUBSET s, t # s PROVE Sums(f, t, G(t))
  BY <1>1, <1>2
<1> HIDE DEF G
<1> DEFINE g == [t \in SUBSET s |->
                   IF t = {} THEN 0
                   ELSE f[Some(t)] + G(t \ {Some(t)})[t \ {Some(t)}]]
<1>3. ASSUME NEW t \in SUBSET s, t # s PROVE g[t] = G(t)[t]
  <2>1. CASE t = {}
    <3>1. Sums(f, t, G(t))
      BY <1>2, <1>3
    <3>2. G(t)[t] = 0
      BY <2>1, <3>1, SumsOf
    <3> QED BY <2>1, <3>2
  <2>2. CASE t # {}
    <3> DEFINE q == t \ {Some(t)}
    <3>1. q \in SUBSET s /\ q # s /\ q \in SUBSET t /\ q \in SUBSET q
      BY <1>3
    <3>2. G(t)[t] = f[Some(t)] + G(t)[q]
      BY <1>2, <1>3, <2>2, SumsOf
    <3>3. Sums(f, t, G(t)) /\ Sums(f, q, G(q)) /\ t \in SUBSET Orders
          /\ q \in SUBSET Orders
      BY <1>1, <1>2, <1>3, <3>1
    <3>4. G(t)[q] = G(q)[q]
      <4> HIDE DEF q
      <4>1. \A x \in (SUBSET t) \cap (SUBSET q) : G(t)[x] = G(q)[x]
        BY <3>3, SumsAgree
      <4> QED BY <3>1, <4>1
    <3> QED BY <2>2, <3>2, <3>4
  <2> QED BY <2>1, <2>2
<1>4. ASSUME NEW t \in SUBSET s
      PROVE  g[t] = IF t = {} THEN 0 ELSE f[Some(t)] + g[t \ {Some(t)}]
  <2> SUFFICES ASSUME t # {} PROVE g[t] = f[Some(t)] + g[t \ {Some(t)}]
    BY <1>4
  <2>1. t \ {Some(t)} \in SUBSET s /\ t \ {Some(t)} # s
    BY <1>4, SomeIsIn
  <2>2. g[t \ {Some(t)}] = G(t \ {Some(t)})[t \ {Some(t)}]
    BY <1>3, <2>1
  <2> QED BY <1>4, <2>2
<1>5. Sums(f, s, g)
  <2>1. g = [t \in SUBSET s |-> g[t]]
    OBVIOUS
  <2> HIDE DEF g
  <2> QED BY <1>4, <2>1 DEF Sums
<1> QED BY <1>1, <1>5

SumsOver(f) == CHOOSE g : Sums(f, Orders, g)

LEMMA TotalIs ==
  ASSUME NEW f
  PROVE  Sums(f, Orders, SumsOver(f)) /\ Total(f) = SumsOver(f)[Orders]
<1>1. Sums(f, Orders, SumsOver(f))
  BY SumsExist DEF SumsOver
<1>2. Total(f) = SumsOver(f)[Orders]
  BY DEF Total, MapThenSumSet, MapThenFoldSet, Some, Sums, SumsOver
<1> QED BY <1>1, <1>2

\* Adding d to what one order holds adds d to the total.
LEMMA TotalAdds ==
  ASSUME NEW f \in [Orders -> Int], NEW o \in Orders, NEW d \in Int, NEW h,
         h[o] = f[o] + d, \A x \in Orders \ {o} : h[x] = f[x]
  PROVE  Total(f) \in Int /\ Total(h) = Total(f) + d
<1>1. PICK g : Sums(f, Orders, g) /\ Total(f) = g[Orders]
  BY TotalIs
<1>2. PICK k : Sums(h, Orders, k) /\ Total(h) = k[Orders]
  BY TotalIs
<1> DEFINE Right(s) == g[s] \in Int /\ k[s] = g[s] + (IF o \in s THEN d ELSE 0)
           Wrong == {s \in SUBSET Orders : ~Right(s)}
<1>3. SUFFICES ASSUME Wrong # {} PROVE FALSE
  BY <1>1, <1>2, <1>3
<1>4. PICK s \in Wrong : \A t \in SUBSET s : t # s => t \notin Wrong
  BY <1>3, MinimalSubset
<1>5. \A t \in SUBSET Orders :
        g[t] = IF t = {} THEN 0 ELSE f[Some(t)] + g[t \ {Some(t)}]
  BY <1>1, SumsOf
<1>6. \A t \in SUBSET Orders :
        k[t] = IF t = {} THEN 0 ELSE h[Some(t)] + k[t \ {Some(t)}]
  BY <1>2, SumsOf
<1>7. s \in SUBSET Orders /\ ~Right(s)
  BY <1>4
<1>8. s # {}
  <2> SUFFICES ASSUME s = {} PROVE FALSE
    OBVIOUS
  <2>1. g[s] = 0 /\ k[s] = 0
    BY <1>5, <1>6, <1>7
  <2> QED BY <1>7, <2>1
<1> DEFINE x == Some(s)
           t == s \ {x}
<1>9. x \in s /\ t \in SUBSET s /\ t # s
  BY <1>8, SomeIsIn
<1>10. Right(t)
  BY <1>4, <1>9
<1>11. g[s] = f[x] + g[t] /\ k[s] = h[x] + k[t]
  BY <1>5, <1>6, <1>7, <1>8
<1>12. f[x] \in Int /\ h[x] = f[x] + (IF x = o THEN d ELSE 0)
  BY <1>4, <1>9
<1>13. (o \in s) <=> (x = o \/ o \in t)
  BY <1>9
<1>14. x \notin t
  OBVIOUS
<1> HIDE DEF x, t
<1> QED BY <1>4, <1>10, <1>11, <1>12, <1>13, <1>14

LEMMA TotalZero == Total([o \in Orders |-> 0]) = 0
<1> DEFINE f == [o \in Orders |-> 0]
<1>1. PICK g : Sums(f, Orders, g) /\ Total(f) = g[Orders]
  BY TotalIs
<1> DEFINE Wrong == {s \in SUBSET Orders : g[s] # 0}
<1>2. SUFFICES ASSUME Wrong # {} PROVE FALSE
  BY <1>1, <1>2
<1>3. PICK s \in Wrong : \A t \in SUBSET s : t # s => t \notin Wrong
  BY <1>2, MinimalSubset
<1>4. s # {}
  BY <1>1, <1>3, SumsOf
<1>5. Some(s) \in s /\ s \ {Some(s)} \in SUBSET s /\ s \ {Some(s)} # s
  BY <1>4, SomeIsIn
<1>6. g[s] = f[Some(s)] + g[s \ {Some(s)}]
  BY <1>1, <1>3, <1>4, SumsOf
<1> QED BY <1>3, <1>5, <1>6

-----------------------------------------------------------------------------
(* reservedAreaSqm is the sum of what the orders hold.                     *)

\* Every movement of the counter is on behalf of one order.
ReservedIsHeld ==
  \A p \in Products : reserved[p] = Total([o \in Orders |-> held[o][p]])

\* How a step moves the counter.
MovesReserved ==
  \/ reserved' = reserved /\ held' = held
  \/ \E o \in Orders, delta \in [Products -> Int] : AdjustReserved(o, delta)

LEMMA CommitMovesReserved ==
  ASSUME StockInv, NEW w \in Workers, CommitStep(w)
  PROVE  MovesReserved
<1> DEFINE f == flight[w]
           o == f.order
<1> USE DEF Kinds
<1>1. ASSUME NEW k \in Kinds, InFlight(w, k)
      PROVE  /\ o \in Orders
             /\ f.cart \in [Products -> Int] /\ NoItems \in [Products -> Int]
             /\ f.row.items \in [Products -> Int]
             /\ HeldBy(f.row) \in [Products -> Int]
  <2>1. o \in Orders /\ f \in Flight
    BY <1>1, InFlightType DEF StockInv
  <2> QED BY <2>1, FlightParts, AreaType
<1>2. \A d, e \in [Products -> Int] : Minus(d, e) \in [Products -> Int]
  BY AreaType
<1>3. CASE CheckoutCommit(w)
  BY <1>1, <1>3, CheckoutWrites DEF CheckoutCommit, MovesReserved
<1>4. CASE UpdateStatusCommit(w)
  BY <1>1, <1>2, <1>4, UpdateStatusWrites DEF UpdateStatusCommit, MovesReserved
<1>5. CASE UpdateItemsCommit(w)
  BY <1>1, <1>2, <1>5, UpdateItemsWrites DEF UpdateItemsCommit, MovesReserved
<1>6. CASE VerifyPaymentCommit(w)
  BY <1>1, <1>2, <1>6, VerifyPaymentWrites DEF VerifyPaymentCommit, MovesReserved
<1>7. CASE ExpireCommit(w)
  BY <1>1, <1>2, <1>7, ExpireWrites DEF ExpireCommit, MovesReserved
<1>8. CASE PromoteCommit(w)
  BY <1>1, <1>2, <1>8, PromoteWrites DEF PromoteCommit, MovesReserved
<1>9. CASE \/ SaveDeliveryCommit(w) \/ SendQuotationCommit(w)
           \/ ViewQuotationRender(w) \/ ViewQuotationStamp(w)
           \/ MarkPaymentSubmittedCommit(w) \/ RejectPaymentCommit(w) \/ Drop(w)
  BY <1>9 DEF SaveDeliveryCommit, SendQuotationCommit, ViewQuotationRender,
              ViewQuotationStamp, MarkPaymentSubmittedCommit, RejectPaymentCommit,
              Drop, stock, MovesReserved
<1> QED BY <1>3, <1>4, <1>5, <1>6, <1>7, <1>8, <1>9 DEF CommitStep

LEMMA ReservedStaysHeld ==
  ASSUME TypeOK, ReservedIsHeld, MovesReserved
  PROVE  ReservedIsHeld'
<1>1. CASE reserved' = reserved /\ held' = held
  BY <1>1 DEF ReservedIsHeld
<1>2. ASSUME NEW o \in Orders, NEW delta \in [Products -> Int],
             AdjustReserved(o, delta), NEW p \in Products
      PROVE  reserved'[p] = Total([x \in Orders |-> held'[x][p]])
  <2> DEFINE f == [x \in Orders |-> held[x][p]]
             h == [x \in Orders |-> held'[x][p]]
  <2>1. f \in [Orders -> Int]
    BY DEF TypeOK
  <2>2. h[o] = f[o] + delta[p] /\ \A x \in Orders \ {o} : h[x] = f[x]
    BY <1>2 DEF AdjustReserved, Plus, TypeOK
  <2>3. reserved'[p] = reserved[p] + delta[p] /\ reserved[p] = Total(f)
    BY <1>2 DEF AdjustReserved, Plus, ReservedIsHeld
  <2>4. delta[p] \in Int
    OBVIOUS
  <2> HIDE DEF f, h
  <2>5. Total(h) = Total(f) + delta[p]
    BY <2>1, <2>2, <2>4, TotalAdds
  <2> QED BY <2>3, <2>5 DEF h
<1> QED BY <1>1, <1>2 DEF MovesReserved, ReservedIsHeld

LEMMA ReservedInvariant == Spec => []ReservedIsHeld
<1>1. Init => ReservedIsHeld
  <2> SUFFICES ASSUME Init, NEW p \in Products
               PROVE  reserved[p] = Total([o \in Orders |-> held[o][p]])
    BY DEF ReservedIsHeld
  <2>1. reserved[p] = 0 /\ [o \in Orders |-> held[o][p]] = [o \in Orders |-> 0]
    BY DEF Init, NoItems
  <2> QED BY <2>1, TotalZero
<1>2. StockInv /\ ReservedIsHeld /\ [Next]_vars => ReservedIsHeld'
  <2> SUFFICES ASSUME StockInv, ReservedIsHeld, [Next]_vars PROVE ReservedIsHeld'
    OBVIOUS
  <2>1. ASSUME NEW w \in Workers, NEW o \in Orders, ReadStep(w, o)
        PROVE  UNCHANGED <<order, stock>>
    BY <2>1 DEF ReadStep, Start, CheckoutRead, UpdateStatusRead, UpdateItemsRead,
                SaveDeliveryRead, SendQuotationRead, ViewQuotationOpen,
                MarkPaymentSubmittedRead, RejectPaymentRead, VerifyPaymentRead,
                ExpireRead, PromoteRead
  <2>2. MovesReserved
    BY <2>1, CommitMovesReserved
       DEF Next, Lapse, AdjustStock, vars, stock, MovesReserved
  <2> QED BY <2>2, ReservedStaysHeld DEF StockInv
<1> QED BY <1>1, <1>2, StockInvariant, PTL DEF Spec

\* reservedAreaSqm of every product is the sum of the items of the orders that
\* hold stock and of what the crossed orders have reserved and not released,
\* for any number of orders and requests in flight (reserveAreaAtomically and
\* bulkAdjustProductArea, by which every handler moves the counter).
THEOREM ReservedCounts == Spec => []ReservedIsAccountedFor
<1>1. ReservedIsHeld /\ HoldsMatchOrders => ReservedIsAccountedFor
  <2> SUFFICES ASSUME ReservedIsHeld, HoldsMatchOrders, NEW p \in Products
               PROVE  reserved[p] = Total([o \in Orders |->
                        IF o \in crossed THEN held[o][p] ELSE HeldBy(order[o])[p]])
    BY DEF ReservedIsAccountedFor
  <2>1. [o \in Orders |-> held[o][p]]
          = [o \in Orders |-> IF o \in crossed THEN held[o][p]
                              ELSE HeldBy(order[o])[p]]
    BY DEF HoldsMatchOrders
  <2> QED BY <2>1 DEF ReservedIsHeld
<1> QED BY <1>1, ReservedInvariant, HoldsMatch, PTL

-----------------------------------------------------------------------------
(* What is paid was seen.                                                  *)

Quoted(r) == [fee |-> r.fee, priced |-> r.priced]

\* A quotation that is out and was seen was seen as it is; one that was paid
\* was seen, or the order is the sales staff's.
PaidSafe(r) ==
  /\ r.quotation # "AWAITING_REVIEW" /\ r.seen # Unseen => r.seen = Quoted(r)
  /\ r.quotation \in {"PAYMENT_SUBMITTED", "PAYMENT_VERIFIED"} /\ ~r.byStaff
       => r.seen # Unseen

\* A rendered version is the current one while its quotationSentAt stands.
PaidFlight(f) ==
  /\ f.kind = "renderQuotation" /\ "quotationSentAt" \in f.fresh
       => Quoted(f.row) = Quoted(order[f.order])
  /\ f.kind = "markPaymentSubmitted" /\ f.assisted => order[f.order].byStaff

PaidInv ==
  /\ \A o \in Orders : PaidSafe(order[o])
  /\ \A w \in Workers : flight[w] # Idle => PaidFlight(flight[w])

LEMMA TurnKeepsPaid ==
  ASSUME TypeOK, PaidInv, NEW w \in Workers, NEW g,
         flight' = [flight EXCEPT ![w] = g], order' = order,
         g # Idle => PaidFlight(g)
  PROVE  PaidInv'
<1>1. (\A o \in Orders : PaidSafe(order[o]))'
  BY DEF PaidInv, PaidSafe, Quoted
<1>2. ASSUME NEW v \in Workers, flight'[v] # Idle PROVE PaidFlight(flight[v])'
  <2>1. flight'[v] = IF v = w THEN g ELSE flight[v]
    BY DEF TypeOK
  <2>2. PaidFlight(flight'[v])
    BY <1>2, <2>1 DEF PaidInv
  <2> QED BY <2>2 DEF PaidFlight, Quoted
<1> QED BY <1>1, <1>2 DEF PaidInv

LEMMA ReadKeepsPaid ==
  ASSUME TypeOK, PaidInv, NEW w \in Workers, NEW o \in Orders, ReadStep(w, o)
  PROVE  PaidInv'
<1>1. PICK f \in Flight :
        /\ Start(w, f.kind, f) /\ f.order = o /\ f.row = order[o]
        /\ f.kind # "renderQuotation"
        /\ f.kind = "markPaymentSubmitted" /\ f.assisted => order[o].byStaff
  BY ReadsRow
<1>2. PaidFlight(f)
  BY <1>1 DEF PaidFlight
<1>3. flight' = [flight EXCEPT ![w] = f] /\ order' = order
  BY <1>1 DEF Start
<1> QED BY <1>2, <1>3, TurnKeepsPaid

\* A claim that writes a safe row, and replaces quotationSentAt if it changes
\* the quotation.
LEMMA WriteKeepsPaid ==
  ASSUME TypeOK, PaidInv, NEW w \in Workers, flight[w] # Idle, NEW new, NEW stamps,
         Write(w, flight[w].order, new, stamps), PaidSafe(new),
         \/ Quoted(new) = Quoted(order[flight[w].order])
         \/ "quotationSentAt" \in stamps,
         new.byStaff = order[flight[w].order].byStaff \/ Alone(w)
  PROVE  PaidInv'
<1> DEFINE o == flight[w].order
           row == order[o]
<1>1. o \in Orders
  BY BusyType
<1>2. order' = [order EXCEPT ![o] = new]
  BY DEF Write
<1>3. (\A x \in Orders : PaidSafe(order[x]))'
  BY <1>1, <1>2 DEF PaidInv, TypeOK
<1>4. ASSUME NEW v \in Workers, flight'[v] # Idle
      PROVE  PaidFlight(flight[v])'
  <2> DEFINE f == flight[v]
             g == flight'[v]
  <2>1. /\ v # w /\ f # Idle /\ f \in Flight /\ f.order \in Orders
        /\ g.kind = f.kind /\ g.order = f.order /\ g.row = f.row
        /\ g.assisted = f.assisted /\ g.fresh \subseteq f.fresh
        /\ f.order = o => g.fresh \cap stamps = {}
        /\ f.order # o => order'[f.order] = order[f.order]
        /\ order'[o] = new
    BY <1>1, <1>4, OthersAfterWrite
  <2>2. PaidFlight(f)
    BY <2>1 DEF PaidInv
  <2>3. CASE f.order # o
    BY <2>1, <2>2, <2>3 DEF PaidFlight, Quoted
  <2>4. CASE f.order = o
    <3>1. new.byStaff = row.byStaff
      BY <2>1, <2>4 DEF Alone
    <3>2. "quotationSentAt" \in g.fresh => Quoted(new) = Quoted(row)
      BY <2>1, <2>4
    <3> QED BY <2>1, <2>2, <2>4, <3>1, <3>2 DEF PaidFlight, Quoted
  <2> QED BY <2>3, <2>4
<1> QED BY <1>3, <1>4 DEF PaidInv

LEMMA CommitKeepsPaid ==
  ASSUME StockInv, PaidInv, NEW w \in Workers, CommitStep(w)
  PROVE  PaidInv'
<1> DEFINE f == flight[w]
           o == f.order
           row == order[o]
<1> USE DEF Kinds
<1>0. TypeOK
  BY DEF StockInv
<1>1. ASSUME NEW k \in Kinds, InFlight(w, k)
      PROVE  f # Idle /\ o \in Orders /\ f.kind = k /\ PaidSafe(row) /\ PaidFlight(f)
  BY <1>1, ClaimState DEF PaidInv
<1>2. ASSUME NEW new, SamePrice(new, row), SamePlace(new, row)
      PROVE  /\ Quoted(new) = Quoted(row) /\ new.byStaff = row.byStaff
             /\ PaidSafe(row) /\ new.quotation = row.quotation => PaidSafe(new)
  BY <1>2 DEF SamePrice, SamePlace, Quoted, PaidSafe
<1>3. CASE CheckoutCommit(w)
  <2>1. f # Idle /\ Alone(w)
    BY <1>1, <1>3 DEF CheckoutCommit, StockInv, FlightSafe
  <2>2. PICK new \in Row : /\ Write(w, o, new, Stamps) /\ new.seen = Unseen
                           /\ new.quotation = "AWAITING_REVIEW"
    BY <1>3, CheckoutWrites
  <2>3. PaidSafe(new) /\ "quotationSentAt" \in Stamps
    BY <2>2 DEF PaidSafe, Stamps
  <2> QED BY <1>0, <2>1, <2>2, <2>3, WriteKeepsPaid
<1>4. CASE UpdateStatusCommit(w)
  <2>1. f # Idle /\ PaidSafe(row)
    BY <1>1, <1>4 DEF UpdateStatusCommit
  <2>2. PICK new \in Row : \E stamps :
          /\ Write(w, o, new, stamps) /\ new.quotation = row.quotation
          /\ SamePrice(new, row) /\ SamePlace(new, row)
    BY <1>4, UpdateStatusWrites
  <2> QED BY <1>0, <1>2, <2>1, <2>2, WriteKeepsPaid
<1>5. CASE UpdateItemsCommit(w)
  <2>1. f # Idle
    BY <1>1, <1>5 DEF UpdateItemsCommit
  <2>2. PICK new \in Row :
          /\ Write(w, o, new, {"reservationExpiresAt", "quotationSentAt"})
          /\ new.quotation = "AWAITING_REVIEW" /\ new.seen = Unseen
          /\ SamePlace(new, row)
    BY <1>5, UpdateItemsWrites
  <2>3. PaidSafe(new) /\ new.byStaff = row.byStaff
    BY <2>2 DEF PaidSafe, SamePlace
  <2> QED BY <1>0, <2>1, <2>2, <2>3, WriteKeepsPaid
<1>6. CASE SaveDeliveryCommit(w)
  <2>1. f # Idle /\ PaidSafe(row)
    BY <1>1, <1>6 DEF SaveDeliveryCommit
  <2>2. PICK new \in Row :
          /\ Write(w, o, new, {}) /\ new.quotation = row.quotation
          /\ SamePrice(new, row) /\ new.byStaff = row.byStaff
    BY <1>6, SaveDeliveryWrites
  <2>3. PaidSafe(new) /\ Quoted(new) = Quoted(row)
    BY <2>1, <2>2 DEF PaidSafe, SamePrice, Quoted
  <2> QED BY <1>0, <2>1, <2>2, <2>3, WriteKeepsPaid
<1>7. CASE SendQuotationCommit(w)
  <2>1. f # Idle
    BY <1>1, <1>7 DEF SendQuotationCommit
  <2>2. PICK new \in Row :
          /\ Write(w, o, new, {"reservationExpiresAt", "quotationSentAt"})
          /\ new.quotation = "QUOTATION_SENT" /\ new.seen = Unseen
          /\ SamePlace(new, row)
    BY <1>7, SendQuotationWrites
  <2>3. PaidSafe(new) /\ new.byStaff = row.byStaff
    BY <2>2 DEF PaidSafe, SamePlace
  <2> QED BY <1>0, <2>1, <2>2, <2>3, WriteKeepsPaid
<1>8. CASE ViewQuotationRender(w)
  <2> DEFINE g == Read("renderQuotation", o, {"quotationSentAt"})
  <2>1. PaidFlight(g)
    BY DEF PaidFlight, Read
  <2>2. flight' = [flight EXCEPT ![w] = g] /\ order' = order
    BY <1>8 DEF ViewQuotationRender
  <2> HIDE DEF g
  <2> QED BY <1>0, <2>1, <2>2, TurnKeepsPaid
<1>9. CASE ViewQuotationStamp(w)
  <2>1. /\ f # Idle /\ PaidSafe(row) /\ PaidFlight(f)
        /\ f.kind = "renderQuotation"
    BY <1>1, <1>9 DEF ViewQuotationStamp
  <2>2. PICK new \in Row :
          /\ Write(w, o, new, {})
          /\ new.quotation = row.quotation
          /\ new.fee = row.fee /\ new.priced = row.priced
          /\ new.seen = Quoted(f.row) /\ SamePlace(new, row)
    BY <1>9, StampWrites DEF Quoted
  <2>3. /\ row.seen = Unseen
        /\ IF f.row.quotation = "AWAITING_REVIEW"
             THEN row.quotation = "AWAITING_REVIEW"
             ELSE "quotationSentAt" \in f.fresh
    BY <1>9, StampWrites
  <2>4. Quoted(new) = Quoted(row) /\ new.byStaff = row.byStaff
    BY <2>2 DEF Quoted, SamePlace
  <2>5. PaidSafe(new)
    <3>1. CASE row.quotation = "AWAITING_REVIEW"
      BY <2>2, <3>1 DEF PaidSafe
    <3>2. CASE "quotationSentAt" \in f.fresh
      <4>1. new.seen = Quoted(new)
        BY <2>1, <2>2, <2>4, <3>2 DEF PaidFlight
      <4>2. row.quotation \in {"PAYMENT_SUBMITTED", "PAYMENT_VERIFIED"}
              => row.byStaff
        BY <2>1, <2>3 DEF PaidSafe
      <4> QED BY <2>2, <2>4, <4>1, <4>2 DEF PaidSafe
    <3> QED BY <2>3, <3>1, <3>2
  <2> QED BY <1>0, <2>1, <2>2, <2>4, <2>5, WriteKeepsPaid
<1>10. CASE MarkPaymentSubmittedCommit(w)
  <2>1. /\ f # Idle /\ PaidSafe(row) /\ PaidFlight(f)
        /\ f.kind = "markPaymentSubmitted"
    BY <1>1, <1>10 DEF MarkPaymentSubmittedCommit
  <2>2. PICK new \in Row :
          /\ Write(w, o, new, {}) /\ new.quotation = "PAYMENT_SUBMITTED"
          /\ SamePrice(new, row) /\ SamePlace(new, row)
    BY <1>10, MarkPaymentSubmittedWrites
  <2>3. row.quotation = "QUOTATION_SENT" /\ (f.assisted \/ row.seen # Unseen)
    BY <1>10, MarkPaymentSubmittedWrites
  <2>4. PaidSafe(new)
    BY <2>1, <2>2, <2>3
       DEF PaidSafe, PaidFlight, SamePrice, SamePlace, Quoted
  <2> QED BY <1>0, <1>2, <2>1, <2>2, <2>4, WriteKeepsPaid
<1>11. CASE RejectPaymentCommit(w)
  <2>1. f # Idle /\ PaidSafe(row)
    BY <1>1, <1>11 DEF RejectPaymentCommit
  <2>2. PICK new \in Row : \E stamps :
          /\ Write(w, o, new, stamps) /\ new.quotation = "QUOTATION_SENT"
          /\ SamePrice(new, row) /\ SamePlace(new, row)
    BY <1>11, RejectPaymentWrites
  <2>3. row.quotation = "PAYMENT_SUBMITTED"
    BY <1>11, RejectPaymentWrites
  <2>4. PaidSafe(new)
    BY <2>1, <2>2, <2>3 DEF PaidSafe, SamePrice, SamePlace, Quoted
  <2> QED BY <1>0, <1>2, <2>1, <2>2, <2>4, WriteKeepsPaid
<1>12. CASE VerifyPaymentCommit(w)
  <2>1. f # Idle /\ PaidSafe(row)
    BY <1>1, <1>12 DEF VerifyPaymentCommit
  <2>2. PICK new \in Row : \E stamps :
          /\ Write(w, o, new, stamps) /\ new.quotation = "PAYMENT_VERIFIED"
          /\ SamePrice(new, row) /\ SamePlace(new, row)
    BY <1>12, VerifyPaymentWrites
  <2>3. row.quotation = "PAYMENT_SUBMITTED"
    BY <1>12, VerifyPaymentWrites
  <2>4. PaidSafe(new)
    BY <2>1, <2>2, <2>3 DEF PaidSafe, SamePrice, SamePlace, Quoted
  <2> QED BY <1>0, <1>2, <2>1, <2>2, <2>4, WriteKeepsPaid
<1>13. CASE ExpireCommit(w)
  <2>1. f # Idle /\ PaidSafe(row)
    BY <1>1, <1>13 DEF ExpireCommit
  <2>2. PICK new \in Row :
          /\ Write(w, o, new, {"reservationExpiresAt"})
          /\ new.quotation = row.quotation
          /\ SamePrice(new, row) /\ SamePlace(new, row)
    BY <1>13, ExpireWrites
  <2> QED BY <1>0, <1>2, <2>1, <2>2, WriteKeepsPaid
<1>14. CASE PromoteCommit(w)
  <2>1. f # Idle /\ PaidSafe(row)
    BY <1>1, <1>14 DEF PromoteCommit
  <2>2. PICK new \in Row :
          /\ Write(w, o, new, {"reservationExpiresAt"})
          /\ new.quotation = row.quotation
          /\ SamePrice(new, row) /\ SamePlace(new, row)
    BY <1>14, PromoteWrites
  <2> QED BY <1>0, <1>2, <2>1, <2>2, WriteKeepsPaid
<1>15. CASE Drop(w)
  BY <1>0, <1>15, TurnKeepsPaid DEF Drop
<1> QED BY <1>3, <1>4, <1>5, <1>6, <1>7, <1>8, <1>9, <1>10, <1>11, <1>12, <1>13,
           <1>14, <1>15 DEF CommitStep

LEMMA OtherKeepsPaid ==
  ASSUME TypeOK, PaidInv,
         \/ \E o \in Orders : Lapse(o)
         \/ \E p \in Products, change \in Corrections : AdjustStock(p, change)
         \/ UNCHANGED vars
  PROVE  PaidInv'
<1>1. ASSUME NEW o \in Orders, Lapse(o) PROVE PaidInv'
  <2>1. order' = [order EXCEPT ![o].hold = "lapsed"] /\ flight' = flight
    BY <1>1 DEF Lapse
  <2>2. \A x \in Orders :
          /\ order'[x].quotation = order[x].quotation
          /\ order'[x].seen = order[x].seen /\ order'[x].byStaff = order[x].byStaff
          /\ Quoted(order'[x]) = Quoted(order[x])
    BY <2>1 DEF TypeOK, Row, Quoted
  <2>3. (\A x \in Orders : PaidSafe(order[x]))'
    BY <2>2 DEF PaidInv, PaidSafe, Quoted
  <2>4. ASSUME NEW v \in Workers, flight'[v] # Idle PROVE PaidFlight(flight[v])'
    <3>1. PaidFlight(flight[v]) /\ flight[v].order \in Orders /\ flight'[v] = flight[v]
      BY <2>1, <2>4, BusyType DEF PaidInv
    <3> QED BY <2>2, <3>1 DEF PaidFlight, Quoted
  <2> QED BY <2>3, <2>4 DEF PaidInv
<1>2. ASSUME order' = order, flight' = flight PROVE PaidInv'
  BY <1>2 DEF PaidInv, PaidSafe, PaidFlight, Quoted
<1> QED BY <1>1, <1>2 DEF AdjustStock, vars

\* A payment that a customer declared and staff verified is for the very
\* quotation the customer opened, whichever revisions, new quotations and
\* renderings overlap (viewQuotation and markPaymentSubmitted, which pin
\* quotationSentAt).
THEOREM PaidWasSeen == Spec => []PaidWhatWasSeen
<1>1. Init => PaidInv
  BY DEF Init, PaidInv, PaidSafe, Blank
<1>2. StockInv /\ PaidInv /\ [Next]_vars => PaidInv'
  <2> SUFFICES ASSUME StockInv, PaidInv, [Next]_vars PROVE PaidInv'
    OBVIOUS
  <2>1. TypeOK
    BY DEF StockInv
  <2> QED BY <2>1, ReadKeepsPaid, CommitKeepsPaid, OtherKeepsPaid DEF Next
<1>3. PaidInv => PaidWhatWasSeen
  BY DEF PaidInv, PaidSafe, PaidWhatWasSeen, Quoted
<1> QED BY <1>1, <1>2, <1>3, StockInvariant, PTL DEF Spec

-----------------------------------------------------------------------------
(* No more is reserved than there is.                                      *)

\* A customer's checkout that was short of tiles was put on the waitlist.
PromisedInv ==
  /\ NeverOversold
  /\ \A w \in Workers :
       flight[w] # Idle /\ flight[w].kind = "checkout" /\ flight[w].next = "PENDING"
         => ~flight[w].short

\* A guarded reservation, a release and a deduction of what is released keep
\* the counter within the shelf.
LEMMA StaysWithin ==
  ASSUME TypeOK, NeverOversold, NEW o \in Orders, NEW d \in [Products -> Int],
         AdjustReserved(o, d)
  PROVE  /\ CanReserve(d) /\ onHand' = onHand => NeverOversold'
         /\ \A e \in [Products -> Int] :
              AdjustTaken(o, e) /\ (\A p \in Products : d[p] <= -e[p]) => NeverOversold'
<1>1. \A p \in Products : /\ reserved'[p] = reserved[p] + d[p]
                          /\ reserved[p] \in Int /\ onHand[p] \in Int /\ d[p] \in Int
                          /\ reserved[p] <= onHand[p]
  BY DEF AdjustReserved, Plus, TypeOK, NeverOversold
<1>2. CanReserve(d) /\ onHand' = onHand => NeverOversold'
  BY <1>1 DEF CanReserve, NeverOversold
<1>3. ASSUME NEW e \in [Products -> Int], AdjustTaken(o, e),
             \A p \in Products : d[p] <= -e[p], NEW p \in Products
      PROVE  reserved'[p] <= onHand'[p]
  <2>1. onHand'[p] = onHand[p] - e[p] /\ e[p] \in Int
    BY <1>3 DEF AdjustTaken, Minus
  <2> QED BY <1>1, <1>3, <2>1
<1> QED BY <1>2, <1>3 DEF NeverOversold

LEMMA CommitNeverOversells ==
  ASSUME StockInv, PromisedInv, NEW w \in Workers, CommitStep(w)
  PROVE  NeverOversold'
<1> DEFINE f == flight[w]
           o == f.order
           row == order[o]
           back == Minus(NoItems, f.row.items)
<1> USE DEF Kinds
<1>0. TypeOK /\ NeverOversold
  BY DEF StockInv, PromisedInv
<1>1. ASSUME NEW k \in Kinds, InFlight(w, k)
      PROVE  /\ f # Idle /\ o \in Orders /\ f.kind = k
             /\ f.cart \in [Products -> Nat] /\ f.row.items \in [Products -> Nat]
             /\ f.cart \in [Products -> Int] /\ f.row.items \in [Products -> Int]
             /\ HeldBy(f.row) \in [Products -> Int]
  <2>1. f # Idle /\ f.kind = k /\ o \in Orders /\ f \in Flight
    BY <1>1, ClaimState
  <2> QED BY <2>1, FlightParts, AreaType
<1>2. /\ NoItems \in [Products -> Int]
      /\ \A d, e \in [Products -> Int] : Minus(d, e) \in [Products -> Int]
  BY AreaType
<1>3. ASSUME f.row.items \in [Products -> Nat]
      PROVE  \A p \in Products : back[p] = -f.row.items[p] /\ back[p] <= 0
                                 /\ NoItems[p] = 0 /\ f.row.items[p] \in Nat
  BY <1>3 DEF Minus, NoItems
<1>4. CanReserve(NoItems)
  BY DEF CanReserve, NoItems
<1>5. ASSUME f.row.items \in [Products -> Nat] PROVE CanReserve(back)
  BY <1>3, <1>5 DEF CanReserve
<1>6. CASE CheckoutCommit(w)
  <2> DEFINE d == IF f.next = "PENDING" THEN f.cart ELSE NoItems
  <2>1. /\ o \in Orders /\ d \in [Products -> Int] /\ f # Idle
        /\ f.kind = "checkout"
    BY <1>1, <1>2, <1>6 DEF CheckoutCommit
  <2>2. /\ f.next = "PENDING" /\ ~f.short => CanReserve(f.cart)
        /\ AdjustReserved(o, d) /\ onHand' = onHand
    BY <1>6, CheckoutWrites
  <2>3. CanReserve(d)
    BY <1>4, <2>1, <2>2 DEF PromisedInv
  <2> HIDE DEF d
  <2> QED BY <1>0, <2>1, <2>2, <2>3, StaysWithin
<1>7. CASE UpdateStatusCommit(w)
  <2> DEFINE d == IF Releases(f) THEN back ELSE NoItems
             e == IF Returns(f) THEN back ELSE NoItems
  <2>1. o \in Orders /\ f.row.items \in [Products -> Nat]
    BY <1>1, <1>7 DEF UpdateStatusCommit
  <2>2. back \in [Products -> Int]
    BY <1>1, <1>2, <1>7 DEF UpdateStatusCommit
  <2>3. d \in [Products -> Int] /\ e \in [Products -> Int]
    BY <1>2, <2>2
  <2>4. \A p \in Products : d[p] <= -e[p]
    BY <1>3, <2>1
  <2>5. AdjustReserved(o, d) /\ AdjustTaken(o, e)
    BY <1>7, UpdateStatusWrites
  <2> HIDE DEF d, e
  <2> QED BY <1>0, <2>1, <2>3, <2>4, <2>5, StaysWithin
<1>8. CASE UpdateItemsCommit(w)
  <2> DEFINE d == Minus(IF f.next = "PENDING" THEN f.cart ELSE NoItems, HeldBy(f.row))
  <2>1. o \in Orders /\ d \in [Products -> Int]
    BY <1>1, <1>2, <1>8 DEF UpdateItemsCommit
  <2>2. CanReserve(d) /\ AdjustReserved(o, d) /\ onHand' = onHand
    BY <1>8, UpdateItemsWrites
  <2> HIDE DEF d
  <2> QED BY <1>0, <2>1, <2>2, StaysWithin
<1>9. CASE VerifyPaymentCommit(w)
  <2>1. /\ o \in Orders /\ f.row.items \in [Products -> Nat]
        /\ f.row.items \in [Products -> Int]
    BY <1>1, <1>9 DEF VerifyPaymentCommit
  <2>2. AdjustReserved(o, back) /\ AdjustTaken(o, f.row.items)
    BY <1>9, VerifyPaymentWrites
  <2>3. back \in [Products -> Int] /\ \A p \in Products : back[p] <= -f.row.items[p]
    BY <1>2, <1>3, <2>1
  <2> HIDE DEF back
  <2> QED BY <1>0, <2>1, <2>2, <2>3, StaysWithin
<1>10. CASE ExpireCommit(w)
  <2>1. /\ o \in Orders /\ f.row.items \in [Products -> Nat]
        /\ f.row.items \in [Products -> Int]
    BY <1>1, <1>10 DEF ExpireCommit
  <2>2. AdjustReserved(o, back) /\ onHand' = onHand
    BY <1>10, ExpireWrites
  <2>3. back \in [Products -> Int] /\ CanReserve(back)
    BY <1>2, <1>5, <2>1
  <2> HIDE DEF back
  <2> QED BY <1>0, <2>1, <2>2, <2>3, StaysWithin
<1>11. CASE PromoteCommit(w)
  <2>1. o \in Orders /\ f.row.items \in [Products -> Int]
    BY <1>1, <1>11 DEF PromoteCommit
  <2>2. CanReserve(f.row.items) /\ AdjustReserved(o, f.row.items) /\ onHand' = onHand
    BY <1>11, PromoteWrites
  <2> QED BY <1>0, <2>1, <2>2, StaysWithin
<1>12. CASE \/ SaveDeliveryCommit(w) \/ SendQuotationCommit(w)
            \/ ViewQuotationRender(w) \/ ViewQuotationStamp(w)
            \/ MarkPaymentSubmittedCommit(w) \/ RejectPaymentCommit(w) \/ Drop(w)
  BY <1>0, <1>12 DEF SaveDeliveryCommit, SendQuotationCommit, ViewQuotationRender,
       ViewQuotationStamp, MarkPaymentSubmittedCommit, RejectPaymentCommit,
       Drop, stock, NeverOversold
<1> QED BY <1>6, <1>7, <1>8, <1>9, <1>10, <1>11, <1>12 DEF CommitStep

\* No commit turns another request into a short checkout.
LEMMA CommitKeepsChecked ==
  ASSUME StockInv, PromisedInv, NEW w \in Workers, CommitStep(w), NEW v \in Workers,
         flight'[v] # Idle, flight'[v].kind = "checkout", flight'[v].next = "PENDING"
  PROVE  ~flight'[v].short
<1> DEFINE Kept == /\ flight[v] # Idle /\ flight[v].kind = "checkout"
                   /\ flight[v].next = "PENDING"
                   /\ flight'[v].short = flight[v].short
<1>1. Kept
  <2>0. TypeOK
    BY DEF StockInv
  <2>1. CASE Drop(w)
    BY <2>0, <2>1 DEF Drop, TypeOK
  <2>2. CASE ViewQuotationRender(w)
    BY <2>0, <2>2 DEF ViewQuotationRender, TypeOK, Read
  <2>3. ASSUME NEW k \in Kinds, InFlight(w, k),
               \E new, stamps : Write(w, flight[w].order, new, stamps)
        PROVE  Kept
    <3>1. flight[w].order \in Orders
      BY <2>3, ClaimState
    <3> QED BY <2>0, <2>3, <3>1, OthersAfterWrite
  <2> QED BY <2>1, <2>2, <2>3
          DEF CommitStep, Kinds, CheckoutCommit, UpdateStatusCommit,
              UpdateItemsCommit, SaveDeliveryCommit, SendQuotationCommit,
              ViewQuotationStamp, MarkPaymentSubmittedCommit, RejectPaymentCommit,
              VerifyPaymentCommit, ExpireCommit, PromoteCommit
<1> QED BY <1>1 DEF PromisedInv

\* No more is reserved than is on hand, for any number of products, orders and
\* requests in flight, as long as no order is forced through by staff and
\* corrections only add stock (reserveAreaAtomically and the validation of
\* create).
THEOREM NeverOversells ==
  ASSUME Placers \subseteq {"CUSTOMER"}, Corrections \subseteq Nat
  PROVE  Spec => []NeverOversold
<1>1. Init => PromisedInv
  BY StockAssumption DEF Init, PromisedInv, NeverOversold, NoItems
<1>2. StockInv /\ PromisedInv /\ [Next]_vars => PromisedInv'
  <2> SUFFICES ASSUME StockInv, PromisedInv, [Next]_vars PROVE PromisedInv'
    OBVIOUS
  <2>0. TypeOK
    BY DEF StockInv
  <2>1. ASSUME NEW w \in Workers, NEW o \in Orders, ReadStep(w, o)
        PROVE  PromisedInv'
    <3>1. PICK f \in Flight :
            /\ Start(w, f.kind, f)
            /\ f.kind = "checkout" /\ f.next = "PENDING" => ~f.short
      BY <2>0, <2>1, ReadsRow
    <3>2. /\ flight' = [flight EXCEPT ![w] = f]
          /\ reserved' = reserved /\ onHand' = onHand
      BY <3>1 DEF Start, stock
    <3> QED BY <2>0, <3>1, <3>2 DEF PromisedInv, NeverOversold, TypeOK
  <2>2. ASSUME NEW w \in Workers, CommitStep(w) PROVE PromisedInv'
    BY <2>2, CommitNeverOversells, CommitKeepsChecked DEF PromisedInv
  <2>3. ASSUME NEW p \in Products, NEW change \in Corrections, AdjustStock(p, change)
        PROVE  PromisedInv'
    <3>1. /\ onHand' = [onHand EXCEPT ![p] = @ + change] /\ change \in Nat
          /\ reserved' = reserved /\ flight' = flight
      BY <2>3 DEF AdjustStock
    <3>2. NeverOversold'
      BY <2>0, <3>1 DEF PromisedInv, NeverOversold, TypeOK
    <3> QED BY <3>1, <3>2 DEF PromisedInv
  <2>4. CASE (\E o \in Orders : Lapse(o)) \/ UNCHANGED vars
    BY <2>4 DEF Lapse, vars, stock, PromisedInv, NeverOversold
  <2> QED BY <2>1, <2>2, <2>3, <2>4 DEF Next
<1>3. PromisedInv => NeverOversold
  BY DEF PromisedInv
<1> QED BY <1>1, <1>2, <1>3, StockInvariant, PTL DEF Spec

-----------------------------------------------------------------------------
(* Delivery details are locked once a quotation is out.                    *)

\* What DeliveryLocked says of a step.
Locked ==
  \A o \in Orders : order[o].quotation # "AWAITING_REVIEW"
                      => order'[o].delivery = order[o].delivery

LEMMA WriteKeepsDelivery ==
  ASSUME TypeOK, NEW w \in Workers, NEW o \in Orders, NEW new, NEW stamps,
         Write(w, o, new, stamps),
         \/ new.delivery = order[o].delivery
         \/ order[o].quotation = "AWAITING_REVIEW"
  PROVE  Locked
BY DEF Write, Locked, TypeOK

LEMMA CommitKeepsDelivery ==
  ASSUME StockInv, NEW w \in Workers, CommitStep(w)
  PROVE  Locked
<1> DEFINE o == flight[w].order
           row == order[o]
<1>0. TypeOK
  BY DEF StockInv
<1>1. ASSUME NEW k \in Kinds, InFlight(w, k), NEW new, NEW stamps,
             Write(w, o, new, stamps),
             SamePlace(new, row) \/ row.quotation = "AWAITING_REVIEW"
      PROVE  Locked
  <2>1. o \in Orders
    BY <1>1, ClaimState
  <2> QED BY <1>0, <1>1, <2>1, WriteKeepsDelivery DEF SamePlace
<1> USE DEF Kinds
<1>2. CASE CheckoutCommit(w)
  BY <1>1, <1>2, CheckoutWrites DEF CheckoutCommit
<1>3. CASE UpdateStatusCommit(w)
  BY <1>1, <1>3, UpdateStatusWrites DEF UpdateStatusCommit
<1>4. CASE UpdateItemsCommit(w)
  BY <1>1, <1>4, UpdateItemsWrites DEF UpdateItemsCommit
<1>5. CASE SaveDeliveryCommit(w)
  BY <1>1, <1>5, SaveDeliveryWrites DEF SaveDeliveryCommit
<1>6. CASE SendQuotationCommit(w)
  BY <1>1, <1>6, SendQuotationWrites DEF SendQuotationCommit
<1>7. CASE ViewQuotationStamp(w)
  BY <1>1, <1>7, StampWrites DEF ViewQuotationStamp
<1>8. CASE MarkPaymentSubmittedCommit(w)
  BY <1>1, <1>8, MarkPaymentSubmittedWrites DEF MarkPaymentSubmittedCommit
<1>9. CASE RejectPaymentCommit(w)
  BY <1>1, <1>9, RejectPaymentWrites DEF RejectPaymentCommit
<1>10. CASE VerifyPaymentCommit(w)
  BY <1>1, <1>10, VerifyPaymentWrites DEF VerifyPaymentCommit
<1>11. CASE ExpireCommit(w)
  BY <1>1, <1>11, ExpireWrites DEF ExpireCommit
<1>12. CASE PromoteCommit(w)
  BY <1>1, <1>12, PromoteWrites DEF PromoteCommit
<1>13. CASE ViewQuotationRender(w) \/ Drop(w)
  BY <1>13 DEF ViewQuotationRender, Drop, Locked
<1> QED BY <1>2, <1>3, <1>4, <1>5, <1>6, <1>7, <1>8, <1>9, <1>10, <1>11, <1>12,
           <1>13 DEF CommitStep

\* From the moment a quotation is out, the delivery details its fee was costed
\* against stay as they are, also when the customer saves others at the very
\* moment staff send the quotation (saveDeliveryDetails, sendQuotation).
THEOREM DeliveryStaysLocked == Spec => DeliveryLocked
<1>1. StockInv /\ [Next]_vars =>
        \A o \in Orders : order[o].quotation # "AWAITING_REVIEW"
                            => order'[o].delivery = order[o].delivery
  <2> SUFFICES ASSUME StockInv, [Next]_vars PROVE Locked
    BY DEF Locked
  <2>0. TypeOK
    BY DEF StockInv
  <2>1. ASSUME NEW w \in Workers, NEW o \in Orders, ReadStep(w, o)
        PROVE  order' = order
    BY <2>0, <2>1, ReadsRow DEF Start
  <2>2. ASSUME NEW o \in Orders, Lapse(o) PROVE Locked
    BY <2>0, <2>2 DEF Lapse, Locked, TypeOK, Row
  <2>3. CASE order' = order
    BY <2>3 DEF Locked
  <2> QED BY <2>1, <2>2, <2>3, CommitKeepsDelivery DEF Next, AdjustStock, vars
<1> QED BY <1>1, StockInvariant, PTL DEF Spec, DeliveryLocked

-----------------------------------------------------------------------------
(* The handlers implement the life cycle of OrderLifecycle.                *)

\* Where the tiles of an order are, read off its row.
Goods(r) ==
  IF r.deducted THEN "taken" ELSE IF r.hold # "none" THEN "held" ELSE "none"

Where(o) == IF o \in crossed THEN "lost" ELSE Goods(order[o])

\* With holds and movements in step, the mapping is what the row says.
LEMMA GoodsAreWhere ==
  HoldInv => [x \in Orders |-> Whereabouts(x)] = [x \in Orders |-> Where(x)]
<1> SUFFICES ASSUME HoldInv, NEW o \in Orders, o \notin crossed
             PROVE  Whereabouts(o) = Goods(order[o])
  BY DEF Where, Whereabouts
<1> DEFINE row == order[o]
<1>1. HoldSafe(row) /\ RowSafe(row) /\ row.deducted \in BOOLEAN
  BY DEF HoldInv, StockInv, TypeOK, Row
<1>2. /\ held[o] = IF row.hold = "none" THEN NoItems ELSE row.items
      /\ taken[o] = IF row.deducted THEN row.items ELSE NoItems
  BY DEF HoldInv, HoldsMatchOrders, HeldBy, StockInv, StockLeavesOnce
<1>3. row.hold # "none" \/ row.deducted => row.items # NoItems
  BY <1>1, CartsAssumption DEF HoldSafe, RowSafe
<1>4. ~(row.hold # "none" /\ row.deducted)
  BY <1>1 DEF HoldSafe, RowSafe
<1> QED BY <1>2, <1>3, <1>4 DEF Whereabouts, Goods

\* A claim that writes row new moves the order as new says, or loses count of
\* its tiles; where the count was lost before, any move describes it.
LEMMA ClaimIsMove ==
  ASSUME HoldInv, HoldInv', NEW w \in Workers, NEW o \in Orders, NEW new, NEW stamps,
         Write(w, o, new, stamps), NEW g,
         o \in crossed \/ g = IF o \in crossed' THEN "lost" ELSE Goods(new)
  PROVE  Lifecycle!Move(o, new.status, new.quotation, g)
<1>1. /\ order' = [order EXCEPT ![o] = new] /\ order \in [Orders -> Row]
      /\ crossed \subseteq crossed' /\ crossed' \subseteq crossed \cup {o}
  BY DEF Write, HoldInv, StockInv, TypeOK
<1>2. [x \in Orders |-> order'[x].status]
        = [[x \in Orders |-> order[x].status] EXCEPT ![o] = new.status]
  BY <1>1
<1>3. [x \in Orders |-> order'[x].quotation]
        = [[x \in Orders |-> order[x].quotation] EXCEPT ![o] = new.quotation]
  BY <1>1
<1>4. \A x \in Orders : Where(x)' = IF x = o THEN (IF Where(o) = "lost" THEN "lost" ELSE g)
                                    ELSE Where(x)
  BY <1>1 DEF Where, Goods
<1>5. ([x \in Orders |-> Whereabouts(x)] = [x \in Orders |-> Where(x)])'
  BY GoodsAreWhere, PTL
<1>6. [x \in Orders |-> Whereabouts(x)] = [x \in Orders |-> Where(x)]
  BY GoodsAreWhere
<1>7. [x \in Orders |-> Where(x)]'
        = [[x \in Orders |-> Where(x)] EXCEPT
             ![o] = IF [x \in Orders |-> Where(x)][o] = "lost" THEN "lost" ELSE g]
  BY <1>4
<1>8. [x \in Orders |-> Whereabouts(x)]'
        = [[x \in Orders |-> Whereabouts(x)] EXCEPT
             ![o] = IF [x \in Orders |-> Whereabouts(x)][o] = "lost" THEN "lost" ELSE g]
  BY <1>5, <1>6, <1>7
<1> QED BY <1>2, <1>3, <1>8 DEF Lifecycle!Move

LEMMA CommitRefines ==
  ASSUME HoldInv, HoldInv', NEW w \in Workers, CommitStep(w)
  PROVE  [Lifecycle!Next]_Lifecycle!vars
<1> DEFINE f == flight[w]
           o == f.order
           row == order[o]
           goods == [x \in Orders |-> Whereabouts(x)]
<1> USE DEF Kinds
<1>0. StockInv /\ TypeOK
  BY DEF HoldInv, StockInv
<1>1. ASSUME NEW k \in Kinds, InFlight(w, k)
      PROVE  /\ o \in Orders /\ row \in Row /\ RowSafe(row) /\ f.kind = k
             /\ k # "checkout" => row.status # "NONE"
             /\ o \notin crossed => HoldSafe(row) /\ HoldFlight(f)
             /\ goods[o] = IF o \in crossed THEN "lost" ELSE Goods(row)
  <2>1. /\ o \in Orders /\ row \in Row /\ RowSafe(row) /\ f.kind = k /\ f # Idle
        /\ k # "checkout" => row.status # "NONE"
    BY <1>0, <1>1, ClaimState
  <2>2. goods = [x \in Orders |-> Where(x)]
    BY GoodsAreWhere
  <2>3. goods[o] = IF o \in crossed THEN "lost" ELSE Goods(row)
    BY <2>1, <2>2 DEF Where
  <2>4. o \notin crossed => HoldSafe(row) /\ HoldFlight(f)
    BY <2>1 DEF HoldInv
  <2> QED BY <2>1, <2>3, <2>4
<1>2. ASSUME o \in Orders, NEW new, NEW stamps, Write(w, o, new, stamps)
      PROVE  /\ \A g : o \in crossed \/ g = (IF o \in crossed' THEN "lost" ELSE Goods(new))
                      => Lifecycle!Move(o, new.status, new.quotation, g)
             /\ o \notin crossed' => HoldSafe(new)
             /\ o \in crossed => o \in crossed'
             /\ o \in crossed' /\ o \notin crossed => Overtaken(f)
             /\ o \notin crossed' => ~Overtaken(f)
  <2>1. /\ order' = [order EXCEPT ![o] = new]
        /\ crossed' = IF Overtaken(f) THEN crossed \cup {o} ELSE crossed
    BY <1>2 DEF Write
  <2>2. order'[o] = new
    BY <1>0, <1>2, <2>1 DEF TypeOK
  <2>3. o \notin crossed' => HoldSafe(new)
    BY <1>2, <2>2 DEF HoldInv, HoldSafe
  <2>4. \A g : o \in crossed \/ g = (IF o \in crossed' THEN "lost" ELSE Goods(new))
              => Lifecycle!Move(o, new.status, new.quotation, g)
    BY <1>2, ClaimIsMove
  <2> QED BY <2>1, <2>3, <2>4
<1>3. ASSUME NEW k \in Kinds, InFlight(w, k),
             k \notin {"updateStatus", "expire", "promote", "sendQuotation"},
             NEW new, NEW stamps, Write(w, o, new, stamps),
             new.status = row.status, new.quotation = row.quotation,
             SameGoods(new, row)
      PROVE  UNCHANGED Lifecycle!vars
  <2>0. o \in Orders /\ f.kind = k
    BY <1>1, <1>3
  <2>1. order' = [order EXCEPT ![o] = new] /\ order \in [Orders -> Row]
    BY <1>0, <1>3 DEF Write, TypeOK
  <2>2. crossed' = crossed
    BY <1>3, <2>0 DEF Write, Overtaken
  <2>3. \A x \in Orders : /\ order'[x].status = order[x].status
                          /\ order'[x].quotation = order[x].quotation
                          /\ Where(x)' = Where(x)
    BY <1>3, <2>1, <2>2 DEF SameGoods, Goods, Where
  <2>4. ([x \in Orders |-> Whereabouts(x)] = [x \in Orders |-> Where(x)])'
    BY GoodsAreWhere, PTL
  <2>5. [x \in Orders |-> Whereabouts(x)] = [x \in Orders |-> Where(x)]
    BY GoodsAreWhere
  <2>6. [x \in Orders |-> Whereabouts(x)]' = [x \in Orders |-> Whereabouts(x)]
    BY <2>3, <2>4, <2>5
  <2> QED BY <2>3, <2>6 DEF Lifecycle!vars
<1>4. ASSUME o \in Orders,
             \/ Lifecycle!Place(o) \/ Lifecycle!Promote(o) \/ Lifecycle!Revise(o)
             \/ Lifecycle!SendQuote(o) \/ Lifecycle!Declare(o) \/ Lifecycle!Reject(o)
             \/ Lifecycle!Verify(o) \/ Lifecycle!Advance(o) \/ Lifecycle!Cancel(o)
      PROVE  Lifecycle!Next
  <2>1. PICK x \in Orders : x = o
    BY <1>4
  <2> HIDE DEF o
  <2> USE DEF Lifecycle!Move, Lifecycle!Waitlist, Lifecycle!Hold, Lifecycle!Pay,
              Lifecycle!Payable, Lifecycle!Slip, Lifecycle!Lost
  <2>2. /\ Lifecycle!Place(o) => Lifecycle!Place(x)
        /\ Lifecycle!Promote(o) => Lifecycle!Promote(x)
        /\ Lifecycle!Revise(o) => Lifecycle!Revise(x)
    BY <2>1 DEF Lifecycle!Place, Lifecycle!Promote, Lifecycle!Revise
  <2>3. /\ Lifecycle!SendQuote(o) => Lifecycle!SendQuote(x)
        /\ Lifecycle!Declare(o) => Lifecycle!Declare(x)
        /\ Lifecycle!Reject(o) => Lifecycle!Reject(x)
        /\ Lifecycle!Verify(o) => Lifecycle!Verify(x)
    BY <2>1 DEF Lifecycle!SendQuote, Lifecycle!Declare, Lifecycle!Reject,
                Lifecycle!Verify
  <2>4. /\ Lifecycle!Advance(o) => Lifecycle!Advance(x)
        /\ Lifecycle!Cancel(o) => Lifecycle!Cancel(x)
    BY <2>1 DEF Lifecycle!Advance, Lifecycle!Cancel
  <2> QED BY <1>4, <2>2, <2>3, <2>4 DEF Lifecycle!Next
<1>5. CASE CheckoutCommit(w)
  <2> InFlight(w, "checkout")
    BY <1>5 DEF CheckoutCommit
  <2>1. o \in Orders /\ f.kind = "checkout"
    BY <1>1
  <2>2. PICK new \in Row :
          /\ Write(w, o, new, Stamps)
          /\ new.status = f.next /\ new.quotation = "AWAITING_REVIEW"
          /\ new.deducted = FALSE
          /\ new.hold = IF f.next = "PENDING" THEN "open" ELSE "none"
    BY <1>0, <1>5, CheckoutWrites
  <2>3. row.status = "NONE" /\ f.next \in {"WAITLISTED", "PENDING"}
    BY <1>0, <1>5, CheckoutWrites
  <2>4. ~Overtaken(f)
    BY <2>1 DEF Overtaken
  <2>5. Lifecycle!Move(o, new.status, new.quotation, Goods(new))
    BY <1>2, <2>1, <2>2, <2>4
  <2>6. Goods(new) = IF f.next = "PENDING" THEN "held" ELSE "none"
    BY <2>2 DEF Goods
  <2>7. Lifecycle!Place(o)
    BY <2>1, <2>2, <2>3, <2>5, <2>6
       DEF Lifecycle!Place, Lifecycle!Waitlist, Lifecycle!Hold
  <2> QED BY <2>1, <2>7, <1>4
<1>6. CASE UpdateStatusCommit(w)
  <2> InFlight(w, "updateStatus")
    BY <1>6 DEF UpdateStatusCommit
  <2>1. /\ o \in Orders /\ row \in Row /\ RowSafe(row) /\ f.kind = "updateStatus"
        /\ o \notin crossed => HoldSafe(row) /\ HoldFlight(f)
        /\ goods[o] = IF o \in crossed THEN "lost" ELSE Goods(row)
    BY <1>1
  <2>2. /\ row.status = f.row.status
        /\ row.deducted = f.row.deducted /\ row.status \in Status
        /\ f.next \in Transitions[row.status]
        /\ f.next = "CANCELLED" \/ row.quotation = "PAYMENT_VERIFIED"
    BY <1>0, <1>6, UpdateStatusWrites
  <2>3. PICK new \in Row : \E stamps :
          /\ Write(w, o, new, stamps)
          /\ new.status = f.next /\ new.quotation = row.quotation
          /\ new.deducted = (row.deducted /\ ~Returns(f))
    BY <1>0, <1>6, UpdateStatusWrites
  <2>4. /\ \A g : o \in crossed \/ g = (IF o \in crossed' THEN "lost" ELSE Goods(new))
               => Lifecycle!Move(o, f.next, row.quotation, g)
        /\ o \notin crossed' => HoldSafe(new) /\ o \notin crossed
        /\ o \in crossed' /\ o \notin crossed => Overtaken(f)
    BY <1>2, <2>1, <2>3
  <2>5. CASE f.next = "CANCELLED" /\ (o \in crossed \/ o \notin crossed')
    <3>1. row.status \in {"WAITLISTED", "PENDING", "PROCESSING", "READY_FOR_DISPATCH"}
      BY <2>2, <2>5 DEF Transitions, Status
    <3>2. o \notin crossed' => Goods(new) = "none"
      BY <2>2, <2>3, <2>4, <2>5 DEF Goods, Returns, HoldSafe
    <3>3. Lifecycle!Move(o, "CANCELLED", row.quotation, "none")
      BY <2>4, <2>5, <3>2
    <3>4. Lifecycle!Cancel(o)
      BY <2>1, <3>1, <3>3 DEF Lifecycle!Cancel
    <3> QED BY <2>1, <3>4, <1>4
  <2>6. CASE o \notin crossed /\ o \in crossed'
    <3>1. Releases(f) /\ HoldSafe(f.row)
      BY <2>1, <2>4, <2>6 DEF Overtaken, HoldFlight
    <3>2. row.status = "PENDING" /\ row.quotation # "PAYMENT_VERIFIED"
      BY <1>0, <1>6, <2>2, <3>1, PaidAsRead DEF Releases, HoldSafe
    <3>3. Lifecycle!Move(o, "CANCELLED", row.quotation, "lost")
      BY <2>2, <2>4, <2>6, <3>2
    <3>4. Lifecycle!Cancel(o)
      BY <2>1, <3>2, <3>3 DEF Lifecycle!Cancel, Lifecycle!Slip
    <3> QED BY <2>1, <3>4, <1>4
  <2>7. CASE f.next # "CANCELLED" /\ (o \in crossed \/ o \notin crossed')
    <3>1. <<row.status, f.next>> \in {<<"PENDING", "PROCESSING">>,
                                      <<"PROCESSING", "READY_FOR_DISPATCH">>,
                                      <<"READY_FOR_DISPATCH", "SHIPPED">>,
                                      <<"SHIPPED", "DELIVERED">>}
      BY <2>2, <2>7 DEF Transitions, Status
    <3>2. row.quotation = "PAYMENT_VERIFIED" /\ row.deducted
      BY <2>1, <2>2, <2>7, <3>1 DEF RowSafe
    <3>3. Goods(row) = "taken" /\ Goods(new) = "taken"
      BY <2>3, <2>7, <3>2 DEF Goods, Returns
    <3>4. Lifecycle!Advance(o)
      <4> DEFINE step == <<row.status, f.next>>
      <4>1. step[1] = row.status /\ step[2] = f.next
        OBVIOUS
      <4>2. Lifecycle!Move(o, step[2], row.quotation, "taken")
        BY <2>4, <2>7, <3>3, <4>1
      <4>3. goods[o] \in {"taken", "lost"}
        BY <2>1, <3>3
      <4> HIDE DEF step
      <4> QED BY <2>1, <3>1, <3>2, <4>1, <4>2, <4>3 DEF Lifecycle!Advance, step
    <3> QED BY <2>1, <3>4, <1>4
  <2> QED BY <2>5, <2>6, <2>7
<1>7. CASE UpdateItemsCommit(w)
  <2> InFlight(w, "updateItems")
    BY <1>7 DEF UpdateItemsCommit
  <2>1. o \in Orders /\ RowSafe(row) /\ f.kind = "updateItems"
    BY <1>1
  <2>2. /\ row.status \in {"PENDING", "WAITLISTED"}
        /\ row.quotation \in {"AWAITING_REVIEW", "QUOTATION_SENT"}
        /\ f.next \in {"WAITLISTED", "PENDING"}
    BY <1>0, <1>7, UpdateItemsWrites
  <2>3. PICK new \in Row :
          /\ Write(w, o, new, {"reservationExpiresAt", "quotationSentAt"})
          /\ new.status = f.next /\ new.quotation = "AWAITING_REVIEW"
          /\ new.deducted = row.deducted
          /\ new.hold = IF f.next = "PENDING" THEN "open" ELSE "none"
    BY <1>0, <1>7, UpdateItemsWrites
  <2>4. ~Overtaken(f)
    BY <2>1 DEF Overtaken
  <2>5. Lifecycle!Move(o, new.status, new.quotation, Goods(new))
    BY <1>2, <2>1, <2>3, <2>4
  <2>6. Goods(new) = IF f.next = "PENDING" THEN "held" ELSE "none"
    BY <2>1, <2>2, <2>3 DEF Goods, RowSafe
  <2>7. CASE row.status = "PENDING" \/ f.next = "WAITLISTED"
    <3>1. /\ f.next = "PENDING" => Lifecycle!Hold(o)
          /\ f.next = "WAITLISTED" => Lifecycle!Waitlist(o)
      BY <2>3, <2>5, <2>6 DEF Lifecycle!Waitlist, Lifecycle!Hold
    <3>2. Lifecycle!Revise(o)
      BY <2>1, <2>2, <2>7, <3>1 DEF Lifecycle!Revise
    <3> QED BY <2>1, <3>2, <1>4
  <2>8. CASE row.status = "WAITLISTED" /\ f.next = "PENDING"
    <3>1. Lifecycle!Hold(o)
      BY <2>3, <2>5, <2>6, <2>8 DEF Lifecycle!Hold
    <3>2. Lifecycle!Promote(o)
      BY <2>1, <2>8, <3>1 DEF Lifecycle!Promote
    <3> QED BY <2>1, <3>2, <1>4
  <2> QED BY <2>2, <2>7, <2>8
<1>8. CASE SaveDeliveryCommit(w)
  <2> InFlight(w, "saveDelivery")
    BY <1>8 DEF SaveDeliveryCommit
  <2>1. PICK new \in Row :
          /\ Write(w, o, new, {}) /\ SameGoods(new, row)
          /\ new.status = row.status /\ new.quotation = row.quotation
    BY <1>0, <1>8, SaveDeliveryWrites
  <2> QED BY <1>3, <2>1
\* A payment step on an order that holds its tiles, or whose count is lost.
<1>9. ASSUME NEW k \in Kinds, InFlight(w, k),
             row.status # "CANCELLED", k # "checkout",
             o \notin crossed => row.hold # "none" /\ row.status = "PENDING",
             NEW new, NEW stamps, Write(w, o, new, stamps),
             o \in crossed \/ o \notin crossed',
             new.status = row.status, new.hold # "none", new.deducted = row.deducted,
             \/ /\ row.quotation \in {"AWAITING_REVIEW", "QUOTATION_SENT"}
                /\ new.quotation = "QUOTATION_SENT"
             \/ row.quotation = "QUOTATION_SENT" /\ new.quotation = "PAYMENT_SUBMITTED"
             \/ row.quotation = "PAYMENT_SUBMITTED" /\ new.quotation = "QUOTATION_SENT"
      PROVE  [Lifecycle!Next]_Lifecycle!vars
  <2>1. /\ o \in Orders /\ RowSafe(row) /\ row.status # "NONE" /\ row \in Row
        /\ goods[o] = IF o \in crossed THEN "lost" ELSE Goods(row)
    BY <1>1, <1>9
  <2>2. row.status \in {"WAITLISTED", "PENDING"} /\ ~row.deducted
    BY <1>9, <2>1 DEF RowSafe, Row, Status, Fulfilling
  <2>3. o \notin crossed => Goods(row) = "held" /\ Goods(new) = "held"
    BY <1>9, <2>2 DEF Goods
  <2>4. Lifecycle!Move(o, row.status, new.quotation, "held")
    BY <1>2, <1>9, <2>1, <2>3
  <2>5. Lifecycle!Payable(o)
    BY <1>9, <2>1, <2>2, <2>3 DEF Lifecycle!Payable, Lifecycle!Lost
  <2>6. Lifecycle!SendQuote(o) \/ Lifecycle!Declare(o) \/ Lifecycle!Reject(o)
    BY <1>9, <2>1, <2>4, <2>5
       DEF Lifecycle!SendQuote, Lifecycle!Declare, Lifecycle!Reject, Lifecycle!Pay
  <2> QED BY <2>1, <2>6, <1>4
<1>10. CASE SendQuotationCommit(w)
  <2> InFlight(w, "sendQuotation")
    BY <1>10 DEF SendQuotationCommit
  <2>1. /\ o \in Orders /\ RowSafe(row) /\ f.kind = "sendQuotation"
        /\ row.status # "NONE" /\ row \in Row
        /\ o \notin crossed => HoldSafe(row)
    BY <1>1
  <2>2. /\ row.quotation \in {"AWAITING_REVIEW", "QUOTATION_SENT"}
        /\ row.status # "CANCELLED"
    BY <1>0, <1>10, SendQuotationWrites
  <2>3. PICK new \in Row :
          /\ Write(w, o, new, {"reservationExpiresAt", "quotationSentAt"})
          /\ new.status = row.status /\ new.quotation = "QUOTATION_SENT"
          /\ new.hold = "open" /\ new.deducted = row.deducted
    BY <1>0, <1>10, SendQuotationWrites
  <2>4. /\ \A g : o \in crossed \/ g = (IF o \in crossed' THEN "lost" ELSE Goods(new))
               => Lifecycle!Move(o, row.status, "QUOTATION_SENT", g)
        /\ o \notin crossed' => ~Overtaken(f) /\ o \notin crossed
    BY <1>2, <2>1, <2>3
  <2>5. CASE o \in crossed \/ o \notin crossed'
    <3>1. o \notin crossed => row.hold # "none" /\ row.status = "PENDING"
      BY <2>1, <2>4, <2>5 DEF Overtaken, HoldSafe
    <3> QED BY <1>9, <2>1, <2>2, <2>3, <2>5, <3>1
  <2>6. CASE o \notin crossed /\ o \in crossed'
    <3>1. row.status \in {"WAITLISTED", "PENDING"}
      BY <2>1, <2>2 DEF RowSafe, Row, Status, Fulfilling
    <3>2. Lifecycle!Move(o, row.status, "QUOTATION_SENT", "lost")
      BY <2>4, <2>6
    <3>3. Lifecycle!SendQuote(o)
      BY <2>1, <2>2, <3>1, <3>2 DEF Lifecycle!SendQuote, Lifecycle!Slip
    <3> QED BY <2>1, <3>3, <1>4
  <2> QED BY <2>5, <2>6
<1>11. CASE ViewQuotationStamp(w)
  <2> InFlight(w, "renderQuotation")
    BY <1>11 DEF ViewQuotationStamp
  <2>1. PICK new \in Row :
          /\ Write(w, o, new, {}) /\ SameGoods(new, row)
          /\ new.status = row.status /\ new.quotation = row.quotation
    BY <1>0, <1>11, StampWrites
  <2> QED BY <1>3, <2>1
<1>12. CASE MarkPaymentSubmittedCommit(w)
  <2> InFlight(w, "markPaymentSubmitted")
    BY <1>12 DEF MarkPaymentSubmittedCommit
  <2>1. /\ o \in Orders /\ f.kind = "markPaymentSubmitted"
        /\ o \notin crossed => HoldSafe(row)
    BY <1>1
  <2>2. row.quotation = "QUOTATION_SENT" /\ row.status # "CANCELLED"
    BY <1>0, <1>12, MarkPaymentSubmittedWrites
  <2>3. PICK new \in Row :
          /\ Write(w, o, new, {})
          /\ new.status = row.status /\ new.quotation = "PAYMENT_SUBMITTED"
          /\ SameGoods(new, row)
    BY <1>0, <1>12, MarkPaymentSubmittedWrites
  <2>4. o \in crossed \/ o \notin crossed'
    BY <1>2, <2>1, <2>3 DEF Overtaken
  <2>5. o \notin crossed => row.hold # "none" /\ row.status = "PENDING"
    BY <2>1, <2>2 DEF HoldSafe
  <2>6. row.hold # "none"
    BY <1>1, <2>2 DEF RowSafe
  <2> QED BY <1>9, <2>2, <2>3, <2>4, <2>5, <2>6 DEF SameGoods
<1>13. CASE RejectPaymentCommit(w)
  <2> InFlight(w, "rejectPayment")
    BY <1>13 DEF RejectPaymentCommit
  <2>1. /\ o \in Orders /\ f.kind = "rejectPayment" /\ RowSafe(row)
        /\ o \notin crossed => HoldSafe(row)
    BY <1>1
  <2>2. row.quotation = "PAYMENT_SUBMITTED" /\ row.status # "CANCELLED"
    BY <1>0, <1>13, RejectPaymentWrites
  <2>3. PICK new \in Row : \E stamps :
          /\ Write(w, o, new, stamps)
          /\ new.status = row.status /\ new.quotation = "QUOTATION_SENT"
          /\ new.deducted = row.deducted /\ new.hold \in {"open", row.hold}
    BY <1>0, <1>13, RejectPaymentWrites
  <2>4. o \in crossed \/ o \notin crossed'
    BY <1>2, <2>1, <2>3 DEF Overtaken
  <2>5. o \notin crossed => row.hold # "none" /\ row.status = "PENDING"
    BY <2>1, <2>2 DEF HoldSafe
  <2>6. new.hold # "none"
    BY <2>1, <2>2, <2>3 DEF RowSafe
  <2> QED BY <1>9, <2>2, <2>3, <2>4, <2>5, <2>6
<1>14. CASE VerifyPaymentCommit(w)
  <2> InFlight(w, "verifyPayment")
    BY <1>14 DEF VerifyPaymentCommit
  <2>1. /\ o \in Orders /\ f.kind = "verifyPayment" /\ RowSafe(row) /\ row \in Row
        /\ o \notin crossed => HoldSafe(row)
        /\ goods[o] = IF o \in crossed THEN "lost" ELSE Goods(row)
    BY <1>1
  <2>2. row.quotation = "PAYMENT_SUBMITTED" /\ row.status # "CANCELLED"
    BY <1>0, <1>14, VerifyPaymentWrites
  <2>3. PICK new \in Row : \E stamps :
          /\ Write(w, o, new, stamps)
          /\ new.status = row.status /\ new.quotation = "PAYMENT_VERIFIED"
          /\ new.deducted = TRUE
    BY <1>0, <1>14, VerifyPaymentWrites
  <2>4. row.status \in {"WAITLISTED", "PENDING"} /\ ~row.deducted
    BY <2>1, <2>2 DEF RowSafe, Row, Status, Fulfilling
  <2>5. o \in crossed \/ o \notin crossed'
    BY <1>2, <2>1, <2>3 DEF Overtaken
  <2>6. Goods(new) = "taken"
    BY <2>3 DEF Goods
  <2>7. Lifecycle!Move(o, row.status, "PAYMENT_VERIFIED", "taken")
    BY <1>2, <2>1, <2>3, <2>5, <2>6
  <2>8. o \notin crossed => row.status = "PENDING" /\ Goods(row) = "held"
    BY <2>1, <2>2, <2>4 DEF HoldSafe, Goods
  <2>9. Lifecycle!Payable(o)
    BY <2>1, <2>4, <2>8 DEF Lifecycle!Payable, Lifecycle!Lost
  <2>10. Lifecycle!Verify(o)
    BY <2>1, <2>2, <2>7, <2>9 DEF Lifecycle!Verify
  <2> QED BY <2>1, <2>10, <1>4
<1>15. CASE ExpireCommit(w)
  <2> InFlight(w, "expire")
    BY <1>15 DEF ExpireCommit
  <2>1. o \in Orders /\ RowSafe(row)
    BY <1>1
  <2>2. row.status = "PENDING" /\ row.quotation = "QUOTATION_SENT"
    BY <1>0, <1>15, ExpireWrites
  <2>3. PICK new \in Row :
          /\ Write(w, o, new, {"reservationExpiresAt"})
          /\ new.status = "CANCELLED" /\ new.quotation = row.quotation
          /\ new.hold = "none" /\ new.deducted = row.deducted
    BY <1>0, <1>15, ExpireWrites
  <2>4. Goods(new) = "none"
    BY <2>1, <2>2, <2>3 DEF RowSafe, Goods
  <2>5. \/ Lifecycle!Move(o, "CANCELLED", row.quotation, "none")
        \/ Lifecycle!Move(o, "CANCELLED", row.quotation, "lost")
    BY <1>2, <2>1, <2>3, <2>4
  <2>6. Lifecycle!Cancel(o)
    BY <2>1, <2>2, <2>5 DEF Lifecycle!Cancel, Lifecycle!Slip
  <2> QED BY <2>1, <2>6, <1>4
<1>16. CASE PromoteCommit(w)
  <2> InFlight(w, "promote")
    BY <1>16 DEF PromoteCommit
  <2>1. /\ o \in Orders /\ RowSafe(row)
        /\ o \notin crossed => HoldSafe(row)
        /\ goods[o] = IF o \in crossed THEN "lost" ELSE Goods(row)
    BY <1>1
  <2>2. row.status = "WAITLISTED"
    BY <1>0, <1>16, PromoteWrites
  <2>3. PICK new \in Row :
          /\ Write(w, o, new, {"reservationExpiresAt"})
          /\ new.status = "PENDING" /\ new.quotation = row.quotation
          /\ new.hold = "open" /\ new.deducted = row.deducted
    BY <1>0, <1>16, PromoteWrites
  <2>4. o \notin crossed => new.quotation = "AWAITING_REVIEW" /\ Goods(new) = "held"
    BY <2>1, <2>2, <2>3 DEF HoldSafe, RowSafe, Goods
  <2>5. \A g : o \in crossed \/ g = (IF o \in crossed' THEN "lost" ELSE Goods(new))
              => Lifecycle!Move(o, "PENDING", row.quotation, g)
    BY <1>2, <2>1, <2>3
  <2>6. Lifecycle!Promote(o)
    <3>1. CASE o \in crossed
      BY <2>1, <2>2, <2>5, <3>1 DEF Lifecycle!Promote, Lifecycle!Lost
    <3>2. CASE o \notin crossed /\ o \in crossed'
      BY <2>1, <2>2, <2>3, <2>4, <2>5, <3>2 DEF Lifecycle!Promote, Lifecycle!Slip
    <3>3. CASE o \notin crossed /\ o \notin crossed'
      BY <2>1, <2>2, <2>3, <2>4, <2>5, <3>3 DEF Lifecycle!Promote, Lifecycle!Hold
    <3> QED BY <3>1, <3>2, <3>3
  <2> QED BY <2>1, <2>6, <1>4
<1>17. CASE ViewQuotationRender(w) \/ Drop(w)
  BY <1>17 DEF ViewQuotationRender, Drop, stock, Lifecycle!vars, Whereabouts
<1> QED BY <1>5, <1>6, <1>7, <1>8, <1>10, <1>11, <1>12, <1>13, <1>14, <1>15, <1>16,
           <1>17 DEF CommitStep

\* The handlers, with all their reads, claims and overlaps, implement the
\* abstract life cycle of an order: every commit is one of its steps or changes
\* nothing it speaks of, and the count of an order's tiles is lost only in a
\* cancellation, a promotion or a quotation that a revision overtook.
THEOREM LifecycleIsImplemented == Spec => ImplementsLifecycle
<1>1. Init => Lifecycle!Init
  BY DEF Init, Lifecycle!Init, Blank, Whereabouts
<1>2. HoldInv /\ HoldInv' /\ [Next]_vars => [Lifecycle!Next]_Lifecycle!vars
  <2> SUFFICES ASSUME HoldInv, HoldInv', [Next]_vars
               PROVE  [Lifecycle!Next]_Lifecycle!vars
    OBVIOUS
  <2>0. TypeOK
    BY DEF HoldInv, StockInv
  <2>1. CASE order' = order /\ held' = held /\ taken' = taken /\ crossed' = crossed
    BY <2>1 DEF Lifecycle!vars, Whereabouts
  <2>2. ASSUME NEW w \in Workers, NEW o \in Orders, ReadStep(w, o)
        PROVE  order' = order /\ held' = held /\ taken' = taken /\ crossed' = crossed
    BY <2>0, <2>2, ReadsRow DEF Start, stock
  <2>3. ASSUME NEW o \in Orders, Lapse(o)
        PROVE  UNCHANGED Lifecycle!vars
    <3>1. /\ order' = [order EXCEPT ![o].hold = "lapsed"]
          /\ held' = held /\ taken' = taken /\ crossed' = crossed
      BY <2>3 DEF Lapse, stock
    <3>2. \A x \in Orders : /\ order'[x].status = order[x].status
                            /\ order'[x].quotation = order[x].quotation
                            /\ order'[x].items = order[x].items
      BY <2>0, <3>1 DEF TypeOK, Row
    <3> QED BY <3>1, <3>2 DEF Lifecycle!vars, Whereabouts
  <2>4. ASSUME NEW w \in Workers, CommitStep(w)
        PROVE  [Lifecycle!Next]_Lifecycle!vars
    BY <2>4, CommitRefines
  <2> QED BY <2>1, <2>2, <2>3, <2>4 DEF Next, AdjustStock, vars
<1> QED BY <1>1, <1>2, HoldInvariant, PTL
        DEF Spec, ImplementsLifecycle, Lifecycle!Spec
=============================================================================
