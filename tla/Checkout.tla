----------------------------- MODULE Checkout ------------------------------
(***************************************************************************)
(* Checkouts that are retried, the waitlist, and the two cron sweeps of    *)
(* OrdersService, around the stock of one product.                         *)
(*                                                                         *)
(* OrderService has every handler of an order, each sweep order by order.  *)
(* Here a sweep is the loop it is in the code, with its list, its queue    *)
(* order, its re-entrancy flag and the promotion that follows a release;   *)
(* a checkout has its idempotency key and its bounded retries; and any     *)
(* request or sweep can fail between two of its steps.                     *)
(***************************************************************************)
EXTENDS Integers, SequencesExt

CONSTANTS
  Carts,        \* checkouts, each with its own clientRequestId
  Area,         \* the area each of them purchases
  Workers,      \* slots for requests in flight at one time
  InitialStock, \* quantityOnHandSqm at the start
  MaxOnHand,    \* bound on what restocking raises it to
  MaxSends,     \* bound on how often the storefront sends each checkout
  MaxFailures   \* bound on the steps that fail in a behaviour

ASSUME CartsAssumption == IsFiniteSet(Carts) /\ Area \in [Carts -> Nat \ {0}]
ASSUME BoundsAssumption ==
  MaxSends \in [Carts -> Nat] /\ {InitialStock, MaxOnHand, MaxFailures} \subseteq Nat

Crons == {"releaseCron", "promoteCron"}
Actors == Workers \cup Crons

VARIABLES
  orders,   \* the Order rows, in the order of createdAt
  onHand,   \* Product.quantityOnHandSqm
  reserved, \* Product.reservedAreaSqm
  flight,   \* what each request or sweep is doing
  flag,     \* releasingReservations, promotingWaitlistSweep
  sends,    \* per checkout, how often it was sent
  told,     \* per checkout, the orders its answers named
  failures  \* steps that failed so far

vars == <<orders, onHand, reserved, flight, flag, sends, told, failures>>
client == <<sends, told>>

Status == {"WAITLISTED", "PENDING", "PAID", "CANCELLED"}
\* quoted is quotationStatus = QUOTATION_SENT; lapsed says that
\* reservationExpiresAt has passed.
Order == [cart : Carts, status : Status, quoted : BOOLEAN, lapsed : BOOLEAN]

\* fits is how createOnce judged the stock it read; names is the order a
\* reply carries, 0 for none; todo and expired are the lists of the loops.
Idle == [step |-> "idle"]
Request(c) == [step |-> "replay", cart |-> c, attempt |-> 1, fits |-> FALSE, names |-> 0]
Pass(expired) == [step |-> "list", todo |-> <<>>, expired |-> expired]
Ids == 1 .. Len(orders)

Init ==
  /\ orders = <<>> /\ onHand = InitialStock /\ reserved = 0
  /\ flight = [a \in Actors |-> Idle]
  /\ flag = [a \in Crons |-> FALSE]
  /\ sends = [c \in Carts |-> 0] /\ told = [c \in Carts |-> {}]
  /\ failures = 0

At(a, step) == flight[a].step = step
Become(a, row) == flight' = [flight EXCEPT ![a] = row]
Available == IF reserved < onHand THEN onHand - reserved ELSE 0
AreaOf(i) == Area[orders[i].cart]
Having(P(_)) == SelectSeq([i \in Ids |-> i], P)

-----------------------------------------------------------------------------
(* Checkouts.                                                              *)

\* The storefront sends a checkout: at first, after a lost reply, or twice.
Send(w, c) ==
  /\ At(w, "idle") /\ sends[c] < MaxSends[c]
  /\ sends' = [sends EXCEPT ![c] = @ + 1]
  /\ Become(w, Request(c))
  /\ UNCHANGED <<orders, onHand, reserved, flag, told, failures>>

OrdersOf(c) == {i \in Ids : orders[i].cart = c}

FindCheckoutReplay(w) ==
  /\ At(w, "replay")
  /\ LET mine == OrdersOf(flight[w].cart)
     IN IF mine = {} THEN Become(w, [flight[w] EXCEPT !.step = "read"])
        ELSE \E i \in mine :
               Become(w, [flight[w] EXCEPT !.step = "reply", !.names = i])
  /\ UNCHANGED <<orders, onHand, reserved, flag, client, failures>>

\* More than is on hand at all becomes a negotiation instead of an order.
ReadStock(w) ==
  LET area == Area[flight[w].cart]
  IN /\ At(w, "read")
     /\ Become(w, IF area > onHand THEN [flight[w] EXCEPT !.step = "reply"]
                  ELSE [flight[w] EXCEPT !.step = "create",
                                         !.fits = (area <= Available)])
     /\ UNCHANGED <<orders, onHand, reserved, flag, client, failures>>

\* create() runs createOnce again, up to `limit` times in all.
Retry(w, limit) ==
  /\ Become(w, IF flight[w].attempt < limit
               THEN [Request(flight[w].cart) EXCEPT !.attempt = flight[w].attempt + 1]
               ELSE [flight[w] EXCEPT !.step = "reply"])
  /\ UNCHANGED <<orders, reserved>>

\* Without the unique index a checkout that found no order creates one.
MutantCreateOrder(w) ==
  LET f == flight[w]
      area == Area[f.cart]
  IN /\ At(w, "create")
     /\ IF f.fits /\ onHand - reserved < area THEN Retry(w, 3)
        ELSE /\ orders' = Append(orders, [cart |-> f.cart, quoted |-> FALSE, lapsed |-> FALSE,
                  status |-> IF f.fits THEN "PENDING" ELSE "WAITLISTED"])
             /\ reserved' = IF f.fits THEN reserved + area ELSE reserved
             /\ Become(w, [f EXCEPT !.step = "reply", !.names = Len(orders) + 1])
     /\ UNCHANGED <<onHand, flag, client, failures>>

\* The transaction of createOnce.  It fails on the unique checkout key, or
\* when the stock it was judged on is no longer there.
CreateOrder(w) ==
  LET f == flight[w]
      area == Area[f.cart]
  IN /\ At(w, "create")
     /\ \/ OrdersOf(f.cart) # {} /\ Retry(w, 3)
        \/ OrdersOf(f.cart) = {} /\ f.fits /\ onHand - reserved < area /\ Retry(w, 3)
        \/ /\ OrdersOf(f.cart) = {} /\ (f.fits => onHand - reserved >= area)
           /\ orders' = Append(orders, [cart |-> f.cart, quoted |-> FALSE, lapsed |-> FALSE,
                 status |-> IF f.fits THEN "PENDING" ELSE "WAITLISTED"])
           /\ reserved' = IF f.fits THEN reserved + area ELSE reserved
           /\ Become(w, [f EXCEPT !.step = "reply", !.names = Len(orders) + 1])
     /\ UNCHANGED <<onHand, flag, client, failures>>

\* Another order has the same random number.
NumberClash(w) ==
  /\ At(w, "create") /\ failures < MaxFailures
  /\ failures' = failures + 1
  /\ Retry(w, 5)
  /\ UNCHANGED <<onHand, flag, client>>

Reply(w) ==
  /\ At(w, "reply")
  /\ told' = IF flight[w].names = 0 THEN told
             ELSE [told EXCEPT ![flight[w].cart] = @ \cup {flight[w].names}]
  /\ Become(w, Idle)
  /\ UNCHANGED <<orders, onHand, reserved, flag, sends, failures>>

-----------------------------------------------------------------------------
(* What customers, staff and the clock do to an order, as far as the stock *)
(* and the sweeps see it.                                                  *)

SetOrder(i, row) == orders' = [orders EXCEPT ![i] = row]

\* sendQuotation starts the payment window.
SendQuotation(i) ==
  /\ orders[i].status = "PENDING" /\ ~orders[i].quoted
  /\ SetOrder(i, [orders[i] EXCEPT !.quoted = TRUE])
  /\ UNCHANGED <<onHand, reserved, flight, flag, client, failures>>

\* The payment is declared and verified: the tiles leave the shelf.
Pay(i) ==
  /\ orders[i].status = "PENDING" /\ orders[i].quoted /\ onHand >= AreaOf(i)
  /\ SetOrder(i, [orders[i] EXCEPT !.status = "PAID", !.lapsed = FALSE])
  /\ onHand' = onHand - AreaOf(i)
  /\ reserved' = reserved - AreaOf(i)
  /\ UNCHANGED <<flight, flag, client, failures>>

\* Before the quotation nothing looks at the window.
Lapse(i) ==
  /\ orders[i].status = "PENDING" /\ orders[i].quoted /\ ~orders[i].lapsed
  /\ SetOrder(i, [orders[i] EXCEPT !.lapsed = TRUE])
  /\ UNCHANGED <<onHand, reserved, flight, flag, client, failures>>

\* updateStatus cancels an order; its promotion pass follows the commit.
Cancel(w, i) ==
  /\ At(w, "idle") /\ orders[i].status \in {"WAITLISTED", "PENDING"}
  /\ SetOrder(i, [orders[i] EXCEPT !.status = "CANCELLED", !.lapsed = FALSE])
  /\ IF orders[i].status = "PENDING"
     THEN reserved' = reserved - AreaOf(i) /\ Become(w, Pass(<<>>))
     ELSE UNCHANGED <<reserved, flight>>
  /\ UNCHANGED <<onHand, flag, client, failures>>

\* adjustStock, and its promotion pass.
Restock(w) ==
  /\ At(w, "idle") /\ onHand < MaxOnHand
  /\ onHand' = onHand + 1
  /\ Become(w, Pass(<<>>))
  /\ UNCHANGED <<orders, reserved, flag, client, failures>>

-----------------------------------------------------------------------------
(* releaseExpiredReservations.                                             *)

\* The window is compared the wrong way round.
MutantExpired(o) == o.status = "PENDING" /\ o.quoted /\ ~o.lapsed

Expired(o) == o.status = "PENDING" /\ o.quoted /\ o.lapsed
ExpiredId(i) == Expired(orders[i])
Releasing(expired) == [step |-> "release", todo |-> <<>>, expired |-> expired]

\* A tick while the flag is set is skipped; one that finds nothing to do leaves
\* no trace.
ReleaseTick ==
  /\ ~flag["releaseCron"] /\ Having(ExpiredId) # <<>>
  /\ flag' = [flag EXCEPT !["releaseCron"] = TRUE]
  /\ Become("releaseCron", Releasing(Having(ExpiredId)))
  /\ UNCHANGED <<orders, onHand, reserved, client, failures>>

\* One order of the list: claimed on the conditions it was listed on, and
\* released.  Then the email, whose failure skips the promotion.
ReleaseOne ==
  LET f == flight["releaseCron"]
      i == Head(f.expired)
  IN /\ At("releaseCron", "release") /\ f.expired # <<>>
     /\ IF Expired(orders[i])
        THEN /\ SetOrder(i, [orders[i] EXCEPT !.status = "CANCELLED", !.lapsed = FALSE])
             /\ reserved' = reserved - AreaOf(i)
             /\ \/ Become("releaseCron", Pass(Tail(f.expired))) /\ UNCHANGED failures
                \/ /\ failures < MaxFailures /\ failures' = failures + 1
                   /\ Become("releaseCron", Releasing(Tail(f.expired)))
        ELSE /\ Become("releaseCron", Releasing(Tail(f.expired)))
             /\ UNCHANGED <<orders, reserved, failures>>
     /\ UNCHANGED <<onHand, flag, client>>

ReleaseEnd ==
  /\ At("releaseCron", "release") /\ flight["releaseCron"].expired = <<>>
  /\ Become("releaseCron", Idle)
  /\ flag' = [flag EXCEPT !["releaseCron"] = FALSE]
  /\ UNCHANGED <<orders, onHand, reserved, client, failures>>

-----------------------------------------------------------------------------
(* promoteWaitlistedOrders, run by the safety net, by a request or by the  *)
(* release sweep.                                                          *)

Waiting(i) == orders[i].status = "WAITLISTED"

\* No safety net: promotion is left to what frees the stock.
MutantPromoteTick == FALSE /\ UNCHANGED vars

PromoteTick ==
  /\ ~flag["promoteCron"] /\ Having(Waiting) # <<>>
  /\ flag' = [flag EXCEPT !["promoteCron"] = TRUE]
  /\ Become("promoteCron", Pass(<<>>))
  /\ UNCHANGED <<orders, onHand, reserved, client, failures>>

Stop(a) ==
  /\ IF a = "releaseCron" THEN Become(a, Releasing(flight[a].expired))
     ELSE Become(a, Idle)
  /\ flag' = IF a = "promoteCron" THEN [flag EXCEPT ![a] = FALSE] ELSE flag

List(a) ==
  /\ At(a, "list")
  /\ IF Having(Waiting) = <<>> THEN Stop(a)
     ELSE /\ Become(a, [flight[a] EXCEPT !.step = "promote", !.todo = Having(Waiting)])
          /\ UNCHANGED flag
  /\ UNCHANGED <<orders, onHand, reserved, client, failures>>

\* One transaction: claim the order while it waits, and reserve its area, or
\* leave it waiting if that is not there.
PromoteOne(a) ==
  LET f == flight[a]
      i == Head(f.todo)
  IN /\ At(a, "promote") /\ f.todo # <<>>
     /\ IF Waiting(i) /\ onHand - reserved >= AreaOf(i)
        THEN /\ SetOrder(i, [orders[i] EXCEPT !.status = "PENDING", !.lapsed = FALSE])
             /\ reserved' = reserved + AreaOf(i)
        ELSE UNCHANGED <<orders, reserved>>
     /\ Become(a, [f EXCEPT !.todo = Tail(@)])
     /\ UNCHANGED <<onHand, flag, client, failures>>

PromoteEnd(a) ==
  /\ At(a, "promote") /\ flight[a].todo = <<>>
  /\ Stop(a)
  /\ UNCHANGED <<orders, onHand, reserved, client, failures>>

-----------------------------------------------------------------------------
(* Failures.                                                               *)

\* The process of a request dies or its reply is lost.  After a commit this
\* drops the promotion that should follow.
LoseRequest(w) ==
  /\ ~At(w, "idle") /\ failures < MaxFailures
  /\ failures' = failures + 1
  /\ Become(w, Idle)
  /\ UNCHANGED <<orders, onHand, reserved, flag, client>>

\* The query of a promotion pass fails: the sweep's finally block clears its
\* flag, and the release sweep goes on with the next order of its list.
ListFails(a) ==
  /\ At(a, "list") /\ a \in Crons /\ failures < MaxFailures
  /\ failures' = failures + 1
  /\ Stop(a)
  /\ UNCHANGED <<orders, onHand, reserved, client>>

\* The process that runs the sweeps dies and is started again.
Restart ==
  /\ \E a \in Crons : flag[a]
  /\ failures < MaxFailures
  /\ failures' = failures + 1
  /\ flight' = [a \in Actors |-> IF a \in Crons THEN Idle ELSE flight[a]]
  /\ flag' = [a \in Crons |-> FALSE]
  /\ UNCHANGED <<orders, onHand, reserved, client>>

-----------------------------------------------------------------------------

CheckoutStep(w) == FindCheckoutReplay(w) \/ ReadStock(w) \/ CreateOrder(w) \/ Reply(w)
PassStep(a) == List(a) \/ PromoteOne(a) \/ PromoteEnd(a)
Release == ReleaseTick \/ ReleaseOne \/ ReleaseEnd \/ PassStep("releaseCron")
SafetyNet == PromoteTick \/ PassStep("promoteCron")

Next ==
  \/ \E w \in Workers :
       \/ \E c \in Carts : Send(w, c)
       \/ CheckoutStep(w) \/ NumberClash(w) \/ Restock(w) \/ PassStep(w) \/ LoseRequest(w)
       \/ \E i \in Ids : Cancel(w, i)
  \/ \E i \in Ids : SendQuotation(i) \/ Pay(i) \/ Lapse(i)
  \/ Release \/ SafetyNet
  \/ \E a \in Crons : ListFails(a)
  \/ Restart

\* The scheduler ticks, and a sweep whose queries are answered goes on.
Spec == Init /\ [][Next]_vars /\ WF_vars(Release) /\ WF_vars(SafetyNet)

-----------------------------------------------------------------------------
(* Properties.                                                             *)

\* The variables have their types; a sweep runs if and only if its flag says so,
\* however it ended.
TypeOK ==
  /\ orders \in Seq(Order)
  /\ onHand \in 0 .. MaxOnHand /\ reserved \in Nat
  /\ flag \in [Crons -> BOOLEAN]
  /\ \A a \in Crons : flag[a] <=> ~At(a, "idle")
  /\ \A c \in Carts : sends[c] \in 0 .. MaxSends[c]
  /\ told \in [Carts -> SUBSET Ids]
  /\ failures \in 0 .. MaxFailures

\* What each checkout became: its only order, 0 for none.
OrderAmong(S) ==
  IF S = {} THEN 0 ELSE IF Cardinality(S) = 1 THEN CHOOSE i \in S : TRUE ELSE -1
Placed == [c \in Carts |-> OrderAmong(OrdersOf(c))]

\* A checkout that is sent again after a lost reply, or twice at once, is one
\* order, and whatever the customer is told of it names that order.
Once == INSTANCE CheckoutOnce WITH
  Placements <- 1 .. Cardinality(Carts), NotPlaced <- 0, placed <- Placed

OneOrderPerCheckout == Once!Spec

\* No order waits for ever for stock that is there: whatever became of the
\* promotion that should have followed the restock or release, a sweep finds
\* the order (promoteWaitlistedOrdersSweep: "Safety net in case an
\* event-triggered promotion was ever missed").
NoForgottenOrder ==
  \A i \in 1 .. Cardinality(Carts) :
    []<>(i \in Ids => ~(Waiting(i) /\ onHand - reserved >= AreaOf(i)))

\* No unpaid order keeps its hold for ever after its payment window, also if a
\* sweep was cut short.
LapsedHoldsEnd ==
  \A i \in 1 .. Cardinality(Carts) :
    []<>(i \in Ids => orders[i].status # "PENDING" \/ ~orders[i].lapsed)

=============================================================================
