--------------------------- MODULE CheckoutProofs ---------------------------
(***************************************************************************)
(* Checkout implements CheckoutOnce: for any finite number of checkouts,   *)
(* requests in flight and failures, and any stock, a checkout becomes at   *)
(* most one order and every answer that names an order names that one.     *)
(***************************************************************************)
EXTENDS Checkout, FiniteSetTheorems, TLAPS

-----------------------------------------------------------------------------
(* The inductive invariant.                                                *)

\* The index on clientRequestId.
Unique == \A i, j \in Ids : orders[i].cart = orders[j].cart => i = j

\* A request works on a checkout, and names no order but the one it became; a
\* pass has no checkout, and the steps of requests are not among its own.
RequestSteps == {"replay", "read", "create", "reply"}
Requests == [step : RequestSteps, cart : Carts, attempt : Nat, fits : BOOLEAN, names : Nat]
PassSteps == {"list", "promote", "release"}
IsPass(f) ==
  /\ f = [x \in {"step", "todo", "expired"} |-> f[x]]
  /\ f.step \in PassSteps
Doing(f) == f = Idle \/ f \in Requests \/ IsPass(f)

Named(f) ==
  f \in Requests /\ f.names # 0 => f.names \in Ids /\ orders[f.names].cart = f.cart

Inv ==
  /\ orders \in Seq(Order)
  /\ Unique
  /\ flight = [a \in Actors |-> flight[a]]
  /\ \A a \in Actors : Doing(flight[a]) /\ Named(flight[a])

PlacedAs(c) == OrderAmong(OrdersOf(c))

LEMMA PlacedIs ==
  ASSUME Unique, NEW i \in Ids
  PROVE  PlacedAs(orders[i].cart) = i
  <1>1. OrdersOf(orders[i].cart) = {i}
    BY DEF Unique, OrdersOf
  <1>2. Cardinality({i}) = 1
    BY FS_Singleton
  <1>. QED BY <1>1, <1>2 DEF PlacedAs, OrderAmong

LEMMA OrdersTyped ==
  ASSUME orders \in Seq(Order)
  PROVE  /\ Len(orders) \in Nat /\ DOMAIN orders = Ids
         /\ \A i \in Ids : orders[i] \in Order /\ orders[i].cart \in Carts
  <1>1. /\ Len(orders) \in Nat /\ DOMAIN orders = Ids
        /\ \A i \in Ids : orders[i] \in Order
    BY DEF Ids
  <1>2. \A o \in Order : o.cart \in Carts
    BY DEF Order
  <1>. QED BY <1>1, <1>2

\* There are no more orders than checkouts.
LEMMA FewOrders ==
  ASSUME NEW s \in Seq(Order),
         \A i, j \in 1 .. Len(s) : s[i].cart = s[j].cart => i = j
  PROVE  Len(s) <= Cardinality(Carts)
  <1> DEFINE f == [i \in 1 .. Len(s) |-> s[i].cart]
  <1>0. Len(s) \in Nat /\ \A i \in 1 .. Len(s) : s[i].cart \in Carts
    <2>1. \A o \in Order : o.cart \in Carts
      BY DEF Order
    <2>. QED BY <2>1
  <1>1. f \in Injection(1 .. Len(s), Carts)
    <2>1. f \in [1 .. Len(s) -> Carts]
      BY <1>0
    <2>. QED BY <2>1 DEF Injection, IsInjective
  <1>2. IsFiniteSet(Carts)
    BY CartsAssumption
  <1>3. Cardinality(1 .. Len(s)) <= Cardinality(Carts)
    BY <1>1, <1>2, FS_Injection
  <1>4. \A n \in Nat : Cardinality(1 .. n) = n
    BY FS_Interval
  <1>. QED BY <1>0, <1>3, <1>4

-----------------------------------------------------------------------------
(* Every step keeps the invariant.                                         *)

LEMMA InitInv == Init => Inv
  <1> SUFFICES ASSUME Init PROVE Inv
    OBVIOUS
  <1>1. orders \in Seq(Order) /\ Ids = {}
    BY DEF Init, Ids
  <1>. QED BY <1>1 DEF Init, Inv, Unique, Named, Requests, Doing, Idle

\* What a request or a pass may become.
LEMMA IdleDoing == Doing(Idle) /\ Idle \notin Requests
  BY DEF Doing, Idle, Requests

LEMMA PassDoing ==
  ASSUME NEW e
  PROVE  Doing(Pass(e)) /\ Pass(e) \notin Requests
         /\ Doing(Releasing(e)) /\ Releasing(e) \notin Requests
  <1>1. IsPass(Pass(e))
    <2>1. Pass(e) = [x \in {"step", "todo", "expired"} |-> Pass(e)[x]]
      BY DEF Pass
    <2>2. Pass(e).step \in PassSteps
      BY DEF Pass, PassSteps
    <2>. QED BY <2>1, <2>2 DEF IsPass
  <1>2. IsPass(Releasing(e))
    <2>1. Releasing(e) = [x \in {"step", "todo", "expired"} |-> Releasing(e)[x]]
      BY DEF Releasing
    <2>2. Releasing(e).step \in PassSteps
      BY DEF Releasing, PassSteps
    <2>. QED BY <2>1, <2>2 DEF IsPass
  <1>3. \A f : IsPass(f) => f \notin Requests
    BY DEF IsPass, PassSteps, Requests, RequestSteps
  <1>. QED BY <1>1, <1>2, <1>3 DEF Doing

LEMMA RequestDoing ==
  ASSUME NEW c \in Carts
  PROVE  Request(c) \in Requests /\ Request(c).names = 0 /\ Request(c).cart = c
  BY DEF Request, Requests, RequestSteps

\* The step tells a request from a pass.
LEMMA StepTells ==
  ASSUME NEW f, Doing(f)
  PROVE  /\ f.step \in RequestSteps => f \in Requests
         /\ f.step \in PassSteps => f \notin Requests /\ IsPass(f)
  <1>1. CASE f = Idle
    BY <1>1 DEF Idle, RequestSteps, PassSteps
  <1>2. CASE f \in Requests
    BY <1>2 DEF Requests, RequestSteps, PassSteps
  <1>3. CASE IsPass(f)
    BY <1>3 DEF IsPass, Requests, RequestSteps, PassSteps
  <1>. QED BY <1>1, <1>2, <1>3 DEF Doing

\* The orders are there as before, and belong to the same checkouts.
Kept == /\ orders' \in Seq(Order) /\ Len(orders') = Len(orders)
        /\ \A j \in Ids : orders'[j].cart = orders[j].cart

LEMMA SetOrderKeeps ==
  ASSUME Inv, NEW i, NEW o, SetOrder(i, o),
         i \in Ids => o \in Order /\ o.cart = orders[i].cart
  PROVE  Kept
  <1>1. /\ Len(orders) \in Nat /\ DOMAIN orders = Ids
        /\ \A j \in Ids : orders[j] \in Order
    BY OrdersTyped DEF Inv
  <1>2. /\ DOMAIN orders' = Ids
        /\ \A j \in Ids : orders'[j] = IF j = i THEN o ELSE orders[j]
    BY <1>1 DEF SetOrder, Inv
  <1>3. orders' \in [1 .. Len(orders) -> Order]
    BY <1>1, <1>2 DEF SetOrder, Inv, Ids
  <1>4. orders' \in Seq(Order) /\ Len(orders') = Len(orders)
    BY <1>1, <1>3
  <1>. QED BY <1>2, <1>4 DEF Kept

LEMMA KeptNames ==
  ASSUME Inv, Kept
  PROVE  Ids' = Ids /\ Unique' /\ \A f : Named(f)' <=> Named(f)
  <1>1. Ids' = Ids
    BY DEF Kept, Ids
  <1>. QED BY <1>1 DEF Inv, Kept, Unique, Named

\* A step that the abstract specification does not see: at most one actor
\* turns to something else.
Turns == \/ UNCHANGED flight
         \/ \E a \in Actors : \E f : Become(a, f) /\ Doing(f) /\ Named(f)
Quiet == Kept /\ Turns /\ told' = told

LEMMA QuietStep ==
  ASSUME Inv, Quiet
  PROVE  Inv' /\ UNCHANGED <<Placed, told>>
  <1>1. ASSUME UNCHANGED flight PROVE Inv'
    BY <1>1, KeptNames DEF Inv, Kept, Quiet
  <1>2. ASSUME NEW a \in Actors, NEW f, Become(a, f), Doing(f), Named(f) PROVE Inv'
    <2>1. ASSUME NEW b \in Actors PROVE flight'[b] = IF b = a THEN f ELSE flight[b]
      BY <1>2 DEF Become, Inv
    <2>2. flight' = [b \in Actors |-> flight'[b]]
      BY <1>2 DEF Become, Inv
    <2>. QED BY <1>2, <2>1, <2>2, KeptNames DEF Inv, Kept, Quiet
  <1>3. \A c : OrdersOf(c)' = OrdersOf(c)
    BY KeptNames DEF OrdersOf, Kept, Quiet
  <1>4. Placed' = Placed
    BY <1>3 DEF Placed
  <1>. QED BY <1>1, <1>2, <1>4 DEF Quiet, Turns

LEMMA NothingSet ==
  ASSUME Inv, orders' = orders
  PROVE  Kept
  BY DEF Inv, Kept

LEMMA RequestAt ==
  ASSUME Inv, NEW w \in Actors, flight[w].step \in RequestSteps
  PROVE  flight[w] \in Requests /\ Named(flight[w])
  BY StepTells DEF Inv

-----------------------------------------------------------------------------
(* The requests.                                                           *)

LEMMA SendQuiet ==
  ASSUME Inv, NEW w \in Workers, NEW c \in Carts, Send(w, c)
  PROVE  Quiet
  <1>1. Kept /\ told' = told
    BY NothingSet DEF Send
  <1>2. Become(w, Request(c)) /\ w \in Actors
    BY DEF Send, Actors
  <1>3. Doing(Request(c)) /\ Named(Request(c))
    BY RequestDoing DEF Doing, Named
  <1>. QED BY <1>1, <1>2, <1>3 DEF Quiet, Turns

LEMMA FindQuiet ==
  ASSUME Inv, NEW w \in Workers, FindCheckoutReplay(w)
  PROVE  Quiet
  <1>1. Kept /\ told' = told /\ w \in Actors
    BY NothingSet DEF FindCheckoutReplay, client, Actors
  <1>2. flight[w] \in Requests /\ Named(flight[w])
    BY <1>1, RequestAt DEF FindCheckoutReplay, At, RequestSteps
  <1>3. CASE Become(w, [flight[w] EXCEPT !.step = "read"])
    <2> DEFINE f == [flight[w] EXCEPT !.step = "read"]
    <2>1. f \in Requests /\ f.names = flight[w].names /\ f.cart = flight[w].cart
      BY <1>2 DEF Requests, RequestSteps
    <2> HIDE DEF f
    <2>2. Doing(f) /\ Named(f)
      BY <1>2, <2>1 DEF Doing, Named
    <2>. QED BY <1>1, <1>3, <2>2 DEF Quiet, Turns, f
  <1>4. ASSUME NEW i \in OrdersOf(flight[w].cart),
               Become(w, [flight[w] EXCEPT !.step = "reply", !.names = i])
        PROVE  Quiet
    <2> DEFINE f == [flight[w] EXCEPT !.step = "reply", !.names = i]
    <2>1. i \in Ids /\ i \in Nat /\ orders[i].cart = flight[w].cart
      BY DEF OrdersOf, Ids
    <2>2. f \in Requests /\ f.names = i /\ f.cart = flight[w].cart
      BY <1>2, <2>1 DEF Requests, RequestSteps
    <2> HIDE DEF f
    <2>3. Doing(f) /\ Named(f)
      BY <2>1, <2>2 DEF Doing, Named
    <2>. QED BY <1>1, <1>4, <2>3 DEF Quiet, Turns, f
  <1>. QED BY <1>3, <1>4 DEF FindCheckoutReplay

LEMMA ReadQuiet ==
  ASSUME Inv, NEW w \in Workers, ReadStock(w)
  PROVE  Quiet
  <1>1. Kept /\ told' = told /\ w \in Actors
    BY NothingSet DEF ReadStock, client, Actors
  <1>2. flight[w] \in Requests /\ Named(flight[w])
    BY <1>1, RequestAt DEF ReadStock, At, RequestSteps
  <1> DEFINE g == [flight[w] EXCEPT !.step = "reply"]
             fits == Area[flight[w].cart] <= Available
             h == [flight[w] EXCEPT !.step = "create", !.fits = fits]
  <1>3. Become(w, g) \/ Become(w, h)
    BY DEF ReadStock
  <1>4. g \in Requests /\ g.names = flight[w].names /\ g.cart = flight[w].cart
    BY <1>2 DEF Requests, RequestSteps
  <1>5. fits \in BOOLEAN
    OBVIOUS
  <1> HIDE DEF fits
  <1>6. h \in Requests /\ h.names = flight[w].names /\ h.cart = flight[w].cart
    BY <1>2, <1>5 DEF Requests, RequestSteps
  <1> HIDE DEF g, h
  <1>7. Doing(g) /\ Named(g) /\ Doing(h) /\ Named(h)
    BY <1>2, <1>4, <1>6 DEF Doing, Named
  <1>. QED BY <1>1, <1>3, <1>7 DEF Quiet, Turns

\* A checkout that is tried again, or given up, is still that checkout.
LEMMA RetryQuiet ==
  ASSUME Inv, NEW w \in Workers, At(w, "create"), NEW n, Retry(w, n), orders' = orders, told' = told
  PROVE  Quiet
  <1>1. Kept /\ w \in Actors
    BY NothingSet DEF Actors
  <1>2. flight[w] \in Requests /\ Named(flight[w])
    BY <1>1, RequestAt DEF At, RequestSteps
  <1>3. flight[w].cart \in Carts /\ flight[w].attempt + 1 \in Nat
    BY <1>2 DEF Requests
  <1> DEFINE g == [flight[w] EXCEPT !.step = "reply"]
             r == Request(flight[w].cart)
             m == flight[w].attempt + 1
             h == [r EXCEPT !.attempt = m]
  <1>4. Become(w, g) \/ Become(w, h)
    BY DEF Retry
  <1>5. g \in Requests /\ g.names = flight[w].names /\ g.cart = flight[w].cart
    BY <1>2 DEF Requests, RequestSteps
  <1>6. r \in Requests /\ r.names = 0
    BY <1>3, RequestDoing
  <1> HIDE DEF r, m
  <1>7. h \in Requests /\ h.names = 0
    BY <1>3, <1>6 DEF Requests, m
  <1> HIDE DEF g, h
  <1>8. Doing(g) /\ Named(g) /\ Doing(h) /\ Named(h)
    BY <1>2, <1>5, <1>7 DEF Doing, Named
  <1>. QED BY <1>1, <1>4, <1>8 DEF Quiet, Turns

LEMMA NumberClashQuiet ==
  ASSUME Inv, NEW w \in Workers, NumberClash(w)
  PROVE  Quiet
  BY RetryQuiet DEF NumberClash, Retry, client

-----------------------------------------------------------------------------
(* Customers, staff and the clock.                                         *)

LEMMA OrderRows ==
  ASSUME Inv, NEW i \in Ids, NEW s \in Status, NEW q \in BOOLEAN, NEW l \in BOOLEAN
  PROVE  /\ [orders[i] EXCEPT !.quoted = q] \in Order
         /\ [orders[i] EXCEPT !.quoted = q].cart = orders[i].cart
         /\ [orders[i] EXCEPT !.lapsed = l] \in Order
         /\ [orders[i] EXCEPT !.lapsed = l].cart = orders[i].cart
         /\ [orders[i] EXCEPT !.status = s, !.lapsed = l] \in Order
         /\ [orders[i] EXCEPT !.status = s, !.lapsed = l].cart = orders[i].cart
  <1>1. orders[i] \in Order
    BY OrdersTyped DEF Inv
  <1>. QED BY <1>1 DEF Order

LEMMA StatusKept ==
  ASSUME Inv, NEW i, NEW s \in Status,
         SetOrder(i, [orders[i] EXCEPT !.status = s, !.lapsed = FALSE])
  PROVE  Kept
  <1> DEFINE o == [orders[i] EXCEPT !.status = s, !.lapsed = FALSE]
  <1>1. i \in Ids => o \in Order /\ o.cart = orders[i].cart
    BY OrderRows
  <1>2. SetOrder(i, o)
    OBVIOUS
  <1> HIDE DEF o
  <1>. QED BY <1>1, <1>2, SetOrderKeeps

LEMMA OrderQuiet ==
  ASSUME Inv, NEW i \in Ids, SendQuotation(i) \/ Pay(i) \/ Lapse(i)
  PROVE  Quiet
  <1>1. UNCHANGED flight /\ told' = told
    BY DEF SendQuotation, Pay, Lapse, client
  <1>2. Kept
    <2>1. CASE SendQuotation(i)
      <3> DEFINE o == [orders[i] EXCEPT !.quoted = TRUE]
      <3>1. o \in Order /\ o.cart = orders[i].cart /\ SetOrder(i, o)
        BY <2>1, OrderRows DEF SendQuotation, Status
      <3> HIDE DEF o
      <3>. QED BY <3>1, SetOrderKeeps
    <2>2. CASE Pay(i)
      BY <2>2, StatusKept DEF Pay, Status
    <2>3. CASE Lapse(i)
      <3> DEFINE o == [orders[i] EXCEPT !.lapsed = TRUE]
      <3>1. o \in Order /\ o.cart = orders[i].cart /\ SetOrder(i, o)
        BY <2>3, OrderRows DEF Lapse, Status
      <3> HIDE DEF o
      <3>. QED BY <3>1, SetOrderKeeps
    <2>. QED BY <2>1, <2>2, <2>3
  <1>. QED BY <1>1, <1>2 DEF Quiet, Turns

LEMMA CancelQuiet ==
  ASSUME Inv, NEW w \in Workers, NEW i \in Ids, Cancel(w, i)
  PROVE  Quiet
  <1>1. Kept
    BY StatusKept DEF Cancel, Status
  <1>2. UNCHANGED flight \/ Become(w, Pass(<<>>))
    BY DEF Cancel
  <1>3. Doing(Pass(<<>>)) /\ Named(Pass(<<>>)) /\ w \in Actors
    BY PassDoing DEF Named, Actors
  <1>. QED BY <1>1, <1>2, <1>3 DEF Quiet, Turns, Cancel, client

LEMMA RestockQuiet ==
  ASSUME Inv, NEW w \in Workers, Restock(w)
  PROVE  Quiet
  <1>1. Kept /\ Become(w, Pass(<<>>)) /\ told' = told
    BY NothingSet DEF Restock, client
  <1>2. Doing(Pass(<<>>)) /\ Named(Pass(<<>>)) /\ w \in Actors
    BY PassDoing DEF Named, Actors
  <1>. QED BY <1>1, <1>2 DEF Quiet, Turns

-----------------------------------------------------------------------------
(* The sweeps.                                                             *)

\* A sweep or pass that ends, is listed or goes on.
LEMMA PassTurns ==
  ASSUME NEW a \in Actors, NEW f, f = Idle \/ \E e : f = Pass(e) \/ f = Releasing(e), Become(a, f)
  PROVE  Turns
  BY IdleDoing, PassDoing DEF Turns, Named

LEMMA GoesOn ==
  ASSUME Inv, NEW a \in Actors, flight[a].step \in PassSteps, NEW todo
  PROVE  /\ Become(a, [flight[a] EXCEPT !.todo = todo]) => Turns
         /\ Become(a, [flight[a] EXCEPT !.step = "promote", !.todo = todo]) => Turns
  <1> DEFINE g == [flight[a] EXCEPT !.todo = todo]
             h == [flight[a] EXCEPT !.step = "promote", !.todo = todo]
  <1>1. IsPass(flight[a])
    BY StepTells DEF Inv
  <1>2. IsPass(g) /\ g \notin Requests
    BY <1>1 DEF IsPass, Requests
  <1>3. IsPass(h) /\ h \notin Requests
    BY <1>1 DEF IsPass, PassSteps, Requests
  <1> HIDE DEF g, h
  <1>4. Doing(g) /\ Doing(h) /\ Named(g) /\ Named(h)
    BY <1>2, <1>3 DEF Doing, Named
  <1>. QED BY <1>4 DEF Turns, g, h

LEMMA StopTurns ==
  ASSUME NEW a \in Actors, Stop(a)
  PROVE  Turns
  BY PassTurns DEF Stop

LEMMA ReleaseQuiet ==
  ASSUME Inv, ReleaseTick \/ ReleaseOne \/ ReleaseEnd
  PROVE  Quiet
  <1>1. "releaseCron" \in Actors /\ told' = told
    BY DEF Actors, Crons, ReleaseTick, ReleaseOne, ReleaseEnd, client
  <1>2. Turns
    <2>1. \E f : Become("releaseCron", f) /\ (f = Idle \/ \E e : f = Pass(e) \/ f = Releasing(e))
      BY DEF ReleaseTick, ReleaseOne, ReleaseEnd
    <2>. QED BY <1>1, <2>1, PassTurns
  <1>3. Kept
    BY NothingSet, StatusKept DEF ReleaseTick, ReleaseOne, ReleaseEnd, Status
  <1>. QED BY <1>1, <1>2, <1>3 DEF Quiet

LEMMA PassQuiet ==
  ASSUME Inv, NEW a \in Actors, PassStep(a)
  PROVE  Quiet
  <1>1. told' = told
    BY DEF PassStep, List, PromoteOne, PromoteEnd, client
  <1>2. Kept
    BY NothingSet, StatusKept DEF PassStep, List, PromoteOne, PromoteEnd, Status
  <1>3. Turns
    BY GoesOn, StopTurns DEF PassStep, List, PromoteOne, PromoteEnd, At, PassSteps
  <1>. QED BY <1>1, <1>2, <1>3 DEF Quiet

LEMMA PromoteTickQuiet ==
  ASSUME Inv, PromoteTick
  PROVE  Quiet
  <1>1. "promoteCron" \in Actors /\ told' = told /\ Kept /\ Become("promoteCron", Pass(<<>>))
    BY NothingSet DEF Actors, Crons, PromoteTick, client
  <1>. QED BY <1>1, PassTurns DEF Quiet

-----------------------------------------------------------------------------
(* Failures.                                                               *)

LEMMA FailureQuiet ==
  ASSUME Inv, (\E w \in Workers : LoseRequest(w)) \/ (\E a \in Crons : ListFails(a))
  PROVE  Quiet
  <1>1. Kept /\ told' = told
    BY NothingSet DEF LoseRequest, ListFails, client
  <1>2. Turns
    BY PassTurns, StopTurns DEF LoseRequest, ListFails, Actors
  <1>. QED BY <1>1, <1>2 DEF Quiet

LEMMA RestartInv ==
  ASSUME Inv, Restart
  PROVE  Inv' /\ UNCHANGED <<Placed, told>>
  <1>1. orders' = orders /\ told' = told /\ Kept
    BY NothingSet DEF Restart, client
  <1>2. \A a \in Actors : flight'[a] \in {Idle, flight[a]}
    BY DEF Restart
  <1>3. flight' = [a \in Actors |-> flight'[a]]
    BY DEF Restart
  <1>4. \A a \in Actors : Doing(flight'[a]) /\ Named(flight'[a])
    BY <1>2, IdleDoing DEF Inv, Named
  <1>5. Placed' = Placed
    BY <1>1 DEF Placed, OrdersOf, Ids
  <1>. QED BY <1>1, <1>3, <1>4, <1>5, KeptNames DEF Inv, Kept

-----------------------------------------------------------------------------
(* The two steps that the abstract specification sees.                     *)

\* An order is created for a checkout that has none.
Creates(w) ==
  LET f == flight[w]
  IN \E row :
       /\ OrdersOf(f.cart) = {} /\ row \in Order /\ row.cart = f.cart
       /\ orders' = Append(orders, row)
       /\ Become(w, [f EXCEPT !.step = "reply", !.names = Len(orders) + 1])
       /\ told' = told

LEMMA CreateOrderIs ==
  ASSUME Inv, NEW w \in Workers, CreateOrder(w)
  PROVE  Quiet \/ Creates(w)
  <1>1. told' = told /\ At(w, "create") /\ w \in Actors
    BY DEF CreateOrder, client, Actors
  <1>2. flight[w] \in Requests
    BY <1>1, RequestAt DEF At, RequestSteps
  <1>3. CASE Retry(w, 3)
    BY <1>1, <1>3, RetryQuiet DEF Retry
  <1>4. CASE ~Retry(w, 3)
    <2> DEFINE status == IF flight[w].fits THEN "PENDING" ELSE "WAITLISTED"
               row == [cart |-> flight[w].cart, quoted |-> FALSE, lapsed |-> FALSE,
                       status |-> status]
    <2>1. row \in Order /\ row.cart = flight[w].cart
      BY <1>2 DEF Order, Status, Requests
    <2>2. /\ OrdersOf(flight[w].cart) = {}
          /\ orders' = Append(orders, row)
          /\ Become(w, [flight[w] EXCEPT !.step = "reply", !.names = Len(orders) + 1])
      BY <1>4 DEF CreateOrder
    <2> HIDE DEF row
    <2>. QED BY <1>1, <2>1, <2>2 DEF Creates
  <1>. QED BY <1>3, <1>4

LEMMA CreatesOnce ==
  ASSUME Inv, NEW w \in Workers, At(w, "create"), Creates(w)
  PROVE  Inv' /\ \E c \in Carts : Once!Place(c)
  <1>0. w \in Actors
    BY DEF Actors
  <1>1. flight[w] \in Requests
    BY <1>0, RequestAt DEF At, RequestSteps
  <1>2. PICK c \in Carts : c = flight[w].cart
    BY <1>1 DEF Requests
  <1>3. PICK n \in Nat : n = Len(orders) + 1
    BY OrdersTyped DEF Inv
  <1>4. PICK row \in Order :
          /\ row.cart = c /\ OrdersOf(c) = {} /\ orders' = Append(orders, row)
          /\ Become(w, [flight[w] EXCEPT !.step = "reply", !.names = n])
          /\ told' = told
    BY <1>2, <1>3 DEF Creates
  <1>5. PICK g : g = [flight[w] EXCEPT !.step = "reply", !.names = n]
    OBVIOUS
  <1>6. g \in Requests /\ g.names = n /\ g.cart = c
    BY <1>1, <1>2, <1>5 DEF Requests, RequestSteps
  <1>7. /\ Len(orders) \in Nat /\ n \notin Ids
        /\ \A i \in Ids : orders[i].cart # c
    BY <1>3, <1>4, OrdersTyped DEF Inv, Ids, OrdersOf
  <1>8. /\ orders' \in Seq(Order) /\ Len(orders') = n /\ Ids' = Ids \cup {n}
        /\ orders'[n] = row /\ \A i \in Ids : orders'[i] = orders[i]
    BY <1>3, <1>4, <1>7 DEF Inv, Ids
  <1>9. Unique'
    <2>1. ASSUME NEW i \in Ids', NEW j \in Ids', orders'[i].cart = orders'[j].cart
          PROVE  i = j
      <3>1. CASE i = n \/ j = n
        BY <1>4, <1>7, <1>8, <2>1, <3>1
      <3>2. CASE i \in Ids /\ j \in Ids
        <4>1. orders[i].cart = orders[j].cart
          BY <1>8, <2>1, <3>2
        <4>. QED BY <3>2, <4>1 DEF Inv, Unique
      <3>. QED BY <1>8, <3>1, <3>2
    <2>. QED BY <2>1 DEF Unique
  <1>10. \A f : Named(f) => Named(f)'
    BY <1>7, <1>8 DEF Named
  <1>11. Doing(g) /\ Named(g)'
    BY <1>4, <1>6, <1>8 DEF Doing, Named
  <1>12. Inv'
    <2>1. \A a \in Actors : flight'[a] = IF a = w THEN g ELSE flight[a]
      BY <1>4, <1>5 DEF Become, Inv
    <2>2. flight' = [a \in Actors |-> flight'[a]]
      BY <1>4 DEF Become, Inv
    <2>3. ASSUME NEW a \in Actors PROVE Doing(flight'[a]) /\ Named(flight[a])'
      <3>1. CASE a = w
        BY <3>1, <1>11, <2>1 DEF Named
      <3>2. CASE a # w
        BY <3>2, <1>10, <2>1 DEF Inv, Named
      <3>. QED BY <3>1, <3>2
    <2>. QED BY <1>8, <1>9, <2>2, <2>3 DEF Inv, Doing, IsPass
  <1>13. n \in 1 .. Cardinality(Carts)
    <2>1. Len(orders') <= Cardinality(Carts)
      BY <1>8, <1>9, FewOrders DEF Unique, Ids
    <2>2. Cardinality(Carts) \in Nat
      BY FS_CardinalityType, CartsAssumption
    <2>. QED BY <1>3, <1>7, <1>8, <2>1, <2>2
  <1>14. Placed[c] = 0
    BY <1>4 DEF Placed, OrderAmong
  <1>15. Placed' = [Placed EXCEPT ![c] = n]
    <2>1. OrdersOf(c)' = {n}
      BY <1>4, <1>7, <1>8 DEF OrdersOf
    <2>2. OrderAmong({n}) = n
      BY FS_Singleton DEF OrderAmong
    <2>3. \A d \in Carts : d # c => OrdersOf(d)' = OrdersOf(d)
      BY <1>4, <1>7, <1>8 DEF OrdersOf
    <2>. QED BY <2>1, <2>2, <2>3 DEF Placed
  <1>. QED BY <1>4, <1>12, <1>13, <1>14, <1>15 DEF Once!Place

LEMMA ReplyOnce ==
  ASSUME Inv, NEW w \in Workers, Reply(w)
  PROVE  Inv' /\ (UNCHANGED <<Placed, told>> \/ \E c \in Carts : Once!Tell(c))
  <1>0. w \in Actors /\ orders' = orders /\ Become(w, Idle)
    BY DEF Reply, Actors
  <1>1. flight[w] \in Requests /\ Named(flight[w]) /\ flight[w].cart \in Carts
    <2>1. flight[w] \in Requests /\ Named(flight[w])
      BY <1>0, RequestAt DEF Reply, At, RequestSteps
    <2>. QED BY <2>1 DEF Requests
  <1>2. Kept /\ Ids' = Ids
    BY <1>0, NothingSet DEF Ids
  <1>3. Inv'
    <2>1. \A a \in Actors : flight'[a] = IF a = w THEN Idle ELSE flight[a]
      BY <1>0 DEF Become, Inv
    <2>2. flight' = [a \in Actors |-> flight'[a]]
      BY <1>0 DEF Become, Inv
    <2>3. \A a \in Actors : Doing(flight'[a]) /\ Named(flight'[a])
      BY <2>1, IdleDoing DEF Inv, Named
    <2>. QED BY <1>2, <2>2, <2>3, KeptNames DEF Inv, Kept
  <1>4. Placed' = Placed
    BY <1>0 DEF Placed, OrdersOf, Ids
  <1>5. CASE flight[w].names = 0
    BY <1>3, <1>4, <1>5 DEF Reply
  <1>6. CASE flight[w].names # 0
    <2>1. flight[w].names \in Ids /\ orders[flight[w].names].cart = flight[w].cart
      BY <1>1, <1>6 DEF Named
    <2>2. Placed[flight[w].cart] = flight[w].names
      BY <1>1, <2>1, PlacedIs DEF Inv, Placed, PlacedAs
    <2>3. told' = [told EXCEPT ![flight[w].cart] = @ \cup {flight[w].names}]
      BY <1>6 DEF Reply
    <2>. QED BY <1>1, <1>3, <1>4, <1>6, <2>2, <2>3 DEF Once!Tell
  <1>. QED BY <1>5, <1>6

-----------------------------------------------------------------------------
(* The refinement.                                                         *)

LEMMA StepOnce ==
  ASSUME Inv, [Next]_vars
  PROVE  Inv' /\ [Once!Next]_<<Placed, told>>
  <1>1. CASE UNCHANGED vars
    BY <1>1, NothingSet, QuietStep DEF vars, client, Quiet, Turns
  <1>2. ASSUME NEW w \in Workers, CreateOrder(w)
        PROVE  Inv' /\ [Once!Next]_<<Placed, told>>
    BY <1>2, CreateOrderIs, CreatesOnce, QuietStep DEF CreateOrder, Once!Next
  <1>3. ASSUME NEW w \in Workers, Reply(w)
        PROVE  Inv' /\ [Once!Next]_<<Placed, told>>
    BY <1>3, ReplyOnce DEF Once!Next
  <1>4. CASE Restart
    BY <1>4, RestartInv
  <1>5. CASE Quiet
    BY <1>5, QuietStep
  <1>6. ASSUME NEW w \in Workers,
               \/ \E c \in Carts : Send(w, c)
               \/ FindCheckoutReplay(w) \/ ReadStock(w)
               \/ NumberClash(w) \/ Restock(w) \/ PassStep(w)
               \/ \E i \in Ids : Cancel(w, i)
        PROVE  Quiet
    BY <1>6, SendQuiet, FindQuiet, ReadQuiet, NumberClashQuiet, RestockQuiet, PassQuiet,
       CancelQuiet DEF Actors
  <1>7. ASSUME Release \/ SafetyNet
        PROVE  Quiet
    BY <1>7, ReleaseQuiet, PassQuiet, PromoteTickQuiet DEF Release, SafetyNet, Actors, Crons
  <1>. QED BY <1>1, <1>2, <1>3, <1>4, <1>5, <1>6, <1>7, OrderQuiet, FailureQuiet
              DEF Next, CheckoutStep

LEMMA InitOnce == Init => Once!Init
  <1> SUFFICES ASSUME Init PROVE Once!Init
    OBVIOUS
  <1>1. \A c : OrdersOf(c) = {}
    BY DEF Init, OrdersOf, Ids
  <1>2. Placed = [c \in Carts |-> 0]
    BY <1>1 DEF Placed, OrderAmong
  <1>. QED BY <1>2 DEF Init, Once!Init

\* Whatever is retried, raced, lost or restarted, a checkout becomes at most one
\* order and every answer that names an order names that one: the replay, the
\* unique index on clientRequestId and the retries of create() implement
\* CheckoutOnce.
THEOREM CheckoutIsOnce == Spec => OneOrderPerCheckout
  <1>1. Init => Inv /\ Once!Init
    BY InitInv, InitOnce
  <1>2. Inv /\ [Next]_vars => Inv' /\ [Once!Next]_<<Placed, told>>
    BY StepOnce
  <1>. QED BY <1>1, <1>2, PTL DEF Spec, OneOrderPerCheckout, Once!Spec
=============================================================================
