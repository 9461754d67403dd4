----------------------------- MODULE Storefront -----------------------------
(***************************************************************************)
(* What customers do on the storefront (CartService, FavoritesService,     *)
(* RoomsService, QuotesService) and the rows their steps leave behind for  *)
(* the dashboards (EventsService): journey events, tile events, stock      *)
(* movements and the payments of orders.  The figures of module Figures    *)
(* are read from these rows.                                               *)
(*                                                                         *)
(* An order's life is that of module OrderService; here its transactions   *)
(* are single steps that keep what a figure reads.  The clock counts days  *)
(* from 1; no payment is verified across a midnight, so the row and its    *)
(* events carry one day.  Events of the staff are dropped by isStaffRole,  *)
(* so the clients are the only visitors.                                   *)
(***************************************************************************)
EXTENDS Figures

CONSTANTS Users, Sessions, Products, RoomsOf, Workers, Periods, Scenes, Price,
          MaxDay       \* bound on the clock

ASSUME StorefrontConstants ==
  /\ None \notin Users \union Sessions /\ Users \intersect Sessions = {}
  /\ \A p \in Periods : p.n \in Nat \ {0} /\ p.unit \in Nat \ {0}
  /\ \A s \in Scenes :
       /\ s.parts \subseteq {"visits", "cart", "favorites", "wishes", "orders", "stock"}
       /\ s.tiles \subseteq Products /\ s.requests \in Nat /\ s.atOnce \in Nat /\ s.orders \in Nat
  /\ Price \in [Products -> Nat] /\ IsFiniteSet(Products) /\ TopTiles \in Nat \ {0}
  /\ DOMAIN RoomsOf = Products /\ IsFiniteSet(UNION {RoomsOf[q] : q \in Products})
  /\ \A q \in Products : RoomsOf[q] # {} => Price[q] % Cardinality(RoomsOf[q]) = 0

VARIABLES
  scene,      \* bound: the parts of the storefront and the tiles that this behaviour
              \* uses, how many requests and orders there are and how many are served at once
  left,       \* the requests still to come
  day,
  orders,     \* the order table
  journey,    \* CustomerJourneyEvent
  acts,       \* TileEvent
  moves,      \* StockAdjustment
  quotes,     \* QuoteRequest
  keys,       \* the deduplication keys in Redis
  favorites,  \* the Favorite table
  carts,      \* users with a Cart row
  items,      \* items[u]: the products in the cart of u
  flight,     \* flight[w]: the request that w is serving
  failed      \* requests that ended in an error nobody handles, and what met them

rows == <<orders, moves, quotes>>
shelf == <<favorites, carts, items>>
log == <<journey, acts, keys>>
vars == <<scene, left, day, rows, log, shelf, flight, failed>>

Idle == [op |-> "idle"]
Init ==
  /\ scene \in Scenes /\ left = scene.requests /\ day = 1
  /\ orders = <<>> /\ journey = <<>> /\ acts = <<>> /\ moves = <<>> /\ quotes = <<>>
  /\ keys = {} /\ favorites = {} /\ carts = {} /\ items = [u \in Users |-> {}]
  /\ flight = [w \in Workers |-> Idle] /\ failed = {}

\* A request of this part of the storefront reaches an idle worker.
Arrives(w, part) ==
  /\ part \in scene.parts /\ left > 0 /\ left' = left - 1
  /\ flight[w] = Idle /\ Cardinality({v \in Workers : flight[v] # Idle}) < scene.atOnce
At(w, op, step) == flight[w].op = op /\ flight[w].step = step
Become(w, r) == flight' = [flight EXCEPT ![w] = r]
Goto(w, step) == Become(w, [flight[w] EXCEPT !.step = step])
JourneyRow(u, s, stage, order) ==
  [user |-> u, session |-> s, stage |-> stage, at |-> day, order |-> order]
TileRow(u, s, q, type, order) ==
  [user |-> u, session |-> s, product |-> q, type |-> type, at |-> day, order |-> order]
\* recordJourneyEvent for a step that the server itself saw, under the user's id.
Told(u, stage, order) == Append(journey, JourneyRow(u, u, stage, order))

-----------------------------------------------------------------------------
(* Public events.  A key in Redis stands for what was counted already.     *)

Visitors == Users \union {None}
Identity(r) == IF r.user # None THEN r.user ELSE r.session
KeyOf(r) == [who |-> Identity(r), what |-> r.what, product |-> r.product]

\* recordPublicJourneyEvent, recordPublicTileEvent and recordPublicComparison:
\* what is a stage, a view of a product (or its application, which is treated
\* alike), or a comparison.
JourneyStages == {"OPENED_SYSTEM", "VIEWED_TILE"}
Public == ({"VIEWED"} \X Products)
          \union ((JourneyStages \union {"COMPARED"}) \X {None})
\* A mutant: the key in Redis alone tells whether the customer came before.
MutantVisit(w) == \E u \in Visitors, s \in Sessions, what \in Public :
  /\ Arrives(w, "visits") /\ what[2] \in scene.tiles \union {None}
  /\ Become(w, [op |-> "visit", user |-> u, session |-> s, what |-> what[1],
                product |-> what[2], step |-> "claim"])
  /\ UNCHANGED <<scene, day, rows, log, shelf, failed>>
Visit(w) == \E u \in Visitors, s \in Sessions, what \in Public :
  /\ Arrives(w, "visits") /\ what[2] \in scene.tiles \union {None}
  /\ Become(w, [op |-> "visit", user |-> u, session |-> s, what |-> what[1],
                product |-> what[2],
                step |-> IF what[1] = "OPENED_SYSTEM" /\ u # None THEN "look" ELSE "claim"])
  /\ UNCHANGED <<scene, day, rows, log, shelf, failed>>

\* The customer has opened the system before, according to the table.
LookForOpening(w) ==
  /\ At(w, "visit", "look")
  /\ IF \E i \in DOMAIN journey : /\ journey[i].user = flight[w].user
                                  /\ journey[i].stage = "OPENED_SYSTEM"
     THEN Become(w, Idle) ELSE Goto(w, "claim")
  /\ UNCHANGED <<scene, left, day, rows, log, shelf, failed>>

\* setIfAbsent.
Claim(w) ==
  /\ At(w, "visit", "claim")
  /\ IF KeyOf(flight[w]) \in keys
     THEN Become(w, Idle) /\ UNCHANGED keys
     ELSE Goto(w, "write") /\ keys' = keys \union {KeyOf(flight[w])}
  /\ UNCHANGED <<scene, left, day, rows, journey, acts, shelf, failed>>

\* The events of one report; a comparison has one for each of its products.
Events(r) ==
  IF r.what \in JourneyStages
  THEN {JourneyRow(r.user, r.session, r.what, 0)}
  ELSE IF r.what = "COMPARED"
       THEN {TileRow(r.user, r.session, q, "COMPARED", 0) : q \in scene.tiles}
       ELSE {TileRow(r.user, r.session, r.product, r.what, 0)}
Add(E, what) ==
  IF what \in JourneyStages
  THEN journey' = journey \o SetToSeq(E) /\ UNCHANGED acts
  ELSE acts' = acts \o SetToSeq(E) /\ UNCHANGED journey
Write(w) ==
  /\ At(w, "visit", "write")
  /\ Add(Events(flight[w]), flight[w].what)
  /\ Become(w, Idle)
  /\ UNCHANGED <<scene, left, day, rows, keys, shelf, failed>>
\* A write failed; the others of a comparison may have been written.
WriteFails(w) ==
  /\ At(w, "visit", "write")
  /\ \E done \in (SUBSET Events(flight[w])) \ {Events(flight[w])} : Add(done, flight[w].what)
  /\ keys' = keys \ {KeyOf(flight[w])}
  /\ Become(w, Idle)
  /\ UNCHANGED <<scene, left, day, rows, shelf, failed>>

\* A key runs out: a tile's within a minute, a stage's after a day.
KeyRunsOut == \E k \in keys :
  /\ k.what \in JourneyStages =>
       day > 1 /\ \A w \in Workers : flight[w].op = "visit" => KeyOf(flight[w]) # k
  /\ keys' = keys \ {k}
  /\ UNCHANGED <<scene, left, day, rows, journey, acts, shelf, flight, failed>>
-----------------------------------------------------------------------------
(* The cart.  An upsert finds its row, or finds none and inserts one.      *)

PutInCart(w) == \E u \in Users, q \in Products :
  /\ Arrives(w, "cart") /\ q \in scene.tiles
  /\ Become(w, [op |-> "put", user |-> u, product |-> q, again |-> FALSE, met |-> {},
                step |-> IF u \in carts THEN "find" ELSE "cart"])
  /\ UNCHANGED <<scene, day, rows, log, shelf, failed>>

\* getOrCreateCart inserts, or meets the cart of another request on its retry.
MakeCart(w) ==
  /\ At(w, "put", "cart")
  /\ carts' = carts \union {flight[w].user}
  /\ Goto(w, "find")
  /\ UNCHANGED <<scene, left, day, rows, log, favorites, items, failed>>

FindItem(w) ==
  /\ At(w, "put", "find")
  /\ Goto(w, IF flight[w].product \in items[flight[w].user] THEN "update" ELSE "insert")
  /\ UNCHANGED <<scene, left, day, rows, log, shelf, failed>>

Fail(w) == failed' = failed \union {[op |-> flight[w].op, met |-> flight[w].met]}
UpdateItem(w) ==
  /\ At(w, "put", "update")
  /\ IF flight[w].product \in items[flight[w].user] THEN UNCHANGED failed ELSE Fail(w)
  /\ Become(w, Idle)
  /\ UNCHANGED <<scene, left, day, rows, log, shelf>>

\* A mutant: the loser of a race for the row fails at once.
MutantInsertItem(w) ==
  LET r == flight[w]
  IN /\ At(w, "put", "insert")
     /\ IF r.product \notin items[r.user]
        THEN items' = [items EXCEPT ![r.user] = @ \union {r.product}] /\ UNCHANGED failed
        ELSE Fail(w) /\ UNCHANGED items
     /\ Become(w, Idle)
     /\ UNCHANGED <<scene, left, day, rows, log, favorites, carts>>
\* retryOnUniqueRace: the second attempt starts over.
InsertItem(w) ==
  LET r == flight[w]
      taken == r.product \in items[r.user]
  IN /\ At(w, "put", "insert")
     /\ items' = [items EXCEPT ![r.user] = @ \union {r.product}]
     /\ IF taken /\ r.again THEN Fail(w) ELSE UNCHANGED failed
     /\ IF taken /\ ~r.again
        THEN Become(w, [r EXCEPT !.again = TRUE, !.step = "find"]) ELSE Become(w, Idle)
     /\ UNCHANGED <<scene, left, day, rows, log, favorites, carts>>

\* The requests under way (ops) for the rows of u and the products Q meet their removal.
Meets(ops, u, Q) == [w \in Workers |->
  IF flight[w].op \in ops /\ flight[w].user = u /\ flight[w].product \in Q
  THEN [flight[w] EXCEPT !.met = @ \union {"removal"}] ELSE flight[w]]

\* removeItem finds the row before it deletes it.
TakeFromCart(w) == \E u \in Users, q \in Products :
  /\ Arrives(w, "cart")
  /\ carts' = carts \union {u}
  /\ q \in items[u]
  /\ Become(w, [op |-> "take", user |-> u, product |-> q, met |-> {}, step |-> "delete"])
  /\ UNCHANGED <<scene, day, rows, log, favorites, items, failed>>
DeleteItem(w) ==
  LET r == flight[w]
  IN /\ At(w, "take", "delete")
     /\ IF r.product \in items[r.user] THEN UNCHANGED failed ELSE Fail(w)
     /\ items' = [items EXCEPT ![r.user] = @ \ {r.product}]
     /\ flight' = [Meets({"put", "take"}, r.user, {r.product}) EXCEPT ![w] = Idle]
     /\ UNCHANGED <<scene, left, day, rows, log, favorites, carts>>
ClearCart(w) == \E u \in Users :
  /\ Arrives(w, "cart")
  /\ carts' = carts \union {u}
  /\ items' = [items EXCEPT ![u] = {}]
  /\ flight' = Meets({"put", "take"}, u, items[u])
  /\ UNCHANGED <<scene, day, rows, log, favorites, failed>>

-----------------------------------------------------------------------------
(* Favorites.                                                              *)

Like(w) == \E u \in Users, q \in Products :
  /\ Arrives(w, "favorites") /\ q \in scene.tiles /\ <<u, q>> \notin favorites
  /\ Become(w, [op |-> "like", user |-> u, product |-> q, step |-> "create"])
  /\ UNCHANGED <<scene, day, rows, log, shelf, failed>>
\* The loser of a race is told that the product is saved already.
CreateFavorite(w) ==
  LET r == flight[w]
  IN /\ At(w, "like", "create")
     /\ favorites' = favorites \union {<<r.user, r.product>>}
     /\ IF <<r.user, r.product>> \in favorites THEN Become(w, Idle) ELSE Goto(w, "tell")
     /\ UNCHANGED <<scene, left, day, rows, log, carts, items, failed>>
TellLiked(w) == \E told \in BOOLEAN :
  /\ At(w, "like", "tell")
  /\ acts' = IF told THEN Append(acts, TileRow(flight[w].user, flight[w].user,
                                               flight[w].product, "SAVED", 0)) ELSE acts
  /\ Become(w, Idle)
  /\ UNCHANGED <<scene, left, day, rows, journey, keys, shelf, failed>>
Unlike(w) == \E f \in favorites :
  /\ Arrives(w, "favorites")
  /\ Become(w, [op |-> "unlike", user |-> f[1], product |-> f[2], met |-> {}, step |-> "delete"])
  /\ UNCHANGED <<scene, day, rows, log, shelf, failed>>
DeleteFavorite(w) ==
  LET r == flight[w]
  IN /\ At(w, "unlike", "delete")
     /\ IF <<r.user, r.product>> \in favorites THEN UNCHANGED failed ELSE Fail(w)
     /\ favorites' = favorites \ {<<r.user, r.product>>}
     /\ flight' = [Meets({"unlike"}, r.user, {r.product}) EXCEPT ![w] = Idle]
     /\ UNCHANGED <<scene, left, day, rows, log, carts, items>>

-----------------------------------------------------------------------------
(* Designs, quotation requests and orders: each is saved, then told of if  *)
(* the event can be written.                                               *)

\* The stages still to be told of, each on its own best effort.
Telling(u, stages, order) ==
  [op |-> "tell", user |-> u, stages |-> stages, order |-> order, step |-> "tell"]
Tell(w) == \E told \in BOOLEAN :
  LET r == flight[w]
  IN /\ At(w, "tell", "tell")
     /\ journey' = IF told THEN Told(r.user, Head(r.stages), r.order) ELSE journey
     /\ Become(w, IF Len(r.stages) = 1 THEN Idle ELSE [r EXCEPT !.stages = Tail(@)])
     /\ UNCHANGED <<scene, left, day, rows, acts, keys, shelf, failed>>

\* saveDesign: the tiles applied come first, and their failure ends the telling.
SaveDesign(w) == \E u \in Users, q \in Products, told \in BOOLEAN :
  /\ Arrives(w, "wishes") /\ q \in scene.tiles
  /\ acts' = IF told THEN Append(acts, TileRow(u, u, q, "APPLIED", 0)) ELSE acts
  /\ Become(w, IF told THEN Telling(u, <<"SAVED_DESIGN">>, 0) ELSE Idle)
  /\ UNCHANGED <<scene, day, rows, journey, keys, shelf, failed>>
RequestQuote(w) == \E u \in Users :
  /\ Arrives(w, "wishes")
  /\ quotes' = Append(quotes, [user |-> u, at |-> day, status |-> "PENDING"])
  /\ Become(w, Telling(u, <<"REQUESTED_QUOTATION">>, 0))
  /\ UNCHANGED <<scene, day, orders, moves, log, shelf, failed>>
UpdateQuote(w) == \E i \in DOMAIN quotes, status \in {"NEGOTIATING", "DECLINED"} :
  /\ Arrives(w, "wishes")
  /\ quotes' = [quotes EXCEPT ![i].status = status]
  /\ Become(w, IF status = "NEGOTIATING" THEN Telling(quotes[i].user, <<"NEGOTIATED">>, 0)
               ELSE Idle)
  /\ UNCHANGED <<scene, day, orders, moves, log, shelf, failed>>

\* One line for each of the tiles Q.
Lined(Q) == [q \in Q |-> Price[q]]
\* createOnce, by the customer or by staff for the customer.
PlaceOrder(w) == \E u \in Users, c \in Creators, Q \in (SUBSET Products) \ {{}} :
  /\ Arrives(w, "orders") /\ Q \subseteq scene.tiles /\ Len(orders) < scene.orders
  /\ orders' = Append(orders, [customer |-> u, creator |-> c, lines |-> Lined(Q),
                               amount |-> SumOf(Lined(Q)), at |-> day, paidAt |-> 0,
                               status |-> "PENDING", quotation |-> "REQUESTED"])
  /\ Become(w, Telling(u, <<"REQUESTED_QUOTATION", "PLACED_ORDER">>, Len(orders) + 1))
  /\ UNCHANGED <<scene, day, moves, quotes, log, shelf, failed>>
\* updateItems, for an order that nobody paid.
Revise(w) == \E i \in Unpaid(orders), Q \in (SUBSET Products) \ {{}} :
  /\ Arrives(w, "orders") /\ Q \subseteq scene.tiles
  /\ orders' = [orders EXCEPT ![i].lines = Lined(Q), ![i].amount = SumOf(Lined(Q))]
  /\ UNCHANGED <<scene, day, moves, quotes, log, shelf, flight, failed>>

\* The movements of the lines of an order, one each.
Moved(o, change, type) == moves \o SetToSeq(
  {[product |-> q, change |-> change, type |-> type, at |-> day] : q \in DOMAIN o.lines})
\* A mutant: one event for the order, whatever its lines.
MutantPurchases(i) ==
  LET o == orders[i]
  IN {TileRow(o.customer, o.customer, CHOOSE q \in DOMAIN o.lines : TRUE, "PURCHASED", i)}
\* The tile events of a payment: one for each line.
Purchases(i) ==
  LET o == orders[i]
  IN {TileRow(o.customer, o.customer, q, "PURCHASED", i) : q \in DOMAIN o.lines}
\* verifyPayment with deductOrderStock, in one transaction.
VerifyPayment(w) == \E i \in Unpaid(orders) :
  /\ Arrives(w, "orders")
  /\ orders' = [orders EXCEPT ![i].quotation = "VERIFIED", ![i].paidAt = day]
  /\ moves' = Moved(orders[i], -1, "OUTBOUND")
  /\ acts' = acts \o SetToSeq(Purchases(i))
  /\ journey' = Told(orders[i].customer, "PURCHASED", i)
  /\ UNCHANGED <<scene, day, quotes, keys, shelf, flight, failed>>
Deliver(w) == \E i \in DOMAIN orders :
  /\ Arrives(w, "orders") /\ orders[i].status = "PENDING" /\ orders[i].quotation = "VERIFIED"
  /\ orders' = [orders EXCEPT ![i].status = "DELIVERED"]
  /\ UNCHANGED <<scene, day, moves, quotes, log, shelf, flight, failed>>

\* A mutant: the purchase stays in the journey of the customer.
MutantCancel(w) == \E i \in DOMAIN orders :
  LET o == orders[i]
  IN /\ Arrives(w, "orders") /\ o.status = "PENDING"
     /\ orders' = [orders EXCEPT ![i].status = "CANCELLED"]
     /\ moves' = IF o.paidAt = 0 THEN moves ELSE Moved(o, 1, "INBOUND")
     /\ acts' = Kept(acts, {k \in DOMAIN acts :
                               ~(acts[k].type = "PURCHASED" /\ acts[k].order = i)})
     /\ UNCHANGED <<scene, day, quotes, journey, keys, shelf, flight, failed>>
\* The cancellation of updateStatus, with returnOrderStock for a paid order.
Cancel(w) == \E i \in DOMAIN orders :
  LET o == orders[i]
  IN /\ Arrives(w, "orders") /\ o.status = "PENDING"
     /\ orders' = [orders EXCEPT ![i].status = "CANCELLED"]
     /\ IF o.paidAt = 0 THEN UNCHANGED <<moves, acts, journey>>
        ELSE /\ moves' = Moved(o, 1, "INBOUND")
             /\ acts' = Kept(acts, {k \in DOMAIN acts :
                                       ~(acts[k].type = "PURCHASED" /\ acts[k].order = i)})
             /\ journey' = Kept(journey, {k \in DOMAIN journey :
                                       ~(journey[k].stage = "PURCHASED" /\ journey[k].order = i)})
     /\ UNCHANGED <<scene, day, quotes, keys, shelf, flight, failed>>

\* adjustStock, by staff.
Restock(w) == \E q \in Products, move \in {<<2, "INBOUND">>, <<-1, "ADJUSTMENT">>} :
  /\ Arrives(w, "stock") /\ q \in scene.tiles
  /\ moves' = Append(moves, [product |-> q, change |-> move[1], type |-> move[2], at |-> day])
  /\ UNCHANGED <<scene, day, orders, quotes, log, shelf, flight, failed>>

-----------------------------------------------------------------------------
\* A request's process dies between two of its steps.
Die(w) ==
  /\ flight[w] # Idle
  /\ Become(w, Idle)
  /\ UNCHANGED <<scene, left, day, rows, log, shelf, failed>>
Tick == day < MaxDay /\ day' = day + 1
        /\ UNCHANGED <<scene, left, rows, log, shelf, flight, failed>>

Next ==
  \/ \E w \in Workers :
       \/ Visit(w) \/ LookForOpening(w) \/ Claim(w) \/ Write(w) \/ WriteFails(w)
       \/ PutInCart(w) \/ MakeCart(w) \/ FindItem(w) \/ UpdateItem(w) \/ InsertItem(w)
       \/ TakeFromCart(w) \/ DeleteItem(w) \/ ClearCart(w)
       \/ Like(w) \/ CreateFavorite(w) \/ TellLiked(w) \/ Unlike(w) \/ DeleteFavorite(w)
       \/ SaveDesign(w) \/ RequestQuote(w) \/ UpdateQuote(w) \/ Tell(w)
       \/ PlaceOrder(w) \/ Revise(w) \/ VerifyPayment(w) \/ Deliver(w) \/ Cancel(w) \/ Restock(w)
       \/ Die(w)
  \/ KeyRunsOut \/ Tick
Spec == Init /\ [][Next]_vars
-----------------------------------------------------------------------------
(* Properties.                                                             *)

\* Opening the system is recorded once for a customer, however many browsers,
\* days, retries and restarts there are (recordPublicJourneyEvent).
OpenedOnce ==
  \A i, j \in DOMAIN journey :
    (/\ journey[i].stage = "OPENED_SYSTEM" /\ journey[j].stage = "OPENED_SYSTEM"
     /\ journey[i].user # None /\ journey[i].user = journey[j].user) => i = j

\* Requests that race for one row of a cart or a favorite do not end in an
\* unhandled error, unless the row was removed while they ran
\* (retryOnUniqueRace, FavoritesService).
FailsOnlyOverRemoval == \A f \in failed : "removal" \in f.met

\* A page reads the rows alone.  A process may die at any step (Die), so the
\* states in which nobody is served show every content the rows can have.
Settled == \A w \in Workers : flight[w] = Idle
\* The window before the current one, as a day in it.
Yesterday(p) == Resolve(p, day).from - 1

\* The parts of the sales page add up to its total, and to the total that the
\* next window shows for this one.  The best sellers never exceed the total, and
\* make it up unless a tile that sold is missing from the list.  Stock movements
\* add up the same way, also in an export whose dates are chosen freely
\* (creatorBreakdown, bucketize, sales, projectTypeDistribution, stockSummary,
\* resolveStockExportPeriod).
SalesAddUp == Settled =>
  /\ \A p \in Periods :
       LET sales == Sales(orders, Users, p, day)
           rooms == ProjectTypes(orders, RoomsOf, p, day)
           stock == StockSummary(moves, Resolve(p, day))
           sold == Lines(orders, EarnedIn(orders, Resolve(p, day)))
       IN /\ SumOf(sales.trend) = sales.totalSales
          /\ SumOf(sales.byCreator) = sales.totalSales
          /\ Total(Creators, [c \in Creators |-> SumOf(sales.creatorTrend[c])]) = sales.totalSales
          /\ \A list \in sales.bestSelling :
               /\ SumOf(list) <= sales.totalSales
               /\ {l[2] : l \in sold} \subseteq DOMAIN list => SumOf(list) = sales.totalSales
          /\ Total(DOMAIN rooms, [t \in DOMAIN rooms |-> rooms[t].revenue]) =
              Total({l \in sold : RoomsOf[l[2]] # {}}, LineAmounts(orders))
          /\ sales.previousTotalSales = Sales(orders, Users, p, Yesterday(p)).totalSales
          /\ SumOf(sales.byStatus) = sales.totalOrders
          /\ SumOf(stock.trend) = stock.netChange
          /\ SumOf(stock.byType) = stock.netChange
  /\ \A from \in 1 .. day : \A last \in from .. day : \A most \in {1, MaxDay} :
       LET stock == StockSummary(moves, ExportPeriod(from, last, most, 2))
       IN SumOf(stock.trend) = stock.netChange

\* "the slices add up to the totals instead of double counting" (analytics.service.ts:419-424):
\* they do not once a tile without a room type was sold.  No run checks it (README, section 4).
RoomTypesAddUp == Settled => \A p \in Periods :
  LET rooms == ProjectTypes(orders, RoomsOf, p, day)
  IN Total(DOMAIN rooms, [t \in DOMAIN rooms |-> rooms[t].revenue])
       = Sales(orders, Users, p, day).totalSales

\* Pages that show the same figure agree on it: overview, sales and customers on
\* revenue, unpaid orders and repeat customers; the journey on the payments that
\* were verified and not cancelled, the tile page on their lines, tile by tile;
\* every order is a request for a quotation (overview, sales, customers, tiles,
\* journeyStageDetail, requestedQuotationStageDetail, deductOrderStock,
\* returnOrderStock).
PagesAgree == Settled => \A p \in Periods :
  LET w == Resolve(p, day)
      overview == Overview(orders, Users, p, day)
      sales == Sales(orders, Users, p, day)
      tiles == Tiles(acts, Products, p, day)
      purchased == {i \in DOMAIN journey : /\ journey[i].stage = "PURCHASED"
                                           /\ In(w, journey[i].at)}
  IN /\ overview.totalSales = sales.totalSales /\ overview.revenueTrend = sales.trend
     /\ overview.totalOrders = sales.totalOrders
     /\ overview.byCreator = sales.byCreator /\ overview.creatorTrend = sales.creatorTrend
     /\ overview.pendingOrders = sales.unpaidOrders
     /\ overview.repeat = sales.repeat
     /\ overview.repeat = Customers(orders, Users, p, day).repeat
     /\ \A q \in Products : tiles.rows[q]["PURCHASED"] =
          Cardinality({i \in EarnedIn(orders, w) : q \in DOMAIN orders[i].lines})
     /\ tiles.totals["PURCHASED"] = Cardinality(Lines(orders, EarnedIn(orders, w)))
     /\ Cardinality(purchased) = sales.paidOrders
     /\ {journey[i].order : i \in purchased} = EarnedIn(orders, w)
     /\ StageDetail("PURCHASED", journey, orders, acts, w).actions
          \subseteq {i \in DOMAIN orders : Earned(orders[i])}
     /\ sales.totalOrders <= RequestedQuotationDetail(orders, quotes, w).requests

\* Over adjacent windows a customer is new at most once, and every order that was
\* not cancelled is one of a new customer or of a returning one (customers).
NewOrRepeatOnce == Settled => \A p \in Periods :
  LET now == Customers(orders, Users, p, day)
      before == Customers(orders, Users, p, Yesterday(p))
      w == Resolve(p, day)
  IN /\ SumOf(now.new) + SumOf(before.new) <= Cardinality({orders[i].customer : i \in DOMAIN orders})
     /\ SumOf(now.new) + SumOf(now.again) =
          Cardinality({i \in DOMAIN orders : orders[i].status # "CANCELLED" /\ In(w, orders[i].at)})

\* The funnel never widens, begins with every visitor once (a browser is one with
\* the customer who signed in on it), ends with the customers who paid, and has at
\* least the customers that a stage's drill-down lists (funnelFromEvents,
\* journeyIdentity, journeyAnalytics, journeyStageDetail).
FunnelIsCumulative == Settled => \A p \in Periods :
  LET w == Resolve(p, day)
      events == InWindow(journey, w)
      page == Journey(journey, p, day)
      named == {events[i].user : i \in DOMAIN events} \ {None}
      strangers == {events[i].session : i \in DOMAIN events} \
                   {events[i].session : i \in {j \in DOMAIN events : events[j].user # None}}
  IN /\ \A k \in DOMAIN Stages : page.stages[k].dropOff >= 0
     /\ page.stages[1].customers = Cardinality(named \union strangers)
     /\ page.stages[1].customers = page.sessions
     /\ page.stages[Len(Stages)].customers =
          Cardinality({orders[i].customer : i \in EarnedIn(orders, w)})
     /\ \A k \in DOMAIN Stages :
          Stages[k] \in {"SAVED_DESIGN", "NEGOTIATED", "PLACED_ORDER", "PURCHASED"} =>
            Cardinality(StageDetail(Stages[k], journey, orders, acts, w).users)
              <= page.stages[k].customers
=============================================================================
