------------------------------ MODULE Figures ------------------------------
(***************************************************************************)
(* The figures of the dashboards and reports (AnalyticsService,            *)
(* ReportsService) as functions of the rows they are read from.  The       *)
(* clock counts days, and an amount is a whole number of units.            *)
(*                                                                         *)
(* orders: a sequence of [customer, creator, lines, amount, at, paidAt,    *)
(* status, quotation], in order of creation; paidAt is 0 for null, lines   *)
(* maps each tile of the order to what its line costs (no tile has two     *)
(* lines, assertProductsOrderable), and amount is the subtotal.            *)
(* journey: a sequence of [user, session, stage, at], user None for a      *)
(* visitor who has not signed in.                                          *)
(***************************************************************************)
EXTENDS Integers, Sequences, FiniteSets, SequencesExt, Rows

CONSTANT TopTiles   \* how many tiles the best sellers list at most (10)

None == "none"
Creators == {"CUSTOMER", "STAFF"}
\* JOURNEY_ORDER, without the stages that no figure sets apart.
Stages == <<"OPENED_SYSTEM", "VIEWED_TILE", "APPLIED_TILE", "SAVED_DESIGN",
            "REQUESTED_QUOTATION", "NEGOTIATED", "PLACED_ORDER", "PURCHASED">>

Total(S, f) == MapThenSumSet(LAMBDA i : f[i], S)
Percent(part, whole) == IF whole = 0 THEN 0 ELSE (100 * part) \div whole

-----------------------------------------------------------------------------
(* Windows of time.                                                        *)

\* resolvePeriod: the last p.n buckets of p.unit days, today's included.
Resolve(p, today) ==
  LET first == p.unit * (today \div p.unit) - (p.n - 1) * p.unit
  IN [from |-> first, to |-> first + p.n * p.unit,
      buckets |-> [i \in 1 .. p.n |-> [start |-> first + (i - 1) * p.unit,
                                       end |-> first + i * p.unit]]]
In(w, at) == at >= w.from /\ at < w.to
\* A mutant: a bucket includes the day it ends on.
MutantInBucket(b, at) == at >= b.start /\ at <= b.end
InBucket(b, at) == at >= b.start /\ at < b.end

\* resolveStockExportPeriod with both days chosen: daily buckets up to maxDaily
\* days, else months of `month` days, cut off at the ends.
ExportPeriod(from, last, maxDaily, month) ==
  LET to == last + 1
      unit == IF to - from <= maxDaily THEN 1 ELSE month
      first == unit * (from \div unit)
      Cut(d) == IF d < from THEN from ELSE IF d > to THEN to ELSE d
  IN [from |-> from, to |-> to,
      buckets |-> [i \in 1 .. ((to - first + unit - 1) \div unit) |->
                     [start |-> Cut(first + (i - 1) * unit), end |-> Cut(first + i * unit)]]]

\* Rows of the set S, each with a date and a value, in the buckets of the window.
Bucketize(S, w, date, value) ==
  [i \in DOMAIN w.buckets |->
     Total({r \in S : In(w, date[r]) /\ InBucket(w.buckets[i], date[r])}, value)]
SumOf(f) == Total(DOMAIN f, f)
Dates(table) == [i \in DOMAIN table |-> table[i].at]

-----------------------------------------------------------------------------
(* Orders and money.  A row is known by its position.                      *)

Earned(o) == o.quotation = "VERIFIED" /\ o.status # "CANCELLED" /\ o.paidAt # 0
EarnedIn(orders, w) == {i \in DOMAIN orders : Earned(orders[i]) /\ In(w, orders[i].paidAt)}
Unpaid(orders) ==
  {i \in DOMAIN orders : orders[i].status = "PENDING" /\ orders[i].quotation # "VERIFIED"}
Amounts(orders) == [i \in DOMAIN orders |-> orders[i].amount]
PaidAt(orders) == [i \in DOMAIN orders |-> orders[i].paidAt]

\* The lines of these orders, each an order and a tile, and what they cost.
Lines(orders, rows) == UNION {{<<i, q>> : q \in DOMAIN orders[i].lines} : i \in rows}
LineAmounts(orders) ==
  [l \in Lines(orders, DOMAIN orders) |-> orders[l[1]].lines[l[2]]]
\* What each tile in these orders brought in.
Revenue(orders, rows) ==
  [q \in {l[2] : l \in Lines(orders, rows)} |->
     Total({l \in Lines(orders, rows) : l[2] = q}, LineAmounts(orders))]
\* The lists that an answer of at most TopTiles tiles, the most revenue first, can
\* hold: tiles of equal revenue come in any order.
BestSelling(revenue) ==
  LET sold == DOMAIN revenue
      size == IF Cardinality(sold) < TopTiles THEN Cardinality(sold) ELSE TopTiles
  IN {[q \in top |-> revenue[q]] : top \in {T \in SUBSET sold :
        /\ Cardinality(T) = size
        /\ \A q \in T : \A r \in sold \ T : revenue[q] >= revenue[r]}}

\* creatorBreakdown.
CreatorBreakdown(orders, rows, w) ==
  LET Of(c) == {i \in rows : orders[i].creator = c}
  IN [byCreator |-> [c \in Creators |-> Total(Of(c), Amounts(orders))],
      trend |-> [c \in Creators |-> Bucketize(Of(c), w, PaidAt(orders), Amounts(orders))]]

\* Customers with more than one paid order: overview and sales do not ask for
\* the date of payment, customers does.
RepeatCustomers(orders, customers, dated) ==
  {c \in customers : Cardinality({i \in DOMAIN orders :
     /\ orders[i].customer = c
     /\ orders[i].quotation = "VERIFIED" /\ orders[i].status # "CANCELLED"
     /\ dated => orders[i].paidAt # 0}) > 1}

\* overview.
Overview(orders, customers, p, today) ==
  LET w == Resolve(p, today)
      rows == EarnedIn(orders, w)
  IN [totalSales |-> Total(rows, Amounts(orders)),
      totalOrders |-> Cardinality({i \in DOMAIN orders : In(w, orders[i].at)}),
      pendingOrders |-> Cardinality(Unpaid(orders)),
      pendingFulfillments |-> Cardinality({i \in DOMAIN orders :
        orders[i].quotation = "VERIFIED" /\ orders[i].status = "PENDING"}),
      byCreator |-> CreatorBreakdown(orders, rows, w).byCreator,
      creatorTrend |-> CreatorBreakdown(orders, rows, w).trend,
      repeat |-> RepeatCustomers(orders, customers, FALSE),
      revenueTrend |-> Bucketize(rows, w, PaidAt(orders), Amounts(orders))]

\* sales: with the total of the window before, which ends where this one starts.
Sales(orders, customers, p, today) ==
  LET w == Resolve(p, today)
      before == [from |-> Resolve(p, w.from - 1).from, to |-> w.from]
      rows == EarnedIn(orders, w)
      placed == {i \in DOMAIN orders : In(w, orders[i].at)}
  IN [totalSales |-> Total(rows, Amounts(orders)),
      previousTotalSales |-> Total(EarnedIn(orders, before), Amounts(orders)),
      totalOrders |-> Cardinality(placed), paidOrders |-> Cardinality(rows),
      unpaidOrders |-> Cardinality(Unpaid(orders)),
      byStatus |-> [s \in {"PENDING", "DELIVERED", "CANCELLED"} |->
                      Cardinality({i \in placed : orders[i].status = s})],
      byCreator |-> CreatorBreakdown(orders, rows, w).byCreator,
      creatorTrend |-> CreatorBreakdown(orders, rows, w).trend,
      bestSelling |-> BestSelling(Revenue(orders, rows)),
      repeat |-> RepeatCustomers(orders, customers, FALSE),
      trend |-> Bucketize(rows, w, PaidAt(orders), Amounts(orders))]

\* A mutant: only the customers seen in the window itself are known.
MutantIsFirst(orders, i, w) ==
  \A j \in 1 .. i - 1 : ~In(w, orders[j].at) \/ orders[j].status = "CANCELLED"
                         \/ orders[j].customer # orders[i].customer
\* customers: an order is its customer's first if none went before it, ever.
IsFirst(orders, i, w) ==
  \A j \in 1 .. i - 1 : orders[j].status = "CANCELLED" \/ orders[j].customer # orders[i].customer
Customers(orders, customers, p, today) ==
  LET w == Resolve(p, today)
      rows == {i \in DOMAIN orders : orders[i].status # "CANCELLED"}
      Trend(S) == Bucketize(S, w, Dates(orders), [i \in DOMAIN orders |-> 1])
  IN [repeat |-> RepeatCustomers(orders, customers, TRUE),
      new |-> Trend({i \in rows : IsFirst(orders, i, w)}),
      again |-> Trend({i \in rows : ~IsFirst(orders, i, w)})]

\* projectTypeDistribution: the amount of a line in equal shares to the room
\* types of its product, the customer to every one of them.  A tile without a
\* room type is passed over.
ProjectTypes(orders, roomsOf, p, today) ==
  LET w == Resolve(p, today)
      sold == Lines(orders, EarnedIn(orders, w))
      share == [l \in sold |-> LineAmounts(orders)[l] \div Cardinality(roomsOf[l[2]])]
      placed == Lines(orders, {i \in DOMAIN orders :
                                 orders[i].status # "CANCELLED" /\ In(w, orders[i].at)})
  IN [t \in UNION {roomsOf[q] : q \in DOMAIN roomsOf} |->
        [revenue |-> Total({l \in sold : t \in roomsOf[l[2]]}, share),
         customers |-> {orders[l[1]].customer : l \in {k \in placed : t \in roomsOf[k[2]]}}]]

-----------------------------------------------------------------------------
(* The customer journey.                                                   *)

\* A mutant: what a visitor did before signing in is another person's.
MutantPerson(journey, i) ==
  IF journey[i].user # None THEN journey[i].user ELSE journey[i].session
\* journeyIdentity: the last signed-in event of the session names the visitor.
Person(journey, i) ==
  LET named == {j \in DOMAIN journey : journey[j].session = journey[i].session
                                       /\ journey[j].user # None}
  IN CASE journey[i].user # None -> journey[i].user
       [] journey[i].user = None /\ named # {} -> journey[Max(named)].user
       [] OTHER -> journey[i].session
StageIndex(s) == CHOOSE k \in DOMAIN Stages : Stages[k] = s

\* funnelFromEvents: a person counts up to the furthest stage reached.
Funnel(journey) ==
  LET reached == {<<Person(journey, i), StageIndex(journey[i].stage)>> : i \in DOMAIN journey}
  IN [k \in DOMAIN Stages |-> Cardinality({r[1] : r \in {q \in reached : q[2] >= k}})]
InWindow(journey, w) == Kept(journey, {i \in DOMAIN journey : In(w, journey[i].at)})

\* journeyAnalytics.
Journey(journey, p, today) ==
  LET events == InWindow(journey, Resolve(p, today))
      funnel == Funnel(events)
      Previous(k) == funnel[IF k = 1 THEN 1 ELSE k - 1]
  IN [stages |-> [k \in DOMAIN Stages |->
        [customers |-> funnel[k], dropOff |-> Previous(k) - funnel[k],
         conversion |-> Percent(funnel[k], Previous(k)),
         share |-> Percent(funnel[k], funnel[1])]],
      sessions |-> Cardinality({Person(events, i) : i \in DOMAIN events}),
      conversion |-> Percent(funnel[Len(Stages)], funnel[1])]

\* journeyStageActions: what the users listed for a stage did.  A purchase is
\* listed from its delivery on, a day the model does not keep.
StageActions(stage, users, orders, acts, w) ==
  CASE stage = "PLACED_ORDER" ->
         {i \in DOMAIN orders : orders[i].customer \in users /\ In(w, orders[i].at)}
    [] stage = "PURCHASED" ->
         {i \in DOMAIN orders : orders[i].customer \in users /\ orders[i].status = "DELIVERED"}
    [] stage \in {"VIEWED_TILE", "APPLIED_TILE"} ->
         {i \in DOMAIN acts : /\ acts[i].session \in users /\ In(w, acts[i].at)
                              /\ acts[i].type = IF stage = "VIEWED_TILE" THEN "VIEWED"
                                                ELSE "APPLIED"}
    [] OTHER -> {}

\* journeyStageDetail: the sessions that logged this very stage, and their actions.
StageDetail(stage, journey, orders, acts, w) ==
  LET events == InWindow(journey, w)
      users == {events[i].session : i \in {j \in DOMAIN events : events[j].stage = stage}}
  IN [users |-> users, actions |-> StageActions(stage, users, orders, acts, w)]
\* requestedQuotationStageDetail: read from the orders and the quote requests.
RequestedQuotationDetail(orders, quotes, w) ==
  LET asked == {i \in DOMAIN orders : In(w, orders[i].at)}
      quoted == {i \in DOMAIN quotes : In(w, quotes[i].at)}
  IN [users |-> {orders[i].customer : i \in asked} \union {quotes[i].user : i \in quoted},
      requests |-> Cardinality(asked) + Cardinality(quoted),
      resolved |-> Cardinality(asked \intersect {i \in DOMAIN orders :
                     orders[i].status # "CANCELLED" /\ orders[i].quotation = "VERIFIED"})]

-----------------------------------------------------------------------------
(* Tiles and stock.                                                        *)

\* tiles: counts per tile that is on sale, and the totals over every tile.
Tiles(acts, active, p, today) ==
  LET w == Resolve(p, today)
      Count(q, type) == Cardinality({i \in DOMAIN acts :
        In(w, acts[i].at) /\ acts[i].product = q /\ acts[i].type = type})
      types == {"VIEWED", "APPLIED", "COMPARED", "SAVED", "PURCHASED"}
      seen == {acts[i].product : i \in DOMAIN acts}
  IN [rows |-> [q \in active |-> [type \in types |-> Count(q, type)]],
      selectionRate |-> [q \in active |-> Percent(Count(q, "APPLIED"), Count(q, "VIEWED"))],
      totals |-> [type \in types |-> Total(seen, [q \in seen |-> Count(q, type)])]]

\* stockSummaryForPeriod, for one window and every tile.
StockSummary(moves, w) ==
  LET rows == {i \in DOMAIN moves : In(w, moves[i].at)}
      change == [i \in DOMAIN moves |-> moves[i].change]
      totalIn == Total({i \in rows : moves[i].change > 0}, change)
      totalOut == Total({i \in rows : moves[i].change < 0}, change)
  IN [netChange |-> totalIn + totalOut,
      trend |-> Bucketize(rows, w, Dates(moves), change),
      byType |-> [type \in {"INBOUND", "OUTBOUND", "ADJUSTMENT"} |->
                    Total({i \in rows : moves[i].type = type}, change)]]
=============================================================================
