# Verification of the Magnificat Smart Space server

TLA+ models of the server (`src/`), TLC configurations that check them, and
TLAPS proofs about them. The server is a NestJS API over Postgres (Prisma, READ
COMMITTED) with Redis for short-lived state. Several requests, two cron sweeps
and possibly several server processes work on the same rows; most of the
correctness of the code lies in how a handler's early read, its conditional
write and what follows the commit fit together when others act in between. That
is what the models are about.

## 1. Inventory

| Component | State it keeps | Operations | What makes it correct |
|---|---|---|---|
| orders | `Order` with items, delivery and status events; `Product.quantityOnHandSqm`, `reservedAreaSqm` | checkout, status changes, revision, delivery details, quotation, payment, expiry sweep, waitlist promotion | tiles leave the shelf once; holds follow the items; nothing sold twice; only paid orders fulfilled; the paid quotation is the one seen; cancelled is final; a retried checkout is one order; no waiting order and no lapsed hold is forgotten |
| products, collections, settings | catalogue rows, stock columns, Redis entries by role, the low-stock threshold | CRUD, `adjustStock`, cached reads and their invalidation | bounded staleness, removals are followed, an inactive tile is not recommended |
| users, auth | `User`, `RefreshToken`, pending registrations in Redis | staff management, closing, register, login, verify, refresh, logout | admins who take each other away at once leave one; a refresh token is spent once; an account has an offered profile |
| otp, redis | code, cooldown and attempt keys with times to live | send, verify | single use, bounded guesses |
| storage | link cache, slots for the provider | sign, cache, serve links | links outlive the responses that hold them; slots are not lost; nobody waits for ever |
| cart-negotiations, order messages, gateway, inbox | threads, chips, messages; socket rooms | submit, open, clear, post, push, page | chips follow the latest request; paging is complete; what is posted is pushed |
| chatbot | conversations, messages, recommendations, inquiries, media jobs | send, decide, preview, history | the reloaded conversation is the live one; an excluded tile stays out |
| cart, favorites, rooms, quotes, events | their rows; deduplication keys in Redis | upsert, toggle, save, record | races for one row end well; an event is recorded once |
| analytics, reports | none | read-only queries | parts add up, pages agree, the funnel does not widen |
| calculator, payments, notifications, translation, config | none | arithmetic, stubs that refuse, external calls | see section 7 |

**Interactions.** Checkout reads products, may open a negotiation, writes the
order and reserves stock in one transaction. Whatever frees stock triggers a
waitlist promotion after its commit, and a five-minute cron does so again.
Writes to the catalogue clear cache entries after the commit. The assistant
reads the catalogue before and after it asks the model. Orders, carts, likes
and designs leave events, from which the dashboards are computed. E-mail,
pushes and events are `bestEffort` after the commit.

**Hard behaviours.** (a) Handlers validate a read made outside the transaction
that writes; the claim in the `updateMany` decides, and does not always pin
everything the handler goes on to use. (b) The customer, several staff and
sweeps act on one order at once. (c) Keys, links and cached answers expire
while somebody works with them. (d) A request may die, or lose its reply,
between any two steps. (e) Rows take their time stamp when a transaction
starts and appear when it commits. `PROJECT.json` lists each hazard at its line.

## 2. Modules

| Module | Models | Checked by | Proved in |
|---|---|---|---|
| `OrderService` | the orders and the stock they hold or took, a Read and a Commit action per handler | `order_races`, `order_holds`, `order_overrides`, `cancel_during_revision` | `OrderServiceProofs` |
| `OrderLifecycle` | abstract: what the service promises about one order | refinement in `order_races` | refinement, in `OrderServiceProofs` |
| `Checkout` | retried checkouts, the waitlist, the sweeps as loops, failures | `checkout` | `CheckoutProofs` |
| `CheckoutOnce` | abstract: a checkout is at most one order | refinement in `checkout` | refinement |
| `Accounts` | users, roles, status and refresh tokens | `account_races` | `AccountsProofs` |
| `SignIn` | one-time codes and pending registrations in Redis | `sign_in` | `SignInProofs` |
| `Catalogue` | the caches of products, collections and the threshold | `catalogue` | `CatalogueProofs` |
| `Images` | links to stored images | `images` | `CatalogueProofs` |
| `Negotiations` | cart and order threads, pushes, inbox | `negotiations` | `NegotiationsProofs` |
| `Assistant` | the design assistant | `assistant` | `AssistantProofs` |
| `Storefront` | cart, favorites, rooms, quotes, events and the rows that orders leave | `storefront` | `StorefrontProofs` |
| `Figures` | every dashboard and report as a function of rows | with `Storefront` | |
| `Rows` | what a `deleteMany` leaves of a table | with `Negotiations`, `Assistant` and `Storefront` | |
| `MC...` | values of constants and symmetries for TLC | | |

`PROJECT.json` maps every definition to the lines it stands for.

### OrderService

`order` is the `Order` row with its items and delivery row: `hold` is
`reservationExpiresAt` (null, in the future, past), `deducted` is
`stockDeductedAt # null`, `priced` the items `total` was computed from, `seen`
the quotation rendered when `quotationViewedAt` was stamped. `onHand` and
`reserved` are the product's columns, `taken` the sum of an order's
`StockAdjustment` rows, `held` a history variable: what its writes added to
`reservedAreaSqm`. `flight` is, per worker, the request in flight and what it
has read.

A handler `h` is `hRead` (the reads and every early return before the write)
and `hCommit` (the claim and the whole transaction). Between them anything may
commit. `Drop` covers a claim that matches nothing, a rollback on
`InsufficientStockError` and a process that dies: none leaves a trace in the
database. `viewQuotation` has three steps, since the access check, the read it
renders and the stamp are separate statements. `Lapse` is the clock passing
`reservationExpiresAt`; `AdjustStock` a staff correction under the product's
row lock.

*Timestamps* are only compared for equality with an earlier read of themselves,
so a flight keeps the set `fresh` of the stamps it will compare that nobody has
rewritten since. Two writes in one millisecond get different stamps. *Reads*:
Prisma fetches an order and its items in separate statements, the model at
once: a handler that pins the order fails its claim when the two straddle a
revision, and one that does not can have the stale items in the model by reading
earlier. *Sweeps*: each order of a list is a flight of its own here, which gives
every overlap of passes; `Checkout` has the loops.

Prices are determined by items and fee, so a total is the pair of the item list
it was computed from and the fee; delivery details are a value or none. A
checkout for more than is on hand opens a negotiation instead and is not enabled
here. Nothing is assumed about overlaps. A revision (`updateItems`) may commit
between the read and the write of a request whose claim does not notice it:
`Overtaken` says when such a write changes what is counted or quoted (a
cancellation or expiry releases, a promotion reserves and a quotation prices other
items than the order has, or a quotation goes out for an order that is back on the
waitlist), and the history variable `crossed` collects the orders it happened to.
The properties about holds speak of the other orders, and `ReservedIsAccountedFor`
of all.

`OrderLifecycle` has three values per order: stage, payment, and whereabouts of
its tiles (`none`, `held`, `taken`, `lost`); `Slip` is a cancellation, a promotion
or a quotation that loses count of the tiles, and a lost count stays lost.
`OrderService!Lifecycle` instantiates it with `Whereabouts(o)`, which is `lost` for a
crossed order and where holds or movements disagree with the order's items; the
refinement shows that the second never happens.

### Checkout

One product. `orders` are the rows in the order of `createdAt`; `flight` says
where each request and each cron is; `flag` is `releasingReservations` and
`promotingWaitlistSweep`; `told` is what the customer was told. A request does
`FindCheckoutReplay`, `ReadStock`, `CreateOrder` (the unique index on
`clientRequestId` and the stock claim are in the transaction), `Retry` up to
three times (five for a clash of order numbers) and `Reply`. `ReleaseTick`,
`ReleaseOne` and `ReleaseEnd` are `releaseExpiredReservations`, with the
promotion that follows each release and the e-mail whose failure skips it;
`List`, `PromoteOne` and `PromoteEnd` are `promoteWaitlistedOrders`, run by the
safety net, by a request or by the release sweep. `LoseRequest`, `ListFails`
and `Restart` are the faults: a request dies or its reply is lost, a query of
a sweep fails, the process that runs the sweeps is started again.

The customer, staff and clock actions (`SendQuotation`, `Pay`, `Lapse`,
`Cancel`, `Restock`) keep only what the stock and the sweeps see of the
handlers in `OrderService`.

### Accounts

`role` and `active` are the `User` columns (the staff roles other than admin are
one; `NONE` is an id not yet used). A `RefreshToken` is `live`, or revoked:
`spent` by a rotation, `revoked` by a logout, closing or deactivation; `parent`
is the token whose rotation issued it (a history field). A staff request is
authenticated, reads the target, then writes. `assertAnotherActiveAdmin` locks
the active admin rows in the transaction that writes, so check and write are
one step. A rotation is four steps: find the token, look at its owner, claim
it, create the successor. `closeOwnAccount` has an admin branch that its
`CLIENT`-only route never reaches. Whether a request takes an active admin away it
decides on its read, and `saw` keeps whether that was an active admin.

### SignIn

One e-mail address. `pending`, `code`, `attempts` and `cooldown` are the Redis
keys, each with its own expiry (`Expire...`); `outlives` says that the attempts
key expires after the code. Every Redis command is a step: `Claim` (SET NX of
the cooldown), `Store`, `ClearAttempts`, `Mail`, `StorePending`; `ReadCode`,
`CountGuess` (INCR, and EXPIRE on the first), `Burn`, `Consume` (the DEL that
decides), `ResetAttempts`, `CreateUser`, `DeletePending`. `Drop` ends a request
at any of them. Codes are numbers, so a guess is one that was stored or 0.

### Catalogue

`entry` is what each key holds: product lists and details by role, the
collections, and the threshold that is cached in the process. Which figures a role is
answered is a function of the role alone, as is the key, and is left out. Instead of rows,
an answer carries for how long it has differed from the database, so the model
has no unbounded history. `Query` and `Fill` are the two halves of a miss;
`Commit` starts a write and leaves the keys it will delete in `writer`;
`Clear` and `ClearFails` are the deletions (`bestEffort`), one by one. `Tick`
ages everything.

### Images

`left` and `life` are the in-process cache and the links in it; `phase`,
`requests` and `waiters` are the requests in flight, the counter and the queue of
the slots for the provider. `SaveRow` is an editor who sends a catalogue row back
with the link it was given; `stored` is what the row then holds. The names of its
`Init`, `Next` and `Spec` begin with the module's own (`ImagesInit`), so that
`CatalogueProofs` can extend both modules.

### Negotiations

`thread`, `chips` and `log` are the tables in the order of insertion. A
transaction takes its stamp when it starts (`Submit`, `Open`, `Post`, `Clear`)
and becomes visible in its `...Commit`, so rows may appear behind younger ones.
`Rows!Kept` is what a `deleteMany` leaves of `chips`. `Push` and `PushTail` are the
emits after a commit: `postMessage` emits what it wrote, `submit` and `open` read the
thread again and emit its last messages, and since the views order by `createdAt`
alone, any of one instant may be cut off (`Tails`). `owed` is, as history, what no
emit has carried; a request may die at any step (`Drop`), and what it wrote is then
owed no more. `ScrollPage` is one page of a member of staff paging through the inbox
with `Below` (the cursor); the list of what is due is taken at the first page.

### Assistant

Tables `convs`, `msgs`, `recs`, `inquiries`, `jobs`. `Send` to `LogInquiry` are
the statements of one turn: the conversation is found or made, earlier
recommendations are counted, the question is stored, the model answers, the picks
are looked up, checked again after the model (`Recheck`) and stored (`Persist`).
The model is an oracle that picks any candidates it was shown. `Exclude`,
`Allow`, `RemoveTile` and `Reactivate` are the staff of `Catalogue`. `History` is
what `getHistory` rebuilds from rows in any order the database may return them.

### Storefront and Figures

`Storefront` writes the rows: visits with their deduplication key (`Visit`,
`LookForOpening`, `Claim`, `Write`), the cart and favorites statement by
statement, designs, quotation requests, and the events, movements and payments
of orders as single steps. An order has one line or several, which `Revise`
replaces until it is paid; a payment enters one purchase for each line into the tile
events (`Purchases`) and one into the journey. A payment and its events carry one day:
the code takes `paymentVerifiedAt` before the transaction, and a payment across a
midnight is not modelled. `Die` ends a request anywhere. `Figures` has the pages of
`AnalyticsService` and `ReportsService` as operators on those rows; an amount is a
whole number of units and the clock counts days. The best sellers are at most
`TopTiles` tiles, ten in the code, with the most revenue; where revenues are equal the
database may answer any, so `BestSelling` is the set of the possible lists.

## 3. Runs

Two workers everywhere: every race in the code is a race of two, and a third
party's whole handler fits between two steps of either. Symmetry permutes
workers, and ids that no action or property tells apart; it is not used in a run
that checks liveness.

| Run | Instance | Shows | States |
|---|---|---|---|
| `order_races` | one order, two fees, two addresses | single winner between verify, reject, cancel, expire and revise; the payment is for the quotation seen; delivery is locked once costed; holds and quotations follow the items but for crossed orders; refinement of `OrderLifecycle` | 1.0 M |
| `order_holds` | two orders for one product of two units, customers placing | nothing sold twice; the reserved area is accounted for | 0.2 M |
| `order_overrides` | one order, staff placing it past shortages, stock corrected either way | on-hand stock stays a number, cancelled is over | 0.5 M |
| `cancel_during_revision` | placing, revising and cancelling | `ReservedCountsHolds` violated | |
| `checkout` | two checkouts, one of which takes all the stock and one of which is sent twice; one failure | refinement of `CheckoutOnce`; no waiting order or lapsed hold is forgotten | 0.5 M |
| `account_races` | two users, three tokens | the last admin only goes unseen, rotations are single | 0.3 M |
| `sign_in` | two profiles for one e-mail, two codes, two attempts | single use, bounded guesses, offered profiles, the registration ends | 0.7 M |
| `catalogue` | a product list, a collection and the threshold; two fills, one write | bounded staleness, membership, exclusion | 1.1 M |
| `images` | four images (two saved by an editor, one a product image), two slots, two readers, both drivers | slots, links, waiters | 0.1 M |
| `negotiations` | one customer, one product, two threads, three messages, two instants, requests that die anywhere | chips, inbox, pushes | 0.5 M |
| `assistant` | two tiles for the floor, one also for the wall, one conversation, two turns' messages, a preview, one decision | history, exclusion, inquiries | 1.0 M |
| `storefront` | two customers, one browser, two tiles, one of them without a room type, orders of one or both, one best seller listed, three days, eight scenes | deduplication, races, sums, agreement, funnel | 0.4 M |

Each module's `TypeOK` holds in its instance too; where a run does not list it, it
is proved (section 5) or was checked beside the run.

**Bounds.** In `OrderService` `MaxOnHand` caps what corrections add and `MaxHeld` what
one order adds to `reservedAreaSqm` in either direction, since the count of a crossed
order may drift. In `Checkout`, `MaxSends` and
`MaxFailures` bound the customer's and the environment's misfortunes: with two
sends and one failure a reply is lost and the checkout comes again while the
first is in flight. In `SignIn`, two codes give a code that replaces another while
a guess is being judged; two attempts are the fewest that two requests
can share. In `Catalogue`, `MCLife` lets collections outlive products, as the code
does (300 s against 60 s). In `Images`, the times stand in the proportion of the
code: cache, response and reply together are no longer than the life of a link;
two slots are the fewest that can be full while a third image waits. In
`Negotiations`, three messages are the least for a page boundary to
lie between two stamps of one thread, and an author is only ever shown, so
staff suffice as those who post. In `Assistant`, `MaxDecided`, `MaxRows` and
`MaxPicks` allow one full floor and wall pick with its decision beside another
turn. `Storefront` bounds the number of requests and how many overlap by scene
(`MCStorefront`): parts in different scenes share no rows, or no property relates
them; the tile without a room type is in one scene of orders only, the scene with
orders of two lines. One best seller is the fewest, so that a list is cut off as soon
as two tiles sell. The pages are
read in states in which nobody is served (`Settled`); since a process may die at any
step, these show every content the rows can have. The proofs about the pages do
not need this restriction.

**Deadlock** is checked where the system can always go on (`Images`); elsewhere
an instance has finitely many ids, codes or requests and rightly stops.

**Fairness.** `SignIn`: weak fairness of the expiry of the pending registration
alone, the clock of Redis; no request is assumed to finish. `Checkout`: weak
fairness of the two sweeps, that is, the scheduler ticks and a sweep whose
queries are answered goes on (`@Cron`); a query that never returns is outside
this assumption, and would leave the flag of `orders.service.ts:493` set.
`Images`: weak fairness of the provider's answers, each request having a
timeout. The other specifications state no fairness and check safety only.

**Mutants.** Each property of a passing run has a mutated definition beside the
original (`Mutant...`), a plausible bug that makes the property fail.

## 4. What the runs found

Run in the project:

1. *Cancel during a revision* (`cancel_during_revision`). `updateStatus`
   releases the items it read before its transaction; its claim pins only
   `status` and `stockDeductedAt`. After a revision in between,
   `reservedAreaSqm` is off by the difference for good. The expiry sweep and
   `promoteWaitlistedOrders` have the same gap: in `order_races` take `\ crossed` out
   of `HoldsMatchOrders`.

To be reproduced with the definitions that are in the modules:

2. *Quotation during a revision.* `sendQuotation` can quote an order that has
   gone back to the waitlist, and its total can be that of the old quantities: take
   `\ crossed` out of `QuotedOrdersHoldStock` and check it with `OrderRaces.cfg`.
3. *The repository's README* says (lines 237 and 419) that stock moves only at
   delivery and nothing is reserved; the code reserves at placement and deducts
   at verification: `StockMovesOnlyAtDelivery` (a PROPERTY), any instance of `OrderService`.
4. *The last admin.* `updateStaff` and `setStaffStatus` decide from a read before
   their transaction whether to look for another active admin, so that an account
   that became an admin in between may be taken away unasked: `ActiveAdminRemains`
   with `AccountRaces.cfg`. `LastAdminOnlyGoesUnseen` says that this is the only way.
5. *A session after closing.* Login and rotation look at the status in one
   statement and create the token in a later one; a closing in between misses
   that token: `SwitchedOffHasNoSession`. The next rotation is refused, since
   `refresh` looks at the status again.
6. *The note for staff.* `open` resets `customerClearedAt`
   (`cart-negotiations.service.ts:227`), so that the note left at the clearing,
   "never shown to the customer" (line 51), is shown: `NoteIsForStaff` with
   `Negotiations.cfg`.
7. *An image saved by an editor under MinIO.* A collection is stored with the
   link its editor was given, `"/api/product-images/<token>"`; `withImageUrl`
   (`collections.service.ts:201-212`, "Recovers the bare path if `image` was ever
   saved as one of our own (possibly expired) signed URLs") recovers the path of
   a Supabase link only, and the row's link dies in an hour: `LinksNeverDie` with
   `Images.cfg`. `LinksWork` excepts such rows.
8. *Tiles without a room type.* "The slices add up to the totals"
   (`analytics.service.ts:419-424`); a tile may be created without a room type
   (`create-product.dto.ts:78-80`), and `projectTypeDistribution` passes over its
   sales: `RoomTypesAddUp` with `Storefront.cfg`. `SalesAddUp` states the sum over
   the tiles that have one.

Met while reading and modelling, smaller or a matter of intent:

- *Orders.* The comment at `orders.service.ts:575` promises first come first
  served; the promotion skips what does not fit. A checkout retried after a
  revision is refused as another cart (719). A checkout that loses to its own
  twin may be told "negotiation" while its order exists. A retried checkout that
  was impossible repeats its negotiation note.
- *Sign-in.* `resend` renews a code but not the pending profile. The DEL of a
  request that compared the first code removes the second. A guess over an old
  budget burns a new code. A crash between INCR and EXPIRE leaves a counter for
  ever.
- *Catalogue.* Creating or moving a product leaves collection lists stale for
  their 300 s, and updating one leaves collection details so; `best-effort.ts:8-10`
  says "within a minute or two". The threshold goes through two caches.
- *Negotiations.* Two first submissions can make two threads, and two submissions to
  one thread leave two rows of a product, of which a reader is shown the later. The
  inbox takes the row inserted last as "the one the thread view shows at the bottom"
  (`negotiation-inbox.service.ts:58-62`); the thread views order by `createdAt` alone,
  which does not say which of two messages of one instant comes last. `submit` and
  `open` push the last messages of the thread as they find it: if another request has
  posted meanwhile, their own are not pushed. The greeting of
  `open` counts as staff's, so the thread no longer awaits a reply. A message
  that commits late can hide behind a younger one, or under a clearing it
  follows. A socket keeps the role it connected with. A crash between commit and
  emit loses the push.
- *Assistant.* Whether a question is a follow-up goes by session, not by user.
  An automatic title may overwrite a chosen one. A crash leaves a job
  `PROCESSING` and a question unanswered. "Every recommendation in a batch always
  carries the same decision" (`chatbot.service.ts:657`) ceases to hold after a
  single decision. `Recommendation.purchased` is never written.
- *Dashboards.* A customer with two browsers is listed twice in the detail of a
  stage. The comment at `projectTypeDistribution` says customers split evenly
  over room types, but each counts fully. Low stock on the overview ignores
  reservations. `QuoteRequest.orderId` is never written. A follow-up event past
  midnight falls on the next day. A flush of Redis between check and write can
  record an opening twice.

## 5. Proofs

All for every value of the constants that satisfies the named assumptions of the
module, with nothing assumed about overlaps.

`OrderServiceProofs`

- `TypeCorrect`: `Spec => []TypeOK`, one lemma per operator on rows and stock
  and one step per action. That on-hand stock is a natural number rests on the
  guard inside the deducting `UPDATE`.
- `StockLeavesOnceHolds`, `FulfilmentIsPaidHolds`, from one inductive invariant
  `StockInv`. Neither property is inductive alone: a verification deducts the
  items it *read*, so the invariant says of each request in flight what its read
  still guarantees: `RowSafe` (the combinations a row can have), `Validated`
  (what its early returns established), `UpToDate` (while the stamps it pins are
  fresh, its items are the order's) and `Alone` (a checkout in flight has its
  order id to itself). A by-product is that the deduction at `DELIVERED` in
  `updateStatus` never happens.
- `CancelledStaysOver`: `Spec => CancelledIsOver`, an action property from
  `StockInv`: each claim but the stamp of a viewed quotation is on a row that is not
  cancelled, either because it says so or because of what the request validated
  (`OtherOrdersAreOver`), and the stamp changes nothing else.

- `HoldsMatch`, `QuotedOrdersHold` and `LifecycleIsImplemented`, with nothing assumed
  of overlaps. The invariant `HoldInv` says of the orders that are not crossed that
  their holds follow the rows (`HoldSafe`: which rows hold, and that only `PENDING` ones
  do, and that the total is of the items), and of a request in flight on such an order
  (`HoldFlight`) what its read still tells of the hold. A commit then either finds the
  items it read, and moves the hold with the row, or is `Overtaken`, and its order
  is crossed from then on; that no other overlap can break a hold is what is proved. The
  refinement maps each `...Commit` to one step of `OrderLifecycle` or to a stutter
  (the stamp of a viewed quotation, saved delivery details), an overtaken one to a
  `Slip`.
- `ReservedCounts`: the column is a sum over all orders, those crossed with what their
  requests reserved and released. `ReservedIsHeld` says that it is the sum of `held`;
  that one order's change moves the sum by the same amount (`TotalAdds`) is proved about
  `MapThenSumSet` on finite sets of orders by taking a least set on which it fails. What
  the schema says, `ReservedCountsHolds`, is the same with no order crossed; run
  `cancel_during_revision` is its counterexample.
- `NeverOversells`, where customers place and corrections add. Every claim that raises
  `reservedAreaSqm`, and every deduction, carries its guard in the same statement
  (`PromisedInv`).
- `PaidWasSeen`, from `PaidInv`: a flight that pins `quotationSentAt` has the
  fee and the items that were rendered for as long as that stamp is fresh.
- `DeliveryStaysLocked`, an action property from `StockInv`: what saves delivery
  details claims a row that awaits its review.

`CheckoutProofs`

- `CheckoutIsOnce`: `Spec => OneOrderPerCheckout`, the refinement of
  `CheckoutOnce`. The inductive invariant says that no checkout has two orders
  (`Unique`) and that a request which carries the number of an order carries
  that of its own checkout (`Named`). Every action but two is `Quiet`: it keeps
  whose order each row is and turns at most one actor to something that is still
  `Named`, so it stutters in `CheckoutOnce`. `CreateOrder` is a `Place`, whose
  number is within `Cardinality(Carts)` because the rows inject into the
  checkouts (`FewOrders`); `Reply` is a `Tell`.

`AccountsProofs`

- `TypeCorrect`: `Spec => []TypeOK`, which also says that only accounts that
  exist are active or own tokens; this needs what each request in flight `Knows`
  about its account and its token. `KnowledgeStays` shows that no step takes it
  away, `OneMoves` does the bookkeeping once for all actions.
- `RotationIsOnce`: `Spec => []RotatedOnceWhileLive`. Inductive with
  `ClaimsSound`: between claim and issue a token is spent, has no successor, and
  no other request holds it.
- `LastAdminStays`: `Spec => LastAdminOnlyGoesUnseen`, an action property. A request
  that read an active admin and takes it away asks for another one in the transaction
  that writes, however long ago it read.

`SignInProofs`

- `TypeCorrect`; `CodesAreAcceptedOnce` and `GuessesShareABudget` from
  `CodesSound`: a code that is stored has not been accepted, and a guess is
  counted before it is compared.
- `AccountsWereOffered`, from `ProfilesAreOffered`: the invariant follows a
  profile through every request that owes something to a registration.

`CatalogueProofs`

- `TypeCorrect` and `StalenessIsBounded` from `Healthy`: the time an answer has been
  wrong and the time its entry has left add up to no more than a life and a fill, for
  entries and for reads in flight.
- `MembershipIsFollowed` and `InactiveStaysExcluded` from `Membership`: a read
  that saw the other state of the product is known to be out of date, so the
  deletion that misses it excuses it.

- Of `Images`: `ImagesTypeCorrect`, `SlotsAreCounted` and `LinksOutliveResponses`,
  from three invariants. `Queue`: the images that wait are each in the queue once, so a slot
  handed on goes to a request that waits. `Slots`: the counter is the number of
  requests at the provider. `Links`: a cached link outlives its entry by a whole
  response, a link in a response outlives its use, and a row holds a link only
  where nothing recovers the path. The assumption is that a cache life, a response
  and a reply of the provider fit in the life of a link.

`NegotiationsProofs`

- `TypeCorrect`, with what the requests in flight refer to (`TypesHold`).
- `ChipsAdvance`: `Spec => ChipsOnlyAdvance`, an action property from `ChipInv`: no chip
  is younger than the clock, and a `DELETE` saw only rows of its thread that are no
  younger than its transaction. So what a commit adds is at least as young as every
  row it takes away, and the latest of the rest is judged by its own stamp, not by its
  place; a clearing only takes from the customer what came before it. The exception is
  a request for other products that commits.
- `MessagesReach`: `Spec => []MessagesArePushed`, from `PushInv`: whoever is to push
  `Owns` the messages it wrote, all of one `part`, and what it does not carry out of
  its tail is crowded out by a message of another part that is as young (`Crowded`),
  because a tail has room for the whole part.
- `InboxShowsTrue`, from `ScrollInv`. The last instant of a thread never goes
  back, not even when a message commits behind younger ones (`TimesGrow`), so a
  thread that has not moved since the first page is still below the cursor or
  was shown, and a page that is not full is the last. That a page has a last thread
  rests on the tables being finite.

`AssistantProofs`

- `InvariantHolds`: `Spec => []IInv`, one lemma per action. `IInv` is what a turn in
  flight relies on: it works in a conversation of its user (`Owns`), its question
  and its reply are messages there (`Talks`), the recommendation it counted was made
  before its question (`Saw`), nothing hangs on its reply until it saves its picks
  (`Waits`), and no other turn has that reply (`RepliesDiffer`). `Growth` says once
  what requests never take from one another, and `StandsKeeps` that all this
  survives a step of another request. `TypeCorrect` follows.
- `BarredTilesStayOut`, from `Barred`: what is barred is not eligible, so the second
  look (`StillEligible`) drops it, as a floor with its pick and as a wall alone.
- `InquiriesFollowUp`, from `FollowsUp`, which adds to the property that no turn
  still has to save picks under the reply of a logged question.
- `HistoryShowsCards`, from `CardsStand`: the rows of a message are its cards, the
  ranks of the cards ascend, and those of one rank are one row without a surface or
  one for each surface (`OfCard`); reactions keep this (`DecidedCards`). What
  `getHistory` makes of such rows is then a matter of sequences: whichever order the
  database returns, the first row of each rank stands at the place of its card
  (`FirstsShow`), its group is the rows of that rank (`GroupIsFull`), and the card of
  a group does not depend on its order (`CardOfGroup`). The ranks need not be
  1, 2, 3: `Recheck` leaves gaps.

`StorefrontProofs`

- `OpenedIsRecordedOnce`, from `OpenInv`: one who is to claim the key either finds it
  taken or finds that nobody has recorded the opening; one who writes has the key,
  alone, and nobody has recorded it before. It stands on the key being released
  only by its writer, and running out only when no visit is under way.
- `FailuresMetRemoval`, from `RaceInv`: a request that counts on a row (`Counts`:
  an update, a second attempt, a removal) finds it or met its removal.

- `PagesShowTheSame`, `FunnelNarrowsToThePaid`, `SalesPageAddsUp` and
  `CustomersAreNewOnce`, the figures of the dashboards, from a second invariant,
  `Books`: what the rows say of the orders. An order is `Sound` (it has a date of
  payment exactly if its payment was verified, and is delivered only then); the
  purchases among the tile events, and those in the journey, are `Tallied` with the
  orders that earned, that is, one row for each order in the journey and one for each
  of its lines on the tile page (`LineTallied`), dated with the payment and in the
  customer's name; and what the server tells of a customer is filed under the
  customer (`Own`). None of the four is inductive: that pages agree after a
  cancellation rests on its having struck out the very rows that the payment entered,
  and only `Tallied` says which these are (`VerifyPaymentKeepsBooks`,
  `CancelKeepsBooks`). An order that is revised has no rows yet (`ReviseKeepsBooks`).
  The figures then follow in each state by lemmas about `Figures` alone:
  `BucketsAddUp`, from `Partitions`, since the buckets of `Resolve` and of
  `ExportPeriod` cover their window and do not overlap; `ResolveAdjacent`, the window
  before ends where this one starts; `TotalByKind`, `CountByKind` and `TotalShared`,
  sums taken by part; `LinesAdd`, the lines of orders add up to their amounts, and
  `BestSellersAdd`, a list of best sellers to no more than that; `NewOnce`;
  `TallyCounts`; `PersonsAre`, everybody is counted once whether or not they signed in;
  `FunnelNarrows`.
  A sum is `MapThenSumSet`, a fold, and its laws (`TotalUnion`, `TotalParts`,
  `TotalPlus`) need induction over finite sets: it is done by taking a least set on
  which a law fails (`MinimalSubset`), strict inclusion being well-founded.

Five proofs showed that a definition was wrong or could not be reasoned about,
and changed it. `Whereabouts` was a `CASE` whose guards overlapped, so that its
value was not determined for an order without tiles. `Meets`, which marks the
requests that meet a removal, also marked cart requests when a favorite was
removed, and so excused more failures than it should. `SelectSeq` is recursive in
the standard module and opaque to the provers; `Rows!Kept` says the same by place.
`Storefront` assumed that each tile has a room type, which the code does not
ensure: without the assumption `SalesAddUp` could not be proved, since it is false
as it stood (finding 8). `Assistant!History` sorted the ranks, where the code takes
them in the order in which its `Map` first met them; it now does as the code does,
and that the order is the same is part of the proof.

Only model-checked: liveness (`NoForgottenOrder`, `LapsedHoldsEnd`,
`LoginUnblocked`, `WaitersAreServed`), which needs fairness and `ENABLED`. Every
safety property of the passing runs is proved.

**Assumptions** on the constants, each named in its module. `OrderService`: finitely
many orders, carts that are not empty and have a natural quantity per product.
`Negotiations`: there is a customer, and finitely many products. `Storefront`: ids
of users and of browsers differ, and none of them is `None`; a period has at least
one bucket of at least a day; tiles and room types are finitely many, and a tile that
has room types has a price that they share without a rest (the code divides decimals;
the model counts whole units small enough); at least one best seller is listed. The
others say that bounds and lives are natural numbers. TLC evaluates them in every run.

## 6. Plan

1. `Negotiations` with order threads of several orders and with joining and
   leaving rooms; a second page of the inbox in one instant.
2. Average cost of stock and the tile calculator against reference definitions.

## 7. Not modelled

- *Arithmetic*: the calculator and the average cost are functions of one locked
  row or of one request; no interleaving reaches them.
- *Payments*: the providers are stubs that refuse every call. *Translation*,
  SMTP, MinIO, Google and Gemini: external; how the code uses them is in the
  modules (a step that may fail, an oracle).
- *Routing, validation, wording and layout*: controllers and DTOs, e-mail, PDF
  and spreadsheets. *Configuration, health, start-up and the seed script.*
- Of components that are modelled partly: names, texts, search terms, bulk import,
  the customer directory, question lists, room templates and socket rooms.

`PROJECT.json` lists each component with its status.
