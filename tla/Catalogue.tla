----------------------------- MODULE Catalogue -----------------------------
(***************************************************************************)
(* The catalogue and its read-through caches: ProductsService and          *)
(* CollectionsService over Redis, the low-stock threshold in the process.  *)
(*                                                                         *)
(* A read that misses the cache queries the database and stores the answer *)
(* for a fixed time; a write commits and then deletes the entries it knows *)
(* about.  A fill that was reading while the write committed can store its *)
(* answer after the deletion; a deletion can fail or never run.            *)
(*                                                                         *)
(* Instead of rows, an answer carries for how long it has not been what    *)
(* the database says: 0 when it is, n + 1 when it has been wrong n ticks.  *)
(***************************************************************************)
EXTENDS Integers, FiniteSets

CONSTANTS
  Keys,      \* the cache entries of the instance, a subset of AllKeys
  Fillers,   \* slots for reads that missed the cache
  Writers,   \* slots for writes
  Life,      \* ticks that an entry of each key lives
  FillTime   \* the longest a fill takes from its query to its SET

\* Viewers are answered from the bucket of their role (roleBucket).
ProductKeys == {"list:public", "list:sales", "list:staff",
                "detail:public", "detail:sales", "detail:staff"}
CollectionKeys == {"collections", "collection"}
AllKeys == ProductKeys \cup CollectionKeys \cup {"threshold"}

ASSUME KeysAssumption == Keys \subseteq AllKeys /\ "threshold" \in Keys
ASSUME LifeAssumption == Life \in [AllKeys -> Nat \ {0}] /\ FillTime \in Nat

VARIABLES
  active,   \* Product.isActive of the product
  excluded, \* Product.recommendationExcluded
  entry,    \* the caches
  filler,   \* the reads in flight
  writer    \* per write in flight: the entries it still has to delete

vars == <<active, excluded, entry, filler, writer>>
rows == <<active, excluded>>

\* What an answer says of the product: shows is isActive when it was read,
\* stale and limit how long the rows and the threshold in it have been out of
\* date (0: not).  excused marks an answer that the deletion of its key could
\* not reach.
Answer == [shows : BOOLEAN, stale : Nat, limit : Nat, excused : BOOLEAN]
Blank == [shows |-> FALSE, stale |-> 0, limit |-> 0, excused |-> FALSE]
\* left is the time to live; age the ticks since the query, stores says that
\* the fill read the threshold too and has not stored it yet.
Absent == [answer |-> Blank, left |-> 0]
Unused == [busy |-> FALSE, key |-> "threshold", answer |-> Blank,
           age |-> 0, stores |-> FALSE]

Init ==
  /\ active \in BOOLEAN /\ excluded = ~active
  /\ entry = [k \in Keys |-> Absent]
  /\ filler = [f \in Fillers |-> Unused]
  /\ writer = [w \in Writers |-> {}]

-----------------------------------------------------------------------------
(* Reads.                                                                  *)

\* A miss, and the queries.  A hit changes nothing.  Products are graded
\* against the threshold, from the process when it has one.
Query(f, k) ==
  LET t == entry["threshold"]
      cached == t.left > 0
      graded == k \in ProductKeys
  IN /\ ~filler[f].busy /\ k \in Keys \ {"threshold"} /\ entry[k].left = 0
     /\ filler' = [filler EXCEPT ![f] =
          [busy |-> TRUE, key |-> k, age |-> 0, stores |-> graded /\ ~cached,
           answer |-> [shows |-> active, stale |-> 0,
                       limit |-> IF graded /\ cached THEN t.answer.limit ELSE 0,
                       excused |-> FALSE]]]
     /\ UNCHANGED <<rows, entry, writer>>

\* getLowStockThreshold keeps what it read.
StoreThreshold(f) ==
  /\ filler[f].busy /\ filler[f].stores
  /\ entry' = [entry EXCEPT !["threshold"] =
       [answer |-> [Blank EXCEPT !.limit = filler[f].answer.limit],
        left |-> Life["threshold"]]]
  /\ filler' = [filler EXCEPT ![f].stores = FALSE]
  /\ UNCHANGED <<rows, writer>>

Fill(f) ==
  LET g == filler[f]
  IN /\ g.busy /\ ~g.stores
     /\ entry' = [entry EXCEPT ![g.key] = [answer |-> g.answer, left |-> Life[g.key]]]
     /\ filler' = [filler EXCEPT ![f] = Unused]
     /\ UNCHANGED <<rows, writer>>

\* Redis refuses the SET, or the request dies.
FillFails(f) ==
  /\ filler[f].busy
  /\ filler' = [filler EXCEPT ![f] = Unused]
  /\ UNCHANGED <<rows, entry, writer>>

-----------------------------------------------------------------------------
(* Writes.                                                                 *)

Outdate(n) == IF n = 0 THEN 1 ELSE n
\* A commit changes the rows that the answers under these keys were read from.
Outdated(keys) ==
  /\ entry' = [k \in Keys |->
       IF k \in keys /\ entry[k].left > 0
       THEN [entry[k] EXCEPT !.answer.stale = Outdate(@)] ELSE entry[k]]
  /\ filler' = [f \in Fillers |->
       IF filler[f].busy /\ filler[f].key \in keys
       THEN [filler[f] EXCEPT !.answer.stale = Outdate(@)] ELSE filler[f]]

Commit(w, keys) ==
  /\ writer[w] = {}
  /\ writer' = [writer EXCEPT ![w] = Keys \cap keys]
  /\ Outdated(ProductKeys \cup CollectionKeys)

\* update, adjustStock and the order writes that move stock: the details of
\* collections repeat the row, and are left to their time to live.
UpdateProduct(w) ==
  /\ Commit(w, ProductKeys)
  /\ UNCHANGED rows

\* The exclusion from recommendations is left as it is.
MutantRemove(w) ==
  /\ active' = FALSE /\ UNCHANGED excluded
  /\ Commit(w, ProductKeys \cup CollectionKeys)

Remove(w) ==
  /\ active' = FALSE /\ excluded' = TRUE
  /\ Commit(w, ProductKeys \cup CollectionKeys)

Reactivate(w) ==
  /\ active' = TRUE
  /\ Commit(w, ProductKeys \cup CollectionKeys)
  /\ UNCHANGED excluded

\* update and remove of a collection: products repeat its title and size, and
\* are left to their time to live.
UpdateCollection(w) ==
  /\ Commit(w, CollectionKeys)
  /\ UNCHANGED rows

\* SettingsService.update deletes nothing, and reaches no other process.
UpdateThreshold ==
  /\ entry' = [k \in Keys |->
       IF entry[k].left > 0 /\ k \notin CollectionKeys
       THEN [entry[k] EXCEPT !.answer.limit = Outdate(@)] ELSE entry[k]]
  /\ filler' = [f \in Fillers |->
       IF filler[f].busy /\ filler[f].key \in ProductKeys
       THEN [filler[f] EXCEPT !.answer.limit = Outdate(@)] ELSE filler[f]]
  /\ UNCHANGED <<rows, writer>>

\* updateRecommendationExclusion, whose write asks for an active product.
Exclude == excluded' = TRUE /\ UNCHANGED <<active, entry, filler, writer>>
Allow == active /\ excluded' = FALSE /\ UNCHANGED <<active, entry, filler, writer>>

\* The prefix misses the details of collections.
MutantClear(w, k) ==
  /\ k \in writer[w]
  /\ entry' = IF k = "collection" THEN entry ELSE [entry EXCEPT ![k] = Absent]
  /\ filler' = [f \in Fillers |->
       IF filler[f].busy /\ filler[f].key = k /\ filler[f].answer.stale > 0
       THEN [filler[f] EXCEPT !.answer.excused = TRUE] ELSE filler[f]]
  /\ writer' = [writer EXCEPT ![w] = @ \ {k}]
  /\ UNCHANGED rows

\* The prefixes are deleted in parallel, in any order.  A fill of the key that
\* read before the commit is not reached.
Clear(w, k) ==
  /\ k \in writer[w]
  /\ entry' = [entry EXCEPT ![k] = Absent]
  /\ filler' = [f \in Fillers |->
       IF filler[f].busy /\ filler[f].key = k /\ filler[f].answer.stale > 0
       THEN [filler[f] EXCEPT !.answer.excused = TRUE] ELSE filler[f]]
  /\ writer' = [writer EXCEPT ![w] = @ \ {k}]
  /\ UNCHANGED rows

\* bestEffort swallows the failure, or the process dies: the deletions that
\* are left never happen.
ClearFails(w) ==
  /\ writer[w] # {}
  /\ entry' = [k \in Keys |->
       IF k \in writer[w] /\ entry[k].left > 0
       THEN [entry[k] EXCEPT !.answer.excused = TRUE] ELSE entry[k]]
  /\ filler' = [f \in Fillers |->
       IF filler[f].busy /\ filler[f].key \in writer[w]
       THEN [filler[f] EXCEPT !.answer.excused = TRUE] ELSE filler[f]]
  /\ writer' = [writer EXCEPT ![w] = {}]
  /\ UNCHANGED rows

-----------------------------------------------------------------------------
(* The clock.                                                              *)

Older(answer) ==
  [answer EXCEPT !.stale = IF @ = 0 THEN 0 ELSE @ + 1,
                 !.limit = IF @ = 0 THEN 0 ELSE @ + 1]

\* A page of products is stored without a time to live.
MutantAged(k) ==
  IF entry[k].left <= 1 /\ k # "list:public" THEN Absent
  ELSE [answer |-> Older(entry[k].answer), left |-> entry[k].left]

\* An entry a tick later.
Aged(k) ==
  IF entry[k].left <= 1 THEN Absent
  ELSE [answer |-> Older(entry[k].answer), left |-> entry[k].left - 1]

Tick ==
  /\ \A f \in Fillers : filler[f].busy => filler[f].age < FillTime
  /\ entry' = [k \in Keys |-> Aged(k)]
  /\ filler' = [f \in Fillers |->
       IF filler[f].busy
       THEN [filler[f] EXCEPT !.age = @ + 1, !.answer = Older(@)] ELSE Unused]
  /\ UNCHANGED <<rows, writer>>

Next ==
  \/ \E f \in Fillers :
       \/ \E k \in Keys : Query(f, k)
       \/ StoreThreshold(f) \/ Fill(f) \/ FillFails(f)
  \/ \E w \in Writers :
       \/ UpdateProduct(w) \/ Remove(w) \/ Reactivate(w) \/ UpdateCollection(w)
       \/ \E k \in Keys : Clear(w, k)
       \/ ClearFails(w)
  \/ UpdateThreshold \/ Exclude \/ Allow
  \/ Tick

Spec == Init /\ [][Next]_vars

-----------------------------------------------------------------------------
(* Properties.                                                             *)

\* The variables have their types, and a life is never exceeded.
TypeOK ==
  /\ active \in BOOLEAN /\ excluded \in BOOLEAN
  /\ \A k \in Keys : entry[k].answer \in Answer /\ entry[k].left \in 0 .. Life[k]
  /\ \A f \in Fillers :
       /\ filler[f].busy \in BOOLEAN /\ filler[f].stores \in BOOLEAN
       /\ filler[f].key \in Keys /\ filler[f].age \in 0 .. FillTime
       /\ filler[f].answer \in Answer
  /\ writer \in [Writers -> SUBSET Keys]

\* Nothing is served longer than its time to live and one slow fill after the
\* rows changed, whatever deletion failed, was late or was never made
\* (bestEffort: every cached entry expires on its own).  The threshold goes
\* through two caches, and a product is graded by an old one for the sum of
\* both times.
StaleForALifeAtMost ==
  \A k \in Keys : entry[k].left > 0 =>
    /\ entry[k].answer.stale <= Life[k] + FillTime
    /\ entry[k].answer.limit <=
         Life["threshold"] + FillTime
           + (IF k = "threshold" THEN 0 ELSE Life[k] + FillTime)

\* Once a removal or a return of the product has had its deletions, every entry
\* of every bucket and of the collections agrees with it, except an answer that
\* was read before the commit and stored after the deletion, or whose deletion
\* failed.
MembershipFollows ==
  \A k \in Keys \ {"threshold"} :
    entry[k].left > 0 /\ entry[k].answer.shows # active =>
      entry[k].answer.excused \/ \E w \in Writers : k \in writer[w]

\* A tile that is not in the catalogue is not recommended: allowing it cannot
\* overtake its removal, and its return does not allow it
\* (updateRecommendationExclusion: "a restore must not undo an automatic
\* exclusion if another request deactivated the tile meanwhile").
InactiveIsExcluded == ~active => excluded

=============================================================================
