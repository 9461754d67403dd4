-------------------------- MODULE StorefrontProofs --------------------------
(***************************************************************************)
(* Theorems of Storefront, for any customers, browsers, products, periods, *)
(* scenes and workers: that opening the system is recorded once for a      *)
(* customer, that requests which race for a row of a cart or for a         *)
(* favorite only fail where the row was removed meanwhile, and that the    *)
(* figures of the dashboards add up, agree with each other and with what   *)
(* happened, in every period.                                              *)
(***************************************************************************)
EXTENDS Storefront, FiniteSetTheorems, SequenceTheorems, WellFoundedInduction, TLAPS

-----------------------------------------------------------------------------
(* The inductive invariants.                                               *)

ToldStages == {"SAVED_DESIGN", "REQUESTED_QUOTATION", "NEGOTIATED", "PLACED_ORDER"}
Row == [user : Visitors, session : Users \cup Sessions, at : Nat, order : Nat,
        stage : ToldStages \cup JourneyStages \cup {"PURCHASED"}]
Baskets == UNION {[Q -> Nat] : Q \in SUBSET Products}
Subtotals == {SumOf(l) : l \in Baskets}
Order == [customer : Users, creator : Creators, lines : Baskets, amount : Subtotals, at : Nat,
          paidAt : Nat, status : {"PENDING", "DELIVERED", "CANCELLED"},
          quotation : {"REQUESTED", "VERIFIED"}]
Quote == [user : Users, at : Nat, status : {"PENDING", "NEGOTIATING", "DECLINED"}]

\* The requests in flight.
Visiting == [op : {"visit"}, user : Visitors, session : Sessions, product : Products \cup {None},
             what : JourneyStages \cup {"VIEWED", "COMPARED"}, step : {"look", "claim", "write"}]
Putting == [op : {"put"}, user : Users, product : Products, again : BOOLEAN,
            met : SUBSET {"removal"}, step : {"cart", "find", "update", "insert"}]
Removing == [op : {"take", "unlike"}, user : Users, product : Products,
             met : SUBSET {"removal"}, step : {"delete"}]
Liking == [op : {"like"}, user : Users, product : Products, step : {"create", "tell"}]
Tells == [op : {"tell"}, user : Users, stages : Seq(ToldStages), order : Nat, step : {"tell"}]
Shaped(r) ==
  r = Idle \/ r \in Visiting \/ r \in Putting \/ r \in Removing \/ r \in Liking
    \/ (r \in Tells /\ Len(r.stages) > 0)

Types ==
  /\ day \in Nat /\ orders \in Seq(Order) /\ quotes \in Seq(Quote) /\ journey \in Seq(Row)
  /\ favorites \in SUBSET (Users \X Products) /\ items \in [Users -> SUBSET Products]
  /\ DOMAIN flight = Workers /\ \A w \in Workers : Shaped(flight[w])

\* A request that counts on a row finds it, or met its removal.
InCart(r) == r.product \in items[r.user] \/ "removal" \in r.met
Counts(r) ==
  /\ r.op = "put" =>
       /\ r.step = "update" \/ (r.step = "find" /\ r.again) => InCart(r)
       /\ r.step = "insert" /\ r.again => "removal" \in r.met
       /\ r.step = "cart" => ~r.again
  /\ r.op = "take" => InCart(r)
  /\ r.op = "unlike" => <<r.user, r.product>> \in favorites \/ "removal" \in r.met
RaceInv == FailsOnlyOverRemoval /\ \A w \in Workers : Counts(flight[w])

\* Nobody has recorded yet that this customer opened the system; from the claim of
\* the key to its end, what one records nobody else does.
Opening(w) == /\ flight[w].op = "visit" /\ flight[w].what = "OPENED_SYSTEM"
              /\ flight[w].user # None
Recorded(u) == \E i \in DOMAIN journey : journey[i].stage = "OPENED_SYSTEM" /\ journey[i].user = u
OpenInv ==
  /\ OpenedOnce
  /\ \A w \in Workers : Opening(w) =>
       /\ flight[w].product = None
       /\ flight[w].step = "claim" => ~Recorded(flight[w].user) \/ KeyOf(flight[w]) \in keys
       /\ flight[w].step = "write" => ~Recorded(flight[w].user) /\ KeyOf(flight[w]) \in keys
  /\ \A v, w \in Workers :
       Opening(v) /\ Opening(w) /\ flight[v].user = flight[w].user
         /\ flight[v].step = "write" /\ flight[w].step = "write" => v = w

-----------------------------------------------------------------------------
(* Greatest elements, and the places of a sequence that are kept.          *)

\* A set of numbers with a bound has a greatest one.
LEMMA Greatest ==
  ASSUME NEW n \in Nat, NEW S \in SUBSET (0 .. n), S # {}
  PROVE  Max(S) \in S /\ \A i \in S : Max(S) >= i
<1> DEFINE tops == {0 .. k : k \in {k \in 0 .. n : \A i \in S : i <= k}}
<1>1. IsFiniteSet(0 .. n) /\ tops \subseteq SUBSET (0 .. n) /\ 0 .. n \in tops
  <2>1. IsFiniteSet(0 .. n)
    BY FS_Interval
  <2>2. n \in {k \in 0 .. n : \A i \in S : i <= k}
    OBVIOUS
  <2>3. \A k \in 0 .. n : 0 .. k \subseteq 0 .. n
    OBVIOUS
  <2> QED BY <2>1, <2>2, <2>3
<1>2. IsWellFoundedOn(StrictSubsetOrdering(0 .. n), FiniteSubsetsOf(0 .. n))
  BY FS_StrictSubsetOrderingWellFounded
<1>3. tops \subseteq FiniteSubsetsOf(0 .. n)
  BY <1>1, FS_Subset DEF FiniteSubsetsOf
<1>4. PICK top \in tops : \A u \in tops : <<u, top>> \notin StrictSubsetOrdering(0 .. n)
  <2> HIDE DEF tops
  <2> QED BY <1>1, <1>2, <1>3, WFMin
<1>5. PICK m \in 0 .. n : top = 0 .. m /\ \A i \in S : i <= m
  BY <1>4
<1>6. ASSUME m \notin S PROVE FALSE
  <2>1. PICK i \in S : i <= m /\ i # m /\ i \in 0 .. n
    BY <1>5, <1>6
  <2>2. m - 1 \in 0 .. n /\ \A j \in S : j <= m - 1
    BY <1>5, <1>6, <2>1
  <2>3. 0 .. (m - 1) \in tops
    BY <2>2
  <2>4. 0 .. (m - 1) \subseteq 0 .. m /\ 0 .. (m - 1) # 0 .. m /\ 0 .. m \subseteq 0 .. n
    <3>1. m \in 0 .. m /\ m \notin 0 .. (m - 1)
      OBVIOUS
    <3> QED BY <3>1
  <2> QED BY <1>4, <1>5, <2>3, <2>4 DEF StrictSubsetOrdering
<1> QED BY <1>5, <1>6 DEF Max

\* The n-th smallest of a finite set of numbers.
Place(K, n, i) == i \in K /\ Cardinality({j \in K : j <= i}) = n

LEMMA PlacesOfMore ==
  ASSUME NEW K, IsFiniteSet(K), K \subseteq Nat, NEW m \in K, \A i \in K : i <= m,
         \A n \in 1 .. Cardinality(K \ {m}) : \E i : Place(K \ {m}, n, i)
  PROVE  \A n \in 1 .. Cardinality(K) : \E i : Place(K, n, i)
<1>1. Cardinality(K \ {m}) = Cardinality(K) - 1 /\ Cardinality(K) \in Nat
  BY FS_RemoveElement, FS_CardinalityType
<1> TAKE n \in 1 .. Cardinality(K)
<1>2. CASE n = Cardinality(K)
  <2>1. {j \in K : j <= m} = K
    OBVIOUS
  <2> QED BY <1>2, <2>1 DEF Place
<1>3. CASE n # Cardinality(K)
  <2>1. n \in 1 .. Cardinality(K \ {m})
    BY <1>1, <1>3
  <2>2. PICK i : Place(K \ {m}, n, i)
    BY <2>1
  <2>3. {j \in K \ {m} : j <= i} = {j \in K : j <= i}
    BY <2>2 DEF Place
  <2> QED BY <2>2, <2>3 DEF Place
<1> QED BY <1>2, <1>3

LEMMA Places ==
  ASSUME NEW N \in Nat, NEW K \in SUBSET (1 .. N)
  PROVE  /\ IsFiniteSet(K) /\ Cardinality(K) \in Nat
         /\ \A n \in 1 .. Cardinality(K) : \E i : Place(K, n, i)
<1>1. ASSUME NEW S \in SUBSET (1 .. N)
      PROVE  IsFiniteSet(S) /\ Cardinality(S) \in Nat
  <2>1. IsFiniteSet(1 .. N)
    BY FS_Interval
  <2> QED BY <2>1, FS_Subset, FS_CardinalityType
<1> DEFINE Bad == {S \in SUBSET (1 .. N) :
                     ~ \A n \in 1 .. Cardinality(S) : \E i : Place(S, n, i)}
<1>2. SUFFICES ASSUME K \in Bad PROVE FALSE
  BY <1>1
<1>3. IsWellFoundedOn(StrictSubsetOrdering(1 .. N), FiniteSubsetsOf(1 .. N))
  BY FS_StrictSubsetOrderingWellFounded
<1>4. Bad \subseteq FiniteSubsetsOf(1 .. N) /\ Bad # {}
  BY <1>1, <1>2 DEF FiniteSubsetsOf
<1>5. PICK S \in Bad : \A R \in Bad : <<R, S>> \notin StrictSubsetOrdering(1 .. N)
  <2> HIDE DEF Bad
  <2> QED BY <1>3, <1>4, WFMin
<1>6. S # {}
  BY FS_EmptySet
<1>7. S \in SUBSET (0 .. N) /\ S \subseteq Nat
  BY <1>5
<1>8. PICK m \in S : \A i \in S : i <= m
  BY <1>6, <1>7, Greatest
<1>9. S \ {m} \notin Bad
  BY <1>5, <1>8 DEF StrictSubsetOrdering
<1>10. \A n \in 1 .. Cardinality(S \ {m}) : \E i : Place(S \ {m}, n, i)
  BY <1>5, <1>9
<1>11. \A n \in 1 .. Cardinality(S) : \E i : Place(S, n, i)
  BY <1>1, <1>5, <1>7, <1>8, <1>10, PlacesOfMore
<1> QED BY <1>5, <1>11

\* What is kept of a sequence is a sequence of the same kind, whose rows come from
\* places of their own.
LEMMA KeptRows ==
  ASSUME NEW T, NEW s \in Seq(T), NEW K \in SUBSET (DOMAIN s)
  PROVE  /\ Kept(s, K) \in Seq(T)
         /\ \A m, n \in DOMAIN Kept(s, K) : \E i, j \in K :
              Kept(s, K)[m] = s[i] /\ Kept(s, K)[n] = s[j] /\ (i = j => m = n)
<1>1. Len(s) \in Nat /\ DOMAIN s = 1 .. Len(s) /\ \A i \in DOMAIN s : s[i] \in T
  BY LenProperties
<1>2. /\ Cardinality(K) \in Nat
      /\ \A n \in 1 .. Cardinality(K) : \E i : Place(K, n, i)
  BY <1>1, Places
<1> DEFINE place(n) == CHOOSE i \in K : Cardinality({j \in K : j <= i}) = n
<1>3. \A n \in 1 .. Cardinality(K) :
        place(n) \in K /\ Cardinality({j \in K : j <= place(n)}) = n
  BY <1>2 DEF Place
<1>4. \A m, n \in 1 .. Cardinality(K) : place(m) = place(n) => m = n
  <2> TAKE m, n \in 1 .. Cardinality(K)
  <2>1. Cardinality({j \in K : j <= place(m)}) = m /\ Cardinality({j \in K : j <= place(n)}) = n
    BY <1>3
  <2> HIDE DEF place
  <2> QED BY <2>1
<1>5. Kept(s, K) = [n \in 1 .. Cardinality(K) |-> s[place(n)]]
  BY DEF Kept
<1>6. \A n \in 1 .. Cardinality(K) : s[place(n)] \in T
  BY <1>1, <1>3
<1> HIDE DEF place
<1>7. Kept(s, K) \in Seq(T)
  BY <1>2, <1>5, <1>6
<1>8. ASSUME NEW m \in DOMAIN Kept(s, K), NEW n \in DOMAIN Kept(s, K)
      PROVE  \E i, j \in K : Kept(s, K)[m] = s[i] /\ Kept(s, K)[n] = s[j] /\ (i = j => m = n)
  <2>1. m \in 1 .. Cardinality(K) /\ n \in 1 .. Cardinality(K)
    BY <1>5
  <2>2. place(m) \in K /\ place(n) \in K /\ (place(m) = place(n) => m = n)
    BY <1>3, <1>4, <2>1
  <2>3. Kept(s, K)[m] = s[place(m)] /\ Kept(s, K)[n] = s[place(n)]
    BY <1>5, <2>1
  <2> QED BY <2>2, <2>3
<1> QED BY <1>7, <1>8

\* A finite set can be written down as a sequence.
LEMMA WrittenIsSeq ==
  ASSUME NEW S, IsFiniteSet(S)
  PROVE  SetToSeq(S) \in Seq(S)
<1>1. Cardinality(S) \in Nat /\ ExistsBijection(1 .. Cardinality(S), S)
  BY FS_CardinalityType
<1>2. \E f \in [1 .. Cardinality(S) -> S] : IsInjective(f)
  BY <1>1 DEF ExistsBijection, Bijection, Injection, IsInjective
<1>3. SetToSeq(S) \in [1 .. Cardinality(S) -> S]
  BY <1>2 DEF SetToSeq
<1> QED BY <1>1, <1>3

\* A set of none and a set of one, written down; one row is appended.
LEMMA NoneWritten == SetToSeq({}) = <<>>
<1>1. IsFiniteSet({}) /\ Cardinality({}) = 0
  BY FS_EmptySet
<1>2. SetToSeq({}) \in Seq({})
  BY <1>1, WrittenIsSeq
<1> QED BY <1>2

LEMMA OneWritten ==
  ASSUME NEW e
  PROVE  SetToSeq({e}) = <<e>>
<1>1. IsFiniteSet({e}) /\ Cardinality({e}) = 1
  BY FS_Singleton
<1>2. /\ 1 .. Cardinality({e}) = {1}
      /\ \E f \in [1 .. Cardinality({e}) -> {e}] : IsInjective(f)
  <2>1. 1 .. Cardinality({e}) = {1}
    BY <1>1
  <2>2. [i \in {1} |-> e] \in [{1} -> {e}] /\ IsInjective([i \in {1} |-> e])
    BY DEF IsInjective
  <2> QED BY <2>1, <2>2
<1>3. SetToSeq({e}) \in [{1} -> {e}]
  BY <1>2 DEF SetToSeq
<1>4. SetToSeq({e}) = [i \in 1 .. 1 |-> e]
  BY <1>3
<1> QED BY <1>4

LEMMA OneAppended ==
  ASSUME NEW T, NEW s \in Seq(T), NEW e \in T
  PROVE  s \o <<e>> = Append(s, e)
OBVIOUS

-----------------------------------------------------------------------------
(* One request moves on.                                                   *)

LEMMA Constants ==
  /\ None \notin Users /\ None \notin Sessions /\ Users \cap Sessions = {}
  /\ Visitors = Users \cup {None} /\ Price \in [Products -> Nat]
  BY StorefrontConstants DEF Visitors

\* The op of a request tells its shape.
LEMMA Shapes ==
  ASSUME NEW r, Shaped(r)
  PROVE  /\ r.op \in {"idle", "visit", "put", "take", "unlike", "like", "tell"}
         /\ r.op = "visit" => r \in Visiting
         /\ r.op = "put" => r \in Putting
         /\ r.op \in {"take", "unlike"} => r \in Removing
         /\ r.op = "like" => r \in Liking
         /\ r.op = "tell" => r \in Tells /\ Len(r.stages) > 0
BY DEF Shaped, Idle, Visiting, Putting, Removing, Liking, Tells

LEMMA Becomes ==
  ASSUME Types, NEW w \in Workers, NEW r, Become(w, r), Shaped(r)
  PROVE  /\ flight'[w] = r /\ \A v \in Workers : v # w => flight'[v] = flight[v]
         /\ DOMAIN flight' = Workers /\ \A v \in Workers : Shaped(flight'[v])
<1>1. flight' = [flight EXCEPT ![w] = r] /\ DOMAIN flight = Workers
      /\ \A v \in Workers : Shaped(flight[v])
  BY DEF Types, Become
<1>2. flight'[w] = r /\ (\A v \in Workers : v # w => flight'[v] = flight[v]) /\ DOMAIN flight' = Workers
  BY <1>1
<1>3. ASSUME NEW v \in Workers PROVE Shaped(flight'[v])
  <2>1. CASE v = w
    BY <1>2, <2>1
  <2>2. CASE v # w
    BY <1>1, <1>2, <2>2
  <2> QED BY <2>1, <2>2
<1> QED BY <1>2, <1>3

\* Every opening that is on record was before, and two of them were two.
Traced ==
  \A i, j \in DOMAIN journey' :
    journey'[i].stage = "OPENED_SYSTEM" /\ journey'[j].stage = "OPENED_SYSTEM" =>
      \E k, l \in DOMAIN journey :
        journey'[i] = journey[k] /\ journey'[j] = journey[l] /\ (k = l => i = j)

LEMMA OpenKept ==
  ASSUME OpenInv, keys \subseteq keys', Traced,
         \A v \in Workers : Opening(v)' =>
           /\ flight'[v].product = None
           /\ flight'[v].step = "look" \/ (flight'[v] = flight[v] /\ Opening(v))
  PROVE  OpenInv'
<1>1. OpenedOnce'
  BY DEF OpenedOnce, OpenInv, Traced
<1>2. \A u : Recorded(u)' => Recorded(u)
  BY DEF Recorded, Traced
<1>3. ASSUME NEW v \in Workers, Opening(v)'
      PROVE  /\ flight'[v].product = None
             /\ flight'[v].step = "claim" => ~Recorded(flight[v].user)' \/ KeyOf(flight[v])' \in keys'
             /\ flight'[v].step = "write" => ~Recorded(flight[v].user)' /\ KeyOf(flight[v])' \in keys'
  <2>1. CASE flight'[v].step = "look"
    BY <1>3, <2>1
  <2>2. CASE flight'[v] = flight[v] /\ Opening(v)
    BY <1>2, <1>3, <2>2 DEF OpenInv
  <2> QED BY <1>3, <2>1, <2>2
<1>4. ASSUME NEW v \in Workers, Opening(v)', flight'[v].step # "look"
      PROVE  flight'[v] = flight[v] /\ Opening(v)
  BY <1>4
<1>5. ASSUME NEW v \in Workers, NEW w \in Workers, Opening(v)', Opening(w)',
             flight'[v].user = flight'[w].user,
             flight'[v].step = "write", flight'[w].step = "write"
      PROVE  v = w
  BY <1>4, <1>5 DEF OpenInv
<1> QED BY <1>1, <1>3, <1>5 DEF OpenInv

\* Where rows are only added, whoever counted on one still may.
LEMMA RaceKept ==
  ASSUME Types, RaceInv, FailsOnlyOverRemoval', favorites \subseteq favorites',
         \A u \in Users : items[u] \subseteq items'[u],
         \A v \in Workers : flight'[v] = flight[v] \/ Counts(flight[v])'
  PROVE  RaceInv'
<1>1. ASSUME NEW v \in Workers, flight'[v] = flight[v] PROVE Counts(flight[v])'
  <2>1. PICK r : r = flight[v]
    OBVIOUS
  <2>2. Counts(r) /\ Shaped(r)
    BY <2>1 DEF RaceInv, Types
  <2>3. r.op \in {"put", "take", "unlike"} => r.user \in Users
    BY <2>2, Shapes DEF Putting, Removing
  <2>4. Counts(r)'
    BY <2>2, <2>3 DEF Counts, InCart
  <2> QED BY <1>1, <2>1, <2>4
<1>2. \A v \in Workers : Counts(flight[v])'
  BY <1>1
<1> QED BY <1>2 DEF RaceInv

Inv == Types /\ RaceInv /\ OpenInv

\* A request that counts on no row and records no opening.
Harmless(r) ==
  /\ Shaped(r) /\ r.op \notin {"put", "take", "unlike"}
  /\ r.op = "visit" /\ r.what = "OPENED_SYSTEM" /\ r.user # None =>
       r.product = None /\ r.step = "look"

LEMMA IdleIsHarmless == Harmless(Idle) /\ Idle.op = "idle"
BY DEF Harmless, Shaped, Idle

\* The tables after a step that records no opening and removes nothing.
Tables ==
  /\ day' \in Nat /\ orders' \in Seq(Order) /\ quotes' \in Seq(Quote)
  /\ journey' \in Seq(Row) /\ Traced /\ keys \subseteq keys'
  /\ items' = items /\ favorites \subseteq favorites' /\ favorites' \in SUBSET (Users \X Products)
  /\ failed' = failed

LEMMA HarmlessKeeps ==
  ASSUME Inv, Tables, NEW w \in Workers, NEW r, Become(w, r), Harmless(r)
  PROVE  Inv'
<1>1. /\ flight'[w] = r /\ \A v \in Workers : v # w => flight'[v] = flight[v]
      /\ DOMAIN flight' = Workers /\ \A v \in Workers : Shaped(flight'[v])
  BY Becomes DEF Inv, Harmless
<1>2. Types'
  BY <1>1 DEF Types, Inv, Tables
<1>3. Counts(flight[w])'
  BY <1>1 DEF Counts, Harmless
<1>4. RaceInv'
  <2>1. /\ FailsOnlyOverRemoval' /\ favorites \subseteq favorites'
        /\ \A u \in Users : items[u] \subseteq items'[u]
    BY DEF Tables, Inv, RaceInv, FailsOnlyOverRemoval
  <2> QED BY <1>1, <1>3, <2>1, RaceKept DEF Inv
<1>5. OpenInv'
  <2>1. ASSUME NEW v \in Workers, Opening(v)'
        PROVE  /\ flight'[v].product = None
               /\ flight'[v].step = "look" \/ (flight'[v] = flight[v] /\ Opening(v))
    <3>1. CASE v = w
      BY <1>1, <2>1, <3>1 DEF Opening, Harmless
    <3>2. CASE v # w
      <4>1. flight'[v] = flight[v] /\ Opening(v)
        BY <1>1, <2>1, <3>2 DEF Opening
      <4> QED BY <4>1 DEF Inv, OpenInv
    <3> QED BY <3>1, <3>2
  <2> QED BY <2>1, OpenKept DEF Inv, Tables
<1> QED BY <1>2, <1>4, <1>5 DEF Inv

\* A step of no request.
LEMMA RestKeeps ==
  ASSUME Inv, Tables, flight' = flight
  PROVE  Inv'
<1>1. Types'
  BY DEF Types, Inv, Tables
<1>2. RaceInv'
  <2>1. /\ FailsOnlyOverRemoval' /\ favorites \subseteq favorites'
        /\ \A u \in Users : items[u] \subseteq items'[u]
    BY DEF Tables, Inv, RaceInv, FailsOnlyOverRemoval
  <2> QED BY <2>1, RaceKept DEF Inv
<1>3. OpenInv'
  <2>1. ASSUME NEW v \in Workers, Opening(v)'
        PROVE  flight'[v].product = None /\ flight'[v] = flight[v] /\ Opening(v)
    BY <2>1 DEF Opening, Inv, OpenInv
  <2> QED BY <2>1, OpenKept DEF Inv, Tables
<1> QED BY <1>1, <1>2, <1>3 DEF Inv

-----------------------------------------------------------------------------
(* The table of journey events.                                            *)

LEMMA JourneyStays ==
  ASSUME Types, journey' = journey
  PROVE  journey' \in Seq(Row) /\ Traced
<1>1. \A i, j \in DOMAIN journey' :
        \E k, l \in DOMAIN journey :
          journey'[i] = journey[k] /\ journey'[j] = journey[l] /\ (k = l => i = j)
  OBVIOUS
<1> QED BY <1>1 DEF Types, Traced

LEMMA RowIsRow ==
  ASSUME Types, NEW u \in Visitors, NEW s \in Users \cup Sessions, NEW n \in Nat,
         NEW stage \in ToldStages \cup JourneyStages \cup {"PURCHASED"}
  PROVE  /\ JourneyRow(u, s, stage, n) \in Row
         /\ JourneyRow(u, s, stage, n).stage = stage /\ JourneyRow(u, s, stage, n).user = u
BY DEF JourneyRow, Row, Types

LEMMA RowIsTold ==
  ASSUME Types, NEW e \in Row, e.stage # "OPENED_SYSTEM", journey' = Append(journey, e)
  PROVE  journey' \in Seq(Row) /\ Traced
<1>1. /\ journey \in Seq(Row) /\ journey' \in Seq(Row) /\ Len(journey)' = Len(journey) + 1
      /\ \A i \in 1 .. Len(journey) : journey'[i] = journey[i]
      /\ journey'[Len(journey) + 1] = e /\ Len(journey) \in Nat
      /\ DOMAIN journey = 1 .. Len(journey) /\ DOMAIN journey' = 1 .. Len(journey)'
  BY AppendProperties, LenProperties DEF Types
<1>2. \A i \in DOMAIN journey' :
        journey'[i].stage = "OPENED_SYSTEM" => i \in DOMAIN journey /\ journey'[i] = journey[i]
  BY <1>1
<1> QED BY <1>1, <1>2 DEF Traced

LEMMA RowsAreKept ==
  ASSUME Types, NEW K \in SUBSET (DOMAIN journey), journey' = Kept(journey, K)
  PROVE  journey' \in Seq(Row) /\ Traced
<1>1. journey \in Seq(Row)
  BY DEF Types
<1>2. journey' \in Seq(Row)
  <2>1. PICK s \in Seq(Row) : s = journey
    BY <1>1
  <2> QED BY <2>1, KeptRows
<1>3. \A m, n \in DOMAIN journey' : \E i, j \in K :
        journey'[m] = journey[i] /\ journey'[n] = journey[j] /\ (i = j => m = n)
  <2>1. PICK s \in Seq(Row) : s = journey
    BY <1>1
  <2>2. K \in SUBSET (DOMAIN s) /\ journey' = Kept(s, K)
    BY <2>1
  <2>3. \A m, n \in DOMAIN Kept(s, K) : \E i, j \in K :
          Kept(s, K)[m] = s[i] /\ Kept(s, K)[n] = s[j] /\ (i = j => m = n)
    BY <2>2, KeptRows
  <2> QED BY <2>1, <2>2, <2>3
<1> QED BY <1>2, <1>3 DEF Traced

-----------------------------------------------------------------------------
(* Steps that record no opening and remove nothing.                        *)

LEMMA TablesStay ==
  ASSUME Types, UNCHANGED <<day, orders, quotes, journey, keys, items, favorites, failed>>
  PROVE  Tables
<1>1. journey' \in Seq(Row) /\ Traced
  BY JourneyStays
<1> QED BY <1>1 DEF Tables, Types

LEMMA VisitKeeps ==
  ASSUME Inv, NEW w \in Workers, Visit(w)
  PROVE  Inv'
<1>1. PICK u \in Visitors, s \in Sessions, what \in Public :
        /\ Become(w, [op |-> "visit", user |-> u, session |-> s, what |-> what[1],
                      product |-> what[2],
                      step |-> IF what[1] = "OPENED_SYSTEM" /\ u # None THEN "look" ELSE "claim"])
        /\ UNCHANGED <<scene, day, rows, log, shelf, failed>>
  BY DEF Visit
<1>2. PICK k, q : k = what[1] /\ q = what[2]
  OBVIOUS
<1>3. k \in JourneyStages \cup {"VIEWED", "COMPARED"} /\ q \in Products \cup {None}
      /\ (k \in JourneyStages => q = None)
  BY <1>2 DEF Public, JourneyStages
<1>4. PICK step : step = IF k = "OPENED_SYSTEM" /\ u # None THEN "look" ELSE "claim"
  OBVIOUS
<1>5. PICK r : r = [op |-> "visit", user |-> u, session |-> s, what |-> k, product |-> q,
                    step |-> step]
  OBVIOUS
<1>6. r \in Visiting /\ r.op = "visit" /\ r.what = k /\ r.user = u /\ r.product = q /\ r.step = step
  BY <1>3, <1>4, <1>5 DEF Visiting
<1>7. Harmless(r)
  BY <1>3, <1>4, <1>6 DEF Harmless, Shaped, JourneyStages
<1>8. Become(w, r)
  BY <1>1, <1>2, <1>4, <1>5
<1>9. Tables
  BY <1>1, TablesStay DEF Inv, rows, log, shelf
<1> QED BY <1>7, <1>8, <1>9, HarmlessKeeps

\* Requests that end, or wait to tell of something.
LEMMA PlainKeeps ==
  ASSUME Inv, NEW w \in Workers, Die(w) \/ Like(w) \/ TellLiked(w)
  PROVE  Inv'
<1>1. UNCHANGED <<day, orders, quotes, journey, keys, items, favorites, failed>>
  BY DEF Die, Like, TellLiked, rows, log, shelf
<1>2. Tables
  BY <1>1, TablesStay DEF Inv
<1>3. CASE Die(w) \/ TellLiked(w)
  BY <1>2, <1>3, IdleIsHarmless, HarmlessKeeps DEF Die, TellLiked
<1>4. CASE Like(w)
  <2>1. PICK u \in Users, q \in Products :
          Become(w, [op |-> "like", user |-> u, product |-> q, step |-> "create"])
    BY <1>4 DEF Like
  <2>2. PICK r : r = [op |-> "like", user |-> u, product |-> q, step |-> "create"]
    OBVIOUS
  <2>3. r \in Liking /\ r.op = "like"
    BY <2>2 DEF Liking
  <2>4. Harmless(r)
    BY <2>3 DEF Harmless, Shaped
  <2> QED BY <1>2, <2>1, <2>2, <2>4, HarmlessKeeps
<1> QED BY <1>3, <1>4

LEMMA CreateFavoriteKeeps ==
  ASSUME Inv, NEW w \in Workers, CreateFavorite(w)
  PROVE  Inv'
<1>1. PICK r : r = flight[w]
  OBVIOUS
<1>2. /\ r.op = "like" /\ favorites' = favorites \cup {<<r.user, r.product>>}
      /\ Become(w, Idle) \/ Become(w, [r EXCEPT !.step = "tell"])
      /\ UNCHANGED <<day, orders, quotes, journey, keys, items, failed>>
  BY <1>1 DEF CreateFavorite, At, Goto, rows, log
<1>3. r \in Liking
  BY <1>1, <1>2, Shapes DEF Inv, Types
<1>4. journey' \in Seq(Row) /\ Traced
  BY <1>2, JourneyStays DEF Inv
<1>5. favorites' \in SUBSET (Users \X Products)
  BY <1>2, <1>3 DEF Inv, Types, Liking
<1>6. Tables
  BY <1>2, <1>4, <1>5 DEF Tables, Inv, Types
<1>7. PICK t : t = [r EXCEPT !.step = "tell"]
  OBVIOUS
<1>8. t \in Liking /\ t.op = "like"
  BY <1>3, <1>7 DEF Liking
<1>9. Harmless(t)
  BY <1>8 DEF Harmless, Shaped
<1> QED BY <1>2, <1>6, <1>7, <1>9, IdleIsHarmless, HarmlessKeeps

LEMMA TellingIsHarmless ==
  ASSUME NEW u \in Users, NEW stages \in Seq(ToldStages), Len(stages) > 0, NEW n \in Nat
  PROVE  Harmless(Telling(u, stages, n))
<1>1. PICK r : r = Telling(u, stages, n)
  OBVIOUS
<1>2. r \in Tells /\ r.op = "tell" /\ r.stages = stages
  BY <1>1 DEF Telling, Tells
<1>3. Harmless(r)
  BY <1>2 DEF Harmless, Shaped
<1> QED BY <1>1, <1>3

LEMMA TellKeeps ==
  ASSUME Inv, NEW w \in Workers, Tell(w)
  PROVE  Inv'
<1>1. PICK r : r = flight[w]
  OBVIOUS
<1>2. PICK told \in BOOLEAN :
        /\ r.op = "tell"
        /\ journey' = IF told THEN Told(r.user, Head(r.stages), r.order) ELSE journey
        /\ Become(w, IF Len(r.stages) = 1 THEN Idle ELSE [r EXCEPT !.stages = Tail(@)])
        /\ UNCHANGED <<day, orders, quotes, keys, items, favorites, failed>>
  BY <1>1 DEF Tell, At, rows, shelf
<1>3. r \in Tells /\ Len(r.stages) > 0
  BY <1>1, <1>2, Shapes DEF Inv, Types
<1>4. PICK s \in Seq(ToldStages) : s = r.stages
  BY <1>3 DEF Tells
<1>5. /\ Head(s) \in ToldStages /\ Tail(s) \in Seq(ToldStages) /\ Len(Tail(s)) = Len(s) - 1
      /\ Len(s) \in Nat /\ Len(s) > 0
  BY <1>3, <1>4, HeadTailProperties, EmptySeq, LenProperties
<1>6. journey' \in Seq(Row) /\ Traced
  <2>1. CASE ~told
    BY <1>2, <2>1, JourneyStays DEF Inv
  <2>2. CASE told
    <3>1. PICK u \in Users, n \in Nat, stage \in ToldStages :
            u = r.user /\ n = r.order /\ stage = Head(s)
      BY <1>3, <1>5 DEF Tells
    <3>2. PICK e : e = JourneyRow(u, u, stage, n)
      OBVIOUS
    <3>3. journey' = Append(journey, e)
      BY <1>2, <1>4, <2>2, <3>1, <3>2 DEF Told
    <3>4. e \in Row /\ e.stage = stage
      BY <3>2, RowIsRow, Constants DEF Inv
    <3>5. e.stage # "OPENED_SYSTEM"
      BY <3>4 DEF ToldStages
    <3> QED BY <3>3, <3>4, <3>5, RowIsTold DEF Inv
  <2> QED BY <2>1, <2>2
<1>7. Tables
  BY <1>2, <1>6 DEF Tables, Inv, Types
<1>8. CASE Len(s) = 1
  BY <1>2, <1>4, <1>7, <1>8, IdleIsHarmless, HarmlessKeeps
<1>9. CASE Len(s) # 1
  <2>1. PICK t : t = [r EXCEPT !.stages = Tail(s)]
    OBVIOUS
  <2>2. t \in Tells /\ t.op = "tell" /\ t.stages = Tail(s)
    BY <1>3, <1>5, <2>1 DEF Tells
  <2>3. Harmless(t)
    BY <1>5, <1>9, <2>2 DEF Harmless, Shaped
  <2>4. Become(w, t)
    BY <1>2, <1>4, <1>9, <2>1
  <2> QED BY <1>7, <2>3, <2>4, HarmlessKeeps
<1> QED BY <1>8, <1>9

LEMMA StageLists ==
  /\ <<"SAVED_DESIGN">> \in Seq(ToldStages) /\ Len(<<"SAVED_DESIGN">>) > 0
  /\ <<"REQUESTED_QUOTATION">> \in Seq(ToldStages) /\ Len(<<"REQUESTED_QUOTATION">>) > 0
  /\ <<"NEGOTIATED">> \in Seq(ToldStages) /\ Len(<<"NEGOTIATED">>) > 0
  /\ <<"REQUESTED_QUOTATION", "PLACED_ORDER">> \in Seq(ToldStages)
  /\ Len(<<"REQUESTED_QUOTATION", "PLACED_ORDER">>) > 0
BY DEF ToldStages

LEMMA WishesKeep ==
  ASSUME Inv, NEW w \in Workers, SaveDesign(w) \/ RequestQuote(w) \/ UpdateQuote(w)
  PROVE  Inv'
<1>1. UNCHANGED <<day, orders, journey, keys, items, favorites, failed>>
  BY DEF SaveDesign, RequestQuote, UpdateQuote, rows, log, shelf
<1>2. journey' \in Seq(Row) /\ Traced
  BY <1>1, JourneyStays DEF Inv
<1>3. quotes' \in Seq(Quote) => Tables
  BY <1>1, <1>2 DEF Tables, Inv, Types
<1>4. CASE SaveDesign(w)
  <2>1. PICK u \in Users, told \in BOOLEAN :
          /\ Become(w, IF told THEN Telling(u, <<"SAVED_DESIGN">>, 0) ELSE Idle)
          /\ quotes' = quotes
    BY <1>4 DEF SaveDesign, rows
  <2>2. Harmless(Telling(u, <<"SAVED_DESIGN">>, 0)) /\ Harmless(Idle)
    BY TellingIsHarmless, StageLists, IdleIsHarmless
  <2>3. Tables
    BY <1>3, <2>1 DEF Inv, Types
  <2> QED BY <2>1, <2>2, <2>3, HarmlessKeeps
<1>5. CASE RequestQuote(w)
  <2>1. PICK u \in Users :
          /\ quotes' = Append(quotes, [user |-> u, at |-> day, status |-> "PENDING"])
          /\ Become(w, Telling(u, <<"REQUESTED_QUOTATION">>, 0))
    BY <1>5 DEF RequestQuote
  <2>2. PICK q : q = [user |-> u, at |-> day, status |-> "PENDING"]
    OBVIOUS
  <2>3. q \in Quote /\ quotes \in Seq(Quote)
    BY <2>2 DEF Quote, Inv, Types
  <2>4. quotes' \in Seq(Quote)
    BY <2>1, <2>2, <2>3, AppendProperties
  <2>5. Harmless(Telling(u, <<"REQUESTED_QUOTATION">>, 0))
    BY TellingIsHarmless, StageLists
  <2> QED BY <1>3, <2>1, <2>4, <2>5, HarmlessKeeps
<1>6. CASE UpdateQuote(w)
  <2>1. PICK i \in DOMAIN quotes, status \in {"NEGOTIATING", "DECLINED"} :
          /\ quotes' = [quotes EXCEPT ![i].status = status]
          /\ Become(w, IF status = "NEGOTIATING" THEN Telling(quotes[i].user, <<"NEGOTIATED">>, 0)
                       ELSE Idle)
    BY <1>6 DEF UpdateQuote
  <2>2. quotes \in Seq(Quote) /\ i \in 1 .. Len(quotes) /\ quotes[i] \in Quote
    BY LenProperties DEF Inv, Types
  <2>3. PICK q : q = [quotes[i] EXCEPT !.status = status]
    OBVIOUS
  <2>4. q \in Quote /\ quotes' = [quotes EXCEPT ![i] = q]
    BY <2>1, <2>2, <2>3 DEF Quote
  <2>5. quotes' \in Seq(Quote)
    BY <2>2, <2>4, ExceptSeq
  <2>6. PICK u \in Users : u = quotes[i].user
    BY <2>2 DEF Quote
  <2>7. Harmless(Telling(u, <<"NEGOTIATED">>, 0)) /\ Harmless(Idle)
    BY TellingIsHarmless, StageLists, IdleIsHarmless
  <2> QED BY <1>3, <2>1, <2>5, <2>6, <2>7, HarmlessKeeps
<1> QED BY <1>4, <1>5, <1>6

LEMMA LinesAreLines ==
  ASSUME NEW Q \in SUBSET Products
  PROVE  Lined(Q) \in Baskets /\ SumOf(Lined(Q)) \in Subtotals
<1>1. \A q \in Q : Price[q] \in Nat
  BY Constants
<1>2. Lined(Q) \in [Q -> Nat]
  BY <1>1 DEF Lined
<1>3. Lined(Q) \in Baskets
  BY <1>2 DEF Baskets
<1> QED BY <1>3 DEF Subtotals

LEMMA BasketsAreFinite ==
  ASSUME NEW l \in Baskets
  PROVE  /\ DOMAIN l \subseteq Products /\ IsFiniteSet(DOMAIN l)
         /\ \A q \in DOMAIN l : l[q] \in Nat
<1>1. PICK Q \in SUBSET Products : l \in [Q -> Nat]
  BY DEF Baskets
<1>2. DOMAIN l = Q /\ \A q \in DOMAIN l : l[q] \in Nat
  BY <1>1
<1>3. IsFiniteSet(Q)
  BY StorefrontConstants, FS_Subset
<1> QED BY <1>2, <1>3

LEMMA PlaceOrderKeeps ==
  ASSUME Inv, NEW w \in Workers, PlaceOrder(w)
  PROVE  Inv'
<1>1. UNCHANGED <<day, quotes, journey, keys, items, favorites, failed>>
  BY DEF PlaceOrder, log, shelf
<1>2. PICK u \in Users, c \in Creators, Q \in SUBSET Products :
        /\ orders' = Append(orders, [customer |-> u, creator |-> c, lines |-> Lined(Q),
                               amount |-> SumOf(Lined(Q)), at |-> day, paidAt |-> 0,
                               status |-> "PENDING", quotation |-> "REQUESTED"])
        /\ Become(w, Telling(u, <<"REQUESTED_QUOTATION", "PLACED_ORDER">>, Len(orders) + 1))
  BY DEF PlaceOrder
<1>3. PICK o : o = [customer |-> u, creator |-> c, lines |-> Lined(Q), amount |-> SumOf(Lined(Q)),
                    at |-> day, paidAt |-> 0, status |-> "PENDING", quotation |-> "REQUESTED"]
  OBVIOUS
<1>4. o \in Order /\ orders \in Seq(Order) /\ Len(orders) \in Nat
  BY <1>3, LinesAreLines, LenProperties DEF Order, Inv, Types
<1>5. orders' \in Seq(Order)
  BY <1>2, <1>3, <1>4, AppendProperties
<1>6. journey' \in Seq(Row) /\ Traced
  BY <1>1, JourneyStays DEF Inv
<1>7. Tables
  BY <1>1, <1>5, <1>6 DEF Tables, Inv, Types
<1>8. PICK n \in Nat : n = Len(orders) + 1
  BY <1>4
<1>9. Harmless(Telling(u, <<"REQUESTED_QUOTATION", "PLACED_ORDER">>, n))
  BY TellingIsHarmless, StageLists
<1> QED BY <1>2, <1>7, <1>8, <1>9, HarmlessKeeps

\* A row of the order table changes.
LEMMA OrderChanges ==
  ASSUME Types, NEW i \in DOMAIN orders, NEW o \in Order, orders' = [orders EXCEPT ![i] = o]
  PROVE  orders' \in Seq(Order)
<1>1. orders \in Seq(Order) /\ i \in 1 .. Len(orders)
  BY LenProperties DEF Types
<1> QED BY <1>1, ExceptSeq

LEMMA ReviseKeeps ==
  ASSUME Inv, NEW w \in Workers, Revise(w)
  PROVE  Inv'
<1>1. PICK i \in Unpaid(orders), Q \in SUBSET Products :
        /\ orders' = [orders EXCEPT ![i].lines = Lined(Q), ![i].amount = SumOf(Lined(Q))]
        /\ UNCHANGED <<day, quotes, journey, keys, items, favorites, flight, failed>>
  BY DEF Revise, log, shelf
<1>2. i \in DOMAIN orders /\ orders \in Seq(Order) /\ orders[i] \in Order
  BY LenProperties DEF Unpaid, Inv, Types
<1>3. PICK l, s : l = Lined(Q) /\ s = SumOf(Lined(Q))
  OBVIOUS
<1>4. l \in Baskets /\ s \in Subtotals
  BY <1>3, LinesAreLines
<1>5. PICK o : o = [orders[i] EXCEPT !.lines = l, !.amount = s]
  OBVIOUS
<1>6. o \in Order /\ orders' = [orders EXCEPT ![i] = o]
  BY <1>1, <1>2, <1>3, <1>4, <1>5 DEF Order
<1>7. orders' \in Seq(Order)
  BY <1>2, <1>6, OrderChanges DEF Inv
<1>8. journey' \in Seq(Row) /\ Traced
  BY <1>1, JourneyStays DEF Inv
<1>9. Tables
  BY <1>1, <1>7, <1>8 DEF Tables, Inv, Types
<1> QED BY <1>1, <1>9, RestKeeps

LEMMA VerifyPaymentKeeps ==
  ASSUME Inv, NEW w \in Workers, VerifyPayment(w)
  PROVE  Inv'
<1>1. PICK i \in Unpaid(orders) :
        /\ orders' = [orders EXCEPT ![i].quotation = "VERIFIED", ![i].paidAt = day]
        /\ journey' = Told(orders[i].customer, "PURCHASED", i)
        /\ UNCHANGED <<day, quotes, keys, items, favorites, flight, failed>>
  BY DEF VerifyPayment, shelf
<1>2. i \in DOMAIN orders /\ i \in Nat /\ orders \in Seq(Order) /\ orders[i] \in Order /\ day \in Nat
  BY LenProperties DEF Unpaid, Inv, Types
<1>3. PICK o : o = [orders[i] EXCEPT !.quotation = "VERIFIED", !.paidAt = day]
  OBVIOUS
<1>4. o \in Order /\ orders' = [orders EXCEPT ![i] = o]
  BY <1>1, <1>2, <1>3 DEF Order
<1>5. orders' \in Seq(Order)
  BY <1>2, <1>4, OrderChanges DEF Inv
<1>6. PICK u \in Users : u = orders[i].customer
  BY <1>2 DEF Order
<1>7. PICK e : e = JourneyRow(u, u, "PURCHASED", i)
  OBVIOUS
<1>8. e \in Row /\ e.stage = "PURCHASED" /\ journey' = Append(journey, e)
  BY <1>1, <1>2, <1>6, <1>7, RowIsRow, Constants DEF Inv, Told
<1>9. journey' \in Seq(Row) /\ Traced
  BY <1>8, RowIsTold DEF Inv
<1>10. Tables
  BY <1>1, <1>5, <1>9 DEF Tables, Inv, Types
<1> QED BY <1>1, <1>10, RestKeeps

LEMMA CancelKeeps ==
  ASSUME Inv, NEW w \in Workers, Cancel(w)
  PROVE  Inv'
<1>1. PICK i \in DOMAIN orders :
        /\ orders' = [orders EXCEPT ![i].status = "CANCELLED"]
        /\ \/ journey' = journey
           \/ journey' = Kept(journey, {k \in DOMAIN journey :
                                ~(journey[k].stage = "PURCHASED" /\ journey[k].order = i)})
        /\ UNCHANGED <<day, quotes, keys, items, favorites, flight, failed>>
  BY DEF Cancel, shelf
<1>2. orders \in Seq(Order) /\ orders[i] \in Order
  BY LenProperties DEF Inv, Types
<1>3. PICK o : o = [orders[i] EXCEPT !.status = "CANCELLED"]
  OBVIOUS
<1>4. o \in Order /\ orders' = [orders EXCEPT ![i] = o]
  BY <1>1, <1>2, <1>3 DEF Order
<1>5. orders' \in Seq(Order)
  BY <1>4, OrderChanges DEF Inv
<1>6. PICK K \in SUBSET (DOMAIN journey) :
        K = {k \in DOMAIN journey : ~(journey[k].stage = "PURCHASED" /\ journey[k].order = i)}
  OBVIOUS
<1>7. journey' \in Seq(Row) /\ Traced
  <2>1. CASE journey' = journey
    BY <2>1, JourneyStays DEF Inv
  <2>2. CASE journey' = Kept(journey, K)
    BY <2>2, RowsAreKept DEF Inv
  <2> QED BY <1>1, <1>6, <2>1, <2>2
<1>8. Tables
  BY <1>1, <1>5, <1>7 DEF Tables, Inv, Types
<1> QED BY <1>1, <1>8, RestKeeps

LEMMA StaffKeeps ==
  ASSUME Inv, Tick \/ \E w \in Workers : Deliver(w) \/ Restock(w)
  PROVE  Inv'
<1>1. UNCHANGED <<quotes, journey, keys, items, favorites, flight, failed>>
  BY DEF Deliver, Restock, Tick, rows, log, shelf
<1>2. journey' \in Seq(Row) /\ Traced
  BY <1>1, JourneyStays DEF Inv
<1>3. day' \in Nat /\ orders' \in Seq(Order)
  <2>1. CASE \E w \in Workers : Restock(w)
    BY <2>1 DEF Restock, Inv, Types
  <2>2. CASE Tick
    BY <2>2 DEF Tick, Inv, Types, rows
  <2>3. CASE \E w \in Workers : Deliver(w)
    <3>1. PICK i \in DOMAIN orders :
            orders' = [orders EXCEPT ![i].status = "DELIVERED"] /\ day' = day
      BY <2>3 DEF Deliver
    <3>2. orders \in Seq(Order) /\ orders[i] \in Order
      BY LenProperties DEF Inv, Types
    <3>3. PICK o : o = [orders[i] EXCEPT !.status = "DELIVERED"]
      OBVIOUS
    <3>4. o \in Order /\ orders' = [orders EXCEPT ![i] = o]
      BY <3>1, <3>2, <3>3 DEF Order
    <3> QED BY <3>1, <3>4, OrderChanges DEF Inv, Types
  <2> QED BY <2>1, <2>2, <2>3
<1>4. Tables
  BY <1>1, <1>2, <1>3 DEF Tables, Inv, Types
<1> QED BY <1>1, <1>4, RestKeeps

-----------------------------------------------------------------------------
(* The cart and the favorites.                                             *)

\* A request about a row moves on, and rows are only added.
LEMMA AddingKeeps ==
  ASSUME Inv, NEW w \in Workers, NEW r, Become(w, r), Shaped(r), r.op # "visit", Counts(r)',
         UNCHANGED <<day, orders, quotes, journey, keys, favorites>>,
         items' \in [Users -> SUBSET Products], \A u \in Users : items[u] \subseteq items'[u],
         FailsOnlyOverRemoval'
  PROVE  Inv'
<1>1. /\ flight'[w] = r /\ \A v \in Workers : v # w => flight'[v] = flight[v]
      /\ DOMAIN flight' = Workers /\ \A v \in Workers : Shaped(flight'[v])
  BY Becomes DEF Inv
<1>2. journey' \in Seq(Row) /\ Traced
  BY JourneyStays DEF Inv
<1>3. Types'
  BY <1>1, <1>2 DEF Types, Inv
<1>4. RaceInv'
  <2>1. Counts(flight[w])'
    BY <1>1
  <2> QED BY <1>1, <2>1, RaceKept DEF Inv
<1>5. OpenInv'
  <2>1. ASSUME NEW v \in Workers, Opening(v)'
        PROVE  flight'[v].product = None /\ flight'[v] = flight[v] /\ Opening(v)
    BY <1>1, <2>1 DEF Opening, Inv, OpenInv
  <2> QED BY <1>2, <2>1, OpenKept DEF Inv
<1> QED BY <1>3, <1>4, <1>5 DEF Inv

LEMMA PutInCartKeeps ==
  ASSUME Inv, NEW w \in Workers, PutInCart(w)
  PROVE  Inv'
<1>1. PICK u \in Users, q \in Products :
        /\ Become(w, [op |-> "put", user |-> u, product |-> q, again |-> FALSE, met |-> {},
                      step |-> IF u \in carts THEN "find" ELSE "cart"])
        /\ UNCHANGED <<day, orders, quotes, journey, keys, favorites, items, failed>>
  BY DEF PutInCart, rows, log, shelf
<1>2. PICK step \in {"find", "cart"} : step = IF u \in carts THEN "find" ELSE "cart"
  OBVIOUS
<1>3. PICK r : r = [op |-> "put", user |-> u, product |-> q, again |-> FALSE, met |-> {},
                    step |-> step]
  OBVIOUS
<1>4. r \in Putting /\ r.op = "put" /\ ~r.again /\ r.step = step
  BY <1>2, <1>3 DEF Putting
<1>5. Shaped(r) /\ Counts(r)'
  BY <1>4 DEF Shaped, Counts
<1>6. FailsOnlyOverRemoval'
  BY <1>1 DEF Inv, RaceInv, FailsOnlyOverRemoval
<1>7. Become(w, r) /\ items' \in [Users -> SUBSET Products] /\ items' = items
  BY <1>1, <1>2, <1>3 DEF Inv, Types
<1> QED BY <1>1, <1>4, <1>5, <1>6, <1>7, AddingKeeps

LEMMA IdleCounts ==
  Shaped(Idle) /\ Idle.op # "visit" /\ Counts(Idle)'
BY DEF Shaped, Counts, Idle

\* The cart is there, the row is looked for, or it is there or gone when updated.
LEMMA FindItemKeeps ==
  ASSUME Inv, NEW w \in Workers, MakeCart(w) \/ FindItem(w) \/ UpdateItem(w)
  PROVE  Inv'
<1>1. PICK r : r = flight[w]
  OBVIOUS
<1>2. r.op = "put" /\ UNCHANGED <<day, orders, quotes, journey, keys, favorites, items>>
  BY <1>1 DEF MakeCart, FindItem, UpdateItem, At, rows, log, shelf
<1>3. r \in Putting /\ Counts(r)
  BY <1>1, <1>2, Shapes DEF Inv, Types, RaceInv
<1>4. /\ items' \in [Users -> SUBSET Products] /\ \A u \in Users : items[u] \subseteq items'[u]
  BY <1>2 DEF Inv, Types
<1>5. CASE UpdateItem(w)
  <2>1. /\ r.step = "update" /\ Become(w, Idle)
        /\ failed' = failed \/ (failed' = failed \cup {[op |-> r.op, met |-> r.met]}
                                /\ r.product \notin items[r.user])
    BY <1>1, <1>5 DEF UpdateItem, At, Fail
  <2>2. FailsOnlyOverRemoval'
    <3>1. r.product \notin items[r.user] => "removal" \in r.met
      BY <1>2, <1>3, <2>1 DEF Counts, InCart
    <3> QED BY <2>1, <3>1 DEF FailsOnlyOverRemoval, Inv, RaceInv
  <2> QED BY <1>2, <1>4, <2>1, <2>2, IdleCounts, AddingKeeps
<1>6. CASE MakeCart(w) \/ FindItem(w)
  <2>1. PICK step \in {"find", "update", "insert"} :
          /\ Become(w, [r EXCEPT !.step = step]) /\ failed' = failed
          /\ \/ r.step = "cart" /\ step = "find"
             \/ r.step = "find" /\ step = "update" /\ r.product \in items[r.user]
             \/ r.step = "find" /\ step = "insert" /\ r.product \notin items[r.user]
    BY <1>1, <1>6 DEF MakeCart, FindItem, At, Goto
  <2>2. PICK t : t = [r EXCEPT !.step = step]
    OBVIOUS
  <2>3. /\ t \in Putting /\ t.op = "put" /\ t.step = step /\ t.again = r.again
        /\ t.user = r.user /\ t.product = r.product /\ t.met = r.met
    BY <1>3, <2>2 DEF Putting
  <2>4. Shaped(t)
    BY <2>3 DEF Shaped
  <2>5. Counts(t)'
    BY <1>2, <1>3, <2>1, <2>3 DEF Counts, InCart
  <2>6. FailsOnlyOverRemoval'
    BY <2>1 DEF FailsOnlyOverRemoval, Inv, RaceInv
  <2> QED BY <1>2, <1>4, <2>1, <2>2, <2>3, <2>4, <2>5, <2>6, AddingKeeps
<1> QED BY <1>5, <1>6

LEMMA InsertItemKeeps ==
  ASSUME Inv, NEW w \in Workers, InsertItem(w)
  PROVE  Inv'
<1>1. PICK r : r = flight[w]
  OBVIOUS
<1>2. PICK taken \in BOOLEAN : taken <=> r.product \in items[r.user]
  OBVIOUS
<1>3. /\ r.op = "put" /\ r.step = "insert"
      /\ items' = [items EXCEPT ![r.user] = @ \cup {r.product}]
      /\ IF taken /\ r.again THEN failed' = failed \cup {[op |-> r.op, met |-> r.met]}
                             ELSE failed' = failed
      /\ IF taken /\ ~r.again
         THEN Become(w, [r EXCEPT !.again = TRUE, !.step = "find"]) ELSE Become(w, Idle)
      /\ UNCHANGED <<day, orders, quotes, journey, keys, favorites>>
  BY <1>1, <1>2 DEF InsertItem, At, Fail, rows, log
<1>4. r \in Putting /\ Counts(r)
  BY <1>1, <1>3, Shapes DEF Inv, Types, RaceInv
<1>5. /\ items' \in [Users -> SUBSET Products] /\ \A u \in Users : items[u] \subseteq items'[u]
      /\ r.product \in items'[r.user]
  BY <1>3, <1>4 DEF Inv, Types, Putting
<1>6. FailsOnlyOverRemoval'
  <2>1. r.again => "removal" \in r.met
    BY <1>3, <1>4 DEF Counts
  <2>2. CASE taken /\ r.again
    BY <1>3, <2>1, <2>2 DEF FailsOnlyOverRemoval, Inv, RaceInv
  <2>3. CASE ~(taken /\ r.again)
    BY <1>3, <2>3 DEF FailsOnlyOverRemoval, Inv, RaceInv
  <2> QED BY <2>2, <2>3
<1>7. CASE taken /\ ~r.again
  <2>1. PICK t : t = [r EXCEPT !.again = TRUE, !.step = "find"]
    OBVIOUS
  <2>2. /\ t \in Putting /\ t.op = "put" /\ t.step = "find"
        /\ t.user = r.user /\ t.product = r.product
    BY <1>4, <2>1 DEF Putting
  <2>3. Shaped(t) /\ Counts(t)'
    BY <1>5, <2>2 DEF Shaped, Counts, InCart
  <2>4. Become(w, t)
    BY <1>3, <1>7, <2>1
  <2> QED BY <1>3, <1>5, <1>6, <2>2, <2>3, <2>4, AddingKeeps
<1>8. CASE ~(taken /\ ~r.again)
  BY <1>3, <1>5, <1>6, <1>8, IdleCounts, AddingKeeps
<1> QED BY <1>7, <1>8

\* A row to be removed is there when the request begins.
LEMMA BeginRemovalKeeps ==
  ASSUME Inv, NEW w \in Workers, TakeFromCart(w) \/ Unlike(w)
  PROVE  Inv'
<1>1. UNCHANGED <<day, orders, quotes, journey, keys, favorites, items, failed>>
  BY DEF TakeFromCart, Unlike, rows, log, shelf
<1>2. PICK op \in {"take", "unlike"}, u \in Users, q \in Products :
        /\ Become(w, [op |-> op, user |-> u, product |-> q, met |-> {}, step |-> "delete"])
        /\ op = "take" => q \in items[u]
        /\ op = "unlike" => <<u, q>> \in favorites
  <2>1. CASE TakeFromCart(w)
    BY <2>1 DEF TakeFromCart
  <2>2. CASE Unlike(w)
    <3>1. PICK f \in favorites :
            Become(w, [op |-> "unlike", user |-> f[1], product |-> f[2], met |-> {},
                       step |-> "delete"])
      BY <2>2 DEF Unlike
    <3>2. PICK u \in Users, q \in Products : f = <<u, q>>
      BY DEF Inv, Types
    <3> QED BY <3>1, <3>2
  <2> QED BY <2>1, <2>2
<1>3. PICK r : r = [op |-> op, user |-> u, product |-> q, met |-> {}, step |-> "delete"]
  OBVIOUS
<1>4. r \in Removing /\ r.op = op /\ r.user = u /\ r.product = q
  BY <1>3 DEF Removing
<1>5. Shaped(r) /\ Counts(r)' /\ r.op # "visit"
  BY <1>1, <1>2, <1>4 DEF Shaped, Counts, InCart
<1>6. FailsOnlyOverRemoval' /\ items' \in [Users -> SUBSET Products]
      /\ \A v \in Users : items[v] \subseteq items'[v]
  BY <1>1 DEF Inv, Types, RaceInv, FailsOnlyOverRemoval
<1> QED BY <1>1, <1>2, <1>3, <1>5, <1>6, AddingKeeps

-----------------------------------------------------------------------------
(* Rows are removed.                                                       *)

\* Of a request that meets a removal, nothing but that it met one changes.
LEMMA MeetsKeeps ==
  ASSUME NEW r, Shaped(r), r.op \in {"put", "take", "unlike"},
         NEW t, t = [r EXCEPT !.met = @ \cup {"removal"}]
  PROVE  /\ Shaped(t) /\ "removal" \in t.met /\ t.op = r.op /\ t.step = r.step
         /\ t.op = "put" => t.again = r.again
<1>1. CASE r.op = "put"
  <2>1. r \in Putting
    BY <1>1, Shapes
  <2>2. t \in Putting /\ "removal" \in t.met /\ t.op = r.op /\ t.step = r.step /\ t.again = r.again
    BY <2>1 DEF Putting
  <2> QED BY <2>2 DEF Shaped
<1>2. CASE r.op \in {"take", "unlike"}
  <2>1. r \in Removing
    BY <1>2, Shapes
  <2>2. t \in Removing /\ "removal" \in t.met /\ t.op = r.op /\ t.step = r.step
    BY <2>1 DEF Removing
  <2> QED BY <1>2, <2>2 DEF Shaped
<1> QED BY <1>1, <1>2

\* The requests that count on a removed row are the ones that meet its removal.
LEMMA RemovalKeeps ==
  ASSUME Inv, NEW ops \in SUBSET {"put", "take", "unlike"}, NEW u, NEW Q,
         UNCHANGED <<day, orders, quotes, journey, keys>>, FailsOnlyOverRemoval',
         items' \in [Users -> SUBSET Products], favorites' \in SUBSET (Users \X Products),
         \A x \in Users : \A q \in items[x] :
           q \in items'[x] \/ (x = u /\ q \in Q /\ {"put", "take"} \subseteq ops),
         \A x \in Users, q \in Products : <<x, q>> \in favorites =>
           <<x, q>> \in favorites' \/ (x = u /\ q \in Q /\ "unlike" \in ops),
         DOMAIN flight' = Workers,
         \A v \in Workers : flight'[v] = Idle \/ flight'[v] = Meets(ops, u, Q)[v]
  PROVE  Inv'
<1>1. journey' \in Seq(Row) /\ Traced
  BY JourneyStays DEF Inv
<1>2. ASSUME NEW v \in Workers
      PROVE  Shaped(flight'[v]) /\ Counts(flight[v])' /\ (flight'[v].op = "visit" => flight'[v] = flight[v])
  <2>1. PICK r, t : r = flight[v] /\ t = flight'[v]
    OBVIOUS
  <2>2. Shaped(r) /\ Counts(r)
    BY <2>1 DEF Inv, Types, RaceInv
  <2>3. PICK meets \in BOOLEAN : meets <=> (r.op \in ops /\ r.user = u /\ r.product \in Q)
    OBVIOUS
  <2>4. \/ t = Idle
        \/ meets /\ t = [r EXCEPT !.met = @ \cup {"removal"}]
        \/ ~meets /\ t = r
    BY <2>1, <2>3 DEF Meets
  <2>5. CASE t = Idle
    BY <2>1, <2>5, IdleCounts, IdleIsHarmless
  <2>6. CASE meets /\ t = [r EXCEPT !.met = @ \cup {"removal"}]
    <3>1. r.op \in {"put", "take", "unlike"}
      BY <2>3, <2>6
    <3>2. /\ Shaped(t) /\ "removal" \in t.met /\ t.op = r.op /\ t.step = r.step
          /\ t.op = "put" => t.again = r.again
      BY <2>2, <2>6, <3>1, MeetsKeeps
    <3>3. Counts(t)'
      BY <2>2, <3>1, <3>2 DEF Counts, InCart
    <3> QED BY <2>1, <3>1, <3>2, <3>3
  <2>7. CASE ~meets /\ t = r
    <3>1. r.op \in {"put", "take", "unlike"} => r.user \in Users /\ r.product \in Products
      BY <2>2, Shapes DEF Putting, Removing
    <3>2. r.op \in {"put", "take"} /\ InCart(r) => InCart(r)'
      BY <2>3, <2>7, <3>1 DEF InCart
    <3>3. r.op = "unlike" /\ <<r.user, r.product>> \in favorites => <<r.user, r.product>> \in favorites'
      BY <2>3, <2>7, <3>1
    <3>4. Counts(r)'
      BY <2>2, <3>2, <3>3 DEF Counts
    <3> QED BY <2>1, <2>2, <2>7, <3>4
  <2> QED BY <2>4, <2>5, <2>6, <2>7
<1>3. Types'
  BY <1>1, <1>2 DEF Types, Inv
<1>4. RaceInv'
  BY <1>2 DEF RaceInv
<1>5. OpenInv'
  <2>1. ASSUME NEW v \in Workers, Opening(v)'
        PROVE  flight'[v].product = None /\ flight'[v] = flight[v] /\ Opening(v)
    BY <1>2, <2>1 DEF Opening, Inv, OpenInv
  <2> QED BY <1>1, <2>1, OpenKept DEF Inv
<1> QED BY <1>3, <1>4, <1>5 DEF Inv

LEMMA DeleteItemKeeps ==
  ASSUME Inv, NEW w \in Workers, DeleteItem(w)
  PROVE  Inv'
<1>1. PICK r : r = flight[w]
  OBVIOUS
<1>2. /\ r.op = "take"
      /\ IF r.product \in items[r.user] THEN failed' = failed
                                        ELSE failed' = failed \cup {[op |-> r.op, met |-> r.met]}
      /\ items' = [items EXCEPT ![r.user] = @ \ {r.product}]
      /\ flight' = [Meets({"put", "take"}, r.user, {r.product}) EXCEPT ![w] = Idle]
      /\ UNCHANGED <<day, orders, quotes, journey, keys, favorites>>
  BY <1>1 DEF DeleteItem, At, Fail, rows, log
<1>3. r \in Removing /\ Counts(r)
  BY <1>1, <1>2, Shapes DEF Inv, Types, RaceInv
<1>4. FailsOnlyOverRemoval'
  <2>1. r.product \notin items[r.user] => "removal" \in r.met
    BY <1>2, <1>3 DEF Counts, InCart
  <2> QED BY <1>2, <2>1 DEF FailsOnlyOverRemoval, Inv, RaceInv
<1>5. PICK u \in Users, q \in Products : u = r.user /\ q = r.product
  BY <1>3 DEF Removing
<1>6. /\ items' \in [Users -> SUBSET Products] /\ favorites' \in SUBSET (Users \X Products)
      /\ \A x \in Users : \A p \in items[x] : p \in items'[x] \/ (x = u /\ p \in {q})
  BY <1>2, <1>5 DEF Inv, Types
<1>7. PICK ops \in SUBSET {"put", "take", "unlike"} : ops = {"put", "take"}
  OBVIOUS
<1>8. /\ DOMAIN flight' = Workers
      /\ \A v \in Workers : flight'[v] = Idle \/ flight'[v] = Meets(ops, u, {q})[v]
  BY <1>2, <1>5, <1>7 DEF Meets
<1> QED BY <1>2, <1>4, <1>6, <1>7, <1>8, RemovalKeeps

LEMMA ClearCartKeeps ==
  ASSUME Inv, NEW w \in Workers, ClearCart(w)
  PROVE  Inv'
<1>1. PICK u \in Users :
        /\ items' = [items EXCEPT ![u] = {}]
        /\ flight' = Meets({"put", "take"}, u, items[u])
        /\ UNCHANGED <<day, orders, quotes, journey, keys, favorites, failed>>
  BY DEF ClearCart, rows, log
<1>2. PICK Q \in SUBSET Products : Q = items[u]
  BY DEF Inv, Types
<1>3. /\ items' \in [Users -> SUBSET Products] /\ favorites' \in SUBSET (Users \X Products)
      /\ \A x \in Users : \A p \in items[x] : p \in items'[x] \/ (x = u /\ p \in Q)
      /\ FailsOnlyOverRemoval'
  BY <1>1, <1>2 DEF Inv, Types, RaceInv, FailsOnlyOverRemoval
<1>4. PICK ops \in SUBSET {"put", "take", "unlike"} : ops = {"put", "take"}
  OBVIOUS
<1>5. /\ DOMAIN flight' = Workers
      /\ \A v \in Workers : flight'[v] = Idle \/ flight'[v] = Meets(ops, u, Q)[v]
  BY <1>1, <1>2, <1>4 DEF Meets
<1> QED BY <1>1, <1>3, <1>4, <1>5, RemovalKeeps

LEMMA DeleteFavoriteKeeps ==
  ASSUME Inv, NEW w \in Workers, DeleteFavorite(w)
  PROVE  Inv'
<1>1. PICK r : r = flight[w]
  OBVIOUS
<1>2. /\ r.op = "unlike"
      /\ IF <<r.user, r.product>> \in favorites
         THEN failed' = failed
         ELSE failed' = failed \cup {[op |-> r.op, met |-> r.met]}
      /\ favorites' = favorites \ {<<r.user, r.product>>}
      /\ flight' = [Meets({"unlike"}, r.user, {r.product}) EXCEPT ![w] = Idle]
      /\ UNCHANGED <<day, orders, quotes, journey, keys, items>>
  BY <1>1 DEF DeleteFavorite, At, Fail, rows, log
<1>3. r \in Removing /\ Counts(r)
  BY <1>1, <1>2, Shapes DEF Inv, Types, RaceInv
<1>4. FailsOnlyOverRemoval'
  <2>1. <<r.user, r.product>> \notin favorites => "removal" \in r.met
    BY <1>2, <1>3 DEF Counts
  <2> QED BY <1>2, <2>1 DEF FailsOnlyOverRemoval, Inv, RaceInv
<1>5. PICK u \in Users, q \in Products : u = r.user /\ q = r.product
  BY <1>3 DEF Removing
<1>6. /\ items' \in [Users -> SUBSET Products] /\ favorites' \in SUBSET (Users \X Products)
      /\ \A x \in Users, p \in Products : <<x, p>> \in favorites =>
           <<x, p>> \in favorites' \/ (x = u /\ p \in {q})
  BY <1>2, <1>5 DEF Inv, Types
<1>7. PICK ops \in SUBSET {"put", "take", "unlike"} : ops = {"unlike"}
  OBVIOUS
<1>8. /\ DOMAIN flight' = Workers
      /\ \A v \in Workers : flight'[v] = Idle \/ flight'[v] = Meets(ops, u, {q})[v]
  BY <1>2, <1>5, <1>7 DEF Meets
<1> QED BY <1>2, <1>4, <1>6, <1>7, <1>8, RemovalKeeps

-----------------------------------------------------------------------------
(* Visits.                                                                 *)

\* A customer's key is nobody else's, and the same for all the openings.
LEMMA KeyIsTheirs ==
  ASSUME NEW r \in Visiting, NEW t \in Visiting, r.user # None, KeyOf(r) = KeyOf(t)
  PROVE  t.user = r.user /\ t.what = r.what
<1>1. KeyOf(r).who = KeyOf(t).who /\ KeyOf(r).what = KeyOf(t).what
  OBVIOUS
<1>2. r.user = Identity(t) /\ r.what = t.what
  BY <1>1 DEF KeyOf, Identity
<1>3. r.user \notin Sessions /\ t.session \in Sessions
  BY Constants DEF Visiting
<1> QED BY <1>2, <1>3 DEF Identity

\* What a step of a visit leaves alone.
LEMMA VisitMoves ==
  ASSUME Inv, NEW w \in Workers, NEW r, Become(w, r), Shaped(r),
         r.op \notin {"put", "take", "unlike"}, journey' \in Seq(Row),
         UNCHANGED <<day, orders, quotes, items, favorites, failed>>
  PROVE  /\ Types' /\ RaceInv' /\ flight'[w] = r
         /\ \A v \in Workers : v # w => flight'[v] = flight[v]
<1>1. /\ flight'[w] = r /\ \A v \in Workers : v # w => flight'[v] = flight[v]
      /\ DOMAIN flight' = Workers /\ \A v \in Workers : Shaped(flight'[v])
  BY Becomes DEF Inv
<1>2. Types'
  BY <1>1 DEF Types, Inv
<1>3. RaceInv'
  <2>1. Counts(flight[w])'
    BY <1>1 DEF Counts
  <2>2. FailsOnlyOverRemoval'
    BY DEF Inv, RaceInv, FailsOnlyOverRemoval
  <2> QED BY <1>1, <2>1, <2>2, RaceKept DEF Inv
<1> QED BY <1>1, <1>2, <1>3

\* A visit gets as far as it may, and nothing is recorded.
LEMMA OpeningMoves ==
  ASSUME OpenInv, journey' = journey, keys \subseteq keys', NEW w \in Workers,
         \A v \in Workers : v # w => flight'[v] = flight[v],
         Opening(w)' =>
           /\ flight'[w].product = None
           /\ flight'[w].step = "claim" =>
                ~Recorded(flight[w].user)' \/ KeyOf(flight[w])' \in keys'
           /\ flight'[w].step = "write" =>
                /\ ~Recorded(flight[w].user)' /\ KeyOf(flight[w])' \in keys'
                /\ \A v \in Workers :
                     v # w /\ Opening(v) /\ flight[v].user = flight'[w].user
                       => flight[v].step # "write"
  PROVE  OpenInv'
<1>1. OpenedOnce' /\ \A u : Recorded(u)' <=> Recorded(u)
  BY DEF OpenInv, OpenedOnce, Recorded
<1>2. \A v \in Workers : v # w /\ Opening(v)' => Opening(v)
  BY DEF Opening
<1>3. ASSUME NEW v \in Workers, Opening(v)'
      PROVE  /\ flight'[v].product = None
             /\ flight'[v].step = "claim" => ~Recorded(flight[v].user)' \/ KeyOf(flight[v])' \in keys'
             /\ flight'[v].step = "write" => ~Recorded(flight[v].user)' /\ KeyOf(flight[v])' \in keys'
  <2>1. CASE v = w
    BY <1>3, <2>1
  <2>2. CASE v # w
    <3>1. flight'[v] = flight[v] /\ Opening(v)
      BY <1>2, <1>3, <2>2
    <3> QED BY <1>1, <3>1 DEF OpenInv
  <2> QED BY <2>1, <2>2
<1>4. ASSUME NEW v \in Workers, NEW x \in Workers, Opening(v)', Opening(x)',
             flight'[v].user = flight'[x].user,
             flight'[v].step = "write", flight'[x].step = "write"
      PROVE  v = x
  BY <1>2, <1>4 DEF OpenInv
<1> QED BY <1>1, <1>3, <1>4 DEF OpenInv

LEMMA LookForOpeningKeeps ==
  ASSUME Inv, NEW w \in Workers, LookForOpening(w)
  PROVE  Inv'
<1>1. PICK r : r = flight[w]
  OBVIOUS
<1>2. /\ r.op = "visit" /\ r.step = "look"
      /\ IF Recorded(r.user) THEN Become(w, Idle) ELSE Become(w, [r EXCEPT !.step = "claim"])
      /\ UNCHANGED <<day, orders, quotes, journey, keys, items, favorites, failed>>
  BY <1>1 DEF LookForOpening, At, Goto, Recorded, rows, log, shelf
<1>3. r \in Visiting /\ journey' \in Seq(Row)
  BY <1>1, <1>2, Shapes, JourneyStays DEF Inv, Types
<1>4. CASE Recorded(r.user)
  <2>1. Tables
    BY <1>2, JourneyStays DEF Tables, Inv, Types
  <2> QED BY <1>2, <1>4, <2>1, IdleIsHarmless, HarmlessKeeps
<1>5. CASE ~Recorded(r.user)
  <2>1. PICK t : t = [r EXCEPT !.step = "claim"]
    OBVIOUS
  <2>2. /\ t \in Visiting /\ t.op = "visit" /\ t.step = "claim" /\ t.user = r.user
        /\ t.what = r.what /\ t.product = r.product
    BY <1>3, <2>1 DEF Visiting
  <2>3. Shaped(t)
    BY <2>2 DEF Shaped
  <2>4. /\ Types' /\ RaceInv' /\ flight'[w] = t
        /\ \A v \in Workers : v # w => flight'[v] = flight[v]
    BY <1>2, <1>3, <1>5, <2>1, <2>2, <2>3, VisitMoves
  <2>5. Opening(w)' => t.product = None
    BY <1>1, <1>2, <2>2, <2>4 DEF Opening, Inv, OpenInv
  <2>6. ~Recorded(r.user)'
    BY <1>2, <1>5 DEF Recorded
  <2>7. ~Recorded(flight[w].user)'
    BY <2>2, <2>4, <2>6
  <2>8. OpenInv'
    BY <1>2, <2>2, <2>4, <2>5, <2>7, OpeningMoves DEF Inv
  <2> QED BY <2>4, <2>8 DEF Inv
<1> QED BY <1>4, <1>5

\* Whoever claims the key finds that nobody has it, so that nobody is writing.
LEMMA ClaimKeeps ==
  ASSUME Inv, NEW w \in Workers, Claim(w)
  PROVE  Inv'
<1>1. PICK r : r = flight[w]
  OBVIOUS
<1>2. /\ r.op = "visit" /\ r.step = "claim"
      /\ IF KeyOf(r) \in keys
         THEN Become(w, Idle) /\ keys' = keys
         ELSE Become(w, [r EXCEPT !.step = "write"]) /\ keys' = keys \cup {KeyOf(r)}
      /\ UNCHANGED <<day, orders, quotes, journey, items, favorites, failed>>
  BY <1>1 DEF Claim, At, Goto, rows, shelf
<1>3. r \in Visiting /\ journey' \in Seq(Row)
  BY <1>1, <1>2, Shapes, JourneyStays DEF Inv, Types
<1>4. CASE KeyOf(r) \in keys
  <2>1. Tables
    BY <1>2, <1>4, JourneyStays DEF Tables, Inv, Types
  <2> QED BY <1>2, <1>4, <2>1, IdleIsHarmless, HarmlessKeeps
<1>5. CASE KeyOf(r) \notin keys
  <2>1. PICK t : t = [r EXCEPT !.step = "write"]
    OBVIOUS
  <2>2. /\ t \in Visiting /\ t.op = "visit" /\ t.step = "write" /\ t.user = r.user
        /\ t.session = r.session /\ t.what = r.what /\ t.product = r.product
    BY <1>3, <2>1 DEF Visiting
  <2>3. Shaped(t) /\ KeyOf(t) = KeyOf(r)
    BY <2>2 DEF Shaped, KeyOf, Identity
  <2>4. /\ Types' /\ RaceInv' /\ flight'[w] = t
        /\ \A v \in Workers : v # w => flight'[v] = flight[v]
    BY <1>2, <1>3, <1>5, <2>1, <2>2, <2>3, VisitMoves
  <2>5. ASSUME Opening(w)'
        PROVE  /\ t.product = None /\ ~Recorded(r.user)
               /\ \A v \in Workers : v # w /\ Opening(v) /\ flight[v].user = t.user
                                       => flight[v].step # "write"
    <3>1. Opening(w) /\ t.what = "OPENED_SYSTEM"
      BY <1>1, <1>2, <2>2, <2>4, <2>5 DEF Opening
    <3>2. r.product = None /\ ~Recorded(r.user) /\ r.user # None
      BY <1>1, <1>2, <1>5, <3>1 DEF Inv, OpenInv, Opening
    <3>3. ASSUME NEW v \in Workers, Opening(v), flight[v].user = t.user
          PROVE  flight[v].step # "write"
      <4>1. PICK s : s = flight[v]
        OBVIOUS
      <4>2. s.product = None /\ s.what = "OPENED_SYSTEM" /\ s.user = r.user
        BY <2>2, <3>3, <4>1 DEF Inv, OpenInv, Opening
      <4>3. KeyOf(s) = KeyOf(r)
        BY <2>2, <3>1, <3>2, <4>2 DEF KeyOf, Identity
      <4> QED BY <1>5, <3>3, <4>1, <4>3 DEF Inv, OpenInv
    <3> QED BY <2>2, <3>2, <3>3
  <2>6. ~Recorded(r.user) => ~Recorded(r.user)'
    BY <1>2 DEF Recorded
  <2>7. ~Recorded(r.user) => ~Recorded(flight[w].user)'
    BY <2>2, <2>4, <2>6
  <2>8. KeyOf(flight[w])' \in keys'
    BY <1>2, <1>5, <2>3, <2>4
  <2>9. OpenInv'
    BY <1>2, <1>5, <2>2, <2>4, <2>5, <2>7, <2>8, OpeningMoves DEF Inv
  <2> QED BY <2>4, <2>9 DEF Inv
<1> QED BY <1>4, <1>5

\* The row of an opening is written by the one who has the key.
LEMMA OpeningIsWritten ==
  ASSUME Inv, NEW w \in Workers, NEW r, r = flight[w], r \in Visiting,
         r.step = "write", r.what = "OPENED_SYSTEM", NEW e \in Row,
         e.stage = "OPENED_SYSTEM", e.user = r.user,
         journey' = Append(journey, e), keys' = keys, flight'[w] = Idle,
         \A v \in Workers : v # w => flight'[v] = flight[v]
  PROVE  OpenInv'
<1>1. /\ Len(journey) \in Nat /\ DOMAIN journey = 1 .. Len(journey)
      /\ DOMAIN journey' = 1 .. Len(journey) + 1 /\ journey'[Len(journey) + 1] = e
      /\ \A i \in DOMAIN journey : journey'[i] = journey[i]
  BY AppendProperties, LenProperties DEF Inv, Types
<1>2. r.user # None => Opening(w) /\ r.product = None /\ ~Recorded(r.user) /\ KeyOf(r) \in keys
  BY DEF Opening, Visiting, Inv, OpenInv
<1>3. \A u : Recorded(u)' => Recorded(u) \/ u = r.user
  BY <1>1 DEF Recorded
<1>4. OpenedOnce'
  <2>1. OpenedOnce
    BY DEF Inv, OpenInv
  <2>2. SUFFICES ASSUME NEW i \in DOMAIN journey', NEW j \in DOMAIN journey',
                        journey'[i].stage = "OPENED_SYSTEM", journey'[j].stage = "OPENED_SYSTEM",
                        journey'[i].user # None, journey'[i].user = journey'[j].user
                 PROVE  i = j
    BY DEF OpenedOnce
  <2>3. ASSUME NEW k \in DOMAIN journey, journey[k].stage = "OPENED_SYSTEM", r.user # None
        PROVE  journey[k].user # r.user
    BY <1>2, <2>3 DEF Recorded
  <2>4. CASE i \in DOMAIN journey /\ j \in DOMAIN journey
    BY <1>1, <2>1, <2>2, <2>4 DEF OpenedOnce
  <2>5. CASE i \in DOMAIN journey /\ j = Len(journey) + 1
    BY <1>1, <2>2, <2>3, <2>5
  <2>6. CASE i = Len(journey) + 1 /\ j \in DOMAIN journey
    BY <1>1, <2>2, <2>3, <2>6
  <2>7. CASE i = Len(journey) + 1 /\ j = Len(journey) + 1
    BY <2>7
  <2> QED BY <1>1, <2>4, <2>5, <2>6, <2>7
<1>5. ASSUME NEW v \in Workers, Opening(v)'
      PROVE  v # w /\ flight'[v] = flight[v] /\ Opening(v)
  BY <1>5 DEF Opening, Idle
<1>6. ASSUME NEW v \in Workers, Opening(v)'
      PROVE  /\ flight'[v].product = None
             /\ flight'[v].step = "claim" => ~Recorded(flight[v].user)' \/ KeyOf(flight[v])' \in keys'
             /\ flight'[v].step = "write" => ~Recorded(flight[v].user)' /\ KeyOf(flight[v])' \in keys'
  <2>1. PICK t : t = flight[v]
    OBVIOUS
  <2>2. /\ v # w /\ flight'[v] = t /\ Opening(v) /\ t.user # None /\ t.what = "OPENED_SYSTEM"
        /\ t.product = None
        /\ t.step = "claim" => ~Recorded(t.user) \/ KeyOf(t) \in keys
        /\ t.step = "write" => ~Recorded(t.user) /\ KeyOf(t) \in keys
    BY <1>5, <1>6, <2>1 DEF Inv, OpenInv, Opening
  <2>3. CASE t.user # r.user
    <3>1. Recorded(t.user)' => Recorded(t.user)
      BY <1>3, <2>3
    <3>2. Recorded(flight[v].user)' => Recorded(t.user)
      BY <2>2, <3>1
    <3> QED BY <2>2, <3>2
  <2>4. CASE t.user = r.user
    <3>1. Opening(w) /\ KeyOf(r) \in keys /\ r.product = None
      BY <1>2, <2>2, <2>4
    <3>2. KeyOf(t) = KeyOf(r)
      BY <2>2, <2>4, <3>1 DEF KeyOf, Identity
    <3>3. t.step # "write"
      BY <2>1, <2>2, <2>4, <3>1 DEF Inv, OpenInv
    <3> QED BY <2>2, <3>1, <3>2, <3>3
  <2> QED BY <2>3, <2>4
<1>7. ASSUME NEW v \in Workers, NEW x \in Workers, Opening(v)', Opening(x)',
             flight'[v].user = flight'[x].user,
             flight'[v].step = "write", flight'[x].step = "write"
      PROVE  v = x
  BY <1>5, <1>7 DEF Inv, OpenInv
<1> QED BY <1>4, <1>6, <1>7 DEF OpenInv

LEMMA WriteKeeps ==
  ASSUME Inv, NEW w \in Workers, Write(w)
  PROVE  Inv'
<1>1. PICK r : r = flight[w]
  OBVIOUS
<1>2. /\ r.op = "visit" /\ r.step = "write" /\ Add(Events(r), r.what) /\ Become(w, Idle)
      /\ UNCHANGED <<day, orders, quotes, keys, items, favorites, failed>>
  BY <1>1 DEF Write, At, rows, shelf
<1>3. r \in Visiting
  BY <1>1, <1>2, Shapes DEF Inv, Types
<1>4. CASE r.what \notin JourneyStages
  <2>1. journey' = journey
    BY <1>2, <1>4 DEF Add
  <2>2. Tables
    BY <1>2, <2>1, JourneyStays DEF Tables, Inv, Types
  <2> QED BY <1>2, <2>2, IdleIsHarmless, HarmlessKeeps
<1>5. CASE r.what \in JourneyStages
  <2>1. PICK e : e = JourneyRow(r.user, r.session, r.what, 0)
    OBVIOUS
  <2>2. e \in Row /\ e.stage = r.what /\ e.user = r.user
    <3>1. PICK u \in Visitors, s \in Users \cup Sessions, n \in Nat,
               stage \in ToldStages \cup JourneyStages \cup {"PURCHASED"} :
            u = r.user /\ s = r.session /\ n = 0 /\ stage = r.what
      BY <1>3, <1>5 DEF Visiting
    <3> QED BY <2>1, <3>1, RowIsRow DEF Inv
  <2>3. journey' = Append(journey, e)
    <3>1. journey' = journey \o SetToSeq({e})
      BY <1>2, <1>5, <2>1 DEF Add, Events
    <3>2. SetToSeq({e}) = <<e>>
      BY OneWritten
    <3>3. journey \in Seq(Row)
      BY DEF Inv, Types
    <3> QED BY <2>2, <3>1, <3>2, <3>3, OneAppended
  <2>4. CASE r.what # "OPENED_SYSTEM"
    <3>1. Tables
      BY <1>2, <2>2, <2>3, <2>4, RowIsTold DEF Tables, Inv, Types
    <3> QED BY <1>2, <3>1, IdleIsHarmless, HarmlessKeeps
  <2>5. CASE r.what = "OPENED_SYSTEM"
    <3>1. journey' \in Seq(Row)
      BY <2>2, <2>3, AppendProperties DEF Inv, Types
    <3>2. /\ Types' /\ RaceInv' /\ flight'[w] = Idle
          /\ \A v \in Workers : v # w => flight'[v] = flight[v]
      BY <1>2, <3>1, IdleIsHarmless, VisitMoves DEF Harmless
    <3>3. OpenInv'
      BY <1>1, <1>2, <1>3, <2>2, <2>3, <2>5, <3>2, OpeningIsWritten
    <3> QED BY <3>2, <3>3 DEF Inv
  <2> QED BY <2>4, <2>5
<1> QED BY <1>4, <1>5

\* A key that is dropped was not, of the openings under way, that of one which
\* is being written or was recorded.
LEMMA KeysDropped ==
  ASSUME OpenInv, journey' = journey,
         \A v \in Workers : Opening(v)' =>
           /\ flight'[v] = flight[v] /\ Opening(v)
           /\ \/ KeyOf(flight[v]) \in keys => KeyOf(flight[v]) \in keys'
              \/ flight[v].step # "write" /\ ~Recorded(flight[v].user)
  PROVE  OpenInv'
<1>1. OpenedOnce' /\ \A u : Recorded(u)' <=> Recorded(u)
  BY DEF OpenInv, OpenedOnce, Recorded
<1>2. ASSUME NEW v \in Workers, Opening(v)'
      PROVE  /\ flight'[v].product = None
             /\ flight'[v].step = "claim" => ~Recorded(flight[v].user)' \/ KeyOf(flight[v])' \in keys'
             /\ flight'[v].step = "write" => ~Recorded(flight[v].user)' /\ KeyOf(flight[v])' \in keys'
  <2>1. PICK t : t = flight[v]
    OBVIOUS
  <2>2. /\ flight'[v] = t /\ Opening(v) /\ t.product = None
        /\ t.step = "claim" => ~Recorded(t.user) \/ KeyOf(t) \in keys
        /\ t.step = "write" => ~Recorded(t.user) /\ KeyOf(t) \in keys
        /\ (KeyOf(t) \in keys => KeyOf(t) \in keys') \/ (t.step # "write" /\ ~Recorded(t.user))
    BY <1>2, <2>1 DEF OpenInv
  <2>3. Recorded(flight[v].user)' => Recorded(t.user)
    BY <1>1, <2>2
  <2> QED BY <2>2, <2>3
<1>3. ASSUME NEW v \in Workers, NEW x \in Workers, Opening(v)', Opening(x)',
             flight'[v].user = flight'[x].user,
             flight'[v].step = "write", flight'[x].step = "write"
      PROVE  v = x
  BY <1>3 DEF OpenInv
<1> QED BY <1>1, <1>2, <1>3 DEF OpenInv

LEMMA WriteFailsKeeps ==
  ASSUME Inv, NEW w \in Workers, WriteFails(w)
  PROVE  Inv'
<1>1. PICK r : r = flight[w]
  OBVIOUS
<1>2. /\ r.op = "visit" /\ r.step = "write" /\ Become(w, Idle) /\ keys' = keys \ {KeyOf(r)}
      /\ UNCHANGED <<day, orders, quotes, items, favorites, failed>>
  BY <1>1 DEF WriteFails, At, rows, shelf
<1>3. PICK done \in (SUBSET Events(r)) \ {Events(r)} : Add(done, r.what)
  BY <1>1 DEF WriteFails
<1>4. r \in Visiting
  BY <1>1, <1>2, Shapes DEF Inv, Types
<1>5. journey' = journey
  <2>1. CASE r.what \notin JourneyStages
    BY <1>3, <2>1 DEF Add
  <2>2. CASE r.what \in JourneyStages
    <3>1. done = {}
      BY <1>3, <2>2 DEF Events
    <3>2. journey' = journey \o SetToSeq({})
      BY <1>3, <2>2, <3>1 DEF Add
    <3>3. SetToSeq({}) = <<>> /\ journey \in Seq(Row)
      BY NoneWritten DEF Inv, Types
    <3> QED BY <3>2, <3>3
  <2> QED BY <2>1, <2>2
<1>6. /\ Types' /\ RaceInv' /\ flight'[w] = Idle
      /\ \A v \in Workers : v # w => flight'[v] = flight[v]
  BY <1>2, <1>5, IdleIsHarmless, JourneyStays, VisitMoves DEF Harmless, Inv
<1>7. ASSUME NEW v \in Workers, Opening(v)'
      PROVE  /\ flight'[v] = flight[v] /\ Opening(v)
             /\ \/ KeyOf(flight[v]) \in keys => KeyOf(flight[v]) \in keys'
                \/ flight[v].step # "write" /\ ~Recorded(flight[v].user)
  <2>1. v # w /\ flight'[v] = flight[v] /\ Opening(v)
    BY <1>6, <1>7 DEF Opening, Idle
  <2>2. PICK t : t = flight[v]
    OBVIOUS
  <2>3. t \in Visiting /\ t.user # None /\ t.what = "OPENED_SYSTEM"
    BY <2>1, <2>2, Shapes DEF Opening, Inv, Types
  <2>4. CASE KeyOf(t) = KeyOf(r)
    <3>1. r.user = t.user /\ Opening(w)
      BY <1>1, <1>2, <1>4, <2>3, <2>4, KeyIsTheirs DEF Opening
    <3>2. ~Recorded(r.user)
      BY <1>1, <1>2, <3>1 DEF Inv, OpenInv
    <3>3. t.step # "write"
      BY <1>1, <1>2, <2>1, <2>2, <3>1 DEF Inv, OpenInv
    <3> QED BY <2>1, <2>2, <3>1, <3>2, <3>3
  <2>5. CASE KeyOf(t) # KeyOf(r)
    BY <1>2, <2>1, <2>2, <2>5
  <2> QED BY <2>4, <2>5
<1>8. OpenInv'
  BY <1>5, <1>7, KeysDropped DEF Inv
<1> QED BY <1>6, <1>8 DEF Inv

LEMMA KeyRunsOutKeeps ==
  ASSUME Inv, KeyRunsOut
  PROVE  Inv'
<1>1. PICK k \in keys :
        /\ k.what \in JourneyStages =>
             \A w \in Workers : flight[w].op = "visit" => KeyOf(flight[w]) # k
        /\ keys' = keys \ {k}
        /\ UNCHANGED <<day, orders, quotes, journey, items, favorites, flight, failed>>
  BY DEF KeyRunsOut, rows, shelf
<1>2. journey' \in Seq(Row) /\ Traced
  BY <1>1, JourneyStays DEF Inv
<1>3. Types'
  BY <1>1, <1>2 DEF Types, Inv
<1>4. RaceInv'
  <2>1. FailsOnlyOverRemoval'
    BY <1>1 DEF Inv, RaceInv, FailsOnlyOverRemoval
  <2> QED BY <1>1, <2>1, RaceKept DEF Inv
<1>5. ASSUME NEW v \in Workers, Opening(v)'
      PROVE  /\ flight'[v] = flight[v] /\ Opening(v)
             /\ KeyOf(flight[v]) \in keys => KeyOf(flight[v]) \in keys'
  <2>1. flight'[v] = flight[v] /\ Opening(v)
    BY <1>1, <1>5 DEF Opening
  <2>2. PICK t : t = flight[v]
    OBVIOUS
  <2>3. KeyOf(t).what = "OPENED_SYSTEM" /\ t.op = "visit"
    BY <2>1, <2>2 DEF Opening, KeyOf
  <2>4. KeyOf(t) # k
    BY <1>1, <2>2, <2>3 DEF JourneyStages
  <2> QED BY <1>1, <2>1, <2>2, <2>4
<1>6. OpenInv'
  BY <1>1, <1>5, KeysDropped DEF Inv
<1> QED BY <1>3, <1>4, <1>6 DEF Inv

-----------------------------------------------------------------------------
(* The theorems.                                                           *)

LEMMA InitInv == Init => Inv
<1> SUFFICES ASSUME Init PROVE Inv
  OBVIOUS
<1>1. /\ day \in Nat /\ orders = <<>> /\ quotes = <<>> /\ journey = <<>> /\ favorites = {}
      /\ items \in [Users -> SUBSET Products] /\ failed = {}
      /\ DOMAIN flight = Workers /\ \A w \in Workers : flight[w] = Idle
  BY DEF Init
<1>2. Types
  <2>1. \A w \in Workers : Shaped(flight[w])
    BY <1>1 DEF Shaped
  <2>2. orders \in Seq(Order) /\ quotes \in Seq(Quote) /\ journey \in Seq(Row)
    BY <1>1
  <2> QED BY <1>1, <2>1, <2>2 DEF Types
<1>3. RaceInv
  BY <1>1 DEF RaceInv, FailsOnlyOverRemoval, Counts, Idle
<1>4. OpenInv
  <2>1. OpenedOnce
    BY <1>1 DEF OpenedOnce
  <2>2. \A w \in Workers : ~Opening(w)
    BY <1>1 DEF Opening, Idle
  <2> QED BY <2>1, <2>2 DEF OpenInv
<1> QED BY <1>2, <1>3, <1>4 DEF Inv

LEMMA StutterInv == Inv /\ UNCHANGED vars => Inv'
<1> SUFFICES ASSUME Inv, UNCHANGED vars PROVE Inv'
  OBVIOUS
<1>1. UNCHANGED <<day, orders, quotes, journey, keys, items, favorites, flight, failed>>
  BY DEF vars, rows, log, shelf
<1>2. Tables
  BY <1>1, JourneyStays DEF Tables, Inv, Types
<1> QED BY <1>1, <1>2, RestKeeps

LEMMA NextInv == Inv /\ Next => Inv'
<1> SUFFICES ASSUME Inv, Next PROVE Inv'
  OBVIOUS
<1>1. CASE KeyRunsOut
  BY <1>1, KeyRunsOutKeeps
<1>2. CASE Tick
  BY <1>2, StaffKeeps
<1>3. ASSUME NEW w \in Workers,
             Visit(w) \/ LookForOpening(w) \/ Claim(w) \/ Write(w) \/ WriteFails(w)
      PROVE  Inv'
  BY <1>3, VisitKeeps, LookForOpeningKeeps, ClaimKeeps, WriteKeeps, WriteFailsKeeps
<1>4. ASSUME NEW w \in Workers,
             \/ PutInCart(w) \/ MakeCart(w) \/ FindItem(w) \/ UpdateItem(w) \/ InsertItem(w)
             \/ TakeFromCart(w) \/ DeleteItem(w) \/ ClearCart(w)
      PROVE  Inv'
  BY <1>4, PutInCartKeeps, FindItemKeeps, InsertItemKeeps, BeginRemovalKeeps, DeleteItemKeeps,
     ClearCartKeeps
<1>5. ASSUME NEW w \in Workers,
             Like(w) \/ CreateFavorite(w) \/ TellLiked(w) \/ Unlike(w) \/ DeleteFavorite(w)
      PROVE  Inv'
  BY <1>5, PlainKeeps, CreateFavoriteKeeps, BeginRemovalKeeps, DeleteFavoriteKeeps
<1>6. ASSUME NEW w \in Workers,
             SaveDesign(w) \/ RequestQuote(w) \/ UpdateQuote(w) \/ Tell(w) \/ Die(w)
      PROVE  Inv'
  BY <1>6, WishesKeep, TellKeeps, PlainKeeps
<1>7. ASSUME NEW w \in Workers,
             \/ PlaceOrder(w) \/ Revise(w) \/ VerifyPayment(w) \/ Deliver(w) \/ Cancel(w)
             \/ Restock(w)
      PROVE  Inv'
  <2>1. CASE Deliver(w) \/ Restock(w)
    BY <2>1, StaffKeeps
  <2>2. CASE PlaceOrder(w) \/ Revise(w) \/ VerifyPayment(w) \/ Cancel(w)
    BY <2>2, PlaceOrderKeeps, ReviseKeeps, VerifyPaymentKeeps, CancelKeeps
  <2> QED BY <1>7, <2>1, <2>2
<1> QED BY <1>1, <1>2, <1>3, <1>4, <1>5, <1>6, <1>7 DEF Next

LEMMA InvHolds == Spec => []Inv
<1>1. Init => Inv
  BY InitInv
<1>2. Inv /\ [Next]_vars => Inv'
  BY NextInv, StutterInv
<1> QED BY <1>1, <1>2, PTL DEF Spec

\* However many browsers a customer opens the system with, and however often a
\* request is retried, a write fails or a process dies, the opening is recorded
\* at most once (recordPublicJourneyEvent): who claims the key finds nobody
\* writing, and whoever looks later finds the row.
THEOREM OpenedIsRecordedOnce == Spec => []OpenedOnce
<1>1. Inv => OpenedOnce
  BY DEF Inv, OpenInv
<1> QED BY <1>1, InvHolds, PTL

\* A request for a row of the cart or a favorite that ends in an unhandled error met
\* the removal of that row while it ran: a lost race for the insertion is retried
\* once, and the retry finds the row or a removal (retryOnUniqueRace).
THEOREM FailuresMetRemoval == Spec => []FailsOnlyOverRemoval
<1>1. Inv => FailsOnlyOverRemoval
  BY DEF Inv, RaceInv
<1> QED BY <1>1, InvHolds, PTL

-----------------------------------------------------------------------------
(* Sums over finite sets.  Strict inclusion is well-founded on the subsets *)
(* of a finite set, so what holds of every sum is shown for a least set on *)
(* which it might fail.                                                    *)

LEMMA MinimalSubset ==
  ASSUME NEW S, IsFiniteSet(S), NEW T \in SUBSET SUBSET S, T # {}
  PROVE  \E s \in T : \A t \in SUBSET s : t # s => t \notin T
<1>1. IsWellFoundedOn(StrictSubsetOrdering(S), FiniteSubsetsOf(S))
  BY FS_StrictSubsetOrderingWellFounded
<1>2. FiniteSubsetsOf(S) = SUBSET S
  BY FS_FiniteSubsetsOfFinite
<1>3. PICK s \in T : \A t \in T : <<t, s>> \notin StrictSubsetOrdering(S)
  BY <1>1, <1>2, WFMin
<1>4. ASSUME NEW t \in SUBSET s, t # s, t \in T
      PROVE  FALSE
  BY <1>3, <1>4 DEF StrictSubsetOrdering
<1> QED BY <1>3, <1>4

\* The partial sums of f over the subsets of s, as the fold computes them.
Some(s) == CHOOSE x \in s : TRUE
Sums(f, s, g) ==
  g = [t \in SUBSET s |-> IF t = {} THEN 0 ELSE f[Some(t)] + g[t \ {Some(t)}]]

LEMMA SomeIsIn == \A s : s # {} => Some(s) \in s
BY DEF Some

LEMMA SumsOf ==
  ASSUME NEW f, NEW s, NEW g, Sums(f, s, g)
  PROVE  \A t \in SUBSET s :
           g[t] = IF t = {} THEN 0 ELSE f[Some(t)] + g[t \ {Some(t)}]
BY DEF Sums

\* Partial sums are determined by f.
LEMMA SumsAgree ==
  ASSUME NEW f, NEW s, IsFiniteSet(s), NEW g, Sums(f, s, g), NEW u, NEW h, Sums(f, u, h)
  PROVE  \A t \in (SUBSET s) \cap (SUBSET u) : g[t] = h[t]
<1> SUFFICES ASSUME NEW r \in (SUBSET s) \cap (SUBSET u), g[r] # h[r] PROVE FALSE
  OBVIOUS
<1> DEFINE Differ == {t \in (SUBSET s) \cap (SUBSET u) : g[t] # h[t]}
<1>1. Differ \in SUBSET SUBSET s /\ Differ # {}
  OBVIOUS
<1>2. PICK t \in Differ : \A q \in SUBSET t : q # t => q \notin Differ
  <2> HIDE DEF Differ
  <2> QED BY <1>1, MinimalSubset
<1>3. /\ \A q \in SUBSET s : g[q] = IF q = {} THEN 0 ELSE f[Some(q)] + g[q \ {Some(q)}]
      /\ \A q \in SUBSET u : h[q] = IF q = {} THEN 0 ELSE f[Some(q)] + h[q \ {Some(q)}]
  <2> HIDE DEF Differ
  <2>1. \A q \in SUBSET s : g[q] = IF q = {} THEN 0 ELSE f[Some(q)] + g[q \ {Some(q)}]
    BY SumsOf
  <2>2. \A q \in SUBSET u : h[q] = IF q = {} THEN 0 ELSE f[Some(q)] + h[q \ {Some(q)}]
    BY SumsOf
  <2> QED BY <2>1, <2>2
<1>4. t # {}
  BY <1>2, <1>3
<1>5. Some(t) \in t /\ t \ {Some(t)} \in SUBSET t /\ t \ {Some(t)} # t
  BY <1>4, SomeIsIn
<1>6. g[t \ {Some(t)}] = h[t \ {Some(t)}]
  BY <1>2, <1>5
<1>7. /\ g[t] = f[Some(t)] + g[t \ {Some(t)}]
      /\ h[t] = f[Some(t)] + h[t \ {Some(t)}]
  <2>1. t \in SUBSET s /\ t \in SUBSET u
    BY <1>2
  <2> HIDE DEF Differ
  <2> QED BY <1>4, <1>3, <2>1
<1> QED BY <1>2, <1>6, <1>7

\* They exist.
LEMMA SumsExist ==
  ASSUME NEW f, NEW S, IsFiniteSet(S)
  PROVE  \E g : Sums(f, S, g)
<1> SUFFICES ASSUME ~ \E g : Sums(f, S, g) PROVE FALSE
  OBVIOUS
<1> DEFINE Bad == {s \in SUBSET S : ~ \E g : Sums(f, s, g)}
           G(t) == CHOOSE g : Sums(f, t, g)
<1>1. PICK s \in Bad : \A t \in SUBSET s : t # s => t \notin Bad
  BY MinimalSubset
<1>2. ASSUME NEW t \in SUBSET s, t # s PROVE Sums(f, t, G(t))
  BY <1>1, <1>2
<1> HIDE DEF G
<1> DEFINE g == [t \in SUBSET s |->
                   IF t = {} THEN 0
                   ELSE f[Some(t)] + G(t \ {Some(t)})[t \ {Some(t)}]]
<1>3. ASSUME NEW t \in SUBSET s, t # s PROVE g[t] = G(t)[t]
  <2>1. CASE t = {}
    <3>1. Sums(f, t, G(t))
      BY <1>2, <1>3
    <3>2. G(t)[t] = 0
      BY <2>1, <3>1, SumsOf
    <3> QED BY <2>1, <3>2
  <2>2. CASE t # {}
    <3> DEFINE q == t \ {Some(t)}
    <3>1. q \in SUBSET s /\ q # s /\ q \in SUBSET t /\ q \in SUBSET q
      BY <1>3
    <3>2. G(t)[t] = f[Some(t)] + G(t)[q]
      BY <1>2, <1>3, <2>2, SumsOf
    <3>3. Sums(f, t, G(t)) /\ Sums(f, q, G(q)) /\ IsFiniteSet(t)
      BY <1>1, <1>2, <1>3, <3>1, FS_Subset
    <3>4. G(t)[q] = G(q)[q]
      <4> HIDE DEF q
      <4>1. \A x \in (SUBSET t) \cap (SUBSET q) : G(t)[x] = G(q)[x]
        BY <3>3, SumsAgree
      <4> QED BY <3>1, <4>1
    <3> QED BY <2>2, <3>2, <3>4
  <2> QED BY <2>1, <2>2
<1>4. ASSUME NEW t \in SUBSET s
      PROVE  g[t] = IF t = {} THEN 0 ELSE f[Some(t)] + g[t \ {Some(t)}]
  <2> SUFFICES ASSUME t # {} PROVE g[t] = f[Some(t)] + g[t \ {Some(t)}]
    BY <1>4
  <2>1. t \ {Some(t)} \in SUBSET s /\ t \ {Some(t)} # s
    BY <1>4, SomeIsIn
  <2>2. g[t \ {Some(t)}] = G(t \ {Some(t)})[t \ {Some(t)}]
    BY <1>3, <2>1
  <2> QED BY <1>4, <2>2
<1>5. Sums(f, s, g)
  <2>1. g = [t \in SUBSET s |-> g[t]]
    OBVIOUS
  <2> HIDE DEF g
  <2> QED BY <1>4, <2>1 DEF Sums
<1> QED BY <1>1, <1>5

SumsOver(f, s) == CHOOSE g : Sums(f, s, g)

LEMMA TotalIs ==
  ASSUME NEW f, NEW S, IsFiniteSet(S)
  PROVE  Sums(f, S, SumsOver(f, S)) /\ Total(S, f) = SumsOver(f, S)[S]
<1>1. Sums(f, S, SumsOver(f, S))
  BY SumsExist DEF SumsOver
<1>2. Total(S, f) = SumsOver(f, S)[S]
  BY DEF Total, MapThenSumSet, MapThenFoldSet, Some, Sums, SumsOver
<1> QED BY <1>1, <1>2

\* What one sum adds to a smaller one.
LEMMA TotalOfNone == \A f : Total({}, f) = 0
<1> TAKE f
<1>1. IsFiniteSet({})
  BY FS_EmptySet
<1>2. Sums(f, {}, SumsOver(f, {})) /\ Total({}, f) = SumsOver(f, {})[{}]
  BY <1>1, TotalIs
<1> QED BY <1>2, SumsOf

LEMMA TotalSteps ==
  ASSUME NEW f, NEW S, IsFiniteSet(S), S # {}
  PROVE  /\ Some(S) \in S
         /\ Total(S, f) = f[Some(S)] + Total(S \ {Some(S)}, f)
<1> DEFINE t == S \ {Some(S)}
<1>1. Some(S) \in S /\ IsFiniteSet(t)
  BY SomeIsIn, FS_Subset
<1>2. Sums(f, S, SumsOver(f, S)) /\ Total(S, f) = SumsOver(f, S)[S]
  BY TotalIs
<1>3. Sums(f, t, SumsOver(f, t)) /\ Total(t, f) = SumsOver(f, t)[t]
  BY <1>1, TotalIs
<1>4. SumsOver(f, S)[t] = SumsOver(f, t)[t]
  <2>1. \A q \in (SUBSET S) \cap (SUBSET t) : SumsOver(f, S)[q] = SumsOver(f, t)[q]
    <3> HIDE DEF t
    <3> QED BY <1>2, <1>3, SumsAgree
  <2> QED BY <2>1
<1>5. SumsOver(f, S)[S] = f[Some(S)] + SumsOver(f, S)[t]
  BY <1>2, SumsOf
<1> QED BY <1>1, <1>2, <1>3, <1>4, <1>5

LEMMA TotalIsInt ==
  ASSUME NEW f, NEW S, IsFiniteSet(S), \A i \in S : f[i] \in Int
  PROVE  Total(S, f) \in Int
<1> DEFINE Wrong == {s \in SUBSET S : Total(s, f) \notin Int}
<1> SUFFICES ASSUME Wrong # {} PROVE FALSE
  OBVIOUS
<1>1. PICK s \in Wrong : \A t \in SUBSET s : t # s => t \notin Wrong
  <2>1. Wrong \in SUBSET SUBSET S
    OBVIOUS
  <2> HIDE DEF Wrong
  <2> QED BY <2>1, MinimalSubset
<1>2. IsFiniteSet(s) /\ s # {}
  <2>1. s \in SUBSET S /\ Total(s, f) \notin Int
    BY <1>1
  <2>2. s # {}
    BY <2>1, TotalOfNone
  <2> QED BY <2>1, <2>2, FS_Subset
<1>3. Some(s) \in s /\ Total(s, f) = f[Some(s)] + Total(s \ {Some(s)}, f)
  BY <1>2, TotalSteps
<1>4. s \ {Some(s)} \in SUBSET s /\ s \ {Some(s)} # s
  BY <1>3
<1>5. Total(s \ {Some(s)}, f) \in Int
  BY <1>1, <1>4
<1> QED BY <1>1, <1>3, <1>5

LEMMA TotalIsNat ==
  ASSUME NEW f, NEW S, IsFiniteSet(S), \A i \in S : f[i] \in Nat
  PROVE  Total(S, f) \in Nat
<1> DEFINE Wrong == {s \in SUBSET S : Total(s, f) \notin Nat}
<1> SUFFICES ASSUME Wrong # {} PROVE FALSE
  OBVIOUS
<1>1. PICK s \in Wrong : \A t \in SUBSET s : t # s => t \notin Wrong
  <2>1. Wrong \in SUBSET SUBSET S
    OBVIOUS
  <2> HIDE DEF Wrong
  <2> QED BY <2>1, MinimalSubset
<1>2. IsFiniteSet(s) /\ s # {}
  <2>1. s \in SUBSET S /\ Total(s, f) \notin Nat
    BY <1>1
  <2>2. s # {}
    BY <2>1, TotalOfNone
  <2> QED BY <2>1, <2>2, FS_Subset
<1>3. Some(s) \in s /\ Total(s, f) = f[Some(s)] + Total(s \ {Some(s)}, f)
  BY <1>2, TotalSteps
<1>4. s \ {Some(s)} \in SUBSET s /\ s \ {Some(s)} # s
  BY <1>3
<1>5. Total(s \ {Some(s)}, f) \in Nat
  BY <1>1, <1>4
<1> QED BY <1>1, <1>3, <1>5

\* Whichever element is taken.
LEMMA TotalTakes ==
  ASSUME NEW f, NEW S, IsFiniteSet(S), \A i \in S : f[i] \in Int
  PROVE  \A x \in S : Total(S, f) = f[x] + Total(S \ {x}, f)
<1> DEFINE Wrong == {s \in SUBSET S : \E x \in s : Total(s, f) # f[x] + Total(s \ {x}, f)}
<1> SUFFICES ASSUME Wrong # {} PROVE FALSE
  <2>1. S \notin Wrong
    OBVIOUS
  <2> QED BY <2>1
<1>1. PICK s \in Wrong : \A t \in SUBSET s : t # s => t \notin Wrong
  <2>1. Wrong \in SUBSET SUBSET S
    OBVIOUS
  <2> HIDE DEF Wrong
  <2> QED BY <2>1, MinimalSubset
<1>2. s \in SUBSET S /\ \E x \in s : Total(s, f) # f[x] + Total(s \ {x}, f)
  BY <1>1
<1>3. PICK x \in s : Total(s, f) # f[x] + Total(s \ {x}, f)
  BY <1>2
<1>4. ASSUME NEW t \in SUBSET s, t # s, NEW z \in t
      PROVE  Total(t, f) = f[z] + Total(t \ {z}, f)
  <2>1. t \in SUBSET S /\ t \notin Wrong
    BY <1>1, <1>2, <1>4
  <2> QED BY <1>4, <2>1
<1>5. IsFiniteSet(s) /\ s # {}
  BY <1>2, <1>3, FS_Subset
<1>6. PICK y \in s : Total(s, f) = f[y] + Total(s \ {y}, f)
  BY <1>5, TotalSteps
<1>7. x # y
  BY <1>3, <1>6
<1>8. Total(s \ {y}, f) = f[x] + Total((s \ {y}) \ {x}, f)
  BY <1>4, <1>7
<1>9. Total(s \ {x}, f) = f[y] + Total((s \ {x}) \ {y}, f)
  BY <1>4, <1>7
<1>10. (s \ {y}) \ {x} = (s \ {x}) \ {y}
  OBVIOUS
<1>11. f[x] \in Int /\ f[y] \in Int /\ Total((s \ {x}) \ {y}, f) \in Int
  <2>1. IsFiniteSet((s \ {x}) \ {y}) /\ \A i \in (s \ {x}) \ {y} : f[i] \in Int
    BY <1>2, <1>5, FS_Subset
  <2> QED BY <1>2, <2>1, TotalIsInt
<1> DEFINE rest == Total((s \ {x}) \ {y}, f)
<1>12. Total(s \ {y}, f) = f[x] + rest /\ Total(s \ {x}, f) = f[y] + rest /\ rest \in Int
  BY <1>8, <1>9, <1>10, <1>11
<1> HIDE DEF rest
<1>13. Total(s, f) = f[x] + Total(s \ {x}, f)
  BY <1>6, <1>11, <1>12
<1> QED BY <1>3, <1>13

\* The sum depends on the values over the set alone.
LEMMA TotalSame ==
  ASSUME NEW S, IsFiniteSet(S), NEW f, NEW g, \A i \in S : f[i] = g[i]
  PROVE  Total(S, f) = Total(S, g)
<1> DEFINE Wrong == {s \in SUBSET S : Total(s, f) # Total(s, g)}
<1> SUFFICES ASSUME Wrong # {} PROVE FALSE
  <2>1. S \notin Wrong
    OBVIOUS
  <2> QED BY <2>1
<1>1. PICK s \in Wrong : \A t \in SUBSET s : t # s => t \notin Wrong
  <2>1. Wrong \in SUBSET SUBSET S
    OBVIOUS
  <2> HIDE DEF Wrong
  <2> QED BY <2>1, MinimalSubset
<1>2. s \in SUBSET S /\ Total(s, f) # Total(s, g)
  BY <1>1
<1>3. IsFiniteSet(s) /\ s # {}
  <2>1. s # {}
    BY <1>2, TotalOfNone
  <2> QED BY <1>2, <2>1, FS_Subset
<1> DEFINE t == s \ {Some(s)}
<1>4. Some(s) \in s /\ Total(s, f) = f[Some(s)] + Total(t, f)
  BY <1>3, TotalSteps
<1>5. Total(s, g) = g[Some(s)] + Total(t, g)
  BY <1>3, TotalSteps
<1>6. Total(t, f) = Total(t, g)
  <2>1. t \in SUBSET s /\ t # s /\ t \in SUBSET S
    BY <1>2, <1>4
  <2> HIDE DEF t
  <2> QED BY <1>1, <2>1
<1> QED BY <1>2, <1>4, <1>5, <1>6

LEMMA TotalUnion ==
  ASSUME NEW S, NEW T, IsFiniteSet(S), IsFiniteSet(T), S \cap T = {},
         NEW f, \A i \in S \cup T : f[i] \in Int
  PROVE  Total(S \cup T, f) = Total(S, f) + Total(T, f)
<1> DEFINE Wrong == {s \in SUBSET S : Total(s \cup T, f) # Total(s, f) + Total(T, f)}
<1> SUFFICES ASSUME Wrong # {} PROVE FALSE
  <2>1. S \notin Wrong
    OBVIOUS
  <2> QED BY <2>1
<1>1. PICK s \in Wrong : \A t \in SUBSET s : t # s => t \notin Wrong
  <2>1. Wrong \in SUBSET SUBSET S
    OBVIOUS
  <2> HIDE DEF Wrong
  <2> QED BY <2>1, MinimalSubset
<1>2. s \in SUBSET S /\ Total(s \cup T, f) # Total(s, f) + Total(T, f)
  BY <1>1
<1>3. Total(T, f) \in Int
  BY TotalIsInt
<1>4. s # {}
  <2> SUFFICES ASSUME s = {} PROVE FALSE
    OBVIOUS
  <2>1. Total(s, f) = 0 /\ s \cup T = T
    BY TotalOfNone
  <2>2. Total(s \cup T, f) = Total(T, f)
    BY <2>1
  <2> QED BY <1>2, <1>3, <2>1, <2>2
<1>5. PICK x \in s : TRUE
  BY <1>4
<1> DEFINE t == s \ {x}
<1>6. IsFiniteSet(s) /\ IsFiniteSet(t) /\ IsFiniteSet(s \cup T)
  BY <1>2, FS_Subset, FS_Union
<1>7. Total(s, f) = f[x] + Total(t, f)
  BY <1>2, <1>6, TotalTakes
<1>8. Total(s \cup T, f) = f[x] + Total(t \cup T, f)
  <2>1. (s \cup T) \ {x} = t \cup T
    BY <1>2
  <2>2. Total(s \cup T, f) = f[x] + Total((s \cup T) \ {x}, f)
    BY <1>2, <1>6, TotalTakes
  <2> QED BY <2>1, <2>2
<1>9. Total(t \cup T, f) = Total(t, f) + Total(T, f)
  <2>1. t \in SUBSET s /\ t # s /\ t \in SUBSET S
    BY <1>2, <1>5
  <2> HIDE DEF t
  <2> QED BY <1>1, <2>1
<1>10. f[x] \in Int /\ Total(t, f) \in Int
  BY <1>2, <1>6, TotalIsInt
<1> HIDE DEF t
<1> QED BY <1>2, <1>3, <1>7, <1>8, <1>9, <1>10

\* A set in parts.
LEMMA TotalParts ==
  ASSUME NEW I, IsFiniteSet(I), NEW part, NEW f,
         \A k \in I : IsFiniteSet(part[k]) /\ \A i \in part[k] : f[i] \in Int,
         \A k, l \in I : k # l => part[k] \cap part[l] = {}
  PROVE  Total(I, [k \in I |-> Total(part[k], f)]) = Total(UNION {part[k] : k \in I}, f)
<1> DEFINE sums == [k \in I |-> Total(part[k], f)]
           Over(J) == UNION {part[k] : k \in J}
           Wrong == {J \in SUBSET I : ~(/\ IsFiniteSet(Over(J))
                                        /\ Total(J, sums) = Total(Over(J), f))}
<1> SUFFICES ASSUME Wrong # {} PROVE FALSE
  <2>1. I \notin Wrong
    OBVIOUS
  <2> QED BY <2>1
<1>1. PICK J \in Wrong : \A K \in SUBSET J : K # J => K \notin Wrong
  <2>1. Wrong \in SUBSET SUBSET I
    OBVIOUS
  <2> HIDE DEF Wrong
  <2> QED BY <2>1, MinimalSubset
<1>2. J \in SUBSET I /\ ~(IsFiniteSet(Over(J)) /\ Total(J, sums) = Total(Over(J), f))
  BY <1>1
<1>3. J # {}
  <2>1. Over({}) = {}
    OBVIOUS
  <2>2. IsFiniteSet({}) /\ Total({}, f) = 0 /\ Total({}, sums) = 0
    BY TotalOfNone, FS_EmptySet
  <2> HIDE DEF Over, sums
  <2> QED BY <1>2, <2>1, <2>2
<1>4. PICK k \in J : TRUE
  BY <1>3
<1> DEFINE K == J \ {k}
<1>5. IsFiniteSet(Over(K)) /\ Total(K, sums) = Total(Over(K), f)
  <2>1. K \in SUBSET J /\ K # J /\ K \in SUBSET I
    BY <1>2, <1>4
  <2> HIDE DEF K
  <2> QED BY <1>1, <2>1
<1>6. Over(J) = part[k] \cup Over(K)
  BY <1>4
<1>7. k \in I /\ IsFiniteSet(part[k]) /\ part[k] \cap Over(K) = {}
  BY <1>2, <1>4
<1>8. \A i \in part[k] \cup Over(K) : f[i] \in Int
  BY <1>2, <1>7
<1> HIDE DEF K, Over
<1>9. Total(Over(J), f) = Total(part[k], f) + Total(Over(K), f) /\ IsFiniteSet(Over(J))
  <2> DEFINE rest == Over(K)
  <2>1. IsFiniteSet(rest) /\ part[k] \cap rest = {} /\ Over(J) = part[k] \cup rest
    BY <1>5, <1>6, <1>7
  <2>2. \A i \in part[k] \cup rest : f[i] \in Int
    BY <1>8
  <2> HIDE DEF rest
  <2>3. Total(part[k] \cup rest, f) = Total(part[k], f) + Total(rest, f)
    BY <1>7, <2>1, <2>2, TotalUnion
  <2>4. IsFiniteSet(part[k] \cup rest)
    BY <1>7, <2>1, FS_Union
  <2> QED BY <2>1, <2>3, <2>4 DEF rest
<1>10. Total(J, sums) = sums[k] + Total(K, sums)
  <2>1. \A j \in J : sums[j] \in Int
    BY <1>2, TotalIsInt
  <2>2. IsFiniteSet(J)
    BY <1>2, FS_Subset
  <2> HIDE DEF sums
  <2> QED BY <1>4, <2>1, <2>2, TotalTakes DEF K
<1> QED BY <1>2, <1>5, <1>7, <1>9, <1>10

LEMMA TotalOnes ==
  ASSUME NEW S, IsFiniteSet(S), NEW f, \A i \in S : f[i] = 1
  PROVE  Total(S, f) = Cardinality(S)
<1> DEFINE Wrong == {s \in SUBSET S : Total(s, f) # Cardinality(s)}
<1> SUFFICES ASSUME Wrong # {} PROVE FALSE
  <2>1. S \notin Wrong
    OBVIOUS
  <2> QED BY <2>1
<1>1. PICK s \in Wrong : \A t \in SUBSET s : t # s => t \notin Wrong
  <2>1. Wrong \in SUBSET SUBSET S
    OBVIOUS
  <2> HIDE DEF Wrong
  <2> QED BY <2>1, MinimalSubset
<1>2. s \in SUBSET S /\ Total(s, f) # Cardinality(s)
  BY <1>1
<1>3. IsFiniteSet(s) /\ s # {}
  <2>1. s # {}
    <3> SUFFICES ASSUME s = {} PROVE FALSE
      OBVIOUS
    <3>1. Total(s, f) = 0
      BY TotalOfNone
    <3>2. Cardinality(s) = 0
      BY FS_EmptySet
    <3> QED BY <1>2, <3>1, <3>2
  <2> QED BY <1>2, <2>1, FS_Subset
<1> DEFINE t == s \ {Some(s)}
<1>4. Some(s) \in s /\ Total(s, f) = 1 + Total(t, f)
  BY <1>2, <1>3, TotalSteps
<1>5. Total(t, f) = Cardinality(t)
  <2>1. t \in SUBSET s /\ t # s /\ t \in SUBSET S
    BY <1>2, <1>4
  <2> HIDE DEF t
  <2> QED BY <1>1, <2>1
<1>6. Cardinality(t) = Cardinality(s) - 1 /\ Cardinality(s) \in Nat
  BY <1>3, <1>4, FS_RemoveElement, FS_CardinalityType
<1> QED BY <1>2, <1>4, <1>5, <1>6

LEMMA TotalPlus ==
  ASSUME NEW S, IsFiniteSet(S), NEW f, NEW g, NEW h,
         \A i \in S : f[i] \in Int /\ g[i] \in Int /\ h[i] = f[i] + g[i]
  PROVE  Total(S, h) = Total(S, f) + Total(S, g)
<1> DEFINE Wrong == {s \in SUBSET S : Total(s, h) # Total(s, f) + Total(s, g)}
<1> SUFFICES ASSUME Wrong # {} PROVE FALSE
  <2>1. S \notin Wrong
    OBVIOUS
  <2> QED BY <2>1
<1>1. PICK s \in Wrong : \A t \in SUBSET s : t # s => t \notin Wrong
  <2>1. Wrong \in SUBSET SUBSET S
    OBVIOUS
  <2> HIDE DEF Wrong
  <2> QED BY <2>1, MinimalSubset
<1>2. s \in SUBSET S /\ Total(s, h) # Total(s, f) + Total(s, g)
  BY <1>1
<1>3. IsFiniteSet(s) /\ s # {}
  <2>1. s # {}
    <3> SUFFICES ASSUME s = {} PROVE FALSE
      OBVIOUS
    <3>1. Total(s, f) = 0 /\ Total(s, g) = 0 /\ Total(s, h) = 0
      BY TotalOfNone
    <3> QED BY <1>2, <3>1
  <2> QED BY <1>2, <2>1, FS_Subset
<1> DEFINE x == Some(s)
           t == s \ {x}
<1>4. x \in s /\ Total(s, f) = f[x] + Total(t, f)
  BY <1>3, TotalSteps
<1>5. Total(s, g) = g[x] + Total(t, g) /\ Total(s, h) = h[x] + Total(t, h)
  BY <1>3, TotalSteps
<1>6. t \in SUBSET s /\ t # s /\ t \in SUBSET S
  BY <1>2, <1>4
<1>7. Total(t, h) = Total(t, f) + Total(t, g)
  <2> HIDE DEF t
  <2> QED BY <1>1, <1>6
<1>8. Total(t, f) \in Int /\ Total(t, g) \in Int
  <2>1. IsFiniteSet(t) /\ \A i \in t : f[i] \in Int /\ g[i] \in Int
    BY <1>6, FS_Subset
  <2> HIDE DEF t
  <2> QED BY <2>1, TotalIsInt
<1>9. f[x] \in Int /\ g[x] \in Int /\ h[x] = f[x] + g[x]
  BY <1>2, <1>4
<1> HIDE DEF t, x
<1> QED BY <1>2, <1>4, <1>5, <1>7, <1>8, <1>9

\* What is 0 outside a part adds nothing.
LEMMA TotalOfZeros ==
  ASSUME NEW S, IsFiniteSet(S), NEW f, \A i \in S : f[i] = 0
  PROVE  Total(S, f) = 0
<1> DEFINE sum == Total(S, f)
<1>1. sum = sum + sum
  BY TotalPlus
<1>2. sum \in Int
  BY TotalIsInt
<1> HIDE DEF sum
<1>3. sum = 0
  BY <1>1, <1>2
<1> QED BY <1>3 DEF sum

LEMMA TotalOfPart ==
  ASSUME NEW S, IsFiniteSet(S), NEW R \in SUBSET S, NEW f, NEW g,
         \A i \in S : f[i] = IF i \in R THEN g[i] ELSE 0,
         \A i \in R : g[i] \in Int
  PROVE  Total(S, f) = Total(R, g)
<1>1. IsFiniteSet(R) /\ IsFiniteSet(S \ R) /\ R \cup (S \ R) = S /\ R \cap (S \ R) = {}
  BY FS_Subset
<1>2. Total(S, f) = Total(R, f) + Total(S \ R, f)
  <2>1. \A i \in R \cup (S \ R) : f[i] \in Int
    OBVIOUS
  <2>2. Total(R \cup (S \ R), f) = Total(R, f) + Total(S \ R, f)
    BY <1>1, <2>1, TotalUnion
  <2> QED BY <1>1, <2>2
<1>3. Total(R, f) = Total(R, g)
  BY <1>1, TotalSame
<1>4. Total(S \ R, f) = 0
  BY <1>1, TotalOfZeros
<1>5. Total(R, g) \in Int
  BY <1>1, TotalIsInt
<1> QED BY <1>2, <1>3, <1>4, <1>5

LEMMA TotalOfOne ==
  ASSUME NEW x, NEW f, f[x] \in Int
  PROVE  Total({x}, f) = f[x]
<1>1. IsFiniteSet({x})
  BY FS_Singleton
<1>2. Total({x}, f) = f[x] + Total({x} \ {x}, f)
  BY <1>1, TotalTakes
<1>3. {x} \ {x} = {} /\ Total({}, f) = 0
  BY TotalOfNone
<1>4. Total({x} \ {x}, f) = 0
  BY <1>3
<1> QED BY <1>2, <1>4

\* A part of what is not negative.
LEMMA TotalOfFewer ==
  ASSUME NEW S, IsFiniteSet(S), NEW f, \A i \in S : f[i] \in Nat, NEW R \in SUBSET S
  PROVE  Total(R, f) <= Total(S, f)
<1>1. IsFiniteSet(R) /\ IsFiniteSet(S \ R) /\ R \cup (S \ R) = S /\ R \cap (S \ R) = {}
  BY FS_Subset
<1>2. Total(R \cup (S \ R), f) = Total(R, f) + Total(S \ R, f)
  <2>1. \A i \in R \cup (S \ R) : f[i] \in Int
    OBVIOUS
  <2> QED BY <1>1, <2>1, TotalUnion
<1>3. Total(R, f) \in Nat /\ Total(S \ R, f) \in Nat
  BY <1>1, TotalIsNat
<1>4. Total(S, f) = Total(R, f) + Total(S \ R, f)
  BY <1>1, <1>2
<1> QED BY <1>3, <1>4

\* The same values under other names.
LEMMA TotalRenamed ==
  ASSUME NEW S, IsFiniteSet(S), NEW name, \A x, y \in S : name[x] = name[y] => x = y,
         NEW f, NEW g, \A x \in S : f[x] \in Int /\ g[name[x]] = f[x]
  PROVE  Total({name[x] : x \in S}, g) = Total(S, f)
<1> DEFINE part == [x \in S |-> {name[x]}]
           sums == [x \in S |-> Total(part[x], g)]
<1>1. \A x \in S : part[x] = {name[x]}
  OBVIOUS
<1>2. UNION {part[x] : x \in S} = {name[x] : x \in S}
  BY <1>1
<1> HIDE DEF part
<1>3. \A x \in S : IsFiniteSet(part[x]) /\ \A i \in part[x] : g[i] \in Int
  <2> TAKE x \in S
  <2>1. IsFiniteSet({name[x]})
    BY FS_Singleton
  <2> QED BY <1>1, <2>1
<1>4. \A x, y \in S : x # y => part[x] \cap part[y] = {}
  BY <1>1
<1>5. Total(S, [x \in S |-> Total(part[x], g)]) = Total(UNION {part[x] : x \in S}, g)
  BY <1>3, <1>4, TotalParts
<1>6. \A x \in S : sums[x] = f[x]
  <2> TAKE x \in S
  <2>1. sums[x] = Total({name[x]}, g)
    BY <1>1
  <2>2. Total({name[x]}, g) = g[name[x]]
    <3>1. g[name[x]] \in Int
      OBVIOUS
    <3> QED BY <3>1, TotalOfOne
  <2> QED BY <2>1, <2>2
<1> HIDE DEF sums
<1>7. Total(S, sums) = Total(S, f)
  BY <1>6, TotalSame
<1> QED BY <1>2, <1>5, <1>7 DEF sums

-----------------------------------------------------------------------------
(* Windows of time.                                                        *)

LEMMA Division ==
  ASSUME NEW u \in Nat \ {0}, NEW a \in Int
  PROVE  /\ a \div u \in Int
         /\ u * (a \div u) <= a /\ a < u * (a \div u) + u
OBVIOUS

LEMMA Multiples ==
  ASSUME NEW u \in Nat \ {0}, NEW k \in Int, NEW l \in Int
  PROVE  /\ k <= l => u * k <= u * l
         /\ u * k < u * l + u => k <= l
         /\ u * k \in Int /\ u * (k + 1) = u * k + u /\ u * (k - 1) = u * k - u
OBVIOUS

\* A day of the window is in one of its buckets.
Partitions(w) ==
  /\ w.from \in Int /\ w.to \in Int
  /\ \E n \in Int : DOMAIN w.buckets = 1 .. n
  /\ \A d \in Int : In(w, d) => \E i \in DOMAIN w.buckets : InBucket(w.buckets[i], d)
  /\ \A i, j \in DOMAIN w.buckets : \A d \in Int :
       InBucket(w.buckets[i], d) /\ InBucket(w.buckets[j], d) => i = j

IsPeriod(p) == p.n \in Nat \ {0} /\ p.unit \in Nat \ {0}

LEMMA ResolvePartitions ==
  ASSUME NEW p, IsPeriod(p), NEW today \in Int
  PROVE  Partitions(Resolve(p, today))
<1> DEFINE u == p.unit
           n == p.n
           first == u * (today \div u) - (n - 1) * u
           w == Resolve(p, today)
<1>1. u \in Nat \ {0} /\ n \in Nat \ {0}
  BY DEF IsPeriod
<1>2. first \in Int
  BY <1>1, Division
<1>3. /\ w.from = first /\ w.to = first + n * u /\ DOMAIN w.buckets = 1 .. n
      /\ \A i \in 1 .. n : w.buckets[i].start = first + (i - 1) * u
                           /\ w.buckets[i].end = first + i * u
  BY DEF Resolve
<1> HIDE DEF u, n, first, w
<1>4. ASSUME NEW d \in Int, In(w, d)
      PROVE  \E i \in 1 .. n : InBucket(w.buckets[i], d)
  <2> DEFINE k == (d - first) \div u
  <2>1. k \in Int /\ u * k <= d - first /\ d - first < u * k + u
    BY <1>1, <1>2, Division
  <2>2. d >= first /\ d < first + n * u
    BY <1>3, <1>4 DEF In
  <2> HIDE DEF k
  <2>3. 0 <= k
    <3>1. u * 0 = 0 /\ u * 0 < u * k + u
      BY <1>1, <1>2, <2>1, <2>2, Multiples
    <3> QED BY <1>1, <2>1, <3>1, Multiples
  <2>4. k + 1 <= n
    <3>1. u * n \in Int /\ u * n = n * u /\ u * (k + 1) = u * k + u /\ u * k \in Int
      BY <1>1, <2>1, Multiples
    <3>2. u * k < u * n
      BY <1>2, <2>1, <2>2, <3>1
    <3>3. n \in Int /\ (u * n <= u * k \/ k < n)
      BY <1>1, <2>1, Multiples
    <3> QED BY <2>1, <3>1, <3>2, <3>3
  <2> DEFINE i == k + 1
  <2>5. i \in 1 .. n
    BY <1>1, <2>1, <2>3, <2>4
  <2>6. (i - 1) * u = u * k /\ i * u = u * k + u
    BY <1>1, <2>1
  <2> HIDE DEF i
  <2>7. InBucket(w.buckets[i], d)
    <3>1. w.buckets[i].start = first + u * k /\ w.buckets[i].end = first + (u * k + u)
      <4>1. /\ w.buckets[i].start = first + (i - 1) * u
            /\ w.buckets[i].end = first + i * u
        BY <1>3, <2>5
      <4> QED BY <2>6, <4>1
    <3>2. u * k \in Int
      BY <1>1, <2>1
    <3> QED BY <1>1, <1>2, <2>1, <3>1, <3>2 DEF InBucket
  <2> QED BY <2>5, <2>7
<1>5. ASSUME NEW i \in 1 .. n, NEW j \in 1 .. n, NEW d \in Int, i < j,
             InBucket(w.buckets[i], d), InBucket(w.buckets[j], d)
      PROVE  FALSE
  <2>1. i \in Int /\ j - 1 \in Int /\ i <= j - 1
    BY <1>1, <1>5
  <2>2. i * u \in Int /\ (j - 1) * u \in Int /\ i * u <= (j - 1) * u
    BY <1>1, <2>1, Multiples
  <2>3. d < first + i * u /\ first + (j - 1) * u <= d
    BY <1>3, <1>5 DEF InBucket
  <2> QED BY <1>2, <2>2, <2>3
<1>6. \A i, j \in 1 .. n : \A d \in Int :
        InBucket(w.buckets[i], d) /\ InBucket(w.buckets[j], d) => i = j
  <2> SUFFICES ASSUME NEW i \in 1 .. n, NEW j \in 1 .. n, NEW d \in Int, i # j,
                      InBucket(w.buckets[i], d), InBucket(w.buckets[j], d)
               PROVE  FALSE
    OBVIOUS
  <2>1. i < j \/ j < i
    BY <1>1
  <2> QED BY <1>5, <2>1
<1>7. w.from \in Int /\ w.to \in Int
  BY <1>1, <1>2, <1>3
<1>8. Partitions(w)
  <2>1. n \in Int
    BY <1>1
  <2> QED BY <2>1, <1>3, <1>4, <1>6, <1>7 DEF Partitions
<1> QED BY <1>8 DEF w

\* The window of the day before a window ends where that one starts.
LEMMA ResolveAdjacent ==
  ASSUME NEW p, IsPeriod(p), NEW today \in Int
  PROVE  Resolve(p, Resolve(p, today).from - 1).to = Resolve(p, today).from
<1> DEFINE u == p.unit
           n == p.n
           m == (today \div u) - (n - 1)
           k == (u * m - 1) \div u
<1>1. u \in Nat \ {0} /\ n \in Nat \ {0}
  BY DEF IsPeriod
<1>2. m \in Int /\ u * m \in Int
  BY <1>1, Division
<1>3. Resolve(p, today).from = u * m
  <2>1. Resolve(p, today).from = u * (today \div u) - (n - 1) * u
    BY DEF Resolve
  <2>2. today \div u \in Int
    BY <1>1, Division
  <2> QED BY <1>1, <2>1, <2>2
<1>4. Resolve(p, u * m - 1).to = u * k - (n - 1) * u + n * u
  BY DEF Resolve
<1> HIDE DEF u, n, m
<1>5. k \in Int /\ u * k <= u * m - 1 /\ u * m - 1 < u * k + u
  BY <1>1, <1>2, Division
<1> HIDE DEF k
<1>6. k = m - 1
  <2>1. u * (k + 1) = u * k + u /\ u * k \in Int
    BY <1>1, <1>5, Multiples
  <2>2. u * m < u * (k + 1) + u /\ u * k < u * m
    BY <1>1, <1>2, <1>5, <2>1
  <2>3. m <= k + 1
    BY <1>1, <1>2, <1>5, <2>2, Multiples
  <2>4. k < m
    BY <1>1, <1>2, <1>5, <2>2, Multiples
  <2> QED BY <1>2, <1>5, <2>3, <2>4
<1>7. u * k - (n - 1) * u + n * u = u * m
  BY <1>1, <1>2, <1>6
<1> QED BY <1>3, <1>4, <1>7

LEMMA ExportPartitions ==
  ASSUME NEW from \in Int, NEW last \in Int, from <= last, NEW maxDaily, NEW month \in Nat \ {0}
  PROVE  Partitions(ExportPeriod(from, last, maxDaily, month))
<1> DEFINE to == last + 1
           u == IF to - from <= maxDaily THEN 1 ELSE month
           first == u * (from \div u)
           Cut(d) == IF d < from THEN from ELSE IF d > to THEN to ELSE d
           n == (to - first + u - 1) \div u
           w == ExportPeriod(from, last, maxDaily, month)
<1>1. u \in Nat \ {0} /\ to \in Int
  OBVIOUS
<1>2. w.from = from /\ w.to = to /\ DOMAIN w.buckets = 1 .. n
  BY DEF ExportPeriod
<1>3. \A i \in 1 .. n : w.buckets[i].start = Cut(first + (i - 1) * u)
                        /\ w.buckets[i].end = Cut(first + i * u)
  BY DEF ExportPeriod
<1> HIDE DEF u, w, to
<1>4. first \in Int /\ first <= from
  BY <1>1, Division
<1> HIDE DEF first
<1>5. n \in Int /\ u * n <= to - first + u - 1 /\ to - first + u - 1 < u * n + u
  BY <1>1, <1>4, Division
<1> HIDE DEF n
<1>6. ASSUME NEW d \in Int, In(w, d)
      PROVE  \E i \in 1 .. n : InBucket(w.buckets[i], d)
  <2> DEFINE k == (d - first) \div u
  <2>1. k \in Int /\ u * k <= d - first /\ d - first < u * k + u
    BY <1>1, <1>4, Division
  <2>2. d >= from /\ d < to
    BY <1>2, <1>6 DEF In
  <2> HIDE DEF k
  <2>3. 0 <= k
    <3>1. u * 0 = 0 /\ u * 0 < u * k + u
      BY <1>1, <1>4, <2>1, <2>2, Multiples
    <3> QED BY <1>1, <2>1, <3>1, Multiples
  <2>4. k + 1 <= n
    <3>1. u * n \in Int /\ u * (k + 1) = u * k + u /\ u * k \in Int
      BY <1>1, <1>5, <2>1, Multiples
    <3>2. u * (k + 1) < u * n + u
      BY <1>1, <1>4, <1>5, <2>1, <2>2, <3>1
    <3> QED BY <1>1, <1>5, <2>1, <3>2, Multiples
  <2> DEFINE i == k + 1
  <2>5. i \in 1 .. n
    BY <1>5, <2>1, <2>3, <2>4
  <2>6. (i - 1) * u = u * k /\ i * u = u * k + u /\ u * k \in Int
    BY <1>1, <2>1
  <2> HIDE DEF i
  <2>7. InBucket(w.buckets[i], d)
    <3>1. w.buckets[i].start = Cut(first + u * k) /\ w.buckets[i].end = Cut(first + (u * k + u))
      <4> HIDE DEF Cut
      <4>1. /\ w.buckets[i].start = Cut(first + (i - 1) * u)
            /\ w.buckets[i].end = Cut(first + i * u)
        BY <1>3, <2>5
      <4> QED BY <2>6, <4>1
    <3>2. Cut(first + u * k) <= d /\ d < Cut(first + (u * k + u))
      BY <1>1, <1>4, <2>1, <2>2, <2>6
    <3> QED BY <3>1, <3>2 DEF InBucket
  <2> QED BY <2>5, <2>7
<1>7. ASSUME NEW i \in 1 .. n, NEW j \in 1 .. n, NEW d \in Int, i < j,
             InBucket(w.buckets[i], d), InBucket(w.buckets[j], d)
      PROVE  FALSE
  <2>1. i \in Int /\ j - 1 \in Int /\ i <= j - 1
    BY <1>5, <1>7
  <2>2. i * u \in Int /\ (j - 1) * u \in Int /\ i * u <= (j - 1) * u
    BY <1>1, <2>1, Multiples
  <2>3. d < Cut(first + i * u) /\ Cut(first + (j - 1) * u) <= d
    BY <1>3, <1>7 DEF InBucket
  <2>4. \A a, b \in Int : a <= b => Cut(a) \in Int /\ Cut(b) \in Int
                                    /\ (from <= to => Cut(a) <= Cut(b))
    BY <1>1
  <2>5. first + i * u \in Int /\ first + (j - 1) * u \in Int
        /\ first + i * u <= first + (j - 1) * u
    BY <1>4, <2>2
  <2>6. from <= to
    BY DEF to
  <2> HIDE DEF Cut
  <2>7. Cut(first + i * u) \in Int /\ Cut(first + (j - 1) * u) \in Int
        /\ Cut(first + i * u) <= Cut(first + (j - 1) * u)
    BY <2>4, <2>5, <2>6
  <2> QED BY <2>3, <2>7
<1>8. \A i, j \in 1 .. n : \A d \in Int :
        InBucket(w.buckets[i], d) /\ InBucket(w.buckets[j], d) => i = j
  <2> SUFFICES ASSUME NEW i \in 1 .. n, NEW j \in 1 .. n, NEW d \in Int, i # j,
                      InBucket(w.buckets[i], d), InBucket(w.buckets[j], d)
               PROVE  FALSE
    OBVIOUS
  <2>1. i < j \/ j < i
    BY <1>5
  <2> QED BY <1>7, <2>1
<1>9. Partitions(w)
  BY <1>1, <1>2, <1>5, <1>6, <1>8 DEF Partitions
<1> QED BY <1>9 DEF w

LEMMA BucketsAddUp ==
  ASSUME NEW w, Partitions(w), NEW S, IsFiniteSet(S), NEW date, NEW value,
         \A r \in S : date[r] \in Int /\ value[r] \in Int
  PROVE  /\ SumOf(Bucketize(S, w, date, value)) = Total({r \in S : In(w, date[r])}, value)
         /\ SumOf(Bucketize(S, w, date, value)) \in Int
<1> DEFINE I == DOMAIN w.buckets
           part == [i \in I |-> {r \in S : In(w, date[r]) /\ InBucket(w.buckets[i], date[r])}]
           sums == [k \in I |-> Total(part[k], value)]
           all == {r \in S : In(w, date[r])}
<1>1. Bucketize(S, w, date, value) = sums
  BY DEF Bucketize
<1>2. IsFiniteSet(I)
  BY FS_Interval DEF Partitions
<1>3. \A k \in I : IsFiniteSet(part[k]) /\ \A i \in part[k] : value[i] \in Int
  <2> SUFFICES ASSUME NEW k \in I
               PROVE  IsFiniteSet(part[k]) /\ \A i \in part[k] : value[i] \in Int
    OBVIOUS
  <2>1. part[k] \subseteq S
    OBVIOUS
  <2> HIDE DEF part
  <2> QED BY <2>1, FS_Subset
<1>4. \A k, l \in I : k # l => part[k] \cap part[l] = {}
  BY DEF Partitions
<1>5. UNION {part[k] : k \in I} = all
  <2>1. ASSUME NEW r \in all PROVE \E k \in I : r \in part[k]
    BY <2>1 DEF Partitions
  <2>2. \A k \in I : part[k] \subseteq all
    OBVIOUS
  <2> HIDE DEF part, all
  <2> QED BY <2>1, <2>2
<1>6. DOMAIN sums = I
  OBVIOUS
<1>7. Total(I, sums) = Total(UNION {part[k] : k \in I}, value)
  <2> HIDE DEF part, I
  <2> QED BY <1>2, <1>3, <1>4, TotalParts
<1>8. Total(all, value) \in Int
  <2>1. IsFiniteSet(all) /\ \A i \in all : value[i] \in Int
    BY FS_Subset
  <2> HIDE DEF all
  <2> QED BY <2>1, TotalIsInt
<1> HIDE DEF sums, part, I
<1> QED BY <1>1, <1>5, <1>6, <1>7, <1>8 DEF SumOf

\* The values of a function on a finite set.
LEMMA Images ==
  ASSUME NEW S, IsFiniteSet(S), NEW f
  PROVE  /\ IsFiniteSet({f[x] : x \in S}) /\ Cardinality(S) \in Nat
         /\ Cardinality({f[x] : x \in S}) \in Nat
         /\ Cardinality({f[x] : x \in S}) <= Cardinality(S)
         /\ (\A x, y \in S : f[x] = f[y] => x = y) =>
              Cardinality({f[x] : x \in S}) = Cardinality(S)
<1> DEFINE T == {f[x] : x \in S}
           g == [x \in S |-> f[x]]
<1>1. g \in Surjection(S, T)
  BY DEF Surjection
<1>2. IsFiniteSet(T) /\ Cardinality(T) <= Cardinality(S)
      /\ (g \in Injection(S, T) => Cardinality(T) = Cardinality(S))
  <2> HIDE DEF g, T
  <2> QED BY <1>1, FS_Surjection
<1>3. (\A x, y \in S : f[x] = f[y] => x = y) => g \in Injection(S, T)
  BY DEF Injection, IsInjective
<1>4. Cardinality(S) \in Nat /\ Cardinality(T) \in Nat
  BY <1>2, FS_CardinalityType
<1> QED BY <1>2, <1>3, <1>4

LEMMA Disjoint ==
  ASSUME NEW S, NEW T, IsFiniteSet(S), IsFiniteSet(T), S \cap T = {}
  PROVE  /\ IsFiniteSet(S \cup T)
         /\ Cardinality(S \cup T) = Cardinality(S) + Cardinality(T)
         /\ Cardinality(S) \in Nat /\ Cardinality(T) \in Nat
<1>1. /\ IsFiniteSet(S \cup T)
      /\ Cardinality(S \cup T) = Cardinality(S) + Cardinality(T) - Cardinality(S \cap T)
  BY FS_Union
<1>2. Cardinality(S) \in Nat /\ Cardinality(T) \in Nat
  BY FS_CardinalityType
<1>3. Cardinality(S \cap T) = 0
  BY FS_EmptySet
<1>4. Cardinality(S \cup T) = Cardinality(S) + Cardinality(T)
  BY <1>1, <1>2, <1>3
<1> QED BY <1>1, <1>2, <1>4

-----------------------------------------------------------------------------
(* Parts and totals.                                                       *)

\* Rows sorted by their kind.
LEMMA TotalByKind ==
  ASSUME NEW S, IsFiniteSet(S), NEW I, IsFiniteSet(I), NEW kind, \A i \in S : kind[i] \in I,
         NEW f, \A i \in S : f[i] \in Int
  PROVE  Total(I, [k \in I |-> Total({i \in S : kind[i] = k}, f)]) = Total(S, f)
<1> DEFINE part == [k \in I |-> {i \in S : kind[i] = k}]
<1>1. /\ \A k \in I : part[k] \subseteq S
      /\ \A k, l \in I : k # l => part[k] \cap part[l] = {}
      /\ UNION {part[k] : k \in I} = S
  OBVIOUS
<1>2. [k \in I |-> Total(part[k], f)] = [k \in I |-> Total({i \in S : kind[i] = k}, f)]
  OBVIOUS
<1> HIDE DEF part
<1>3. \A k \in I : IsFiniteSet(part[k]) /\ \A i \in part[k] : f[i] \in Int
  BY <1>1, FS_Subset
<1>4. Total(I, [k \in I |-> Total(part[k], f)]) = Total(UNION {part[k] : k \in I}, f)
  BY <1>1, <1>3, TotalParts
<1> QED BY <1>1, <1>2, <1>4

LEMMA CountByKind ==
  ASSUME NEW S, IsFiniteSet(S), NEW I, IsFiniteSet(I), NEW kind, \A i \in S : kind[i] \in I
  PROVE  Total(I, [k \in I |-> Cardinality({i \in S : kind[i] = k})]) = Cardinality(S)
<1> DEFINE ones == [i \in S |-> 1]
           Part(k) == {i \in S : kind[i] = k}
<1>1. \A i \in S : ones[i] = 1
  OBVIOUS
<1> HIDE DEF ones
<1>2. \A k : Total(Part(k), ones) = Cardinality(Part(k))
  <2> TAKE k
  <2>1. Part(k) \subseteq S
    OBVIOUS
  <2> HIDE DEF Part
  <2>2. IsFiniteSet(Part(k)) /\ \A i \in Part(k) : ones[i] = 1
    BY <1>1, <2>1, FS_Subset
  <2> QED BY <2>2, TotalOnes
<1>3. Total(S, ones) = Cardinality(S)
  BY <1>1, TotalOnes
<1>4. Total(I, [k \in I |-> Total(Part(k), ones)]) = Total(S, ones)
  BY <1>1, TotalByKind
<1>5. [k \in I |-> Total(Part(k), ones)] = [k \in I |-> Cardinality(Part(k))]
  <2> HIDE DEF Part
  <2> QED BY <1>2
<1> QED BY <1>3, <1>4, <1>5

\* What is shared out to several.
LEMMA TotalShared ==
  ASSUME NEW T, IsFiniteSet(T), NEW R, IsFiniteSet(R), NEW to, \A i \in R : to[i] \subseteq T,
         NEW share, \A i \in R : share[i] \in Int
  PROVE  Total(T, [t \in T |-> Total({i \in R : t \in to[i]}, share)]) =
           Total(R, [i \in R |-> Cardinality(to[i]) * share[i]])
<1> DEFINE Of(t) == {i \in R : t \in to[i]}
           sums == [t \in T |-> Total(Of(t), share)]
           Part(J) == [i \in R |-> Cardinality(to[i] \cap J) * share[i]]
           Wrong == {J \in SUBSET T : Total(J, sums) # Total(R, Part(J))}
<1>1. \A i \in R : \A J \in SUBSET T : IsFiniteSet(to[i] \cap J) /\ Cardinality(to[i] \cap J) \in Nat
  <2> TAKE i \in R
  <2> TAKE J \in SUBSET T
  <2>1. to[i] \cap J \subseteq T
    OBVIOUS
  <2> QED BY <2>1, FS_Subset, FS_CardinalityType
<1>2. \A t \in T : IsFiniteSet(Of(t)) /\ sums[t] \in Int
  <2> TAKE t \in T
  <2>1. Of(t) \subseteq R
    OBVIOUS
  <2>2. IsFiniteSet(Of(t)) /\ \A i \in Of(t) : share[i] \in Int
    BY <2>1, FS_Subset
  <2>3. sums[t] = Total(Of(t), share)
    OBVIOUS
  <2> HIDE DEF Of, sums
  <2> QED BY <2>2, <2>3, TotalIsInt
<1>3. Wrong = {}
  <2> SUFFICES ASSUME Wrong # {} PROVE FALSE
    OBVIOUS
  <2>1. PICK J \in Wrong : \A K \in SUBSET J : K # J => K \notin Wrong
    <3>1. Wrong \in SUBSET SUBSET T
      OBVIOUS
    <3> HIDE DEF Wrong
    <3> QED BY <3>1, MinimalSubset
  <2>2. J \in SUBSET T /\ Total(J, sums) # Total(R, Part(J))
    BY <2>1
  <2>3. J # {}
    <3>1. Total({}, sums) = 0
      BY TotalOfNone
    <3>2. \A i \in R : Part({})[i] = 0
      <4> TAKE i \in R
      <4>1. Cardinality(to[i] \cap {}) = 0
        BY FS_EmptySet
      <4>2. Part({})[i] = 0 * share[i]
        BY <4>1
      <4> QED BY <4>2
    <3> HIDE DEF Part
    <3>3. Total(R, Part({})) = 0
      BY <3>2, TotalOfZeros
    <3> QED BY <2>2, <3>1, <3>3
  <2>4. PICK t \in J : TRUE
    BY <2>3
  <2> DEFINE K == J \ {t}
  <2>5. Total(K, sums) = Total(R, Part(K))
    <3>1. K \in SUBSET J /\ K # J /\ K \in SUBSET T
      BY <2>2, <2>4
    <3> HIDE DEF K
    <3> QED BY <2>1, <3>1
  <2>6. Total(J, sums) = sums[t] + Total(K, sums)
    <3>1. IsFiniteSet(J) /\ \A j \in J : sums[j] \in Int
      BY <1>2, <2>2, FS_Subset
    <3> HIDE DEF sums
    <3> QED BY <2>4, <3>1, TotalTakes
  <2> DEFINE more == [i \in R |-> IF i \in Of(t) THEN share[i] ELSE 0]
  <2>7. Total(R, more) = sums[t]
    <3>1. sums[t] = Total(Of(t), share) /\ Of(t) \in SUBSET R
      BY <2>2
    <3>2. \A i \in R : more[i] = IF i \in Of(t) THEN share[i] ELSE 0
      OBVIOUS
    <3> HIDE DEF more, sums, Of
    <3> QED BY <3>1, <3>2, TotalOfPart
  <2>8. \A i \in R : Part(J)[i] = Part(K)[i] + more[i] /\ Part(K)[i] \in Int /\ more[i] \in Int
    <3> TAKE i \in R
    <3>1. IsFiniteSet(to[i] \cap J) /\ Cardinality(to[i] \cap J) \in Nat /\ Cardinality(to[i] \cap K) \in Nat
      BY <1>1, <2>2
    <3>2. CASE t \in to[i]
      <4>1. to[i] \cap K = (to[i] \cap J) \ {t} /\ t \in to[i] \cap J
        BY <3>2
      <4>2. Cardinality((to[i] \cap J) \ {t}) = Cardinality(to[i] \cap J) - 1
        BY <3>1, <4>1, FS_RemoveElement
      <4>3. PICK c, h \in Int : c = Cardinality(to[i] \cap J) /\ h = share[i]
        BY <3>1
      <4>4. Part(J)[i] = c * h /\ Part(K)[i] = (c - 1) * h /\ more[i] = h
        BY <3>2, <4>1, <4>2, <4>3
      <4>5. c * h = (c - 1) * h + h /\ (c - 1) * h \in Int
        BY <4>3
      <4> QED BY <4>3, <4>4, <4>5
    <3>3. CASE t \notin to[i]
      <4>1. to[i] \cap K = to[i] \cap J
        BY <3>3
      <4>2. PICK c, h \in Int : c = Cardinality(to[i] \cap J) /\ h = share[i]
        BY <3>1
      <4>3. Part(J)[i] = c * h /\ Part(K)[i] = c * h /\ more[i] = 0
        BY <3>3, <4>1, <4>2
      <4>4. c * h \in Int
        BY <4>2
      <4> QED BY <4>3, <4>4
    <3> QED BY <3>2, <3>3
  <2> HIDE DEF more, Part, K
  <2>9. Total(R, Part(J)) = Total(R, Part(K)) + Total(R, more)
    BY <2>8, TotalPlus
  <2>10. Total(R, Part(K)) \in Int
    BY <2>8, TotalIsInt
  <2>11. sums[t] \in Int
    BY <1>2, <2>2
  <2> HIDE DEF sums
  <2>12. Total(J, sums) = Total(R, Part(J))
    BY <2>5, <2>6, <2>7, <2>9, <2>10, <2>11
  <2> QED BY <2>2, <2>12
<1>4. Total(T, sums) = Total(R, Part(T))
  BY <1>3
<1>5. Part(T) = [i \in R |-> Cardinality(to[i]) * share[i]]
  <2>1. \A i \in R : to[i] \cap T = to[i]
    OBVIOUS
  <2> QED BY <2>1
<1> QED BY <1>4, <1>5

-----------------------------------------------------------------------------
(* What the rows say of the orders.                                        *)

Act == [user : Visitors, session : Users \cup Sessions, product : Products \cup {None},
        type : {"VIEWED", "APPLIED", "COMPARED", "SAVED", "PURCHASED"}, at : Nat, order : Nat]
Move == [product : Products, change : Int, type : {"INBOUND", "OUTBOUND", "ADJUSTMENT"}, at : Nat]

Sound(o) ==
  /\ o.amount = SumOf(o.lines) /\ o.lines = Lined(DOMAIN o.lines)
  /\ o.quotation = "VERIFIED" <=> o.paidAt # 0
  /\ o.status = "DELIVERED" => o.quotation = "VERIFIED"

\* The rows S of a table are those of the payments, one for each order that earned.
Tallied(table, S, ords) ==
  /\ \A j \in S : LET i == table[j].order
                  IN /\ i \in DOMAIN ords /\ Earned(ords[i])
                     /\ table[j].at = ords[i].paidAt /\ table[j].user = ords[i].customer
  /\ \A i \in DOMAIN ords : Earned(ords[i]) => \E j \in S : table[j].order = i
  /\ \A j, k \in S : table[j].order = table[k].order => j = k

\* They are those of the lines of the payments, one for each line.
LineTallied(table, S, ords) ==
  /\ \A j \in S : LET i == table[j].order
                  IN /\ i \in DOMAIN ords /\ Earned(ords[i]) /\ table[j].at = ords[i].paidAt
                     /\ table[j].product \in DOMAIN ords[i].lines
  /\ \A i \in DOMAIN ords : Earned(ords[i]) =>
       \A q \in DOMAIN ords[i].lines : \E j \in S : table[j].order = i /\ table[j].product = q
  /\ \A j, k \in S :
       table[j].order = table[k].order /\ table[j].product = table[k].product => j = k

Bought == {j \in DOMAIN journey : journey[j].stage = "PURCHASED"}
Sold == {j \in DOMAIN acts : acts[j].type = "PURCHASED"}

\* What the server tells of a customer, it files under the customer.
Own(e) == e.stage \in ToldStages \cup {"PURCHASED"} => e.user = e.session

Books ==
  /\ scene \in Scenes /\ day # 0 /\ acts \in Seq(Act) /\ moves \in Seq(Move)
  /\ \A i \in DOMAIN orders : Sound(orders[i])
  /\ Tallied(journey, Bought, orders) /\ LineTallied(acts, Sold, orders)
  /\ \A j \in DOMAIN journey : Own(journey[j])

\* Rows that are added leave the ones before them as they were.
Grown(old, new) == DOMAIN old \subseteq DOMAIN new /\ \A j \in DOMAIN old : new[j] = old[j]

LEMMA GrownByOne ==
  ASSUME NEW T, NEW s \in Seq(T), NEW e
  PROVE  /\ Grown(s, Append(s, e)) /\ DOMAIN Append(s, e) = DOMAIN s \cup {Len(s) + 1}
         /\ Append(s, e)[Len(s) + 1] = e /\ Len(s) + 1 \notin DOMAIN s
         /\ DOMAIN s = 1 .. Len(s) /\ Len(s) \in Nat
BY DEF Grown

LEMMA GrownByMany ==
  ASSUME NEW T, NEW s \in Seq(T), NEW t \in Seq(T)
  PROVE  /\ s \o t \in Seq(T) /\ Grown(s, s \o t)
         /\ \A j \in DOMAIN (s \o t) : j \in DOMAIN s \/ \E k \in DOMAIN t : (s \o t)[j] = t[k]
<1>1. /\ s \o t \in Seq(T) /\ Len(s \o t) = Len(s) + Len(t)
      /\ Len(s) \in Nat /\ Len(t) \in Nat
      /\ DOMAIN s = 1 .. Len(s) /\ DOMAIN t = 1 .. Len(t) /\ DOMAIN (s \o t) = 1 .. Len(s \o t)
      /\ \A j \in 1 .. (Len(s) + Len(t)) :
           (s \o t)[j] = IF j <= Len(s) THEN s[j] ELSE t[j - Len(s)]
  BY ConcatProperties, LenProperties
<1>2. ASSUME NEW j \in DOMAIN (s \o t), j \notin DOMAIN s
      PROVE  \E k \in DOMAIN t : (s \o t)[j] = t[k]
  <2>1. j - Len(s) \in DOMAIN t /\ (s \o t)[j] = t[j - Len(s)]
    BY <1>1, <1>2
  <2> QED BY <2>1
<1> QED BY <1>1, <1>2 DEF Grown

\* What is appended stands behind what was there.
LEMMA Joined ==
  ASSUME NEW T, NEW s \in Seq(T), NEW t \in Seq(T)
  PROVE  /\ Len(s) \in Nat /\ DOMAIN s = 1 .. Len(s) /\ DOMAIN t = 1 .. Len(t) /\ Len(t) \in Nat
         /\ DOMAIN (s \o t) = DOMAIN s \cup {Len(s) + k : k \in DOMAIN t}
         /\ \A k \in DOMAIN t : (s \o t)[Len(s) + k] = t[k] /\ Len(s) + k \notin DOMAIN s
<1>1. /\ Len(s \o t) = Len(s) + Len(t)
      /\ Len(s) \in Nat /\ Len(t) \in Nat
      /\ DOMAIN s = 1 .. Len(s) /\ DOMAIN t = 1 .. Len(t) /\ DOMAIN (s \o t) = 1 .. Len(s \o t)
      /\ \A j \in 1 .. (Len(s) + Len(t)) :
           (s \o t)[j] = IF j <= Len(s) THEN s[j] ELSE t[j - Len(s)]
  BY ConcatProperties, LenProperties
<1>2. ASSUME NEW j \in DOMAIN (s \o t), j \notin DOMAIN s
      PROVE  j \in {Len(s) + k : k \in DOMAIN t}
  <2>1. j - Len(s) \in DOMAIN t /\ j = Len(s) + (j - Len(s))
    BY <1>1, <1>2
  <2> QED BY <2>1
<1>3. \A k \in DOMAIN t : /\ Len(s) + k \in DOMAIN (s \o t) /\ Len(s) + k \notin DOMAIN s
                          /\ (s \o t)[Len(s) + k] = t[k]
  BY <1>1
<1>4. DOMAIN s \subseteq DOMAIN (s \o t)
  BY <1>1
<1> QED BY <1>1, <1>2, <1>3, <1>4

\* A finite set written down as a sequence has each element in one place.
LEMMA WrittenOnce ==
  ASSUME NEW S, IsFiniteSet(S)
  PROVE  /\ \A k \in DOMAIN SetToSeq(S) : SetToSeq(S)[k] \in S
         /\ \A x \in S : \E k \in DOMAIN SetToSeq(S) : SetToSeq(S)[k] = x
         /\ \A k, l \in DOMAIN SetToSeq(S) : SetToSeq(S)[k] = SetToSeq(S)[l] => k = l
<1> DEFINE n == Cardinality(S)
           f == SetToSeq(S)
           all == {f[k] : k \in 1 .. n}
<1>1. n \in Nat /\ ExistsBijection(1 .. n, S)
  BY FS_CardinalityType
<1>2. \E g \in [1 .. n -> S] : IsInjective(g)
  BY <1>1 DEF ExistsBijection, Bijection, Injection, IsInjective
<1>3. f \in [1 .. n -> S] /\ IsInjective(f)
  BY <1>2 DEF SetToSeq
<1>4. IsFiniteSet(1 .. n) /\ Cardinality(1 .. n) = n
  BY <1>1, FS_Interval
<1>5. /\ DOMAIN f = 1 .. n /\ \A k \in 1 .. n : f[k] \in S
      /\ \A k, l \in 1 .. n : f[k] = f[l] => k = l
  BY <1>3 DEF IsInjective
<1> HIDE DEF f, n
<1>6. Cardinality(all) = n
  <2>1. PICK K : K = 1 .. n
    OBVIOUS
  <2>2. IsFiniteSet(K) /\ Cardinality(K) = n /\ \A x, y \in K : f[x] = f[y] => x = y
    BY <1>4, <1>5, <2>1
  <2>3. Cardinality({f[x] : x \in K}) = Cardinality(K)
    BY <2>2, Images
  <2> QED BY <2>1, <2>2, <2>3
<1>7. all \subseteq S
  BY <1>5
<1>8. all = S
  <2>1. Cardinality(all) = Cardinality(S)
    BY <1>6 DEF n
  <2> HIDE DEF all
  <2> QED BY <1>7, <2>1, FS_Subset
<1> QED BY <1>5, <1>8 DEF f

\* Rows of other kinds change no tally.
LEMMA TallyGrows ==
  ASSUME NEW t, NEW S, NEW ords, NEW u, Tallied(t, S, ords), \A j \in S : u[j] = t[j]
  PROVE  Tallied(u, S, ords)
BY DEF Tallied

LEMMA LinesGrow ==
  ASSUME NEW t, NEW S, NEW ords, NEW u, LineTallied(t, S, ords), \A j \in S : u[j] = t[j]
  PROVE  LineTallied(u, S, ords)
BY DEF LineTallied

\* Nor do orders that earned neither before nor after.
LEMMA TallyStays ==
  ASSUME NEW t, NEW S, NEW ords, NEW next, Tallied(t, S, ords), DOMAIN ords \subseteq DOMAIN next,
         \A i \in DOMAIN ords :
           /\ Earned(next[i]) <=> Earned(ords[i])
           /\ Earned(ords[i]) =>
                next[i].paidAt = ords[i].paidAt /\ next[i].customer = ords[i].customer,
         \A i \in DOMAIN next : i \in DOMAIN ords \/ ~Earned(next[i])
  PROVE  Tallied(t, S, next)
BY DEF Tallied

LEMMA LinesStay ==
  ASSUME NEW t, NEW S, NEW ords, NEW next, LineTallied(t, S, ords), DOMAIN ords \subseteq DOMAIN next,
         \A i \in DOMAIN ords :
           /\ Earned(next[i]) <=> Earned(ords[i])
           /\ Earned(ords[i]) =>
                next[i].paidAt = ords[i].paidAt /\ next[i].lines = ords[i].lines,
         \A i \in DOMAIN next : i \in DOMAIN ords \/ ~Earned(next[i])
  PROVE  LineTallied(t, S, next)
BY DEF LineTallied

\* A payment is entered.
LEMMA TallyEnters ==
  ASSUME NEW t, NEW S, NEW ords, NEW u, NEW next, NEW i \in DOMAIN ords, NEW n, n \notin S,
         NEW R, R = S \cup {n},
         Tallied(t, S, ords), \A j \in S : u[j] = t[j],
         ~Earned(ords[i]), Earned(next[i]), DOMAIN next = DOMAIN ords,
         \A k \in DOMAIN ords : k # i => next[k] = ords[k],
         u[n].order = i, u[n].at = next[i].paidAt, u[n].user = next[i].customer
  PROVE  Tallied(u, R, next)
<1>1. \A j \in S : t[j].order \in DOMAIN ords /\ t[j].order # i
  BY DEF Tallied
<1>2. \A j \in S \cup {n} : LET k == u[j].order
                  IN /\ k \in DOMAIN next /\ Earned(next[k])
                     /\ u[j].at = next[k].paidAt /\ u[j].user = next[k].customer
  BY <1>1 DEF Tallied
<1>3. \A k \in DOMAIN next : Earned(next[k]) => \E j \in S \cup {n} : u[j].order = k
  BY DEF Tallied
<1>4. \A j, k \in S \cup {n} : u[j].order = u[k].order => j = k
  BY <1>1 DEF Tallied
<1> QED BY <1>2, <1>3, <1>4 DEF Tallied

\* The rows N are those of the lines of the i-th order o, one for each line.
EnteredFor(u, N, i, o) ==
  /\ \A n \in N : u[n].order = i /\ u[n].at = o.paidAt /\ u[n].product \in DOMAIN o.lines
  /\ \A q \in DOMAIN o.lines : \E n \in N : u[n].product = q
  /\ \A m, n \in N : u[m].product = u[n].product => m = n
\* The i-th order is verified, and no other changes.
Verified(ords, next, i) ==
  /\ i \in DOMAIN ords /\ DOMAIN next = DOMAIN ords
  /\ ~Earned(ords[i]) /\ Earned(next[i])
  /\ \A k \in DOMAIN ords : k # i => next[k] = ords[k]
LEMMA LinesEnter ==
  ASSUME NEW t, NEW S, NEW ords, NEW u, NEW next, NEW i, NEW N, NEW R, R = S \cup N,
         LineTallied(t, S, ords), \A j \in S : u[j] = t[j],
         Verified(ords, next, i), EnteredFor(u, N, i, next[i])
  PROVE  LineTallied(u, R, next)
<1> USE DEF EnteredFor, Verified
<1>1. \A j \in S : t[j].order \in DOMAIN ords /\ t[j].order # i
  BY DEF LineTallied
<1>2. ASSUME NEW j \in R
      PROVE  LET k == u[j].order
             IN /\ k \in DOMAIN next /\ Earned(next[k]) /\ u[j].at = next[k].paidAt
                /\ u[j].product \in DOMAIN next[k].lines
  <2>1. CASE j \in S
    BY <1>1, <2>1 DEF LineTallied
  <2>2. CASE j \in N
    BY <2>2
  <2> QED BY <2>1, <2>2
<1>3. ASSUME NEW k \in DOMAIN next, Earned(next[k]), NEW q \in DOMAIN next[k].lines
      PROVE  \E j \in R : u[j].order = k /\ u[j].product = q
  <2>1. CASE k = i
    BY <1>3, <2>1
  <2>2. CASE k # i
    <3>1. next[k] = ords[k] /\ k \in DOMAIN ords
      BY <2>2
    <3>2. PICK j \in S : t[j].order = k /\ t[j].product = q
      BY <1>3, <3>1 DEF LineTallied
    <3> QED BY <3>2
  <2> QED BY <2>1, <2>2
<1>4. ASSUME NEW j \in R, NEW k \in R, u[j].order = u[k].order, u[j].product = u[k].product
      PROVE  j = k
  <2>1. CASE j \in S /\ k \in S
    BY <1>4, <2>1 DEF LineTallied
  <2>2. CASE j \in N /\ k \in N
    BY <1>4, <2>2
  <2>3. CASE j \in S /\ k \in N
    BY <1>1, <1>4, <2>3
  <2>4. CASE j \in N /\ k \in S
    BY <1>1, <1>4, <2>4
  <2> QED BY <2>1, <2>2, <2>3, <2>4
<1> QED BY <1>2, <1>3, <1>4 DEF LineTallied

\* Nothing that is kept is lost.
LEMMA KeptAll ==
  ASSUME NEW T, NEW s \in Seq(T), NEW K \in SUBSET (DOMAIN s)
  PROVE  \A k \in K : \E n \in DOMAIN Kept(s, K) : Kept(s, K)[n] = s[k]
<1> TAKE k \in K
<1>1. Len(s) \in Nat /\ DOMAIN s = 1 .. Len(s)
  BY LenProperties
<1>2. /\ IsFiniteSet(K) /\ Cardinality(K) \in Nat
      /\ \A n \in 1 .. Cardinality(K) : \E i : Place(K, n, i)
  BY <1>1, Places
<1> DEFINE Below(i) == {j \in K : j <= i}
           n == Cardinality(Below(k))
           place(m) == CHOOSE i \in K : Cardinality({j \in K : j <= i}) = m
<1>3. /\ \A i \in K : IsFiniteSet(Below(i)) /\ Cardinality(Below(i)) \in Nat
      /\ n <= Cardinality(K)
  <2>1. \A i \in K : Below(i) \subseteq K
    OBVIOUS
  <2> HIDE DEF Below
  <2>2. \A i \in K : IsFiniteSet(Below(i)) /\ Cardinality(Below(i)) \in Nat
    BY <1>2, <2>1, FS_Subset, FS_CardinalityType
  <2>3. n <= Cardinality(K)
    BY <1>2, <2>1, FS_Subset
  <2> QED BY <2>2, <2>3
<1>4. n \in 1 .. Cardinality(K)
  <2>1. k \in Below(k)
    BY <1>1
  <2> HIDE DEF Below
  <2>2. n # 0
    BY <1>3, <2>1, FS_EmptySet
  <2> QED BY <1>2, <1>3, <2>2
<1>5. ASSUME NEW i \in K, NEW l \in K, i < l
      PROVE  Cardinality(Below(i)) # Cardinality(Below(l))
  <2>1. Below(i) \subseteq Below(l) /\ l \in Below(l) /\ l \notin Below(i)
    BY <1>1, <1>5
  <2> HIDE DEF Below
  <2> QED BY <1>3, <2>1, FS_Subset
<1>6. place(n) = k
  <2>1. place(n) \in K /\ Cardinality(Below(place(n))) = n
    BY <1>4
  <2> HIDE DEF place, n
  <2>2. n = Cardinality(Below(k))
    BY DEF n
  <2> HIDE DEF Below
  <2>3. ~(place(n) < k) /\ ~(k < place(n))
    BY <1>5, <2>1, <2>2
  <2> QED BY <1>1, <2>1, <2>3
<1>7. Kept(s, K) = [m \in 1 .. Cardinality(K) |-> s[place(m)]]
  BY DEF Kept
<1> HIDE DEF n, place
<1> QED BY <1>4, <1>6, <1>7

\* u has the rows of t at the places K, each of them once.
Keeps(u, t, K) ==
  /\ \A m, n \in DOMAIN u : \E k, l \in K : u[m] = t[k] /\ u[n] = t[l] /\ (k = l => m = n)
  /\ \A k \in K : \E n \in DOMAIN u : u[n] = t[k]

LEMMA KeptKeeps ==
  ASSUME NEW T, NEW s \in Seq(T), NEW K \in SUBSET (DOMAIN s)
  PROVE  Kept(s, K) \in Seq(T) /\ Keeps(Kept(s, K), s, K)
<1>1. Kept(s, K) \in Seq(T)
  BY KeptRows
<1>2. \A m, n \in DOMAIN Kept(s, K) : \E i, j \in K :
        Kept(s, K)[m] = s[i] /\ Kept(s, K)[n] = s[j] /\ (i = j => m = n)
  BY KeptRows
<1>3. \A k \in K : \E n \in DOMAIN Kept(s, K) : Kept(s, K)[n] = s[k]
  BY KeptAll
<1> QED BY <1>1, <1>2, <1>3 DEF Keeps

\* A payment is struck out.
LEMMA TallyStrikes ==
  ASSUME NEW t, NEW S, NEW ords, NEW next, NEW i \in DOMAIN ords, NEW u, NEW R, NEW K,
         Tallied(t, S, ords), ~Earned(next[i]), DOMAIN next = DOMAIN ords,
         \A k \in DOMAIN ords : k # i => next[k] = ords[k],
         S \subseteq DOMAIN t, K = {k \in DOMAIN t : ~(k \in S /\ t[k].order = i)},
         Keeps(u, t, K), R \subseteq DOMAIN u,
         \A n \in DOMAIN u, k \in K : u[n] = t[k] => (n \in R <=> k \in S)
  PROVE  Tallied(u, R, next)
<1>1. /\ \A m, n \in DOMAIN u : \E k, l \in K :
           u[m] = t[k] /\ u[n] = t[l] /\ (k = l => m = n)
      /\ \A k \in K : \E n \in DOMAIN u : u[n] = t[k]
  BY DEF Keeps
<1>2. ASSUME NEW n \in R
      PROVE  \E k \in S \cap K : u[n] = t[k]
  <2>1. n \in DOMAIN u
    OBVIOUS
  <2>2. PICK k \in K : u[n] = t[k]
    BY <1>1, <2>1
  <2> QED BY <2>1, <2>2
<1>3. ASSUME NEW n \in R
      PROVE  LET k == u[n].order
             IN /\ k \in DOMAIN next /\ Earned(next[k])
                /\ u[n].at = next[k].paidAt /\ u[n].user = next[k].customer
  <2>1. PICK k \in S \cap K : u[n] = t[k]
    BY <1>2, <1>3
  <2>2. t[k].order # i
    BY <2>1
  <2> QED BY <2>1, <2>2 DEF Tallied
<1>4. ASSUME NEW k \in DOMAIN next, Earned(next[k])
      PROVE  \E n \in R : u[n].order = k
  <2>1. k # i /\ Earned(ords[k])
    BY <1>4
  <2>2. PICK j \in S : t[j].order = k
    BY <1>4, <2>1 DEF Tallied
  <2>3. j \in K
    BY <2>1, <2>2
  <2>4. PICK n \in DOMAIN u : u[n] = t[j]
    BY <1>1, <2>3
  <2> QED BY <2>2, <2>3, <2>4
<1>5. ASSUME NEW m \in R, NEW n \in R, u[m].order = u[n].order
      PROVE  m = n
  <2>1. PICK k \in K, l \in K : u[m] = t[k] /\ u[n] = t[l] /\ (k = l => m = n)
    <3>1. m \in DOMAIN u /\ n \in DOMAIN u
      OBVIOUS
    <3> QED BY <1>1, <3>1
  <2>2. k \in S /\ l \in S
    BY <1>5, <2>1
  <2> QED BY <1>5, <2>1, <2>2 DEF Tallied
<1> QED BY <1>3, <1>4, <1>5 DEF Tallied

LEMMA LinesStrike ==
  ASSUME NEW t, NEW S, NEW ords, NEW next, NEW i \in DOMAIN ords, NEW u, NEW R, NEW K,
         LineTallied(t, S, ords), ~Earned(next[i]), DOMAIN next = DOMAIN ords,
         \A k \in DOMAIN ords : k # i => next[k] = ords[k],
         S \subseteq DOMAIN t, K = {k \in DOMAIN t : ~(k \in S /\ t[k].order = i)},
         Keeps(u, t, K), R \subseteq DOMAIN u,
         \A n \in DOMAIN u, k \in K : u[n] = t[k] => (n \in R <=> k \in S)
  PROVE  LineTallied(u, R, next)
<1>1. /\ \A m, n \in DOMAIN u : \E k, l \in K :
           u[m] = t[k] /\ u[n] = t[l] /\ (k = l => m = n)
      /\ \A k \in K : \E n \in DOMAIN u : u[n] = t[k]
  BY DEF Keeps
<1>2. ASSUME NEW n \in R
      PROVE  \E k \in S \cap K : u[n] = t[k]
  <2>1. n \in DOMAIN u
    OBVIOUS
  <2>2. PICK k \in K : u[n] = t[k]
    BY <1>1, <2>1
  <2> QED BY <2>1, <2>2
<1>3. ASSUME NEW n \in R
      PROVE  LET k == u[n].order
             IN /\ k \in DOMAIN next /\ Earned(next[k]) /\ u[n].at = next[k].paidAt
                /\ u[n].product \in DOMAIN next[k].lines
  <2>1. PICK k \in S \cap K : u[n] = t[k]
    BY <1>2, <1>3
  <2>2. t[k].order # i
    BY <2>1
  <2> QED BY <2>1, <2>2 DEF LineTallied
<1>4. ASSUME NEW k \in DOMAIN next, Earned(next[k]), NEW q \in DOMAIN next[k].lines
      PROVE  \E n \in R : u[n].order = k /\ u[n].product = q
  <2>1. k # i /\ next[k] = ords[k] /\ k \in DOMAIN ords
    BY <1>4
  <2>2. PICK j \in S : t[j].order = k /\ t[j].product = q
    BY <1>4, <2>1 DEF LineTallied
  <2>3. j \in K
    BY <2>1, <2>2
  <2>4. PICK n \in DOMAIN u : u[n] = t[j]
    BY <1>1, <2>3
  <2> QED BY <2>2, <2>3, <2>4
<1>5. ASSUME NEW m \in R, NEW n \in R, u[m].order = u[n].order,
             u[m].product = u[n].product
      PROVE  m = n
  <2>1. PICK k \in K, l \in K : u[m] = t[k] /\ u[n] = t[l] /\ (k = l => m = n)
    <3>1. m \in DOMAIN u /\ n \in DOMAIN u
      OBVIOUS
    <3> QED BY <1>1, <3>1
  <2>2. k \in S /\ l \in S
    BY <1>5, <2>1
  <2> QED BY <1>5, <2>1, <2>2 DEF LineTallied
<1> QED BY <1>3, <1>4, <1>5 DEF LineTallied

LEMMA BooksGrow ==
  ASSUME Books, scene' = scene, day' # 0, orders' = orders, moves' \in Seq(Move),
         acts' \in Seq(Act), Grown(journey, journey'), Grown(acts, acts'),
         \A j \in DOMAIN journey' :
           j \in DOMAIN journey \/ (journey'[j].stage # "PURCHASED" /\ Own(journey'[j])),
         \A j \in DOMAIN acts' : j \in DOMAIN acts \/ acts'[j].type # "PURCHASED"
  PROVE  Books'
<1>1. Bought' = Bought /\ Sold' = Sold
  BY DEF Bought, Sold, Grown
<1>2. /\ \A j \in Bought : journey'[j] = journey[j]
      /\ \A j \in Sold : acts'[j] = acts[j]
  BY DEF Bought, Sold, Grown
<1>3. Tallied(journey', Bought, orders)
  <2>1. PICK t, u, S, o : t = journey /\ u = journey' /\ S = Bought /\ o = orders
    OBVIOUS
  <2>2. Tallied(t, S, o) /\ \A j \in S : u[j] = t[j]
    BY <1>2, <2>1 DEF Books
  <2>3. Tallied(u, S, o)
    BY <2>2, TallyGrows
  <2> QED BY <2>1, <2>3
<1>4. LineTallied(acts', Sold, orders)
  <2>1. PICK t, u, S, o : t = acts /\ u = acts' /\ S = Sold /\ o = orders
    OBVIOUS
  <2>2. LineTallied(t, S, o) /\ \A j \in S : u[j] = t[j]
    BY <1>2, <2>1 DEF Books
  <2>3. LineTallied(u, S, o)
    BY <2>2, LinesGrow
  <2> QED BY <2>1, <2>3
<1>5. \A j \in DOMAIN journey' : Own(journey'[j])
  BY DEF Books, Grown
<1> QED BY <1>1, <1>3, <1>4, <1>5 DEF Books

LEMMA GrownNot == \A t : Grown(t, t)
BY DEF Grown

LEMMA QuietSteps ==
  ASSUME Books, UNCHANGED <<scene, orders, journey, acts>>, day' # 0, moves' \in Seq(Move)
  PROVE  Books'
<1>1. Grown(journey, journey') /\ Grown(acts, acts')
  BY GrownNot
<1> QED BY <1>1, BooksGrow DEF Books

LEMMA OthersKeepBooks ==
  ASSUME Inv, Books, NEW w \in Workers,
         \/ Visit(w) \/ LookForOpening(w) \/ Claim(w)
         \/ PutInCart(w) \/ MakeCart(w) \/ FindItem(w) \/ UpdateItem(w) \/ InsertItem(w)
         \/ TakeFromCart(w) \/ DeleteItem(w) \/ ClearCart(w)
         \/ Like(w) \/ CreateFavorite(w) \/ Unlike(w) \/ DeleteFavorite(w)
         \/ RequestQuote(w) \/ UpdateQuote(w) \/ Die(w) \/ Restock(w)
  PROVE  Books'
<1>1. UNCHANGED <<scene, day, orders, journey, acts>>
  BY DEF Visit, LookForOpening, Claim, PutInCart, MakeCart, FindItem, UpdateItem, InsertItem,
         TakeFromCart, DeleteItem, ClearCart, Like, CreateFavorite, Unlike, DeleteFavorite,
         RequestQuote, UpdateQuote, Die, Restock, rows, log, shelf
<1>2. CASE Restock(w)
  <2>1. PICK q \in Products, move \in {<<2, "INBOUND">>, <<-1, "ADJUSTMENT">>} :
          moves' = Append(moves, [product |-> q, change |-> move[1], type |-> move[2], at |-> day])
    BY <1>2 DEF Restock
  <2>2. PICK e : e = [product |-> q, change |-> move[1], type |-> move[2], at |-> day]
    OBVIOUS
  <2>3. move[1] \in Int /\ move[2] \in {"INBOUND", "OUTBOUND", "ADJUSTMENT"}
    OBVIOUS
  <2>4. e \in Move /\ moves \in Seq(Move)
    BY <2>2, <2>3 DEF Move, Books, Inv, Types
  <2>5. moves' \in Seq(Move)
    BY <2>1, <2>2, <2>4, AppendProperties
  <2> QED BY <1>1, <2>5, QuietSteps DEF Books
<1>3. CASE ~Restock(w)
  <2>1. UNCHANGED moves
    BY <1>3 DEF Visit, LookForOpening, Claim, PutInCart, MakeCart, FindItem, UpdateItem, InsertItem,
         TakeFromCart, DeleteItem, ClearCart, Like, CreateFavorite, Unlike, DeleteFavorite,
         RequestQuote, UpdateQuote, Die, rows, log, shelf
  <2> QED BY <1>1, <2>1, QuietSteps DEF Books
<1> QED BY <1>2, <1>3

\* One tile event that is not a payment.
LEMMA ActIsTold ==
  ASSUME Inv, Books, UNCHANGED <<scene, day, orders, moves, journey>>,
         NEW e \in Act, e.type # "PURCHASED", acts' = acts \/ acts' = Append(acts, e)
  PROVE  Books'
<1>1. CASE acts' = acts
  BY <1>1, QuietSteps DEF Books
<1>2. CASE acts' = Append(acts, e)
  <2>1. PICK s \in Seq(Act) : s = acts
    BY DEF Books
  <2>2. /\ Grown(s, Append(s, e)) /\ DOMAIN Append(s, e) = DOMAIN s \cup {Len(s) + 1}
        /\ Append(s, e)[Len(s) + 1] = e /\ Append(s, e) \in Seq(Act)
    BY GrownByOne, AppendProperties
  <2> QED BY <1>2, <2>1, <2>2, GrownNot, BooksGrow DEF Books
<1> QED BY <1>1, <1>2

LEMMA TilesAreTold ==
  ASSUME Inv, Books, NEW w \in Workers, TellLiked(w) \/ SaveDesign(w)
  PROVE  Books'
<1>1. UNCHANGED <<scene, day, orders, moves, journey>>
  BY DEF TellLiked, SaveDesign, rows
<1>2. PICK u \in Users, q \in Products, type \in {"SAVED", "APPLIED"} :
        acts' = acts \/ acts' = Append(acts, TileRow(u, u, q, type, 0))
  <2>1. CASE SaveDesign(w)
    BY <2>1 DEF SaveDesign
  <2>2. CASE TellLiked(w)
    <3>1. PICK r : r = flight[w]
      OBVIOUS
    <3>2. r \in Liking
      BY <2>2, <3>1, Shapes DEF TellLiked, At, Inv, Types
    <3>3. r.user \in Users /\ r.product \in Products
      BY <3>2 DEF Liking
    <3> QED BY <2>2, <3>1, <3>3 DEF TellLiked
  <2> QED BY <2>1, <2>2
<1>3. PICK e : e = TileRow(u, u, q, type, 0)
  OBVIOUS
<1>4. e \in Act /\ e.type # "PURCHASED"
  BY <1>3, Constants DEF TileRow, Act, Inv, Types
<1> QED BY <1>1, <1>2, <1>3, <1>4, ActIsTold

LEMMA TellKeepsBooks ==
  ASSUME Inv, Books, NEW w \in Workers, Tell(w)
  PROVE  Books'
<1>1. PICK r : r = flight[w]
  OBVIOUS
<1>2. PICK told \in BOOLEAN :
        /\ r.op = "tell"
        /\ journey' = IF told THEN Told(r.user, Head(r.stages), r.order) ELSE journey
        /\ UNCHANGED <<scene, day, orders, moves, acts>>
  BY <1>1 DEF Tell, At, rows
<1>3. r \in Tells /\ Len(r.stages) > 0
  BY <1>1, <1>2, Shapes DEF Inv, Types
<1>4. CASE ~told
  BY <1>2, <1>4, QuietSteps DEF Books
<1>5. CASE told
  <2>1. PICK e : e = JourneyRow(r.user, r.user, Head(r.stages), r.order)
    OBVIOUS
  <2>2. Head(r.stages) \in ToldStages
    BY <1>3, HeadTailProperties, EmptySeq DEF Tells
  <2>3. e.stage # "PURCHASED" /\ Own(e)
    BY <2>1, <2>2 DEF JourneyRow, ToldStages, Own
  <2>4. PICK s \in Seq(Row) : s = journey
    BY DEF Inv, Types
  <2>5. journey' = Append(s, e)
    BY <1>2, <1>5, <2>1, <2>4 DEF Told
  <2>6. /\ Grown(s, Append(s, e)) /\ DOMAIN Append(s, e) = DOMAIN s \cup {Len(s) + 1}
        /\ Append(s, e)[Len(s) + 1] = e
    BY GrownByOne
  <2> QED BY <1>2, <2>3, <2>4, <2>5, <2>6, GrownNot, BooksGrow DEF Books
<1> QED BY <1>4, <1>5

\* What a report of the storefront writes.
LEMMA VisitsKeepBooks ==
  ASSUME Inv, Books, NEW w \in Workers, Write(w) \/ WriteFails(w)
  PROVE  Books'
<1>1. PICK r : r = flight[w]
  OBVIOUS
<1>2. /\ r.op = "visit" /\ UNCHANGED <<scene, day, orders, moves>>
      /\ \E done \in SUBSET Events(r) : Add(done, r.what)
  BY <1>1 DEF Write, WriteFails, At, rows
<1>3. r \in Visiting
  BY <1>1, <1>2, Shapes DEF Inv, Types
<1>4. PICK done \in SUBSET Events(r) : Add(done, r.what)
  BY <1>2
<1>5. r.user \in Visitors /\ r.session \in Users \cup Sessions /\ r.product \in Products \cup {None}
      /\ r.what \in JourneyStages \cup {"VIEWED", "COMPARED"} /\ day \in Nat
  BY <1>3 DEF Visiting, Inv, Types
<1>6. CASE r.what \in JourneyStages
  <2>1. PICK e : e = JourneyRow(r.user, r.session, r.what, 0)
    OBVIOUS
  <2>2. e \in Row /\ e.stage = r.what
    BY <1>5, <1>6, <2>1 DEF JourneyRow, Row, JourneyStages
  <2>3. done \subseteq {e} /\ journey' = journey \o SetToSeq(done) /\ acts' = acts
    BY <1>4, <1>6, <2>1 DEF Events, Add
  <2>4. IsFiniteSet(done)
    BY <2>3, FS_Singleton, FS_Subset
  <2>5. PICK t \in Seq(Row) : t = SetToSeq(done) /\ t \in Seq(done)
    <3>1. SetToSeq(done) \in Seq(done)
      BY <2>4, WrittenIsSeq
    <3> QED BY <2>2, <2>3, <3>1
  <2>6. PICK s \in Seq(Row) : s = journey
    BY DEF Inv, Types
  <2>7. /\ Grown(s, s \o t)
        /\ \A j \in DOMAIN (s \o t) : j \in DOMAIN s \/ \E k \in DOMAIN t : (s \o t)[j] = t[k]
    BY GrownByMany
  <2>8. \A k \in DOMAIN t : t[k] = e
    BY <2>3, <2>5
  <2>9. e.stage # "PURCHASED" /\ Own(e)
    BY <1>6, <2>2 DEF JourneyStages, ToldStages, Own
  <2>10. journey' = s \o t
    BY <2>3, <2>5, <2>6
  <2>11. \A j \in DOMAIN journey' :
           j \in DOMAIN journey \/ (journey'[j].stage # "PURCHASED" /\ Own(journey'[j]))
    BY <2>6, <2>7, <2>8, <2>9, <2>10
  <2> QED BY <1>2, <2>3, <2>6, <2>7, <2>10, <2>11, GrownNot, BooksGrow DEF Books
<1>7. CASE r.what \notin JourneyStages
  <2>1. acts' = acts \o SetToSeq(done) /\ journey' = journey
    BY <1>4, <1>7 DEF Add
  <2>2. \A e \in Events(r) : e \in Act /\ e.type # "PURCHASED"
    <3>1. \A q \in Products \cup {None}, type \in {"VIEWED", "COMPARED"} :
            /\ TileRow(r.user, r.session, q, type, 0) \in Act
            /\ TileRow(r.user, r.session, q, type, 0).type # "PURCHASED"
      BY <1>5 DEF TileRow, Act
    <3>2. scene.tiles \subseteq Products
      BY StorefrontConstants DEF Books
    <3> QED BY <1>5, <1>7, <3>1, <3>2 DEF Events
  <2>3. IsFiniteSet(Events(r))
    <3>1. CASE r.what = "COMPARED"
      <4>1. IsFiniteSet(scene.tiles)
        BY StorefrontConstants, FS_Subset DEF Books
      <4> DEFINE f == [q \in scene.tiles |-> TileRow(r.user, r.session, q, "COMPARED", 0)]
                 all == {f[q] : q \in scene.tiles}
      <4>2. IsFiniteSet(all)
        <5> HIDE DEF f
        <5> QED BY <4>1, Images
      <4> QED BY <1>7, <3>1, <4>2 DEF Events
    <3>2. CASE r.what # "COMPARED"
      BY <1>7, <3>2, FS_Singleton DEF Events
    <3> QED BY <3>1, <3>2
  <2>4. IsFiniteSet(done)
    BY <2>3, FS_Subset
  <2>5. PICK t \in Seq(Act) : t = SetToSeq(done) /\ t \in Seq(done)
    <3>1. SetToSeq(done) \in Seq(done)
      BY <2>4, WrittenIsSeq
    <3>2. done \subseteq Act
      BY <2>2
    <3> QED BY <3>1, <3>2
  <2>6. PICK s \in Seq(Act) : s = acts
    BY DEF Books
  <2>7. /\ s \o t \in Seq(Act) /\ Grown(s, s \o t)
        /\ \A j \in DOMAIN (s \o t) : j \in DOMAIN s \/ \E k \in DOMAIN t : (s \o t)[j] = t[k]
    BY GrownByMany
  <2>8. \A k \in DOMAIN t : t[k] \in done
    BY <2>5
  <2>9. acts' = s \o t
    BY <2>1, <2>5, <2>6
  <2>10. \A j \in DOMAIN acts' : j \in DOMAIN acts \/ acts'[j].type # "PURCHASED"
    BY <2>2, <2>6, <2>7, <2>8, <2>9
  <2> QED BY <1>2, <2>1, <2>6, <2>7, <2>9, <2>10, GrownNot, BooksGrow DEF Books
<1> QED BY <1>6, <1>7

\* What both tables say of the orders they say of the changed ones too, if none
\* earned what it did not, and those that earned did not change.
LEMMA BooksStay ==
  ASSUME Books, UNCHANGED <<scene, journey, acts>>, day' # 0, moves' \in Seq(Move),
         NEW s, NEW u, s = orders, u = orders', DOMAIN s \subseteq DOMAIN u,
         \A i \in DOMAIN u : Sound(u[i]),
         \A i \in DOMAIN s :
           /\ Earned(u[i]) <=> Earned(s[i])
           /\ Earned(s[i]) => /\ u[i].paidAt = s[i].paidAt /\ u[i].customer = s[i].customer
                              /\ u[i].lines = s[i].lines,
         \A i \in DOMAIN u : i \in DOMAIN s \/ ~Earned(u[i])
  PROVE  Books'
<1>1. PICK B, A : B = Bought /\ A = Sold
  OBVIOUS
<1>2. Tallied(journey, B, s) /\ LineTallied(acts, A, s)
  BY <1>1 DEF Books
<1>3. Tallied(journey, B, u)
  BY <1>2, TallyStays
<1>4. LineTallied(acts, A, u)
  BY <1>2, LinesStay
<1>5. Bought' = Bought /\ Sold' = Sold
  BY DEF Bought, Sold
<1>6. Tallied(journey', Bought', orders') /\ LineTallied(acts', Sold', orders')
  BY <1>1, <1>3, <1>4, <1>5
<1> QED BY <1>6 DEF Books

LEMMA PlaceOrderKeepsBooks ==
  ASSUME Inv, Books, NEW w \in Workers, PlaceOrder(w)
  PROVE  Books'
<1>1. PICK o : /\ o.amount = SumOf(o.lines) /\ o.lines = Lined(DOMAIN o.lines) /\ o.paidAt = 0 /\ o.status = "PENDING"
               /\ o.quotation = "REQUESTED" /\ orders' = Append(orders, o)
  <2>1. PICK u \in Users, c \in Creators, Q \in SUBSET Products :
          orders' = Append(orders, [customer |-> u, creator |-> c, lines |-> Lined(Q),
                               amount |-> SumOf(Lined(Q)), at |-> day, paidAt |-> 0,
                               status |-> "PENDING", quotation |-> "REQUESTED"])
    BY DEF PlaceOrder
  <2>2. PICK l, a : l = Lined(Q) /\ a = SumOf(Lined(Q))
    OBVIOUS
  <2>3. PICK o : o = [customer |-> u, creator |-> c, lines |-> l, amount |-> a, at |-> day,
                      paidAt |-> 0, status |-> "PENDING", quotation |-> "REQUESTED"]
    OBVIOUS
  <2>4. o.amount = SumOf(o.lines) /\ o.lines = Lined(DOMAIN o.lines)
    <3>1. l = Lined(DOMAIN l)
      BY <2>2 DEF Lined
    <3> QED BY <2>2, <2>3, <3>1
  <2>5. orders' = Append(orders, o)
    BY <2>1, <2>2, <2>3
  <2> QED BY <2>3, <2>4, <2>5
<1>2. UNCHANGED <<scene, day, moves, journey, acts>>
  BY DEF PlaceOrder, log
<1>3. PICK s \in Seq(Order) : s = orders
  BY DEF Inv, Types
<1>4. PICK u : u = Append(s, o)
  OBVIOUS
<1>5. /\ Grown(s, u) /\ DOMAIN u = DOMAIN s \cup {Len(s) + 1} /\ u[Len(s) + 1] = o
  BY <1>4, GrownByOne
<1>6. ~Earned(o) /\ Sound(o)
  BY <1>1 DEF Earned, Sound
<1>7. \A i \in DOMAIN u : Sound(u[i])
  BY <1>3, <1>5, <1>6 DEF Books, Grown
<1>8. \A i \in DOMAIN s : u[i] = s[i]
  BY <1>5 DEF Grown
<1>9. \A i \in DOMAIN u : i \in DOMAIN s \/ ~Earned(u[i])
  BY <1>5, <1>6
<1>10. u = orders' /\ DOMAIN s \subseteq DOMAIN u
  BY <1>1, <1>3, <1>4, <1>5
<1>11. day' # 0 /\ moves' \in Seq(Move)
  BY <1>2 DEF Books
<1> QED BY <1>2, <1>3, <1>7, <1>8, <1>9, <1>10, <1>11, BooksStay

\* One order changes that did not earn and does not, or that keeps what it earned with.
LEMMA ChangeKeepsBooks ==
  ASSUME Books, UNCHANGED <<scene, day, moves, journey, acts>>, NEW i \in DOMAIN orders, NEW o,
         orders' = [orders EXCEPT ![i] = o], Sound(o), Earned(o) <=> Earned(orders[i]),
         Earned(orders[i]) => /\ o.paidAt = orders[i].paidAt /\ o.customer = orders[i].customer
                              /\ o.lines = orders[i].lines
  PROVE  Books'
<1>1. PICK s, u : s = orders /\ u = orders'
  OBVIOUS
<1>2. u = [s EXCEPT ![i] = o] /\ i \in DOMAIN s
  BY <1>1
<1>3. DOMAIN u = DOMAIN s /\ u[i] = o /\ \A k \in DOMAIN s : k # i => u[k] = s[k]
  BY <1>2
<1>4. \A k \in DOMAIN u : Sound(u[k])
  BY <1>1, <1>3 DEF Books
<1>5. \A k \in DOMAIN s :
        /\ Earned(u[k]) <=> Earned(s[k])
        /\ Earned(s[k]) => /\ u[k].paidAt = s[k].paidAt /\ u[k].customer = s[k].customer
                           /\ u[k].lines = s[k].lines
  BY <1>1, <1>3
<1>6. day' # 0 /\ moves' \in Seq(Move)
  BY DEF Books
<1> QED BY <1>1, <1>3, <1>4, <1>5, <1>6, BooksStay

LEMMA ReviseKeepsBooks ==
  ASSUME Inv, Books, NEW w \in Workers, Revise(w)
  PROVE  Books'
<1>1. PICK i \in Unpaid(orders), Q \in SUBSET Products :
        /\ orders' = [orders EXCEPT ![i].lines = Lined(Q), ![i].amount = SumOf(Lined(Q))]
        /\ UNCHANGED <<scene, day, moves, journey, acts>>
  BY DEF Revise, log
<1>2. PICK l, a : l = Lined(Q) /\ a = SumOf(Lined(Q))
  OBVIOUS
<1>3. /\ i \in DOMAIN orders /\ orders \in Seq(Order) /\ orders[i] \in Order
      /\ orders[i].quotation # "VERIFIED"
  BY LenProperties DEF Unpaid, Inv, Types
<1>4. PICK o : o = [orders[i] EXCEPT !.lines = l, !.amount = a]
  OBVIOUS
<1>5. /\ orders' = [orders EXCEPT ![i] = o]
      /\ o.lines = l /\ o.amount = a /\ o.paidAt = orders[i].paidAt
      /\ o.quotation = orders[i].quotation /\ o.status = orders[i].status
  BY <1>1, <1>2, <1>3, <1>4 DEF Order
<1>6. ~Earned(o) /\ ~Earned(orders[i])
  BY <1>3, <1>5 DEF Earned
<1>7. Sound(orders[i]) /\ o.amount = SumOf(o.lines) /\ o.lines = Lined(DOMAIN o.lines)
  <2>1. l = Lined(DOMAIN l)
    BY <1>2 DEF Lined
  <2> QED BY <1>2, <1>3, <1>5, <2>1 DEF Books
<1>8. Sound(o)
  BY <1>5, <1>7 DEF Sound
<1> QED BY <1>1, <1>3, <1>5, <1>6, <1>8, ChangeKeepsBooks

LEMMA DeliverKeepsBooks ==
  ASSUME Inv, Books, NEW w \in Workers, Deliver(w)
  PROVE  Books'
<1>1. PICK i \in DOMAIN orders :
        /\ orders[i].status = "PENDING" /\ orders[i].quotation = "VERIFIED"
        /\ orders' = [orders EXCEPT ![i].status = "DELIVERED"]
        /\ UNCHANGED <<scene, day, moves, journey, acts>>
  BY DEF Deliver, log
<1>2. PICK o : o = [orders[i] EXCEPT !.status = "DELIVERED"]
  OBVIOUS
<1>3. orders \in Seq(Order) /\ orders[i] \in Order
  BY <1>1, LenProperties DEF Inv, Types
<1>4. /\ o.amount = orders[i].amount /\ o.paidAt = orders[i].paidAt /\ o.status = "DELIVERED"
      /\ o.quotation = orders[i].quotation /\ o.customer = orders[i].customer
      /\ o.lines = orders[i].lines
  BY <1>2, <1>3 DEF Order
<1>5. orders' = [orders EXCEPT ![i] = o]
  BY <1>1, <1>2
<1>6. Sound(o) /\ (Earned(o) <=> Earned(orders[i]))
  <2>1. Sound(orders[i])
    BY DEF Books
  <2> QED BY <1>1, <1>4, <2>1 DEF Sound, Earned
<1> QED BY <1>1, <1>4, <1>5, <1>6, ChangeKeepsBooks

\* The movements of the lines of an order.
LEMMA MovedIsSeq ==
  ASSUME Inv, Books, NEW o \in Order, NEW change \in Int,
         NEW type \in {"INBOUND", "OUTBOUND", "ADJUSTMENT"}
  PROVE  Moved(o, change, type) \in Seq(Move)
<1> DEFINE f == [q \in DOMAIN o.lines |->
                   [product |-> q, change |-> change, type |-> type, at |-> day]]
           all == {f[q] : q \in DOMAIN o.lines}
<1>1. DOMAIN o.lines \subseteq Products /\ IsFiniteSet(DOMAIN o.lines)
  BY BasketsAreFinite DEF Order
<1>2. \A q \in DOMAIN o.lines : f[q] \in Move
  BY <1>1 DEF Move, Inv, Types
<1>3. Moved(o, change, type) = moves \o SetToSeq(all)
  <2>1. all = {[product |-> q, change |-> change, type |-> type, at |-> day] : q \in DOMAIN o.lines}
    OBVIOUS
  <2> QED BY <2>1 DEF Moved
<1> HIDE DEF f
<1>4. IsFiniteSet(all) /\ all \subseteq Move
  BY <1>1, <1>2, Images
<1> HIDE DEF all
<1>5. SetToSeq(all) \in Seq(all)
  BY <1>4, WrittenIsSeq
<1>6. SetToSeq(all) \in Seq(Move) /\ moves \in Seq(Move)
  BY <1>4, <1>5 DEF Books
<1>7. moves \o SetToSeq(all) \in Seq(Move)
  BY <1>6, ConcatProperties
<1> QED BY <1>3, <1>7

\* The tile events of a payment: one for each line, all of them about this order.
LEMMA PurchasesAreActs ==
  ASSUME Inv, Books, NEW i \in DOMAIN orders
  PROVE  /\ IsFiniteSet(Purchases(i))
         /\ \A e \in Purchases(i) :
              /\ e \in Act /\ e.type = "PURCHASED" /\ e.order = i /\ e.at = day
              /\ e.product \in DOMAIN orders[i].lines
         /\ \A q \in DOMAIN orders[i].lines : \E e \in Purchases(i) : e.product = q
         /\ \A d, e \in Purchases(i) : d.product = e.product => d = e
<1>1. PICK o, Q : o = orders[i] /\ Q = DOMAIN o.lines
  OBVIOUS
<1>2. o \in Order /\ i \in Nat /\ day \in Nat
  BY <1>1, LenProperties DEF Inv, Types
<1>3. Q \subseteq Products /\ IsFiniteSet(Q) /\ o.customer \in Users
  BY <1>1, <1>2, BasketsAreFinite DEF Order
<1> DEFINE f == [q \in Q |-> TileRow(o.customer, o.customer, q, "PURCHASED", i)]
           all == {f[q] : q \in Q}
<1>4. Purchases(i) = all
  BY <1>1 DEF Purchases
<1>5. \A q \in Q : /\ f[q] \in Act /\ f[q].type = "PURCHASED" /\ f[q].order = i /\ f[q].at = day
                   /\ f[q].product = q
  BY <1>2, <1>3, Constants DEF TileRow, Act
<1> HIDE DEF f
<1>6. IsFiniteSet(all)
  BY <1>3, Images
<1> QED BY <1>1, <1>4, <1>5, <1>6

\* Verifying a payment enters it in both tables.
LEMMA VerifyPaymentKeepsBooks ==
  ASSUME Inv, Books, NEW w \in Workers, VerifyPayment(w)
  PROVE  Books'
<1>1. PICK i \in Unpaid(orders) :
        /\ orders' = [orders EXCEPT ![i].quotation = "VERIFIED", ![i].paidAt = day]
        /\ moves' = Moved(orders[i], -1, "OUTBOUND")
        /\ acts' = acts \o SetToSeq(Purchases(i))
        /\ journey' = Told(orders[i].customer, "PURCHASED", i)
        /\ UNCHANGED <<scene, day>>
  BY DEF VerifyPayment
<1>2. PICK s, n : s \in Seq(Order) /\ s = orders /\ n = orders'
  BY DEF Inv, Types
<1>3. /\ i \in DOMAIN s /\ i \in Nat /\ s[i] \in Order /\ s[i].status = "PENDING"
      /\ s[i].quotation # "VERIFIED" /\ day \in Nat
  BY <1>2, LenProperties DEF Unpaid, Inv, Types
<1>4. PICK o : o = [s[i] EXCEPT !.quotation = "VERIFIED", !.paidAt = day]
  OBVIOUS
<1>5. /\ o.amount = s[i].amount /\ o.paidAt = day /\ o.status = "PENDING"
      /\ o.quotation = "VERIFIED" /\ o.customer = s[i].customer /\ o.lines = s[i].lines
  BY <1>3, <1>4 DEF Order
<1>6. n = [s EXCEPT ![i] = o]
  BY <1>1, <1>2, <1>3, <1>4
<1>7. DOMAIN n = DOMAIN s /\ n[i] = o /\ \A k \in DOMAIN s : k # i => n[k] = s[k]
  BY <1>3, <1>6
<1>8. Sound(o) /\ Earned(o) /\ ~Earned(s[i])
  <2>1. Sound(s[i]) /\ day # 0
    BY <1>2, <1>3 DEF Books
  <2> QED BY <1>3, <1>5, <2>1 DEF Sound, Earned
<1>9. \A k \in DOMAIN n : Sound(n[k])
  BY <1>2, <1>7, <1>8 DEF Books
<1>10. PICK c \in Users : c = s[i].customer
  BY <1>3 DEF Order
<1>11. PICK j : j = JourneyRow(c, c, "PURCHASED", i)
  OBVIOUS
<1>12. j \in Row /\ j.stage = "PURCHASED" /\ j.order = i /\ j.at = day /\ j.user = c /\ Own(j)
  BY <1>3, <1>10, <1>11, Constants DEF JourneyRow, Row, Own
<1>13. PICK js \in Seq(Row), ts \in Seq(Act) : js = journey /\ ts = acts
  BY DEF Inv, Types, Books
<1>14. PICK P, es : P = Purchases(i) /\ es = SetToSeq(P)
  OBVIOUS
<1>15. /\ IsFiniteSet(P)
       /\ \A e \in P : /\ e \in Act /\ e.type = "PURCHASED" /\ e.order = i /\ e.at = day
                       /\ e.product \in DOMAIN s[i].lines
       /\ \A q \in DOMAIN s[i].lines : \E e \in P : e.product = q
       /\ \A d, e \in P : d.product = e.product => d = e
  BY <1>2, <1>3, <1>14, PurchasesAreActs
<1>16. /\ es \in Seq(Act)
       /\ \A k \in DOMAIN es : es[k] \in P
       /\ \A x \in P : \E k \in DOMAIN es : es[k] = x
       /\ \A k, l \in DOMAIN es : es[k] = es[l] => k = l
  <2>1. es \in Seq(P) /\ P \subseteq Act
    BY <1>14, <1>15, WrittenIsSeq
  <2>2. es \in Seq(Act)
    BY <2>1
  <2> QED BY <1>14, <1>15, <2>2, WrittenOnce
<1>17. journey' = Append(js, j) /\ acts' = ts \o es
  BY <1>1, <1>2, <1>10, <1>11, <1>13, <1>14 DEF Told
<1>18. acts' \in Seq(Act) /\ moves' \in Seq(Move)
  <2>1. ts \o es \in Seq(Act)
    BY <1>16, GrownByMany
  <2>2. Moved(s[i], -1, "OUTBOUND") \in Seq(Move)
    BY <1>3, MovedIsSeq
  <2> QED BY <1>1, <1>2, <1>17, <2>1, <2>2
<1>19. /\ Grown(js, Append(js, j)) /\ DOMAIN Append(js, j) = DOMAIN js \cup {Len(js) + 1}
       /\ Append(js, j)[Len(js) + 1] = j /\ Len(js) + 1 \notin DOMAIN js
  BY GrownByOne
<1>20. PICK N : N = {Len(ts) + k : k \in DOMAIN es}
  OBVIOUS
<1>21. /\ Grown(ts, ts \o es) /\ DOMAIN (ts \o es) = DOMAIN ts \cup N
       /\ \A k \in DOMAIN es : (ts \o es)[Len(ts) + k] = es[k] /\ Len(ts) + k \notin DOMAIN ts
       /\ Len(ts) \in Nat /\ DOMAIN es \subseteq Nat
  <2>1. Grown(ts, ts \o es)
    BY <1>16, GrownByMany
  <2>2. /\ Len(ts) \in Nat /\ DOMAIN es = 1 .. Len(es) /\ Len(es) \in Nat
        /\ DOMAIN (ts \o es) = DOMAIN ts \cup {Len(ts) + k : k \in DOMAIN es}
        /\ \A k \in DOMAIN es : (ts \o es)[Len(ts) + k] = es[k] /\ Len(ts) + k \notin DOMAIN ts
    BY <1>16, Joined
  <2> QED BY <1>20, <2>1, <2>2
<1>22. Bought' = Bought \cup {Len(js) + 1} /\ Len(js) + 1 \notin Bought
  BY <1>12, <1>13, <1>17, <1>19 DEF Bought, Grown
<1>23. PICK u : u = ts \o es
  OBVIOUS
<1>24. \A m \in N : \E k \in DOMAIN es : m = Len(ts) + k /\ u[m] = es[k] /\ es[k] \in P /\ m \notin DOMAIN ts
  <2> TAKE m \in N
  <2>1. PICK k \in DOMAIN es : m = Len(ts) + k
    BY <1>20
  <2>2. u[m] = es[k] /\ m \notin DOMAIN ts
    BY <1>21, <1>23, <2>1
  <2> QED BY <1>16, <2>1, <2>2
<1>25. Sold' = Sold \cup N
  <2>1. \A m \in N : u[m].type = "PURCHASED"
    BY <1>15, <1>24
  <2>2. \A m \in DOMAIN ts : u[m] = ts[m]
    BY <1>21, <1>23 DEF Grown
  <2>3. Sold' = {m \in DOMAIN u : u[m].type = "PURCHASED"}
    BY <1>17, <1>23 DEF Sold
  <2>4. Sold = {m \in DOMAIN ts : ts[m].type = "PURCHASED"}
    BY <1>13 DEF Sold
  <2>5. DOMAIN u = DOMAIN ts \cup N
    BY <1>21, <1>23
  <2> QED BY <2>1, <2>2, <2>3, <2>4, <2>5
<1>26. PICK B, A : B = Bought /\ A = Sold
  OBVIOUS
<1>27. Tallied(js, B, s) /\ LineTallied(ts, A, s)
  BY <1>2, <1>13, <1>26 DEF Books
<1>28. Tallied(Append(js, j), B \cup {Len(js) + 1}, n)
  <2>1. \A k \in B : Append(js, j)[k] = js[k]
    BY <1>13, <1>19, <1>26 DEF Grown, Bought
  <2>2. Len(js) + 1 \notin B
    BY <1>22, <1>26
  <2>3. PICK v, l : v = Append(js, j) /\ l = Len(js) + 1 /\ v[l] = j
    BY <1>19
  <2>4. v[l].order = i /\ v[l].at = n[i].paidAt /\ v[l].user = n[i].customer
    BY <1>5, <1>7, <1>10, <1>12, <2>3
  <2>5. Earned(n[i]) /\ ~Earned(s[i]) /\ \A k \in B : v[k] = js[k]
    BY <1>7, <1>8, <2>1, <2>3
  <2>6. Tallied(v, B \cup {l}, n)
    <3>1. l \notin B /\ i \in DOMAIN s /\ DOMAIN n = DOMAIN s
      BY <1>3, <1>7, <2>2, <2>3
    <3>2. \A k \in DOMAIN s : k # i => n[k] = s[k]
      BY <1>7
    <3>3. PICK R : R = B \cup {l}
      OBVIOUS
    <3>4. Tallied(v, R, n)
      BY <1>27, <2>4, <2>5, <3>1, <3>2, <3>3, TallyEnters
    <3> QED BY <3>3, <3>4
  <2> QED BY <2>3, <2>6
<1>29. LineTallied(u, A \cup N, n)
  <2>1. \A k \in A : u[k] = ts[k]
    BY <1>13, <1>21, <1>23, <1>26 DEF Grown, Sold
  <2>2. n[i].lines = s[i].lines /\ n[i].paidAt = day /\ Earned(n[i]) /\ ~Earned(s[i])
    BY <1>5, <1>7, <1>8
  <2>3. \A m \in N : /\ u[m].order = i /\ u[m].at = n[i].paidAt
                     /\ u[m].product \in DOMAIN n[i].lines
    BY <1>15, <1>24, <2>2
  <2>4. ASSUME NEW q \in DOMAIN n[i].lines PROVE \E m \in N : u[m].product = q
    <3>1. PICK e \in P : e.product = q
      BY <1>15, <2>2
    <3>2. PICK k \in DOMAIN es : es[k] = e
      BY <1>16
    <3>3. Len(ts) + k \in N /\ u[Len(ts) + k] = e
      BY <1>20, <1>21, <1>23, <3>2
    <3> QED BY <3>1, <3>3
  <2>5. ASSUME NEW l \in N, NEW m \in N, u[l].product = u[m].product PROVE l = m
    <3>1. PICK x \in DOMAIN es : l = Len(ts) + x /\ u[l] = es[x] /\ es[x] \in P
      BY <1>24
    <3>2. PICK y \in DOMAIN es : m = Len(ts) + y /\ u[m] = es[y] /\ es[y] \in P
      BY <1>24
    <3>3. es[x] = es[y]
      BY <1>15, <2>5, <3>1, <3>2
    <3> QED BY <1>16, <3>1, <3>2, <3>3
  <2>6. PICK R : R = A \cup N
    OBVIOUS
  <2>7. \A k \in DOMAIN s : k # i => n[k] = s[k]
    BY <1>7
  <2>8. i \in DOMAIN s /\ DOMAIN n = DOMAIN s /\ LineTallied(ts, A, s)
    BY <1>3, <1>7, <1>27
  <2>9. LineTallied(u, R, n)
    <3>1. EnteredFor(u, N, i, n[i])
      BY <2>3, <2>4, <2>5 DEF EnteredFor
    <3>2. Verified(s, n, i)
      BY <2>2, <2>7, <2>8 DEF Verified
    <3> QED BY <2>1, <2>6, <2>8, <3>1, <3>2, LinesEnter
  <2> QED BY <2>6, <2>9
<1>30. \A k \in DOMAIN journey' : Own(journey'[k])
  BY <1>12, <1>13, <1>17, <1>19 DEF Books, Grown
<1>31. Tallied(journey', Bought', orders')
  BY <1>2, <1>17, <1>22, <1>26, <1>28
<1>32. LineTallied(acts', Sold', orders')
  BY <1>2, <1>17, <1>23, <1>25, <1>26, <1>29
<1> QED BY <1>1, <1>2, <1>9, <1>18, <1>30, <1>31, <1>32 DEF Books

\* Cancelling a paid order strikes its payment out of both.
LEMMA CancelKeepsBooks ==
  ASSUME Inv, Books, NEW w \in Workers, Cancel(w)
  PROVE  Books'
<1>1. PICK i \in DOMAIN orders :
        /\ orders[i].status = "PENDING"
        /\ orders' = [orders EXCEPT ![i].status = "CANCELLED"]
        /\ IF orders[i].paidAt = 0 THEN UNCHANGED <<moves, acts, journey>>
           ELSE /\ moves' = Moved(orders[i], 1, "INBOUND")
                /\ acts' = Kept(acts, {k \in DOMAIN acts :
                                       ~(acts[k].type = "PURCHASED" /\ acts[k].order = i)})
                /\ journey' = Kept(journey, {k \in DOMAIN journey :
                                       ~(journey[k].stage = "PURCHASED" /\ journey[k].order = i)})
        /\ UNCHANGED <<scene, day>>
  BY DEF Cancel
<1>2. PICK s, n : s \in Seq(Order) /\ s = orders /\ n = orders'
  BY DEF Inv, Types
<1>3. i \in DOMAIN s /\ s[i] \in Order /\ s[i].status = "PENDING" /\ day \in Nat
  BY <1>1, <1>2, LenProperties DEF Inv, Types
<1>4. PICK o : o = [s[i] EXCEPT !.status = "CANCELLED"]
  OBVIOUS
<1>5. /\ o.amount = s[i].amount /\ o.paidAt = s[i].paidAt /\ o.status = "CANCELLED"
      /\ o.quotation = s[i].quotation /\ o.customer = s[i].customer /\ o.lines = s[i].lines
  BY <1>3, <1>4 DEF Order
<1>6. n = [s EXCEPT ![i] = o]
  BY <1>1, <1>2, <1>3, <1>4
<1>7. DOMAIN n = DOMAIN s /\ n[i] = o /\ \A k \in DOMAIN s : k # i => n[k] = s[k]
  BY <1>3, <1>6
<1>8. Sound(o) /\ ~Earned(o) /\ (s[i].paidAt = 0 => ~Earned(s[i]))
  BY <1>2, <1>3, <1>5 DEF Sound, Earned, Books
<1>9. \A k \in DOMAIN n : Sound(n[k])
  BY <1>2, <1>7, <1>8 DEF Books
<1>10. PICK js, ts, B, A :
         js \in Seq(Row) /\ ts \in Seq(Act) /\ js = journey /\ ts = acts /\ B = Bought /\ A = Sold
  BY DEF Inv, Types, Books
<1>11. Tallied(js, B, s) /\ LineTallied(ts, A, s)
  BY <1>2, <1>10 DEF Books
<1>12. CASE s[i].paidAt = 0
  <2>1. UNCHANGED <<scene, day, moves, acts, journey>>
    BY <1>1, <1>2, <1>12
  <2>2. ~Earned(s[i]) /\ orders' = [orders EXCEPT ![i] = o]
    BY <1>2, <1>6, <1>8, <1>12
  <2> QED BY <1>2, <1>3, <1>8, <2>1, <2>2, ChangeKeepsBooks
<1>13. CASE s[i].paidAt # 0
  <2>1. PICK KJ, KA : /\ KJ = {k \in DOMAIN js : ~(k \in B /\ js[k].order = i)}
                      /\ KA = {k \in DOMAIN ts : ~(k \in A /\ ts[k].order = i)}
    OBVIOUS
  <2>2. journey' = Kept(js, KJ) /\ acts' = Kept(ts, KA)
    <3>1. /\ KJ = {k \in DOMAIN js : ~(js[k].stage = "PURCHASED" /\ js[k].order = i)}
          /\ KA = {k \in DOMAIN ts : ~(ts[k].type = "PURCHASED" /\ ts[k].order = i)}
      BY <1>10, <2>1 DEF Bought, Sold
    <3> QED BY <1>1, <1>2, <1>10, <1>13, <3>1
  <2>3. KJ \in SUBSET (DOMAIN js) /\ KA \in SUBSET (DOMAIN ts)
    BY <2>1
  <2>4. PICK u, v : u = Kept(js, KJ) /\ v = Kept(ts, KA)
    OBVIOUS
  <2>5. u \in Seq(Row) /\ Keeps(u, js, KJ)
    BY <1>10, <2>3, <2>4, KeptKeeps
  <2>6. v \in Seq(Act) /\ Keeps(v, ts, KA)
    BY <1>10, <2>3, <2>4, KeptKeeps
  <2>7. PICK R, Q : R = Bought' /\ Q = Sold'
    OBVIOUS
  <2>8. /\ B = {k \in DOMAIN js : js[k].stage = "PURCHASED"}
        /\ R = {k \in DOMAIN u : u[k].stage = "PURCHASED"}
        /\ A = {k \in DOMAIN ts : ts[k].type = "PURCHASED"}
        /\ Q = {k \in DOMAIN v : v[k].type = "PURCHASED"}
    BY <1>10, <2>2, <2>4, <2>7 DEF Bought, Sold
  <2>9. Tallied(u, R, n)
    <3>1. \A k \in DOMAIN u, l \in KJ : u[k] = js[l] => (k \in R <=> l \in B)
      BY <2>3, <2>8
    <3> QED BY <1>3, <1>7, <1>8, <1>11, <2>1, <2>5, <2>8, <3>1, TallyStrikes
  <2>10. LineTallied(v, Q, n)
    <3>1. \A k \in DOMAIN v, l \in KA : v[k] = ts[l] => (k \in Q <=> l \in A)
      BY <2>3, <2>8
    <3>2. Q \subseteq DOMAIN v /\ A \subseteq DOMAIN ts /\ ~Earned(n[i])
      BY <1>7, <1>8, <2>8
    <3>3. \A k \in DOMAIN s : k # i => n[k] = s[k]
      BY <1>7
    <3>4. Keeps(v, ts, KA) /\ KA = {k \in DOMAIN ts : ~(k \in A /\ ts[k].order = i)}
      BY <2>1, <2>6
    <3>5. LineTallied(ts, A, s)
      BY <1>11
    <3> QED BY <1>3, <1>7, <3>1, <3>2, <3>3, <3>4, <3>5, LinesStrike
  <2>11. \A k \in DOMAIN u : Own(u[k])
    <3>1. \A k \in DOMAIN u : \E l \in KJ : u[k] = js[l]
      BY <2>5 DEF Keeps
    <3> QED BY <1>10, <2>3, <3>1 DEF Books
  <2>12. moves' \in Seq(Move)
    <3>1. Moved(s[i], 1, "INBOUND") \in Seq(Move)
      BY <1>3, MovedIsSeq
    <3> QED BY <1>1, <1>2, <1>13, <3>1
  <2> QED BY <1>1, <1>2, <1>9, <2>2, <2>4, <2>6, <2>7, <2>9, <2>10, <2>11, <2>12 DEF Books
<1> QED BY <1>12, <1>13

LEMMA InitBooks == Init => Books
<1> SUFFICES ASSUME Init PROVE Books
  OBVIOUS
<1>1. scene \in Scenes /\ day = 1 /\ orders = <<>> /\ journey = <<>> /\ acts = <<>> /\ moves = <<>>
  BY DEF Init
<1>2. Bought = {} /\ Sold = {} /\ DOMAIN orders = {} /\ DOMAIN journey = {}
  BY <1>1 DEF Bought, Sold
<1>3. acts \in Seq(Act) /\ moves \in Seq(Move)
  BY <1>1
<1>4. Tallied(journey, Bought, orders) /\ LineTallied(acts, Sold, orders)
  BY <1>2 DEF Tallied, LineTallied
<1> QED BY <1>1, <1>2, <1>3, <1>4 DEF Books

LEMMA NextBooks == Inv /\ Books /\ [Next]_vars => Books'
<1> SUFFICES ASSUME Inv, Books, [Next]_vars PROVE Books'
  OBVIOUS
<1>1. CASE KeyRunsOut \/ UNCHANGED vars
  <2>1. UNCHANGED <<scene, day, orders, moves, journey, acts>>
    BY <1>1 DEF KeyRunsOut, vars, rows, log
  <2> QED BY <2>1, QuietSteps DEF Books
<1>2. CASE Tick
  <2>1. UNCHANGED <<scene, orders, moves, journey, acts>> /\ day' = day + 1 /\ day \in Nat
    BY <1>2 DEF Tick, rows, log, Inv, Types
  <2> QED BY <2>1, QuietSteps DEF Books
<1>3. ASSUME NEW w \in Workers,
             \/ Visit(w) \/ LookForOpening(w) \/ Claim(w)
             \/ PutInCart(w) \/ MakeCart(w) \/ FindItem(w) \/ UpdateItem(w) \/ InsertItem(w)
             \/ TakeFromCart(w) \/ DeleteItem(w) \/ ClearCart(w)
             \/ Like(w) \/ CreateFavorite(w) \/ Unlike(w) \/ DeleteFavorite(w)
             \/ RequestQuote(w) \/ UpdateQuote(w) \/ Die(w) \/ Restock(w)
      PROVE  Books'
  BY <1>3, OthersKeepBooks
<1>4. ASSUME NEW w \in Workers,
             Write(w) \/ WriteFails(w) \/ TellLiked(w) \/ SaveDesign(w) \/ Tell(w)
      PROVE  Books'
  BY <1>4, VisitsKeepBooks, TilesAreTold, TellKeepsBooks
<1>5. ASSUME NEW w \in Workers,
             PlaceOrder(w) \/ Revise(w) \/ VerifyPayment(w) \/ Deliver(w) \/ Cancel(w)
      PROVE  Books'
  BY <1>5, PlaceOrderKeepsBooks, ReviseKeepsBooks, VerifyPaymentKeepsBooks, DeliverKeepsBooks, CancelKeepsBooks
<1> QED BY <1>1, <1>2, <1>3, <1>4, <1>5 DEF Next

LEMMA BooksHold == Spec => [](Inv /\ Books)
<1>1. Init => Books
  BY InitBooks
<1>2. Inv /\ Books /\ [Next]_vars => Books'
  BY NextBooks
<1> QED BY <1>1, <1>2, InvHolds, PTL DEF Spec

-----------------------------------------------------------------------------
(* New customers and returning ones.                                       *)

LEMMA OrderRows ==
  ASSUME NEW s \in Seq(Order)
  PROVE  /\ IsFiniteSet(DOMAIN s) /\ DOMAIN s = 1 .. Len(s) /\ Len(s) \in Nat
         /\ \A i \in DOMAIN s : s[i] \in Order /\ s[i].at \in Nat /\ s[i].paidAt \in Nat
                                /\ s[i].amount \in Nat
<1>1. DOMAIN s = 1 .. Len(s) /\ Len(s) \in Nat /\ \A i \in DOMAIN s : s[i] \in Order
  BY LenProperties
<1>2. IsFiniteSet(DOMAIN s)
  BY <1>1, FS_Interval
<1>3. \A n \in Subtotals : n \in Nat
  <2> SUFFICES ASSUME NEW l \in Baskets PROVE SumOf(l) \in Nat
    BY DEF Subtotals
  <2>1. IsFiniteSet(DOMAIN l) /\ \A q \in DOMAIN l : l[q] \in Nat
    BY BasketsAreFinite
  <2> QED BY <2>1, TotalIsNat DEF SumOf
<1> QED BY <1>1, <1>2, <1>3 DEF Order

\* The lines of some orders, and what they cost.
LEMMA LineRows ==
  ASSUME NEW s \in Seq(Order), NEW R \in SUBSET (DOMAIN s)
  PROVE  /\ IsFiniteSet(Lines(s, R))
         /\ \A l \in Lines(s, R) :
              /\ l = <<l[1], l[2]>> /\ l[1] \in R /\ l[2] \in DOMAIN s[l[1]].lines
              /\ l[2] \in Products /\ s[l[1]] \in Order
              /\ LineAmounts(s)[l] = s[l[1]].lines[l[2]] /\ LineAmounts(s)[l] \in Nat
         /\ \A i \in R : \A q \in DOMAIN s[i].lines : <<i, q>> \in Lines(s, R)
<1>1. \A i \in R : \A q \in DOMAIN s[i].lines : <<i, q>> \in Lines(s, R)
  BY DEF Lines
<1>2. \A i \in DOMAIN s : s[i] \in Order /\ DOMAIN s[i].lines \subseteq Products
                          /\ \A q \in DOMAIN s[i].lines : s[i].lines[q] \in Nat
  <2> TAKE i \in DOMAIN s
  <2>1. s[i] \in Order
    BY OrderRows
  <2>2. s[i].lines \in Baskets
    BY <2>1 DEF Order
  <2> QED BY <2>1, <2>2, BasketsAreFinite
<1>3. ASSUME NEW l \in Lines(s, R)
      PROVE  /\ l = <<l[1], l[2]>> /\ l[1] \in R /\ l[2] \in DOMAIN s[l[1]].lines
             /\ l[2] \in Products /\ s[l[1]] \in Order
             /\ LineAmounts(s)[l] = s[l[1]].lines[l[2]] /\ LineAmounts(s)[l] \in Nat
  <2>1. PICK i \in R : l \in {<<i, q>> : q \in DOMAIN s[i].lines}
    BY <1>3 DEF Lines
  <2>2. PICK q \in DOMAIN s[i].lines : l = <<i, q>>
    BY <2>1
  <2>3. l[1] = i /\ l[2] = q
    BY <2>2
  <2>4. l \in Lines(s, DOMAIN s)
    BY <2>2 DEF Lines
  <2>5. LineAmounts(s)[l] = s[l[1]].lines[l[2]]
    BY <2>4 DEF LineAmounts
  <2> QED BY <1>2, <2>2, <2>3, <2>5
<1>4. IsFiniteSet(Lines(s, R))
  <2>1. IsFiniteSet(R) /\ IsFiniteSet(Products)
    BY OrderRows, FS_Subset, StorefrontConstants
  <2>2. IsFiniteSet(R \X Products)
    BY <2>1, FS_Product
  <2>3. \A l \in Lines(s, R) : l \in R \X Products
    <3> TAKE l \in Lines(s, R)
    <3>1. l = <<l[1], l[2]>> /\ l[1] \in R /\ l[2] \in Products
      BY <1>3
    <3>2. PICK a, b : a = l[1] /\ b = l[2]
      OBVIOUS
    <3> QED BY <3>1, <3>2
  <2> QED BY <2>2, <2>3, FS_Subset
<1> QED BY <1>1, <1>3, <1>4

\* They make up the amounts of the orders.
LEMMA LinesAdd ==
  ASSUME NEW s \in Seq(Order), \A i \in DOMAIN s : s[i].amount = SumOf(s[i].lines),
         NEW R \in SUBSET (DOMAIN s)
  PROVE  Total(Lines(s, R), LineAmounts(s)) = Total(R, Amounts(s))
<1> DEFINE L == Lines(s, R)
           a == LineAmounts(s)
           kind == [l \in L |-> l[1]]
           Of(i) == {l \in L : kind[l] = i}
           sums == [i \in R |-> Total(Of(i), a)]
<1>1. /\ IsFiniteSet(L)
      /\ \A l \in L : /\ l = <<l[1], l[2]>> /\ l[1] \in R /\ l[2] \in DOMAIN s[l[1]].lines
                      /\ a[l] = s[l[1]].lines[l[2]] /\ a[l] \in Nat
      /\ \A i \in R : \A q \in DOMAIN s[i].lines : <<i, q>> \in L
  BY LineRows
<1>2. \A l \in L : kind[l] = l[1] /\ kind[l] \in R /\ a[l] \in Int
  BY <1>1
<1>3. IsFiniteSet(R)
  BY OrderRows, FS_Subset
<1> HIDE DEF L, a, kind
<1>4. Total(R, sums) = Total(L, a)
  <2>1. IsFiniteSet(L)
    BY <1>1
  <2>2. \A l \in L : kind[l] \in R
    BY <1>2
  <2>3. \A l \in L : a[l] \in Int
    BY <1>2
  <2>4. ASSUME NEW I, IsFiniteSet(I), \A l \in L : kind[l] \in I
        PROVE  Total(I, [i \in I |-> Total({l \in L : kind[l] = i}, a)]) = Total(L, a)
    BY <2>1, <2>3, <2>4, TotalByKind
  <2> QED BY <1>3, <2>2, <2>4
<1>5. \A i \in R : Total(Of(i), a) = Amounts(s)[i]
  <2> TAKE i \in R
  <2> DEFINE Q == DOMAIN s[i].lines
             name == [q \in Q |-> <<i, q>>]
             cost == s[i].lines
  <2>1. Of(i) = {name[q] : q \in Q}
    <3>1. ASSUME NEW l \in Of(i) PROVE l \in {name[q] : q \in Q}
      <4>1. l \in L /\ l[1] = i /\ l = <<l[1], l[2]>> /\ l[2] \in DOMAIN s[l[1]].lines
        BY <1>1, <1>2, <3>1
      <4>2. PICK q : q = l[2]
        OBVIOUS
      <4>3. q \in Q /\ l = <<i, q>>
        BY <4>1, <4>2
      <4>4. l = name[q]
        BY <4>3
      <4> QED BY <4>3, <4>4
    <3>2. ASSUME NEW q \in Q PROVE name[q] \in Of(i)
      <4>1. name[q] = <<i, q>> /\ <<i, q>> \in L /\ <<i, q>>[1] = i
        BY <1>1
      <4> QED BY <1>2, <4>1
    <3> QED BY <3>1, <3>2
  <2>2. IsFiniteSet(Q) /\ \A q \in Q : cost[q] \in Nat
    <3>1. s[i].lines \in Baskets
      BY OrderRows DEF Order
    <3> QED BY <3>1, BasketsAreFinite
  <2>3. \A q \in Q : cost[q] \in Int /\ a[name[q]] = cost[q]
    <3> TAKE q \in Q
    <3>1. name[q] = <<i, q>> /\ <<i, q>> \in L /\ <<i, q>>[1] = i /\ <<i, q>>[2] = q
      BY <1>1
    <3> QED BY <1>1, <2>2, <3>1
  <2>4. \A x, y \in Q : name[x] = name[y] => x = y
    OBVIOUS
  <2>5. Total({name[q] : q \in Q}, a) = Total(Q, cost)
    <3> HIDE DEF Q, name, cost
    <3> QED BY <2>2, <2>3, <2>4, TotalRenamed
  <2>6. Total(Q, cost) = s[i].amount
    BY DEF SumOf
  <2> QED BY <2>1, <2>5, <2>6 DEF Amounts
<1>6. Total(R, sums) = Total(R, Amounts(s))
  <2>1. \A i \in R : sums[i] = Amounts(s)[i]
    BY <1>5
  <2> HIDE DEF sums
  <2> QED BY <1>3, <2>1, TotalSame
<1> QED BY <1>4, <1>6 DEF L, a

LEMMA WindowsOf ==
  ASSUME NEW p, IsPeriod(p), NEW today \in Int
  PROVE  /\ Partitions(Resolve(p, today)) /\ Resolve(p, today).from - 1 \in Int
         /\ Partitions(Resolve(p, Resolve(p, today).from - 1))
         /\ \A at : ~(In(Resolve(p, today), at) /\ In(Resolve(p, Resolve(p, today).from - 1), at)
                      /\ at \in Int)
<1>1. Partitions(Resolve(p, today)) /\ Resolve(p, today).from \in Int
  BY ResolvePartitions DEF Partitions
<1>2. PICK y \in Int : y = Resolve(p, today).from - 1
  BY <1>1
<1>3. Partitions(Resolve(p, y))
  BY ResolvePartitions
<1>4. Resolve(p, Resolve(p, today).from - 1).to = Resolve(p, today).from
  BY ResolveAdjacent
<1> QED BY <1>1, <1>2, <1>3, <1>4 DEF In

\* Orders counted bucket by bucket.
LEMMA OrdersCounted ==
  ASSUME NEW s \in Seq(Order), NEW S \in SUBSET (DOMAIN s), NEW w, Partitions(w)
  PROVE  /\ SumOf(Bucketize(S, w, Dates(s), [i \in DOMAIN s |-> 1])) =
              Cardinality({i \in S : In(w, s[i].at)})
         /\ IsFiniteSet({i \in S : In(w, s[i].at)})
<1> DEFINE ones == [i \in DOMAIN s |-> 1]
           dates == Dates(s)
           all == {i \in S : In(w, s[i].at)}
<1>1. IsFiniteSet(S) /\ IsFiniteSet(all)
  BY OrderRows, FS_Subset
<1>2. \A i \in S : dates[i] = s[i].at /\ dates[i] \in Int /\ ones[i] = 1
  BY OrderRows DEF Dates
<1>3. {i \in S : In(w, dates[i])} = all
  BY <1>2
<1>4. \A i \in all : ones[i] = 1
  BY <1>2
<1> HIDE DEF ones, dates
<1>5. SumOf(Bucketize(S, w, dates, ones)) = Total({i \in S : In(w, dates[i])}, ones)
  <2>1. \A i \in S : dates[i] \in Int /\ ones[i] \in Int
    BY <1>2
  <2> QED BY <1>1, <2>1, BucketsAddUp
<1> HIDE DEF all
<1>6. Total(all, ones) = Cardinality(all)
  BY <1>1, <1>4, TotalOnes
<1> QED BY <1>1, <1>3, <1>5, <1>6 DEF ones, dates, all

LEMMA NewOnce ==
  ASSUME NEW s \in Seq(Order), NEW users, NEW p, IsPeriod(p), NEW today \in Int
  PROVE  LET w == Resolve(p, today)
             now == Customers(s, users, p, today)
             before == Customers(s, users, p, w.from - 1)
         IN /\ SumOf(now.new) + SumOf(before.new) <=
                 Cardinality({s[i].customer : i \in DOMAIN s})
            /\ SumOf(now.new) + SumOf(now.again) =
                 Cardinality({i \in DOMAIN s : s[i].status # "CANCELLED" /\ In(w, s[i].at)})
<1> DEFINE w == Resolve(p, today)
           v == Resolve(p, w.from - 1)
           now == Customers(s, users, p, today)
           before == Customers(s, users, p, w.from - 1)
           rows2 == {i \in DOMAIN s : s[i].status # "CANCELLED"}
           First(i) == \A j \in 1 .. i - 1 :
                          s[j].status = "CANCELLED" \/ s[j].customer # s[i].customer
           New(x) == {i \in {k \in rows2 : First(k)} : In(x, s[i].at)}
           Again(x) == {i \in {k \in rows2 : ~First(k)} : In(x, s[i].at)}
           firsts == {k \in rows2 : First(k)}
           ones == [i \in DOMAIN s |-> 1]
<1>1. /\ Partitions(w) /\ Partitions(v)
      /\ \A at \in Int : ~(In(w, at) /\ In(v, at))
  BY WindowsOf
<1>2. /\ now.new = Bucketize({k \in rows2 : First(k)}, w, Dates(s), ones)
      /\ now.again = Bucketize({k \in rows2 : ~First(k)}, w, Dates(s), ones)
      /\ before.new = Bucketize({k \in rows2 : First(k)}, v, Dates(s), ones)
  BY DEF Customers, IsFirst
<1>3. {k \in rows2 : First(k)} \in SUBSET (DOMAIN s) /\ {k \in rows2 : ~First(k)} \in SUBSET (DOMAIN s)
  OBVIOUS
<1> HIDE DEF w, v, now, before, First, rows2
<1>4. /\ SumOf(now.new) = Cardinality(New(w)) /\ IsFiniteSet(New(w))
      /\ SumOf(now.again) = Cardinality(Again(w)) /\ IsFiniteSet(Again(w))
      /\ SumOf(before.new) = Cardinality(New(v)) /\ IsFiniteSet(New(v))
  BY <1>1, <1>2, <1>3, OrdersCounted
<1>5. New(w) \cap New(v) = {} /\ New(w) \cap Again(w) = {}
  BY <1>1, OrderRows DEF rows2
<1>6. New(w) \cup Again(w) = {i \in DOMAIN s : s[i].status # "CANCELLED" /\ In(w, s[i].at)}
  BY DEF rows2
<1>7. Cardinality(New(w)) + Cardinality(New(v)) <= Cardinality({s[i].customer : i \in DOMAIN s})
  <2> DEFINE f == [i \in DOMAIN s |-> s[i].customer]
             N == New(w) \cup New(v)
             all == {f[i] : i \in DOMAIN s}
             some == {f[i] : i \in N}
  <2>1. N \subseteq DOMAIN s /\ some \subseteq all /\ all = {s[i].customer : i \in DOMAIN s}
    BY DEF rows2
  <2>2. \A i, j \in N : f[i] = f[j] => i = j
    <3> SUFFICES ASSUME NEW i \in N, NEW j \in N, f[i] = f[j], i # j PROVE FALSE
      OBVIOUS
    <3>1. i \in 1 .. Len(s) /\ j \in 1 .. Len(s) /\ Len(s) \in Nat
      BY <2>1, OrderRows
    <3>2. /\ s[i].status # "CANCELLED" /\ s[j].status # "CANCELLED" /\ First(i) /\ First(j)
          /\ s[i].customer = s[j].customer
      BY <2>1 DEF rows2
    <3>3. i < j \/ j < i
      BY <3>1
    <3> QED BY <3>1, <3>2, <3>3 DEF First
  <2>3. IsFiniteSet(N) /\ Cardinality(N) = Cardinality(New(w)) + Cardinality(New(v))
    BY <1>4, <1>5, Disjoint
  <2> HIDE DEF N, f
  <2>4. Cardinality(some) = Cardinality(N)
    BY <2>2, <2>3, Images
  <2>5. IsFiniteSet(all)
    BY OrderRows, Images
  <2>6. Cardinality(some) <= Cardinality(all)
    BY <2>1, <2>5, FS_Subset
  <2> QED BY <2>1, <2>3, <2>4, <2>6
<1>8. Cardinality(New(w)) + Cardinality(Again(w)) = Cardinality(New(w) \cup Again(w))
  BY <1>4, <1>5, Disjoint
<1> QED BY <1>4, <1>6, <1>7, <1>8 DEF now, before, w

LEMMA Days == Inv /\ Books => day \in Int /\ \A p \in Periods : IsPeriod(p)
BY StorefrontConstants DEF IsPeriod, Inv, Types

\* Over the current window and the one before it a customer is new at most once, and
\* every order that was not cancelled is one of a new customer or of a returning one
\* (customers): the first order of a customer is looked for among all of them, and
\* the two windows share no day.
THEOREM CustomersAreNewOnce == Spec => []NewOrRepeatOnce
<1>1. Inv /\ Books => NewOrRepeatOnce
  <2> SUFFICES ASSUME Inv, Books, NEW p \in Periods
               PROVE  LET now == Customers(orders, Users, p, day)
                          before == Customers(orders, Users, p, Yesterday(p))
                          w == Resolve(p, day)
                      IN /\ SumOf(now.new) + SumOf(before.new) <=
                              Cardinality({orders[i].customer : i \in DOMAIN orders})
                         /\ SumOf(now.new) + SumOf(now.again) =
                              Cardinality({i \in DOMAIN orders :
                                orders[i].status # "CANCELLED" /\ In(w, orders[i].at)})
    BY DEF NewOrRepeatOnce
  <2>1. PICK s, today : s = orders /\ today = day
    OBVIOUS
  <2>2. s \in Seq(Order) /\ today \in Int /\ IsPeriod(p)
    BY <2>1, Days DEF Inv, Types
  <2>3. LET w == Resolve(p, today)
            now == Customers(s, Users, p, today)
            before == Customers(s, Users, p, w.from - 1)
        IN /\ SumOf(now.new) + SumOf(before.new) <=
                Cardinality({s[i].customer : i \in DOMAIN s})
           /\ SumOf(now.new) + SumOf(now.again) =
                Cardinality({i \in DOMAIN s : s[i].status # "CANCELLED" /\ In(w, s[i].at)})
    BY <2>2, NewOnce
  <2> QED BY <2>1, <2>3 DEF Yesterday
<1> QED BY <1>1, BooksHold, PTL

-----------------------------------------------------------------------------
(* The sales page adds up.                                                 *)

LEMMA EarnedRows ==
  ASSUME NEW s \in Seq(Order), NEW w
  PROVE  /\ EarnedIn(s, w) \subseteq DOMAIN s /\ IsFiniteSet(EarnedIn(s, w))
         /\ \A i \in EarnedIn(s, w) :
              /\ Amounts(s)[i] = s[i].amount /\ Amounts(s)[i] \in Int
              /\ PaidAt(s)[i] = s[i].paidAt /\ PaidAt(s)[i] \in Int /\ In(w, PaidAt(s)[i])
              /\ s[i] \in Order
<1>1. EarnedIn(s, w) \subseteq DOMAIN s
  BY DEF EarnedIn
<1>2. IsFiniteSet(EarnedIn(s, w))
  BY <1>1, OrderRows, FS_Subset
<1>3. \A i \in DOMAIN s : Amounts(s)[i] = s[i].amount /\ PaidAt(s)[i] = s[i].paidAt
  BY DEF Amounts, PaidAt
<1> QED BY <1>1, <1>2, <1>3, OrderRows DEF EarnedIn

LEMMA EarnedByBucket ==
  ASSUME NEW s \in Seq(Order), NEW w, Partitions(w), NEW S \in SUBSET EarnedIn(s, w)
  PROVE  /\ SumOf(Bucketize(S, w, PaidAt(s), Amounts(s))) = Total(S, Amounts(s))
         /\ Total(S, Amounts(s)) \in Int
<1> DEFINE d == PaidAt(s)
           a == Amounts(s)
<1>1. IsFiniteSet(S) /\ \A i \in S : d[i] \in Int /\ a[i] \in Int /\ In(w, d[i])
  BY EarnedRows, FS_Subset
<1> HIDE DEF a, d
<1>2. /\ SumOf(Bucketize(S, w, d, a)) = Total({i \in S : In(w, d[i])}, a)
      /\ SumOf(Bucketize(S, w, d, a)) \in Int
  BY <1>1, BucketsAddUp
<1>3. {i \in S : In(w, d[i])} = S
  BY <1>1
<1> QED BY <1>2, <1>3 DEF a, d

LEMMA EarnedByKind ==
  ASSUME NEW s \in Seq(Order), NEW w, Partitions(w),
         NEW I, IsFiniteSet(I), NEW kind, \A i \in EarnedIn(s, w) : kind[i] \in I
  PROVE  /\ Total(I, [k \in I |-> Total({i \in EarnedIn(s, w) : kind[i] = k}, Amounts(s))]) =
              Total(EarnedIn(s, w), Amounts(s))
         /\ Total(I, [k \in I |-> SumOf(Bucketize({i \in EarnedIn(s, w) : kind[i] = k}, w,
                                                  PaidAt(s), Amounts(s)))]) =
              Total(EarnedIn(s, w), Amounts(s))
<1> DEFINE paid == EarnedIn(s, w)
           a == Amounts(s)
           Of(k) == {i \in paid : kind[i] = k}
<1>1. IsFiniteSet(paid) /\ \A i \in paid : a[i] \in Int
  BY EarnedRows
<1>2. \A k \in I : SumOf(Bucketize(Of(k), w, PaidAt(s), a)) = Total(Of(k), a)
  <2> TAKE k \in I
  <2>1. Of(k) \in SUBSET EarnedIn(s, w)
    OBVIOUS
  <2> HIDE DEF Of, paid
  <2> QED BY <2>1, EarnedByBucket
<1>3. [k \in I |-> SumOf(Bucketize(Of(k), w, PaidAt(s), a))] = [k \in I |-> Total(Of(k), a)]
  <2> HIDE DEF Of, a
  <2> QED BY <1>2
<1> HIDE DEF paid, a
<1>4. Total(I, [k \in I |-> Total({i \in paid : kind[i] = k}, a)]) = Total(paid, a)
  <2>1. \A i \in paid : kind[i] \in I
    BY DEF paid
  <2> QED BY <1>1, <2>1, TotalByKind
<1> QED BY <1>3, <1>4 DEF paid, a

LEMMA Finite ==
  /\ IsFiniteSet(Creators) /\ IsFiniteSet({"PENDING", "DELIVERED", "CANCELLED"})
  /\ IsFiniteSet({"INBOUND", "OUTBOUND", "ADJUSTMENT"})
<1>1. \A a, b, c : IsFiniteSet({a, b}) /\ IsFiniteSet({a, b, c})
  <2> TAKE a, b, c
  <2>1. IsFiniteSet({a}) /\ IsFiniteSet({b}) /\ IsFiniteSet({c})
    BY FS_Singleton
  <2>2. IsFiniteSet({a} \cup {b}) /\ {a} \cup {b} = {a, b}
    BY <2>1, FS_Union
  <2>3. IsFiniteSet({a, b} \cup {c}) /\ {a, b} \cup {c} = {a, b, c}
    BY <2>1, <2>2, FS_Union
  <2> QED BY <2>2, <2>3
<1> QED BY <1>1 DEF Creators

\* The best sellers are some of the tiles that sold, with what they brought in.
LEMMA BestSellersAdd ==
  ASSUME NEW s \in Seq(Order), \A i \in DOMAIN s : s[i].amount = SumOf(s[i].lines),
         NEW R \in SUBSET (DOMAIN s), NEW list \in BestSelling(Revenue(s, R))
  PROVE  /\ SumOf(list) <= Total(R, Amounts(s))
         /\ {l[2] : l \in Lines(s, R)} \subseteq DOMAIN list => SumOf(list) = Total(R, Amounts(s))
<1> DEFINE L == Lines(s, R)
           a == LineAmounts(s)
           kind == [l \in L |-> l[2]]
           sold == {l[2] : l \in L}
           Of(q) == {l \in L : l[2] = q}
           revenue == Revenue(s, R)
<1>1. revenue = [q \in sold |-> Total(Of(q), a)]
  BY DEF Revenue
<1>2. PICK top \in SUBSET sold : list = [q \in top |-> revenue[q]]
  <2>1. DOMAIN revenue = sold
    BY <1>1
  <2> HIDE DEF revenue, sold
  <2> QED BY <2>1 DEF BestSelling, revenue
<1>3. /\ IsFiniteSet(L) /\ \A l \in L : a[l] \in Nat /\ a[l] \in Int
  <2>1. /\ IsFiniteSet(L) /\ \A l \in L : a[l] \in Nat
    BY LineRows
  <2> QED BY <2>1
<1>4. Total(L, a) = Total(R, Amounts(s))
  BY LinesAdd
<1>5. sold = {kind[l] : l \in L} /\ \A l \in L : kind[l] = l[2] /\ kind[l] \in sold
  OBVIOUS
<1>6. \A q : Of(q) = {l \in L : kind[l] = q}
  BY <1>5
<1> HIDE DEF L, a, kind, revenue
<1>7. IsFiniteSet(sold)
  <2>1. IsFiniteSet({kind[l] : l \in L})
    BY <1>3, Images
  <2> QED BY <1>5, <2>1
<1>8. \A q \in sold : revenue[q] \in Nat
  <2> TAKE q \in sold
  <2>1. Of(q) \subseteq L
    OBVIOUS
  <2>2. revenue[q] = Total(Of(q), a)
    BY <1>1
  <2> HIDE DEF Of
  <2>3. IsFiniteSet(Of(q)) /\ \A l \in Of(q) : a[l] \in Nat
    BY <1>3, <2>1, FS_Subset
  <2> QED BY <2>2, <2>3, TotalIsNat
<1> HIDE DEF sold
<1>9. Total(sold, revenue) = Total(L, a)
  <2> DEFINE Kind(q) == {l \in L : kind[l] = q}
             sums == [q \in sold |-> Total(Kind(q), a)]
  <2>1. \A l \in L : kind[l] \in sold
    BY <1>5
  <2>2. \A l \in L : a[l] \in Int
    BY <1>3
  <2>3. Total(sold, sums) = Total(L, a)
    BY <1>3, <1>7, <2>1, <2>2, TotalByKind
  <2>4. \A q : Of(q) = Kind(q)
    BY <1>6
  <2> HIDE DEF Kind, Of
  <2>5. sums = revenue
    BY <1>1, <2>4
  <2> QED BY <2>3, <2>5
<1>10. SumOf(list) = Total(top, revenue)
  <2>1. IsFiniteSet(top) /\ DOMAIN list = top /\ \A q \in top : list[q] = revenue[q]
    BY <1>2, <1>7, FS_Subset
  <2>2. Total(top, list) = Total(top, revenue)
    BY <2>1, TotalSame
  <2> QED BY <2>1, <2>2 DEF SumOf
<1>11. Total(top, revenue) <= Total(sold, revenue)
  BY <1>7, <1>8, TotalOfFewer
<1>12. sold \subseteq DOMAIN list => top = sold
  BY <1>2
<1> QED BY <1>4, <1>9, <1>10, <1>11, <1>12 DEF sold, L

\* The parts of the sales page and its total.
SalesParts(s, users, p, today) ==
  LET sales == Sales(s, users, p, today)
      yesterday == Resolve(p, today).from - 1
  IN /\ SumOf(sales.trend) = sales.totalSales
     /\ SumOf(sales.byCreator) = sales.totalSales
     /\ Total(Creators, [c \in Creators |-> SumOf(sales.creatorTrend[c])]) = sales.totalSales
     /\ \A list \in sales.bestSelling :
          /\ SumOf(list) <= sales.totalSales
          /\ {l[2] : l \in Lines(s, EarnedIn(s, Resolve(p, today)))} \subseteq DOMAIN list =>
               SumOf(list) = sales.totalSales
     /\ sales.previousTotalSales = Sales(s, users, p, yesterday).totalSales
     /\ SumOf(sales.byStatus) = sales.totalOrders

LEMMA SalesAdd ==
  ASSUME NEW s \in Seq(Order), \A i \in DOMAIN s : s[i].amount = SumOf(s[i].lines),
         NEW users, NEW p, IsPeriod(p), NEW today \in Int
  PROVE  SalesParts(s, users, p, today)
<1> DEFINE w == Resolve(p, today)
           paid == EarnedIn(s, w)
           a == Amounts(s)
           d == PaidAt(s)
           By(c) == {i \in paid : s[i].creator = c}
           placed == {j \in DOMAIN s : In(w, s[j].at)}
           Is(x) == {i \in placed : s[i].status = x}
           states == {"PENDING", "DELIVERED", "CANCELLED"}
           before == [from |-> Resolve(p, w.from - 1).from, to |-> w.from]
           sales == Sales(s, users, p, today)
<1>1. Partitions(w)
  BY WindowsOf
<1>2. /\ sales.totalSales = Total(paid, a)
      /\ sales.trend = Bucketize(paid, w, d, a)
      /\ sales.byCreator = [c \in Creators |-> Total(By(c), a)]
      /\ sales.creatorTrend = [c \in Creators |-> Bucketize(By(c), w, d, a)]
      /\ sales.bestSelling = BestSelling(Revenue(s, paid))
  BY DEF Sales, CreatorBreakdown
<1>3. /\ sales.previousTotalSales = Total(EarnedIn(s, before), a)
      /\ sales.byStatus = [x \in states |-> Cardinality(Is(x))]
      /\ sales.totalOrders = Cardinality(placed)
  BY DEF Sales
<1>4. Sales(s, users, p, w.from - 1).totalSales = Total(EarnedIn(s, Resolve(p, w.from - 1)), a)
  BY DEF Sales
<1>5. Resolve(p, w.from - 1).to = w.from
  BY ResolveAdjacent
<1> HIDE DEF w, sales
<1>6. SumOf(sales.trend) = sales.totalSales
  BY <1>1, <1>2, EarnedByBucket
<1>7. /\ SumOf(sales.byCreator) = sales.totalSales
      /\ Total(Creators, [c \in Creators |-> SumOf(sales.creatorTrend[c])]) = sales.totalSales
  <2> DEFINE kind == [i \in DOMAIN s |-> s[i].creator]
             Of(c) == {i \in paid : kind[i] = c}
  <2>1. \A i \in paid : kind[i] = s[i].creator /\ kind[i] \in Creators
    BY EarnedRows DEF Order
  <2>2. \A c : Of(c) = By(c)
    BY <2>1
  <2> HIDE DEF kind
  <2>3. /\ Total(Creators, [c \in Creators |-> Total(Of(c), a)]) = Total(paid, a)
        /\ Total(Creators, [c \in Creators |-> SumOf(Bucketize(Of(c), w, d, a))]) = Total(paid, a)
    BY <1>1, <2>1, Finite, EarnedByKind
  <2> HIDE DEF paid, a, d, Of, By
  <2>4. sales.byCreator = [c \in Creators |-> Total(Of(c), a)]
    BY <1>2, <2>2
  <2>5. SumOf(sales.byCreator) = Total(Creators, [c \in Creators |-> Total(Of(c), a)])
    BY <2>4 DEF SumOf
  <2>6. [c \in Creators |-> SumOf(sales.creatorTrend[c])] =
          [c \in Creators |-> SumOf(Bucketize(Of(c), w, d, a))]
    <3>1. \A c \in Creators : sales.creatorTrend[c] = Bucketize(Of(c), w, d, a)
      BY <1>2, <2>2
    <3> QED BY <3>1
  <2> QED BY <1>2, <2>3, <2>5, <2>6
<1>8. \A list \in sales.bestSelling :
        /\ SumOf(list) <= sales.totalSales
        /\ {l[2] : l \in Lines(s, paid)} \subseteq DOMAIN list => SumOf(list) = sales.totalSales
  <2>1. paid \in SUBSET (DOMAIN s)
    BY EarnedRows
  <2> HIDE DEF paid, a
  <2>2. \A list \in BestSelling(Revenue(s, paid)) :
          /\ SumOf(list) <= Total(paid, Amounts(s))
          /\ {l[2] : l \in Lines(s, paid)} \subseteq DOMAIN list =>
               SumOf(list) = Total(paid, Amounts(s))
    BY <2>1, BestSellersAdd
  <2> QED BY <1>2, <2>2 DEF a
<1>9. sales.previousTotalSales = Sales(s, users, p, w.from - 1).totalSales
  <2>1. EarnedIn(s, before) = EarnedIn(s, Resolve(p, w.from - 1))
    BY <1>5 DEF EarnedIn, In
  <2> QED BY <1>3, <1>4, <2>1
<1>10. SumOf(sales.byStatus) = sales.totalOrders
  <2> DEFINE kind == [i \in DOMAIN s |-> s[i].status]
             Of(x) == {i \in placed : kind[i] = x}
  <2>1. \A i \in placed : kind[i] = s[i].status /\ kind[i] \in states
    BY OrderRows DEF Order
  <2>2. \A x : Of(x) = Is(x)
    BY <2>1
  <2>3. IsFiniteSet(placed)
    <3>1. placed \subseteq DOMAIN s
      OBVIOUS
    <3> HIDE DEF placed
    <3> QED BY <3>1, OrderRows, FS_Subset
  <2>4. IsFiniteSet(states)
    BY Finite
  <2> HIDE DEF kind, placed, states
  <2>5. Total(states, [x \in states |-> Cardinality(Of(x))]) = Cardinality(placed)
    BY <2>1, <2>3, <2>4, CountByKind
  <2> HIDE DEF Of, Is
  <2>6. sales.byStatus = [x \in states |-> Cardinality(Of(x))]
    BY <1>3, <2>2
  <2>7. SumOf(sales.byStatus) = Total(states, [x \in states |-> Cardinality(Of(x))])
    BY <2>6 DEF SumOf
  <2> QED BY <1>3, <2>5, <2>7
<1> QED BY <1>6, <1>7, <1>8, <1>9, <1>10 DEF sales, w, SalesParts

\* What a line costs is shared out to the room types of its tile without a rest.
LEMMA RoomsAdd ==
  ASSUME NEW s \in Seq(Order), \A i \in DOMAIN s : s[i].lines = Lined(DOMAIN s[i].lines),
         NEW p, NEW today
  PROVE  LET rooms == ProjectTypes(s, RoomsOf, p, today)
         IN Total(DOMAIN rooms, [t \in DOMAIN rooms |-> rooms[t].revenue]) =
              Total({l \in Lines(s, EarnedIn(s, Resolve(p, today))) : RoomsOf[l[2]] # {}},
                    LineAmounts(s))
<1> DEFINE sold == Lines(s, EarnedIn(s, Resolve(p, today)))
           T == UNION {RoomsOf[q] : q \in DOMAIN RoomsOf}
           a == LineAmounts(s)
           to == [l \in sold |-> RoomsOf[l[2]]]
           share == [l \in sold |-> a[l] \div Cardinality(RoomsOf[l[2]])]
           Of(t) == {l \in sold : t \in RoomsOf[l[2]]}
           R == {l \in sold : RoomsOf[l[2]] # {}}
           rooms == ProjectTypes(s, RoomsOf, p, today)
<1>1. DOMAIN rooms = T /\ \A t \in T : rooms[t].revenue = Total(Of(t), share)
  BY DEF ProjectTypes
<1>2. IsFiniteSet(sold) /\ \A l \in sold : l[2] \in Products /\ a[l] = Price[l[2]]
  <2>1. EarnedIn(s, Resolve(p, today)) \in SUBSET (DOMAIN s)
    BY EarnedRows
  <2>2. /\ IsFiniteSet(sold)
        /\ \A l \in sold : /\ l[1] \in DOMAIN s /\ l[2] \in DOMAIN s[l[1]].lines
                           /\ l[2] \in Products /\ a[l] = s[l[1]].lines[l[2]]
    BY <2>1, LineRows
  <2> HIDE DEF sold, a
  <2>3. \A i \in DOMAIN s : \A q \in DOMAIN s[i].lines : s[i].lines[q] = Price[q]
    <3> TAKE i \in DOMAIN s
    <3>1. PICK l : l = s[i].lines
      OBVIOUS
    <3>2. l = Lined(DOMAIN l)
      BY <3>1
    <3>3. \A q \in DOMAIN l : l[q] = Price[q]
      BY <3>2 DEF Lined
    <3> QED BY <3>1, <3>3
  <2> QED BY <2>2, <2>3
<1>3. /\ DOMAIN RoomsOf = Products /\ IsFiniteSet(T) /\ Price \in [Products -> Nat]
      /\ \A q \in Products : RoomsOf[q] # {} => Price[q] % Cardinality(RoomsOf[q]) = 0
  BY StorefrontConstants
<1>4. \A l \in sold : /\ to[l] = RoomsOf[l[2]] /\ to[l] \subseteq T
                      /\ share[l] = a[l] \div Cardinality(to[l])
  BY <1>2, <1>3
<1>5. \A t \in T : Of(t) = {l \in R : t \in to[l]}
  BY <1>4
<1>6. IsFiniteSet(R) /\ \A l \in R : l \in sold /\ to[l] # {}
  <2>1. R \subseteq sold /\ \A l \in R : l \in sold /\ to[l] # {}
    BY <1>4
  <2> HIDE DEF R, sold
  <2> QED BY <1>2, <2>1, FS_Subset
<1> HIDE DEF share, to, rooms, sold, a
<1>7. \A l \in R : /\ share[l] \in Int /\ Cardinality(to[l]) * share[l] = a[l]
  <2> TAKE l \in R
  <2>1. l \in sold /\ to[l] # {} /\ to[l] \subseteq T
    BY <1>4, <1>6
  <2>2. IsFiniteSet(to[l])
    BY <1>3, <2>1, FS_Subset
  <2>3. Cardinality(to[l]) \in Nat /\ Cardinality(to[l]) # 0
    BY <2>1, <2>2, FS_CardinalityType, FS_EmptySet
  <2>4. PICK x \in Nat : x = Price[l[2]]
    BY <1>2, <1>3, <2>1
  <2>5. x % Cardinality(to[l]) = 0 /\ a[l] = x
    BY <1>2, <1>3, <1>4, <2>1, <2>4
  <2>6. PICK c \in Nat \ {0} : c = Cardinality(to[l])
    BY <2>3
  <2>7. x % c = 0 => x \div c \in Int /\ c * (x \div c) = x
    OBVIOUS
  <2> QED BY <1>4, <2>1, <2>5, <2>6, <2>7
<1>8. Total(T, [t \in T |-> Total({l \in R : t \in to[l]}, share)]) =
        Total(R, [l \in R |-> Cardinality(to[l]) * share[l]])
  <2>1. \A l \in R : to[l] \subseteq T
    BY <1>4, <1>6
  <2>2. \A l \in R : share[l] \in Int
    BY <1>7
  <2> HIDE DEF R, T
  <2> QED BY <1>3, <1>6, <2>1, <2>2, TotalShared
<1>9. Total(R, [l \in R |-> Cardinality(to[l]) * share[l]]) = Total(R, a)
  <2> DEFINE whole == [l \in R |-> Cardinality(to[l]) * share[l]]
  <2>1. \A l \in R : whole[l] = a[l]
    BY <1>7
  <2> HIDE DEF whole, R
  <2>2. Total(R, whole) = Total(R, a)
    BY <1>6, <2>1, TotalSame
  <2> QED BY <2>2 DEF whole
<1>10. Total(DOMAIN rooms, [t \in DOMAIN rooms |-> rooms[t].revenue]) =
         Total(T, [t \in T |-> Total({l \in R : t \in to[l]}, share)])
  <2> DEFINE Part(t) == {l \in R : t \in to[l]}
  <2>1. \A t \in T : Of(t) = Part(t)
    BY <1>5
  <2> HIDE DEF Of, Part, T
  <2>2. \A t \in T : rooms[t].revenue = Total(Part(t), share)
    BY <1>1, <2>1
  <2>3. [t \in DOMAIN rooms |-> rooms[t].revenue] = [t \in T |-> Total(Part(t), share)]
    BY <1>1, <2>2
  <2>4. Total(DOMAIN rooms, [t \in DOMAIN rooms |-> rooms[t].revenue]) =
          Total(T, [t \in T |-> Total(Part(t), share)])
    BY <1>1, <2>3
  <2> QED BY <2>4 DEF Part
<1> QED BY <1>8, <1>9, <1>10 DEF rooms, sold, a

LEMMA StockAdds ==
  ASSUME NEW m \in Seq(Move), NEW w, Partitions(w)
  PROVE  /\ SumOf(StockSummary(m, w).trend) = StockSummary(m, w).netChange
         /\ SumOf(StockSummary(m, w).byType) = StockSummary(m, w).netChange
<1> DEFINE some == {i \in DOMAIN m : In(w, m[i].at)}
           change == [i \in DOMAIN m |-> m[i].change]
           kind == [i \in DOMAIN m |-> m[i].type]
           date == Dates(m)
           up == {i \in some : m[i].change > 0}
           down == {i \in some : m[i].change < 0}
           same == {i \in some : m[i].change = 0}
           types == {"INBOUND", "OUTBOUND", "ADJUSTMENT"}
           Is(x) == {i \in some : m[i].type = x}
           Of(x) == {i \in some : kind[i] = x}
           stock == StockSummary(m, w)
<1>1. /\ stock.netChange = Total(up, change) + Total(down, change)
      /\ stock.trend = Bucketize(some, w, date, change)
      /\ stock.byType = [x \in types |-> Total(Is(x), change)]
  BY DEF StockSummary
<1>2. DOMAIN m = 1 .. Len(m) /\ Len(m) \in Nat /\ \A i \in DOMAIN m : m[i] \in Move
  BY LenProperties
<1>3. \A i \in some : /\ change[i] = m[i].change /\ change[i] \in Int /\ kind[i] \in types
                      /\ kind[i] = m[i].type
                      /\ date[i] = m[i].at /\ date[i] \in Int /\ In(w, date[i])
  BY <1>2 DEF Move, Dates
<1>4. IsFiniteSet(some)
  <2>1. IsFiniteSet(DOMAIN m) /\ some \subseteq DOMAIN m
    BY <1>2, FS_Interval
  <2> HIDE DEF some
  <2> QED BY <2>1, FS_Subset
<1>5. /\ (up \cup down) \cup same = some /\ up \cap down = {} /\ (up \cup down) \cap same = {}
      /\ \A i \in same : change[i] = 0
  BY <1>3
<1> HIDE DEF change, kind, date, some, stock
<1>6. Total(some, change) = Total(up, change) + Total(down, change)
  <2>1. up \subseteq some /\ down \subseteq some /\ same \subseteq some /\ up \cup down \subseteq some
    OBVIOUS
  <2> HIDE DEF up, down, same
  <2>2. IsFiniteSet(up) /\ IsFiniteSet(down) /\ IsFiniteSet(same) /\ IsFiniteSet(up \cup down)
    BY <1>4, <2>1, FS_Subset
  <2>3. Total(up \cup down, change) = Total(up, change) + Total(down, change)
    BY <1>3, <1>5, <2>1, <2>2, TotalUnion
  <2>4. Total((up \cup down) \cup same, change) = Total(up \cup down, change) + Total(same, change)
    BY <1>3, <1>5, <2>1, <2>2, TotalUnion
  <2>5. Total(same, change) = 0
    BY <1>5, <2>2, TotalOfZeros
  <2>6. Total(up \cup down, change) \in Int
    BY <1>3, <2>1, <2>2, TotalIsInt
  <2>7. Total(some, change) = Total(up \cup down, change) + Total(same, change)
    BY <1>5, <2>4
  <2> QED BY <2>3, <2>5, <2>6, <2>7
<1>7. SumOf(stock.trend) = stock.netChange
  <2>1. SumOf(Bucketize(some, w, date, change)) = Total({i \in some : In(w, date[i])}, change)
    BY <1>3, <1>4, BucketsAddUp
  <2>2. {i \in some : In(w, date[i])} = some
    BY <1>3
  <2> QED BY <1>1, <1>6, <2>1, <2>2
<1>8. SumOf(stock.byType) = stock.netChange
  <2>1. \A x : Of(x) = Is(x)
    BY <1>3
  <2>2. Total(types, [x \in types |-> Total(Of(x), change)]) = Total(some, change)
    <3>1. IsFiniteSet(types) /\ \A i \in some : kind[i] \in types /\ change[i] \in Int
      BY <1>3, Finite
    <3> HIDE DEF types
    <3> QED BY <1>4, <3>1, TotalByKind
  <2> HIDE DEF Of, Is, types
  <2>3. stock.byType = [x \in types |-> Total(Of(x), change)]
    BY <1>1, <2>1
  <2>4. SumOf(stock.byType) = Total(types, [x \in types |-> Total(Of(x), change)])
    BY <2>3 DEF SumOf
  <2> QED BY <1>1, <1>6, <2>2, <2>4
<1> QED BY <1>7, <1>8 DEF stock

LEMMA TablesAre ==
  ASSUME Inv, Books
  PROVE  /\ orders \in Seq(Order) /\ moves \in Seq(Move) /\ acts \in Seq(Act)
         /\ journey \in Seq(Row) /\ day \in Nat /\ \A p \in Periods : IsPeriod(p)
         /\ \A i \in DOMAIN orders : /\ orders[i].amount = SumOf(orders[i].lines)
                                     /\ orders[i].lines = Lined(DOMAIN orders[i].lines)
<1>1. /\ orders \in Seq(Order) /\ moves \in Seq(Move) /\ acts \in Seq(Act)
      /\ journey \in Seq(Row) /\ day \in Nat /\ \A p \in Periods : IsPeriod(p)
  BY Days DEF Inv, Types, Books
<1>2. \A i \in DOMAIN orders : Sound(orders[i])
  BY DEF Books
<1>3. \A o : Sound(o) => o.amount = SumOf(o.lines) /\ o.lines = Lined(DOMAIN o.lines)
  BY DEF Sound
<1> QED BY <1>1, <1>2, <1>3

\* The parts of the sales page add up to its total, whatever they are taken by, and
\* the next window shows the same total for this one; the best sellers, of which the
\* page lists ten at most, stay below it and make it up where no tile that sold is
\* missing; what stock movements add up to is the net change, over a period of the
\* page and over any chosen dates (creatorBreakdown, bucketize, sales,
\* projectTypeDistribution, stockSummaryForPeriod, resolveStockExportPeriod).
THEOREM SalesPageAddsUp == Spec => []SalesAddUp
<1>1. Inv /\ Books => SalesAddUp
  <2> SUFFICES ASSUME Inv, Books PROVE SalesAddUp
    OBVIOUS
  <2>1. PICK s, m, today : s = orders /\ m = moves /\ today = day
    OBVIOUS
  <2>2. /\ s \in Seq(Order) /\ m \in Seq(Move) /\ today \in Nat /\ today \in Int
        /\ \A p \in Periods : IsPeriod(p)
        /\ \A i \in DOMAIN s : s[i].amount = SumOf(s[i].lines)
        /\ \A i \in DOMAIN s : s[i].lines = Lined(DOMAIN s[i].lines)
    BY <2>1, TablesAre
  <2>3. ASSUME NEW p \in Periods
        PROVE  SalesParts(s, Users, p, today)
    BY <2>2, <2>3, SalesAdd
  <2>4. ASSUME NEW p \in Periods
        PROVE  LET rooms == ProjectTypes(s, RoomsOf, p, today)
               IN Total(DOMAIN rooms, [t \in DOMAIN rooms |-> rooms[t].revenue]) =
                    Total({l \in Lines(s, EarnedIn(s, Resolve(p, today))) : RoomsOf[l[2]] # {}},
                          LineAmounts(s))
    BY <2>2, <2>4, RoomsAdd
  <2>5. ASSUME NEW p \in Periods
        PROVE  LET stock == StockSummary(m, Resolve(p, today))
               IN /\ SumOf(stock.trend) = stock.netChange
                  /\ SumOf(stock.byType) = stock.netChange
    <3>1. Partitions(Resolve(p, today))
      BY <2>2, <2>5, WindowsOf
    <3> QED BY <2>2, <3>1, StockAdds
  <2>6. ASSUME NEW from \in 1 .. today, NEW last \in from .. today, NEW most \in {1, MaxDay}
        PROVE  LET stock == StockSummary(m, ExportPeriod(from, last, most, 2))
               IN SumOf(stock.trend) = stock.netChange
    <3>1. from \in Int /\ last \in Int /\ from <= last /\ 2 \in Nat \ {0}
      BY <2>2, <2>6
    <3>2. Partitions(ExportPeriod(from, last, most, 2))
      BY <3>1, ExportPartitions
    <3> QED BY <2>2, <3>2, StockAdds
  <2> QED BY <2>1, <2>3, <2>4, <2>5, <2>6 DEF SalesAddUp, SalesParts, Yesterday
<1> QED BY <1>1, BooksHold, PTL

-----------------------------------------------------------------------------
(* Pages that show the same figure agree.                                  *)

Placed(s, w) == {i \in DOMAIN s : In(w, s[i].at)}
\* The rows S of a table that fall into a window.
During(table, S, w) == {j \in S : In(w, table[j].at)}
\* The orders and the customers that the rows S of a table name.
OrdersNamed(table, S) == {table[j].order : j \in S}
UsersNamed(table, S) == {table[j].user : j \in S}

\* The rows of the payments in a window are as many as the orders that earned in it.
LEMMA TallyCounts ==
  ASSUME NEW table, NEW S, IsFiniteSet(S), NEW s, Tallied(table, S, s), NEW w
  PROVE  /\ Cardinality(During(table, S, w)) = Cardinality(EarnedIn(s, w))
         /\ OrdersNamed(table, During(table, S, w)) = EarnedIn(s, w)
         /\ UsersNamed(table, During(table, S, w)) =
              {s[i].customer : i \in EarnedIn(s, w)}
<1> DEFINE R == {j \in S : In(w, table[j].at)}
           f == [j \in S |-> table[j].order]
<1>1. \A j \in R : f[j] = table[j].order /\ f[j] \in EarnedIn(s, w)
                   /\ table[j].user = s[f[j]].customer
  BY DEF Tallied, EarnedIn
<1>2. \A i \in EarnedIn(s, w) : \E j \in R : f[j] = i
  <2> TAKE i \in EarnedIn(s, w)
  <2>1. PICK j \in S : table[j].order = i
    BY DEF Tallied, EarnedIn
  <2>2. table[j].at = s[i].paidAt /\ In(w, s[i].paidAt)
    BY <2>1 DEF Tallied, EarnedIn
  <2> QED BY <2>1, <2>2
<1>3. {f[j] : j \in R} = EarnedIn(s, w)
  BY <1>1, <1>2
<1>4. \A j, k \in R : f[j] = f[k] => j = k
  BY DEF Tallied
<1>5. IsFiniteSet(R)
  BY FS_Subset
<1>6. {table[j].user : j \in R} = {s[i].customer : i \in EarnedIn(s, w)}
  BY <1>1, <1>2
<1>7. {table[j].order : j \in R} = EarnedIn(s, w)
  BY <1>1, <1>2
<1> HIDE DEF R, f
<1>8. Cardinality({f[j] : j \in R}) = Cardinality(R)
  BY <1>4, <1>5, Images
<1> QED BY <1>3, <1>6, <1>7, <1>8 DEF R, During, OrdersNamed, UsersNamed

\* The rows R of a table are as many as the lines of these orders, tile by tile and
\* altogether.
Counted(table, R, s, earned) ==
  /\ \A q : Cardinality({j \in R : table[j].product = q}) =
              Cardinality({i \in earned : q \in DOMAIN s[i].lines})
  /\ Cardinality(R) = Cardinality(Lines(s, earned))
LEMMA LineCounts ==
  ASSUME NEW table, NEW S, IsFiniteSet(S), NEW s, LineTallied(table, S, s), NEW w
  PROVE  Counted(table, During(table, S, w), s, EarnedIn(s, w))
<1> DEFINE R == {j \in S : In(w, table[j].at)}
           earned == EarnedIn(s, w)
<1>1. IsFiniteSet(R)
  BY FS_Subset
<1>2. \A j \in R : table[j].order \in earned /\ table[j].product \in DOMAIN s[table[j].order].lines
  BY DEF LineTallied, EarnedIn
<1>3. \A i \in earned : \A q \in DOMAIN s[i].lines :
        \E j \in R : table[j].order = i /\ table[j].product = q
  <2> TAKE i \in earned
  <2> TAKE q \in DOMAIN s[i].lines
  <2>1. PICK j \in S : table[j].order = i /\ table[j].product = q
    BY DEF LineTallied, EarnedIn
  <2>2. table[j].at = s[i].paidAt /\ In(w, s[i].paidAt)
    BY <2>1 DEF LineTallied, EarnedIn
  <2> QED BY <2>1, <2>2
<1>4. \A j, k \in R :
        table[j].order = table[k].order /\ table[j].product = table[k].product => j = k
  BY DEF LineTallied
<1> HIDE DEF R, earned
<1>5. ASSUME NEW q
      PROVE  Cardinality({j \in R : table[j].product = q}) =
               Cardinality({i \in earned : q \in DOMAIN s[i].lines})
  <2> DEFINE Q == {j \in R : table[j].product = q}
             f == [j \in R |-> table[j].order]
  <2>1. \A j \in Q : j \in R /\ table[j].product = q /\ f[j] = table[j].order
    OBVIOUS
  <2>2. {f[j] : j \in Q} = {i \in earned : q \in DOMAIN s[i].lines}
    <3>1. ASSUME NEW j \in Q PROVE f[j] \in earned /\ q \in DOMAIN s[f[j]].lines
      BY <1>2, <2>1
    <3>2. ASSUME NEW i \in earned, q \in DOMAIN s[i].lines PROVE \E j \in Q : f[j] = i
      <4>1. PICK j \in R : table[j].order = i /\ table[j].product = q
        BY <1>3, <3>2
      <4> QED BY <4>1
    <3> HIDE DEF Q, f
    <3> QED BY <3>1, <3>2
  <2>3. \A j, k \in Q : f[j] = f[k] => j = k
    BY <1>4, <2>1
  <2>4. IsFiniteSet(Q)
    BY <1>1, FS_Subset
  <2> HIDE DEF Q, f
  <2>5. Cardinality({f[j] : j \in Q}) = Cardinality(Q)
    BY <2>3, <2>4, Images
  <2> QED BY <2>2, <2>5 DEF Q
<1>6. Cardinality(R) = Cardinality(Lines(s, earned))
  <2> DEFINE f == [j \in R |-> <<table[j].order, table[j].product>>]
  <2>1. \A j \in R : f[j] = <<table[j].order, table[j].product>>
    OBVIOUS
  <2>2. {f[j] : j \in R} = Lines(s, earned)
    <3>1. ASSUME NEW j \in R PROVE f[j] \in Lines(s, earned)
      BY <1>2, <2>1 DEF Lines
    <3>2. ASSUME NEW l \in Lines(s, earned) PROVE \E j \in R : f[j] = l
      <4>1. PICK i \in earned : l \in {<<i, q>> : q \in DOMAIN s[i].lines}
        BY <3>2 DEF Lines
      <4>2. PICK q \in DOMAIN s[i].lines : l = <<i, q>>
        BY <4>1
      <4>3. PICK j \in R : table[j].order = i /\ table[j].product = q
        BY <1>3
      <4> QED BY <2>1, <4>2, <4>3
    <3> HIDE DEF f
    <3> QED BY <3>1, <3>2
  <2>3. \A j, k \in R : f[j] = f[k] => j = k
    BY <1>4, <2>1
  <2> HIDE DEF f
  <2>4. Cardinality({f[j] : j \in R}) = Cardinality(R)
    BY <1>1, <2>3, Images
  <2> QED BY <2>2, <2>4
<1> QED BY <1>5, <1>6 DEF R, earned, During, Counted

\* An order that was paid has a date of payment, and only such an order has one.
LEMMA RepeatAgree ==
  ASSUME NEW s \in Seq(Order), NEW users, \A i \in DOMAIN s : Sound(s[i])
  PROVE  RepeatCustomers(s, users, FALSE) = RepeatCustomers(s, users, TRUE)
<1> DEFINE Paid(c, dated) == {i \in DOMAIN s :
             /\ s[i].customer = c
             /\ s[i].quotation = "VERIFIED" /\ s[i].status # "CANCELLED"
             /\ dated => s[i].paidAt # 0}
<1>1. \A c : Paid(c, FALSE) = Paid(c, TRUE)
  BY DEF Sound
<1>2. \A d : RepeatCustomers(s, users, d) = {c \in users : Cardinality(Paid(c, d)) > 1}
  BY DEF RepeatCustomers
<1> HIDE DEF Paid
<1> QED BY <1>1, <1>2

\* The tile page counts the rows of the payments, tile by tile and altogether.
Shown(tiles, active, table, R) ==
  /\ tiles.totals["PURCHASED"] = Cardinality(R)
  /\ \A q \in active : tiles.rows[q]["PURCHASED"] = Cardinality({j \in R : table[j].product = q})
LEMMA TilesCount ==
  ASSUME NEW a, IsFiniteSet(DOMAIN a), NEW active, NEW p, NEW today
  PROVE  Shown(Tiles(a, active, p, today), active, a,
               During(a, {k \in DOMAIN a : a[k].type = "PURCHASED"}, Resolve(p, today)))
<1> DEFINE w == Resolve(p, today)
           R == {j \in {k \in DOMAIN a : a[k].type = "PURCHASED"} : In(w, a[j].at)}
           kind == [j \in DOMAIN a |-> a[j].product]
           seen == {a[i].product : i \in DOMAIN a}
           Count(q, type) == Cardinality({i \in DOMAIN a :
             In(w, a[i].at) /\ a[i].product = q /\ a[i].type = type})
           Of(q) == {j \in R : kind[j] = q}
<1>1. Tiles(a, active, p, today).totals["PURCHASED"] =
        Total(seen, [q \in seen |-> Count(q, "PURCHASED")])
  BY DEF Tiles
<1>2. \A q : Count(q, "PURCHASED") = Cardinality(Of(q))
  <2> TAKE q
  <2>1. {i \in DOMAIN a : In(w, a[i].at) /\ a[i].product = q /\ a[i].type = "PURCHASED"} = Of(q)
    OBVIOUS
  <2> QED BY <2>1
<1>3. seen = {kind[i] : i \in DOMAIN a}
  OBVIOUS
<1>4. \A j \in R : kind[j] \in seen
  OBVIOUS
<1>5. IsFiniteSet(R)
  BY FS_Subset
<1> HIDE DEF kind
<1>6. IsFiniteSet({kind[i] : i \in DOMAIN a})
  BY Images
<1> HIDE DEF R, seen
<1>7. Total(seen, [q \in seen |-> Cardinality(Of(q))]) = Cardinality(R)
  <2>1. IsFiniteSet(seen)
    BY <1>3, <1>6
  <2> QED BY <1>4, <1>5, <2>1, CountByKind
<1>8. [q \in seen |-> Count(q, "PURCHASED")] = [q \in seen |-> Cardinality(Of(q))]
  <2> HIDE DEF Count, Of
  <2> QED BY <1>2
<1>9. \A q \in active : Tiles(a, active, p, today).rows[q]["PURCHASED"] = Count(q, "PURCHASED")
  BY DEF Tiles
<1>10. \A q : Of(q) = {j \in R : a[j].product = q}
  BY DEF R, kind
<1> HIDE DEF Of, Count
<1>11. \A q \in active : Tiles(a, active, p, today).rows[q]["PURCHASED"] =
                          Cardinality({j \in R : a[j].product = q})
  BY <1>2, <1>9, <1>10
<1>12. Tiles(a, active, p, today).totals["PURCHASED"] = Cardinality(R)
  BY <1>1, <1>7, <1>8
<1>13. R = During(a, {k \in DOMAIN a : a[k].type = "PURCHASED"}, Resolve(p, today))
  BY DEF R, w, During
<1> QED BY <1>11, <1>12, <1>13 DEF Shown

\* What was delivered had been paid.
LEMMA ListedArePaid ==
  ASSUME NEW s, \A i \in DOMAIN s : Sound(s[i]), NEW j, NEW a, NEW w
  PROVE  StageDetail("PURCHASED", j, s, a, w).actions \subseteq {i \in DOMAIN s : Earned(s[i])}
<1> DEFINE users == StageDetail("PURCHASED", j, s, a, w).users
<1>1. StageDetail("PURCHASED", j, s, a, w).actions = StageActions("PURCHASED", users, s, a, w)
  BY DEF StageDetail
<1> HIDE DEF users
<1>2. StageActions("PURCHASED", users, s, a, w) =
        {i \in DOMAIN s : s[i].customer \in users /\ s[i].status = "DELIVERED"}
  BY DEF StageActions
<1>3. \A i \in DOMAIN s : s[i].status = "DELIVERED" => Earned(s[i])
  BY DEF Sound, Earned
<1> QED BY <1>1, <1>2, <1>3

LEMMA OrdersAreRequests ==
  ASSUME NEW s \in Seq(Order), NEW q \in Seq(Quote), NEW w
  PROVE  Cardinality(Placed(s, w)) <= RequestedQuotationDetail(s, q, w).requests
<1> DEFINE asked == {i \in DOMAIN s : In(w, s[i].at)}
           quoted == {i \in DOMAIN q : In(w, q[i].at)}
<1>1. RequestedQuotationDetail(s, q, w).requests = Cardinality(asked) + Cardinality(quoted)
  BY DEF RequestedQuotationDetail
<1>2. IsFiniteSet(asked)
  <2>1. asked \subseteq DOMAIN s
    OBVIOUS
  <2> HIDE DEF asked
  <2> QED BY <2>1, OrderRows, FS_Subset
<1>3. IsFiniteSet(quoted)
  <2>1. quoted \subseteq 1 .. Len(q) /\ Len(q) \in Nat
    BY LenProperties
  <2>2. IsFiniteSet(1 .. Len(q))
    BY <2>1, FS_Interval
  <2> HIDE DEF quoted
  <2> QED BY <2>1, <2>2, FS_Subset
<1> HIDE DEF asked, quoted
<1>4. Cardinality(asked) \in Nat /\ Cardinality(quoted) \in Nat
  BY <1>2, <1>3, FS_CardinalityType
<1> QED BY <1>1, <1>4 DEF asked, Placed

\* Pages that show the same figure agree on it: overview, sales and customers read
\* the orders with the same conditions; the journey has one row for each payment that
\* was verified and not cancelled since, and the tile page one for each line of such a
\* payment, tile by tile, dated with the payment (overview, sales, customers, tiles,
\* journeyStageDetail, requestedQuotationStageDetail; deductOrderStock,
\* returnOrderStock).
THEOREM PagesShowTheSame == Spec => []PagesAgree
<1>1. Inv /\ Books => PagesAgree
  <2> SUFFICES ASSUME Inv, Books, NEW p \in Periods
               PROVE  LET w == Resolve(p, day)
                          overview == Overview(orders, Users, p, day)
                          sales == Sales(orders, Users, p, day)
                          purchased == {i \in DOMAIN journey : /\ journey[i].stage = "PURCHASED"
                                                               /\ In(w, journey[i].at)}
                      IN /\ overview.totalSales = sales.totalSales
                         /\ overview.revenueTrend = sales.trend
                         /\ overview.totalOrders = sales.totalOrders
                         /\ overview.byCreator = sales.byCreator
                         /\ overview.creatorTrend = sales.creatorTrend
                         /\ overview.pendingOrders = sales.unpaidOrders
                         /\ overview.repeat = sales.repeat
                         /\ overview.repeat = Customers(orders, Users, p, day).repeat
                         /\ \A x \in Products : Tiles(acts, Products, p, day).rows[x]["PURCHASED"] =
                              Cardinality({i \in EarnedIn(orders, w) : x \in DOMAIN orders[i].lines})
                         /\ Tiles(acts, Products, p, day).totals["PURCHASED"] =
                              Cardinality(Lines(orders, EarnedIn(orders, w)))
                         /\ Cardinality(purchased) = sales.paidOrders
                         /\ {journey[i].order : i \in purchased} = EarnedIn(orders, w)
                         /\ StageDetail("PURCHASED", journey, orders, acts, w).actions
                              \subseteq {i \in DOMAIN orders : Earned(orders[i])}
                         /\ sales.totalOrders <= RequestedQuotationDetail(orders, quotes, w).requests
    BY DEF PagesAgree
  <2>1. PICK s, a, j, q, today, w : /\ s = orders /\ a = acts /\ j = journey /\ q = quotes
                                    /\ today = day /\ w = Resolve(p, today)
    OBVIOUS
  <2>2. /\ s \in Seq(Order) /\ q \in Seq(Quote) /\ \A i \in DOMAIN s : Sound(s[i])
        /\ IsFiniteSet(DOMAIN a) /\ IsFiniteSet(DOMAIN j)
    <3>1. s \in Seq(Order) /\ q \in Seq(Quote) /\ \A i \in DOMAIN s : Sound(s[i])
      BY <2>1 DEF Inv, Types, Books
    <3>2. a \in Seq(Act) /\ j \in Seq(Row)
      BY <2>1 DEF Inv, Types, Books
    <3>3. DOMAIN a = 1 .. Len(a) /\ DOMAIN j = 1 .. Len(j) /\ Len(a) \in Nat /\ Len(j) \in Nat
      BY <3>2, LenProperties
    <3> QED BY <3>1, <3>3, FS_Interval
  <2> DEFINE sold == {k \in DOMAIN a : a[k].type = "PURCHASED"}
             bought == {k \in DOMAIN j : j[k].stage = "PURCHASED"}
             overview == Overview(s, Users, p, today)
             sales == Sales(s, Users, p, today)
             purchased(rs, x) == {i \in DOMAIN rs : /\ rs[i].stage = "PURCHASED"
                                                    /\ In(x, rs[i].at)}
  <2>3. LineTallied(a, sold, s)
    BY <2>1 DEF Books, Sold
  <2>4. Tallied(j, bought, s)
    BY <2>1 DEF Books, Bought
  <2>5. IsFiniteSet(sold) /\ IsFiniteSet(bought)
    BY <2>2, FS_Subset
  <2>6. {i \in DOMAIN j : j[i].stage = "PURCHASED" /\ In(w, j[i].at)} = During(j, bought, w)
    BY DEF During
  <2> HIDE DEF sold, bought, overview, sales, purchased
  <2>7. /\ overview.totalSales = sales.totalSales /\ overview.revenueTrend = sales.trend
        /\ overview.totalOrders = sales.totalOrders
        /\ overview.byCreator = sales.byCreator
        /\ overview.creatorTrend = sales.creatorTrend
        /\ overview.pendingOrders = sales.unpaidOrders
        /\ overview.repeat = RepeatCustomers(s, Users, FALSE) /\ sales.repeat = overview.repeat
        /\ sales.paidOrders = Cardinality(EarnedIn(s, w))
        /\ sales.totalOrders = Cardinality(Placed(s, w))
    BY <2>1 DEF overview, sales, Overview, Sales, Placed
  <2>8. Customers(s, Users, p, today).repeat = RepeatCustomers(s, Users, TRUE)
    BY DEF Customers
  <2>9. RepeatCustomers(s, Users, FALSE) = RepeatCustomers(s, Users, TRUE)
    BY <2>2, RepeatAgree
  <2>10. Counted(a, During(a, sold, w), s, EarnedIn(s, w))
    BY <2>3, <2>5, LineCounts
  <2>11. /\ Cardinality(During(j, bought, w)) = Cardinality(EarnedIn(s, w))
         /\ OrdersNamed(j, During(j, bought, w)) = EarnedIn(s, w)
    BY <2>4, <2>5, TallyCounts
  <2>12. Shown(Tiles(a, Products, p, today), Products, a, During(a, sold, w))
    <3>1. During(a, sold, w) =
            During(a, {k \in DOMAIN a : a[k].type = "PURCHASED"}, Resolve(p, today))
      BY <2>1 DEF sold
    <3>2. Shown(Tiles(a, Products, p, today), Products, a,
                During(a, {k \in DOMAIN a : a[k].type = "PURCHASED"}, Resolve(p, today)))
      BY <2>2, TilesCount
    <3> QED BY <3>1, <3>2
  <2>13. StageDetail("PURCHASED", j, s, a, w).actions \subseteq {i \in DOMAIN s : Earned(s[i])}
    BY <2>2, ListedArePaid
  <2>14. Cardinality(Placed(s, w)) <= RequestedQuotationDetail(s, q, w).requests
    BY <2>2, OrdersAreRequests
  <2>15. /\ Cardinality(purchased(j, w)) = sales.paidOrders
         /\ {j[i].order : i \in purchased(j, w)} = EarnedIn(s, w)
    BY <2>6, <2>7, <2>11 DEF purchased, OrdersNamed
  <2>16. /\ overview = Overview(orders, Users, p, day) /\ sales = Sales(orders, Users, p, day)
         /\ purchased(j, w) = purchased(journey, Resolve(p, day))
    BY <2>1 DEF overview, sales
  <2>17. /\ overview.repeat = Customers(orders, Users, p, day).repeat
         /\ Tiles(acts, Products, p, day).totals["PURCHASED"] =
              Cardinality(Lines(orders, EarnedIn(orders, Resolve(p, day))))
         /\ sales.totalOrders <= RequestedQuotationDetail(orders, quotes, Resolve(p, day)).requests
    BY <2>1, <2>7, <2>8, <2>9, <2>10, <2>12, <2>14 DEF Counted, Shown
  <2>18. \A x \in Products : Tiles(acts, Products, p, day).rows[x]["PURCHASED"] =
           Cardinality({i \in EarnedIn(orders, Resolve(p, day)) : x \in DOMAIN orders[i].lines})
    <3>1. \A x \in Products : Tiles(a, Products, p, today).rows[x]["PURCHASED"] =
            Cardinality({i \in EarnedIn(s, w) : x \in DOMAIN s[i].lines})
      BY <2>10, <2>12 DEF Counted, Shown
    <3> QED BY <2>1, <3>1
  <2>19. StageDetail("PURCHASED", journey, orders, acts, Resolve(p, day)).actions
           \subseteq {i \in DOMAIN orders : Earned(orders[i])}
    BY <2>1, <2>13
  <2>20. /\ Cardinality(purchased(journey, Resolve(p, day))) = sales.paidOrders
         /\ {journey[i].order : i \in purchased(journey, Resolve(p, day))}
              = EarnedIn(orders, Resolve(p, day))
    BY <2>1, <2>15, <2>16
  <2> HIDE DEF overview, sales
  <2> QED BY <2>7, <2>16, <2>17, <2>18, <2>19, <2>20 DEF purchased
<1> QED BY <1>1, BooksHold, PTL

-----------------------------------------------------------------------------
(* The funnel of the customer journey.                                     *)

\* Each stage has one place in the journey.
LEMMA StagesAre ==
  /\ DOMAIN Stages = 1 .. 8 /\ Len(Stages) = 8 /\ Stages[8] = "PURCHASED"
  /\ \A k \in 1 .. 8 : StageIndex(Stages[k]) = k
<1>1. /\ DOMAIN Stages = 1 .. 8 /\ Len(Stages) = 8
      /\ Stages[1] = "OPENED_SYSTEM" /\ Stages[2] = "VIEWED_TILE" /\ Stages[3] = "APPLIED_TILE"
      /\ Stages[4] = "SAVED_DESIGN" /\ Stages[5] = "REQUESTED_QUOTATION"
      /\ Stages[6] = "NEGOTIATED" /\ Stages[7] = "PLACED_ORDER" /\ Stages[8] = "PURCHASED"
  BY DEF Stages
<1>2. \A k, l \in 1 .. 8 : Stages[k] = Stages[l] => k = l
  <2> HIDE DEF Stages
  <2>1. \A k \in 1 .. 8 : \/ k = 1 \/ k = 2 \/ k = 3 \/ k = 4 \/ k = 5 \/ k = 6 \/ k = 7 \/ k = 8
    OBVIOUS
  <2> QED BY <1>1, <2>1
<1>3. \A k \in 1 .. 8 : StageIndex(Stages[k]) = k
  BY <1>1, <1>2 DEF StageIndex
<1> QED BY <1>1, <1>3

LEMMA RowsHaveStages ==
  ASSUME NEW r \in Row
  PROVE  StageIndex(r.stage) \in 1 .. 8 /\ Stages[StageIndex(r.stage)] = r.stage
<1>1. \E k \in 1 .. 8 : Stages[k] = r.stage
  <2>1. r.stage \in {"OPENED_SYSTEM", "VIEWED_TILE", "SAVED_DESIGN", "REQUESTED_QUOTATION",
                     "NEGOTIATED", "PLACED_ORDER", "PURCHASED"}
    BY DEF Row, ToldStages, JourneyStages
  <2>2. /\ Stages[1] = "OPENED_SYSTEM" /\ Stages[2] = "VIEWED_TILE"
        /\ Stages[4] = "SAVED_DESIGN" /\ Stages[5] = "REQUESTED_QUOTATION"
        /\ Stages[6] = "NEGOTIATED" /\ Stages[7] = "PLACED_ORDER" /\ Stages[8] = "PURCHASED"
    BY DEF Stages
  <2> QED BY <2>1, <2>2
<1> QED BY <1>1, StagesAre

\* The rows of the stage at place k or later, and the persons of some rows.
Reached(e, k) == {i \in DOMAIN e : StageIndex(e[i].stage) >= k}
Persons(e, S) == {Person(e, i) : i \in S}

LEMMA FunnelCounts ==
  ASSUME NEW e
  PROVE  \A k \in DOMAIN Stages : Funnel(e)[k] = Cardinality(Persons(e, Reached(e, k)))
<1> TAKE k \in DOMAIN Stages
<1> DEFINE reached == {<<Person(e, i), StageIndex(e[i].stage)>> : i \in DOMAIN e}
           far == {r[1] : r \in {q \in reached : q[2] >= k}}
<1>1. Funnel(e)[k] = Cardinality(far)
  BY DEF Funnel
<1>2. \A i \in Reached(e, k) : Person(e, i) \in far
  <2> TAKE i \in Reached(e, k)
  <2>1. <<Person(e, i), StageIndex(e[i].stage)>> \in {q \in reached : q[2] >= k}
    BY DEF Reached
  <2> QED BY <2>1
<1>3. \A x \in far : \E i \in Reached(e, k) : x = Person(e, i)
  BY DEF Reached
<1>4. far = Persons(e, Reached(e, k))
  <2> HIDE DEF far
  <2> QED BY <1>2, <1>3 DEF Persons
<1> QED BY <1>1, <1>4

LEMMA PersonsAreFinite ==
  ASSUME NEW e, NEW S, IsFiniteSet(S)
  PROVE  IsFiniteSet(Persons(e, S)) /\ Cardinality(Persons(e, S)) \in Nat
<1> DEFINE f == [i \in S |-> Person(e, i)]
<1>1. Persons(e, S) = {f[i] : i \in S}
  BY DEF Persons
<1> HIDE DEF f
<1> QED BY <1>1, Images

\* Rows with a user are that user's; the others are the last user's of their session,
\* or nobody's but the session's.
LEMMA PersonIs ==
  ASSUME NEW e \in Seq(Row), NEW i \in DOMAIN e
  PROVE  /\ e[i].user # None => Person(e, i) = e[i].user
         /\ e[i].user = None =>
              \/ \E j \in DOMAIN e : /\ e[j].session = e[i].session /\ e[j].user # None
                                     /\ Person(e, i) = e[j].user
              \/ /\ \A j \in DOMAIN e : e[j].session = e[i].session => e[j].user = None
                 /\ Person(e, i) = e[i].session
<1> DEFINE named == {j \in DOMAIN e : e[j].session = e[i].session /\ e[j].user # None}
<1>1. Person(e, i) = CASE e[i].user # None -> e[i].user
                       [] e[i].user = None /\ named # {} -> e[Max(named)].user
                       [] OTHER -> e[i].session
  BY DEF Person
<1>2. ASSUME named # {} PROVE Max(named) \in named
  <2>1. Len(e) \in Nat /\ named \in SUBSET (0 .. Len(e))
    BY LenProperties
  <2> HIDE DEF named
  <2> QED BY <1>2, <2>1, Greatest
<1>3. CASE e[i].user # None
  BY <1>1, <1>3
<1>4. CASE e[i].user = None /\ named # {}
  <2>1. Person(e, i) = e[Max(named)].user
    BY <1>1, <1>4
  <2> QED BY <1>2, <1>4, <2>1
<1>5. CASE e[i].user = None /\ named = {}
  <2>1. Person(e, i) = e[i].session
    BY <1>1, <1>5
  <2> QED BY <1>5, <2>1
<1> QED BY <1>3, <1>4, <1>5

\* Every visitor is counted, and once.
LEMMA PersonsAre ==
  ASSUME NEW e \in Seq(Row)
  PROVE  LET named == {e[i].user : i \in DOMAIN e} \ {None}
             strangers == {e[i].session : i \in DOMAIN e} \
                          {e[i].session : i \in {j \in DOMAIN e : e[j].user # None}}
         IN Persons(e, DOMAIN e) = named \union strangers
<1> DEFINE named == {e[i].user : i \in DOMAIN e} \ {None}
           strangers == {e[i].session : i \in DOMAIN e} \
                        {e[i].session : i \in {j \in DOMAIN e : e[j].user # None}}
<1>1. \A i \in DOMAIN e : Person(e, i) \in named \cup strangers
  <2> TAKE i \in DOMAIN e
  <2>1. CASE e[i].user # None
    BY <2>1, PersonIs
  <2>2. CASE e[i].user = None
    <3>1. CASE \E j \in DOMAIN e : e[j].user # None /\ Person(e, i) = e[j].user
      BY <3>1
    <3>2. CASE /\ \A j \in DOMAIN e : e[j].session = e[i].session => e[j].user = None
               /\ Person(e, i) = e[i].session
      BY <3>2
    <3> HIDE DEF named, strangers
    <3> QED BY <2>2, <3>1, <3>2, PersonIs
  <2> QED BY <2>1, <2>2
<1>2. \A u \in named : \E i \in DOMAIN e : u = Person(e, i)
  <2> TAKE u \in named
  <2>1. PICK i \in DOMAIN e : u = e[i].user /\ u # None
    OBVIOUS
  <2> HIDE DEF named
  <2> QED BY <2>1, PersonIs
<1>3. \A u \in strangers : \E i \in DOMAIN e : u = Person(e, i)
  <2> TAKE u \in strangers
  <2>1. PICK i \in DOMAIN e : u = e[i].session
    OBVIOUS
  <2>2. \A j \in DOMAIN e : e[j].session = e[i].session => e[j].user = None
    BY <2>1
  <2> HIDE DEF strangers
  <2> QED BY <2>1, <2>2, PersonIs
<1> HIDE DEF named, strangers
<1>4. Persons(e, DOMAIN e) = named \union strangers
  BY <1>1, <1>2, <1>3 DEF Persons
<1> QED BY <1>4 DEF named, strangers

LEMMA FunnelNarrows ==
  ASSUME NEW e \in Seq(Row)
  PROVE  /\ \A k \in 1 .. 8 : Funnel(e)[k] \in Nat
         /\ \A k \in 2 .. 8 : Funnel(e)[k - 1] >= Funnel(e)[k]
         /\ Funnel(e)[1] = Cardinality(Persons(e, DOMAIN e))
<1>1. DOMAIN e = 1 .. Len(e) /\ Len(e) \in Nat /\ \A i \in DOMAIN e : e[i] \in Row
  BY LenProperties
<1>2. IsFiniteSet(DOMAIN e)
  BY <1>1, FS_Interval
<1>3. \A i \in DOMAIN e : StageIndex(e[i].stage) \in 1 .. 8
  BY <1>1, RowsHaveStages
<1>4. \A k : IsFiniteSet(Reached(e, k)) /\ Reached(e, k) \subseteq DOMAIN e
  <2> TAKE k
  <2>1. Reached(e, k) \subseteq DOMAIN e
    BY DEF Reached
  <2> QED BY <1>2, <2>1, FS_Subset
<1>5. \A k : /\ IsFiniteSet(Persons(e, Reached(e, k)))
             /\ Cardinality(Persons(e, Reached(e, k))) \in Nat
  BY <1>4, PersonsAreFinite
<1>6. \A k \in 1 .. 8 : Funnel(e)[k] = Cardinality(Persons(e, Reached(e, k)))
  BY StagesAre, FunnelCounts
<1>7. ASSUME NEW k \in 2 .. 8
      PROVE  Funnel(e)[k - 1] >= Funnel(e)[k]
  <2>1. PICK l \in 1 .. 8 : l = k - 1
    BY <1>7
  <2>2. Reached(e, k) \subseteq Reached(e, l)
    BY <1>3, <1>7, <2>1 DEF Reached
  <2>3. Persons(e, Reached(e, k)) \subseteq Persons(e, Reached(e, l))
    BY <2>2 DEF Persons
  <2>4. Cardinality(Persons(e, Reached(e, k))) <= Cardinality(Persons(e, Reached(e, l)))
    BY <1>5, <2>3, FS_Subset
  <2>5. k \in 1 .. 8
    OBVIOUS
  <2>6. Funnel(e)[k] <= Funnel(e)[l]
    BY <1>6, <2>1, <2>4, <2>5
  <2>7. Funnel(e)[k] \in Nat /\ Funnel(e)[l] \in Nat
    BY <1>5, <1>6, <2>1, <2>5
  <2> QED BY <2>1, <2>6, <2>7
<1>8. Reached(e, 1) = DOMAIN e
  <2>1. \A i \in DOMAIN e : StageIndex(e[i].stage) >= 1
    BY <1>3
  <2> QED BY <2>1 DEF Reached
<1>9. Funnel(e)[1] = Cardinality(Persons(e, DOMAIN e))
  BY <1>6, <1>8
<1>10. \A k \in 1 .. 8 : Funnel(e)[k] \in Nat
  BY <1>5, <1>6
<1> QED BY <1>7, <1>9, <1>10

\* What the server tells of a customer is that customer's.
LEMMA OwnRows ==
  ASSUME NEW e \in Seq(Row), NEW i \in DOMAIN e, Own(e[i]),
         e[i].stage \in ToldStages \cup {"PURCHASED"}
  PROVE  Person(e, i) = e[i].user /\ e[i].session = e[i].user
<1>1. e[i] \in Row
  BY LenProperties
<1>2. e[i].user = e[i].session /\ e[i].session \in Users \cup Sessions
  BY <1>1 DEF Own, Row
<1>3. e[i].user # None
  BY <1>2, StorefrontConstants
<1> QED BY <1>2, <1>3, PersonIs

\* The last stage counts the customers of the payments.
LEMMA FunnelEnds ==
  ASSUME NEW e \in Seq(Row), \A i \in DOMAIN e : Own(e[i])
  PROVE  Persons(e, Reached(e, 8)) = {e[i].user : i \in {j \in DOMAIN e : e[j].stage = "PURCHASED"}}
<1>1. \A i \in DOMAIN e : e[i] \in Row
  BY LenProperties
<1>2. \A i \in DOMAIN e : StageIndex(e[i].stage) >= 8 <=> e[i].stage = "PURCHASED"
  <2> TAKE i \in DOMAIN e
  <2>1. StageIndex(e[i].stage) \in 1 .. 8 /\ Stages[StageIndex(e[i].stage)] = e[i].stage
    BY <1>1, RowsHaveStages
  <2> QED BY <2>1, StagesAre
<1>3. Reached(e, 8) = {j \in DOMAIN e : e[j].stage = "PURCHASED"}
  BY <1>2 DEF Reached
<1>4. \A i \in Reached(e, 8) : Person(e, i) = e[i].user
  BY <1>3, OwnRows
<1> QED BY <1>3, <1>4 DEF Persons

\* A stage that the server tells of counts the customers its drill-down lists.
LEMMA ListedAreCounted ==
  ASSUME NEW e \in Seq(Row), \A i \in DOMAIN e : Own(e[i]),
         NEW k \in 1 .. 8, Stages[k] \in ToldStages \cup {"PURCHASED"}
  PROVE  Cardinality({e[i].session : i \in {j \in DOMAIN e : e[j].stage = Stages[k]}})
           <= Funnel(e)[k]
<1> DEFINE listed == {e[i].session : i \in {j \in DOMAIN e : e[j].stage = Stages[k]}}
<1>1. \A i \in DOMAIN e : e[i].stage = Stages[k] =>
        i \in Reached(e, k) /\ e[i].session = Person(e, i)
  <2> SUFFICES ASSUME NEW i \in DOMAIN e, e[i].stage = Stages[k]
               PROVE  i \in Reached(e, k) /\ e[i].session = Person(e, i)
    OBVIOUS
  <2>1. StageIndex(e[i].stage) = k
    BY StagesAre
  <2>2. Person(e, i) = e[i].user /\ e[i].session = e[i].user
    BY OwnRows
  <2> QED BY <2>1, <2>2 DEF Reached
<1>2. listed \subseteq Persons(e, Reached(e, k))
  BY <1>1 DEF Persons
<1>3. IsFiniteSet(Reached(e, k))
  <2>1. DOMAIN e = 1 .. Len(e) /\ Len(e) \in Nat /\ Reached(e, k) \subseteq DOMAIN e
    BY LenProperties DEF Reached
  <2>2. IsFiniteSet(DOMAIN e)
    BY <2>1, FS_Interval
  <2> QED BY <2>1, <2>2, FS_Subset
<1>4. Funnel(e)[k] = Cardinality(Persons(e, Reached(e, k)))
  BY StagesAre, FunnelCounts
<1> HIDE DEF listed
<1>5. Cardinality(listed) <= Cardinality(Persons(e, Reached(e, k)))
  BY <1>2, <1>3, PersonsAreFinite, FS_Subset
<1> QED BY <1>4, <1>5 DEF listed

\* The events of a window are the rows of the journey in it.
LEMMA EventsAre ==
  ASSUME NEW j \in Seq(Row), \A i \in DOMAIN j : Own(j[i]), NEW w
  PROVE  /\ InWindow(j, w) \in Seq(Row) /\ \A i \in DOMAIN InWindow(j, w) : Own(InWindow(j, w)[i])
         /\ {InWindow(j, w)[i].user :
               i \in {k \in DOMAIN InWindow(j, w) : InWindow(j, w)[k].stage = "PURCHASED"}} =
              UsersNamed(j, During(j, {k \in DOMAIN j : j[k].stage = "PURCHASED"}, w))
<1> DEFINE K == {i \in DOMAIN j : In(w, j[i].at)}
           bought == {k \in DOMAIN j : j[k].stage = "PURCHASED"}
<1>1. PICK e : e = InWindow(j, w)
  OBVIOUS
<1>2. e = Kept(j, K) /\ K \in SUBSET (DOMAIN j)
  BY <1>1 DEF InWindow
<1>3. /\ e \in Seq(Row)
      /\ \A m \in DOMAIN e : \E k \in K : e[m] = j[k]
      /\ \A k \in K : \E n \in DOMAIN e : e[n] = j[k]
  <2> HIDE DEF K
  <2> QED BY <1>2, KeptKeeps DEF Keeps
<1>4. \A i \in DOMAIN e : Own(e[i])
  BY <1>3
<1>5. During(j, bought, w) = {k \in K : j[k].stage = "PURCHASED"}
  BY DEF During
<1>6. \A i \in DOMAIN e : e[i].stage = "PURCHASED" =>
        \E k \in During(j, bought, w) : e[i].user = j[k].user
  <2> HIDE DEF K, bought
  <2> QED BY <1>3, <1>5
<1>7. \A k \in During(j, bought, w) :
        \E i \in DOMAIN e : e[i].stage = "PURCHASED" /\ e[i].user = j[k].user
  <2> HIDE DEF K, bought
  <2> QED BY <1>3, <1>5
<1> HIDE DEF K, bought
<1>8. {e[i].user : i \in {k \in DOMAIN e : e[k].stage = "PURCHASED"}} =
        UsersNamed(j, During(j, bought, w))
  BY <1>6, <1>7 DEF UsersNamed
<1> QED BY <1>1, <1>3, <1>4, <1>8 DEF bought

LEMMA JourneyShows ==
  ASSUME NEW j, NEW p, NEW today, NEW e, e = InWindow(j, Resolve(p, today))
  PROVE  LET page == Journey(j, p, today)
         IN /\ \A k \in DOMAIN Stages :
                 /\ page.stages[k].customers = Funnel(e)[k]
                 /\ page.stages[k].dropOff =
                      Funnel(e)[IF k = 1 THEN 1 ELSE k - 1] - Funnel(e)[k]
            /\ page.sessions = Cardinality(Persons(e, DOMAIN e))
BY DEF Journey, Persons

\* The funnel never widens, begins with every visitor once, ends with the customers
\* who paid, and has at least the customers that a stage's drill-down lists
\* (funnelFromEvents, journeyIdentity, journeyAnalytics, journeyStageDetail).
THEOREM FunnelNarrowsToThePaid == Spec => []FunnelIsCumulative
<1>1. Inv /\ Books => FunnelIsCumulative
  <2> SUFFICES ASSUME Inv, Books, NEW p \in Periods
               PROVE  LET w == Resolve(p, day)
                          events == InWindow(journey, w)
                          page == Journey(journey, p, day)
                          named == {events[i].user : i \in DOMAIN events} \ {None}
                          strangers == {events[i].session : i \in DOMAIN events} \
                            {events[i].session : i \in {j \in DOMAIN events : events[j].user # None}}
                      IN /\ \A k \in DOMAIN Stages : page.stages[k].dropOff >= 0
                         /\ page.stages[1].customers = Cardinality(named \union strangers)
                         /\ page.stages[1].customers = page.sessions
                         /\ page.stages[Len(Stages)].customers =
                              Cardinality({orders[i].customer : i \in EarnedIn(orders, w)})
                         /\ \A k \in DOMAIN Stages :
                              Stages[k] \in {"SAVED_DESIGN", "NEGOTIATED", "PLACED_ORDER", "PURCHASED"} =>
                                Cardinality(StageDetail(Stages[k], journey, orders, acts, w).users)
                                  <= page.stages[k].customers
    BY DEF FunnelIsCumulative
  <2>1. PICK s, j, e, w : /\ s = orders /\ j = journey
                          /\ w = Resolve(p, day) /\ e = InWindow(j, w)
    OBVIOUS
  <2>2. j \in Seq(Row) /\ \A i \in DOMAIN j : Own(j[i])
    BY <2>1 DEF Inv, Types, Books
  <2> DEFINE bought == {k \in DOMAIN j : j[k].stage = "PURCHASED"}
             page == Journey(journey, p, day)
             paying == {e[i].user : i \in {k \in DOMAIN e : e[k].stage = "PURCHASED"}}
             named == {e[i].user : i \in DOMAIN e} \ {None}
             strangers == {e[i].session : i \in DOMAIN e} \
                          {e[i].session : i \in {k \in DOMAIN e : e[k].user # None}}
  <2>3. Tallied(j, bought, s)
    BY <2>1 DEF Books, Bought
  <2>4. IsFiniteSet(bought)
    <3>1. DOMAIN j = 1 .. Len(j) /\ Len(j) \in Nat /\ bought \subseteq DOMAIN j
      BY <2>2, LenProperties
    <3> HIDE DEF bought
    <3>2. IsFiniteSet(DOMAIN j)
      BY <3>1, FS_Interval
    <3> QED BY <3>1, <3>2, FS_Subset
  <2>5. /\ e \in Seq(Row) /\ \A i \in DOMAIN e : Own(e[i])
        /\ paying = UsersNamed(j, During(j, bought, w))
    BY <2>1, <2>2, EventsAre
  <2>6. /\ \A k \in 1 .. 8 :
             /\ page.stages[k].customers = Funnel(e)[k]
             /\ page.stages[k].dropOff = Funnel(e)[IF k = 1 THEN 1 ELSE k - 1] - Funnel(e)[k]
        /\ page.sessions = Cardinality(Persons(e, DOMAIN e))
    BY <2>1, JourneyShows, StagesAre
  <2>7. Persons(e, Reached(e, 8)) = paying
    BY <2>5, FunnelEnds
  <2>8. Persons(e, DOMAIN e) = named \cup strangers
    BY <2>5, PersonsAre
  <2> HIDE DEF bought, page, paying, named, strangers
  <2>9. /\ \A k \in 1 .. 8 : Funnel(e)[k] \in Nat
        /\ \A k \in 2 .. 8 : Funnel(e)[k - 1] >= Funnel(e)[k]
        /\ Funnel(e)[1] = Cardinality(Persons(e, DOMAIN e))
    BY <2>5, FunnelNarrows
  <2>10. \A k \in 1 .. 8 : page.stages[k].dropOff >= 0
    <3> TAKE k \in 1 .. 8
    <3>1. CASE k = 1
      BY <2>6, <2>9, <3>1
    <3>2. CASE k # 1
      BY <2>6, <2>9, <3>2
    <3> QED BY <3>1, <3>2
  <2>11. /\ page.stages[1].customers = Cardinality(named \cup strangers)
         /\ page.stages[1].customers = page.sessions
    <3>1. 1 \in 1 .. 8
      OBVIOUS
    <3>2. page.stages[1].customers = Funnel(e)[1]
      BY <2>6, <3>1
    <3> QED BY <2>6, <2>8, <2>9, <3>2
  <2>12. page.stages[8].customers = Cardinality({s[i].customer : i \in EarnedIn(s, w)})
    <3>1. UsersNamed(j, During(j, bought, w)) = {s[i].customer : i \in EarnedIn(s, w)}
      BY <2>3, <2>4, TallyCounts
    <3>2. Funnel(e)[8] = Cardinality(Persons(e, Reached(e, 8)))
      BY StagesAre, FunnelCounts
    <3>3. Persons(e, Reached(e, 8)) = {s[i].customer : i \in EarnedIn(s, w)}
      BY <2>5, <2>7, <3>1
    <3>4. 8 \in 1 .. 8
      OBVIOUS
    <3>5. page.stages[8].customers = Funnel(e)[8]
      BY <2>6, <3>4
    <3> QED BY <3>2, <3>3, <3>5
  <2>13. ASSUME NEW k \in 1 .. 8,
                Stages[k] \in {"SAVED_DESIGN", "NEGOTIATED", "PLACED_ORDER", "PURCHASED"}
         PROVE  Cardinality(StageDetail(Stages[k], journey, orders, acts, Resolve(p, day)).users)
                  <= page.stages[k].customers
    <3>1. StageDetail(Stages[k], journey, orders, acts, Resolve(p, day)).users =
            {e[i].session : i \in {l \in DOMAIN e : e[l].stage = Stages[k]}}
      BY <2>1 DEF StageDetail
    <3>2. Stages[k] \in ToldStages \cup {"PURCHASED"}
      BY <2>13 DEF ToldStages
    <3>3. Cardinality({e[i].session : i \in {l \in DOMAIN e : e[l].stage = Stages[k]}})
            <= Funnel(e)[k]
      BY <2>5, <2>13, <3>2, ListedAreCounted
    <3> QED BY <2>6, <2>13, <3>1, <3>3
  <2> QED BY <2>1, <2>10, <2>11, <2>12, <2>13, StagesAre DEF page, named, strangers
<1> QED BY <1>1, BooksHold, PTL

=============================================================================
