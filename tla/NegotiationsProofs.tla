------------------------- MODULE NegotiationsProofs -------------------------
(***************************************************************************)
(* Theorems of Negotiations: its types, that messages are pushed unless    *)
(* another request crowds them out, that scrolling through the inbox       *)
(* neither skips nor repeats, and that a product's chip never falls back,  *)
(* for any customers, products, posters and page size and any number of    *)
(* requests at once.                                                       *)
(***************************************************************************)
EXTENDS Negotiations, FiniteSetTheorems, SequenceTheorems, NaturalsInduction,
        WellFoundedInduction, TLAPS

-----------------------------------------------------------------------------
(* The inductive invariants.                                               *)

Ops == {"none", "submit", "open", "post", "clear"}
Steps == {"idle", "found", "begun", "tail", "push"}
Request == [op : Ops, step : Steps, c : Customers, t : 0 .. MaxThreads,
            asked : SUBSET Products, all : BOOLEAN, greet : BOOLEAN, at : 0 .. MaxTime,
            gone : SUBSET Chip, wrote : SUBSET Nat]

\* A request that writes or pushes has a thread, and only one that pushes has
\* written messages.
RequestOK(w) ==
  LET f == flight[w]
  IN /\ f.t \in 0 .. Len(thread) /\ f.wrote \subseteq 1 .. Len(log)
     /\ f.step \in {"begun", "tail", "push"} => f.t # 0
     /\ f.wrote # {} => f.step \in {"tail", "push"}

\* Messages only name threads that are there.
Types ==
  /\ now \in 1 .. MaxTime
  /\ thread \in Seq(Thread) /\ Len(thread) <= MaxThreads
  /\ log \in Seq(Message) /\ \A i \in DOMAIN log : log[i].thread \in DOMAIN thread
  /\ owed \subseteq DOMAIN log
  /\ flight \in [Workers -> Request]
  /\ \A w \in Workers : RequestOK(w)

Scroll == [on : BOOLEAN, at : 0 .. MaxTime + 1, id : 0 .. MaxThreads, seen : SUBSET Nat,
           due : SUBSET Nat, twice : BOOLEAN, missed : BOOLEAN]

\* What was shown is above the cursor and stays there, since a message only ever
\* moves a thread up; what is due is below it.
ScrollInv ==
  /\ scroll \in Scroll /\ ~scroll.twice /\ ~scroll.missed
  /\ ~scroll.on => scroll.seen = {} /\ scroll.due = {}
  /\ \A t \in scroll.seen : t \in Threads /\ ~Below(t, scroll.at, scroll.id)
  /\ \A t \in scroll.due : t \in Threads /\ Said(t) # {} /\ Below(t, scroll.at, scroll.id)

LEMMA Bounds ==
  /\ MaxThreads \in Nat /\ MaxThreads > 0 /\ MaxTime \in Nat /\ MaxTime > 0
  /\ MaxLog \in Nat
  /\ PageSize \in Nat /\ PageSize > 0
  BY BoundsAssumption, PageAssumption

-----------------------------------------------------------------------------
(* Greatest elements, and the places of a sequence that are kept.          *)

\* A set of numbers with a bound has a greatest one.
LEMMA Greatest ==
  ASSUME NEW n \in Nat, NEW S \in SUBSET (0 .. n), S # {}
  PROVE  Max(S) \in S /\ \A i \in S : Max(S) >= i
<1> DEFINE tops == {0 .. k : k \in {k \in 0 .. n : \A i \in S : i <= k}}
<1>1. IsFiniteSet(0 .. n) /\ tops \subseteq SUBSET (0 .. n) /\ 0 .. n \in tops
  <2>1. IsFiniteSet(0 .. n)
    BY FS_Interval
  <2>2. n \in {k \in 0 .. n : \A i \in S : i <= k}
    OBVIOUS
  <2>3. \A k \in 0 .. n : 0 .. k \subseteq 0 .. n
    OBVIOUS
  <2> QED BY <2>1, <2>2, <2>3
<1>2. IsWellFoundedOn(StrictSubsetOrdering(0 .. n), FiniteSubsetsOf(0 .. n))
  BY FS_StrictSubsetOrderingWellFounded
<1>3. tops \subseteq FiniteSubsetsOf(0 .. n)
  BY <1>1, FS_Subset DEF FiniteSubsetsOf
<1>4. PICK top \in tops : \A u \in tops : <<u, top>> \notin StrictSubsetOrdering(0 .. n)
  <2> HIDE DEF tops
  <2> QED BY <1>1, <1>2, <1>3, WFMin
<1>5. PICK m \in 0 .. n : top = 0 .. m /\ \A i \in S : i <= m
  BY <1>4
<1>6. ASSUME m \notin S PROVE FALSE
  <2>1. PICK i \in S : i <= m /\ i # m /\ i \in 0 .. n
    BY <1>5, <1>6
  <2>2. m - 1 \in 0 .. n /\ \A j \in S : j <= m - 1
    BY <1>5, <1>6, <2>1
  <2>3. 0 .. (m - 1) \in tops
    BY <2>2
  <2>4. 0 .. (m - 1) \subseteq 0 .. m /\ 0 .. (m - 1) # 0 .. m /\ 0 .. m \subseteq 0 .. n
    <3>1. m \in 0 .. m /\ m \notin 0 .. (m - 1)
      OBVIOUS
    <3> QED BY <3>1
  <2> QED BY <1>4, <1>5, <2>3, <2>4 DEF StrictSubsetOrdering
<1> QED BY <1>5, <1>6 DEF Max

\* The n-th smallest of a finite set of numbers.
Place(K, n, i) == i \in K /\ Cardinality({j \in K : j <= i}) = n

LEMMA PlacesOfMore ==
  ASSUME NEW K, IsFiniteSet(K), K \subseteq Nat, NEW m \in K, \A i \in K : i <= m,
         \A n \in 1 .. Cardinality(K \ {m}) : \E i : Place(K \ {m}, n, i)
  PROVE  \A n \in 1 .. Cardinality(K) : \E i : Place(K, n, i)
<1>1. Cardinality(K \ {m}) = Cardinality(K) - 1 /\ Cardinality(K) \in Nat
  BY FS_RemoveElement, FS_CardinalityType
<1> TAKE n \in 1 .. Cardinality(K)
<1>2. CASE n = Cardinality(K)
  <2>1. {j \in K : j <= m} = K
    OBVIOUS
  <2> QED BY <1>2, <2>1 DEF Place
<1>3. CASE n # Cardinality(K)
  <2>1. n \in 1 .. Cardinality(K \ {m})
    BY <1>1, <1>3
  <2>2. PICK i : Place(K \ {m}, n, i)
    BY <2>1
  <2>3. {j \in K \ {m} : j <= i} = {j \in K : j <= i}
    BY <2>2 DEF Place
  <2> QED BY <2>2, <2>3 DEF Place
<1> QED BY <1>2, <1>3

LEMMA Places ==
  ASSUME NEW N \in Nat, NEW K \in SUBSET (1 .. N)
  PROVE  /\ IsFiniteSet(K) /\ Cardinality(K) \in Nat
         /\ \A n \in 1 .. Cardinality(K) : \E i : Place(K, n, i)
<1>1. ASSUME NEW S \in SUBSET (1 .. N)
      PROVE  IsFiniteSet(S) /\ Cardinality(S) \in Nat
  <2>1. IsFiniteSet(1 .. N)
    BY FS_Interval
  <2> QED BY <2>1, FS_Subset, FS_CardinalityType
<1> DEFINE Bad == {S \in SUBSET (1 .. N) :
                     ~ \A n \in 1 .. Cardinality(S) : \E i : Place(S, n, i)}
<1>2. SUFFICES ASSUME K \in Bad PROVE FALSE
  BY <1>1
<1>3. IsWellFoundedOn(StrictSubsetOrdering(1 .. N), FiniteSubsetsOf(1 .. N))
  BY FS_StrictSubsetOrderingWellFounded
<1>4. Bad \subseteq FiniteSubsetsOf(1 .. N) /\ Bad # {}
  BY <1>1, <1>2 DEF FiniteSubsetsOf
<1>5. PICK S \in Bad : \A R \in Bad : <<R, S>> \notin StrictSubsetOrdering(1 .. N)
  <2> HIDE DEF Bad
  <2> QED BY <1>3, <1>4, WFMin
<1>6. S # {}
  BY FS_EmptySet
<1>7. S \in SUBSET (0 .. N) /\ S \subseteq Nat
  BY <1>5
<1>8. PICK m \in S : \A i \in S : i <= m
  BY <1>6, <1>7, Greatest
<1>9. S \ {m} \notin Bad
  BY <1>5, <1>8 DEF StrictSubsetOrdering
<1>10. \A n \in 1 .. Cardinality(S \ {m}) : \E i : Place(S \ {m}, n, i)
  BY <1>5, <1>9
<1>11. \A n \in 1 .. Cardinality(S) : \E i : Place(S, n, i)
  BY <1>1, <1>5, <1>7, <1>8, <1>10, PlacesOfMore
<1> QED BY <1>5, <1>11

\* What is kept of a sequence is a sequence of the same kind.
LEMMA KeptIsSeq ==
  ASSUME NEW T, NEW s \in Seq(T), NEW K \in SUBSET (DOMAIN s)
  PROVE  Kept(s, K) \in Seq(T)
<1>1. Len(s) \in Nat /\ DOMAIN s = 1 .. Len(s) /\ \A i \in DOMAIN s : s[i] \in T
  BY LenProperties
<1>2. /\ Cardinality(K) \in Nat
      /\ \A n \in 1 .. Cardinality(K) : \E i : Place(K, n, i)
  BY <1>1, Places
<1> DEFINE place(n) == CHOOSE i \in K : Cardinality({j \in K : j <= i}) = n
<1>3. \A n \in 1 .. Cardinality(K) : place(n) \in K
  BY <1>2 DEF Place
<1>4. \A n \in 1 .. Cardinality(K) : s[place(n)] \in T
  BY <1>1, <1>3
<1>5. Kept(s, K) = [n \in 1 .. Cardinality(K) |-> s[place(n)]]
  BY DEF Kept
<1> HIDE DEF place
<1> QED BY <1>2, <1>4, <1>5

\* A finite set can be written down as a sequence.
LEMMA WrittenIsSeq ==
  ASSUME NEW S, IsFiniteSet(S)
  PROVE  SetToSeq(S) \in Seq(S)
<1>1. Cardinality(S) \in Nat /\ ExistsBijection(1 .. Cardinality(S), S)
  BY FS_CardinalityType
<1>2. \E f \in [1 .. Cardinality(S) -> S] : IsInjective(f)
  BY <1>1 DEF ExistsBijection, Bijection, Injection, IsInjective
<1>3. SetToSeq(S) \in [1 .. Cardinality(S) -> S]
  BY <1>2 DEF SetToSeq
<1> QED BY <1>1, <1>3

-----------------------------------------------------------------------------
(* Types.                                                                  *)

\* A request that may stand in flight, given the threads and messages there are.
Fits(r, threads, messages) ==
  /\ r \in Request /\ r.t \in 0 .. threads /\ r.wrote \subseteq 1 .. messages
  /\ r.step \in {"begun", "tail", "push"} => r.t # 0
  /\ r.wrote # {} => r.step \in {"tail", "push"}

LEMMA IdleFits ==
  /\ Idle \in Request
  /\ Idle.op = "none" /\ Idle.step = "idle" /\ Idle.t = 0 /\ Idle.wrote = {}
<1>1. (CHOOSE c \in Customers : TRUE) \in Customers
  BY PartiesAssumption
<1> QED BY <1>1, Bounds DEF Idle, Request, Ops, Steps

LEMMA Sizes ==
  ASSUME Types
  PROVE  /\ Len(thread) \in 0 .. MaxThreads /\ Threads = 1 .. Len(thread)
         /\ Len(log) \in Nat /\ DOMAIN log = 1 .. Len(log)
         /\ \A t \in Threads : thread[t] \in Thread
         /\ \A i \in DOMAIN log : log[i] \in Message
BY LenProperties DEF Types, Threads

LEMMA RequestsFit ==
  ASSUME Types, NEW w \in Workers
  PROVE  Fits(flight[w], Len(thread), Len(log))
BY DEF Types, RequestOK, Fits

\* One request moves on, and threads and messages only become more.
LEMMA RequestsKept ==
  ASSUME Types, NEW w \in Workers, NEW r, Become(w, r),
         Len(thread)' \in Nat, Len(thread) <= Len(thread)',
         Len(log)' \in Nat, Len(log) <= Len(log)',
         Fits(r, Len(thread)', Len(log)')
  PROVE  flight' \in [Workers -> Request] /\ \A v \in Workers : RequestOK(v)'
<1>1. /\ flight' = [flight EXCEPT ![w] = r] /\ flight \in [Workers -> Request]
      /\ r \in Request
  BY DEF Become, Types, Fits
<1>2. flight' \in [Workers -> Request]
  BY <1>1
<1>3. ASSUME NEW v \in Workers PROVE RequestOK(v)'
  <2>1. CASE v = w
    BY <1>1, <2>1 DEF RequestOK, Fits
  <2>2. CASE v # w
    <3>1. flight'[v] = flight[v] /\ flight[v] \in Request
      BY <1>1, <2>2
    <3>2. RequestOK(v)
      BY DEF Types
    <3>3. flight[v].t \in 0 .. Len(thread)' /\ flight[v].wrote \subseteq 1 .. Len(log)'
      BY <3>2, Sizes DEF RequestOK
    <3> QED BY <3>1, <3>2, <3>3 DEF RequestOK
  <2> QED BY <2>1, <2>2
<1> QED BY <1>2, <1>3

\* A step that writes nothing down.
LEMMA QuietKeeps ==
  ASSUME Types, NEW w \in Workers, NEW r, Become(w, r), Fits(r, Len(thread), Len(log)),
         UNCHANGED <<now, thread, log>>, owed' \subseteq owed
  PROVE  Types'
<1>1. Len(thread)' = Len(thread) /\ Len(log)' = Len(log)
  BY Zenon
<1>2. flight' \in [Workers -> Request] /\ \A v \in Workers : RequestOK(v)'
  BY <1>1, Sizes, RequestsKept
<1>3. owed' \subseteq DOMAIN log'
  BY DEF Types
<1> QED BY <1>2, <1>3 DEF Types

\* The newest thread of a customer is one that is there, if there is one.
LEMMA NewestIsThread ==
  ASSUME Types, NEW c
  PROVE  Newest(c) \in 0 .. Len(thread)
<1>1. CartThreads(c) \in SUBSET (0 .. Len(thread)) /\ Len(thread) \in Nat
  BY Sizes DEF CartThreads
<1>2. CartThreads(c) # {} => Max(CartThreads(c)) \in CartThreads(c)
  BY <1>1, Greatest
<1> QED BY <1>1, <1>2 DEF Newest

\* Messages are appended to threads that are there.
Says(ms) ==
  /\ ms \in Seq(Message) /\ \A i \in DOMAIN ms : ms[i].thread \in DOMAIN thread
  /\ log' = log \o ms

LEMMA LogGrows ==
  ASSUME Types, NEW ms, Says(ms)
  PROVE  /\ log' \in Seq(Message) /\ Len(log)' = Len(log) + Len(ms) /\ Len(ms) \in Nat
         /\ DOMAIN log' = 1 .. Len(log) + Len(ms) /\ DOMAIN log \subseteq DOMAIN log'
         /\ \A i \in DOMAIN log' :
              log'[i] = IF i <= Len(log) THEN log[i] ELSE ms[i - Len(log)]
         /\ \A i \in DOMAIN log' : log'[i].thread \in DOMAIN thread
<1>1. /\ log \in Seq(Message) /\ ms \in Seq(Message) /\ log' = log \o ms
      /\ \A i \in DOMAIN log : log[i].thread \in DOMAIN thread
      /\ \A i \in DOMAIN ms : ms[i].thread \in DOMAIN thread
  BY DEF Types, Says
<1>2. /\ log' \in Seq(Message) /\ Len(log)' = Len(log) + Len(ms)
      /\ Len(log) \in Nat /\ Len(ms) \in Nat
      /\ DOMAIN log = 1 .. Len(log) /\ DOMAIN ms = 1 .. Len(ms)
      /\ \A i \in 1 .. Len(log) + Len(ms) :
           log'[i] = IF i <= Len(log) THEN log[i] ELSE ms[i - Len(log)]
  BY <1>1, ConcatProperties, LenProperties
<1>3. DOMAIN log' = 1 .. Len(log) + Len(ms)
  BY <1>2, LenProperties
<1>4. ASSUME NEW i \in DOMAIN log' PROVE log'[i].thread \in DOMAIN thread
  <2>1. CASE i <= Len(log)
    BY <1>1, <1>2, <1>3, <2>1
  <2>2. CASE ~(i <= Len(log))
    <3>1. i - Len(log) \in DOMAIN ms
      BY <1>2, <1>3, <2>2
    <3> QED BY <1>1, <1>2, <1>3, <2>2, <3>1
  <2> QED BY <2>1, <2>2
<1> QED BY <1>2, <1>3, <1>4

\* A request that says something, and changes at most columns of threads.
LEMMA SayingKeeps ==
  ASSUME Types, NEW w \in Workers, NEW r, Become(w, r), NEW ms, Says(ms),
         Fits(r, Len(thread), Len(log) + Len(ms)), now' = now,
         thread' \in Seq(Thread), Len(thread)' = Len(thread),
         owed' \subseteq owed \cup (Len(log) + 1 .. Len(log) + Len(ms))
  PROVE  Types'
<1>1. /\ log' \in Seq(Message) /\ Len(log)' = Len(log) + Len(ms) /\ Len(ms) \in Nat
      /\ DOMAIN log' = 1 .. Len(log) + Len(ms) /\ DOMAIN log \subseteq DOMAIN log'
      /\ \A i \in DOMAIN log' : log'[i].thread \in DOMAIN thread
  BY LogGrows
<1>2. Len(log) \in Nat /\ Len(thread) \in 0 .. MaxThreads /\ DOMAIN thread = 1 .. Len(thread)
  BY Sizes DEF Threads
<1>3. DOMAIN thread' = DOMAIN thread
  BY <1>2, LenProperties
<1>4. flight' \in [Workers -> Request] /\ \A v \in Workers : RequestOK(v)'
  BY <1>1, <1>2, RequestsKept
<1>5. owed' \subseteq DOMAIN log'
  BY <1>1, <1>2 DEF Types
<1> QED BY <1>1, <1>2, <1>3, <1>4, <1>5 DEF Types

-----------------------------------------------------------------------------
(* Every step keeps the types.                                             *)

LEMMA StartsKeep ==
  ASSUME Types, NEW w \in Workers, NEW c \in Customers, NEW asked \in SUBSET Products,
         NEW whole \in BOOLEAN,
         Submit(w, c, asked, whole) \/ Open(w, c, asked) \/ Clear(w, c)
  PROVE  Types'
<1>1. Newest(c) \in 0 .. Len(thread) /\ Newest(c) \in 0 .. MaxThreads
  BY NewestIsThread, Sizes, Bounds
<1>2. now \in 0 .. MaxTime
  BY DEF Types
<1>3. PICK r : r \in Request /\ Become(w, r) /\ r.t = Newest(c) /\ r.wrote = {}
               /\ (r.step = "found" \/ (r.step = "begun" /\ Newest(c) # 0))
  <2>1. CASE Submit(w, c, asked, whole)
    <3> DEFINE r == [Idle EXCEPT !.op = "submit", !.step = "found", !.c = c, !.t = Newest(c),
                                 !.asked = asked, !.all = whole]
    <3>1. Become(w, r)
      BY <2>1 DEF Submit
    <3>2. r \in Request /\ r.t = Newest(c) /\ r.wrote = {} /\ r.step = "found"
      BY <1>1, IdleFits DEF Request, Ops, Steps
    <3> QED BY <3>1, <3>2
  <2>2. CASE Open(w, c, asked)
    <3> DEFINE r == [Idle EXCEPT !.op = "open", !.step = "found", !.c = c, !.t = Newest(c),
                            !.asked = asked, !.all = TRUE,
                            !.greet = Said(Newest(c)) = {}]
    <3>1. Become(w, r)
      BY <2>2 DEF Open
    <3>2. r \in Request /\ r.t = Newest(c) /\ r.wrote = {} /\ r.step = "found"
      BY <1>1, IdleFits DEF Request, Ops, Steps
    <3> QED BY <3>1, <3>2
  <2>3. CASE Clear(w, c)
    <3> DEFINE r == [Idle EXCEPT !.op = "clear", !.step = "begun", !.c = c, !.t = Newest(c),
                              !.at = now]
    <3>1. Become(w, r) /\ Newest(c) # 0
      BY <2>3 DEF Clear
    <3>2. r \in Request /\ r.t = Newest(c) /\ r.wrote = {} /\ r.step = "begun"
      BY <1>1, <1>2, IdleFits DEF Request, Ops, Steps
    <3> QED BY <3>1, <3>2
  <2> QED BY <2>1, <2>2, <2>3
<1>4. Fits(r, Len(thread), Len(log))
  BY <1>1, <1>3, Sizes DEF Fits
<1>5. UNCHANGED <<now, thread, log, owed>>
  BY DEF Submit, Open, Clear
<1> QED BY <1>3, <1>4, <1>5, QuietKeeps

LEMMA PostKeeps ==
  ASSUME Types, NEW w \in Workers, NEW t \in Threads, NEW a, Post(w, t, a)
  PROVE  Types'
<1> DEFINE r == [Idle EXCEPT !.op = "post", !.step = "begun", !.t = t, !.at = now,
                            !.greet = a = "STAFF"]
<1>1. Become(w, r) /\ UNCHANGED <<now, thread, log, owed>>
  BY DEF Post
<1>2. t \in 1 .. Len(thread) /\ t \in 0 .. MaxThreads /\ now \in 0 .. MaxTime
  BY Sizes, Bounds DEF Types
<1>3. r \in Request /\ r.t = t /\ r.wrote = {} /\ r.step = "begun"
  BY <1>2, IdleFits DEF Request, Ops, Steps
<1>4. Fits(r, Len(thread), Len(log))
  BY <1>2, <1>3, Sizes DEF Fits
<1> HIDE DEF r
<1> QED BY <1>1, <1>4, QuietKeeps

LEMMA CreateThreadKeeps ==
  ASSUME Types, NEW w \in Workers, CreateThread(w)
  PROVE  Types'
<1> DEFINE new == [kind |-> "cart", customer |-> flight[w].c, cleared |-> 0]
           r == [flight[w] EXCEPT !.t = Len(thread')]
<1>1. /\ flight[w].step = "found" /\ Len(thread) < MaxThreads
      /\ thread' = Append(thread, new) /\ Become(w, r) /\ UNCHANGED <<now, log, owed>>
  BY DEF CreateThread, Become
<1>2. flight[w] \in Request /\ flight[w].wrote = {} /\ thread \in Seq(Thread)
  BY <1>1 DEF Types, RequestOK
<1>3. new \in Thread
  BY <1>2, Bounds DEF Thread, Request
<1>4. /\ thread' \in Seq(Thread) /\ Len(thread)' = Len(thread) + 1 /\ Len(thread) \in Nat
      /\ Len(thread)' \in 0 .. MaxThreads
  <2> HIDE DEF new
  <2>1. thread' \in Seq(Thread) /\ Len(thread)' = Len(thread) + 1 /\ Len(thread) \in Nat
    BY <1>1, <1>2, <1>3
  <2> QED BY <1>1, <2>1, Bounds
<1>5. r \in Request /\ r.t = Len(thread') /\ r.wrote = flight[w].wrote /\ r.step = "found"
  BY <1>1, <1>2, <1>4 DEF Request
<1>6. Fits(r, Len(thread)', Len(log)')
  BY <1>1, <1>2, <1>4, <1>5 DEF Fits
<1>7. flight' \in [Workers -> Request] /\ \A v \in Workers : RequestOK(v)'
  <2> HIDE DEF r
  <2> QED BY <1>1, <1>4, <1>6, Sizes, RequestsKept
<1>8. DOMAIN thread \subseteq DOMAIN thread'
  <2>1. DOMAIN thread = 1 .. Len(thread)
    BY Sizes DEF Threads
  <2>2. DOMAIN thread' = 1 .. Len(thread) + 1
    BY <1>4, LenProperties
  <2> QED BY <1>4, <2>1, <2>2
<1>9. /\ now' \in 1 .. MaxTime
      /\ log' \in Seq(Message) /\ \A i \in DOMAIN log' : log'[i].thread \in DOMAIN thread'
      /\ owed' \subseteq DOMAIN log'
  BY <1>1, <1>8 DEF Types
<1> QED BY <1>1, <1>4, <1>7, <1>9, Bounds DEF Types

LEMMA BeginKeeps ==
  ASSUME Types, chips \in Seq(Chip), NEW w \in Workers, Begin(w)
  PROVE  Types'
<1> DEFINE f == flight[w]
           gone == {i \in ToSet(chips) : i.thread = f.t /\ (f.all \/ i.product \in f.asked)}
           r == [f EXCEPT !.step = "begun", !.at = now, !.all = FALSE, !.gone = gone]
<1>1. f.t # 0 /\ f.step = "found" /\ Become(w, r) /\ UNCHANGED <<now, thread, log, owed>>
  BY DEF Begin
<1>2. f \in Request /\ Fits(f, Len(thread), Len(log)) /\ now \in 0 .. MaxTime
  BY RequestsFit DEF Types
<1>3. gone \in SUBSET Chip
  <2>1. \A i \in DOMAIN chips : chips[i] \in Chip
    BY LenProperties
  <2> QED BY <2>1 DEF ToSet
<1>4. r \in Request /\ r.t = f.t /\ r.wrote = f.wrote /\ r.step = "begun"
  <2> HIDE DEF gone, f
  <2> QED BY <1>2, <1>3 DEF Request, Steps
<1>5. Fits(r, Len(thread), Len(log))
  BY <1>1, <1>2, <1>4 DEF Fits
<1> HIDE DEF r
<1> QED BY <1>1, <1>5, QuietKeeps

\* What the three transactions that write have in common: messages of one thread,
\* which is then no longer due in the inbox.
Speaks(t, ms) ==
  /\ t \in Threads /\ Says(ms) /\ \A i \in DOMAIN ms : ms[i].thread = t
  /\ thread' \in Seq(Thread) /\ Len(thread)' = Len(thread) /\ now' = now
  /\ Moved(IF ms = <<>> THEN {} ELSE {t})

\* A message of a thread.
LEMMA OneMessage ==
  ASSUME Types, NEW t \in Threads, NEW a \in Authors, NEW at \in 0 .. MaxTime,
         NEW part \in 0 .. MaxLog,
         NEW ms, ms = <<[thread |-> t, author |-> a, at |-> at, part |-> part]>>
  PROVE  ms \in Seq(Message) /\ Len(ms) = 1 /\ \A i \in DOMAIN ms : ms[i].thread = t
<1>1. t \in 1 .. MaxThreads
  BY Sizes, Bounds
<1>2. [thread |-> t, author |-> a, at |-> at, part |-> part] \in Message
  BY <1>1 DEF Message
<1> QED BY <1>2

LEMMA ColumnsOfThreads ==
  ASSUME Types, NEW t \in Threads, NEW at \in 0 .. MaxTime
  PROVE  /\ [thread EXCEPT ![t].cleared = at] \in Seq(Thread)
         /\ Len([thread EXCEPT ![t].cleared = at]) = Len(thread)
<1>1. thread \in Seq(Thread) /\ t \in 1 .. Len(thread) /\ thread[t] \in Thread
  BY Sizes DEF Types
<1>2. [thread[t] EXCEPT !.cleared = at] \in Thread
  BY <1>1 DEF Thread
<1>3. [thread EXCEPT ![t].cleared = at] = [thread EXCEPT ![t] = [thread[t] EXCEPT !.cleared = at]]
  BY <1>1
<1> QED BY <1>1, <1>2, <1>3, ExceptSeq

LEMMA MessagesOf ==
  ASSUME Types, NEW f \in Request, f.op \in {"submit", "open"}, f.t \in Threads,
         Room(Len(Messages(f)))
  PROVE  /\ Messages(f) \in Seq(Message)
         /\ Len(Messages(f)) \in 0 .. IF f.op = "submit" THEN 2 ELSE 1
         /\ \A i \in DOMAIN Messages(f) :
              Messages(f)[i].thread = f.t /\ Messages(f)[i].part = Len(log) + 1
<1> DEFINE m(a) == [thread |-> f.t, author |-> a, at |-> f.at, part |-> Len(log) + 1]
<1>1. Len(log) + 1 <= MaxLog =>
        \A a \in Authors : m(a) \in Message /\ m(a).thread = f.t /\ m(a).part = Len(log) + 1
  <2>1. f.t \in 1 .. MaxThreads /\ f.at \in 0 .. MaxTime /\ Len(log) \in Nat
    BY Sizes, Bounds DEF Request
  <2> QED BY <2>1, Bounds DEF Message
<1>2. CASE f.op = "submit"
  <2>1. Messages(f) = <<m("SYSTEM"), m("CUSTOMER")>>
    BY <1>2 DEF Messages
  <2>2. Len(Messages(f)) = 2 /\ Len(log) + 1 <= MaxLog
    BY <2>1, Sizes, Bounds DEF Room
  <2>3. /\ m("SYSTEM") \in Message /\ m("SYSTEM").thread = f.t
        /\ m("SYSTEM").part = Len(log) + 1
        /\ m("CUSTOMER") \in Message /\ m("CUSTOMER").thread = f.t
        /\ m("CUSTOMER").part = Len(log) + 1
    BY <1>1, <2>2 DEF Authors
  <2> HIDE DEF m
  <2> QED BY <1>2, <2>1, <2>2, <2>3
<1>3. CASE f.op = "open" /\ f.greet
  <2>1. Messages(f) = <<m("STAFF")>>
    BY <1>3 DEF Messages
  <2>2. Len(Messages(f)) = 1 /\ Len(log) + 1 <= MaxLog
    BY <2>1, Sizes, Bounds DEF Room
  <2>3. m("STAFF") \in Message /\ m("STAFF").thread = f.t /\ m("STAFF").part = Len(log) + 1
    BY <1>1, <2>2 DEF Authors
  <2> HIDE DEF m
  <2> QED BY <1>3, <2>1, <2>2, <2>3
<1>4. CASE f.op = "open" /\ ~f.greet
  <2>1. Messages(f) = <<>>
    BY <1>4 DEF Messages
  <2> QED BY <1>4, <2>1
<1> QED BY <1>2, <1>3, <1>4

LEMMA CommitSpeaks ==
  ASSUME Types, NEW w \in Workers, Commit(w)
  PROVE  Speaks(flight[w].t, Messages(flight[w])) /\ Types'
<1> DEFINE wrote == DOMAIN log' \ DOMAIN log
           r == [Idle EXCEPT !.op = flight[w].op, !.step = "tail", !.t = flight[w].t,
                             !.wrote = wrote]
<1>1. PICK f : f = flight[w]
  OBVIOUS
<1>2. PICK ms : ms = Messages(f)
  OBVIOUS
<1>3. /\ f.op \in {"submit", "open"} /\ f.step = "begun"
      /\ log' = log \o ms /\ Become(w, r) /\ now' = now /\ owed' = owed \cup wrote
      /\ Room(Len(ms))
      /\ thread' = IF f.op = "open" THEN [thread EXCEPT ![f.t].cleared = 0] ELSE thread
      /\ Moved(IF ms = <<>> THEN {} ELSE {f.t})
  BY <1>1, <1>2 DEF Commit
<1>4. f \in Request /\ f.t \in Threads /\ Fits(f, Len(thread), Len(log))
  BY <1>1, <1>3, RequestsFit, Sizes DEF Fits
<1>5. ms \in Seq(Message) /\ \A i \in DOMAIN ms : ms[i].thread = f.t
  BY <1>2, <1>3, <1>4, MessagesOf
<1>6. thread' \in Seq(Thread) /\ Len(thread)' = Len(thread)
  <2>1. /\ [thread EXCEPT ![f.t].cleared = 0] \in Seq(Thread)
        /\ Len([thread EXCEPT ![f.t].cleared = 0]) = Len(thread)
    BY <1>4, ColumnsOfThreads, Bounds
  <2>2. thread \in Seq(Thread)
    BY DEF Types
  <2>3. CASE f.op = "open"
    BY <1>3, <2>1, <2>3
  <2>4. CASE f.op # "open"
    BY <1>3, <2>2, <2>4
  <2> QED BY <2>3, <2>4
<1>7. Says(ms)
  BY <1>3, <1>4, <1>5 DEF Says, Threads
<1>w. wrote = Len(log) + 1 .. Len(log) + Len(ms) /\ Len(ms) \in Nat /\ Len(log) \in Nat
  BY <1>7, LogGrows, Sizes
<1> HIDE DEF wrote
<1>8. r \in Request /\ r.t = f.t /\ r.wrote = wrote /\ r.step = "tail"
  <2>1. wrote \in SUBSET Nat
    BY <1>w
  <2> QED BY <1>1, <1>3, <1>4, <2>1, IdleFits DEF Request, Ops, Steps
<1>9. Fits(r, Len(thread), Len(log) + Len(ms))
  BY <1>3, <1>4, <1>w, <1>8, Sizes DEF Fits
<1> HIDE DEF r
<1>10. Types'
  BY <1>3, <1>6, <1>7, <1>w, <1>9, SayingKeeps
<1> QED BY <1>1, <1>2, <1>3, <1>4, <1>5, <1>6, <1>7, <1>10 DEF Speaks

LEMMA PostCommitSpeaks ==
  ASSUME Types, NEW w \in Workers, PostCommit(w)
  PROVE  (\E ms : Speaks(flight[w].t, ms)) /\ Types'
<1> DEFINE r == [Idle EXCEPT !.op = "post", !.step = "push", !.t = flight[w].t,
                             !.wrote = {Len(log')}]
<1>1. PICK f : f = flight[w]
  OBVIOUS
<1>2. PICK a \in Authors : a = IF f.greet THEN "STAFF" ELSE "CUSTOMER"
  BY DEF Authors
<1>3. PICK ms : ms = <<[thread |-> f.t, author |-> a, at |-> f.at, part |-> 0]>>
  OBVIOUS
<1>4. /\ f.op = "post" /\ f.step = "begun"
      /\ log' = Append(log, [thread |-> f.t, author |-> a, at |-> f.at, part |-> 0]) /\ Become(w, r)
      /\ owed' = owed \cup {Len(log')} /\ UNCHANGED <<now, thread>> /\ Moved({f.t})
  BY <1>1, <1>2 DEF PostCommit, At
<1>5. f \in Request /\ f.t \in Threads /\ Fits(f, Len(thread), Len(log)) /\ f.at \in 0 .. MaxTime
  BY <1>1, <1>4, RequestsFit, Sizes DEF Fits, Request
<1>6. ms \in Seq(Message) /\ Len(ms) = 1 /\ \A i \in DOMAIN ms : ms[i].thread = f.t
  <2>1. f.t \in Threads /\ f.at \in 0 .. MaxTime /\ a \in Authors
    BY <1>2, <1>5
  <2>2. PICK t \in Threads, at \in 0 .. MaxTime : t = f.t /\ at = f.at
    BY <2>1
  <2>3. ms = <<[thread |-> t, author |-> a, at |-> at, part |-> 0]>>
    BY <1>3, <2>2
  <2>4. ms \in Seq(Message) /\ Len(ms) = 1 /\ \A i \in DOMAIN ms : ms[i].thread = t
    BY <2>1, <2>3, Bounds, OneMessage
  <2> QED BY <2>2, <2>4
<1>7. log' = log \o ms
  <2>1. log \in Seq(Message)
    BY DEF Types
  <2>2. [thread |-> f.t, author |-> a, at |-> f.at, part |-> 0] \in Message
    BY <1>3, <1>6
  <2> QED BY <1>3, <1>4, <2>1, <2>2
<1>8. Says(ms)
  BY <1>5, <1>6, <1>7 DEF Says, Threads
<1>9. Len(log') = Len(log) + 1
  BY <1>6, <1>8, LogGrows
<1>10. r \in Request /\ r.t = f.t /\ r.wrote = {Len(log) + 1} /\ r.step = "push"
  <2>1. {Len(log')} \in SUBSET Nat
    BY <1>9, Sizes
  <2> QED BY <1>1, <1>5, <1>9, <2>1, IdleFits DEF Request, Ops, Steps
<1>11. Fits(r, Len(thread), Len(log) + Len(ms))
  BY <1>5, <1>6, <1>10, Sizes DEF Fits
<1>12. thread' \in Seq(Thread) /\ Len(thread)' = Len(thread)
  BY <1>4 DEF Types
<1>13. Types'
  <2> HIDE DEF r
  <2>1. owed' \subseteq owed \cup (Len(log) + 1 .. Len(log) + Len(ms))
    BY <1>4, <1>6, <1>9, Sizes
  <2>2. Become(w, r) /\ now' = now /\ Len(ms) > 0
    BY <1>4, <1>6
  <2> QED BY <1>8, <1>11, <1>12, <2>1, <2>2, SayingKeeps
<1>14. ms # <<>>
  BY <1>3
<1>15. Speaks(f.t, ms)
  BY <1>4, <1>5, <1>6, <1>8, <1>12, <1>14 DEF Speaks
<1> QED BY <1>1, <1>13, <1>15

LEMMA ClearCommitSpeaks ==
  ASSUME Types, NEW w \in Workers, ClearCommit(w)
  PROVE  (\E ms : Speaks(flight[w].t, ms)) /\ Types'
<1>1. PICK f : f = flight[w]
  OBVIOUS
<1>2. PICK ms : ms = <<[thread |-> f.t, author |-> "NOTE", at |-> f.at, part |-> 0]>>
  OBVIOUS
<1>3. /\ f.op = "clear" /\ f.step = "begun" /\ Become(w, Idle)
      /\ thread' = [thread EXCEPT ![f.t].cleared = f.at]
      /\ log' = Append(log, [thread |-> f.t, author |-> "NOTE", at |-> f.at, part |-> 0])
      /\ UNCHANGED <<now, owed>> /\ Moved({f.t})
  BY <1>1 DEF ClearCommit, At
<1>4. f \in Request /\ f.t \in Threads /\ Fits(f, Len(thread), Len(log)) /\ f.at \in 0 .. MaxTime
  BY <1>1, <1>3, RequestsFit, Sizes DEF Fits, Request
<1>5. ms \in Seq(Message) /\ Len(ms) = 1 /\ \A i \in DOMAIN ms : ms[i].thread = f.t
  <2>1. PICK t \in Threads, at \in 0 .. MaxTime : t = f.t /\ at = f.at
    BY <1>4
  <2>2. "NOTE" \in Authors /\ 0 \in 0 .. MaxLog
    BY Bounds DEF Authors
  <2>3. ms = <<[thread |-> t, author |-> "NOTE", at |-> at, part |-> 0]>>
    BY <1>2, <2>1
  <2> QED BY <2>1, <2>2, <2>3, OneMessage
<1>6. log' = log \o ms
  <2>1. log \in Seq(Message)
    BY DEF Types
  <2>2. PICK m : m = [thread |-> f.t, author |-> "NOTE", at |-> f.at, part |-> 0]
    OBVIOUS
  <2>3. m \in Message /\ ms = <<m>> /\ log' = Append(log, m)
    BY <1>2, <1>3, <1>5, <2>2
  <2> QED BY <2>1, <2>3
<1>7. Says(ms)
  BY <1>4, <1>5, <1>6 DEF Says, Threads
<1>8. thread' \in Seq(Thread) /\ Len(thread)' = Len(thread)
  BY <1>3, <1>4, ColumnsOfThreads
<1>9. Fits(Idle, Len(thread), Len(log) + Len(ms))
  BY <1>5, IdleFits, Sizes DEF Fits
<1>10. Types'
  BY <1>3, <1>7, <1>8, <1>9, SayingKeeps
<1>11. ms # <<>>
  BY <1>2
<1>12. Speaks(f.t, ms)
  BY <1>3, <1>4, <1>5, <1>7, <1>8, <1>11 DEF Speaks
<1> QED BY <1>1, <1>10, <1>12

\* A request that ends.
LEMMA EndsKeep ==
  ASSUME Types, NEW w \in Workers, Drop(w) \/ PushTail(w) \/ Push(w)
  PROVE  Types'
<1>1. Become(w, Idle) /\ UNCHANGED <<now, thread, log>> /\ owed' \subseteq owed
  BY DEF Drop, PushTail, Push, Emit
<1>2. Fits(Idle, Len(thread), Len(log))
  BY IdleFits, Sizes DEF Fits
<1> QED BY <1>1, <1>2, QuietKeeps

LEMMA TypesInit == Init => Types
<1> SUFFICES ASSUME Init PROVE Types
  OBVIOUS
<1>1. now \in 1 .. MaxTime
  BY Bounds DEF Init
<1>2. thread \in Seq(Thread) /\ Len(thread) <= MaxThreads /\ Len(thread) \in Nat
  <2>1. CASE thread = <<>>
    BY <2>1, Bounds
  <2>2. ASSUME NEW c \in Customers, thread = <<[kind |-> "order", customer |-> c, cleared |-> 0]>>
        PROVE  thread \in Seq(Thread) /\ Len(thread) <= MaxThreads /\ Len(thread) \in Nat
    <3>1. [kind |-> "order", customer |-> c, cleared |-> 0] \in Thread
      BY Bounds DEF Thread
    <3> QED BY <2>2, <3>1, Bounds
  <2> QED BY <2>1, <2>2 DEF Init
<1>3. log = <<>> /\ owed = {} /\ flight = [w \in Workers |-> Idle]
  BY DEF Init
<1>4. log \in Seq(Message) /\ DOMAIN log = {} /\ Len(log) = 0
  BY <1>3
<1>5. \A w \in Workers : flight[w] = Idle
  BY <1>3
<1>6. flight \in [Workers -> Request] /\ \A w \in Workers : RequestOK(w)
  BY <1>2, <1>3, <1>4, <1>5, IdleFits DEF RequestOK
<1> QED BY <1>1, <1>2, <1>3, <1>4, <1>6 DEF Types

\* The steps, one by one.
LEMMA NextSteps ==
  ASSUME Next
  PROVE  \/ \E w \in Workers, c \in Customers, asked \in SUBSET Products, whole \in BOOLEAN :
              Submit(w, c, asked, whole) \/ Open(w, c, asked) \/ Clear(w, c)
         \/ \E w \in Workers, t \in Threads, a \in Posters : Post(w, t, a)
         \/ \E w \in Workers :
              \/ CreateThread(w) \/ Begin(w)
              \/ Commit(w) \/ PostCommit(w) \/ ClearCommit(w)
              \/ PushTail(w) \/ Push(w) \/ Drop(w)
         \/ ScrollPage \/ Tick
<1>1. CASE \E w \in Workers, c \in Customers, asked \in SUBSET Products \ {{}} :
             Submit(w, c, asked, asked = Products) \/ Submit(w, c, asked, TRUE)
               \/ Open(w, c, asked)
  <2>1. PICK w \in Workers, c \in Customers, asked \in SUBSET Products :
          Submit(w, c, asked, asked = Products) \/ Submit(w, c, asked, TRUE)
            \/ Open(w, c, asked)
    BY <1>1
  <2>2. PICK whole \in BOOLEAN : whole <=> asked = Products
    OBVIOUS
  <2>3. Submit(w, c, asked, asked = Products) => Submit(w, c, asked, whole)
    BY <2>2 DEF Submit, Become
  <2>4. TRUE \in BOOLEAN
    OBVIOUS
  <2> QED BY <2>1, <2>3, <2>4
<1>2. CASE \E w \in Workers, c \in Customers : Clear(w, c)
  <2>1. TRUE \in BOOLEAN /\ {} \in SUBSET Products
    OBVIOUS
  <2> QED BY <1>2, <2>1
<1> QED BY <1>1, <1>2 DEF Next

LEMMA TypesStep ==
  ASSUME Types, chips \in Seq(Chip), [Next]_vars
  PROVE  Types'
<1>1. CASE UNCHANGED vars
  BY <1>1 DEF vars, Types, RequestOK
<1>2. CASE \E w \in Workers, c \in Customers, asked \in SUBSET Products, whole \in BOOLEAN :
             Submit(w, c, asked, whole) \/ Open(w, c, asked) \/ Clear(w, c)
  BY <1>2, StartsKeep
<1>3. CASE \E w \in Workers, t \in Threads, a \in Posters : Post(w, t, a)
  BY <1>3, PostKeeps
<1>4. ASSUME NEW w \in Workers,
             \/ CreateThread(w) \/ Begin(w)
             \/ Commit(w) \/ PostCommit(w) \/ ClearCommit(w)
             \/ PushTail(w) \/ Push(w) \/ Drop(w)
      PROVE  Types'
  BY <1>4, CreateThreadKeeps, BeginKeeps, CommitSpeaks, PostCommitSpeaks, ClearCommitSpeaks,
     EndsKeep
<1>5. CASE ScrollPage
  BY <1>5 DEF ScrollPage, Types, RequestOK
<1>6. CASE Tick
  <2>1. now' = now + 1 /\ now < MaxTime /\ UNCHANGED <<thread, log, owed, flight>>
    BY <1>6 DEF Tick
  <2>2. now' \in 1 .. MaxTime
    BY <2>1, Bounds DEF Types
  <2> QED BY <2>1, <2>2 DEF Types, RequestOK
<1> QED BY <1>1, <1>2, <1>3, <1>4, <1>5, <1>6, NextSteps

\* The chips that a commit leaves and adds.
LEMMA ChipsStep ==
  ASSUME Types, chips \in Seq(Chip), [Next]_vars
  PROVE  chips' \in Seq(Chip)
<1>1. ASSUME NEW w \in Workers, Commit(w)
      PROVE  chips' \in Seq(Chip)
  <2>1. PICK f : f = flight[w]
    OBVIOUS
  <2>2. PICK K : K = {i \in DOMAIN chips : chips[i] \notin f.gone}
    OBVIOUS
  <2>3. chips' = Kept(chips, K) \o Added(f) /\ f.step = "begun"
    BY <1>1, <2>1, <2>2 DEF Commit
  <2>4. Kept(chips, K) \in Seq(Chip)
    BY <2>2, KeptIsSeq
  <2>5. f \in Request /\ f.t \in 1 .. MaxThreads
    BY <2>1, <2>3, RequestsFit, Sizes, Bounds DEF Fits
  <2> DEFINE row == [p \in f.asked |-> [thread |-> f.t, product |-> p, at |-> f.at]]
             rows == {[thread |-> f.t, product |-> p, at |-> f.at] : p \in f.asked}
  <2>6. f.asked \in SUBSET Products /\ IsFiniteSet(f.asked)
    BY <2>5, PartiesAssumption, FS_Subset DEF Request
  <2>7. row \in Surjection(f.asked, rows)
    BY DEF Surjection
  <2>8. IsFiniteSet(rows)
    <3> HIDE DEF row, rows
    <3> QED BY <2>6, <2>7, FS_Surjection
  <2>9. rows \subseteq Chip
    BY <2>5, <2>6 DEF Chip, Request
  <2>10. Added(f) \in Seq(Chip)
    <3>1. Added(f) = SetToSeq(rows)
      BY DEF Added
    <3>2. SetToSeq(rows) \in Seq(rows)
      <4> HIDE DEF rows
      <4> QED BY <2>8, WrittenIsSeq
    <3> HIDE DEF rows
    <3> QED BY <2>9, <3>1, <3>2, SeqMonotonic
  <2> QED BY <2>3, <2>4, <2>10, ConcatProperties
<1>2. CASE \E w \in Workers, c \in Customers, asked \in SUBSET Products, whole \in BOOLEAN :
             Submit(w, c, asked, whole) \/ Open(w, c, asked) \/ Clear(w, c)
  BY <1>2 DEF Submit, Open, Clear
<1>3. CASE \E w \in Workers, t \in Threads, a \in Posters : Post(w, t, a)
  BY <1>3 DEF Post
<1>4. ASSUME NEW w \in Workers,
             \/ CreateThread(w) \/ Begin(w) \/ PostCommit(w) \/ ClearCommit(w)
             \/ PushTail(w) \/ Push(w) \/ Drop(w)
      PROVE  chips' = chips
  BY <1>4 DEF CreateThread, Begin, PostCommit, ClearCommit, PushTail, Push, Drop
<1>5. CASE ScrollPage \/ Tick
  BY <1>5 DEF ScrollPage, Tick
<1>6. CASE UNCHANGED vars
  BY <1>6 DEF vars
<1> QED BY <1>1, <1>2, <1>3, <1>4, <1>5, <1>6, NextSteps

\* The variables have their types, and a request in flight names a thread and a
\* message that are there (CartNegotiationsService, OrdersService.postMessage).
THEOREM TypesHold == Spec => [](Types /\ chips \in Seq(Chip))
<1>1. Init => Types /\ chips \in Seq(Chip)
  BY TypesInit DEF Init
<1>2. Types /\ chips \in Seq(Chip) /\ [Next]_vars => (Types /\ chips \in Seq(Chip))'
  BY TypesStep, ChipsStep
<1> QED BY <1>1, <1>2, PTL DEF Spec

\* The type invariant of the module.
THEOREM TypeCorrect == Spec => []TypeOK
<1>1. Types /\ chips \in Seq(Chip) => TypeOK
  BY DEF Types, TypeOK, RequestOK
<1> QED BY <1>1, TypesHold, PTL

-----------------------------------------------------------------------------
(* Chips.                                                                  *)

\* Rows are as old as the clock, and a DELETE saw rows of its thread that were
\* there when its request began.
ChipInv ==
  /\ \A i \in DOMAIN chips : chips[i].at <= now
  /\ \A w \in Workers :
       /\ flight[w].at <= now
       /\ \A r \in flight[w].gone : r.thread = flight[w].t /\ r.at <= flight[w].at
       /\ flight[w].step = "found" => flight[w].gone = {}

\* The row at each place that is kept is still there.
LEMMA KeptHolds ==
  ASSUME NEW N \in Nat, NEW K \in SUBSET (1 .. N), NEW s, NEW i \in K
  PROVE  \E n \in DOMAIN Kept(s, K) : Kept(s, K)[n] = s[i]
<1>1. /\ IsFiniteSet(K) /\ Cardinality(K) \in Nat
  BY Places
<1> DEFINE upto(j) == {k \in K : k <= j}
           place(n) == CHOOSE j \in K : Cardinality({k \in K : k <= j}) = n
<1>2. \A j : upto(j) \in SUBSET K
  OBVIOUS
<1>3. \A j : /\ IsFiniteSet(upto(j)) /\ Cardinality(upto(j)) \in Nat
             /\ Cardinality(upto(j)) <= Cardinality(K)
  <2> HIDE DEF upto
  <2> QED BY <1>1, <1>2, FS_Subset, FS_CardinalityType
<1>4. PICK n : n = Cardinality(upto(i))
  OBVIOUS
<1>5. n \in 1 .. Cardinality(K)
  <2>1. i \in upto(i)
    OBVIOUS
  <2>2. n # 0
    <3> HIDE DEF upto
    <3> QED BY <1>3, <1>4, <2>1, FS_EmptySet
  <2>3. n \in Nat /\ n <= Cardinality(K)
    <3> HIDE DEF upto
    <3> QED BY <1>3, <1>4
  <2> QED BY <1>1, <2>2, <2>3
<1>6. \A j \in K : Cardinality(upto(j)) = n => j = i
  <2> SUFFICES ASSUME NEW j \in K, Cardinality(upto(j)) = n, j # i PROVE FALSE
    OBVIOUS
  <2>1. j \in Nat /\ i \in Nat /\ \A k \in K : k \in Nat
    OBVIOUS
  <2>2. CASE j < i
    <3>0. \A k \in K : k <= j => k <= i
      BY <2>1, <2>2
    <3>1. upto(j) \subseteq upto(i) /\ i \in upto(i) /\ i \notin upto(j)
      <4>1. ~(i <= j) /\ i <= i
        BY <2>1, <2>2
      <4> QED BY <3>0, <4>1, Zenon
    <3> HIDE DEF upto
    <3> QED BY <1>3, <1>4, <3>1, FS_Subset
  <2>3. CASE i < j
    <3>0. \A k \in K : k <= i => k <= j
      BY <2>1, <2>3
    <3>1. upto(i) \subseteq upto(j) /\ j \in upto(j) /\ j \notin upto(i)
      <4>1. ~(j <= i) /\ j <= j
        BY <2>1, <2>3
      <4> QED BY <3>0, <4>1, Zenon
    <3> HIDE DEF upto
    <3> QED BY <1>3, <1>4, <3>1, FS_Subset
  <2> QED BY <2>1, <2>2, <2>3
<1>7. place(n) = i
  BY <1>4, <1>6
<1>8. Kept(s, K) = [m \in 1 .. Cardinality(K) |-> s[place(m)]]
  BY DEF Kept
<1> HIDE DEF place
<1> QED BY <1>5, <1>7, <1>8

\* Every element of a finite set is written down.
LEMMA WrittenHolds ==
  ASSUME NEW S, IsFiniteSet(S), NEW x \in S
  PROVE  \E n \in DOMAIN SetToSeq(S) : SetToSeq(S)[n] = x
<1>1. Cardinality(S) \in Nat /\ ExistsBijection(1 .. Cardinality(S), S)
  BY FS_CardinalityType
<1>2. \E f \in [1 .. Cardinality(S) -> S] : IsInjective(f)
  BY <1>1 DEF ExistsBijection, Bijection, Injection, IsInjective
<1>3. PICK f : f = SetToSeq(S)
  OBVIOUS
<1>4. f \in [1 .. Cardinality(S) -> S] /\ IsInjective(f)
  BY <1>2, <1>3 DEF SetToSeq
<1>5. PICK N \in Nat : N = Cardinality(S)
  BY <1>1
<1> DEFINE T == {f[n] : n \in 1 .. N}
<1>6. T \subseteq S
  BY <1>4, <1>5
<1>7. f \in Bijection(1 .. N, T)
  BY <1>4, <1>5 DEF Bijection, Injection, Surjection, IsInjective
<1>8. ExistsBijection(1 .. N, T)
  <2> HIDE DEF T
  <2> QED BY <1>7 DEF ExistsBijection
<1>9. Cardinality(T) = N
  <2>1. IsFiniteSet(1 .. N) /\ Cardinality(1 .. N) = N
    BY FS_Interval
  <2> HIDE DEF T
  <2> QED BY <1>8, <2>1, FS_Bijection
<1>10. T = S
  <2> HIDE DEF T
  <2> QED BY <1>5, <1>6, <1>9, FS_Subset
<1>11. PICK n \in 1 .. N : f[n] = x
  BY <1>10
<1> QED BY <1>3, <1>4, <1>5, <1>11

\* The rows of a product in a thread, by time, and the youngest of some rows.
Times(t, p) == {chips[i].at : i \in {i \in RowsOf(t) : chips[i].product = p}}
Tops(A) == {a \in A : \A b \in A : b <= a}

\* A reader is shown a youngest row; what the customer is shown is no older than
\* what staff are shown.
LEMMA ShownIsTop ==
  Types /\ chips \in Seq(Chip) =>
    \A u \in Threads : \A q :
      /\ ShownAt(StaffChips(u), q) = Tops(Times(u, q))
      /\ ShownAt(CustomerChips(u), q) \subseteq Tops(Times(u, q))
      /\ Times(u, q) \subseteq Nat
<1> SUFFICES ASSUME Types, chips \in Seq(Chip), NEW t \in Threads, NEW p
             PROVE  /\ ShownAt(StaffChips(t), p) = Tops(Times(t, p))
                    /\ ShownAt(CustomerChips(t), p) \subseteq Tops(Times(t, p))
                    /\ Times(t, p) \subseteq Nat
  OBVIOUS
<1>1. \A i \in RowsOf(t) : chips[i] \in Chip /\ chips[i].at \in Nat
  <2>1. \A i \in DOMAIN chips : chips[i] \in Chip
    BY LenProperties
  <2> QED BY <2>1, Bounds DEF RowsOf, Chip
<1>2. thread[t].cleared \in Nat
  BY Sizes, Bounds DEF Thread
<1>3. Times(t, p) \subseteq Nat
  BY <1>1 DEF Times
<1>4. ASSUME NEW a, NEW rows \in SUBSET RowsOf(t)
      PROVE  a \in ShownAt(LatestItemPerProduct(rows), p) <=>
               \E i \in rows : /\ chips[i].product = p /\ a = chips[i].at
                               /\ \A j \in rows : chips[j].product = p => chips[j].at <= a
  BY DEF ShownAt, LatestItemPerProduct
<1>5. ASSUME NEW a
      PROVE  a \in Tops(Times(t, p)) <=>
               \E i \in RowsOf(t) : /\ chips[i].product = p /\ a = chips[i].at
                                    /\ \A j \in RowsOf(t) : chips[j].product = p => chips[j].at <= a
  BY DEF Times, Tops
<1>6. ShownAt(StaffChips(t), p) = Tops(Times(t, p))
  BY <1>4, <1>5 DEF StaffChips
<1>7. ASSUME NEW a \in ShownAt(CustomerChips(t), p) PROVE a \in Tops(Times(t, p))
  <2>1. PICK rows : rows = {i \in RowsOf(t) : Visible(t, chips[i].at)}
    OBVIOUS
  <2>2. PICK i \in rows : /\ chips[i].product = p /\ a = chips[i].at
                          /\ \A j \in rows : chips[j].product = p => chips[j].at <= a
    BY <1>4, <2>1 DEF CustomerChips
  <2>3. ASSUME NEW j \in RowsOf(t), chips[j].product = p PROVE chips[j].at <= a
    <3>1. chips[j].at \in Nat /\ a \in Nat /\ Visible(t, a)
      BY <1>1, <2>1, <2>2
    <3>2. CASE Visible(t, chips[j].at)
      BY <2>1, <2>2, <2>3, <3>2
    <3>3. CASE ~Visible(t, chips[j].at)
      BY <1>2, <3>1, <3>3 DEF Visible
    <3> QED BY <3>2, <3>3
  <2> QED BY <1>5, <2>1, <2>2, <2>3
<1> QED BY <1>3, <1>6, <1>7

\* What a commit leaves of a product in a thread, and what it adds.
LEMMA CommitTimes ==
  ASSUME Types, chips \in Seq(Chip), ChipInv, NEW w \in Workers, Commit(w),
         NEW t, NEW p
  PROVE  /\ (flight[w].t = t => p \in flight[w].asked) =>
              \A a \in Times(t, p) : \E b \in Times(t, p)' : a <= b
         /\ \A i \in DOMAIN chips' : chips'[i].at <= now
<1>1. PICK f : f = flight[w]
  OBVIOUS
<1>2. PICK K : K = {i \in DOMAIN chips : chips[i] \notin f.gone}
  OBVIOUS
<1>3. PICK kept, added : kept = Kept(chips, K) /\ added = Added(f)
  OBVIOUS
<1>4. chips' = kept \o added /\ f.step = "begun"
  BY <1>1, <1>2, <1>3 DEF Commit
<1>5. /\ Len(chips) \in Nat /\ DOMAIN chips = 1 .. Len(chips) /\ K \in SUBSET (DOMAIN chips)
      /\ \A i \in DOMAIN chips : chips[i] \in Chip /\ chips[i].at \in Nat
  <2>1. \A i \in DOMAIN chips : chips[i] \in Chip
    BY LenProperties
  <2> QED BY <1>2, <2>1, LenProperties, Bounds DEF Chip
<1>6. f \in Request /\ f.t \in 1 .. MaxThreads /\ f.at \in Nat /\ f.at <= now /\ now \in Nat
  <2>1. f \in Request /\ f.t \in 1 .. MaxThreads
    BY <1>1, <1>4, RequestsFit, Sizes, Bounds DEF Fits
  <2> QED BY <1>1, <2>1, Bounds DEF ChipInv, Request, Types
<1> DEFINE Old == {c \in Chip : c.at <= now}
           row == [q \in f.asked |-> [thread |-> f.t, product |-> q, at |-> f.at]]
           rows == {[thread |-> f.t, product |-> q, at |-> f.at] : q \in f.asked}
<1>7. chips \in Seq(Old)
  <2>1. \A i \in 1 .. Len(chips) : chips[i] \in Old
    BY <1>5 DEF ChipInv
  <2>2. chips = [i \in 1 .. Len(chips) |-> chips[i]]
    BY <1>5
  <2> HIDE DEF Old
  <2> QED BY <1>5, <2>1, <2>2
<1>8. kept \in Seq(Old)
  <2> HIDE DEF Old
  <2> QED BY <1>3, <1>5, <1>7, KeptIsSeq
<1>9. f.asked \in SUBSET Products /\ IsFiniteSet(f.asked)
  BY <1>6, PartiesAssumption, FS_Subset DEF Request
<1>10. IsFiniteSet(rows)
  <2>1. row \in Surjection(f.asked, rows)
    BY DEF Surjection
  <2> HIDE DEF row, rows
  <2> QED BY <1>9, <2>1, FS_Surjection
<1>11. rows \subseteq Old
  <2>1. f.at \in 0 .. MaxTime
    BY <1>6 DEF Request
  <2> QED BY <1>6, <1>9, <2>1 DEF Chip
<1>12. added = SetToSeq(rows)
  BY <1>3 DEF Added
<1>13. added \in Seq(Old)
  <2>1. SetToSeq(rows) \in Seq(rows)
    <3> HIDE DEF rows
    <3> QED BY <1>10, WrittenIsSeq
  <2> HIDE DEF rows, Old
  <2> QED BY <1>11, <1>12, <2>1, SeqMonotonic
<1>14. /\ Len(kept) \in Nat /\ Len(added) \in Nat
       /\ DOMAIN kept = 1 .. Len(kept) /\ DOMAIN added = 1 .. Len(added)
       /\ chips' \in Seq(Old) /\ DOMAIN chips' = 1 .. Len(kept) + Len(added)
       /\ \A i \in DOMAIN chips' :
            chips'[i] = IF i <= Len(kept) THEN kept[i] ELSE added[i - Len(kept)]
  <2> HIDE DEF Old
  <2>1. /\ chips' \in Seq(Old) /\ Len(kept) \in Nat /\ Len(added) \in Nat
        /\ DOMAIN kept = 1 .. Len(kept) /\ DOMAIN added = 1 .. Len(added)
        /\ Len(chips') = Len(kept) + Len(added)
        /\ \A i \in 1 .. Len(kept) + Len(added) :
             chips'[i] = IF i <= Len(kept) THEN kept[i] ELSE added[i - Len(kept)]
    BY <1>4, <1>8, <1>13, ConcatProperties, LenProperties
  <2>2. DOMAIN chips' = 1 .. Len(kept) + Len(added)
    BY <2>1, LenProperties
  <2> QED BY <2>1, <2>2
<1>15. \A i \in DOMAIN chips' : chips'[i].at <= now
  <2>1. \A i \in DOMAIN chips' : chips'[i] \in Old
    <3> HIDE DEF Old
    <3> QED BY <1>14, LenProperties
  <2> QED BY <2>1
<1>16. ASSUME flight[w].t = t => p \in flight[w].asked, NEW a \in Times(t, p)
       PROVE  \E b \in Times(t, p)' : a <= b
  <2>1. PICK i \in DOMAIN chips : chips[i].thread = t /\ chips[i].product = p /\ a = chips[i].at
    BY DEF Times, RowsOf
  <2>2. CASE i \in K
    <3>1. PICK n \in DOMAIN kept : kept[n] = chips[i]
      <4>1. PICK s : s = chips
        OBVIOUS
      <4>2. PICK N \in Nat : N = Len(chips)
        BY <1>5
      <4>4. K \in SUBSET (1 .. N)
        BY <1>5, <4>2
      <4>3. \E n \in DOMAIN Kept(s, K) : Kept(s, K)[n] = s[i]
        BY <2>2, <4>4, KeptHolds
      <4> QED BY <1>3, <4>1, <4>3
    <3>2. n \in DOMAIN chips' /\ chips'[n] = chips[i]
      BY <1>14, <3>1
    <3>3. a \in Times(t, p)'
      BY <2>1, <3>2 DEF Times, RowsOf
    <3>4. a \in Nat
      BY <1>5, <2>1
    <3> QED BY <3>3, <3>4
  <2>3. CASE i \notin K
    <3>1. chips[i] \in f.gone
      BY <1>2, <2>1, <2>3
    <3>2. f.t = t /\ a <= f.at
      BY <1>1, <2>1, <3>1 DEF ChipInv
    <3>3. p \in f.asked
      BY <1>1, <1>16, <3>2
    <3>4. PICK x : x = [thread |-> f.t, product |-> p, at |-> f.at]
      OBVIOUS
    <3>5. x \in rows
      BY <3>3, <3>4
    <3>6. PICK n \in DOMAIN added : added[n] = x
      <4> HIDE DEF rows
      <4> QED BY <1>10, <1>12, <3>5, WrittenHolds
    <3>7. Len(kept) + n \in DOMAIN chips' /\ chips'[Len(kept) + n] = x
      BY <1>14, <3>6
    <3>8. x.thread = t /\ x.product = p /\ x.at = f.at
      BY <3>2, <3>4
    <3>9. f.at \in Times(t, p)'
      BY <3>7, <3>8 DEF Times, RowsOf
    <3> QED BY <3>2, <3>9
  <2> QED BY <2>2, <2>3
<1> QED BY <1>15, <1>16

\* Every step keeps ChipInv.
LEMMA ChipStep ==
  ASSUME Types, Types', chips \in Seq(Chip), ChipInv, [Next]_vars
  PROVE  ChipInv'
<1>1. now \in Nat /\ now' \in Nat /\ flight \in [Workers -> Request]
  BY Bounds DEF Types
\* One request moves on, and the rows stay.
<1>2. ASSUME NEW w \in Workers, NEW r, Become(w, r), now' = now,
             \A i \in DOMAIN chips' : chips'[i].at <= now,
             r.at <= now, r.step = "found" => r.gone = {},
             \A c \in r.gone : c.thread = r.t /\ c.at <= r.at
      PROVE  ChipInv'
  <2>1. flight'[w] = r /\ \A v \in Workers : v # w => flight'[v] = flight[v]
    BY <1>1, <1>2 DEF Become
  <2> QED BY <1>2, <2>1 DEF ChipInv
<1>3. Idle.at <= now /\ Idle.gone = {}
  BY <1>1 DEF Idle
<1>4. ASSUME NEW w \in Workers, Become(w, Idle), now' = now,
             \A i \in DOMAIN chips' : chips'[i].at <= now
      PROVE  ChipInv'
  BY <1>2, <1>3, <1>4
<1>5. \A i \in DOMAIN chips : chips[i].at <= now
  BY DEF ChipInv
<1>6. CASE \E w \in Workers, c \in Customers, asked \in SUBSET Products, whole \in BOOLEAN :
             Submit(w, c, asked, whole) \/ Open(w, c, asked) \/ Clear(w, c)
  <2>1. PICK w \in Workers, c \in Customers, asked \in SUBSET Products, whole \in BOOLEAN :
             Submit(w, c, asked, whole) \/ Open(w, c, asked) \/ Clear(w, c)
    BY <1>6
  <2>2. now' = now /\ chips' = chips
    BY <2>1 DEF Submit, Open, Clear
  <2>3. PICK r : Become(w, r) /\ r.gone = {} /\ r.at <= now
    <3>1. CASE Submit(w, c, asked, whole)
      <4> DEFINE r == [Idle EXCEPT !.op = "submit", !.step = "found", !.c = c, !.t = Newest(c),
                                   !.asked = asked, !.all = whole]
      <4>1. Become(w, r)
        BY <3>1 DEF Submit
      <4>2. r.gone = {} /\ r.at = 0
        BY DEF Idle
      <4> HIDE DEF r
      <4> QED BY <1>1, <4>1, <4>2
    <3>2. CASE Open(w, c, asked)
      <4> DEFINE r == [Idle EXCEPT !.op = "open", !.step = "found", !.c = c, !.t = Newest(c),
                                   !.asked = asked, !.all = TRUE,
                                   !.greet = Said(Newest(c)) = {}]
      <4>1. Become(w, r)
        BY <3>2 DEF Open
      <4>2. r.gone = {} /\ r.at = 0
        BY DEF Idle
      <4> HIDE DEF r
      <4> QED BY <1>1, <4>1, <4>2
    <3>3. CASE Clear(w, c)
      <4> DEFINE r == [Idle EXCEPT !.op = "clear", !.step = "begun", !.c = c, !.t = Newest(c),
                                   !.at = now]
      <4>1. Become(w, r)
        BY <3>3 DEF Clear
      <4>2. r.gone = {} /\ r.at = now
        BY DEF Idle
      <4> HIDE DEF r
      <4> QED BY <1>1, <4>1, <4>2
    <3> QED BY <2>1, <3>1, <3>2, <3>3
  <2> QED BY <1>2, <1>5, <2>2, <2>3
<1>7. CASE \E w \in Workers, t \in Threads, a \in Posters : Post(w, t, a)
  <2>1. PICK w \in Workers, t \in Threads, a \in Posters : Post(w, t, a)
    BY <1>7
  <2> DEFINE r == [Idle EXCEPT !.op = "post", !.step = "begun", !.t = t, !.at = now,
                               !.greet = a = "STAFF"]
  <2>2. Become(w, r) /\ now' = now /\ chips' = chips
    BY <2>1 DEF Post
  <2>3. r.gone = {} /\ r.at = now
    BY DEF Idle
  <2> HIDE DEF r
  <2> QED BY <1>1, <1>2, <1>5, <2>2, <2>3
<1>8. ASSUME NEW w \in Workers, CreateThread(w) PROVE ChipInv'
  <2> DEFINE r == [flight[w] EXCEPT !.t = Len(thread')]
  <2>1. Become(w, r) /\ now' = now /\ chips' = chips /\ flight[w].step = "found"
    BY <1>8 DEF CreateThread, Become
  <2>2. r.gone = flight[w].gone /\ r.at = flight[w].at
    BY <1>1 DEF Request
  <2>3. PICK q : q = r
    OBVIOUS
  <2> HIDE DEF r
  <2>4. Become(w, q) /\ q.gone = {} /\ q.at <= now
    BY <2>1, <2>2, <2>3 DEF ChipInv
  <2> QED BY <1>2, <1>5, <2>1, <2>4
<1>9. ASSUME NEW w \in Workers, Begin(w) PROVE ChipInv'
  <2> DEFINE f == flight[w]
             gone == {i \in ToSet(chips) : i.thread = f.t /\ (f.all \/ i.product \in f.asked)}
             r == [f EXCEPT !.step = "begun", !.at = now, !.all = FALSE, !.gone = gone]
  <2>1. Become(w, r) /\ now' = now /\ chips' = chips
    BY <1>9 DEF Begin
  <2>2. \A c \in gone : c.thread = f.t /\ c.at <= now
    BY <1>5 DEF ToSet
  <2>3. r.gone = gone /\ r.at = now /\ r.t = f.t /\ r.step = "begun"
    <3> HIDE DEF gone
    <3> QED BY <1>1 DEF Request
  <2> HIDE DEF r, gone, f
  <2> QED BY <1>1, <1>2, <1>5, <2>1, <2>2, <2>3
<1>10. ASSUME NEW w \in Workers, Commit(w) PROVE ChipInv'
  <2> DEFINE r == [Idle EXCEPT !.op = flight[w].op, !.step = "tail", !.t = flight[w].t,
                               !.wrote = DOMAIN log' \ DOMAIN log]
  <2>1. Become(w, r) /\ now' = now
    BY <1>10 DEF Commit
  <2>2. r.gone = {} /\ r.at = 0
    BY DEF Idle
  <2>3. \A i \in DOMAIN chips' : chips'[i].at <= now
    BY <1>10, CommitTimes
  <2>4. PICK q : q = r
    OBVIOUS
  <2> HIDE DEF r
  <2> QED BY <1>1, <1>2, <2>1, <2>2, <2>3, <2>4
<1>11. ASSUME NEW w \in Workers, PostCommit(w) PROVE ChipInv'
  <2> DEFINE r == [Idle EXCEPT !.op = "post", !.step = "push", !.t = flight[w].t,
                               !.wrote = {Len(log')}]
  <2>1. Become(w, r) /\ now' = now /\ chips' = chips
    BY <1>11 DEF PostCommit
  <2>2. r.gone = {} /\ r.at = 0
    BY DEF Idle
  <2>3. PICK q : q = r
    OBVIOUS
  <2> HIDE DEF r
  <2> QED BY <1>1, <1>2, <1>5, <2>1, <2>2, <2>3
<1>12. ASSUME NEW w \in Workers, ClearCommit(w) \/ PushTail(w) \/ Push(w) \/ Drop(w)
       PROVE  ChipInv'
  <2>1. Become(w, Idle) /\ now' = now /\ chips' = chips
    BY <1>12 DEF ClearCommit, PushTail, Push, Drop
  <2> QED BY <1>4, <1>5, <2>1
<1>13. CASE ScrollPage \/ UNCHANGED vars
  BY <1>13 DEF ScrollPage, vars, ChipInv
<1>14. CASE Tick
  <2>1. now' = now + 1 /\ UNCHANGED <<chips, flight>>
    BY <1>14 DEF Tick
  <2>2. \A i \in DOMAIN chips : chips[i].at \in Nat
    <3>1. \A i \in DOMAIN chips : chips[i] \in Chip
      BY LenProperties
    <3> QED BY <3>1, Bounds DEF Chip
  <2>3. \A w \in Workers : flight[w].at \in Nat
    BY <1>1, Bounds DEF Request
  <2>4. \A i \in DOMAIN chips' : chips'[i].at <= now'
    BY <1>1, <1>5, <2>1, <2>2
  <2>5. \A w \in Workers : flight[w].at <= now'
    BY <1>1, <2>1, <2>3 DEF ChipInv
  <2> QED BY <2>1, <2>4, <2>5 DEF ChipInv
<1> QED BY <1>6, <1>7, <1>8, <1>9, <1>10, <1>11, <1>12, <1>13, <1>14, NextSteps

\* Only a commit of submit or open changes chips, and threads never go away.
LEMMA ChipsStay ==
  ASSUME [Next]_vars
  PROVE  chips' = chips \/ \E w \in Workers : Commit(w)
<1>1. CASE \E w \in Workers, c \in Customers, asked \in SUBSET Products, whole \in BOOLEAN :
             Submit(w, c, asked, whole) \/ Open(w, c, asked) \/ Clear(w, c)
  BY <1>1 DEF Submit, Open, Clear
<1>2. CASE \E w \in Workers, t \in Threads, a \in Posters : Post(w, t, a)
  BY <1>2 DEF Post
<1>3. ASSUME NEW w \in Workers,
             \/ CreateThread(w) \/ Begin(w) \/ PostCommit(w) \/ ClearCommit(w)
             \/ PushTail(w) \/ Push(w) \/ Drop(w)
      PROVE  chips' = chips
  BY <1>3 DEF CreateThread, Begin, PostCommit, ClearCommit, PushTail, Push, Drop
<1>4. CASE ScrollPage \/ Tick \/ UNCHANGED vars
  BY <1>4 DEF ScrollPage, Tick, vars
<1> QED BY <1>1, <1>2, <1>3, <1>4, NextSteps

LEMMA ThreadsStay ==
  ASSUME Types, [Next]_vars
  PROVE  Len(thread)' >= Len(thread) \/ UNCHANGED thread
<1>1. CASE \E w \in Workers, c \in Customers, asked \in SUBSET Products, whole \in BOOLEAN :
             Submit(w, c, asked, whole) \/ Open(w, c, asked) \/ Clear(w, c)
  BY <1>1 DEF Submit, Open, Clear
<1>2. CASE \E w \in Workers, t \in Threads, a \in Posters : Post(w, t, a)
  BY <1>2 DEF Post
<1>3. ASSUME NEW w \in Workers, CreateThread(w)
      PROVE  Len(thread)' >= Len(thread)
  <2> DEFINE new == [kind |-> "cart", customer |-> flight[w].c, cleared |-> 0]
  <2>1. thread' = Append(thread, new) /\ thread \in Seq(Thread)
    BY <1>3 DEF CreateThread, Types
  <2>2. new \in Thread
    BY Bounds DEF Thread, Types, Request
  <2>3. Len(thread)' = Len(thread) + 1 /\ Len(thread) \in Nat
    <3> HIDE DEF new
    <3> QED BY <2>1, <2>2
  <2> QED BY <2>3
<1>4. ASSUME NEW w \in Workers, Commit(w) \/ PostCommit(w) \/ ClearCommit(w)
      PROVE  Len(thread)' >= Len(thread)
  <2>1. Len(thread)' = Len(thread)
    BY <1>4, CommitSpeaks, PostCommitSpeaks, ClearCommitSpeaks DEF Speaks
  <2>2. Len(thread) \in Nat
    BY Sizes, Bounds
  <2> QED BY <2>1, <2>2
<1>5. ASSUME NEW w \in Workers, Begin(w) \/ PushTail(w) \/ Push(w) \/ Drop(w)
      PROVE  UNCHANGED thread
  BY <1>5 DEF Begin, PushTail, Push, Drop
<1>6. CASE ScrollPage \/ Tick \/ UNCHANGED vars
  BY <1>6 DEF ScrollPage, Tick, vars
<1> QED BY <1>1, <1>2, <1>3, <1>4, <1>5, <1>6, NextSteps

\* A reader's chip of a product is never followed by an older one.
LEMMA AdvanceStep ==
  ASSUME Types, Types', chips \in Seq(Chip), (chips \in Seq(Chip))', ChipInv, [Next]_vars,
         NEW t \in Threads, NEW p \in Products,
         ~\E w \in Workers : /\ flight[w].step = "begun" /\ flight[w].t = t
                             /\ p \notin flight[w].asked /\ flight'[w].step = "tail"
  PROVE  /\ \A a \in ShownAt(StaffChips(t), p), b \in ShownAt(StaffChips(t), p)' : a <= b
         /\ \A a \in ShownAt(CustomerChips(t), p), b \in ShownAt(CustomerChips(t), p)' : a <= b
<1>1. Threads \subseteq Threads'
  <2>1. CASE UNCHANGED thread
    BY <2>1 DEF Threads
  <2>2. CASE Len(thread)' >= Len(thread)
    BY <2>2, LenProperties DEF Types, Threads
  <2>3. Len(thread)' >= Len(thread) \/ UNCHANGED thread
    BY ThreadsStay
  <2> QED BY <2>1, <2>2, <2>3
<1>2. /\ ShownAt(StaffChips(t), p) = Tops(Times(t, p))
      /\ ShownAt(CustomerChips(t), p) \subseteq Tops(Times(t, p))
      /\ Times(t, p) \subseteq Nat
  BY ShownIsTop
<1>3. /\ ShownAt(StaffChips(t), p)' = Tops(Times(t, p))'
      /\ ShownAt(CustomerChips(t), p)' \subseteq Tops(Times(t, p))'
      /\ Times(t, p)' \subseteq Nat
  <2>1. (\A u \in Threads : \A q :
           /\ ShownAt(StaffChips(u), q) = Tops(Times(u, q))
           /\ ShownAt(CustomerChips(u), q) \subseteq Tops(Times(u, q))
           /\ Times(u, q) \subseteq Nat)'
    <3>1. (Types /\ chips \in Seq(Chip))'
      OBVIOUS
    <3> QED BY <3>1, ShownIsTop, PTL
  <2>2. t \in Threads'
    BY <1>1
  <2> QED BY <2>1, <2>2
<1>4. \A a \in Times(t, p) : chips' = chips \/ \E b \in Times(t, p)' : a <= b
  <2>1. CASE chips' = chips
    BY <2>1
  <2>2. ASSUME NEW w \in Workers, Commit(w)
        PROVE  \A a \in Times(t, p) : \E b \in Times(t, p)' : a <= b
    <3>1. flight[w].step = "begun" /\ flight'[w].step = "tail"
      <4> DEFINE r == [Idle EXCEPT !.op = flight[w].op, !.step = "tail", !.t = flight[w].t,
                                   !.wrote = DOMAIN log' \ DOMAIN log]
      <4>1. Become(w, r) /\ flight[w].step = "begun"
        BY <2>2 DEF Commit
      <4>2. r.step = "tail"
        BY DEF Idle
      <4>3. flight \in [Workers -> Request]
        BY DEF Types
      <4> HIDE DEF r
      <4> QED BY <4>1, <4>2, <4>3 DEF Become
    <3>2. flight[w].t = t => p \in flight[w].asked
      BY <3>1
    <3> QED BY <2>2, <3>2, CommitTimes
  <2> QED BY <2>1, <2>2, ChipsStay
<1>5. \A a \in Tops(Times(t, p)), b \in Tops(Times(t, p))' : a <= b
  <2> SUFFICES ASSUME NEW a \in Tops(Times(t, p)), NEW b \in Tops(Times(t, p))'
               PROVE  a <= b
    OBVIOUS
  <2>1. a \in Times(t, p) /\ a \in Nat
    BY <1>2 DEF Tops
  <2>2. b \in Times(t, p)' /\ b \in Nat /\ \A x \in Times(t, p)' : x <= b /\ x \in Nat
    BY <1>3 DEF Tops
  <2>3. CASE chips' = chips
    <3>1. Times(t, p)' = Times(t, p)
      BY <2>3 DEF Times, RowsOf
    <3> QED BY <2>1, <2>2, <3>1
  <2>4. CASE \E x \in Times(t, p)' : a <= x
    BY <2>1, <2>2, <2>4
  <2> QED BY <1>4, <2>1, <2>3, <2>4
<1> QED BY <1>2, <1>3, <1>5

\* However many submissions of a thread overlap and in whichever order they commit,
\* no reader sees a product's chip fall back to an older request's, but for a whole
\* cart that withdraws the product (submit, open, latestItemPerProduct, presentFor).
THEOREM ChipsAdvance == Spec => ChipsOnlyAdvance
<1>1. Init => ChipInv
  <2> SUFFICES ASSUME Init PROVE ChipInv
    OBVIOUS
  <2>1. chips = <<>> /\ now = 1 /\ \A w \in Workers : flight[w] = Idle
    BY DEF Init
  <2>2. Idle.at = 0 /\ Idle.gone = {}
    BY DEF Idle
  <2> QED BY <2>1, <2>2 DEF ChipInv
<1>2. Types /\ Types' /\ chips \in Seq(Chip) /\ ChipInv /\ [Next]_vars => ChipInv'
  BY ChipStep
<1>3. /\ Types /\ Types' /\ chips \in Seq(Chip) /\ (chips \in Seq(Chip))' /\ ChipInv
      /\ [Next]_vars
      => [\A t \in Threads, p \in Products :
            /\ ~\E w \in Workers : /\ flight[w].step = "begun" /\ flight[w].t = t
                                   /\ p \notin flight[w].asked /\ flight'[w].step = "tail"
            => /\ \A a \in ShownAt(StaffChips(t), p), b \in ShownAt(StaffChips(t), p)' : a <= b
               /\ \A a \in ShownAt(CustomerChips(t), p),
                     b \in ShownAt(CustomerChips(t), p)' : a <= b
         ]_vars
  BY AdvanceStep
<1> QED BY <1>1, <1>2, <1>3, TypesHold, PTL DEF Spec, ChipsOnlyAdvance

-----------------------------------------------------------------------------
(* Pushes.                                                                 *)

\* What a request wrote stands in its thread; if it is to read the thread again,
\* it wrote no more than it will push, and all there is of its submission.
Owns(r) ==
  /\ r.wrote \subseteq Said(r.t)
  /\ r.step = "tail" =>
       /\ Cardinality(r.wrote) <= IF r.op = "submit" THEN 2 ELSE 1
       /\ \A i \in r.wrote : log[i].part # 0
       /\ \A i \in r.wrote, j \in DOMAIN log : log[j].part = log[i].part => j \in r.wrote

\* Another request wrote as young a message.
Crowded(i) ==
  /\ log[i].part # 0
  /\ \E j \in Said(log[i].thread) : log[j].part # log[i].part /\ log[j].at >= log[i].at

PushInv ==
  /\ \A i \in DOMAIN log : log[i].part <= Len(log)
  /\ \A w \in Workers : Owns(flight[w])
  /\ MessagesArePushed

LEMMA OwedIs ==
  MessagesArePushed <=>
    \A i \in owed : (\E w \in Workers : i \in flight[w].wrote) \/ Crowded(i)
BY DEF MessagesArePushed, Crowded

\* One request moves on and may write messages; what it does not carry further is
\* emitted or crowded out.
LEMMA MovingKeepsPushes ==
  ASSUME Types, PushInv, NEW w \in Workers, NEW r, Become(w, r), NEW ms, Says(ms),
         \A i \in DOMAIN ms : ms[i].part = 0 \/ ms[i].part = Len(log) + 1,
         Owns(r)',
         \A i \in owed' :
           i \in r.wrote \/ Crowded(i)' \/ (i \in owed /\ i \notin flight[w].wrote)
  PROVE  PushInv'
<1>1. /\ Len(log) \in Nat /\ Len(ms) \in Nat /\ DOMAIN log = 1 .. Len(log)
      /\ DOMAIN ms = 1 .. Len(ms) /\ DOMAIN log' = 1 .. Len(log) + Len(ms)
      /\ Len(log)' = Len(log) + Len(ms)
      /\ \A i \in DOMAIN log' : log'[i] = IF i <= Len(log) THEN log[i] ELSE ms[i - Len(log)]
  BY LogGrows, Sizes, LenProperties DEF Says
<1>2. /\ flight' = [flight EXCEPT ![w] = r] /\ flight \in [Workers -> Request]
      /\ flight'[w] = r /\ \A v \in Workers : v # w => flight'[v] = flight[v]
  BY DEF Become, Types
<1>3. \A i \in DOMAIN log : i \in DOMAIN log' /\ log'[i] = log[i]
  BY <1>1
<1>4. \A i \in DOMAIN log' \ DOMAIN log : log'[i].part = 0 \/ log'[i].part = Len(log) + 1
  <2> TAKE i \in DOMAIN log' \ DOMAIN log
  <2>1. i - Len(log) \in DOMAIN ms /\ log'[i] = ms[i - Len(log)]
    BY <1>1
  <2> QED BY <2>1
<1>5. \A i \in DOMAIN log : log[i].part \in Nat /\ log[i].part <= Len(log)
  BY Sizes, Bounds DEF PushInv, Message
<1>6. \A i \in DOMAIN log' : log'[i].part <= Len(log)'
  <2> TAKE i \in DOMAIN log'
  <2>1. CASE i \in DOMAIN log
    BY <1>1, <1>3, <1>5, <2>1
  <2>2. CASE i \notin DOMAIN log
    <3>1. Len(ms) > 0
      BY <1>1, <2>2
    <3> QED BY <1>1, <1>4, <2>2, <3>1
  <2> QED BY <2>1, <2>2
<1>7. \A t : Said(t) \subseteq Said(t)' /\ Said(t) \subseteq DOMAIN log
  BY <1>3 DEF Said
<1>8. ASSUME NEW v \in Workers PROVE Owns(flight[v])'
  <2>1. CASE v = w
    BY <1>2, <2>1
  <2>2. CASE v # w
    <3>1. PICK f : f = flight[v] /\ f = flight'[v]
      BY <1>2, <2>2
    <3>2. Owns(f)
      BY <3>1 DEF PushInv
    <3>3. f.wrote \subseteq Said(f.t)' /\ f.wrote \subseteq DOMAIN log
      BY <1>7, <3>2 DEF Owns
    <3>4. ASSUME f.step = "tail", NEW i \in f.wrote, NEW j \in DOMAIN log',
                 log'[j].part = log'[i].part
          PROVE  j \in f.wrote
      <4>1. i \in DOMAIN log /\ log'[i] = log[i] /\ log[i].part # 0 /\ log[i].part <= Len(log)
            /\ log[i].part \in Nat
        BY <1>3, <1>5, <3>2, <3>3, <3>4 DEF Owns
      <4>2. j \in DOMAIN log
        BY <1>1, <1>4, <3>4, <4>1
      <4> QED BY <1>3, <3>2, <3>4, <4>1, <4>2 DEF Owns
    <3>5. \A i \in f.wrote : log'[i] = log[i]
      BY <1>3, <3>3
    <3>6. Owns(f)'
      BY <3>1, <3>2, <3>3, <3>4, <3>5 DEF Owns
    <3> QED BY <3>1, <3>6
  <2> QED BY <2>1, <2>2
<1>9. ASSUME NEW i \in owed'
      PROVE  (\E v \in Workers : i \in flight'[v].wrote) \/ Crowded(i)'
  <2>1. CASE i \in r.wrote
    BY <1>2, <2>1
  <2>2. CASE i \in owed /\ i \notin flight[w].wrote
    <3>1. CASE \E v \in Workers : i \in flight[v].wrote
      BY <1>2, <2>2, <3>1
    <3>2. CASE Crowded(i)
      <4>1. i \in DOMAIN log /\ log'[i] = log[i]
        BY <1>3, <2>2 DEF Types
      <4>2. PICK t : t = log[i].thread
        OBVIOUS
      <4>3. PICK j \in Said(t) : log[j].part # log[i].part /\ log[j].at >= log[i].at
        BY <3>2, <4>2 DEF Crowded
      <4>4. j \in Said(t)' /\ log'[j] = log[j] /\ log[i].part # 0
        BY <1>3, <1>7, <3>2, <4>3 DEF Crowded
      <4> QED BY <4>1, <4>2, <4>3, <4>4 DEF Crowded
    <3> QED BY <2>2, <3>1, <3>2, OwedIs DEF PushInv
  <2> QED BY <1>9, <2>1, <2>2
<1>10. MessagesArePushed'
  BY <1>9 DEF MessagesArePushed, Crowded
<1> QED BY <1>6, <1>8, <1>10 DEF PushInv

\* Nothing is written.
LEMMA QuietKeepsPushes ==
  ASSUME Types, PushInv, NEW w \in Workers, NEW r, Become(w, r), log' = log,
         r.wrote = {},
         \A i \in owed' : i \in owed /\ (i \in flight[w].wrote => Crowded(i))
  PROVE  PushInv'
<1>1. PICK ms : ms = <<>>
  OBVIOUS
<1>2. Says(ms) /\ DOMAIN ms = {}
  <2>1. log \in Seq(Message)
    BY DEF Types
  <2> QED BY <1>1, <2>1 DEF Says
<1>3. Owns(r)'
  <2>1. Cardinality(r.wrote) = 0
    BY FS_EmptySet
  <2> QED BY <2>1 DEF Owns
<1>4. \A i : Crowded(i)' <=> Crowded(i)
  BY DEF Crowded, Said
<1> QED BY <1>2, <1>3, <1>4, MovingKeepsPushes

\* A tail that leaves out a message of its own request shows as young a message of
\* another one.
LEMMA TailCrowds ==
  ASSUME Types, NEW r, Owns(r), r.step = "tail",
         NEW n, n = (IF r.op = "submit" THEN 2 ELSE 1),
         NEW S \in Tails(r.t, n), NEW i \in r.wrote, i \notin S
  PROVE  Crowded(i)
<1>1. /\ r.wrote \subseteq Said(r.t) /\ Cardinality(r.wrote) <= n /\ log[i].part # 0
      /\ \A j \in DOMAIN log : log[j].part = log[i].part => j \in r.wrote
  BY DEF Owns
<1>2. PICK A : A = Said(r.t)
  OBVIOUS
<1>3. IsFiniteSet(A) /\ A \subseteq DOMAIN log /\ \A j \in A : log[j].at \in Nat /\ log[j].thread = r.t
  <2>1. A \subseteq 1 .. Len(log) /\ IsFiniteSet(1 .. Len(log))
    BY <1>2, Sizes, FS_Interval DEF Said
  <2>2. IsFiniteSet(A)
    BY <2>1, FS_Subset
  <2> QED BY <1>2, <2>2, Sizes, Bounds DEF Said, Message
<1>4. /\ S \subseteq A /\ Cardinality(S) = IF Cardinality(A) < n THEN Cardinality(A) ELSE n
      /\ \A k \in S, j \in A \ S : log[j].at <= log[k].at
  BY <1>2 DEF Tails
<1>5. PICK W : W = r.wrote
  OBVIOUS
<1>6. /\ IsFiniteSet(W) /\ IsFiniteSet(S) /\ W \subseteq A
      /\ Cardinality(W) \in Nat /\ Cardinality(A) \in Nat /\ Cardinality(S) \in Nat
      /\ Cardinality(W) <= Cardinality(A) /\ n \in Nat
  <2>1. W \subseteq A /\ n \in Nat
    BY <1>1, <1>2, <1>5
  <2> QED BY <1>3, <1>4, <2>1, FS_Subset, FS_CardinalityType
<1>7. Cardinality(W) <= Cardinality(S)
  BY <1>1, <1>4, <1>5, <1>6
<1>8. PICK j \in S : j \notin W
  <2> SUFFICES ASSUME S \subseteq W PROVE FALSE
    OBVIOUS
  <2>1. Cardinality(S) <= Cardinality(W) /\ (Cardinality(W) = Cardinality(S) => W = S)
    BY <1>6, FS_Subset
  <2>2. W = S
    BY <1>6, <1>7, <2>1
  <2> QED BY <1>5, <2>2
<1>9. log[i].at <= log[j].at /\ j \in Said(log[i].thread) /\ log[j].part # log[i].part
  <2>1. i \in A /\ i \notin S /\ j \in A
    BY <1>4, <1>5, <1>6, <1>8
  <2>2. log[i].at <= log[j].at
    BY <1>4, <1>8, <2>1
  <2>3. log[i].thread = r.t /\ j \in DOMAIN log
    BY <1>3, <2>1
  <2> QED BY <1>1, <1>2, <1>5, <1>8, <2>1, <2>2, <2>3
<1>10. log[i].at \in Nat /\ log[j].at \in Nat
  BY <1>3, <1>4, <1>5, <1>6, <1>8
<1> QED BY <1>1, <1>9, <1>10 DEF Crowded

LEMMA CommitKeepsPushes ==
  ASSUME Types, PushInv, NEW w \in Workers, Commit(w)
  PROVE  PushInv'
<1> DEFINE wrote == DOMAIN log' \ DOMAIN log
           r == [Idle EXCEPT !.op = flight[w].op, !.step = "tail", !.t = flight[w].t,
                             !.wrote = wrote]
<1>1. PICK f : f = flight[w]
  OBVIOUS
<1>2. PICK ms : ms = Messages(f)
  OBVIOUS
<1>3. /\ f.op \in {"submit", "open"} /\ f.step = "begun" /\ Room(Len(ms))
      /\ Become(w, r) /\ owed' = owed \cup wrote
  BY <1>1, <1>2 DEF Commit
<1>4. Says(ms)
  BY <1>1, <1>2, CommitSpeaks DEF Speaks
<1>5. f \in Request /\ f.t \in Threads /\ f.wrote = {}
  BY <1>1, <1>3, RequestsFit, Sizes DEF Fits
<1>6. /\ Len(ms) \in 0 .. IF f.op = "submit" THEN 2 ELSE 1
      /\ \A i \in DOMAIN ms : ms[i].thread = f.t /\ ms[i].part = Len(log) + 1
  BY <1>2, <1>3, <1>5, MessagesOf
<1>7. /\ Len(log) \in Nat /\ Len(ms) \in Nat /\ DOMAIN log = 1 .. Len(log)
      /\ DOMAIN ms = 1 .. Len(ms) /\ DOMAIN log' = 1 .. Len(log) + Len(ms)
      /\ \A i \in DOMAIN log' : log'[i] = IF i <= Len(log) THEN log[i] ELSE ms[i - Len(log)]
  BY <1>4, LogGrows, Sizes, LenProperties DEF Says
<1>8. wrote = Len(log) + 1 .. Len(log) + Len(ms)
  BY <1>7
<1>9. PICK q : q = r
  OBVIOUS
<1>a. q.wrote = wrote /\ q.step = "tail" /\ q.op = f.op /\ q.t = f.t
  BY <1>1, <1>9 DEF Idle
<1>b. PICK W : W = wrote
  OBVIOUS
<1> HIDE DEF wrote, r
<1>10. \A i \in wrote : /\ i \in DOMAIN log' /\ log'[i].part = Len(log) + 1
                        /\ log'[i].thread = f.t
  <2> TAKE i \in wrote
  <2>1. i - Len(log) \in DOMAIN ms /\ log'[i] = ms[i - Len(log)] /\ i \in DOMAIN log'
    BY <1>7, <1>8
  <2> QED BY <1>6, <2>1
<1>11. \A j \in DOMAIN log' : log'[j].part = Len(log) + 1 => j \in wrote
  <2> SUFFICES ASSUME NEW j \in DOMAIN log', log'[j].part = Len(log) + 1, j \notin wrote
               PROVE  FALSE
    OBVIOUS
  <2>1. j \in DOMAIN log /\ log'[j] = log[j]
    BY <1>7, <1>8
  <2>2. log[j].part <= Len(log)
    BY <2>1 DEF PushInv
  <2> QED BY <1>7, <2>1, <2>2
<1>12. Cardinality(wrote) <= IF f.op = "submit" THEN 2 ELSE 1
  <2>1. PICK a \in Int, b \in Int : a = Len(log) + 1 /\ b = Len(log) + Len(ms)
    BY <1>7
  <2>2. Cardinality(a .. b) = IF a > b THEN 0 ELSE b - a + 1
    BY FS_Interval
  <2>3. Cardinality(wrote) = Len(ms)
    BY <1>7, <1>8, <2>1, <2>2
  <2> QED BY <1>6, <1>7, <2>3
<1>13. Owns(q)'
  <2>1. W \subseteq Said(f.t)'
    BY <1>b, <1>10 DEF Said
  <2>2. \A i \in W : log'[i].part # 0
    BY <1>b, <1>7, <1>10
  <2>3. \A i \in W, j \in DOMAIN log' : log'[j].part = log'[i].part => j \in W
    BY <1>b, <1>10, <1>11
  <2>4. q.wrote = W /\ Cardinality(W) <= IF q.op = "submit" THEN 2 ELSE 1
    BY <1>a, <1>b, <1>12
  <2> QED BY <1>a, <2>1, <2>2, <2>3, <2>4 DEF Owns
<1>14. \A i \in owed' : i \in q.wrote \/ (i \in owed /\ i \notin flight[w].wrote)
  BY <1>1, <1>3, <1>5, <1>a
<1>15. Become(w, q)
  BY <1>3, <1>9
<1>16. \A i \in DOMAIN ms : ms[i].part = 0 \/ ms[i].part = Len(log) + 1
  BY <1>6
<1> QED BY <1>4, <1>13, <1>14, <1>15, <1>16, MovingKeepsPushes

LEMMA PostCommitKeepsPushes ==
  ASSUME Types, PushInv, NEW w \in Workers, PostCommit(w)
  PROVE  PushInv'
<1> DEFINE r == [Idle EXCEPT !.op = "post", !.step = "push", !.t = flight[w].t,
                             !.wrote = {Len(log')}]
<1>1. PICK f : f = flight[w]
  OBVIOUS
<1>2. PICK a : a = IF f.greet THEN "STAFF" ELSE "CUSTOMER"
  OBVIOUS
<1>3. PICK m : m = [thread |-> f.t, at |-> f.at, part |-> 0, author |-> a]
  OBVIOUS
<1>4. /\ f.op = "post" /\ f.step = "begun" /\ log' = Append(log, m) /\ Become(w, r)
      /\ owed' = owed \cup {Len(log')} /\ Room(1)
  BY <1>1, <1>2, <1>3 DEF PostCommit, At
<1>5. f \in Request /\ f.t \in Threads /\ f.wrote = {}
  BY <1>1, <1>4, RequestsFit, Sizes DEF Fits
<1>6. m \in Message /\ m.part = 0 /\ m.thread = f.t
  BY <1>2, <1>3, <1>5, Sizes, Bounds DEF Message, Authors, Request
<1>7. PICK ms : ms = <<m>>
  OBVIOUS
<1>8. Says(ms) /\ Len(ms) = 1 /\ \A i \in DOMAIN ms : ms[i].part = 0
  <2>1. ms \in Seq(Message) /\ log \in Seq(Message) /\ Len(ms) = 1 /\ DOMAIN ms = {1} /\ ms[1] = m
    BY <1>6, <1>7 DEF Types
  <2>2. log' = log \o ms
    BY <1>4, <1>6, <1>7, <2>1
  <2> QED BY <1>5, <1>6, <2>1, <2>2 DEF Says, Threads
<1>9. Len(log') = Len(log) + 1 /\ Len(log') \in DOMAIN log' /\ log'[Len(log')] = m
  <2>1. log \in Seq(Message)
    BY DEF Types
  <2> QED BY <1>4, <1>6, <2>1, AppendProperties
<1>10. PICK q, n : q = r /\ n = Len(log')
  OBVIOUS
<1>a. q.wrote = {n} /\ q.step = "push" /\ q.t = f.t
  BY <1>1, <1>10 DEF Idle
<1> HIDE DEF r
<1>11. Owns(q)'
  BY <1>6, <1>9, <1>10, <1>a DEF Owns, Said
<1>12. \A i \in owed' : i \in q.wrote \/ (i \in owed /\ i \notin flight[w].wrote)
  BY <1>1, <1>4, <1>5, <1>10, <1>a
<1>13. Become(w, q)
  BY <1>4, <1>10
<1> QED BY <1>8, <1>11, <1>12, <1>13, MovingKeepsPushes

LEMMA ClearCommitKeepsPushes ==
  ASSUME Types, PushInv, NEW w \in Workers, ClearCommit(w)
  PROVE  PushInv'
<1>1. PICK f : f = flight[w]
  OBVIOUS
<1>2. PICK m : m = [thread |-> f.t, author |-> "NOTE", at |-> f.at, part |-> 0]
  OBVIOUS
<1>3. /\ f.op = "clear" /\ f.step = "begun" /\ log' = Append(log, m) /\ Become(w, Idle)
      /\ owed' = owed
  BY <1>1, <1>2 DEF ClearCommit, At
<1>4. f \in Request /\ f.t \in Threads /\ f.wrote = {}
  BY <1>1, <1>3, RequestsFit, Sizes DEF Fits
<1>5. m \in Message /\ m.part = 0 /\ m.thread = f.t
  BY <1>2, <1>4, Sizes, Bounds DEF Message, Authors, Request
<1>6. PICK ms : ms = <<m>>
  OBVIOUS
<1>7. Says(ms) /\ \A i \in DOMAIN ms : ms[i].part = 0
  <2>1. ms \in Seq(Message) /\ log \in Seq(Message) /\ DOMAIN ms = {1} /\ ms[1] = m
    BY <1>5, <1>6 DEF Types
  <2>2. log' = log \o ms
    BY <1>3, <1>5, <1>6, <2>1
  <2> QED BY <1>4, <1>5, <2>1, <2>2 DEF Says, Threads
<1>8. Owns(Idle)'
  <2>1. Cardinality({}) = 0
    BY FS_EmptySet
  <2> QED BY <2>1, IdleFits DEF Owns
<1>9. \A i \in owed' : i \in owed /\ i \notin flight[w].wrote
  BY <1>1, <1>3, <1>4
<1> QED BY <1>3, <1>7, <1>8, <1>9, MovingKeepsPushes

LEMMA PushStep ==
  ASSUME Types, PushInv, [Next]_vars
  PROVE  PushInv'
<1>1. CASE UNCHANGED <<log, owed, flight>>
  <2>1. \A r : Owns(r)' <=> Owns(r)
    BY <1>1 DEF Owns, Said
  <2>2. \A w : Owns(flight[w])' <=> Owns(flight[w])
    BY <1>1, <2>1
  <2>3. MessagesArePushed'
    BY <1>1 DEF PushInv, MessagesArePushed, Said
  <2> QED BY <1>1, <2>2, <2>3 DEF PushInv
<1>2. ASSUME NEW w \in Workers, flight[w].wrote = {}, log' = log, owed' = owed,
             NEW r, Become(w, r), r.wrote = {}
      PROVE  PushInv'
  BY <1>2, QuietKeepsPushes
<1>3. CASE \E w \in Workers, c \in Customers, asked \in SUBSET Products, whole \in BOOLEAN :
             Submit(w, c, asked, whole) \/ Open(w, c, asked) \/ Clear(w, c)
  <2>1. PICK w \in Workers, c \in Customers, asked \in SUBSET Products, whole \in BOOLEAN :
             Submit(w, c, asked, whole) \/ Open(w, c, asked) \/ Clear(w, c)
    BY <1>3
  <2>2. flight[w].wrote = {} /\ log' = log /\ owed' = owed
    BY <2>1, IdleFits DEF Submit, Open, Clear
  <2>3. \E r : Become(w, r) /\ r.wrote = {}
    <3>1. CASE Submit(w, c, asked, whole)
      <4>1. Become(w, [Idle EXCEPT !.op = "submit", !.step = "found", !.c = c, !.t = Newest(c),
                                   !.asked = asked, !.all = whole])
        BY <3>1 DEF Submit
      <4>2. [Idle EXCEPT !.op = "submit", !.step = "found", !.c = c, !.t = Newest(c),
                         !.asked = asked, !.all = whole].wrote = {}
        BY DEF Idle
      <4> QED BY <4>1, <4>2
    <3>2. CASE Open(w, c, asked)
      <4>1. Become(w, [Idle EXCEPT !.op = "open", !.step = "found", !.c = c, !.t = Newest(c),
                                   !.asked = asked, !.all = TRUE,
                                   !.greet = Said(Newest(c)) = {}])
        BY <3>2 DEF Open
      <4>2. [Idle EXCEPT !.op = "open", !.step = "found", !.c = c, !.t = Newest(c),
                         !.asked = asked, !.all = TRUE,
                         !.greet = Said(Newest(c)) = {}].wrote = {}
        BY DEF Idle
      <4> QED BY <4>1, <4>2
    <3>3. CASE Clear(w, c)
      <4>1. Become(w, [Idle EXCEPT !.op = "clear", !.step = "begun", !.c = c, !.t = Newest(c),
                                   !.at = now])
        BY <3>3 DEF Clear
      <4>2. [Idle EXCEPT !.op = "clear", !.step = "begun", !.c = c, !.t = Newest(c),
                         !.at = now].wrote = {}
        BY DEF Idle
      <4> QED BY <4>1, <4>2
    <3> QED BY <2>1, <3>1, <3>2, <3>3
  <2> QED BY <1>2, <2>2, <2>3
<1>4. CASE \E w \in Workers, t \in Threads, a \in Posters : Post(w, t, a)
  <2>1. PICK w \in Workers, t \in Threads, a \in Posters : Post(w, t, a)
    BY <1>4
  <2>2. flight[w].wrote = {} /\ log' = log /\ owed' = owed
    BY <2>1, IdleFits DEF Post
  <2>3. \E r : Become(w, r) /\ r.wrote = {}
    <3>1. Become(w, [Idle EXCEPT !.op = "post", !.step = "begun", !.t = t, !.at = now,
                                 !.greet = a = "STAFF"])
      BY <2>1 DEF Post
    <3>2. [Idle EXCEPT !.op = "post", !.step = "begun", !.t = t, !.at = now,
                       !.greet = a = "STAFF"].wrote = {}
      BY DEF Idle
    <3> QED BY <3>1, <3>2
  <2> QED BY <1>2, <2>2, <2>3
<1>5. ASSUME NEW w \in Workers, CreateThread(w) \/ Begin(w) PROVE PushInv'
  <2>1. flight[w].step = "found" /\ log' = log /\ owed' = owed
    BY <1>5 DEF CreateThread, Begin
  <2>2. flight[w].wrote = {} /\ flight[w] \in Request
    BY <2>1 DEF Types, RequestOK
  <2>3. \E r : Become(w, r) /\ r.wrote = {}
    <3>1. CASE CreateThread(w)
      <4>1. Become(w, [flight[w] EXCEPT !.t = Len(thread')])
        BY <3>1 DEF CreateThread, Become
      <4>2. [flight[w] EXCEPT !.t = Len(thread')].wrote = {}
        BY <2>2 DEF Request
      <4> QED BY <4>1, <4>2
    <3>2. CASE Begin(w)
      <4>1. PICK gone : Become(w, [flight[w] EXCEPT !.step = "begun", !.at = now,
                                                    !.all = FALSE, !.gone = gone])
        BY <3>2 DEF Begin
      <4>2. [flight[w] EXCEPT !.step = "begun", !.at = now,
                              !.all = FALSE, !.gone = gone].wrote = {}
        BY <2>2 DEF Request
      <4> QED BY <4>1, <4>2
    <3> QED BY <1>5, <3>1, <3>2
  <2> QED BY <1>2, <2>1, <2>2, <2>3
<1>6. ASSUME NEW w \in Workers, PushTail(w) PROVE PushInv'
  <2>1. PICK n, S : /\ n = (IF flight[w].op = "submit" THEN 2 ELSE 1)
                    /\ S \in Tails(flight[w].t, n) /\ owed' = owed \ S
    BY <1>6 DEF PushTail, Emit
  <2>2. flight[w].step = "tail" /\ Become(w, Idle) /\ log' = log
    BY <1>6 DEF PushTail
  <2>3. Owns(flight[w])
    BY DEF PushInv
  <2>4. PICK f : f = flight[w]
    OBVIOUS
  <2>5. \A i \in owed' : i \in owed /\ (i \in f.wrote => Crowded(i))
    BY <2>1, <2>2, <2>3, <2>4, TailCrowds
  <2> QED BY <2>2, <2>4, <2>5, IdleFits, QuietKeepsPushes
<1>7. ASSUME NEW w \in Workers, Push(w) \/ Drop(w) PROVE PushInv'
  <2>1. owed' = owed \ flight[w].wrote /\ Become(w, Idle) /\ log' = log
    BY <1>7 DEF Push, Drop, Emit
  <2> QED BY <2>1, IdleFits, QuietKeepsPushes
<1>8. CASE ScrollPage \/ Tick \/ UNCHANGED vars
  BY <1>1, <1>8 DEF ScrollPage, Tick, vars
<1> QED BY <1>3, <1>4, <1>5, <1>6, <1>7, <1>8, NextSteps, CommitKeepsPushes,
           PostCommitKeepsPushes, ClearCommitKeepsPushes

\* What is posted is emitted unless the request dies, and so is what submit and open
\* write, unless another request wrote as young a message to the thread
\* (CartNegotiationsService, OrdersService.postMessage, emitMessage).
THEOREM MessagesReach == Spec => []MessagesArePushed
<1>1. Init => PushInv
  <2> SUFFICES ASSUME Init PROVE PushInv
    OBVIOUS
  <2>1. log = <<>> /\ owed = {} /\ \A w \in Workers : flight[w] = Idle
    BY DEF Init
  <2>2. Cardinality({}) = 0
    BY FS_EmptySet
  <2>3. \A w \in Workers : Owns(flight[w])
    BY <2>1, <2>2, IdleFits DEF Owns
  <2> QED BY <2>1, <2>3 DEF PushInv, MessagesArePushed
<1>2. Types /\ PushInv /\ [Next]_vars => PushInv'
  BY PushStep
<1>3. PushInv => MessagesArePushed
  BY DEF PushInv
<1> QED BY <1>1, <1>2, <1>3, TypesHold, PTL DEF Spec

-----------------------------------------------------------------------------
(* The inbox.                                                              *)

\* The time of a thread is that of its youngest message.
LEMMA LastAtIs ==
  ASSUME Types, NEW t
  PROVE  /\ Said(t) # {} => \E i \in Said(t) : LastAt(t) = log[i].at
         /\ \A i \in Said(t) : log[i].at <= LastAt(t)
         /\ LastAt(t) \in 0 .. MaxTime
         /\ Said(t) = {} => LastAt(t) = 0
<1>1. CASE Said(t) = {}
  BY <1>1, Bounds DEF LastAt
<1>2. CASE Said(t) # {}
  <2> DEFINE times == {log[i].at : i \in Said(t)}
  <2>1. times \in SUBSET (0 .. MaxTime) /\ times # {}
    BY <1>2, Sizes DEF Said, Message
  <2>2. LastAt(t) = Max(times)
    BY <1>2 DEF LastAt
  <2>3. Max(times) \in times /\ \A i \in times : Max(times) >= i
    <3> HIDE DEF times
    <3> QED BY <2>1, Greatest, Bounds
  <2>4. \A i \in Said(t) : log[i].at \in times /\ log[i].at \in 0 .. MaxTime
    BY <2>1
  <2> QED BY <1>2, <2>1, <2>2, <2>3, <2>4, Bounds
<1> QED BY <1>1, <1>2

LEMMA LastAtBounds ==
  Types => \A v : LastAt(v) \in 0 .. MaxTime /\ \A i \in Said(v) : log[i].at <= LastAt(v)
BY LastAtIs

\* A message only ever moves its own thread, and moves it up.
LEMMA TimesGrow ==
  ASSUME Types, Types', NEW t, NEW ms, Speaks(t, ms), NEW u
  PROVE  /\ Said(u) \subseteq Said(u)' /\ LastAt(u) <= LastAt(u)'
         /\ (u # t \/ ms = <<>>) => Said(u)' = Said(u) /\ LastAt(u)' = LastAt(u)
<1>1. /\ Len(log) \in Nat /\ DOMAIN log = 1 .. Len(log) /\ DOMAIN log \subseteq DOMAIN log'
      /\ DOMAIN log' = 1 .. Len(log) + Len(ms) /\ Len(ms) \in Nat /\ DOMAIN ms = 1 .. Len(ms)
      /\ \A i \in DOMAIN log' :
           log'[i] = IF i <= Len(log) THEN log[i] ELSE ms[i - Len(log)]
  BY LogGrows, Sizes, LenProperties DEF Speaks, Says
<1>2. \A i \in DOMAIN log : log'[i] = log[i]
  BY <1>1
<1>3. Said(u) \subseteq Said(u)'
  BY <1>1, <1>2 DEF Said
<1>4. LastAt(u) <= LastAt(u)'
  <2>1. LastAt(u) \in 0 .. MaxTime /\ LastAt(u)' \in 0 .. MaxTime /\ MaxTime \in Nat
        /\ \A i \in Said(u)' : log'[i].at <= LastAt(u)'
    <3>1. (\A v : LastAt(v) \in 0 .. MaxTime /\ \A i \in Said(v) : log[i].at <= LastAt(v))'
      BY LastAtBounds, PTL
    <3> QED BY <3>1, LastAtBounds, Bounds
  <2>2. CASE Said(u) = {}
    BY <2>1, <2>2, LastAtIs
  <2>3. CASE Said(u) # {}
    <3>1. PICK i \in Said(u) : LastAt(u) = log[i].at
      BY <2>3, LastAtIs
    <3>2. log'[i] = log[i]
      BY <1>2 DEF Said
    <3> QED BY <1>3, <2>1, <3>1, <3>2
  <2> QED BY <2>2, <2>3
<1>5. ASSUME u # t \/ ms = <<>>
      PROVE  Said(u)' = Said(u) /\ LastAt(u)' = LastAt(u)
  <2>1. ASSUME NEW i \in Said(u)' PROVE i \in Said(u)
    <3>1. i \in DOMAIN log' /\ log'[i].thread = u
      BY DEF Said
    <3>2. CASE i <= Len(log)
      BY <1>1, <3>1, <3>2 DEF Said
    <3>3. CASE ~(i <= Len(log))
      <4>1. i - Len(log) \in DOMAIN ms /\ log'[i] = ms[i - Len(log)]
        BY <1>1, <3>1, <3>3
      <4>2. ms[i - Len(log)].thread = t /\ ms # <<>>
        BY <4>1 DEF Speaks
      <4> QED BY <1>5, <3>1, <4>1, <4>2
    <3> QED BY <3>2, <3>3
  <2>2. Said(u)' = Said(u)
    BY <1>3, <2>1
  <2>3. \A i \in Said(u) : log'[i].at = log[i].at
    BY <1>2 DEF Said
  <2>4. {log'[i].at : i \in Said(u)'} = {log[i].at : i \in Said(u)}
    BY <2>2, <2>3
  <2>5. LastAt(u)' = LastAt(u)
    BY <2>2, <2>4 DEF LastAt
  <2> QED BY <2>2, <2>5
<1> QED BY <1>3, <1>4, <1>5

\* What was shown stays above the cursor, what is due stays below.
LEMMA SpeaksKeepsScroll ==
  ASSUME Types, Types', ScrollInv, NEW t, NEW ms, Speaks(t, ms)
  PROVE  ScrollInv'
<1> DEFINE moved == IF ms = <<>> THEN {} ELSE {t}
<1>1. /\ scroll \in Scroll /\ scroll' = [scroll EXCEPT !.due = @ \ moved]
      /\ ~scroll.twice /\ ~scroll.missed
      /\ ~scroll.on => scroll.seen = {} /\ scroll.due = {}
  BY DEF ScrollInv, Speaks, Moved
<1>2. /\ scroll' \in Scroll /\ scroll'.due = scroll.due \ moved /\ scroll'.seen = scroll.seen
      /\ scroll'.on = scroll.on /\ scroll'.at = scroll.at /\ scroll'.id = scroll.id
      /\ scroll'.twice = scroll.twice /\ scroll'.missed = scroll.missed
  <2> HIDE DEF moved
  <2> QED BY <1>1 DEF Scroll
<1>3. Threads' = Threads
  <2>1. thread \in Seq(Thread) /\ thread' \in Seq(Thread) /\ Len(thread)' = Len(thread)
    BY DEF Types, Speaks
  <2> QED BY <2>1, LenProperties DEF Threads
<1>4. \A u : /\ Said(u) \subseteq Said(u)' /\ LastAt(u) <= LastAt(u)'
             /\ LastAt(u) \in Int /\ LastAt(u)' \in Int
             /\ u \notin moved => Said(u)' = Said(u) /\ LastAt(u)' = LastAt(u)
  <2> TAKE u
  <2>1. /\ Said(u) \subseteq Said(u)' /\ LastAt(u) <= LastAt(u)'
        /\ (u # t \/ ms = <<>>) => Said(u)' = Said(u) /\ LastAt(u)' = LastAt(u)
    BY TimesGrow
  <2>2. LastAt(u) \in 0 .. MaxTime
    BY LastAtIs
  <2>3. LastAt(u)' \in 0 .. MaxTime
    <3>1. (\A v : LastAt(v) \in 0 .. MaxTime /\ \A i \in Said(v) : log[i].at <= LastAt(v))'
      BY LastAtBounds, PTL
    <3> QED BY <3>1
  <2> QED BY <2>1, <2>2, <2>3, Bounds
<1>5. scroll.at \in Int /\ scroll.id \in Int
  BY <1>1, Bounds DEF Scroll
<1>6. ASSUME NEW u \in scroll.seen PROVE u \in Threads /\ ~Below(u, scroll.at, scroll.id)'
  <2>1. u \in Threads /\ ~Below(u, scroll.at, scroll.id) /\ u \in Nat
    BY <1>1 DEF ScrollInv, Scroll
  <2> QED BY <1>2, <1>4, <1>5, <2>1 DEF Below
<1>7. ASSUME NEW u \in scroll'.due
      PROVE  u \in Threads /\ Said(u)' # {} /\ Below(u, scroll.at, scroll.id)'
  <2>1. u \in scroll.due /\ u \notin moved
    BY <1>2
  <2>2. u \in Threads /\ Said(u) # {} /\ Below(u, scroll.at, scroll.id)
    BY <2>1 DEF ScrollInv
  <2> QED BY <1>2, <1>4, <2>1, <2>2 DEF Below
<1> QED BY <1>1, <1>2, <1>3, <1>6, <1>7 DEF ScrollInv

\* Steps that say nothing.
LEMMA SilenceKeepsScroll ==
  ASSUME ScrollInv, UNCHANGED <<log, scroll>>, Threads \subseteq Threads'
  PROVE  ScrollInv'
<1>1. \A t : Said(t)' = Said(t) /\ LastAt(t)' = LastAt(t)
  BY DEF Said, LastAt
<1> QED BY <1>1 DEF ScrollInv, Below

\* The order of the inbox is total, and the cursor is a place in it.
LEMMA AheadIsTotal ==
  ASSUME Types
  PROVE  /\ \A t, u : LastAt(t) \in Int /\ (Ahead(t, u) <=> Below(u, LastAt(t), t))
         /\ \A t, u \in Threads : t # u => Ahead(t, u) \/ Ahead(u, t)
         /\ \A t, u \in Threads : ~(Ahead(t, u) /\ Ahead(u, t))
         /\ \A t, u, v \in Threads : Ahead(t, u) /\ Ahead(u, v) => Ahead(t, v)
         /\ \A t, u \in Threads, at, id \in Int :
              Below(t, at, id) /\ Ahead(t, u) => Below(u, at, id)
<1>1. \A t : LastAt(t) \in Int
  BY LastAtBounds, Bounds
<1>2. \A t \in Threads : t \in Int
  BY Sizes
<1> QED BY <1>1, <1>2 DEF Ahead, Below

\* In a total order of finitely many there is one before nobody.
LEMMA LastOfAll ==
  ASSUME NEW T, IsFiniteSet(T), NEW S \in SUBSET T, S # {}, NEW R,
         \A t, u \in T : ~(<<t, u>> \in R /\ <<u, t>> \in R),
         \A t, u, v \in T : <<t, u>> \in R /\ <<u, v>> \in R => <<t, v>> \in R
  PROVE  \E t \in S : \A u \in S : <<t, u>> \notin R
<1> DEFINE After(t) == {u \in S : <<t, u>> \in R}
           sets == {After(t) : t \in S}
<1>1. sets \subseteq FiniteSubsetsOf(T) /\ sets # {}
  <2>1. \A t \in S : After(t) \in SUBSET T
    OBVIOUS
  <2>2. \A t \in S : IsFiniteSet(After(t))
    BY <2>1, FS_Subset
  <2>3. \A t \in S : After(t) \in FiniteSubsetsOf(T)
    BY <2>1, <2>2 DEF FiniteSubsetsOf
  <2> HIDE DEF After
  <2> QED BY <2>3
<1>2. IsWellFoundedOn(StrictSubsetOrdering(T), FiniteSubsetsOf(T))
  BY FS_StrictSubsetOrderingWellFounded
\* The fewest come after the last.
<1>3. PICK s \in sets : \A r \in sets : <<r, s>> \notin StrictSubsetOrdering(T)
  <2> HIDE DEF sets
  <2> QED BY <1>1, <1>2, WFMin
<1>4. PICK t \in S : s = After(t)
  BY <1>3
<1>5. ASSUME NEW u \in S, <<t, u>> \in R PROVE FALSE
  <2>1. After(u) \subseteq After(t) /\ u \in After(t) /\ u \notin After(u)
    BY <1>5
  <2>2. After(u) \in sets /\ After(u) \subseteq T /\ After(t) \subseteq T
    <3>1. After(u) \subseteq S /\ After(t) \subseteq S
      OBVIOUS
    <3> HIDE DEF After
    <3> QED BY <3>1
  <2> QED BY <1>3, <1>4, <2>1, <2>2 DEF StrictSubsetOrdering
<1> QED BY <1>5

\* Some thread of a set comes last, and some comes first.
LEMMA Ends ==
  ASSUME Types, NEW S \in SUBSET Threads, S # {}
  PROVE  /\ IsFiniteSet(S)
         /\ \E t \in S : \A u \in S : ~Ahead(t, u)
         /\ \E t \in S : \A u \in S : ~Ahead(u, t)
<1>1. IsFiniteSet(Threads) /\ IsFiniteSet(S)
  <2>1. Threads = 1 .. Len(thread) /\ Len(thread) \in Int
    BY Sizes, Bounds
  <2>2. IsFiniteSet(1 .. Len(thread))
    BY <2>1, FS_Interval
  <2> QED BY <2>1, <2>2, FS_Subset
<1> DEFINE R == {p \in Threads \X Threads : Ahead(p[1], p[2])}
           Q == {p \in Threads \X Threads : Ahead(p[2], p[1])}
<1>2. /\ \A t, u \in Threads : <<t, u>> \in R <=> Ahead(t, u)
      /\ \A t, u \in Threads : <<t, u>> \in Q <=> Ahead(u, t)
  OBVIOUS
<1> HIDE DEF R, Q
<1>3. \E t \in S : \A u \in S : <<t, u>> \notin R
  <2>1. /\ \A t, u \in Threads : ~(<<t, u>> \in R /\ <<u, t>> \in R)
        /\ \A t, u, v \in Threads : <<t, u>> \in R /\ <<u, v>> \in R => <<t, v>> \in R
    BY <1>2, AheadIsTotal
  <2>2. PICK T, r : T = Threads /\ r = R
    OBVIOUS
  <2>3. \E t \in S : \A u \in S : <<t, u>> \notin r
    BY <1>1, <2>1, <2>2, LastOfAll
  <2> QED BY <2>2, <2>3
<1>4. \E t \in S : \A u \in S : <<t, u>> \notin Q
  <2>1. /\ \A t, u \in Threads : ~(<<t, u>> \in Q /\ <<u, t>> \in Q)
        /\ \A t, u, v \in Threads : <<t, u>> \in Q /\ <<u, v>> \in Q => <<t, v>> \in Q
    BY <1>2, AheadIsTotal
  <2>2. PICK T, r : T = Threads /\ r = Q
    OBVIOUS
  <2>3. \E t \in S : \A u \in S : <<t, u>> \notin r
    BY <1>1, <2>1, <2>2, LastOfAll
  <2> QED BY <2>2, <2>3
<1> QED BY <1>1, <1>2, <1>3, <1>4

\* The page of what lies below the cursor, and the thread at its bottom.
PageOf(rows) == {t \in rows : Cardinality({u \in rows : Ahead(u, t)}) < PageSize}
BottomOf(page) == CHOOSE t \in page : \A u \in page : ~Ahead(t, u)

\* A page that is not all there is: behind its bottom is all that is left.
LEMMA PageEnds ==
  ASSUME Types, NEW rows \in SUBSET Threads, PageOf(rows) # rows
  PROVE  /\ BottomOf(PageOf(rows)) \in PageOf(rows)
         /\ \A u \in PageOf(rows) : ~Ahead(BottomOf(PageOf(rows)), u)
         /\ \A t \in rows \ PageOf(rows) : Ahead(BottomOf(PageOf(rows)), t)
<1>0. PICK page : page = PageOf(rows) /\ page # rows
  OBVIOUS
<1>a. page = {t \in rows : Cardinality({u \in rows : Ahead(u, t)}) < PageSize}
  BY <1>0 DEF PageOf
<1>1. rows # {} /\ IsFiniteSet(rows)
  BY <1>0, <1>a, Ends
<1> DEFINE Over(t) == {u \in rows : Ahead(u, t)}
<1>2. \A t : IsFiniteSet(Over(t)) /\ Cardinality(Over(t)) \in Nat
  <2>1. \A t : Over(t) \in SUBSET rows
    OBVIOUS
  <2> QED BY <1>1, <2>1, FS_Subset, FS_CardinalityType
<1>3. page # {} /\ page \in SUBSET Threads
  <2>1. PICK t \in rows : \A u \in rows : ~Ahead(u, t)
    BY <1>1, Ends
  <2>2. {u \in rows : Ahead(u, t)} = {}
    BY <2>1
  <2>3. Cardinality({u \in rows : Ahead(u, t)}) < PageSize
    BY <2>2, FS_EmptySet, Bounds
  <2> QED BY <1>a, <2>3
<1>4. \E t \in page : \A u \in page : ~Ahead(t, u)
  BY <1>3, Ends
<1>5. PICK last \in page : last = BottomOf(page) /\ \A u \in page : ~Ahead(last, u)
  BY <1>4 DEF BottomOf
<1>6. ASSUME NEW t \in rows, t \notin page PROVE Ahead(last, t)
  <2>1. last # t /\ last \in Threads /\ t \in Threads
    BY <1>3, <1>5, <1>6
  <2> SUFFICES ASSUME Ahead(t, last) PROVE FALSE
    BY <2>1, AheadIsTotal
  <2>2. Over(t) \subseteq Over(last)
    BY <2>1, AheadIsTotal
  <2>3. Cardinality(Over(t)) <= Cardinality(Over(last))
    BY <1>2, <2>2, FS_Subset
  <2>4. Cardinality(Over(last)) < PageSize
    BY <1>a, <1>5
  <2>5. Cardinality(Over(t)) < PageSize
    <3>1. Cardinality(Over(t)) \in Nat /\ Cardinality(Over(last)) \in Nat
      BY <1>2
    <3> HIDE DEF Over
    <3> QED BY <2>3, <2>4, <3>1, Bounds
  <2> QED BY <1>a, <1>6, <2>5
<1> QED BY <1>0, <1>5, <1>6

\* A page shows none again, leaves what is due below its cursor, and the last page
\* has shown everything that was due.
LEMMA PageKeepsScroll ==
  ASSUME Types, ScrollInv, ScrollPage
  PROVE  ScrollInv'
<1> DEFINE Rows == {t \in Threads : Said(t) # {} /\ Below(t, scroll.at, scroll.id)}
           Page == {t \in Rows : Cardinality({u \in Rows : Ahead(u, t)}) < PageSize}
           Bottom == CHOOSE t \in Page : \A u \in Page : ~Ahead(t, u)
           Due == IF scroll.on THEN scroll.due ELSE Rows
           Shown == scroll.seen \cup Page
           Again == scroll.twice \/ scroll.seen \cap Page # {}
<1>1. PICK rows, page : rows = Rows /\ page = Page
  OBVIOUS
<1>2. PICK due, shown, again : due = Due /\ shown = Shown /\ again = Again
  OBVIOUS
<1>3. scroll' = IF page # rows
                THEN [scroll EXCEPT !.on = TRUE, !.seen = shown, !.twice = again,
                        !.due = due \ shown, !.at = LastAt(Bottom), !.id = Bottom]
                ELSE [NoScroll EXCEPT !.twice = again, !.missed = ~(due \subseteq shown)]
  BY <1>1, <1>2 DEF ScrollPage
<1>4. UNCHANGED <<thread, log>>
  BY DEF ScrollPage
<1>5. \A t : Said(t)' = Said(t) /\ LastAt(t)' = LastAt(t)
  BY <1>4 DEF Said, LastAt
<1>6. /\ scroll \in Scroll /\ ~scroll.twice /\ ~scroll.missed
      /\ ~scroll.on => scroll.seen = {} /\ scroll.due = {}
      /\ scroll.at \in Int /\ scroll.id \in Int
  BY Bounds DEF ScrollInv, Scroll
<1>7. /\ rows \in SUBSET Threads /\ page \in SUBSET rows
      /\ page = PageOf(rows)
      /\ \A t \in rows : Said(t) # {} /\ Below(t, scroll.at, scroll.id)
  BY <1>1 DEF PageOf
<1>8. /\ due \subseteq rows /\ shown = scroll.seen \cup page
      /\ again = (scroll.twice \/ scroll.seen \cap page # {})
  BY <1>1, <1>2 DEF ScrollInv
<1>9. again = FALSE
  BY <1>6, <1>7, <1>8 DEF ScrollInv
<1>10. shown \in SUBSET Threads /\ Threads \in SUBSET Nat /\ due \in SUBSET Threads
  BY <1>7, <1>8, Sizes DEF ScrollInv
<1>11. Threads' = Threads
  BY <1>4 DEF Threads
<1>12. CASE page # rows
  <2>1. PICK last \in page :
          /\ last = BottomOf(page)
          /\ \A u \in page : ~Ahead(last, u)
          /\ \A t \in rows \ page : Ahead(last, t)
    BY <1>7, <1>12, PageEnds
  <2>2. last = Bottom
    BY <1>1, <2>1 DEF BottomOf
  <2>3. PICK at \in 0 .. MaxTime : at = LastAt(last)
    BY LastAtBounds
  <2>4. last \in Threads /\ last \in 0 .. MaxThreads
    BY <1>7, <2>1, Sizes, Bounds
  <2>5. scroll' = [scroll EXCEPT !.on = TRUE, !.seen = shown, !.twice = again,
                     !.due = due \ shown, !.at = at, !.id = last]
    BY <1>3, <1>12, <2>2, <2>3
  <2>6. /\ scroll'.on = TRUE /\ scroll'.seen = shown /\ scroll'.twice = again
        /\ scroll'.due = due \ shown /\ scroll'.at = at /\ scroll'.id = last
        /\ scroll'.missed = scroll.missed
    BY <1>6, <2>5 DEF Scroll
  <2>7. scroll' \in Scroll
    <3>1. at \in 0 .. MaxTime + 1 /\ again \in BOOLEAN /\ shown \in SUBSET Nat
          /\ (due \ shown) \in SUBSET Nat
      <4>1. again \in BOOLEAN
        BY <1>9
      <4>2. shown \in SUBSET Nat /\ (due \ shown) \in SUBSET Nat
        BY <1>10
      <4>3. at \in 0 .. MaxTime + 1
        BY Bounds
      <4> QED BY <4>1, <4>2, <4>3
    <3> QED BY <1>6, <2>4, <2>5, <3>1 DEF Scroll
  <2>8. ASSUME NEW t \in shown PROVE ~Below(t, at, last)
    <3>1. CASE t \in page
      BY <2>1, <2>3, <3>1, AheadIsTotal
    <3>2. CASE t \in scroll.seen
      <4>1. t \in Threads /\ ~Below(t, scroll.at, scroll.id)
        BY <3>2 DEF ScrollInv
      <4>2. Below(last, scroll.at, scroll.id)
        BY <1>7, <2>1
      <4>3. Ahead(last, t) => Below(t, scroll.at, scroll.id)
        BY <1>6, <2>4, <4>1, <4>2, AheadIsTotal
      <4> QED BY <2>3, <4>1, <4>3, AheadIsTotal
    <3> QED BY <1>8, <3>1, <3>2
  <2>9. ASSUME NEW t \in due \ shown PROVE t \in Threads /\ Said(t) # {} /\ Below(t, at, last)
    <3>1. t \in rows /\ t \notin page
      BY <1>8
    <3>2. Ahead(last, t)
      BY <2>1, <3>1
    <3> QED BY <1>7, <2>3, <3>1, <3>2, AheadIsTotal
  <2>10. \A t : Below(t, at, last)' <=> Below(t, at, last)
    BY <1>5 DEF Below
  <2>11. /\ \A t \in scroll'.seen : t \in Threads' /\ ~Below(t, scroll.at, scroll.id)'
         /\ \A t \in scroll'.due : /\ t \in Threads' /\ Said(t)' # {}
                                   /\ Below(t, scroll.at, scroll.id)'
    BY <1>5, <1>10, <1>11, <2>6, <2>8, <2>9 DEF Below
  <2> QED BY <1>6, <1>9, <2>6, <2>7, <2>11 DEF ScrollInv
<1>13. CASE page = rows
  <2>1. due \subseteq shown
    BY <1>8, <1>13
  <2>2. scroll' = [NoScroll EXCEPT !.twice = again, !.missed = ~(due \subseteq shown)]
    BY <1>3, <1>13
  <2>3. /\ scroll' \in Scroll /\ ~scroll'.on /\ scroll'.seen = {} /\ scroll'.due = {}
        /\ ~scroll'.twice /\ ~scroll'.missed
    <3>1. scroll' = [NoScroll EXCEPT !.twice = FALSE, !.missed = FALSE]
      BY <1>9, <2>1, <2>2
    <3>2. NoScroll \in Scroll
      BY Bounds DEF NoScroll, Scroll
    <3>3. NoScroll.on = FALSE /\ NoScroll.seen = {} /\ NoScroll.due = {}
      BY DEF NoScroll
    <3> QED BY <3>1, <3>2, <3>3 DEF Scroll
  <2> QED BY <2>3 DEF ScrollInv
<1> QED BY <1>12, <1>13

LEMMA ScrollStep ==
  ASSUME Types, Types', ScrollInv, [Next]_vars
  PROVE  ScrollInv'
<1>1. ASSUME UNCHANGED <<thread, log, scroll>> PROVE ScrollInv'
  <2>1. Threads \subseteq Threads'
    BY <1>1 DEF Threads
  <2> QED BY <1>1, <2>1, SilenceKeepsScroll
<1>2. CASE \E w \in Workers, c \in Customers, asked \in SUBSET Products, whole \in BOOLEAN :
             Submit(w, c, asked, whole) \/ Open(w, c, asked) \/ Clear(w, c)
  BY <1>1, <1>2 DEF Submit, Open, Clear
<1>3. CASE \E w \in Workers, t \in Threads, a \in Posters : Post(w, t, a)
  BY <1>1, <1>3 DEF Post
<1>4. ASSUME NEW w \in Workers, CreateThread(w) PROVE ScrollInv'
  <2>1. UNCHANGED <<log, scroll>>
        /\ thread' = Append(thread, [kind |-> "cart", customer |-> flight[w].c, cleared |-> 0])
    BY <1>4 DEF CreateThread
  <2>2. Threads \subseteq Threads'
    <3>1. flight[w] \in Request
      BY DEF Types
    <3>2. [kind |-> "cart", customer |-> flight[w].c, cleared |-> 0] \in Thread
      BY <3>1, Bounds DEF Thread, Request
    <3>3. Len(thread)' = Len(thread) + 1 /\ Len(thread) \in Nat /\ thread' \in Seq(Thread)
      BY <2>1, <3>2, AppendProperties, LenProperties DEF Types
    <3>4. DOMAIN thread' = 1 .. Len(thread) + 1 /\ DOMAIN thread = 1 .. Len(thread)
      BY <3>3, LenProperties DEF Types
    <3> QED BY <3>3, <3>4 DEF Threads
  <2> QED BY <2>1, <2>2, SilenceKeepsScroll
<1>5. ASSUME NEW w \in Workers, Commit(w) \/ PostCommit(w) \/ ClearCommit(w) PROVE ScrollInv'
  <2>1. PICK ms : Speaks(flight[w].t, ms)
    BY <1>5, CommitSpeaks, PostCommitSpeaks, ClearCommitSpeaks
  <2>2. PICK t : t = flight[w].t
    OBVIOUS
  <2> QED BY <2>1, <2>2, SpeaksKeepsScroll
<1>6. ASSUME NEW w \in Workers, Begin(w) \/ PushTail(w) \/ Push(w) \/ Drop(w) PROVE ScrollInv'
  BY <1>1, <1>6 DEF Begin, PushTail, Push, Drop
<1>7. CASE ScrollPage
  BY <1>7, PageKeepsScroll
<1>8. CASE Tick \/ UNCHANGED vars
  BY <1>1, <1>8 DEF Tick, vars
<1> QED BY <1>2, <1>3, <1>4, <1>5, <1>6, <1>7, <1>8, NextSteps

\* Scrolling neither skips nor repeats, while messages arrive and commit out of
\* order (list and fetch of NegotiationInboxService).
THEOREM InboxShowsTrue == Spec => []InboxIsTrue
<1>1. Init => ScrollInv
  <2> SUFFICES ASSUME Init PROVE ScrollInv
    OBVIOUS
  <2>1. scroll = NoScroll
    BY DEF Init
  <2>2. NoScroll \in Scroll
    BY Bounds DEF NoScroll, Scroll
  <2> QED BY <2>1, <2>2 DEF ScrollInv, NoScroll
<1>2. Types /\ Types' /\ ScrollInv /\ [Next]_vars => ScrollInv'
  BY ScrollStep
<1>3. Types /\ ScrollInv => InboxIsTrue
  BY DEF InboxIsTrue, ScrollInv
<1> QED BY <1>1, <1>2, <1>3, TypesHold, PTL DEF Spec

=============================================================================
