-------------------------- MODULE CatalogueProofs --------------------------
(***************************************************************************)
(* Theorems of Catalogue: its type invariant, how long an answer can be    *)
(* out of date, and what the caches say of the product, for every set of   *)
(* entries, every number of reads and writes in flight, every time to live *)
(* and every duration of a fill.                                           *)
(*                                                                         *)
(* Theorems of Images, the links that catalogue rows are served with: its  *)
(* type invariant, that the slots for the provider are counted right, and  *)
(* that links outlive the responses that hold them, for any images,        *)
(* readers and slots and any times in which a link outlives its two caches *)
(* and the answer of the provider.                                         *)
(***************************************************************************)
EXTENDS Catalogue, Images, FiniteSetTheorems, TLAPS

-----------------------------------------------------------------------------
(* The inductive invariants.                                               *)

Slot == [answer : Answer, left : Nat]
Read == [busy : BOOLEAN, key : Keys, answer : Answer, age : Nat, stores : BOOLEAN]

\* What has been out of date for long has little time left.  A threshold that
\* was read from the database is no older than the fill that read it; one that
\* was read from the cache may be a whole life of the cache older.
SlotOk(k, s) ==
  /\ s.left <= Life[k]
  /\ s.left > 0 =>
       /\ s.answer.stale <= FillTime + 1 + Life[k] - s.left
       /\ s.answer.limit <= IF k = "threshold" THEN FillTime + 1 + Life[k] - s.left
                            ELSE Life["threshold"] + FillTime + FillTime + Life[k] - s.left

ReadOk(r) ==
  /\ r.age <= FillTime
  /\ r.busy =>
       /\ r.key # "threshold"
       /\ r.answer.stale <= r.age + 1
       /\ r.answer.limit <= Life["threshold"] + FillTime + r.age
       /\ r.stores => r.answer.limit <= r.age + 1

Typed ==
  /\ active \in BOOLEAN /\ excluded \in BOOLEAN
  /\ entry \in [Keys -> Slot]
  /\ filler \in [Fillers -> Read]
  /\ writer \in [Writers -> SUBSET Keys]

Healthy ==
  /\ Typed
  /\ \A k \in Keys : SlotOk(k, entry[k])
  /\ \A f \in Fillers : ReadOk(filler[f])

\* Some write has yet to delete this entry.
Pending(k) == \E w \in Writers : k \in writer[w]

\* A read that saw the other state of the product is known to be out of date,
\* so that the deletion that does not reach it excuses it.
Membership ==
  /\ InactiveIsExcluded
  /\ MembershipFollows
  /\ \A f \in Fillers :
       filler[f].busy /\ filler[f].answer.shows # active =>
         /\ filler[f].answer.stale > 0
         /\ filler[f].answer.excused \/ Pending(filler[f].key)

-----------------------------------------------------------------------------
(* The ways in which an entry or a read changes.                           *)

LateSlot(s) == [s EXCEPT !.answer.stale = Outdate(@)]
OldSlot(s) == [s EXCEPT !.answer.limit = Outdate(@)]
ExcusedSlot(s) == [s EXCEPT !.answer.excused = TRUE]
LateRead(r) == [r EXCEPT !.answer.stale = Outdate(@)]
OldRead(r) == [r EXCEPT !.answer.limit = Outdate(@)]
ExcusedRead(r) == [r EXCEPT !.answer.excused = TRUE]
AgedRead(r) == [r EXCEPT !.age = @ + 1, !.answer = Older(@)]

LEMMA Constants ==
  /\ "threshold" \in Keys /\ FillTime \in Nat
  /\ \A k \in Keys : Life[k] \in Nat /\ Life[k] > 0
  BY KeysAssumption, LifeAssumption DEF AllKeys

\* An answer that is out of date, older or excused is an answer, and is
\* otherwise the answer it was.
Same(b, a) == b \in Answer /\ b.shows = a.shows

LEMMA AnswersStay ==
  ASSUME NEW a \in Answer
  PROVE  /\ LET b == [a EXCEPT !.stale = Outdate(@)]
            IN Same(b, a) /\ b.stale = Outdate(a.stale) /\ b.limit = a.limit
               /\ b.excused = a.excused
         /\ LET b == [a EXCEPT !.limit = Outdate(@)]
            IN Same(b, a) /\ b.stale = a.stale /\ b.limit = Outdate(a.limit)
               /\ b.excused = a.excused
         /\ LET b == [a EXCEPT !.excused = TRUE]
            IN Same(b, a) /\ b.stale = a.stale /\ b.limit = a.limit /\ b.excused
  <1>1. Outdate(a.stale) \in Nat /\ Outdate(a.limit) \in Nat
    BY DEF Answer, Outdate
  <1>4. \A s \in Nat :
          /\ LET b == [a EXCEPT !.stale = s]
             IN Same(b, a) /\ b.stale = s /\ b.limit = a.limit /\ b.excused = a.excused
          /\ LET b == [a EXCEPT !.limit = s]
             IN Same(b, a) /\ b.stale = a.stale /\ b.limit = s /\ b.excused = a.excused
    BY DEF Answer, Same
  <1>5. LET b == [a EXCEPT !.excused = TRUE]
        IN Same(b, a) /\ b.stale = a.stale /\ b.limit = a.limit /\ b.excused
    BY DEF Answer, Same
  <1>7. /\ LET b == [a EXCEPT !.stale = Outdate(@)]
           IN Same(b, a) /\ b.stale = Outdate(a.stale) /\ b.limit = a.limit
              /\ b.excused = a.excused
        /\ LET b == [a EXCEPT !.limit = Outdate(@)]
           IN Same(b, a) /\ b.stale = a.stale /\ b.limit = Outdate(a.limit)
              /\ b.excused = a.excused
    BY <1>1, <1>4
  <1>. QED BY <1>5, <1>7

Increase(m, n) == m \in Nat /\ n \in Nat /\ (n = 0 => m = 0) /\ (n # 0 => m = n + 1)

LEMMA AnswersAge ==
  ASSUME NEW a \in Answer
  PROVE  /\ Same(Older(a), a) /\ Older(a).excused = a.excused
         /\ Increase(Older(a).stale, a.stale) /\ Increase(Older(a).limit, a.limit)
  <1> DEFINE stale == IF a.stale = 0 THEN 0 ELSE a.stale + 1
             limit == IF a.limit = 0 THEN 0 ELSE a.limit + 1
  <1>1. Increase(stale, a.stale) /\ Increase(limit, a.limit)
    BY DEF Answer, Increase
  <1>2. Older(a) = [a EXCEPT !.stale = stale, !.limit = limit]
    BY DEF Older
  <1> HIDE DEF stale, limit
  <1>3. Same(Older(a), a) /\ Older(a).excused = a.excused
        /\ Older(a).stale = stale /\ Older(a).limit = limit
    BY <1>1, <1>2 DEF Answer, Same, Increase
  <1>. QED BY <1>1, <1>3

LEMMA SlotsChange ==
  ASSUME NEW s \in Slot
  PROVE  /\ s.answer \in Answer /\ s.left \in Nat
         /\ LateSlot(s) \in Slot /\ LateSlot(s).left = s.left
         /\ LateSlot(s).answer = [s.answer EXCEPT !.stale = Outdate(@)]
         /\ OldSlot(s) \in Slot /\ OldSlot(s).left = s.left
         /\ OldSlot(s).answer = [s.answer EXCEPT !.limit = Outdate(@)]
         /\ ExcusedSlot(s) \in Slot /\ ExcusedSlot(s).left = s.left
         /\ ExcusedSlot(s).answer = [s.answer EXCEPT !.excused = TRUE]
  <1>1. s.answer \in Answer /\ s.left \in Nat
    BY DEF Slot
  <1>2. \A a \in Answer :
          LET t == [s EXCEPT !.answer = a] IN t \in Slot /\ t.left = s.left /\ t.answer = a
    BY DEF Slot
  <1>. QED BY <1>1, <1>2, AnswersStay DEF LateSlot, OldSlot, ExcusedSlot, Same

\* A read that goes on, with what it will answer and its age.
Onward(t, r, a, n) ==
  /\ t \in Read /\ t.busy = r.busy /\ t.key = r.key /\ t.stores = r.stores
  /\ t.answer = a /\ t.age = n

LEMMA ReadsChange ==
  ASSUME NEW r \in Read
  PROVE  /\ r.answer \in Answer /\ r.age \in Nat /\ r.key \in Keys
         /\ r.busy \in BOOLEAN /\ r.stores \in BOOLEAN
         /\ Onward(LateRead(r), r, [r.answer EXCEPT !.stale = Outdate(@)], r.age)
         /\ Onward(OldRead(r), r, [r.answer EXCEPT !.limit = Outdate(@)], r.age)
         /\ Onward(ExcusedRead(r), r, [r.answer EXCEPT !.excused = TRUE], r.age)
         /\ Onward(AgedRead(r), r, Older(r.answer), r.age + 1)
  <1>1. /\ r.answer \in Answer /\ r.age \in Nat /\ r.key \in Keys
        /\ r.busy \in BOOLEAN /\ r.stores \in BOOLEAN
    BY DEF Read
  <1>2. \A a \in Answer : Onward([r EXCEPT !.answer = a], r, a, r.age)
    BY DEF Read, Onward
  <1>4. Onward(AgedRead(r), r, Older(r.answer), r.age + 1)
    <2> DEFINE a == Older(r.answer)
               n == r.age + 1
    <2>1. a \in Answer /\ n \in Nat
      BY <1>1, AnswersAge DEF Same
    <2>3. AgedRead(r) = [r EXCEPT !.age = n, !.answer = a]
      BY DEF AgedRead
    <2> HIDE DEF a, n
    <2>2. Onward(AgedRead(r), r, a, n)
      BY <2>1, <2>3 DEF Read, Onward
    <2>. QED BY <2>2 DEF a, n
  <1>5. Onward(LateRead(r), r, [r.answer EXCEPT !.stale = Outdate(@)], r.age)
    BY <1>1, <1>2, AnswersStay DEF LateRead, Same
  <1>6. Onward(OldRead(r), r, [r.answer EXCEPT !.limit = Outdate(@)], r.age)
    BY <1>1, <1>2, AnswersStay DEF OldRead, Same
  <1>7. Onward(ExcusedRead(r), r, [r.answer EXCEPT !.excused = TRUE], r.age)
    BY <1>1, <1>2, AnswersStay DEF ExcusedRead, Same
  <1>. QED BY <1>1, <1>4, <1>5, <1>6, <1>7

LEMMA EmptyOk ==
  /\ Blank \in Answer /\ Absent \in Slot /\ Unused \in Read
  /\ \A k \in Keys : SlotOk(k, Absent)
  /\ ReadOk(Unused)
  <1>1. Blank \in Answer
    BY DEF Blank, Answer
  <1>2. Absent \in Slot /\ Absent.left = 0 /\ Absent.answer = Blank
    BY <1>1 DEF Absent, Slot
  <1>3. Unused \in Read /\ ~Unused.busy /\ Unused.age = 0
    BY <1>1, Constants DEF Unused, Read
  <1>. QED BY <1>1, <1>2, <1>3, Constants DEF SlotOk, ReadOk

-----------------------------------------------------------------------------
(* Entries and reads stay within their bounds.                             *)

\* What an answer may have become at once.
Touched(b, a) == Same(b, a) /\ b.stale \in {a.stale, 1} /\ b.limit \in {a.limit, 1}

LEMMA Touching ==
  /\ \A s \in Slot : \A t \in {LateSlot(s), OldSlot(s), ExcusedSlot(s)} :
       t \in Slot /\ t.left = s.left /\ Touched(t.answer, s.answer)
  /\ \A r \in Read : \A t \in {LateRead(r), OldRead(r), ExcusedRead(r)} :
       Touched(t.answer, r.answer) /\ Onward(t, r, t.answer, r.age)
  <1>1. \A a \in Answer : /\ Touched([a EXCEPT !.stale = Outdate(@)], a)
                          /\ Touched([a EXCEPT !.limit = Outdate(@)], a)
                          /\ Touched([a EXCEPT !.excused = TRUE], a)
    BY AnswersStay DEF Touched, Outdate
  <1>2. ASSUME NEW s \in Slot
        PROVE  /\ s.answer \in Answer
               /\ LateSlot(s) \in Slot /\ LateSlot(s).left = s.left
               /\ Touched(LateSlot(s).answer, s.answer)
               /\ OldSlot(s) \in Slot /\ OldSlot(s).left = s.left
               /\ Touched(OldSlot(s).answer, s.answer)
               /\ ExcusedSlot(s) \in Slot /\ ExcusedSlot(s).left = s.left
               /\ Touched(ExcusedSlot(s).answer, s.answer)
    BY <1>1, SlotsChange
  <1>3. ASSUME NEW r \in Read
        PROVE  /\ Touched(LateRead(r).answer, r.answer)
               /\ Onward(LateRead(r), r, LateRead(r).answer, r.age)
               /\ Touched(OldRead(r).answer, r.answer)
               /\ Onward(OldRead(r), r, OldRead(r).answer, r.age)
               /\ Touched(ExcusedRead(r).answer, r.answer)
               /\ Onward(ExcusedRead(r), r, ExcusedRead(r).answer, r.age)
    BY <1>1, ReadsChange DEF Onward
  <1>. QED BY <1>2, <1>3

LEMMA TouchedOk ==
  ASSUME NEW k \in Keys, NEW s \in Slot, SlotOk(k, s),
         NEW t \in Slot, t.left = s.left, Touched(t.answer, s.answer)
  PROVE  SlotOk(k, t)
  <1>1. /\ s.left \in Nat /\ Life[k] \in Nat /\ FillTime \in Nat /\ Life["threshold"] \in Nat
        /\ s.answer.stale \in Nat /\ s.answer.limit \in Nat /\ Life["threshold"] > 0
    BY SlotsChange, Constants DEF Answer
  <1>2. CASE k = "threshold"
    BY <1>1, <1>2 DEF SlotOk, Touched
  <1>3. CASE k # "threshold"
    BY <1>1, <1>3 DEF SlotOk, Touched
  <1>. QED BY <1>2, <1>3

LEMMA TouchedReadOk ==
  ASSUME NEW r \in Read, ReadOk(r), NEW t \in Read,
         Onward(t, r, t.answer, r.age), Touched(t.answer, r.answer)
  PROVE  ReadOk(t)
  <1>1. /\ r.age \in Nat /\ FillTime \in Nat /\ Life["threshold"] \in Nat
        /\ r.answer.stale \in Nat /\ r.answer.limit \in Nat /\ Life["threshold"] > 0
    BY ReadsChange, Constants DEF Answer
  <1>2. t.age = r.age /\ t.busy = r.busy /\ t.key = r.key /\ t.stores = r.stores
    BY DEF Onward
  <1>. QED BY <1>1, <1>2 DEF ReadOk, Touched

\* A tick takes from an entry's time what it adds to its age.
LEMMA AgedOk ==
  ASSUME NEW k \in Keys, entry \in [Keys -> Slot], SlotOk(k, entry[k])
  PROVE  /\ Aged(k) \in Slot /\ SlotOk(k, Aged(k))
         /\ Aged(k).left > 0 => /\ entry[k].left > 0
                                /\ Same(Aged(k).answer, entry[k].answer)
                                /\ Aged(k).answer.excused = entry[k].answer.excused
  <1> DEFINE s == entry[k]
             a == Older(s.answer)
             t == [answer |-> a, left |-> s.left - 1]
  <1>1. s \in Slot /\ s.answer \in Answer /\ s.left \in Nat
    BY SlotsChange
  <1>2. CASE s.left <= 1
    BY <1>2, EmptyOk DEF Aged, Absent
  <1>3. CASE s.left > 1
    <2>1. Aged(k) = t
      BY <1>1, <1>3 DEF Aged
    <2>2. /\ Same(a, s.answer) /\ a.excused = s.answer.excused
          /\ Increase(a.stale, s.answer.stale) /\ Increase(a.limit, s.answer.limit)
      BY <1>1, AnswersAge
    <2>3. Life[k] \in Nat /\ FillTime \in Nat /\ Life["threshold"] \in Nat
      BY Constants
    <2> HIDE DEF a
    <2>4. t \in Slot /\ t.left = s.left - 1 /\ t.answer = a
      BY <1>1, <1>3, <2>2 DEF Slot, Same
    <2>5. SlotOk(k, s)
      OBVIOUS
    <2> HIDE DEF s, t
    <2>6. SlotOk(k, t)
      BY <1>1, <1>3, <2>2, <2>3, <2>4, <2>5 DEF SlotOk, Increase
    <2>. QED BY <1>1, <1>3, <2>1, <2>2, <2>4, <2>6 DEF s
  <1>. QED BY <1>1, <1>2, <1>3

LEMMA AgedReadOk ==
  ASSUME NEW r \in Read, ReadOk(r), r.busy, r.age < FillTime
  PROVE  ReadOk(AgedRead(r))
  <1>1. /\ r.answer \in Answer /\ r.age \in Nat /\ FillTime \in Nat
        /\ Life["threshold"] \in Nat
    BY ReadsChange, Constants DEF Answer
  <1>2. Onward(AgedRead(r), r, Older(r.answer), r.age + 1)
    BY ReadsChange
  <1>3. /\ Same(Older(r.answer), r.answer)
        /\ Increase(Older(r.answer).stale, r.answer.stale)
        /\ Increase(Older(r.answer).limit, r.answer.limit)
    BY <1>1, AnswersAge
  <1>. QED BY <1>1, <1>2, <1>3 DEF ReadOk, Increase, Onward

-----------------------------------------------------------------------------
(* Every step keeps the caches healthy.                                    *)

LEMMA InitHealthy == Init => Healthy
  <1> SUFFICES ASSUME Init PROVE Healthy
    OBVIOUS
  <1>1. Typed
    BY EmptyOk DEF Init, Typed
  <1>2. \A k \in Keys : SlotOk(k, entry[k])
    BY EmptyOk DEF Init
  <1>3. \A f \in Fillers : ReadOk(filler[f])
    BY EmptyOk DEF Init
  <1>. QED BY <1>1, <1>2, <1>3 DEF Healthy

\* Entries and reads that are touched by a commit or a deletion stay in bounds.
SlotsTouched ==
  /\ entry' = [k \in Keys |-> entry'[k]]
  /\ \A k \in Keys : \/ entry'[k] \in {entry[k], Absent}
                     \/ entry'[k] \in {LateSlot(entry[k]), OldSlot(entry[k]), ExcusedSlot(entry[k])}
ReadsTouched ==
  /\ filler' = [f \in Fillers |-> filler'[f]]
  /\ \A f \in Fillers :
       \/ filler'[f] \in {filler[f], Unused}
       \/ filler'[f] \in {LateRead(filler[f]), OldRead(filler[f]), ExcusedRead(filler[f])}

LEMMA TouchedHealthy ==
  ASSUME Healthy, SlotsTouched, ReadsTouched, active' \in BOOLEAN, excluded' \in BOOLEAN,
         writer' \in [Writers -> SUBSET Keys]
  PROVE  Healthy'
  <1>1. ASSUME NEW k \in Keys
        PROVE  entry'[k] \in Slot /\ SlotOk(k, entry'[k])
    <2>1. entry[k] \in Slot /\ SlotOk(k, entry[k])
      BY DEF Healthy, Typed
    <2>2. CASE entry'[k] \in {entry[k], Absent}
      BY <2>1, <2>2, EmptyOk
    <2>3. CASE entry'[k] \in {LateSlot(entry[k]), OldSlot(entry[k]), ExcusedSlot(entry[k])}
      BY <2>1, <2>3, Touching, TouchedOk
    <2>. QED BY <2>2, <2>3 DEF SlotsTouched
  <1>2. ASSUME NEW f \in Fillers
        PROVE  filler'[f] \in Read /\ ReadOk(filler'[f])
    <2>1. filler[f] \in Read /\ ReadOk(filler[f])
      BY DEF Healthy, Typed
    <2>2. CASE filler'[f] \in {filler[f], Unused}
      BY <2>1, <2>2, EmptyOk
    <2>3. CASE filler'[f] \in {LateRead(filler[f]), OldRead(filler[f]), ExcusedRead(filler[f])}
      BY <2>1, <2>3, Touching, TouchedReadOk DEF Onward
    <2>. QED BY <2>2, <2>3 DEF ReadsTouched
  <1>3. entry' \in [Keys -> Slot]
    BY <1>1 DEF SlotsTouched
  <1>4. filler' \in [Fillers -> Read]
    BY <1>2 DEF ReadsTouched
  <1>. QED BY <1>1, <1>2, <1>3, <1>4 DEF Healthy, Typed

LEMMA OutdatedTouches ==
  ASSUME Typed, NEW keys, Outdated(keys)
  PROVE  SlotsTouched /\ ReadsTouched
  BY DEF Typed, Outdated, SlotsTouched, ReadsTouched, LateSlot, LateRead

LEMMA CommitHealthy ==
  ASSUME Healthy, NEW w \in Writers, NEW keys, Commit(w, keys),
         active' \in BOOLEAN, excluded' \in BOOLEAN
  PROVE  Healthy'
  <1>1. SlotsTouched /\ ReadsTouched
    BY OutdatedTouches DEF Commit, Healthy
  <1>2. writer' \in [Writers -> SUBSET Keys]
    BY DEF Commit, Healthy, Typed
  <1>. QED BY <1>1, <1>2, TouchedHealthy

\* Only the reads move, and only to reads that are within their bounds.
LEMMA ReadHealthy ==
  ASSUME Healthy, NEW f \in Fillers, NEW r \in Read, ReadOk(r),
         filler' = [filler EXCEPT ![f] = r],
         UNCHANGED <<rows, writer>>, entry' \in [Keys -> Slot],
         \A k \in Keys : SlotOk(k, entry'[k])
  PROVE  Healthy'
  BY DEF Healthy, Typed, rows

LEMMA QueryHealthy ==
  ASSUME Healthy, NEW f \in Fillers, NEW k \in Keys, Query(f, k)
  PROVE  Healthy'
  <1> DEFINE t == entry["threshold"]
             graded == k \in ProductKeys
             limit == IF graded /\ t.left > 0 THEN t.answer.limit ELSE 0
             a == [shows |-> active, stale |-> 0, limit |-> limit, excused |-> FALSE]
             r == [busy |-> TRUE, key |-> k, age |-> 0, stores |-> graded /\ ~(t.left > 0),
                   answer |-> a]
  <1>1. /\ filler' = [filler EXCEPT ![f] = r] /\ UNCHANGED <<rows, entry, writer>>
        /\ k # "threshold"
    BY DEF Query
  <1>2. t \in Slot /\ SlotOk("threshold", t) /\ t.answer \in Answer /\ t.left \in Nat
    BY Constants, SlotsChange DEF Healthy, Typed
  <1>3. /\ FillTime \in Nat /\ Life["threshold"] \in Nat /\ t.answer.limit \in Nat
        /\ Life["threshold"] > 0
    BY <1>2, Constants DEF Answer
  <1>4. limit \in Nat /\ limit <= Life["threshold"] + FillTime
        /\ (~(t.left > 0) => limit = 0)
    BY <1>2, <1>3 DEF SlotOk
  <1> HIDE DEF limit
  <1>7. a \in Answer /\ a.stale = 0 /\ a.limit = limit
    BY <1>4 DEF Answer, Healthy, Typed
  <1> HIDE DEF a
  <1>8. /\ r \in Read /\ r.age = 0 /\ r.key = k /\ r.answer = a
        /\ r.stores => ~(t.left > 0)
    BY <1>7 DEF Read
  <1> HIDE DEF r
  <1>9. ReadOk(r)
    BY <1>1, <1>3, <1>4, <1>7, <1>8 DEF ReadOk
  <1>. QED BY <1>1, <1>8, <1>9, ReadHealthy DEF Healthy, Typed

LEMMA FillHealthy ==
  ASSUME Healthy, NEW f \in Fillers, Fill(f)
  PROVE  Healthy'
  <1> DEFINE r == filler[f]
             s == [answer |-> r.answer, left |-> Life[r.key]]
  <1>1. r \in Read /\ ReadOk(r) /\ r.busy /\ ~r.stores
    BY DEF Fill, Healthy, Typed
  <1>2. /\ r.answer \in Answer /\ r.age \in Nat /\ r.key \in Keys
        /\ FillTime \in Nat /\ Life["threshold"] \in Nat /\ Life[r.key] \in Nat
        /\ Life[r.key] > 0 /\ r.answer.stale \in Nat /\ r.answer.limit \in Nat
    BY <1>1, ReadsChange, Constants DEF Answer
  <1>3. entry' = [entry EXCEPT ![r.key] = s] /\ filler' = [filler EXCEPT ![f] = Unused]
        /\ UNCHANGED <<rows, writer>>
    BY DEF Fill
  <1> HIDE DEF r
  <1>4. s \in Slot /\ s.left = Life[r.key] /\ s.answer = r.answer
    BY <1>2 DEF Slot
  <1> HIDE DEF s
  <1>5. SlotOk(r.key, s)
    BY <1>1, <1>2, <1>4 DEF SlotOk, ReadOk
  <1>6. entry' \in [Keys -> Slot] /\ \A k \in Keys : SlotOk(k, entry'[k])
    BY <1>2, <1>3, <1>4, <1>5 DEF Healthy, Typed
  <1>. QED BY <1>3, <1>6, EmptyOk, ReadHealthy

LEMMA StoreThresholdHealthy ==
  ASSUME Healthy, NEW f \in Fillers, StoreThreshold(f)
  PROVE  Healthy'
  <1> DEFINE r == filler[f]
             a == [Blank EXCEPT !.limit = r.answer.limit]
             s == [answer |-> a, left |-> Life["threshold"]]
             q == [r EXCEPT !.stores = FALSE]
  <1>1. r \in Read /\ ReadOk(r) /\ r.busy /\ r.stores
    BY DEF StoreThreshold, Healthy, Typed
  <1>2. /\ r.answer \in Answer /\ r.age \in Nat /\ r.key \in Keys
        /\ FillTime \in Nat /\ Life["threshold"] \in Nat
        /\ Life["threshold"] > 0 /\ r.answer.stale \in Nat /\ r.answer.limit \in Nat
    BY <1>1, ReadsChange, Constants DEF Answer
  <1>3. entry' = [entry EXCEPT !["threshold"] = s] /\ filler' = [filler EXCEPT ![f] = q]
        /\ UNCHANGED <<rows, writer>>
    BY DEF StoreThreshold
  <1> HIDE DEF r
  <1>4. /\ q \in Read /\ q.busy = r.busy /\ q.key = r.key /\ q.age = r.age
        /\ q.answer = r.answer /\ ~q.stores
    BY <1>1 DEF Read
  <1>5. a \in Answer /\ a.stale = 0 /\ a.limit = r.answer.limit
    BY <1>2 DEF Blank, Answer
  <1> HIDE DEF q, a
  <1>6. s \in Slot /\ s.left = Life["threshold"] /\ s.answer = a
    BY <1>2, <1>5 DEF Slot
  <1> HIDE DEF s
  <1>7. SlotOk("threshold", s)
    BY <1>1, <1>2, <1>5, <1>6 DEF SlotOk, ReadOk
  <1>8. ReadOk(q)
    BY <1>1, <1>2, <1>4 DEF ReadOk
  <1>9. entry' \in [Keys -> Slot] /\ \A k \in Keys : SlotOk(k, entry'[k])
    BY <1>3, <1>6, <1>7, Constants DEF Healthy, Typed
  <1>. QED BY <1>3, <1>4, <1>8, <1>9, ReadHealthy

LEMMA TickHealthy ==
  ASSUME Healthy, Tick
  PROVE  Healthy'
  <1>1. ASSUME NEW k \in Keys
        PROVE  entry'[k] \in Slot /\ SlotOk(k, entry'[k])
    <2>1. entry \in [Keys -> Slot] /\ SlotOk(k, entry[k]) /\ entry'[k] = Aged(k)
      BY DEF Tick, Healthy, Typed
    <2>. QED BY <2>1, AgedOk
  <1>2. ASSUME NEW f \in Fillers
        PROVE  filler'[f] \in Read /\ ReadOk(filler'[f])
    <2>1. filler[f] \in Read /\ ReadOk(filler[f])
      BY DEF Healthy, Typed
    <2>2. CASE filler[f].busy
      <3>1. filler'[f] = AgedRead(filler[f]) /\ filler[f].age < FillTime
        BY <2>2 DEF Tick, AgedRead
      <3>2. AgedRead(filler[f]) \in Read
        BY <2>1, ReadsChange DEF Onward
      <3>3. ReadOk(AgedRead(filler[f]))
        BY <2>1, <2>2, <3>1, AgedReadOk
      <3>. QED BY <3>1, <3>2, <3>3
    <2>3. CASE ~filler[f].busy
      BY <2>3, EmptyOk DEF Tick
    <2>. QED BY <2>2, <2>3
  <1>3. entry' \in [Keys -> Slot]
    BY <1>1 DEF Tick
  <1>4. filler' \in [Fillers -> Read]
    BY <1>2 DEF Tick
  <1>. QED BY <1>1, <1>2, <1>3, <1>4 DEF Healthy, Typed, Tick, rows

LEMMA UpdateThresholdHealthy ==
  ASSUME Healthy, UpdateThreshold
  PROVE  Healthy'
  <1>1. SlotsTouched /\ ReadsTouched
    BY DEF Healthy, Typed, UpdateThreshold, SlotsTouched, ReadsTouched, OldSlot, OldRead
  <1>. QED BY <1>1, TouchedHealthy DEF UpdateThreshold, Healthy, Typed, rows

LEMMA ClearHealthy ==
  ASSUME Healthy, NEW w \in Writers,
         ClearFails(w) \/ \E k \in Keys : Clear(w, k)
  PROVE  Healthy'
  <1>1. CASE ClearFails(w)
    <2>1. SlotsTouched /\ ReadsTouched
      BY <1>1 DEF Healthy, Typed, ClearFails, SlotsTouched, ReadsTouched, ExcusedSlot, ExcusedRead
    <2>. QED BY <1>1, <2>1, TouchedHealthy DEF ClearFails, Healthy, Typed, rows
  <1>2. ASSUME NEW k \in Keys, Clear(w, k) PROVE Healthy'
    <2>1. SlotsTouched /\ ReadsTouched
      BY <1>2 DEF Healthy, Typed, Clear, SlotsTouched, ReadsTouched, ExcusedRead
    <2>. QED BY <1>2, <2>1, TouchedHealthy DEF Clear, Healthy, Typed, rows
  <1>. QED BY <1>1, <1>2

LEMMA NextHealthy == Healthy /\ [Next]_vars => Healthy'
  <1> SUFFICES ASSUME Healthy, [Next]_vars PROVE Healthy'
    OBVIOUS
  <1>1. ASSUME NEW f \in Fillers, FillFails(f) PROVE Healthy'
    BY <1>1, EmptyOk, ReadHealthy DEF FillFails, Healthy, Typed
  <1>2. ASSUME NEW w \in Writers,
               UpdateProduct(w) \/ Remove(w) \/ Reactivate(w) \/ UpdateCollection(w)
        PROVE  Healthy'
    <2>1. active' \in BOOLEAN /\ excluded' \in BOOLEAN
      BY <1>2 DEF UpdateProduct, Remove, Reactivate, UpdateCollection, Healthy, Typed, rows
    <2>2. \E keys \in {ProductKeys, CollectionKeys, ProductKeys \cup CollectionKeys} :
            Commit(w, keys)
      BY <1>2 DEF UpdateProduct, Remove, Reactivate, UpdateCollection
    <2>. QED BY <2>1, <2>2, CommitHealthy
  <1>3. CASE Exclude \/ Allow \/ UNCHANGED vars
    BY <1>3 DEF Exclude, Allow, vars, Healthy, Typed
  <1>. QED BY <1>1, <1>2, <1>3, QueryHealthy, FillHealthy, StoreThresholdHealthy, TickHealthy,
              UpdateThresholdHealthy, ClearHealthy
           DEF Next

\* In every reachable state every entry and every read is within its bounds.
LEMMA HealthHolds == Spec => []Healthy
  BY InitHealthy, NextHealthy, PTL DEF Spec

\* In every reachable state the variables have their types.
THEOREM TypeCorrect == Spec => []TypeOK
  <1>1. Healthy => TypeOK
    <2> SUFFICES ASSUME Healthy PROVE TypeOK
      OBVIOUS
    <2>1. ASSUME NEW k \in Keys
          PROVE  entry[k].answer \in Answer /\ entry[k].left \in 0 .. Life[k]
      BY Constants DEF Healthy, Typed, Slot, SlotOk
    <2>2. ASSUME NEW f \in Fillers
          PROVE  /\ filler[f].busy \in BOOLEAN /\ filler[f].stores \in BOOLEAN
                 /\ filler[f].key \in Keys /\ filler[f].age \in 0 .. FillTime
                 /\ filler[f].answer \in Answer
      BY Constants DEF Healthy, Typed, Read, ReadOk
    <2>. QED BY <2>1, <2>2 DEF TypeOK, Healthy, Typed
  <1>. QED BY <1>1, HealthHolds, PTL

\* No cached answer is older than a life of its entry and one slow fill, nor
\* graded by a threshold older than two lives and two fills, however late or
\* little is deleted.
THEOREM StalenessIsBounded == Spec => []StaleForALifeAtMost
  <1>1. Healthy => StaleForALifeAtMost
    <2> SUFFICES ASSUME Healthy, NEW k \in Keys, entry[k].left > 0
                 PROVE  /\ entry[k].answer.stale <= Life[k] + FillTime
                        /\ entry[k].answer.limit <=
                             Life["threshold"] + FillTime
                               + (IF k = "threshold" THEN 0 ELSE Life[k] + FillTime)
      BY DEF StaleForALifeAtMost
    <2>1. /\ entry[k].left \in Nat /\ Life[k] \in Nat /\ FillTime \in Nat
          /\ Life["threshold"] \in Nat
          /\ entry[k].answer.stale \in Nat /\ entry[k].answer.limit \in Nat
      BY Constants, SlotsChange DEF Healthy, Typed, Answer
    <2>2. SlotOk(k, entry[k])
      BY DEF Healthy
    <2>3. CASE k = "threshold"
      BY <2>1, <2>2, <2>3 DEF SlotOk
    <2>4. CASE k # "threshold"
      BY <2>1, <2>2, <2>4 DEF SlotOk
    <2>. QED BY <2>3, <2>4
  <1>. QED BY <1>1, HealthHolds, PTL

-----------------------------------------------------------------------------
(* What the caches say of a product that was removed or came back.         *)

LEMMA InitMembership == Init => Membership
  <1> SUFFICES ASSUME Init PROVE Membership
    OBVIOUS
  <1>1. \A k \in Keys : entry[k].left = 0
    BY DEF Init, Absent
  <1>2. \A f \in Fillers : ~filler[f].busy
    BY DEF Init, Unused
  <1>3. InactiveIsExcluded
    BY DEF Init, InactiveIsExcluded
  <1>4. MembershipFollows
    BY <1>1 DEF MembershipFollows
  <1>. QED BY <1>2, <1>3, <1>4 DEF Membership

\* An entry and a read as far as membership goes.
EntryFollows(k) ==
  entry[k].left > 0 /\ entry[k].answer.shows # active =>
    entry[k].answer.excused \/ Pending(k)
ReadFollows(f) ==
  filler[f].busy /\ filler[f].answer.shows # active =>
    /\ filler[f].answer.stale > 0
    /\ filler[f].answer.excused \/ Pending(filler[f].key)

Follow ==
  /\ \A k \in Keys \ {"threshold"} : EntryFollows(k)
  /\ \A f \in Fillers : ReadFollows(f)

LEMMA MembershipForm ==
  /\ Membership <=> InactiveIsExcluded /\ Follow
  /\ Membership' <=> InactiveIsExcluded' /\ Follow'
  BY DEF Membership, MembershipFollows, Follow, EntryFollows, ReadFollows, Pending

\* What becomes of the flags of an entry or a read.
LEMMA Flags ==
  /\ \A s \in Slot : /\ LateSlot(s).answer.excused = s.answer.excused
                     /\ OldSlot(s).answer.excused = s.answer.excused
                     /\ ExcusedSlot(s).answer.excused
  /\ \A r \in Read : /\ LateRead(r).answer.excused = r.answer.excused
                     /\ LateRead(r).answer.stale > 0
                     /\ OldRead(r).answer.excused = r.answer.excused
                     /\ OldRead(r).answer.stale = r.answer.stale
                     /\ ExcusedRead(r).answer.excused
                     /\ ExcusedRead(r).answer.stale = r.answer.stale
                     /\ AgedRead(r).answer.excused = r.answer.excused
                     /\ r.answer.stale > 0 => AgedRead(r).answer.stale > 0
                     /\ Same(AgedRead(r).answer, r.answer)
  <1>1. ASSUME NEW s \in Slot
        PROVE  /\ LateSlot(s).answer.excused = s.answer.excused
               /\ OldSlot(s).answer.excused = s.answer.excused
               /\ ExcusedSlot(s).answer.excused
    BY SlotsChange, AnswersStay
  <1>2. ASSUME NEW r \in Read
        PROVE  /\ LateRead(r).answer.excused = r.answer.excused
               /\ LateRead(r).answer.stale > 0
               /\ OldRead(r).answer.excused = r.answer.excused
               /\ OldRead(r).answer.stale = r.answer.stale
               /\ ExcusedRead(r).answer.excused
               /\ ExcusedRead(r).answer.stale = r.answer.stale
    <2>1. r.answer \in Answer
      BY ReadsChange
    <2>2. /\ LateRead(r).answer = [r.answer EXCEPT !.stale = Outdate(@)]
          /\ OldRead(r).answer = [r.answer EXCEPT !.limit = Outdate(@)]
          /\ ExcusedRead(r).answer = [r.answer EXCEPT !.excused = TRUE]
      BY ReadsChange DEF Onward
    <2>3. Outdate(r.answer.stale) > 0
      BY <2>1 DEF Answer, Outdate
    <2>. QED BY <2>1, <2>2, <2>3, AnswersStay
  <1>3. ASSUME NEW r \in Read
        PROVE  /\ AgedRead(r).answer.excused = r.answer.excused
               /\ r.answer.stale > 0 => AgedRead(r).answer.stale > 0
               /\ Same(AgedRead(r).answer, r.answer)
    <2>1. r.answer \in Answer /\ AgedRead(r).answer = Older(r.answer)
      BY ReadsChange DEF Onward
    <2>2. r.answer.stale \in Nat
      BY <2>1 DEF Answer
    <2>. QED BY <2>1, <2>2, AnswersAge DEF Increase
  <1>. QED BY <1>1, <1>2, <1>3

LEMMA ProductOrCollection ==
  ASSUME NEW k \in Keys \ {"threshold"}
  PROVE  k \in ProductKeys \cup CollectionKeys
  BY KeysAssumption DEF AllKeys

Remains(k) == \E w \in Writers : k \in writer'[w]

\* After a removal or a return every entry is yet to be deleted, and every read
\* in flight is known to be out of date.
LEMMA CommitFollows ==
  ASSUME Healthy, NEW w \in Writers, Commit(w, ProductKeys \cup CollectionKeys)
  PROVE  Follow'
  <1>1. ASSUME NEW k \in Keys \ {"threshold"} PROVE Remains(k)
    <2>1. k \in Keys \cap (ProductKeys \cup CollectionKeys)
      BY ProductOrCollection
    <2>. QED BY <2>1 DEF Commit, Healthy, Typed, Remains
  <1>2. ASSUME NEW f \in Fillers, filler'[f].busy
        PROVE  /\ filler'[f].answer.stale > 0 /\ Remains(filler[f].key)
               /\ filler'[f].key = filler[f].key
    <2>1. filler[f] \in Read /\ ReadOk(filler[f])
      BY DEF Healthy, Typed
    <2>2. filler[f].busy
      BY <1>2 DEF Commit, Outdated
    <2>3. filler[f].key \in Keys \ {"threshold"}
      BY <2>1, <2>2, ReadsChange DEF ReadOk
    <2>4. filler[f].key \in ProductKeys \cup CollectionKeys
      BY <2>3, ProductOrCollection
    <2>5. filler'[f] = LateRead(filler[f])
      BY <2>2, <2>4 DEF Commit, Outdated, LateRead
    <2>6. filler'[f].key = filler[f].key
      BY <2>1, <2>5, ReadsChange DEF Onward
    <2>7. filler'[f].answer.stale > 0
      BY <2>1, <2>5, Flags
    <2>. QED BY <1>1, <2>3, <2>6, <2>7
  <1>3. ASSUME NEW k \in Keys \ {"threshold"} PROVE EntryFollows(k)'
    BY <1>1 DEF EntryFollows, Pending, Remains
  <1>4. ASSUME NEW f \in Fillers PROVE ReadFollows(f)'
    BY <1>2 DEF ReadFollows, Pending, Remains
  <1>. QED BY <1>3, <1>4 DEF Follow

\* An entry or a read that is only touched follows as before, if what was
\* pending for it still is.
LEMMA TouchedFollows ==
  ASSUME Healthy, SlotsTouched, ReadsTouched, active' = active,
         \A k \in Keys \ {"threshold"} :
           /\ EntryFollows(k)
           /\ Pending(k) => Remains(k) \/ entry'[k].left = 0 \/ entry'[k].answer.excused,
         \A f \in Fillers :
           /\ ReadFollows(f)
           /\ Pending(filler[f].key) => \/ Remains(filler[f].key)
                                        \/ filler'[f].answer.excused
                                        \/ ~(filler[f].answer.stale > 0)
                                        \/ ~filler[f].busy
  PROVE  Follow'
  <1>1. ASSUME NEW k \in Keys \ {"threshold"} PROVE EntryFollows(k)'
    <2>1. entry[k] \in Slot
      BY DEF Healthy, Typed
    <2>2. CASE entry'[k] = Absent
      BY <2>2 DEF Absent, EntryFollows
    <2>3. CASE entry'[k] = entry[k]
      BY <2>3 DEF EntryFollows, Pending, Remains
    <2>4. CASE entry'[k] \in {LateSlot(entry[k]), OldSlot(entry[k]), ExcusedSlot(entry[k])}
      <3>1. entry'[k].left = entry[k].left /\ Touched(entry'[k].answer, entry[k].answer)
        BY <2>1, <2>4, Touching
      <3>2. entry[k].answer.excused => entry'[k].answer.excused
        BY <2>1, <2>4, Flags
      <3>. QED BY <3>1, <3>2 DEF EntryFollows, Pending, Remains, Touched, Same
    <2>. QED BY <2>2, <2>3, <2>4 DEF SlotsTouched
  <1>2. ASSUME NEW f \in Fillers PROVE ReadFollows(f)'
    <2>1. filler[f] \in Read
      BY DEF Healthy, Typed
    <2>2. CASE filler'[f] = Unused
      BY <2>2 DEF Unused, ReadFollows
    <2>3. CASE filler'[f] = filler[f]
      BY <2>3 DEF ReadFollows, Pending, Remains
    <2>4. CASE filler'[f] \in {LateRead(filler[f]), OldRead(filler[f]), ExcusedRead(filler[f])}
      <3>1. /\ Touched(filler'[f].answer, filler[f].answer)
            /\ filler'[f].busy = filler[f].busy /\ filler'[f].key = filler[f].key
        BY <2>1, <2>4, Touching DEF Onward
      <3>2. /\ filler[f].answer.excused => filler'[f].answer.excused
            /\ filler[f].answer.stale > 0 => filler'[f].answer.stale > 0
        BY <2>1, <2>4, Flags
      <3>. QED BY <3>1, <3>2 DEF ReadFollows, Pending, Remains, Touched, Same
    <2>. QED BY <2>2, <2>3, <2>4 DEF ReadsTouched
  <1>. QED BY <1>1, <1>2 DEF Follow

LEMMA NextMembership == Healthy /\ Membership /\ [Next]_vars => Membership'
  <1> SUFFICES ASSUME Healthy, Membership, [Next]_vars PROVE Membership'
    OBVIOUS
  <1>1. InactiveIsExcluded /\ Follow
    BY MembershipForm
  <1>0. /\ \A k \in Keys \ {"threshold"} : EntryFollows(k)
        /\ \A f \in Fillers : ReadFollows(f) /\ filler[f].key \in Keys
    BY <1>1, ReadsChange DEF Follow, Healthy, Typed
  <1>2. InactiveIsExcluded'
    <2>1. \/ active' = active /\ excluded' = excluded
          \/ excluded' = TRUE
          \/ active /\ active' = active
          \/ active' = TRUE
      BY DEF Next, vars, rows, Query, StoreThreshold, Fill, FillFails, UpdateProduct, Remove,
         Reactivate, UpdateCollection, Clear, ClearFails, UpdateThreshold, Exclude, Allow, Tick
    <2>. QED BY <1>1, <2>1 DEF InactiveIsExcluded
  <1>3. ASSUME NEW f \in Fillers,
               (\E k \in Keys : Query(f, k))
                 \/ StoreThreshold(f) \/ Fill(f) \/ FillFails(f)
        PROVE  Follow'
    <2>1. filler[f] \in Read /\ ReadOk(filler[f]) /\ ReadFollows(f)
      BY <1>0 DEF Healthy, Typed
    <2>2. active' = active /\ writer' = writer
      BY <1>3 DEF Query, StoreThreshold, Fill, FillFails, rows
    <2>3. ASSUME NEW g \in Fillers \ {f} PROVE ReadFollows(g)'
      <3>1. filler'[g] = filler[g]
        BY <1>3 DEF Query, StoreThreshold, Fill, FillFails, Healthy, Typed
      <3>. QED BY <1>0, <2>2, <3>1 DEF ReadFollows, Pending
    <2>4. ReadFollows(f)'
      <3>1. CASE \E k \in Keys : Query(f, k)
        BY <3>1 DEF Query, Healthy, Typed, ReadFollows, rows
      <3>2. CASE StoreThreshold(f)
        <4>1. /\ filler'[f].busy = filler[f].busy /\ filler'[f].key = filler[f].key
              /\ filler'[f].answer = filler[f].answer
          BY <2>1, <3>2 DEF StoreThreshold, Healthy, Typed, Read
        <4>. QED BY <2>1, <2>2, <4>1 DEF ReadFollows, Pending
      <3>3. CASE Fill(f) \/ FillFails(f)
        BY <3>3 DEF Fill, FillFails, Unused, Healthy, Typed, ReadFollows
      <3>. QED BY <1>3, <3>1, <3>2, <3>3
    <2>5. ASSUME NEW k \in Keys \ {"threshold"} PROVE EntryFollows(k)'
      <3>1. CASE entry'[k] = entry[k]
        BY <1>0, <2>2, <3>1 DEF EntryFollows, Pending
      <3>2. CASE Fill(f) /\ filler[f].key = k
        <4>1. entry'[k].answer = filler[f].answer /\ filler[f].busy
          BY <3>2 DEF Fill, Healthy, Typed
        <4>. QED BY <2>1, <2>2, <3>2, <4>1 DEF EntryFollows, ReadFollows, Pending
      <3>3. entry'[k] = entry[k] \/ (Fill(f) /\ filler[f].key = k)
        BY <1>3 DEF Query, StoreThreshold, Fill, FillFails, Healthy, Typed
      <3>. QED BY <3>1, <3>2, <3>3
    <2>. QED BY <2>3, <2>4, <2>5 DEF Follow
  <1>4. ASSUME NEW w \in Writers, Remove(w) \/ Reactivate(w)
        PROVE  Follow'
    BY <1>4, CommitFollows DEF Remove, Reactivate
  <1>5. ASSUME NEW w \in Writers, UpdateProduct(w) \/ UpdateCollection(w)
        PROVE  Follow'
    <2>1. active' = active /\ \A k \in Keys : Pending(k) => Remains(k)
      BY <1>5 DEF UpdateProduct, UpdateCollection, rows, Commit, Pending, Remains, Healthy, Typed
    <2>2. SlotsTouched /\ ReadsTouched
      BY <1>5, OutdatedTouches DEF UpdateProduct, UpdateCollection, Commit, Healthy
    <2>. QED BY <1>0, <2>1, <2>2, TouchedFollows
  <1>6. ASSUME NEW w \in Writers, NEW k \in Keys, Clear(w, k)
        PROVE  Follow'
    <2>1. SlotsTouched /\ ReadsTouched /\ active' = active
      BY <1>6 DEF Healthy, Typed, Clear, SlotsTouched, ReadsTouched, ExcusedRead, rows
    <2>2. \A j \in Keys \ {k} : Pending(j) => Remains(j)
      BY <1>6 DEF Clear, Pending, Remains, Healthy, Typed
    <2>3. entry'[k].left = 0
      BY <1>6 DEF Clear, Absent, Healthy, Typed
    <2>4. ASSUME NEW f \in Fillers, filler[f].key = k
          PROVE  filler'[f].answer.excused \/ ~(filler[f].answer.stale > 0) \/ ~filler[f].busy
      <3>1. filler[f] \in Read
        BY DEF Healthy, Typed
      <3>2. filler[f].busy /\ filler[f].answer.stale > 0 => filler'[f] = ExcusedRead(filler[f])
        BY <1>6, <2>4 DEF Clear, ExcusedRead
      <3>. QED BY <3>1, <3>2, Flags
    <2>. QED BY <1>0, <2>1, <2>2, <2>3, <2>4, TouchedFollows
  <1>7. ASSUME NEW w \in Writers, ClearFails(w)
        PROVE  Follow'
    <2>1. SlotsTouched /\ ReadsTouched /\ active' = active
      BY <1>7 DEF Healthy, Typed, ClearFails, SlotsTouched, ReadsTouched, ExcusedSlot, ExcusedRead,
                  rows
    <2>2. ASSUME NEW j \in Keys PROVE Pending(j) => Remains(j) \/ j \in writer[w]
      BY <1>7 DEF ClearFails, Pending, Remains, Healthy, Typed
    <2>3. ASSUME NEW j \in Keys, j \in writer[w]
          PROVE  entry'[j].left = 0 \/ entry'[j].answer.excused
      <3>1. entry[j] \in Slot /\ entry[j].left \in Nat
        BY SlotsChange DEF Healthy, Typed
      <3>2. entry'[j] = IF entry[j].left > 0 THEN ExcusedSlot(entry[j]) ELSE entry[j]
        BY <1>7, <2>3 DEF ClearFails, ExcusedSlot
      <3>. QED BY <3>1, <3>2, Flags
    <2>4. ASSUME NEW f \in Fillers, filler[f].key \in writer[w], filler[f].busy
          PROVE  filler'[f].answer.excused
      <3>1. filler[f] \in Read /\ filler'[f] = ExcusedRead(filler[f])
        BY <1>7, <2>4 DEF ClearFails, ExcusedRead, Healthy, Typed
      <3>. QED BY <3>1, Flags
    <2>. QED BY <1>0, <2>1, <2>2, <2>3, <2>4, TouchedFollows
  <1>8. ASSUME UpdateThreshold PROVE Follow'
    <2>1. SlotsTouched /\ ReadsTouched /\ active' = active /\ writer' = writer
      BY <1>8 DEF Healthy, Typed, UpdateThreshold, SlotsTouched, ReadsTouched, OldSlot, OldRead,
                  rows
    <2>. QED BY <1>0, <2>1, TouchedFollows DEF Pending, Remains
  <1>9. ASSUME Exclude \/ Allow \/ UNCHANGED vars PROVE Follow'
    BY <1>0, <1>9 DEF Exclude, Allow, vars, Follow, EntryFollows, ReadFollows, Pending
  <1>10. ASSUME Tick PROVE Follow'
    <2>1. active' = active /\ writer' = writer
      BY <1>10 DEF Tick, rows
    <2>2. ASSUME NEW k \in Keys \ {"threshold"} PROVE EntryFollows(k)'
      <3>1. entry \in [Keys -> Slot] /\ SlotOk(k, entry[k]) /\ entry'[k] = Aged(k)
        BY <1>10 DEF Tick, Healthy, Typed
      <3>2. entry'[k].left > 0 => /\ entry[k].left > 0
                                  /\ entry'[k].answer.shows = entry[k].answer.shows
                                  /\ entry'[k].answer.excused = entry[k].answer.excused
        BY <3>1, AgedOk DEF Same
      <3>. QED BY <1>0, <2>1, <3>2 DEF EntryFollows, Pending
    <2>3. ASSUME NEW f \in Fillers PROVE ReadFollows(f)'
      <3>1. filler[f] \in Read /\ ReadFollows(f)
        BY <1>0 DEF Healthy, Typed
      <3>2. CASE filler[f].busy
        <4>1. filler'[f] = AgedRead(filler[f])
          BY <1>10, <3>2 DEF Tick, AgedRead
        <4>2. filler'[f].key = filler[f].key /\ filler'[f].busy = filler[f].busy
          BY <3>1, <4>1, ReadsChange DEF Onward
        <4>3. /\ filler'[f].answer.excused = filler[f].answer.excused
              /\ filler[f].answer.stale > 0 => filler'[f].answer.stale > 0
              /\ filler'[f].answer.shows = filler[f].answer.shows
          BY <3>1, <4>1, Flags DEF Same
        <4>. QED BY <2>1, <3>1, <4>2, <4>3 DEF ReadFollows, Pending
      <3>3. CASE ~filler[f].busy
        BY <1>10, <3>3 DEF Tick, Unused, ReadFollows
      <3>. QED BY <3>2, <3>3
    <2>. QED BY <2>2, <2>3 DEF Follow
  <1>11. Follow'
    BY <1>3, <1>4, <1>5, <1>6, <1>7, <1>8, <1>9, <1>10 DEF Next
  <1>. QED BY <1>2, <1>11, MembershipForm

LEMMA MembershipHolds == Spec => []Membership
  BY InitMembership, NextMembership, HealthHolds, PTL DEF Spec

\* Once a removal or a return has had its deletions, no entry of any bucket
\* contradicts it but those that the deletion could not reach.
THEOREM MembershipIsFollowed == Spec => []MembershipFollows
  <1>1. Membership => MembershipFollows
    BY DEF Membership
  <1>. QED BY <1>1, MembershipHolds, PTL

\* A tile that is not in the catalogue is never open to recommendation,
\* however removals, returns and switches follow one another.
THEOREM InactiveStaysExcluded == Spec => []InactiveIsExcluded
  <1>1. Membership => InactiveIsExcluded
    BY DEF Membership
  <1>. QED BY <1>1, MembershipHolds, PTL

-----------------------------------------------------------------------------
(* Links to images: the inductive invariants.                              *)

\* The images that wait for a slot are each in the queue once.
Queue ==
  /\ \A k \in 1 .. Len(waiters) : phase[waiters[k]] = "queued"
  /\ \A j, k \in 1 .. Len(waiters) : waiters[j] = waiters[k] => j = k

Slots == IsFiniteSet(Running) /\ SlotsCounted /\ Queue

\* A row only ever holds a link where nothing recovers the path; a cached link
\* outlives its entry by a whole response, and a link in a response outlives that.
Links ==
  /\ \A i \in Images : stored[i] # Path => driver # "supabase" /\ i \notin Products
  /\ \A i \in Images : left[i] > 0 => life[i] >= left[i] + ResponseLife
  /\ \A r \in Readers : Is(r, "holding") =>
       /\ reader[r].works \in 0 .. UrlLife
       /\ stored[reader[r].image] = Path => reader[r].works > reader[r].use

LEMMA Times ==
  /\ UrlLife \in Nat /\ CacheLife \in Nat /\ ResponseLife \in Nat /\ ReplyTime \in Nat
  /\ CacheLife > 0 /\ CacheLife + ResponseLife + ReplyTime <= UrlLife
  /\ MaxRunning \in Nat /\ MaxRunning > 0
  BY LivesAssumption, SlotsAssumption

-----------------------------------------------------------------------------
(* The slots.                                                              *)

SlotsTyped ==
  /\ phase \in [Images -> Phases] /\ age \in [Images -> 0 .. ReplyTime]
  /\ requests \in Nat /\ waiters \in Seq(Images)

LEMMA AcquireSlotKeeps ==
  ASSUME SlotsTyped, Slots, NEW i \in Images, phase[i] = "none", AcquireSlot(i)
  PROVE  SlotsTyped' /\ Slots'
  <1>1. CASE requests < MaxRunning
    <2>1. /\ requests' = requests + 1 /\ waiters' = waiters /\ age' = age
          /\ phase' = [phase EXCEPT ![i] = "running"]
      BY <1>1 DEF AcquireSlot
    <2>2. Running' = Running \cup {i} /\ i \notin Running
      BY <2>1 DEF Running, SlotsTyped
    <2>3. IsFiniteSet(Running') /\ Cardinality(Running') = Cardinality(Running) + 1
      BY <2>2, FS_AddElement DEF Slots
    <2>4. SlotsCounted'
      BY <1>1, <2>1, <2>3, Times DEF SlotsCounted, Slots, SlotsTyped
    <2>5. Queue'
      BY <2>1 DEF Queue, Slots, SlotsTyped
    <2>. QED BY <2>1, <2>3, <2>4, <2>5 DEF Slots, SlotsTyped, Phases
  <1>2. CASE ~(requests < MaxRunning)
    <2>1. /\ requests' = requests /\ waiters' = Append(waiters, i) /\ age' = age
          /\ phase' = [phase EXCEPT ![i] = "queued"]
      BY <1>2 DEF AcquireSlot
    <2>2. Running' = Running
      BY <2>1 DEF Running, SlotsTyped
    <2>3. /\ waiters' \in Seq(Images) /\ Len(waiters') = Len(waiters) + 1
          /\ waiters'[Len(waiters) + 1] = i
          /\ \A k \in 1 .. Len(waiters) : waiters'[k] = waiters[k] /\ waiters'[k] # i
      BY <2>1 DEF SlotsTyped, Slots, Queue
    <2>4. phase' \in [Images -> Phases]
      BY <2>1 DEF SlotsTyped, Phases
    <2>5. \A k \in 1 .. Len(waiters') : phase'[waiters'[k]] = "queued"
      <3>1. \A k \in 1 .. Len(waiters) : waiters[k] \in Images
        BY DEF SlotsTyped
      <3>. QED BY <2>1, <2>3, <3>1 DEF SlotsTyped, Slots, Queue
    <2>6. \A j, k \in 1 .. Len(waiters') : waiters'[j] = waiters'[k] => j = k
      <3>1. Len(waiters) \in Nat
        BY DEF SlotsTyped
      <3>2. \A j, k \in 1 .. Len(waiters) : waiters'[j] = waiters'[k] => j = k
        BY <2>3 DEF Slots, Queue
      <3>. QED BY <2>3, <3>1, <3>2
    <2>. QED BY <2>1, <2>2, <2>3, <2>4, <2>5, <2>6 DEF Slots, SlotsTyped, SlotsCounted, Queue
  <1>. QED BY <1>1, <1>2

LEMMA ReleaseSlotKeeps ==
  ASSUME SlotsTyped, Slots, NEW i \in Images, phase[i] = "running", ReleaseSlot(i)
  PROVE  SlotsTyped' /\ Slots'
  <1>1. age' \in [Images -> 0 .. ReplyTime]
    BY Times DEF ReleaseSlot, SlotsTyped
  <1>2. i \in Running
    BY DEF Running
  <1>3. CASE waiters # <<>>
    <2>1. PICK next \in Images : next = Head(waiters)
      BY <1>3 DEF SlotsTyped
    <2>2. /\ requests' = requests /\ waiters' = Tail(waiters)
          /\ phase' = [phase EXCEPT ![i] = "none", ![next] = "running"]
      BY <1>3, <2>1 DEF ReleaseSlot
    <2>3. /\ Len(waiters) \in Nat /\ Len(waiters) >= 1 /\ next = waiters[1]
          /\ phase[next] = "queued"
      BY <1>3, <2>1 DEF SlotsTyped, Slots, Queue
    <2>4. /\ waiters' \in Seq(Images) /\ Len(waiters') = Len(waiters) - 1
          /\ \A k \in 1 .. Len(waiters') : waiters'[k] = waiters[k + 1]
      BY <1>3, <2>2 DEF SlotsTyped
    <2>5. phase' \in [Images -> Phases]
      BY <2>2 DEF SlotsTyped, Phases
    <2>6. Running' = (Running \ {i}) \cup {next} /\ next \notin Running
      BY <2>2, <2>3 DEF Running, SlotsTyped
    <2>7. IsFiniteSet(Running') /\ Cardinality(Running') = Cardinality(Running)
      <3>1. /\ IsFiniteSet(Running \ {i})
            /\ Cardinality(Running \ {i}) = Cardinality(Running) - 1
        BY <1>2, FS_RemoveElement DEF Slots
      <3>2. next \notin Running \ {i}
        BY <2>6
      <3>3. Cardinality(Running) \in Nat
        BY FS_CardinalityType DEF Slots
      <3>4. /\ IsFiniteSet((Running \ {i}) \cup {next})
            /\ Cardinality((Running \ {i}) \cup {next}) = Cardinality(Running \ {i}) + 1
        BY <3>1, <3>2, FS_AddElement
      <3>. QED BY <2>6, <3>1, <3>3, <3>4
    <2>8. Queue'
      <3>1. \A k \in 1 .. Len(waiters') :
              /\ waiters[k + 1] \in Images /\ phase[waiters[k + 1]] = "queued"
              /\ waiters[k + 1] # next
        BY <2>3, <2>4 DEF SlotsTyped, Slots, Queue
      <3>2. \A k \in 1 .. Len(waiters') : phase'[waiters'[k]] = "queued"
        BY <2>2, <2>4, <3>1 DEF SlotsTyped
      <3>3. \A j, k \in 1 .. Len(waiters') : waiters'[j] = waiters'[k] => j = k
        BY <2>3, <2>4 DEF Slots, Queue
      <3>. QED BY <3>2, <3>3 DEF Queue
    <2>. QED BY <1>1, <2>2, <2>4, <2>5, <2>7, <2>8 DEF Slots, SlotsTyped, SlotsCounted
  <1>4. CASE waiters = <<>>
    <2>1. /\ phase' = [phase EXCEPT ![i] = "none"] /\ waiters' = waiters
          /\ requests' = IF requests > 0 THEN requests - 1 ELSE 0
      BY <1>4 DEF ReleaseSlot
    <2>2. phase' \in [Images -> Phases]
      BY <2>1 DEF SlotsTyped, Phases
    <2>3. Running' = Running \ {i}
      BY <2>1 DEF Running, SlotsTyped
    <2>4. IsFiniteSet(Running') /\ Cardinality(Running') = Cardinality(Running) - 1
      BY <1>2, <2>3, FS_RemoveElement DEF Slots
    <2>5. Cardinality(Running') \in Nat
      BY <2>4, FS_CardinalityType
    <2>6. requests' = requests - 1 /\ requests' \in Nat
      BY <2>1, <2>4, <2>5 DEF Slots, SlotsCounted, SlotsTyped
    <2>7. SlotsCounted'
      BY <2>4, <2>6, Times DEF Slots, SlotsCounted, SlotsTyped
    <2>8. Queue'
      BY <1>4, <2>1 DEF Queue
    <2>. QED BY <1>1, <1>4, <2>1, <2>2, <2>4, <2>6, <2>7, <2>8 DEF Slots, SlotsTyped
  <1>. QED BY <1>3, <1>4

LEMMA SlotsStay ==
  ASSUME SlotsTyped, Slots, phase' = phase, requests' = requests, waiters' = waiters,
         age' \in [Images -> 0 .. ReplyTime]
  PROVE  SlotsTyped' /\ Slots'
  BY DEF SlotsTyped, Slots, SlotsCounted, Running, Queue

-----------------------------------------------------------------------------
(* The links.                                                              *)

LinksTyped ==
  /\ driver \in Drivers
  /\ stored \in [Images -> 0 .. Path]
  /\ left \in [Images -> 0 .. CacheLife] /\ life \in [Images -> 0 .. UrlLife]
  /\ reader \in [Readers -> Reader]

LEMMA ParkedAreTyped ==
  /\ Nothing \in Reader /\ Nothing.step = "idle"
  /\ \A i \in Images, n \in Int : Holding(i, n) \in Reader
  BY ImagesAssumption, Times DEF Nothing, Holding, Reader

\* A link that the reader may hold.
Lasts(row) ==
  row.step = "holding" =>
    /\ row.works \in 0 .. UrlLife
    /\ stored[row.image] = Path => row.works > row.use

\* A reader turns to something else, or several do.
LEMMA ReadersTurn ==
  ASSUME LinksTyped, Links, UNCHANGED <<driver, stored>>,
         reader' = [r \in Readers |-> reader'[r]],
         \A r \in Readers : reader'[r] \in Reader /\ Lasts(reader'[r]),
         left' \in [Images -> 0 .. CacheLife], life' \in [Images -> 0 .. UrlLife],
         \A i \in Images : left'[i] > 0 => life'[i] >= left'[i] + ResponseLife
  PROVE  LinksTyped' /\ Links'
  <1>1. LinksTyped'
    BY DEF LinksTyped
  <1>2. \A r \in Readers : reader'[r].step = "holding" =>
          /\ reader'[r].works \in 0 .. UrlLife
          /\ stored'[reader'[r].image] = Path => reader'[r].works > reader'[r].use
    BY DEF Lasts
  <1>. QED BY <1>1, <1>2 DEF Links, Is

LEMMA HeldLasts ==
  ASSUME Links, NEW r \in Readers
  PROVE  Lasts(reader[r])
  BY DEF Links, Lasts, Is

\* One reader turns, and the cache is as before.
LEMMA ReaderTurns ==
  ASSUME LinksTyped, Links, UNCHANGED <<driver, stored, left, life>>,
         NEW r \in Readers, NEW row \in Reader, Lasts(row),
         reader' = [reader EXCEPT ![r] = row]
  PROVE  LinksTyped' /\ Links'
  <1>1. \A q \in Readers : reader'[q] = IF q = r THEN row ELSE reader[q]
    BY DEF LinksTyped
  <1>2. reader' = [q \in Readers |-> reader'[q]]
    BY DEF LinksTyped
  <1>3. \A q \in Readers : reader'[q] \in Reader /\ Lasts(reader'[q])
    BY <1>1, HeldLasts DEF LinksTyped
  <1>. QED BY <1>2, <1>3, ReadersTurn DEF LinksTyped, Links

\* A link that lasts a response, or one that was stored by mistake, may be held.
LEMMA HoldingLasts ==
  ASSUME NEW i \in Images, NEW n \in 0 .. UrlLife, stored[i] = Path => n > ResponseLife
  PROVE  Lasts(Holding(i, n))
  BY DEF Lasts, Holding

LEMMA ServeStoredKeeps ==
  ASSUME LinksTyped, Links, NEW r \in Readers, NEW i \in Images, ServeStored(r, i)
  PROVE  LinksTyped' /\ Links'
  <1>1. stored[i] \in 0 .. UrlLife
    BY Times DEF ServeStored, LinksTyped, Path
  <1>2. Lasts(Holding(i, stored[i])) /\ Holding(i, stored[i]) \in Reader
    BY <1>1, HoldingLasts, ParkedAreTyped, Times DEF ServeStored
  <1>. QED BY <1>2, ReaderTurns DEF ServeStored, cache

LEMMA ServeCachedKeeps ==
  ASSUME LinksTyped, Links, NEW r \in Readers, NEW i \in Images, ServeCached(r, i)
  PROVE  LinksTyped' /\ Links'
  <1>1. life[i] \in 0 .. UrlLife /\ life[i] > ResponseLife
    BY Times DEF ServeCached, LinksTyped, Links
  <1>2. Lasts(Holding(i, life[i])) /\ Holding(i, life[i]) \in Reader
    BY <1>1, HoldingLasts, ParkedAreTyped, Times
  <1>. QED BY <1>2, ReaderTurns DEF ServeCached, cache

\* A link that is new when it is cached is good for a cached life and a response.
LEMMA MakeLinkKeeps ==
  ASSUME LinksTyped, Links, NEW r \in Readers, NEW i \in Images, MakeLink(r, i)
  PROVE  LinksTyped' /\ Links'
  <1>1. Lasts(Holding(i, UrlLife)) /\ Holding(i, UrlLife) \in Reader
    BY HoldingLasts, ParkedAreTyped, Times
  <1>2. /\ left' \in [Images -> 0 .. CacheLife] /\ life' \in [Images -> 0 .. UrlLife]
        /\ \A j \in Images : left'[j] > 0 => life'[j] >= left'[j] + ResponseLife
    BY Times DEF MakeLink, LinksTyped, Links
  <1>3. /\ reader' = [q \in Readers |-> reader'[q]]
        /\ \A q \in Readers : reader'[q] = IF q = r THEN Holding(i, UrlLife) ELSE reader[q]
    BY DEF MakeLink, LinksTyped
  <1>4. \A q \in Readers : reader'[q] \in Reader /\ Lasts(reader'[q])
    BY <1>1, <1>3, HeldLasts DEF LinksTyped
  <1>. QED BY <1>2, <1>3, <1>4, ReadersTurn DEF MakeLink

LEMMA GetSignedUrlKeeps ==
  ASSUME LinksTyped, Links, NEW r \in Readers, NEW i \in Images, GetSignedUrl(r, i)
  PROVE  LinksTyped' /\ Links'
  <1> DEFINE row == [reader[r] EXCEPT !.step = "waiting", !.image = i]
  <1>1. row \in Reader /\ row.step = "waiting"
    BY DEF LinksTyped, Reader
  <1>2. reader' = [reader EXCEPT ![r] = row]
    BY DEF GetSignedUrl, LinksTyped, Reader
  <1> HIDE DEF row
  <1>3. Lasts(row)
    BY <1>1 DEF Lasts
  <1>. QED BY <1>1, <1>2, <1>3, ReaderTurns DEF GetSignedUrl, cache

LEMMA SignedKeeps ==
  ASSUME LinksTyped, SlotsTyped, Links, NEW i \in Images, Signed(i)
  PROVE  LinksTyped' /\ Links'
  <1>1. age[i] \in 0 .. ReplyTime
    BY DEF SlotsTyped
  <1>2. PICK works \in UrlLife - age[i] .. UrlLife :
          /\ left' = [left EXCEPT ![i] = CacheLife]
          /\ life' = [life EXCEPT ![i] = works]
          /\ reader' = [r \in Readers |-> IF Waits(r, i) THEN Holding(i, works) ELSE reader[r]]
    BY DEF Signed
  <1>3. works \in 0 .. UrlLife /\ works >= CacheLife + ResponseLife
    BY <1>1, <1>2, Times
  <1>4. Lasts(Holding(i, works)) /\ Holding(i, works) \in Reader
    BY <1>3, HoldingLasts, ParkedAreTyped, Times
  <1>5. /\ left' \in [Images -> 0 .. CacheLife] /\ life' \in [Images -> 0 .. UrlLife]
        /\ \A j \in Images : left'[j] > 0 => life'[j] >= left'[j] + ResponseLife
    BY <1>2, <1>3, Times DEF LinksTyped, Links
  <1>6. \A q \in Readers : reader'[q] \in {Holding(i, works), reader[q]}
    BY <1>2
  <1>7. \A q \in Readers : reader'[q] \in Reader /\ Lasts(reader'[q])
    BY <1>4, <1>6, HeldLasts DEF LinksTyped
  <1>. QED BY <1>2, <1>5, <1>7, ReadersTurn DEF Signed

LEMMA NothingLasts == Lasts(Nothing) /\ Nothing \in Reader
  BY ParkedAreTyped DEF Lasts

LEMMA RefusedKeeps ==
  ASSUME LinksTyped, Links, NEW i \in Images, Refused(i)
  PROVE  LinksTyped' /\ Links'
  <1>1. /\ reader' = [q \in Readers |-> reader'[q]]
        /\ \A q \in Readers : reader'[q] \in {Nothing, reader[q]}
    BY DEF Refused
  <1>2. \A q \in Readers : reader'[q] \in Reader /\ Lasts(reader'[q])
    BY <1>1, NothingLasts, HeldLasts DEF LinksTyped
  <1>. QED BY <1>1, <1>2, ReadersTurn DEF Refused, LinksTyped, Links, cache

LEMMA LeavesKeeps ==
  ASSUME LinksTyped, Links, NEW r \in Readers, Disconnect(r) \/ UseLink(r)
  PROVE  LinksTyped' /\ Links'
  BY NothingLasts, ReaderTurns DEF Disconnect, UseLink, cache

\* What an editor sends back is never a path again, or is one as before.
LEMMA SaveRowKeeps ==
  ASSUME LinksTyped, Links, NEW r \in Readers, SaveRow(r)
  PROVE  LinksTyped' /\ Links'
  <1>1. PICK i \in Images : i = reader[r].image
    BY DEF LinksTyped, Reader
  <1>2. UNCHANGED <<driver, left, life, reader>>
    BY DEF SaveRow, cache
  <1>3. CASE i \in Products \/ driver = "supabase"
    <2>1. stored' = stored
      BY <1>1, <1>3 DEF SaveRow, LinksTyped, Links
    <2>. QED BY <1>2, <2>1 DEF LinksTyped, Links, Is
  <1>4. CASE ~(i \in Products \/ driver = "supabase")
    <2>1. PICK n \in 0 .. UrlLife : stored' = [stored EXCEPT ![i] = n]
      BY <1>1, <1>4 DEF SaveRow, Is, Links
    <2>2. n \in 0 .. Path /\ n # Path
      BY <2>1, Times DEF Path
    <2>3. stored' \in [Images -> 0 .. Path] /\ Path' = Path
      BY <2>1, <2>2 DEF LinksTyped, Path
    <2>4. \A j \in Images : stored'[j] = IF j = i THEN n ELSE stored[j]
      BY <2>1 DEF LinksTyped
    <2>5. \A q \in Readers : reader[q].image \in Images
      BY DEF LinksTyped, Reader
    <2>. QED BY <1>2, <1>4, <2>2, <2>3, <2>4, <2>5 DEF LinksTyped, Links, Is
  <1>. QED BY <1>3, <1>4

-----------------------------------------------------------------------------
(* The clock.                                                              *)

LEMMA LessIs ==
  ASSUME NEW n \in Nat
  PROVE  Less(n) \in 0 .. n /\ (n > 0 => Less(n) = n - 1)
  BY DEF Less

LEMMA TickKeeps ==
  ASSUME LinksTyped, SlotsTyped, Slots, Links, TimePasses
  PROVE  LinksTyped' /\ SlotsTyped' /\ Slots' /\ Links'
  <1>1. SlotsTyped' /\ Slots'
    <2>1. ASSUME NEW i \in Images PROVE age'[i] \in 0 .. ReplyTime
      <3>1. age[i] \in 0 .. ReplyTime
        BY DEF SlotsTyped
      <3>2. CASE phase[i] = "running"
        <4>1. age'[i] = age[i] + 1 /\ age[i] < ReplyTime
          BY <3>2 DEF TimePasses
        <4>. QED BY <3>1, <4>1, Times
      <3>3. CASE phase[i] # "running"
        BY <3>1, <3>3 DEF TimePasses
      <3>. QED BY <3>2, <3>3
    <2>2. age' = [i \in Images |-> age'[i]]
      BY DEF TimePasses
    <2>3. age' \in [Images -> 0 .. ReplyTime]
      BY <2>1, <2>2
    <2>. QED BY <2>3, SlotsStay DEF TimePasses
  <1>2. driver' = driver /\ Path' = Path
    BY DEF TimePasses, Path
  <1>3. left' \in [Images -> 0 .. CacheLife] /\ \A i \in Images : left'[i] = Less(left[i])
    <2>1. \A i \in Images : Less(left[i]) \in 0 .. CacheLife
      BY LessIs, Times DEF LinksTyped
    <2>. QED BY <2>1 DEF TimePasses
  <1>4. /\ life' \in [Images -> 0 .. UrlLife]
        /\ \A i \in Images : left'[i] > 0 =>
             life'[i] = IF i \in Products THEN life[i] ELSE Less(life[i])
    <2>1. \A i \in Images : life[i] \in 0 .. UrlLife /\ Less(life[i]) \in 0 .. UrlLife
      BY LessIs, Times DEF LinksTyped
    <2>2. \A i \in Images : life'[i] = IF left'[i] = 0 THEN 0
            ELSE IF i \in Products THEN life[i] ELSE Less(life[i])
      BY DEF TimePasses
    <2>3. life' = [i \in Images |-> life'[i]]
      BY DEF TimePasses
    <2>4. \A i \in Images : life'[i] \in 0 .. UrlLife
      BY <2>1, <2>2, Times
    <2>. QED BY <2>2, <2>3, <2>4
  <1>5. \A i \in Images : left'[i] > 0 => life'[i] >= left'[i] + ResponseLife
    <2>1. ASSUME NEW i \in Images, left'[i] > 0
          PROVE  life'[i] >= left'[i] + ResponseLife
      <3>1. left[i] \in Nat /\ life[i] \in Nat
        BY Times DEF LinksTyped
      <3>2. left[i] > 0 /\ left'[i] = left[i] - 1
        BY <1>3, <2>1, <3>1, LessIs
      <3>3. life[i] >= left[i] + ResponseLife
        BY <3>2 DEF Links
      <3>4. life'[i] >= life[i] - 1
        <4>1. life[i] > 0
          BY <3>1, <3>2, <3>3, Times
        <4>2. Less(life[i]) = life[i] - 1
          BY <3>1, <4>1, LessIs
        <4>3. life'[i] = life[i] \/ life'[i] = life[i] - 1
          BY <1>4, <2>1, <4>2
        <4>. QED BY <3>1, <4>3
      <3>5. life'[i] \in Nat
        BY <1>4, Times
      <3>. QED BY <3>1, <3>2, <3>3, <3>4, <3>5, Times
    <2>. QED BY <2>1
  <1>6. /\ stored' \in [Images -> 0 .. Path]
        /\ \A i \in Images : stored'[i] = Path <=> stored[i] = Path
    <2>1. ASSUME NEW i \in Images
          PROVE  /\ stored'[i] \in 0 .. Path
                 /\ stored'[i] = Path <=> stored[i] = Path
      <3>1. stored[i] \in 0 .. Path /\ Path \in Nat
        BY Times DEF LinksTyped, Path
      <3>2. stored'[i] = IF stored[i] = Path \/ i \in Products THEN stored[i]
                         ELSE Less(stored[i])
        BY DEF TimePasses
      <3>. QED BY <3>1, <3>2 DEF Less
    <2>2. stored' = [i \in Images |-> stored'[i]]
      BY DEF TimePasses
    <2>. QED BY <2>1, <2>2
  <1>7. ASSUME NEW r \in Readers
        PROVE  /\ reader'[r] \in Reader /\ reader'[r].step = reader[r].step
               /\ reader'[r].image = reader[r].image
               /\ reader'[r].step = "holding" =>
                    /\ reader'[r].works \in 0 .. UrlLife
                    /\ reader[r].works > reader[r].use => reader'[r].works > reader'[r].use
    <2>1. reader[r] \in Reader /\ reader[r].use \in Nat
      BY DEF LinksTyped, Reader
    <2>2. CASE ~Is(r, "holding")
      BY <2>1, <2>2 DEF TimePasses, Is
    <2>3. CASE Is(r, "holding")
      <3>1. PICK n : n = IF reader[r].image \in Products THEN reader[r].works
                         ELSE Less(reader[r].works)
        OBVIOUS
      <3>2. /\ reader[r].works \in 0 .. UrlLife /\ reader[r].use > 0
            /\ reader'[r] = [reader[r] EXCEPT !.use = reader[r].use - 1, !.works = n]
        BY <2>3, <3>1 DEF TimePasses, Links
      <3>3. n \in 0 .. UrlLife /\ n >= reader[r].works - 1
        BY <3>1, <3>2, Times DEF Less
      <3>4. PICK u \in Nat : u = reader[r].use - 1
        BY <2>1, <3>2
      <3>5. /\ reader'[r] \in Reader /\ reader'[r].step = reader[r].step
            /\ reader'[r].image = reader[r].image
            /\ reader'[r].works = n /\ reader'[r].use = u
        <4>1. reader'[r] = [reader[r] EXCEPT !.use = u, !.works = n]
          BY <3>2, <3>4
        <4>2. n \in Int
          BY <3>3
        <4>. QED BY <2>1, <3>4, <4>1, <4>2 DEF Reader
      <3>. QED BY <2>1, <3>2, <3>3, <3>4, <3>5
    <2>. QED BY <2>2, <2>3
  <1>8. LinksTyped'
    <2>1. reader' = [r \in Readers |-> reader'[r]]
      BY DEF TimePasses
    <2>. QED BY <1>2, <1>3, <1>4, <1>6, <1>7, <2>1 DEF LinksTyped
  <1>9. Links'
    <2>1. \A r \in Readers : reader[r].image \in Images
      BY DEF LinksTyped, Reader
    <2>. QED BY <1>2, <1>5, <1>6, <1>7, <2>1 DEF Links, Is
  <1>. QED BY <1>1, <1>8, <1>9

-----------------------------------------------------------------------------
(* The theorems.                                                           *)

IInv == LinksTyped /\ SlotsTyped /\ Slots /\ Links

LEMMA InitIInv == ImagesInit => IInv
  <1> SUFFICES ASSUME ImagesInit PROVE IInv
    OBVIOUS
  <1>1. LinksTyped /\ SlotsTyped
    BY Times, ParkedAreTyped DEF ImagesInit, LinksTyped, SlotsTyped, Phases, Path
  <1>2. Running = {}
    BY DEF ImagesInit, Running
  <1>3. Slots
    BY <1>2, FS_EmptySet, Times DEF ImagesInit, Slots, SlotsCounted, Queue
  <1>4. Links
    BY ParkedAreTyped DEF ImagesInit, Links, Is
  <1>. QED BY <1>1, <1>3, <1>4 DEF IInv

LEMMA NextIInv == IInv /\ [ImagesNext]_imageVars => IInv'
  <1> SUFFICES ASSUME IInv, [ImagesNext]_imageVars PROVE IInv'
    OBVIOUS
  <1> USE DEF IInv
  <1>1. CASE UNCHANGED imageVars
    BY <1>1 DEF imageVars, cache, slots, LinksTyped, SlotsTyped, Slots, SlotsCounted, Running,
                Queue, Links, Is, Path
  <1>2. CASE TimePasses
    BY <1>2, TickKeeps
  <1>3. ASSUME NEW i \in Images, ProviderAnswers(i) PROVE IInv'
    <2>1. phase[i] = "running" /\ ReleaseSlot(i)
      BY <1>3 DEF ProviderAnswers, Signed, Refused
    <2>2. SlotsTyped' /\ Slots'
      BY <2>1, ReleaseSlotKeeps
    <2>. QED BY <1>3, <2>2, SignedKeeps, RefusedKeeps DEF ProviderAnswers
  <1>4. ASSUME NEW r \in Readers, NEW i \in Images, GetSignedUrl(r, i) PROVE IInv'
    <2>1. SlotsTyped' /\ Slots'
      <3>1. CASE phase[i] = "none"
        BY <1>4, <3>1, AcquireSlotKeeps DEF GetSignedUrl
      <3>2. CASE phase[i] # "none"
        BY <1>4, <3>2, SlotsStay DEF GetSignedUrl, slots, SlotsTyped
      <3>. QED BY <3>1, <3>2
    <2>. QED BY <1>4, <2>1, GetSignedUrlKeeps
  <1>5. ASSUME NEW r \in Readers, NEW i \in Images,
               ServeStored(r, i) \/ ServeCached(r, i) \/ MakeLink(r, i)
        PROVE  IInv'
    <2>1. SlotsTyped' /\ Slots'
      BY <1>5, SlotsStay DEF ServeStored, ServeCached, MakeLink, slots, SlotsTyped
    <2>. QED BY <1>5, <2>1, ServeStoredKeeps, ServeCachedKeeps, MakeLinkKeeps
  <1>6. ASSUME NEW r \in Readers, Disconnect(r) \/ UseLink(r) \/ SaveRow(r) PROVE IInv'
    <2>1. SlotsTyped' /\ Slots'
      BY <1>6, SlotsStay DEF Disconnect, UseLink, SaveRow, slots, SlotsTyped
    <2>. QED BY <1>6, <2>1, LeavesKeeps, SaveRowKeeps
  <1>. QED BY <1>1, <1>2, <1>3, <1>4, <1>5, <1>6 DEF ImagesNext, Request

LEMMA IInvHolds == ImagesSpec => []IInv
  BY InitIInv, NextIInv, PTL DEF ImagesSpec

\* Every variable keeps its type.
THEOREM ImagesTypeCorrect == ImagesSpec => []ImagesTypeOK
  <1>1. IInv => ImagesTypeOK
    BY DEF IInv, LinksTyped, SlotsTyped, ImagesTypeOK
  <1>. QED BY <1>1, IInvHolds, PTL

\* The counter says how many requests are at the provider and they are no more
\* than the slots, however requests start, are joined, fail or hand on theirs.
THEOREM SlotsAreCounted == ImagesSpec => []SlotsCounted
  <1>1. IInv => SlotsCounted
    BY DEF IInv, Slots
  <1>. QED BY <1>1, IInvHolds, PTL

\* No response holds a dead link, however late in the lives of the two caches
\* and however slowly the provider made it.
THEOREM LinksOutliveResponses == ImagesSpec => []LinksWork
  <1>1. IInv => LinksWork
    <2> SUFFICES ASSUME IInv, NEW r \in Readers, Is(r, "holding"),
                        stored[reader[r].image] = Path
                 PROVE  reader[r].works > 0
      BY DEF LinksWork
    <2>1. reader[r].use \in Nat
      BY DEF IInv, LinksTyped, Reader
    <2>2. reader[r].works \in 0 .. UrlLife /\ reader[r].works > reader[r].use
      BY DEF IInv, Links
    <2>. QED BY <2>1, <2>2, Times
  <1>. QED BY <1>1, IInvHolds, PTL

=============================================================================
