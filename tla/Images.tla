------------------------------ MODULE Images -------------------------------
(***************************************************************************)
(* Links to stored images (StorageService).  Objects are private; a client *)
(* only ever gets a link that dies after an hour.  Links are cached in the *)
(* process and, inside responses, in Redis.  With Supabase they are signed *)
(* by the provider: at most MaxRunning requests at a time, one per image,  *)
(* the others queue for a slot.  With MinIO, and for product images, the   *)
(* application makes the link itself, as an encrypted reference.           *)
(*                                                                         *)
(* Time passes in ticks.  The code has UrlLife = 60, CacheLife = 50 and    *)
(* ResponseLife = 5 minutes (the longest cache of responses, that of       *)
(* collections).  The names of Init, Next and Spec begin with the module's *)
(* own, for CatalogueProofs extends Catalogue and Images together.         *)
(***************************************************************************)
EXTENDS Integers, Sequences, FiniteSets

CONSTANTS
  Images,       \* object paths
  Products,     \* those in the product bucket, whose links never die
  Edited,       \* those whose catalogue row is saved again from an editor
  Readers,      \* slots for requests that want a link
  Drivers,      \* storage.driver: "supabase", "minio" or both
  MaxRunning,   \* MAX_CONCURRENT_SIGNED_URL_REQUESTS
  UrlLife,      \* SIGNED_URL_TTL_SECONDS
  CacheLife,    \* SIGNED_URL_CACHE_SECONDS
  ResponseLife, \* how long a response that holds a link is used
  ReplyTime     \* the longest the provider takes to answer a request

ASSUME ImagesAssumption ==
  Images # {} /\ Products \subseteq Images /\ Edited \subseteq Images
ASSUME DriversAssumption == Drivers \subseteq {"supabase", "minio"}
ASSUME SlotsAssumption == MaxRunning \in Nat \ {0}
ASSUME LivesAssumption ==
  /\ {UrlLife, ResponseLife, ReplyTime} \subseteq Nat /\ CacheLife \in Nat \ {0}
  /\ CacheLife + ResponseLife + ReplyTime <= UrlLife

VARIABLES
  driver,   \* storage.driver
  stored,   \* the image a catalogue row refers to: a path, or a link by mistake
  left,     \* signedUrlCache: ticks until the entry is stale, 0 without one
  life,     \* ticks that the cached link still works
  phase,    \* signedUrlInFlight: none, or waiting for a slot, or at the provider
  age,      \* ticks since the request went to the provider, 0 before and after
  requests, \* signedUrlRequests
  waiters,  \* signedUrlWaiters
  reader    \* what the readers have or wait for

imageVars == <<driver, stored, left, life, phase, age, requests, waiters, reader>>
slots == <<phase, age, requests, waiters>>
cache == <<left, life>>

Phases == {"none", "queued", "running"}
\* works is how long the link still works, use how long it will be used.
Reader == [step : {"idle", "waiting", "holding"}, image : Images,
           works : Int, use : Nat]
Nothing == [step |-> "idle", image |-> CHOOSE i \in Images : TRUE,
            works |-> 0, use |-> 0]
Path == UrlLife + 1

ImagesInit ==
  /\ driver \in Drivers
  /\ stored = [i \in Images |-> Path]
  /\ left = [i \in Images |-> 0] /\ life = [i \in Images |-> 0]
  /\ phase = [i \in Images |-> "none"] /\ age = [i \in Images |-> 0]
  /\ requests = 0 /\ waiters = <<>>
  /\ reader = [r \in Readers |-> Nothing]

Is(r, step) == reader[r].step = step
Holding(i, works) ==
  [step |-> "holding", image |-> i, works |-> works, use |-> ResponseLife]
Waits(r, i) == Is(r, "waiting") /\ reader[r].image = i

-----------------------------------------------------------------------------
(* The slots for requests to the provider.                                 *)

AcquireSlot(i) ==
  IF requests < MaxRunning
  THEN /\ requests' = requests + 1
       /\ phase' = [phase EXCEPT ![i] = "running"]
       /\ UNCHANGED <<waiters, age>>
  ELSE /\ phase' = [phase EXCEPT ![i] = "queued"]
       /\ waiters' = Append(waiters, i)
       /\ UNCHANGED <<requests, age>>

\* The slot goes back although the next waiter is let in.
MutantReleaseSlot(i) ==
  /\ requests' = requests - 1
  /\ IF waiters # <<>>
     THEN /\ phase' = [phase EXCEPT ![i] = "none", ![Head(waiters)] = "running"]
          /\ waiters' = Tail(waiters)
     ELSE phase' = [phase EXCEPT ![i] = "none"] /\ UNCHANGED waiters
  /\ age' = [age EXCEPT ![i] = 0]

\* The slot goes back and nobody wakes the waiters.
MutantReleaseToNobody(i) ==
  /\ requests' = requests - 1
  /\ phase' = [phase EXCEPT ![i] = "none"]
  /\ age' = [age EXCEPT ![i] = 0]
  /\ UNCHANGED waiters

\* A slot is handed to the next waiter, or is free.  The request of i is over.
ReleaseSlot(i) ==
  /\ IF waiters # <<>>
     THEN /\ phase' = [phase EXCEPT ![i] = "none", ![Head(waiters)] = "running"]
          /\ waiters' = Tail(waiters)
          /\ UNCHANGED requests
     ELSE /\ phase' = [phase EXCEPT ![i] = "none"]
          /\ requests' = IF requests > 0 THEN requests - 1 ELSE 0
          /\ UNCHANGED waiters
  /\ age' = [age EXCEPT ![i] = 0]

-----------------------------------------------------------------------------
(* Links.                                                                  *)

MadeHere(i) == driver = "minio" \/ i \in Products

\* An absolute URL is served as it is stored.
ServeStored(r, i) ==
  /\ Is(r, "idle") /\ stored[i] # Path
  /\ reader' = [reader EXCEPT ![r] = Holding(i, stored[i])]
  /\ UNCHANGED <<driver, stored, cache, slots>>

\* Each use renews the entry.
MutantServeCached(r, i) ==
  /\ Is(r, "idle") /\ stored[i] = Path /\ left[i] > 0
  /\ left' = [left EXCEPT ![i] = CacheLife]
  /\ reader' = [reader EXCEPT ![r] = Holding(i, life[i])]
  /\ UNCHANGED <<driver, stored, life, slots>>

ServeCached(r, i) ==
  /\ Is(r, "idle") /\ stored[i] = Path /\ left[i] > 0
  /\ reader' = [reader EXCEPT ![r] = Holding(i, life[i])]
  /\ UNCHANGED <<driver, stored, cache, slots>>

\* productImageUrl
MakeLink(r, i) ==
  /\ Is(r, "idle") /\ stored[i] = Path /\ left[i] = 0 /\ MadeHere(i)
  /\ left' = [left EXCEPT ![i] = CacheLife]
  /\ life' = [life EXCEPT ![i] = UrlLife]
  /\ reader' = [reader EXCEPT ![r] = Holding(i, UrlLife)]
  /\ UNCHANGED <<driver, stored, slots>>

\* getSignedUrl: join the request in flight for this image, or start one.
GetSignedUrl(r, i) ==
  /\ Is(r, "idle") /\ stored[i] = Path /\ left[i] = 0 /\ ~MadeHere(i)
  /\ reader' = [reader EXCEPT ![r].step = "waiting", ![r].image = i]
  /\ IF phase[i] = "none" THEN AcquireSlot(i) ELSE UNCHANGED slots
  /\ UNCHANGED <<driver, stored, cache>>

\* The provider signed the link at some moment since it was asked.
Signed(i) ==
  /\ phase[i] = "running"
  /\ \E works \in UrlLife - age[i] .. UrlLife :
       /\ left' = [left EXCEPT ![i] = CacheLife]
       /\ life' = [life EXCEPT ![i] = works]
       /\ reader' = [r \in Readers |-> IF Waits(r, i) THEN Holding(i, works) ELSE reader[r]]
  /\ ReleaseSlot(i)
  /\ UNCHANGED <<driver, stored>>

\* Everyone who shares the request is told that it failed.
Refused(i) ==
  /\ phase[i] = "running"
  /\ reader' = [r \in Readers |->
       IF Waits(r, i) THEN Nothing ELSE reader[r]]
  /\ ReleaseSlot(i)
  /\ UNCHANGED <<driver, stored, cache>>

\* The client goes away; the request it started goes on.
Disconnect(r) ==
  /\ Is(r, "waiting")
  /\ reader' = [reader EXCEPT ![r] = Nothing]
  /\ UNCHANGED <<driver, stored, cache, slots>>

UseLink(r) ==
  /\ Is(r, "holding")
  /\ reader' = [reader EXCEPT ![r] = Nothing]
  /\ UNCHANGED <<driver, stored, cache, slots>>

\* An editor sends back the link it was given.  productImageSource recovers
\* the path of a product image; a link signed by Supabase is recognised
\* whenever the row is read.  Nothing does so for another image and MinIO.
SaveRow(r) ==
  LET i == reader[r].image
  IN /\ Is(r, "holding") /\ i \in Edited
     /\ stored' = [stored EXCEPT ![i] =
          IF i \in Products \/ driver = "supabase" THEN Path ELSE reader[r].works]
     /\ UNCHANGED <<driver, cache, slots, reader>>

-----------------------------------------------------------------------------
(* The clock.  The provider answers within ReplyTime, and what a response  *)
(* holds is used while it may be cached.                                   *)

Less(n) == IF n > 0 THEN n - 1 ELSE 0

TimePasses ==
  /\ \A i \in Images : phase[i] = "running" => age[i] < ReplyTime
  /\ \A r \in Readers : Is(r, "holding") => reader[r].use > 0
  /\ left' = [i \in Images |-> Less(left[i])]
  /\ life' = [i \in Images |-> IF left'[i] = 0 THEN 0
                               ELSE IF i \in Products THEN life[i] ELSE Less(life[i])]
  /\ age' = [i \in Images |-> IF phase[i] = "running" THEN age[i] + 1 ELSE age[i]]
  /\ stored' = [i \in Images |->
       IF stored[i] = Path \/ i \in Products THEN stored[i] ELSE Less(stored[i])]
  /\ reader' = [r \in Readers |->
       IF ~Is(r, "holding") THEN reader[r]
       ELSE [reader[r] EXCEPT !.use = @ - 1,
                              !.works = IF reader[r].image \in Products THEN @ ELSE Less(@)]]
  /\ UNCHANGED <<driver, phase, requests, waiters>>

Request(r) ==
  \/ \E i \in Images :
       ServeStored(r, i) \/ ServeCached(r, i) \/ MakeLink(r, i) \/ GetSignedUrl(r, i)
  \/ Disconnect(r) \/ UseLink(r) \/ SaveRow(r)

ProviderAnswers(i) == Signed(i) \/ Refused(i)

ImagesNext ==
  \/ \E r \in Readers : Request(r)
  \/ \E i \in Images : ProviderAnswers(i)
  \/ TimePasses

\* The provider answers, or its request times out.
ImagesSpec ==
  /\ ImagesInit /\ [][ImagesNext]_imageVars
  /\ \A i \in Images : WF_imageVars(ProviderAnswers(i))

-----------------------------------------------------------------------------
(* Properties.                                                             *)

Running == {i \in Images : phase[i] = "running"}

\* The variables have their types.
ImagesTypeOK ==
  /\ driver \in Drivers
  /\ stored \in [Images -> 0 .. Path]
  /\ left \in [Images -> 0 .. CacheLife] /\ life \in [Images -> 0 .. UrlLife]
  /\ phase \in [Images -> Phases] /\ age \in [Images -> 0 .. ReplyTime]
  /\ requests \in Nat /\ waiters \in Seq(Images)
  /\ reader \in [Readers -> Reader]

\* Whatever starts, fails or is handed on, no more than MaxRunning requests are
\* at the provider, and the counter says how many: a slot that is handed to a
\* waiter is not also free, and none is lost.
SlotsCounted ==
  /\ requests = Cardinality(Running)
  /\ requests <= MaxRunning

\* A link works for as long as the response that holds it may be served, though
\* it was signed a while before, then cached, then cached again inside the
\* response (getSignedUrl: "a URL stored permanently in the database would
\* silently die the moment it expired").  A row that holds a link is excepted.
LinksWork ==
  \A r \in Readers :
    Is(r, "holding") /\ stored[reader[r].image] = Path => reader[r].works > 0

\* No editor makes an image unreachable by sending back the link it was given
\* (withImageUrl: "Recovers the bare path if `image` was ever saved as one of
\* our own (possibly expired) signed URLs").
LinksNeverDie == \A r \in Readers : Is(r, "holding") => reader[r].works > 0

\* Nobody waits for ever: not for a slot, and not for a request that another
\* reader started and that failed.
WaitersAreServed == \A r \in Readers : Is(r, "waiting") ~> ~Is(r, "waiting")

=============================================================================
