---------------------------- MODULE SignInProofs ----------------------------
(***************************************************************************)
(* Theorems of SignIn: its type invariant, and what it promises about      *)
(* codes, guesses and the profile of an account, for any number of         *)
(* requests in flight, any budget of guesses and any number of codes.      *)
(***************************************************************************)
EXTENDS SignIn, TLAPS

-----------------------------------------------------------------------------
(* The inductive invariant.                                                *)

\* A code that is stored has not been accepted yet.
StoredIsUnused == \A p \in Purposes : unused[p] >= IF code[p] = NoCode THEN 0 ELSE 1

\* A guess is counted before it is compared.
ComparedAreCounted ==
  \A p \in Purposes : compared[p] <= attempts[p] /\ compared[p] <= MaxAttempts

\* The steps of a request for a registration before its code is stored, and
\* after all that it does with the profile.
BeforeTheCode == {"claim", "store"}
AfterTheProfile == {"idle", "unpend"}
Owes(f) == f.purpose = "register" /\ f.step \notin BeforeTheCode \cup AfterTheProfile

\* A profile that is saved, or that a request will save or make an account of,
\* had a code stored for it.
ProfilesAreOffered ==
  /\ \A w \in Workers : Owes(flight[w]) => flight[w].profile \in offered
  /\ pending # NoProfile => pending \in offered
  /\ AccountWasOffered

-----------------------------------------------------------------------------
(* Every step keeps the types and the invariant.                           *)

\* The expiry of a key, whichever it is.
Expiry ==
  \/ \E p \in Purposes : ExpireCooldown(p) \/ ExpireCode(p) \/ ExpireAttempts(p)
  \/ ExpirePending

LEMMA InitTyped == Init => TypeOK
  BY ProfilesAssumption, LimitsAssumption
     DEF Init, TypeOK, Idle, Flight, Steps, Purposes, Codes, NoCode

\* A request that moves on, or ends, is still a request.
RequestsTyped ==
  /\ flight \in [Workers -> Flight]
  /\ \A v \in Workers : flight[v].purpose = "register" => flight[v].profile \in Profiles

LEMMA BecomeTyped ==
  ASSUME RequestsTyped, NEW w \in Workers, NEW f \in Flight,
         f.purpose = "register" => f.profile \in Profiles,
         flight' = [flight EXCEPT ![w] = f]
  PROVE  RequestsTyped'
  BY DEF RequestsTyped

LEMMA MoveTyped ==
  ASSUME RequestsTyped, NEW w \in Workers, NEW s \in Steps, Goto(w, s)
  PROVE  RequestsTyped'
  <1>1. flight[w] \in Flight
    BY DEF RequestsTyped
  <1> DEFINE f == [flight[w] EXCEPT !.step = s]
  <1>2. f \in Flight /\ f.purpose = flight[w].purpose /\ f.profile = flight[w].profile
    BY <1>1 DEF Flight
  <1>3. flight' = [flight EXCEPT ![w] = f]
    BY DEF Goto
  <1> HIDE DEF f
  <1>. QED BY <1>1, <1>2, <1>3, BecomeTyped DEF RequestsTyped

LEMMA EndTyped ==
  ASSUME RequestsTyped, NEW w \in Workers, Finish(w)
  PROVE  RequestsTyped'
  <1>1. Idle \in Flight /\ Idle.purpose = "login"
    BY DEF Idle, Flight, Steps, Purposes
  <1>. QED BY <1>1 DEF RequestsTyped, Finish

LEMMA SendTyped ==
  ASSUME RequestsTyped, NEW w \in Workers, NEW p \in Purposes, NEW q \in Profiles \cup {NoProfile},
         p = "register" => q \in Profiles, BeginSend(w, p, q)
  PROVE  RequestsTyped'
  <1> DEFINE f == [Idle EXCEPT !.step = "claim", !.purpose = p, !.profile = q]
  <1>1. f \in Flight /\ f.purpose = p /\ f.profile = q
    BY DEF Idle, Flight, Steps
  <1>2. flight' = [flight EXCEPT ![w] = f]
    BY DEF BeginSend
  <1> HIDE DEF f
  <1>. QED BY <1>1, <1>2, BecomeTyped

LEMMA VerifyTyped ==
  ASSUME RequestsTyped, NEW w \in Workers, NEW p \in Purposes, NEW q \in Profiles \cup {NoProfile},
         NEW given \in Codes \cup {NoCode},
         p = "register" => q \in Profiles, BeginVerify(w, p, q, given)
  PROVE  RequestsTyped'
  <1> DEFINE f == [Idle EXCEPT !.step = "read", !.purpose = p, !.profile = q, !.code = given]
  <1>1. f \in Flight /\ f.purpose = p /\ f.profile = q
    BY DEF Idle, Flight, Steps
  <1>2. flight' = [flight EXCEPT ![w] = f]
    BY DEF BeginVerify
  <1> HIDE DEF f
  <1>. QED BY <1>1, <1>2, BecomeTyped

\* What TypeOK says of all but the requests.
RestTyped ==
  /\ account \in Profiles \cup {NoProfile} /\ pending \in Profiles \cup {NoProfile}
  /\ code \in [Purposes -> Codes \cup {NoCode}]
  /\ attempts \in [Purposes -> 0 .. MaxAttempts + 1]
  /\ outlives \in [Purposes -> BOOLEAN] /\ cooldown \in [Purposes -> BOOLEAN]
  /\ last \in 0 .. MaxCodes /\ offered \subseteq Profiles
  /\ unused \in [Purposes -> Int] /\ compared \in [Purposes -> Nat]

LEMMA TypesSplit ==
  /\ TypeOK <=> RequestsTyped /\ RestTyped
  /\ TypeOK' <=> RequestsTyped' /\ RestTyped'
  BY DEF TypeOK, RequestsTyped, RestTyped

LEMMA StartsTyped ==
  ASSUME TypeOK, NEW w \in Workers,
         \/ \E profile \in Profiles : Register(w, profile)
         \/ Login(w) \/ ResendOtp(w)
         \/ \E given \in 0 .. last : VerifyOtp(w, given)
  PROVE  TypeOK'
  <1>0. RequestsTyped /\ RestTyped
    BY TypesSplit
  <1>1. RestTyped'
    BY <1>0 DEF RestTyped, Register, Login, ResendOtp, VerifyOtp, keys, past
  <1>2. CASE \E profile \in Profiles : Register(w, profile)
    <2> PICK q \in Profiles : Register(w, q)
      BY <1>2
    <2> DEFINE f == [Idle EXCEPT !.step = "claim", !.purpose = "register",
                                 !.profile = q, !.saves = TRUE]
    <2>1. f \in Flight /\ f.profile = q
      BY DEF Idle, Flight, Steps, Purposes
    <2>2. flight' = [flight EXCEPT ![w] = f]
      BY DEF Register
    <2> HIDE DEF f
    <2>. QED BY <1>0, <1>1, <2>1, <2>2, BecomeTyped, TypesSplit
  <1>3. CASE Login(w)
    BY <1>0, <1>3, SendTyped, <1>1, TypesSplit DEF Login, Purposes
  <1>4. CASE ResendOtp(w)
    BY <1>0, <1>4, SendTyped, <1>1, TypesSplit DEF ResendOtp, Purposes, RestTyped
  <1>5. CASE \E given \in 0 .. last : VerifyOtp(w, given)
    <2> PICK given \in 0 .. last : VerifyOtp(w, given)
      BY <1>5
    <2>1. given \in Codes \cup {NoCode}
      BY <1>0, LimitsAssumption DEF RestTyped, Codes, NoCode
    <2>2. RequestsTyped'
      BY <1>0, <2>1, VerifyTyped DEF VerifyOtp, Purposes, RestTyped
    <2>. QED BY <1>1, <2>2, TypesSplit
  <1>. QED BY <1>2, <1>3, <1>4, <1>5

\* The steps of requests in flight.
Handling(w) ==
  \/ Claim(w) \/ TurnedAway(w) \/ Store(w) \/ ClearAttempts(w)
  \/ Mail(w) \/ StorePending(w)
  \/ ReadCode(w) \/ CountGuess(w) \/ Burn(w) \/ Consume(w) \/ Accept(w)
  \/ CreateUser(w) \/ DeletePending(w) \/ Drop(w)

LEMMA HandlingMoves ==
  ASSUME RequestsTyped, NEW w \in Workers, Handling(w)
  PROVE  RequestsTyped'
  <1>1. CASE \E s \in Steps : Goto(w, s)
    BY <1>1, MoveTyped
  <1>2. CASE Finish(w)
    BY <1>2, EndTyped
  <1>3. CASE ReadCode(w) /\ ~Finish(w)
    <2> DEFINE f == [flight[w] EXCEPT !.step = "count",
                       !.right = (code[flight[w].purpose] = flight[w].code), !.code = NoCode]
    <2>1. flight[w] \in Flight
      BY DEF RequestsTyped
    <2>2. f \in Flight /\ f.purpose = flight[w].purpose /\ f.profile = flight[w].profile
      BY <2>1 DEF Flight, Steps, NoCode
    <2>3. flight' = [flight EXCEPT ![w] = f]
      BY <1>3 DEF ReadCode, RequestsTyped
    <2> HIDE DEF f
    <2>. QED BY <2>1, <2>2, <2>3, BecomeTyped DEF RequestsTyped
  <1>. QED BY <1>1, <1>2, <1>3 DEF Handling, Claim, TurnedAway, Store, ClearAttempts, Mail,
         StorePending, ReadCode, CountGuess, Judged, Burn, Consume, Accept, CreateUser,
         DeletePending, Drop, Steps

LEMMA HandlingTyped ==
  ASSUME TypeOK, NEW w \in Workers, Handling(w)
  PROVE  TypeOK'
  <1>1. RequestsTyped /\ RestTyped
    BY TypesSplit
  <1>2. /\ flight[w].purpose \in Purposes
        /\ flight[w].purpose = "register" => flight[w].profile \in Profiles
        /\ flight[w].profile \in Profiles \cup {NoProfile}
    BY <1>1 DEF RequestsTyped, Flight
  <1>3. last < MaxCodes => last + 1 \in Codes
    BY <1>1, LimitsAssumption DEF RestTyped, Codes
  <1>4. Claim(w) => RestTyped'
    BY <1>1, <1>2, <1>3 DEF RestTyped, keys, past, Claim
  <1>5. TurnedAway(w) => RestTyped'
    BY <1>1, <1>2, <1>3 DEF RestTyped, keys, past, TurnedAway
  <1>6. Store(w) => RestTyped'
    BY <1>1, <1>2, <1>3, LimitsAssumption DEF RestTyped, keys, past, Store
  <1>7. ClearAttempts(w) => RestTyped'
    BY <1>1, <1>2, <1>3, LimitsAssumption DEF RestTyped, keys, past, ClearAttempts, ResetAttempts
  <1>8. Mail(w) => RestTyped'
    BY <1>1, <1>2, <1>3 DEF RestTyped, keys, past, Mail
  <1>9. StorePending(w) => RestTyped'
    BY <1>1, <1>2, <1>3 DEF RestTyped, keys, past, StorePending
  <1>10. ReadCode(w) => RestTyped'
    BY <1>1, <1>2, <1>3 DEF RestTyped, keys, past, ReadCode
  <1>11. CountGuess(w) => RestTyped'
    BY <1>1, <1>2, <1>3, LimitsAssumption DEF RestTyped, keys, past, CountGuess
  <1>12. Burn(w) => RestTyped'
    BY <1>1, <1>2, <1>3 DEF RestTyped, keys, past, Burn, NoCode
  <1>13. Consume(w) => RestTyped'
    BY <1>1, <1>2, <1>3 DEF RestTyped, keys, past, Consume, NoCode
  <1>14. Accept(w) => RestTyped'
    BY <1>1, <1>2, <1>3, LimitsAssumption DEF RestTyped, keys, past, Accept, ResetAttempts
  <1>15. CreateUser(w) => RestTyped'
    BY <1>1, <1>2, <1>3 DEF RestTyped, keys, past, CreateUser
  <1>16. DeletePending(w) => RestTyped'
    BY <1>1, <1>2, <1>3 DEF RestTyped, keys, past, DeletePending
  <1>17. Drop(w) => RestTyped'
    BY <1>1, <1>2, <1>3 DEF RestTyped, keys, past, Drop
  <1>18. RestTyped'
    BY <1>4, <1>5, <1>6, <1>7, <1>8, <1>9, <1>10, <1>11, <1>12, <1>13, <1>14, <1>15,
       <1>16, <1>17 DEF Handling
  <1>. QED BY <1>1, <1>18, HandlingMoves, TypesSplit

LEMMA ExpiryTyped ==
  ASSUME TypeOK, Expiry
  PROVE  TypeOK'
  <1>1. RequestsTyped /\ RestTyped
    BY TypesSplit
  <1>2. RequestsTyped'
    BY <1>1 DEF RequestsTyped, Expiry, ExpireCooldown, ExpireCode, ExpireAttempts, ExpirePending
  <1>3. ASSUME NEW p \in Purposes, ExpireCooldown(p) PROVE RestTyped'
    BY <1>1, <1>3 DEF RestTyped, ExpireCooldown, past
  <1>4. ASSUME NEW p \in Purposes, ExpireCode(p) PROVE RestTyped'
    BY <1>1, <1>4 DEF RestTyped, ExpireCode, past, NoCode
  <1>5. ASSUME NEW p \in Purposes, ExpireAttempts(p) PROVE RestTyped'
    BY <1>1, <1>5, LimitsAssumption DEF RestTyped, ExpireAttempts, ResetAttempts, past
  <1>6. ASSUME ExpirePending PROVE RestTyped'
    BY <1>1, <1>6 DEF RestTyped, ExpirePending, past
  <1>. QED BY <1>2, <1>3, <1>4, <1>5, <1>6, TypesSplit DEF Expiry

LEMMA StepsAre ==
  ASSUME Next
  PROVE  \/ \E w \in Workers : Handling(w)
         \/ \E w \in Workers : \/ \E profile \in Profiles : Register(w, profile)
                               \/ Login(w) \/ ResendOtp(w)
                               \/ \E given \in 0 .. last : VerifyOtp(w, given)
         \/ Expiry
  BY DEF Next, Step, Handling, Expiry

LEMMA StutterTyped ==
  ASSUME TypeOK, UNCHANGED vars
  PROVE  TypeOK'
  BY DEF TypeOK, vars

\* Every variable keeps its type, and a request for a registration always
\* knows its profile.
THEOREM TypeCorrect == Spec => []TypeOK
  <1>1. Init => TypeOK
    BY InitTyped
  <1>2. TypeOK /\ [Next]_vars => TypeOK'
    <2>1. ASSUME TypeOK, Next PROVE TypeOK'
      BY <2>1, StepsAre, HandlingTyped, StartsTyped, ExpiryTyped
    <2>. QED BY <2>1, StutterTyped
  <1>. QED BY <1>1, <1>2, PTL DEF Spec

-----------------------------------------------------------------------------
(* Codes and guesses.                                                      *)

CodesSound == StoredIsUnused /\ ComparedAreCounted

LEMMA HandlingCounts ==
  ASSUME TypeOK, CodesSound, NEW w \in Workers, Handling(w)
  PROVE  CodesSound'
  <1>1. /\ flight[w].purpose \in Purposes
        /\ code \in [Purposes -> Codes \cup {NoCode}]
        /\ attempts \in [Purposes -> 0 .. MaxAttempts + 1]
        /\ last \in Nat
        /\ unused \in [Purposes -> Int] /\ compared \in [Purposes -> Nat]
        /\ MaxAttempts \in Nat /\ MaxAttempts > 0
    BY LimitsAssumption DEF TypeOK, Flight
  <1>2. CASE UNCHANGED <<code, attempts, unused, compared>>
    BY <1>2 DEF CodesSound, StoredIsUnused, ComparedAreCounted
  <1>. USE DEF CodesSound, StoredIsUnused, ComparedAreCounted
  <1>3. CASE Store(w)
    BY <1>1, <1>3 DEF Store, NoCode
  <1>4. CASE ClearAttempts(w)
    BY <1>1, <1>4 DEF ClearAttempts, ResetAttempts
  <1>5. CASE CountGuess(w)
    BY <1>1, <1>5 DEF CountGuess
  <1>6. CASE Burn(w)
    BY <1>1, <1>6 DEF Burn, past
  <1>7. CASE Consume(w)
    BY <1>1, <1>7 DEF Consume
  <1>8. CASE Accept(w)
    BY <1>1, <1>8 DEF Accept, ResetAttempts
  <1>. QED BY <1>2, <1>3, <1>4, <1>5, <1>6, <1>7, <1>8 DEF Handling, keys, past, Claim, TurnedAway,
         Mail, StorePending, ReadCode, CreateUser, DeletePending, Drop

LEMMA ExpiryCounts ==
  ASSUME TypeOK, CodesSound, Expiry
  PROVE  CodesSound'
  <1>1. /\ code \in [Purposes -> Codes \cup {NoCode}]
        /\ attempts \in [Purposes -> 0 .. MaxAttempts + 1]
        /\ unused \in [Purposes -> Int] /\ compared \in [Purposes -> Nat]
        /\ MaxAttempts \in Nat
    BY LimitsAssumption DEF TypeOK
  <1>. USE DEF CodesSound, StoredIsUnused, ComparedAreCounted, past
  <1>2. ASSUME NEW p \in Purposes, ExpireCooldown(p) PROVE CodesSound'
    BY <1>2 DEF ExpireCooldown
  <1>3. ASSUME NEW p \in Purposes, ExpireCode(p) PROVE CodesSound'
    BY <1>1, <1>3 DEF ExpireCode
  <1>4. ASSUME NEW p \in Purposes, ExpireAttempts(p) PROVE CodesSound'
    BY <1>1, <1>4 DEF ExpireAttempts, ResetAttempts
  <1>5. ASSUME ExpirePending PROVE CodesSound'
    BY <1>5 DEF ExpirePending
  <1>. QED BY <1>2, <1>3, <1>4, <1>5 DEF Expiry

LEMMA StartsCount ==
  ASSUME CodesSound, NEW w \in Workers,
         \/ \E profile \in Profiles : Register(w, profile)
         \/ Login(w) \/ ResendOtp(w)
         \/ \E given \in 0 .. last : VerifyOtp(w, given)
  PROVE  CodesSound'
  BY DEF CodesSound, StoredIsUnused, ComparedAreCounted, Register, Login, ResendOtp, VerifyOtp,
         keys, past

LEMMA CodesStaySound == Spec => []CodesSound
  <1>1. Init => CodesSound
    BY LimitsAssumption DEF Init, CodesSound, StoredIsUnused, ComparedAreCounted
  <1>2. TypeOK /\ CodesSound /\ [Next]_vars => CodesSound'
    <2>1. ASSUME TypeOK, CodesSound, Next PROVE CodesSound'
      BY <2>1, StepsAre, HandlingCounts, StartsCount, ExpiryCounts
    <2>2. ASSUME CodesSound, UNCHANGED vars PROVE CodesSound'
      BY <2>2 DEF CodesSound, StoredIsUnused, ComparedAreCounted, vars
    <2>. QED BY <2>1, <2>2
  <1>. QED BY <1>1, <1>2, TypeCorrect, PTL DEF Spec

\* No more codes of a purpose are accepted than were stored, however many
\* requests submit one at once.
THEOREM CodesAreAcceptedOnce == Spec => []AcceptedAtMostSent
  <1>1. TypeOK /\ CodesSound => AcceptedAtMostSent
    BY DEF TypeOK, CodesSound, StoredIsUnused, AcceptedAtMostSent
  <1>. QED BY <1>1, CodesStaySound, TypeCorrect, PTL

\* Between two clearings of the counter at most MaxAttempts guesses are
\* compared, however many are made at once.
THEOREM GuessesShareABudget == Spec => []GuessBudget
  <1>1. CodesSound => GuessBudget
    BY DEF CodesSound, ComparedAreCounted, GuessBudget
  <1>. QED BY <1>1, CodesStaySound, PTL

-----------------------------------------------------------------------------
(* Profiles.                                                               *)

LEMMA RequestKeeps ==
  ASSUME RequestsTyped, NEW w \in Workers, NEW f, flight' = [flight EXCEPT ![w] = f],
         \A v \in Workers : Owes(flight[v]) => flight[v].profile \in offered,
         offered \subseteq offered', Owes(f) => f.profile \in offered'
  PROVE  \A v \in Workers : Owes(flight'[v]) => flight'[v].profile \in offered'
  BY DEF RequestsTyped

\* The steps that leave the profiles alone.
LEMMA OthersKeep ==
  ASSUME TypeOK, ProfilesAreOffered, NEW w \in Workers, Handling(w),
         ~Store(w), ~StorePending(w), ~CreateUser(w), ~DeletePending(w)
  PROVE  ProfilesAreOffered'
  <1>1. RequestsTyped
    BY TypesSplit
  <1>2. UNCHANGED <<account, pending, offered>>
    BY DEF Handling, Claim, TurnedAway, ClearAttempts, Mail, ReadCode, CountGuess, Burn,
           Consume, Accept, Drop, keys, past
  <1>3. flight[w] \in Flight
    BY <1>1 DEF RequestsTyped
  <1>4. CASE Finish(w)
    <2>1. ~Owes(Idle)
      BY DEF Owes, Idle
    <2>. QED BY <1>1, <1>2, <1>4, <2>1, RequestKeeps
             DEF ProfilesAreOffered, AccountWasOffered, Finish
  <1>5. CASE ~Finish(w)
    <2>1. PICK f : /\ flight' = [flight EXCEPT ![w] = f]
                   /\ f.profile = flight[w].profile /\ f.purpose = flight[w].purpose
                   /\ \/ f.step \in BeforeTheCode
                       \/ flight[w].step \notin BeforeTheCode \cup AfterTheProfile
      <3>1. CASE Claim(w)
        <4> DEFINE f == [flight[w] EXCEPT !.step = "store"]
        <4>1. f.profile = flight[w].profile /\ f.purpose = flight[w].purpose /\ f.step = "store"
          BY <1>3 DEF Flight
        <4>. QED BY <3>1, <4>1 DEF Claim, Goto, BeforeTheCode
      <3>2. CASE ReadCode(w)
        <4> DEFINE f == [flight[w] EXCEPT !.step = "count",
                           !.right = (code[flight[w].purpose] = flight[w].code), !.code = NoCode]
        <4>1. f.profile = flight[w].profile /\ f.purpose = flight[w].purpose
          BY <1>3 DEF Flight
        <4>2. flight' = [flight EXCEPT ![w] = f]
          BY <1>1, <1>5, <3>2 DEF ReadCode, RequestsTyped
        <4>. QED BY <3>2, <4>1, <4>2 DEF ReadCode, At, BeforeTheCode, AfterTheProfile
      <3>3. CASE ~Claim(w) /\ ~ReadCode(w)
        <4>1. PICK s : Goto(w, s) /\ flight[w].step \notin BeforeTheCode \cup AfterTheProfile
          BY <1>5, <3>3 DEF Handling, TurnedAway, ClearAttempts, Mail, CountGuess, Judged, Burn,
             Consume, Accept, Drop, At, BeforeTheCode, AfterTheProfile
        <4> DEFINE f == [flight[w] EXCEPT !.step = s]
        <4>2. f.profile = flight[w].profile /\ f.purpose = flight[w].purpose
          BY <1>3 DEF Flight
        <4>. QED BY <4>1, <4>2 DEF Goto
      <3>. QED BY <3>1, <3>2, <3>3
    <2>2. Owes(f) => f.profile \in offered'
      BY <1>2, <2>1 DEF Owes, ProfilesAreOffered
    <2>. QED BY <1>1, <1>2, <2>1, <2>2, RequestKeeps DEF ProfilesAreOffered, AccountWasOffered
  <1>. QED BY <1>4, <1>5

\* Only what register() began saves a profile, and only the right code of a
\* registration makes an account.
Registers(f) == f.saves \/ f.step \in {"pending", "create"} => f.purpose = "register"
RegistrationsOnly == \A w \in Workers : Registers(flight[w])

LEMMA OneRegisters ==
  ASSUME RequestsTyped, RegistrationsOnly, NEW w \in Workers, NEW f, Registers(f),
         flight' = [flight EXCEPT ![w] = f]
  PROVE  RegistrationsOnly'
  BY DEF RequestsTyped, RegistrationsOnly

LEMMA HandlingRegisters ==
  ASSUME TypeOK, RegistrationsOnly, NEW w \in Workers, Handling(w)
  PROVE  RegistrationsOnly'
  <1>1. RequestsTyped
    BY TypesSplit
  <1>2. flight[w] \in Flight /\ Registers(flight[w])
    BY <1>1 DEF RequestsTyped, RegistrationsOnly
  <1>3. CASE Finish(w)
    <2>1. Registers(Idle)
      BY DEF Registers, Idle
    <2>. QED BY <1>1, <1>3, <2>1, OneRegisters DEF Finish
  <1>4. CASE ReadCode(w) /\ ~Finish(w)
    <2> DEFINE f == [flight[w] EXCEPT !.step = "count",
                       !.right = (code[flight[w].purpose] = flight[w].code), !.code = NoCode]
    <2>1. Registers(f)
      BY <1>2 DEF Flight, Registers
    <2>2. flight' = [flight EXCEPT ![w] = f]
      BY <1>1, <1>4 DEF ReadCode, RequestsTyped
    <2> HIDE DEF f
    <2>. QED BY <1>1, <2>1, <2>2, OneRegisters
  <1>5. ASSUME NEW s, Goto(w, s), s \in {"pending", "create"} => flight[w].purpose = "register"
        PROVE  RegistrationsOnly'
    <2> DEFINE f == [flight[w] EXCEPT !.step = s]
    <2>1. Registers(f)
      BY <1>2, <1>5 DEF Flight, Registers
    <2>2. flight' = [flight EXCEPT ![w] = f]
      BY <1>5 DEF Goto
    <2> HIDE DEF f
    <2>. QED BY <1>1, <2>1, <2>2, OneRegisters
  <1>6. CASE Mail(w)
    BY <1>2, <1>3, <1>5, <1>6 DEF Mail, Registers
  <1>7. CASE Accept(w)
    BY <1>3, <1>5, <1>7 DEF Accept
  <1>8. CASE \E s \in Steps \ {"pending", "create"} : Goto(w, s)
    BY <1>5, <1>8
  <1>. QED BY <1>3, <1>4, <1>6, <1>7, <1>8 DEF Handling, Claim, TurnedAway, Store, ClearAttempts,
         StorePending, ReadCode, CountGuess, Judged, Burn, Consume, CreateUser, DeletePending,
         Drop, Steps

LEMMA HandlingOffers ==
  ASSUME TypeOK, RegistrationsOnly, ProfilesAreOffered, NEW w \in Workers, Handling(w)
  PROVE  ProfilesAreOffered'
  <1>1. RequestsTyped /\ RestTyped
    BY TypesSplit
  <1>2. flight[w] \in Flight
    BY <1>1 DEF RequestsTyped
  <1>. USE DEF ProfilesAreOffered, AccountWasOffered
  <1>3. CASE Store(w)
    <2> DEFINE f == [flight[w] EXCEPT !.step = "clear"]
    <2>1. f.profile = flight[w].profile /\ f.purpose = flight[w].purpose
      BY <1>2 DEF Flight
    <2>2. flight' = [flight EXCEPT ![w] = f] /\ offered \subseteq offered'
      BY <1>3 DEF Store, Goto
    <2>3. Owes(f) => f.profile \in offered'
      BY <1>3, <2>1 DEF Store, Owes
    <2> HIDE DEF f
    <2>. QED BY <1>1, <1>3, <2>2, <2>3, RequestKeeps DEF Store
  <1>4. \A f : Finish(w) /\ f = Idle => flight' = [flight EXCEPT ![w] = f] /\ ~Owes(f)
    BY DEF Finish, Owes, Idle
  <1>5. At(w, "pending") \/ At(w, "create") => flight[w].profile \in offered
    BY DEF At, RegistrationsOnly, Registers, Owes, BeforeTheCode, AfterTheProfile
  <1>6. CASE StorePending(w)
    BY <1>1, <1>4, <1>5, <1>6, RequestKeeps DEF StorePending, past
  <1>7. CASE DeletePending(w)
    BY <1>1, <1>4, <1>7, RequestKeeps DEF DeletePending, past
  <1>8. CASE CreateUser(w)
    <2> DEFINE f == [flight[w] EXCEPT !.step = "unpend"]
    <2>1. ~Owes(f)
      BY <1>2 DEF Flight, Owes, AfterTheProfile
    <2>2. Goto(w, "unpend") => flight' = [flight EXCEPT ![w] = f]
      BY DEF Goto
    <2> HIDE DEF f
    <2>. QED BY <1>1, <1>4, <1>5, <1>8, <2>1, <2>2, RequestKeeps DEF CreateUser, keys, past
  <1>. QED BY <1>3, <1>6, <1>7, <1>8, OthersKeep

LEMMA StartsOffer ==
  ASSUME TypeOK, RegistrationsOnly, ProfilesAreOffered, NEW w \in Workers,
         \/ \E profile \in Profiles : Register(w, profile)
         \/ Login(w) \/ ResendOtp(w)
         \/ \E given \in 0 .. last : VerifyOtp(w, given)
  PROVE  RegistrationsOnly' /\ ProfilesAreOffered'
  <1>1. RequestsTyped
    BY TypesSplit
  <1>2. UNCHANGED <<account, pending, offered>>
    BY DEF Register, Login, ResendOtp, VerifyOtp, keys, past
  <1> DEFINE Starts == \E f : /\ flight' = [flight EXCEPT ![w] = f]
                             /\ Registers(f) /\ (Owes(f) => f.profile \in offered)
  <1>3. Starts
    <2>1. ASSUME NEW p, NEW q, BeginSend(w, p, q) PROVE Starts
      <3> DEFINE f == [Idle EXCEPT !.step = "claim", !.purpose = p, !.profile = q]
      <3>1. ~Owes(f) /\ Registers(f)
        BY DEF Idle, Owes, Registers, BeforeTheCode
      <3>. QED BY <2>1, <3>1 DEF BeginSend
    <2>2. ASSUME NEW p, NEW q, NEW given, BeginVerify(w, p, q, given),
                 p = "register" => q \in offered
          PROVE  Starts
      <3> DEFINE f == [Idle EXCEPT !.step = "read", !.purpose = p, !.profile = q, !.code = given]
      <3>1. (Owes(f) => f.profile \in offered) /\ Registers(f)
        BY <2>2 DEF Idle, Owes, Registers
      <3>. QED BY <2>2, <3>1 DEF BeginVerify
    <2>3. ASSUME NEW q, Register(w, q) PROVE Starts
      <3> DEFINE f == [Idle EXCEPT !.step = "claim", !.purpose = "register",
                                   !.profile = q, !.saves = TRUE]
      <3>1. ~Owes(f) /\ Registers(f)
        BY DEF Idle, Owes, Registers, BeforeTheCode
      <3>. QED BY <2>3, <3>1 DEF Register
    <2>. QED BY <2>1, <2>2, <2>3 DEF Login, ResendOtp, VerifyOtp, ProfilesAreOffered
  <1>4. PICK f : /\ flight' = [flight EXCEPT ![w] = f] /\ Registers(f)
                 /\ Owes(f) => f.profile \in offered
    BY <1>3
  <1>5. RegistrationsOnly'
    BY <1>1, <1>4, OneRegisters
  <1>6. ProfilesAreOffered'
    BY <1>1, <1>2, <1>4, RequestKeeps DEF ProfilesAreOffered, AccountWasOffered
  <1>. QED BY <1>5, <1>6

\* An account has a profile for which a code was stored, never that of a
\* request that the cooldown turned away.
THEOREM AccountsWereOffered == Spec => []AccountWasOffered
  <1>1. Init => RegistrationsOnly /\ ProfilesAreOffered
    BY DEF Init, Idle, RegistrationsOnly, Registers, ProfilesAreOffered, Owes, AccountWasOffered
  <1>2. TypeOK /\ RegistrationsOnly /\ ProfilesAreOffered /\ [Next]_vars
          => (RegistrationsOnly /\ ProfilesAreOffered)'
    <2>1. ASSUME RegistrationsOnly, ProfilesAreOffered, Expiry
          PROVE  (RegistrationsOnly /\ ProfilesAreOffered)'
      BY <2>1 DEF RegistrationsOnly, Registers, ProfilesAreOffered, Owes, AccountWasOffered, Expiry,
         ExpireCooldown, ExpireCode, ExpireAttempts, ExpirePending, past
    <2>2. ASSUME RegistrationsOnly, ProfilesAreOffered, UNCHANGED vars
          PROVE  (RegistrationsOnly /\ ProfilesAreOffered)'
      BY <2>2 DEF RegistrationsOnly, Registers, ProfilesAreOffered, Owes, AccountWasOffered, vars
    <2>. QED BY <2>1, <2>2, StepsAre, HandlingOffers, HandlingRegisters, StartsOffer
  <1>3. ProfilesAreOffered => AccountWasOffered
    BY DEF ProfilesAreOffered
  <1>. QED BY <1>1, <1>2, <1>3, TypeCorrect, PTL DEF Spec
=============================================================================
