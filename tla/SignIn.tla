------------------------------- MODULE SignIn -------------------------------
(***************************************************************************)
(* One-time codes and pending registrations of one email address           *)
(* (OtpService, AuthService).  They live in Redis: every command is a step *)
(* of its own and keys vanish when their time to live has passed.          *)
(*                                                                         *)
(* A request is a row of `flight` that walks through its commands; it can  *)
(* be dropped at any of them, when the mail server refuses or the process  *)
(* dies.  Codes are numbered in the order they are stored; 0 is no code.   *)
(***************************************************************************)
EXTENDS Integers

CONSTANTS
  Profiles,    \* what people fill in for this email address
  NoProfile,   \* no account, or no pending registration
  Workers,     \* slots for requests in flight at one time
  MaxAttempts, \* otp.maxAttempts
  MaxCodes     \* bound on the codes sent in a behaviour

ASSUME ProfilesAssumption == NoProfile \notin Profiles
ASSUME LimitsAssumption == MaxAttempts \in Nat \ {0} /\ MaxCodes \in Nat

Purposes == {"register", "login"}
Codes == 1 .. MaxCodes
NoCode == 0

VARIABLES
  account,   \* the User row of the email: the profile it was created with
  pending,   \* registration:pending:<email>
  code,      \* otp:<purpose>:<email>
  attempts,  \* otp:attempts:<purpose>:<email>, 0 while absent
  outlives,  \* the attempts key expires after the code that is stored
  cooldown,  \* otp:cooldown:<purpose>:<email> is present
  flight,    \* the requests being handled
  last,      \* history: the last code stored, for either purpose
  offered,   \* history: the profiles a registration code was stored for
  unused,    \* history: codes stored less codes accepted, by purpose
  compared   \* history: guesses compared since the counter was last cleared

vars == <<account, pending, code, attempts, outlives, cooldown, flight,
          last, offered, unused, compared>>
keys == <<pending, code, attempts, outlives, cooldown>>
past == <<last, offered, unused, compared>>

\* saves: register() stores the profile once its code is out.  code is what
\* a verification was given (0 for a code that was never sent); right says that
\* it is the code the verification found stored.
Idle == [step |-> "idle", purpose |-> "login", profile |-> NoProfile,
         saves |-> FALSE, code |-> NoCode, right |-> FALSE]
Steps == {"idle", "claim", "store", "clear", "mail", "pending", "read",
          "count", "burn", "consume", "reset", "create", "unpend"}
Flight == [step : Steps, purpose : Purposes, profile : Profiles \cup {NoProfile},
           saves : BOOLEAN, code : Codes \cup {NoCode}, right : BOOLEAN]

Init ==
  /\ account = NoProfile /\ pending = NoProfile
  /\ code = [p \in Purposes |-> NoCode]
  /\ attempts = [p \in Purposes |-> 0]
  /\ outlives = [p \in Purposes |-> FALSE]
  /\ cooldown = [p \in Purposes |-> FALSE]
  /\ flight = [w \in Workers |-> Idle]
  /\ last = NoCode /\ offered = {}
  /\ unused = [p \in Purposes |-> 0]
  /\ compared = [p \in Purposes |-> 0]

-----------------------------------------------------------------------------
(* Requests.                                                               *)

At(w, step) == flight[w].step = step
Goto(w, step) == flight' = [flight EXCEPT ![w].step = step]
Finish(w) == flight' = [flight EXCEPT ![w] = Idle]
BeginSend(w, purpose, profile) ==
  /\ At(w, "idle")
  /\ flight' = [flight EXCEPT ![w] =
       [Idle EXCEPT !.step = "claim", !.purpose = purpose, !.profile = profile]]
BeginVerify(w, purpose, profile, given) ==
  /\ At(w, "idle")
  /\ flight' = [flight EXCEPT ![w] =
       [Idle EXCEPT !.step = "read", !.purpose = purpose, !.profile = profile,
                    !.code = given]]

\* The email is free and so is the phone number of the profile.
Register(w, profile) ==
  /\ account = NoProfile
  /\ At(w, "idle")
  /\ flight' = [flight EXCEPT ![w] =
       [Idle EXCEPT !.step = "claim", !.purpose = "register",
                    !.profile = profile, !.saves = TRUE]]
  /\ UNCHANGED <<account, keys, past>>

Login(w) ==
  /\ account # NoProfile
  /\ BeginSend(w, "login", NoProfile)
  /\ UNCHANGED <<account, keys, past>>

\* A pending registration takes precedence over an account.
ResendOtp(w) ==
  /\ \/ pending # NoProfile /\ BeginSend(w, "register", pending)
     \/ /\ pending = NoProfile /\ account # NoProfile
        /\ BeginSend(w, "login", NoProfile)
  /\ UNCHANGED <<account, keys, past>>

VerifyOtp(w, given) ==
  /\ \/ pending # NoProfile /\ BeginVerify(w, "register", pending, given)
     \/ /\ pending = NoProfile /\ account # NoProfile
        /\ BeginVerify(w, "login", NoProfile, given)
  /\ UNCHANGED <<account, keys, past>>

-----------------------------------------------------------------------------
(* OtpService.send: claim the cooldown, store the code, clear the guesses, *)
(* mail it.  Only register() has something left to do afterwards.          *)

Claim(w) ==
  LET p == flight[w].purpose
  IN /\ At(w, "claim") /\ ~cooldown[p]
     /\ cooldown' = [cooldown EXCEPT ![p] = TRUE]
     /\ Goto(w, "store")
     /\ UNCHANGED <<account, pending, code, attempts, outlives, past>>

\* As if the profile were saved before the code is sent.
MutantTurnedAway(w) ==
  /\ At(w, "claim") /\ cooldown[flight[w].purpose]
  /\ pending' = IF flight[w].purpose = "register" THEN flight[w].profile ELSE pending
  /\ Finish(w)
  /\ UNCHANGED <<account, code, attempts, outlives, cooldown, past>>

TurnedAway(w) ==
  /\ At(w, "claim") /\ cooldown[flight[w].purpose]
  /\ Finish(w)
  /\ UNCHANGED <<account, keys, past>>

Store(w) ==
  LET p == flight[w].purpose
  IN /\ At(w, "store") /\ last < MaxCodes
     /\ last' = last + 1
     /\ code' = [code EXCEPT ![p] = last + 1]
     /\ outlives' = [outlives EXCEPT ![p] = FALSE]
     /\ unused' = [unused EXCEPT ![p] = @ + 1]
     /\ offered' = IF p = "register" THEN offered \cup {flight[w].profile} ELSE offered
     /\ Goto(w, "clear")
     /\ UNCHANGED <<account, pending, attempts, cooldown, compared>>

\* The counter goes: from here on MaxAttempts more guesses are compared.
ResetAttempts(p) ==
  /\ attempts' = [attempts EXCEPT ![p] = 0]
  /\ outlives' = [outlives EXCEPT ![p] = FALSE]
  /\ compared' = [compared EXCEPT ![p] = 0]

ClearAttempts(w) ==
  /\ At(w, "clear")
  /\ ResetAttempts(flight[w].purpose)
  /\ Goto(w, "mail")
  /\ UNCHANGED <<account, pending, code, cooldown, last, offered, unused>>

\* A resend leaves the pending profile and its time to live alone.
Mail(w) ==
  /\ At(w, "mail")
  /\ IF flight[w].saves THEN Goto(w, "pending") ELSE Finish(w)
  /\ UNCHANGED <<account, keys, past>>

StorePending(w) ==
  /\ At(w, "pending")
  /\ pending' = flight[w].profile
  /\ Finish(w)
  /\ UNCHANGED <<account, code, attempts, outlives, cooldown, past>>

-----------------------------------------------------------------------------
(* OtpService.verify.                                                      *)

ReadCode(w) ==
  LET p == flight[w].purpose
  IN /\ At(w, "read")
     /\ IF code[p] = NoCode THEN Finish(w)
        ELSE flight' = [flight EXCEPT ![w].step = "count",
                                      ![w].right = (code[p] = flight[w].code),
                                      ![w].code = NoCode]
     /\ UNCHANGED <<account, keys, past>>

\* What becomes of a guess that is the n-th of its budget.
Judged(w, n) ==
  IF n > MaxAttempts THEN Goto(w, "burn")
  ELSE IF flight[w].right THEN Goto(w, "consume") ELSE Finish(w)

\* A counter that is read, compared and written back only afterwards: a burst
\* of guesses all reads the same value.
MutantCountGuess(w) ==
  LET p == flight[w].purpose
  IN /\ At(w, "count")
     /\ \E n \in {attempts[p], attempts[p] + 1} \cap (0 .. MaxAttempts + 1) :
          /\ attempts' = [attempts EXCEPT ![p] = n]
          /\ compared' = [compared EXCEPT ![p] = IF n > MaxAttempts THEN @ ELSE @ + 1]
          /\ Judged(w, n)
     /\ outlives' = [outlives EXCEPT ![p] = TRUE]
     /\ UNCHANGED <<account, pending, code, cooldown, last, offered, unused>>

\* INCR, with the time to live the first guess gives the key.  Over the budget
\* all values of the counter are alike, so it stays one above it.
CountGuess(w) ==
  LET p == flight[w].purpose
      n == IF attempts[p] > MaxAttempts THEN attempts[p] ELSE attempts[p] + 1
  IN /\ At(w, "count")
     /\ attempts' = [attempts EXCEPT ![p] = n]
     /\ outlives' = [outlives EXCEPT ![p] = (n = 1) \/ @]
     /\ compared' = [compared EXCEPT ![p] = IF n > MaxAttempts THEN @ ELSE @ + 1]
     /\ Judged(w, n)
     /\ UNCHANGED <<account, pending, code, cooldown, last, offered, unused>>

Burn(w) ==
  /\ At(w, "burn")
  /\ code' = [code EXCEPT ![flight[w].purpose] = NoCode]
  /\ Finish(w)
  /\ UNCHANGED <<account, pending, attempts, outlives, cooldown, past>>

\* The result of DEL is ignored: both of two right guesses go on.
MutantConsume(w) ==
  LET p == flight[w].purpose
  IN /\ At(w, "consume")
     /\ code' = [code EXCEPT ![p] = NoCode]
     /\ unused' = [unused EXCEPT ![p] = @ - 1]
     /\ Goto(w, "reset")
     /\ UNCHANGED <<account, pending, attempts, outlives, cooldown,
                    last, offered, compared>>

\* DEL removes whatever code is stored now; its result decides the winner.
Consume(w) ==
  LET p == flight[w].purpose
  IN /\ At(w, "consume")
     /\ IF code[p] = NoCode
        THEN Finish(w) /\ UNCHANGED <<code, unused>>
        ELSE /\ code' = [code EXCEPT ![p] = NoCode]
             /\ unused' = [unused EXCEPT ![p] = @ - 1]
             /\ Goto(w, "reset")
     /\ UNCHANGED <<account, pending, attempts, outlives, cooldown,
                    last, offered, compared>>

Accept(w) ==
  /\ At(w, "reset")
  /\ ResetAttempts(flight[w].purpose)
  /\ IF flight[w].purpose = "register" THEN Goto(w, "create") ELSE Finish(w)
  /\ UNCHANGED <<account, pending, code, cooldown, last, offered, unused>>

-----------------------------------------------------------------------------
(* The rest of verifyOtp.  The session it then starts is Accounts' matter.  *)

\* The unique email refuses a second account.
CreateUser(w) ==
  /\ At(w, "create")
  /\ IF account = NoProfile
     THEN account' = flight[w].profile /\ Goto(w, "unpend")
     ELSE Finish(w) /\ UNCHANGED account
  /\ UNCHANGED <<keys, past>>

DeletePending(w) ==
  /\ At(w, "unpend")
  /\ pending' = NoProfile
  /\ Finish(w)
  /\ UNCHANGED <<account, code, attempts, outlives, cooldown, past>>

\* The mail server refuses, Redis or the database fails, or the process dies.
Drop(w) ==
  /\ ~At(w, "idle")
  /\ Finish(w)
  /\ UNCHANGED <<account, keys, past>>

-----------------------------------------------------------------------------
(* Time.  A key may expire at any moment, but a counter that was started   *)
(* after its code was stored outlives it: both have the same life.         *)

ExpireCooldown(p) ==
  /\ cooldown[p]
  /\ cooldown' = [cooldown EXCEPT ![p] = FALSE]
  /\ UNCHANGED <<account, pending, code, attempts, outlives, flight, past>>

ExpireCode(p) ==
  /\ code[p] # NoCode
  /\ code' = [code EXCEPT ![p] = NoCode]
  /\ UNCHANGED <<account, pending, attempts, outlives, cooldown, flight, past>>

ExpireAttempts(p) ==
  /\ attempts[p] > 0 /\ (code[p] = NoCode \/ ~outlives[p])
  /\ ResetAttempts(p)
  /\ UNCHANGED <<account, pending, code, cooldown, flight,
                 last, offered, unused>>

\* SET without a time to live.
MutantExpirePending ==
  /\ FALSE
  /\ pending' = NoProfile
  /\ UNCHANGED <<account, code, attempts, outlives, cooldown, flight, past>>

ExpirePending ==
  /\ pending # NoProfile
  /\ pending' = NoProfile
  /\ UNCHANGED <<account, code, attempts, outlives, cooldown, flight, past>>

Step(w) ==
  \/ \E profile \in Profiles : Register(w, profile)
  \/ Login(w) \/ ResendOtp(w)
  \/ \E given \in 0 .. last : VerifyOtp(w, given)
  \/ Claim(w) \/ TurnedAway(w) \/ Store(w) \/ ClearAttempts(w)
  \/ Mail(w) \/ StorePending(w)
  \/ ReadCode(w) \/ CountGuess(w) \/ Burn(w) \/ Consume(w) \/ Accept(w)
  \/ CreateUser(w) \/ DeletePending(w) \/ Drop(w)

Next ==
  \/ \E w \in Workers : Step(w)
  \/ \E p \in Purposes : ExpireCooldown(p) \/ ExpireCode(p) \/ ExpireAttempts(p)
  \/ ExpirePending

\* Only the clock is fair: no request need ever be answered.
Spec == Init /\ [][Next]_vars /\ WF_vars(ExpirePending)

-----------------------------------------------------------------------------
(* Properties.                                                             *)

\* The variables have their types, and whatever a request does for a
\* registration it knows the profile it does it for.
TypeOK ==
  /\ account \in Profiles \cup {NoProfile} /\ pending \in Profiles \cup {NoProfile}
  /\ code \in [Purposes -> Codes \cup {NoCode}]
  /\ attempts \in [Purposes -> 0 .. MaxAttempts + 1]
  /\ outlives \in [Purposes -> BOOLEAN] /\ cooldown \in [Purposes -> BOOLEAN]
  /\ flight \in [Workers -> Flight]
  /\ \A w \in Workers : flight[w].purpose = "register" => flight[w].profile \in Profiles
  /\ last \in 0 .. MaxCodes /\ offered \subseteq Profiles
  /\ unused \in [Purposes -> Int] /\ compared \in [Purposes -> Nat]

\* However requests overlap and however often a code is submitted at once, no
\* more codes of a purpose are accepted than were stored: the DEL that removes
\* a code decides who may use it (verify: "it can be used only once even if
\* submitted twice at the same moment").
AcceptedAtMostSent == \A p \in Purposes : unused[p] >= 0

\* Simultaneous guesses share one budget: until the counter is cleared no more
\* than MaxAttempts of them are compared (verify: "any number of simultaneous
\* guesses share the same budget of maxAttempts").
GuessBudget == \A p \in Purposes : compared[p] <= MaxAttempts

\* The account that a verification creates has a profile for which a code went
\* out, never that of a request that was turned away by the cooldown
\* (register: "must not have replaced the profile that the code already sent
\* will create").
AccountWasOffered == account # NoProfile => account \in offered

\* Once the account exists nothing of its registration is left for good, even
\* if the process dies between creating the user and deleting the pending
\* profile; while it is left, verifyOtp takes every login code for a
\* registration code.
LoginUnblocked == <>[](account # NoProfile => pending = NoProfile)

=============================================================================
