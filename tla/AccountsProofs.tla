--------------------------- MODULE AccountsProofs ---------------------------
(***************************************************************************)
(* Theorems of Accounts: the variables keep their types, every refresh     *)
(* token is rotated at most once, whatever overlaps, and an active admin   *)
(* remains if requests that change one account do not overlap.             *)
(***************************************************************************)
EXTENDS Accounts, TLAPS

\* What request f knows about its account and its token, given the roles r and
\* the token rows t.
Knows(f, r, t) ==
  /\ f.step # "idle" => f.user \in Users
  /\ f.step \in {"create", "editRole", "writeRole"} => f.role \in StaffRoles
  /\ f.step \in {"writeRole", "writeStatus"} => r[f.user] \in StaffRoles
  /\ f.step = "close" => r[f.user] = "CLIENT"
  /\ f.step \in {"owner", "claim", "issue"} => r[f.user] # "NONE"
  /\ f.step \in {"owner", "claim"} => /\ f.token \in Tokens
                                      /\ t[f.token].state # "unused"
                                      /\ t[f.token].owner = f.user

FlightSound == \A w \in Workers : Knows(flight[w], role, token)

Sound == TypeOK /\ FlightSound

\* Accounts stay staff or customers and issued tokens keep their owner: what a
\* request knows stays true.
Grown(r, t, r2, t2) ==
  /\ \A u \in Users : /\ r[u] \in StaffRoles => r2[u] \in StaffRoles
                      /\ r[u] = "CLIENT" => r2[u] = "CLIENT"
                      /\ r[u] # "NONE" => r2[u] # "NONE"
  /\ \A k \in Tokens : t[k].state # "unused" => /\ t2[k].state # "unused"
                                                /\ t2[k].owner = t[k].owner

LEMMA KnowledgeStays ==
  ASSUME NEW f, NEW r, NEW t, NEW r2, NEW t2,
         Knows(f, r, t), Grown(r, t, r2, t2)
  PROVE  Knows(f, r2, t2)
BY DEF Knows, Grown

\* If one request moves on and the others' knowledge stays, all are sound.
LEMMA OneMoves ==
  ASSUME Sound, NEW w \in Workers, NEW f \in Flight, Goto(w, f),
         Knows(f, role', token'), Grown(role, token, role', token')
  PROVE  flight' \in [Workers -> Flight] /\ FlightSound'
<1>1. flight \in [Workers -> Flight]
  BY DEF Sound, TypeOK
<1>2. flight' \in [Workers -> Flight]
  BY <1>1 DEF Goto
<1>3. ASSUME NEW v \in Workers
      PROVE  Knows(flight'[v], role', token')
  <2>1. CASE v = w
    BY <2>1, <1>1 DEF Goto
  <2>2. CASE v # w
    <3>1. flight'[v] = flight[v]
      BY <2>2, <1>1 DEF Goto
    <3>2. Knows(flight[v], role, token)
      BY DEF Sound, FlightSound
    <3>3. QED
      BY <3>1, <3>2, KnowledgeStays
  <2>3. QED
    BY <2>1, <2>2
<1>4. QED
  BY <1>2, <1>3 DEF FlightSound

LEMMA IdleSound ==
  ASSUME NEW r, NEW t
  PROVE  Idle \in Flight /\ Knows(Idle, r, t)
BY DEF Idle, Flight, Knows

LEMMA NothingGrows == \A r, t : Grown(r, t, r, t)
BY DEF Grown

LEMMA SoundInit == Init => Sound
<1> SUFFICES ASSUME Init PROVE Sound
  OBVIOUS
<1>1. TypeOK
  <2>1. Unissued \in TokenRow
    BY DEF Unissued, TokenRow
  <2>2. /\ token \in [Tokens -> TokenRow]
        /\ \A t \in Tokens : token[t].state = "unused"
    BY <2>1 DEF Init, Unissued
  <2>3. Idle \in Flight
    BY IdleSound
  <2>4. flight \in [Workers -> Flight]
    BY <2>3 DEF Init
  <2>5. role \in [Users -> Roles \cup {"NONE"}]
    BY DEF Init, Roles, StaffRoles
  <2>6. active \in [Users -> BOOLEAN]
    <3>1. \A u \in Users : (u \in Founders) \in BOOLEAN
      OBVIOUS
    <3>2. QED
      BY <3>1, Zenon DEF Init
  <2>7. \A u \in Users : active[u] = (u \in Founders)
    BY Zenon DEF Init
  <2>8. \A u \in Users : active[u] => role[u] # "NONE"
    BY <2>7 DEF Init
  <2>9. QED
    BY <2>2, <2>4, <2>5, <2>6, <2>8 DEF TypeOK
<1>2. FlightSound
  BY IdleSound DEF Init, FlightSound
<1>3. QED
  BY <1>1, <1>2 DEF Sound

-----------------------------------------------------------------------------

\* A request that only reads leaves everything sound if what it goes on with is.
LEMMA ReadSound ==
  ASSUME Sound, NEW w \in Workers, NEW f \in Flight, Goto(w, f),
         Knows(f, role, token), UNCHANGED <<role, active, token>>
  PROVE  Sound'
<1>1. Grown(role, token, role', token')
  BY NothingGrows
<1>2. flight' \in [Workers -> Flight] /\ FlightSound'
  BY <1>1, OneMoves
<1>3. QED
  BY <1>2 DEF Sound, TypeOK

LEMMA RevokeAllGrows ==
  ASSUME TypeOK, NEW u, RevokeAll(u), NEW r
  PROVE  /\ token' \in [Tokens -> TokenRow]
         /\ Grown(r, token, r, token')
         /\ \A t \in Tokens : /\ token'[t].state # "unused" => token[t].state # "unused"
                              /\ token'[t].owner = token[t].owner
BY DEF TypeOK, RevokeAll, TokenRow, Grown

LEMMA StaffStepSound ==
  ASSUME Sound, NEW w \in Workers, StaffStep(w)
  PROVE  Sound'
<1> DEFINE f == flight[w]
<1>a. f \in Flight /\ Knows(f, role, token)
  BY DEF Sound, TypeOK, FlightSound
<1>1. ASSUME NEW actor \in Users, NEW u \in Users, NEW r \in StaffRoles,
             CreateStaffStart(w, actor, u, r)
      PROVE  Sound'
  <2> DEFINE g == [Idle EXCEPT !.step = "create", !.user = u, !.role = r]
  <2>1. g \in Flight /\ Knows(g, role, token)
    BY DEF Idle, Flight, Knows, Roles
  <2>2. QED
    BY <1>1, <2>1, ReadSound DEF CreateStaffStart, AsAdmin
<1>2. ASSUME NEW actor \in Users, NEW u \in Users, NEW r \in StaffRoles,
             UpdateStaffStart(w, actor, u, r)
      PROVE  Sound'
  <2> DEFINE g == [Idle EXCEPT !.step = "editRole", !.user = u, !.role = r]
  <2>1. g \in Flight /\ Knows(g, role, token)
    BY DEF Idle, Flight, Knows, Roles
  <2>2. QED
    BY <1>2, <2>1, ReadSound DEF UpdateStaffStart, AsAdmin
<1>3. ASSUME NEW actor \in Users, NEW u \in Users, NEW to \in BOOLEAN,
             SetStatusStart(w, actor, u, to)
      PROVE  Sound'
  <2> DEFINE g == [Idle EXCEPT !.step = "editStatus", !.user = u, !.to = to]
  <2>1. g \in Flight /\ Knows(g, role, token)
    BY DEF Idle, Flight, Knows
  <2>2. QED
    BY <1>3, <2>1, ReadSound DEF SetStatusStart, AsAdmin
<1>4. ASSUME CreateStaff(w)
      PROVE  Sound'
  <2>1. f.user \in Users /\ f.role \in StaffRoles
    BY <1>4, <1>a DEF CreateStaff, Knows
  <2>2. Grown(role, token, role', token')
    BY <1>4, <2>1 DEF CreateStaff, Grown, Sound, TypeOK, StaffRoles
  <2>3. flight' \in [Workers -> Flight] /\ FlightSound'
    BY <1>4, <2>2, IdleSound, OneMoves DEF CreateStaff, Done
  <2>4. TypeOK'
    BY <1>4, <2>1, <2>3 DEF CreateStaff, Sound, TypeOK, StaffRoles, Roles
  <2>5. QED
    BY <2>3, <2>4 DEF Sound
<1>5. ASSUME NEW from \in {"editRole", "editStatus"},
             NEW next \in {"writeRole", "writeStatus"},
             from = "editStatus" => next = "writeStatus",
             StaffRead(w, from, next)
      PROVE  Sound'
  <2> DEFINE g == [f EXCEPT !.step = next,
                            !.saw = f.user \in ActiveAdmins]
  <2>1. f.user \in Users /\ role[f.user] \in StaffRoles
    BY <1>5, <1>a DEF StaffRead, Knows
  <2>2. from = "editRole" => f.role \in StaffRoles
    BY <1>5, <1>a DEF StaffRead, Knows
  <2> DEFINE saw == f.user \in ActiveAdmins
  <2>b. saw \in BOOLEAN
    OBVIOUS
  <2>3. g \in Flight /\ Knows(g, role, token)
    <3> HIDE DEF saw
    <3>1. [f EXCEPT !.step = next, !.saw = saw] \in Flight
      BY <1>a, <2>b DEF Flight
    <3>2. Knows([f EXCEPT !.step = next, !.saw = saw], role, token)
      BY <1>5, <1>a, <2>1, <2>2 DEF Flight, Knows
    <3>3. QED
      BY <3>1, <3>2 DEF saw
  <2>4. QED
    BY <1>5, <2>3, ReadSound DEF StaffRead
<1>6. ASSUME UpdateStaff(w)
      PROVE  Sound'
  <2>1. f.user \in Users /\ f.role \in StaffRoles /\ role[f.user] \in StaffRoles
    BY <1>6, <1>a DEF UpdateStaff, Knows
  <2>2. Grown(role, token, role', token')
    BY <1>6, <2>1 DEF UpdateStaff, Grown, Sound, TypeOK, StaffRoles
  <2>3. flight' \in [Workers -> Flight] /\ FlightSound'
    BY <1>6, <2>2, IdleSound, OneMoves DEF UpdateStaff, Done
  <2>4. TypeOK'
    BY <1>6, <2>1, <2>3 DEF UpdateStaff, Sound, TypeOK, StaffRoles, Roles
  <2>5. QED
    BY <2>3, <2>4 DEF Sound
<1>7. ASSUME SetStaffStatus(w)
      PROVE  Sound'
  <2>1. f.user \in Users /\ role[f.user] \in StaffRoles
    BY <1>7, <1>a DEF SetStaffStatus, Knows
  <2>2. UNCHANGED token \/ RevokeAll(f.user)
    BY <1>7 DEF SetStaffStatus
  <2>3. /\ token' \in [Tokens -> TokenRow]
        /\ Grown(role, token, role', token')
        /\ \A t \in Tokens : /\ token'[t].state # "unused" => token[t].state # "unused"
                             /\ token'[t].owner = token[t].owner
    BY <1>7, <2>2, RevokeAllGrows, NothingGrows DEF SetStaffStatus, Sound, TypeOK
  <2>4. flight' \in [Workers -> Flight] /\ FlightSound'
    BY <1>7, <2>3, IdleSound, OneMoves DEF SetStaffStatus, Done
  <2>5. f.to \in BOOLEAN
    BY <1>a DEF Flight
  <2>6. TypeOK'
    BY <1>7, <2>1, <2>3, <2>4, <2>5 DEF SetStaffStatus, Sound, TypeOK, StaffRoles
  <2>7. QED
    BY <2>4, <2>6 DEF Sound
<1>8. QED
  BY <1>1, <1>2, <1>3, <1>4, <1>5, <1>6, <1>7
     DEF StaffStep, UpdateStaffRead, SetStatusRead

LEMMA SessionStepSound ==
  ASSUME Sound, NEW w \in Workers, SessionStep(w)
  PROVE  Sound'
<1> DEFINE f == flight[w]
<1>a. f \in Flight /\ Knows(f, role, token)
  BY DEF Sound, TypeOK, FlightSound
<1>1. ASSUME NEW u \in Users, Register(w, u)
      PROVE  Sound'
  <2> DEFINE g == [Idle EXCEPT !.step = "issue", !.user = u]
  <2>1. role' = [role EXCEPT ![u] = "CLIENT"] /\ role[u] = "NONE"
    BY <1>1 DEF Register
  <2>2. g \in Flight /\ Knows(g, role', token')
    BY <2>1 DEF Idle, Flight, Knows, Sound, TypeOK
  <2>3. Grown(role, token, role', token')
    BY <1>1, <2>1 DEF Register, Grown, Sound, TypeOK, StaffRoles
  <2>4. flight' \in [Workers -> Flight] /\ FlightSound'
    BY <1>1, <2>2, <2>3, OneMoves DEF Register
  <2>5. TypeOK'
    BY <1>1, <2>1, <2>4 DEF Register, Sound, TypeOK, Roles
  <2>6. QED
    BY <2>4, <2>5 DEF Sound
<1>2. ASSUME NEW u \in Users, Login(w, u)
      PROVE  Sound'
  <2> DEFINE g == [Idle EXCEPT !.step = "issue", !.user = u]
  <2>1. role[u] # "NONE"
    BY <1>2 DEF Login, Sound, TypeOK
  <2>2. g \in Flight /\ Knows(g, role, token)
    BY <2>1 DEF Idle, Flight, Knows
  <2>3. QED
    BY <1>2, <2>2, ReadSound DEF Login
<1>3. ASSUME NEW u \in Users, CloseOwnAccountStart(w, u)
      PROVE  Sound'
  <2> DEFINE g == [Idle EXCEPT !.step = "close", !.user = u]
  <2>1. g \in Flight /\ Knows(g, role, token)
    BY <1>3 DEF CloseOwnAccountStart, Idle, Flight, Knows
  <2>2. QED
    BY <1>3, <2>1, ReadSound DEF CloseOwnAccountStart
<1>4. ASSUME CloseOwnAccount(w)
      PROVE  Sound'
  <2>1. f.user \in Users
    BY <1>4, <1>a DEF CloseOwnAccount, Knows
  <2>2. /\ token' \in [Tokens -> TokenRow]
        /\ Grown(role, token, role', token')
        /\ \A t \in Tokens : /\ token'[t].state # "unused" => token[t].state # "unused"
                             /\ token'[t].owner = token[t].owner
    BY <1>4, RevokeAllGrows DEF CloseOwnAccount, Sound
  <2>3. flight' \in [Workers -> Flight] /\ FlightSound'
    BY <1>4, <2>2, IdleSound, OneMoves DEF CloseOwnAccount, Done
  <2>4. TypeOK'
    BY <1>4, <2>1, <2>2, <2>3 DEF CloseOwnAccount, Sound, TypeOK
  <2>5. QED
    BY <2>3, <2>4 DEF Sound
<1>5. ASSUME NEW t \in Tokens, RefreshFind(w, t)
      PROVE  Sound'
  <2> DEFINE g == [Idle EXCEPT !.step = "owner", !.user = token[t].owner, !.token = t]
  <2>1. token[t].state # "unused" /\ token[t].owner \in Users /\ role[token[t].owner] # "NONE"
    BY <1>5 DEF RefreshFind, Sound, TypeOK
  <2>2. g \in Flight /\ Knows(g, role, token)
    BY <2>1 DEF Idle, Flight, Knows
  <2>3. QED
    BY <1>5, <2>2, ReadSound DEF RefreshFind
<1>6. ASSUME NEW t \in Tokens, IssueTokens(w, t)
      PROVE  Sound'
  <2>1. f.user \in Users /\ role[f.user] # "NONE" /\ f.token \in Tokens \cup {NoToken}
    BY <1>6, <1>a DEF IssueTokens, Knows, Flight
  <2> DEFINE row == [state |-> "live", owner |-> f.user, parent |-> f.token]
  <2>2. row \in TokenRow
    BY <2>1 DEF TokenRow
  <2>3. token' = [token EXCEPT ![t] = row] /\ token[t].state = "unused"
    BY <1>6 DEF IssueTokens, Unissued
  <2>4. Grown(role, token, role', token')
    BY <1>6, <2>3 DEF IssueTokens, Grown, Sound, TypeOK
  <2>5. flight' \in [Workers -> Flight] /\ FlightSound'
    BY <1>6, <2>4, IdleSound, OneMoves DEF IssueTokens, Done
  <2>6. token' \in [Tokens -> TokenRow]
    BY <2>2, <2>3 DEF Sound, TypeOK
  <2>7. \A k \in Tokens : token'[k].state # "unused" =>
          /\ token'[k].owner \in Users
          /\ role[token'[k].owner] # "NONE"
    BY <2>1, <2>3 DEF Sound, TypeOK
  <2>8. QED
    BY <1>6, <2>5, <2>6, <2>7 DEF IssueTokens, Sound, TypeOK
<1>7. ASSUME RefreshOwner(w), active[f.user]
      PROVE  Sound'
  <2> DEFINE g == [f EXCEPT !.step = "claim"]
  <2>1. f.step = "owner"
    BY <1>7 DEF RefreshOwner
  <2>2. g \in Flight /\ Knows(g, role, token)
    BY <1>a, <2>1 DEF Flight, Knows
  <2>3. QED
    BY <1>7, <2>2, ReadSound DEF RefreshOwner
<1>8. ASSUME RefreshOwner(w), ~active[f.user]
      PROVE  Sound'
  <2>1. f.token \in Tokens /\ token[f.token].state # "unused"
    BY <1>8, <1>a DEF RefreshOwner, Knows
  <2>2. PICK s \in {"revoked", token[f.token].state} :
          token' = [token EXCEPT ![f.token].state = s]
    BY <1>8 DEF RefreshOwner
  <2>3. /\ token' \in [Tokens -> TokenRow]
        /\ Grown(role, token, role', token')
        /\ \A t \in Tokens : /\ token'[t].state # "unused" => token[t].state # "unused"
                             /\ token'[t].owner = token[t].owner
    BY <1>8, <2>1, <2>2 DEF RefreshOwner, Grown, Sound, TypeOK, TokenRow
  <2>4. flight' \in [Workers -> Flight] /\ FlightSound'
    BY <1>8, <2>3, IdleSound, OneMoves DEF RefreshOwner, Done
  <2>5. QED
    BY <1>8, <2>3, <2>4 DEF RefreshOwner, Sound, TypeOK
<1>9. ASSUME RefreshClaim(w)
      PROVE  Sound'
  <2> DEFINE g == [f EXCEPT !.step = "issue"]
  <2>1. f.token \in Tokens /\ token[f.token].state # "unused" /\ f.step = "claim"
    BY <1>9, <1>a DEF RefreshClaim, Knows
  <2>2. token' = [token EXCEPT ![f.token].state = "spent"]
    BY <1>9 DEF RefreshClaim
  <2>3. /\ token' \in [Tokens -> TokenRow]
        /\ Grown(role, token, role', token')
        /\ \A t \in Tokens : /\ token'[t].state # "unused" => token[t].state # "unused"
                             /\ token'[t].owner = token[t].owner
    BY <1>9, <2>1, <2>2 DEF RefreshClaim, Grown, Sound, TypeOK, TokenRow
  <2>4. g \in Flight /\ Knows(g, role', token')
    BY <1>9, <1>a, <2>1 DEF RefreshClaim, Flight, Knows
  <2>5. flight' \in [Workers -> Flight] /\ FlightSound'
    BY <1>9, <2>3, <2>4, OneMoves DEF RefreshClaim
  <2>6. QED
    BY <1>9, <2>3, <2>5 DEF RefreshClaim, Sound, TypeOK
<1>10. QED
  BY <1>1, <1>2, <1>3, <1>4, <1>5, <1>6, <1>7, <1>8, <1>9 DEF SessionStep

LEMMA SoundStep ==
  ASSUME Sound, [Next]_vars
  PROVE  Sound'
<1>1. ASSUME NEW w \in Workers, StaffStep(w)
      PROVE  Sound'
  BY <1>1, StaffStepSound
<1>2. ASSUME NEW w \in Workers, SessionStep(w)
      PROVE  Sound'
  BY <1>2, SessionStepSound
<1>3. ASSUME NEW w \in Workers, Drop(w)
      PROVE  Sound'
  BY <1>3, IdleSound, ReadSound DEF Drop, Done
<1>4. ASSUME NEW t \in Tokens, Logout(t)
      PROVE  Sound'
  <2>1. /\ token' \in [Tokens -> TokenRow]
        /\ Grown(role, token, role', token')
        /\ \A k \in Tokens : /\ token'[k].state # "unused" => token[k].state # "unused"
                             /\ token'[k].owner = token[k].owner
    BY <1>4 DEF Logout, Grown, Sound, TypeOK, TokenRow
  <2>2. FlightSound'
    BY <1>4, <2>1, KnowledgeStays DEF Logout, Sound, FlightSound
  <2>3. QED
    BY <1>4, <2>1, <2>2 DEF Logout, Sound, TypeOK
<1>5. CASE UNCHANGED vars
  BY <1>5 DEF vars, Sound, TypeOK, FlightSound
<1>6. QED
  BY <1>1, <1>2, <1>3, <1>4, <1>5 DEF Next

\* The variables keep their types, whatever requests overlap: no session is
\* ever issued to an account that does not exist (Accounts!TypeOK).
THEOREM TypeCorrect == Spec => []TypeOK
<1>1. Init => Sound
  BY SoundInit
<1>2. Sound /\ [Next]_vars => Sound'
  BY SoundStep
<1>3. Sound => TypeOK
  BY DEF Sound
<1>4. QED
  BY <1>1, <1>2, <1>3, PTL DEF Spec

-----------------------------------------------------------------------------
(* Refresh-token rotation.                                                 *)

\* Request w has claimed a token and is to issue its successor.
Rotating(w) == flight[w].step = "issue" /\ flight[w].token # NoToken

\* A claimed token is spent, has no successor yet, and nobody else claimed it.
ClaimsSound ==
  \A w \in Workers :
    Rotating(w) =>
      /\ flight[w].token \in Tokens
      /\ token[flight[w].token].state = "spent"
      /\ token[flight[w].token].owner = flight[w].user
      /\ \A t \in Tokens : token[t].parent # flight[w].token
      /\ \A v \in Workers \ {w} : Rotating(v) => flight[v].token # flight[w].token

RotationInv == Sound /\ RotatedOnceWhileLive /\ ClaimsSound

\* No token is issued, and what is spent stays spent.
TokensStay ==
  \A t \in Tokens : /\ token'[t].parent = token[t].parent
                    /\ token'[t].owner = token[t].owner
                    /\ token[t].state = "spent" => token'[t].state = "spent"

LEMMA RevokeAllStays ==
  ASSUME TypeOK, NEW u, RevokeAll(u)
  PROVE  TokensStay
BY DEF TypeOK, RevokeAll, TokensStay, TokenRow

\* A step that issues no token and starts no rotation.
LEMMA NoRotation ==
  ASSUME RotationInv, TokensStay,
         \A w \in Workers : Rotating(w)' => flight'[w] = flight[w]
  PROVE  RotatedOnceWhileLive' /\ ClaimsSound'
<1>1. \A t \in Tokens : token[t].parent \in Tokens \cup {NoToken}
  BY DEF RotationInv, Sound, TypeOK, TokenRow
<1>2. RotatedOnceWhileLive'
  BY <1>1 DEF RotationInv, RotatedOnceWhileLive, TokensStay
<1>3. \A w \in Workers : Rotating(w)' => Rotating(w)
  BY DEF Rotating
<1>4. ClaimsSound'
  BY <1>3 DEF RotationInv, ClaimsSound, TokensStay, Rotating
<1>5. QED
  BY <1>2, <1>4

LEMMA RotationStep ==
  ASSUME RotationInv, [Next]_vars
  PROVE  RotationInv'
<1>s. Sound'
  BY SoundStep DEF RotationInv
<1>t. TypeOK
  BY DEF RotationInv, Sound
<1>k. \A w \in Workers : Knows(flight[w], role, token)
  BY DEF RotationInv, Sound, FlightSound
<1>n. ASSUME NEW w \in Workers, NEW f, Goto(w, f),
             f.step # "issue" \/ f.token = NoToken
      PROVE  \A v \in Workers : Rotating(v)' => flight'[v] = flight[v]
  BY <1>n, <1>t DEF TypeOK, Goto, Rotating
<1>u. UNCHANGED token => TokensStay
  BY DEF TokensStay
<1>1. ASSUME NEW w \in Workers, StaffStep(w)
      PROVE  RotatedOnceWhileLive' /\ ClaimsSound'
  <2>1. TokensStay
    BY <1>1, <1>t, <1>u, RevokeAllStays
       DEF StaffStep, CreateStaffStart, CreateStaff, UpdateStaffStart,
           SetStatusStart, AsAdmin, UpdateStaffRead, SetStatusRead, StaffRead,
           UpdateStaff, SetStaffStatus
  <2>2. PICK f : Goto(w, f) /\ f.step # "issue"
    <3>1. Idle.step # "issue"
      BY DEF Idle
    <3>2. \A r \in StaffRoles, u \in Users :
            /\ [Idle EXCEPT !.step = "create", !.user = u, !.role = r].step # "issue"
            /\ [Idle EXCEPT !.step = "editRole", !.user = u, !.role = r].step # "issue"
      BY DEF Idle
    <3>3. \A to \in BOOLEAN, u \in Users :
            [Idle EXCEPT !.step = "editStatus", !.user = u, !.to = to].step # "issue"
      BY DEF Idle
    <3>4. \A next \in {"writeRole", "writeStatus"} :
            [flight[w] EXCEPT !.step = next,
                              !.saw = flight[w].user \in ActiveAdmins].step # "issue"
      BY <1>t DEF TypeOK, Flight
    <3>5. CASE \E actor \in Users, u \in Users, r \in StaffRoles :
                 CreateStaffStart(w, actor, u, r) \/ UpdateStaffStart(w, actor, u, r)
      BY <3>2, <3>5 DEF CreateStaffStart, UpdateStaffStart, AsAdmin
    <3>6. CASE \E actor \in Users, u \in Users, to \in BOOLEAN :
                 SetStatusStart(w, actor, u, to)
      BY <3>3, <3>6 DEF SetStatusStart, AsAdmin
    <3>7. CASE CreateStaff(w) \/ UpdateStaff(w) \/ SetStaffStatus(w)
      BY <3>1, <3>7 DEF CreateStaff, UpdateStaff, SetStaffStatus, Done
    <3>8. CASE UpdateStaffRead(w)
      BY <3>4, <3>8 DEF UpdateStaffRead, StaffRead
    <3>9. CASE SetStatusRead(w)
      BY <3>4, <3>9 DEF SetStatusRead, StaffRead
    <3>10. QED
      BY <1>1, <3>5, <3>6, <3>7, <3>8, <3>9 DEF StaffStep
  <2>3. QED
    BY <2>1, <2>2, <1>n, NoRotation
<1>2. ASSUME NEW w \in Workers, NEW u \in Users,
             Register(w, u) \/ Login(w, u) \/ CloseOwnAccountStart(w, u)
      PROVE  RotatedOnceWhileLive' /\ ClaimsSound'
  <2> DEFINE g(step) == [Idle EXCEPT !.step = step, !.user = u]
  <2>0. \A step \in {"issue", "close"} : g(step).token = NoToken
    BY DEF Idle
  <2>1. PICK f : Goto(w, f) /\ f.token = NoToken
    BY <1>2, <2>0 DEF Register, Login, CloseOwnAccountStart
  <2>2. TokensStay
    BY <1>2, <1>u DEF Register, Login, CloseOwnAccountStart
  <2>3. QED
    BY <2>1, <2>2, <1>n, NoRotation
<1>3. ASSUME NEW w \in Workers,
             CloseOwnAccount(w) \/ Drop(w)
      PROVE  RotatedOnceWhileLive' /\ ClaimsSound'
  <2>1. Goto(w, Idle) /\ Idle.step # "issue"
    BY <1>3 DEF CloseOwnAccount, Drop, Done, Idle
  <2>2. TokensStay
    BY <1>3, <1>t, <1>u, RevokeAllStays DEF CloseOwnAccount, Drop
  <2>3. QED
    BY <2>1, <2>2, <1>n, NoRotation
<1>4. ASSUME NEW w \in Workers, NEW t \in Tokens, RefreshFind(w, t)
      PROVE  RotatedOnceWhileLive' /\ ClaimsSound'
  <2> DEFINE g == [Idle EXCEPT !.step = "owner", !.user = token[t].owner, !.token = t]
  <2>0. g.step # "issue"
    BY DEF Idle
  <2>1. PICK f : Goto(w, f) /\ f.step # "issue"
    BY <1>4, <2>0 DEF RefreshFind
  <2>2. TokensStay
    BY <1>4, <1>u DEF RefreshFind
  <2>3. QED
    BY <2>1, <2>2, <1>n, NoRotation
<1>5. ASSUME NEW w \in Workers, RefreshOwner(w)
      PROVE  RotatedOnceWhileLive' /\ ClaimsSound'
  <2>1. PICK f : Goto(w, f) /\ f.step # "issue"
    BY <1>5, <1>t DEF RefreshOwner, Done, Idle, TypeOK, Flight
  <2>2. TokensStay
    BY <1>5, <1>t, <1>k DEF RefreshOwner, TokensStay, TypeOK, TokenRow, Knows
  <2>3. QED
    BY <2>1, <2>2, <1>n, NoRotation
<1>6. ASSUME NEW w \in Workers, RefreshClaim(w)
      PROVE  RotatedOnceWhileLive' /\ ClaimsSound'
  <2> DEFINE k == flight[w].token
  <2>1. k \in Tokens /\ token[k].state = "live" /\ token[k].owner = flight[w].user
    BY <1>6, <1>k DEF RefreshClaim, Knows
  <2>2. /\ \A t \in Tokens : /\ token'[t].parent = token[t].parent
                             /\ token'[t].owner = token[t].owner
                             /\ t # k => token'[t].state = token[t].state
        /\ token'[k].state = "spent"
    BY <1>6, <1>t, <2>1 DEF RefreshClaim, TypeOK, TokenRow
  <2>3. \A t \in Tokens : token[t].parent # k
    BY <2>1, NullAssumption DEF RotationInv, RotatedOnceWhileLive
  <2>4. /\ flight'[w].token = k /\ flight'[w].user = flight[w].user
        /\ \A v \in Workers \ {w} : flight'[v] = flight[v]
    BY <1>6, <1>t DEF RefreshClaim, Goto, TypeOK, Flight
  <2>5. \A v \in Workers \ {w} : Rotating(v) => flight[v].token # k
    BY <2>1 DEF RotationInv, ClaimsSound
  <2>6. TokensStay
    BY <2>1, <2>2 DEF TokensStay
  <2>7. \A t \in Tokens : token[t].parent \in Tokens \cup {NoToken}
    BY <1>t DEF TypeOK, TokenRow
  <2>8. RotatedOnceWhileLive'
    BY <2>6, <2>7 DEF RotationInv, RotatedOnceWhileLive, TokensStay
  <2>9. ClaimsSound'
    <3> SUFFICES ASSUME NEW v \in Workers, Rotating(v)'
                 PROVE  /\ flight'[v].token \in Tokens
                        /\ token'[flight'[v].token].state = "spent"
                        /\ token'[flight'[v].token].owner = flight'[v].user
                        /\ \A t \in Tokens : token'[t].parent # flight'[v].token
                        /\ \A x \in Workers \ {v} :
                             Rotating(x)' => flight'[x].token # flight'[v].token
      BY DEF ClaimsSound
    <3>1. CASE v = w
      BY <3>1, <2>1, <2>2, <2>3, <2>4, <2>5 DEF Rotating
    <3>2. CASE v # w
      <4>1. Rotating(v)
        BY <3>2, <2>4 DEF Rotating
      <4>2. /\ flight[v].token \in Tokens
            /\ token[flight[v].token].state = "spent"
            /\ token[flight[v].token].owner = flight[v].user
            /\ \A t \in Tokens : token[t].parent # flight[v].token
            /\ \A x \in Workers \ {v} : Rotating(x) => flight[x].token # flight[v].token
        BY <4>1 DEF RotationInv, ClaimsSound
      <4>3. QED
        BY <3>2, <4>1, <4>2, <2>1, <2>2, <2>4, <2>5 DEF Rotating
    <3>3. QED
      BY <3>1, <3>2
  <2>10. QED
    BY <2>8, <2>9
<1>7. ASSUME NEW w \in Workers, NEW t \in Tokens, IssueTokens(w, t)
      PROVE  RotatedOnceWhileLive' /\ ClaimsSound'
  <2> DEFINE k == flight[w].token
  <2>1. /\ token[t].state = "unused" /\ token[t].parent = NoToken
        /\ flight[w].step = "issue"
    BY <1>7 DEF IssueTokens, Unissued
  <2>2. /\ token'[t].parent = k
        /\ token'[t].owner = flight[w].user
        /\ \A x \in Tokens \ {t} : token'[x] = token[x]
    BY <1>7, <1>t DEF IssueTokens, TypeOK
  <2>3. k # NoToken => /\ k \in Tokens
                       /\ token[k].state = "spent"
                       /\ token[k].owner = flight[w].user
                       /\ \A x \in Tokens : token[x].parent # k
                       /\ \A v \in Workers \ {w} : Rotating(v) => flight[v].token # k
    BY <2>1 DEF RotationInv, ClaimsSound, Rotating
  <2>4. \A x \in Tokens : token[x].parent \in Tokens \cup {NoToken}
    BY <1>t DEF TypeOK, TokenRow
  <2>5. /\ flight'[w] = Idle /\ ~Rotating(w)'
        /\ \A v \in Workers \ {w} : flight'[v] = flight[v]
    BY <1>7, <1>t DEF IssueTokens, Done, Goto, TypeOK, Rotating, Idle
  <2>6. \A x \in Tokens : token[x].parent # NoToken =>
          /\ x # t
          /\ token[token[x].parent].state = "spent"
          /\ token[x].parent # t
          /\ token[token[x].parent].owner = token[x].owner
          /\ \A y \in Tokens \ {x} : token[y].parent # token[x].parent
    BY <2>1 DEF RotationInv, RotatedOnceWhileLive
  <2>7. RotatedOnceWhileLive'
    <3> SUFFICES ASSUME NEW x \in Tokens, token'[x].parent # NoToken
                 PROVE  /\ token'[token'[x].parent].state = "spent"
                        /\ token'[token'[x].parent].owner = token'[x].owner
                        /\ \A y \in Tokens \ {x} : token'[y].parent # token'[x].parent
      BY DEF RotatedOnceWhileLive
    <3>1. CASE x = t
      <4>1. k # NoToken /\ k # t
        BY <3>1, <2>1, <2>2, <2>3
      <4>2. QED
        BY <3>1, <4>1, <2>2, <2>3
    <3>2. CASE x # t
      <4>1. token'[x] = token[x] /\ token[x].parent # NoToken
        BY <3>2, <2>2
      <4>2. token[x].parent \in Tokens \ {t}
        BY <4>1, <2>4, <2>6
      <4>3. token[x].parent # k
        BY <4>1, <2>3
      <4>4. QED
        BY <3>2, <4>1, <4>2, <4>3, <2>2, <2>6
    <3>3. QED
      BY <3>1, <3>2
  <2>8. ClaimsSound'
    <3> SUFFICES ASSUME NEW v \in Workers, Rotating(v)'
                 PROVE  /\ flight'[v].token \in Tokens
                        /\ token'[flight'[v].token].state = "spent"
                        /\ token'[flight'[v].token].owner = flight'[v].user
                        /\ \A x \in Tokens : token'[x].parent # flight'[v].token
                        /\ \A x \in Workers \ {v} :
                             Rotating(x)' => flight'[x].token # flight'[v].token
      BY DEF ClaimsSound
    <3>1. v # w /\ flight'[v] = flight[v] /\ Rotating(v)
      BY <2>5 DEF Rotating
    <3>2. /\ flight[v].token \in Tokens
          /\ token[flight[v].token].state = "spent"
          /\ token[flight[v].token].owner = flight[v].user
          /\ \A x \in Tokens : token[x].parent # flight[v].token
          /\ \A x \in Workers \ {v} : Rotating(x) => flight[x].token # flight[v].token
      BY <3>1 DEF RotationInv, ClaimsSound
    <3>3. flight[v].token # t /\ flight[v].token # k
      BY <2>1, <2>3, <3>1, <3>2, NullAssumption
    <3>4. \A x \in Workers \ {v} : Rotating(x)' => /\ Rotating(x)
                                                   /\ flight'[x] = flight[x]
      BY <2>5 DEF Rotating
    <3>5. QED
      BY <3>1, <3>2, <3>3, <3>4, <2>2
  <2>9. QED
    BY <2>7, <2>8
<1>8. ASSUME NEW t \in Tokens, Logout(t)
      PROVE  RotatedOnceWhileLive' /\ ClaimsSound'
  <2>1. TokensStay
    BY <1>8, <1>t DEF Logout, TokensStay, TypeOK, TokenRow
  <2>2. QED
    BY <1>8, <2>1, NoRotation DEF Logout
<1>9. ASSUME UNCHANGED vars
      PROVE  RotatedOnceWhileLive' /\ ClaimsSound'
  BY <1>9, <1>u, NoRotation DEF vars
<1>10. RotatedOnceWhileLive' /\ ClaimsSound'
  BY <1>1, <1>2, <1>3, <1>4, <1>5, <1>6, <1>7, <1>8, <1>9 DEF Next, SessionStep
<1>11. QED
  BY <1>s, <1>10 DEF RotationInv

\* Whatever requests overlap, a refresh token is rotated at most once and only
\* while it was live (AuthService.refresh: "Single winner").
THEOREM RotationIsOnce == Spec => []RotatedOnceWhileLive
<1>1. Init => RotationInv
  <2> SUFFICES ASSUME Init PROVE RotationInv
    OBVIOUS
  <2>1. \A t \in Tokens : token[t].parent = NoToken
    BY DEF Init, Unissued
  <2>2. \A w \in Workers : flight[w].step = "idle"
    BY DEF Init, Idle
  <2>3. QED
    BY <2>1, <2>2, SoundInit
       DEF RotationInv, RotatedOnceWhileLive, ClaimsSound, Rotating
<1>2. RotationInv /\ [Next]_vars => RotationInv'
  BY RotationStep
<1>3. RotationInv => RotatedOnceWhileLive
  BY DEF RotationInv
<1>4. QED
  BY <1>1, <1>2, <1>3, PTL DEF Spec

-----------------------------------------------------------------------------
(* The last active admin.                                                  *)

\* A step that writes neither roles nor status takes no admin away.
LEMMA NoneTaken ==
  ASSUME UNCHANGED <<role, active>>
  PROVE  ActiveAdmins' = ActiveAdmins
BY DEF ActiveAdmins

\* A step that writes one account only, one that is no admin's, takes none away.
LEMMA NotAnAdmin ==
  ASSUME NEW u \in Users, role[u] \in {"NONE", "CLIENT"},
         \A x \in Users \ {u} : role'[x] = role[x] /\ active'[x] = active[x]
  PROVE  ActiveAdmins \subseteq ActiveAdmins'
BY DEF ActiveAdmins

\* A request that writes its account, and with it takes the last active admin
\* away: the account was that admin, and the request had not read it as one.
LEMMA LastTaken ==
  ASSUME NEW f, f.user \in Users, NEW away \in BOOLEAN,
         f.saw /\ away => AnotherActiveAdmin(f.user),
         \A x \in Users \ {f.user} :
            role'[x] = role[x] /\ active'[x] = active[x],
         ~away /\ f.user \in ActiveAdmins => f.user \in ActiveAdmins',
         ActiveAdminRemains, ~ActiveAdminRemains'
  PROVE  ActiveAdmins = {f.user} /\ ~f.saw
<1>1. \A x \in Users \ {f.user} : x \in ActiveAdmins => x \in ActiveAdmins'
  BY DEF ActiveAdmins
<1>2. ActiveAdmins \subseteq Users
  BY DEF ActiveAdmins
<1>3. \A x \in ActiveAdmins : x = f.user
  BY <1>1, <1>2 DEF ActiveAdminRemains
<1>4. ActiveAdmins = {f.user}
  BY <1>3 DEF ActiveAdminRemains
<1>5. away
  BY <1>4 DEF ActiveAdminRemains
<1>6. ~AnotherActiveAdmin(f.user)
  BY <1>4 DEF AnotherActiveAdmin
<1>7. QED
  BY <1>4, <1>5, <1>6

LEMMA AdminStep ==
  ASSUME Sound, [Next]_vars, ActiveAdminRemains, ~ActiveAdminRemains'
  PROVE  \E w \in Workers : /\ flight[w].step \in {"writeRole", "writeStatus"}
                            /\ ActiveAdmins = {flight[w].user}
                            /\ ~flight[w].saw
<1> DEFINE Goal == \E w \in Workers :
                     /\ flight[w].step \in {"writeRole", "writeStatus"}
                     /\ ActiveAdmins = {flight[w].user}
                     /\ ~flight[w].saw
<1>t. TypeOK
  BY DEF Sound
<1>k. \A w \in Workers : flight[w] \in Flight /\ Knows(flight[w], role, token)
  BY DEF Sound, TypeOK, FlightSound
<1>n. ~(ActiveAdmins \subseteq ActiveAdmins')
  BY DEF ActiveAdminRemains
<1>1. ASSUME NEW w \in Workers, CreateStaff(w)
      PROVE  FALSE
  <2>1. flight[w].user \in Users /\ role[flight[w].user] = "NONE"
    BY <1>1, <1>k DEF CreateStaff, Knows
  <2>2. \A x \in Users \ {flight[w].user} :
          role'[x] = role[x] /\ active'[x] = active[x]
    BY <1>1, <1>t DEF CreateStaff, TypeOK
  <2>3. QED
    BY <2>1, <2>2, <1>n, NotAnAdmin
<1>2. ASSUME NEW w \in Workers, UpdateStaff(w)
      PROVE  Goal
  <2> DEFINE f == flight[w]
             away == f.role # "ADMIN"
  <2>1. f.user \in Users /\ f.step = "writeRole" /\ away \in BOOLEAN
    BY <1>2, <1>k DEF UpdateStaff, Knows
  <2>2. f.saw /\ away => AnotherActiveAdmin(f.user)
    BY <1>2 DEF UpdateStaff
  <2>3. \A x \in Users \ {f.user} : role'[x] = role[x] /\ active'[x] = active[x]
    BY <1>2, <1>t DEF UpdateStaff, TypeOK
  <2>4. ~away /\ f.user \in ActiveAdmins => f.user \in ActiveAdmins'
    BY <1>2, <1>t, <2>1 DEF UpdateStaff, ActiveAdmins, TypeOK
  <2>5. ActiveAdmins = {f.user} /\ ~f.saw
    <3> HIDE DEF away
    <3>1. QED
      BY <2>1, <2>2, <2>3, <2>4, LastTaken
  <2>6. QED
    BY <2>1, <2>5
<1>3. ASSUME NEW w \in Workers, SetStaffStatus(w)
      PROVE  Goal
  <2> DEFINE f == flight[w]
             away == ~f.to
  <2>1. f.user \in Users /\ f.step = "writeStatus" /\ f.to \in BOOLEAN
        /\ away \in BOOLEAN
    BY <1>3, <1>k DEF SetStaffStatus, Knows, Flight
  <2>2. f.saw /\ away => AnotherActiveAdmin(f.user)
    BY <1>3 DEF SetStaffStatus
  <2>3. \A x \in Users \ {f.user} : role'[x] = role[x] /\ active'[x] = active[x]
    BY <1>3, <1>t DEF SetStaffStatus, TypeOK
  <2>4. ~away /\ f.user \in ActiveAdmins => f.user \in ActiveAdmins'
    BY <1>3, <1>t, <2>1 DEF SetStaffStatus, ActiveAdmins, TypeOK
  <2>5. ActiveAdmins = {f.user} /\ ~f.saw
    <3> HIDE DEF away
    <3>1. QED
      BY <2>1, <2>2, <2>3, <2>4, LastTaken
  <2>6. QED
    BY <2>1, <2>5
<1>4. ASSUME NEW w \in Workers, NEW u \in Users, Register(w, u)
      PROVE  FALSE
  <2>1. \A x \in Users \ {u} : role'[x] = role[x] /\ active'[x] = active[x]
    BY <1>4, <1>t DEF Register, TypeOK
  <2>2. QED
    BY <1>4, <2>1, <1>n, NotAnAdmin DEF Register
<1>5. ASSUME NEW w \in Workers, CloseOwnAccount(w)
      PROVE  FALSE
  <2>1. flight[w].user \in Users /\ role[flight[w].user] = "CLIENT"
    BY <1>5, <1>k DEF CloseOwnAccount, Knows
  <2>2. \A x \in Users \ {flight[w].user} :
          role'[x] = role[x] /\ active'[x] = active[x]
    BY <1>5, <1>t DEF CloseOwnAccount, TypeOK
  <2>3. QED
    BY <2>1, <2>2, <1>n, NotAnAdmin
<1>6. ~UNCHANGED <<role, active>>
  BY <1>n, NoneTaken
<1>7. ASSUME NEW w \in Workers, StaffStep(w)
      PROVE  Goal
  <2>1. CreateStaff(w) \/ UpdateStaff(w) \/ SetStaffStatus(w)
    BY <1>6, <1>7 DEF StaffStep, CreateStaffStart, UpdateStaffStart, SetStatusStart,
                      AsAdmin, UpdateStaffRead, SetStatusRead, StaffRead
  <2>2. QED
    BY <2>1, <1>1, <1>2, <1>3
<1>8. ASSUME NEW w \in Workers, SessionStep(w)
      PROVE  Goal
  <2>1. CloseOwnAccount(w) \/ \E u \in Users : Register(w, u)
    BY <1>6, <1>8 DEF SessionStep, Login, CloseOwnAccountStart, RefreshFind,
                      IssueTokens, RefreshOwner, RefreshClaim
  <2>2. QED
    BY <2>1, <1>4, <1>5
<1>9. QED
  BY <1>6, <1>7, <1>8 DEF Next, Drop, Logout, vars

\* However requests overlap, the last active admin only goes by a request that
\* had read that account before it became an active admin
\* (assertAnotherActiveAdmin, asked for inside the transaction that writes).
THEOREM LastAdminStays == Spec => LastAdminOnlyGoesUnseen
<1>1. Init => Sound
  BY SoundInit
<1>2. Sound /\ [Next]_vars => Sound'
  BY SoundStep
<1>3. Sound /\ [Next]_vars =>
        [ActiveAdminRemains /\ ~ActiveAdminRemains' =>
           \E w \in Workers : /\ flight[w].step \in {"writeRole", "writeStatus"}
                             /\ ActiveAdmins = {flight[w].user}
                             /\ ~flight[w].saw]_vars
  BY AdminStep
<1>4. QED
  BY <1>1, <1>2, <1>3, PTL DEF Spec, LastAdminOnlyGoesUnseen

=============================================================================
