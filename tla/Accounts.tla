------------------------------ MODULE Accounts ------------------------------
(***************************************************************************)
(* User accounts, their roles and status, and the refresh tokens of their  *)
(* sessions (UsersService, AuthService).                                   *)
(*                                                                         *)
(* A request is authenticated, then reads what it decides on, then writes; *)
(* each is a statement or a transaction of its own.  The transaction that  *)
(* takes an admin away locks all active admin rows FOR UPDATE, so its      *)
(* check and its write are one step here.                                  *)
(***************************************************************************)
EXTENDS Naturals

CONSTANTS
  Users,      \* account ids, used or not yet used
  Founders,   \* the admins of the seed
  Tokens,     \* refresh tokens, issued or not yet issued
  NoUser, NoToken,
  Workers     \* slots for requests in flight at one time

ASSUME FoundersAssumption == Founders \subseteq Users /\ Founders # {}
ASSUME NullAssumption == NoUser \notin Users /\ NoToken \notin Tokens

VARIABLES
  role,    \* User.role, "NONE" while the id is unused
  active,  \* User.status = ACTIVE
  token,   \* RefreshToken rows
  flight   \* what each request in flight knows

vars == <<role, active, token, flight>>

\* STAFF stands for SALES_PERSON, STOCK_MANAGER and DATA_ANALYST.
StaffRoles == {"STAFF", "ADMIN"}
Roles == StaffRoles \cup {"CLIENT"}

\* A live token has revokedAt null; spent and revoked tell by whom it was set:
\* by the rotation that claimed it, or by a logout, closing or deactivation.
TokenRow == [state : {"unused", "live", "spent", "revoked"},
             owner : Users \cup {NoUser}, parent : Tokens \cup {NoToken}]
Unissued == [state |-> "unused", owner |-> NoUser, parent |-> NoToken]

\* user is the account acted on; role and to the requested role and status;
\* saw: findStaffById returned it as an active admin; token the refresh token
\* presented.
Idle == [step |-> "idle", user |-> NoUser, role |-> "NONE", to |-> TRUE,
         saw |-> FALSE, token |-> NoToken]
Flight == [step : {"idle", "create", "editRole", "editStatus", "writeRole",
                   "writeStatus", "close", "owner", "claim", "issue"},
           user : Users \cup {NoUser}, role : Roles \cup {"NONE"},
           to : BOOLEAN, saw : BOOLEAN, token : Tokens \cup {NoToken}]

Init ==
  /\ role = [u \in Users |-> IF u \in Founders THEN "ADMIN" ELSE "NONE"]
  /\ active = [u \in Users |-> u \in Founders]
  /\ token = [t \in Tokens |-> Unissued]
  /\ flight = [w \in Workers |-> Idle]

-----------------------------------------------------------------------------

ActiveAdmins == {u \in Users : role[u] = "ADMIN" /\ active[u]}

\* Worker w goes on with f, or is done.
Goto(w, f) == flight' = [flight EXCEPT ![w] = f]
Done(w) == Goto(w, Idle)

\* A request starts that JwtStrategy and RolesGuard admit for an active admin.
AsAdmin(w, actor, f) ==
  /\ flight[w] = Idle
  /\ actor \in ActiveAdmins
  /\ Goto(w, f)
  /\ UNCHANGED <<role, active, token>>

\* Every unrevoked token of u is revoked.
RevokeAll(u) ==
  token' = [t \in Tokens |->
              IF token[t].state = "live" /\ token[t].owner = u
                THEN [token[t] EXCEPT !.state = "revoked"] ELSE token[t]]

\* Mutant: the check sees that an admin is left, not that another one is.
AnotherActiveAdminOrSelf(u) == ActiveAdmins # {}

\* assertAnotherActiveAdmin
AnotherActiveAdmin(u) == ActiveAdmins \ {u} # {}

-----------------------------------------------------------------------------
(* Staff management by an admin.                                           *)

CreateStaffStart(w, actor, u, r) ==
  /\ role[u] = "NONE"
  /\ AsAdmin(w, actor, [Idle EXCEPT !.step = "create", !.user = u, !.role = r])

\* createStaff; a taken email or phone fails on the unique index.
CreateStaff(w) ==
  LET f == flight[w] IN
  /\ f.step = "create"
  /\ role[f.user] = "NONE"
  /\ role' = [role EXCEPT ![f.user] = f.role]
  /\ active' = [active EXCEPT ![f.user] = TRUE]
  /\ Done(w)
  /\ UNCHANGED token

UpdateStaffStart(w, actor, u, r) ==
  AsAdmin(w, actor, [Idle EXCEPT !.step = "editRole", !.user = u, !.role = r])

\* Nobody deactivates their own account.
SetStatusStart(w, actor, u, to) ==
  /\ to \/ u # actor
  /\ AsAdmin(w, actor, [Idle EXCEPT !.step = "editStatus", !.user = u, !.to = to])

\* findStaffById; the row it returned may change before the request writes.
StaffRead(w, from, next) ==
  LET f == flight[w] IN
  /\ f.step = from
  /\ role[f.user] \in StaffRoles
  /\ Goto(w, [f EXCEPT !.step = next, !.saw = f.user \in ActiveAdmins])
  /\ UNCHANGED <<role, active, token>>

UpdateStaffRead(w) == StaffRead(w, "editRole", "writeRole")

SetStatusRead(w) == StaffRead(w, "editStatus", "writeStatus")

\* demotesAdmin is decided on the row that was read; the update is by id alone.
UpdateStaff(w) ==
  LET f == flight[w] IN
  /\ f.step = "writeRole"
  /\ f.saw /\ f.role # "ADMIN" => AnotherActiveAdmin(f.user)
  /\ role' = [role EXCEPT ![f.user] = f.role]
  /\ Done(w)
  /\ UNCHANGED <<active, token>>

SetStaffStatus(w) ==
  LET f == flight[w] IN
  /\ f.step = "writeStatus"
  /\ f.saw /\ ~f.to => AnotherActiveAdmin(f.user)
  /\ active' = [active EXCEPT ![f.user] = f.to]
  /\ IF f.to THEN UNCHANGED token ELSE RevokeAll(f.user)
  /\ Done(w)
  /\ UNCHANGED role

-----------------------------------------------------------------------------
(* Customers register, sign in, and close their own accounts.              *)

\* verifyOtp completes a pending registration; the tokens come afterwards.
Register(w, u) ==
  /\ flight[w] = Idle
  /\ role[u] = "NONE"
  /\ role' = [role EXCEPT ![u] = "CLIENT"]
  /\ active' = [active EXCEPT ![u] = TRUE]
  /\ Goto(w, [Idle EXCEPT !.step = "issue", !.user = u])
  /\ UNCHANGED token

\* Mutant: the code is right, but whose account it is was not looked up.
LoginUnchecked(w, u) ==
  /\ flight[w] = Idle
  /\ Goto(w, [Idle EXCEPT !.step = "issue", !.user = u])
  /\ UNCHANGED <<role, active, token>>

\* verifyOtp of an existing account.
Login(w, u) ==
  /\ flight[w] = Idle
  /\ active[u]
  /\ Goto(w, [Idle EXCEPT !.step = "issue", !.user = u])
  /\ UNCHANGED <<role, active, token>>

CloseOwnAccountStart(w, u) ==
  /\ flight[w] = Idle
  /\ role[u] = "CLIENT" /\ active[u]
  /\ Goto(w, [Idle EXCEPT !.step = "close", !.user = u])
  /\ UNCHANGED <<role, active, token>>

\* closeOwnAccount; its admin branch is out of reach of the CLIENT-only route.
CloseOwnAccount(w) ==
  LET f == flight[w] IN
  /\ f.step = "close"
  /\ active' = [active EXCEPT ![f.user] = FALSE]
  /\ RevokeAll(f.user)
  /\ Done(w)
  /\ UNCHANGED role

-----------------------------------------------------------------------------
(* Refresh-token rotation.                                                 *)

RefreshFind(w, t) ==
  /\ flight[w] = Idle
  /\ token[t].state = "live"
  /\ Goto(w, [Idle EXCEPT !.step = "owner", !.user = token[t].owner, !.token = t])
  /\ UNCHANGED <<role, active, token>>

RefreshOwner(w) ==
  LET f == flight[w] IN
  /\ f.step = "owner"
  /\ IF active[f.user]
       THEN Goto(w, [f EXCEPT !.step = "claim"]) /\ UNCHANGED token
       ELSE /\ Done(w)
            /\ token' = [token EXCEPT ![f.token].state =
                           IF @ = "live" THEN "revoked" ELSE @]
  /\ UNCHANGED <<role, active>>

\* Mutant: the token is marked spent without asking whether it still is live.
RefreshClaimUnguarded(w) ==
  LET f == flight[w] IN
  /\ f.step = "claim"
  /\ token' = [token EXCEPT ![f.token].state = "spent"]
  /\ Goto(w, [f EXCEPT !.step = "issue"])
  /\ UNCHANGED <<role, active>>

RefreshClaim(w) ==
  LET f == flight[w] IN
  /\ f.step = "claim"
  /\ token[f.token].state = "live"
  /\ token' = [token EXCEPT ![f.token].state = "spent"]
  /\ Goto(w, [f EXCEPT !.step = "issue"])
  /\ UNCHANGED <<role, active>>

\* issueTokens, after a login, a registration or a claimed rotation.
IssueTokens(w, t) ==
  LET f == flight[w] IN
  /\ f.step = "issue"
  /\ token[t] = Unissued
  /\ token' = [token EXCEPT ![t] =
                 [state |-> "live", owner |-> f.user, parent |-> f.token]]
  /\ Done(w)
  /\ UNCHANGED <<role, active>>

Logout(t) ==
  /\ token[t].state = "live"
  /\ token' = [token EXCEPT ![t].state = "revoked"]
  /\ UNCHANGED <<role, active, flight>>

\* A request is refused, its claim matches nothing, or its process dies.
Drop(w) ==
  /\ flight[w] # Idle
  /\ Done(w)
  /\ UNCHANGED <<role, active, token>>

-----------------------------------------------------------------------------

StaffStep(w) ==
  \/ \E actor \in Users, u \in Users :
       \/ \E r \in StaffRoles : \/ CreateStaffStart(w, actor, u, r)
                                \/ UpdateStaffStart(w, actor, u, r)
       \/ \E to \in BOOLEAN : SetStatusStart(w, actor, u, to)
  \/ CreateStaff(w)
  \/ UpdateStaffRead(w)
  \/ UpdateStaff(w)
  \/ SetStatusRead(w)
  \/ SetStaffStatus(w)

SessionStep(w) ==
  \/ \E u \in Users : Register(w, u) \/ Login(w, u) \/ CloseOwnAccountStart(w, u)
  \/ CloseOwnAccount(w)
  \/ \E t \in Tokens : RefreshFind(w, t) \/ IssueTokens(w, t)
  \/ RefreshOwner(w)
  \/ RefreshClaim(w)

Next ==
  \/ \E w \in Workers : StaffStep(w) \/ SessionStep(w) \/ Drop(w)
  \/ \E t \in Tokens : Logout(t)

Spec == Init /\ [][Next]_vars

-----------------------------------------------------------------------------
(* Properties.                                                             *)

\* The variables keep their types, only accounts that exist are active, and
\* the tokens that were issued belong to accounts that exist.
TypeOK ==
  /\ role \in [Users -> Roles \cup {"NONE"}]
  /\ active \in [Users -> BOOLEAN]
  /\ token \in [Tokens -> TokenRow]
  /\ flight \in [Workers -> Flight]
  /\ \A u \in Users : active[u] => role[u] # "NONE"
  /\ \A t \in Tokens :
       token[t].state # "unused" => /\ token[t].owner \in Users
                                   /\ role[token[t].owner] # "NONE"

\* What the code says of itself (assertAnotherActiveAdmin: "The system must
\* always keep one active admin").  It can fail: see the property after it.
ActiveAdminRemains == ActiveAdmins # {}

\* However admins demote, deactivate and promote each other at the same moment,
\* the last active admin only goes by a request that had read that very account
\* before it became an active admin, so that it asked for no other one; two
\* requests that both read active admins never take the last two away
\* (updateStaff, setStaffStatus, assertAnotherActiveAdmin).
LastAdminOnlyGoesUnseen ==
  [][ActiveAdminRemains /\ ~ActiveAdminRemains' =>
       \E w \in Workers : /\ flight[w].step \in {"writeRole", "writeStatus"}
                         /\ ActiveAdmins = {flight[w].user}
                         /\ ~flight[w].saw]_vars

\* A refresh token is rotated at most once, and never after a logout, a
\* closing or a deactivation revoked it: whoever got a successor claimed it
\* while it was live (refresh).
RotatedOnceWhileLive ==
  \A t \in Tokens :
    token[t].parent # NoToken =>
      /\ token[token[t].parent].state = "spent"
      /\ token[token[t].parent].owner = token[t].owner
      /\ \A s \in Tokens \ {t} : token[s].parent # token[t].parent

\* An account that is switched off has no session left (closeOwnAccount: "the
\* account is switched off and every session revoked").
SwitchedOffHasNoSession ==
  \A t \in Tokens : token[t].state = "live" => active[token[t].owner]

=============================================================================
