----------------------------- MODULE Assistant -----------------------------
(***************************************************************************)
(* The design assistant (ChatbotService): conversations, turns with their  *)
(* recommendations, the customer's reaction to them, the log of follow-up  *)
(* questions and the previews of a tile in the customer's room, while      *)
(* staff take tiles out of the recommendations and put them back.          *)
(*                                                                         *)
(* Every step of a request is one statement of the database; the model,    *)
(* the images and their upload lie between two steps.  Texts and pictures  *)
(* are left out: an attachment is "photo", "preview" or "sorry".           *)
(***************************************************************************)
EXTENDS Integers, Sequences, FiniteSets, SequencesExt, Rows

CONSTANTS
  Workers,          \* concurrent requests
  Users, Clients,   \* those with the role CLIENT; the others are staff
  Sessions,         \* session ids that browsers make up
  Products, Floors, Walls, \* the tiles that suit a floor, a wall
  None,             \* no tile for the wall
  Switched,         \* the tiles that staff take out and put back
  Verdicts,         \* the decisions customers take
  MaxPicks, MaxConversations, MaxMessages, MaxJobs, \* bounds of the instance
  MaxNamed,         \* the messages up to which customers rename
  MaxRows, MaxDecided \* and the recommendations, and how many get a reaction

ASSUME ClientsAssumption == Clients \subseteq Users
ASSUME SuitsAssumption == Floors \union Walls = Products /\ None \notin Products
ASSUME SwitchedAssumption == Switched \subseteq Products
ASSUME VerdictsAssumption == Verdicts \subseteq {"PENDING", "ACCEPTED", "REJECTED"}
ASSUME PicksAssumption == MaxPicks \in Nat \ {0} /\ MaxConversations \in Nat

VARIABLES
  tile,      \* "shown", "excluded" (recommendationExcluded) or "inactive"
  convs,     \* ChatConversation rows
  msgs,      \* ChatMessage rows, oldest first
  recs,      \* Recommendation rows
  inquiries, \* PostRecommendationInquiry rows
  jobs,      \* ChatMediaJob rows
  flight     \* the requests in flight

vars == <<tile, convs, msgs, recs, inquiries, jobs, flight>>

\* A started conversation has a session of its own: the number of its row.
Session == Sessions \union 1 .. MaxConversations
Eligible == {p \in Products : tile[p] = "shown"}
Pick == [floor : Products, wall : Products \union {None}]
\* The cards of the reply, as the customer saw them, are history.
Message == [conv : 1 .. MaxConversations, role : {"USER", "ASSISTANT"},
            shows : {"text", "photo", "preview", "sorry"}, cards : Seq(Pick)]
Row == [msg : Nat, session : Session, user : Users, product : Products,
        rank : 1 .. MaxPicks, surface : {"NULL", "FLOOR", "WALL"},
        decision : {"PENDING", "ACCEPTED", "REJECTED"}]

\* The conversation (0: none), the session sent, whether products were asked
\* for, whether the conversation had a title, the session recommendations, the candidates, the picks
\* with their ranks, the messages of the turn, the media job, and as history
\* the tiles that have been ineligible since the reply.
Idle == [op |-> "none", step |-> "idle", user |-> CHOOSE u \in Users : TRUE, conv |-> 0,
         session |-> 0, asks |-> FALSE, titled |-> FALSE, prior |-> FALSE, candidates |-> {}, picks |-> <<>>,
         question |-> 0, reply |-> 0, job |-> 0, barred |-> {}]

Init ==
  /\ tile \in [Products -> {"shown"}]
  /\ convs = <<>> /\ msgs = <<>> /\ recs = {} /\ inquiries = {} /\ jobs = <<>>
  /\ flight = [w \in Workers |-> Idle]

Become(w, f) == flight' = [flight EXCEPT ![w] = f]
At(w, op, step) == flight[w].op = op /\ flight[w].step = step
Goto(w, step) == flight' = [flight EXCEPT ![w].step = step]
Convs == DOMAIN convs
Owned(u) == {c \in Convs : convs[c].user = u}
\* The bound on the instance: room for what the requests in flight still write.
Owes(f) == CASE f.step \in {"missing", "found", "counted"} -> 2
             [] f.step \in {"idle", "answered", "checked", "shown"} -> 0
             [] OTHER -> 1
Room(n) == Len(msgs) + n + MapThenSumSet(LAMBDA w : Owes(flight[w]), Workers) <= MaxMessages
Write(c, role, shows, cards) ==
  msgs' = Append(msgs, [conv |-> c, role |-> role, shows |-> shows, cards |-> cards])

-----------------------------------------------------------------------------
(* Conversations.                                                          *)

StartConversation(u) ==
  /\ Len(convs) < MaxConversations
  /\ convs' = Append(convs, [user |-> u, session |-> Len(convs) + 1, title |-> "default"])
  /\ UNCHANGED <<tile, msgs, recs, inquiries, jobs, flight>>

RenameConversation(u, c) ==
  /\ c \in Owned(u) /\ Len(msgs) <= MaxNamed
  /\ convs' = [convs EXCEPT ![c].title = "chosen"]
  /\ UNCHANGED <<tile, msgs, recs, inquiries, jobs, flight>>

-----------------------------------------------------------------------------
(* sendMessage.                                                            *)

\* By id (0: none sent): the conversation must be the caller's.  Otherwise any
\* one of the caller's with this session; whoever finds none creates one.
Send(w, u, s, c, asks) ==
  /\ flight[w] = Idle /\ Room(2)
  /\ \E found \in IF c # 0 THEN {c} \intersect Owned(u)
                  ELSE LET own == {d \in Owned(u) : convs[d].session = s}
                       IN IF own = {} THEN {0} ELSE own :
       /\ found = 0 => Len(convs) < MaxConversations
       /\ Become(w, [Idle EXCEPT !.op = "send", !.user = u, !.session = s, !.asks = asks,
                       !.titled = found # 0 /\ convs[found].title # "none",
                       !.conv = found, !.step = IF found = 0 THEN "missing" ELSE "found"])
  /\ UNCHANGED <<tile, convs, msgs, recs, inquiries, jobs>>

CreateConversation(w) ==
  /\ At(w, "send", "missing") /\ Len(convs) < MaxConversations
  /\ convs' = Append(convs, [user |-> flight[w].user, session |-> flight[w].session,
                             title |-> "none"])
  /\ Become(w, [flight[w] EXCEPT !.step = "found", !.conv = Len(convs')])
  /\ UNCHANGED <<tile, msgs, recs, inquiries, jobs>>

\* hadPriorRecommendations, by the session of the conversation.
CountPrior(w) ==
  /\ At(w, "send", "found")
  /\ Become(w, [flight[w] EXCEPT !.step = "counted",
       !.prior = \E r \in recs : r.session = convs[flight[w].conv].session])
  /\ UNCHANGED <<tile, convs, msgs, recs, inquiries, jobs>>

Ask(w) ==
  /\ At(w, "send", "counted")
  /\ Write(flight[w].conv, "USER", "text", <<>>)
  /\ Become(w, [flight[w] EXCEPT !.step = "asked", !.question = Len(msgs')])
  /\ UNCHANGED <<tile, convs, recs, inquiries, jobs>>

\* History and candidates; the opening message becomes the title.
Said(c) == {i \in DOMAIN msgs : msgs[i].conv = c}
Ground(w) ==
  LET f == flight[w]
  IN /\ At(w, "send", "asked")
     /\ convs' = IF ~f.titled /\ Cardinality(Said(f.conv)) = 1
                 THEN [convs EXCEPT ![f.conv].title = "opening"] ELSE convs
     /\ Become(w, [f EXCEPT !.step = "grounded", !.titled = FALSE, !.candidates = Eligible])
     /\ UNCHANGED <<tile, msgs, recs, inquiries, jobs>>

\* The provider: at most MaxPicks of the candidates, a second tile only where
\* it suits the wall and the first the floor; none when it fails.
Picks(candidates) ==
  UNION {[1 .. n -> {p \in [floor : candidates, wall : candidates \union {None}] :
            p.wall # None => /\ p.wall # p.floor
                             /\ p.wall \in Walls /\ p.floor \in Floors}] : n \in 0 .. MaxPicks}
Tiles(picks) == Len(picks) + Cardinality({i \in DOMAIN picks : picks[i].wall # None})
Answer(w) ==
  LET f == flight[w]
  IN /\ At(w, "send", "grounded")
     /\ Write(f.conv, "ASSISTANT", "text", <<>>)
     /\ \E picks \in IF f.asks THEN Picks(f.candidates) ELSE {<<>>} :
          /\ picks # <<>> => Cardinality(recs) + Tiles(picks) <= MaxRows
          /\ Become(w, [f EXCEPT !.asks = FALSE, !.reply = Len(msgs'),
            !.candidates = IF picks = <<>> THEN {} ELSE @,
            !.barred = IF picks = <<>> THEN {} ELSE Products \ Eligible,
            !.step = IF picks = <<>> THEN "shown" ELSE "answered",
            !.picks = [i \in DOMAIN picks |-> [pick |-> picks[i], rank |-> i]]])
     /\ UNCHANGED <<tile, convs, recs, inquiries, jobs>>

\* A mutant: the picks are taken as the model made them.
MutantStillEligible(picks, candidates) == picks
\* Only what is still eligible; without its wall a pick is a single tile.
StillEligible(picks, candidates) ==
  LET ok == candidates \intersect Eligible
      left == Kept(picks, {i \in DOMAIN picks : picks[i].pick.floor \in ok})
  IN [i \in DOMAIN left |->
        [left[i] EXCEPT !.pick.wall = IF @ \in ok THEN @ ELSE None]]
Recheck(w) ==
  LET kept == StillEligible(flight[w].picks, flight[w].candidates)
  IN /\ At(w, "send", "answered")
     /\ Become(w, [flight[w] EXCEPT !.picks = kept, !.candidates = {},
                     !.step = IF kept = <<>> THEN "shown" ELSE "checked"])
     /\ UNCHANGED <<tile, convs, msgs, recs, inquiries, jobs>>

\* A mutant: the two rows of a pick do not say which surface they are for.
MutantRowsOf(f) ==
  UNION {{[msg |-> f.reply, session |-> f.session, user |-> convs[f.conv].user,
           product |-> product, rank |-> p.rank, surface |-> "NULL", decision |-> "PENDING"]
          : product \in {p.pick.floor, p.pick.wall} \ {None}} : p \in ToSet(f.picks)}
\* One transaction: a row, or two rows of one rank, for every pick.
RowsOf(f) ==
  LET row(p, product, surface) ==
        [msg |-> f.reply, session |-> f.session, user |-> convs[f.conv].user,
         product |-> product, rank |-> p.rank, surface |-> surface, decision |-> "PENDING"]
  IN UNION {IF p.pick.wall = None THEN {row(p, p.pick.floor, "NULL")}
            ELSE {row(p, p.pick.floor, "FLOOR"), row(p, p.pick.wall, "WALL")}
            : p \in ToSet(f.picks)}
Persist(w) ==
  LET f == flight[w]
  IN /\ At(w, "send", "checked")
     /\ recs' = recs \union RowsOf(f)
     /\ msgs' = [msgs EXCEPT ![f.reply].cards = [i \in DOMAIN f.picks |-> f.picks[i].pick]]
     /\ Become(w, [f EXCEPT !.step = "shown", !.barred = {}])
     /\ UNCHANGED <<tile, convs, inquiries, jobs>>

\* A mutant: the turn that recommends is logged as a question as well.
MutantLogInquiry(w) ==
  LET f == flight[w]
  IN /\ At(w, "send", "shown")
     /\ inquiries' = IF f.prior /\ f.user \in Clients
                     THEN inquiries \union {[msg |-> f.question, reply |-> f.reply,
                                             user |-> f.user]}
                     ELSE inquiries
     /\ Become(w, Idle)
     /\ UNCHANGED <<tile, convs, msgs, recs, jobs>>
\* A client's question about what was recommended before is kept.
LogInquiry(w) ==
  LET f == flight[w]
  IN /\ At(w, "send", "shown")
     /\ inquiries' = IF f.prior /\ f.picks = <<>> /\ f.user \in Clients
                     THEN inquiries \union {[msg |-> f.question, reply |-> f.reply,
                                             user |-> f.user]}
                     ELSE inquiries
     /\ Become(w, Idle)
     /\ UNCHANGED <<tile, convs, msgs, recs, jobs>>

-----------------------------------------------------------------------------
(* The customer's reaction and the reloaded conversation.                  *)

\* One recommendation (setRecommendationDecision) or several at once
\* (setRecommendationDecisions): every one must be the caller's.
Decide(u, rows, d) ==
  /\ rows \subseteq recs /\ \A r \in rows : r.user = u
  /\ Cardinality(rows \union {r \in recs : r.decision # "PENDING"}) <= MaxDecided
  /\ recs' = (recs \ rows) \union {[r EXCEPT !.decision = d] : r \in rows}
  /\ UNCHANGED <<tile, convs, msgs, inquiries, jobs, flight>>

\* The rows of a message by rank; the order of a tie is the database's choice.
Batch(m) == {r \in recs : r.msg = m}
Orders(m) ==
  LET rows == Batch(m)
  IN {o \in SetToSeqs(rows) : \A i, j \in DOMAIN o : i < j => o[i].rank <= o[j].rank}
\* getHistory: one card for every rank.  The first row tagged as the wall's is
\* the wall, or else the last of several; the floor is the first other row.
Card(group) ==
  LET tagged == {i \in DOMAIN group : group[i].surface = "WALL"}
      walls == IF tagged # {} THEN {Min(tagged)}
               ELSE IF Len(group) > 1 THEN {Len(group)} ELSE {}
      others == DOMAIN group \ walls
  IN [floor |-> group[IF others # {} THEN Min(others) ELSE 1].product,
      wall |-> IF walls = {} THEN None ELSE group[Min(walls)].product]
\* The ranks stand in the order in which the rows first show them.
Group(order, rank) == Kept(order, {i \in DOMAIN order : order[i].rank = rank})
Firsts(order) == {i \in DOMAIN order : \A j \in 1 .. i - 1 : order[j].rank # order[i].rank}
History(order) ==
  LET heads == Kept(order, Firsts(order))
  IN [k \in DOMAIN heads |-> Card(Group(order, heads[k].rank))]

-----------------------------------------------------------------------------
(* generateImagePreview: a message, a job, the picture, the job's outcome, *)
(* the answer.                                                             *)

BeginPreview(w, u, c) ==
  /\ flight[w] = Idle /\ c \in Owned(u)
  /\ Room(2) /\ Len(jobs) + Cardinality({v \in Workers : At(v, "preview", "begun")}) < MaxJobs
  /\ Write(c, "USER", "photo", <<>>)
  /\ Become(w, [Idle EXCEPT !.op = "preview", !.step = "begun", !.user = u, !.conv = c])
  /\ UNCHANGED <<tile, convs, recs, inquiries, jobs>>

CreateJob(w) ==
  /\ At(w, "preview", "begun")
  /\ jobs' = Append(jobs, "PROCESSING")
  /\ Become(w, [flight[w] EXCEPT !.step = "working", !.job = Len(jobs')])
  /\ UNCHANGED <<tile, convs, msgs, recs, inquiries>>

\* No picture, or none that could be stored, is a failed job.
FinishJob(w, status) ==
  /\ At(w, "preview", "working")
  /\ jobs' = [jobs EXCEPT ![flight[w].job] = status]
  /\ Goto(w, status)
  /\ UNCHANGED <<tile, convs, msgs, recs, inquiries>>

AnswerPreview(w) ==
  LET f == flight[w]
  IN /\ f.op = "preview" /\ f.step \in {"COMPLETED", "FAILED"}
     /\ Write(f.conv, "ASSISTANT", IF f.step = "COMPLETED" THEN "preview" ELSE "sorry", <<>>)
     /\ Become(w, Idle)
     /\ UNCHANGED <<tile, convs, recs, inquiries, jobs>>

\* The process stops, or a statement fails, and leaves what was written.
Drop(w) ==
  /\ flight[w] # Idle /\ Become(w, Idle)
  /\ UNCHANGED <<tile, convs, msgs, recs, inquiries, jobs>>

-----------------------------------------------------------------------------
(* Staff: updateRecommendationExclusion, products remove and reactivate.   *)

SetTile(p, state) ==
  /\ tile' = [tile EXCEPT ![p] = state]
  /\ flight' = [w \in Workers |-> [flight[w] EXCEPT !.barred =
                  IF state = "shown" THEN @ \ {p} ELSE @]]
  /\ UNCHANGED <<convs, msgs, recs, inquiries, jobs>>
Exclude(p) == tile[p] = "shown" /\ SetTile(p, "excluded")
Allow(p) == tile[p] = "excluded" /\ SetTile(p, "shown")
RemoveTile(p) == tile[p] # "inactive" /\ SetTile(p, "inactive")
Reactivate(p) == tile[p] = "inactive" /\ SetTile(p, "excluded")

-----------------------------------------------------------------------------
SendStep(w) ==
  \/ \E u \in Users, s \in Sessions, c \in {0} \union Convs, asks \in BOOLEAN : Send(w, u, s, c, asks)
  \/ CreateConversation(w) \/ CountPrior(w) \/ Ask(w) \/ Ground(w) \/ Answer(w)
  \/ Recheck(w) \/ Persist(w) \/ LogInquiry(w)
PreviewStep(w) ==
  \/ \E u \in Users, c \in Convs : BeginPreview(w, u, c)
  \/ CreateJob(w) \/ AnswerPreview(w)
  \/ \E status \in {"COMPLETED", "FAILED"} : FinishJob(w, status)
CustomerStep ==
  \E u \in Users : \/ StartConversation(u)
                   \/ \E c \in Convs : RenameConversation(u, c)
                   \/ \E r \in recs, d \in Verdicts : Decide(u, {r}, d)
                   \/ \E m \in DOMAIN msgs, d \in Verdicts :
                        Batch(m) # {} /\ Decide(u, Batch(m), d)
StaffStep == \E p \in Switched : Exclude(p) \/ Allow(p) \/ RemoveTile(p) \/ Reactivate(p)
Next ==
  \/ \E w \in Workers : SendStep(w) \/ PreviewStep(w) \/ Drop(w)
  \/ CustomerStep \/ StaffStep

Spec == Init /\ [][Next]_vars

-----------------------------------------------------------------------------
(* Properties.                                                             *)

\* Every variable keeps its type; a request only works in a conversation of its
\* own user (resolveOwnedConversation), and a recommendation belongs to the
\* customer of the conversation whose assistant made it.
TypeOK ==
  /\ tile \in [Products -> {"shown", "excluded", "inactive"}]
  /\ \A c \in Convs : convs[c] \in [user : Users, session : Session,
                                   title : {"none", "default", "opening", "chosen"}]
  /\ \A i \in DOMAIN msgs : msgs[i] \in Message /\ msgs[i].conv \in Convs
  /\ \A r \in recs : r \in Row /\ r.msg \in DOMAIN msgs /\ msgs[r.msg].role = "ASSISTANT"
                     /\ r.user = convs[msgs[r.msg].conv].user
  /\ \A j \in DOMAIN jobs : jobs[j] \in {"PROCESSING", "COMPLETED", "FAILED"}
  /\ \A w \in Workers : LET f == flight[w]
                        IN /\ f.op \in {"none", "send", "preview"}
                           /\ f.conv # 0 => f.conv \in Owned(f.user)
                           /\ ToSet(f.picks) \subseteq [pick : Pick, rank : 1 .. MaxPicks]

\* A reloaded conversation shows the very cards the customer was shown live, in
\* whatever order the database returns the two rows of a floor and wall pick
\* (getHistory and the surface tag of persistAndResolveRecommendations).
HistoryIsWhatWasShown ==
  \A m \in {r.msg : r \in recs} \union {m \in DOMAIN msgs : msgs[m].cards # <<>>} :
    \A o \in Orders(m) : History(o) = msgs[m].cards

\* A tile that was out of the recommendations when the model answered, and has
\* been ever since, is not saved as a recommendation, floor or wall: the check
\* before the images are made sees every exclusion of that time.
BarredStaysOut ==
  \A w \in Workers : At(w, "send", "checked") =>
    \A p \in ToSet(flight[w].picks) : {p.pick.floor, p.pick.wall} \intersect flight[w].barred = {}

\* The follow-up questions that marketing reads were asked by a client after
\* somebody in the same browser session had been recommended something, and
\* their own answer was no new recommendation.
InquiriesAreFollowUps ==
  \A q \in inquiries :
    /\ q.user \in Clients /\ q.user = convs[msgs[q.msg].conv].user
    /\ msgs[q.reply].cards = <<>> /\ Batch(q.reply) = {}
    /\ \E r \in recs : r.msg < q.msg /\ r.session = convs[msgs[q.msg].conv].session
=============================================================================
