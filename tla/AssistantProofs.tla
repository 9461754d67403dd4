-------------------------- MODULE AssistantProofs --------------------------
(***************************************************************************)
(* Theorems of Assistant: a reloaded conversation shows what was shown, a  *)
(* tile that staff took out is not saved, and the follow-up questions are  *)
(* what marketing takes them for.  They follow from one inductive          *)
(* invariant, the conjunction of the parts below.                          *)
(***************************************************************************)
EXTENDS Assistant, FiniteSetTheorems, SequenceTheorems, WellFoundedInduction, TLAPS

Conversation == [user : Users, session : Session,
                 title : {"none", "default", "opening", "chosen"}]
Ranked == [pick : Pick, rank : 1 .. MaxPicks]
Inquiry == [msg : Nat, reply : Nat, user : Users]
Steps == {"idle", "missing", "found", "counted", "asked", "grounded", "answered", "checked", "shown",
          "begun", "working", "COMPLETED", "FAILED"}
Flight == [op : {"none", "send", "preview"}, step : Steps, user : Users \union {Idle.user},
           conv : Nat, session : Sessions \union {0}, asks : BOOLEAN, titled : BOOLEAN,
           prior : BOOLEAN, candidates : SUBSET Products, picks : Seq(Ranked),
           question : Nat, reply : Nat, job : Nat, barred : SUBSET Products]

\* The steps of a turn from the question on, and from the answer on.
Asked == {"asked", "grounded", "answered", "checked", "shown"}
Replied == {"answered", "checked", "shown"}
Prior == {"counted"} \union Asked
Sending(f, steps) == f.op = "send" /\ f.step \in steps

Typed ==
  /\ tile \in [Products -> {"shown", "excluded", "inactive"}]
  /\ convs \in Seq(Conversation) /\ Len(convs) <= MaxConversations
  /\ msgs \in Seq(Message)
  /\ recs \in SUBSET Row
  /\ IsFiniteSet(recs)
  /\ inquiries \in SUBSET Inquiry
  /\ jobs \in Seq({"PROCESSING", "COMPLETED", "FAILED"})
  /\ flight \in [Workers -> Flight]

\* Every message stands in a conversation, and every recommendation hangs on a
\* message of the assistant in a conversation of its customer.
RowsStand ==
  /\ \A i \in DOMAIN msgs : msgs[i].conv \in DOMAIN convs
  /\ \A r \in recs : /\ r.msg \in DOMAIN msgs
                     /\ msgs[r.msg].role = "ASSISTANT"
                     /\ r.user = convs[msgs[r.msg].conv].user

\* A request works in a conversation of its user.
Owns(f) ==
  /\ f.conv # 0 => f.conv \in DOMAIN convs /\ convs[f.conv].user = f.user
  /\ f.op = "send" => f.user \in Users /\ f.session \in Sessions
  /\ Sending(f, Prior \union {"found"}) => f.conv # 0
  /\ f.op = "preview" => f.conv # 0

\* Its question and its reply are messages of that conversation.
Talks(f) ==
  /\ Sending(f, Asked) => f.question \in DOMAIN msgs /\ msgs[f.question].conv = f.conv
  /\ Sending(f, Replied) => /\ f.reply \in DOMAIN msgs
                            /\ msgs[f.reply].conv = f.conv
                            /\ msgs[f.reply].role = "ASSISTANT"

\* What hadPriorRecommendations saw was there before the question.
Saw(f) ==
  /\ Sending(f, Prior) /\ f.prior => \E r \in recs : r.session = convs[f.conv].session
  /\ Sending(f, Asked) /\ f.prior =>
       \E r \in recs : r.msg < f.question /\ r.session = convs[f.conv].session

\* Nothing is shown under the message m.
Bare(m) == msgs[m].cards = <<>> /\ Batch(m) = {}

\* A reply has no cards before its picks are saved, and never without picks.
Waits(f) ==
  /\ Sending(f, {"answered", "checked"}) => Bare(f.reply)
  /\ Sending(f, {"shown"}) /\ f.picks = <<>> => Bare(f.reply)

\* There are picks to save once they are checked.
Checked(f) == Sending(f, {"checked"}) => f.picks # <<>>

\* The ranks of the picks ascend.
Ascend(f) == \A m, n \in DOMAIN f.picks : m < n => f.picks[m].rank < f.picks[n].rank

\* A barred tile is ineligible, and out of the picks once they are checked.
Barred(f) ==
  /\ f.barred \intersect Eligible = {}
  /\ Sending(f, {"checked"}) =>
       \A n \in DOMAIN f.picks : f.picks[n].pick.floor \notin f.barred
                              /\ f.picks[n].pick.wall \notin f.barred

Stands(f) ==
  Owns(f) /\ Talks(f) /\ Saw(f) /\ Waits(f) /\ Checked(f) /\ Ascend(f) /\ Barred(f)
FlightsStand == \A w \in Workers : Stands(flight[w])

\* No two turns have one reply.
RepliesDiffer ==
  \A v, w \in Workers : v # w /\ Sending(flight[v], Replied) /\ Sending(flight[w], Replied)
                          => flight[v].reply # flight[w].reply

\* What is known of a logged question.
FollowsUp(q) ==
  /\ q.user \in Clients
  /\ q.msg \in DOMAIN msgs /\ q.user = convs[msgs[q.msg].conv].user
  /\ q.reply \in DOMAIN msgs /\ Bare(q.reply)
  /\ \E r \in recs : r.msg < q.msg /\ r.session = convs[msgs[q.msg].conv].session
  /\ \A w \in Workers : Sending(flight[w], {"answered", "checked"}) => flight[w].reply # q.reply
InquiriesStand == \A q \in inquiries : FollowsUp(q)

\* The rows of one card: one row without a surface, or one for each surface.
OneRow(G, card) ==
  card.wall = None /\ \E a : G = {a} /\ a.surface = "NULL" /\ a.product = card.floor
TwoRows(G, card) ==
  /\ card.wall # None
  /\ \E a, b : G = {a, b} /\ a.surface = "FLOOR" /\ b.surface = "WALL"
                          /\ a.product = card.floor /\ b.product = card.wall
OfCard(G, card) == OneRow(G, card) \/ TwoRows(G, card)

WithRank(rows, rank) == {r \in rows : r.rank = rank}

\* The ranks of a message's cards ascend, and the rows of a rank are its card's.
RankedBy(m, ranks) ==
  /\ \A i, j \in DOMAIN ranks : i < j => ranks[i] < ranks[j]
  /\ \A r \in Batch(m) : \E n \in DOMAIN ranks : r.rank = ranks[n]
  /\ \A n \in DOMAIN ranks : OfCard(WithRank(Batch(m), ranks[n]), msgs[m].cards[n])
CardsStand ==
  \A m \in DOMAIN msgs : \E ranks \in [DOMAIN msgs[m].cards -> 1 .. MaxPicks] : RankedBy(m, ranks)

IInv == Typed /\ RowsStand /\ FlightsStand /\ RepliesDiffer /\ InquiriesStand /\ CardsStand

-----------------------------------------------------------------------------
(* What every step keeps.                                                  *)

\* Rows are only added; users and sessions, a message's conversation and role,
\* and that a session was recommended something stay as they are.
Growth ==
  /\ \A c \in DOMAIN convs : /\ c \in DOMAIN convs'
                             /\ convs'[c].user = convs[c].user
                             /\ convs'[c].session = convs[c].session
  /\ \A i \in DOMAIN msgs : /\ i \in DOMAIN msgs'
                            /\ msgs'[i].conv = msgs[i].conv
                            /\ msgs'[i].role = msgs[i].role
  /\ \A r \in recs : \E q \in recs' : q.msg = r.msg /\ q.session = r.session
KeepsBare(m) == Bare(m) => Bare(m)'

LEMMA StandsKeeps ==
  ASSUME NEW f \in Flight, NEW g \in Flight, Stands(f), Growth,
         g = [f EXCEPT !.barred = g.barred], g.barred \subseteq f.barred,
         (g.barred \intersect Eligible = {})',
         RowsStand,
         Sending(f, Replied) => KeepsBare(f.reply)
  PROVE  Stands(g)'
<1>1. Owns(g)'
  <2>1. Owns(f)
    BY DEF Stands
  <2> QED BY <2>1 DEF Owns, Sending, Growth, Flight
<1>2. Talks(g)'
  <2>1. Talks(f)
    BY DEF Stands
  <2> QED BY <2>1 DEF Talks, Sending, Growth, Flight
<1>3. Saw(g)'
  <2>1. Saw(f) /\ Owns(f)
    BY DEF Stands
  <2> QED BY <2>1 DEF Saw, Owns, Sending, Growth, Flight, Prior, Asked
<1>4. Waits(g)'
  <2>1. Waits(f)
    BY DEF Stands
  <2>2. Sending(g, {"answered", "checked"})' => Bare(g.reply)'
    BY <2>1 DEF Waits, Sending, KeepsBare, Flight, Replied, Bare, Batch
  <2>3. (Sending(g, {"shown"}) /\ g.picks = <<>>)' => Bare(g.reply)'
    BY <2>1 DEF Waits, Sending, KeepsBare, Flight, Replied, Bare, Batch
  <2> QED BY <2>2, <2>3 DEF Waits
<1>5. Ascend(g)' /\ Checked(g)'
  BY DEF Stands, Ascend, Checked, Sending, Flight
<1>6. Barred(g)'
  <2>1. Barred(f)
    BY DEF Stands
  <2>2. (g.barred \intersect Eligible = {})'
    OBVIOUS
  <2>3. ASSUME Sending(g, {"checked"})'
        PROVE  (\A n \in DOMAIN g.picks : g.picks[n].pick.floor \notin g.barred
                              /\ g.picks[n].pick.wall \notin g.barred)'
    BY <2>1, <2>3 DEF Barred, Sending, Flight
  <2> QED BY <2>2, <2>3 DEF Barred
<1> QED BY <1>1, <1>2, <1>3, <1>4, <1>5, <1>6 DEF Stands

\* What is known of the record of a request is known of the request.
LEMMA StandsThere ==
  ASSUME NEW w \in Workers, NEW g, flight'[w] = g, Stands(g)'
  PROVE  Stands(flight[w])'
<1>1. (Owns(flight[w]) /\ Talks(flight[w]) /\ Saw(flight[w]))'
  BY DEF Stands, Owns, Talks, Saw, Sending
<1>2. (Waits(flight[w]) /\ Checked(flight[w]) /\ Ascend(flight[w]) /\ Barred(flight[w]))'
  BY DEF Stands, Waits, Checked, Ascend, Barred, Sending, Bare, Batch
<1> QED BY <1>1, <1>2 DEF Stands

LEMMA FollowsKeeps ==
  ASSUME NEW q, FollowsUp(q), Growth, RowsStand, KeepsBare(q.reply),
         \A w \in Workers : Sending(flight'[w], {"answered", "checked"}) => flight'[w].reply # q.reply
  PROVE  FollowsUp(q)'
<1>1. (q.user \in Clients /\ q.msg \in DOMAIN msgs /\ q.user = convs[msgs[q.msg].conv].user)'
  BY DEF FollowsUp, Growth, RowsStand
<1>2. (q.reply \in DOMAIN msgs)'
  BY DEF FollowsUp, Growth
<1>3. Bare(q.reply)'
  BY DEF FollowsUp, KeepsBare
<1>4. (\E r \in recs : r.msg < q.msg /\ r.session = convs[msgs[q.msg].conv].session)'
  BY DEF FollowsUp, Growth, RowsStand
<1>5. (\A w \in Workers : Sending(flight[w], {"answered", "checked"}) => flight[w].reply # q.reply)'
  BY DEF Sending
<1> QED BY <1>1, <1>2, <1>3, <1>4, <1>5 DEF FollowsUp

\* One request moves on.
LEMMA OneMoves ==
  ASSUME Typed, RowsStand, FlightsStand, RepliesDiffer, InquiriesStand, Growth, tile' = tile,
         NEW w \in Workers, NEW g \in Flight, flight' = [flight EXCEPT ![w] = g], Stands(g)',
         \A v \in Workers \ {w} : Sending(flight[v], Replied) =>
           KeepsBare(flight[v].reply) /\ (Sending(g, Replied) => flight[v].reply # g.reply),
         \A q \in inquiries : /\ KeepsBare(q.reply)
                              /\ Sending(g, {"answered", "checked"}) => g.reply # q.reply,
         \A q \in inquiries' : q \in inquiries \/ FollowsUp(q)'
  PROVE  FlightsStand' /\ RepliesDiffer' /\ InquiriesStand'
<1>1. /\ \A v \in Workers : flight[v] \in Flight
      /\ flight'[w] = g /\ \A v \in Workers : v # w => flight'[v] = flight[v]
  BY DEF Typed
<1>2. ASSUME NEW v \in Workers PROVE Stands(flight[v])'
  <2>1. CASE v = w
    BY <1>1, <2>1, StandsThere
  <2>2. CASE v # w
    <3>1. PICK f : f = flight[v] /\ f \in Flight
      BY <1>1
    <3>2. flight'[v] = f
      BY <1>1, <2>2, <3>1
    <3>3. Stands(f)
      BY <3>1 DEF FlightsStand, Stands, Owns, Talks, Saw, Waits, Checked, Ascend, Barred
    <3>4. f = [f EXCEPT !.barred = f.barred]
      BY <3>1 DEF Flight
    <3>5. (f.barred \intersect Eligible = {})'
      BY <3>3 DEF Stands, Barred, Eligible
    <3>6. Sending(f, Replied) => KeepsBare(f.reply)
      BY <2>2, <3>1 DEF Sending, KeepsBare, Bare, Batch
    <3>7. Stands(f)'
      BY <3>1, <3>3, <3>4, <3>5, <3>6, StandsKeeps
    <3> QED BY <3>2, <3>7, StandsThere
  <2> QED BY <2>1, <2>2
<1>3. FlightsStand'
  BY <1>2 DEF FlightsStand
<1>4. RepliesDiffer'
  BY <1>1 DEF RepliesDiffer, Sending
<1>5. ASSUME NEW q \in inquiries, q \in inquiries' PROVE FollowsUp(q)'
  <2>1. FollowsUp(q)
    BY DEF InquiriesStand
  <2>2. \A v \in Workers : Sending(flight'[v], {"answered", "checked"}) => flight'[v].reply # q.reply
    BY <1>1, <2>1 DEF FollowsUp, Sending
  <2> QED BY <2>1, <2>2, FollowsKeeps
<1>6. InquiriesStand'
  BY <1>5 DEF InquiriesStand
<1> QED BY <1>3, <1>4, <1>6

\* No request moves on.
LEMMA NoneMoves ==
  ASSUME Typed, RowsStand, FlightsStand, RepliesDiffer, InquiriesStand, Growth,
         UNCHANGED <<tile, flight, inquiries>>, \A m \in DOMAIN msgs : KeepsBare(m)
  PROVE  FlightsStand' /\ RepliesDiffer' /\ InquiriesStand'
<1>1. \A v \in Workers : flight[v] \in Flight /\ flight'[v] = flight[v]
  BY DEF Typed
<1>2. ASSUME NEW v \in Workers PROVE Stands(flight[v])'
  <2>1. PICK f : f = flight[v] /\ f \in Flight
    BY <1>1
  <2>2. Stands(f)
    BY <2>1 DEF FlightsStand, Stands, Owns, Talks, Saw, Waits, Checked, Ascend, Barred
  <2>3. f = [f EXCEPT !.barred = f.barred]
    BY <2>1 DEF Flight
  <2>4. (f.barred \intersect Eligible = {})'
    BY <2>2 DEF Stands, Barred, Eligible
  <2>5. Sending(f, Replied) => KeepsBare(f.reply)
    BY <2>2 DEF Stands, Talks
  <2>6. Stands(f)'
    BY <2>1, <2>2, <2>3, <2>4, <2>5, StandsKeeps
  <2> QED BY <1>1, <2>1, <2>6, StandsThere
<1>3. FlightsStand'
  BY <1>2 DEF FlightsStand
<1>4. RepliesDiffer'
  BY DEF RepliesDiffer, Sending
<1>5. ASSUME NEW q \in inquiries PROVE FollowsUp(q)'
  <2>1. FollowsUp(q)
    BY DEF InquiriesStand
  <2>2. \A v \in Workers : Sending(flight'[v], {"answered", "checked"}) => flight'[v].reply # q.reply
    BY <1>1, <2>1 DEF FollowsUp, Sending
  <2>3. KeepsBare(q.reply)
    BY <2>1 DEF FollowsUp
  <2> QED BY <2>1, <2>2, <2>3, FollowsKeeps
<1>6. InquiriesStand'
  BY <1>5 DEF InquiriesStand
<1> QED BY <1>3, <1>4, <1>6

-----------------------------------------------------------------------------
(* Steps that leave the recommendations alone.                             *)

\* The cards of a message match its rows when the primed ones do.
LEMMA RankedThen ==
  ASSUME NEW m, NEW ranks, NEW rows, NEW cards,
         {r \in recs' : r.msg = m} = rows, msgs'[m].cards = cards,
         \A i, j \in DOMAIN ranks : i < j => ranks[i] < ranks[j],
         \A r \in rows : \E n \in DOMAIN ranks : r.rank = ranks[n],
         \A n \in DOMAIN ranks : OfCard(WithRank(rows, ranks[n]), cards[n])
  PROVE  RankedBy(m, ranks)'
<1>1. Batch(m)' = rows
  BY DEF Batch
<1>2. (\A r \in Batch(m) : \E n \in DOMAIN ranks : r.rank = ranks[n])'
  BY <1>1
<1>3. ASSUME NEW n \in DOMAIN ranks
      PROVE  OfCard(WithRank(Batch(m), ranks[n]), msgs[m].cards[n])'
  <2>1. OfCard(WithRank(Batch(m)', ranks[n]), msgs'[m].cards[n])
    BY <1>1
  <2> QED BY <2>1 DEF OfCard, OneRow, TwoRows
<1> QED BY <1>2, <1>3 DEF RankedBy

LEMMA SameRanks ==
  ASSUME NEW m, NEW ranks, RankedBy(m, ranks), msgs'[m] = msgs[m], Batch(m)' = Batch(m)
  PROVE  RankedBy(m, ranks)'
<1>1. PICK rows, cards : rows = Batch(m) /\ cards = msgs[m].cards
  OBVIOUS
<1>2. {r \in recs' : r.msg = m} = rows /\ msgs'[m].cards = cards
  BY <1>1 DEF Batch
<1>3. \A i, j \in DOMAIN ranks : i < j => ranks[i] < ranks[j]
  BY DEF RankedBy
<1>4. \A r \in rows : \E n \in DOMAIN ranks : r.rank = ranks[n]
  BY <1>1 DEF RankedBy
<1>5. \A n \in DOMAIN ranks : OfCard(WithRank(rows, ranks[n]), cards[n])
  BY <1>1 DEF RankedBy
<1> QED BY <1>2, <1>3, <1>4, <1>5, RankedThen

LEMMA Quiet ==
  ASSUME Typed, RowsStand, CardsStand, UNCHANGED <<msgs, recs>>,
         \A c \in DOMAIN convs : /\ c \in DOMAIN convs'
                                 /\ convs'[c].user = convs[c].user
                                 /\ convs'[c].session = convs[c].session
  PROVE  RowsStand' /\ CardsStand' /\ Growth /\ \A m : KeepsBare(m)
<1>1. RowsStand'
  BY DEF RowsStand
<1>2. CardsStand'
  BY DEF CardsStand, RankedBy, WithRank, Batch, OfCard, OneRow, TwoRows
<1>3. Growth
  BY DEF Growth
<1>4. \A m : KeepsBare(m)
  BY DEF KeepsBare, Bare, Batch
<1> QED BY <1>1, <1>2, <1>3, <1>4

\* A message is written: it has no cards, and no recommendation hangs on it.
LEMMA Writes ==
  ASSUME Typed, RowsStand, CardsStand, UNCHANGED <<convs, recs>>,
         NEW c \in DOMAIN convs, NEW role \in {"USER", "ASSISTANT"},
         NEW shows \in {"text", "photo", "preview", "sorry"}, Write(c, role, shows, <<>>),
         NEW n, n = Len(msgs')
  PROVE  /\ (msgs \in Seq(Message))' /\ RowsStand' /\ CardsStand' /\ Growth
         /\ \A m \in DOMAIN msgs : KeepsBare(m)
         /\ n \notin DOMAIN msgs /\ n \in DOMAIN msgs' /\ n \in Nat
         /\ \A i \in DOMAIN msgs : i < n
         /\ msgs'[n].conv = c /\ msgs'[n].role = role
         /\ Bare(n)'
<1> DEFINE new == [conv |-> c, role |-> role, shows |-> shows, cards |-> <<>>]
<1>1. /\ msgs' = Append(msgs, new) /\ msgs \in Seq(Message)
      /\ new.conv = c /\ new.role = role /\ new.cards = <<>>
  BY DEF Write, Typed
<1>2. new \in Message
  <2>1. c \in 1 .. MaxConversations
    BY PicksAssumption, LenProperties DEF Typed
  <2>2. <<>> \in Seq(Pick)
    OBVIOUS
  <2> QED BY <2>1, <2>2 DEF Message
<1> HIDE DEF new
<1>3. /\ msgs' \in Seq(Message) /\ Len(msgs) \in Nat /\ DOMAIN msgs = 1 .. Len(msgs)
      /\ n = Len(msgs) + 1 /\ DOMAIN msgs' = 1 .. n /\ msgs'[n] = new
      /\ \A i \in DOMAIN msgs : msgs'[i] = msgs[i]
  BY <1>1, <1>2, AppendProperties, LenProperties
<1>4. n \notin DOMAIN msgs /\ n \in DOMAIN msgs' /\ n \in Nat /\ \A i \in DOMAIN msgs : i < n
  BY <1>3
<1>5. \A m : Batch(m)' = Batch(m)
  BY DEF Batch
<1>6. Batch(n)' = {}
  BY <1>4, <1>5 DEF Batch, RowsStand
<1>7. Bare(n)'
  BY <1>1, <1>3, <1>6 DEF Bare, Batch
<1>8. \A m \in DOMAIN msgs : KeepsBare(m)
  BY <1>3, <1>5 DEF KeepsBare, Bare
<1>9. Growth
  BY <1>3 DEF Growth
<1>10. RowsStand'
  BY <1>1, <1>3 DEF RowsStand
<1>11. CardsStand'
  <2>1. ASSUME NEW m \in DOMAIN msgs
        PROVE  (\E ranks \in [DOMAIN msgs[m].cards -> 1 .. MaxPicks] : RankedBy(m, ranks))'
    <3>1. PICK ranks \in [DOMAIN msgs[m].cards -> 1 .. MaxPicks] : RankedBy(m, ranks)
      BY DEF CardsStand
    <3>2. msgs'[m] = msgs[m] /\ Batch(m)' = Batch(m)
      BY <1>3, <1>5
    <3>3. RankedBy(m, ranks)'
      BY <3>1, <3>2, SameRanks
    <3> QED BY <3>1, <3>2, <3>3
  <2>2. (\E ranks \in [DOMAIN msgs[n].cards -> 1 .. MaxPicks] : RankedBy(n, ranks))'
    <3>1. DOMAIN <<>> = {} /\ <<>> \in [{} -> 1 .. MaxPicks]
      OBVIOUS
    <3>2. DOMAIN msgs'[n].cards = {}
      BY <1>1, <1>3, <3>1
    <3>3. RankedBy(n, <<>>)'
      <4>1. Batch(n)' = {} /\ DOMAIN <<>> = {}
        BY <1>6, <3>1
      <4> QED BY <4>1 DEF RankedBy
    <3> QED BY <3>1, <3>2, <3>3
  <2>3. \A m \in DOMAIN msgs' : m \in DOMAIN msgs \/ m = n
    BY <1>3
  <2> QED BY <2>1, <2>2, <2>3 DEF CardsStand
<1> QED BY <1>1, <1>3, <1>4, <1>7, <1>8, <1>9, <1>10, <1>11

\* One request moves on, and no message and no recommendation is written.
LEMMA QuietMove ==
  ASSUME IInv, UNCHANGED <<tile, msgs, recs>>,
         \A c \in DOMAIN convs : /\ c \in DOMAIN convs'
                                 /\ convs'[c].user = convs[c].user
                                 /\ convs'[c].session = convs[c].session,
         NEW w \in Workers, NEW f, f = flight[w], NEW g \in Flight,
         flight' = [flight EXCEPT ![w] = g], Stands(g)',
         Sending(g, Replied) => Sending(f, Replied) /\ g.reply = f.reply,
         Sending(g, {"answered", "checked"}) => Sending(f, {"answered", "checked"}),
         \A q \in inquiries' : q \in inquiries \/ FollowsUp(q)'
  PROVE  RowsStand' /\ FlightsStand' /\ RepliesDiffer' /\ InquiriesStand' /\ CardsStand'
<1>1. Typed /\ RowsStand /\ FlightsStand /\ RepliesDiffer /\ InquiriesStand /\ CardsStand
  BY DEF IInv
<1>2. RowsStand' /\ CardsStand' /\ Growth /\ \A m : KeepsBare(m)
  BY <1>1, Quiet
<1>3. \A v \in Workers \ {w} : Sending(flight[v], Replied) =>
        KeepsBare(flight[v].reply) /\ (Sending(g, Replied) => flight[v].reply # g.reply)
  <2> TAKE v \in Workers \ {w}
  <2>1. KeepsBare(flight[v].reply)
    <3>1. PICK m : m = flight[v].reply
      OBVIOUS
    <3>2. KeepsBare(m)
      BY <1>2
    <3> QED BY <3>1, <3>2 DEF KeepsBare, Bare, Batch
  <2>2. Sending(flight[v], Replied) /\ Sending(flight[w], Replied) => flight[v].reply # flight[w].reply
    BY <1>1 DEF RepliesDiffer
  <2> QED BY <2>1, <2>2
<1>4. \A q \in inquiries : /\ KeepsBare(q.reply)
                           /\ Sending(g, {"answered", "checked"}) => g.reply # q.reply
  <2> TAKE q \in inquiries
  <2>1. FollowsUp(q)
    BY <1>1 DEF InquiriesStand
  <2>2. Sending(flight[w], {"answered", "checked"}) => flight[w].reply # q.reply
    BY <2>1 DEF FollowsUp
  <2>3. Sending(g, {"answered", "checked"}) => Sending(g, Replied)
    BY DEF Sending, Replied
  <2> QED BY <1>2, <2>2, <2>3
<1>5. FlightsStand' /\ RepliesDiffer' /\ InquiriesStand'
  BY <1>1, <1>2, <1>3, <1>4, OneMoves
<1> QED BY <1>2, <1>5

\* One request moves on and writes a message, its reply or another.
LEMMA WriteMove ==
  ASSUME IInv, UNCHANGED <<tile, convs, recs, inquiries>>,
         NEW c \in DOMAIN convs, NEW role \in {"USER", "ASSISTANT"},
         NEW shows \in {"text", "photo", "preview", "sorry"}, Write(c, role, shows, <<>>),
         NEW n, n = Len(msgs'),
         NEW w \in Workers, NEW g \in Flight, flight' = [flight EXCEPT ![w] = g], Stands(g)',
         Sending(g, Replied) => g.reply = n
  PROVE  RowsStand' /\ FlightsStand' /\ RepliesDiffer' /\ InquiriesStand' /\ CardsStand'
<1>1. Typed /\ RowsStand /\ FlightsStand /\ RepliesDiffer /\ InquiriesStand /\ CardsStand
  BY DEF IInv
<1>2. RowsStand' /\ CardsStand' /\ Growth /\ (\A m \in DOMAIN msgs : KeepsBare(m))
      /\ n \notin DOMAIN msgs
  BY <1>1, Writes
<1>3. \A v \in Workers \ {w} : Sending(flight[v], Replied) =>
        KeepsBare(flight[v].reply) /\ (Sending(g, Replied) => flight[v].reply # g.reply)
  <2> SUFFICES ASSUME NEW v \in Workers \ {w}, Sending(flight[v], Replied)
               PROVE  KeepsBare(flight[v].reply) /\ flight[v].reply # n
    OBVIOUS
  <2>1. PICK m : m = flight[v].reply
    OBVIOUS
  <2>2. m \in DOMAIN msgs
    BY <1>1, <2>1 DEF FlightsStand, Stands, Talks
  <2>3. KeepsBare(m)
    BY <1>2, <2>2
  <2> QED BY <1>2, <2>1, <2>2, <2>3 DEF KeepsBare, Bare, Batch
<1>4. \A q \in inquiries : /\ KeepsBare(q.reply)
                           /\ Sending(g, {"answered", "checked"}) => g.reply # q.reply
  <2> TAKE q \in inquiries
  <2>1. q.reply \in DOMAIN msgs
    BY <1>1 DEF InquiriesStand, FollowsUp
  <2>2. Sending(g, {"answered", "checked"}) => Sending(g, Replied)
    BY DEF Sending, Replied
  <2> QED BY <1>2, <2>1, <2>2
<1>5. FlightsStand' /\ RepliesDiffer' /\ InquiriesStand'
  BY <1>1, <1>2, <1>3, <1>4, OneMoves
<1> QED BY <1>2, <1>5

-----------------------------------------------------------------------------
(* The steps of a turn.                                                    *)

LEMMA IdleFlies == Idle \in Flight
<1>1. PICK u : u = CHOOSE v \in Users : TRUE
  OBVIOUS
<1>2. <<>> \in Seq(Ranked)
  OBVIOUS
<1>3. Idle = [op |-> "none", step |-> "idle", user |-> u, conv |-> 0,
         session |-> 0, asks |-> FALSE, titled |-> FALSE, prior |-> FALSE, candidates |-> {},
         picks |-> <<>>, question |-> 0, reply |-> 0, job |-> 0, barred |-> {}]
  BY <1>1 DEF Idle
<1>4. Idle.user = u
  BY <1>3
<1>5. FALSE \in BOOLEAN /\ {} \in SUBSET Products /\ 0 \in Nat /\ "idle" \in Steps
  BY DEF Steps
<1>6. Flight = [op : {"none", "send", "preview"}, step : Steps, user : Users \union {u},
           conv : Nat, session : Sessions \union {0}, asks : BOOLEAN, titled : BOOLEAN,
           prior : BOOLEAN, candidates : SUBSET Products, picks : Seq(Ranked),
           question : Nat, reply : Nat, job : Nat, barred : SUBSET Products]
  BY <1>4 DEF Flight
<1> QED BY <1>2, <1>3, <1>5, <1>6

\* A request that has nothing yet.
LEMMA IdleStands ==
  ASSUME NEW g, g.op # "send", g.conv = 0, g.op # "preview", g.picks = <<>>, g.barred = {}
  PROVE  Stands(g)'
BY DEF Stands, Owns, Talks, Saw, Waits, Checked, Ascend, Barred, Sending

LEMMA FlightOf ==
  ASSUME IInv, NEW w \in Workers
  PROVE  \E f \in Flight : f = flight[w] /\ Stands(f)
<1>1. Stands(flight[w]) /\ flight[w] \in Flight
  BY DEF IInv, Typed, FlightsStand
<1>2. PICK f : f = flight[w]
  OBVIOUS
<1>3. Stands(f)
  BY <1>1, <1>2 DEF Stands, Owns, Talks, Saw, Waits, Checked, Ascend, Barred
<1> QED BY <1>1, <1>2, <1>3

LEMMA SendStands ==
  ASSUME IInv, NEW w \in Workers, NEW u \in Users, NEW s \in Sessions,
         NEW c \in {0} \union Convs, NEW asks \in BOOLEAN, Send(w, u, s, c, asks)
  PROVE  IInv'
<1>1. PICK found \in IF c # 0 THEN {c} \intersect Owned(u)
                     ELSE LET own == {d \in Owned(u) : convs[d].session = s}
                          IN IF own = {} THEN {0} ELSE own :
        flight' = [flight EXCEPT ![w] =
          [Idle EXCEPT !.op = "send", !.user = u, !.session = s, !.asks = asks,
             !.titled = found # 0 /\ convs[found].title # "none",
             !.conv = found, !.step = IF found = 0 THEN "missing" ELSE "found"]]
  BY DEF Send, Become
<1>2. found = 0 \/ found \in Owned(u)
  BY <1>1
<1>3. PICK g : g = [Idle EXCEPT !.op = "send", !.user = u, !.session = s, !.asks = asks,
             !.titled = found # 0 /\ convs[found].title # "none",
             !.conv = found, !.step = IF found = 0 THEN "missing" ELSE "found"]
  OBVIOUS
<1>4. found \in Nat
  BY <1>2, LenProperties DEF Owned, Convs, IInv, Typed
<1>5. g \in Flight
  <2>1. PICK titled : titled = (found # 0 /\ convs[found].title # "none")
    OBVIOUS
  <2>3. titled \in BOOLEAN
    BY <2>1
  <2>2. PICK step \in Steps : step = IF found = 0 THEN "missing" ELSE "found"
    BY DEF Steps
  <2>4. g = [Idle EXCEPT !.op = "send", !.user = u, !.session = s, !.asks = asks,
               !.titled = titled, !.conv = found, !.step = step]
    BY <1>3, <2>1, <2>2
  <2> QED BY <1>4, <2>3, <2>4, IdleFlies DEF Flight
<1>6. flight' = [flight EXCEPT ![w] = g] /\ UNCHANGED <<tile, convs, msgs, recs, inquiries, jobs>>
  BY <1>1, <1>3 DEF Send
<1>7. Typed'
  BY <1>5, <1>6 DEF IInv, Typed
<1>8. /\ g.op = "send" /\ g.user = u /\ g.session = s /\ g.conv = found /\ g.picks = <<>>
      /\ g.step = (IF found = 0 THEN "missing" ELSE "found") /\ g.barred = {}
  BY <1>3 DEF Idle
<1>9. Stands(g)'
  <2>1. Owns(g)'
    BY <1>2, <1>6, <1>8 DEF Owns, Owned, Convs, Sending, Prior, Asked
  <2> QED BY <1>8, <2>1 DEF Stands, Talks, Saw, Waits, Checked, Ascend, Barred, Sending, Prior, Asked, Replied
<1>10. ~Sending(g, Replied) /\ ~Sending(g, {"answered", "checked"})
  BY <1>8 DEF Sending, Replied
<1>11. PICK f \in Flight : f = flight[w]
  BY FlightOf
<1>12. RowsStand' /\ FlightsStand' /\ RepliesDiffer' /\ InquiriesStand' /\ CardsStand'
  BY <1>5, <1>6, <1>9, <1>10, <1>11, QuietMove
<1> QED BY <1>7, <1>12 DEF IInv

LEMMA CreateConversationStands ==
  ASSUME IInv, NEW w \in Workers, CreateConversation(w)
  PROVE  IInv'
<1>1. PICK f \in Flight : f = flight[w] /\ Stands(f)
  BY FlightOf
<1>2. PICK c : c = Len(convs) + 1
  OBVIOUS
<1>3. PICK new : new = [user |-> f.user, session |-> f.session, title |-> "none"]
  OBVIOUS
<1>4. /\ f.op = "send" /\ f.user \in Users /\ f.session \in Sessions
      /\ convs \in Seq(Conversation) /\ new \in Conversation
      /\ convs' = Append(convs, new) /\ Len(convs) < MaxConversations
      /\ UNCHANGED <<tile, msgs, recs, inquiries, jobs>>
  BY <1>1, <1>3 DEF CreateConversation, At, Stands, Owns, IInv, Typed, Conversation, Session
<1>5. /\ convs' \in Seq(Conversation) /\ Len(convs') = c /\ c \in Nat \ {0} /\ c <= MaxConversations
      /\ DOMAIN convs' = 1 .. c /\ DOMAIN convs = 1 .. c - 1
      /\ convs'[c] = new /\ \A d \in DOMAIN convs : convs'[d] = convs[d]
  BY <1>2, <1>4, PicksAssumption, AppendProperties, LenProperties
<1>6. PICK g : g = [f EXCEPT !.step = "found", !.conv = c]
  OBVIOUS
<1>7. g \in Flight /\ flight' = [flight EXCEPT ![w] = g]
  BY <1>1, <1>5, <1>6 DEF CreateConversation, Become, Flight, Steps
<1>8. Typed'
  BY <1>4, <1>5, <1>7 DEF IInv, Typed
<1>9. /\ g.op = "send" /\ g.step = "found" /\ g.conv = c /\ g.user = f.user /\ g.session = f.session
      /\ g.picks = f.picks /\ g.barred = f.barred
  BY <1>4, <1>6 DEF Flight
<1>10. Stands(g)'
  <2>1. Owns(g)'
    BY <1>3, <1>4, <1>5, <1>9 DEF Owns
  <2>2. Ascend(g)' /\ Barred(g)'
    BY <1>1, <1>4, <1>9 DEF Stands, Ascend, Barred, Sending, Eligible
  <2> QED BY <1>9, <2>1, <2>2 DEF Stands, Talks, Saw, Waits, Checked, Sending, Prior, Asked, Replied
<1>11. ~Sending(g, Replied) /\ ~Sending(g, {"answered", "checked"})
  BY <1>9 DEF Sending, Replied
<1>12. \A d \in DOMAIN convs : d \in DOMAIN convs' /\ convs'[d].user = convs[d].user
                                 /\ convs'[d].session = convs[d].session
  BY <1>5
<1>13. RowsStand' /\ FlightsStand' /\ RepliesDiffer' /\ InquiriesStand' /\ CardsStand'
  BY <1>1, <1>4, <1>7, <1>10, <1>11, <1>12, QuietMove
<1> QED BY <1>8, <1>13 DEF IInv

LEMMA CountPriorStands ==
  ASSUME IInv, NEW w \in Workers, CountPrior(w)
  PROVE  IInv'
<1>1. PICK f \in Flight : f = flight[w] /\ Stands(f)
  BY FlightOf
<1>2. PICK prior : prior = \E r \in recs : r.session = convs[f.conv].session
  OBVIOUS
<1>3. PICK g : g = [f EXCEPT !.step = "counted", !.prior = prior]
  OBVIOUS
<1>4. /\ f.op = "send" /\ f.step = "found" /\ UNCHANGED <<tile, convs, msgs, recs, inquiries, jobs>>
      /\ prior \in BOOLEAN
  BY <1>1, <1>2 DEF CountPrior, At
<1>5. g \in Flight
  BY <1>3, <1>4 DEF Flight, Steps
<1>6. flight' = [flight EXCEPT ![w] = g]
  BY <1>1, <1>2, <1>3 DEF CountPrior, Become
<1>7. Typed'
  BY <1>4, <1>5, <1>6 DEF IInv, Typed
<1>8. /\ g.op = "send" /\ g.step = "counted" /\ g.conv = f.conv /\ g.user = f.user
      /\ g.session = f.session /\ g.picks = f.picks /\ g.barred = f.barred /\ g.prior = prior
  BY <1>3, <1>4 DEF Flight
<1>9. Stands(g)'
  <2>1. Owns(g)'
    BY <1>1, <1>4, <1>8 DEF Stands, Owns, Sending
  <2>2. Ascend(g)' /\ Barred(g)'
    BY <1>1, <1>4, <1>8 DEF Stands, Ascend, Barred, Sending, Eligible
  <2>3. Saw(g)'
    BY <1>2, <1>4, <1>8 DEF Saw, Sending, Asked
  <2> QED BY <1>8, <2>1, <2>2, <2>3 DEF Stands, Talks, Waits, Checked, Sending, Asked, Replied
<1>10. ~Sending(g, Replied) /\ ~Sending(g, {"answered", "checked"})
  BY <1>8 DEF Sending, Replied
<1>11. RowsStand' /\ FlightsStand' /\ RepliesDiffer' /\ InquiriesStand' /\ CardsStand'
  BY <1>1, <1>4, <1>5, <1>6, <1>9, <1>10, QuietMove
<1> QED BY <1>7, <1>11 DEF IInv

LEMMA AskStands ==
  ASSUME IInv, NEW w \in Workers, Ask(w)
  PROVE  IInv'
<1>1. PICK f \in Flight : f = flight[w] /\ Stands(f)
  BY FlightOf
<1>2. PICK n : n = Len(msgs')
  OBVIOUS
<1>3. PICK g : g = [f EXCEPT !.step = "asked", !.question = n]
  OBVIOUS
<1>4. PICK c : c = f.conv
  OBVIOUS
<1>5. /\ f.op = "send" /\ f.step = "counted" /\ UNCHANGED <<tile, convs, recs, inquiries, jobs>>
      /\ Write(c, "USER", "text", <<>>) /\ flight' = [flight EXCEPT ![w] = g]
  BY <1>1, <1>2, <1>3, <1>4 DEF Ask, At, Become
<1>6. c \in DOMAIN convs
  BY <1>1, <1>4, <1>5 DEF Stands, Owns, Sending, Prior
<1>7. /\ (msgs \in Seq(Message))' /\ Growth
      /\ n \in DOMAIN msgs' /\ n \in Nat
      /\ \A i \in DOMAIN msgs : i < n
      /\ msgs'[n].conv = c
  BY <1>2, <1>5, <1>6, Writes DEF IInv
<1>8. g \in Flight
  BY <1>3, <1>7 DEF Flight, Steps
<1>9. Typed'
  BY <1>5, <1>7, <1>8 DEF IInv, Typed
<1>10. /\ g.op = "send" /\ g.step = "asked" /\ g.conv = f.conv /\ g.user = f.user
       /\ g.session = f.session /\ g.picks = f.picks /\ g.barred = f.barred
       /\ g.prior = f.prior /\ g.question = n
  BY <1>3, <1>5 DEF Flight
<1>11. Stands(g)'
  <2>1. Owns(g)'
    BY <1>1, <1>5, <1>10 DEF Stands, Owns, Sending, Prior
  <2>2. Ascend(g)' /\ Barred(g)'
    BY <1>1, <1>5, <1>10 DEF Stands, Ascend, Barred, Sending, Eligible
  <2>3. \A r \in recs : r.msg < n
    BY <1>7 DEF IInv, RowsStand
  <2>4. Saw(g)'
    BY <1>1, <1>5, <1>10, <2>3 DEF Stands, Saw, Sending, Prior, Asked
  <2>5. Talks(g)'
    BY <1>4, <1>7, <1>10 DEF Talks, Sending, Replied
  <2> QED BY <1>10, <2>1, <2>2, <2>4, <2>5 DEF Stands, Waits, Checked, Sending
<1>12. ~Sending(g, Replied)
  BY <1>10 DEF Sending, Replied
<1>13. RowsStand' /\ FlightsStand' /\ RepliesDiffer' /\ InquiriesStand' /\ CardsStand'
  BY <1>2, <1>5, <1>6, <1>8, <1>11, <1>12, WriteMove
<1> QED BY <1>9, <1>13 DEF IInv

\* A title is all that changes of a conversation.
LEMMA Titled ==
  ASSUME convs \in Seq(Conversation), NEW c, NEW title \in {"none", "default", "opening", "chosen"},
         convs' = [convs EXCEPT ![c].title = title]
  PROVE  /\ convs' \in Seq(Conversation) /\ Len(convs') = Len(convs) /\ DOMAIN convs' = DOMAIN convs
         /\ \A d \in DOMAIN convs : convs'[d].user = convs[d].user /\ convs'[d].session = convs[d].session
<1>1. /\ Len(convs) \in Nat /\ DOMAIN convs = 1 .. Len(convs)
      /\ \A d \in DOMAIN convs : convs[d] \in Conversation
      /\ convs = [d \in 1 .. Len(convs) |-> convs[d]]
  BY LenProperties
<1>2. DOMAIN convs' = DOMAIN convs
  OBVIOUS
<1>3. ASSUME NEW d \in DOMAIN convs
      PROVE  /\ convs'[d] \in Conversation
             /\ convs'[d].user = convs[d].user /\ convs'[d].session = convs[d].session
  <2>1. convs'[d] = convs[d] \/ convs'[d] = [convs[d] EXCEPT !.title = title]
    OBVIOUS
  <2> QED BY <1>1, <2>1 DEF Conversation
<1>4. convs' = [d \in 1 .. Len(convs) |-> convs'[d]]
  BY <1>1, <1>2
<1>5. convs' \in Seq(Conversation) /\ Len(convs') = Len(convs)
  <2>1. PICK s, n : s = convs' /\ n = Len(convs)
    OBVIOUS
  <2>2. n \in Nat /\ s = [d \in 1 .. n |-> s[d]] /\ \A d \in 1 .. n : s[d] \in Conversation
    BY <1>1, <1>2, <1>3, <1>4, <2>1
  <2>3. s \in Seq(Conversation) /\ Len(s) = n
    BY ONLY <2>2
  <2> QED BY <2>1, <2>3
<1> QED BY <1>2, <1>3, <1>5

LEMMA GroundStands ==
  ASSUME IInv, NEW w \in Workers, Ground(w)
  PROVE  IInv'
<1>1. PICK f \in Flight : f = flight[w] /\ Stands(f)
  BY FlightOf
<1>2. PICK g : g = [f EXCEPT !.step = "grounded", !.titled = FALSE, !.candidates = Eligible]
  OBVIOUS
<1>3. /\ f.op = "send" /\ f.step = "asked" /\ UNCHANGED <<tile, msgs, recs, inquiries, jobs>>
      /\ flight' = [flight EXCEPT ![w] = g]
  BY <1>1, <1>2 DEF Ground, At, Become
<1>4. convs' = convs \/ convs' = [convs EXCEPT ![f.conv].title = "opening"]
  BY <1>1 DEF Ground
<1>5. convs \in Seq(Conversation) /\ Len(convs) <= MaxConversations
  BY DEF IInv, Typed
<1>6. /\ convs' \in Seq(Conversation) /\ Len(convs') = Len(convs) /\ DOMAIN convs' = DOMAIN convs
      /\ \A d \in DOMAIN convs : convs'[d].user = convs[d].user /\ convs'[d].session = convs[d].session
  BY <1>4, <1>5, Titled
<1>7. g \in Flight
  BY <1>2 DEF Flight, Steps, Eligible
<1>8. Typed'
  BY <1>3, <1>5, <1>6, <1>7 DEF IInv, Typed
<1>9. /\ g.op = "send" /\ g.step = "grounded" /\ g.conv = f.conv /\ g.user = f.user
      /\ g.session = f.session /\ g.picks = f.picks /\ g.barred = f.barred
      /\ g.prior = f.prior /\ g.question = f.question
  BY <1>2, <1>3 DEF Flight
<1>10. Stands(g)'
  <2>1. Owns(g)'
    BY <1>1, <1>3, <1>6, <1>9 DEF Stands, Owns, Sending, Prior, Asked
  <2>2. Ascend(g)' /\ Barred(g)'
    BY <1>1, <1>3, <1>9 DEF Stands, Ascend, Barred, Sending, Eligible
  <2>3. Saw(g)'
    BY <1>1, <1>3, <1>6, <1>9 DEF Stands, Owns, Saw, Sending, Prior, Asked
  <2>4. Talks(g)'
    BY <1>1, <1>3, <1>9 DEF Stands, Talks, Sending, Asked, Replied
  <2> QED BY <1>9, <2>1, <2>2, <2>3, <2>4 DEF Stands, Waits, Checked, Sending
<1>11. ~Sending(g, Replied) /\ ~Sending(g, {"answered", "checked"})
  BY <1>9 DEF Sending, Replied
<1>12. RowsStand' /\ FlightsStand' /\ RepliesDiffer' /\ InquiriesStand' /\ CardsStand'
  BY <1>1, <1>3, <1>6, <1>7, <1>10, <1>11, QuietMove
<1> QED BY <1>8, <1>12 DEF IInv

-----------------------------------------------------------------------------
(* Greatest elements, and the places of a sequence that are kept.          *)

\* A set of numbers with a bound has a greatest one.
LEMMA Greatest ==
  ASSUME NEW n \in Nat, NEW S \in SUBSET (0 .. n), S # {}
  PROVE  Max(S) \in S /\ \A i \in S : Max(S) >= i
<1> DEFINE tops == {0 .. k : k \in {k \in 0 .. n : \A i \in S : i <= k}}
<1>1. IsFiniteSet(0 .. n) /\ tops \subseteq SUBSET (0 .. n) /\ 0 .. n \in tops
  <2>1. IsFiniteSet(0 .. n)
    BY FS_Interval
  <2>2. n \in {k \in 0 .. n : \A i \in S : i <= k}
    OBVIOUS
  <2>3. \A k \in 0 .. n : 0 .. k \subseteq 0 .. n
    OBVIOUS
  <2> QED BY <2>1, <2>2, <2>3
<1>2. IsWellFoundedOn(StrictSubsetOrdering(0 .. n), FiniteSubsetsOf(0 .. n))
  BY FS_StrictSubsetOrderingWellFounded
<1>3. tops \subseteq FiniteSubsetsOf(0 .. n)
  BY <1>1, FS_Subset DEF FiniteSubsetsOf
<1>4. PICK top \in tops : \A u \in tops : <<u, top>> \notin StrictSubsetOrdering(0 .. n)
  <2> HIDE DEF tops
  <2> QED BY <1>1, <1>2, <1>3, WFMin
<1>5. PICK m \in 0 .. n : top = 0 .. m /\ \A i \in S : i <= m
  BY <1>4
<1>6. ASSUME m \notin S PROVE FALSE
  <2>1. PICK i \in S : i <= m /\ i # m /\ i \in 0 .. n
    BY <1>5, <1>6
  <2>2. m - 1 \in 0 .. n /\ \A j \in S : j <= m - 1
    BY <1>5, <1>6, <2>1
  <2>3. 0 .. (m - 1) \in tops
    BY <2>2
  <2>4. 0 .. (m - 1) \subseteq 0 .. m /\ 0 .. (m - 1) # 0 .. m /\ 0 .. m \subseteq 0 .. n
    <3>1. m \in 0 .. m /\ m \notin 0 .. (m - 1)
      OBVIOUS
    <3> QED BY <3>1
  <2> QED BY <1>4, <1>5, <2>3, <2>4 DEF StrictSubsetOrdering
<1> QED BY <1>5, <1>6 DEF Max

\* The n-th smallest of a finite set of numbers.
Place(K, n, i) == i \in K /\ Cardinality({j \in K : j <= i}) = n

LEMMA PlacesOfMore ==
  ASSUME NEW K, IsFiniteSet(K), K \subseteq Nat, NEW m \in K, \A i \in K : i <= m,
         \A n \in 1 .. Cardinality(K \ {m}) : \E i : Place(K \ {m}, n, i)
  PROVE  \A n \in 1 .. Cardinality(K) : \E i : Place(K, n, i)
<1>1. Cardinality(K \ {m}) = Cardinality(K) - 1 /\ Cardinality(K) \in Nat
  BY FS_RemoveElement, FS_CardinalityType
<1> TAKE n \in 1 .. Cardinality(K)
<1>2. CASE n = Cardinality(K)
  <2>1. {j \in K : j <= m} = K
    OBVIOUS
  <2> QED BY <1>2, <2>1 DEF Place
<1>3. CASE n # Cardinality(K)
  <2>1. n \in 1 .. Cardinality(K \ {m})
    BY <1>1, <1>3
  <2>2. PICK i : Place(K \ {m}, n, i)
    BY <2>1
  <2>3. {j \in K \ {m} : j <= i} = {j \in K : j <= i}
    BY <2>2 DEF Place
  <2> QED BY <2>2, <2>3 DEF Place
<1> QED BY <1>2, <1>3

LEMMA Places ==
  ASSUME NEW N \in Nat, NEW K \in SUBSET (1 .. N)
  PROVE  /\ IsFiniteSet(K) /\ Cardinality(K) \in Nat
         /\ \A n \in 1 .. Cardinality(K) : \E i : Place(K, n, i)
<1>1. ASSUME NEW S \in SUBSET (1 .. N)
      PROVE  IsFiniteSet(S) /\ Cardinality(S) \in Nat
  <2>1. IsFiniteSet(1 .. N)
    BY FS_Interval
  <2> QED BY <2>1, FS_Subset, FS_CardinalityType
<1> DEFINE Bad == {S \in SUBSET (1 .. N) :
                     ~ \A n \in 1 .. Cardinality(S) : \E i : Place(S, n, i)}
<1>2. SUFFICES ASSUME K \in Bad PROVE FALSE
  BY <1>1
<1>3. IsWellFoundedOn(StrictSubsetOrdering(1 .. N), FiniteSubsetsOf(1 .. N))
  BY FS_StrictSubsetOrderingWellFounded
<1>4. Bad \subseteq FiniteSubsetsOf(1 .. N) /\ Bad # {}
  BY <1>1, <1>2 DEF FiniteSubsetsOf
<1>5. PICK S \in Bad : \A R \in Bad : <<R, S>> \notin StrictSubsetOrdering(1 .. N)
  <2> HIDE DEF Bad
  <2> QED BY <1>3, <1>4, WFMin
<1>6. S # {}
  BY FS_EmptySet
<1>7. S \in SUBSET (0 .. N) /\ S \subseteq Nat
  BY <1>5
<1>8. PICK m \in S : \A i \in S : i <= m
  BY <1>6, <1>7, Greatest
<1>9. S \ {m} \notin Bad
  BY <1>5, <1>8 DEF StrictSubsetOrdering
<1>10. \A n \in 1 .. Cardinality(S \ {m}) : \E i : Place(S \ {m}, n, i)
  BY <1>5, <1>9
<1>11. \A n \in 1 .. Cardinality(S) : \E i : Place(S, n, i)
  BY <1>1, <1>5, <1>7, <1>8, <1>10, PlacesOfMore
<1> QED BY <1>5, <1>11

\* What is kept of a sequence comes from the places that are kept, every one of
\* them once and in their order.
PlacedBy(s, K, size, place) ==
  /\ place \in [1 .. size -> K]
  /\ Kept(s, K) = [n \in 1 .. size |-> s[place[n]]]
  /\ \A n \in 1 .. size : Cardinality({j \in K : j <= place[n]}) = n
  /\ \A m, n \in 1 .. size : m < n => place[m] < place[n]
  /\ \A k \in K : \E n \in 1 .. size : place[n] = k

LEMMA KeptPlaces ==
  ASSUME NEW T, NEW s \in Seq(T), NEW K \in SUBSET (DOMAIN s)
  PROVE  /\ Kept(s, K) \in Seq(T) /\ Cardinality(K) \in Nat
         /\ \E place : PlacedBy(s, K, Cardinality(K), place)
<1>1. Len(s) \in Nat /\ DOMAIN s = 1 .. Len(s) /\ \A i \in DOMAIN s : s[i] \in T
  BY LenProperties
<1>2. /\ IsFiniteSet(K) /\ Cardinality(K) \in Nat
      /\ \A n \in 1 .. Cardinality(K) : \E i : Place(K, n, i)
  BY <1>1, Places
<1> DEFINE Below(i) == {j \in K : j <= i}
           place == [n \in 1 .. Cardinality(K) |->
                       CHOOSE i \in K : Cardinality({j \in K : j <= i}) = n]
<1>3. \A n \in 1 .. Cardinality(K) : place[n] \in K /\ Cardinality(Below(place[n])) = n
  BY <1>2 DEF Place
<1>4. Kept(s, K) = [n \in 1 .. Cardinality(K) |-> s[place[n]]]
  BY DEF Kept
<1>5. place \in [1 .. Cardinality(K) -> K]
  BY <1>3
<1> HIDE DEF place
<1>6. Kept(s, K) \in Seq(T)
  <2>1. \A n \in 1 .. Cardinality(K) : s[place[n]] \in T
    BY <1>1, <1>3
  <2> QED BY <1>2, <1>4, <2>1
<1>7. ASSUME NEW i \in K, NEW l \in K, i <= l
      PROVE  /\ Cardinality(Below(i)) \in 1 .. Cardinality(K)
             /\ Cardinality(Below(l)) \in Nat /\ Cardinality(Below(i)) <= Cardinality(Below(l))
             /\ i # l => Cardinality(Below(i)) # Cardinality(Below(l))
  <2>1. Below(i) \subseteq Below(l) /\ Below(l) \subseteq K /\ i \in Below(i) /\ l \in Below(l)
        /\ (i # l => l \notin Below(i))
    BY <1>1, <1>7
  <2> HIDE DEF Below
  <2>2. IsFiniteSet(Below(l)) /\ IsFiniteSet(Below(i))
    BY <1>2, <2>1, FS_Subset
  <2>3. Cardinality(Below(i)) \in Nat /\ Cardinality(Below(l)) \in Nat
    BY <2>2, FS_CardinalityType
  <2>4. Cardinality(Below(i)) <= Cardinality(K)
    BY <1>2, <2>1, FS_Subset
  <2>5. Cardinality(Below(i)) # 0
    BY <2>1, <2>2, FS_EmptySet
  <2>6. Cardinality(Below(i)) <= Cardinality(Below(l))
    BY <2>1, <2>2, FS_Subset
  <2>7. i # l => Cardinality(Below(i)) # Cardinality(Below(l))
    BY <2>1, <2>2, FS_Subset
  <2> QED BY <1>2, <2>3, <2>4, <2>5, <2>6, <2>7
<1>8. ASSUME NEW m \in 1 .. Cardinality(K), NEW n \in 1 .. Cardinality(K), m < n,
             ~(place[m] < place[n])
      PROVE  FALSE
  <2>1. PICK i \in K, l \in K : i = place[n] /\ l = place[m]
    BY <1>3
  <2>2. i <= l /\ Cardinality(Below(i)) = n /\ Cardinality(Below(l)) = m
    BY <1>1, <1>3, <1>8, <2>1
  <2> HIDE DEF Below
  <2>3. Cardinality(Below(i)) <= Cardinality(Below(l))
    BY <1>7, <2>2
  <2> QED BY <1>8, <2>2, <2>3
<1>9. ASSUME NEW k \in K PROVE \E n \in 1 .. Cardinality(K) : place[n] = k
  <2>1. PICK n : n = Cardinality(Below(k))
    OBVIOUS
  <2>2. n \in 1 .. Cardinality(K)
    <3> HIDE DEF Below
    <3>1. k <= k
      BY <1>1
    <3> QED BY <1>7, <2>1, <3>1
  <2>3. PICK i \in K : i = place[n] /\ Cardinality(Below(i)) = n
    BY <1>3, <2>2
  <2> HIDE DEF Below
  <2>4. i <= k \/ k <= i
    BY <1>1
  <2>5. i = k
    BY <1>7, <2>1, <2>3, <2>4
  <2> QED BY <2>2, <2>3, <2>5
<1>10. \A m, n \in 1 .. Cardinality(K) : m < n => place[m] < place[n]
  BY <1>8
<1>11. PlacedBy(s, K, Cardinality(K), place)
  BY <1>3, <1>4, <1>5, <1>9, <1>10 DEF PlacedBy
<1> QED BY <1>2, <1>6, <1>11

-----------------------------------------------------------------------------
(* The answer, the check of its picks, their rows and the log.             *)

\* A set of rows is finite when they can be named by finitely many numbers.
LEMMA Images ==
  ASSUME NEW S, NEW T, IsFiniteSet(S), NEW F, \A x \in T : F[x] \in S,
         \A x, y \in T : F[x] = F[y] => x = y
  PROVE  IsFiniteSet(T)
<1>1. [x \in T |-> F[x]] \in Injection(T, S)
  BY DEF Injection, IsInjective
<1> QED BY <1>1, FS_Injection

LEMMA AnswerStands ==
  ASSUME IInv, NEW w \in Workers, Answer(w)
  PROVE  IInv'
<1>1. PICK f \in Flight : f = flight[w] /\ Stands(f)
  BY FlightOf
<1>2. PICK n : n = Len(msgs')
  OBVIOUS
<1>3. PICK picks \in IF f.asks THEN Picks(f.candidates) ELSE {<<>>} :
        flight' = [flight EXCEPT ![w] =
          [f EXCEPT !.asks = FALSE, !.reply = n,
             !.candidates = IF picks = <<>> THEN {} ELSE @,
             !.barred = IF picks = <<>> THEN {} ELSE Products \ Eligible,
             !.step = IF picks = <<>> THEN "shown" ELSE "answered",
             !.picks = [i \in DOMAIN picks |-> [pick |-> picks[i], rank |-> i]]]]
  BY <1>1, <1>2 DEF Answer, Become
<1>4. PICK ranked : ranked = [i \in DOMAIN picks |-> [pick |-> picks[i], rank |-> i]]
  OBVIOUS
<1>5. /\ ranked \in Seq(Ranked) /\ (picks = <<>> => ranked = <<>>)
      /\ (ranked = <<>> => picks = <<>>)
      /\ DOMAIN ranked = DOMAIN picks /\ \A i \in DOMAIN ranked : ranked[i].rank = i
  <2>1. \E k \in 0 .. MaxPicks : picks \in [1 .. k -> Pick]
    <3>1. CASE picks = <<>>
      <4>1. 0 \in 0 .. MaxPicks /\ picks \in [1 .. 0 -> Pick]
        BY <3>1, PicksAssumption
      <4> QED BY <4>1
    <3>2. CASE picks \in Picks(f.candidates)
      BY <1>1, <3>2 DEF Picks, Pick, Flight
    <3> QED BY <3>1, <3>2
  <2>2. PICK k \in 0 .. MaxPicks : picks \in [1 .. k -> Pick]
    BY <2>1
  <2>3. DOMAIN picks = 1 .. k /\ k \in Nat
    BY <2>2
  <2>4. \A i \in 1 .. k : ranked[i] \in Ranked /\ ranked[i].rank = i
    BY <1>4, <2>2, <2>3, PicksAssumption DEF Ranked
  <2>5. ranked \in Seq(Ranked) /\ DOMAIN ranked = DOMAIN picks
    BY <1>4, <2>3, <2>4
  <2>6. ranked = <<>> => picks = <<>>
    BY <2>2, <2>3, <2>5
  <2>7. picks = <<>> => ranked = <<>>
    BY <1>4
  <2> QED BY <2>3, <2>4, <2>5, <2>6, <2>7
<1>6. PICK candidates, barred, step :
        /\ candidates = IF picks = <<>> THEN {} ELSE f.candidates
        /\ barred = IF picks = <<>> THEN {} ELSE Products \ Eligible
        /\ step = IF picks = <<>> THEN "shown" ELSE "answered"
  OBVIOUS
<1>7. PICK g : g = [f EXCEPT !.asks = FALSE, !.reply = n, !.candidates = candidates,
                       !.barred = barred, !.step = step, !.picks = ranked]
  OBVIOUS
<1>8. PICK c : c = f.conv
  OBVIOUS
<1>9. /\ f.op = "send" /\ f.step = "grounded" /\ UNCHANGED <<tile, convs, recs, inquiries, jobs>>
      /\ Write(c, "ASSISTANT", "text", <<>>)
  BY <1>1, <1>8 DEF Answer, At
<1>10. flight' = [flight EXCEPT ![w] = g]
  <2>1. g = [f EXCEPT !.asks = FALSE, !.reply = n,
               !.candidates = IF picks = <<>> THEN {} ELSE @,
               !.barred = IF picks = <<>> THEN {} ELSE Products \ Eligible,
               !.step = IF picks = <<>> THEN "shown" ELSE "answered",
               !.picks = [i \in DOMAIN picks |-> [pick |-> picks[i], rank |-> i]]]
    BY <1>4, <1>6, <1>7
  <2> QED BY <1>3, <2>1
<1>11. c \in DOMAIN convs
  BY <1>1, <1>8, <1>9 DEF Stands, Owns, Sending, Prior, Asked
<1>12. /\ (msgs \in Seq(Message))' /\ Growth /\ n \in DOMAIN msgs' /\ n \in Nat
       /\ msgs'[n].conv = c /\ msgs'[n].role = "ASSISTANT" /\ Bare(n)'
  BY <1>2, <1>9, <1>11, Writes DEF IInv
<1>13. candidates \in SUBSET Products /\ barred \in SUBSET Products /\ step \in Steps
       /\ step \in {"answered", "shown"} /\ barred \intersect Eligible = {}
  BY <1>6 DEF Flight, Steps
<1>14. g \in Flight
  BY <1>5, <1>7, <1>12, <1>13 DEF Flight
<1>15. Typed'
  BY <1>9, <1>10, <1>12, <1>14 DEF IInv, Typed
<1>16. /\ g.op = "send" /\ g.step = step /\ g.conv = f.conv /\ g.user = f.user
       /\ g.session = f.session /\ g.picks = ranked /\ g.barred = barred
       /\ g.prior = f.prior /\ g.question = f.question /\ g.reply = n
  BY <1>7, <1>9 DEF Flight
<1>17. Stands(g)'
  <2>1. Owns(g)'
    BY <1>1, <1>9, <1>16 DEF Stands, Owns, Sending, Prior, Asked
  <2>2. Ascend(g)' /\ Checked(g)'
    BY <1>5, <1>13, <1>16 DEF Ascend, Checked, Sending
  <2>3. Barred(g)'
    BY <1>9, <1>13, <1>16 DEF Barred, Sending, Eligible
  <2>4. Saw(g)'
    BY <1>1, <1>9, <1>16 DEF Stands, Saw, Sending, Prior, Asked
  <2>5. Talks(g)'
    BY <1>1, <1>8, <1>9, <1>12, <1>16 DEF Stands, Talks, Sending, Asked, Growth
  <2>6. Waits(g)'
    BY <1>12, <1>16 DEF Waits, Bare, Batch
  <2> QED BY <2>1, <2>2, <2>3, <2>4, <2>5, <2>6 DEF Stands
<1>18. Sending(g, Replied) => g.reply = n
  BY <1>16
<1>19. RowsStand' /\ FlightsStand' /\ RepliesDiffer' /\ InquiriesStand' /\ CardsStand'
  BY <1>2, <1>9, <1>10, <1>11, <1>14, <1>17, <1>18, WriteMove
<1> QED BY <1>15, <1>19 DEF IInv

\* The picks that are left have tiles that are still eligible, in their order.
LEMMA StillEligibleKeeps ==
  ASSUME NEW picks \in Seq(Ranked), NEW candidates \in SUBSET Products,
         NEW kept, kept = StillEligible(picks, candidates)
  PROVE  /\ kept \in Seq(Ranked)
         /\ \A n \in DOMAIN kept : /\ kept[n].pick.floor \in Eligible
                                   /\ kept[n].pick.wall \in Eligible \union {None}
         /\ (\A m, n \in DOMAIN picks : m < n => picks[m].rank < picks[n].rank)
              => \A m, n \in DOMAIN kept : m < n => kept[m].rank < kept[n].rank
<1>1. PICK ok \in SUBSET Products : ok = candidates \intersect Eligible
  OBVIOUS
<1>2. PICK K : K = {i \in DOMAIN picks : picks[i].pick.floor \in ok}
  OBVIOUS
<1>3. K \subseteq DOMAIN picks /\ Len(picks) \in Nat /\ DOMAIN picks = 1 .. Len(picks)
      /\ \A i \in DOMAIN picks : picks[i] \in Ranked
  BY <1>2, LenProperties
<1>4. PICK left, size : left = Kept(picks, K) /\ size = Cardinality(K)
  OBVIOUS
<1>5. left \in Seq(Ranked) /\ size \in Nat
  BY <1>3, <1>4, KeptPlaces
<1>6. PICK place : /\ place \in [1 .. size -> K]
                   /\ left = [n \in 1 .. size |-> picks[place[n]]]
                   /\ \A m, n \in 1 .. size : m < n => place[m] < place[n]
  BY <1>3, <1>4, KeptPlaces DEF PlacedBy
<1>7. kept = [i \in DOMAIN left |-> [left[i] EXCEPT !.pick.wall = IF @ \in ok THEN @ ELSE None]]
  BY <1>1, <1>2, <1>4 DEF StillEligible
<1>8. ASSUME NEW n \in 1 .. size
      PROVE  /\ kept[n] \in Ranked /\ kept[n].rank = picks[place[n]].rank
             /\ kept[n].pick.floor \in ok /\ kept[n].pick.wall \in ok \union {None}
  <2>1. PICK p \in Ranked : p = picks[place[n]] /\ p = left[n] /\ p.pick.floor \in ok
    BY <1>2, <1>3, <1>6
  <2>2. PICK wall : wall = IF p.pick.wall \in ok THEN p.pick.wall ELSE None
    OBVIOUS
  <2>3. kept[n] = [p EXCEPT !.pick.wall = wall] /\ wall \in ok \union {None}
    BY <1>6, <1>7, <2>1, <2>2
  <2>4. PICK q : q = [p.pick EXCEPT !.wall = wall]
    OBVIOUS
  <2>5. q \in Pick /\ q.floor = p.pick.floor /\ q.wall = wall
    BY <2>3, <2>4 DEF Pick, Ranked
  <2>6. kept[n] = [p EXCEPT !.pick = q]
    BY <2>3, <2>4 DEF Pick, Ranked
  <2>7. kept[n] \in Ranked /\ kept[n].rank = p.rank /\ kept[n].pick = q
    BY <2>5, <2>6 DEF Ranked
  <2> QED BY <2>1, <2>3, <2>5, <2>7
<1>9. DOMAIN kept = 1 .. size
  BY <1>6, <1>7
<1>10. kept \in Seq(Ranked)
  <2>1. kept = [n \in 1 .. size |-> kept[n]]
    BY <1>7, <1>9
  <2>2. \A n \in 1 .. size : kept[n] \in Ranked
    BY <1>8
  <2> QED BY <1>5, <2>1, <2>2
<1>11. ASSUME \A m, n \in DOMAIN picks : m < n => picks[m].rank < picks[n].rank,
              NEW m \in DOMAIN kept, NEW n \in DOMAIN kept, m < n
       PROVE  kept[m].rank < kept[n].rank
  <2>1. place[m] < place[n] /\ place[m] \in DOMAIN picks /\ place[n] \in DOMAIN picks
    BY <1>3, <1>6, <1>9, <1>11
  <2>2. kept[m].rank = picks[place[m]].rank /\ kept[n].rank = picks[place[n]].rank
    BY <1>8, <1>9
  <2> QED BY <1>11, <2>1, <2>2
<1>12. \A n \in DOMAIN kept : kept[n].pick.floor \in Eligible /\ kept[n].pick.wall \in Eligible \union {None}
  BY <1>1, <1>8, <1>9
<1> QED BY <1>10, <1>11, <1>12

LEMMA RecheckStands ==
  ASSUME IInv, NEW w \in Workers, Recheck(w)
  PROVE  IInv'
<1>1. PICK f \in Flight : f = flight[w] /\ Stands(f)
  BY FlightOf
<1>2. PICK kept : kept = StillEligible(f.picks, f.candidates)
  OBVIOUS
<1>3. /\ kept \in Seq(Ranked)
      /\ \A n \in DOMAIN kept : /\ kept[n].pick.floor \in Eligible
                                /\ kept[n].pick.wall \in Eligible \union {None}
      /\ \A m, n \in DOMAIN kept : m < n => kept[m].rank < kept[n].rank
  <2>1. f.picks \in Seq(Ranked) /\ f.candidates \in SUBSET Products
    BY DEF Flight
  <2>2. \A m, n \in DOMAIN f.picks : m < n => f.picks[m].rank < f.picks[n].rank
    BY <1>1 DEF Stands, Ascend
  <2> QED BY <1>2, <2>1, <2>2, StillEligibleKeeps
<1>4. PICK step : step = IF kept = <<>> THEN "shown" ELSE "checked"
  OBVIOUS
<1>5. PICK g : g = [f EXCEPT !.picks = kept, !.candidates = {}, !.step = step]
  OBVIOUS
<1>6. /\ f.op = "send" /\ f.step = "answered"
      /\ UNCHANGED <<tile, convs, msgs, recs, inquiries, jobs>>
      /\ flight' = [flight EXCEPT ![w] = g]
  BY <1>1, <1>2, <1>4, <1>5 DEF Recheck, At, Become
<1>7. g \in Flight /\ step \in {"checked", "shown"}
  BY <1>3, <1>4, <1>5 DEF Flight, Steps
<1>8. Typed'
  BY <1>6, <1>7 DEF IInv, Typed
<1>9. /\ g.op = "send" /\ g.step = step /\ g.conv = f.conv /\ g.user = f.user
      /\ g.session = f.session /\ g.picks = kept /\ g.barred = f.barred
      /\ g.prior = f.prior /\ g.question = f.question /\ g.reply = f.reply
  BY <1>5, <1>6 DEF Flight
<1>10. Stands(g)'
  <2>1. Owns(g)'
    BY <1>1, <1>6, <1>9 DEF Stands, Owns, Sending, Prior, Asked
  <2>2. Ascend(g)' /\ Checked(g)'
    BY <1>3, <1>4, <1>9 DEF Ascend, Checked, Sending
  <2>3. Barred(g)'
    <3>1. f.barred \intersect Eligible = {} /\ f.barred \subseteq Products
      BY <1>1 DEF Stands, Barred, Flight
    <3>2. None \notin Products
      BY SuitsAssumption
    <3>3. \A n \in DOMAIN kept : kept[n].pick.floor \notin f.barred /\ kept[n].pick.wall \notin f.barred
      BY <1>3, <3>1, <3>2
    <3> QED BY <1>6, <1>9, <3>1, <3>3 DEF Barred, Sending, Eligible
  <2>4. Saw(g)'
    BY <1>1, <1>6, <1>7, <1>9 DEF Stands, Saw, Sending, Prior, Asked
  <2>5. Talks(g)'
    BY <1>1, <1>6, <1>9 DEF Stands, Talks, Sending, Asked, Replied
  <2>6. Bare(f.reply)
    BY <1>1, <1>6 DEF Stands, Waits, Sending
  <2>7. Waits(g)'
    BY <1>6, <1>9, <2>6 DEF Waits, Bare, Batch
  <2> QED BY <2>1, <2>2, <2>3, <2>4, <2>5, <2>7 DEF Stands
<1>11. Sending(f, Replied) /\ Sending(f, {"answered", "checked"}) /\ g.reply = f.reply
  BY <1>6, <1>9 DEF Sending, Replied
<1>12. RowsStand' /\ FlightsStand' /\ RepliesDiffer' /\ InquiriesStand' /\ CardsStand'
  BY <1>1, <1>6, <1>7, <1>10, <1>11, QuietMove
<1> QED BY <1>8, <1>12 DEF IInv

\* The row of one surface of a pick.
RowFor(f, p, product, surface) ==
  [msg |-> f.reply, session |-> f.session, user |-> convs[f.conv].user,
   product |-> product, rank |-> p.rank, surface |-> surface, decision |-> "PENDING"]
RowsFor(f, p) ==
  IF p.pick.wall = None THEN {RowFor(f, p, p.pick.floor, "NULL")}
  ELSE {RowFor(f, p, p.pick.floor, "FLOOR"), RowFor(f, p, p.pick.wall, "WALL")}

\* The rows of the picks are those of as many cards, with the ranks of the picks.
LEMMA RowsOfPicks ==
  ASSUME IInv, NEW f \in Flight, Stands(f), Sending(f, {"checked"}), NEW rows, rows = RowsOf(f)
  PROVE  /\ rows \subseteq Row /\ IsFiniteSet(rows)
         /\ \A r \in rows : /\ r.msg = f.reply /\ r.user = convs[f.conv].user
                            /\ \E n \in DOMAIN f.picks : r.rank = f.picks[n].rank
         /\ \A n \in DOMAIN f.picks :
              OfCard(WithRank(rows, f.picks[n].rank), f.picks[n].pick)
<1>1. /\ f.picks \in Seq(Ranked) /\ f.reply \in Nat /\ f.session \in Session
      /\ convs[f.conv].user \in Users
  <2>1. f.conv # 0 /\ f.op = "send" /\ f.session \in Sessions
    BY DEF Stands, Owns, Sending, Prior, Asked
  <2>2. f.user \in Users /\ convs[f.conv].user = f.user
    BY <2>1 DEF Stands, Owns
  <2> QED BY <2>1, <2>2 DEF Session, Flight
<1>2. DOMAIN f.picks \subseteq Nat /\ \A n \in DOMAIN f.picks : f.picks[n] \in Ranked
  BY <1>1, LenProperties
<1>3. \A m, n \in DOMAIN f.picks : f.picks[m].rank = f.picks[n].rank => m = n
  <2>1. \A m, n \in DOMAIN f.picks : m < n => f.picks[m].rank < f.picks[n].rank
    BY DEF Stands, Ascend
  <2> TAKE m, n \in DOMAIN f.picks
  <2>2. f.picks[m].rank \in 1 .. MaxPicks /\ f.picks[n].rank \in 1 .. MaxPicks
    BY <1>2 DEF Ranked
  <2>3. m < n \/ n < m \/ m = n
    BY <1>2
  <2> QED BY <2>1, <2>2, <2>3, PicksAssumption
<1>4. \A r : r \in rows <=> \E n \in DOMAIN f.picks : r \in RowsFor(f, f.picks[n])
  BY DEF RowsOf, RowsFor, RowFor, ToSet
<1>5. ASSUME NEW p \in Ranked, NEW r \in RowsFor(f, p)
      PROVE  r \in Row /\ r.msg = f.reply /\ r.user = convs[f.conv].user /\ r.rank = p.rank
  <2>1. p.pick.floor \in Products /\ p.rank \in 1 .. MaxPicks
        /\ (p.pick.wall # None => p.pick.wall \in Products)
    BY DEF Ranked, Pick
  <2>2. PICK product \in Products, surface \in {"NULL", "FLOOR", "WALL"} :
          r = RowFor(f, p, product, surface)
    BY <2>1 DEF RowsFor
  <2> QED BY <1>1, <2>1, <2>2 DEF RowFor, Row
<1>6. ASSUME NEW p \in Ranked
      PROVE  OfCard(RowsFor(f, p), p.pick)
  <2>1. CASE p.pick.wall = None
    <3>1. PICK a : a = RowFor(f, p, p.pick.floor, "NULL")
      OBVIOUS
    <3>2. RowsFor(f, p) = {a} /\ a.surface = "NULL" /\ a.product = p.pick.floor
      BY <2>1, <3>1 DEF RowsFor, RowFor
    <3> QED BY <2>1, <3>2 DEF OfCard, OneRow
  <2>2. CASE p.pick.wall # None
    <3>1. PICK a, b : a = RowFor(f, p, p.pick.floor, "FLOOR") /\ b = RowFor(f, p, p.pick.wall, "WALL")
      OBVIOUS
    <3>2. /\ RowsFor(f, p) = {a, b} /\ a.surface = "FLOOR" /\ a.product = p.pick.floor
          /\ b.surface = "WALL" /\ b.product = p.pick.wall
      BY <2>2, <3>1 DEF RowsFor, RowFor
    <3> QED BY <2>2, <3>2 DEF OfCard, TwoRows
  <2> QED BY <2>1, <2>2
<1>7. rows \subseteq Row
  BY <1>2, <1>4, <1>5
<1>8. ASSUME NEW n \in DOMAIN f.picks
      PROVE  WithRank(rows, f.picks[n].rank) = RowsFor(f, f.picks[n])
  <2>1. ASSUME NEW r \in rows, r.rank = f.picks[n].rank PROVE r \in RowsFor(f, f.picks[n])
    <3>1. PICK m \in DOMAIN f.picks : r \in RowsFor(f, f.picks[m])
      BY <1>4
    <3>2. r.rank = f.picks[m].rank
      BY <1>2, <1>5, <3>1
    <3> QED BY <1>3, <2>1, <3>1, <3>2
  <2>2. ASSUME NEW r \in RowsFor(f, f.picks[n]) PROVE r \in rows /\ r.rank = f.picks[n].rank
    BY <1>2, <1>4, <1>5
  <2> QED BY <2>1, <2>2 DEF WithRank
<1>9. \A n \in DOMAIN f.picks : OfCard(WithRank(rows, f.picks[n].rank), f.picks[n].pick)
  BY <1>2, <1>6, <1>8
<1>10. \A r \in rows : /\ r.msg = f.reply /\ r.user = convs[f.conv].user
                       /\ \E n \in DOMAIN f.picks : r.rank = f.picks[n].rank
  BY <1>2, <1>4, <1>5
<1>11. IsFiniteSet(rows)
  <2>1. PICK S : S = (1 .. MaxPicks) \X {"NULL", "FLOOR", "WALL"}
    OBVIOUS
  <2>2. IsFiniteSet(1 .. MaxPicks) /\ IsFiniteSet({"NULL", "FLOOR", "WALL"})
    <3>1. IsFiniteSet(1 .. MaxPicks)
      BY FS_Interval, PicksAssumption
    <3>2. IsFiniteSet({"NULL"}) /\ IsFiniteSet({"NULL"} \union {"FLOOR"})
      BY FS_Singleton, FS_Union
    <3>3. IsFiniteSet({"NULL"} \union {"FLOOR"} \union {"WALL"})
      BY <3>2, FS_Singleton, FS_Union
    <3>4. {"NULL"} \union {"FLOOR"} \union {"WALL"} = {"NULL", "FLOOR", "WALL"}
      OBVIOUS
    <3> QED BY <3>1, <3>3, <3>4
  <2>3. IsFiniteSet(S)
    BY <2>1, <2>2, FS_Product
  <2>4. PICK F : F = [r \in rows |-> <<r.rank, r.surface>>]
    OBVIOUS
  <2>5. \A r \in rows : F[r] = <<r.rank, r.surface>> /\ F[r] \in S
    BY <1>7, <2>1, <2>4 DEF Row
  <2>6. ASSUME NEW r \in rows, NEW q \in rows, F[r] = F[q] PROVE r = q
    <3>1. r.rank = q.rank /\ r.surface = q.surface
      BY <2>5, <2>6
    <3>2. PICK n \in DOMAIN f.picks : r \in RowsFor(f, f.picks[n])
      BY <1>4
    <3>3. q \in RowsFor(f, f.picks[n])
      BY <1>2, <1>5, <1>8, <3>1, <3>2 DEF WithRank
    <3> QED BY <3>1, <3>2, <3>3 DEF RowsFor, RowFor
  <2> QED BY <2>3, <2>5, <2>6, Images
<1> QED BY <1>7, <1>9, <1>10, <1>11

\* The cards of one message are set.
LEMMA CardsSet ==
  ASSUME msgs \in Seq(Message), NEW i, NEW cards \in Seq(Pick),
         msgs' = [msgs EXCEPT ![i].cards = cards]
  PROVE  /\ msgs' \in Seq(Message) /\ DOMAIN msgs' = DOMAIN msgs
         /\ \A m \in DOMAIN msgs : /\ msgs'[m].conv = msgs[m].conv /\ msgs'[m].role = msgs[m].role
                                   /\ m # i => msgs'[m] = msgs[m]
                                   /\ m = i => msgs'[m].cards = cards
<1>1. /\ Len(msgs) \in Nat /\ DOMAIN msgs = 1 .. Len(msgs)
      /\ \A m \in DOMAIN msgs : msgs[m] \in Message
      /\ msgs = [m \in 1 .. Len(msgs) |-> msgs[m]]
  BY LenProperties
<1>2. DOMAIN msgs' = DOMAIN msgs
  OBVIOUS
<1>3. ASSUME NEW m \in DOMAIN msgs
      PROVE  /\ msgs'[m] \in Message
             /\ msgs'[m].conv = msgs[m].conv /\ msgs'[m].role = msgs[m].role
             /\ m # i => msgs'[m] = msgs[m]
             /\ m = i => msgs'[m].cards = cards
  <2>1. msgs'[m] = IF m = i THEN [msgs[m] EXCEPT !.cards = cards] ELSE msgs[m]
    OBVIOUS
  <2> QED BY <1>1, <2>1 DEF Message
<1>4. msgs' = [m \in 1 .. Len(msgs) |-> msgs'[m]]
  BY <1>1, <1>2
<1>5. msgs' \in Seq(Message)
  <2>1. PICK s, n : s = msgs' /\ n = Len(msgs)
    OBVIOUS
  <2>2. n \in Nat /\ s = [m \in 1 .. n |-> s[m]] /\ \A m \in 1 .. n : s[m] \in Message
    BY <1>1, <1>2, <1>3, <1>4, <2>1
  <2>3. s \in Seq(Message)
    BY ONLY <2>2
  <2> QED BY <2>1, <2>3
<1> QED BY <1>2, <1>3, <1>5

LEMMA PersistStands ==
  ASSUME IInv, NEW w \in Workers, Persist(w)
  PROVE  IInv'
<1>1. PICK f \in Flight : f = flight[w] /\ Stands(f)
  BY FlightOf
<1>2. PICK rows, cards : rows = RowsOf(f) /\ cards = [i \in DOMAIN f.picks |-> f.picks[i].pick]
  OBVIOUS
<1>3. PICK g : g = [f EXCEPT !.step = "shown", !.barred = {}]
  OBVIOUS
<1>4. /\ f.op = "send" /\ f.step = "checked" /\ UNCHANGED <<tile, convs, inquiries, jobs>>
      /\ recs' = recs \union rows /\ flight' = [flight EXCEPT ![w] = g]
  BY <1>1, <1>2, <1>3 DEF Persist, At, Become
<1>5. PICK i : i = f.reply
  OBVIOUS
<1>6. msgs' = [msgs EXCEPT ![i].cards = cards]
  BY <1>1, <1>2, <1>5 DEF Persist
<1>7. /\ i \in DOMAIN msgs /\ msgs[i].conv = f.conv /\ msgs[i].role = "ASSISTANT" /\ Bare(i)
      /\ f.conv \in DOMAIN convs
  <2>1. i \in DOMAIN msgs /\ msgs[i].conv = f.conv /\ msgs[i].role = "ASSISTANT"
    BY <1>1, <1>4, <1>5 DEF Stands, Talks, Sending, Replied
  <2>2. Bare(i)
    BY <1>1, <1>4, <1>5 DEF Stands, Waits, Sending
  <2>3. f.conv \in DOMAIN convs
    BY <1>1, <1>4 DEF Stands, Owns, Sending, Prior, Asked
  <2> QED BY <2>1, <2>2, <2>3
<1>8. Sending(f, {"checked"})
  BY <1>4 DEF Sending
<1>9. /\ rows \subseteq Row /\ IsFiniteSet(rows)
      /\ \A r \in rows : /\ r.msg = i /\ r.user = convs[f.conv].user
                         /\ \E n \in DOMAIN f.picks : r.rank = f.picks[n].rank
      /\ \A n \in DOMAIN f.picks :
           OfCard(WithRank(rows, f.picks[n].rank), f.picks[n].pick)
  <2>1. /\ rows \subseteq Row /\ IsFiniteSet(rows)
        /\ \A r \in rows : /\ r.msg = f.reply /\ r.user = convs[f.conv].user
                           /\ \E n \in DOMAIN f.picks : r.rank = f.picks[n].rank
        /\ \A n \in DOMAIN f.picks :
             OfCard(WithRank(rows, f.picks[n].rank), f.picks[n].pick)
    BY <1>1, <1>2, <1>8, RowsOfPicks
  <2> QED BY <1>5, <2>1
<1>10. f.picks \in Seq(Ranked) /\ \A n \in DOMAIN f.picks : f.picks[n] \in Ranked
  BY LenProperties DEF Flight
<1>11. cards \in Seq(Pick) /\ DOMAIN cards = DOMAIN f.picks
       /\ \A n \in DOMAIN cards : cards[n] = f.picks[n].pick
  <2>1. \A n \in DOMAIN f.picks : f.picks[n].pick \in Pick
    BY <1>10 DEF Ranked
  <2> QED BY <1>2, <1>10, <2>1, LenProperties
<1>12. /\ msgs' \in Seq(Message) /\ DOMAIN msgs' = DOMAIN msgs
       /\ \A m \in DOMAIN msgs : /\ msgs'[m].conv = msgs[m].conv /\ msgs'[m].role = msgs[m].role
                                 /\ m # i => msgs'[m] = msgs[m]
                                 /\ m = i => msgs'[m].cards = cards
  BY <1>6, <1>11, CardsSet DEF IInv, Typed
<1>13. g \in Flight
  BY <1>3 DEF Flight, Steps
<1>14. Typed'
  <2>1. IsFiniteSet(recs') /\ recs' \in SUBSET Row
    BY <1>4, <1>9, FS_Union DEF IInv, Typed
  <2> QED BY <1>4, <1>12, <1>13, <2>1 DEF IInv, Typed
<1>15. RowsStand'
  BY <1>4, <1>7, <1>9, <1>12 DEF IInv, RowsStand
<1>16. Growth
  BY <1>4, <1>12 DEF Growth
<1>17. \A m : m # i => {r \in recs' : r.msg = m} = {r \in recs : r.msg = m}
  BY <1>4, <1>9
<1>18. \A m \in DOMAIN msgs : m # i => KeepsBare(m)
  BY <1>12, <1>17 DEF KeepsBare, Bare, Batch
<1>19. CardsStand'
  <2>1. ASSUME NEW m \in DOMAIN msgs, m # i
        PROVE  (\E ranks \in [DOMAIN msgs[m].cards -> 1 .. MaxPicks] : RankedBy(m, ranks))'
    <3>1. PICK ranks \in [DOMAIN msgs[m].cards -> 1 .. MaxPicks] : RankedBy(m, ranks)
      BY DEF IInv, CardsStand
    <3>2. msgs'[m] = msgs[m] /\ Batch(m)' = Batch(m)
      BY <1>12, <1>17, <2>1 DEF Batch
    <3>3. RankedBy(m, ranks)'
      BY <3>1, <3>2, SameRanks
    <3> QED BY <3>1, <3>2, <3>3
  <2>2. (\E ranks \in [DOMAIN msgs[i].cards -> 1 .. MaxPicks] : RankedBy(i, ranks))'
    <3>1. PICK ranks : ranks = [n \in DOMAIN f.picks |-> f.picks[n].rank]
      OBVIOUS
    <3>2. ranks \in [DOMAIN cards -> 1 .. MaxPicks] /\ DOMAIN ranks = DOMAIN f.picks
      BY <1>10, <1>11, <3>1 DEF Ranked
    <3>3. msgs'[i].cards = cards
      BY <1>7, <1>12
    <3>4. {r \in recs' : r.msg = i} = rows
      BY <1>4, <1>7, <1>9 DEF Bare, Batch
    <3>5. \A m, n \in DOMAIN ranks : m < n => ranks[m] < ranks[n]
      BY <1>1, <3>1 DEF Stands, Ascend
    <3>6. \A r \in rows : \E n \in DOMAIN ranks : r.rank = ranks[n]
      BY <1>9, <3>1
    <3>7. ASSUME NEW n \in DOMAIN ranks
          PROVE  OfCard(WithRank(rows, ranks[n]), cards[n])
      <4>1. ranks[n] = f.picks[n].rank /\ cards[n] = f.picks[n].pick
        BY <1>11, <3>1
      <4> QED BY <1>9, <3>2, <4>1
    <3>8. RankedBy(i, ranks)'
      BY <3>3, <3>4, <3>5, <3>6, <3>7, RankedThen
    <3> QED BY <3>2, <3>3, <3>8
  <2> QED BY <1>12, <2>1, <2>2 DEF CardsStand
<1>20. /\ g.op = "send" /\ g.step = "shown" /\ g.conv = f.conv /\ g.user = f.user
       /\ g.session = f.session /\ g.picks = f.picks /\ g.barred = {}
       /\ g.prior = f.prior /\ g.question = f.question /\ g.reply = i
  BY <1>3, <1>4, <1>5 DEF Flight
<1>21. Stands(g)'
  <2>1. Owns(g)'
    BY <1>1, <1>4, <1>20 DEF Stands, Owns, Sending, Prior, Asked
  <2>2. Ascend(g)' /\ Barred(g)' /\ Checked(g)'
    BY <1>1, <1>20 DEF Stands, Ascend, Barred, Checked, Sending
  <2>3. Saw(g)'
    BY <1>1, <1>4, <1>20 DEF Stands, Saw, Sending, Prior, Asked
  <2>4. Talks(g)'
    BY <1>1, <1>4, <1>5, <1>12, <1>20 DEF Stands, Talks, Sending, Asked, Replied
  <2>5. f.picks # <<>>
    BY <1>1, <1>4 DEF Stands, Checked, Sending
  <2>6. Waits(g)'
    BY <1>20, <2>5 DEF Waits, Sending
  <2> QED BY <2>1, <2>2, <2>3, <2>4, <2>6 DEF Stands
<1>22. \A v \in Workers \ {w} : Sending(flight[v], Replied) =>
         KeepsBare(flight[v].reply) /\ (Sending(g, Replied) => flight[v].reply # g.reply)
  <2> SUFFICES ASSUME NEW v \in Workers \ {w}, Sending(flight[v], Replied)
               PROVE  KeepsBare(flight[v].reply) /\ flight[v].reply # i
    BY <1>20
  <2>1. Sending(flight[w], Replied)
    BY <1>1, <1>4 DEF Sending, Replied
  <2>2. flight[v].reply # i
    BY <1>1, <1>5, <2>1 DEF IInv, RepliesDiffer
  <2>3. PICK m : m = flight[v].reply
    OBVIOUS
  <2>4. m \in DOMAIN msgs
    BY <2>3 DEF IInv, FlightsStand, Stands, Talks
  <2>5. KeepsBare(m)
    BY <1>18, <2>2, <2>3, <2>4
  <2>6. flight'[v] = flight[v]
    BY <1>4 DEF IInv, Typed
  <2> QED BY <2>2, <2>3, <2>5, <2>6 DEF KeepsBare, Bare, Batch
<1>23. \A q \in inquiries : /\ KeepsBare(q.reply)
                            /\ Sending(g, {"answered", "checked"}) => g.reply # q.reply
  <2> TAKE q \in inquiries
  <2>1. FollowsUp(q)
    BY DEF IInv, InquiriesStand
  <2>2. q.reply \in DOMAIN msgs /\ q.reply # i
    BY <1>1, <1>4, <1>5, <2>1 DEF FollowsUp, Sending
  <2>3. ~Sending(g, {"answered", "checked"})
    BY <1>20 DEF Sending
  <2> QED BY <1>18, <2>2, <2>3
<1>24. FlightsStand' /\ RepliesDiffer' /\ InquiriesStand'
  BY <1>4, <1>13, <1>16, <1>21, <1>22, <1>23, OneMoves DEF IInv
<1> QED BY <1>14, <1>15, <1>19, <1>24 DEF IInv

LEMMA LogInquiryStands ==
  ASSUME IInv, NEW w \in Workers, LogInquiry(w)
  PROVE  IInv'
<1>1. PICK f \in Flight : f = flight[w] /\ Stands(f)
  BY FlightOf
<1>2. PICK g : g = Idle
  OBVIOUS
<1>3. /\ f.op = "send" /\ f.step = "shown" /\ UNCHANGED <<tile, convs, msgs, recs, jobs>>
      /\ flight' = [flight EXCEPT ![w] = g] /\ g \in Flight
  BY <1>1, <1>2, IdleFlies DEF LogInquiry, At, Become
<1>4. PICK new : new = [msg |-> f.question, reply |-> f.reply, user |-> f.user]
  OBVIOUS
<1>5. /\ \A q \in inquiries' : q \in inquiries \/
           (q = new /\ f.prior /\ f.picks = <<>> /\ f.user \in Clients)
  BY <1>1, <1>4 DEF LogInquiry
<1>6. new \in Inquiry /\ new.msg = f.question /\ new.reply = f.reply /\ new.user = f.user
  BY <1>1, <1>3, <1>4 DEF Stands, Owns, Inquiry, Flight
<1>7. Typed'
  BY <1>3, <1>5, <1>6 DEF IInv, Typed
<1>8. g.op = "none" /\ g.conv = 0 /\ g.picks = <<>> /\ g.barred = {}
  BY <1>2 DEF Idle
<1>9. Stands(g)'
  BY <1>8, IdleStands
<1>10. ~Sending(g, Replied) /\ ~Sending(g, {"answered", "checked"})
  BY <1>8 DEF Sending
<1>11. \A v \in Workers : v # w => flight'[v] = flight[v]
  BY <1>3 DEF IInv, Typed
<1>12. flight'[w] = g
  BY <1>3 DEF IInv, Typed
<1>13. ASSUME f.prior, f.picks = <<>>, f.user \in Clients PROVE FollowsUp(new)'
  <2>1. /\ f.question \in DOMAIN msgs /\ msgs[f.question].conv = f.conv
        /\ f.reply \in DOMAIN msgs /\ f.conv \in DOMAIN convs /\ convs[f.conv].user = f.user
    BY <1>1, <1>3 DEF Stands, Talks, Owns, Sending, Asked, Replied, Prior
  <2>2. Bare(f.reply)
    BY <1>1, <1>3, <1>13 DEF Stands, Waits, Sending
  <2>3. \E r \in recs : r.msg < f.question /\ r.session = convs[f.conv].session
    BY <1>1, <1>3, <1>13 DEF Stands, Saw, Sending, Asked
  <2>4. \A v \in Workers : Sending(flight'[v], {"answered", "checked"}) => flight'[v].reply # f.reply
    <3> TAKE v \in Workers
    <3>1. CASE v = w
      BY <1>10, <1>12, <3>1
    <3>2. CASE v # w
      <4>1. Sending(flight[v], Replied) /\ Sending(flight[w], Replied)
              => flight[v].reply # flight[w].reply
        BY <3>2 DEF IInv, RepliesDiffer
      <4>2. Sending(flight[w], Replied)
        BY <1>1, <1>3 DEF Sending, Replied
      <4>3. Sending(flight[v], {"answered", "checked"}) => Sending(flight[v], Replied)
        BY DEF Sending, Replied
      <4> QED BY <1>1, <1>11, <3>2, <4>1, <4>2, <4>3
    <3> QED BY <3>1, <3>2
  <2>5. Bare(new.reply)'
    BY <1>3, <1>6, <2>2 DEF Bare, Batch
  <2>6. (\A v \in Workers : Sending(flight[v], {"answered", "checked"}) => flight[v].reply # new.reply)'
    BY <1>6, <2>4 DEF Sending
  <2>7. (\E r \in recs : r.msg < new.msg /\ r.session = convs[msgs[new.msg].conv].session)'
    BY <1>3, <1>6, <2>1, <2>3
  <2>8. (/\ new.user \in Clients
         /\ new.msg \in DOMAIN msgs /\ new.user = convs[msgs[new.msg].conv].user
         /\ new.reply \in DOMAIN msgs)'
    BY <1>3, <1>6, <1>13, <2>1
  <2> QED BY <2>5, <2>6, <2>7, <2>8 DEF FollowsUp
<1>14. \A q \in inquiries' : q \in inquiries \/ FollowsUp(q)'
  BY <1>5, <1>13
<1>15. RowsStand' /\ FlightsStand' /\ RepliesDiffer' /\ InquiriesStand' /\ CardsStand'
  BY <1>1, <1>3, <1>9, <1>10, <1>14, QuietMove
<1> QED BY <1>7, <1>15 DEF IInv

-----------------------------------------------------------------------------
(* The steps of a preview, and the end of any request.                     *)

LEMMA BeginPreviewStands ==
  ASSUME IInv, NEW w \in Workers, NEW u \in Users, NEW c \in Convs, BeginPreview(w, u, c)
  PROVE  IInv'
<1>1. PICK g : g = [Idle EXCEPT !.op = "preview", !.step = "begun", !.user = u, !.conv = c]
  OBVIOUS
<1>2. PICK n : n = Len(msgs')
  OBVIOUS
<1>3. /\ c \in Owned(u) /\ Write(c, "USER", "photo", <<>>)
      /\ flight' = [flight EXCEPT ![w] = g] /\ UNCHANGED <<tile, convs, recs, inquiries, jobs>>
  BY <1>1 DEF BeginPreview, Become
<1>4. c \in DOMAIN convs /\ convs[c].user = u /\ c \in Nat \ {0}
  BY <1>3, LenProperties DEF Owned, Convs, IInv, Typed
<1>5. g \in Flight
  BY <1>1, <1>4, IdleFlies DEF Flight, Steps
<1>6. (msgs \in Seq(Message))'
  BY <1>2, <1>3, <1>4, Writes DEF IInv
<1>7. Typed'
  BY <1>3, <1>5, <1>6 DEF IInv, Typed
<1>8. g.op = "preview" /\ g.user = u /\ g.conv = c /\ g.picks = <<>> /\ g.barred = {}
  BY <1>1 DEF Idle
<1>9. Stands(g)'
  BY <1>3, <1>4, <1>8 DEF Stands, Owns, Talks, Saw, Waits, Checked, Ascend, Barred, Sending
<1>10. ~Sending(g, Replied)
  BY <1>8 DEF Sending
<1>11. RowsStand' /\ FlightsStand' /\ RepliesDiffer' /\ InquiriesStand' /\ CardsStand'
  BY <1>2, <1>3, <1>4, <1>5, <1>9, <1>10, WriteMove
<1> QED BY <1>7, <1>11 DEF IInv

\* A preview moves on to another step, perhaps with a job.
LEMMA PreviewMoves ==
  ASSUME IInv, NEW w \in Workers, NEW f \in Flight, f = flight[w], Stands(f), f.op = "preview",
         NEW step \in Steps, NEW job \in Nat,
         NEW g, g = [f EXCEPT !.step = step, !.job = job], flight' = [flight EXCEPT ![w] = g],
         UNCHANGED <<tile, convs, msgs, recs, inquiries>>,
         jobs' \in Seq({"PROCESSING", "COMPLETED", "FAILED"})
  PROVE  IInv'
<1>1. /\ g \in Flight /\ g.op = "preview" /\ g.conv = f.conv /\ g.user = f.user
      /\ g.picks = f.picks /\ g.barred = f.barred
  BY DEF Flight
<1>2. Typed'
  BY <1>1 DEF IInv, Typed
<1>3. Stands(g)'
  <2>1. Owns(g)'
    BY <1>1 DEF Stands, Owns, Sending
  <2>2. Ascend(g)' /\ Barred(g)'
    BY <1>1 DEF Stands, Ascend, Barred, Sending, Eligible
  <2> QED BY <1>1, <2>1, <2>2 DEF Stands, Talks, Saw, Waits, Checked, Sending
<1>4. ~Sending(g, Replied) /\ ~Sending(g, {"answered", "checked"})
  BY <1>1 DEF Sending
<1>5. RowsStand' /\ FlightsStand' /\ RepliesDiffer' /\ InquiriesStand' /\ CardsStand'
  BY <1>1, <1>3, <1>4, QuietMove
<1> QED BY <1>2, <1>5 DEF IInv

LEMMA CreateJobStands ==
  ASSUME IInv, NEW w \in Workers, CreateJob(w)
  PROVE  IInv'
<1>1. PICK f \in Flight : f = flight[w] /\ Stands(f)
  BY FlightOf
<1>2. PICK n : n = Len(jobs')
  OBVIOUS
<1>3. PICK g : g = [f EXCEPT !.step = "working", !.job = n]
  OBVIOUS
<1>4. /\ f.op = "preview" /\ jobs' = Append(jobs, "PROCESSING")
      /\ flight' = [flight EXCEPT ![w] = g] /\ UNCHANGED <<tile, convs, msgs, recs, inquiries>>
  BY <1>1, <1>2, <1>3 DEF CreateJob, At, Become
<1>5. jobs' \in Seq({"PROCESSING", "COMPLETED", "FAILED"}) /\ n \in Nat
  <2>1. jobs \in Seq({"PROCESSING", "COMPLETED", "FAILED"})
    BY DEF IInv, Typed
  <2> QED BY <1>2, <1>4, <2>1, AppendProperties, LenProperties
<1>6. "working" \in Steps
  BY DEF Steps
<1> QED BY <1>1, <1>3, <1>4, <1>5, <1>6, PreviewMoves

LEMMA FinishJobStands ==
  ASSUME IInv, NEW w \in Workers, NEW status \in {"COMPLETED", "FAILED"}, FinishJob(w, status)
  PROVE  IInv'
<1>1. PICK f \in Flight : f = flight[w] /\ Stands(f)
  BY FlightOf
<1>2. PICK job : job = f.job
  OBVIOUS
<1>3. PICK g : g = [f EXCEPT !.step = status, !.job = job]
  OBVIOUS
<1>4. g = [f EXCEPT !.step = status]
  BY <1>2, <1>3 DEF Flight
<1>5. /\ f.op = "preview" /\ jobs' = [jobs EXCEPT ![job] = status]
      /\ UNCHANGED <<tile, convs, msgs, recs, inquiries>>
  BY <1>1, <1>2 DEF FinishJob, At
<1>6. flight' = [flight EXCEPT ![w] = g]
  BY <1>1, <1>4 DEF FinishJob, Goto
<1>7. jobs' \in Seq({"PROCESSING", "COMPLETED", "FAILED"})
  <2>1. jobs \in Seq({"PROCESSING", "COMPLETED", "FAILED"})
    BY DEF IInv, Typed
  <2>2. CASE job \in DOMAIN jobs
    BY <1>5, <2>1, <2>2, ExceptSeq, LenProperties
  <2>3. CASE job \notin DOMAIN jobs
    <3>1. jobs' = jobs
      BY <1>5, <2>1, <2>3
    <3> QED BY <2>1, <3>1
  <2> QED BY <2>2, <2>3
<1>8. status \in Steps /\ job \in Nat
  BY <1>2 DEF Steps, Flight
<1> QED BY <1>1, <1>3, <1>5, <1>6, <1>7, <1>8, PreviewMoves

LEMMA AnswerPreviewStands ==
  ASSUME IInv, NEW w \in Workers, AnswerPreview(w)
  PROVE  IInv'
<1>1. PICK f \in Flight : f = flight[w] /\ Stands(f)
  BY FlightOf
<1>2. PICK n, c, shows, g : /\ n = Len(msgs') /\ c = f.conv /\ g = Idle
                            /\ shows = IF f.step = "COMPLETED" THEN "preview" ELSE "sorry"
  OBVIOUS
<1>3. /\ f.op = "preview" /\ Write(c, "ASSISTANT", shows, <<>>)
      /\ flight' = [flight EXCEPT ![w] = g] /\ UNCHANGED <<tile, convs, recs, inquiries, jobs>>
  BY <1>1, <1>2 DEF AnswerPreview, Become
<1>4. c \in DOMAIN convs
  BY <1>1, <1>2, <1>3 DEF Stands, Owns
<1>5. shows \in {"text", "photo", "preview", "sorry"} /\ g \in Flight
  BY <1>2, IdleFlies
<1>6. (msgs \in Seq(Message))'
  BY <1>2, <1>3, <1>4, <1>5, Writes DEF IInv
<1>7. Typed'
  BY <1>3, <1>5, <1>6 DEF IInv, Typed
<1>8. g.op = "none" /\ g.conv = 0 /\ g.picks = <<>> /\ g.barred = {}
  BY <1>2 DEF Idle
<1>9. Stands(g)'
  BY <1>8, IdleStands
<1>10. ~Sending(g, Replied)
  BY <1>8 DEF Sending
<1>11. RowsStand' /\ FlightsStand' /\ RepliesDiffer' /\ InquiriesStand' /\ CardsStand'
  BY <1>2, <1>3, <1>4, <1>5, <1>9, <1>10, WriteMove
<1> QED BY <1>7, <1>11 DEF IInv

LEMMA DropStands ==
  ASSUME IInv, NEW w \in Workers, Drop(w)
  PROVE  IInv'
<1>1. PICK f \in Flight : f = flight[w]
  BY FlightOf
<1>2. PICK g : g = Idle
  OBVIOUS
<1>3. /\ UNCHANGED <<tile, convs, msgs, recs, inquiries, jobs>>
      /\ flight' = [flight EXCEPT ![w] = g] /\ g \in Flight
  BY <1>2, IdleFlies DEF Drop, Become
<1>4. Typed'
  BY <1>3 DEF IInv, Typed
<1>5. g.op = "none" /\ g.conv = 0 /\ g.picks = <<>> /\ g.barred = {}
  BY <1>2 DEF Idle
<1>6. Stands(g)'
  BY <1>5, IdleStands
<1>7. ~Sending(g, Replied) /\ ~Sending(g, {"answered", "checked"})
  BY <1>5 DEF Sending
<1>8. RowsStand' /\ FlightsStand' /\ RepliesDiffer' /\ InquiriesStand' /\ CardsStand'
  BY <1>1, <1>3, <1>6, <1>7, QuietMove
<1> QED BY <1>4, <1>8 DEF IInv

-----------------------------------------------------------------------------
(* Customers and staff.                                                    *)

LEMMA StartConversationStands ==
  ASSUME IInv, NEW u \in Users, StartConversation(u)
  PROVE  IInv'
<1>1. PICK c, new : c = Len(convs) + 1 /\ new = [user |-> u, session |-> c, title |-> "default"]
  OBVIOUS
<1>2. /\ convs' = Append(convs, new) /\ Len(convs) < MaxConversations
      /\ UNCHANGED <<tile, msgs, recs, inquiries, jobs, flight>>
      /\ convs \in Seq(Conversation)
  BY <1>1 DEF StartConversation, IInv, Typed
<1>3. c \in 1 .. MaxConversations
  BY <1>1, <1>2, PicksAssumption, LenProperties
<1>4. new \in Conversation
  BY <1>1, <1>3 DEF Conversation, Session
<1>5. /\ convs' \in Seq(Conversation) /\ Len(convs') = c
      /\ DOMAIN convs' = 1 .. c /\ DOMAIN convs = 1 .. c - 1
      /\ \A d \in DOMAIN convs : convs'[d] = convs[d]
  BY <1>1, <1>2, <1>4, AppendProperties, LenProperties
<1>6. Typed'
  BY <1>2, <1>3, <1>5 DEF IInv, Typed
<1>7. \A d \in DOMAIN convs : d \in DOMAIN convs' /\ convs'[d].user = convs[d].user
                                /\ convs'[d].session = convs[d].session
  BY <1>3, <1>5
<1>8. RowsStand' /\ CardsStand' /\ Growth /\ \A m : KeepsBare(m)
  BY <1>2, <1>7, Quiet DEF IInv
<1>9. FlightsStand' /\ RepliesDiffer' /\ InquiriesStand'
  BY <1>2, <1>8, NoneMoves DEF IInv
<1> QED BY <1>6, <1>8, <1>9 DEF IInv

LEMMA RenameConversationStands ==
  ASSUME IInv, NEW u \in Users, NEW c \in Convs, RenameConversation(u, c)
  PROVE  IInv'
<1>1. /\ convs' = [convs EXCEPT ![c].title = "chosen"]
      /\ UNCHANGED <<tile, msgs, recs, inquiries, jobs, flight>>
      /\ convs \in Seq(Conversation)
  BY DEF RenameConversation, IInv, Typed
<1>2. /\ convs' \in Seq(Conversation) /\ Len(convs') = Len(convs) /\ DOMAIN convs' = DOMAIN convs
      /\ \A d \in DOMAIN convs : convs'[d].user = convs[d].user /\ convs'[d].session = convs[d].session
  BY <1>1, Titled
<1>3. Typed'
  BY <1>1, <1>2 DEF IInv, Typed
<1>4. RowsStand' /\ CardsStand' /\ Growth /\ \A m : KeepsBare(m)
  BY <1>1, <1>2, Quiet DEF IInv
<1>5. FlightsStand' /\ RepliesDiffer' /\ InquiriesStand'
  BY <1>1, <1>4, NoneMoves DEF IInv
<1> QED BY <1>3, <1>4, <1>5 DEF IInv

\* A row after the decision on some rows.
Decided(r, rows, d) == IF r \in rows THEN [r EXCEPT !.decision = d] ELSE r

LEMMA DecidedRow ==
  ASSUME NEW r \in Row, NEW rows, NEW d \in Verdicts, NEW q, q = Decided(r, rows, d)
  PROVE  /\ q \in Row /\ q.msg = r.msg /\ q.session = r.session /\ q.user = r.user
         /\ q.product = r.product /\ q.rank = r.rank /\ q.surface = r.surface
BY VerdictsAssumption DEF Decided, Row

\* The cards of a message still match its rows when those have been decided on.
LEMMA DecidedCards ==
  ASSUME NEW G \in SUBSET Row, NEW H, NEW rows, NEW d \in Verdicts, NEW card, OfCard(G, card),
         \A q : q \in H <=> \E r \in G : q = Decided(r, rows, d)
  PROVE  OfCard(H, card)
<1>1. CASE OneRow(G, card)
  <2>1. PICK a : G = {a} /\ a.surface = "NULL" /\ a.product = card.floor
    BY <1>1 DEF OneRow
  <2>2. PICK q : q = Decided(a, rows, d)
    OBVIOUS
  <2>3. q.surface = a.surface /\ q.product = a.product
    BY <2>1, <2>2, DecidedRow
  <2>4. H = {q}
    BY <2>1, <2>2
  <2> QED BY <1>1, <2>1, <2>3, <2>4 DEF OfCard, OneRow
<1>2. CASE TwoRows(G, card)
  <2>1. PICK a, b : G = {a, b} /\ a.surface = "FLOOR" /\ b.surface = "WALL"
                    /\ a.product = card.floor /\ b.product = card.wall
    BY <1>2 DEF TwoRows
  <2>2. PICK p, q : p = Decided(a, rows, d) /\ q = Decided(b, rows, d)
    OBVIOUS
  <2>3. a \in Row /\ b \in Row
    BY <2>1
  <2>4. p.surface = a.surface /\ p.product = a.product
    BY <2>2, <2>3, DecidedRow
  <2>5. q.surface = b.surface /\ q.product = b.product
    BY <2>2, <2>3, DecidedRow
  <2>6. H = {p, q}
    BY <2>1, <2>2
  <2> QED BY <1>2, <2>1, <2>4, <2>5, <2>6 DEF OfCard, TwoRows
<1> QED BY <1>1, <1>2 DEF OfCard

LEMMA DecideStands ==
  ASSUME IInv, NEW u \in Users, NEW rows, NEW d \in Verdicts, Decide(u, rows, d)
  PROVE  IInv'
<1>1. /\ rows \subseteq recs /\ recs' = (recs \ rows) \union {[r EXCEPT !.decision = d] : r \in rows}
      /\ UNCHANGED <<tile, convs, msgs, inquiries, jobs, flight>>
      /\ recs \subseteq Row /\ IsFiniteSet(recs)
  BY DEF Decide, IInv, Typed
<1>2. \A q : q \in recs' <=> \E r \in recs : q = Decided(r, rows, d)
  BY <1>1 DEF Decided
<1>3. \A r \in recs : LET q == Decided(r, rows, d)
                      IN /\ q \in Row /\ q.msg = r.msg /\ q.session = r.session /\ q.user = r.user
                         /\ q.rank = r.rank
  <2> TAKE r \in recs
  <2>1. PICK q : q = Decided(r, rows, d)
    OBVIOUS
  <2>2. r \in Row
    BY <1>1
  <2>3. /\ q \in Row /\ q.msg = r.msg /\ q.session = r.session /\ q.user = r.user
        /\ q.rank = r.rank
    BY <2>1, <2>2, DecidedRow
  <2> QED BY <2>1, <2>3
<1>4. IsFiniteSet(recs')
  <2>1. PICK T, F : T = recs' /\ F = [x \in T |-> CHOOSE r \in recs : x = Decided(r, rows, d)]
    OBVIOUS
  <2>2. \A x \in T : F[x] \in recs /\ x = Decided(F[x], rows, d)
    BY <1>2, <2>1
  <2>3. \A x, y \in T : F[x] = F[y] => x = y
    BY <2>2
  <2>4. IsFiniteSet(T)
    BY <1>1, <2>2, <2>3, Images
  <2> QED BY <2>1, <2>4
<1>5. Typed'
  BY <1>1, <1>2, <1>3, <1>4 DEF IInv, Typed
<1>6. RowsStand'
  BY <1>1, <1>2, <1>3 DEF IInv, RowsStand
<1>7. Growth
  <2>1. \A r \in recs : \E q \in recs' : q.msg = r.msg /\ q.session = r.session
    BY <1>2, <1>3
  <2> QED BY <1>1, <2>1 DEF Growth
<1>8. \A m \in DOMAIN msgs : KeepsBare(m)
  <2> TAKE m \in DOMAIN msgs
  <2>1. SUFFICES ASSUME Bare(m) PROVE Bare(m)'
    BY DEF KeepsBare
  <2>2. \A q \in recs' : q.msg # m
    BY <1>2, <1>3, <2>1 DEF Bare, Batch
  <2> QED BY <1>1, <2>1, <2>2 DEF Bare, Batch
<1>9. CardsStand'
  <2>1. ASSUME NEW m \in DOMAIN msgs
        PROVE  (\E ranks \in [DOMAIN msgs[m].cards -> 1 .. MaxPicks] : RankedBy(m, ranks))'
    <3>1. PICK ranks \in [DOMAIN msgs[m].cards -> 1 .. MaxPicks] : RankedBy(m, ranks)
      BY DEF IInv, CardsStand
    <3>2. PICK old, new, cards : /\ old = {r \in recs : r.msg = m} /\ new = {r \in recs' : r.msg = m}
                                 /\ cards = msgs[m].cards
      OBVIOUS
    <3>3. /\ \A i, j \in DOMAIN ranks : i < j => ranks[i] < ranks[j]
          /\ \A r \in old : \E n \in DOMAIN ranks : r.rank = ranks[n]
          /\ \A n \in DOMAIN ranks : OfCard(WithRank(old, ranks[n]), cards[n])
      BY <3>1, <3>2 DEF RankedBy, Batch
    <3>4. \A q : q \in new <=> \E r \in old : q = Decided(r, rows, d)
      BY <1>2, <1>3, <3>2
    <3>5. \A r \in new : \E n \in DOMAIN ranks : r.rank = ranks[n]
      BY <1>3, <3>2, <3>3, <3>4
    <3>6. ASSUME NEW n \in DOMAIN ranks PROVE OfCard(WithRank(new, ranks[n]), cards[n])
      <4>1. PICK G, H, card : G = WithRank(old, ranks[n]) /\ H = WithRank(new, ranks[n]) /\ card = cards[n]
        OBVIOUS
      <4>2. OfCard(G, card) /\ G \in SUBSET Row
        BY <1>1, <3>2, <3>3, <4>1 DEF WithRank
      <4>3. \A q : q \in H <=> \E r \in G : q = Decided(r, rows, d)
        BY <1>3, <3>2, <3>4, <4>1 DEF WithRank
      <4>4. OfCard(H, card)
        BY <4>2, <4>3, DecidedCards
      <4> QED BY <4>1, <4>4
    <3>7. msgs'[m].cards = cards /\ {r \in recs' : r.msg = m} = new
      BY <1>1, <3>2
    <3>8. \A i, j \in DOMAIN ranks : i < j => ranks[i] < ranks[j]
      BY <3>3
    <3>9. RankedBy(m, ranks)'
      BY <3>5, <3>6, <3>7, <3>8, RankedThen
    <3> QED BY <1>1, <3>1, <3>9
  <2> QED BY <1>1, <2>1 DEF CardsStand
<1>10. FlightsStand' /\ RepliesDiffer' /\ InquiriesStand'
  BY <1>1, <1>7, <1>8, NoneMoves DEF IInv
<1> QED BY <1>5, <1>6, <1>9, <1>10 DEF IInv

LEMMA SetTileStands ==
  ASSUME IInv, NEW p \in Products, NEW state \in {"shown", "excluded", "inactive"},
         SetTile(p, state)
  PROVE  IInv'
<1>1. /\ tile' = [tile EXCEPT ![p] = state] /\ tile \in [Products -> {"shown", "excluded", "inactive"}]
      /\ UNCHANGED <<convs, msgs, recs, inquiries, jobs>>
  BY DEF SetTile, IInv, Typed
<1>2. ASSUME NEW w \in Workers
      PROVE  \E f, g \in Flight :
               /\ f = flight[w] /\ g = flight'[w] /\ Stands(f) /\ g = [f EXCEPT !.barred = g.barred]
               /\ g.barred = IF state = "shown" THEN f.barred \ {p} ELSE f.barred
  <2>1. PICK f \in Flight : f = flight[w] /\ Stands(f)
    BY FlightOf
  <2>2. PICK barred : barred = IF state = "shown" THEN f.barred \ {p} ELSE f.barred
    OBVIOUS
  <2>3. PICK g : g = [f EXCEPT !.barred = barred]
    OBVIOUS
  <2>4. g \in Flight /\ g.barred = barred
    BY <2>2, <2>3 DEF Flight
  <2>5. g = flight'[w]
    BY <2>1, <2>2, <2>3 DEF SetTile
  <2>6. g = [f EXCEPT !.barred = g.barred]
    BY <2>3, <2>4
  <2> QED BY <2>1, <2>2, <2>4, <2>5, <2>6
<1>3. flight' \in [Workers -> Flight]
  <2>1. ASSUME NEW w \in Workers PROVE flight'[w] \in Flight
    <3>1. PICK f, g : /\ f \in Flight /\ g \in Flight /\ f = flight[w] /\ g = flight'[w] /\ Stands(f)
                      /\ g = [f EXCEPT !.barred = g.barred]
                      /\ g.barred = IF state = "shown" THEN f.barred \ {p} ELSE f.barred
      BY <1>2
    <3> QED BY <3>1
  <2> QED BY <2>1 DEF SetTile
<1>4. Typed'
  BY <1>1, <1>3 DEF IInv, Typed
<1>5. RowsStand' /\ CardsStand' /\ Growth /\ \A m : KeepsBare(m)
  BY <1>1, Quiet DEF IInv
<1>6. ASSUME NEW w \in Workers PROVE Stands(flight[w])'
  <2>1. PICK f, g : /\ f \in Flight /\ g \in Flight /\ f = flight[w] /\ g = flight'[w] /\ Stands(f)
                    /\ g = [f EXCEPT !.barred = g.barred]
                    /\ g.barred = IF state = "shown" THEN f.barred \ {p} ELSE f.barred
    BY <1>2
  <2>2. (g.barred \intersect Eligible = {})'
    BY <1>1, <2>1 DEF Stands, Barred, Eligible
  <2>3. Sending(f, Replied) => KeepsBare(f.reply)
    BY <1>5
  <2>4. Stands(g)'
    BY <1>5, <2>1, <2>2, <2>3, StandsKeeps DEF IInv
  <2> QED BY <2>1, <2>4, StandsThere
<1>7. FlightsStand'
  BY <1>6 DEF FlightsStand
<1>8. \A w \in Workers : /\ flight'[w].op = flight[w].op /\ flight'[w].step = flight[w].step
                         /\ flight'[w].reply = flight[w].reply
  <2> TAKE w \in Workers
  <2>1. PICK f, g : /\ f \in Flight /\ g \in Flight /\ f = flight[w] /\ g = flight'[w] /\ Stands(f)
                    /\ g = [f EXCEPT !.barred = g.barred]
                    /\ g.barred = IF state = "shown" THEN f.barred \ {p} ELSE f.barred
    BY <1>2
  <2>2. g.op = f.op /\ g.step = f.step /\ g.reply = f.reply
    BY <2>1 DEF Flight
  <2> QED BY <2>1, <2>2
<1>9. RepliesDiffer'
  BY <1>8 DEF IInv, RepliesDiffer, Sending
<1>10. ASSUME NEW q \in inquiries PROVE FollowsUp(q)'
  <2>1. FollowsUp(q)
    BY DEF IInv, InquiriesStand
  <2>2. \A w \in Workers : Sending(flight'[w], {"answered", "checked"}) => flight'[w].reply # q.reply
    BY <1>8, <2>1 DEF FollowsUp, Sending
  <2>3. KeepsBare(q.reply)
    BY <1>5
  <2> QED BY <1>5, <2>1, <2>2, <2>3, FollowsKeeps DEF IInv
<1>11. InquiriesStand'
  BY <1>1, <1>10 DEF InquiriesStand
<1> QED BY <1>4, <1>5, <1>7, <1>9, <1>11 DEF IInv

-----------------------------------------------------------------------------
(* The invariant.                                                          *)

LEMMA InitStands == Init => IInv
<1> SUFFICES ASSUME Init PROVE IInv
  OBVIOUS
<1>1. /\ tile \in [Products -> {"shown"}] /\ convs = <<>> /\ msgs = <<>> /\ recs = {}
      /\ inquiries = {} /\ jobs = <<>> /\ flight = [w \in Workers |-> Idle]
  BY DEF Init
<1>2. <<>> \in Seq(Conversation) /\ <<>> \in Seq(Message) /\ Len(<<>>) = 0 /\ DOMAIN <<>> = {}
      /\ <<>> \in Seq({"PROCESSING", "COMPLETED", "FAILED"})
  OBVIOUS
<1>3. Typed
  <2>1. IsFiniteSet(recs)
    BY <1>1, FS_EmptySet
  <2>2. Len(convs) <= MaxConversations
    BY <1>1, <1>2, PicksAssumption
  <2> QED BY <1>1, <1>2, <2>1, <2>2, IdleFlies DEF Typed
<1>4. Idle.op = "none" /\ Idle.conv = 0 /\ Idle.picks = <<>> /\ Idle.barred = {}
  BY DEF Idle
<1>5. FlightsStand
  BY <1>1, <1>4 DEF FlightsStand, Stands, Owns, Talks, Saw, Waits, Checked, Ascend, Barred, Sending
<1>6. RepliesDiffer /\ InquiriesStand
  BY <1>1, <1>4 DEF RepliesDiffer, InquiriesStand, Sending
<1>7. RowsStand /\ CardsStand
  BY <1>1, <1>2 DEF RowsStand, CardsStand
<1> QED BY <1>3, <1>5, <1>6, <1>7 DEF IInv

LEMMA StutterStands ==
  ASSUME IInv, UNCHANGED vars
  PROVE  IInv'
<1>1. UNCHANGED <<tile, convs, msgs, recs, inquiries, jobs, flight>>
  BY DEF vars
<1>2. RowsStand' /\ CardsStand' /\ Growth /\ \A m : KeepsBare(m)
  BY <1>1, Quiet DEF IInv
<1>3. FlightsStand' /\ RepliesDiffer' /\ InquiriesStand'
  BY <1>1, <1>2, NoneMoves DEF IInv
<1>4. Typed'
  BY <1>1 DEF IInv, Typed
<1> QED BY <1>2, <1>3, <1>4 DEF IInv

LEMMA NextStands == IInv /\ [Next]_vars => IInv'
<1> SUFFICES ASSUME IInv, [Next]_vars PROVE IInv'
  OBVIOUS
<1>1. ASSUME NEW w \in Workers, SendStep(w) PROVE IInv'
  <2>1. ASSUME NEW u \in Users, NEW s \in Sessions, NEW c \in {0} \union Convs, NEW asks \in BOOLEAN,
               Send(w, u, s, c, asks)
        PROVE  IInv'
    BY <2>1, SendStands
  <2>2. CASE CreateConversation(w)
    BY <2>2, CreateConversationStands
  <2>3. CASE CountPrior(w)
    BY <2>3, CountPriorStands
  <2>4. CASE Ask(w)
    BY <2>4, AskStands
  <2>5. CASE Ground(w)
    BY <2>5, GroundStands
  <2>6. CASE Answer(w)
    BY <2>6, AnswerStands
  <2>7. CASE Recheck(w)
    BY <2>7, RecheckStands
  <2>8. CASE Persist(w)
    BY <2>8, PersistStands
  <2>9. CASE LogInquiry(w)
    BY <2>9, LogInquiryStands
  <2> QED BY <1>1, <2>1, <2>2, <2>3, <2>4, <2>5, <2>6, <2>7, <2>8, <2>9 DEF SendStep
<1>2. ASSUME NEW w \in Workers, PreviewStep(w) PROVE IInv'
  <2>1. ASSUME NEW u \in Users, NEW c \in Convs, BeginPreview(w, u, c) PROVE IInv'
    BY <2>1, BeginPreviewStands
  <2>2. CASE CreateJob(w)
    BY <2>2, CreateJobStands
  <2>3. ASSUME NEW status \in {"COMPLETED", "FAILED"}, FinishJob(w, status) PROVE IInv'
    BY <2>3, FinishJobStands
  <2>4. CASE AnswerPreview(w)
    BY <2>4, AnswerPreviewStands
  <2> QED BY <1>2, <2>1, <2>2, <2>3, <2>4 DEF PreviewStep
<1>3. ASSUME NEW w \in Workers, Drop(w) PROVE IInv'
  BY <1>3, DropStands
<1>4. CASE CustomerStep
  <2> SUFFICES ASSUME NEW u \in Users,
                      \/ StartConversation(u)
                      \/ \E c \in Convs : RenameConversation(u, c)
                      \/ \E r \in recs, d \in Verdicts : Decide(u, {r}, d)
                      \/ \E m \in DOMAIN msgs, d \in Verdicts : Batch(m) # {} /\ Decide(u, Batch(m), d)
               PROVE  IInv'
    BY <1>4 DEF CustomerStep
  <2>1. CASE StartConversation(u)
    BY <2>1, StartConversationStands
  <2>2. ASSUME NEW c \in Convs, RenameConversation(u, c) PROVE IInv'
    BY <2>2, RenameConversationStands
  <2>3. ASSUME NEW rows, NEW d \in Verdicts, Decide(u, rows, d) PROVE IInv'
    BY <2>3, DecideStands
  <2>4. ASSUME NEW r \in recs, NEW d \in Verdicts, Decide(u, {r}, d) PROVE IInv'
    <3>1. PICK rows : rows = {r}
      OBVIOUS
    <3> QED BY <2>3, <2>4, <3>1
  <2>5. ASSUME NEW m \in DOMAIN msgs, NEW d \in Verdicts, Decide(u, Batch(m), d) PROVE IInv'
    <3>1. PICK rows : rows = Batch(m)
      OBVIOUS
    <3>2. Decide(u, rows, d)
      BY <2>5, <3>1 DEF Decide
    <3> QED BY <2>3, <3>2
  <2> QED BY <2>1, <2>2, <2>4, <2>5
<1>5. CASE StaffStep
  <2>1. PICK p \in Switched : Exclude(p) \/ Allow(p) \/ RemoveTile(p) \/ Reactivate(p)
    BY <1>5 DEF StaffStep
  <2>2. p \in Products
    BY SwitchedAssumption
  <2>3. \E state \in {"shown", "excluded", "inactive"} : SetTile(p, state)
    BY <2>1 DEF Exclude, Allow, RemoveTile, Reactivate
  <2> QED BY <2>2, <2>3, SetTileStands
<1>6. CASE UNCHANGED vars
  BY <1>6, StutterStands
<1> QED BY <1>1, <1>2, <1>3, <1>4, <1>5, <1>6 DEF Next

\* Whatever turns, previews, reactions and switches overlap, and whichever of them
\* break off, every part of the invariant holds: what a turn of sendMessage has
\* read stays good enough for what it writes after the model has answered.
THEOREM InvariantHolds == Spec => []IInv
<1> QED BY InitStands, NextStands, PTL DEF Spec

\* Every variable keeps its type; a request only works in a conversation of its
\* own user (resolveOwnedConversation), and a recommendation belongs to the
\* customer of the conversation (persistAndResolveRecommendations).
THEOREM TypeCorrect == Spec => []TypeOK
<1>1. IInv => TypeOK
  <2> SUFFICES ASSUME IInv PROVE TypeOK
    OBVIOUS
  <2>1. Typed /\ RowsStand
    BY DEF IInv
  <2>2. \A c \in Convs : convs[c] \in [user : Users, session : Session,
                                      title : {"none", "default", "opening", "chosen"}]
    <3>1. convs \in Seq(Conversation)
      BY <2>1 DEF Typed
    <3>2. \A c \in DOMAIN convs : convs[c] \in Conversation
      BY <3>1, LenProperties
    <3> QED BY <3>2 DEF Conversation, Convs
  <2>3. \A i \in DOMAIN msgs : msgs[i] \in Message /\ msgs[i].conv \in Convs
    BY <2>1, LenProperties DEF Typed, RowsStand, Convs
  <2>4. \A j \in DOMAIN jobs : jobs[j] \in {"PROCESSING", "COMPLETED", "FAILED"}
    BY <2>1, LenProperties DEF Typed
  <2>5. \A r \in recs : r \in Row /\ r.msg \in DOMAIN msgs /\ msgs[r.msg].role = "ASSISTANT"
                        /\ r.user = convs[msgs[r.msg].conv].user
    BY <2>1 DEF Typed, RowsStand
  <2>6. \A w \in Workers : LET f == flight[w]
                           IN /\ f.op \in {"none", "send", "preview"}
                              /\ f.conv # 0 => f.conv \in Owned(f.user)
                              /\ ToSet(f.picks) \subseteq [pick : Pick, rank : 1 .. MaxPicks]
    <3> TAKE w \in Workers
    <3>1. PICK f \in Flight : f = flight[w] /\ Stands(f)
      BY FlightOf
    <3>2. f.op \in {"none", "send", "preview"} /\ f.picks \in Seq(Ranked)
      BY <3>1 DEF Flight
    <3>3. ToSet(f.picks) \subseteq Ranked
      BY <3>2, LenProperties DEF ToSet
    <3>4. f.conv # 0 => f.conv \in Owned(f.user)
      BY <3>1 DEF Stands, Owns, Owned, Convs
    <3> QED BY <3>1, <3>2, <3>3, <3>4 DEF Ranked
  <2>7. tile \in [Products -> {"shown", "excluded", "inactive"}]
    BY <2>1 DEF Typed
  <2> QED BY <2>2, <2>3, <2>4, <2>5, <2>6, <2>7 DEF TypeOK
<1> QED BY <1>1, InvariantHolds, PTL

\* A tile that was out of the recommendations when the model answered, and has
\* been ever since, is not saved as a recommendation, floor or wall, for any
\* number of requests and tiles (the recheck of persistAndResolveRecommendations).
THEOREM BarredTilesStayOut == Spec => []BarredStaysOut
<1>1. IInv => BarredStaysOut
  <2> SUFFICES ASSUME IInv, NEW w \in Workers, At(w, "send", "checked"), NEW p \in ToSet(flight[w].picks)
               PROVE  {p.pick.floor, p.pick.wall} \intersect flight[w].barred = {}
    BY DEF BarredStaysOut
  <2>1. PICK f \in Flight : f = flight[w] /\ Stands(f)
    BY FlightOf
  <2>2. Sending(f, {"checked"})
    BY <2>1 DEF At, Sending
  <2>3. PICK n \in DOMAIN f.picks : p = f.picks[n]
    BY <2>1 DEF ToSet
  <2>4. f.picks[n].pick.floor \notin f.barred /\ f.picks[n].pick.wall \notin f.barred
    BY <2>1, <2>2 DEF Stands, Barred
  <2> QED BY <2>1, <2>3, <2>4
<1> QED BY <1>1, InvariantHolds, PTL

\* The follow-up questions that marketing reads were asked by a client after
\* somebody in the same browser session had been recommended something, and
\* their own answer was no new recommendation, however many turns overlap
\* (hadPriorRecommendations and the guard of the log in sendMessage).
THEOREM InquiriesFollowUp == Spec => []InquiriesAreFollowUps
<1>1. IInv => InquiriesAreFollowUps
  <2> SUFFICES ASSUME IInv, NEW q \in inquiries
               PROVE  /\ q.user \in Clients /\ q.user = convs[msgs[q.msg].conv].user
                      /\ msgs[q.reply].cards = <<>> /\ Batch(q.reply) = {}
                      /\ \E r \in recs : r.msg < q.msg /\ r.session = convs[msgs[q.msg].conv].session
    BY DEF InquiriesAreFollowUps
  <2>1. FollowsUp(q)
    BY DEF IInv, InquiriesStand
  <2> QED BY <2>1 DEF FollowsUp, Bare
<1> QED BY <1>1, InvariantHolds, PTL

-----------------------------------------------------------------------------
(* The reloaded conversation.                                              *)

\* A set whose elements are numbered from 1 to n has n elements.
Numbers(g, S, n) ==
  /\ \A x \in S : g[x] \in 1 .. n
  /\ \A x, y \in S : g[x] = g[y] => x = y
  /\ \A k \in 1 .. n : \E x \in S : g[x] = k

LEMMA Counted ==
  ASSUME NEW S, NEW n \in Nat, NEW g, Numbers(g, S, n)
  PROVE  Cardinality(S) = n
<1>1. PICK h : h = [x \in S |-> g[x]]
  OBVIOUS
<1>2. h \in Injection(S, 1 .. n)
  BY <1>1 DEF Numbers, Injection, IsInjective
<1>3. h \in Surjection(S, 1 .. n)
  BY <1>1 DEF Numbers, Surjection
<1>4. IsFiniteSet(1 .. n) /\ Cardinality(1 .. n) = n
  BY FS_Interval
<1> QED BY <1>2, <1>3, <1>4, FS_Injection

\* s has every element of S once.
Lists(s, S) ==
  /\ s \in Seq(S)
  /\ \A i, j \in DOMAIN s : s[i] = s[j] => i = j
  /\ \A x \in S : \E i \in DOMAIN s : s[i] = x

\* A tie order leaves out no row.
LEMMA OrderIsFull ==
  ASSUME NEW B, IsFiniteSet(B), NEW o \in SetToSeqs(B)
  PROVE  Lists(o, B)
<1>1. PICK n : n = Cardinality(B)
  OBVIOUS
<1>2. n \in Nat
  BY <1>1, FS_CardinalityType
<1>3. o \in [1 .. n -> B] /\ \A i, j \in 1 .. n : i # j => o[i] # o[j]
  BY <1>1 DEF SetToSeqs
<1>4. o \in Seq(B) /\ DOMAIN o = 1 .. n /\ Len(o) = n
  BY <1>2, <1>3
<1>5. o \in Injection(1 .. n, B)
  BY <1>3 DEF Injection, IsInjective
<1>6. Cardinality(1 .. n) = n
  BY <1>2, FS_Interval
<1>7. o \in Surjection(1 .. n, B)
  BY <1>1, <1>5, <1>6, FS_Injection
<1>8. \A b \in B : \E i \in 1 .. n : o[i] = b
  BY <1>7 DEF Surjection
<1> QED BY <1>3, <1>4, <1>8 DEF Lists

\* The card made of a group of rows is the one they were written for.
LEMMA CardOfGroup ==
  ASSUME NEW G, NEW group, Lists(group, G), NEW card \in Pick, OfCard(G, card)
  PROVE  Card(group) = card
<1>1. /\ Len(group) \in Nat /\ DOMAIN group = 1 .. Len(group)
      /\ \A i \in DOMAIN group : group[i] \in G
      /\ \A i, j \in DOMAIN group : group[i] = group[j] => i = j
      /\ \A x \in G : \E i \in DOMAIN group : group[i] = x
  BY LenProperties DEF Lists
<1>2. card = [floor |-> card.floor, wall |-> card.wall]
  BY DEF Pick
<1> DEFINE tagged == {i \in DOMAIN group : group[i].surface = "WALL"}
           walls == IF tagged # {} THEN {Min(tagged)}
                    ELSE IF Len(group) > 1 THEN {Len(group)} ELSE {}
           others == DOMAIN group \ walls
<1>3. Card(group) = [floor |-> group[IF others # {} THEN Min(others) ELSE 1].product,
                     wall |-> IF walls = {} THEN None ELSE group[Min(walls)].product]
  BY DEF Card
<1>4. \A i \in Nat : Min({i}) = i
  BY DEF Min
<1>5. CASE OneRow(G, card)
  <2>1. PICK a : G = {a} /\ a.surface = "NULL" /\ a.product = card.floor
    BY <1>5 DEF OneRow
  <2>2. DOMAIN group = {1} /\ Len(group) = 1 /\ group[1] = a
    <3>1. PICK i \in DOMAIN group : group[i] = a
      BY <1>1, <2>1
    <3>2. \A j \in DOMAIN group : j = i
      BY <1>1, <2>1, <3>1
    <3>3. 1 \in DOMAIN group /\ Len(group) \in DOMAIN group
      BY <1>1, <3>1
    <3> QED BY <1>1, <3>1, <3>2, <3>3
  <2>3. tagged = {}
    BY <2>1, <2>2
  <2>4. walls = {} /\ others = {1}
    <3> HIDE DEF tagged
    <3> QED BY <2>2, <2>3
  <2>5. Min(others) = 1 /\ others # {}
    <3> HIDE DEF others
    <3> QED BY <1>4, <2>4
  <2> HIDE DEF others, walls
  <2> QED BY <1>2, <1>3, <1>5, <2>1, <2>2, <2>4, <2>5 DEF OneRow
<1>6. CASE TwoRows(G, card)
  <2>1. PICK a, b : G = {a, b} /\ a.surface = "FLOOR" /\ b.surface = "WALL"
                    /\ a.product = card.floor /\ b.product = card.wall
    BY <1>6 DEF TwoRows
  <2>2. PICK i \in DOMAIN group, j \in DOMAIN group : group[i] = a /\ group[j] = b
    BY <1>1, <2>1
  <2>3. i # j /\ DOMAIN group = {i, j}
    BY <1>1, <2>1, <2>2
  <2>4. tagged = {j}
    BY <2>1, <2>2, <2>3
  <2>5. i \in Nat /\ j \in Nat
    BY <1>1
  <2>6. walls = {j}
    <3> HIDE DEF tagged
    <3> QED BY <1>4, <2>4, <2>5
  <2>7. others = {i}
    <3> HIDE DEF walls
    <3> QED BY <2>3, <2>6
  <2>8. Min(others) = i /\ others # {} /\ Min(walls) = j /\ walls # {}
    <3> HIDE DEF others, walls
    <3> QED BY <1>4, <2>5, <2>6, <2>7
  <2> HIDE DEF others, walls
  <2> QED BY <1>2, <1>3, <2>1, <2>2, <2>8
<1> QED BY <1>5, <1>6 DEF OfCard

\* Some places of a sequence have a first one.
LEMMA LeastPlace ==
  ASSUME NEW T, NEW s \in Seq(T), NEW K \in SUBSET (DOMAIN s), K # {}
  PROVE  \E i \in K : \A j \in K : i <= j
<1>1. PICK n : n = Cardinality(K)
  OBVIOUS
<1>2. n \in Nat /\ K \subseteq Nat
  BY <1>1, KeptPlaces, LenProperties
<1>3. PICK place : /\ place \in [1 .. n -> K]
                   /\ \A i, j \in 1 .. n : i < j => place[i] < place[j]
                   /\ \A k \in K : \E i \in 1 .. n : place[i] = k
  BY <1>1, KeptPlaces DEF PlacedBy
<1>4. 1 \in 1 .. n
  BY <1>2, <1>3
<1>5. ASSUME NEW j \in K PROVE place[1] <= j
  <2>1. PICK i \in 1 .. n : place[i] = j
    BY <1>3
  <2>2. place[1] \in K /\ (i = 1 \/ 1 < i)
    BY <1>2, <1>3, <1>4
  <2> QED BY <1>2, <1>3, <1>4, <2>1, <2>2
<1>6. place[1] \in K
  BY <1>3, <1>4
<1> QED BY <1>5, <1>6

\* The rows that first show their rank show the ranks of the cards in order.
Shows(o, ranks, l) ==
  /\ \A i, j \in DOMAIN o : i < j => o[i].rank <= o[j].rank
  /\ \A i, j \in 1 .. l : i < j => ranks[i] < ranks[j]
  /\ \A i \in DOMAIN o : \E n \in 1 .. l : o[i].rank = ranks[n]
  /\ \A n \in 1 .. l : \E i \in DOMAIN o : o[i].rank = ranks[n]

LEMMA FirstsShow ==
  ASSUME NEW o \in Seq(Row), NEW l \in Nat, NEW ranks \in [1 .. l -> Nat], Shows(o, ranks, l),
         NEW heads, heads = Kept(o, Firsts(o))
  PROVE  DOMAIN heads = 1 .. l /\ \A k \in 1 .. l : heads[k].rank = ranks[k]
<1>1. /\ Len(o) \in Nat /\ DOMAIN o = 1 .. Len(o)
      /\ \A i \in DOMAIN o : o[i].rank \in Nat
  <2>1. Len(o) \in Nat /\ DOMAIN o = 1 .. Len(o) /\ \A i \in DOMAIN o : o[i] \in Row
    BY LenProperties
  <2>2. \A r \in Row : r.rank \in Nat
    BY PicksAssumption DEF Row
  <2> QED BY <2>1, <2>2
<1>2. PICK F : F = Firsts(o)
  OBVIOUS
<1>3. F \subseteq DOMAIN o /\ \A i \in F : \A j \in DOMAIN o : j < i => o[j].rank # o[i].rank
  <2>1. F \subseteq DOMAIN o /\ \A i \in F : \A j \in 1 .. i - 1 : o[j].rank # o[i].rank
    BY <1>2 DEF Firsts
  <2>2. \A i, j \in DOMAIN o : j < i => j \in 1 .. i - 1
    BY <1>1
  <2> QED BY <2>1, <2>2
<1>4. PICK g : g = [i \in DOMAIN o |-> CHOOSE n \in 1 .. l : o[i].rank = ranks[n]]
  OBVIOUS
<1>5. \A i \in DOMAIN o : g[i] \in 1 .. l /\ o[i].rank = ranks[g[i]]
  BY <1>4 DEF Shows
<1>6. ASSUME NEW i \in F, NEW j \in F, i < j PROVE g[i] < g[j]
  <2>1. o[i].rank <= o[j].rank /\ o[i].rank # o[j].rank
    BY <1>3, <1>6 DEF Shows
  <2>2. ranks[g[i]] < ranks[g[j]] /\ g[i] \in 1 .. l /\ g[j] \in 1 .. l
    BY <1>1, <1>3, <1>5, <2>1
  <2>3. g[j] < g[i] => ranks[g[j]] < ranks[g[i]]
    BY <2>2 DEF Shows
  <2>4. g[i] = g[j] \/ g[i] < g[j] \/ g[j] < g[i]
    BY <2>2
  <2>5. ranks[g[i]] \in Nat /\ ranks[g[j]] \in Nat
    BY <2>2
  <2> QED BY <2>2, <2>3, <2>4, <2>5
<1>7. ASSUME NEW n \in 1 .. l PROVE \E i \in F : g[i] = n
  <2>1. PICK S : S = {i \in DOMAIN o : o[i].rank = ranks[n]}
    OBVIOUS
  <2>2. S # {} /\ S \in SUBSET (DOMAIN o)
    BY <2>1 DEF Shows
  <2>3. PICK i \in S : \A j \in S : i <= j
    BY <2>2, LeastPlace
  <2>4. i \in F
    <3>1. ASSUME NEW j \in 1 .. i - 1, o[j].rank = o[i].rank PROVE FALSE
      <4>1. i \in DOMAIN o /\ j \in DOMAIN o /\ j < i
        BY <1>1, <2>1, <2>3
      <4>2. j \in S
        BY <2>1, <2>3, <3>1, <4>1
      <4>3. i <= j
        BY <2>3, <4>2
      <4> QED BY <1>1, <4>1, <4>3
    <3> QED BY <1>2, <2>1, <2>3, <3>1 DEF Firsts
  <2>5. g[i] \in 1 .. l /\ ranks[g[i]] = ranks[n]
    BY <1>5, <2>1
  <2>6. g[i] = n
    <3>1. g[i] < n => ranks[g[i]] < ranks[n]
      BY <2>5 DEF Shows
    <3>2. n < g[i] => ranks[n] < ranks[g[i]]
      BY <2>5 DEF Shows
    <3>3. ranks[n] \in Nat
      OBVIOUS
    <3> QED BY <2>5, <3>1, <3>2, <3>3
  <2> QED BY <2>4, <2>6
<1>8. \A i, j \in F : g[i] = g[j] => i = j
  <2> SUFFICES ASSUME NEW i \in F, NEW j \in F, g[i] = g[j] PROVE i = j
    OBVIOUS
  <2>1. i < j \/ j < i \/ i = j
    BY <1>1, <1>3
  <2>2. g[i] \in 1 .. l /\ g[j] \in 1 .. l
    BY <1>3, <1>5
  <2>3. ~(g[i] < g[j]) /\ ~(g[j] < g[i])
    BY <2>2
  <2> QED BY <1>6, <2>1, <2>3
<1>9. \A i \in F : g[i] \in 1 .. l
  BY <1>3, <1>5
<1>10. Cardinality(F) = l
  <2>1. Numbers(g, F, l)
    BY <1>7, <1>8, <1>9 DEF Numbers
  <2> QED BY <2>1, Counted
<1>11. ASSUME NEW i \in F, NEW S, S = {j \in F : j <= i} PROVE Cardinality(S) = g[i]
  <2>1. g[i] \in Nat /\ g[i] <= l
    BY <1>9
  <2>2. \A j \in S : g[j] \in 1 .. g[i]
    <3> TAKE j \in S
    <3>1. j \in F /\ (j = i \/ j < i)
      BY <1>1, <1>3, <1>11
    <3>2. g[j] \in 1 .. l /\ (g[j] = g[i] \/ g[j] < g[i])
      BY <1>6, <1>9, <3>1
    <3> QED BY <2>1, <3>2
  <2>3. \A j, k \in S : g[j] = g[k] => j = k
    BY <1>8, <1>11
  <2>4. ASSUME NEW k \in 1 .. g[i] PROVE \E j \in S : g[j] = k
    <3>1. k \in 1 .. l
      BY <2>1
    <3>2. PICK j \in F : g[j] = k
      BY <1>7, <3>1
    <3>3. ~(i < j)
      BY <1>6, <2>1, <3>2
    <3> QED BY <1>1, <1>3, <1>11, <3>2, <3>3
  <2>5. PICK n \in Nat : n = g[i]
    BY <2>1
  <2>6. Numbers(g, S, n)
    BY <2>2, <2>3, <2>4, <2>5 DEF Numbers
  <2> QED BY <2>5, <2>6, Counted
<1>12. \E place : PlacedBy(o, F, l, place)
  <2>1. F \in SUBSET (DOMAIN o)
    BY <1>3
  <2>2. \E place : PlacedBy(o, F, Cardinality(F), place)
    BY <2>1, KeptPlaces
  <2> QED BY <1>10, <2>2
<1>13. PICK place : /\ place \in [1 .. l -> F]
                    /\ heads = [n \in 1 .. l |-> o[place[n]]]
                    /\ \A n \in 1 .. l : Cardinality({j \in F : j <= place[n]}) = n
  BY <1>2, <1>12 DEF PlacedBy
<1>14. ASSUME NEW k \in 1 .. l PROVE heads[k].rank = ranks[k]
  <2>1. PICK i \in F : i = place[k] /\ Cardinality({j \in F : j <= i}) = k
    BY <1>13
  <2>2. g[i] = k
    BY <1>11, <2>1
  <2>3. o[i].rank = ranks[k]
    BY <1>3, <1>5, <2>2
  <2> QED BY <1>13, <2>1, <2>3
<1> QED BY <1>13, <1>14

\* The rows of one rank of an order, each of them once.
LEMMA GroupIsFull ==
  ASSUME NEW B, NEW o, Lists(o, B), NEW rank, NEW G, G = WithRank(B, rank),
         NEW group, group = Group(o, rank)
  PROVE  Lists(group, G)
<1>0. o \in Seq(B) /\ Len(o) \in Nat /\ DOMAIN o = 1 .. Len(o)
  BY LenProperties DEF Lists
<1>1. PICK K : K = {i \in DOMAIN o : o[i].rank = rank}
  OBVIOUS
<1>2. K \subseteq DOMAIN o /\ group = Kept(o, K) /\ \A i \in DOMAIN o : o[i] \in B
  BY <1>0, <1>1, LenProperties DEF Group
<1>3. PICK n : n = Cardinality(K)
  OBVIOUS
<1>4. n \in Nat /\ \E place : PlacedBy(o, K, n, place)
  <2>1. Cardinality(K) \in Nat /\ \E place : PlacedBy(o, K, Cardinality(K), place)
    BY <1>0, <1>2, KeptPlaces
  <2> QED BY <1>3, <2>1
<1>5. PICK place : /\ place \in [1 .. n -> K]
                   /\ group = [k \in 1 .. n |-> o[place[k]]]
                   /\ \A i, j \in 1 .. n : i < j => place[i] < place[j]
                   /\ \A k \in K : \E i \in 1 .. n : place[i] = k
  BY <1>2, <1>4 DEF PlacedBy
<1>6. \A k \in 1 .. n : group[k] = o[place[k]] /\ place[k] \in K /\ group[k] \in G
  BY <1>1, <1>2, <1>5 DEF WithRank
<1>7. group \in Seq(G) /\ DOMAIN group = 1 .. n
  <2>1. group = [k \in 1 .. n |-> group[k]]
    BY <1>5
  <2> QED BY <1>4, <1>6, <2>1
<1>8. ASSUME NEW i \in 1 .. n, NEW j \in 1 .. n, group[i] = group[j] PROVE i = j
  <2>1. place[i] = place[j] /\ place[i] \in DOMAIN o
    BY <1>2, <1>6, <1>8 DEF Lists
  <2>2. ~(place[i] < place[j]) /\ ~(place[j] < place[i])
    BY <1>0, <2>1
  <2>3. i < j \/ j < i \/ i = j
    BY <1>4
  <2> QED BY <1>5, <2>2, <2>3
<1>9. ASSUME NEW x \in G PROVE \E i \in 1 .. n : group[i] = x
  <2>1. PICK k \in DOMAIN o : o[k] = x /\ x \in B /\ x.rank = rank
    BY DEF WithRank, Lists
  <2>2. k \in K
    BY <1>1, <2>1
  <2>3. PICK i \in 1 .. n : place[i] = k
    BY <1>5, <2>2
  <2> QED BY <1>6, <2>1, <2>3
<1> QED BY <1>7, <1>8, <1>9 DEF Lists

\* A reloaded conversation shows the very cards the customer was shown live,
\* however many there are and in whatever order the database returns the two rows
\* of a floor and wall pick (getHistory, persistAndResolveRecommendations).
THEOREM HistoryShowsCards == Spec => []HistoryIsWhatWasShown
<1>1. ASSUME IInv, NEW m \in DOMAIN msgs, NEW o \in Orders(m) PROVE History(o) = msgs[m].cards
  <2>1. PICK B, cards : B = Batch(m) /\ cards = msgs[m].cards
    OBVIOUS
  <2>2. B \subseteq Row /\ IsFiniteSet(B)
    BY <1>1, <2>1, FS_Subset DEF IInv, Typed, Batch
  <2>3. cards \in Seq(Pick)
    <3>1. msgs \in Seq(Message)
      BY <1>1 DEF IInv, Typed
    <3>2. msgs[m] \in Message
      BY <3>1, LenProperties
    <3> QED BY <2>1, <3>2 DEF Message
  <2>4. PICK l : l = Len(cards)
    OBVIOUS
  <2>5. l \in Nat /\ DOMAIN cards = 1 .. l /\ \A k \in 1 .. l : cards[k] \in Pick
    BY <2>3, <2>4, LenProperties
  <2>6. PICK ranks \in [1 .. l -> 1 .. MaxPicks] : RankedBy(m, ranks)
    BY <1>1, <2>1, <2>5 DEF IInv, CardsStand
  <2>7. /\ \A i, j \in 1 .. l : i < j => ranks[i] < ranks[j]
        /\ \A r \in B : \E n \in 1 .. l : r.rank = ranks[n]
        /\ \A n \in 1 .. l : OfCard(WithRank(B, ranks[n]), cards[n])
    BY <2>1, <2>6 DEF RankedBy
  <2>8. o \in SetToSeqs(B) /\ \A i, j \in DOMAIN o : i < j => o[i].rank <= o[j].rank
    BY <2>1 DEF Orders
  <2>9. /\ o \in Seq(B) /\ DOMAIN o = 1 .. Len(o)
        /\ \A i, j \in DOMAIN o : o[i] = o[j] => i = j
        /\ \A b \in B : \E i \in DOMAIN o : o[i] = b
    <3>1. Lists(o, B)
      BY <2>2, <2>8, OrderIsFull
    <3> QED BY <3>1, LenProperties DEF Lists
  <2>10. o \in Seq(Row) /\ \A i \in DOMAIN o : o[i] \in B
    BY <2>2, <2>9, LenProperties
  <2>11. ranks \in [1 .. l -> Nat]
    BY <2>6, PicksAssumption
  <2>12. \A i \in DOMAIN o : \E n \in 1 .. l : o[i].rank = ranks[n]
    BY <2>7, <2>10
  <2>13. ASSUME NEW n \in 1 .. l PROVE \E i \in DOMAIN o : o[i].rank = ranks[n]
    <3>1. PICK x : x \in WithRank(B, ranks[n])
      BY <2>7 DEF OfCard, OneRow, TwoRows
    <3>2. x \in B /\ x.rank = ranks[n]
      BY <3>1 DEF WithRank
    <3> QED BY <2>9, <3>2
  <2>14. PICK heads : heads = Kept(o, Firsts(o))
    OBVIOUS
  <2>15. DOMAIN heads = 1 .. l /\ \A k \in 1 .. l : heads[k].rank = ranks[k]
    <3>1. Shows(o, ranks, l)
      BY <2>7, <2>8, <2>12, <2>13 DEF Shows
    <3> QED BY <2>5, <2>10, <2>11, <2>14, <3>1, FirstsShow
  <2>16. History(o) = [k \in 1 .. l |-> Card(Group(o, heads[k].rank))]
    BY <2>14, <2>15 DEF History
  <2>17. ASSUME NEW k \in 1 .. l PROVE Card(Group(o, heads[k].rank)) = cards[k]
    <3>1. PICK rank, card, G, group : /\ rank = ranks[k] /\ card = cards[k] /\ G = WithRank(B, rank)
                                      /\ group = Group(o, rank)
      OBVIOUS
    <3>2. Lists(group, G)
      <4>1. Lists(o, B)
        BY <2>2, <2>8, OrderIsFull
      <4> QED BY <3>1, <4>1, GroupIsFull
    <3>3. OfCard(G, card) /\ card \in Pick
      BY <2>5, <2>7, <3>1
    <3>4. Card(group) = card
      BY <3>2, <3>3, CardOfGroup
    <3> QED BY <2>15, <3>1, <3>4
  <2>18. cards = [k \in 1 .. l |-> cards[k]]
    BY <2>3, <2>5
  <2> QED BY <2>1, <2>16, <2>17, <2>18
<1>2. IInv => HistoryIsWhatWasShown
  <2> SUFFICES ASSUME IInv,
                      NEW m \in {r.msg : r \in recs} \union {i \in DOMAIN msgs : msgs[i].cards # <<>>},
                      NEW o \in Orders(m)
               PROVE  History(o) = msgs[m].cards
    BY DEF HistoryIsWhatWasShown
  <2>1. m \in DOMAIN msgs
    BY DEF IInv, RowsStand
  <2> QED BY <1>1, <2>1
<1> QED BY <1>2, InvariantHolds, PTL
=============================================================================
