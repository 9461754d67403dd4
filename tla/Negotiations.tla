---------------------------- MODULE Negotiations ----------------------------
(***************************************************************************)
(* The negotiation threads between a customer and the stock team: cart     *)
(* threads (CartNegotiationsService), the messages of order threads        *)
(* (OrdersService.postMessage), the live push of NegotiationsGateway and   *)
(* the staff inbox (NegotiationInboxService).                              *)
(*                                                                         *)
(* A row takes its time stamp when its transaction starts and becomes      *)
(* visible when it commits, so rows may appear behind younger ones.  The   *)
(* views of a thread list by time alone, so rows of one instant come in    *)
(* any order, which may differ from one query to the next.                 *)
(***************************************************************************)
EXTENDS SequencesExt, Rows

CONSTANTS
  Workers,   \* concurrent requests
  Customers, Products,
  Posters,   \* the sides that post: an author is only ever shown
  PageSize,  \* threads on a page of the inbox
  MaxThreads, MaxLog, MaxTime, MaxChips \* bounds of the instance

ASSUME PostersAssumption == Posters \subseteq {"STAFF", "CUSTOMER"}
ASSUME PageAssumption == PageSize \in Nat \ {0}
ASSUME PartiesAssumption == Customers # {} /\ IsFiniteSet(Products)
ASSUME BoundsAssumption ==
  MaxThreads \in Nat \ {0} /\ MaxTime \in Nat \ {0} /\ MaxLog \in Nat

VARIABLES
  now,     \* the clock
  thread,  \* the threads in order of creation; the first may be an order's
  chips,   \* CartNegotiationItem rows, in order of insertion
  log,     \* the messages of all threads, in order of insertion
  owed,    \* as history, the messages that were not emitted to the room of their
           \* thread, but for those whose request died before it could
  flight,  \* the requests in flight
  scroll   \* a member of staff paging through the inbox

vars == <<now, thread, chips, log, owed, flight, scroll>>

Authors == {"STAFF", "CUSTOMER", "SYSTEM", "NOTE"} \* NOTE: CLEARED_NOTE
\* cleared is customerClearedAt, 0 for null.
Thread == [kind : {"order", "cart"}, customer : Customers, cleared : 0 .. MaxTime]
Chip == [thread : 1 .. MaxThreads, product : Products, at : 0 .. MaxTime]
\* part, as history: the first message of the submit or open that wrote it, 0 for
\* a message that came alone.
Message == [thread : 1 .. MaxThreads, author : Authors, at : 0 .. MaxTime, part : 0 .. MaxLog]

\* op, the customer, the thread (0: none yet), the products asked for, whether
\* a greeting is due (open), the time stamp, the rows that the DELETE saw and
\* the messages that were written and are to be pushed.
Idle == [op |-> "none", step |-> "idle", c |-> CHOOSE c \in Customers : TRUE,
         t |-> 0, asked |-> {}, all |-> FALSE, greet |-> FALSE, at |-> 0,
         gone |-> {}, wrote |-> {}]
\* The cursor and, as history, the threads shown so far, those still due - they
\* were there at the start and have not moved - and what went wrong.
NoScroll == [on |-> FALSE, at |-> MaxTime + 1, id |-> 0, seen |-> {}, due |-> {},
             twice |-> FALSE, missed |-> FALSE]

Init ==
  /\ now = 1
  /\ \/ thread = <<>>
     \/ \E c \in Customers : thread = <<[kind |-> "order", customer |-> c, cleared |-> 0]>>
  /\ chips = <<>> /\ log = <<>> /\ owed = {}
  /\ flight = [w \in Workers |-> Idle]
  /\ scroll = NoScroll

Threads == DOMAIN thread
Emit(ms) == owed' = owed \ ms
At(w, op, step) == flight[w].op = op /\ flight[w].step = step
Become(w, f) == flight' = [flight EXCEPT ![w] = f]
\* findFirst, newest first.
CartThreads(c) == {t \in Threads : thread[t].kind = "cart" /\ thread[t].customer = c}
Newest(c) == IF CartThreads(c) = {} THEN 0 ELSE Max(CartThreads(c))
Said(t) == {i \in DOMAIN log : log[i].thread = t}
\* The bound on the instance.
Room(n) == Len(log) + n <= MaxLog
Moved(ts) == scroll' = [scroll EXCEPT !.due = @ \ ts]

-----------------------------------------------------------------------------
(* Writing to a thread.                                                    *)

\* submit, with the whole cart or with some products of it.
Submit(w, c, asked, whole) ==
  /\ flight[w] = Idle /\ Room(2)
  /\ Become(w, [Idle EXCEPT !.op = "submit", !.step = "found", !.c = c, !.t = Newest(c),
                            !.asked = asked, !.all = whole])
  /\ UNCHANGED <<now, thread, chips, log, owed, scroll>>

\* open: a thread without messages is greeted.
Open(w, c, asked) ==
  /\ flight[w] = Idle /\ Room(1)
  /\ Become(w, [Idle EXCEPT !.op = "open", !.step = "found", !.c = c, !.t = Newest(c),
                            !.asked = asked, !.all = TRUE,
                            !.greet = Said(Newest(c)) = {}])
  /\ UNCHANGED <<now, thread, chips, log, owed, scroll>>

\* No unique key: whoever found none creates one.
CreateThread(w) ==
  /\ flight[w].op \in {"submit", "open"} /\ flight[w].step = "found" /\ flight[w].t = 0
  /\ Len(thread) < MaxThreads
  /\ thread' = Append(thread, [kind |-> "cart", customer |-> flight[w].c, cleared |-> 0])
  /\ flight' = [flight EXCEPT ![w].t = Len(thread')]
  /\ UNCHANGED <<now, chips, log, owed, scroll>>

\* The transaction starts; its DELETE takes the rows that are there now.
Begin(w) ==
  LET f == flight[w]
  IN /\ f.op \in {"submit", "open"} /\ f.step = "found" /\ f.t # 0
     /\ Become(w, [f EXCEPT !.step = "begun", !.at = now, !.all = FALSE,
          !.gone = {i \in ToSet(chips) : i.thread = f.t /\ (f.all \/ i.product \in f.asked)}])
     /\ UNCHANGED <<now, thread, chips, log, owed, scroll>>

Added(f) ==
  SetToSeq({[thread |-> f.t, product |-> p, at |-> f.at] : p \in f.asked})
Messages(f) ==
  LET m(a) == [thread |-> f.t, author |-> a, at |-> f.at, part |-> Len(log) + 1]
  IN CASE f.op = "submit"          -> <<m("SYSTEM"), m("CUSTOMER")>>
       [] f.op = "open" /\ f.greet  -> <<m("STAFF")>>
       [] f.op = "open" /\ ~f.greet -> <<>>
Commit(w) ==
  LET f == flight[w]
  IN /\ f.op \in {"submit", "open"} /\ f.step = "begun"
     /\ Room(Len(Messages(f))) /\ Len(chips) <= MaxChips
     /\ chips' = Kept(chips, {i \in DOMAIN chips : chips[i] \notin f.gone}) \o Added(f)
     /\ log' = log \o Messages(f)
     /\ thread' = IF f.op = "open" THEN [thread EXCEPT ![f.t].cleared = 0] ELSE thread
     /\ LET wrote == DOMAIN log' \ DOMAIN log
        IN /\ Become(w, [Idle EXCEPT !.op = f.op, !.step = "tail", !.t = f.t, !.wrote = wrote])
           /\ owed' = owed \cup wrote
     /\ Moved(IF Messages(f) = <<>> THEN {} ELSE {f.t})
     /\ UNCHANGED now

\* postMessage of either kind of thread, after assertAccess.
Post(w, t, author) ==
  /\ flight[w] = Idle /\ t \in Threads /\ Room(1)
  /\ Become(w, [Idle EXCEPT !.op = "post", !.step = "begun", !.t = t, !.at = now,
                            !.greet = author = "STAFF"])
  /\ UNCHANGED <<now, thread, chips, log, owed, scroll>>

PostCommit(w) ==
  LET f == flight[w]
  IN /\ At(w, "post", "begun") /\ Room(1)
     /\ log' = Append(log, [thread |-> f.t, at |-> f.at, part |-> 0,
                            author |-> IF f.greet THEN "STAFF" ELSE "CUSTOMER"])
     /\ Become(w, [Idle EXCEPT !.op = "post", !.step = "push", !.t = f.t,
                               !.wrote = {Len(log')}])
     /\ owed' = owed \cup {Len(log')}
     /\ Moved({f.t})
     /\ UNCHANGED <<now, thread, chips>>

\* clearMine takes its instant before the transaction.
Clear(w, c) ==
  /\ flight[w] = Idle /\ Newest(c) # 0 /\ Room(1)
  /\ Become(w, [Idle EXCEPT !.op = "clear", !.step = "begun", !.c = c, !.t = Newest(c),
                            !.at = now])
  /\ UNCHANGED <<now, thread, chips, log, owed, scroll>>

ClearCommit(w) ==
  LET f == flight[w]
  IN /\ At(w, "clear", "begun") /\ Room(1)
     /\ thread' = [thread EXCEPT ![f.t].cleared = f.at]
     /\ log' = Append(log, [thread |-> f.t, author |-> "NOTE", at |-> f.at, part |-> 0])
     /\ Moved({f.t})
     /\ Become(w, Idle)
     /\ UNCHANGED <<now, chips, owed>>

\* The request dies, before its transaction commits or before its push.
Drop(w) ==
  /\ flight[w].step # "idle"
  /\ owed' = owed \ flight[w].wrote
  /\ Become(w, Idle)
  /\ UNCHANGED <<now, thread, chips, log, scroll>>

-----------------------------------------------------------------------------
(* What is read of a thread.                                               *)

\* orderBy createdAt, and of that the last n: of messages of one instant any may
\* be cut off.
Tails(t, n) ==
  {S \in SUBSET Said(t) :
     /\ Cardinality(S) = IF Cardinality(Said(t)) < n THEN Cardinality(Said(t)) ELSE n
     /\ \A i \in S, j \in Said(t) \ S : log[j].at <= log[i].at}

\* submit and open read the thread again and push its last messages.
PushTail(w) ==
  LET f == flight[w]
  IN /\ f.step = "tail"
     /\ \E S \in Tails(f.t, IF f.op = "submit" THEN 2 ELSE 1) : Emit(S)
     /\ Become(w, Idle)
     /\ UNCHANGED <<now, thread, chips, log, scroll>>

\* The thread is read again, and its last message is pushed.
MutantPush(w) ==
  LET f == flight[w]
  IN /\ f.step = "push"
     /\ \E S \in Tails(f.t, 1) : Emit(S)
     /\ Become(w, Idle)
     /\ UNCHANGED <<now, thread, chips, log, scroll>>

\* postMessage pushes what it wrote (emitMessage).
Push(w) ==
  /\ flight[w].step = "push"
  /\ Emit(flight[w].wrote)
  /\ Become(w, Idle)
  /\ UNCHANGED <<now, thread, chips, log, scroll>>

\* Of the rows of a product the one inserted last.
MutantLatestItemPerProduct(rows) ==
  {i \in rows : \A j \in rows : chips[j].product = chips[i].product => j <= i}

\* latestItemPerProduct: the latest of each product.  Of several of one instant
\* it shows one, whichever the database listed last.
LatestItemPerProduct(rows) ==
  {i \in rows :
     \A j \in rows : chips[j].product = chips[i].product => chips[j].at <= chips[i].at}

\* presentFor: staff see the thread, its customer what came after the last
\* "clear chat".
RowsOf(t) == {i \in DOMAIN chips : chips[i].thread = t}
Visible(t, at) == thread[t].cleared = 0 \/ at > thread[t].cleared
StaffChips(t) == LatestItemPerProduct(RowsOf(t))
CustomerChips(t) == LatestItemPerProduct({i \in RowsOf(t) : Visible(t, chips[i].at)})
CustomerView(t) == {i \in Said(t) : Visible(t, log[i].at)}

-----------------------------------------------------------------------------
(* The inbox.                                                              *)

LastAt(t) == IF Said(t) = {} THEN 0 ELSE Max({log[i].at : i \in Said(t)})

\* A page starts below the time of the cursor.
MutantBelow(t, at, id) == LastAt(t) < at

\* The keyset: threads below the cursor (t.last_at, t.id).
Below(t, at, id) == LastAt(t) < at \/ (LastAt(t) = at /\ t < id)
\* ORDER BY last_at DESC, id DESC
Ahead(t, u) == LastAt(t) > LastAt(u) \/ (LastAt(t) = LastAt(u) /\ t > u)

\* list: a page, and the cursor of its last row while there is more.  What was
\* there at the first page and does not move is due.
ScrollPage ==
  LET rows == {t \in Threads : Said(t) # {} /\ Below(t, scroll.at, scroll.id)}
      page == {t \in rows : Cardinality({u \in rows : Ahead(u, t)}) < PageSize}
      last == CHOOSE t \in page : \A u \in page : ~Ahead(t, u)
      due == IF scroll.on THEN scroll.due ELSE rows
      shown == scroll.seen \cup page
      again == scroll.twice \/ scroll.seen \cap page # {}
  IN /\ scroll' =
          IF page # rows
          THEN [scroll EXCEPT !.on = TRUE, !.seen = shown, !.twice = again, !.due = due \ shown,
                              !.at = LastAt(last), !.id = last]
          ELSE [NoScroll EXCEPT !.twice = again, !.missed = ~(due \subseteq shown)]
     /\ UNCHANGED <<now, thread, chips, log, owed, flight>>

Tick ==
  /\ now < MaxTime /\ now' = now + 1
  /\ UNCHANGED <<thread, chips, log, owed, flight, scroll>>

Next ==
  \/ \E w \in Workers :
       \/ \E c \in Customers, asked \in SUBSET Products \ {{}} :
            Submit(w, c, asked, asked = Products) \/ Submit(w, c, asked, TRUE)
              \/ Open(w, c, asked)
       \/ \E t \in Threads, a \in Posters : Post(w, t, a)
       \/ \E c \in Customers : Clear(w, c)
       \/ CreateThread(w) \/ Begin(w) \/ Commit(w) \/ PostCommit(w) \/ ClearCommit(w)
       \/ PushTail(w) \/ Push(w) \/ Drop(w)
  \/ ScrollPage \/ Tick

Spec == Init /\ [][Next]_vars

-----------------------------------------------------------------------------
(* Properties.                                                             *)

\* The variables have their types.
TypeOK ==
  /\ now \in 1 .. MaxTime
  /\ thread \in Seq(Thread) /\ Len(thread) <= MaxThreads
  /\ chips \in Seq(Chip) /\ log \in Seq(Message) /\ owed \subseteq DOMAIN log
  /\ \A w \in Workers :
       flight[w].t \in 0 .. Len(thread) /\ flight[w].wrote \subseteq DOMAIN log

\* The times of the chips of a product that may be shown of a thread.
ShownAt(shown, p) == {chips[i].at : i \in {i \in shown : chips[i].product = p}}

\* Submissions overlap, each deleting the rows it saw, and an older one may commit
\* last: neither staff nor the customer ever sees a product's chip fall back to
\* what an older request said (submit: "Later submissions replace what earlier
\* ones said about the same product"), except that a whole cart without the
\* product takes away only the rows that were there when it began.
ChipsOnlyAdvance ==
  [][\A t \in Threads, p \in Products :
       /\ ~\E w \in Workers : /\ flight[w].step = "begun" /\ flight[w].t = t
                              /\ p \notin flight[w].asked /\ flight'[w].step = "tail"
       => /\ \A a \in ShownAt(StaffChips(t), p), b \in ShownAt(StaffChips(t), p)' : a <= b
          /\ \A a \in ShownAt(CustomerChips(t), p), b \in ShownAt(CustomerChips(t), p)' : a <= b
    ]_vars

\* Scrolling through the inbox while threads move and transactions commit behind
\* younger messages shows none twice, and at its end has shown every thread that
\* did not move meanwhile (NegotiationInboxService: "a stable keyset cursor";
\* cursor.ts: "it neither skips nor repeats rows").
InboxIsTrue == ~scroll.twice /\ ~scroll.missed

\* A message is pushed to whoever watches its thread (emitMessage: "right after a
\* message is persisted").  Only a request that dies fails to push what was posted;
\* submit and open, which read the thread again and push its end, may also miss
\* their own messages, but only when another request wrote one as young.
MessagesArePushed ==
  \A i \in owed :
    \/ \E w \in Workers : i \in flight[w].wrote
    \/ /\ log[i].part # 0
       /\ \E j \in Said(log[i].thread) : log[j].part # log[i].part /\ log[j].at >= log[i].at

\* The note that is left for staff when a customer clears the chat is "never
\* shown to the customer" (CLEARED_NOTE).
NoteIsForStaff ==
  \A t \in Threads : \A i \in CustomerView(t) : log[i].author # "NOTE"

=============================================================================
