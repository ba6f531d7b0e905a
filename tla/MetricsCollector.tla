-------------------------- MODULE MetricsCollector --------------------------
(***************************************************************************)
(* The metrics collector (internal/metrics): message handlers and the       *)
(* immersive engine add to counters in SQLite, one transaction each, while  *)
(* the dashboard builds an overview from one statement after another.       *)
(*                                                                          *)
(* An action is one transaction, committed or rolled back, one statement of *)
(* the overview, or one critical section of a session that measures the     *)
(* latency of its strong call.  A counter that has no row is 0.  Hours are  *)
(* counted from 0 and a day has HoursPerDay of them; a type key is the part *)
(* after the prefix that its direction and post type give it.               *)
(***************************************************************************)
EXTENDS Naturals, Sequences, SequencesExt, FiniteSets

CONSTANTS
  Events,       \* inbound events: [post, detail, segments]
  Payloads,     \* outbound payloads: sequences of segment types
  Sessions,     \* session keys, NoSession among them
  NoSession,    \* the blank session key
  Chats,        \* the chats that have a session of the immersive engine
  HoursPerDay,
  MaxHour,      \* bound: hours until the run ends
  Apart,        \* bound: handlers and engine never act in the same behaviour
  Observations, \* the marks of an immersive record that is not about a reply
  MaxTraffic,   \* bound: transactions of message handlers
  MaxImmersive, \* bound: transactions of the immersive engine
  MaxWaiting,   \* bound: hours of waiting up to which strong calls are noted
  MaxViews,     \* bound: overviews asked for
  MaxRestarts   \* bound: restarts of the process

ASSUME CollectorConstants ==
  /\ Events \subseteq [post : STRING, detail : STRING, segments : Seq(STRING)]
  /\ Payloads \subseteq Seq(STRING) /\ IsFiniteSet(Chats)
  /\ HoursPerDay \in Nat \ {0} /\ MaxHour \in Nat
  /\ Apart \in BOOLEAN /\ MaxTraffic \in Nat /\ MaxImmersive \in Nat /\ MaxWaiting \in Nat
  /\ MaxViews \in Nat /\ MaxRestarts \in Nat

Time  == 0 .. MaxHour
Never == MaxHour + 1          \* the zero time, NULL in the database
Day(t)  == t \div HoursPerDay
Hour(t) == t % HoursPerDay
Days  == {Day(t) : t \in Time}
Hours == 0 .. HoursPerDay - 1

Slots == 1 .. MaxImmersive

VARIABLES
  now,          \* the hour it is
  db,           \* the tables
  started,      \* processStartedAt, botStartedAt, in memory
  call,         \* lastStrongCallAt of each chat, Never when no strong call is pending
  owed,         \* immersive records the engine's goroutines have still to write
  view,         \* the overview that is being built
  traffic,      \* history: transactions of message handlers, tried
  waiting,      \* history: hours the chats have waited for an answer to a strong call
  immersive,    \* history: transactions of the immersive engine, owed
  views,        \* history: overviews asked for
  restarts      \* history: restarts

vars == <<now, db, started, call, owed, view, waiting, traffic, immersive, views, restarts>>
bounds == <<traffic, immersive, views, restarts>>

-----------------------------------------------------------------------------
(* What an event or a payload counts as. *)

InboundSegments  == {"text", "image", "video", "record", "file", "at", "reply",
                     "face", "forward", "json", "xml"}
OutboundSegments == {"text", "image", "video", "record", "file", "poke"}

Classified(segments, known) ==
  IF segments = <<>> THEN <<"other">>
  ELSE [i \in DOMAIN segments |-> IF segments[i] \in known THEN segments[i] ELSE "other"]

NoticeKey(detail)  == IF detail = "poke" THEN "notice:poke" ELSE "notice:other"
RequestKey(detail) ==
  CASE detail = "friend" -> "request:friend" [] detail = "group" -> "request:group" [] OTHER -> "request:other"

\* An event of an unknown post type is not counted at all.
InboundTypeKeys(event) ==
  CASE event.post = "message"    -> Classified(event.segments, InboundSegments)
    [] event.post = "notice"     -> <<NoticeKey(event.detail)>>
    [] event.post = "request"    -> <<RequestKey(event.detail)>>
    [] event.post = "meta_event" -> <<"meta_event:other">>
    [] OTHER                     -> <<>>

OutboundTypeKeys(payload) == Classified(payload, OutboundSegments)

TypeKeys == (UNION {ToSet(InboundTypeKeys(e)) : e \in Events})
              \cup (UNION {ToSet(OutboundTypeKeys(p)) : p \in Payloads}) \cup {"other"}

TypeCounts(keys) == [k \in TypeKeys |-> Cardinality({i \in DOMAIN keys : keys[i] = k})]

-----------------------------------------------------------------------------
(* The tables. *)

Kinds == {"received", "sent", "failed"}
None  == [k \in Kinds |-> 0]
\* The sum of the values of a function: the number of units it counts.
Units(counts) == UNION {{x} \X (1 .. counts[x]) : x \in DOMAIN counts}
Total(counts) == Cardinality(Units(counts))
Only(kind, n) == [None EXCEPT ![kind] = n]
Plus(a, b) == [x \in DOMAIN a |-> a[x] + b[x]]

Marks == {"action", "reason", "signal_band", "proactive", "fast_recovery"}
ASSUME ObservationsAssumption == Observations \subseteq SUBSET Marks

Measures == {"count", "sum"}
NoLatency == [m \in Measures |-> 0]

EmptyTables ==
  [daily    |-> [d \in Days |-> None],
   hourly   |-> [d \in Days |-> [h \in Hours |-> None]],
   types    |-> [d \in Days |-> [k \in Kinds |-> [t \in TypeKeys |-> 0]]],
   typeSums |-> [k \in Kinds |-> [t \in TypeKeys |-> 0]],
   sessions |-> {},
   last     |-> [k \in Kinds |-> Never],
   connected |-> Never,
   marks    |-> [d \in Days |-> [m \in Marks |-> 0]],
   markSums |-> [m \in Marks |-> 0],
   latency  |-> [d \in Days |-> NoLatency],
   latencySum |-> NoLatency]

Coalesce(old, new) == IF old = Never THEN new ELSE old

\* One record: what RecordInbound, RecordOutbound or RecordImmersive writes.
Traffic(kind, keys, session, at) ==
  [type |-> "traffic", kind |-> kind, counts |-> TypeCounts(keys), session |-> session, at |-> at]
Immersive(marks, latency) == [type |-> "immersive", marks |-> marks, latency |-> latency]
Nothing == [type |-> "none", marks |-> {}, latency |-> 0]

\* The statements of its transaction, in order.
Statements(r) ==
  IF r.type = "traffic" THEN <<"daily", "hourly", "types", "session", "state">>
  ELSE <<"marks", "latency">>

BlankSession(day, session) == {<<day, session>>}
SessionRow(day, session) == IF session = NoSession THEN {} ELSE {<<day, session>>}

\* done: the statements that have been executed.
UpsertTraffic(t, r, done) ==
  LET d == Day(r.at)
      n == Only(r.kind, Total(r.counts))
      On(statement, new, old) == IF statement \in done THEN new ELSE old IN
  [t EXCEPT !.daily[d]           = On("daily", Plus(@, n), @),
            !.hourly[d][Hour(r.at)] = On("hourly", Plus(@, n), @),
            !.types[d][r.kind]   = On("types", Plus(@, r.counts), @),
            !.typeSums[r.kind]   = On("types", Plus(@, r.counts), @),
            !.sessions           = On("session", @ \cup SessionRow(d, r.session), @),
            !.last[r.kind]       = On("state", r.at, @),
            !.connected          = On("state", IF r.kind = "received" THEN Coalesce(@, r.at) ELSE @, @)]

\* The latency of a record that measured none is 0, and it is counted.
UpsertImmersive(t, r, done) ==
  LET d == Day(now)
      ones == [m \in Marks |-> IF m \in r.marks THEN 1 ELSE 0]
      measured == [m \in Measures |-> IF m = "count" THEN 1 ELSE r.latency]
      On(statement, new, old) == IF statement \in done THEN new ELSE old IN
  [t EXCEPT !.marks[d]   = On("marks", Plus(@, ones), @),
            !.markSums   = On("marks", Plus(@, ones), @),
            !.latency[d] = On("latency", Plus(@, measured), @),
            !.latencySum = On("latency", Plus(@, measured), @)]

Written(t, r, n) ==
  LET done == ToSet(SubSeq(Statements(r), 1, n)) IN
  IF r.type = "traffic" THEN UpsertTraffic(t, r, done) ELSE UpsertImmersive(t, r, done)

\* What an error in the middle of a transaction leaves behind.
HalfWritten(before, partial) == partial
RolledBack(before, partial) == before

Transaction(r) ==
  \/ db' = Written(db, r, Len(Statements(r)))
  \/ \E n \in 0 .. Len(Statements(r)) - 1 : db' = RolledBack(db, Written(db, r, n))

-----------------------------------------------------------------------------
(* Message handlers.  An inbound event carries a time of its own.  They and *)
(* the overview never touch the tables of the engine, so that one of the    *)
(* two at a time says as much as both (Apart).                              *)

BotRuns == started.bot # Never
EngineIdle == immersive = 0 /\ waiting = 0 /\ \A c \in Chats : call[c] = Never
EngineMayRun == BotRuns /\ (Apart => traffic = 0 /\ views = 0)
HandlersMayRun == Apart => EngineIdle

Handled == BotRuns /\ HandlersMayRun /\ traffic < MaxTraffic /\ traffic' = traffic + 1

RecordInbound(event, session, at) ==
  /\ Handled /\ InboundTypeKeys(event) # <<>>
  /\ Transaction(Traffic("received", InboundTypeKeys(event), session, at))
  /\ UNCHANGED <<now, started, call, owed, view, waiting, immersive, views, restarts>>

\* sendTracked: the message is sent, then the outcome is recorded.
RecordOutbound(payload, session, success) ==
  /\ Handled
  /\ Transaction(Traffic(IF success THEN "sent" ELSE "failed", OutboundTypeKeys(payload), session, now))
  /\ UNCHANGED <<now, started, call, owed, view, waiting, immersive, views, restarts>>

-----------------------------------------------------------------------------
(* The immersive engine: a strong call (a mention or the bot's name first)  *)
(* waits for a reply, and the wait is the latency that is recorded.  Every  *)
(* chat has a call of its own, and all of them add to the same counters.    *)
(* Both ends of a wait are read from the clock before the session's lock is *)
(* taken, the first before the message is even stored and its repeat lock   *)
(* has been waited for: they may lie anywhere in the life of the bot.       *)

Lifetime == started.bot .. now

\* The records are written after the lock is given back, each goroutine its own.
Owe(records) ==
  /\ immersive + Len(records) <= MaxImmersive /\ immersive' = immersive + Len(records)
  /\ owed' = [i \in Slots |-> IF i - immersive \in DOMAIN records THEN records[i - immersive] ELSE owed[i]]

\* at: when the message came in (meta.At).
NoteStrongCall(chat, at) ==
  /\ EngineMayRun
  /\ call' = [call EXCEPT ![chat] = Coalesce(@, at)]
  /\ waiting' = waiting + IF call[chat] = Never THEN now - at ELSE 0
  /\ waiting' <= MaxWaiting
  /\ UNCHANGED <<now, db, started, owed, view, bounds>>

CallKept(c) == c
CallResolved(c) == Never

\* A delivery that took the clock before the message came in has waited 0.
Latency(chat, at) == IF call[chat] < at THEN at - call[chat] ELSE 0

\* noteAssistantDelivered: one record of the latency, if a call was pending, and
\* one of the follow-up, if the text was a question.  The reply of a flush has
\* its outcome recorded as well; a repeat and a follow-up have none.
Deliver(chat, at, question, replied) ==
  /\ EngineMayRun
  /\ Owe((IF question THEN <<Immersive({"proactive"}, 0)>> ELSE <<>>)
         \o (IF call[chat] # Never THEN <<Immersive({}, Latency(chat, at))>> ELSE <<>>)
         \o (IF replied THEN <<Immersive({"action", "reason", "signal_band"}, 0)>> ELSE <<>>))
  /\ call' = [call EXCEPT ![chat] = CallResolved(@)]
  /\ UNCHANGED <<now, db, started, view, waiting, traffic, views, restarts>>

Forget(chat) == [call EXCEPT ![chat] = Never]

\* A skip, a dropped batch and a reply that was not delivered forget the call;
\* the gate, a wait and the fast recovery of energy keep it.
Observe(chat, marks) ==
  /\ EngineMayRun
  /\ Owe(<<Immersive(marks, 0)>>)
  /\ call' \in {call} \cup IF "action" \in marks THEN {Forget(chat)} ELSE {}
  /\ UNCHANGED <<now, db, started, view, waiting, traffic, views, restarts>>

\* The session is reset, or a follow-up was not delivered: nothing is recorded.
Clear(chat) ==
  /\ EngineMayRun
  /\ call' = Forget(chat)
  /\ UNCHANGED <<now, db, started, owed, view, waiting, bounds>>

RecordImmersive(i) ==
  /\ owed[i] # Nothing
  /\ Transaction(owed[i])
  /\ owed' = [owed EXCEPT ![i] = Nothing]
  /\ UNCHANGED <<now, started, call, view, waiting, bounds>>

-----------------------------------------------------------------------------
(* The dashboard: one statement of BuildOverview after another. *)

TotalsFirst == <<"totals", "today", "sessions", "state", "received", "sent", "failed", "hourly", "starts">>
Overview == <<"today", "totals", "sessions", "state", "received", "sent", "failed", "hourly", "starts">>

Read(statement, d) ==
  CASE statement = "today"    -> db.daily[d]
    [] statement = "totals"   -> [k \in Kinds |-> Total([x \in Days |-> db.daily[x][k]])]
    [] statement = "sessions" -> Cardinality({p \in db.sessions : p[1] = d})
    [] statement = "state"    -> [last |-> db.last, connected |-> db.connected]
    [] statement \in Kinds    -> db.types[d][statement]
    [] statement = "hourly"   -> db.hourly[d]
    [] statement = "starts"   -> started

Closed == [at |-> Never, seen |-> <<>>]

OpenOverview ==
  /\ view = Closed
  /\ HandlersMayRun /\ views < MaxViews /\ views' = views + 1
  /\ view' = [Closed EXCEPT !.at = now]
  /\ UNCHANGED <<now, db, started, call, owed, waiting, traffic, immersive, restarts>>

BuildOverview ==
  /\ view # Closed /\ Len(view.seen) < Len(Overview)
  /\ view' = [view EXCEPT !.seen = Append(@, Read(Overview[Len(@) + 1], Day(view.at)))]
  /\ UNCHANGED <<now, db, started, call, owed, waiting, bounds>>

\* The answer: an overview, or an error of any of its statements.
CloseOverview ==
  /\ view # Closed
  /\ view' = Closed
  /\ UNCHANGED <<now, db, started, call, owed, waiting, bounds>>

-----------------------------------------------------------------------------
(* Time and the process. *)

Tick ==
  /\ now < MaxHour /\ now' = now + 1
  /\ waiting' = waiting + Cardinality({c \in Chats : call[c] # Never})
  /\ UNCHANGED <<db, started, call, owed, view, bounds>>

SetBotStartedAt ==
  /\ ~BotRuns
  /\ started' = [started EXCEPT !.bot = now]
  /\ UNCHANGED <<now, db, call, owed, view, waiting, bounds>>

NoCalls == [c \in Chats |-> Never]
NothingOwed == [i \in Slots |-> Nothing]

\* Only the tables outlive the process.
Restart ==
  /\ restarts < MaxRestarts /\ restarts' = restarts + 1
  /\ started' = [process |-> now, bot |-> Never]
  /\ call' = NoCalls /\ owed' = NothingOwed /\ view' = Closed
  /\ UNCHANGED <<now, db, waiting, traffic, immersive, views>>

Init ==
  /\ now = 0 /\ db = EmptyTables
  /\ started = [process |-> 0, bot |-> Never]
  /\ call = NoCalls /\ owed = NothingOwed /\ view = Closed
  /\ waiting = 0 /\ traffic = 0 /\ immersive = 0 /\ views = 0 /\ restarts = 0

Handlers ==
  \/ \E e \in Events, s \in Sessions, at \in Time : RecordInbound(e, s, at)
  \/ \E p \in Payloads, s \in Sessions, success \in BOOLEAN : RecordOutbound(p, s, success)

Engine ==
  \/ \E chat \in Chats :
       \/ \E at \in Lifetime : NoteStrongCall(chat, at)
       \/ \E at \in Lifetime, question, replied \in BOOLEAN : Deliver(chat, at, question, replied)
       \/ \E marks \in Observations : Observe(chat, marks)
       \/ Clear(chat)
  \/ \E i \in Slots : RecordImmersive(i)

Dashboard == OpenOverview \/ BuildOverview \/ CloseOverview
Process   == Tick \/ SetBotStartedAt \/ Restart

Next == Handlers \/ Engine \/ Dashboard \/ Process

Spec == Init /\ [][Next]_vars

-----------------------------------------------------------------------------
(* Properties. *)

Tables ==
  [daily    : [Days -> [Kinds -> Nat]],
   hourly   : [Days -> [Hours -> [Kinds -> Nat]]],
   types    : [Days -> [Kinds -> [TypeKeys -> Nat]]],
   typeSums : [Kinds -> [TypeKeys -> Nat]],
   sessions : SUBSET (Days \X (Sessions \ {NoSession})),
   last     : [Kinds -> Time \cup {Never}],
   connected : Time \cup {Never},
   marks    : [Days -> [Marks -> Nat]],
   markSums : [Marks -> Nat],
   latency  : [Days -> [Measures -> Nat]],
   latencySum : [Measures -> Nat]]

ImmersiveRecords == [type : {"immersive"}, marks : SUBSET Marks, latency : Time]

\* What a statement of the overview can answer.
Answer(statement) ==
  CASE statement \in {"today", "totals"} -> [Kinds -> Nat]
    [] statement = "sessions" -> Nat
    [] statement = "state"    -> [last : [Kinds -> Time \cup {Never}], connected : Time \cup {Never}]
    [] statement \in Kinds    -> [TypeKeys -> Nat]
    [] statement = "hourly"   -> [Hours -> [Kinds -> Nat]]
    [] statement = "starts"   -> [process : Time, bot : Time \cup {Never}]

\* The type invariant: every count is a natural number, every time is one, only
\* sessions with a key have rows, and the overview holds one answer per statement.
TypeOK ==
  /\ db \in Tables
  /\ now \in Time /\ waiting \in Nat /\ call \in [Chats -> Time \cup {Never}]
  /\ started \in [process : Time, bot : Time \cup {Never}]
  /\ owed \in [Slots -> ImmersiveRecords \cup {Nothing}]
  /\ view.at \in Time \cup {Never} /\ Len(view.seen) <= Len(Overview)
  /\ \A i \in 1 .. Len(view.seen) : view.seen[i] \in Answer(Overview[i])

\* Every table tells the same story: for each kind, a day's count is the sum of
\* its hours and the sum of its types, the totals of a type are the sum over the
\* days, and the immersive counters agree day by day in the same way.  It holds
\* after every transaction, whichever of them failed half-way.
TablesAgree ==
  /\ \A d \in Days, k \in Kinds :
       /\ db.daily[d][k] = Total([h \in Hours |-> db.hourly[d][h][k]])
       /\ db.daily[d][k] = Total(db.types[d][k])
  /\ \A k \in Kinds, t \in TypeKeys : db.typeSums[k][t] = Total([d \in Days |-> db.types[d][k][t]])
  /\ \A m \in Marks : db.markSums[m] = Total([d \in Days |-> db.marks[d][m]])
  /\ \A m \in Measures : db.latencySum[m] = Total([d \in Days |-> db.latency[d][m]])

Seen(statement) == view.seen[CHOOSE i \in DOMAIN view.seen : Overview[i] = statement]

\* The overview is no snapshot: records are added between its statements.  The
\* order of the statements still makes its numbers fit: no total is below
\* today's count, no list of types and no trend below the numbers read before,
\* and what was received today has a time and a connection.
OverviewFits ==
  Len(view.seen) = Len(Overview) =>
    \A k \in Kinds :
      /\ Seen("totals")[k] >= Seen("today")[k]
      /\ Total(Seen(k)) >= Seen("today")[k]
      /\ Total([h \in Hours |-> Seen("hourly")[h][k]]) >= Total(Seen(k))
      /\ Seen("today")[k] > 0 => Seen("state").last[k] # Never
      /\ Seen("today")["received"] > 0 => Seen("state").connected # Never

\* No wait for an answer is measured twice: the latencies recorded by all chats
\* together never exceed the hours the chats have waited.  Those may be more than
\* the hours that have passed: chats wait at the same time, and a call that was
\* held up on its way in has waited since before the previous one was answered.
LatencyWithinWaiting == db.latencySum["sum"] <= waiting
=============================================================================
