----------------------------- MODULE RepeatRound -----------------------------
(***************************************************************************)
(* The repeat engine (internal/bot/repeat) over the chat log of one group   *)
(* (internal/llm/manager_history.go, internal/chatlog): when the newest     *)
(* messages of the log are the same text by two users or more, the bot says *)
(* it too, once.                                                            *)
(*                                                                          *)
(* Every message has a handler goroutine, which takes a causal sequence     *)
(* number, appends its row and then lets the engine look at the newest      *)
(* ScanLimit rows.  A round is known by its text and by the number of its   *)
(* first row in view.  An action is one critical section or one call of the *)
(* store.  Texts are equal when they are equal up to white space; a row of  *)
(* another kind (a reply, a direct question to the bot, a poke) only takes  *)
(* up room.                                                                 *)
(***************************************************************************)
EXTENDS Naturals, Sequences

CONSTANTS
  Handlers,     \* goroutines of ambient messages
  Users, Texts,
  Nobody,       \* no handler holds the lock; no text
  ScanLimit,    \* defaultHistoryScanLimit
  MaxMessages,  \* bound: messages
  MaxUpsets     \* bound: /repeat on and off, /reload, /llm clear, restarts

ASSUME ConstantsAssumption ==
  /\ ScanLimit \in Nat \ {0} /\ MaxMessages \in Nat /\ MaxUpsets \in Nat
  /\ Nobody \notin Handlers \cup Texts

VARIABLES
  rows,        \* the chat log, oldest first
  causalSeq,   \* sessionUsageStats.causalSeq
  enabled,     \* IsEnabled of the session
  last,        \* the round the bot joined last
  lock,        \* the handler that holds sessionState.mu
  pc,          \* where each handler stands
  message,     \* the message of a handler
  number,      \* the sequence number a handler took
  tries,       \* the router will ask the repeat engine
  found,       \* the round a handler joins
  leaving,     \* /repeat off handlers between SetEnabled and Clear
  wiping,      \* ClearHistory handlers between the store and the counter
  arrived,     \* history: messages so far
  written,     \* history: rows appended so far
  joins,       \* history: rounds joined, in order
  suppressed,  \* history: rounds refused as joined already
  life,        \* history: times the engine forgot its round
  era,         \* history: times the numbering started again
  upsets       \* history: commands and restarts so far

log      == <<rows, causalSeq, written, era>>
engine   == <<enabled, last, lock, life>>
handlers == <<pc, message, number, tries, found>>
commands == <<leaving, wiping, upsets>>
history  == <<joins, suppressed>>
vars == <<log, engine, handlers, commands, history, arrived>>

(* A message of another kind than an ambient one (a direct question, a poke, *)
(* a reply of the model), of which the engine sees only that it is there.   *)
NoMessage == [user |-> Nobody, text |-> Nobody]
Said      == [user : Users, text : Texts] \cup {NoMessage}

NoNumber  == [seq |-> 0, era |-> 0]

(* A round: text, number and era of its first row in view, that row itself, *)
(* the first row of the whole round, and the number of its newest row.      *)
NoRound == [text |-> Nobody, start |-> NoNumber, shown |-> 0, first |-> 0,
            latest |-> NoNumber]

Init ==
  /\ rows = <<>> /\ causalSeq = 0 /\ written = 0 /\ era = 0
  /\ enabled \in BOOLEAN /\ last = NoRound /\ lock = Nobody /\ life = 0
  /\ pc = [h \in Handlers |-> "idle"]
  /\ message = [h \in Handlers |-> NoMessage]
  /\ number = [h \in Handlers |-> NoNumber]
  /\ tries = [h \in Handlers |-> FALSE]
  /\ found = [h \in Handlers |-> NoRound]
  /\ leaving = 0 /\ wiping = 0 /\ upsets = 0
  /\ joins = <<>> /\ suppressed = {} /\ arrived = 0

-----------------------------------------------------------------------------
(* The chat log: Append, and List with a limit; the identifiers of the rows *)
(* tell their order.                                                        *)
Row(m, n, cutoff) ==
  [id |-> written + 1, user |-> m.user, text |-> m.text,
   number |-> n, cutoff |-> cutoff]

Appended(row) == rows' = Append(rows, row) /\ written' = written + 1

Listed(limit) == {rows[i] : i \in {j \in DOMAIN rows : j + limit > Len(rows)}}

(* nextCausalSeq                                                            *)
NextNumber == [seq |-> causalSeq + 1, era |-> era]

-----------------------------------------------------------------------------
(* buildRepeatDecision: among the rows in view that are messages, those     *)
(* after which nothing but their own text was said.                         *)
Run(view) ==
  LET said == {r \in view : r.text # Nobody}
  IN  {r \in said : \A q \in said : q.id >= r.id => q.text = r.text}

IsRound(run) == \E r, q \in run : r.user # q.user

Earliest(run) == CHOOSE r \in run : \A q \in run : r.id <= q.id
Latest(run)   == CHOOSE r \in run : \A q \in run : q.id <= r.id

Round(run) ==
  [text |-> Earliest(run).text, start |-> Earliest(run).number,
   shown |-> Earliest(run).id, first |-> Earliest(Run(Listed(Len(rows)))).id,
   latest |-> Latest(run).number]

(* lastRoundBotJoined, lastRoundText and lastRoundStartSeq.  Faulty variant: *)
(* only the text is compared.                                               *)
SameText(round) == round.text = last.text

Joined(round) == round.text = last.text /\ round.start.seq = last.start.seq

-----------------------------------------------------------------------------
(* handleAmbientMessage                                                     *)
Goto(h, l) == pc' = [pc EXCEPT ![h] = l]

(* The handler is done with the log and the engine.                         *)
Leave(h) ==
  /\ Goto(h, "idle")
  /\ message' = [message EXCEPT ![h] = NoMessage]
  /\ number' = [number EXCEPT ![h] = NoNumber]
  /\ tries' = [tries EXCEPT ![h] = FALSE]
  /\ found' = [found EXCEPT ![h] = NoRound]

(* The switches are read; with both off nothing happens.  try: the engine   *)
(* will be asked, unless the message is for immersive mode.                 *)
Arrive(h, m, try) ==
  /\ pc[h] = "idle" /\ arrived < MaxMessages
  /\ try => enabled /\ m # NoMessage
  /\ arrived' = arrived + 1
  /\ Goto(h, "number")
  /\ message' = [message EXCEPT ![h] = m]
  /\ tries' = [tries EXCEPT ![h] = try]
  /\ UNCHANGED <<log, engine, number, found, commands, history>>

(* appendUserEventFormatted: first the number, then the row.                *)
Number(h) ==
  /\ pc[h] = "number"
  /\ number' = [number EXCEPT ![h] = NextNumber]
  /\ causalSeq' = causalSeq + 1
  /\ Goto(h, "append")
  /\ UNCHANGED <<rows, written, era, engine, message, tries, found, commands,
                 history, arrived>>

(* The store may refuse the row; the router goes on.                        *)
AppendMessage(h, stored) ==
  /\ pc[h] = "append"
  /\ IF stored THEN Appended(Row(message[h], number[h], NoNumber))
               ELSE UNCHANGED <<rows, written>>
  /\ IF tries[h] THEN Goto(h, "ask") /\ UNCHANGED <<message, number, tries, found>>
                 ELSE Leave(h)
  /\ UNCHANGED <<causalSeq, era, engine, commands, history, arrived>>

-----------------------------------------------------------------------------
(* tryRepeatWithSend: IsEnabled                                             *)
Ask(h) ==
  /\ pc[h] = "ask"
  /\ IF enabled THEN Goto(h, "look") /\ UNCHANGED <<message, number, tries, found>>
                ELSE Leave(h)
  /\ UNCHANGED <<log, engine, commands, history, arrived>>

(* With the lock held the newest rows are looked at.  A round the bot has   *)
(* not joined is kept, with the lock.  Faulty variant: without the lock.    *)
EvaluateUnlocked(h) ==
  LET run == Run(Listed(ScanLimit))
  IN  /\ pc[h] = "look"
      /\ IsRound(run) /\ ~Joined(Round(run))
      /\ Goto(h, "send")
      /\ found' = [found EXCEPT ![h] = Round(run)]
      /\ UNCHANGED <<log, engine, message, number, tries, commands, history,
                     arrived>>

Evaluate(h) ==
  LET run == Run(Listed(ScanLimit))
  IN  /\ pc[h] = "look" /\ lock = Nobody
      /\ IsRound(run) /\ ~Joined(Round(run))
      /\ lock' = h
      /\ Goto(h, "send")
      /\ found' = [found EXCEPT ![h] = Round(run)]
      /\ UNCHANGED <<log, enabled, last, life, message, number, tries,
                     commands, history, arrived>>

(* already_joined_round                                                     *)
Suppress(h) ==
  LET run == Run(Listed(ScanLimit))
  IN  /\ pc[h] = "look" /\ lock = Nobody
      /\ IsRound(run) /\ Joined(Round(run))
      /\ suppressed' = suppressed \cup
           {[shown |-> Round(run).shown,
             sameEra |-> Round(run).start.era = last.start.era]}
      /\ Leave(h)
      /\ UNCHANGED <<log, engine, commands, joins, arrived>>

(* Any other reason, or the rows cannot be read.                            *)
Miss(h) ==
  /\ pc[h] = "look" /\ lock = Nobody
  /\ Leave(h)
  /\ UNCHANGED <<log, engine, commands, history, arrived>>

(* sendFn                                                                   *)
Send(h) ==
  /\ pc[h] = "send"
  /\ joins' = Append(joins, [shown |-> found[h].shown, first |-> found[h].first,
                             life |-> life])
  /\ Goto(h, "number_reply")
  /\ UNCHANGED <<log, engine, message, number, tries, found, commands,
                 suppressed, arrived>>

(* appendAssistantEventFormatted.  Faulty variant: the number is not new.   *)
NumberReplyAgain(h) ==
  /\ pc[h] = "number_reply"
  /\ number' = [number EXCEPT ![h] = [seq |-> causalSeq, era |-> era]]
  /\ Goto(h, "append_reply")
  /\ UNCHANGED <<log, engine, message, tries, found, commands, history,
                 arrived>>

NumberReply(h) ==
  /\ pc[h] = "number_reply"
  /\ number' = [number EXCEPT ![h] = NextNumber]
  /\ causalSeq' = causalSeq + 1
  /\ Goto(h, "append_reply")
  /\ UNCHANGED <<rows, written, era, engine, message, tries, found, commands,
                 history, arrived>>

AppendReply(h, stored) ==
  /\ pc[h] = "append_reply"
  /\ IF stored THEN Appended(Row(NoMessage, number[h], found[h].latest))
               ELSE UNCHANGED <<rows, written>>
  /\ Goto(h, "remember")
  /\ UNCHANGED <<causalSeq, era, engine, message, number, tries, found,
                 commands, history, arrived>>

(* The immersive engine is told (RepeatDelivered of ImmersiveSession), the   *)
(* round is remembered and the lock released.  Faulty variant: nothing is    *)
(* remembered.                                                              *)
RememberNothing(h) ==
  /\ pc[h] = "remember"
  /\ lock' = Nobody
  /\ Leave(h)
  /\ UNCHANGED <<log, enabled, last, life, commands, history, arrived>>

Remember(h) ==
  /\ pc[h] = "remember"
  /\ last' = found[h]
  /\ lock' = Nobody
  /\ Leave(h)
  /\ UNCHANGED <<log, enabled, life, commands, history, arrived>>

-----------------------------------------------------------------------------
(* A command or a restart.                                                  *)
Upset == upsets < MaxUpsets /\ upsets' = upsets + 1

(* /repeat on                                                               *)
RepeatOn ==
  /\ Upset
  /\ enabled' = TRUE
  /\ UNCHANGED <<log, last, lock, life, handlers, leaving, wiping, history, arrived>>

(* /repeat off: SetEnabled, then Clear, which waits for the lock.           *)
RepeatOff ==
  /\ Upset
  /\ enabled' = FALSE
  /\ leaving' = leaving + 1
  /\ UNCHANGED <<log, last, lock, life, handlers, wiping, history, arrived>>

Clear ==
  /\ leaving > 0 /\ lock = Nobody
  /\ leaving' = leaving - 1
  /\ last' = NoRound
  /\ life' = life + 1
  /\ UNCHANGED <<log, enabled, lock, handlers, wiping, upsets, history, arrived>>

(* /reload: a session that follows the configuration is switched.           *)
ReloadConfig ==
  /\ Upset
  /\ enabled' = ~enabled
  /\ UNCHANGED <<log, last, lock, life, handlers, leaving, wiping, history, arrived>>

(* ClearHistory: the rows, if the store can delete them, then the counter.  *)
(* The engine is not told.                                                  *)
ClearRows ==
  /\ Upset
  /\ rows' \in {<<>>, rows}
  /\ wiping' = wiping + 1
  /\ UNCHANGED <<causalSeq, written, era, engine, handlers, leaving, history, arrived>>

ClearStats ==
  /\ wiping > 0
  /\ wiping' = wiping - 1
  /\ causalSeq' = 0
  /\ era' = era + 1
  /\ UNCHANGED <<rows, written, engine, handlers, leaving, upsets, history, arrived>>

(* The process is restarted: what is in memory is gone, the rows are not.   *)
Restart ==
  /\ Upset
  /\ causalSeq' = 0 /\ era' = era + 1
  /\ enabled' \in BOOLEAN
  /\ last' = NoRound /\ lock' = Nobody /\ life' = life + 1
  /\ pc' = [h \in Handlers |-> "idle"]
  /\ message' = [h \in Handlers |-> NoMessage]
  /\ number' = [h \in Handlers |-> NoNumber]
  /\ tries' = [h \in Handlers |-> FALSE]
  /\ found' = [h \in Handlers |-> NoRound]
  /\ leaving' = 0 /\ wiping' = 0
  /\ UNCHANGED <<rows, written, history, arrived>>

-----------------------------------------------------------------------------
TryRepeat(h) ==
  \/ Ask(h) \/ Evaluate(h) \/ Suppress(h) \/ Miss(h)
  \/ Send(h) \/ NumberReply(h) \/ Remember(h)
  \/ \E stored \in BOOLEAN : AppendReply(h, stored)

Handler(h) ==
  \/ \E m \in Said, try \in BOOLEAN : Arrive(h, m, try)
  \/ Number(h)
  \/ \E stored \in BOOLEAN : AppendMessage(h, stored)
  \/ TryRepeat(h)

Command == RepeatOn \/ RepeatOff \/ Clear \/ ReloadConfig \/ ClearRows \/ ClearStats

Next == (\E h \in Handlers : Handler(h)) \/ Command \/ Restart

Spec == Init /\ [][Next]_vars

-----------------------------------------------------------------------------
(* Properties                                                               *)

Numbers == [seq : Nat, era : Nat]
Rounds  == [text : Texts \cup {Nobody}, start : Numbers, shown : Nat,
            first : Nat, latest : Numbers]
Rows    == [id : Nat, user : Users \cup {Nobody}, text : Texts \cup {Nobody},
            number : Numbers, cutoff : Numbers]
Steps   == {"idle", "number", "append", "ask", "look", "send",
            "number_reply", "append_reply", "remember"}
Joining == {"send", "number_reply", "append_reply", "remember"}

LogOK == rows \in Seq(Rows) /\ causalSeq \in Nat /\ written \in Nat /\ era \in Nat

EngineOK ==
  /\ enabled \in BOOLEAN /\ last \in Rounds /\ life \in Nat
  /\ lock \in Handlers \cup {Nobody}
  /\ leaving \in Nat /\ wiping \in Nat

HandlersOK ==
  /\ pc \in [Handlers -> Steps] /\ message \in [Handlers -> Said]
  /\ number \in [Handlers -> Numbers] /\ tries \in [Handlers -> BOOLEAN]
  /\ found \in [Handlers -> Rounds]

HistoryOK == joins \in Seq([shown : Nat, first : Nat, life : Nat])

LockOK == \A h \in Handlers : pc[h] \in Joining <=> lock = h

(* The type invariant; the lock is held by the handler that is joining a    *)
(* round, and by nobody else.                                               *)
TypeOK == LogOK /\ EngineOK /\ HandlersOK /\ HistoryOK /\ LockOK

(* As long as the engine remembers (no /repeat off, no restart), the bot    *)
(* does not join twice a round that it sees begin with the same row,        *)
(* however many handlers look at the log at once and whatever comes in      *)
(* between.                                                                 *)
RoundJoinedOnce ==
  \A i, j \in DOMAIN joins :
    i < j /\ joins[i].life = joins[j].life => joins[i].shown # joins[j].shown

(* A round is refused as joined only if it was joined, unless the numbering *)
(* started again since the bot joined the round it remembers.               *)
SuppressedWasJoined ==
  \A s \in suppressed :
    s.sameEra => \E i \in DOMAIN joins : joins[i].shown = s.shown

(* Within one numbering no two rows have the same number, and a reply has a *)
(* higher number than the row it answers, although handlers take numbers    *)
(* and append rows in different orders.                                     *)
CausalOrder ==
  /\ \A i, j \in DOMAIN rows : i # j => rows[i].number # rows[j].number
  /\ \A i \in DOMAIN rows : rows[i].cutoff # NoNumber
       /\ rows[i].cutoff.era = rows[i].number.era
       => rows[i].cutoff.seq < rows[i].number.seq

(* What TestTryRepeat_SingleRoundOnlyOnce expects: the same round is        *)
(* suppressed after the bot joined it.  A round longer than the scan limit  *)
(* seems to begin at another row with every message.                        *)
SingleRoundOnlyOnce ==
  \A i, j \in DOMAIN joins :
    i < j /\ joins[i].life = joins[j].life => joins[i].first # joins[j].first

(* What TestTryRepeat_AllowsNewRoundAfterInterruption expects: an           *)
(* interruption creates a new round, which the bot joins.  After /llm clear *)
(* a new round may begin with the text and the number of the old one.       *)
NewRoundIsNotSuppressed ==
  \A s \in suppressed : \E i \in DOMAIN joins : joins[i].shown = s.shown

=============================================================================
