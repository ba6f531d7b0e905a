---------------------------- MODULE ReplyPipeline ----------------------------
(***************************************************************************)
(* Answering in one session (internal/llm): every handler runs in its own   *)
(* goroutine, reads the settings, numbers and stores the question, reads    *)
(* the history, asks the model, lets it read and write the history through  *)
(* tools, and stores the answer.  Meanwhile the configuration is reloaded,  *)
(* the history is cleared, and the process may stop.                        *)
(*                                                                          *)
(* An action is one critical section, one statement on a store, one read of *)
(* the client's settings or one answer of the model.  The tool loop's own   *)
(* rules are in ToolLoop, the immersive session that calls "talk" and       *)
(* "intent" and stores what was said is in ImmersiveSession.                *)
(***************************************************************************)
EXTENDS ModelSettings, HistoryStore, FiniteSetsExt

CONSTANTS
  Requests,       \* handlers, 1 .. n
  Calls,          \* the tool calls the model may make
  DefaultWindow,  \* entries the context shows when no limit is configured
  Mixes           \* bounds: how often each thing happens, one record per scenario

ASSUME PipelineConstants ==
  /\ IsFiniteSet(Requests) /\ Requests = 1 .. Cardinality(Requests) /\ DefaultWindow \in Nat \ {0}
  /\ \A v \in Versions : Configs[v].chats \in Int /\ Configs[v].diaries \in Int /\ Configs[v].maxChars \in Int
  /\ \A call \in Calls : call.tool = "read" => call.limit \in Int
  /\ \A mix \in Mixes : mix.version \in Versions /\ mix.old \in Nat /\ mix.notes \in Nat

VARIABLES
  log,          \* the chat log of the session, oldest row first
  diary,        \* the diary of the session
  causalSeq,    \* the counter of the session's statistics
  clearing,     \* what ClearHistory does next, "none" when it is not running
  request,      \* the handlers
  reading,      \* what the model has read through a tool, page by page
  era,          \* history: how often the counter was reset
  left          \* bounds: what may still happen

history == <<log, diary, causalSeq, clearing, era>>
vars == <<settings, history, request, reading, left>>

Kinds == {"ai", "poke", "talk", "intent", "ambient"}

NoCutoff == 0

QuestionOf(r) == SelectInSeq(log, LAMBDA row : row.by = r /\ row.role = "user")
AnswerOf(r)   == SelectInSeq(log, LAMBDA row : row.by = r /\ row.role = "assistant")

-----------------------------------------------------------------------------

NoCall  == [tool |-> "none"]
Nobody  == [kind |-> "none", step |-> "idle", model |-> 0, prompt |-> 0, rest |-> 1, seq |-> 0, era |-> 0, cutoff |-> NoCutoff,
            context |-> <<>>, hidden |-> FALSE, thinking |-> 0, effort |-> 0, url |-> 0, key |-> 0,
            calls |-> 0, call |-> NoCall, told |-> "nothing", lost |-> FALSE]
Unread  == [of |-> "none", start |-> {}, shown |-> {}, cursor |-> 0, total |-> 0, broken |-> FALSE, ended |-> "no"]

\* What an append stores of the event of handler r; old rows are of handlers below 1.
Row(r, role, cutoff) ==
  [by |-> r, role |-> role, seq |-> request[r].seq, cutoff |-> cutoff, era |-> request[r].era]
OldRow(n) == [by |-> -n, role |-> "user", seq |-> n, cutoff |-> NoCutoff, era |-> 0]

Init ==
  /\ left \in Mixes
  /\ SettingsInit(left.version)
  /\ log = [n \in 1 .. left.old |-> OldRow(left.old + 1 - n)]
  /\ diary = [n \in 1 .. left.notes |-> [by |-> -n, nth |-> 0]] /\ causalSeq = 0 /\ era = 1 /\ clearing = "none"
  /\ request = [r \in Requests |-> Nobody] /\ reading = [r \in Requests |-> Unread]

Spend(what) == left[what] > 0 /\ left' = [left EXCEPT ![what] = @ - 1]

SQLite == left.store = "sqlite"      \* a statement may fail

\* Handler r does something that touches nothing but itself.
Goes(r, next) == request' = [request EXCEPT ![r] = next]

Does(r, step) == request[r].step = step

\* What the caller does when the reply failed: a poke is answered with a stock phrase.
Failed(q) == IF q.kind = "poke" THEN [q EXCEPT !.step = "number_answer", !.told = "reply"]
             ELSE [q EXCEPT !.step = "done", !.told = "error"]

-----------------------------------------------------------------------------
(* The question. *)

Begin(r, kind) ==
  /\ Does(r, "idle") /\ (r > 1 => ~Does(r - 1, "idle"))
  /\ Spend(kind)
  /\ Goes(r, [Nobody EXCEPT !.kind = kind, !.step = IF kind = "ambient" THEN "number" ELSE "snapshot"])
  /\ UNCHANGED <<settings, history, reading>>

\* snapshotPipelineState: all of the manager's settings under one lock.
Snapshot(r) ==
  /\ Does(r, "snapshot")
  /\ LET q == [request[r] EXCEPT !.model = current.model, !.prompt = current.prompt, !.rest = current.rest] IN
       Goes(r, IF current.model # Chosen /\ ~Configs[current.model].model THEN Failed(q)
               ELSE [q EXCEPT !.step = IF q.kind = "ai" THEN "number" ELSE "chat"])
  /\ UNCHANGED <<settings, history, reading, left>>

StaleSeq(n) == n
NextSeq(n)  == n + 1

\* nextCausalSeq, before the row is in the store.
Number(r) ==
  /\ request[r].step \in {"number", "number_answer"}
  /\ causalSeq' = NextSeq(causalSeq)
  /\ Goes(r, [request[r] EXCEPT !.seq = causalSeq', !.era = era,
                                !.step = IF @ = "number" THEN "append" ELSE "append_answer"])
  /\ UNCHANGED <<settings, log, diary, clearing, era, reading, left>>

\* The number is the cutoff of the answer.  An ambient message ends here, stored or not.
Asked(q) == [q EXCEPT !.cutoff = q.seq, !.step = IF q.kind = "ambient" THEN "done" ELSE "chat"]

AppendQuestion(r) ==
  /\ Does(r, "append")
  /\ \/ /\ log' = Append(log, Row(r, "user", NoCutoff))
        /\ Goes(r, Asked(request[r]))
     \/ /\ SQLite
        /\ Goes(r, IF request[r].kind = "ambient" THEN [Asked(request[r]) EXCEPT !.cutoff = NoCutoff] ELSE Failed(request[r]))
        /\ UNCHANGED log
  /\ UNCHANGED <<settings, diary, causalSeq, clearing, era, reading, left>>

-----------------------------------------------------------------------------
(* The context. *)

Limit(n) == IF n <= 0 THEN DefaultWindow ELSE n
Shows(r) == Configs[request[r].rest]

\* Assemble reads the log, then the diary, with the limits of the snapshot.
\* hidden: the question is gone, or so far back or the log so long that it may be cut.
ReadChat(r) ==
  /\ Does(r, "chat")
  /\ \/ LET limit  == Limit(Shows(r).chats)
            window == Window(log, limit)
            place  == QuestionOf(r)
        IN Goes(r, [request[r] EXCEPT !.step = "diary", !.context = window,
                    !.hidden = \/ place = 0 \/ Len(log) - place >= limit
                               \/ Shows(r).maxChars \in 1 .. Chars(Len(window)) - 1])
     \/ SQLite /\ Goes(r, Failed(request[r]))
  /\ UNCHANGED <<settings, history, reading, left>>

ReadDiary(r) ==
  /\ Does(r, "diary")
  /\ \/ LET notes == Least(Len(diary), Limit(Shows(r).diaries))
        IN Goes(r, [request[r] EXCEPT !.step = "key", !.context = SeenRows(@, notes, Shows(r).maxChars)])
     \/ SQLite /\ Goes(r, Failed(request[r]))
  /\ UNCHANGED <<settings, history, reading, left>>

-----------------------------------------------------------------------------
(* Asking the model: the client's settings are read one after another. *)

EnsureKey(r) ==
  /\ Does(r, "key")
  /\ Goes(r, IF Configs[client.key].key THEN [request[r] EXCEPT !.step = "thinking"] ELSE Failed(request[r]))
  /\ UNCHANGED <<settings, history, reading, left>>

\* The immersive engine turns thinking off for its own requests.
Thinking(q) == IF q.kind \in {"talk", "intent"} THEN NoSetting ELSE client.thinking

ReadThinking(r) ==
  /\ Does(r, "thinking")
  /\ Goes(r, [request[r] EXCEPT !.step = "effort", !.thinking = Thinking(request[r])])
  /\ UNCHANGED <<settings, history, reading, left>>

ReadEffort(r) ==
  /\ Does(r, "effort")
  /\ Goes(r, [request[r] EXCEPT !.step = "send", !.effort = EffortSent(request[r].thinking, client.effort)])
  /\ UNCHANGED <<settings, history, reading, left>>

Send(r) ==
  /\ Does(r, "send")
  /\ Goes(r, [request[r] EXCEPT !.step = "answer", !.url = client.url, !.key = client.key])
  /\ UNCHANGED <<settings, history, reading, left>>

\* What the caller does with the text: /ai stores the answer and then says it,
\* a poke says it and then stores it, the immersive engine stores it elsewhere.
AnsweredUnstored(q) ==
  IF q.kind = "poke" THEN [q EXCEPT !.step = "number_answer", !.told = "reply"]
  ELSE [q EXCEPT !.step = "done", !.told = "reply"]
Answered(q) ==
  CASE q.kind = "ai"   -> [q EXCEPT !.step = "number_answer"]
    [] q.kind = "poke" -> [q EXCEPT !.step = "number_answer", !.told = "reply"]
    [] OTHER           -> [q EXCEPT !.step = "done", !.told = "reply"]

Answer(r) ==
  /\ Does(r, "answer")
  /\ Goes(r, Answered(request[r]))
  /\ UNCHANGED <<settings, history, reading, left>>

\* An error, a timeout, a blank answer, or an intent that cannot be parsed.
NoAnswer(r) ==
  /\ Does(r, "answer")
  /\ Goes(r, Failed(request[r]))
  /\ UNCHANGED <<settings, history, reading, left>>

-----------------------------------------------------------------------------
(* Tools. *)

\* /ai runs the tool loop even when there are no tools; then every call is refused.
UsesLoop(r) == request[r].kind = "ai" \/ (request[r].kind = "talk" /\ Shows(r).tools)

CallTool(r, call) ==
  /\ Does(r, "answer") /\ UsesLoop(r) /\ Spend("calls")
  /\ Goes(r, [request[r] EXCEPT !.step = "tool", !.call = call, !.calls = @ + 1])
  /\ UNCHANGED <<settings, history, reading>>

\* The next generation, unless this was the last step the loop allows.
Returned(r) ==
  Goes(r, IF request[r].calls < Shows(r).steps THEN [request[r] EXCEPT !.step = "key", !.call = NoCall]
          ELSE Failed([request[r] EXCEPT !.call = NoCall]))

\* MCP servers have no client here: a call of one fails whatever it asks for.
Remote(call) == IF ~call.known THEN "not_found" ELSE IF call.fits THEN "internal" ELSE "invalid_arguments"

\* The router has providers only when the tools are enabled.
Offered(r) == IF Shows(r).tools THEN {"read", "write", "mcp"} ELSE {}

\* The code of the error a call returns without reaching a store.
Refusal(r, call) ==
  IF call.tool \notin Offered(r) THEN "not_found"
  ELSE CASE call.tool = "mcp"                    -> Remote(call)
         [] call.tool = "read" /\ call.limit < 0 -> "invalid_arguments"
         [] OTHER                                -> "none"

Refuse(r) ==
  /\ Does(r, "tool") /\ Refusal(r, request[r].call) # "none"
  /\ Returned(r)
  /\ UNCHANGED <<settings, history, reading, left>>

Runs(r, tool) == Does(r, "tool") /\ request[r].call.tool = tool /\ Refusal(r, request[r].call) = "none"

Note(r) == [by |-> r, nth |-> request[r].calls]

WriteDiary(r) ==
  /\ Runs(r, "write")
  /\ \/ diary' = Append(diary, Note(r))
     \/ SQLite /\ UNCHANGED diary
  /\ Returned(r)
  /\ UNCHANGED <<settings, log, causalSeq, clearing, era, reading, left>>

Rows(of) == IF of = "chat" THEN log ELSE diary

\* The model goes on with the cursor of the last page, or begins with another history.
Opened(r, of) ==
  IF reading[r].of = of /\ reading[r].ended = "no" THEN reading[r]
  ELSE [Unread EXCEPT !.of = of, !.start = ToSet(Rows(of))]

Page(rows, open, total, call) == Limited(Listed(rows, total, open.cursor, ReadLimit(call.limit)))

\* What the model has seen when the page came back.
Turned(open, page, stale) ==
  [open EXCEPT !.shown = @ \cup ToSet(page.page), !.cursor = IF page.next = NoCursor THEN @ ELSE page.next,
               !.broken = @ \/ stale,
               !.ended = IF page.truncated THEN "cut" ELSE IF page.next = NoCursor THEN "whole" ELSE "no"]

\* SQLite counts in one statement and selects in another.
Count(r) ==
  /\ Runs(r, "read") /\ SQLite
  /\ \/ LET open == Opened(r, request[r].call.of)
            total == Len(Rows(open.of))
        IN IF open.cursor < total
           THEN /\ reading' = [reading EXCEPT ![r] = [open EXCEPT !.total = total]]
                /\ Goes(r, [request[r] EXCEPT !.step = "select"])
           ELSE /\ reading' = [reading EXCEPT ![r] = [open EXCEPT !.ended = "whole"]]
                /\ Returned(r)
     \/ Returned(r) /\ UNCHANGED reading
  /\ UNCHANGED <<settings, history, left>>

Select(r) ==
  /\ Does(r, "select")
  /\ \/ LET open == reading[r]
            rows == Rows(open.of)
            page == Page(rows, open, open.total, request[r].call)
        IN reading' = [reading EXCEPT ![r] = Turned(open, page, Len(rows) > open.total)]
     \/ UNCHANGED reading
  /\ Returned(r)
  /\ UNCHANGED <<settings, history, left>>

\* The memory store does both under its lock, and does not fail.
ReadPage(r) ==
  /\ Runs(r, "read") /\ ~SQLite
  /\ LET open == Opened(r, request[r].call.of)
         rows == Rows(open.of)
     IN reading' = [reading EXCEPT ![r] = Turned(open, Page(rows, open, Len(rows), request[r].call), FALSE)]
  /\ Returned(r)
  /\ UNCHANGED <<settings, history, left>>

-----------------------------------------------------------------------------
(* The answer. *)

NewestCutoff(q) == causalSeq
Cutoff(q)       == q.cutoff

\* A failure to store the answer is ignored.
AppendAnswer(r) ==
  /\ Does(r, "append_answer")
  /\ LET said == [request[r] EXCEPT !.step = "done", !.told = "reply"] IN
       \/ log' = Append(log, Row(r, "assistant", Cutoff(request[r]))) /\ Goes(r, said)
       \/ SQLite /\ UNCHANGED log /\ Goes(r, [said EXCEPT !.lost = TRUE])
  /\ UNCHANGED <<settings, diary, causalSeq, clearing, era, reading, left>>

-----------------------------------------------------------------------------
(* Clearing and restarting. *)

\* ClearHistory: each store may fail, the statistics go anyway.
Clear ==
  /\ clearing = "none" /\ Spend("clears")
  /\ clearing' = "chat"
  /\ UNCHANGED <<settings, log, diary, causalSeq, era, request, reading>>

ClearChat ==
  /\ clearing = "chat" /\ clearing' = "diary"
  /\ \/ log' = <<>>
     \/ SQLite /\ UNCHANGED log
  /\ UNCHANGED <<settings, diary, causalSeq, era, request, reading, left>>

ClearDiary ==
  /\ clearing = "diary" /\ clearing' = "stats"
  /\ \/ diary' = <<>>
     \/ SQLite /\ UNCHANGED diary
  /\ UNCHANGED <<settings, log, causalSeq, era, request, reading, left>>

ClearStats ==
  /\ clearing = "stats" /\ clearing' = "none"
  /\ causalSeq' = 0 /\ era' = era + 1
  /\ UNCHANGED <<settings, log, diary, request, reading, left>>

\* The database outlives the process; the counter and the handlers do not.
Stopped(q) == IF q.step \in {"idle", "done"} THEN q ELSE [q EXCEPT !.step = "done", !.lost = TRUE]

Restart ==
  /\ Spend("restarts")
  /\ SettingsRestart
  /\ IF SQLite THEN UNCHANGED <<log, diary>> ELSE (log' = <<>> /\ diary' = <<>>)
  /\ causalSeq' = 0 /\ era' = era + 1 /\ clearing' = "none"
  /\ request' = [r \in Requests |-> Stopped(request[r])]
  /\ reading' = [r \in Requests |-> Unread]

-----------------------------------------------------------------------------

Settings ==
  /\ \/ Spend("reloads") /\ \E h \in Reloaders : Load(h)
     \/ Reload /\ UNCHANGED left
     \/ Spend("commands") /\ (SetModel \/ SetSystemPrompt \/ ResetDefaults)
  /\ UNCHANGED <<history, request, reading>>

Replies ==
  \E r \in Requests :
    \/ \E kind \in Kinds : Begin(r, kind)
    \/ Snapshot(r) \/ Number(r) \/ AppendQuestion(r) \/ ReadChat(r) \/ ReadDiary(r)
    \/ EnsureKey(r) \/ ReadThinking(r) \/ ReadEffort(r) \/ Send(r) \/ Answer(r) \/ NoAnswer(r) \/ AppendAnswer(r)
    \/ \E call \in Calls : CallTool(r, call)
    \/ Refuse(r) \/ WriteDiary(r) \/ Count(r) \/ Select(r) \/ ReadPage(r)

Next == Settings \/ Replies \/ Clear \/ ClearChat \/ ClearDiary \/ ClearStats \/ Restart

Spec == Init /\ [][Next]_vars

-----------------------------------------------------------------------------

Steps == {"idle", "snapshot", "number", "append", "chat", "diary", "key", "thinking", "effort", "send", "answer",
          "tool", "select", "number_answer", "append_answer", "done"}

\* Types, and the shape of the log: the numbers of rows start at 1, and only an
\* answer carries a cutoff (nextCausalSeq, appendAssistantEventFormatted).
TypeOK ==
  /\ SettingsOK
  /\ causalSeq \in Nat /\ era \in Nat /\ clearing \in {"none", "chat", "diary", "stats"}
  /\ \A i \in DOMAIN log : /\ log[i].role \in {"user", "assistant"} /\ log[i].seq >= 1 /\ log[i].era <= era
                           /\ log[i].cutoff # NoCutoff => log[i].role = "assistant"
  /\ \A r \in Requests : /\ request[r].kind \in Kinds \cup {"none"} /\ request[r].step \in Steps
                         /\ request[r].told \in {"nothing", "reply", "error"}
                         /\ reading[r].ended \in {"no", "cut", "whole"}

\* A request never carries thinking settings from a newer configuration than the
\* key, nor a key from a newer one than the endpoint: the settings are read in the
\* opposite order to the one in which ReloadConfig sets them.
SettingsNotAheadOfEndpoint ==
  \A r \in Requests : Does(r, "answer") /\ ~overlapped =>
    /\ request[r].thinking <= request[r].key /\ request[r].effort <= request[r].key
    /\ request[r].key <= request[r].url

\* Searching back from an answer for the user row that its cutoff numbers finds
\* the question it answers, as long as that row is still there and no row numbered
\* before or after a reset of the counter came in between (numbers repeat after
\* a clear or a restart, and rows of two handlers may be stored out of order).
AnswerNamesItsQuestion ==
  \A i \in DOMAIN log : log[i].cutoff # NoCutoff =>
    LET question == QuestionOf(log[i].by)
        between  == question + 1 .. i - 1
    IN (question \in 1 .. i - 1 /\ \A j \in between : log[j].era = log[question].era) =>
         /\ log[question].seq = log[i].cutoff
         /\ \A j \in between : log[j].role = "user" => log[j].seq # log[i].cutoff

\* When /ai is over and its question is still in the log, the log has an answer to
\* it if and only if the user was given one, unless storing it failed or the
\* process stopped in between: a failed reply leaves the question alone in the log.
HistoryTellsOutcome ==
  \A r \in Requests : request[r].kind = "ai" /\ Does(r, "done") /\ ~request[r].lost /\ QuestionOf(r) # 0 =>
    (AnswerOf(r) # 0 <=> request[r].told = "reply")

\* The context of a question to /ai shows that question, however many diary notes
\* there are, unless it was cleared, enough rows came after it, or the chat log
\* alone is longer than the context may be (Assemble, clipBlocks).
QuestionSeen ==
  \A r \in Requests : request[r].kind = "ai" /\ Does(r, "key") /\ ~request[r].hidden =>
    \E i \in DOMAIN request[r].context : request[r].context[i].by = r /\ request[r].context[i].role = "user"

\* A model that follows the cursors until there is none has seen every row that
\* was there from the first page to the last, unless a result was too long or a row
\* was appended between the count and the select of one page.
PagesCoverHistory ==
  \A r \in Requests : reading[r].ended = "whole" /\ ~reading[r].broken =>
    reading[r].start \cap ToSet(Rows(reading[r].of)) \subseteq reading[r].shown
=============================================================================
