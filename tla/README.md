# nekomimi in TLA+

nekomimi is a QQ group bot in Go. It answers commands, joins rounds of repeated
messages, and in *immersive mode* takes part in a conversation by itself: it
collects messages, asks a language model whether to skip, wait or reply, and may
follow up on a question of its own. An HTTP API with a web dashboard lets an
administrator look at it. This directory holds TLA+ models of the parts whose
correctness depends on the order of things, the TLC runs that check them, and
TLAPS proofs of what matters most.

```
tlc -workers 2 -config ImmersiveSession.cfg MCImmersiveSession
tlapm ImmersiveSessionProofs.tla
```

Every run, its configuration, its properties and the lines each definition was
translated from are listed in `PROJECT.json`.

## 1. The system

| Component | State | Operations | Modelled in |
|---|---|---|---|
| Immersive session scheduler (`internal/bot/immersive`: `immersive.go`, `proactive.go`) | per session, under `state.mu`: `nextBatch`, `inFlight`, `waitRounds`, `sendFn`, flush timer, follow-up timer, pending question and budget | `EnqueueAmbient`, `flush`, `applyWaitDecision`, `finalizeFlush`, `noteAssistantDelivered`, `tryFollowup`, `Clear` | `ImmersiveSession`, `SessionMailbox`; in time, `ConversationMode` |
| Mode, energy and speak gate (`state.go`, `energy.go`, `signal_score.go`) | mode, energy, focus speaker, timestamps | observe a message, decay, score, gate | `ConversationMode`, `SpeakPolicy` |
| Flush delay (`cooldown.go`) | none | `computeFlushDecision`, `mergeWaitDecision` | `SpeakPolicy` |
| Ambient router and chat commands (`internal/bot/commands`) | none of their own | `/chat`, `/llm`, `/ai`, `handleAmbientMessage` | actions of `ImmersiveSession`, `RepeatRound`, `ReplyPipeline`, `ModelSettings` |
| Repeat engine (`internal/bot/repeat`) | last joined round per session, overrides | `TryRepeat`, `SetEnabled`, `Clear` | `RepeatRound`; its delivery in `ImmersiveSession` |
| LLM manager (`internal/llm/manager*.go`, `session_state.go`) | switches, model and prompt, causal sequence number per session | reply, decide, append, reload, clear | `ReplyPipeline`, `ModelSettings` |
| LLM client (`internal/llm/client`) | endpoint, key, thinking, effort, under a lock of its own | set one, read one, generate | `ModelSettings`, `ReplyPipeline` |
| Tool loop (`internal/llm/toolloop`) | one run: trace, step, attempt | `Run`, `RunStream` | `ToolLoop` |
| Tools router, internal tools, MCP (`internal/llm/tools`, `mcp`) | providers | list, call | calls in `ReplyPipeline` |
| Chat log and diary (`internal/chatlog`, `internal/diary`) | rows | append, newest rows, pages by cursor, clear | `HistoryStore` (operators), `ReplyPipeline` and `RepeatRound` (state) |
| Context assembler (`internal/ctxasm`) | none | assemble, clip | `HistoryStore` |
| Admin authentication (`internal/httpapi/auth*.go`, `refresh_store.go`, `middleware.go`) | row of `auth_state`, its copy in memory, key, refresh store | start, login, refresh, access check, rotation | `AuthSession` |
| Metrics collector (`internal/metrics`) and the dashboard's overview | counters in SQLite, start times in memory | record, build the overview | `MetricsCollector` |
| Configuration, HTTP routing, other commands, web dashboard | files, browser storage | | not modelled (section 8) |

How they interact. The bot framework runs every message handler in a goroutine
of its own. A handler of an ambient message reads the switches of the LLM
manager, appends the message to the chat log, asks the repeat engine and then
enqueues the message in the session. A timer goroutine (`time.AfterFunc`) later
takes the whole buffer under the session's lock, releases the lock, calls the
chat store and the model, and comes back under the lock to finish. Command
handlers switch the manager, reload its configuration and clear the session at any
moment. Every call of the model that may use tools is a run of the tool loop, under a
timeout. Handlers and the engine write counters, one transaction each, and the
dashboard reads them statement by statement. HTTP handlers run in goroutines of their
own and share the authentication state.

What is hard, and what makes each part correct:

* **Scheduler.** The session is unlocked during calls that take seconds, so
  `inFlight` stands for a lock that timers, follow-ups and `Clear` must all
  respect; `Timer.Stop` does not recall a callback that fired; a deferred batch
  comes back to a buffer that others have written or cleared. Correct: one owner;
  no message lost, reordered, logged or answered twice; no message kept for ever;
  at most one reply after the bot was switched off.
* **Conversation.** Mode and energy are settled only when something touches the
  session, and four delays are clamped against each other. Correct: a batch keeps its
  deadline; a closed gate opens only in a conversation; whoever answered is not
  asked again.
* **Replies.** A reply reads the manager's settings, then the client's, one at a time,
  while a reload sets them one at a time; question and answer are stored far apart;
  the context is cut; the model pages through a history that grows. Correct: the
  settings settle and are read in a harmless order; an answer names its question; the
  log tells what happened; the question is seen; pages miss nothing.
* **Authentication.** Each request reads, checks, consumes and issues in critical
  sections of its own, while a rotation changes passphrase and version in the
  database and then in memory, and the process may die between the two. Correct:
  no session outlives the passphrase that was proved for it; a refresh token is
  good for one exchange; a restart changes nothing; versions never fall.
* **Tool loop.** Model and tools may answer anything, fail, or answer after the
  deadline; the stream callback may fail in the middle. Correct: every tool call
  is answered; the callback sees the trace; the retry and step limits hold; the
  run ends, once.
* **Repeat engine, chat history.** Concurrent appends, a scan limit and restarts
  move the identity of a round. Correct: joined once per round, never
  refused unless joined; numbers order cause before effect.
* **Metrics.** A transaction has up to five statements and any may fail; the overview is no
  snapshot. Correct: the tables agree; what an overview shows fits together; no wait
  for an answer is measured twice, though all chats share one sum.

All hazards found while reading, each at its line, are in `PROJECT.json`.

## 2. Modules

| Modules | Role | Proofs |
|---|---|---|
| `ImmersiveSession` | one session, every interleaving, no time; implements `SessionMailbox` | `ImmersiveSessionProofs`, `ImmersiveMessageProofs` |
| `SpeakPolicy`, `ConversationMode` | the same session in discrete time: what the first leaves to choice | `ConversationModeProofs` |
| `ModelSettings`, `HistoryStore`, composed by `ReplyPipeline` | replies over changing settings and histories | `ReplyPipelineProofs` |
| `ToolLoop` | one run of the loop that a reply contains | `ToolLoopProofs` |
| `AuthSession` | authentication | `AuthSessionProofs` |
| `RepeatRound` | the repeat engine over the chat log | `RepeatRoundProofs` |
| `MetricsCollector` | counters and overview | `MetricsCollectorProofs` |

`SpeakPolicy` and `HistoryStore` are operators only: the pure functions of the code. The
`MC` modules give the constants their values. No module uses `RECURSIVE`.

## 3. Modules and code

**`ImmersiveSession`** is one session. An action is one critical section of
`state.mu`, or one unlocked call with its outcome chosen by `\E`. A *worker* is a
timer goroutine that came to own the session; `pc` says where it stands.

| Code | Model |
|---|---|
| `EnqueueAmbient`, behind the switch test of `handleAmbientMessage` | `Arrive`, `Enqueue` |
| `acquireProcessingBatch` and its four exits | `FlushWhileBusy`, `FlushEmpty`, `FlushDisabled`, `TakeBatch` |
| `persistProcessingBatch` | `Persist` (any part of the messages is refused) |
| `prepareFlushContext`, the gate | `Gate` |
| intent call, `resolveControlAction` | `Decide`, `Wait`, `ResolvedAction` |
| `applyWaitDecision`, `prependMessages` | `Wait`, `Requeued` |
| `handleReply`, `noteAssistantDelivered` | `Reply`, `ReplyFails`, `Delivered` |
| `finalizeFlush`, `reschedulePendingBatchLocked` | `Finalize`, `Rescheduled` |
| `tryFollowup` with its deferred function | `FollowupWhileBusy`, `FollowupDropped`, `StartFollowup`, `FollowupCheck`, `FollowupFinalize` |
| `/llm`, `/chat`, `Clear` | `SetEnabled`, `ChatOn`, `ChatOff`, `Clear` |
| `time.AfterFunc`, `Timer.Stop` | armed flags; callbacks that fired are counted in `flushDue`, `followupDue`; a timer whose field was overwritten is an orphan |

Energy, scores, focus speaker, texts and delays are abstracted: they only choose
a branch, and every branch is offered. `SessionMailbox` is what the session
promises about messages; `ImplementsMailbox` maps the buffer, the batches in
flight and the answered messages onto it.

**`ConversationMode`** is the session with a clock in seconds and no late callbacks: a
timer runs when it is due, so ownership is one record, `flight`. Energies are fifths of a
point, because the energy moves by 0.2 points a second. The code settles energy and mode
lazily; the energy's target changes only right after it was settled, so moving the energy
with the clock says the same, while the mode is moved only where the code moves it.

| Code | Model |
|---|---|
| `scoreSignals`, `bandFromScore` | `Score`, `Band` (`SpeakPolicy`) |
| `evaluateSpeakGateLocked` | `Allowed`; `Evaluate` |
| `computeFlushDecision`, `mergeWaitDecision` | `FlushDelay`, `Merged` (`SpeakPolicy`) |
| `settleEnergyLocked`, nudges, reply cost | `Recovered`, `Nudged`, `Spent` |
| `transitionToLocked`, `decayBehaviorLocked` | `Entered`, `Decayed` |
| `observeIncomingMessageLocked`, `detectColdOpenEligibilityLocked` | `Observed`, `ColdOpened` |
| `EnqueueAmbient`, the flush, `Clear` | `Enqueue`, `FlushBusy`, `TakeBatch`, `Evaluate`, `Decide`, `Wait`, `Reply`, `Finalize`, `Clear` |
| `noteAssistantDelivered`, `RecordAssistantDelivered` | `Delivered`, `RepeatDelivered` |
| `tryFollowup` | `FollowupFires`, `FollowUp` |
| `ShouldYieldToImmersive`, the debug snapshot | `Look` |

A reply that was not delivered is `Reply` with `talk` unchanged. The switches and the empty
flush are in `ImmersiveSession` and are not repeated. The model's wait is at most three
seconds (the intent protocol clamps it).

**`ReplyPipeline`** composes `ModelSettings` (the manager's settings, the client's, and the
commands that change them) and `HistoryStore` (lists, limits, context) and adds the
handlers. A setting is the version of the configuration file it came from, 0 when a
command gave it. A handler is of one kind: `/ai`, a poke, the reply or intent call of the
immersive engine, or an ambient message.

| Code | Model |
|---|---|
| `ReloadConfig`, `SetModel`, `SetSystemPrompt`, `ResetDefaults` | `Load`, `Lock`, `Set`, `SetModel`, `SetSystemPrompt`, `ResetDefaults` |
| `snapshotPipelineState` | `Snapshot` |
| `nextCausalSeq`, `appendUserEventFormatted`, `appendAssistantEventFormatted` | `Number`, `AppendQuestion`, `AppendAnswer` |
| `Assemble`, `clipBlocks` | `ReadChat`, `ReadDiary`; `Window`, `KeptChat`, `SeenRows` |
| `ensureAPIKey`, `resolveRequestConfig`, the request | `EnsureKey`, `ReadThinking`, `ReadEffort`, `Send`, `Answer`, `NoAnswer` |
| router and internal tools | `CallTool`, `Refuse`, `WriteDiary`, `Count` and `Select` (SQLite), `ReadPage` (memory) |
| `ClearHistory` | `Clear`, `ClearChat`, `ClearDiary`, `ClearStats` |
| a restart | `Restart`: SQLite keeps the rows, nothing keeps the counter |

`main.go` always opens SQLite for both stores; the memory stores are the manager's fallback
and have their own scenarios. `era` counts how often the numbering began again. Left out:
the enabled switch of a direct reply, the trim counter, the display of reasoning, listing
tools, a tool call that names another session.

**`AuthSession`** is the authentication state with any number of concurrent
requests. An action is one critical section of `authStateStore.mu` or
`refreshStore.mu`, or one database statement; `Crash` may come between any two.
A token pair is its number; hashing and encryption are exact (a passphrase stands
for its hash, a pair opens only with the key it was sealed with).

| Code | Model |
|---|---|
| `initialize`, `resolvePasetoKeyHex` | `StartRow`, `StartKey` |
| `Login`, `authenticate` | `Login`, then `Issue` |
| `Refresh`, `consume`, `issueTokenPair` | `Refresh`, `Consume`, `ConsumeRefused`, `Issue`, `IssueFails` |
| `accessTokenMiddleware` before the rotation | `Authorize` |
| `rotatePassphrase`, `reset` | `RotateRow`, `RotateMemory`, `RotateFails`, `ResetRefresh` |

**`ToolLoop`** is one run of the engine: `Run`, `RunStream` over a streaming
driver, or `RunStream` over one that does not stream (it runs `Run` and reports
the result). A message is its kind. `Step`, `Ask`, `Delta`, `CallFails`, `Answer`,
`Execute`, `Emit`, `EmitFails`, `Say` and `Close` are the stretches of code between
two calls out of the engine; what follows a recorded message is `Proceed`.
Three facts about the surroundings: the client hides why a request failed
(`sanitizeRequestError`), so the timeout of one request is any other error; the
manager's streaming driver returns no invalid message without an error, so for
it a refused `Answer` only over-approximates; the router the manager installs turns
every failure into a result, so `tool_error` is what the engine's interface permits.

**`RepeatRound`** is the repeat engine over the chat log of one group. Every
message has a handler, and an action is one critical section or one call of the
store; `lock` is the `state.mu` that `tryRepeatWithSend` holds from the look at the
log to the memory of the round, `number` is taken before the row is appended, and a
row the store refuses is simply missing.

| Code | Model |
|---|---|
| `handleAmbientMessage` | `Arrive` |
| `appendUserEventFormatted` | `Number`, `AppendMessage` |
| `tryRepeatWithSend` | `Ask`, `Evaluate`, `Suppress`, `Miss`, `Send`, `NumberReply`, `AppendReply`, `Remember` |
| `buildRepeatDecision` | `Run`, `IsRound`, `Earliest`, `Latest`, `Round` |
| `/repeat`, `/reload`, `ClearHistory` | `RepeatOn`, `RepeatOff` then `Clear`, `ReloadConfig`, `ClearRows` then `ClearStats` |
| a restart with the SQLite store | `Restart`: rows stay, numbers, switches and the remembered round do not |

`era` counts how often the numbering began again, `life` how often the engine forgot;
both are history, as are the row ids (SQLite never gives one twice), and let the properties say
which rows and which joins may be compared.

**`MetricsCollector`** is the database of counters, shared by message handlers, the
immersive engine and the dashboard. A transaction is one action that commits or rolls back
after any of its statements; the overview is one action per statement.

| Code | Model |
|---|---|
| `InboundTypeKeys`, `OutboundTypeKeys` | `InboundTypeKeys`, `OutboundTypeKeys` |
| `RecordInbound`, `RecordOutbound`, `RecordImmersive` and their upserts | the same names; `UpsertTraffic`, `UpsertImmersive`, `Transaction` |
| the latency of a strong call in the engine | `NoteStrongCall`, `Deliver`, `Observe`, `Clear`, on the `call` of one chat; records wait in `owed` and are written in any order |
| `BuildOverview` | `OpenOverview`, `BuildOverview`, `CloseOverview` |
| start and restart | `SetBotStartedAt`, `Restart` |

Every chat has its own `lastStrongCallAt` (`call`); the counters have no column for it. Both
ends of a wait are read from the clock before the session's lock is taken (`meta.At`, before
the message is stored and the repeat lock is waited for; `now` in `noteAssistantDelivered`), so
`NoteStrongCall` and `Deliver` choose any hour since the bot was started. `waiting` is history:
the hours the chats have waited, each from its call to its answer, its end or the restart.

Definitions whose comment or name says that they are faulty (or that are defined just before
the one they vary and used nowhere) are no part of a specification:
each is a definition as a plausible mistake would have left it, and with it in
place the run named in `PROJECT.json` must fail.

## 4. Runs

| Run | Bounds | What it shows |
|---|---|---|
| `session` | 2 workers, 2 messages, 2 switch commands, 2 repeat deliveries, 2 waiting callbacks | owner, logging, deferral, late replies, follow-up timer, over all interleavings |
| `session_liveness` | 2 messages, 2 commands, 1 waiting callback | every step is a step of the mailbox; every message settles, every acquisition is released |
| `clear_is_final` | 2 messages, 3 commands | fails: finding 1 |
| `cleared_question_timer` | 2 repeat deliveries | fails: finding 2 |
| `conversation` | 5 scenarios: debouncing and a private chat by the second, a thread, a question and a silence by the minute; 2 to 4 messages | deadline, gate, follow-up |
| `replies` | 10 scenarios of up to 3 handlers: two questions and a clear, overheard and buried questions, restarts, both stores, reloads and commands, the immersive calls, paging | settings, cutoffs, outcomes, context, pages |
| `auth_sessions` | 2 requests, 2 passphrases, 3 pairs, 1 rotation, 1 crash | sessions, versions and restart |
| `tool_loop` | 3 steps of 3 attempts | trace, events, limits, expiry, in all three ways to run; every run ends |
| `repeat_round` | 2 handlers, 3 messages, scan limit 3, any 2 commands or restarts | joined once, refused only when joined, numbers causal |
| `repeat_round_long` | 4 messages, scan limit 2 | fails: finding 3 |
| `repeat_round_cleared` | 1 handler, 4 messages, scan limit 8, 1 command | fails: finding 4 |
| `metrics` | 2 transactions of handlers and 1 overview, or 3 of the engine in 2 chats, whose calls are noted up to 2 hours of waiting; days of 2 hours, 3 hours in all; 1 restart | tables, overview, latency |

*Why these bounds suffice.* A session has one owner, so a second worker is all
that is needed to break that; two messages give an order, a batch in flight and
a newer message behind it; two commands are off and on again; two waiting follow-up
callbacks are a late one and the one of the newer timer. In the conversation the
scenarios separate what the clock separates: delays of seconds and windows of minutes; `Far`,
300 seconds, is above every window and interval, so older ages behave alike. A reload
takes five steps and a request reads four of them, so one request and two reloads
contain every overlap; pages of one row over a history of two, with two appends, contain a
page before, between and behind them. In the authentication every hazard is a race of two
requests; three pairs are a login, its exchange and one more; one rotation gives
an old and a new version; a crash restarts from every intermediate state. Three
steps of three attempts (the code's default number of attempts) allow a tool
call, its answer, a retry that succeeds and one that does not, in one run.
Two handlers race for a round, two users make one, and with a scan limit of three the
third message and the bot's own reply already push the first one out of view; two
commands allow a clear after a switch, or a restart during a clear. Two hours a day and three
hours put a midnight into the run; handlers and engine write different tables, so they
are run one at a time (`Apart`). Two chats can wait at the same time, and three records are
what one reply writes at most, or two waits and something else.
`SYMMETRY` permutes workers, requests, handlers, users, texts or chats and is used in safety runs only,
where nothing depends on which is which.

Deadlock is not checked: users may stop sending, requests may be over, a run
ends. That something which must happen does happen is what the liveness properties say.

## 5. Fairness

*Session.* Weak fairness of armed timers, of the callbacks that fired and of each
worker: the Go runtime runs timers and goroutines, and the store and model calls
return because they have timeouts. Nothing is assumed of users. One assumption is
stated in the module, `FollowupDelayOutlastsFinalizer`: the follow-up timer armed
by a follow-up's delivery (90 s by default) does not fire before the deferred function of
that same follow-up, microseconds later, has run. Without it, follow-ups that ask
questions could hold the session against flushes for ever, which no clock allows.

*Tool loop.* Weak fairness of the engine as a whole: calls return. Nothing is
assumed of deltas, and the context may never expire.

The other modules state safety only and assume no fairness.

## 6. Proofs

The theorems hold for all values of the constants, under the named assumptions of the
modules they are about (`ConstantsAssumption` and its like; each is evaluated by a run).
The assumptions say what the code guarantees of its parameters: a loaded configuration
has integer limits and a maximum of tokens above the least thinking budget, page sizes are
positive, handlers are finitely many and numbered, a day has at least one hour.
Where a safety invariant is not inductive, the module names the strengthening that is, and
the theorem is the usual three facts: it holds initially, every step keeps it, it implies
the property.

*Session.* `TypeCorrect` needs `Bounds`, which relates the history counters to the commands
and handlers that raise them. `OneOwner` is inductive given the types. `NothingStranded` adds
`SingleOwner`: a worker that returns re-arms the timer, and only the owner returns. The
message proofs rest on `MessageInv`: a worker that is idle or follows up holds no batch, what
waits in the buffer or for the model's decision has not been answered, buffer and batches
share no message, and all numbers are accepted ones.

- `MailboxImplemented` (`ImplementsMailbox`): the initial state maps to the mailbox's, and
  every step to a step of the mailbox or to a stutter. `MessageInv` is what makes a reply the
  answer to messages that had none, and a wait the return of messages that are nowhere else.
- `LoggedOnce`, from `LogInv`: a message not marked as persisted has no row.
- `DeferralBounded`, from `WaitInv`: a message of the current era has waited no more than
  the session's `waitRounds` and never more than `MaxWaitRounds`; what a worker holds agrees
  with the rounds it captured; and what arrives during a flush has not waited at all, which
  is why `finalizeFlush` may reset the counter. `Clear` breaks the agreement between the
  captured rounds and the session's, so the invariant speaks of messages of the current era.
- `OneLateReply`, from `LateInv`: the one owner passed the switches with nothing late sent,
  and gives up the ownership before another can.
- `TimerBacksQuestion`: each change of the question state, by itself, keeps the property.

*Conversation.* `DeadlinesAreKept`, from `TimeInv`: a batch that is not empty has a promise
(its timer is in time for its age, or runs no longer than a wait the model asked for),
and time does not pass over an armed timer. `OnlyTheSilentAreAsked`, from
`QuestionInv`: while the session waits for an answer, the one who was asked is the focus
speaker and has not answered. `TypeCorrect` and `GatesOpenInConversation` need to know what
the conversation is: `Sound` (an idle session has no focus speaker and no question open) and
`Fits`, which ties the session to the mode the last message left it in (`heard`). The modes
of being talked to come from messages only, and outside of them the energy is not above
the target of an idle session, which closes the gate: decay, deliveries and follow-ups change mode
or energy but never make a session fit a mode nobody spoke in. `BatchInv` says of which
messages the batches are made and `OpenedInv` carries the verdict of the gate through
the flight.

*Replies.* `ReloadsSettle` and `EndpointIsNewest`, from `SettingsInv` and `RequestInv`: as
long as no two reloads overlapped, one reload at a time brings the newest version, the
parts it has set come from that version, and the parts are set in the order of
`Setters`. A request reads them in the opposite order, so what it read later is not older.
The other five theorems share one invariant, `ReplyInv`, proved part by part; `Moved` sums
up what any step does to one request, so that each part looks at few actions.

- `TypesHold` (`TypeOK`), from `TypeInv`: which fields a handler has at which step, what rows
  and notes are made of.
- `StoreInv` says of every row and note that is in a store, or was when somebody began to
  page, whose it is and how far its handler has come: a question has its number as its
  handler's cutoff, an answer comes from a handler that is over and told its user so.
- `AnswersNameTheirQuestions`, from `NumberInv`: in one era of the counter no number is given
  twice, neither to two rows nor to two handlers that hold one nor to one of each.
- `HistoryIsTold`, from `OutcomeInv` (a reply that was told and not lost has its row for as long
  as the question has) and `StoreInv` for the other direction.
- `QuestionIsSeen`, from `SeenInv` and two lemmas about the pure functions: the window shows
  every row that is not too far back, and the assembler cuts the chat block last.
- `PagesSkipNothing`, from `PagesInv`: what the reader began with has been shown or is
  ahead of its cursor. A row appended moves the others away from the newest end and so never
  behind the cursor. Between the count and the select the reader also
  knows that the store is as long as it counted, or was cleared and shares no row with
  what it began with; for that, `StoreInv` makes each row new when it is stored.

*Authentication.* `StoreInv` (the rotation's lock, and what the row and the memory
hold between its two writes) gives `RestartChangesNothing` and `RevokedForGood`. `ProofInv`
adds what a request carries between consuming a refresh token and issuing the pair, and
gives `SessionsProvePassphrase`. `SessionInv` numbers the issued tokens and gives
`NoSessionBranches`: a consumed token is in nobody else's hands.

*Tool loop.* `Shape` (types, and which phase goes with which step and attempt) carries
`EventsAreTheTrace`, `EveryCallAnswered`, `RetriesAreLimited`, `AtMostOneLateCall` and
`TextsAreSeparated`, each with an invariant of its own about the message being
emitted. `OneEnd` and `NoCircles` (every step of the engine increases step, attempt or phase:
the safety half of termination) are proved only.

*Repeat engine.* `TypeCorrect` includes the lock. `OrderInv` orders the rows by their
identifiers; `NumberInv` says that a number given out is never given out again in its
numbering, neither to a row nor to a handler that has yet to append one; `KnownInv` that
the number and the row identifier of a round somebody found name one row for ever, also
when it is no longer in the log. On these rest the other three:

- `NumbersAreCausal` (`CausalOrder`), from `CutoffInv`: the number a reply answers was used
  before the reply took its own.
- `OnlyJoinedIsRefused` (`SuppressedWasJoined`), from `RefusedInv`: what is remembered or sent
  has been joined, and within one numbering an equal text and start number is the same round.
- `RoundsJoinedOnce` (`RoundJoinedOnce`), from `AheadInv` and `JoinInv`: the run in view only
  grows at its end, so its first row never falls behind a round found earlier. A handler
  that finds a round not joined holds a newer one than all that were joined, and the lock
  keeps the others out until it is remembered.

*Metrics.* A sum over a table is defined as the number of units it counts (`Total`), so that
raising one entry by one adds one unit and the sums need no induction.

- `TypesHold` (`TypeOK`) includes that the set of sessions seen is finite and that a view
  holds the answers of a prefix of the overview's statements.
- `TablesAlwaysAgree`, from `TablesInv`: a transaction raises the two sides of every
  agreement by the same record, and one that fails half-way leaves the counters as they were.
- `OverviewAlwaysFits`, from `ReadInv`: each statement read so far is bounded by what the table
  holds now, tables only grow, and a kind that was ever counted has its time (`Dated`).
- `LatencyIsWaiting` (`LatencyWithinWaiting`), from `WaitInv`: what is recorded, what is owed
  and what the pending calls have waited until now add up to no more than `waiting`. A delivery
  moves a wait from the pending calls to what is owed, a record moves it on to the sum, and every
  way to lose it (skip, clear, failed transaction, restart) only lowers the left side.
- `CountsNeverFall`, an action property: the counts of a day never fall. `ReadInv` rests on it.

*Only model-checked.* Every safety property of a passing run is proved. Liveness
(`EveryMessageSettles`, `SessionReleased`, `Terminates`) is checked by TLC: fairness and ENABLED
are out of the prover's reach, as are induction over data and RECURSIVE operators. The
properties of section 7's runs fail, and each counterexample is TLC's.

## 7. Findings

1. `Clear`'s comment says that it removes all queued messages. A batch that a flush
   has taken is not removed: if that flush decides to wait, it puts the batch back into the
   cleared buffer, arms the timer, and counts a wait round that `Clear` had reset. Switched on
   again in time, the session answers messages from before `Clear` (`clear_is_final`).
2. A test expects that no follow-up timer is armed once the pending question is cleared.
   `tryFollowup` sets `state.followupTimer` to nil without looking whose timer it is: a
   callback that runs after a newer question armed a newer timer forgets that timer, and
   clearing the question no longer stops it (`cleared_question_timer`). The damage is
   limited by the checks `tryFollowup` makes when the orphan fires.
3. A test expects that a round the bot joined is suppressed. A round is known by the
   number of its first row among the newest 64: when it grows past that, the first row in
   view moves with every message and the bot repeats itself after each (`repeat_round_long`).
4. A test expects that an interruption makes a new round. `/llm clear` starts the numbers at
   1 again and leaves the engine its text and start number, so a new round with the same two
   is refused as joined already (`repeat_round_cleared`).

Limits of the code that contradict no document and are written into the properties that meet
them: two reloads at once may leave a mix of two configurations for good
(`ConfigurationSettles` excludes overlaps); numbers repeat after a clear or a restart
(`AnswerNamesItsQuestion`); a row appended between the count and the select of a page
may drop the oldest row (`PagesCoverHistory`); someone who answers while the follow-up is
being generated still gets it, and a weak address by the one who was asked leaves the
question open (`FollowupUnanswered`); the count beside the latency sum counts every record of
the engine, those without a latency too, and the sum itself may exceed the time that has passed,
for chats wait at once and a message held up on its way in has waited since before the previous
answer (`LatencyWithinWaiting` bounds it by the hours waited); a callback that finds the session busy and the
batch full or past its deadline is re-armed at 0 again and again until the model answers.

## 8. Not modelled

Prompt texts, formatting and logging; the bot framework, the model service and the
database engine (their outcomes are choices); encryption and hashing; command parsing and
usage texts; HTTP routing, static files and the user interface; reading and validating the
configuration file, which is sequential and keeps nothing; the debug snapshot and its reasons, which
nothing else reads; the splitting of a reply into segments and the poke counter's window,
sequential functions whose unit tests reach their cases; migrations. NDJSON and intent
parsing and the reasons for which a message is refused are a choice between a message and an
error. The browser's single-flight token refresh is not modelled: `AuthSession` takes its
requests as they come, two of one token among them. Per component, `PROJECT.json` says what is left out of a part that is modelled in
part.
