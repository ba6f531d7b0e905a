-------------------------- MODULE ImmersiveSession --------------------------
(***************************************************************************)
(* The scheduling core of one conversation session of the immersive engine  *)
(* (internal/bot/immersive): messages are buffered in nextBatch, a flush    *)
(* timer hands the whole buffer to one flush, the flush asks the model      *)
(* whether to skip, wait or reply, and a follow-up timer may make the bot   *)
(* speak again after a question of its own.                                 *)
(*                                                                          *)
(* An action is one critical section of state.mu, or one unlocked call      *)
(* (chat store, language model) with the outcome chosen by \E.  A worker    *)
(* is a timer goroutine that came to own the session.  Stopping a timer     *)
(* does not stop a callback that has fired, so fired callbacks are counted  *)
(* (flushDue, followupDue) and run later.  processingBatch, chars, focus    *)
(* speaker, energy and the debug snapshot are abstracted: the first is      *)
(* never read, the others only decide which branch is taken, and every      *)
(* branch they can lead to is offered.                                      *)
(***************************************************************************)
EXTENDS Naturals, Sequences

CONSTANTS
  Workers,        \* timer goroutines that may own the session
  MaxWaitRounds,  \* maxImmersiveWaitRounds
  MaxMessages,    \* bound: ambient messages that reach the session
  MaxSwitches,    \* bound: /llm on|off and /chat on|off commands
  MaxRepeats,     \* bound: assistant messages delivered by the repeat engine
  MaxDue          \* bound: fired callbacks of one kind waiting to run

ASSUME ConstantsAssumption ==
  /\ MaxWaitRounds \in Nat /\ MaxMessages \in Nat /\ MaxSwitches \in Nat
  /\ MaxRepeats \in Nat /\ MaxDue \in Nat

VARIABLES
  nextBatch,      \* queued messages, oldest first
  inFlight,       \* a flush or a follow-up owns the session
  waitRounds,     \* waits since the last finished flush
  sendFn,         \* a send function has been captured
  flushTimer,     \* state.timer is armed
  talk,           \* question and follow-up state, see Talk
  flushDue,       \* flush callbacks that fired and have not run
  followupDue,    \* follow-up callbacks that fired and have not run
  orphans,        \* armed follow-up timers that no field refers to
  llmOn,          \* Manager.IsEnabled
  immersiveOn,    \* Manager.IsImmersive of this session
  clearing,       \* /chat off handlers between SetImmersive and Clear
  handlers,       \* ambient handlers between the switch test and Enqueue
  pc,             \* where each worker stands
  batch,          \* flushBatch.processing of each worker
  rounds,         \* flushBatch.waitRounds of each worker
  canSend,        \* the worker captured a send function
  accepted,       \* history: messages enqueued so far, numbered in order
  rows,           \* history: times a message was appended to the chat log
  answers,        \* history: replies recorded for a message
  offReplies,     \* history: replies sent since the switches went off
  clears,         \* history: Clear calls
  repeats,        \* history: repeat engine deliveries
  switches        \* history: switch commands

queue    == <<nextBatch, inFlight, waitRounds, sendFn, talk>>
timers   == <<flushTimer, flushDue, followupDue, orphans>>
manager  == <<llmOn, immersiveOn, clearing, handlers>>
locals   == <<pc, batch, rounds, canSend>>
messages == <<accepted, rows, answers>>
commands == <<clears, repeats, switches>>
vars     == <<queue, timers, manager, locals, messages, offReplies, commands>>

Messages == 1..MaxMessages

(* A queued message.  waits counts the wait decisions it went through, era  *)
(* is the number of Clear calls before it was enqueued.                     *)
Queued == [id : Messages, persisted : BOOLEAN,
           waits : Nat, era : 0..MaxSwitches]

Ids(s) == {s[i].id : i \in DOMAIN s}

Enabled == llmOn /\ immersiveOn

-----------------------------------------------------------------------------
(* The part of the behaviour state a follow-up depends on.  followupTimer:  *)
(* state.followupTimer refers to an armed timer.                            *)
DefaultFollowupBudget == 1

Talk == [waitingUser : BOOLEAN, pendingQuestion : BOOLEAN,
         followupBudget : 0..DefaultFollowupBudget, followupTimer : BOOLEAN]

(* Faulty variants of clearPendingQuestionLocked: the budget is spent       *)
(* instead of cleared; the timer is not stopped.                            *)
QuestionClearedOnce(t) ==
  [waitingUser |-> t.waitingUser, pendingQuestion |-> FALSE,
   followupBudget |-> t.followupBudget - 1, followupTimer |-> FALSE]
QuestionClearedTimerKept(t) ==
  [waitingUser |-> t.waitingUser, pendingQuestion |-> FALSE,
   followupBudget |-> 0, followupTimer |-> t.followupTimer]

(* clearPendingQuestionLocked *)
QuestionCleared(t) ==
  [waitingUser |-> t.waitingUser, pendingQuestion |-> FALSE,
   followupBudget |-> 0, followupTimer |-> FALSE]

TimerForgotten(t) == [t EXCEPT !.followupTimer = FALSE]

(* transitionToLocked to any mode but waiting_user; idle and cooling_down   *)
(* also clear the pending question                                          *)
Left(t)    == [t EXCEPT !.waitingUser = FALSE]
Settled(t) == Left(QuestionCleared(t))

(* decayBehaviorLocked: nothing is due yet, or the follow-up window or the  *)
(* idle window has elapsed                                                  *)
Decayed(t) ==
  {t} \cup {u \in {Settled(t)} : t.pendingQuestion \/ t.waitingUser}

(* observeIncomingMessageLocked, by what the message is: a strong address   *)
(* (or a private message) from another speaker, a strong address or a plain *)
(* message from the focus speaker, or anything else                         *)
Kinds == {"readdress", "strong_focus", "plain_focus", "ambient"}

Observed(t, kind) ==
  CASE kind = "readdress"    -> Left(t)
    [] kind = "strong_focus" -> IF t.pendingQuestion THEN Settled(t) ELSE Left(t)
    [] kind = "plain_focus"  -> IF t.waitingUser THEN Settled(t) ELSE t
    [] kind = "ambient"      -> t

(* noteAssistantDelivered: a question is waited for and followed up once    *)
Delivered(t, question) ==
  IF question
  THEN [waitingUser |-> TRUE, pendingQuestion |-> TRUE,
        followupBudget |-> IF t.followupBudget = 0
                           THEN DefaultFollowupBudget ELSE t.followupBudget,
        followupTimer |-> TRUE]
  ELSE Settled(t)

-----------------------------------------------------------------------------
Init ==
  /\ nextBatch = <<>> /\ inFlight = FALSE /\ waitRounds = 0 /\ sendFn = FALSE
  /\ talk = [waitingUser |-> FALSE, pendingQuestion |-> FALSE,
             followupBudget |-> 0, followupTimer |-> FALSE]
  /\ flushTimer = FALSE /\ flushDue = 0 /\ followupDue = 0 /\ orphans = 0
  /\ llmOn \in BOOLEAN /\ immersiveOn = FALSE /\ clearing = 0 /\ handlers = 0
  /\ pc = [w \in Workers |-> "idle"]
  /\ batch = [w \in Workers |-> <<>>]
  /\ rounds = [w \in Workers |-> 0]
  /\ canSend = [w \in Workers |-> FALSE]
  /\ accepted = 0
  /\ rows = [m \in Messages |-> 0] /\ answers = [m \in Messages |-> 0]
  /\ offReplies = 0 /\ clears = 0 /\ repeats = 0 /\ switches = 0

-----------------------------------------------------------------------------
(* Command handlers: /llm on|off, /chat on and /chat off.                   *)
Switch == switches < MaxSwitches /\ switches' = switches + 1

SetEnabled(on) ==
  /\ Switch
  /\ llmOn' = on
  /\ offReplies' = IF on /\ immersiveOn THEN 0 ELSE offReplies
  /\ UNCHANGED <<queue, timers, immersiveOn, clearing, handlers, locals,
                 messages, clears, repeats>>

ChatOn ==
  /\ Switch
  /\ llmOn
  /\ immersiveOn' = TRUE
  /\ offReplies' = 0
  /\ UNCHANGED <<queue, timers, llmOn, clearing, handlers, locals, messages,
                 clears, repeats>>

ChatOff ==
  /\ Switch
  /\ immersiveOn' = FALSE
  /\ clearing' = clearing + 1
  /\ UNCHANGED <<queue, timers, llmOn, handlers, locals, messages,
                 offReplies, clears, repeats>>

(* Faulty variant: Clear also releases the session.                         *)
ClearReleasing ==
  /\ clearing > 0
  /\ clearing' = clearing - 1
  /\ nextBatch' = <<>> /\ sendFn' = FALSE /\ waitRounds' = 0
  /\ inFlight' = FALSE
  /\ talk' = Settled(talk)
  /\ flushTimer' = FALSE
  /\ clears' = clears + 1
  /\ UNCHANGED <<flushDue, followupDue, orphans, llmOn, immersiveOn,
                 handlers, locals, messages, offReplies, repeats, switches>>

(* Clear keeps inFlight and what a running worker holds.                    *)
Clear ==
  /\ clearing > 0
  /\ clearing' = clearing - 1
  /\ nextBatch' = <<>>
  /\ sendFn' = FALSE
  /\ waitRounds' = 0
  /\ talk' = Settled(talk)
  /\ flushTimer' = FALSE
  /\ clears' = clears + 1
  /\ UNCHANGED <<inFlight, flushDue, followupDue, orphans, llmOn, immersiveOn,
                 handlers, locals, messages, offReplies, repeats, switches>>

-----------------------------------------------------------------------------
(* Ambient handlers.  The switches are tested before the chat log append,   *)
(* the router and Enqueue.                                                  *)
Arrive ==
  /\ Enabled
  /\ handlers + accepted < MaxMessages
  /\ handlers' = handlers + 1
  /\ UNCHANGED <<queue, timers, llmOn, immersiveOn, clearing, locals,
                 messages, offReplies, commands>>

(* EnqueueAmbient.  persisted: the append before it succeeded.              *)
Enqueue(kind, persisted) ==
  /\ handlers > 0
  /\ handlers' = handlers - 1
  /\ accepted' = accepted + 1
  /\ nextBatch' = Append(nextBatch,
       [id |-> accepted + 1, persisted |-> persisted,
        waits |-> 0, era |-> clears])
  /\ rows' = [rows EXCEPT ![accepted + 1] = IF persisted THEN 1 ELSE 0]
  /\ sendFn' = TRUE
  /\ talk' \in {Observed(t, kind) : t \in Decayed(talk)}
  /\ flushTimer' = TRUE
  /\ UNCHANGED <<inFlight, waitRounds, flushDue, followupDue, orphans,
                 llmOn, immersiveOn, clearing, locals, answers, offReplies,
                 commands>>

(* ShouldYieldToImmersive, called by the router of any group message        *)
RouterDecay ==
  /\ talk' \in Decayed(talk)
  /\ UNCHANGED <<nextBatch, inFlight, waitRounds, sendFn, timers, manager,
                 locals, messages, offReplies, commands>>

(* The repeat engine joined a round and calls RecordAssistantDelivered;     *)
(* the message that completed the round is not enqueued.                    *)
RepeatDelivered(question) ==
  /\ repeats < MaxRepeats
  /\ repeats' = repeats + 1
  /\ \/ handlers' = handlers              \* immersive mode is off
     \/ handlers > 0 /\ handlers' = handlers - 1
  /\ talk' = Delivered(talk, question)
  /\ UNCHANGED <<nextBatch, inFlight, waitRounds, sendFn, timers, llmOn,
                 immersiveOn, clearing, locals, messages, offReplies, clears,
                 switches>>

-----------------------------------------------------------------------------
(* Timers                                                                   *)
FlushTimerFires ==
  /\ flushTimer /\ flushDue < MaxDue
  /\ flushTimer' = FALSE
  /\ flushDue' = flushDue + 1
  /\ UNCHANGED <<queue, followupDue, orphans, manager, locals, messages,
                 offReplies, commands>>

FollowupTimerFires ==
  /\ talk.followupTimer /\ followupDue < MaxDue
  /\ talk' = TimerForgotten(talk)
  /\ followupDue' = followupDue + 1
  /\ UNCHANGED <<nextBatch, inFlight, waitRounds, sendFn, flushTimer,
                 flushDue, orphans, manager, locals, messages, offReplies,
                 commands>>

OrphanFires ==
  /\ orphans > 0 /\ followupDue < MaxDue
  /\ orphans' = orphans - 1
  /\ followupDue' = followupDue + 1
  /\ UNCHANGED <<queue, flushTimer, flushDue, manager, locals, messages,
                 offReplies, commands>>

-----------------------------------------------------------------------------
(* flush: acquireProcessingBatch                                            *)
FlushCallback == flushDue > 0 /\ flushDue' = flushDue - 1

FlushWhileBusy ==
  /\ FlushCallback
  /\ inFlight
  /\ flushTimer' = (flushTimer \/ nextBatch # <<>>)
  /\ UNCHANGED <<queue, followupDue, orphans, manager, locals, messages,
                 offReplies, commands>>

FlushEmpty ==
  /\ FlushCallback
  /\ ~inFlight /\ nextBatch = <<>>
  /\ UNCHANGED <<queue, flushTimer, followupDue, orphans, manager, locals,
                 messages, offReplies, commands>>

FlushDisabled ==
  /\ FlushCallback
  /\ ~inFlight /\ nextBatch # <<>> /\ ~Enabled
  /\ nextBatch' = <<>>
  /\ flushTimer' = FALSE
  /\ UNCHANGED <<inFlight, waitRounds, sendFn, talk, followupDue, orphans,
                 manager, locals, messages, offReplies, commands>>

TakeBatch(w) ==
  /\ FlushCallback
  /\ ~inFlight /\ nextBatch # <<>> /\ Enabled
  /\ pc[w] = "idle"
  /\ inFlight' = TRUE
  /\ nextBatch' = <<>>
  /\ pc' = [pc EXCEPT ![w] = "persist"]
  /\ batch' = [batch EXCEPT ![w] = nextBatch]
  /\ rounds' = [rounds EXCEPT ![w] = waitRounds]
  /\ canSend' = [canSend EXCEPT ![w] = sendFn]
  /\ UNCHANGED <<waitRounds, sendFn, talk, flushTimer, followupDue, orphans,
                 manager, messages, offReplies, commands>>

(* persistProcessingBatch: appended are the messages the chat store took.   *)
(* Faulty variant: the messages are not marked as persisted.                *)
NotMarked(held, appended) == held

Marked(held, appended) ==
  [i \in DOMAIN held |->
     [held[i] EXCEPT !.persisted = @ \/ held[i].id \in appended]]

Persist(w, appended) ==
  /\ pc[w] = "persist"
  /\ appended \subseteq {batch[w][i].id : i \in
                         {j \in DOMAIN batch[w] : ~batch[w][j].persisted}}
  /\ batch' = [batch EXCEPT ![w] = Marked(batch[w], appended)]
  /\ rows' = [m \in Messages |-> rows[m] + IF m \in appended THEN 1 ELSE 0]
  /\ pc' = [pc EXCEPT ![w] = "gate"]
  /\ UNCHANGED <<queue, timers, manager, rounds, canSend, accepted, answers,
                 offReplies, commands>>

(* prepareFlushContext: the speak gate                                      *)
Gate(w, allow) ==
  /\ pc[w] = "gate"
  /\ talk' \in Decayed(talk)
  /\ pc' = [pc EXCEPT ![w] = IF allow THEN "decide" ELSE "finalize"]
  /\ UNCHANGED <<nextBatch, inFlight, waitRounds, sendFn, timers, manager,
                 batch, rounds, canSend, messages, offReplies, commands>>

(* What DecideImmersiveIntent may return; every answer of the model that    *)
(* passes validation is one of the first three.  The private strong-call    *)
(* fast path is "reply".                                                    *)
Intents == {"skip", "wait", "reply", "protocol_error", "error"}

(* Faulty variant of resolveControlAction: the round limit is off by one.   *)
ResolvedActionLate(intent, waited) ==
  LET action == CASE intent = "protocol_error" -> IF waited = 0 THEN "wait" ELSE "skip"
                  [] intent = "error"          -> "skip"
                  [] OTHER                     -> intent
  IN  IF action = "wait" /\ waited > MaxWaitRounds THEN "skip" ELSE action

(* resolveControlAction *)
ResolvedAction(intent, waited) ==
  LET action == CASE intent = "protocol_error" -> IF waited = 0 THEN "wait" ELSE "skip"
                  [] intent = "error"          -> "skip"
                  [] OTHER                     -> intent
  IN  IF action = "wait" /\ waited >= MaxWaitRounds THEN "skip" ELSE action

Decide(w, intent) ==
  /\ pc[w] = "decide"
  /\ ResolvedAction(intent, rounds[w]) # "wait"
  /\ pc' = [pc EXCEPT ![w] =
       IF ResolvedAction(intent, rounds[w]) = "reply" THEN "reply" ELSE "finalize"]
  /\ UNCHANGED <<queue, timers, manager, batch, rounds, canSend, messages,
                 offReplies, commands>>

(* The worker's function returns and its local variables are gone.          *)
Return(w) ==
  /\ inFlight' = FALSE
  /\ pc' = [pc EXCEPT ![w] = "idle"]
  /\ batch' = [batch EXCEPT ![w] = <<>>]
  /\ rounds' = [rounds EXCEPT ![w] = 0]
  /\ canSend' = [canSend EXCEPT ![w] = FALSE]

(* applyWaitDecision: the batch goes back to the head of the buffer         *)
Deferred(held) == [i \in DOMAIN held |-> [held[i] EXCEPT !.waits = @ + 1]]

(* Faulty variant: behind what came meanwhile.                              *)
RequeuedBehind(held, queued) == queued \o Deferred(held)

Requeued(held, queued) == Deferred(held) \o queued

Wait(w, intent) ==
  /\ pc[w] = "decide"
  /\ ResolvedAction(intent, rounds[w]) = "wait"
  /\ nextBatch' = Requeued(batch[w], nextBatch)
  /\ waitRounds' = waitRounds + 1
  /\ flushTimer' = TRUE
  /\ Return(w)
  /\ UNCHANGED <<sendFn, talk, flushDue, followupDue, orphans, manager,
                 messages, offReplies, commands>>

(* Where a worker goes after the reply call.                                *)
After(step) == IF step = "reply" THEN "finalize" ELSE "fu_finalize"

(* The reply call of a flush or of a follow-up failed.                      *)
ReplyFails(w) ==
  /\ pc[w] \in {"reply", "fu_reply"}
  /\ pc' = [pc EXCEPT ![w] = After(@)]
  /\ UNCHANGED <<queue, timers, manager, batch, rounds, canSend, messages,
                 offReplies, commands>>

(* handleReply or tryFollowup sends the reply, if it can, and records it    *)
Reply(w, question) ==
  /\ pc[w] \in {"reply", "fu_reply"}
  /\ answers' = [m \in Messages |->
                   answers[m] + IF m \in Ids(batch[w]) THEN 1 ELSE 0]
  /\ talk' = IF canSend[w] THEN Delivered(talk, question) ELSE talk
  /\ offReplies' = IF canSend[w] /\ ~Enabled THEN offReplies + 1 ELSE offReplies
  /\ pc' = [pc EXCEPT ![w] = After(@)]
  /\ UNCHANGED <<nextBatch, inFlight, waitRounds, sendFn, timers, manager,
                 batch, rounds, canSend, accepted, rows, commands>>

(* reschedulePendingBatchLocked: the flush timer is re-armed for what came  *)
(* meanwhile.  Faulty variant: it is only stopped.                          *)
OnlyStopped(queued) == FALSE

Rescheduled(queued) == queued # <<>>

(* finalizeFlush *)
Finalize(w) ==
  /\ pc[w] = "finalize"
  /\ waitRounds' = 0
  /\ flushTimer' = Rescheduled(nextBatch)
  /\ Return(w)
  /\ UNCHANGED <<nextBatch, sendFn, talk, flushDue, followupDue, orphans,
                 manager, messages, offReplies, commands>>

-----------------------------------------------------------------------------
(* The question is followed up: the budget is spent, the timer is gone.      *)
FollowedUp(t) ==
  [waitingUser |-> t.waitingUser, pendingQuestion |-> t.pendingQuestion,
   followupBudget |-> t.followupBudget - 1, followupTimer |-> FALSE]

(* tryFollowup.  It forgets state.followupTimer first, also when that       *)
(* refers to a newer timer than the one whose callback this is.             *)
FollowupCallback ==
  /\ followupDue > 0
  /\ followupDue' = followupDue - 1
  /\ orphans' = orphans + IF talk.followupTimer THEN 1 ELSE 0

FollowupWhileBusy ==
  /\ FollowupCallback
  /\ inFlight
  /\ talk' = TimerForgotten(talk)
  /\ UNCHANGED <<nextBatch, inFlight, waitRounds, sendFn, flushTimer,
                 flushDue, manager, locals, messages, offReplies, commands>>

(* No question is pending, the budget is spent, the energy is too low, or   *)
(* too many messages came since: the last two are always possible.          *)
FollowupDropped ==
  /\ FollowupCallback
  /\ ~inFlight
  /\ talk' = QuestionCleared(talk)
  /\ UNCHANGED <<nextBatch, inFlight, waitRounds, sendFn, flushTimer,
                 flushDue, manager, locals, messages, offReplies, commands>>

(* Faulty variant: a follow-up starts although a flush is in flight.        *)
StartFollowupWhileBusy(w) ==
  /\ FollowupCallback
  /\ pc[w] = "idle"
  /\ talk.pendingQuestion /\ talk.waitingUser /\ talk.followupBudget > 0
  /\ talk' = FollowedUp(talk)
  /\ inFlight' = TRUE
  /\ canSend' = [canSend EXCEPT ![w] = sendFn]
  /\ pc' = [pc EXCEPT ![w] = "fu_check"]
  /\ UNCHANGED <<nextBatch, waitRounds, sendFn, flushTimer, flushDue, manager,
                 batch, rounds, messages, offReplies, commands>>

StartFollowup(w) ==
  /\ FollowupCallback
  /\ ~inFlight /\ pc[w] = "idle"
  /\ talk.pendingQuestion /\ talk.waitingUser /\ talk.followupBudget > 0
  /\ talk' = FollowedUp(talk)
  /\ inFlight' = TRUE
  /\ canSend' = [canSend EXCEPT ![w] = sendFn]
  /\ pc' = [pc EXCEPT ![w] = "fu_check"]
  /\ UNCHANGED <<nextBatch, waitRounds, sendFn, flushTimer, flushDue, manager,
                 batch, rounds, messages, offReplies, commands>>

(* Faulty variants: the switches are not tested; the early return leaves    *)
(* the session owned.                                                       *)
FollowupUnchecked(w) ==
  /\ pc[w] = "fu_check"
  /\ pc' = [pc EXCEPT ![w] = "fu_reply"]
  /\ UNCHANGED <<queue, timers, manager, batch, rounds, canSend, messages,
                 offReplies, commands>>

FollowupLeaks(w) ==
  /\ pc[w] = "fu_check"
  /\ pc' = [pc EXCEPT ![w] = IF Enabled THEN "fu_reply" ELSE "idle"]
  /\ UNCHANGED <<queue, timers, manager, batch, rounds, canSend, messages,
                 offReplies, commands>>

FollowupCheck(w) ==
  /\ pc[w] = "fu_check"
  /\ pc' = [pc EXCEPT ![w] = IF Enabled THEN "fu_reply" ELSE "fu_finalize"]
  /\ UNCHANGED <<queue, timers, manager, batch, rounds, canSend, messages,
                 offReplies, commands>>

(* The deferred function of tryFollowup; waitRounds is left alone.          *)
FollowupFinalize(w) ==
  /\ pc[w] = "fu_finalize"
  /\ talk' = TimerForgotten(talk)
  /\ flushTimer' = Rescheduled(nextBatch)
  /\ Return(w)
  /\ UNCHANGED <<nextBatch, waitRounds, sendFn, flushDue, followupDue,
                 orphans, manager, messages, offReplies, commands>>

-----------------------------------------------------------------------------
Flush == FlushWhileBusy \/ FlushEmpty \/ FlushDisabled \/ \E w \in Workers : TakeBatch(w)

Followup == FollowupWhileBusy \/ FollowupDropped \/ \E w \in Workers : StartFollowup(w)

Work(w) ==
  \/ \E appended \in SUBSET Ids(batch[w]) : Persist(w, appended)
  \/ \E allow \in BOOLEAN : Gate(w, allow)
  \/ \E intent \in Intents : Decide(w, intent) \/ Wait(w, intent)
  \/ ReplyFails(w)
  \/ \E question \in BOOLEAN : Reply(w, question)
  \/ Finalize(w)
  \/ FollowupCheck(w)
  \/ FollowupFinalize(w)

Environment ==
  \/ \E on \in BOOLEAN : SetEnabled(on)
  \/ ChatOn \/ ChatOff \/ Clear
  \/ Arrive
  \/ \E kind \in Kinds, persisted \in BOOLEAN : Enqueue(kind, persisted)
  \/ RouterDecay
  \/ \E question \in BOOLEAN : RepeatDelivered(question)

Next ==
  \/ Environment
  \/ FlushTimerFires \/ FollowupTimerFires \/ OrphanFires
  \/ Flush \/ Followup
  \/ \E w \in Workers : Work(w)

Spec == Init /\ [][Next]_vars

(* The follow-up delay is seconds (FollowupWaitMS, 90 s by default), the    *)
(* deferred function of tryFollowup comes microseconds after the delivery   *)
(* that armed the timer: liveness assumes that no follow-up timer fires     *)
(* between the two.  Without it a chain of follow-ups that are questions    *)
(* could hold the session against the flushes for ever.                     *)
FollowupDelayOutlastsFinalizer ==
  (\E w \in Workers : pc[w] = "fu_finalize") => followupDue' <= followupDue

(* The Go runtime fires armed timers and runs their goroutines, and no      *)
(* worker blocks for ever: the store and the model calls return.  Nothing   *)
(* is assumed of users and their commands.                                  *)
Fairness ==
  /\ WF_vars(FlushTimerFires) /\ WF_vars(FollowupTimerFires) /\ WF_vars(OrphanFires)
  /\ WF_vars(Flush) /\ WF_vars(Followup)
  /\ \A w \in Workers : WF_vars(Work(w))

FairSpec ==
  Init /\ [][Next /\ FollowupDelayOutlastsFinalizer]_vars /\ Fairness

-----------------------------------------------------------------------------
(* Properties                                                               *)

Steps == {"idle", "persist", "gate", "decide", "reply", "finalize",
          "fu_check", "fu_reply", "fu_finalize"}

FlagsOK ==
  /\ inFlight \in BOOLEAN /\ sendFn \in BOOLEAN /\ flushTimer \in BOOLEAN
  /\ llmOn \in BOOLEAN /\ immersiveOn \in BOOLEAN

QueueOK == nextBatch \in Seq(Queued) /\ waitRounds \in Nat /\ talk \in Talk

CountersOK ==
  /\ flushDue \in 0..MaxDue /\ followupDue \in 0..MaxDue /\ orphans \in Nat
  /\ clearing \in 0..MaxSwitches /\ handlers \in 0..MaxMessages
  /\ accepted \in 0..MaxMessages /\ clears \in 0..MaxSwitches
  /\ repeats \in 0..MaxRepeats /\ switches \in 0..MaxSwitches
  /\ offReplies \in Nat

LocalsOK ==
  /\ pc \in [Workers -> Steps] /\ batch \in [Workers -> Seq(Queued)]
  /\ rounds \in [Workers -> Nat] /\ canSend \in [Workers -> BOOLEAN]

HistoryOK == rows \in [Messages -> Nat] /\ answers \in [Messages -> Nat]

(* The type invariant: every variable keeps its type; the follow-up budget  *)
(* and the counters of fired callbacks never leave their ranges.            *)
TypeOK == FlagsOK /\ QueueOK /\ CountersOK /\ LocalsOK /\ HistoryOK

(* inFlight is the session's lock: it is set exactly while one goroutine,   *)
(* flush or follow-up, is between its acquisition and its deferred          *)
(* finalizer, whatever Clear, the switches and late callbacks do meanwhile. *)
SingleOwner ==
  /\ inFlight <=> \E w \in Workers : pc[w] # "idle"
  /\ \A v, w \in Workers : pc[v] # "idle" /\ pc[w] # "idle" => v = w

(* A buffered message always has something that will flush it: an armed     *)
(* timer, a fired callback, or the owner whose finalizer re-arms the timer. *)
(* Stop, replacement and the early returns of flush never lose the last.    *)
NoStrandedBatch ==
  nextBatch # <<>> => flushTimer \/ flushDue > 0 \/ inFlight

(* A message is written to the chat log at most once, although the router   *)
(* and every flush round that holds it may try.                             *)
LoggedAtMostOnce == \A m \in Messages : rows[m] <= 1

(* A message that no Clear interfered with is deferred by at most           *)
(* MaxWaitRounds wait decisions.                                            *)
DeferralBound ==
  \A i \in DOMAIN nextBatch :
    nextBatch[i].era = clears => nextBatch[i].waits <= MaxWaitRounds

(* An armed follow-up timer that the session knows of backs a pending       *)
(* question with budget left: every path that drops the question also       *)
(* stops the timer.                                                         *)
FollowupTimerBacksQuestion ==
  talk.followupTimer => talk.pendingQuestion /\ talk.followupBudget > 0

(* After the switches went off at most one more reply of the engine is      *)
(* sent, the one that was being generated.                                  *)
AtMostOneLateReply == offReplies <= 1

(* What TestFollowupTimer_CancelledOnClearPendingQuestion expects: once the *)
(* pending question is cleared no follow-up timer is armed.  A timer that   *)
(* tryFollowup forgot (FollowupCallback) cannot be stopped any more.        *)
ClearedQuestionHasNoTimer ==
  ~talk.pendingQuestion => orphans = 0 /\ ~talk.followupTimer

(* What the comment of Clear promises: it removes all queued messages, so   *)
(* the buffer holds only messages enqueued since.                           *)
ClearIsFinal == \A i \in DOMAIN nextBatch : nextBatch[i].era = clears

(* The session implements its mailbox: see SessionMailbox.                  *)
IdsInOrder(s) == [i \in DOMAIN s |-> s[i].id]

Mailbox == INSTANCE SessionMailbox WITH
  Readers  <- Workers,
  inbox    <- IdsInOrder(nextBatch),
  held     <- [w \in Workers |-> IdsInOrder(batch[w])],
  answered <- {m \in Messages : answers[m] > 0}

(* Every step of the session is a step of the mailbox or none of its        *)
(* business: no interleaving of flush, follow-up, Clear and the switches    *)
(* loses, reorders or revives a message in any other way.                   *)
ImplementsMailbox == Mailbox!Spec

(* The messages the session still has to do something about. *)
Held == Ids(nextBatch) \cup UNION {Ids(batch[w]) : w \in Workers}

(* Every message the session accepts is settled: answered, skipped or       *)
(* dropped, never kept in the buffer for ever by waits, by the follow-up or *)
(* by callbacks that find the session busy.                                 *)
EveryMessageSettles == \A m \in Messages : m \in Held ~> m \notin Held

(* The session is released again after every acquisition. *)
SessionReleased == inFlight ~> ~inFlight

=============================================================================
