----------------------- MODULE ImmersiveSessionProofs -----------------------
(***************************************************************************)
(* Proofs about ImmersiveSession: type correctness, mutual exclusion of the *)
(* session, and that no buffered message is stranded.                       *)
(***************************************************************************)
EXTENDS ImmersiveSession, SequenceTheorems, TLAPS

(* The bounds of the model that make the history counters well-typed: a     *)
(* handler reserves a message number, a Clear follows a /chat off command.  *)
Bounds ==
  /\ handlers + accepted <= MaxMessages
  /\ clears + clearing <= switches

TypeInv == TypeOK /\ Bounds

(* Every change of the question and follow-up state stays well-typed. *)
LEMMA TalkTypes ==
  ASSUME NEW t \in Talk
  PROVE  /\ Left(t) \in Talk /\ QuestionCleared(t) \in Talk /\ Settled(t) \in Talk
         /\ Decayed(t) \subseteq Talk
         /\ \A k \in Kinds : Observed(t, k) \in Talk
         /\ \A q \in BOOLEAN : Delivered(t, q) \in Talk
         /\ TimerForgotten(t) \in Talk
         /\ t.followupBudget > 0 => FollowedUp(t) \in Talk
<1>1. \A u \in Talk : Left(u) \in Talk
  BY DEF Left, Talk
<1>2. QuestionCleared(t) \in Talk
  <2>1. t.waitingUser \in BOOLEAN /\ 0 \in 0..DefaultFollowupBudget
    BY DEF Talk, DefaultFollowupBudget
  <2> QED BY <2>1 DEF QuestionCleared, Talk
<1>3. Settled(t) \in Talk
  BY <1>1, <1>2 DEF Settled
<1>4. Decayed(t) \subseteq Talk
  BY <1>3 DEF Decayed
<1>5. \A k \in Kinds : Observed(t, k) \in Talk
  BY <1>1, <1>3 DEF Observed, Kinds
<1>6. \A q \in BOOLEAN : Delivered(t, q) \in Talk
  BY <1>3 DEF Delivered, Talk, DefaultFollowupBudget
<1>7. TimerForgotten(t) \in Talk
  BY DEF TimerForgotten, Talk
<1>8. t.followupBudget > 0 => FollowedUp(t) \in Talk
  <2>1. /\ t.waitingUser \in BOOLEAN /\ t.pendingQuestion \in BOOLEAN
        /\ t.followupBudget \in 0..DefaultFollowupBudget
    BY DEF Talk
  <2>2. t.followupBudget > 0 => t.followupBudget - 1 \in 0..DefaultFollowupBudget
    BY <2>1 DEF DefaultFollowupBudget
  <2> QED BY <2>1, <2>2 DEF FollowedUp, Talk
<1> QED BY <1>1, <1>2, <1>3, <1>4, <1>5, <1>6, <1>7, <1>8

(* Marking, deferring and requeueing a batch yields sequences of messages   *)
(* of the same length and with the same numbers.                            *)
LEMMA BatchTypes ==
  ASSUME NEW s \in Seq(Queued)
  PROVE  /\ Deferred(s) \in Seq(Queued) /\ DOMAIN Deferred(s) = DOMAIN s
         /\ \A i \in DOMAIN s : Deferred(s)[i].id = s[i].id
         /\ \A a : /\ Marked(s, a) \in Seq(Queued)
                   /\ DOMAIN Marked(s, a) = DOMAIN s
                   /\ \A i \in DOMAIN s : Marked(s, a)[i].id = s[i].id
         /\ \A q \in Seq(Queued) : Requeued(s, q) \in Seq(Queued)
<1>1. /\ Len(s) \in Nat /\ DOMAIN s = 1..Len(s)
      /\ \A i \in DOMAIN s : s[i] \in Queued
  BY LenProperties, ElementOfSeq
<1>2. /\ Deferred(s) \in [1..Len(s) -> Queued]
      /\ \A i \in DOMAIN s : Deferred(s)[i].id = s[i].id
  BY <1>1 DEF Deferred, Queued
<1>3. Deferred(s) \in Seq(Queued)
  BY <1>1, <1>2, SeqDef
<1>4. ASSUME NEW a
      PROVE  /\ Marked(s, a) \in Seq(Queued)
             /\ DOMAIN Marked(s, a) = DOMAIN s
             /\ \A i \in DOMAIN s : Marked(s, a)[i].id = s[i].id
  <2>1. /\ Marked(s, a) \in [1..Len(s) -> Queued]
        /\ \A i \in DOMAIN s : Marked(s, a)[i].id = s[i].id
    BY <1>1 DEF Marked, Queued
  <2> QED BY <1>1, <2>1, SeqDef
<1>5. \A q \in Seq(Queued) : Requeued(s, q) \in Seq(Queued)
  BY <1>3, ConcatProperties DEF Requeued
<1> QED BY <1>1, <1>2, <1>3, <1>4, <1>5

-----------------------------------------------------------------------------
(* Every initial state, whichever way the switches stand, is well-typed. *)
LEMMA TypeInit == Init => TypeInv
<1> SUFFICES ASSUME Init PROVE TypeInv
  OBVIOUS
<1>1. FlagsOK
  BY Zenon DEF Init, FlagsOK
<1>2. QueueOK
  <2>1. nextBatch \in Seq(Queued) /\ waitRounds = 0
    BY EmptySeq DEF Init
  <2>2. talk \in Talk
    BY DEF Init, Talk, DefaultFollowupBudget
  <2> QED BY <2>1, <2>2 DEF QueueOK
<1>3. CountersOK /\ Bounds
  <2>1. /\ flushDue = 0 /\ followupDue = 0 /\ orphans = 0 /\ clearing = 0
        /\ handlers = 0 /\ accepted = 0 /\ clears = 0 /\ repeats = 0
        /\ switches = 0 /\ offReplies = 0
    BY Zenon DEF Init
  <2> QED BY <2>1, ConstantsAssumption DEF CountersOK, Bounds
<1>4. LocalsOK
  <2>1. batch \in [Workers -> Seq(Queued)]
    BY EmptySeq DEF Init
  <2> QED BY <2>1 DEF Init, LocalsOK, Steps
<1>5. HistoryOK
  BY DEF Init, HistoryOK
<1> QED BY <1>1, <1>2, <1>3, <1>4, <1>5 DEF TypeInv, TypeOK

(* The steps of commands and handlers. *)
LEMMA TypeEnvironment == TypeInv /\ Environment => TypeInv'
<1> SUFFICES ASSUME TypeInv, Environment
             PROVE  TypeInv'
  OBVIOUS
<1>0. FlagsOK /\ QueueOK /\ CountersOK /\ LocalsOK /\ HistoryOK /\ Bounds
  BY DEF TypeInv, TypeOK
<1> SUFFICES FlagsOK' /\ QueueOK' /\ CountersOK' /\ Bounds' /\ LocalsOK' /\ HistoryOK'
  BY DEF TypeInv, TypeOK
<1> USE <1>0, ConstantsAssumption
        DEF queue, timers, manager, locals, messages, commands
<1>1. ASSUME NEW on \in BOOLEAN, SetEnabled(on)
      PROVE  FlagsOK' /\ QueueOK' /\ CountersOK' /\ Bounds' /\ LocalsOK' /\ HistoryOK'
  <2>1. FlagsOK'
    BY <1>1, Zenon DEF SetEnabled, FlagsOK
  <2>2. CountersOK' /\ Bounds'
    BY <1>1 DEF SetEnabled, Switch, CountersOK, Bounds
  <2>3. QueueOK' /\ LocalsOK' /\ HistoryOK'
    BY <1>1, Zenon DEF SetEnabled, QueueOK, LocalsOK, HistoryOK
  <2> QED BY <2>1, <2>2, <2>3
<1>2. CASE ChatOn
  <2>1. FlagsOK'
    BY <1>2, Zenon DEF ChatOn, FlagsOK
  <2>2. CountersOK' /\ Bounds'
    BY <1>2 DEF ChatOn, Switch, CountersOK, Bounds
  <2>3. QueueOK' /\ LocalsOK' /\ HistoryOK'
    BY <1>2, Zenon DEF ChatOn, QueueOK, LocalsOK, HistoryOK
  <2> QED BY <2>1, <2>2, <2>3
<1>3. CASE ChatOff
  <2>1. FlagsOK'
    BY <1>3, Zenon DEF ChatOff, FlagsOK
  <2>2. CountersOK' /\ Bounds'
    BY <1>3 DEF ChatOff, Switch, CountersOK, Bounds
  <2>3. QueueOK' /\ LocalsOK' /\ HistoryOK'
    BY <1>3, Zenon DEF ChatOff, QueueOK, LocalsOK, HistoryOK
  <2> QED BY <2>1, <2>2, <2>3
<1>4. CASE Clear
  <2>1. FlagsOK'
    BY <1>4, Zenon DEF Clear, FlagsOK
  <2>2. QueueOK'
    BY <1>4, TalkTypes, EmptySeq DEF Clear, QueueOK
  <2>3. CountersOK' /\ Bounds'
    BY <1>4 DEF Clear, CountersOK, Bounds
  <2>4. LocalsOK' /\ HistoryOK'
    BY <1>4, Zenon DEF Clear, LocalsOK, HistoryOK
  <2> QED BY <2>1, <2>2, <2>3, <2>4
<1>5. CASE Arrive
  <2>1. FlagsOK'
    BY <1>5, Zenon DEF Arrive, FlagsOK
  <2>2. CountersOK' /\ Bounds'
    BY <1>5 DEF Arrive, CountersOK, Bounds
  <2>3. QueueOK' /\ LocalsOK' /\ HistoryOK'
    BY <1>5, Zenon DEF Arrive, QueueOK, LocalsOK, HistoryOK
  <2> QED BY <2>1, <2>2, <2>3
<1>6. ASSUME NEW kind \in Kinds, NEW persisted \in BOOLEAN, Enqueue(kind, persisted)
      PROVE  FlagsOK' /\ QueueOK' /\ CountersOK' /\ Bounds' /\ LocalsOK' /\ HistoryOK'
  <2>1. FlagsOK'
    BY <1>6, Zenon DEF Enqueue, FlagsOK
  <2>2. talk' \in Talk
    BY <1>6, TalkTypes DEF Enqueue, QueueOK
  <2>3. accepted + 1 \in Messages
    BY <1>6 DEF Enqueue, Messages, CountersOK, Bounds
  <2>4. [id |-> accepted + 1, persisted |-> persisted, waits |-> 0,
         era |-> clears] \in Queued
    BY <2>3 DEF Queued, CountersOK
  <2>5. QueueOK'
    BY <1>6, <2>2, <2>4 DEF Enqueue, QueueOK
  <2>6. CountersOK' /\ Bounds'
    BY <1>6 DEF Enqueue, CountersOK, Bounds
  <2>7. HistoryOK'
    BY <1>6, <2>3 DEF Enqueue, Messages, HistoryOK
  <2>8. LocalsOK'
    BY <1>6, Zenon DEF Enqueue, LocalsOK
  <2> QED BY <2>1, <2>2, <2>3, <2>4, <2>5, <2>6, <2>7, <2>8
<1>7. CASE RouterDecay
  <2>1. QueueOK'
    BY <1>7, TalkTypes DEF RouterDecay, QueueOK
  <2>2. FlagsOK' /\ CountersOK' /\ Bounds' /\ LocalsOK' /\ HistoryOK'
    BY <1>7, Zenon DEF RouterDecay, FlagsOK, CountersOK, LocalsOK, HistoryOK, Bounds
  <2> QED BY <2>1, <2>2
<1>8. ASSUME NEW question \in BOOLEAN, RepeatDelivered(question)
      PROVE  FlagsOK' /\ QueueOK' /\ CountersOK' /\ Bounds' /\ LocalsOK' /\ HistoryOK'
  <2>1. QueueOK'
    BY <1>8, TalkTypes DEF RepeatDelivered, QueueOK
  <2>2. CountersOK' /\ Bounds'
    <3>1. handlers' \in 0..MaxMessages /\ handlers' + accepted <= MaxMessages
      BY <1>8 DEF RepeatDelivered, CountersOK, Bounds
    <3>2. /\ repeats < MaxRepeats /\ repeats' = repeats + 1
          /\ UNCHANGED <<flushDue, followupDue, orphans, clearing, accepted,
                         clears, switches, offReplies>>
      BY <1>8, Zenon DEF RepeatDelivered
    <3>3. CountersOK'
      BY <3>1, <3>2 DEF CountersOK
    <3>4. Bounds'
      BY <3>1, <3>2 DEF Bounds
    <3> QED BY <3>3, <3>4
  <2>3. FlagsOK' /\ LocalsOK' /\ HistoryOK'
    BY <1>8, Zenon DEF RepeatDelivered, FlagsOK, LocalsOK, HistoryOK
  <2> QED BY <2>1, <2>2, <2>3
<1> QED BY <1>1, <1>2, <1>3, <1>4, <1>5, <1>6, <1>7, <1>8, Zenon DEF Environment

(* The steps of timers and of their callbacks. *)
LEMMA TypeTimers == TypeInv /\ (FlushTimerFires \/ FollowupTimerFires \/ OrphanFires \/ Flush \/ Followup) => TypeInv'
<1> SUFFICES ASSUME TypeInv, (FlushTimerFires \/ FollowupTimerFires \/ OrphanFires \/ Flush \/ Followup)
             PROVE  TypeInv'
  OBVIOUS
<1>0. FlagsOK /\ QueueOK /\ CountersOK /\ LocalsOK /\ HistoryOK /\ Bounds
  BY DEF TypeInv, TypeOK
<1> SUFFICES FlagsOK' /\ QueueOK' /\ CountersOK' /\ Bounds' /\ LocalsOK' /\ HistoryOK'
  BY DEF TypeInv, TypeOK
<1> USE <1>0, ConstantsAssumption
        DEF queue, timers, manager, locals, messages, commands
<1>1. CASE FlushTimerFires
  <2>1. FlagsOK'
    BY <1>1, Zenon DEF FlushTimerFires, FlagsOK
  <2>2. CountersOK' /\ Bounds'
    BY <1>1 DEF FlushTimerFires, CountersOK, Bounds
  <2>3. QueueOK' /\ LocalsOK' /\ HistoryOK'
    BY <1>1, Zenon DEF FlushTimerFires, QueueOK, LocalsOK, HistoryOK
  <2> QED BY <2>1, <2>2, <2>3
<1>2. CASE FollowupTimerFires
  <2>1. QueueOK'
    BY <1>2, TalkTypes DEF FollowupTimerFires, QueueOK
  <2>2. CountersOK' /\ Bounds'
    BY <1>2 DEF FollowupTimerFires, CountersOK, Bounds
  <2>3. FlagsOK' /\ LocalsOK' /\ HistoryOK'
    BY <1>2, Zenon DEF FollowupTimerFires, FlagsOK, LocalsOK, HistoryOK
  <2> QED BY <2>1, <2>2, <2>3
<1>3. CASE OrphanFires
  <2>1. CountersOK' /\ Bounds'
    BY <1>3 DEF OrphanFires, CountersOK, Bounds
  <2>2. FlagsOK' /\ QueueOK' /\ LocalsOK' /\ HistoryOK'
    BY <1>3, Zenon DEF OrphanFires, FlagsOK, QueueOK, LocalsOK, HistoryOK
  <2> QED BY <2>1, <2>2
<1>4. CASE FlushWhileBusy
  <2>1. FlagsOK'
    BY <1>4, Zenon DEF FlushWhileBusy, FlagsOK
  <2>2. CountersOK' /\ Bounds'
    BY <1>4 DEF FlushWhileBusy, FlushCallback, CountersOK, Bounds
  <2>3. QueueOK' /\ LocalsOK' /\ HistoryOK'
    BY <1>4, Zenon DEF FlushWhileBusy, QueueOK, LocalsOK, HistoryOK
  <2> QED BY <2>1, <2>2, <2>3
<1>5. CASE FlushEmpty
  <2>1. CountersOK' /\ Bounds'
    BY <1>5 DEF FlushEmpty, FlushCallback, CountersOK, Bounds
  <2>2. FlagsOK' /\ QueueOK' /\ LocalsOK' /\ HistoryOK'
    BY <1>5, Zenon DEF FlushEmpty, FlagsOK, QueueOK, LocalsOK, HistoryOK
  <2> QED BY <2>1, <2>2
<1>6. CASE FlushDisabled
  <2>1. FlagsOK'
    BY <1>6, Zenon DEF FlushDisabled, FlagsOK
  <2>2. QueueOK'
    BY <1>6, EmptySeq DEF FlushDisabled, QueueOK
  <2>3. CountersOK' /\ Bounds'
    BY <1>6 DEF FlushDisabled, FlushCallback, CountersOK, Bounds
  <2>4. LocalsOK' /\ HistoryOK'
    BY <1>6, Zenon DEF FlushDisabled, LocalsOK, HistoryOK
  <2> QED BY <2>1, <2>2, <2>3, <2>4
<1>7. ASSUME NEW w \in Workers, TakeBatch(w)
      PROVE  FlagsOK' /\ QueueOK' /\ CountersOK' /\ Bounds' /\ LocalsOK' /\ HistoryOK'
  <2>1. FlagsOK'
    BY <1>7, Zenon DEF TakeBatch, FlagsOK
  <2>2. QueueOK'
    BY <1>7, EmptySeq DEF TakeBatch, QueueOK
  <2>3. CountersOK' /\ Bounds'
    BY <1>7 DEF TakeBatch, FlushCallback, CountersOK, Bounds
  <2>4. LocalsOK'
    BY <1>7 DEF TakeBatch, Steps, FlagsOK, QueueOK, LocalsOK
  <2>5. HistoryOK'
    BY <1>7, Zenon DEF TakeBatch, HistoryOK
  <2> QED BY <2>1, <2>2, <2>3, <2>4, <2>5
<1>8. CASE FollowupWhileBusy
  <2>1. QueueOK'
    BY <1>8, TalkTypes DEF FollowupWhileBusy, QueueOK
  <2>2. CountersOK' /\ Bounds'
    BY <1>8 DEF FollowupWhileBusy, FollowupCallback, CountersOK, Bounds
  <2>3. FlagsOK' /\ LocalsOK' /\ HistoryOK'
    BY <1>8, Zenon DEF FollowupWhileBusy, FlagsOK, LocalsOK, HistoryOK
  <2> QED BY <2>1, <2>2, <2>3
<1>9. CASE FollowupDropped
  <2>1. QueueOK'
    BY <1>9, TalkTypes DEF FollowupDropped, QueueOK
  <2>2. CountersOK' /\ Bounds'
    BY <1>9 DEF FollowupDropped, FollowupCallback, CountersOK, Bounds
  <2>3. FlagsOK' /\ LocalsOK' /\ HistoryOK'
    BY <1>9, Zenon DEF FollowupDropped, FlagsOK, LocalsOK, HistoryOK
  <2> QED BY <2>1, <2>2, <2>3
<1>10. ASSUME NEW w \in Workers, StartFollowup(w)
      PROVE  FlagsOK' /\ QueueOK' /\ CountersOK' /\ Bounds' /\ LocalsOK' /\ HistoryOK'
  <2>1. FlagsOK'
    BY <1>10, Zenon DEF StartFollowup, FlagsOK
  <2>2. QueueOK'
    BY <1>10, TalkTypes DEF StartFollowup, QueueOK
  <2>3. CountersOK' /\ Bounds'
    BY <1>10 DEF StartFollowup, FollowupCallback, CountersOK, Bounds
  <2>4. LocalsOK'
    BY <1>10 DEF StartFollowup, Steps, FlagsOK, LocalsOK
  <2>5. HistoryOK'
    BY <1>10, Zenon DEF StartFollowup, HistoryOK
  <2> QED BY <2>1, <2>2, <2>3, <2>4, <2>5
<1> QED BY <1>1, <1>2, <1>3, <1>4, <1>5, <1>6, <1>7, <1>8, <1>9, <1>10, Zenon DEF Flush, Followup

(* The steps of a worker that owns the session. *)
LEMMA TypeWork == TypeInv /\ (\E w \in Workers : Work(w)) => TypeInv'
<1> SUFFICES ASSUME TypeInv, (\E w \in Workers : Work(w))
             PROVE  TypeInv'
  OBVIOUS
<1>0. FlagsOK /\ QueueOK /\ CountersOK /\ LocalsOK /\ HistoryOK /\ Bounds
  BY DEF TypeInv, TypeOK
<1> SUFFICES FlagsOK' /\ QueueOK' /\ CountersOK' /\ Bounds' /\ LocalsOK' /\ HistoryOK'
  BY DEF TypeInv, TypeOK
<1> USE <1>0, ConstantsAssumption
        DEF queue, timers, manager, locals, messages, commands
<1>1. ASSUME NEW w \in Workers, NEW appended \in SUBSET Ids(batch[w]), Persist(w, appended)
      PROVE  FlagsOK' /\ QueueOK' /\ CountersOK' /\ Bounds' /\ LocalsOK' /\ HistoryOK'
  <2>1. LocalsOK'
    BY <1>1, BatchTypes DEF Persist, Steps, LocalsOK
  <2>2. HistoryOK'
    BY <1>1 DEF Persist, HistoryOK
  <2>3. FlagsOK' /\ QueueOK' /\ CountersOK' /\ Bounds'
    BY <1>1, Zenon DEF Persist, FlagsOK, QueueOK, CountersOK, Bounds
  <2> QED BY <2>1, <2>2, <2>3
<1>2. ASSUME NEW w \in Workers, NEW allow \in BOOLEAN, Gate(w, allow)
      PROVE  FlagsOK' /\ QueueOK' /\ CountersOK' /\ Bounds' /\ LocalsOK' /\ HistoryOK'
  <2>1. QueueOK'
    BY <1>2, TalkTypes DEF Gate, QueueOK
  <2>2. LocalsOK'
    BY <1>2 DEF Gate, Steps, LocalsOK
  <2>3. FlagsOK' /\ CountersOK' /\ Bounds' /\ HistoryOK'
    BY <1>2, Zenon DEF Gate, FlagsOK, CountersOK, HistoryOK, Bounds
  <2> QED BY <2>1, <2>2, <2>3
<1>3. ASSUME NEW w \in Workers, NEW intent \in Intents, Decide(w, intent)
      PROVE  FlagsOK' /\ QueueOK' /\ CountersOK' /\ Bounds' /\ LocalsOK' /\ HistoryOK'
  <2>1. LocalsOK'
    BY <1>3 DEF Decide, Steps, LocalsOK
  <2>2. FlagsOK' /\ QueueOK' /\ CountersOK' /\ Bounds' /\ HistoryOK'
    BY <1>3, Zenon DEF Decide, FlagsOK, QueueOK, CountersOK, HistoryOK, Bounds
  <2> QED BY <2>1, <2>2
<1>4. ASSUME NEW w \in Workers, NEW intent \in Intents, Wait(w, intent)
      PROVE  FlagsOK' /\ QueueOK' /\ CountersOK' /\ Bounds' /\ LocalsOK' /\ HistoryOK'
  <2>1. FlagsOK'
    BY <1>4, Zenon DEF Wait, Return, FlagsOK
  <2>2. QueueOK'
    <3>1. batch[w] \in Seq(Queued) /\ nextBatch \in Seq(Queued)
      BY DEF LocalsOK, QueueOK
    <3>2. Requeued(batch[w], nextBatch) \in Seq(Queued)
      BY <3>1, BatchTypes
    <3> QED BY <1>4, <3>2 DEF Wait, QueueOK
  <2>3. LocalsOK'
    BY <1>4, EmptySeq DEF Wait, Return, Steps, LocalsOK
  <2>4. CountersOK' /\ Bounds' /\ HistoryOK'
    BY <1>4, Zenon DEF Wait, CountersOK, HistoryOK, Bounds
  <2> QED BY <2>1, <2>2, <2>3, <2>4
<1>5. ASSUME NEW w \in Workers, ReplyFails(w)
      PROVE  FlagsOK' /\ QueueOK' /\ CountersOK' /\ Bounds' /\ LocalsOK' /\ HistoryOK'
  <2>1. LocalsOK'
    BY <1>5 DEF ReplyFails, After, Steps, LocalsOK
  <2>2. FlagsOK' /\ QueueOK' /\ CountersOK' /\ Bounds' /\ HistoryOK'
    BY <1>5, Zenon DEF ReplyFails, FlagsOK, QueueOK, CountersOK, HistoryOK, Bounds
  <2> QED BY <2>1, <2>2
<1>6. ASSUME NEW w \in Workers, NEW question \in BOOLEAN, Reply(w, question)
      PROVE  FlagsOK' /\ QueueOK' /\ CountersOK' /\ Bounds' /\ LocalsOK' /\ HistoryOK'
  <2>1. QueueOK'
    BY <1>6, TalkTypes DEF Reply, QueueOK
  <2>2. CountersOK' /\ Bounds'
    BY <1>6 DEF Reply, CountersOK, Bounds
  <2>3. LocalsOK'
    BY <1>6 DEF Reply, After, Steps, LocalsOK
  <2>4. HistoryOK'
    BY <1>6 DEF Reply, HistoryOK
  <2>5. FlagsOK'
    BY <1>6, Zenon DEF Reply, FlagsOK
  <2> QED BY <2>1, <2>2, <2>3, <2>4, <2>5
<1>7. ASSUME NEW w \in Workers, Finalize(w)
      PROVE  FlagsOK' /\ QueueOK' /\ CountersOK' /\ Bounds' /\ LocalsOK' /\ HistoryOK'
  <2>1. FlagsOK'
    BY <1>7, Zenon DEF Finalize, Return, Rescheduled, FlagsOK
  <2>2. QueueOK'
    BY <1>7 DEF Finalize, QueueOK
  <2>3. LocalsOK'
    BY <1>7, EmptySeq DEF Finalize, Return, Steps, LocalsOK
  <2>4. CountersOK' /\ Bounds' /\ HistoryOK'
    BY <1>7, Zenon DEF Finalize, CountersOK, HistoryOK, Bounds
  <2> QED BY <2>1, <2>2, <2>3, <2>4
<1>8. ASSUME NEW w \in Workers, FollowupCheck(w)
      PROVE  FlagsOK' /\ QueueOK' /\ CountersOK' /\ Bounds' /\ LocalsOK' /\ HistoryOK'
  <2>1. LocalsOK'
    BY <1>8 DEF FollowupCheck, Steps, LocalsOK
  <2>2. FlagsOK' /\ QueueOK' /\ CountersOK' /\ Bounds' /\ HistoryOK'
    BY <1>8, Zenon DEF FollowupCheck, FlagsOK, QueueOK, CountersOK, HistoryOK, Bounds
  <2> QED BY <2>1, <2>2
<1>9. ASSUME NEW w \in Workers, FollowupFinalize(w)
      PROVE  FlagsOK' /\ QueueOK' /\ CountersOK' /\ Bounds' /\ LocalsOK' /\ HistoryOK'
  <2>1. FlagsOK'
    BY <1>9, Zenon DEF FollowupFinalize, Return, Rescheduled, FlagsOK
  <2>2. QueueOK'
    BY <1>9, TalkTypes DEF FollowupFinalize, QueueOK
  <2>3. LocalsOK'
    BY <1>9, EmptySeq DEF FollowupFinalize, Return, Steps, LocalsOK
  <2>4. CountersOK' /\ Bounds' /\ HistoryOK'
    BY <1>9, Zenon DEF FollowupFinalize, CountersOK, HistoryOK, Bounds
  <2> QED BY <2>1, <2>2, <2>3, <2>4
<1> QED BY <1>1, <1>2, <1>3, <1>4, <1>5, <1>6, <1>7, <1>8, <1>9, Zenon DEF Work

(* For all bounds every variable keeps its type: the follow-up budget that   *)
(* tryFollowup decrements never goes below zero, and the waits that          *)
(* applyWaitDecision counts stay numbers.                                    *)
THEOREM TypeCorrect == Spec => []TypeOK
<1>1. TypeInv /\ UNCHANGED vars => TypeInv'
  BY DEF TypeInv, TypeOK, Bounds, vars, queue, timers, manager, locals,
         messages, commands, FlagsOK, QueueOK, CountersOK, LocalsOK, HistoryOK
<1>2. TypeInv /\ [Next]_vars => TypeInv'
  BY <1>1, TypeEnvironment, TypeTimers, TypeWork DEF Next
<1>3. TypeInv => TypeOK
  BY DEF TypeInv
<1> QED BY TypeInit, <1>2, <1>3, PTL DEF Spec
-----------------------------------------------------------------------------
(* Mutual exclusion: inFlight is set exactly while one worker is busy.  A   *)
(* step that does not touch inFlight keeps the busy worker busy, an         *)
(* acquisition finds every worker idle, a return finds its worker alone.    *)
Busy(w) == pc[w] # "idle"

(* A step that changes neither the lock nor a program counter keeps the      *)
(* ownership.                                                                *)
LEMMA OwnerKept ==
  ASSUME SingleOwner, UNCHANGED inFlight,
         \A w \in Workers : Busy(w)' <=> Busy(w)
  PROVE  SingleOwner'
BY Zenon DEF SingleOwner, Busy

(* A busy worker that moves on stays busy. *)
LEMMA OwnerMoves ==
  ASSUME TypeOK, SingleOwner, UNCHANGED inFlight, NEW w \in Workers,
         NEW step \in Steps \ {"idle"}, Busy(w), pc' = [pc EXCEPT ![w] = step]
  PROVE  SingleOwner'
<1>1. \A v \in Workers : Busy(v)' <=> Busy(v)
  BY DEF TypeOK, LocalsOK, Busy
<1> QED BY <1>1, OwnerKept

(* A worker that finds the lock free and sets it is the only busy one. *)
LEMMA OwnerAcquires ==
  ASSUME TypeOK, SingleOwner, ~inFlight, inFlight', NEW w \in Workers,
         NEW step \in Steps \ {"idle"}, pc' = [pc EXCEPT ![w] = step]
  PROVE  SingleOwner'
<1>1. \A v \in Workers : ~Busy(v)
  BY Zenon DEF SingleOwner, Busy
<1>2. \A v \in Workers : Busy(v)' <=> v = w
  BY <1>1 DEF TypeOK, LocalsOK, Busy
<1> QED BY <1>2, Zenon DEF SingleOwner, Busy

(* The owner that returns leaves every worker idle and the lock free. *)
LEMMA OwnerReturns ==
  ASSUME TypeOK, SingleOwner, NEW w \in Workers, Busy(w), Return(w)
  PROVE  SingleOwner'
<1>1. \A v \in Workers : Busy(v) => v = w
  BY Zenon DEF SingleOwner, Busy
<1>2. \A v \in Workers : ~Busy(v)'
  BY <1>1 DEF TypeOK, LocalsOK, Busy, Return
<1>3. inFlight' = FALSE
  BY DEF Return
<1> QED BY <1>2, <1>3, Zenon DEF SingleOwner, Busy

(* Every action of the session keeps the ownership. *)
LEMMA OwnerStep == TypeOK /\ SingleOwner /\ [Next]_vars => SingleOwner'
<1> SUFFICES ASSUME TypeOK, SingleOwner, [Next]_vars
             PROVE  SingleOwner'
  OBVIOUS
<1> USE DEF queue, locals
<1>1. ASSUME NEW on \in BOOLEAN, SetEnabled(on)
      PROVE  SingleOwner'
  BY <1>1, OwnerKept DEF SetEnabled, Busy
<1>2. CASE ChatOn
  BY <1>2, OwnerKept DEF ChatOn, Busy
<1>3. CASE ChatOff
  BY <1>3, OwnerKept DEF ChatOff, Busy
<1>4. CASE Clear
  BY <1>4, OwnerKept DEF Clear, Busy
<1>5. CASE Arrive
  BY <1>5, OwnerKept DEF Arrive, Busy
<1>6. ASSUME NEW kind \in Kinds, NEW persisted \in BOOLEAN, Enqueue(kind, persisted)
      PROVE  SingleOwner'
  BY <1>6, OwnerKept DEF Enqueue, Busy
<1>7. CASE RouterDecay
  BY <1>7, OwnerKept DEF RouterDecay, Busy
<1>8. ASSUME NEW question \in BOOLEAN, RepeatDelivered(question)
      PROVE  SingleOwner'
  BY <1>8, OwnerKept DEF RepeatDelivered, Busy
<1>9. CASE FlushTimerFires
  BY <1>9, OwnerKept DEF FlushTimerFires, Busy
<1>10. CASE FollowupTimerFires
  BY <1>10, OwnerKept DEF FollowupTimerFires, Busy
<1>11. CASE OrphanFires
  BY <1>11, OwnerKept DEF OrphanFires, Busy
<1>12. CASE FlushWhileBusy
  BY <1>12, OwnerKept DEF FlushWhileBusy, Busy
<1>13. CASE FlushEmpty
  BY <1>13, OwnerKept DEF FlushEmpty, Busy
<1>14. CASE FlushDisabled
  BY <1>14, OwnerKept DEF FlushDisabled, Busy
<1>15. ASSUME NEW w \in Workers, TakeBatch(w)
      PROVE  SingleOwner'
  <2>1. ~inFlight /\ inFlight' /\ pc' = [pc EXCEPT ![w] = "persist"]
    BY <1>15 DEF TakeBatch
  <2> QED BY <2>1, OwnerAcquires DEF Steps
<1>16. CASE FollowupWhileBusy
  BY <1>16, OwnerKept DEF FollowupWhileBusy, Busy
<1>17. CASE FollowupDropped
  BY <1>17, OwnerKept DEF FollowupDropped, Busy
<1>18. ASSUME NEW w \in Workers, StartFollowup(w)
      PROVE  SingleOwner'
  <2>1. ~inFlight /\ inFlight' /\ pc' = [pc EXCEPT ![w] = "fu_check"]
    BY <1>18 DEF StartFollowup
  <2> QED BY <2>1, OwnerAcquires DEF Steps
<1>19. ASSUME NEW w \in Workers, NEW appended \in SUBSET Ids(batch[w]), Persist(w, appended)
      PROVE  SingleOwner'
  <2>1. PICK step \in Steps \ {"idle"} : pc' = [pc EXCEPT ![w] = step]
    BY <1>19 DEF Persist, Steps
  <2>2. Busy(w) /\ UNCHANGED inFlight
    BY <1>19 DEF Persist, Busy
  <2> QED BY <2>1, <2>2, OwnerMoves
<1>20. ASSUME NEW w \in Workers, NEW allow \in BOOLEAN, Gate(w, allow)
      PROVE  SingleOwner'
  <2>1. PICK step \in Steps \ {"idle"} : pc' = [pc EXCEPT ![w] = step]
    BY <1>20 DEF Gate, Steps
  <2>2. Busy(w) /\ UNCHANGED inFlight
    BY <1>20 DEF Gate, Busy
  <2> QED BY <2>1, <2>2, OwnerMoves
<1>21. ASSUME NEW w \in Workers, NEW intent \in Intents, Decide(w, intent)
      PROVE  SingleOwner'
  <2>1. PICK step \in Steps \ {"idle"} : pc' = [pc EXCEPT ![w] = step]
    BY <1>21 DEF Decide, Steps
  <2>2. Busy(w) /\ UNCHANGED inFlight
    BY <1>21 DEF Decide, Busy
  <2> QED BY <2>1, <2>2, OwnerMoves
<1>22. ASSUME NEW w \in Workers, NEW intent \in Intents, Wait(w, intent)
      PROVE  SingleOwner'
  BY <1>22, OwnerReturns DEF Wait, Busy
<1>23. ASSUME NEW w \in Workers, ReplyFails(w)
      PROVE  SingleOwner'
  <2>1. PICK step \in Steps \ {"idle"} : pc' = [pc EXCEPT ![w] = step]
    BY <1>23 DEF ReplyFails, Steps, After
  <2>2. Busy(w) /\ UNCHANGED inFlight
    BY <1>23 DEF ReplyFails, Busy
  <2> QED BY <2>1, <2>2, OwnerMoves
<1>24. ASSUME NEW w \in Workers, NEW question \in BOOLEAN, Reply(w, question)
      PROVE  SingleOwner'
  <2>1. PICK step \in Steps \ {"idle"} : pc' = [pc EXCEPT ![w] = step]
    BY <1>24 DEF Reply, Steps, After
  <2>2. Busy(w) /\ UNCHANGED inFlight
    BY <1>24 DEF Reply, Busy
  <2> QED BY <2>1, <2>2, OwnerMoves
<1>25. ASSUME NEW w \in Workers, Finalize(w)
      PROVE  SingleOwner'
  BY <1>25, OwnerReturns DEF Finalize, Busy
<1>26. ASSUME NEW w \in Workers, FollowupCheck(w)
      PROVE  SingleOwner'
  <2>1. PICK step \in Steps \ {"idle"} : pc' = [pc EXCEPT ![w] = step]
    BY <1>26 DEF FollowupCheck, Steps
  <2>2. Busy(w) /\ UNCHANGED inFlight
    BY <1>26 DEF FollowupCheck, Busy
  <2> QED BY <2>1, <2>2, OwnerMoves
<1>27. ASSUME NEW w \in Workers, FollowupFinalize(w)
      PROVE  SingleOwner'
  BY <1>27, OwnerReturns DEF FollowupFinalize, Busy
<1>28. CASE UNCHANGED vars
  BY <1>28, OwnerKept DEF vars, Busy
<1> QED
  BY <1>1, <1>2, <1>3, <1>4, <1>5, <1>6, <1>7, <1>8, <1>9, <1>10, <1>11, <1>12, <1>13, <1>14, <1>15, <1>16, <1>17, <1>18, <1>19, <1>20, <1>21, <1>22, <1>23, <1>24, <1>25, <1>26, <1>27, <1>28,
     Zenon DEF Next, Environment, Flush, Followup, Work

(* For every number of workers, messages, switches and callbacks, at most   *)
(* one goroutine owns the session, and inFlight says whether one does.      *)
THEOREM OneOwner == Spec => []SingleOwner
<1>1. Init => SingleOwner
  BY Zenon DEF Init, SingleOwner
<1> QED BY <1>1, TypeCorrect, OwnerStep, PTL DEF Spec

-----------------------------------------------------------------------------
(* No action leaves a filled buffer with nothing that will flush it. *)
LEMMA StrandedStep == NoStrandedBatch /\ SingleOwner /\ TypeOK /\ [Next]_vars => NoStrandedBatch'
<1> SUFFICES ASSUME NoStrandedBatch, SingleOwner, TypeOK, [Next]_vars
             PROVE  NoStrandedBatch'
  OBVIOUS
<1> USE DEF NoStrandedBatch, queue, timers, locals
<1>1. ASSUME NEW on \in BOOLEAN, SetEnabled(on)
      PROVE  NoStrandedBatch'
  BY <1>1, Zenon DEF SetEnabled
<1>2. CASE ChatOn
  BY <1>2, Zenon DEF ChatOn
<1>3. CASE ChatOff
  BY <1>3, Zenon DEF ChatOff
<1>4. CASE Clear
  BY <1>4, Zenon DEF Clear
<1>5. CASE Arrive
  BY <1>5, Zenon DEF Arrive
<1>6. ASSUME NEW kind \in Kinds, NEW persisted \in BOOLEAN, Enqueue(kind, persisted)
      PROVE  NoStrandedBatch'
  BY <1>6, Zenon DEF Enqueue
<1>7. CASE RouterDecay
  BY <1>7, Zenon DEF RouterDecay
<1>8. ASSUME NEW question \in BOOLEAN, RepeatDelivered(question)
      PROVE  NoStrandedBatch'
  BY <1>8, Zenon DEF RepeatDelivered
<1>9. CASE FlushTimerFires
  <2>1. flushDue' > 0
    BY <1>9 DEF FlushTimerFires, TypeOK, CountersOK
  <2> QED BY <2>1
<1>10. CASE FollowupTimerFires
  BY <1>10, Zenon DEF FollowupTimerFires
<1>11. CASE OrphanFires
  BY <1>11, Zenon DEF OrphanFires
<1>12. CASE FlushWhileBusy
  BY <1>12, Zenon DEF FlushWhileBusy
<1>13. CASE FlushEmpty
  BY <1>13, Zenon DEF FlushEmpty
<1>14. CASE FlushDisabled
  BY <1>14, Zenon DEF FlushDisabled
<1>15. ASSUME NEW w \in Workers, TakeBatch(w)
      PROVE  NoStrandedBatch'
  BY <1>15, Zenon DEF TakeBatch
<1>16. CASE FollowupWhileBusy
  BY <1>16, Zenon DEF FollowupWhileBusy
<1>17. CASE FollowupDropped
  BY <1>17, Zenon DEF FollowupDropped
<1>18. ASSUME NEW w \in Workers, StartFollowup(w)
      PROVE  NoStrandedBatch'
  BY <1>18, Zenon DEF StartFollowup
<1>19. ASSUME NEW w \in Workers, NEW appended \in SUBSET Ids(batch[w]), Persist(w, appended)
      PROVE  NoStrandedBatch'
  BY <1>19, Zenon DEF Persist
<1>20. ASSUME NEW w \in Workers, NEW allow \in BOOLEAN, Gate(w, allow)
      PROVE  NoStrandedBatch'
  BY <1>20, Zenon DEF Gate
<1>21. ASSUME NEW w \in Workers, NEW intent \in Intents, Decide(w, intent)
      PROVE  NoStrandedBatch'
  BY <1>21, Zenon DEF Decide
<1>22. ASSUME NEW w \in Workers, NEW intent \in Intents, Wait(w, intent)
      PROVE  NoStrandedBatch'
  BY <1>22, Zenon DEF Wait
<1>23. ASSUME NEW w \in Workers, ReplyFails(w)
      PROVE  NoStrandedBatch'
  BY <1>23, Zenon DEF ReplyFails
<1>24. ASSUME NEW w \in Workers, NEW question \in BOOLEAN, Reply(w, question)
      PROVE  NoStrandedBatch'
  BY <1>24, Zenon DEF Reply
<1>25. ASSUME NEW w \in Workers, Finalize(w)
      PROVE  NoStrandedBatch'
  BY <1>25, Zenon DEF Finalize, Rescheduled
<1>26. ASSUME NEW w \in Workers, FollowupCheck(w)
      PROVE  NoStrandedBatch'
  BY <1>26, Zenon DEF FollowupCheck
<1>27. ASSUME NEW w \in Workers, FollowupFinalize(w)
      PROVE  NoStrandedBatch'
  BY <1>27, Zenon DEF FollowupFinalize, Rescheduled
<1>28. CASE UNCHANGED vars
  BY <1>28, Zenon DEF vars
<1> QED
  BY <1>1, <1>2, <1>3, <1>4, <1>5, <1>6, <1>7, <1>8, <1>9, <1>10, <1>11, <1>12, <1>13, <1>14, <1>15, <1>16, <1>17, <1>18, <1>19, <1>20, <1>21, <1>22, <1>23, <1>24, <1>25, <1>26, <1>27, <1>28,
     Zenon DEF Next, Environment, Flush, Followup, Work

(* No interleaving of fired callbacks, Clear, the switches and follow-ups   *)
(* leaves messages in the buffer with nothing that will flush them.         *)
THEOREM NothingStranded == Spec => []NoStrandedBatch
<1>1. Init => NoStrandedBatch
  BY Zenon DEF Init, NoStrandedBatch
<1> QED BY <1>1, TypeCorrect, OneOwner, StrandedStep, PTL DEF Spec
=============================================================================
