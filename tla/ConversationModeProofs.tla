------------------------ MODULE ConversationModeProofs ------------------------
(***************************************************************************)
(* Proofs about a session in time, its types, its flush timer, its speak    *)
(* gate and its follow-ups, for every configuration and every way a         *)
(* conversation goes.                                                       *)
(***************************************************************************)
EXTENDS ConversationMode, SequenceTheorems, TLAPS

USE ModeConstants

(* A conversation that knows how long ago the bot replied. *)
Aged(t) == "replyAge" \in DOMAIN t /\ t.replyAge \in Nat

(* A delay that keeps the deadline of a batch as old as age. *)
InTime(age, delay) ==
  /\ delay \in Nat
  /\ delay = 0 \/ policy.maxWait = 0 \/ age + delay <= policy.maxWait

-----------------------------------------------------------------------------
(* Whatever happens to a conversation, its age stays a number. *)

LEMMA ClearedAged == ASSUME NEW t, Aged(t) PROVE Aged(QuestionCleared(t))
  BY DEF Aged, QuestionCleared

LEMMA EnteredAged == ASSUME NEW t, Aged(t), NEW mode PROVE Aged(Entered(t, mode))
  <1>1. Aged(QuestionCleared(t))
    BY ClearedAged
  <1>2. CASE mode = "idle"
    BY <1>1, <1>2 DEF Aged, Entered
  <1>3. CASE mode = "cooling_down"
    BY <1>1, <1>3 DEF Aged, Entered
  <1>4. CASE mode = "waiting_user"
    BY <1>4 DEF Aged, Entered
  <1>5. CASE mode \notin {"idle", "cooling_down", "waiting_user"}
    BY <1>5 DEF Aged, Entered
  <1> QED
    BY <1>2, <1>3, <1>4, <1>5

LEMMA DecayedAged == ASSUME NEW t, Aged(t) PROVE Aged(Decayed(t))
  <1>1. Aged(QuestionOver(t))
    BY EnteredAged, ClearedAged DEF QuestionOver
  <1> QED
    BY <1>1, EnteredAged DEF Decayed

LEMMA ColdOpenedAged == ASSUME NEW t, Aged(t) PROVE Aged(ColdOpened(t))
  BY DEF Aged, ColdOpened

LEMMA WarmerAged == ASSUME NEW t, Aged(t), NEW points PROVE Aged(Warmer(t, points))
  BY DEF Aged, Warmer

LEMMA BoostedAged == ASSUME NEW t, Aged(t), NEW u \in Boosted(t) PROVE Aged(u)
  BY WarmerAged DEF Boosted

LEMMA CalledAged == ASSUME NEW t, Aged(t), NEW m, NEW u \in Called(t, m) PROVE Aged(u)
  <1> DEFINE now == [Focused(t, m) EXCEPT !.addressAge = 0]
  <1>1. Aged(now)
    BY DEF Aged, Focused
  <1>2. Aged(Entered(QuestionCleared(now), "in_thread")) /\ Aged(Entered(now, "addressed"))
    BY <1>1, EnteredAged, ClearedAged
  <1> HIDE DEF now
  <1>3. PICK v : Aged(v) /\ u \in Boosted(v)
    BY <1>1, <1>2 DEF Called, now
  <1> QED
    BY <1>3, BoostedAged

LEMMA ObservedAged == ASSUME NEW old, Aged(old), NEW m, NEW u \in Observed(old, m) PROVE Aged(u)
  <1> DEFINE t == Decayed(old)
  <1>1. Aged(t)
    BY DecayedAged
  <1>2. Aged([Focused(t, m) EXCEPT !.addressAge = 0])
    BY <1>1 DEF Aged, Focused
  <1> HIDE DEF t
  <1>3. \A v \in Boosted(Entered([Focused(t, m) EXCEPT !.addressAge = 0], "addressed")) : Aged(v)
    BY <1>2, EnteredAged, BoostedAged
  <1>4. \A v \in Called(t, m) : Aged(v)
    BY <1>1, CalledAged
  <1>5. /\ Aged(Warmer(t, 1)) /\ Aged(Warmer(t, 2)) /\ Aged(Warmer(Entered(t, "in_thread"), 6))
        /\ Aged(Warmer(Entered(QuestionCleared(t), "in_thread"), 6))
    BY <1>1, EnteredAged, ClearedAged, WarmerAged
  <1> QED
    BY <1>3, <1>4, <1>5 DEF Observed, t

LEMMA DeliveredAged == ASSUME NEW t, Aged(t), NEW question PROVE Aged(Delivered(t, question))
  <1> DEFINE now == [t EXCEPT !.replyAge = 0, !.recent = 0, !.coldOpen = 0, !.asked = IF question THEN t.focus ELSE Nobody,
                       !.answered = FALSE, !.energy = Spent(t.energy, question)]
  <1>1. Aged(now)
    BY DEF Aged
  <1> HIDE DEF now
  <1>2. Aged(Entered(now, "waiting_user")) /\ Aged(Entered(now, "cooling_down"))
    BY <1>1, EnteredAged
  <1>3. Aged([Entered(now, "waiting_user") EXCEPT !.pending = TRUE, !.armed = TRUE])
    BY <1>2 DEF Aged
  <1> QED
    BY <1>2, <1>3 DEF Delivered, now

-----------------------------------------------------------------------------
(* The delay. *)

\* What the bounds say of a scenario, and what stays true of it.
Configured ==
  /\ {"policy", "waits", "unit", "private", "kinds"} \subseteq DOMAIN left
  /\ Normalized(policy) /\ left.unit \in Nat \ {0} /\ \A wait \in left.waits : wait \in Nat
  /\ \A m \in left.kinds : m.mention \in BOOLEAN /\ m.nick \in 0 .. 4

LEMMA DelayIsNat == ASSUME Configured, NEW rows, NEW t, Aged(t) PROVE DelayOf(policy, rows, t) \in Nat
  <1>1. policy.minWait \in Nat /\ policy.maxWait \in Nat /\ policy.strongWait \in Nat /\ policy.postReply \in Nat /\ t.replyAge \in Nat
    BY DEF Configured, Normalized, Aged
  <1>2. Cooling(policy, t) => More(policy.postReply - t.replyAge, policy.minWait) \in Nat
    BY <1>1 DEF Cooling, More
  <1>3. Less(policy.strongWait, policy.minWait) \in Nat
    BY <1>1 DEF Less
  <1> QED
    BY <1>1, <1>2, <1>3 DEF DelayOf

(* computeFlushDecision: at once, or before the deadline. *)
LEMMA FlushInTime ==
  ASSUME Configured, NEW rows, NEW age \in Nat, NEW t, Aged(t)
  PROVE  InTime(age, FlushDelay(policy, rows, age, t, private))
  <1> DEFINE delay == DelayOf(policy, rows, t)
  <1>1. delay \in Nat /\ policy.maxWait \in Nat
    BY DelayIsNat DEF Configured, Normalized
  <1> HIDE DEF delay
  <1>2. CASE FlushNow(policy, rows, age, private)
    BY <1>2 DEF FlushDelay, InTime
  <1>3. CASE ~FlushNow(policy, rows, age, private)
    <2>1. policy.maxWait = 0 \/ age < policy.maxWait
      BY <1>1, <1>3 DEF FlushNow
    <2>2. FlushDelay(policy, rows, age, t, private) = Capped(policy, age, delay)
      BY <1>3 DEF FlushDelay, delay
    <2> QED
      BY <1>1, <2>1, <2>2 DEF Capped, Less, InTime
  <1> QED
    BY <1>2, <1>3

-----------------------------------------------------------------------------
(* The invariant: ages are numbers, and an armed timer keeps the deadline,  *)
(* unless the model asked for a wait.                                       *)

Promised ==
  \/ InTime(batchAge, timer)
  \/ waitRounds > 0 /\ timer \in Nat /\ \E wait \in left.waits : timer <= wait

TimeInv ==
  /\ Configured /\ Aged(talk)
  /\ batchAge \in Nat /\ waitRounds \in Nat /\ timer \in Nat \cup {Off}
  /\ "age" \in DOMAIN flight /\ flight.age \in Nat
  /\ batch # <<>> => Promised

LEMMA LandedAge == "age" \in DOMAIN Landed /\ Landed.age = 0
  BY DEF Landed

LEMMA QuietAged == Aged(Quiet)
  BY DEF Quiet, Aged

LEMMA InitTime == ASSUME Init PROVE TimeInv
  <1>1. Configured
    BY DEF Init, Configured, policy
  <1>2. Aged(talk) /\ batch = <<>> /\ batchAge = 0 /\ waitRounds = 0 /\ timer = Off
    BY QuietAged DEF Init
  <1>3. "age" \in DOMAIN flight /\ flight.age = 0
    BY LandedAge DEF Init
  <1> QED
    BY <1>1, <1>2, <1>3 DEF TimeInv

(* What happens leaves the configuration alone. *)
LEMMA SpendKeeps ==
  ASSUME Configured, NEW what \in {"ticks", "messages", "looks", "repeats", "clears"}, Spend(what)
  PROVE  Configured' /\ policy' = policy /\ private' = private /\ left'.waits = left.waits
  <1>1. left' = [left EXCEPT ![what] = left[what] - 1]
    BY DEF Spend
  <1>2. /\ DOMAIN left' = DOMAIN left
        /\ left'.policy = left.policy /\ left'.private = left.private /\ left'.waits = left.waits /\ left'.unit = left.unit
        /\ left'.kinds = left.kinds
    BY <1>1 DEF Configured
  <1> QED
    BY <1>2 DEF Configured, policy, private

LEMMA KeepsLeft ==
  ASSUME Configured, UNCHANGED left
  PROVE  Configured' /\ policy' = policy /\ private' = private /\ left'.waits = left.waits
  BY DEF Configured, policy, private

(* Arming the timer for a batch keeps its deadline. *)
LEMMA Armed ==
  ASSUME Configured, Configured', policy' = policy, private' = private,
         NEW rows, NEW t, Aged(t), batchAge' \in Nat, Arm(rows, batchAge', t)
  PROVE  Promised' /\ timer' \in Nat
  BY FlushInTime DEF Arm, Promised, InTime

(* Time takes from the timer what it gives to the batch. *)
LEMMA TickTime == ASSUME TimeInv, Tick PROVE TimeInv'
  <1>1. Configured' /\ policy' = policy /\ left'.waits = left.waits /\ left.unit \in Nat
    BY SpendKeeps DEF TimeInv, Tick, Configured
  <1> DEFINE seconds == IF timer > 0 THEN Less(timer, left.unit) ELSE left.unit
  <1>2. /\ timer' = IF timer > 0 THEN timer - seconds ELSE timer
        /\ batchAge' = IF batch = <<>> THEN 0 ELSE Older(batchAge, seconds)
        /\ flight' = [flight EXCEPT !.age = IF flight.batch = <<>> THEN 0 ELSE Older(flight.age, seconds)]
        /\ UNCHANGED <<batch, waitRounds, heard>>
    BY DEF Tick
  <1>3. seconds \in Nat /\ (timer > 0 => seconds <= timer)
    <2>1. timer \in Int /\ left.unit \in Nat
      BY <1>1 DEF TimeInv, Off
    <2>2. timer > 0 => Less(timer, left.unit) \in Nat /\ Less(timer, left.unit) <= timer
      BY <2>1 DEF Less
    <2> QED
      BY <2>1, <2>2
  <1> HIDE DEF seconds
  <1>4. ASSUME NEW age \in Nat PROVE Older(age, seconds) \in Nat /\ Older(age, seconds) <= age + seconds
    <2>1. Far \in Nat
      OBVIOUS
    <2> QED
      BY <1>3, <2>1 DEF Older, Less
  <1>5. /\ batchAge' \in Nat /\ timer' \in Nat \cup {Off}
        /\ "age" \in DOMAIN flight' /\ flight'.age \in Nat
    <2>1. batchAge' \in Nat
      BY <1>2, <1>4 DEF TimeInv
    <2>2. timer' \in Nat \cup {Off}
      BY <1>2, <1>3 DEF TimeInv, Off
    <2>3. "age" \in DOMAIN flight' /\ flight'.age \in Nat
      BY <1>2, <1>4 DEF TimeInv
    <2> QED
      BY <2>1, <2>2, <2>3
  <1>6. Aged(talk')
    <2>1. "replyAge" \in DOMAIN talk' /\ talk'.replyAge = Older(talk.replyAge, seconds)
      BY DEF Tick, TimeInv, Aged, seconds
    <2> QED
      BY <1>4, <2>1 DEF TimeInv, Aged
  <1>7. ASSUME batch # <<>> PROVE Promised'
    <2>1. batchAge' <= batchAge + seconds /\ batchAge \in Nat /\ Promised
      BY <1>2, <1>4, <1>7 DEF TimeInv
    <2>2. timer' <= timer
      BY <1>2, <1>3 DEF TimeInv, Off
    <2>3. CASE InTime(batchAge, timer)
      <3>1. timer = 0 => timer' = 0
        BY <1>2
      <3>2. timer > 0 => timer' = timer - seconds
        BY <1>2
      <3>3. timer' \in Nat
        BY <1>2, <1>3, <2>3 DEF InTime
      <3>4. policy.maxWait \in Nat
        BY DEF TimeInv, Configured, Normalized
      <3> QED
        BY <1>1, <1>3, <1>5, <2>1, <2>3, <3>1, <3>2, <3>3, <3>4 DEF InTime, Promised
    <2>4. CASE waitRounds > 0 /\ timer \in Nat /\ \E wait \in left.waits : timer <= wait
      <3>1. timer' \in Nat
        BY <1>2, <1>3, <2>4
      <3>2. PICK wait \in left.waits : timer <= wait /\ wait \in Nat
        BY <2>4 DEF TimeInv, Configured
      <3>3. timer' <= wait
        BY <2>2, <2>4, <3>1, <3>2
      <3> QED
        BY <1>1, <1>2, <2>4, <3>1, <3>2, <3>3 DEF Promised
    <2> QED
      BY <2>1, <2>3, <2>4 DEF Promised
  <1> QED
    BY <1>1, <1>2, <1>5, <1>6, <1>7 DEF TimeInv

-----------------------------------------------------------------------------
(* The other steps. *)

LEMMA EnqueueTime == ASSUME TimeInv, NEW m, Enqueue(m) PROVE TimeInv'
  <1>1. Configured' /\ policy' = policy /\ private' = private
    BY SpendKeeps DEF TimeInv, Enqueue
  <1>2. Aged(talk')
    <2>1. PICK t \in Observed(ColdOpened(talk), m) : talk' = Noted(t, m)
      BY DEF Enqueue
    <2>2. Aged(t)
      BY ColdOpenedAged, ObservedAged DEF TimeInv
    <2> QED
      BY <2>1, <2>2 DEF Noted, Aged
  <1>3. batchAge' = batchAge /\ UNCHANGED <<flight, waitRounds>> /\ Arm(batch', batchAge', talk')
    BY DEF Enqueue
  <1>4. Promised' /\ timer' \in Nat
    BY <1>1, <1>2, <1>3, Armed DEF TimeInv
  <1> QED
    BY <1>1, <1>2, <1>3, <1>4 DEF TimeInv

(* The timer, the batch and the flight are left alone. *)
LEMMA TalkTime ==
  ASSUME TimeInv, Aged(talk'), Configured', policy' = policy, left'.waits = left.waits,
         UNCHANGED <<batch, batchAge, timer, waitRounds>>, "age" \in DOMAIN flight', flight'.age \in Nat
  PROVE  TimeInv'
  BY DEF TimeInv, Promised, InTime

LEMMA LookTime == ASSUME TimeInv, Look PROVE TimeInv'
  BY SpendKeeps, DecayedAged, TalkTime DEF Look, queue, TimeInv

LEMMA RepeatTime == ASSUME TimeInv, NEW question, RepeatDelivered(question) PROVE TimeInv'
  BY SpendKeeps, DeliveredAged, TalkTime DEF RepeatDelivered, queue, TimeInv

LEMMA ClearTime == ASSUME TimeInv, Clear PROVE TimeInv'
  BY SpendKeeps, QuietAged DEF Clear, TimeInv, Off

LEMMA FlushBusyTime == ASSUME TimeInv, FlushBusy PROVE TimeInv'
  <1>1. Configured' /\ policy' = policy /\ private' = private
    BY KeepsLeft DEF TimeInv, FlushBusy
  <1>2. /\ UNCHANGED <<talk, batchAge, waitRounds, flight>>
        /\ Arm(batch, batchAge', talk)
    BY DEF FlushBusy
  <1>3. Promised' /\ timer' \in Nat
    BY <1>1, <1>2, Armed DEF TimeInv
  <1> QED
    BY <1>1, <1>2, <1>3 DEF TimeInv

LEMMA TakeTime == ASSUME TimeInv, TakeBatch PROVE TimeInv'
  <1>1. Configured'
    BY KeepsLeft DEF TimeInv, TakeBatch
  <1>2. "age" \in DOMAIN flight' /\ flight'.age = batchAge
    BY LandedAge DEF TakeBatch
  <1> QED
    BY <1>1, <1>2 DEF TimeInv, TakeBatch

LEMMA EvaluateTime == ASSUME TimeInv, Evaluate PROVE TimeInv'
  <1>1. Aged(talk')
    <2> DEFINE t == Decayed(talk)
    <2>1. Aged(t)
      BY DecayedAged DEF TimeInv
    <2> HIDE DEF t
    <2>2. PICK u, allow : Aged(u) /\ talk' = [u EXCEPT !.gate = allow]
      <3>1. \A points : Aged(Warmer(t, points))
        BY <2>1, WarmerAged
      <3> QED
        BY <2>1, <3>1, Zenon DEF Evaluate, t
    <2> QED
      BY <2>2 DEF Aged
  <1>2. "age" \in DOMAIN flight' /\ flight'.age = flight.age
    BY DEF Evaluate, TimeInv
  <1> QED
    BY <1>1, <1>2, KeepsLeft, TalkTime DEF Evaluate, queue, TimeInv

LEMMA DecideTime == ASSUME TimeInv, Decide PROVE TimeInv'
  <1>1. "age" \in DOMAIN flight' /\ flight'.age = flight.age
    BY DEF Decide, TimeInv
  <1> QED
    BY <1>1, KeepsLeft, TalkTime DEF Decide, queue, TimeInv

LEMMA ReplyTime == ASSUME TimeInv, Reply PROVE TimeInv'
  <1>1. "age" \in DOMAIN flight' /\ flight'.age = flight.age
    BY DEF Reply, TimeInv
  <1>2. Aged(talk')
    BY DeliveredAged DEF Reply, TimeInv
  <1> QED
    BY <1>1, <1>2, KeepsLeft, TalkTime DEF Reply, queue, TimeInv

(* The wait is the longer of the local delay and what the model asked for.  *)
LEMMA WaitTime == ASSUME TimeInv, NEW seconds \in left.waits, Wait(seconds) PROVE TimeInv'
  <1>1. Configured' /\ policy' = policy /\ private' = private /\ left'.waits = left.waits
    BY KeepsLeft DEF TimeInv, Wait
  <1> DEFINE delay == FlushDelay(policy, batch', batchAge', talk, private)
  <1>2. batchAge' = flight.age /\ timer' = Merged(delay, seconds) /\ waitRounds' = waitRounds + 1 /\ talk' = talk /\ flight' = Landed
    BY DEF Wait
  <1>3. InTime(batchAge', delay) /\ seconds \in Nat
    BY <1>2, FlushInTime DEF TimeInv, Configured
  <1> HIDE DEF delay
  <1>4. timer' \in Nat /\ (timer' = delay \/ timer' <= seconds)
    BY <1>2, <1>3 DEF Merged, More, InTime
  <1>5. waitRounds' \in Nat /\ waitRounds' > 0
    BY <1>2 DEF TimeInv
  <1>6. Promised'
    BY <1>1, <1>3, <1>4, <1>5 DEF Promised, InTime
  <1> QED
    BY <1>1, <1>2, <1>4, <1>5, <1>6, LandedAge DEF TimeInv

LEMMA RearmedTime ==
  ASSUME TimeInv, UNCHANGED <<batch, batchAge, left>>, Aged(talk'), Rearmed, flight' = Landed, waitRounds' \in Nat
  PROVE  TimeInv'
  <1>1. Configured' /\ policy' = policy /\ private' = private
    BY KeepsLeft DEF TimeInv
  <1>2. CASE batch = <<>>
    BY <1>1, <1>2, LandedAge DEF TimeInv, Rearmed
  <1>3. CASE batch # <<>>
    <2>1. Promised' /\ timer' \in Nat
      BY <1>1, <1>3, Armed DEF Rearmed, TimeInv
    <2> QED
      BY <1>1, <2>1, LandedAge DEF TimeInv
  <1> QED
    BY <1>2, <1>3

LEMMA FinalizeTime == ASSUME TimeInv, Finalize PROVE TimeInv'
  BY RearmedTime DEF Finalize, TimeInv

LEMMA FollowupFiresTime == ASSUME TimeInv, FollowupFires PROVE TimeInv'
  <1> DEFINE t == [talk EXCEPT !.armed = FALSE]
  <1>1. Aged(t) /\ Aged(QuestionCleared(t))
    BY ClearedAged DEF TimeInv, Aged
  <1>2. talk' \in {t, QuestionCleared(t)}
    BY DEF FollowupFires
  <1>3. "age" \in DOMAIN flight' /\ flight'.age \in Nat
    <2>1. flight' = flight \/ flight' = [Landed EXCEPT !.step = "following up"]
      BY Zenon DEF FollowupFires
    <2>2. CASE flight' = [Landed EXCEPT !.step = "following up"]
      BY <2>2 DEF Landed
    <2> QED
      BY <2>1, <2>2 DEF TimeInv
  <1> HIDE DEF t
  <1> QED
    BY <1>1, <1>2, <1>3, KeepsLeft, TalkTime DEF FollowupFires, queue, TimeInv

LEMMA FollowUpTime == ASSUME TimeInv, FollowUp PROVE TimeInv'
  <1>1. PICK t : Aged(t) /\ talk' = [t EXCEPT !.armed = FALSE]
    BY DeliveredAged, Zenon DEF FollowUp, TimeInv
  <1>2. Aged(talk')
    BY <1>1 DEF Aged
  <1> QED
    BY <1>2, RearmedTime DEF FollowUp, TimeInv

LEMMA StutterTime == ASSUME TimeInv, UNCHANGED vars PROVE TimeInv'
  BY KeepsLeft, TalkTime DEF vars, queue, TimeInv

LEMMA TimeHolds == Spec => []TimeInv
  <1>1. Init => TimeInv
    BY InitTime
  <1>2. TimeInv /\ [Next]_vars => TimeInv'
    BY TickTime, EnqueueTime, LookTime, RepeatTime, ClearTime, FlushBusyTime, TakeTime, EvaluateTime, DecideTime,
       ReplyTime, WaitTime, FinalizeTime, FollowupFiresTime, FollowUpTime, StutterTime DEF Next
  <1> QED
    BY <1>1, <1>2, PTL DEF Spec

(* DeadlineKept (computeFlushDecision, mergeWaitDecision and the four       *)
(* places that start the timer): for every normalized configuration, every  *)
(* batch and every course of a conversation.                                *)
THEOREM DeadlinesAreKept == Spec => []DeadlineKept
  <1>1. TimeInv => DeadlineKept
    BY DEF TimeInv, Promised, InTime, DeadlineKept, Off
  <1> QED
    BY <1>1, TimeHolds, PTL

-----------------------------------------------------------------------------
(* The open question.  While the bot waits for an answer, the one it asked  *)
(* is the one in focus, and has not spoken since.                           *)

TalkFields == {"mode", "pending", "focus", "asked", "answered"}

OpenQuestion(t) == Waits(t) => t.asked = t.focus /\ (t.asked = Nobody \/ ~t.answered)

\* u comes from t without a new question and without a new one to wait for.
Calmer(t, u) ==
  /\ TalkFields \subseteq DOMAIN u
  /\ u.asked = t.asked /\ u.answered = t.answered
  /\ Waits(u) => Waits(t) /\ u.focus = t.focus

LEMMA CalmerOpen == ASSUME NEW t, NEW u, OpenQuestion(t), Calmer(t, u) PROVE OpenQuestion(u)
  BY DEF OpenQuestion, Calmer

LEMMA CalmerTwice == ASSUME NEW t, NEW u, NEW v, Calmer(t, u), Calmer(u, v) PROVE Calmer(t, v)
  BY DEF Calmer

LEMMA SameIsCalm == ASSUME NEW t, TalkFields \subseteq DOMAIN t PROVE Calmer(t, t)
  BY DEF Calmer

LEMMA ClearedIsCalm == ASSUME NEW t, TalkFields \subseteq DOMAIN t PROVE Calmer(t, QuestionCleared(t))
  BY DEF Calmer, TalkFields, QuestionCleared, Waits

(* Every mode but waiting_user is calm, whoever is in focus. *)
LEMMA EnteredIsCalm ==
  ASSUME NEW t, TalkFields \subseteq DOMAIN t, NEW mode, mode # "waiting_user"
  PROVE  Calmer(t, Entered(t, mode)) /\ Entered(t, mode).mode = mode
  <1>1. TalkFields \subseteq DOMAIN QuestionCleared(t)
        /\ QuestionCleared(t).asked = t.asked /\ QuestionCleared(t).answered = t.answered
    BY DEF QuestionCleared, TalkFields
  <1>2. CASE mode = "idle"
    BY <1>1, <1>2 DEF Calmer, Entered, TalkFields, Waits
  <1>3. CASE mode = "cooling_down"
    BY <1>1, <1>3 DEF Calmer, Entered, TalkFields, Waits
  <1>4. CASE mode \notin {"idle", "cooling_down", "waiting_user"}
    BY <1>4 DEF Calmer, Entered, TalkFields, Waits
  <1> QED
    BY <1>2, <1>3, <1>4

LEMMA WarmerIsCalm ==
  ASSUME NEW t, TalkFields \subseteq DOMAIN t, NEW points
  PROVE  Calmer(t, Warmer(t, points)) /\ Warmer(t, points).mode = t.mode
  BY DEF Calmer, Warmer, TalkFields, Waits

LEMMA BoostedIsCalm ==
  ASSUME NEW t, TalkFields \subseteq DOMAIN t, NEW u \in Boosted(t)
  PROVE  Calmer(t, u) /\ u.mode = t.mode
  <1>1. Calmer(t, Warmer(t, 10)) /\ Warmer(t, 10).mode = t.mode
    BY WarmerIsCalm
  <1>2. Calmer(t, Warmer(Warmer(t, 10), 10)) /\ Warmer(Warmer(t, 10), 10).mode = t.mode
    BY <1>1, WarmerIsCalm, CalmerTwice DEF Calmer
  <1> QED
    BY <1>1, <1>2 DEF Boosted

LEMMA DecayedIsCalm == ASSUME NEW t, TalkFields \subseteq DOMAIN t PROVE Calmer(t, Decayed(t))
  <1>1. Calmer(t, QuestionOver(t))
    BY EnteredIsCalm, ClearedIsCalm, SameIsCalm DEF QuestionOver
  <1>2. Calmer(t, Entered(QuestionOver(t), "idle"))
    BY <1>1, EnteredIsCalm, CalmerTwice DEF Calmer
  <1> QED
    BY <1>1, <1>2 DEF Decayed

LEMMA ColdOpenedIsCalm == ASSUME NEW t, TalkFields \subseteq DOMAIN t PROVE Calmer(t, ColdOpened(t))
  BY DEF Calmer, ColdOpened, TalkFields, Waits

(* A new focus, at a call: the fields but for the focus. *)
LEMMA FocusedKeeps ==
  ASSUME NEW t, TalkFields \subseteq DOMAIN t, NEW m
  PROVE  LET now == [Focused(t, m) EXCEPT !.addressAge = 0]
         IN /\ TalkFields \subseteq DOMAIN now /\ now.asked = t.asked /\ now.answered = t.answered
            /\ now.mode = t.mode /\ now.pending = t.pending
  BY DEF Focused, TalkFields

(* Whoever calls the bot ends the waiting. *)
LEMMA CalledEndsWaiting ==
  ASSUME NEW t, TalkFields \subseteq DOMAIN t, NEW m, NEW u \in Called(t, m)
  PROVE  Calmer(t, u) /\ ~Waits(u)
  <1> DEFINE now == [Focused(t, m) EXCEPT !.addressAge = 0]
  <1>1. /\ TalkFields \subseteq DOMAIN now /\ now.asked = t.asked /\ now.answered = t.answered
        /\ now.mode = t.mode
    BY FocusedKeeps
  <1> HIDE DEF now
  <1>2. Calmer(now, Entered(now, "addressed")) /\ Entered(now, "addressed").mode = "addressed"
    BY <1>1, EnteredIsCalm
  <1>3. Calmer(now, Entered(QuestionCleared(now), "in_thread")) /\ Entered(QuestionCleared(now), "in_thread").mode = "in_thread"
    BY <1>1, EnteredIsCalm, ClearedIsCalm, CalmerTwice DEF Calmer
  <1>4. PICK v : Calmer(now, v) /\ v.mode \in {"addressed", "in_thread"} /\ u \in Boosted(v)
    <2>1. CASE ~t.pending /\ SameSpeaker(m.by, t.focus) /\ t.mode = "in_thread"
      BY <1>1, <2>1, SameIsCalm DEF Called, now
    <2>2. CASE t.pending /\ SameSpeaker(m.by, t.focus)
      BY <1>3, <2>2 DEF Called, now
    <2>3. CASE ~(t.pending /\ SameSpeaker(m.by, t.focus)) /\ ~(~t.pending /\ SameSpeaker(m.by, t.focus) /\ t.mode = "in_thread")
      BY <1>2, <2>3 DEF Called, now
    <2> QED
      BY <2>1, <2>2, <2>3
  <1>5. Calmer(v, u) /\ u.mode = v.mode
    BY <1>4, BoostedIsCalm DEF Calmer
  <1>6. ~Waits(u)
    BY <1>4, <1>5 DEF Waits
  <1> QED
    BY <1>1, <1>4, <1>5, <1>6 DEF Calmer

(* A message that is not a passing mention, by the one who was asked, ends  *)
(* the waiting (observeIncomingMessageLocked).                              *)
LEMMA ObservedIsCalm ==
  ASSUME NEW old, TalkFields \subseteq DOMAIN old, OpenQuestion(old), NEW m, m.mention \in BOOLEAN, m.nick \in 0 .. 4,
         NEW u \in Observed(old, m)
  PROVE  /\ Calmer(old, u)
         /\ SameSpeaker(m.by, old.asked) /\ ~WeakAddress(m) => ~Waits(u)
  <1> DEFINE t   == Decayed(old)
             now == [Focused(t, m) EXCEPT !.addressAge = 0]
  <1>1. Calmer(old, t) /\ TalkFields \subseteq DOMAIN t /\ OpenQuestion(t) /\ t.asked = old.asked
    BY DecayedIsCalm, CalmerOpen DEF Calmer
  <1>2. TalkFields \subseteq DOMAIN now /\ now.asked = t.asked /\ now.answered = t.answered
    BY <1>1, FocusedKeeps
  <1>3. StrongCall(m) => Addressed(m) /\ ~WeakAddress(m)
    BY DEF StrongCall, Addressed, WeakAddress, NickStart
  <1>4. ~Addressed(m) => ~WeakAddress(m)
    BY DEF WeakAddress
  <1> HIDE DEF t, now
  <1>5. CASE private
    <2>1. u \in Boosted(Entered(now, "addressed"))
      BY <1>5 DEF Observed, t, now
    <2>2. Calmer(now, Entered(now, "addressed")) /\ Entered(now, "addressed").mode = "addressed"
      BY <1>2, EnteredIsCalm
    <2>3. Calmer(Entered(now, "addressed"), u) /\ u.mode = "addressed"
      BY <2>1, <2>2, BoostedIsCalm DEF Calmer
    <2>4. ~Waits(u)
      BY <2>3 DEF Waits
    <2> QED
      BY <1>1, <1>2, <2>2, <2>3, <2>4 DEF Calmer
  <1>6. CASE ~private /\ StrongCall(m)
    <2>1. u \in Called(t, m)
      BY <1>3, <1>6 DEF Observed, t
    <2> QED
      BY <1>1, <2>1, CalledEndsWaiting, CalmerTwice
  <1>7. CASE ~private /\ WeakAddress(m)
    <2>1. u = Warmer(t, 2)
      BY <1>3, <1>4, <1>7 DEF Observed, t
    <2> QED
      BY <1>1, <1>7, <2>1, WarmerIsCalm, CalmerTwice
  <1>8. Calmer(t, Entered(t, "in_thread")) /\ Entered(t, "in_thread").mode = "in_thread"
    BY <1>1, EnteredIsCalm
  <1>9. /\ Calmer(t, Entered(QuestionCleared(t), "in_thread"))
        /\ Entered(QuestionCleared(t), "in_thread").mode = "in_thread"
    BY <1>1, EnteredIsCalm, ClearedIsCalm, CalmerTwice DEF Calmer
  <1>10. ASSUME NEW v, Calmer(t, v), v.mode = "in_thread", u = Warmer(v, 6) PROVE Calmer(old, u) /\ ~Waits(u)
    <2>1. Calmer(v, u) /\ u.mode = "in_thread"
      BY <1>10, WarmerIsCalm DEF Calmer
    <2> QED
      BY <1>1, <1>10, <2>1, CalmerTwice DEF Waits
  <1>11. u = Warmer(t, 1) => Calmer(old, u) /\ u.mode = t.mode
    BY <1>1, WarmerIsCalm, CalmerTwice
  <1>12. CASE ~private /\ ~StrongCall(m) /\ ~Addressed(m) /\ t.mode = "waiting_user"
    <2>1. u = IF SameSpeaker(m.by, t.focus) THEN Warmer(Entered(QuestionCleared(t), "in_thread"), 6) ELSE Warmer(t, 1)
      BY <1>4, <1>12 DEF Observed, t
    <2>2. CASE SameSpeaker(m.by, t.focus)
      BY <1>9, <1>10, <2>1, <2>2
    <2>3. CASE ~SameSpeaker(m.by, t.focus)
      <3>1. Calmer(old, u) /\ Calmer(t, u)
        BY <1>1, <1>11, <2>1, <2>3, WarmerIsCalm
      <3>2. ASSUME SameSpeaker(m.by, old.asked) PROVE ~Waits(u)
        BY <1>1, <2>3, <3>1, <3>2 DEF Calmer, OpenQuestion
      <3> QED
        BY <3>1, <3>2
    <2> QED
      BY <2>2, <2>3
  <1>13. CASE ~private /\ ~StrongCall(m) /\ ~Addressed(m) /\ t.mode # "waiting_user"
    <2>1. u = IF Continues(t, m) THEN Warmer(Entered(t, "in_thread"), 6) ELSE Warmer(t, 1)
      BY <1>4, <1>13 DEF Observed, t
    <2>2. CASE Continues(t, m)
      BY <1>8, <1>10, <2>1, <2>2
    <2>3. CASE ~Continues(t, m)
      BY <1>11, <1>13, <2>1, <2>3 DEF Waits
    <2> QED
      BY <2>2, <2>3
  <1> QED
    BY <1>5, <1>6, <1>7, <1>12, <1>13 DEF WeakAddress

(* A question that was just put is open, any other reply ends the waiting.  *)
LEMMA DeliveredIsOpen ==
  ASSUME NEW t, TalkFields \subseteq DOMAIN t, NEW question \in BOOLEAN
  PROVE  TalkFields \subseteq DOMAIN Delivered(t, question) /\ OpenQuestion(Delivered(t, question))
  <1> DEFINE now == [t EXCEPT !.replyAge = 0, !.recent = 0, !.coldOpen = 0, !.asked = IF question THEN t.focus ELSE Nobody,
                       !.answered = FALSE, !.energy = Spent(t.energy, question)]
  <1>1. /\ TalkFields \subseteq DOMAIN now /\ now.answered = FALSE /\ now.focus = t.focus
        /\ now.asked = IF question THEN t.focus ELSE Nobody
    BY DEF TalkFields
  <1> HIDE DEF now
  <1>2. CASE question
    <2>1. Delivered(t, question) = [Entered(now, "waiting_user") EXCEPT !.pending = TRUE, !.armed = TRUE]
      BY <1>2 DEF Delivered, now
    <2>2. Entered(now, "waiting_user") = [now EXCEPT !.mode = "waiting_user", !.gate = FALSE]
      BY DEF Entered
    <2>3. /\ TalkFields \subseteq DOMAIN Delivered(t, question)
          /\ Delivered(t, question).asked = t.focus /\ Delivered(t, question).focus = t.focus
          /\ Delivered(t, question).answered = FALSE
      BY <1>1, <1>2, <2>1, <2>2 DEF TalkFields
    <2> QED
      BY <2>3 DEF OpenQuestion
  <1>3. CASE ~question
    <2>1. Calmer(now, Entered(now, "cooling_down")) /\ Entered(now, "cooling_down").mode = "cooling_down"
      BY <1>1, EnteredIsCalm
    <2>2. Delivered(t, question) = Entered(now, "cooling_down")
      BY <1>3 DEF Delivered, now
    <2> QED
      BY <2>1, <2>2 DEF Calmer, OpenQuestion, Waits
  <1> QED
    BY <1>2, <1>3

-----------------------------------------------------------------------------
(* The invariant of the question, step by step. *)

QuestionInv ==
  /\ Configured /\ TalkFields \subseteq DOMAIN talk /\ OpenQuestion(talk)
  /\ "step" \in DOMAIN flight

LEMMA QuietQuestion == TalkFields \subseteq DOMAIN Quiet /\ OpenQuestion(Quiet)
  BY DEF Quiet, TalkFields, OpenQuestion, Waits

LEMMA InitQuestion == ASSUME Init PROVE QuestionInv
  <1>1. Configured
    BY InitTime DEF TimeInv
  <1> QED
    BY <1>1, QuietQuestion DEF Init, QuestionInv, Landed

LEMMA LeftQuestion == ASSUME QuestionInv, [Next]_vars PROVE Configured'
  BY SpendKeeps, KeepsLeft DEF QuestionInv, Next, Tick, Look, Clear, Enqueue, RepeatDelivered, FlushBusy, TakeBatch,
     Evaluate, Decide, Reply, Finalize, Wait, FollowupFires, FollowUp, vars

(* What the conversation becomes. *)
LEMMA EnqueueQuestion ==
  ASSUME QuestionInv, NEW m \in left.kinds, Enqueue(m)
  PROVE  TalkFields \subseteq DOMAIN talk' /\ OpenQuestion(talk)'
  <1> DEFINE old == ColdOpened(talk)
  <1>1. Calmer(talk, old) /\ TalkFields \subseteq DOMAIN old /\ OpenQuestion(old)
    BY ColdOpenedIsCalm, CalmerOpen DEF QuestionInv, Calmer
  <1>2. PICK t \in Observed(old, m) : talk' = Noted(t, m)
    BY DEF Enqueue
  <1> HIDE DEF old
  <1>3. /\ Calmer(old, t) /\ OpenQuestion(t)
        /\ SameSpeaker(m.by, old.asked) /\ ~WeakAddress(m) => ~Waits(t)
    BY <1>1, ObservedIsCalm, CalmerOpen DEF QuestionInv, Configured
  <1>4. /\ TalkFields \subseteq DOMAIN talk'
        /\ talk'.mode = t.mode /\ talk'.pending = t.pending /\ talk'.focus = t.focus /\ talk'.asked = t.asked
        /\ talk'.answered = (t.answered \/ (SameSpeaker(m.by, t.asked) /\ ~WeakAddress(m)))
    BY <1>2, <1>3 DEF Noted, Calmer, TalkFields
  <1>5. ASSUME Waits(talk)' PROVE talk'.asked = talk'.focus /\ (talk'.asked = Nobody \/ ~talk'.answered)
    <2>1. Waits(t)
      BY <1>4, <1>5 DEF Waits
    <2>2. ~(SameSpeaker(m.by, t.asked) /\ ~WeakAddress(m))
      BY <1>3, <2>1 DEF Calmer
    <2> QED
      BY <1>3, <1>4, <2>1, <2>2, Zenon DEF OpenQuestion
  <1> QED
    BY <1>4, <1>5 DEF OpenQuestion

LEMMA EvaluateQuestion ==
  ASSUME QuestionInv, Evaluate
  PROVE  TalkFields \subseteq DOMAIN talk' /\ OpenQuestion(talk)'
  <1> DEFINE t == Decayed(talk)
  <1>1. Calmer(talk, t) /\ TalkFields \subseteq DOMAIN t
    BY DecayedIsCalm DEF QuestionInv, Calmer
  <1> HIDE DEF t
  <1>2. \A points : Calmer(talk, Warmer(t, points))
    BY <1>1, WarmerIsCalm, CalmerTwice
  <1>3. PICK u, allow : Calmer(talk, u) /\ talk' = [u EXCEPT !.gate = allow]
    BY <1>1, <1>2, Zenon DEF Evaluate, t
  <1>4. OpenQuestion(u) /\ TalkFields \subseteq DOMAIN u
    BY <1>3, CalmerOpen DEF QuestionInv, Calmer
  <1> QED
    BY <1>3, <1>4 DEF OpenQuestion, Waits, TalkFields

\* Stopping the timer, or forgetting it.
LEMMA UnarmedQuestion ==
  ASSUME NEW t, TalkFields \subseteq DOMAIN t, OpenQuestion(t)
  PROVE  LET u == [t EXCEPT !.armed = FALSE]
         IN /\ TalkFields \subseteq DOMAIN u /\ OpenQuestion(u)
            /\ u.mode = t.mode /\ u.pending = t.pending
  BY DEF OpenQuestion, Waits, TalkFields

LEMMA FollowupQuestion ==
  ASSUME QuestionInv, FollowupFires \/ FollowUp
  PROVE  TalkFields \subseteq DOMAIN talk' /\ OpenQuestion(talk)'
  <1> DEFINE t == [talk EXCEPT !.armed = FALSE]
  <1>1. TalkFields \subseteq DOMAIN t /\ OpenQuestion(t)
    BY UnarmedQuestion DEF QuestionInv
  <1> HIDE DEF t
  <1>2. CASE FollowupFires
    <2>1. talk' = t \/ talk' = QuestionCleared(t)
      BY <1>2, Zenon DEF FollowupFires, t
    <2> QED
      BY <1>1, <2>1, ClearedIsCalm, CalmerOpen DEF Calmer
  <1>3. CASE FollowUp
    <2>1. \/ \E question \in BOOLEAN : talk' = [Delivered(talk, question) EXCEPT !.armed = FALSE]
          \/ talk' = t
      BY <1>3, Zenon DEF FollowUp, t
    <2>2. \A question \in BOOLEAN : LET u == [Delivered(talk, question) EXCEPT !.armed = FALSE]
                                     IN TalkFields \subseteq DOMAIN u /\ OpenQuestion(u)
      BY DeliveredIsOpen, UnarmedQuestion DEF QuestionInv
    <2> QED
      BY <1>1, <2>1, <2>2
  <1> QED
    BY <1>2, <1>3

LEMMA TickQuestion ==
  ASSUME QuestionInv, Tick
  PROVE  TalkFields \subseteq DOMAIN talk' /\ OpenQuestion(talk)'
  <1>1. /\ TalkFields \subseteq DOMAIN talk'
        /\ talk'.mode = talk.mode /\ talk'.pending = talk.pending /\ talk'.focus = talk.focus
        /\ talk'.asked = talk.asked /\ talk'.answered = talk.answered
    BY DEF Tick, QuestionInv, TalkFields
  <1> QED
    BY <1>1 DEF QuestionInv, OpenQuestion, Waits

LEMMA QuestionStep == ASSUME QuestionInv, [Next]_vars PROVE TalkFields \subseteq DOMAIN talk' /\ OpenQuestion(talk)'
  <1>1. CASE UNCHANGED talk
    BY <1>1 DEF QuestionInv, OpenQuestion, Waits
  <1>2. CASE Look
    BY <1>2, DecayedIsCalm, CalmerOpen DEF Look, QuestionInv, Calmer
  <1>3. CASE Clear
    BY <1>3, QuietQuestion DEF Clear
  <1>4. CASE \E question \in BOOLEAN : RepeatDelivered(question)
    BY <1>4, DeliveredIsOpen DEF RepeatDelivered, QuestionInv
  <1>5. CASE Reply
    BY <1>1, <1>5, DeliveredIsOpen DEF Reply, QuestionInv
  <1>6. CASE FlushBusy \/ TakeBatch \/ Decide \/ Finalize \/ (\E seconds \in left.waits : Wait(seconds)) \/ UNCHANGED vars
    BY <1>1, <1>6 DEF FlushBusy, TakeBatch, Decide, Finalize, Wait, vars
  <1> QED
    BY <1>2, <1>3, <1>4, <1>5, <1>6, TickQuestion, EnqueueQuestion, EvaluateQuestion, FollowupQuestion DEF Next

(* A follow-up starts in one place, and the flight always has a step. *)
LEMMA FlightStep ==
  ASSUME QuestionInv, [Next]_vars
  PROVE  /\ "step" \in DOMAIN flight'
         /\ flight.step = "none" /\ flight'.step = "following up" => FollowupFires /\ Waits([talk EXCEPT !.armed = FALSE])
  <1>1. CASE FollowupFires
    <2>1. \/ flight' = flight
          \/ flight' = [Landed EXCEPT !.step = "following up"] /\ Waits([talk EXCEPT !.armed = FALSE])
      BY <1>1, Zenon DEF FollowupFires
    <2>2. CASE flight' = flight
      BY <2>2 DEF QuestionInv
    <2>3. flight' = [Landed EXCEPT !.step = "following up"] => "step" \in DOMAIN flight'
      BY DEF Landed
    <2> QED
      BY <1>1, <2>1, <2>2, <2>3
  <1>2. CASE Tick
    <2>1. "step" \in DOMAIN flight' /\ flight'.step = flight.step
      BY <1>2 DEF Tick, QuestionInv
    <2> QED
      BY <2>1
  <1>3. CASE UNCHANGED flight
    BY <1>3 DEF QuestionInv
  <1>4. CASE TakeBatch
    <2>1. "step" \in DOMAIN flight' /\ flight'.step = "taken"
      BY <1>4 DEF TakeBatch, Landed
    <2> QED
      BY <2>1
  <1>5. CASE Evaluate \/ Decide \/ Reply
    BY <1>5 DEF Evaluate, Decide, Reply, QuestionInv
  <1>6. CASE Finalize \/ FollowUp \/ \E seconds \in left.waits : Wait(seconds)
    <2>1. flight' = Landed
      BY <1>6 DEF Finalize, FollowUp, Wait
    <2> QED
      BY <2>1 DEF Landed
  <1> QED
    BY <1>1, <1>2, <1>3, <1>4, <1>5, <1>6 DEF Next, Look, Clear, Enqueue, RepeatDelivered, FlushBusy, queue, vars

(* FollowupUnanswered (tryFollowup, observeIncomingMessageLocked): the bot  *)
(* asks again only someone who has not answered, whoever else calls it.     *)
THEOREM OnlyTheSilentAreAsked == Spec => FollowupUnanswered
  <1>1. Init => QuestionInv
    BY InitQuestion
  <1>2. QuestionInv /\ [Next]_vars => QuestionInv'
    BY LeftQuestion, QuestionStep, FlightStep DEF QuestionInv
  <1>3. ASSUME QuestionInv, [Next]_vars
        PROVE  [flight.step = "none" /\ flight'.step = "following up" => talk.asked = Nobody \/ ~talk.answered]_vars
    <2>1. SUFFICES ASSUME flight.step = "none", flight'.step = "following up" PROVE talk.asked = Nobody \/ ~talk.answered
      OBVIOUS
    <2>2. Waits([talk EXCEPT !.armed = FALSE])
      BY <1>3, <2>1, FlightStep
    <2>3. Waits(talk)
      BY <2>2, UnarmedQuestion DEF QuestionInv, Waits, TalkFields
    <2> QED
      BY <1>3, <2>3 DEF QuestionInv, OpenQuestion
  <1> QED
    BY <1>1, <1>2, <1>3, PTL DEF Spec, FollowupUnanswered
-----------------------------------------------------------------------------
(* Types, and what a mode says of the rest of the conversation.             *)

Fields == {"mode", "focus", "energy", "gate", "replyAge", "addressAge", "pending", "armed"}

Ages   == 0 .. Far
Shaped(t) ==
  /\ Fields \subseteq DOMAIN t
  /\ t.mode \in Modes /\ t.energy \in 0 .. Points(100)
  /\ t.replyAge \in Ages /\ t.addressAge \in Ages
  /\ t.armed => t.pending

Sound(t) == Shaped(t) /\ (t.mode = "idle" => t.focus = Nobody /\ ~t.pending)

(* The bot is being talked to. *)
Conversing == {"addressed", "in_thread"}

(* A conversation since a message after which the mode was heard: the modes  *)
(* of being talked to come from messages only, and so does the energy above *)
(* the target of an idle session.                                            *)
Fits(t, mode) ==
  /\ t.mode \in Conversing => mode = t.mode
  /\ mode \notin Conversing => t.energy <= Target("idle")

LEMMA Targets ==
  /\ \A mode \in Modes : Target(mode) \in 0 .. Points(100)
  /\ \A mode \in Modes \ Conversing : Target(mode) <= Target("idle")
  /\ Points(100) = 500 /\ Target("idle") = 225
  BY DEF Target, Points, Modes, Conversing

LEMMA ClearedSound ==
  ASSUME NEW t, Shaped(t)
  PROVE  LET u == QuestionCleared(t)
         IN /\ Shaped(u) /\ (Sound(t) => Sound(u))
            /\ u.mode = t.mode /\ u.energy = t.energy /\ u.focus = t.focus /\ ~u.pending
  BY DEF Shaped, Sound, Fields, QuestionCleared

LEMMA EnteredSound ==
  ASSUME NEW t, Shaped(t), NEW mode \in Modes
  PROVE  Sound(Entered(t, mode)) /\ Entered(t, mode).mode = mode /\ Entered(t, mode).energy = t.energy
  <1> DEFINE u == QuestionCleared(t)
  <1>1. Shaped(u) /\ u.energy = t.energy /\ ~u.pending
    BY ClearedSound
  <1> HIDE DEF u
  <1>2. CASE mode = "idle"
    <2>1. Entered(t, mode) = [u EXCEPT !.mode = mode, !.focus = Nobody, !.gate = FALSE]
      BY <1>2 DEF Entered, u
    <2> QED
      BY <1>1, <1>2, <2>1 DEF Shaped, Sound, Fields, Modes
  <1>3. CASE mode = "cooling_down"
    <2>1. Entered(t, mode) = [u EXCEPT !.mode = mode, !.gate = FALSE]
      BY <1>3 DEF Entered, u
    <2> QED
      BY <1>1, <1>3, <2>1 DEF Shaped, Sound, Fields, Modes
  <1>4. CASE mode = "waiting_user"
    <2>1. Entered(t, mode) = [t EXCEPT !.mode = mode, !.gate = FALSE]
      BY <1>4 DEF Entered
    <2> QED
      BY <1>4, <2>1 DEF Shaped, Sound, Fields, Modes
  <1>5. CASE mode \in Conversing
    <2>1. Entered(t, mode) = [t EXCEPT !.mode = mode]
      BY <1>5 DEF Entered, Conversing
    <2> QED
      BY <1>5, <2>1 DEF Shaped, Sound, Fields, Conversing
  <1> QED
    BY <1>2, <1>3, <1>4, <1>5 DEF Modes, Conversing

(* Energy that is nudged ends at the target of its mode. *)
LEMMA WarmerSound ==
  ASSUME NEW t, Shaped(t), NEW points \in Nat
  PROVE  LET u == Warmer(t, points)
         IN /\ Shaped(u) /\ (Sound(t) => Sound(u))
            /\ u.mode = t.mode /\ u.energy <= Target(t.mode)
  <1> DEFINE u == Warmer(t, points)
  <1>1. u = [t EXCEPT !.energy = Nudged(t.energy, t.mode, points)]
    BY DEF Warmer
  <1>2. Nudged(t.energy, t.mode, points) \in 0 .. Points(100) /\ Nudged(t.energy, t.mode, points) <= Target(t.mode)
    <2>1. Target(t.mode) \in 0 .. Points(100) /\ t.energy \in 0 .. Points(100) /\ Points(points) \in Nat /\ Points(100) = 500
      BY Targets DEF Shaped, Points
    <2> QED
      BY <2>1 DEF Nudged, Less
  <1> HIDE DEF u
  <1>3. Fields \subseteq DOMAIN u /\ u.energy = Nudged(t.energy, t.mode, points)
    BY <1>1 DEF Shaped, Fields
  <1>4. /\ u.mode = t.mode /\ u.replyAge = t.replyAge /\ u.addressAge = t.addressAge
        /\ u.armed = t.armed /\ u.pending = t.pending /\ u.focus = t.focus
    BY <1>1 DEF Shaped, Fields
  <1>5. Shaped(u) /\ (Sound(t) => Sound(u))
    BY <1>2, <1>3, <1>4, Zenon DEF Shaped, Sound
  <1> QED
    BY <1>2, <1>3, <1>4, <1>5 DEF u

LEMMA BoostedSound ==
  ASSUME NEW t, Sound(t), NEW u \in Boosted(t)
  PROVE  Sound(u) /\ u.mode = t.mode /\ u.energy <= Target(u.mode)
  <1> DEFINE once == Warmer(t, 10)
  <1>1. Sound(once) /\ once.mode = t.mode /\ once.energy <= Target(t.mode)
    BY WarmerSound DEF Sound
  <1>2. u = once \/ u = Warmer(once, 10)
    BY DEF Boosted
  <1> HIDE DEF once
  <1>3. Sound(Warmer(once, 10)) /\ Warmer(once, 10).mode = t.mode /\ Warmer(once, 10).energy <= Target(t.mode)
    BY <1>1, WarmerSound DEF Sound
  <1> QED
    BY <1>1, <1>2, <1>3

LEMMA OverSound ==
  ASSUME NEW t, Sound(t)
  PROVE  LET u == QuestionOver(t)
         IN Sound(u) /\ u.mode \in {t.mode, "idle"} /\ u.energy = t.energy
  <1>1. Sound(QuestionCleared(t)) /\ QuestionCleared(t).mode = t.mode /\ QuestionCleared(t).energy = t.energy
    BY ClearedSound DEF Sound
  <1>2. Sound(Entered(t, "idle")) /\ Entered(t, "idle").mode = "idle" /\ Entered(t, "idle").energy = t.energy
    BY EnteredSound DEF Sound, Modes
  <1>3. QuestionOver(t) \in {t, QuestionCleared(t), Entered(t, "idle")}
    BY DEF QuestionOver
  <1> QED
    BY <1>1, <1>2, <1>3

(* The lazy decay only ever leads to an idle session, and keeps the energy. *)
LEMMA DecayedSound ==
  ASSUME NEW t, Sound(t)
  PROVE  LET u == Decayed(t)
         IN Sound(u) /\ u.mode \in {t.mode, "idle"} /\ u.energy = t.energy
  <1> DEFINE over == QuestionOver(t)
  <1>1. Sound(over) /\ over.mode \in {t.mode, "idle"} /\ over.energy = t.energy
    BY OverSound
  <1>2. Decayed(t) \in {over, Entered(over, "idle")}
    BY DEF Decayed
  <1> HIDE DEF over
  <1>3. Sound(Entered(over, "idle")) /\ Entered(over, "idle").mode = "idle" /\ Entered(over, "idle").energy = over.energy
    BY <1>1, EnteredSound DEF Sound, Modes
  <1> QED
    BY <1>1, <1>2, <1>3

LEMMA ColdOpenedSound == ASSUME NEW t, Sound(t) PROVE Sound(ColdOpened(t))
  BY DEF ColdOpened, Sound, Shaped, Fields

LEMMA FocusedShaped ==
  ASSUME NEW t, Shaped(t), NEW m
  PROVE  LET now == [Focused(t, m) EXCEPT !.addressAge = 0]
         IN Shaped(now) /\ now.mode = t.mode /\ (t.mode # "idle" => Sound(now))
  <1>1. 0 \in Ages
    BY DEF Ages
  <1> QED
    BY <1>1 DEF Focused, Sound, Shaped, Fields

LEMMA CalledSound ==
  ASSUME NEW t, Sound(t), NEW m, NEW u \in Called(t, m)
  PROVE  Sound(u) /\ u.energy <= Target(u.mode)
  <1> DEFINE now == [Focused(t, m) EXCEPT !.addressAge = 0]
  <1>1. Shaped(now) /\ (t.mode # "idle" => Sound(now))
    BY FocusedShaped DEF Sound
  <1> HIDE DEF now
  <1>2. Sound(Entered(QuestionCleared(now), "in_thread")) /\ Sound(Entered(now, "addressed"))
    BY <1>1, EnteredSound, ClearedSound DEF Modes
  <1>3. PICK v : Sound(v) /\ u \in Boosted(v)
    <2>1. CASE ~t.pending /\ SameSpeaker(m.by, t.focus) /\ t.mode = "in_thread"
      <3>1. Sound(now) /\ u \in Boosted(now)
        BY <1>1, <2>1 DEF Called, now
      <3> QED
        BY <3>1
    <2>2. CASE t.pending /\ SameSpeaker(m.by, t.focus)
      BY <1>2, <2>2 DEF Called, now
    <2>3. CASE ~(t.pending /\ SameSpeaker(m.by, t.focus)) /\ ~(~t.pending /\ SameSpeaker(m.by, t.focus) /\ t.mode = "in_thread")
      BY <1>2, <2>3 DEF Called, now
    <2> QED
      BY <2>1, <2>2, <2>3
  <1> QED
    BY <1>3, BoostedSound

(* A message leaves the energy at most at the target of the mode it led to  *)
(* (observeIncomingMessageLocked): every arm ends in a nudge or a boost.    *)
LEMMA ObservedSound ==
  ASSUME NEW old, Sound(old), NEW m, NEW u \in Observed(old, m), m.mention \in BOOLEAN, m.nick \in 0 .. 4
  PROVE  Sound(u) /\ u.energy <= Target(u.mode)
  <1> DEFINE t   == Decayed(old)
             now == [Focused(t, m) EXCEPT !.addressAge = 0]
  <1>1. Sound(t)
    BY DecayedSound
  <1>2. Shaped(now)
    BY <1>1, FocusedShaped DEF Sound
  <1>3. StrongCall(m) => Addressed(m) /\ ~WeakAddress(m)
    BY DEF StrongCall, Addressed, WeakAddress, NickStart
  <1>4. ~Addressed(m) => ~WeakAddress(m)
    BY DEF WeakAddress
  <1> HIDE DEF t, now
  <1>5. CASE private
    <2>1. u \in Boosted(Entered(now, "addressed"))
      BY <1>5 DEF Observed, t, now
    <2> QED
      BY <1>2, <2>1, EnteredSound, BoostedSound DEF Modes
  <1>6. CASE ~private /\ StrongCall(m)
    <2>1. u \in Called(t, m)
      BY <1>3, <1>6 DEF Observed, t
    <2> QED
      BY <1>1, <2>1, CalledSound
  <1>7. ASSUME NEW v, Sound(v), NEW points \in Nat, u = Warmer(v, points) PROVE Sound(u) /\ u.energy <= Target(u.mode)
    BY <1>7, WarmerSound DEF Sound
  <1>8. /\ Sound(Entered(t, "in_thread")) /\ Sound(Entered(QuestionCleared(t), "in_thread"))
    BY <1>1, EnteredSound, ClearedSound DEF Sound, Modes
  <1>9. CASE ~private /\ ~StrongCall(m)
    <2>1. \/ u = Warmer(t, 2) \/ u = Warmer(t, 1)
          \/ u = Warmer(Entered(t, "in_thread"), 6) \/ u = Warmer(Entered(QuestionCleared(t), "in_thread"), 6)
      BY <1>4, <1>9 DEF Observed, t
    <2>2. 1 \in Nat /\ 2 \in Nat /\ 6 \in Nat
      OBVIOUS
    <2> QED
      BY <1>1, <1>7, <1>8, <2>1, <2>2, Zenon
  <1> QED
    BY <1>5, <1>6, <1>9

(* A reply costs energy and ends being talked to. *)
LEMMA DeliveredSound ==
  ASSUME NEW t, Sound(t), NEW question \in BOOLEAN
  PROVE  LET u == Delivered(t, question)
         IN Sound(u) /\ u.mode \in {"waiting_user", "cooling_down"} /\ u.energy <= t.energy
  <1> DEFINE now == [t EXCEPT !.replyAge = 0, !.recent = 0, !.coldOpen = 0, !.asked = IF question THEN t.focus ELSE Nobody,
                       !.answered = FALSE, !.energy = Spent(t.energy, question)]
  <1>1. Spent(t.energy, question) \in 0 .. Points(100) /\ Spent(t.energy, question) <= t.energy
    <2>1. t.energy \in 0 .. Points(100) /\ ReplyCost(question) \in Nat /\ Points(100) = 500
      BY DEF Sound, Shaped, ReplyCost, Points
    <2> QED
      BY <2>1 DEF Spent, More
  <1>2. 0 \in Ages
    BY DEF Ages
  <1>3. /\ Fields \subseteq DOMAIN now /\ now.mode = t.mode /\ now.energy = Spent(t.energy, question) /\ now.replyAge = 0
        /\ now.addressAge = t.addressAge /\ now.armed = t.armed /\ now.pending = t.pending
    BY DEF Sound, Shaped, Fields
  <1> HIDE DEF now
  <1>4. Shaped(now)
    BY <1>1, <1>2, <1>3, Zenon DEF Sound, Shaped
  <1>5. CASE question
    <2> DEFINE asking == Entered(now, "waiting_user")
    <2>1. Delivered(t, question) = [asking EXCEPT !.pending = TRUE, !.armed = TRUE]
      BY <1>5 DEF Delivered, now
    <2>2. Sound(asking) /\ asking.mode = "waiting_user" /\ asking.energy = now.energy
      BY <1>4, EnteredSound DEF Modes
    <2> HIDE DEF asking
    <2> QED
      BY <1>1, <1>3, <2>1, <2>2 DEF Sound, Shaped, Fields
  <1>6. CASE ~question
    <2>1. Delivered(t, question) = Entered(now, "cooling_down")
      BY <1>6 DEF Delivered, now
    <2> QED
      BY <1>1, <1>3, <1>4, <2>1, EnteredSound DEF Modes
  <1> QED
    BY <1>5, <1>6

-----------------------------------------------------------------------------
(* The conversation, the batches and the flight, step by step.              *)

TalkInv   == Configured /\ Sound(talk) /\ heard \in Modes /\ Fits(talk, heard)

BatchInv  ==
  /\ batch \in Seq(left.kinds) /\ (batch = <<>> => batchAge = 0)
  /\ {"step", "batch", "age", "band", "heard", "opened"} \subseteq DOMAIN flight
  /\ flight.batch \in Seq(left.kinds) /\ (flight.batch = <<>> => flight.age = 0)

OpenedInv == flight.opened /\ flight.band = "observe" => flight.heard \in Conversing

LEMMA QuietSound == Sound(Quiet) /\ Fits(Quiet, "idle") /\ "idle" \in Modes
  BY Targets DEF Quiet, Sound, Shaped, Fields, Ages, Fits, Modes, Conversing

(* What leaves the bot in the same conversation, or out of it, without      *)
(* adding energy beyond the target of its mode.                             *)
LEMMA StillFits ==
  ASSUME NEW t, Sound(t), NEW u, Sound(u), NEW mode, Fits(t, mode), u.mode \in Conversing => u.mode = t.mode,
         u.energy <= t.energy \/ u.energy <= Target(u.mode)
  PROVE  Fits(u, mode)
  <1>1. u.energy \in Nat /\ t.energy \in Nat /\ u.mode \in Modes
    BY DEF Sound, Shaped
  <1>2. u.mode \in Conversing => mode = u.mode
    BY DEF Fits
  <1>3. ASSUME mode \notin Conversing PROVE u.energy <= Target("idle")
    <2>1. t.energy <= Target("idle") /\ u.mode \notin Conversing
      BY <1>2, <1>3 DEF Fits
    <2>2. Target(u.mode) <= Target("idle") /\ Target(u.mode) \in Nat /\ Target("idle") \in Nat
      BY <1>1, <2>1, Targets
    <2> QED
      BY <1>1, <2>1, <2>2
  <1> QED
    BY <1>2, <1>3 DEF Fits

LEMMA DecayedFits == ASSUME NEW t, Sound(t), NEW mode, Fits(t, mode) PROVE Fits(Decayed(t), mode)
  <1>1. Sound(Decayed(t)) /\ Decayed(t).mode \in {t.mode, "idle"} /\ Decayed(t).energy = t.energy
    BY DecayedSound
  <1>2. t.energy \in Nat
    BY DEF Sound, Shaped
  <1> QED
    BY <1>1, <1>2, StillFits DEF Conversing

LEMMA DeliveredFits ==
  ASSUME NEW t, Sound(t), NEW mode, Fits(t, mode), NEW question \in BOOLEAN PROVE Fits(Delivered(t, question), mode)
  BY DeliveredSound, StillFits DEF Conversing

LEMMA UnarmedSound ==
  ASSUME NEW t, Sound(t)
  PROVE  LET u == [t EXCEPT !.armed = FALSE] IN Sound(u) /\ u.mode = t.mode /\ u.energy = t.energy
  BY DEF Sound, Shaped, Fields

LEMMA SameFits ==
  ASSUME NEW t, NEW u, NEW mode, Fits(t, mode), u.mode = t.mode, u.energy = t.energy PROVE Fits(u, mode)
  BY DEF Fits

LEMMA TickSound == ASSUME TalkInv, TimeInv, Tick PROVE Sound(talk') /\ Fits(talk', heard)
  <1> DEFINE seconds == IF timer > 0 THEN Less(timer, left.unit) ELSE left.unit
  <1>1. talk' = [talk EXCEPT !.energy = Recovered(talk.energy, talk.mode, seconds),
                             !.replyAge = Older(talk.replyAge, seconds), !.addressAge = Older(talk.addressAge, seconds),
                             !.messageAge = IF talk.messageAge = Off THEN Off ELSE Older(talk.messageAge, seconds)]
    BY DEF Tick
  <1>2. seconds \in Nat
    <2>1. timer \in Int /\ left.unit \in Nat
      BY DEF TimeInv, Configured, Off
    <2> QED
      BY <2>1 DEF Less
  <1> HIDE DEF seconds
  <1>3. ASSUME NEW age \in Ages PROVE Older(age, seconds) \in Ages
    <2>1. Far \in Nat
      OBVIOUS
    <2> QED
      BY <1>2, <2>1 DEF Older, Less, Ages
  <1>4. ASSUME NEW energy \in 0 .. Points(100), NEW mode \in Modes
        PROVE  /\ Recovered(energy, mode, seconds) \in 0 .. Points(100)
               /\ Recovered(energy, mode, seconds) <= energy \/ Recovered(energy, mode, seconds) <= Target(mode)
    <2>1. Target(mode) \in 0 .. Points(100) /\ Points(100) = 500
      BY Targets
    <2> QED
      BY <1>2, <2>1 DEF Recovered, Less, More
  <1>5. /\ Fields \subseteq DOMAIN talk' /\ talk'.mode = talk.mode /\ talk'.focus = talk.focus
        /\ talk'.energy = Recovered(talk.energy, talk.mode, seconds)
        /\ talk'.replyAge = Older(talk.replyAge, seconds) /\ talk'.addressAge = Older(talk.addressAge, seconds)
        /\ talk'.pending = talk.pending /\ talk'.armed = talk.armed
    BY <1>1 DEF TalkInv, Sound, Shaped, Fields
  <1>6. /\ talk'.energy \in 0 .. Points(100) /\ talk'.replyAge \in Ages /\ talk'.addressAge \in Ages
        /\ talk'.energy <= talk.energy \/ talk'.energy <= Target(talk.mode)
    BY <1>3, <1>4, <1>5 DEF TalkInv, Sound, Shaped
  <1>7. Sound(talk')
    BY <1>5, <1>6, Zenon DEF TalkInv, Sound, Shaped
  <1>8. Fits(talk', heard)
    BY <1>5, <1>6, <1>7, StillFits DEF TalkInv
  <1> QED
    BY <1>7, <1>8

LEMMA EnqueueSound ==
  ASSUME TalkInv, NEW m \in left.kinds, Enqueue(m) PROVE Sound(talk') /\ heard' = talk'.mode /\ Fits(talk', heard')
  <1>1. PICK t \in Observed(ColdOpened(talk), m) : talk' = Noted(t, m)
    BY DEF Enqueue
  <1>2. Sound(t) /\ t.energy <= Target(t.mode)
    BY ColdOpenedSound, ObservedSound DEF TalkInv, Configured
  <1>3. talk'.mode = t.mode /\ talk'.energy = t.energy /\ Sound(talk')
    BY <1>1, <1>2 DEF Noted, Sound, Shaped, Fields
  <1>4. heard' = talk'.mode
    BY DEF Enqueue
  <1>5. talk'.mode \notin Conversing => talk'.energy <= Target("idle")
    <2>1. t.mode \in Modes /\ t.energy \in Nat
      BY <1>2 DEF Sound, Shaped
    <2>2. t.mode \notin Conversing => Target(t.mode) <= Target("idle") /\ Target(t.mode) \in Nat /\ Target("idle") \in Nat
      BY <2>1, Targets DEF Modes
    <2> QED
      BY <1>2, <1>3, <2>1, <2>2
  <1> QED
    BY <1>3, <1>4, <1>5 DEF Fits

LEMMA EvaluateSound == ASSUME TalkInv, Evaluate PROVE Sound(talk') /\ Fits(talk', heard)
  <1> DEFINE t == Decayed(talk)
  <1>1. Sound(t) /\ Fits(t, heard)
    BY DecayedSound, DecayedFits DEF TalkInv
  <1> HIDE DEF t
  <1>2. ASSUME NEW points \in Nat PROVE Sound(Warmer(t, points)) /\ Fits(Warmer(t, points), heard)
    <2>1. Sound(Warmer(t, points)) /\ Warmer(t, points).mode = t.mode /\ Warmer(t, points).energy <= Target(t.mode)
      BY <1>1, WarmerSound DEF Sound
    <2> QED
      BY <1>1, <2>1, StillFits
  <1>3. PICK u \in {t, Warmer(t, 5), Warmer(t, 2)} : \E a : talk' = [u EXCEPT !.gate = a]
    <2>1. PICK band, allow, extra : /\ extra = (CASE band = "high_priority" -> 5 [] band = "engage" -> 2 [] OTHER -> 0)
                                    /\ talk' = [(IF extra > 0 THEN Warmer(t, extra) ELSE t) EXCEPT !.gate = allow]
      BY Zenon DEF Evaluate, t
    <2>2. extra = 5 \/ extra = 2 \/ ~(extra > 0)
      BY <2>1
    <2> DEFINE next == IF extra > 0 THEN Warmer(t, extra) ELSE t
    <2>3. talk' = [next EXCEPT !.gate = allow]
      BY <2>1
    <2>4. next \in {t, Warmer(t, 5), Warmer(t, 2)}
      BY <2>2, Zenon
    <2>5. \E a : talk' = [next EXCEPT !.gate = a]
      BY <2>3, Zenon
    <2> HIDE DEF next
    <2> QED
      BY <2>4, <2>5, Zenon
  <1>4. Sound(u) /\ Fits(u, heard)
    BY <1>1, <1>2, <1>3
  <1>5. Sound(talk') /\ talk'.mode = u.mode /\ talk'.energy = u.energy
    BY <1>3, <1>4 DEF Sound, Shaped, Fields
  <1> QED
    BY <1>4, <1>5, SameFits

LEMMA FollowupSound ==
  ASSUME TalkInv, FollowupFires \/ FollowUp PROVE Sound(talk') /\ Fits(talk', heard)
  <1> DEFINE t == [talk EXCEPT !.armed = FALSE]
  <1>1. Sound(t) /\ Fits(t, heard)
    BY UnarmedSound, SameFits DEF TalkInv
  <1> HIDE DEF t
  <1>2. CASE FollowupFires
    <2>1. talk' = t \/ talk' = QuestionCleared(t)
      BY <1>2, Zenon DEF FollowupFires, t
    <2>2. Sound(QuestionCleared(t)) /\ Fits(QuestionCleared(t), heard)
      BY <1>1, ClearedSound, SameFits DEF Sound
    <2> QED
      BY <1>1, <2>1, <2>2
  <1>3. CASE FollowUp
    <2>1. \/ \E question \in BOOLEAN : talk' = [Delivered(talk, question) EXCEPT !.armed = FALSE]
          \/ talk' = t
      BY <1>3, Zenon DEF FollowUp, t
    <2>2. ASSUME NEW question \in BOOLEAN, talk' = [Delivered(talk, question) EXCEPT !.armed = FALSE]
          PROVE  Sound(talk') /\ Fits(talk', heard)
      <3> DEFINE said == Delivered(talk, question)
      <3>1. Sound(said) /\ Fits(said, heard)
        BY DeliveredSound, DeliveredFits DEF TalkInv
      <3>2. talk' = [said EXCEPT !.armed = FALSE]
        BY <2>2
      <3> HIDE DEF said
      <3>3. Sound(talk') /\ talk'.mode = said.mode /\ talk'.energy = said.energy
        BY <3>1, <3>2, UnarmedSound
      <3> QED
        BY <3>1, <3>3, SameFits
    <2> QED
      BY <1>1, <2>1, <2>2
  <1> QED
    BY <1>2, <1>3

LEMMA TalkStep == ASSUME TalkInv, TimeInv, [Next]_vars PROVE TalkInv'
  <1>1. Configured'
    BY SpendKeeps, KeepsLeft DEF TalkInv, Next, Tick, Look, Clear, Enqueue, RepeatDelivered, FlushBusy, TakeBatch,
       Evaluate, Decide, Reply, Finalize, Wait, FollowupFires, FollowUp, vars
  <1>2. SUFFICES Sound(talk') /\ heard' \in Modes /\ Fits(talk', heard')
    BY <1>1 DEF TalkInv, Sound, Shaped, Fits
  <1>3. CASE Tick
    BY <1>3, TickSound DEF Tick, TalkInv
  <1>4. CASE Look
    BY <1>4, DecayedSound, DecayedFits DEF Look, queue, TalkInv
  <1>5. CASE Clear
    BY <1>5, QuietSound DEF Clear
  <1>6. ASSUME NEW m \in left.kinds, Enqueue(m) PROVE Sound(talk') /\ heard' \in Modes /\ Fits(talk', heard')
    BY <1>6, EnqueueSound DEF Sound, Shaped
  <1>7. ASSUME NEW question \in BOOLEAN, talk' = Delivered(talk, question), heard' = heard
        PROVE  Sound(talk') /\ heard' \in Modes /\ Fits(talk', heard')
    BY <1>7, DeliveredSound, DeliveredFits DEF TalkInv
  <1>8. CASE Evaluate
    BY <1>8, EvaluateSound DEF Evaluate, queue, TalkInv
  <1>9. CASE FollowupFires \/ FollowUp
    BY <1>9, FollowupSound DEF FollowupFires, FollowUp, queue, TalkInv
  <1>10. CASE UNCHANGED <<talk, heard>>
    BY <1>10 DEF TalkInv
  <1>11. CASE Reply
    BY <1>7, <1>10, <1>11, Zenon DEF Reply, queue
  <1>12. CASE FlushBusy \/ TakeBatch \/ Decide \/ Finalize \/ (\E seconds \in left.waits : Wait(seconds)) \/ UNCHANGED vars
    BY <1>10, <1>12 DEF FlushBusy, TakeBatch, Decide, Finalize, Wait, vars, queue
  <1> QED
    BY <1>3, <1>4, <1>5, <1>6, <1>7, <1>8, <1>9, <1>11, <1>12 DEF Next, RepeatDelivered, queue

-----------------------------------------------------------------------------
(* The batches.  A batch that is taken was not put together by the flight,  *)
(* so one that comes back brings its age along.                             *)

LEMMA KindsStay == ASSUME Configured, [Next]_vars PROVE left'.kinds = left.kinds
  <1>1. ASSUME NEW what \in {"ticks", "messages", "looks", "repeats", "clears"}, Spend(what) PROVE left'.kinds = left.kinds
    BY <1>1 DEF Spend, Configured
  <1> QED
    BY <1>1 DEF Next, Tick, Look, Clear, Enqueue, RepeatDelivered, FlushBusy, TakeBatch,
       Evaluate, Decide, Reply, Finalize, Wait, FollowupFires, FollowUp, vars

LEMMA LandedBatch ==
  /\ {"step", "batch", "age", "band", "heard", "opened"} \subseteq DOMAIN Landed
  /\ Landed.batch = <<>> /\ Landed.age = 0 /\ Landed.band = "ignore" /\ Landed.opened = FALSE
  BY DEF Landed

LEMMA BatchStep == ASSUME BatchInv, TalkInv, [Next]_vars PROVE BatchInv'
  <1>1. left'.kinds = left.kinds
    BY KindsStay DEF TalkInv
  <1> DEFINE Carried == /\ {"step", "batch", "age", "band", "heard", "opened"} \subseteq DOMAIN flight'
                        /\ flight'.batch \in Seq(left.kinds) /\ (flight'.batch = <<>> => flight'.age = 0)
             Queue   == batch' \in Seq(left.kinds) /\ (batch' = <<>> => batchAge' = 0)
  <1>2. SUFFICES Queue /\ Carried
    BY <1>1 DEF BatchInv
  <1>3. flight' = flight => Carried
    BY DEF BatchInv
  <1>4. UNCHANGED <<batch, batchAge>> => Queue
    BY DEF BatchInv
  <1>5. flight' = Landed => Carried
    BY LandedBatch, EmptySeq
  <1>6. ASSUME NEW step, flight' = [Landed EXCEPT !.step = step] PROVE Carried
    BY <1>6, LandedBatch, EmptySeq
  <1>7. CASE Tick
    <2>1. batch' = batch /\ batchAge' = (IF batch = <<>> THEN 0 ELSE batchAge')
      BY <1>7 DEF Tick
    <2>2. PICK age : flight' = [flight EXCEPT !.age = IF flight.batch = <<>> THEN 0 ELSE age]
      BY <1>7, Zenon DEF Tick
    <2>3. Queue
      BY <2>1 DEF BatchInv
    <2>4. Carried
      BY <2>2 DEF BatchInv
    <2> QED
      BY <2>3, <2>4
  <1>8. ASSUME NEW m \in left.kinds, Enqueue(m) PROVE Queue /\ Carried
    <2>1. batch' = Append(batch, m) /\ flight' = flight
      BY <1>8 DEF Enqueue
    <2>2. batch' \in Seq(left.kinds) /\ batch' # <<>>
      BY <2>1, AppendProperties DEF BatchInv
    <2> QED
      BY <1>3, <2>1, <2>2
  <1>9. CASE Clear
    <2>1. Queue
      BY <1>9, EmptySeq DEF Clear
    <2> QED
      BY <1>3, <1>9, <2>1 DEF Clear
  <1>10. CASE TakeBatch
    <2>1. flight' = [Landed EXCEPT !.step = "taken", !.batch = batch, !.age = batchAge, !.rounds = waitRounds]
      BY <1>10 DEF TakeBatch
    <2>2. Carried
      BY <2>1, LandedBatch DEF BatchInv
    <2>3. Queue
      BY <1>10, EmptySeq DEF TakeBatch
    <2> QED
      BY <2>2, <2>3
  <1>11. CASE Evaluate
    <2>1. PICK step, band, opened : flight' = [flight EXCEPT !.step = step, !.band = band, !.heard = heard, !.opened = opened]
      BY <1>11, Zenon DEF Evaluate
    <2>2. Carried
      BY <2>1 DEF BatchInv
    <2> QED
      BY <1>4, <1>11, <2>2 DEF Evaluate, queue
  <1>12. CASE Decide \/ Reply
    <2>1. PICK step : flight' = [flight EXCEPT !.step = step]
      BY <1>12, Zenon DEF Decide, Reply
    <2>2. Carried
      BY <2>1 DEF BatchInv
    <2> QED
      BY <1>4, <1>12, <2>2 DEF Decide, Reply, queue
  <1>13. ASSUME NEW seconds \in left.waits, Wait(seconds) PROVE Queue /\ Carried
    <2>1. batch' = flight.batch \o batch /\ batchAge' = flight.age /\ flight' = Landed
      BY <1>13 DEF Wait
    <2>2. batch' \in Seq(left.kinds) /\ Len(batch') = Len(flight.batch) + Len(batch)
      BY <2>1, ConcatProperties DEF BatchInv
    <2>3. batch' = <<>> => flight.batch = <<>>
      <3>1. Len(flight.batch) \in Nat /\ Len(batch) \in Nat /\ (Len(flight.batch) = 0 => flight.batch = <<>>)
        BY EmptySeq, LenProperties DEF BatchInv
      <3>2. batch' = <<>> => Len(batch') = 0
        BY EmptySeq
      <3> QED
        BY <2>2, <3>1, <3>2
    <2> QED
      BY <1>5, <2>1, <2>2, <2>3 DEF BatchInv
  <1>14. CASE FollowupFires
    <2>1. flight' = flight \/ flight' = [Landed EXCEPT !.step = "following up"]
      BY <1>14, Zenon DEF FollowupFires
    <2> QED
      BY <1>3, <1>4, <1>6, <1>14, <2>1 DEF FollowupFires, queue
  <1>15. CASE Finalize \/ FollowUp
    BY <1>4, <1>5, <1>15 DEF Finalize, FollowUp
  <1>16. CASE Look \/ FlushBusy \/ (\E question \in BOOLEAN : RepeatDelivered(question)) \/ UNCHANGED vars
    BY <1>3, <1>4, <1>16 DEF Look, FlushBusy, RepeatDelivered, queue, vars
  <1> QED
    BY <1>7, <1>8, <1>9, <1>10, <1>11, <1>12, <1>13, <1>14, <1>15, <1>16 DEF Next

-----------------------------------------------------------------------------
(* The gate. *)

(* A closed gate needs more energy than the target of an idle session for   *)
(* what is merely interesting, or a message in the thread of the focus      *)
(* speaker (evaluateSpeakGateLocked).                                       *)
LEMMA GateNeedsConversation ==
  ASSUME NEW t, Sound(t), NEW mode, Fits(t, mode), NEW rows, Allowed("observe", rows, t), ~t.gate
  PROVE  mode \in Conversing
  <1>1. CASE t.mode = "in_thread"
    BY <1>1 DEF Fits, Conversing
  <1>2. CASE t.mode # "in_thread"
    <2>1. RoundEnergy(t.energy) >= OpenThreshold
      BY <1>2, Zenon DEF Allowed
    <2>2. t.energy \in Nat /\ Target("idle") = 225
      BY Targets DEF Sound, Shaped
    <2>3. ~(t.energy <= Target("idle"))
      <3>1. ASSUME t.energy <= 225 PROVE (2 * t.energy + 5) \div 10 <= 45
        BY <2>2, <3>1
      <3> QED
        BY <2>1, <2>2, <3>1 DEF RoundEnergy, OpenThreshold
    <2> QED
      BY <2>3 DEF Fits
  <1> QED
    BY <1>1, <1>2

LEMMA OpenedStep == ASSUME BatchInv, TalkInv, OpenedInv, [Next]_vars PROVE OpenedInv'
  <1>1. CASE flight' = flight
    BY <1>1 DEF OpenedInv
  <1>2. ASSUME NEW step, flight' = [flight EXCEPT !.step = step] PROVE OpenedInv'
    BY <1>2 DEF OpenedInv, BatchInv
  <1>3. ASSUME NEW age, flight' = [flight EXCEPT !.age = age] PROVE OpenedInv'
    BY <1>3 DEF OpenedInv, BatchInv
  <1>4. CASE flight' = Landed
    BY <1>4, LandedBatch DEF OpenedInv
  <1>5. CASE FollowupFires
    <2>1. flight' = flight \/ flight' = [Landed EXCEPT !.step = "following up"]
      BY <1>5, Zenon DEF FollowupFires
    <2>2. flight' = [Landed EXCEPT !.step = "following up"] => flight'.opened = FALSE
      BY LandedBatch
    <2> QED
      BY <1>1, <2>1, <2>2 DEF OpenedInv
  <1>6. CASE TakeBatch
    <2>1. flight'.opened = FALSE
      BY <1>6, LandedBatch DEF TakeBatch
    <2> QED
      BY <2>1 DEF OpenedInv
  <1>7. CASE Evaluate
    <2> DEFINE t == Decayed(talk)
               band == Band(Score(flight.batch, t, private))
               allow == Allowed(band, flight.batch, t)
    <2>1. flight' = [flight EXCEPT !.step = IF allow THEN "deciding" ELSE "finishing", !.band = band, !.heard = heard,
                                   !.opened = allow /\ ~t.gate]
      BY <1>7, Zenon DEF Evaluate
    <2>2. Sound(t) /\ Fits(t, heard)
      BY DecayedSound, DecayedFits DEF TalkInv
    <2> HIDE DEF t, band
    <2>3. allow /\ ~t.gate /\ band = "observe" => heard \in Conversing
      BY <2>2, GateNeedsConversation
    <2> HIDE DEF allow
    <2>4. flight'.opened = (allow /\ ~t.gate) /\ flight'.band = band /\ flight'.heard = heard
      BY <2>1 DEF BatchInv
    <2> QED
      BY <2>3, <2>4 DEF OpenedInv
  <1>8. CASE Tick
    BY <1>3, <1>8, Zenon DEF Tick
  <1>9. CASE Decide \/ Reply
    BY <1>2, <1>9, Zenon DEF Decide, Reply
  <1>10. CASE Finalize \/ FollowUp \/ \E seconds \in left.waits : Wait(seconds)
    BY <1>4, <1>10 DEF Finalize, FollowUp, Wait
  <1> QED
    BY <1>1, <1>5, <1>6, <1>7, <1>8, <1>9, <1>10 DEF Next, Look, Clear, Enqueue, RepeatDelivered, FlushBusy, queue, vars

LEMMA ConversationHolds == Spec => [](TimeInv /\ TalkInv /\ BatchInv /\ OpenedInv)
  <1>1. Init => TalkInv /\ BatchInv /\ OpenedInv
    <2> SUFFICES ASSUME Init PROVE TalkInv /\ BatchInv /\ OpenedInv
      OBVIOUS
    <2>1. Configured
      BY InitTime DEF TimeInv
    <2>2. talk = Quiet /\ heard = "idle" /\ batch = <<>> /\ batchAge = 0 /\ flight = Landed
      BY DEF Init
    <2>3. <<>> \in Seq(left.kinds)
      BY EmptySeq
    <2> QED
      BY <2>1, <2>2, <2>3, QuietSound, LandedBatch DEF TalkInv, BatchInv, OpenedInv
  <1>2. TalkInv /\ BatchInv /\ OpenedInv /\ TimeInv /\ [Next]_vars => (TalkInv /\ BatchInv /\ OpenedInv)'
    BY TalkStep, BatchStep, OpenedStep
  <1> QED
    BY <1>1, <1>2, TimeHolds, PTL DEF Spec

(* TypeOK (transitionToLocked): energies stay in their range, an idle       *)
(* session has neither focus nor question, and only a question has a timer. *)
THEOREM TypeCorrect == Spec => []TypeOK
  <1>1. TimeInv /\ TalkInv /\ BatchInv => TypeOK
    BY DEF TimeInv, TalkInv, BatchInv, Sound, Shaped, Ages, TypeOK, Off
  <1> QED
    BY <1>1, ConversationHolds, PTL

(* GateOpensInConversation (evaluateSpeakGateLocked, settleEnergyLocked): a *)
(* closed gate does not open on the energy of a conversation that is over.  *)
THEOREM GatesOpenInConversation == Spec => []GateOpensInConversation
  <1>1. OpenedInv => GateOpensInConversation
    BY DEF OpenedInv, GateOpensInConversation, Conversing
  <1> QED
    BY <1>1, ConversationHolds, PTL

=============================================================================
