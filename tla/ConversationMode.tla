-------------------------- MODULE ConversationMode --------------------------
(***************************************************************************)
(* One session of the immersive engine in time (internal/bot/immersive):    *)
(* the conversation mode and its windows, the energy, the speak gate, cold  *)
(* opens, the follow-up to a question, and the flush timer.  What           *)
(* ImmersiveSession leaves open, whether a flush speaks and when it runs,   *)
(* is decided here; what it decides, who owns the session when timers fire  *)
(* late, is not repeated: here a timer runs when it is due.                 *)
(*                                                                          *)
(* The code settles energy and mode when it touches the session.  The       *)
(* energy's target only changes right after it was settled, so Tick moves   *)
(* the energy; the mode decays where the code lets it (Decayed).            *)
(***************************************************************************)
EXTENDS SpeakPolicy

CONSTANTS
  Far,         \* an age that is as good as never, in seconds
  WaitRounds,  \* maxImmersiveWaitRounds
  Mixes        \* bounds: the configuration, the messages and how much happens, one record per scenario

VARIABLES
  talk,        \* mode, focus, energy, gate, question and cold open
  batch,       \* nextBatch
  batchAge,    \* seconds since batchStartTime, 0 when the batch is empty
  timer,       \* seconds until the flush timer fires, Off when it is not armed
  flight,      \* what owns the session
  waitRounds,  \* waits since the last finished flush
  heard,       \* history: the mode when the newest message had been observed
  left         \* bounds: what may still happen

queue == <<batch, batchAge, timer, waitRounds, heard>>
vars  == <<talk, queue, flight, left>>

policy  == left.policy
private == left.private

Off == -1

ASSUME ModeConstants ==
  /\ Far \in Nat /\ Far >= 240 /\ WaitRounds \in Nat
  /\ \A mix \in Mixes :
       /\ {"policy", "waits", "unit", "private", "kinds"} \subseteq DOMAIN mix
       /\ Normalized(mix.policy) /\ \A part \in {"followup", "coldInterval", "quiet"} : mix.policy[part] <= Far
       /\ mix.unit \in Nat \ {0} /\ \A wait \in mix.waits : wait \in Nat
       /\ \A m \in mix.kinds : m.mention \in BOOLEAN /\ m.nick \in 0 .. 4

-----------------------------------------------------------------------------
(* The windows, in seconds. *)

ThreadWindow  == 75
CoolingWindow == 90
IdleDecay     == 240

FollowupEnergy    == 35
FollowupMaxRecent == 3
ColdOpenMax       == 2

-----------------------------------------------------------------------------
(* The state of the conversation. *)

\* recent: messages since the last reply; armed: the follow-up timer; coldOpen: messages
\* since the cold open, 0 when there is none; asked, answered: history, whom the bot
\* asked and whether they spoke since.
Quiet == [mode |-> "idle", focus |-> Nobody, energy |-> Target("idle"), gate |-> FALSE,
          replyAge |-> Far, addressAge |-> Far, pending |-> FALSE, armed |-> FALSE,
          messageAge |-> Off, coldOpen |-> 0, recent |-> 0, asked |-> Nobody, answered |-> FALSE]

TimerForgotten(t)  == [t EXCEPT !.pending = FALSE]
QuestionCleared(t) == [t EXCEPT !.pending = FALSE, !.armed = FALSE]

Entered(t, mode) ==
  CASE mode = "idle"         -> [QuestionCleared(t) EXCEPT !.mode = mode, !.focus = Nobody, !.gate = FALSE]
    [] mode = "cooling_down" -> [QuestionCleared(t) EXCEPT !.mode = mode, !.gate = FALSE]
    [] mode = "waiting_user" -> [t EXCEPT !.mode = mode, !.gate = FALSE]
    [] OTHER                 -> [t EXCEPT !.mode = mode]

Anchor(t) == Less(t.replyAge, t.addressAge)

\* The question is over when the follow-up was due.
QuestionOver(t) ==
  IF t.pending /\ t.replyAge >= policy.followup
  THEN IF t.mode = "waiting_user" THEN Entered(t, "idle") ELSE QuestionCleared(t)
  ELSE t

Decayed(t) ==
  LET after == QuestionOver(t)
      over  == \/ after.mode = "cooling_down" /\ after.replyAge >= CoolingWindow
               \/ after.mode # "idle" /\ Anchor(after) >= IdleDecay
  IN IF over /\ ~after.pending THEN Entered(after, "idle") ELSE after

\* A message after a long silence opens a conversation, unless the bot spoke of late.
ColdOpened(t) ==
  LET opens == t.messageAge # Off /\ t.messageAge >= policy.quiet /\ t.replyAge >= policy.coldInterval
      count == IF opens THEN 1 ELSE IF t.coldOpen > 0 THEN t.coldOpen + 1 ELSE 0
  IN [t EXCEPT !.messageAge = 0, !.coldOpen = IF count > ColdOpenMax THEN 0 ELSE count]

Warmer(t, points) == [t EXCEPT !.energy = Nudged(@, t.mode, points)]

\* A strong address may give the energy a second boost.
Boosted(t) ==
  LET once == Warmer(t, 10)
  IN {once} \cup (IF once.energy < Target(once.mode) THEN {Warmer(once, 10)} ELSE {})

Focused(t, m) == [t EXCEPT !.focus = m.by]

Called(t, m) ==
  LET same == SameSpeaker(m.by, t.focus)
      now  == [Focused(t, m) EXCEPT !.addressAge = 0]
  IN Boosted(CASE t.pending /\ same                               -> Entered(QuestionCleared(now), "in_thread")
               [] ~t.pending /\ same /\ t.mode = "in_thread"      -> now
               [] OTHER                                           -> Entered(now, "addressed"))

Continues(t, m) ==
  /\ SameSpeaker(m.by, t.focus)
  /\ t.mode \in {"addressed", "in_thread", "cooling_down"}
  /\ Anchor(t) <= ThreadWindow

\* What observeIncomingMessageLocked can make of a message.
Observed(old, m) ==
  LET t == Decayed(old) IN
    CASE private                              -> Boosted(Entered([Focused(t, m) EXCEPT !.addressAge = 0], "addressed"))
      [] ~private /\ StrongCall(m)            -> Called(t, m)
      [] ~private /\ WeakAddress(m)           -> {Warmer(t, 2)}
      [] ~private /\ ~Addressed(m) /\ t.mode = "waiting_user" ->
           {IF SameSpeaker(m.by, t.focus) THEN Warmer(Entered(QuestionCleared(t), "in_thread"), 6) ELSE Warmer(t, 1)}
      [] OTHER -> {IF Continues(t, m) THEN Warmer(Entered(t, "in_thread"), 6) ELSE Warmer(t, 1)}

Noted(t, m) == [t EXCEPT !.recent = Less(@ + 1, FollowupMaxRecent + 1),
                         !.answered = @ \/ (SameSpeaker(m.by, t.asked) /\ ~WeakAddress(m))]

\* A reply that reached the chat, or one the repeat engine sent.
Delivered(t, question) ==
  LET now == [t EXCEPT !.replyAge = 0, !.recent = 0, !.coldOpen = 0, !.asked = IF question THEN t.focus ELSE Nobody,
                       !.answered = FALSE, !.energy = Spent(@, question)]
  IN IF question THEN [Entered(now, "waiting_user") EXCEPT !.pending = TRUE, !.armed = TRUE]
     ELSE Entered(now, "cooling_down")

-----------------------------------------------------------------------------

Landed == [step |-> "none", batch |-> <<>>, age |-> 0, rounds |-> 0, heard |-> "idle", band |-> "ignore", opened |-> FALSE]

Init ==
  /\ left \in Mixes
  /\ talk = Quiet /\ batch = <<>> /\ batchAge = 0 /\ timer = Off
  /\ flight = Landed /\ waitRounds = 0 /\ heard = "idle"

Spend(what) == left[what] > 0 /\ left' = [left EXCEPT ![what] = @ - 1]

Arm(rows, age, t) == timer' = FlushDelay(policy, rows, age, t, private)

\* Time goes on until the next timer; a flush timer that is due while the session is
\* busy is armed again and again, and holds nothing up.  The model takes time, the code
\* before and after it does not.
FollowupDue == talk.armed /\ talk.replyAge >= policy.followup
FlushDue    == timer = 0

Older(age, seconds) == Less(age + seconds, Far)

Tick ==
  /\ ~FollowupDue /\ (FlushDue => flight.step # "none") /\ flight.step \notin {"taken", "finishing"}
  /\ Spend("ticks")
  /\ LET seconds == IF timer > 0 THEN Less(timer, left.unit) ELSE left.unit IN
       /\ timer' = IF timer > 0 THEN timer - seconds ELSE timer
       /\ batchAge' = IF batch = <<>> THEN 0 ELSE Older(batchAge, seconds)
       /\ flight' = [flight EXCEPT !.age = IF flight.batch = <<>> THEN 0 ELSE Older(@, seconds)]
       /\ talk' = [talk EXCEPT !.energy = Recovered(@, talk.mode, seconds),
                               !.replyAge = Older(@, seconds), !.addressAge = Older(@, seconds),
                               !.messageAge = IF @ = Off THEN Off ELSE Older(@, seconds)]
  /\ UNCHANGED <<batch, waitRounds, heard>>

\* EnqueueAmbient: one critical section.
Enqueue(m) ==
  /\ Spend("messages")
  /\ batch' = Append(batch, m) /\ UNCHANGED batchAge
  /\ \E t \in Observed(ColdOpened(talk), m) : talk' = Noted(t, m)
  /\ heard' = talk'.mode
  /\ Arm(batch', batchAge, talk')
  /\ UNCHANGED <<flight, waitRounds>>

\* ShouldYieldToImmersive and the debug snapshot settle the session, too.
Look ==
  /\ Spend("looks")
  /\ talk' = Decayed(talk)
  /\ UNCHANGED <<queue, flight>>

RepeatDelivered(question) ==
  /\ Spend("repeats")
  /\ talk' = Delivered(talk, question)
  /\ UNCHANGED <<queue, flight>>

\* A flush in flight goes on.
Clear ==
  /\ Spend("clears")
  /\ talk' = Quiet /\ batch' = <<>> /\ batchAge' = 0 /\ timer' = Off /\ waitRounds' = 0 /\ heard' = "idle"
  /\ UNCHANGED flight

-----------------------------------------------------------------------------
(* The flush. *)

\* The timer fires while the session is busy: it is armed again at once, for what is
\* left of the delay, which is nothing when the batch is full or its deadline is over.
FlushBusy ==
  /\ FlushDue /\ flight.step # "none"
  /\ Arm(batch, batchAge, talk)
  /\ UNCHANGED <<talk, batch, batchAge, waitRounds, heard, flight, left>>

TakeBatch ==
  /\ FlushDue /\ flight.step = "none"
  /\ flight' = [Landed EXCEPT !.step = "taken", !.batch = batch, !.age = batchAge, !.rounds = waitRounds]
  /\ batch' = <<>> /\ batchAge' = 0 /\ timer' = Off
  /\ UNCHANGED <<talk, waitRounds, heard, left>>

\* The boost of the band comes after the decision.
Evaluate ==
  /\ flight.step = "taken"
  /\ LET t     == Decayed(talk)
         band  == Band(Score(flight.batch, t, private))
         allow == Allowed(band, flight.batch, t)
         extra == CASE band = "high_priority" -> 5 [] band = "engage" -> 2 [] OTHER -> 0
     IN /\ talk' = [(IF extra > 0 THEN Warmer(t, extra) ELSE t) EXCEPT !.gate = allow]
        /\ flight' = [flight EXCEPT !.step = IF allow THEN "deciding" ELSE "finishing", !.band = band, !.heard = heard,
                                    !.opened = allow /\ ~t.gate]
  /\ UNCHANGED <<queue, left>>

Bypassed == BypassesIntent(flight.band, flight.batch, private)

\* The model's decision; an intent that failed is a skip.
Decide ==
  /\ flight.step = "deciding"
  /\ \E step \in {"replying", "finishing"} :
       /\ step = "finishing" => ~Bypassed
       /\ flight' = [flight EXCEPT !.step = step]
  /\ UNCHANGED <<talk, queue, left>>

\* The batch comes back, in front of what arrived meanwhile.
Wait(seconds) ==
  /\ flight.step = "deciding" /\ flight.rounds < WaitRounds /\ ~Bypassed
  /\ batch' = flight.batch \o batch /\ batchAge' = flight.age
  /\ timer' = Merged(FlushDelay(policy, batch', batchAge', talk, private), seconds)
  /\ flight' = Landed /\ waitRounds' = waitRounds + 1
  /\ UNCHANGED <<talk, heard, left>>

\* A reply that could not be generated or sent changes nothing here.
Reply ==
  /\ flight.step = "replying"
  /\ flight' = [flight EXCEPT !.step = "finishing"]
  /\ \/ \E question \in BOOLEAN : talk' = Delivered(talk, question)
     \/ UNCHANGED talk
  /\ UNCHANGED <<queue, left>>

Rearmed == IF batch = <<>> THEN timer' = Off ELSE Arm(batch, batchAge, talk')

Finalize ==
  /\ flight.step = "finishing"
  /\ flight' = Landed /\ waitRounds' = 0
  /\ UNCHANGED talk /\ Rearmed
  /\ UNCHANGED <<batch, batchAge, heard, left>>

-----------------------------------------------------------------------------
(* The follow-up. *)

PendingOnly(t) == t.pending
Waits(t)       == t.pending /\ t.mode = "waiting_user"

FollowupFires ==
  /\ FollowupDue
  /\ LET t == [talk EXCEPT !.armed = FALSE] IN
       IF flight.step # "none" THEN talk' = t /\ UNCHANGED flight
       ELSE IF Waits(t) /\ t.energy >= Points(FollowupEnergy) /\ t.recent <= FollowupMaxRecent
       THEN talk' = t /\ flight' = [Landed EXCEPT !.step = "following up"]
       ELSE talk' = QuestionCleared(t) /\ UNCHANGED flight
  /\ UNCHANGED <<queue, left>>

\* A timer that the follow-up's own question armed is stopped again.
FollowUp ==
  /\ flight.step = "following up"
  /\ \/ \E question \in BOOLEAN : talk' = [Delivered(talk, question) EXCEPT !.armed = FALSE]
     \/ talk' = [talk EXCEPT !.armed = FALSE]
  /\ flight' = Landed /\ Rearmed
  /\ UNCHANGED <<batch, batchAge, waitRounds, heard, left>>

-----------------------------------------------------------------------------

Next ==
  \/ Tick \/ Look \/ Clear
  \/ \E m \in left.kinds : Enqueue(m)
  \/ \E question \in BOOLEAN : RepeatDelivered(question)
  \/ FlushBusy \/ TakeBatch \/ Evaluate \/ Decide \/ Reply \/ Finalize
  \/ \E seconds \in left.waits : Wait(seconds)
  \/ FollowupFires \/ FollowUp

Spec == Init /\ [][Next]_vars

-----------------------------------------------------------------------------

Modes == {"idle", "addressed", "in_thread", "waiting_user", "cooling_down"}

\* Types; the gate is closed while the bot cools down, an idle session has no focus and
\* no question, and whoever waits for an answer has asked (transitionToLocked).
TypeOK ==
  /\ talk.mode \in Modes /\ talk.energy \in 0 .. Points(100)
  /\ talk.replyAge \in 0 .. Far /\ talk.addressAge \in 0 .. Far
  /\ talk.mode = "idle" => talk.focus = Nobody /\ ~talk.pending
  /\ talk.armed => talk.pending
  /\ timer = Off \/ timer >= 0
  /\ batch = <<>> => batchAge = 0

\* Whoever armed the flush timer last, an arrival, a callback that found the session busy,
\* a wait or the end of a flush, it fires before the batch is older than MaxBatchWaitMS
\* allows, or at once, or after a wait the model asked for (computeFlushDecision).
DeadlineKept ==
  batch # <<>> =>
    /\ timer # Off
    /\ \/ timer = 0 \/ policy.maxWait = 0 \/ batchAge + timer <= policy.maxWait
       \/ waitRounds > 0 /\ \E wait \in left.waits : timer <= wait

\* A closed gate opens for a batch that is merely interesting only when the bot was being
\* talked to as its newest message arrived: the energy of a conversation does not outlive
\* it, neither through nudges nor through the lazy decay of the mode.
GateOpensInConversation ==
  flight.opened /\ flight.band = "observe" => flight.heard \in {"addressed", "in_thread"}

\* No follow-up starts when the one the bot asked has spoken since, unless they named the
\* bot in passing, which leaves the question open (tryFollowup).  One who answers while the
\* follow-up is being generated still gets it.
FollowupUnanswered ==
  [][flight.step = "none" /\ flight'.step = "following up" => talk.asked = Nobody \/ ~talk.answered]_vars
=============================================================================
