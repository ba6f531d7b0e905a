----------------------------- MODULE SpeakPolicy -----------------------------
(***************************************************************************)
(* When the immersive engine speaks (internal/bot/immersive): the score of  *)
(* a batch and its band, the energy of the conversation, the speak gate,    *)
(* and the delay after which a batch is flushed.                            *)
(*                                                                          *)
(* Times are in seconds, energies in fifths of a point (the energy moves by *)
(* 0.2 points a second).  A message is [by, mention, nick, question], nick  *)
(* the position of the bot's nickname: 0 for none, 1 in the middle, 2 at    *)
(* the end, 3 at the start, 4 when there is nothing else.                   *)
(***************************************************************************)
EXTENDS Integers, Sequences, FiniteSets

Nobody == "nobody"      \* no focus speaker; speakers are never called so

Points(n) == 5 * n

Less(a, b) == IF a < b THEN a ELSE b
More(a, b) == IF a > b THEN a ELSE b

SameSpeaker(a, b) == a = b /\ a # Nobody

-----------------------------------------------------------------------------
(* Messages. *)

NickStart == 3

Addressed(m)   == m.mention \/ m.nick > 0
StrongCall(m)  == m.mention \/ m.nick >= NickStart
WeakAddress(m) == Addressed(m) /\ ~StrongCall(m)

HasStrongCall(batch) == \E i \in DOMAIN batch : StrongCall(batch[i])

\* What the metadata of a batch counts.
Mentions(batch)  == Cardinality({i \in DOMAIN batch : batch[i].mention})
Questions(batch) == Cardinality({i \in DOMAIN batch : batch[i].question})
AsksBot(batch)   == Cardinality({i \in DOMAIN batch : batch[i].question /\ Addressed(batch[i])})
LastSpeaker(batch) == batch[Len(batch)].by

-----------------------------------------------------------------------------
(* Energy. *)

\* Where the energy goes in a mode.
Target(mode) == Points(CASE mode = "idle"         -> 45
                         [] mode = "addressed"    -> 60
                         [] mode = "in_thread"    -> 70
                         [] mode = "waiting_user" -> 40
                         [] mode = "cooling_down" -> 32)

RoundEnergy(energy) == (2 * energy + 5) \div 10

\* Time moves the energy towards its target, one fifth a second.
Recovered(energy, mode, seconds) ==
  IF energy < Target(mode) THEN Less(Target(mode), energy + seconds)
  ELSE More(Target(mode), energy - seconds)

\* A nudge or boost ends at the target, even when the energy was above it.
NudgedFreely(energy, mode, points) == Less(Points(100), energy + Points(points))
Nudged(energy, mode, points)       == Less(Target(mode), energy + Points(points))

ReplyCost(question) == Points(IF question THEN 12 ELSE 18)
Spent(energy, question) == More(0, energy - ReplyCost(question))

-----------------------------------------------------------------------------
(* Score and gate.  talk is the state of the conversation, replyAge the     *)
(* seconds since the bot's last reply.                                      *)

RecentReply == 45

ModePoints(batch, talk) ==
  CASE talk.mode = "addressed"    -> 3
    [] talk.mode = "in_thread"    -> 5
    [] talk.mode = "waiting_user" -> IF SameSpeaker(LastSpeaker(batch), talk.focus) THEN 4 ELSE -3
    [] talk.mode = "cooling_down" -> -4
    [] OTHER                      -> 0

When(condition, points) == IF condition THEN points ELSE 0

NickPoints(batch) ==
  LET At(place) == Cardinality({i \in DOMAIN batch : batch[i].nick = place})
  IN At(1) + 3 * At(2) + 6 * At(3) + 8 * At(4)

\* A question counts 1, and 3 more when it is put to the bot.
Score(batch, talk, private) ==
  LET focused == SameSpeaker(LastSpeaker(batch), talk.focus)
  IN More(0, When(private, 12) + 10 * Mentions(batch) + NickPoints(batch)
             + Questions(batch) + 3 * AsksBot(batch)
             + When(focused, 3) + ModePoints(batch, talk) + When(talk.pending /\ focused, 4)
             + When(Len(batch) >= 3, 1) + When(talk.replyAge < RecentReply, -2) + When(talk.coldOpen > 0, 4))

Band(score) ==
  IF score >= 10 THEN "high_priority"
  ELSE IF score >= 5 THEN "engage"
  ELSE IF score >= 2 THEN "observe"
  ELSE "ignore"

OpenThreshold  == 56
CloseThreshold == 44

Allowed(band, batch, talk) ==
  LET energy == RoundEnergy(talk.energy) IN
    \/ band = "high_priority"
    \/ talk.mode = "in_thread" /\ SameSpeaker(LastSpeaker(batch), talk.focus) /\ energy >= CloseThreshold
    \/ band = "engage" /\ energy >= CloseThreshold
    \/ band = "observe" /\ energy >= (IF talk.gate THEN CloseThreshold ELSE OpenThreshold)

\* A private message that asks or mentions is answered without asking the model whether.
BypassesIntent(band, batch, private) ==
  /\ private /\ band = "high_priority"
  /\ \E i \in DOMAIN batch : Addressed(batch[i])
  /\ Questions(batch) + Mentions(batch) > 0

-----------------------------------------------------------------------------
(* The delay of the flush timer.  age: seconds since the oldest message of  *)
(* the batch.                                                               *)

\* What normalizeImmersiveConfig makes of a configuration: a limit of 0 is none.
Normalized(policy) ==
  /\ policy.minWait \in Nat /\ policy.maxWait \in Nat /\ policy.maxSize \in Nat
  /\ \A part \in {"postReply", "strongWait", "followup", "coldInterval", "quiet"} : policy[part] \in Nat \ {0}

\* What is left of a delay when the batch has a deadline.
Capped(policy, age, delay) == IF policy.maxWait > 0 THEN Less(delay, policy.maxWait - age) ELSE delay

FlushNow(policy, batch, age, private) ==
  \/ private
  \/ policy.maxSize > 0 /\ Len(batch) >= policy.maxSize
  \/ policy.maxWait > 0 /\ age >= policy.maxWait

Cooling(policy, talk) == talk.mode = "cooling_down" /\ talk.replyAge < policy.postReply

DelayOf(policy, batch, talk) ==
  CASE HasStrongCall(batch)   -> IF policy.minWait > 0 THEN Less(policy.strongWait, policy.minWait) ELSE policy.strongWait
    [] ~HasStrongCall(batch) /\ Cooling(policy, talk) -> More(policy.postReply - talk.replyAge, policy.minWait)
    [] OTHER                  -> IF policy.minWait = 0 /\ policy.maxWait > 0 THEN policy.maxWait ELSE policy.minWait

UncappedDelay(policy, batch, age, talk, private) ==
  IF FlushNow(policy, batch, age, private) THEN 0 ELSE DelayOf(policy, batch, talk)
FlushDelay(policy, batch, age, talk, private) ==
  IF FlushNow(policy, batch, age, private) THEN 0 ELSE Capped(policy, age, DelayOf(policy, batch, talk))

\* The model's wait counts when it is the longer one.
Merged(local, wait) == More(local, wait)
=============================================================================
