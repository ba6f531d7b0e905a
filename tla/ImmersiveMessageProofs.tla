----------------------- MODULE ImmersiveMessageProofs -----------------------
(***************************************************************************)
(* What ImmersiveSession does with its messages, for every value of the     *)
(* constants: it implements SessionMailbox, logs a message at most once,    *)
(* defers it a bounded number of times, sends at most one late reply, and   *)
(* lets no follow-up timer run without a question.                          *)
(***************************************************************************)
EXTENDS ImmersiveSessionProofs

(* Where a worker holds no batch, and where its batch is not yet answered.  *)
EmptyHanded == {"idle", "fu_check", "fu_reply", "fu_finalize"}
Asking      == {"persist", "gate", "decide", "reply"}

Elems(s) == {s[i] : i \in DOMAIN s}

(* Appending, joining, deferring and marking, by the messages they leave.   *)
LEMMA ElemsOfSeq ==
  ASSUME NEW s \in Seq(Queued)
  PROVE  /\ Elems(s) \subseteq Queued
         /\ \A e \in Queued : Elems(Append(s, e)) = Elems(s) \cup {e}
         /\ \A q \in Seq(Queued) : Elems(s \o q) = Elems(s) \cup Elems(q)
         /\ Elems(<<>>) = {}
<1>1. Len(s) \in Nat /\ DOMAIN s = 1..Len(s) /\ \A i \in DOMAIN s : s[i] \in Queued
  BY LenProperties, ElementOfSeq
<1>2. Elems(s) \subseteq Queued
  BY <1>1 DEF Elems
<1>3. ASSUME NEW e \in Queued PROVE Elems(Append(s, e)) = Elems(s) \cup {e}
  <2>1. /\ DOMAIN Append(s, e) = 1..Len(s) + 1
        /\ \A i \in 1..Len(s) : Append(s, e)[i] = s[i]
        /\ Append(s, e)[Len(s) + 1] = e
    BY AppendProperties, <1>1
  <2>2. 1..Len(s) + 1 = (1..Len(s)) \cup {Len(s) + 1}
    BY <1>1
  <2> QED BY <2>1, <2>2, <1>1 DEF Elems
<1>4. ASSUME NEW q \in Seq(Queued) PROVE Elems(s \o q) = Elems(s) \cup Elems(q)
  <2>1. Len(q) \in Nat /\ DOMAIN q = 1..Len(q)
    BY LenProperties
  <2>2. /\ Len(s \o q) = Len(s) + Len(q) /\ s \o q \in Seq(Queued)
        /\ \A i \in 1..Len(s) + Len(q) : (s \o q)[i] = IF i <= Len(s) THEN s[i] ELSE q[i - Len(s)]
    BY ConcatProperties
  <2>3. DOMAIN (s \o q) = 1..Len(s) + Len(q)
    BY <2>2, LenProperties
  <2>4. \A i \in DOMAIN s : i \in DOMAIN (s \o q) /\ (s \o q)[i] = s[i]
    BY <2>1, <2>2, <2>3, <1>1
  <2>5. \A i \in DOMAIN q : i + Len(s) \in DOMAIN (s \o q) /\ (s \o q)[i + Len(s)] = q[i]
    BY <2>1, <2>2, <2>3, <1>1
  <2>6. \A i \in DOMAIN (s \o q) : \/ i \in DOMAIN s /\ (s \o q)[i] = s[i]
                                   \/ i - Len(s) \in DOMAIN q /\ (s \o q)[i] = q[i - Len(s)]
    BY <2>1, <2>2, <2>3, <1>1
  <2>7. Elems(s) \subseteq Elems(s \o q)
    BY <2>4 DEF Elems
  <2>8. ASSUME NEW i \in DOMAIN q PROVE q[i] \in Elems(s \o q)
    <3>1. i + Len(s) \in DOMAIN (s \o q) /\ (s \o q)[i + Len(s)] = q[i]
      BY <2>5
    <3> QED BY <3>1 DEF Elems
  <2>9. ASSUME NEW i \in DOMAIN (s \o q) PROVE (s \o q)[i] \in Elems(s) \cup Elems(q)
    BY <2>6 DEF Elems
  <2> QED BY <2>7, <2>8, <2>9 DEF Elems
<1>5. Elems(<<>>) = {}
  BY DEF Elems
<1> QED BY <1>2, <1>3, <1>4, <1>5

LEMMA ElemsOfBatch ==
  ASSUME NEW s \in Seq(Queued)
  PROVE  /\ \A m \in Elems(Deferred(s)) : \E old \in Elems(s) :
              /\ m.id = old.id /\ m.era = old.era /\ m.waits = old.waits + 1
              /\ m.persisted = old.persisted
         /\ \A a : \A m \in Elems(Marked(s, a)) : \E old \in Elems(s) :
              /\ m.id = old.id /\ m.era = old.era /\ m.waits = old.waits
              /\ m.persisted <=> old.persisted \/ old.id \in a
         /\ \A m \in Elems(s) : m.id \in Ids(s)
         /\ \A id \in Ids(s) : \E m \in Elems(s) : id = m.id
<1>1. \A i \in DOMAIN s : s[i] \in Queued
  BY ElementOfSeq, LenProperties
<1>2. ASSUME NEW m \in Elems(Deferred(s))
      PROVE  \E old \in Elems(s) : /\ m.id = old.id /\ m.era = old.era /\ m.waits = old.waits + 1
                                   /\ m.persisted = old.persisted
  <2>1. PICK i \in DOMAIN s : m = [s[i] EXCEPT !.waits = @ + 1]
    BY Zenon DEF Elems, Deferred
  <2>2. m.id = s[i].id /\ m.era = s[i].era /\ m.waits = s[i].waits + 1 /\ m.persisted = s[i].persisted
    BY <1>1, <2>1 DEF Queued
  <2> QED BY <2>2, Zenon DEF Elems
<1>3. ASSUME NEW a, NEW m \in Elems(Marked(s, a))
      PROVE  \E old \in Elems(s) : /\ m.id = old.id /\ m.era = old.era /\ m.waits = old.waits
                                   /\ m.persisted <=> old.persisted \/ old.id \in a
  <2>1. PICK i \in DOMAIN s : m = [s[i] EXCEPT !.persisted = @ \/ s[i].id \in a]
    BY Zenon DEF Elems, Marked
  <2>2. m.id = s[i].id /\ m.era = s[i].era /\ m.waits = s[i].waits
    BY <1>1, <2>1 DEF Queued
  <2>3. m.persisted <=> s[i].persisted \/ s[i].id \in a
    <3>1. s[i] \in Queued
      BY <1>1
    <3>2. m.persisted = (s[i].persisted \/ s[i].id \in a)
      BY <2>1, <3>1, Zenon DEF Queued
    <3> QED BY <3>2
  <2> QED BY <2>2, <2>3, Zenon DEF Elems
<1>4. /\ \A m \in Elems(s) : m.id \in Ids(s)
      /\ \A id \in Ids(s) : \E m \in Elems(s) : id = m.id
  BY Zenon DEF Elems, Ids
<1> QED BY <1>2, <1>3, <1>4, Zenon

(* The numbers of the messages, in order.                                   *)
LEMMA IdsOfSeq ==
  ASSUME NEW s \in Seq(Queued)
  PROVE  /\ IdsInOrder(<<>>) = <<>>
         /\ \A e \in Queued : IdsInOrder(Append(s, e)) = Append(IdsInOrder(s), e.id)
         /\ \A a : IdsInOrder(Marked(s, a)) = IdsInOrder(s)
         /\ \A q \in Seq(Queued) : IdsInOrder(Requeued(s, q)) = IdsInOrder(s) \o IdsInOrder(q)
         /\ IdsInOrder(s) \in Seq(Messages)
         /\ {IdsInOrder(s)[i] : i \in DOMAIN IdsInOrder(s)} = Ids(s)
<1>1. ASSUME NEW t \in Seq(Queued)
      PROVE  /\ Len(t) \in Nat /\ DOMAIN t = 1..Len(t) /\ \A i \in DOMAIN t : t[i] \in Queued
             /\ IdsInOrder(t) \in Seq(Messages) /\ Len(IdsInOrder(t)) = Len(t)
             /\ DOMAIN IdsInOrder(t) = 1..Len(t) /\ \A i \in 1..Len(t) : IdsInOrder(t)[i] = t[i].id
  <2>1. Len(t) \in Nat /\ DOMAIN t = 1..Len(t) /\ \A i \in DOMAIN t : t[i] \in Queued
    BY LenProperties, ElementOfSeq
  <2>2. /\ IdsInOrder(t) \in [1..Len(t) -> Messages]
        /\ \A i \in 1..Len(t) : IdsInOrder(t)[i] = t[i].id
    BY <2>1 DEF IdsInOrder, Queued
  <2>3. IdsInOrder(t) \in Seq(Messages) /\ DOMAIN IdsInOrder(t) = 1..Len(t)
    BY <2>1, <2>2, SeqDef
  <2>4. Len(IdsInOrder(t)) = Len(t)
    BY <2>1, <2>3, LenProperties
  <2> QED BY <2>1, <2>2, <2>3, <2>4
<1>2. IdsInOrder(<<>>) = <<>>
  <2>1. <<>> \in Seq(Queued) /\ Len(<<>>) = 0
    BY EmptySeq
  <2>2. Len(IdsInOrder(<<>>)) = 0 /\ IdsInOrder(<<>>) \in Seq(Messages)
    BY <1>1, <2>1
  <2> QED BY <2>2, EmptySeq
<1>3. ASSUME NEW e \in Queued PROVE IdsInOrder(Append(s, e)) = Append(IdsInOrder(s), e.id)
  <2>1. /\ Append(s, e) \in Seq(Queued) /\ Len(Append(s, e)) = Len(s) + 1
        /\ \A i \in 1..Len(s) : Append(s, e)[i] = s[i]
        /\ Append(s, e)[Len(s) + 1] = e
    BY AppendProperties
  <2>2. e.id \in Messages
    BY DEF Queued
  <2>3. /\ Append(IdsInOrder(s), e.id) \in Seq(Messages)
        /\ Len(Append(IdsInOrder(s), e.id)) = Len(s) + 1
        /\ \A i \in 1..Len(s) : Append(IdsInOrder(s), e.id)[i] = s[i].id
        /\ Append(IdsInOrder(s), e.id)[Len(s) + 1] = e.id
    BY <1>1, <2>2, AppendProperties
  <2>4. /\ IdsInOrder(Append(s, e)) \in Seq(Messages)
        /\ Len(IdsInOrder(Append(s, e))) = Len(s) + 1
        /\ \A i \in 1..Len(s) + 1 : IdsInOrder(Append(s, e))[i] = Append(s, e)[i].id
    BY <1>1, <2>1
  <2>5. \A i \in 1..Len(s) + 1 : i \in 1..Len(s) \/ i = Len(s) + 1
    BY <1>1
  <2>6. \A i \in 1..Len(s) + 1 : IdsInOrder(Append(s, e))[i] = Append(IdsInOrder(s), e.id)[i]
    BY <2>1, <2>3, <2>4, <2>5
  <2> QED BY <2>3, <2>4, <2>6, SeqEqual
<1>4. ASSUME NEW a PROVE IdsInOrder(Marked(s, a)) = IdsInOrder(s)
  BY BatchTypes, <1>1 DEF IdsInOrder
<1>5. ASSUME NEW q \in Seq(Queued) PROVE IdsInOrder(Requeued(s, q)) = IdsInOrder(s) \o IdsInOrder(q)
  <2> DEFINE d == Deferred(s)
  <2>1. /\ d \in Seq(Queued) /\ DOMAIN d = DOMAIN s
        /\ \A i \in DOMAIN s : d[i].id = s[i].id
    BY BatchTypes
  <2> HIDE DEF d
  <2>2. Len(d) = Len(s)
    BY <2>1, <1>1, LenProperties
  <2>3. /\ d \o q \in Seq(Queued) /\ Len(d \o q) = Len(s) + Len(q)
        /\ \A i \in 1..Len(s) + Len(q) : (d \o q)[i] = IF i <= Len(s) THEN d[i] ELSE q[i - Len(s)]
    <3>1. /\ d \o q \in Seq(Queued) /\ Len(d \o q) = Len(d) + Len(q)
          /\ \A i \in 1..Len(d) + Len(q) : (d \o q)[i] = IF i <= Len(d) THEN d[i] ELSE q[i - Len(d)]
      BY <2>1, ConcatProperties, Zenon
    <3> QED BY <3>1, <2>2, Zenon
  <2>4. /\ IdsInOrder(d \o q) \in Seq(Messages) /\ Len(IdsInOrder(d \o q)) = Len(s) + Len(q)
        /\ \A i \in 1..Len(s) + Len(q) : IdsInOrder(d \o q)[i] = (d \o q)[i].id
    BY <2>3, <1>1
  <2>5. /\ IdsInOrder(s) \o IdsInOrder(q) \in Seq(Messages)
        /\ Len(IdsInOrder(s) \o IdsInOrder(q)) = Len(s) + Len(q)
        /\ \A i \in 1..Len(s) + Len(q) :
             (IdsInOrder(s) \o IdsInOrder(q))[i] = IF i <= Len(s) THEN IdsInOrder(s)[i] ELSE IdsInOrder(q)[i - Len(s)]
    <3> DEFINE a == IdsInOrder(s)
               b == IdsInOrder(q)
    <3>1. a \in Seq(Messages) /\ b \in Seq(Messages) /\ Len(a) = Len(s) /\ Len(b) = Len(q)
      BY <1>1
    <3> HIDE DEF a, b
    <3>2. /\ a \o b \in Seq(Messages) /\ Len(a \o b) = Len(a) + Len(b)
          /\ \A i \in 1..Len(a) + Len(b) : (a \o b)[i] = IF i <= Len(a) THEN a[i] ELSE b[i - Len(a)]
      BY <3>1, ConcatProperties, Zenon
    <3>3. /\ a \o b \in Seq(Messages) /\ Len(a \o b) = Len(s) + Len(q)
          /\ \A i \in 1..Len(s) + Len(q) : (a \o b)[i] = IF i <= Len(s) THEN a[i] ELSE b[i - Len(s)]
      BY <3>1, <3>2, Zenon
    <3> QED BY <3>3 DEF a, b
  <2>6. ASSUME NEW i \in 1..Len(s) + Len(q)
        PROVE  IdsInOrder(d \o q)[i] = (IdsInOrder(s) \o IdsInOrder(q))[i]
    <3>1. CASE i <= Len(s)
      <4>1. i \in 1..Len(s)
        BY <3>1, <1>1
      <4> QED BY <3>1, <4>1, <2>1, <2>3, <2>4, <2>5, <1>1
    <3>2. CASE ~(i <= Len(s))
      <4>1. i - Len(s) \in 1..Len(q)
        BY <3>2, <1>1
      <4> QED BY <3>2, <4>1, <2>3, <2>4, <2>5, <1>1
    <3> QED BY <3>1, <3>2
  <2>7. IdsInOrder(d \o q) = IdsInOrder(s) \o IdsInOrder(q)
    BY <2>4, <2>5, <2>6, SeqEqual
  <2> QED BY <2>7 DEF Requeued, d
<1>6. {IdsInOrder(s)[i] : i \in DOMAIN IdsInOrder(s)} = Ids(s)
  BY <1>1 DEF Ids
<1> QED BY <1>1, <1>2, <1>3, <1>4, <1>5, <1>6

-----------------------------------------------------------------------------
(* Steps by what they do to messages: nothing; a worker moves on without    *)
(* taking or asking anew; or an action that matters.                        *)
Still == UNCHANGED <<nextBatch, batch, pc, rounds, waitRounds, accepted, rows, answers, clears>>

MovesOn(w, step) ==
  /\ pc' = [pc EXCEPT ![w] = step]
  /\ step \in Steps \ {"idle"}
  /\ step \in EmptyHanded <=> pc[w] \in EmptyHanded
  /\ step \in Asking => pc[w] \in Asking
  /\ UNCHANGED <<nextBatch, batch, rounds, waitRounds, accepted, rows, answers, clears>>

Matters(w) ==
  \/ TakeBatch(w) \/ Finalize(w) \/ FollowupFinalize(w)
  \/ \E appended \in SUBSET Ids(batch[w]) : Persist(w, appended)
  \/ \E intent \in Intents : Wait(w, intent)
  \/ \E question \in BOOLEAN : Reply(w, question)

LEMMA Sorted ==
  ASSUME [Next]_vars
  PROVE  \/ Still \/ Clear \/ FlushDisabled
         \/ \E kind \in Kinds, persisted \in BOOLEAN : Enqueue(kind, persisted)
         \/ \E w \in Workers : Matters(w) \/ \E step \in Steps : MovesOn(w, step)
<1> USE DEF queue, timers, manager, locals, messages, commands
<1>1. ASSUME NEW on \in BOOLEAN, SetEnabled(on) PROVE Still
  BY <1>1, Zenon DEF SetEnabled, Switch, Still
<1>2. ChatOn \/ ChatOff => Still
  BY Zenon DEF ChatOn, ChatOff, Switch, Still
<1>3. Arrive \/ RouterDecay => Still
  BY Zenon DEF Arrive, RouterDecay, Still
<1>4. ASSUME NEW question \in BOOLEAN, RepeatDelivered(question) PROVE Still
  BY <1>4, Zenon DEF RepeatDelivered, Still
<1>5. FlushTimerFires \/ FollowupTimerFires \/ OrphanFires => Still
  BY Zenon DEF FlushTimerFires, FollowupTimerFires, OrphanFires, Still
<1>6. FlushWhileBusy \/ FlushEmpty => Still
  BY Zenon DEF FlushWhileBusy, FlushEmpty, Still
<1>7. FollowupWhileBusy \/ FollowupDropped => Still
  BY Zenon DEF FollowupWhileBusy, FollowupDropped, Still
<1>8. UNCHANGED vars => Still
  BY Zenon DEF vars, Still
<1>9. ASSUME NEW w \in Workers, StartFollowup(w) PROVE \E step \in Steps : MovesOn(w, step)
  <2>1. MovesOn(w, "fu_check")
    BY <1>9 DEF StartFollowup, MovesOn, Steps, EmptyHanded, Asking
  <2> QED BY <2>1 DEF Steps
<1>10. ASSUME NEW w \in Workers, NEW allow \in BOOLEAN, Gate(w, allow)
       PROVE  \E step \in Steps : MovesOn(w, step)
  <2>1. MovesOn(w, "decide") \/ MovesOn(w, "finalize")
    BY <1>10 DEF Gate, MovesOn, Steps, EmptyHanded, Asking
  <2> QED BY <2>1 DEF Steps
<1>11. ASSUME NEW w \in Workers, NEW intent \in Intents, Decide(w, intent)
       PROVE  \E step \in Steps : MovesOn(w, step)
  <2>1. MovesOn(w, "reply") \/ MovesOn(w, "finalize")
    BY <1>11 DEF Decide, MovesOn, Steps, EmptyHanded, Asking
  <2> QED BY <2>1 DEF Steps
<1>12. ASSUME NEW w \in Workers, ReplyFails(w) PROVE \E step \in Steps : MovesOn(w, step)
  <2>1. MovesOn(w, "finalize") \/ MovesOn(w, "fu_finalize")
    BY <1>12 DEF ReplyFails, After, MovesOn, Steps, EmptyHanded, Asking
  <2> QED BY <2>1 DEF Steps
<1>13. ASSUME NEW w \in Workers, FollowupCheck(w) PROVE \E step \in Steps : MovesOn(w, step)
  <2>1. MovesOn(w, "fu_reply") \/ MovesOn(w, "fu_finalize")
    BY <1>13 DEF FollowupCheck, MovesOn, Steps, EmptyHanded, Asking
  <2> QED BY <2>1 DEF Steps
<1>14. ASSUME NEW w \in Workers, Work(w)
       PROVE  Matters(w) \/ \E step \in Steps : MovesOn(w, step)
  BY <1>10, <1>11, <1>12, <1>13, <1>14, Zenon DEF Work, Matters
<1>15. Environment => Still \/ Clear \/ \E kind \in Kinds, persisted \in BOOLEAN : Enqueue(kind, persisted)
  BY <1>1, <1>2, <1>3, <1>4, Zenon DEF Environment
<1>16. Flush => Still \/ FlushDisabled \/ \E w \in Workers : Matters(w)
  BY <1>6, Zenon DEF Flush, Matters
<1>17. Followup => Still \/ \E w \in Workers : \E step \in Steps : MovesOn(w, step)
  BY <1>7, <1>9, Zenon DEF Followup
<1> QED BY <1>5, <1>8, <1>14, <1>15, <1>16, <1>17, Zenon DEF Next

-----------------------------------------------------------------------------
(* Where the messages are.  Only a flush that goes on holds a batch, what   *)
(* it holds is not in the buffer, and nothing that waits in the buffer or   *)
(* for the model's decision has been answered.                              *)
MessageInv ==
  /\ \A w \in Workers : pc[w] \in EmptyHanded => batch[w] = <<>>
  /\ \A m \in Elems(nextBatch) : m.id <= accepted /\ answers[m.id] = 0
  /\ \A w \in Workers : \A m \in Elems(batch[w]) :
       m.id <= accepted /\ (pc[w] \in Asking => answers[m.id] = 0)
  /\ \A w \in Workers : \A m \in Elems(batch[w]), n \in Elems(nextBatch) : m.id # n.id
  /\ \A m \in Messages : m > accepted => answers[m] = 0

(* A busy worker is alone: the batches of the others are empty.             *)
LEMMA Alone ==
  ASSUME SingleOwner, MessageInv, NEW w \in Workers
  PROVE  /\ pc[w] # "idle" => \A v \in Workers : v # w => batch[v] = <<>>
         /\ ~inFlight => \A v \in Workers : batch[v] = <<>>
  BY Zenon DEF SingleOwner, MessageInv, EmptyHanded

(* What a worker holds and what is buffered are messages.                   *)
LEMMA HeldTypes ==
  ASSUME TypeInv
  PROVE  /\ nextBatch \in Seq(Queued) /\ Elems(nextBatch) \subseteq Queued
         /\ \A w \in Workers : batch[w] \in Seq(Queued) /\ Elems(batch[w]) \subseteq Queued
         /\ accepted \in Nat /\ clears \in Nat /\ waitRounds \in Nat
         /\ answers \in [Messages -> Nat] /\ rows \in [Messages -> Nat]
         /\ pc \in [Workers -> Steps] /\ rounds \in [Workers -> Nat]
<1>1. nextBatch \in Seq(Queued) /\ \A w \in Workers : batch[w] \in Seq(Queued)
  BY DEF TypeInv, TypeOK, QueueOK, LocalsOK
<1>2. accepted \in Nat /\ clears \in Nat /\ waitRounds \in Nat
  BY ConstantsAssumption DEF TypeInv, TypeOK, CountersOK, QueueOK
<1>3. /\ answers \in [Messages -> Nat] /\ rows \in [Messages -> Nat]
      /\ pc \in [Workers -> Steps] /\ rounds \in [Workers -> Nat]
  BY DEF TypeInv, TypeOK, HistoryOK, LocalsOK
<1> QED BY <1>1, <1>2, <1>3, ElemsOfSeq

LEMMA WorkerBatch ==
  ASSUME TypeInv, NEW w \in Workers
  PROVE  /\ \A m \in Elems(Deferred(batch[w])) : \E old \in Elems(batch[w]) :
              /\ m.id = old.id /\ m.era = old.era /\ m.waits = old.waits + 1
              /\ m.persisted = old.persisted
         /\ \A a : \A m \in Elems(Marked(batch[w], a)) : \E old \in Elems(batch[w]) :
              /\ m.id = old.id /\ m.era = old.era /\ m.waits = old.waits
              /\ m.persisted <=> old.persisted \/ old.id \in a
         /\ \A m \in Elems(batch[w]) : m.id \in Ids(batch[w])
         /\ \A id \in Ids(batch[w]) : \E m \in Elems(batch[w]) : id = m.id
<1>1. batch[w] \in Seq(Queued)
  BY HeldTypes, Zenon
<1> QED BY <1>1, ElemsOfBatch

(* A worker lets its batch go, answered or not.                             *)
LEMMA MessagesReturned ==
  ASSUME TypeInv, MessageInv, NEW w \in Workers, Return(w), UNCHANGED <<nextBatch, accepted, answers>>
  PROVE  MessageInv'
<1>1. \A v \in Workers : /\ batch[v]' = IF v = w THEN <<>> ELSE batch[v]
                         /\ pc[v]' = IF v = w THEN "idle" ELSE pc[v]
  BY HeldTypes DEF Return, TypeInv, TypeOK, LocalsOK
<1>2. Elems(<<>>) = {}
  BY ElemsOfSeq, EmptySeq
<1>3. ASSUME NEW v \in Workers
      PROVE  /\ pc[v]' \in EmptyHanded => batch[v]' = <<>>
             /\ \A m \in Elems(batch[v]') : m.id <= accepted' /\ (pc[v]' \in Asking => answers[m.id]' = 0)
             /\ \A m \in Elems(batch[v]'), n \in Elems(nextBatch') : m.id # n.id
  BY <1>1, <1>2, Zenon DEF MessageInv
<1> QED BY <1>3, Zenon DEF MessageInv

LEMMA MessageStep == TypeInv /\ SingleOwner /\ MessageInv /\ [Next]_vars => MessageInv'
<1> SUFFICES ASSUME TypeInv, SingleOwner, MessageInv, [Next]_vars
             PROVE  MessageInv'
  OBVIOUS
<1>0. Elems(<<>>) = {}
  BY ElemsOfSeq, EmptySeq
<1>1. CASE Still
  BY <1>1, Zenon DEF Still, MessageInv
<1>2. CASE Clear \/ FlushDisabled
  <2>1. nextBatch' = <<>> /\ UNCHANGED <<batch, pc, accepted, answers>>
    BY <1>2, Zenon DEF Clear, FlushDisabled, locals, messages
  <2> QED BY <2>1, <1>0, Zenon DEF MessageInv
<1>3. ASSUME NEW kind \in Kinds, NEW persisted \in BOOLEAN, Enqueue(kind, persisted)
      PROVE  MessageInv'
  <2> DEFINE new == [id |-> accepted + 1, persisted |-> persisted, waits |-> 0, era |-> clears]
  <2>1. accepted + 1 \in Messages /\ new \in Queued /\ new.id = accepted + 1
    BY <1>3, ConstantsAssumption DEF Enqueue, TypeInv, TypeOK, CountersOK, Bounds, Messages, Queued
  <2>2. nextBatch' = Append(nextBatch, new) /\ accepted' = accepted + 1 /\ UNCHANGED <<batch, pc, answers>>
    BY <1>3 DEF Enqueue, locals
  <2> HIDE DEF new
  <2>3. Elems(nextBatch') = Elems(nextBatch) \cup {new}
    BY <2>1, <2>2, ElemsOfSeq, HeldTypes
  <2>4. \A m \in Elems(nextBatch') : m.id <= accepted' /\ answers[m.id]' = 0
    <3>1. answers[accepted + 1] = 0
      BY <2>1, HeldTypes DEF MessageInv
    <3>2. \A m \in Elems(nextBatch) : m.id \in Nat /\ m.id <= accepted /\ answers[m.id] = 0
      BY HeldTypes DEF MessageInv, Queued, Messages
    <3> QED BY <2>1, <2>2, <2>3, <3>1, <3>2, HeldTypes
  <2>5. ASSUME NEW w \in Workers, NEW m \in Elems(batch[w])
        PROVE  m.id \in Nat /\ m.id <= accepted /\ m.id <= accepted' /\ m.id # accepted + 1
    <3>1. m.id \in Nat /\ m.id <= accepted
      BY HeldTypes DEF MessageInv, Queued, Messages
    <3> QED BY <3>1, <2>2, HeldTypes
  <2>6. \A w \in Workers : \A m \in Elems(batch[w]), n \in Elems(nextBatch') : m.id # n.id
    BY <2>1, <2>3, <2>5, Zenon DEF MessageInv
  <2>7. \A m \in Messages : m > accepted' => answers[m] = 0
    <3>1. \A m \in Messages : m > accepted + 1 => m > accepted
      BY HeldTypes DEF Messages
    <3> QED BY <3>1, <2>2, Zenon DEF MessageInv
  <2> QED BY <2>2, <2>4, <2>5, <2>6, <2>7, Zenon DEF MessageInv
<1>4. ASSUME NEW w \in Workers, NEW step \in Steps, MovesOn(w, step)
      PROVE  MessageInv'
  <2>1. \A v \in Workers : pc[v]' = IF v = w THEN step ELSE pc[v]
    BY <1>4, HeldTypes DEF MovesOn
  <2>2. \A v \in Workers : (pc[v]' \in EmptyHanded => pc[v] \in EmptyHanded) /\ (pc[v]' \in Asking => pc[v] \in Asking)
    BY <2>1, <1>4, Zenon DEF MovesOn
  <2> QED BY <2>2, <1>4, Zenon DEF MovesOn, MessageInv
<1>5. ASSUME NEW w \in Workers, TakeBatch(w)
      PROVE  MessageInv'
  <2>1. \A v \in Workers : /\ batch[v]' = IF v = w THEN nextBatch ELSE batch[v]
                           /\ pc[v]' = IF v = w THEN "persist" ELSE pc[v]
    BY <1>5, HeldTypes DEF TakeBatch, TypeInv, TypeOK, LocalsOK
  <2>2. nextBatch' = <<>> /\ UNCHANGED <<accepted, answers>> /\ ~inFlight
    BY <1>5, Zenon DEF TakeBatch, messages
  <2>3. "persist" \notin EmptyHanded
    BY DEF EmptyHanded
  <2> QED BY <2>1, <2>2, <2>3, <1>0, Zenon DEF MessageInv
<1>6. ASSUME NEW w \in Workers, NEW appended \in SUBSET Ids(batch[w]), Persist(w, appended)
      PROVE  MessageInv'
  <2>1. \A v \in Workers : /\ batch[v]' = IF v = w THEN Marked(batch[w], appended) ELSE batch[v]
                           /\ pc[v]' = IF v = w THEN "gate" ELSE pc[v]
    BY <1>6, HeldTypes DEF Persist, TypeInv, TypeOK, LocalsOK
  <2>2. UNCHANGED <<nextBatch, accepted, answers>> /\ pc[w] \in Asking
    BY <1>6 DEF Persist, queue, Asking
  <2>3. "gate" \notin EmptyHanded
    BY DEF EmptyHanded
  <2>4. \A m \in Elems(Marked(batch[w], appended)) : \E old \in Elems(batch[w]) : m.id = old.id
    <3> SUFFICES ASSUME NEW m \in Elems(Marked(batch[w], appended))
                 PROVE  \E old \in Elems(batch[w]) : m.id = old.id
      OBVIOUS
    <3> QED BY WorkerBatch
  <2>5. \A v \in Workers : \A m \in Elems(batch[v]') : \E old \in Elems(batch[v]) : m.id = old.id
    BY <2>1, <2>4, Zenon
  <2>6. \A v \in Workers : pc[v]' \in EmptyHanded => batch[v]' = <<>>
    BY <2>1, <2>3, Zenon DEF MessageInv
  <2>7. ASSUME NEW v \in Workers, NEW m \in Elems(batch[v]')
        PROVE  /\ m.id <= accepted' /\ (pc[v]' \in Asking => answers[m.id]' = 0)
               /\ \A n \in Elems(nextBatch') : m.id # n.id
    <3>1. PICK old \in Elems(batch[v]) : m.id = old.id
      BY <2>5
    <3>2. pc[v]' \in Asking => pc[v] \in Asking
      BY <2>1, <2>2, Zenon
    <3> QED BY <3>1, <3>2, <2>2, Zenon DEF MessageInv
  <2> QED BY <2>2, <2>6, <2>7, Zenon DEF MessageInv
<1>7. ASSUME NEW w \in Workers, NEW intent \in Intents, Wait(w, intent)
      PROVE  MessageInv'
  <2>1. \A v \in Workers : /\ batch[v]' = IF v = w THEN <<>> ELSE batch[v]
                           /\ pc[v]' = IF v = w THEN "idle" ELSE pc[v]
    BY <1>7, HeldTypes DEF Wait, Return, TypeInv, TypeOK, LocalsOK
  <2>2. /\ UNCHANGED <<accepted, answers>> /\ pc[w] \in Asking /\ pc[w] # "idle"
        /\ nextBatch' = Deferred(batch[w]) \o nextBatch
    BY <1>7 DEF Wait, messages, Asking, Requeued
  <2>3. Elems(nextBatch') = Elems(Deferred(batch[w])) \cup Elems(nextBatch)
    BY <2>2, ElemsOfSeq, BatchTypes, HeldTypes
  <2>4. \A m \in Elems(Deferred(batch[w])) : \E old \in Elems(batch[w]) : m.id = old.id
    <3> SUFFICES ASSUME NEW m \in Elems(Deferred(batch[w]))
                 PROVE  \E old \in Elems(batch[w]) : m.id = old.id
      OBVIOUS
    <3> QED BY WorkerBatch
  <2>5. \A v \in Workers : batch[v]' = <<>>
    BY <2>1, <2>2, Alone, Zenon
  <2>6. ASSUME NEW m \in Elems(nextBatch') PROVE m.id <= accepted' /\ answers[m.id]' = 0
    <3>1. CASE m \in Elems(nextBatch)
      BY <3>1, <2>2, Zenon DEF MessageInv
    <3>2. CASE m \in Elems(Deferred(batch[w]))
      <4>1. PICK old \in Elems(batch[w]) : m.id = old.id
        BY <3>2, <2>4
      <4> QED BY <4>1, <2>2, Zenon DEF MessageInv
    <3> QED BY <3>1, <3>2, <2>3
  <2>7. \A m \in Messages : m > accepted' => answers[m]' = 0
    BY <2>2, Zenon DEF MessageInv
  <2> QED BY <2>5, <2>6, <2>7, <1>0, Zenon DEF MessageInv
<1>8. ASSUME NEW w \in Workers, NEW question \in BOOLEAN, Reply(w, question)
      PROVE  MessageInv'
  <2>1. /\ pc[w] \in {"reply", "fu_reply"} /\ UNCHANGED <<nextBatch, batch, accepted>>
        /\ \A v \in Workers : pc[v]' = IF v = w THEN After(pc[w]) ELSE pc[v]
        /\ \A m \in Messages : answers[m]' = answers[m] + IF m \in Ids(batch[w]) THEN 1 ELSE 0
    BY <1>8, HeldTypes DEF Reply, TypeInv, TypeOK, LocalsOK
  <2>2. \A m \in Messages : m \notin Ids(batch[w]) => answers[m]' = answers[m]
    BY <2>1, HeldTypes
  <2>3. /\ After(pc[w]) \notin Asking
        /\ After(pc[w]) \in EmptyHanded => pc[w] \in EmptyHanded
    BY <2>1 DEF After, EmptyHanded, Asking
  <2>4. \A m \in Elems(nextBatch) : m.id \in Messages /\ m.id \notin Ids(batch[w])
    <3>1. batch[w] \in Seq(Queued) /\ \A m \in Elems(nextBatch) : m.id \in Messages
      BY HeldTypes DEF Queued
    <3>2. \A id \in Ids(batch[w]) : \E m \in Elems(batch[w]) : id = m.id
      BY <3>1, ElemsOfBatch, Zenon
    <3> QED BY <3>1, <3>2, Zenon DEF MessageInv
  <2>5. \A v \in Workers : v # w => batch[v] = <<>>
    BY <2>1, Alone
  <2>6. ASSUME NEW m \in Messages, m > accepted PROVE answers[m]' = 0
    <3>1. m \notin Ids(batch[w])
      <4>1. batch[w] \in Seq(Queued) /\ Elems(batch[w]) \subseteq Queued /\ accepted \in Nat
        BY HeldTypes, Zenon
      <4>2. \A id \in Ids(batch[w]) : \E n \in Elems(batch[w]) : id = n.id
        BY <4>1, ElemsOfBatch, Zenon
      <4>3. \A n \in Elems(batch[w]) : n.id <= accepted /\ n.id \in Nat
        BY <4>1 DEF MessageInv, Queued, Messages
      <4>4. \A n \in Elems(batch[w]) : n.id # m
        BY <4>1, <4>3, <2>6 DEF Messages
      <4> QED BY <4>2, <4>4, Zenon
    <3> QED BY <3>1, <2>2, <2>6 DEF MessageInv
  <2>7. \A v \in Workers : pc[v]' \in EmptyHanded => batch[v]' = <<>>
    BY <2>1, <2>3, Zenon DEF MessageInv
  <2>8. \A m \in Elems(nextBatch') : m.id <= accepted' /\ answers[m.id]' = 0
    BY <2>1, <2>2, <2>4, Zenon DEF MessageInv
  <2>9. ASSUME NEW v \in Workers, NEW m \in Elems(batch[v]')
        PROVE  m.id <= accepted' /\ (pc[v]' \in Asking => answers[m.id]' = 0)
    <3>1. v = w
      BY <2>1, <2>5, <2>9, <1>0, Zenon
    <3> QED BY <3>1, <2>1, <2>3, Zenon DEF MessageInv
  <2> QED BY <2>1, <2>6, <2>7, <2>8, <2>9, Zenon DEF MessageInv
<1>9. ASSUME NEW w \in Workers, Finalize(w) \/ FollowupFinalize(w)
      PROVE  MessageInv'
  <2>1. Return(w) /\ UNCHANGED <<nextBatch, accepted, answers>>
    BY <1>9, Zenon DEF Finalize, FollowupFinalize, messages
  <2> QED BY <2>1, MessagesReturned
<1> QED BY <1>1, <1>2, <1>3, <1>4, <1>5, <1>6, <1>7, <1>8, <1>9, Sorted, Zenon DEF Matters

LEMMA MessageInit == Init => MessageInv
  BY DEF Init, MessageInv, Elems

(* No interleaving answers twice, revives or misplaces a message.           *)
LEMMA MessagesKept == Spec => [](TypeInv /\ SingleOwner /\ MessageInv)
<1>1. TypeInv /\ UNCHANGED vars => TypeInv'
  BY DEF TypeInv, TypeOK, Bounds, vars, queue, timers, manager, locals,
         messages, commands, FlagsOK, QueueOK, CountersOK, LocalsOK, HistoryOK
<1>2. TypeInv /\ [Next]_vars => TypeInv'
  BY <1>1, TypeEnvironment, TypeTimers, TypeWork DEF Next
<1> QED BY <1>2, TypeInit, MessageInit, MessageStep, OneOwner, PTL DEF Spec

-----------------------------------------------------------------------------
(* The mailbox: its inbox is the buffer, a reader holds its batch, and a    *)
(* message is answered when a reply counted it.                             *)
Inbox     == IdsInOrder(nextBatch)
HeldBy    == [w \in Workers |-> IdsInOrder(batch[w])]
Answered  == {m \in Messages : answers[m] > 0}

LEMMA NumbersHeld ==
  ASSUME TypeInv, MessageInv, NEW w \in Workers, NEW id \in Ids(batch[w])
  PROVE  id \in Messages /\ (pc[w] \in Asking => answers[id] = 0)
<1>1. PICK m \in Elems(batch[w]) : id = m.id
  BY WorkerBatch
<1>2. m.id \in Messages
  BY HeldTypes DEF Queued
<1>3. pc[w] \in Asking => answers[m.id] = 0
  BY DEF MessageInv
<1> QED BY <1>1, <1>2, <1>3

LEMMA MailboxInit == Init => Mailbox!Init
<1> SUFFICES ASSUME Init PROVE Mailbox!Init
  OBVIOUS
<1>1. IdsInOrder(<<>>) = <<>>
  BY IdsOfSeq, EmptySeq
<1>2. nextBatch = <<>> /\ (\A w \in Workers : batch[w] = <<>>) /\ accepted = 0 /\ \A m \in Messages : answers[m] = 0
  BY DEF Init
<1> QED BY <1>1, <1>2 DEF Mailbox!Init

(* A step that touches neither buffer, batches nor answers is no step of    *)
(* the mailbox.                                                             *)
LEMMA MailboxStutters ==
  ASSUME UNCHANGED <<Inbox, HeldBy, Answered, accepted>>
  PROVE  UNCHANGED Mailbox!mailbox
  BY DEF Inbox, HeldBy, Answered, Mailbox!mailbox

LEMMA MailboxStep ==
  TypeInv /\ SingleOwner /\ MessageInv /\ TypeInv' /\ [Next]_vars => [Mailbox!Next]_(Mailbox!mailbox)
<1> SUFFICES ASSUME TypeInv, SingleOwner, MessageInv, TypeInv', [Next]_vars
             PROVE  [Mailbox!Next]_(Mailbox!mailbox)
  OBVIOUS
<1>0. IdsInOrder(<<>>) = <<>>
  BY IdsOfSeq, EmptySeq
<1>1. CASE Still
  <2>1. UNCHANGED <<Inbox, HeldBy, Answered, accepted>>
    BY <1>1 DEF Still, Inbox, HeldBy, Answered
  <2> QED BY <2>1, MailboxStutters
<1>2. CASE Clear \/ FlushDisabled
  <2>1. nextBatch' = <<>> /\ UNCHANGED <<batch, answers, accepted>>
    BY <1>2, Zenon DEF Clear, FlushDisabled, locals, messages
  <2>2. Inbox' = <<>> /\ UNCHANGED <<HeldBy, Answered, accepted>>
    BY <2>1, <1>0 DEF Inbox, HeldBy, Answered
  <2>3. Mailbox!Discard
    BY <2>2, Zenon DEF Mailbox!Discard, Inbox, HeldBy, Answered
  <2> QED BY <2>3 DEF Mailbox!Next
<1>3. ASSUME NEW kind \in Kinds, NEW persisted \in BOOLEAN, Enqueue(kind, persisted)
      PROVE  Mailbox!Put
  <2> DEFINE new == [id |-> accepted + 1, persisted |-> persisted, waits |-> 0, era |-> clears]
  <2>1. new \in Queued /\ new.id = accepted + 1
    BY <1>3, ConstantsAssumption DEF Enqueue, TypeInv, TypeOK, CountersOK, Bounds, Messages, Queued
  <2>2. nextBatch' = Append(nextBatch, new) /\ accepted' = accepted + 1 /\ UNCHANGED <<batch, answers>>
    BY <1>3 DEF Enqueue, locals
  <2> HIDE DEF new
  <2>3. nextBatch \in Seq(Queued)
    BY HeldTypes, Zenon
  <2>4. Inbox' = Append(Inbox, accepted + 1)
    BY <2>1, <2>2, <2>3, IdsOfSeq DEF Inbox
  <2>5. UNCHANGED <<HeldBy, Answered>>
    BY <2>2 DEF HeldBy, Answered
  <2> QED BY <2>2, <2>4, <2>5, Zenon DEF Mailbox!Put, Inbox, HeldBy, Answered
<1>4. ASSUME NEW w \in Workers, NEW step \in Steps, MovesOn(w, step)
      PROVE  UNCHANGED Mailbox!mailbox
  <2>1. UNCHANGED <<Inbox, HeldBy, Answered, accepted>>
    BY <1>4 DEF MovesOn, Inbox, HeldBy, Answered
  <2> QED BY <2>1, MailboxStutters
<1>5. ASSUME NEW w \in Workers, TakeBatch(w)
      PROVE  Mailbox!Take(w)
  <2>1. /\ nextBatch' = <<>> /\ UNCHANGED <<accepted, answers>> /\ ~inFlight
        /\ \A v \in Workers : batch[v]' = IF v = w THEN nextBatch ELSE batch[v]
    BY <1>5, HeldTypes DEF TakeBatch, messages, TypeInv, TypeOK, LocalsOK
  <2>2. \A v \in Workers : batch[v] = <<>>
    BY <2>1, Alone
  <2>3. \A v \in Workers : HeldBy[v] = <<>>
    BY <2>2, <1>0 DEF HeldBy
  <2>4. HeldBy' = [HeldBy EXCEPT ![w] = Inbox]
    BY <2>1 DEF HeldBy, Inbox
  <2>5. Inbox' = <<>> /\ UNCHANGED <<Answered, accepted>>
    BY <2>1, <1>0 DEF Inbox, Answered
  <2> QED BY <2>3, <2>4, <2>5, Zenon DEF Mailbox!Take, Inbox, HeldBy, Answered
<1>6. ASSUME NEW w \in Workers, NEW appended \in SUBSET Ids(batch[w]), Persist(w, appended)
      PROVE  UNCHANGED Mailbox!mailbox
  <2>1. /\ UNCHANGED <<nextBatch, accepted, answers>>
        /\ \A v \in Workers : batch[v]' = IF v = w THEN Marked(batch[w], appended) ELSE batch[v]
    BY <1>6, HeldTypes DEF Persist, queue, TypeInv, TypeOK, LocalsOK
  <2>2. IdsInOrder(Marked(batch[w], appended)) = IdsInOrder(batch[w])
    BY IdsOfSeq, HeldTypes
  <2>3. UNCHANGED <<Inbox, HeldBy, Answered, accepted>>
    BY <2>1, <2>2 DEF Inbox, HeldBy, Answered
  <2> QED BY <2>3, MailboxStutters
<1>7. ASSUME NEW w \in Workers, NEW intent \in Intents, Wait(w, intent)
      PROVE  Mailbox!Return(w)
  <2>1. /\ UNCHANGED <<accepted, answers>> /\ pc[w] \in Asking
        /\ nextBatch' = Requeued(batch[w], nextBatch)
        /\ \A v \in Workers : batch[v]' = IF v = w THEN <<>> ELSE batch[v]
    BY <1>7, HeldTypes DEF Wait, Return, messages, Asking, TypeInv, TypeOK, LocalsOK
  <2>2. Inbox' = HeldBy[w] \o Inbox
    BY <2>1, IdsOfSeq, HeldTypes DEF Inbox, HeldBy
  <2>3. HeldBy' = [HeldBy EXCEPT ![w] = <<>>]
    BY <2>1, <1>0 DEF HeldBy
  <2>4. UNCHANGED <<Answered, accepted>>
    BY <2>1 DEF Answered
  <2>5. {HeldBy[w][i] : i \in DOMAIN HeldBy[w]} \cap Answered = {}
    <3>1. {HeldBy[w][i] : i \in DOMAIN HeldBy[w]} = Ids(batch[w])
      BY IdsOfSeq, HeldTypes DEF HeldBy
    <3>2. \A id \in Ids(batch[w]) : answers[id] = 0
      BY <2>1, NumbersHeld, Zenon
    <3> QED BY <3>1, <3>2 DEF Answered
  <2> QED BY <2>2, <2>3, <2>4, <2>5, Zenon DEF Mailbox!Return, Mailbox!Elements, Inbox, HeldBy, Answered
<1>8. ASSUME NEW w \in Workers, NEW question \in BOOLEAN, Reply(w, question)
      PROVE  Mailbox!Answer(w)
  <2>1. /\ pc[w] \in {"reply", "fu_reply"} /\ UNCHANGED <<nextBatch, batch, accepted>>
        /\ \A m \in Messages : answers[m]' = answers[m] + IF m \in Ids(batch[w]) THEN 1 ELSE 0
    BY <1>8, HeldTypes DEF Reply
  <2>2. {HeldBy[w][i] : i \in DOMAIN HeldBy[w]} = Ids(batch[w])
    BY IdsOfSeq, HeldTypes DEF HeldBy
  <2>3. Ids(batch[w]) \subseteq Messages
    BY NumbersHeld, Zenon
  <2>4. \A id \in Ids(batch[w]) : answers[id] = 0
    <3>1. CASE pc[w] = "reply"
      <4>1. pc[w] \in Asking
        BY <3>1 DEF Asking
      <4> QED BY <4>1, NumbersHeld, Zenon
    <3>2. CASE pc[w] = "fu_reply"
      <4>1. batch[w] = <<>>
        BY <3>2 DEF MessageInv, EmptyHanded
      <4>2. Ids(<<>>) = {}
        BY DEF Ids
      <4> QED BY <4>1, <4>2
    <3> QED BY <3>1, <3>2, <2>1
  <2>5. Answered' = Answered \cup Ids(batch[w])
    BY <2>1, <2>3, HeldTypes DEF Answered
  <2>6. Ids(batch[w]) \cap Answered = {}
    BY <2>4 DEF Answered
  <2>7. UNCHANGED <<Inbox, HeldBy, accepted>>
    BY <2>1 DEF Inbox, HeldBy
  <2> QED BY <2>2, <2>5, <2>6, <2>7, Zenon DEF Mailbox!Answer, Mailbox!Elements, Inbox, HeldBy, Answered
<1>9. ASSUME NEW w \in Workers, Finalize(w) \/ FollowupFinalize(w)
      PROVE  Mailbox!Settle(w)
  <2>1. Return(w) /\ UNCHANGED <<nextBatch, accepted, answers>>
    BY <1>9, Zenon DEF Finalize, FollowupFinalize, messages
  <2>2. HeldBy' = [HeldBy EXCEPT ![w] = <<>>]
    BY <2>1, <1>0, HeldTypes DEF HeldBy, Return, TypeInv, TypeOK, LocalsOK
  <2>3. UNCHANGED <<Inbox, Answered, accepted>>
    BY <2>1 DEF Inbox, Answered
  <2> QED BY <2>2, <2>3, Zenon DEF Mailbox!Settle, Inbox, HeldBy, Answered
<1>10. ASSUME NEW w \in Workers, Matters(w)
       PROVE  Mailbox!Next \/ UNCHANGED Mailbox!mailbox
  BY <1>5, <1>6, <1>7, <1>8, <1>9, <1>10, Zenon DEF Matters, Mailbox!Next
<1> QED BY <1>1, <1>2, <1>3, <1>4, <1>10, Sorted, Zenon DEF Mailbox!Next

(* The session implements its mailbox, whatever timers, waits, commands,    *)
(* late callbacks and follow-ups do: one reader takes the whole buffer,     *)
(* answers all of it at most once or puts it back unanswered, in order.     *)
THEOREM MailboxImplemented == Spec => ImplementsMailbox
<1>1. Spec => [](TypeInv /\ SingleOwner /\ MessageInv)
  BY MessagesKept
<1> QED BY <1>1, MailboxInit, MailboxStep, PTL DEF Spec, ImplementsMailbox, Mailbox!Spec

-----------------------------------------------------------------------------
(* The chat log.  A message without the persisted mark is not in the log,   *)
(* wherever it waits.                                                       *)
LogInv ==
  /\ \A m \in Elems(nextBatch) : m.persisted \/ rows[m.id] = 0
  /\ \A w \in Workers : \A m \in Elems(batch[w]) : m.persisted \/ rows[m.id] = 0
  /\ \A m \in Messages : m > accepted => rows[m] = 0
  /\ \A m \in Messages : rows[m] <= 1

LEMMA LogStep == TypeInv /\ SingleOwner /\ MessageInv /\ LogInv /\ [Next]_vars => LogInv'
<1> SUFFICES ASSUME TypeInv, SingleOwner, MessageInv, LogInv, [Next]_vars
             PROVE  LogInv'
  OBVIOUS
<1>0. Elems(<<>>) = {}
  BY ElemsOfSeq, EmptySeq
<1>1. CASE Still
  BY <1>1, Zenon DEF Still, LogInv
<1>2. CASE Clear \/ FlushDisabled
  <2>1. nextBatch' = <<>> /\ UNCHANGED <<batch, rows, accepted>>
    BY <1>2, Zenon DEF Clear, FlushDisabled, locals, messages
  <2> QED BY <2>1, <1>0, Zenon DEF LogInv
<1>3. ASSUME NEW kind \in Kinds, NEW persisted \in BOOLEAN, Enqueue(kind, persisted)
      PROVE  LogInv'
  <2> DEFINE new == [id |-> accepted + 1, persisted |-> persisted, waits |-> 0, era |-> clears]
  <2>1. accepted + 1 \in Messages /\ new \in Queued /\ new.id = accepted + 1 /\ new.persisted = persisted
    BY <1>3, ConstantsAssumption DEF Enqueue, TypeInv, TypeOK, CountersOK, Bounds, Messages, Queued
  <2>2. /\ nextBatch' = Append(nextBatch, new) /\ accepted' = accepted + 1 /\ UNCHANGED batch
        /\ rows' = [rows EXCEPT ![accepted + 1] = IF persisted THEN 1 ELSE 0]
    BY <1>3 DEF Enqueue, locals
  <2> HIDE DEF new
  <2>3. Elems(nextBatch') = Elems(nextBatch) \cup {new}
    BY <2>1, <2>2, ElemsOfSeq, HeldTypes
  <2>4. \A m \in Messages : rows'[m] = IF m = accepted + 1 THEN (IF persisted THEN 1 ELSE 0) ELSE rows[m]
    BY <2>2, HeldTypes
  <2>5. \A m \in Elems(nextBatch) : m.id \in Messages /\ m.id # accepted + 1
    <3>1. \A m \in Elems(nextBatch) : m.id \in Messages /\ m.id \in Nat /\ m.id <= accepted
      BY HeldTypes DEF MessageInv, Queued, Messages
    <3> QED BY <3>1, HeldTypes
  <2>6. \A w \in Workers : \A m \in Elems(batch[w]) : m.id \in Messages /\ m.id # accepted + 1
    <3>1. \A w \in Workers : \A m \in Elems(batch[w]) : m.id \in Messages /\ m.id \in Nat /\ m.id <= accepted
      BY HeldTypes DEF MessageInv, Queued, Messages
    <3> QED BY <3>1, HeldTypes
  <2>7. new.persisted \/ rows'[new.id] = 0
    BY <2>1, <2>4
  <2>8. \A m \in Messages : (m > accepted' => rows'[m] = 0) /\ rows'[m] <= 1
    BY <2>1, <2>2, <2>4, HeldTypes DEF LogInv, Messages
  <2>9. \A m \in Elems(nextBatch') : m.persisted \/ rows'[m.id] = 0
    BY <2>3, <2>4, <2>5, <2>7, Zenon DEF LogInv
  <2>10. \A w \in Workers : \A m \in Elems(batch'[w]) : m.persisted \/ rows'[m.id] = 0
    BY <2>2, <2>4, <2>6, Zenon DEF LogInv
  <2> QED BY <2>8, <2>9, <2>10, Zenon DEF LogInv
<1>4. ASSUME NEW w \in Workers, NEW step \in Steps, MovesOn(w, step)
      PROVE  LogInv'
  BY <1>4, Zenon DEF MovesOn, LogInv
<1>5. ASSUME NEW w \in Workers, TakeBatch(w)
      PROVE  LogInv'
  <2>1. /\ nextBatch' = <<>> /\ UNCHANGED <<accepted, rows>>
        /\ \A v \in Workers : batch[v]' = IF v = w THEN nextBatch ELSE batch[v]
    BY <1>5, HeldTypes DEF TakeBatch, messages, TypeInv, TypeOK, LocalsOK
  <2> QED BY <2>1, <1>0, Zenon DEF LogInv
<1>6. ASSUME NEW w \in Workers, NEW appended \in SUBSET Ids(batch[w]), Persist(w, appended)
      PROVE  LogInv'
  <2>1. /\ \A v \in Workers : batch[v]' = IF v = w THEN Marked(batch[w], appended) ELSE batch[v]
        /\ UNCHANGED <<nextBatch, accepted>> /\ pc[w] # "idle"
        /\ \A m \in Messages : rows'[m] = rows[m] + IF m \in appended THEN 1 ELSE 0
    BY <1>6, HeldTypes DEF Persist, queue, TypeInv, TypeOK, LocalsOK
  <2>2. ASSUME NEW m \in appended
        PROVE  m \in Messages /\ m <= accepted /\ rows[m] = 0
    <3>1. m \in {batch[w][i].id : i \in {j \in DOMAIN batch[w] : ~batch[w][j].persisted}}
      BY <1>6 DEF Persist
    <3>2. PICK i \in DOMAIN batch[w] : ~batch[w][i].persisted /\ m = batch[w][i].id
      BY <3>1, Zenon
    <3>3. batch[w][i] \in Elems(batch[w])
      BY <3>2, Zenon DEF Elems
    <3>4. m \in Messages
      BY <3>2, <3>3, HeldTypes DEF Queued
    <3> QED BY <3>2, <3>3, <3>4, Zenon DEF LogInv, MessageInv
  <2>3. \A m \in Messages : m \notin appended => rows'[m] = rows[m]
    BY <2>1, HeldTypes
  <2>4. \A m \in Messages : (m > accepted' => rows'[m] = 0) /\ rows'[m] <= 1
    <3> SUFFICES ASSUME NEW m \in Messages
                 PROVE  (m > accepted => rows'[m] = 0) /\ rows'[m] <= 1
      BY <2>1
    <3>1. CASE m \in appended
      <4>1. m \in Nat /\ ~(m > accepted)
        BY <3>1, <2>2, HeldTypes DEF Messages
      <4> QED BY <3>1, <4>1, <2>1, <2>2
    <3>2. CASE m \notin appended
      BY <3>2, <2>3, Zenon DEF LogInv
    <3> QED BY <3>1, <3>2
  <2>5. ASSUME NEW m \in Elems(nextBatch) PROVE m.persisted \/ rows'[m.id] = 0
    <3>1. m.id \in Messages
      BY HeldTypes DEF Queued
    <3>2. CASE m.id \in appended
      <4>1. m.id \in Ids(batch[w])
        BY <3>2, <1>6, Zenon
      <4>2. PICK n \in Elems(batch[w]) : m.id = n.id
        BY <4>1, WorkerBatch
      <4> QED BY <4>2, Zenon DEF MessageInv
    <3>3. CASE m.id \notin appended
      BY <3>1, <3>3, <2>3, Zenon DEF LogInv
    <3> QED BY <3>2, <3>3
  <2>6. ASSUME NEW v \in Workers, NEW m \in Elems(batch[v]') PROVE m.persisted \/ rows'[m.id] = 0
    <3>1. v = w
      BY <2>1, <2>6, <1>0, Alone, Zenon
    <3>2. PICK old \in Elems(batch[w]) : m.id = old.id /\ (m.persisted <=> old.persisted \/ old.id \in appended)
      BY <3>1, <2>1, <2>6, WorkerBatch
    <3>3. old.id \in Messages
      BY HeldTypes DEF Queued
    <3> QED BY <3>2, <3>3, <2>3, Zenon DEF LogInv
  <2> QED BY <2>1, <2>4, <2>5, <2>6, Zenon DEF LogInv
<1>7. ASSUME NEW w \in Workers, NEW intent \in Intents, Wait(w, intent)
      PROVE  LogInv'
  <2>1. /\ UNCHANGED <<accepted, rows>> /\ nextBatch' = Deferred(batch[w]) \o nextBatch
        /\ \A v \in Workers : batch[v]' = IF v = w THEN <<>> ELSE batch[v]
    BY <1>7, HeldTypes DEF Wait, Return, messages, Requeued, TypeInv, TypeOK, LocalsOK
  <2>2. Elems(nextBatch') = Elems(Deferred(batch[w])) \cup Elems(nextBatch)
    BY <2>1, ElemsOfSeq, BatchTypes, HeldTypes
  <2>3. ASSUME NEW m \in Elems(Deferred(batch[w])) PROVE m.persisted \/ rows[m.id] = 0
    <3>1. PICK old \in Elems(batch[w]) : m.id = old.id /\ m.persisted = old.persisted
      BY WorkerBatch
    <3> QED BY <3>1, Zenon DEF LogInv
  <2> QED BY <2>1, <2>2, <2>3, <1>0, Zenon DEF LogInv
<1>8. ASSUME NEW w \in Workers, NEW question \in BOOLEAN, Reply(w, question)
      PROVE  LogInv'
  <2>1. UNCHANGED <<nextBatch, batch, accepted, rows>>
    BY <1>8, Zenon DEF Reply
  <2> QED BY <2>1, Zenon DEF LogInv
<1>9. ASSUME NEW w \in Workers, Finalize(w) \/ FollowupFinalize(w)
      PROVE  LogInv'
  <2>1. /\ UNCHANGED <<nextBatch, accepted, rows>>
        /\ \A v \in Workers : batch[v]' = IF v = w THEN <<>> ELSE batch[v]
    BY <1>9, HeldTypes DEF Finalize, FollowupFinalize, Return, messages, TypeInv, TypeOK, LocalsOK
  <2> QED BY <2>1, <1>0, Zenon DEF LogInv
<1> QED BY <1>1, <1>2, <1>3, <1>4, <1>5, <1>6, <1>7, <1>8, <1>9, Sorted, Zenon DEF Matters

(* However often the store refuses it and however often a flush that holds  *)
(* it waits, a message is written to the chat log at most once.             *)
THEOREM LoggedOnce == Spec => []LoggedAtMostOnce
<1>1. Init => LogInv
  BY DEF Init, LogInv, Elems
<1>2. LogInv => LoggedAtMostOnce
  BY DEF LogInv, LoggedAtMostOnce
<1> QED BY <1>1, <1>2, MessagesKept, LogStep, PTL DEF Spec

-----------------------------------------------------------------------------
(* Deferral.  waits never exceeds the wait rounds of the session while no   *)
(* Clear interferes, and what arrives while a flush is busy has not waited. *)
UpTo(m, limit) == m.era <= clears /\ (m.era = clears => m.waits <= limit)

WaitInv ==
  /\ \A m \in Elems(nextBatch) : UpTo(m, waitRounds) /\ UpTo(m, MaxWaitRounds)
  /\ \A w \in Workers : \A m \in Elems(batch[w]) :
       UpTo(m, rounds[w]) /\ (m.era = clears => rounds[w] = waitRounds)
  /\ \A w \in Workers : pc[w] \notin EmptyHanded => \A m \in Elems(nextBatch) : UpTo(m, 0)

LEMMA WaitStep == TypeInv /\ SingleOwner /\ MessageInv /\ WaitInv /\ [Next]_vars => WaitInv'
<1> SUFFICES ASSUME TypeInv, SingleOwner, MessageInv, WaitInv, [Next]_vars
             PROVE  WaitInv'
  OBVIOUS
<1>0. Elems(<<>>) = {} /\ MaxWaitRounds \in Nat
  BY ElemsOfSeq, EmptySeq, ConstantsAssumption
<1>1. CASE Still
  BY <1>1, Zenon DEF Still, WaitInv, UpTo
<1>2. CASE FlushDisabled
  <2>1. nextBatch' = <<>> /\ UNCHANGED <<batch, pc, rounds, waitRounds, clears>>
    BY <1>2, Zenon DEF FlushDisabled, locals, commands
  <2> QED BY <2>1, <1>0, Zenon DEF WaitInv, UpTo
<1>3. CASE Clear
  <2>1. nextBatch' = <<>> /\ clears' = clears + 1 /\ UNCHANGED <<batch, pc, rounds>>
    BY <1>3, Zenon DEF Clear, locals
  <2>2. ASSUME NEW w \in Workers, NEW m \in Elems(batch[w])
        PROVE  m.era <= clears' /\ m.era # clears'
    <3>1. m.era \in Nat /\ m.era <= clears /\ clears \in Nat
      BY HeldTypes DEF WaitInv, UpTo, Queued
    <3> QED BY <3>1, <2>1
  <2> QED BY <2>1, <2>2, <1>0, Zenon DEF WaitInv, UpTo
<1>4. ASSUME NEW kind \in Kinds, NEW persisted \in BOOLEAN, Enqueue(kind, persisted)
      PROVE  WaitInv'
  <2> DEFINE new == [id |-> accepted + 1, persisted |-> persisted, waits |-> 0, era |-> clears]
  <2>1. new \in Queued /\ new.waits = 0 /\ new.era = clears
    BY <1>4, ConstantsAssumption DEF Enqueue, TypeInv, TypeOK, CountersOK, Bounds, Messages, Queued
  <2>2. nextBatch' = Append(nextBatch, new) /\ UNCHANGED <<batch, pc, rounds, waitRounds, clears>>
    BY <1>4 DEF Enqueue, locals, commands
  <2> HIDE DEF new
  <2>3. Elems(nextBatch') = Elems(nextBatch) \cup {new}
    BY <2>1, <2>2, ElemsOfSeq, HeldTypes
  <2>4. UpTo(new, 0) /\ UpTo(new, waitRounds) /\ UpTo(new, MaxWaitRounds)
    BY <2>1, <1>0, HeldTypes DEF UpTo
  <2> QED BY <2>2, <2>3, <2>4, Zenon DEF WaitInv, UpTo
<1>5. ASSUME NEW w \in Workers, NEW step \in Steps, MovesOn(w, step)
      PROVE  WaitInv'
  <2>1. \A v \in Workers : pc[v]' = IF v = w THEN step ELSE pc[v]
    BY <1>5, HeldTypes DEF MovesOn
  <2>2. \A v \in Workers : pc[v]' \notin EmptyHanded => pc[v] \notin EmptyHanded
    BY <2>1, <1>5, Zenon DEF MovesOn
  <2> QED BY <2>2, <1>5, Zenon DEF MovesOn, WaitInv, UpTo
<1>6. ASSUME NEW w \in Workers, TakeBatch(w)
      PROVE  WaitInv'
  <2>1. \A v \in Workers : /\ batch[v]' = IF v = w THEN nextBatch ELSE batch[v]
                           /\ rounds[v]' = IF v = w THEN waitRounds ELSE rounds[v]
    BY <1>6, HeldTypes DEF TakeBatch, TypeInv, TypeOK, LocalsOK
  <2>2. nextBatch' = <<>> /\ UNCHANGED <<waitRounds, clears>>
    BY <1>6, Zenon DEF TakeBatch, commands
  <2>3. ASSUME NEW v \in Workers, NEW m \in Elems(batch[v]')
        PROVE  UpTo(m, rounds[v]') /\ (m.era = clears => rounds[v]' = waitRounds)
    <3>1. CASE v = w
      BY <3>1, <2>1, <2>3, Zenon DEF WaitInv
    <3>2. CASE v # w
      BY <3>2, <2>1, <2>3, Zenon DEF WaitInv
    <3> QED BY <3>1, <3>2
  <2> QED BY <2>2, <2>3, <1>0, Zenon DEF WaitInv, UpTo
<1>7. ASSUME NEW w \in Workers, NEW appended \in SUBSET Ids(batch[w]), Persist(w, appended)
      PROVE  WaitInv'
  <2>1. /\ \A v \in Workers : batch[v]' = IF v = w THEN Marked(batch[w], appended) ELSE batch[v]
        /\ \A v \in Workers : pc[v]' = IF v = w THEN "gate" ELSE pc[v]
        /\ UNCHANGED <<nextBatch, rounds, waitRounds, clears>> /\ pc[w] \notin EmptyHanded
    BY <1>7, HeldTypes DEF Persist, queue, commands, EmptyHanded, TypeInv, TypeOK, LocalsOK
  <2>2. ASSUME NEW v \in Workers, NEW m \in Elems(batch[v]')
        PROVE  \E old \in Elems(batch[v]) : m.era = old.era /\ m.waits = old.waits
    <3>1. CASE v = w
      <4>1. m \in Elems(Marked(batch[w], appended))
        BY <3>1, <2>1, <2>2, Zenon
      <4>2. PICK old \in Elems(batch[w]) : m.era = old.era /\ m.waits = old.waits
        BY <4>1, WorkerBatch
      <4> QED BY <3>1, <4>2, Zenon
    <3>2. CASE v # w
      BY <3>2, <2>1, <2>2, Zenon
    <3> QED BY <3>1, <3>2
  <2>3. ASSUME NEW v \in Workers, NEW m \in Elems(batch[v]')
        PROVE  UpTo(m, rounds[v]) /\ (m.era = clears => rounds[v] = waitRounds)
    <3>1. PICK old \in Elems(batch[v]) : m.era = old.era /\ m.waits = old.waits
      BY <2>2
    <3> QED BY <3>1, Zenon DEF WaitInv, UpTo
  <2>4. ASSUME NEW v \in Workers, pc[v]' \notin EmptyHanded
        PROVE  pc[v] \notin EmptyHanded
    BY <2>1, <2>4, Zenon
  <2> QED BY <2>1, <2>3, <2>4, Zenon DEF WaitInv, UpTo
<1>8. ASSUME NEW w \in Workers, NEW intent \in Intents, Wait(w, intent)
      PROVE  WaitInv'
  <2>1. /\ UNCHANGED clears /\ nextBatch' = Deferred(batch[w]) \o nextBatch
        /\ waitRounds' = waitRounds + 1 /\ pc[w] = "decide"
        /\ \A v \in Workers : /\ batch[v]' = IF v = w THEN <<>> ELSE batch[v]
                             /\ pc[v]' = IF v = w THEN "idle" ELSE pc[v]
    BY <1>8, HeldTypes DEF Wait, Return, commands, Requeued, TypeInv, TypeOK, LocalsOK
  <2>2. Elems(nextBatch') = Elems(Deferred(batch[w])) \cup Elems(nextBatch)
    BY <2>1, ElemsOfSeq, BatchTypes, HeldTypes
  <2>3. rounds[w] < MaxWaitRounds /\ rounds[w] \in Nat /\ waitRounds \in Nat
    <3>1. ~(rounds[w] >= MaxWaitRounds)
      BY <1>8 DEF Wait, ResolvedAction, Intents
    <3> QED BY <3>1, <1>0, HeldTypes
  <2>4. pc[w] \notin EmptyHanded /\ pc[w] # "idle"
    BY <2>1 DEF EmptyHanded
  <2>5. ASSUME NEW m \in Elems(Deferred(batch[w]))
        PROVE  UpTo(m, waitRounds') /\ UpTo(m, MaxWaitRounds)
    <3>1. PICK old \in Elems(batch[w]) : m.era = old.era /\ m.waits = old.waits + 1
      BY WorkerBatch
    <3>2. UpTo(old, rounds[w]) /\ (old.era = clears => rounds[w] = waitRounds)
      BY Zenon DEF WaitInv
    <3>3. old.waits \in Nat
      BY HeldTypes DEF Queued
    <3> QED BY <3>1, <3>2, <3>3, <2>1, <2>3, <1>0 DEF UpTo
  <2>6. ASSUME NEW m \in Elems(nextBatch)
        PROVE  UpTo(m, waitRounds') /\ UpTo(m, MaxWaitRounds)
    <3>1. UpTo(m, waitRounds) /\ UpTo(m, MaxWaitRounds) /\ m.waits \in Nat
      BY HeldTypes DEF WaitInv, Queued
    <3> QED BY <3>1, <2>1, <2>3 DEF UpTo
  <2>7. \A v \in Workers : pc[v]' \in EmptyHanded /\ batch[v]' = <<>>
    <3>1. \A v \in Workers : pc[v]' = "idle"
      BY <2>1, <2>4, Zenon DEF SingleOwner
    <3>2. \A v \in Workers : batch[v]' = <<>>
      BY <2>1, <2>4, Alone, Zenon
    <3> QED BY <3>1, <3>2 DEF EmptyHanded
  <2> QED BY <2>1, <2>2, <2>5, <2>6, <2>7, <1>0, Zenon DEF WaitInv, UpTo
<1>9. ASSUME NEW w \in Workers, NEW question \in BOOLEAN, Reply(w, question)
      PROVE  WaitInv'
  <2>1. /\ UNCHANGED <<nextBatch, batch, rounds, waitRounds, clears>>
        /\ \A v \in Workers : pc[v]' = IF v = w THEN After(pc[w]) ELSE pc[v]
    BY <1>9, HeldTypes DEF Reply, commands
  <2>2. pc[w] \in {"reply", "fu_reply"}
    BY <1>9, Zenon DEF Reply
  <2>3. After(pc[w]) \notin EmptyHanded => pc[w] \notin EmptyHanded
    BY <2>2 DEF After, EmptyHanded
  <2>4. \A v \in Workers : pc[v]' \notin EmptyHanded => pc[v] \notin EmptyHanded
    BY <2>1, <2>3, Zenon
  <2> QED BY <2>1, <2>4, Zenon DEF WaitInv, UpTo
<1>10. ASSUME NEW w \in Workers, FollowupFinalize(w)
       PROVE  WaitInv'
  <2>1. /\ UNCHANGED <<nextBatch, waitRounds, clears>>
        /\ batch' = [batch EXCEPT ![w] = <<>>] /\ rounds' = [rounds EXCEPT ![w] = 0]
        /\ pc' = [pc EXCEPT ![w] = "idle"]
    BY <1>10, Zenon DEF FollowupFinalize, Return, commands
  <2>2. batch \in [Workers -> Seq(Queued)]
    BY Zenon DEF TypeInv, TypeOK, LocalsOK
  <2>3. ASSUME NEW v \in Workers
        PROVE  /\ v = w => batch'[v] = <<>> /\ pc'[v] = "idle"
               /\ v # w => batch'[v] = batch[v] /\ pc'[v] = pc[v] /\ rounds'[v] = rounds[v]
    BY <2>1, <2>2, HeldTypes
  <2>4. "idle" \in EmptyHanded
    BY DEF EmptyHanded
  <2>5. ASSUME NEW v \in Workers, NEW m \in Elems(batch'[v])
        PROVE  UpTo(m, rounds'[v]) /\ (m.era = clears => rounds'[v] = waitRounds)
    BY <2>3, <2>5, <1>0, Zenon DEF WaitInv
  <2>6. ASSUME NEW v \in Workers, pc'[v] \notin EmptyHanded
        PROVE  \A m \in Elems(nextBatch) : UpTo(m, 0)
    BY <2>3, <2>4, <2>6, Zenon DEF WaitInv
  <2> QED BY <2>1, <2>5, <2>6, Zenon DEF WaitInv, UpTo
<1>11. ASSUME NEW w \in Workers, Finalize(w)
       PROVE  WaitInv'
  <2>1. /\ UNCHANGED <<nextBatch, clears>> /\ waitRounds' = 0 /\ pc[w] = "finalize"
        /\ \A v \in Workers : /\ batch[v]' = IF v = w THEN <<>> ELSE batch[v]
                             /\ pc[v]' = IF v = w THEN "idle" ELSE pc[v]
    BY <1>11, HeldTypes DEF Finalize, Return, commands, TypeInv, TypeOK, LocalsOK
  <2>2. pc[w] \notin EmptyHanded /\ pc[w] # "idle" /\ "idle" \in EmptyHanded
    BY <2>1 DEF EmptyHanded
  <2>3. ASSUME NEW m \in Elems(nextBatch) PROVE UpTo(m, 0) /\ UpTo(m, MaxWaitRounds)
    BY <2>2, Zenon DEF WaitInv
  <2>4. ASSUME NEW v \in Workers PROVE pc[v]' = "idle" /\ batch[v]' = <<>>
    <3>1. v # w => pc[v] = "idle" /\ batch[v] = <<>>
      BY <2>2, Alone, Zenon DEF SingleOwner
    <3> QED BY <3>1, <2>1, Zenon
  <2> QED BY <2>1, <2>2, <2>3, <2>4, <1>0, Zenon DEF WaitInv, UpTo
<1> QED BY <1>1, <1>2, <1>3, <1>4, <1>5, <1>6, <1>7, <1>8, <1>9, <1>10, <1>11, Sorted, Zenon DEF Matters

(* The round counter of the session bounds the waits of every single        *)
(* message, although batches are joined and counters shared.                *)
THEOREM DeferralBounded == Spec => []DeferralBound
<1>1. Init => WaitInv
  BY DEF Init, WaitInv, Elems
<1>2. WaitInv => DeferralBound
  BY Zenon DEF WaitInv, UpTo, DeferralBound, Elems
<1> QED BY <1>1, <1>2, MessagesKept, WaitStep, PTL DEF Spec

-----------------------------------------------------------------------------
(* Late replies.  While both switches are on nothing late has been sent,    *)
(* nor while an owner that found them on has its reply before it.           *)
Answering == {"persist", "gate", "decide", "reply", "fu_reply"}

LateInv ==
  /\ Enabled => offReplies = 0
  /\ offReplies <= 1
  /\ \A w \in Workers : pc[w] \in Answering => offReplies = 0

(* The switches and the count stay, and no worker starts to answer.         *)
Unhurried ==
  /\ UNCHANGED <<offReplies, llmOn, immersiveOn>>
  /\ \A w \in Workers : pc'[w] \in Answering => pc[w] \in Answering

LEMMA UnhurriedStep == LateInv /\ Unhurried => LateInv'
<1> SUFFICES ASSUME LateInv, Unhurried PROVE LateInv'
  OBVIOUS
<1>1. (Enabled => offReplies = 0)' /\ offReplies' <= 1
  BY Zenon DEF LateInv, Unhurried, Enabled
<1>2. \A w \in Workers : pc'[w] \in Answering => offReplies' = 0
  BY Zenon DEF LateInv, Unhurried
<1> QED BY <1>1, <1>2, Zenon DEF LateInv

(* All but the switches, the acquisition of a batch, the test of the        *)
(* follow-up and the reply are unhurried.                                   *)
LEMMA HurrySorted ==
  ASSUME TypeInv, [Next]_vars
  PROVE  \/ Unhurried \/ ChatOn \/ ChatOff
         \/ \E on \in BOOLEAN : SetEnabled(on)
         \/ \E w \in Workers : TakeBatch(w) \/ FollowupCheck(w)
         \/ \E w \in Workers, question \in BOOLEAN : Reply(w, question)
<1> USE DEF queue, timers, manager, locals, messages, commands
<1>0. ASSUME NEW w \in Workers, NEW step, step \notin Answering \/ pc[w] \in Answering,
             pc' = [pc EXCEPT ![w] = step], UNCHANGED <<offReplies, llmOn, immersiveOn>>
      PROVE  Unhurried
  <2>1. \A v \in Workers : pc'[v] = IF v = w THEN step ELSE pc[v]
    BY <1>0, HeldTypes
  <2> QED BY <2>1, <1>0, Zenon DEF Unhurried
<1>1. {"idle", "finalize", "fu_check", "fu_finalize"} \cap Answering = {}
  BY DEF Answering
<1>2. Clear \/ Arrive \/ RouterDecay => Unhurried
  BY Zenon DEF Clear, Arrive, RouterDecay, Unhurried
<1>3. ASSUME NEW kind \in Kinds, NEW persisted \in BOOLEAN, Enqueue(kind, persisted) PROVE Unhurried
  BY <1>3, Zenon DEF Enqueue, Unhurried
<1>4. ASSUME NEW question \in BOOLEAN, RepeatDelivered(question) PROVE Unhurried
  BY <1>4, Zenon DEF RepeatDelivered, Unhurried
<1>5. FlushTimerFires \/ FollowupTimerFires \/ OrphanFires => Unhurried
  BY Zenon DEF FlushTimerFires, FollowupTimerFires, OrphanFires, Unhurried
<1>6. FlushWhileBusy \/ FlushEmpty \/ FlushDisabled => Unhurried
  BY Zenon DEF FlushWhileBusy, FlushEmpty, FlushDisabled, Unhurried
<1>7. FollowupWhileBusy \/ FollowupDropped => Unhurried
  BY Zenon DEF FollowupWhileBusy, FollowupDropped, Unhurried
<1>8. UNCHANGED vars => Unhurried
  BY Zenon DEF vars, Unhurried
<1>9. ASSUME NEW w \in Workers, StartFollowup(w) PROVE Unhurried
  BY <1>9, <1>0, <1>1, Zenon DEF StartFollowup
<1>10. ASSUME NEW w \in Workers, NEW appended \in SUBSET Ids(batch[w]), Persist(w, appended) PROVE Unhurried
  <2>1. pc[w] \in Answering
    BY <1>10 DEF Persist, Answering
  <2> QED BY <2>1, <1>10, <1>0, Zenon DEF Persist
<1>11. ASSUME NEW w \in Workers, NEW allow \in BOOLEAN, Gate(w, allow) PROVE Unhurried
  <2>1. pc[w] \in Answering
    BY <1>11 DEF Gate, Answering
  <2> QED BY <2>1, <1>11, <1>0, Zenon DEF Gate
<1>12. ASSUME NEW w \in Workers, NEW intent \in Intents, Decide(w, intent) PROVE Unhurried
  <2>1. pc[w] \in Answering
    BY <1>12 DEF Decide, Answering
  <2> QED BY <2>1, <1>12, <1>0, Zenon DEF Decide
<1>13. ASSUME NEW w \in Workers, NEW intent \in Intents, Wait(w, intent) PROVE Unhurried
  BY <1>13, <1>0, <1>1, Zenon DEF Wait, Return
<1>14. ASSUME NEW w \in Workers, ReplyFails(w) PROVE Unhurried
  <2>1. pc[w] \in Answering
    BY <1>14 DEF ReplyFails, Answering
  <2> QED BY <2>1, <1>14, <1>0, Zenon DEF ReplyFails
<1>15. ASSUME NEW w \in Workers, Finalize(w) \/ FollowupFinalize(w) PROVE Unhurried
  BY <1>15, <1>0, <1>1, Zenon DEF Finalize, FollowupFinalize, Return
<1>16. ASSUME NEW w \in Workers, Work(w)
       PROVE  Unhurried \/ FollowupCheck(w) \/ \E question \in BOOLEAN : Reply(w, question)
  BY <1>10, <1>11, <1>12, <1>13, <1>14, <1>15, <1>16, Zenon DEF Work
<1>17. Environment => Unhurried \/ ChatOn \/ ChatOff \/ \E on \in BOOLEAN : SetEnabled(on)
  BY <1>2, <1>3, <1>4, Zenon DEF Environment
<1>18. Flush \/ Followup => Unhurried \/ \E w \in Workers : TakeBatch(w)
  BY <1>6, <1>7, <1>9, Zenon DEF Flush, Followup
<1> QED BY <1>5, <1>8, <1>16, <1>17, <1>18, Zenon DEF Next

LEMMA LateStep == TypeInv /\ SingleOwner /\ LateInv /\ [Next]_vars => LateInv'
<1> SUFFICES ASSUME TypeInv, SingleOwner, LateInv, [Next]_vars
             PROVE  LateInv'
  OBVIOUS
<1>1. CASE Unhurried
  BY <1>1, UnhurriedStep
<1>2. ASSUME NEW on \in BOOLEAN, SetEnabled(on) PROVE LateInv'
  <2>1. /\ llmOn' = on /\ UNCHANGED <<immersiveOn, pc>>
        /\ offReplies' = IF on /\ immersiveOn THEN 0 ELSE offReplies
    BY <1>2, Zenon DEF SetEnabled, locals
  <2>2. CASE on /\ immersiveOn
    BY <2>1, <2>2 DEF LateInv
  <2>3. CASE ~(on /\ immersiveOn)
    BY <2>1, <2>3, Zenon DEF LateInv, Enabled
  <2> QED BY <2>2, <2>3
<1>3. CASE ChatOn
  BY <1>3 DEF ChatOn, LateInv
<1>4. CASE ChatOff
  BY <1>4, Zenon DEF ChatOff, LateInv, Enabled, locals
<1>5. ASSUME NEW w \in Workers, TakeBatch(w) \/ FollowupCheck(w) PROVE LateInv'
  <2>1. UNCHANGED <<offReplies, llmOn, immersiveOn>>
    BY <1>5, Zenon DEF TakeBatch, FollowupCheck, manager
  <2>2. CASE Enabled
    <3>1. offReplies = 0
      BY <2>2, Zenon DEF LateInv
    <3> QED BY <3>1, <2>1 DEF LateInv
  <2>3. CASE ~Enabled
    <3>1. pc' = [pc EXCEPT ![w] = "fu_finalize"]
      BY <1>5, <2>3, Zenon DEF TakeBatch, FollowupCheck
    <3>2. \A v \in Workers : pc'[v] = IF v = w THEN "fu_finalize" ELSE pc[v]
      BY <3>1, HeldTypes
    <3>3. "fu_finalize" \notin Answering
      BY DEF Answering
    <3> QED BY <2>1, <3>2, <3>3, Zenon DEF LateInv, Enabled
  <2> QED BY <2>2, <2>3
<1>6. ASSUME NEW w \in Workers, NEW question \in BOOLEAN, Reply(w, question) PROVE LateInv'
  <2>1. pc[w] \in Answering /\ pc[w] # "idle"
    BY <1>6 DEF Reply, Answering
  <2>2. offReplies = 0
    BY <2>1, Zenon DEF LateInv
  <2>3. /\ UNCHANGED <<llmOn, immersiveOn>>
        /\ offReplies' = IF canSend[w] /\ ~Enabled THEN offReplies + 1 ELSE offReplies
        /\ pc' = [pc EXCEPT ![w] = After(pc[w])]
    BY <1>6, Zenon DEF Reply, manager
  <2>4. offReplies' <= 1 /\ (Enabled => offReplies' = 0)
    BY <2>2, <2>3
  <2>5. After(pc[w]) \notin Answering /\ "idle" \notin Answering
    BY DEF After, Answering
  <2>6. \A v \in Workers : pc'[v] = IF v = w THEN After(pc[w]) ELSE pc[v]
    BY <2>3, HeldTypes
  <2>7. \A v \in Workers : pc'[v] \notin Answering
    BY <2>1, <2>5, <2>6, Zenon DEF SingleOwner
  <2> QED BY <2>3, <2>4, <2>7, Zenon DEF LateInv, Enabled
<1> QED BY <1>1, <1>2, <1>3, <1>4, <1>5, <1>6, HurrySorted, Zenon

(* However the switches are thrown while flushes and follow-ups run, one    *)
(* reply at most comes after both are not on any more.                      *)
THEOREM OneLateReply == Spec => []AtMostOneLateReply
<1>1. Init => LateInv
  BY DEF Init, LateInv, Answering
<1>2. LateInv => AtMostOneLateReply
  BY DEF LateInv, AtMostOneLateReply
<1> QED BY <1>1, <1>2, MessagesKept, LateStep, PTL DEF Spec

-----------------------------------------------------------------------------
(* Questions.  Whatever happens to the conversation, a timer it knows of    *)
(* has a question and budget.                                               *)
Backed(t) == t.followupTimer => t.pendingQuestion /\ t.followupBudget > 0

LEMMA BackedKept ==
  ASSUME NEW t \in Talk, Backed(t)
  PROVE  /\ Backed(TimerForgotten(t)) /\ Backed(QuestionCleared(t))
         /\ Backed(Settled(t)) /\ Backed(FollowedUp(t))
         /\ \A u \in Decayed(t) : Backed(u)
         /\ \A kind \in Kinds : Backed(Observed(t, kind))
         /\ \A question \in BOOLEAN : Backed(Delivered(t, question))
<1>1. Backed(TimerForgotten(t)) /\ Backed(QuestionCleared(t)) /\ Backed(FollowedUp(t))
  BY DEF Backed, TimerForgotten, QuestionCleared, FollowedUp, Talk
<1>2. Backed(Left(t)) /\ Backed(Settled(t))
  BY DEF Backed, Left, Settled, QuestionCleared, Talk
<1>3. \A u \in Decayed(t) : Backed(u)
  BY <1>2 DEF Decayed
<1>4. \A kind \in Kinds : Backed(Observed(t, kind))
  BY <1>2 DEF Observed, Kinds
<1>5. ASSUME NEW question \in BOOLEAN PROVE Backed(Delivered(t, question))
  <2>1. CASE question
    <3>1. t.followupBudget \in 0..1
      BY DEF Talk, DefaultFollowupBudget
    <3> QED BY <2>1, <3>1 DEF Backed, Delivered, DefaultFollowupBudget
  <2>2. CASE ~question
    BY <2>2, <1>2 DEF Delivered
  <2> QED BY <2>1, <2>2
<1> QED BY <1>1, <1>2, <1>3, <1>4, <1>5

(* How a step changes the state of the conversation.                        *)
TalkMove ==
  \/ talk' \in {talk, TimerForgotten(talk), QuestionCleared(talk), Settled(talk), FollowedUp(talk)}
  \/ talk' \in Decayed(talk)
  \/ \E kind \in Kinds : \E t \in Decayed(talk) : talk' = Observed(t, kind)
  \/ \E question \in BOOLEAN : talk' = Delivered(talk, question)

LEMMA TalkMoves == [Next]_vars => TalkMove
<1> SUFFICES ASSUME [Next]_vars PROVE TalkMove
  OBVIOUS
<1> USE DEF queue, TalkMove
<1>1. ASSUME NEW on \in BOOLEAN, SetEnabled(on) PROVE TalkMove
  BY <1>1, Zenon DEF SetEnabled
<1>2. ChatOn \/ ChatOff \/ Clear \/ Arrive \/ RouterDecay => TalkMove
  BY Zenon DEF ChatOn, ChatOff, Clear, Arrive, RouterDecay
<1>3. ASSUME NEW kind \in Kinds, NEW persisted \in BOOLEAN, Enqueue(kind, persisted) PROVE TalkMove
  BY <1>3, Zenon DEF Enqueue
<1>4. ASSUME NEW question \in BOOLEAN, RepeatDelivered(question) PROVE TalkMove
  BY <1>4, Zenon DEF RepeatDelivered
<1>5. FlushTimerFires \/ FollowupTimerFires \/ OrphanFires => TalkMove
  BY Zenon DEF FlushTimerFires, FollowupTimerFires, OrphanFires
<1>6. FlushWhileBusy \/ FlushEmpty \/ FlushDisabled => TalkMove
  BY Zenon DEF FlushWhileBusy, FlushEmpty, FlushDisabled
<1>7. FollowupWhileBusy \/ FollowupDropped => TalkMove
  BY Zenon DEF FollowupWhileBusy, FollowupDropped
<1>8. UNCHANGED vars => TalkMove
  BY Zenon DEF vars
<1>9. ASSUME NEW w \in Workers, StartFollowup(w) \/ TakeBatch(w) PROVE TalkMove
  BY <1>9, Zenon DEF StartFollowup, TakeBatch
<1>10. ASSUME NEW w \in Workers, NEW appended \in SUBSET Ids(batch[w]), Persist(w, appended) PROVE TalkMove
  BY <1>10, Zenon DEF Persist
<1>11. ASSUME NEW w \in Workers, NEW allow \in BOOLEAN, Gate(w, allow) PROVE TalkMove
  BY <1>11, Zenon DEF Gate
<1>12. ASSUME NEW w \in Workers, NEW intent \in Intents, Decide(w, intent) \/ Wait(w, intent) PROVE TalkMove
  BY <1>12, Zenon DEF Decide, Wait
<1>13. ASSUME NEW w \in Workers, NEW question \in BOOLEAN, Reply(w, question) PROVE TalkMove
  <2>1. talk' = talk \/ talk' = Delivered(talk, question)
    BY <1>13, Zenon DEF Reply
  <2> QED BY <2>1, Zenon
<1>14. ASSUME NEW w \in Workers, ReplyFails(w) \/ Finalize(w) \/ FollowupCheck(w) \/ FollowupFinalize(w) PROVE TalkMove
  BY <1>14, Zenon DEF ReplyFails, Finalize, FollowupCheck, FollowupFinalize
<1>15. ASSUME NEW w \in Workers, Work(w) PROVE TalkMove
  BY <1>10, <1>11, <1>12, <1>13, <1>14, <1>15, Zenon DEF Work
<1>16. Environment => TalkMove
  BY <1>1, <1>2, <1>3, <1>4, Zenon DEF Environment
<1>17. Flush \/ Followup => TalkMove
  BY <1>6, <1>7, <1>9, Zenon DEF Flush, Followup
<1> QED BY <1>5, <1>8, <1>15, <1>16, <1>17, Zenon DEF Next

(* Every path that drops a question or spends its budget stops the timer    *)
(* the session knows of.                                                    *)
THEOREM TimerBacksQuestion == Spec => []FollowupTimerBacksQuestion
<1>1. Init => FollowupTimerBacksQuestion
  BY DEF Init, FollowupTimerBacksQuestion
<1>2. TypeInv /\ FollowupTimerBacksQuestion /\ [Next]_vars => FollowupTimerBacksQuestion'
  <2> SUFFICES ASSUME TypeInv, FollowupTimerBacksQuestion, [Next]_vars
               PROVE  FollowupTimerBacksQuestion'
    OBVIOUS
  <2>1. talk \in Talk /\ Backed(talk)
    BY Zenon DEF TypeInv, TypeOK, QueueOK, FollowupTimerBacksQuestion, Backed
  <2>2. \A u \in Decayed(talk) : u \in Talk /\ Backed(u)
    BY <2>1, TalkTypes, BackedKept
  <2>3. ASSUME NEW kind \in Kinds, NEW t \in Decayed(talk) PROVE Backed(Observed(t, kind))
    BY <2>2, BackedKept
  <2>4. Backed(talk')
    BY <2>1, <2>2, <2>3, BackedKept, TalkMoves, Zenon DEF TalkMove
  <2> QED BY <2>4, Zenon DEF FollowupTimerBacksQuestion, Backed
<1> QED BY <1>1, <1>2, MessagesKept, PTL DEF Spec

=============================================================================
