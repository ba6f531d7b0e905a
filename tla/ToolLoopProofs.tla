--------------------------- MODULE ToolLoopProofs ---------------------------
(***************************************************************************)
(* Proofs about the tool loop, for every limit of steps and attempts.       *)
(***************************************************************************)
EXTENDS ToolLoop, TLAPS

USE LimitsAssumption

(* What a run appends is a message of the current step. *)
LEMMA RecordType ==
  ASSUME TypeOK, NEW kind \in Kinds, Record(kind)
  PROVE  /\ trace' \in Seq(Message) /\ Len(trace') = Len(trace) + 1
         /\ trace' # <<>> /\ Last(trace') = trace'[Len(trace) + 1]
         /\ Last(trace').kind = kind /\ Last(trace').step = step
         /\ \A i \in 1..Len(trace) : trace'[i] = trace[i]
         /\ pc' = "emit"
         /\ UNCHANGED <<mode, step, attempt, doomed, events, deltas, outcome, expired>>
  <1> DEFINE m == [kind |-> kind, step |-> step]
  <1>1. m \in Message /\ m.kind = kind /\ m.step = step
    BY DEF TypeOK, Message
  <1>2. trace \in Seq(Message) /\ trace' = Append(trace, m)
    BY DEF TypeOK, Record
  <1> HIDE DEF m
  <1>3. /\ trace' \in Seq(Message) /\ Len(trace') = Len(trace) + 1
        /\ trace' # <<>> /\ trace'[Len(trace) + 1] = m
        /\ \A i \in 1..Len(trace) : trace'[i] = trace[i]
    BY <1>1, <1>2
  <1>4. Last(trace') = trace'[Len(trace) + 1]
    BY <1>3 DEF Last
  <1> QED
    BY <1>1, <1>3, <1>4 DEF Record

(* Every kind that an action records is a kind. *)
LEMMA Recorded ==
  /\ "timeout" \in Kinds /\ "max_steps" \in Kinds
  /\ {"protocol_retry", "response_error"} \subseteq Kinds
  /\ ModelKinds \cup {"protocol_retry"} \subseteq Kinds
  /\ {"tool_result", "tool_error"} \subseteq Kinds
  BY DEF Kinds, ModelKinds

(* A recorded message leaves the other variables their types. *)
LEMMA RecordKeepsTypes ==
  ASSUME TypeOK, NEW kind \in Kinds, Record(kind), lateCalls' \in Nat
  PROVE  TypeOK'
  BY RecordType DEF TypeOK

(* The late calls stay a number. *)
LEMMA LateIsNat == TypeOK => Late \in Nat
  BY DEF TypeOK, Late

(* What is told is a message of the trace. *)
LEMMA ToldType ==
  ASSUME TypeOK, trace # <<>>
  PROVE  Last(trace) \in Message /\ Told(Last(trace)) \in Seq(Message)
  <1>1. Last(trace) \in Message
    BY DEF TypeOK, Last
  <1> QED
    BY <1>1 DEF TypeOK, Told

(* Proceeding from a message keeps the control variables in their ranges;   *)
(* a step is used up only inside the loop.                                  *)
LEMMA ProceedTypes ==
  ASSUME TypeOK, NEW kind \in Kinds, Proceed(kind),
         kind \in UsesStep => step < MaxSteps
  PROVE  /\ step' \in 0..MaxSteps /\ attempt' \in 1..MaxAttempts
         /\ pc' \in {"head", "ask", "tool", "say", "close", "done"}
         /\ outcome' \in Outcomes
  <1>1. CASE kind = "protocol_retry" /\ AttemptsLeft /\ pc' = "ask"
             /\ attempt' = NextAttempt /\ UNCHANGED <<step, outcome>>
    BY <1>1 DEF TypeOK, AttemptsLeft, NextAttempt
  <1>2. CASE kind = "protocol_retry" /\ Stop("error")
    BY <1>2 DEF TypeOK, Stop, Outcomes
  <1>3. CASE kind \in UsesStep /\ pc' = "head" /\ step' = step + 1
             /\ UNCHANGED <<attempt, outcome>>
    BY <1>3 DEF TypeOK
  <1>4. CASE kind = "tool_call" /\ pc' = "tool" /\ UNCHANGED <<step, attempt, outcome>>
    BY <1>4 DEF TypeOK
  <1>5. CASE kind \in Ending /\ Stop(StopReason(kind))
    BY <1>5 DEF TypeOK, Stop, StopReason, Ending, Outcomes
  <1> QED
    BY <1>1, <1>2, <1>3, <1>4, <1>5 DEF Proceed

-----------------------------------------------------------------------------
(* Where the run stands in its trace and in its loop.  The run is inside    *)
(* the loop, below the step limit, whenever it is about to ask the model or *)
(* to use up a step; while a message is told it is the last of the trace.   *)
Control ==
  /\ pc \in {"ask", "call", "tool"} => step < MaxSteps
  /\ pc = "emit" => trace # <<>> /\ Last(trace).step = step
  /\ pc = "emit" /\ Last(trace).kind \in UsesStep \cup {"tool_call", "protocol_retry"}
       => step < MaxSteps
  /\ pc \in {"say", "close"} => mode = "fallback"
  /\ pc \notin {"say", "close", "done"} => outcome = "running"

Shape == TypeOK /\ Control

(* The initial states have the right shape. *)
LEMMA ShapeInit == Init => Shape
  <1> SUFFICES ASSUME Init PROVE Shape
    OBVIOUS
  <1>1. trace \in Seq(Message) /\ events \in Seq(Message) /\ deltas = {}
    BY DEF Init
  <1>2. deltas \subseteq [step : Nat, attempt : Nat, after : Nat]
    BY <1>1, Zenon
  <1>3. step \in 0..MaxSteps /\ attempt \in 1..MaxAttempts /\ lateCalls \in Nat
    BY DEF Init
  <1>4. /\ mode \in {"run", "stream", "fallback"} /\ outcome \in Outcomes
        /\ pc \in {"head", "ask", "call", "tool", "emit", "say", "close", "done"}
        /\ doomed \in BOOLEAN /\ expired \in BOOLEAN
    BY DEF Init, Outcomes
  <1>5. TypeOK
    BY <1>1, <1>2, <1>3, <1>4, Zenon DEF TypeOK
  <1>6. Control
    BY DEF Init, Control
  <1> QED
    BY <1>5, <1>6 DEF Shape

(* Every step of the run keeps the types and the control invariant. *)
LEMMA ShapeStep == Shape /\ [Next]_vars => Shape'
  <1> SUFFICES ASSUME Shape, [Next]_vars
               PROVE  Shape'
    OBVIOUS
  <1> USE DEF Shape
  <1>1. CASE UNCHANGED vars
    BY <1>1 DEF vars, TypeOK, Control, Last
  <1>2. CASE Expire
    BY <1>2 DEF Expire, TypeOK, Control, Last
  <1>3. CASE Step
    <2>1. CASE pc' = "ask" /\ attempt' = 1 /\ step < MaxSteps
               /\ UNCHANGED <<mode, step, doomed, trace, events, deltas, outcome,
                              expired, lateCalls>>
      BY <1>3, <2>1 DEF Step, TypeOK, Control
    <2>2. CASE Record("timeout") /\ UNCHANGED lateCalls
      <3>1. TypeOK'
        BY <2>2, RecordKeepsTypes, Recorded DEF TypeOK
      <3>2. Last(trace').kind = "timeout" /\ Last(trace').step = step /\ trace' # <<>>
        BY <2>2, RecordType, Recorded DEF TypeOK
      <3>3. Control'
        BY <1>3, <2>2, <3>2 DEF Step, Record, Control, UsesStep
      <3> QED
        BY <3>1, <3>3
    <2>3. CASE Record("max_steps") /\ UNCHANGED lateCalls
      <3>1. TypeOK'
        BY <2>3, RecordKeepsTypes, Recorded DEF TypeOK
      <3>2. Last(trace').kind = "max_steps" /\ Last(trace').step = step /\ trace' # <<>>
        BY <2>3, RecordType, Recorded DEF TypeOK
      <3>3. Control'
        BY <1>3, <2>3, <3>2 DEF Step, Record, Control, UsesStep
      <3> QED
        BY <3>1, <3>3
    <2> QED
      BY <1>3, <2>1, <2>2, <2>3 DEF Step
  <1>4. CASE Ask
    <2>1. TypeOK'
      BY <1>4, LateIsNat DEF Ask, TypeOK
    <2> QED
      BY <1>4, <2>1 DEF Ask, Control
  <1>5. CASE Delta
    <2>1. TypeOK'
      <3>1. [step |-> step, attempt |-> attempt, after |-> Len(events)]
              \in [step : Nat, attempt : Nat, after : Nat]
        BY DEF TypeOK
      <3> QED
        BY <1>5, <3>1 DEF Delta, TypeOK, Outcomes
    <2> QED
      BY <1>5, <2>1 DEF Delta, Control
  <1>6. ASSUME NEW kind \in {"protocol_retry", "response_error"}, CallFails(kind)
        PROVE  Shape'
    <2> DEFINE k == IF TimedOut THEN "timeout" ELSE kind
    <2>1. k \in Kinds /\ Record(k) /\ UNCHANGED lateCalls
      BY <1>6, Recorded DEF CallFails
    <2>2. TypeOK'
      BY <2>1, RecordKeepsTypes DEF TypeOK
    <2>3. Last(trace').step = step /\ trace' # <<>>
      BY <2>1, RecordType DEF TypeOK
    <2> QED
      BY <1>6, <2>1, <2>2, <2>3 DEF CallFails, Record, Control
  <1>7. ASSUME NEW kind \in ModelKinds \cup {"protocol_retry"}, Answer(kind)
        PROVE  Shape'
    <2>1. kind \in Kinds /\ Record(kind) /\ UNCHANGED lateCalls
      BY <1>7, Recorded DEF Answer
    <2>2. TypeOK'
      BY <2>1, RecordKeepsTypes DEF TypeOK
    <2>3. Last(trace').step = step /\ trace' # <<>>
      BY <2>1, RecordType DEF TypeOK
    <2> QED
      BY <1>7, <2>1, <2>2, <2>3 DEF Answer, Record, Control
  <1>8. ASSUME NEW kind \in {"tool_result", "tool_error"}, Execute(kind)
        PROVE  Shape'
    <2>1. kind \in Kinds /\ Record(kind) /\ lateCalls' \in Nat
      BY <1>8, Recorded, LateIsNat DEF Execute
    <2>2. TypeOK'
      BY <2>1, RecordKeepsTypes DEF TypeOK
    <2>3. Last(trace').step = step /\ trace' # <<>>
      BY <2>1, RecordType DEF TypeOK
    <2> QED
      BY <1>8, <2>1, <2>2, <2>3 DEF Execute, Record, Control
  <1>9. CASE Emit
    <2> DEFINE k == Last(trace).kind
    <2>1. trace # <<>> /\ events' \in Seq(Message) /\ k \in Kinds /\ Proceed(k)
      BY <1>9, ToldType DEF Emit, Control, Message
    <2>2. k \in UsesStep => step < MaxSteps
      BY <1>9 DEF Emit, Control
    <2>3. /\ step' \in 0..MaxSteps /\ attempt' \in 1..MaxAttempts
          /\ pc' \in {"head", "ask", "tool", "say", "close", "done"}
          /\ outcome' \in Outcomes
      BY <2>1, <2>2, ProceedTypes
    <2>4. TypeOK'
      BY <1>9, <2>1, <2>3 DEF Emit, TypeOK
    <2>5. Control'
      BY <1>9, <2>1, <2>3 DEF Emit, Control, Proceed, Stop
    <2> QED
      BY <2>4, <2>5
  <1>10. CASE EmitFails
    BY <1>10 DEF EmitFails, TypeOK, Control, Outcomes
  <1>11. CASE Say
    BY <1>11 DEF Say, TypeOK, Control, Outcomes
  <1>12. CASE Close
    <2>1. [kind |-> "final", step |-> 0] \in Message
      BY DEF Message, Kinds, ModelKinds
    <2>2. events' \in Seq(Message)
      <3>1. CASE events' = <<[kind |-> "final", step |-> 0]>>
        BY <2>1, <3>1
      <3>2. CASE UNCHANGED events
        BY <3>2 DEF TypeOK
      <3> QED
        BY <1>12, <3>1, <3>2 DEF Close
    <2> QED
      BY <1>12, <2>2 DEF Close, TypeOK, Control, Outcomes
  <1> QED
    BY <1>1, <1>2, <1>3, <1>4, <1>5, <1>6, <1>7, <1>8, <1>9, <1>10, <1>11,
       <1>12 DEF Next, Engine

(* Every variable of the run keeps its type, and the loop indices their     *)
(* limits, for all limits.                                                  *)
THEOREM TypeCorrect == Spec => []TypeOK
  <1>1. Shape => TypeOK
    BY DEF Shape
  <1> QED
    BY <1>1, ShapeInit, ShapeStep, PTL DEF Spec

-----------------------------------------------------------------------------
(* A message is recorded at the head of the loop, after a model call, or    *)
(* after a tool call, and then it answers the call; only an answer of the   *)
(* model can be refused.                                                    *)
Recording(kind) ==
  /\ Record(kind)
  /\ pc \in {"head", "call", "tool"}
  /\ pc = "tool" <=> kind \in ToolAnswers
  /\ kind = "protocol_retry" => pc = "call"

(* The actions that record.                                                 *)
LEMMA RecordingSteps ==
  ASSUME Shape
  PROVE  /\ Step => \/ /\ pc' = "ask" /\ attempt' = 1
                       /\ UNCHANGED <<mode, step, trace, events, deltas, outcome>>
                    \/ Recording("timeout") \/ Recording("max_steps")
         /\ \A kind \in {"protocol_retry", "response_error"} :
              CallFails(kind) => \E k \in Kinds : Recording(k)
         /\ \A kind \in ModelKinds \cup {"protocol_retry"} :
              Answer(kind) => kind \in Kinds /\ Recording(kind)
         /\ \A kind \in {"tool_result", "tool_error"} :
              Execute(kind) => kind \in Kinds /\ Recording(kind)
  <1>1. Step => \/ /\ pc' = "ask" /\ attempt' = 1
                   /\ UNCHANGED <<mode, step, trace, events, deltas, outcome>>
                \/ Recording("timeout") \/ Recording("max_steps")
    BY DEF Step, Recording, ToolAnswers
  <1>2. ASSUME NEW kind \in {"protocol_retry", "response_error"}, CallFails(kind)
        PROVE  \E k \in Kinds : Recording(k)
    <2> DEFINE k == IF TimedOut THEN "timeout" ELSE kind
    <2>1. k \in Kinds /\ k \notin ToolAnswers
      BY Recorded DEF ToolAnswers
    <2>2. Recording(k)
      BY <1>2, <2>1 DEF CallFails, Recording
    <2> QED
      BY <2>1, <2>2
  <1>3. ASSUME NEW kind \in ModelKinds \cup {"protocol_retry"}, Answer(kind)
        PROVE  kind \in Kinds /\ Recording(kind)
    BY <1>3, Recorded DEF Answer, Recording, ToolAnswers, ModelKinds
  <1>4. ASSUME NEW kind \in {"tool_result", "tool_error"}, Execute(kind)
        PROVE  kind \in Kinds /\ Recording(kind)
    BY <1>4, Recorded DEF Execute, Recording, ToolAnswers
  <1> QED
    BY <1>1, <1>2, <1>3, <1>4

(* The steps of a run, with the recording ones taken together.              *)
LEMMA StepCases ==
  ASSUME Shape, [Next]_vars
  PROVE  \/ UNCHANGED <<mode, pc, step, attempt, trace, events, deltas, outcome>>
         \/ /\ pc = "head" /\ pc' = "ask" /\ attempt' = 1
            /\ UNCHANGED <<mode, step, trace, events, deltas, outcome>>
         \/ \E kind \in Kinds : Recording(kind)
         \/ Ask \/ Delta \/ Emit \/ EmitFails \/ Say \/ Close
  <1>1. Step => \/ /\ pc = "head" /\ pc' = "ask" /\ attempt' = 1
                   /\ UNCHANGED <<mode, step, trace, events, deltas, outcome>>
                \/ \E kind \in Kinds : Recording(kind)
    BY RecordingSteps, Recorded DEF Step
  <1>2. UNCHANGED vars \/ Expire =>
          UNCHANGED <<mode, pc, step, attempt, trace, events, deltas, outcome>>
    BY DEF vars, Expire
  <1> QED
    BY <1>1, <1>2, RecordingSteps, Zenon DEF Next, Engine

-----------------------------------------------------------------------------
(* The callback has been told all of the trace, and all but the last        *)
(* message exactly while the engine is about to tell it.                    *)
StreamInv ==
  /\ StreamFollowsTrace
  /\ mode = "stream" /\ pc = "emit" => Len(trace) = Len(events) + 1

(* No step of the run loses, repeats or reorders an event.                  *)
LEMMA StreamStep == Shape /\ StreamInv /\ [Next]_vars => StreamInv'
  <1> SUFFICES ASSUME Shape, StreamInv, [Next]_vars
               PROVE  StreamInv'
    OBVIOUS
  <1> USE DEF StreamInv, StreamFollowsTrace
  <1>1. CASE UNCHANGED <<mode, pc, step, attempt, trace, events, deltas, outcome>>
    BY <1>1
  <1>2. CASE pc = "head" /\ pc' = "ask"
             /\ UNCHANGED <<mode, step, trace, events, deltas, outcome>>
    BY <1>2
  <1>3. ASSUME NEW kind \in Kinds, Recording(kind)
        PROVE  StreamInv'
    <2>1. /\ trace \in Seq(Message) /\ trace' \in Seq(Message)
          /\ events \in Seq(Message) /\ events' = events /\ mode' = mode
          /\ Len(trace') = Len(trace) + 1 /\ pc' = "emit"
          /\ \A i \in 1..Len(trace) : trace'[i] = trace[i]
      BY <1>3, RecordType DEF Shape, TypeOK, Recording
    <2>2. pc # "emit" /\ outcome = "running"
      BY <1>3 DEF Shape, Control, Recording
    <2> QED
      BY <2>1, <2>2
  <1>4. CASE Ask
    BY <1>4 DEF Ask
  <1>5. CASE Delta
    BY <1>5 DEF Delta, Shape, Control
  <1>6. CASE Emit
    <2>1. CASE mode # "stream"
      BY <1>6, <2>1 DEF Emit
    <2>2. CASE mode = "stream"
      <3>1. /\ trace \in Seq(Message) /\ events \in Seq(Message)
            /\ Len(trace) = Len(events) + 1 /\ Last(trace) = trace[Len(trace)]
            /\ Last(trace) \in Message
            /\ trace' = trace /\ events' = Append(events, Last(trace))
        <4>1. trace # <<>> /\ TypeOK
          BY <1>6 DEF Emit, Shape, Control
        <4>2. Last(trace) \in Message
          BY <4>1, ToldType
        <4>3. trace' = trace /\ events' = Append(events, Last(trace))
          BY <1>6, <2>2 DEF Emit, Told
        <4>4. Len(trace) = Len(events) + 1
          BY <1>6, <2>2 DEF Emit
        <4> QED
          BY <4>1, <4>2, <4>3, <4>4 DEF TypeOK, Last
      <3>2. Len(events') = Len(trace) /\ \A i \in 1..Len(trace) : events'[i] = trace[i]
        <4> DEFINE n == Len(events)  m == Last(trace)
        <4>1. n \in Nat /\ \A i \in 1..n : events[i] = trace[i]
          BY <2>2, <3>1
        <4>2. Len(trace) = n + 1 /\ m = trace[n + 1]
          BY <3>1
        <4>3. events \in Seq(Message) /\ m \in Message /\ events' = Append(events, m)
          BY <3>1
        <4> HIDE DEF m
        <4>4. /\ Len(events') = n + 1 /\ events'[n + 1] = m
              /\ \A i \in 1..n : events'[i] = events[i]
          BY <4>3
        <4>5. \A i \in 1..(n + 1) : i \in 1..n \/ i = n + 1
          BY <4>1
        <4> HIDE DEF n
        <4> QED
          BY <4>1, <4>2, <4>4, <4>5
      <3>3. DOMAIN events' = 1..Len(trace)
        BY <3>1
      <3>4. pc' # "emit" /\ mode' = mode
        BY <1>6 DEF Emit, Proceed, Stop
      <3> QED
        BY <3>1, <3>2, <3>3, <3>4
    <2> QED
      BY <2>1, <2>2
  <1>7. CASE EmitFails
    BY <1>7 DEF EmitFails
  <1>8. CASE Say
    BY <1>8 DEF Say, Shape, Control
  <1>9. CASE Close
    BY <1>9 DEF Close, Shape, Control
  <1> QED
    BY <1>1, <1>2, <1>3, <1>4, <1>5, <1>6, <1>7, <1>8, <1>9, StepCases

(* The events of a streamed run are its trace, for every run and every      *)
(* failure of the callback.                                                 *)
THEOREM EventsAreTheTrace == Spec => []StreamFollowsTrace
  <1>1. Init => StreamInv
    BY DEF Init, StreamInv, StreamFollowsTrace
  <1>2. StreamInv => StreamFollowsTrace
    BY DEF StreamInv
  <1> QED
    BY <1>1, <1>2, ShapeInit, ShapeStep, StreamStep, PTL DEF Spec

-----------------------------------------------------------------------------
(* A tool runs exactly while its call is the last message of the trace.     *)
CallsInv ==
  /\ CallsAnswered
  /\ pc = "tool" => /\ trace # <<>>
                    /\ Last(trace).kind = "tool_call" /\ Last(trace).step = step

(* Recording answers the call that is waiting, and no other.                *)
LEMMA RecordCalls ==
  ASSUME Shape, CallsInv, NEW kind \in Kinds, Recording(kind)
  PROVE  CallsInv'
  <1> DEFINE n == Len(trace)
  <1>1. /\ trace \in Seq(Message) /\ trace' \in Seq(Message)
        /\ Len(trace') = n + 1 /\ pc' = "emit" /\ n \in Nat
        /\ \A i \in 1..n : trace'[i] = trace[i]
        /\ trace'[n + 1].kind = kind /\ trace'[n + 1].step = step
    BY RecordType DEF Shape, TypeOK, Recording
  <1>2. outcome = "running" /\ pc \in {"head", "call", "tool"}
    BY DEF Shape, Control, Recording
  <1>3. n > 0 /\ trace[n].kind = "tool_call" => pc = "tool" /\ trace[n].step = step
    BY <1>1, <1>2 DEF CallsInv, CallsAnswered, Last
  <1>4. pc = "tool" => n > 0 /\ trace[n].kind = "tool_call"
    BY <1>1 DEF CallsInv, Last
  <1>5. pc = "tool" <=> kind \in ToolAnswers
    BY DEF Recording
  <1>6. ASSUME NEW i \in 1..(n + 1)
        PROVE  /\ trace'[i].kind = "tool_call" =>
                    IF i = n + 1 THEN pc' = "emit"
                    ELSE /\ trace'[i + 1].kind \in ToolAnswers
                         /\ trace'[i + 1].step = trace'[i].step
               /\ trace'[i].kind \in ToolAnswers =>
                    i > 1 /\ trace'[i - 1].kind = "tool_call"
    <2>1. CASE i = n + 1
      <3>1. kind \in ToolAnswers => n > 0 /\ trace'[n].kind = "tool_call"
        BY <1>1, <1>4, <1>5
      <3> QED
        BY <1>1, <2>1, <3>1
    <2>2. CASE i = n
      <3>1. trace'[i].kind = "tool_call" =>
              trace'[i + 1].kind \in ToolAnswers /\ trace'[i + 1].step = trace'[i].step
        BY <1>1, <1>3, <1>5, <2>2
      <3>2. trace[i].kind \in ToolAnswers => i > 1 /\ trace[i - 1].kind = "tool_call"
        BY <1>1, <2>2 DEF CallsInv, CallsAnswered
      <3> QED
        BY <1>1, <2>2, <3>1, <3>2
    <2>3. CASE i < n
      <3>1. /\ trace[i].kind = "tool_call" =>
                 trace[i + 1].kind \in ToolAnswers /\ trace[i + 1].step = trace[i].step
            /\ trace[i].kind \in ToolAnswers => i > 1 /\ trace[i - 1].kind = "tool_call"
        BY <1>1, <2>3 DEF CallsInv, CallsAnswered
      <3> QED
        BY <1>1, <2>3, <3>1
    <2> QED
      BY <1>1, <2>1, <2>2, <2>3
  <1>7. DOMAIN trace' = 1..(n + 1)
    BY <1>1
  <1> HIDE DEF n
  <1> QED
    BY <1>1, <1>6, <1>7, Zenon DEF CallsInv, CallsAnswered

(* No step leaves a call without its answer.                                *)
LEMMA CallsStep == Shape /\ CallsInv /\ [Next]_vars => CallsInv'
  <1> SUFFICES ASSUME Shape, CallsInv, [Next]_vars
               PROVE  CallsInv'
    OBVIOUS
  <1> USE DEF CallsInv, CallsAnswered
  <1>1. CASE UNCHANGED <<mode, pc, step, attempt, trace, events, deltas, outcome>>
    BY <1>1
  <1>2. CASE pc = "head" /\ pc' = "ask"
             /\ UNCHANGED <<mode, step, trace, events, deltas, outcome>>
    BY <1>2
  <1>3. ASSUME NEW kind \in Kinds, Recording(kind)
        PROVE  CallsInv'
    BY <1>3, RecordCalls
  <1>4. CASE Ask
    BY <1>4 DEF Ask
  <1>5. CASE Delta
    BY <1>5 DEF Delta, Shape, Control
  <1>6. CASE Emit
    <2>1. trace' = trace /\ trace # <<>> /\ trace \in Seq(Message)
          /\ Last(trace).step = step /\ Last(trace) = trace[Len(trace)]
      BY <1>6 DEF Emit, Shape, TypeOK, Control, Last
    <2>2. Last(trace).kind = "tool_call" => pc' = "tool" /\ step' = step
      BY <1>6 DEF Emit, Proceed, UsesStep, Ending
    <2>3. pc' = "tool" => Last(trace).kind = "tool_call" /\ step' = step
      BY <1>6 DEF Emit, Proceed, Stop
    <2>4. CallsAnswered'
      BY <2>1, <2>2
    <2> QED
      BY <2>1, <2>3, <2>4
  <1>7. CASE EmitFails
    BY <1>7 DEF EmitFails
  <1>8. CASE Say
    BY <1>8 DEF Say
  <1>9. CASE Close
    BY <1>9 DEF Close
  <1> QED
    BY <1>1, <1>2, <1>3, <1>4, <1>5, <1>6, <1>7, <1>8, <1>9, StepCases

(* Every tool call of a run is answered by the next message, and only tool  *)
(* calls are answered.                                                      *)
THEOREM EveryCallAnswered == Spec => []CallsAnswered
  <1>1. Init => CallsInv
    BY DEF Init, CallsInv, CallsAnswered
  <1>2. CallsInv => CallsAnswered
    BY DEF CallsInv
  <1> QED
    BY <1>1, <1>2, ShapeInit, ShapeStep, CallsStep, PTL DEF Spec

-----------------------------------------------------------------------------
(* The stop reason is the one of the last message.                          *)
EndInv ==
  /\ EndsOnce
  /\ pc = "say" => trace # <<>>

(* A message that ends the run is recorded on a trace without one.          *)
LEMMA RecordEnds ==
  ASSUME Shape, EndInv, NEW kind \in Kinds, Recording(kind)
  PROVE  EndInv'
  <1> DEFINE n == Len(trace)
  <1>1. /\ trace \in Seq(Message) /\ trace' \in Seq(Message)
        /\ Len(trace') = n + 1 /\ pc' = "emit" /\ n \in Nat /\ outcome' = outcome
        /\ \A i \in 1..n : trace'[i] = trace[i]
    BY RecordType DEF Shape, TypeOK, Recording
  <1>2. outcome = "running" /\ pc \in {"head", "call", "tool"}
    BY DEF Shape, Control, Recording
  <1>3. \A i \in 1..n : trace[i].kind \notin
          {"final", "model_error", "tool_error", "timeout", "max_steps"}
    BY <1>1, <1>2 DEF EndInv, EndsOnce
  <1> QED
    BY <1>1, <1>2, <1>3 DEF EndInv, EndsOnce

(* No step goes on after a message that ends the run.                       *)
LEMMA EndStep == Shape /\ EndInv /\ [Next]_vars => EndInv'
  <1> SUFFICES ASSUME Shape, EndInv, [Next]_vars
               PROVE  EndInv'
    OBVIOUS
  <1> USE DEF EndInv, EndsOnce
  <1>1. CASE UNCHANGED <<mode, pc, step, attempt, trace, events, deltas, outcome>>
    BY <1>1 DEF Last
  <1>2. CASE pc = "head" /\ pc' = "ask"
             /\ UNCHANGED <<mode, step, trace, events, deltas, outcome>>
    BY <1>2 DEF Last
  <1>3. ASSUME NEW kind \in Kinds, Recording(kind)
        PROVE  EndInv'
    BY <1>3, RecordEnds
  <1>4. CASE Ask
    BY <1>4 DEF Ask, Last
  <1>5. CASE Delta
    BY <1>5 DEF Delta, Last
  <1>6. CASE Emit
    <2>1. trace' = trace /\ trace # <<>> /\ trace \in Seq(Message)
          /\ Last(trace) = trace[Len(trace)] /\ Last(trace') = Last(trace)
          /\ outcome = "running"
      BY <1>6 DEF Emit, Shape, TypeOK, Control, Last
    <2>2. pc' \in {"head", "ask", "tool"} => Last(trace).kind \notin Ending
      BY <1>6 DEF Emit, Proceed, Stop, UsesStep, Ending
    <2>3. outcome' = "final" => Last(trace).kind = "final"
      BY <1>6, <2>1 DEF Emit, Proceed, Stop, StopReason, Ending
    <2>4. pc' # "call"
      BY <1>6 DEF Emit, Proceed, Stop
    <2> QED
      BY <2>1, <2>2, <2>3, <2>4 DEF Ending
  <1>7. CASE EmitFails
    BY <1>7 DEF EmitFails, Last
  <1>8. CASE Say
    BY <1>8 DEF Say, Last
  <1>9. CASE Close
    BY <1>9 DEF Close, Last
  <1> QED
    BY <1>1, <1>2, <1>3, <1>4, <1>5, <1>6, <1>7, <1>8, <1>9, StepCases

(* A run has at most one message that ends it, as its last, and reports a   *)
(* final message only if the model gave one.                                *)
THEOREM OneEnd == Spec => []EndsOnce
  <1>1. Init => EndInv
    BY DEF Init, EndInv, EndsOnce
  <1>2. EndInv => EndsOnce
    BY DEF EndInv
  <1> QED
    BY <1>1, <1>2, ShapeInit, ShapeStep, EndStep, PTL DEF Spec

-----------------------------------------------------------------------------
(* Among the last n messages of the trace, if it has as many, is one that   *)
(* is no retry.                                                             *)
Fresh(n) ==
  Len(trace) < n \/ \E j \in (Len(trace) - n + 1)..Len(trace) :
                      trace[j].kind # "protocol_retry"

(* The attempts of the step are counted: the retries at the end of the      *)
(* trace are fewer than the attempt, or as many once one is recorded.       *)
RetryInv ==
  /\ RetryLimit
  /\ pc = "head" => Fresh(1)
  /\ pc \in {"ask", "call"} => Fresh(attempt)
  /\ pc = "emit" => Fresh(attempt + 1)

(* A refused answer is recorded on a trace that has fewer of them at its    *)
(* end than the attempt.                                                    *)
LEMMA RecordRetry ==
  ASSUME Shape, RetryInv, NEW kind \in Kinds, Recording(kind)
  PROVE  RetryInv'
  <1> DEFINE n == Len(trace)
  <1>1. /\ trace \in Seq(Message) /\ trace' \in Seq(Message)
        /\ Len(trace') = n + 1 /\ pc' = "emit" /\ n \in Nat /\ attempt' = attempt
        /\ \A i \in 1..n : trace'[i] = trace[i]
        /\ trace'[n + 1].kind = kind
    BY RecordType DEF Shape, TypeOK, Recording
  <1>2. /\ pc \in {"head", "call", "tool"} /\ attempt \in 1..MaxAttempts
        /\ kind = "protocol_retry" => pc = "call"
    BY DEF Shape, TypeOK, Recording
  <1>3. RetryLimit'
    <2> SUFFICES ASSUME NEW i \in DOMAIN trace',
                        i + MaxAttempts - 1 <= Len(trace'),
                        \A j \in i..(i + MaxAttempts - 1) :
                          trace'[j].kind = "protocol_retry"
                 PROVE  i + MaxAttempts - 1 = Len(trace')
      BY <1>1, Zenon DEF RetryLimit
    <2>1. CASE i + MaxAttempts - 1 <= n
      <3>1. i \in DOMAIN trace /\ \A j \in i..(i + MaxAttempts - 1) :
              trace[j].kind = "protocol_retry"
        BY <1>1, <2>1
      <3>2. pc \notin {"head", "call", "tool"}
        BY <2>1, <3>1 DEF RetryInv, RetryLimit
      <3> QED
        BY <1>2, <3>2
    <2> QED
      BY <1>1, <2>1
  <1>4. (Fresh(attempt + 1))'
    <2>1. CASE kind # "protocol_retry"
      BY <1>1, <1>2, <2>1 DEF Fresh
    <2>2. CASE kind = "protocol_retry"
      <3>1. Fresh(attempt)
        BY <1>2, <2>2 DEF RetryInv
      <3>2. CASE n < attempt
        BY <1>1, <1>2, <3>2 DEF Fresh
      <3>3. CASE \E j \in (n - attempt + 1)..n : trace[j].kind # "protocol_retry"
        <4>1. PICK j \in (n - attempt + 1)..n : trace[j].kind # "protocol_retry"
          BY <3>3
        <4>2. CASE j >= 1
          <5>1. trace'[j].kind # "protocol_retry"
                /\ j \in (Len(trace') - (attempt + 1) + 1)..Len(trace')
            BY <1>1, <1>2, <4>1, <4>2
          <5> QED
            BY <1>1, <5>1 DEF Fresh
        <4>3. CASE j < 1
          BY <1>1, <1>2, <4>1, <4>3 DEF Fresh
        <4> QED
          BY <1>1, <1>2, <4>1, <4>2, <4>3
      <3> QED
        BY <3>1, <3>2, <3>3 DEF Fresh
    <2> QED
      BY <2>1, <2>2
  <1> QED
    BY <1>1, <1>3, <1>4 DEF RetryInv

(* No step asks the model again after MaxAttempts refused answers in a row. *)
LEMMA RetryStep == Shape /\ RetryInv /\ [Next]_vars => RetryInv'
  <1> SUFFICES ASSUME Shape, RetryInv, [Next]_vars
               PROVE  RetryInv'
    OBVIOUS
  <1>1. CASE UNCHANGED <<mode, pc, step, attempt, trace, events, deltas, outcome>>
    BY <1>1 DEF RetryInv, RetryLimit, Fresh
  <1>2. CASE pc = "head" /\ pc' = "ask" /\ attempt' = 1
             /\ UNCHANGED <<mode, step, trace, events, deltas, outcome>>
    BY <1>2 DEF RetryInv, RetryLimit, Fresh
  <1>3. ASSUME NEW kind \in Kinds, Recording(kind)
        PROVE  RetryInv'
    BY <1>3, RecordRetry
  <1>4. CASE Ask
    BY <1>4 DEF Ask, RetryInv, RetryLimit, Fresh
  <1>5. CASE Delta
    BY <1>5 DEF Delta, RetryInv, RetryLimit, Fresh
  <1>6. CASE Emit
    <2> DEFINE n == Len(trace)
    <2>1. /\ trace' = trace /\ trace \in Seq(Message) /\ n \in Nat /\ n > 0
          /\ Last(trace) = trace[n] /\ attempt \in 1..MaxAttempts /\ pc = "emit"
      BY <1>6 DEF Emit, Shape, TypeOK, Control, Last
    <2>2. Fresh(attempt + 1) /\ RetryLimit
      BY <2>1 DEF RetryInv
    <2>3. CASE Last(trace).kind = "protocol_retry" /\ attempt < MaxAttempts
               /\ pc' = "ask" /\ attempt' = attempt + 1
      <3>1. \A i \in DOMAIN trace :
              i + MaxAttempts - 1 = n =>
                \E j \in i..(i + MaxAttempts - 1) : trace[j].kind # "protocol_retry"
        <4> SUFFICES ASSUME NEW i \in DOMAIN trace, i + MaxAttempts - 1 = n
                     PROVE  \E j \in i..(i + MaxAttempts - 1) :
                              trace[j].kind # "protocol_retry"
          BY Zenon
        <4>a. i \in Nat /\ n >= attempt + 1 /\ n - attempt >= i
          BY <2>1, <2>3
        <4> HIDE DEF n
        <4>1. ~(n < attempt + 1) /\ (n - (attempt + 1) + 1)..n \subseteq i..(i + MaxAttempts - 1)
          BY <2>1, <4>a
        <4> USE DEF n
        <4> QED
          BY <2>2, <4>1 DEF Fresh
      <3>2. RetryLimit'
        BY <2>1, <2>2, <3>1 DEF RetryLimit
      <3> QED
        BY <2>1, <2>2, <2>3, <3>2 DEF RetryInv, Fresh
    <2>4. CASE Last(trace).kind # "protocol_retry" /\ pc' \notin {"ask", "call", "emit"}
      <3>1. \A i \in DOMAIN trace :
              i + MaxAttempts - 1 = n =>
                \E j \in i..(i + MaxAttempts - 1) : trace[j].kind # "protocol_retry"
        BY <2>1, <2>4
      <3>2. RetryLimit'
        BY <2>1, <2>2, <3>1 DEF RetryLimit
      <3>3. Fresh(1)'
        BY <2>1, <2>4 DEF Fresh
      <3> QED
        BY <2>4, <3>2, <3>3 DEF RetryInv
    <2>5. CASE pc' \in {"say", "close", "done"}
      BY <2>1, <2>2, <2>5 DEF RetryInv, RetryLimit
    <2>6. Proceed(Last(trace).kind)
      BY <1>6 DEF Emit
    <2> QED
      BY <2>3, <2>4, <2>5, <2>6
         DEF Proceed, Stop, UsesStep, Ending, AttemptsLeft, NextAttempt
  <1>7. CASE EmitFails
    BY <1>7 DEF EmitFails, RetryInv, RetryLimit
  <1>8. CASE Say
    BY <1>8 DEF Say, RetryInv, RetryLimit
  <1>9. CASE Close
    BY <1>9 DEF Close, RetryInv, RetryLimit
  <1> QED
    BY <1>1, <1>2, <1>3, <1>4, <1>5, <1>6, <1>7, <1>8, <1>9, StepCases

(* MaxAttempts refused answers in a row end the run, whatever came before   *)
(* them.                                                                    *)
THEOREM RetriesAreLimited == Spec => []RetryLimit
  <1>1. Init => RetryInv
    BY DEF Init, RetryInv, RetryLimit, Fresh
  <1>2. RetryInv => RetryLimit
    BY DEF RetryInv
  <1> QED
    BY <1>1, <1>2, ShapeInit, ShapeStep, RetryStep, PTL DEF Spec

-----------------------------------------------------------------------------
(* The run is over soon after the first late call: after it the run only    *)
(* records a message that leads to the head of the loop or out of it.       *)
LateInv ==
  /\ lateCalls <= 1
  /\ ~expired => lateCalls = 0 /\ ~(pc = "call" /\ doomed)
  /\ pc \in {"ask", "tool"} => lateCalls = 0
  /\ pc = "call" /\ ~doomed => lateCalls = 0
  /\ pc = "emit" /\ Last(trace).kind \in {"tool_call", "protocol_retry"}
       => lateCalls = 0

(* No second late call is begun.                                            *)
LEMMA LateStep == Shape /\ LateInv /\ [Next]_vars => LateInv'
  <1> SUFFICES ASSUME Shape, LateInv, [Next]_vars
               PROVE  LateInv'
    OBVIOUS
  <1> USE DEF LateInv
  <1>a. TypeOK
    BY DEF Shape
  <1>1. CASE UNCHANGED vars
    BY <1>1 DEF vars, Last
  <1>2. CASE Expire
    BY <1>2 DEF Expire, Last
  <1>3. CASE Step
    <2>1. CASE pc' = "ask" /\ ~expired /\ UNCHANGED <<expired, lateCalls>>
      BY <2>1
    <2>2. CASE Record("timeout") /\ UNCHANGED lateCalls
      BY <1>a, <2>2, RecordType, Recorded DEF Record
    <2>3. CASE Record("max_steps") /\ UNCHANGED lateCalls
      BY <1>a, <2>3, RecordType, Recorded DEF Record
    <2> QED
      BY <1>3, <2>1, <2>2, <2>3 DEF Step, TimedOut
  <1>4. CASE Ask
    BY <1>4 DEF Ask, Late
  <1>5. CASE Delta
    BY <1>5 DEF Delta
  <1>6. ASSUME NEW kind \in {"protocol_retry", "response_error"}, CallFails(kind)
        PROVE  LateInv'
    <2> DEFINE k == IF expired THEN "timeout" ELSE kind
    <2>1. k \in Kinds /\ Record(k) /\ UNCHANGED <<expired, lateCalls>>
      BY <1>6, Recorded DEF CallFails, Record, TimedOut
    <2>2. Last(trace').kind = k /\ pc' = "emit"
      BY <1>a, <2>1, RecordType
    <2> QED
      BY <1>6, <2>1, <2>2 DEF CallFails
  <1>7. ASSUME NEW kind \in ModelKinds \cup {"protocol_retry"}, Answer(kind)
        PROVE  LateInv'
    BY <1>7 DEF Answer, Record
  <1>8. ASSUME NEW kind \in {"tool_result", "tool_error"}, Execute(kind)
        PROVE  LateInv'
    <2>1. kind \in Kinds /\ Record(kind) /\ UNCHANGED expired
      BY <1>8, Recorded DEF Execute, Record
    <2>2. Last(trace').kind = kind /\ pc' = "emit"
      BY <1>a, <2>1, RecordType
    <2> QED
      BY <1>8, <2>1, <2>2 DEF Execute, Late
  <1>9. CASE Emit
    BY <1>9 DEF Emit, Proceed, Stop
  <1>10. CASE EmitFails
    BY <1>10 DEF EmitFails
  <1>11. CASE Say
    BY <1>11 DEF Say
  <1>12. CASE Close
    BY <1>12 DEF Close
  <1> QED
    BY <1>1, <1>2, <1>3, <1>4, <1>5, <1>6, <1>7, <1>8, <1>9, <1>10, <1>11,
       <1>12 DEF Next, Engine

(* After the expiry of its context a run begins at most one more call.      *)
THEOREM AtMostOneLateCall == Spec => []OneLateCall
  <1>1. Init => LateInv
    BY DEF Init, LateInv
  <1>2. LateInv => OneLateCall
    BY DEF LateInv, OneLateCall
  <1> QED
    BY <1>1, <1>2, ShapeInit, ShapeStep, LateStep, PTL DEF Spec

-----------------------------------------------------------------------------
(* The text of the running model call is the only one told since the last   *)
(* event; before a model call there is none.                                *)
DeltaInv ==
  /\ DeltasSeparated
  /\ mode = "stream" => \A d \in deltas :
       /\ d.after <= Len(events)
       /\ d.after = Len(events) =>
            \/ pc = "call" /\ d = [step |-> step, attempt |-> attempt,
                                   after |-> Len(events)]
            \/ pc \in {"emit", "done"}
  /\ mode # "stream" => deltas = {} \/ pc \in {"close", "done"}

(* No step tells text of two model calls back to back.                      *)
LEMMA DeltaStep == Shape /\ DeltaInv /\ [Next]_vars => DeltaInv'
  <1> SUFFICES ASSUME Shape, DeltaInv, [Next]_vars
               PROVE  DeltaInv'
    OBVIOUS
  <1> USE DEF DeltaInv, DeltasSeparated
  <1>1. CASE UNCHANGED <<mode, pc, step, attempt, trace, events, deltas, outcome>>
    BY <1>1
  <1>2. CASE pc = "head" /\ pc' = "ask"
             /\ UNCHANGED <<mode, step, trace, events, deltas, outcome>>
    BY <1>2
  <1>3. ASSUME NEW kind \in Kinds, Recording(kind)
        PROVE  DeltaInv'
    BY <1>3 DEF Recording, Record
  <1>4. CASE Ask
    BY <1>4 DEF Ask
  <1>5. CASE Delta
    BY <1>5 DEF Delta, Shape, TypeOK
  <1>6. CASE Emit
    <2>1. mode' = mode /\ deltas' = deltas /\ pc = "emit"
      BY <1>6 DEF Emit
    <2>2. CASE mode = "stream"
      <3>1. Len(events') = Len(events) + 1 /\ Len(events) \in Nat
        BY <1>6, <2>2 DEF Emit, Told, Shape, TypeOK
      <3>2. \A d \in deltas : d.after \in Nat
        BY DEF Shape, TypeOK
      <3> QED
        BY <2>1, <2>2, <3>1, <3>2
    <2>3. CASE mode # "stream"
      BY <2>1, <2>3
    <2> QED
      BY <2>2, <2>3
  <1>7. CASE EmitFails
    BY <1>7 DEF EmitFails
  <1>8. CASE Say
    BY <1>8 DEF Say, Shape, Control
  <1>9. CASE Close
    BY <1>9 DEF Close, Shape, Control
  <1> QED
    BY <1>1, <1>2, <1>3, <1>4, <1>5, <1>6, <1>7, <1>8, <1>9, StepCases

(* Between the texts of two model calls the callback is told something      *)
(* else.                                                                    *)
THEOREM TextsAreSeparated == Spec => []DeltasSeparated
  <1>1. Init => DeltaInv
    BY DEF Init, DeltaInv, DeltasSeparated
  <1>2. DeltaInv => DeltasSeparated
    BY DEF DeltaInv
  <1> QED
    BY <1>1, <1>2, ShapeInit, ShapeStep, DeltaStep, PTL DEF Spec

-----------------------------------------------------------------------------
(* A message is told or its tool executed later than it is recorded.        *)
LEMMA RecordNearer ==
  ASSUME Shape, CallsInv, NEW kind \in Kinds, Recording(kind)
  PROVE  Nearer
  <1>1. /\ pc' = "emit" /\ step' = step /\ attempt' = attempt
        /\ Last(trace').kind = kind
    BY RecordType DEF Shape, Recording
  <1>2. Phase' = IF kind = "tool_call" THEN 2 ELSE 4
    BY <1>1 DEF Phase
  <1>3. pc \in {"head", "call", "tool"} /\ (pc = "tool" => kind # "tool_call")
    BY DEF Recording, ToolAnswers
  <1>4. pc = "call" => Phase = 1
    BY DEF Phase
  <1>5. pc = "tool" => Phase = 3
    BY DEF Phase
  <1> QED
    BY <1>1, <1>2, <1>3, <1>4, <1>5 DEF Nearer

(* Every step of the engine brings the end nearer.                          *)
LEMMA NearerStep ==
  Shape /\ CallsInv /\ [Next]_vars => UNCHANGED <<pc, trace>> \/ Nearer
  <1> SUFFICES ASSUME Shape, CallsInv, [Next]_vars
               PROVE  UNCHANGED <<pc, trace>> \/ Nearer
    OBVIOUS
  <1>1. CASE pc = "head" /\ pc' = "ask"
             /\ UNCHANGED <<mode, step, trace, events, deltas, outcome>>
    BY <1>1 DEF Nearer
  <1>2. ASSUME NEW kind \in Kinds, Recording(kind)
        PROVE  Nearer
    BY <1>2, RecordNearer
  <1>3. CASE Ask
    <2>1. Phase = 0 /\ Phase' = 1
      BY <1>3 DEF Ask, Phase
    <2> QED
      BY <1>3, <2>1 DEF Ask, Nearer
  <1>4. CASE Delta
    <2>1. pc = "call" /\ (pc' = "call" \/ pc' = "done")
          /\ UNCHANGED <<step, attempt, trace>>
      BY <1>4 DEF Delta
    <2>2. pc' = "done" => Phase = 1 /\ Phase' = 7
      BY <2>1 DEF Phase
    <2> QED
      BY <2>1, <2>2 DEF Nearer
  <1>5. CASE Emit
    <2>1. pc = "emit" /\ Proceed(Last(trace).kind) /\ trace' = trace
          /\ step \in Nat /\ attempt \in Nat
      BY <1>5 DEF Emit, Shape, TypeOK
    <2>2. CASE pc' = "ask" /\ attempt' = attempt + 1 /\ step' = step
      BY <2>1, <2>2 DEF Nearer
    <2>3. CASE pc' = "head" /\ step' = step + 1
      BY <2>1, <2>3 DEF Nearer
    <2>4. CASE Last(trace).kind = "tool_call" /\ pc' = "tool"
               /\ UNCHANGED <<step, attempt, outcome>>
      <3>1. Phase = 2 /\ Phase' = 3
        BY <2>1, <2>4 DEF Phase
      <3> QED
        BY <2>1, <2>4, <3>1 DEF Nearer
    <2>5. CASE pc' \in {"done", "say", "close"} /\ UNCHANGED <<step, attempt>>
      <3>1. Phase <= 4 /\ Phase' >= 5 /\ Phase \in Nat /\ Phase' \in Nat
        BY <2>1, <2>5 DEF Phase
      <3> QED
        BY <2>1, <2>5, <3>1 DEF Nearer
    <2> QED
      BY <2>1, <2>2, <2>3, <2>4, <2>5 DEF Proceed, Stop, NextAttempt
  <1>6. CASE EmitFails
    <2>1. Phase <= 4 /\ Phase' = 7 /\ Phase \in Nat
      BY <1>6 DEF EmitFails, Phase
    <2> QED
      BY <1>6, <2>1 DEF EmitFails, Nearer
  <1>7. CASE Say
    <2>1. Phase = 5 /\ Phase' \in {6, 7}
      BY <1>7 DEF Say, Phase
    <2> QED
      BY <1>7, <2>1 DEF Say, Nearer
  <1>8. CASE Close
    <2>1. Phase = 6 /\ Phase' = 7
      BY <1>8 DEF Close, Phase
    <2> QED
      BY <1>8, <2>1 DEF Close, Nearer
  <1> QED
    BY <1>1, <1>2, <1>3, <1>4, <1>5, <1>6, <1>7, <1>8, StepCases

(* The engine never goes round in circles: with the bounds of TypeCorrect   *)
(* on step and attempt every run takes finitely many engine steps.          *)
THEOREM NoCircles == Spec => EveryStepAdvances
  <1>1. Init => CallsInv
    BY DEF Init, CallsInv, CallsAnswered
  <1> QED
    BY <1>1, ShapeInit, ShapeStep, CallsStep, NearerStep, PTL
       DEF Spec, EveryStepAdvances

=============================================================================
