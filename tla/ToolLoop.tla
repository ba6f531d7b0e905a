------------------------------ MODULE ToolLoop ------------------------------
(***************************************************************************)
(* One run of the tool loop (internal/llm/toolloop/engine.go): the model is *)
(* asked for the next message of a trace; a tool call is executed and its   *)
(* result appended; an answer that breaks the protocol is retried; the run  *)
(* ends with the model's final message, an error, the step limit or the     *)
(* expiry of its context, which may come at any moment.                     *)
(*                                                                          *)
(* Three ways to run: Run, RunStream with a driver that streams, where each *)
(* message is also handed to a callback, and RunStream with one that does   *)
(* not, which runs Run and then tells the callback its result.  A message   *)
(* is its kind: texts, ids, arguments and payloads are left out, validation *)
(* is the choice between a kind and a protocol error.                       *)
(***************************************************************************)
EXTENDS Naturals, Sequences, SequencesExt

CONSTANTS
  MaxSteps,     \* RunConfig.MaxSteps
  MaxAttempts   \* EngineOptions.MaxProtocolAttempts

ASSUME LimitsAssumption == MaxSteps \in Nat \ {0} /\ MaxAttempts \in Nat \ {0}

VARIABLES
  mode,      \* how the run was started
  pc,        \* where the run stands
  step,      \* index of stepLoop
  attempt,   \* index of the inner loop
  doomed,    \* the model call began with an expired context
  trace,     \* the messages of the run
  events,    \* messages handed to the callback
  deltas,    \* pieces of text handed to the callback
  outcome,   \* stop reason, or aborted by the callback
  expired,   \* ctx.Err() is not nil
  lateCalls  \* history: model and tool calls begun after the expiry

vars == <<mode, pc, step, attempt, doomed, trace, events, deltas, outcome,
          expired, lateCalls>>

(* What is appended to the trace: by the model (tool_call, final,           *)
(* model_error), by the router (tool_result), and by the engine: an error   *)
(* (protocol_retry, response_error, tool_error) or an empty final message   *)
(* (timeout, max_steps).                                                    *)
ModelKinds == {"tool_call", "final", "model_error"}
Kinds == ModelKinds \cup {"tool_result", "protocol_retry", "response_error",
                          "tool_error", "timeout", "max_steps"}

(* Messages that end the run, and its stop reason.  Faulty variant: the     *)
(* step limit does not end it.                                              *)
EndingWithoutLimit == {"final", "model_error", "tool_error", "timeout"}

Ending == {"final", "model_error", "tool_error", "timeout", "max_steps"}

StopReason(kind) ==
  IF kind \in {"model_error", "tool_error"} THEN "error" ELSE kind

Message == [kind : Kinds, step : 0..MaxSteps]

Init ==
  /\ mode \in {"run", "stream", "fallback"}
  /\ pc = "head" /\ step = 0 /\ attempt = 1 /\ doomed = FALSE
  /\ trace = <<>> /\ events = <<>> /\ deltas = {}
  /\ outcome = "running" /\ expired = FALSE /\ lateCalls = 0

(* The request is cancelled or its tool loop timeout elapses.               *)
Expire ==
  /\ ~expired /\ pc # "done"
  /\ expired' = TRUE
  /\ UNCHANGED <<mode, pc, step, attempt, doomed, trace, events, deltas,
                 outcome, lateCalls>>

-----------------------------------------------------------------------------
(* isTimeout(ctx.Err()).  Faulty variant: it is not looked at.              *)
TimeoutIgnored == FALSE

TimedOut == expired

(* A message is appended; what follows depends on it alone.                 *)
Record(kind) ==
  /\ trace' = Append(trace, [kind |-> kind, step |-> step])
  /\ pc' = "emit"
  /\ UNCHANGED <<mode, step, attempt, doomed, events, deltas, outcome, expired>>

(* A call begun with an expired context is late.                            *)
Late == lateCalls + IF expired THEN 1 ELSE 0

(* The head of stepLoop.                                                    *)
Step ==
  /\ pc = "head"
  /\ \/ /\ step < MaxSteps /\ ~TimedOut
        /\ pc' = "ask" /\ attempt' = 1
        /\ UNCHANGED <<mode, step, doomed, trace, events, deltas, outcome, expired>>
     \/ step < MaxSteps /\ TimedOut /\ Record("timeout")
     \/ step = MaxSteps /\ Record("max_steps")
  /\ UNCHANGED lateCalls

(* The driver is called: Next or NextStream.                                *)
Ask ==
  /\ pc = "ask"
  /\ pc' = "call"
  /\ doomed' = expired
  /\ lateCalls' = Late
  /\ UNCHANGED <<mode, step, attempt, trace, events, deltas, outcome, expired>>

(* NextStream hands a piece of text on before the answer is complete.       *)
Delta ==
  /\ pc = "call" /\ mode = "stream" /\ ~doomed
  /\ \/ /\ deltas' = deltas \cup {[step |-> step, attempt |-> attempt,
                                   after |-> Len(events)]}
        /\ UNCHANGED <<pc, outcome>>
     \/ pc' = "done" /\ outcome' = "aborted" /\ UNCHANGED deltas
  /\ UNCHANGED <<mode, step, attempt, doomed, trace, events, expired, lateCalls>>

(* The driver returns an error.  Whatever it is, an expired context makes   *)
(* it a timeout; else it is a protocol error, or any other error, which     *)
(* uses up the step.  The client hides the cause of a failed request        *)
(* (sanitizeRequestError): the timeout of one request is any other error.   *)
CallFails(kind) ==
  /\ pc = "call"
  /\ Record(IF TimedOut THEN "timeout" ELSE kind)
  /\ UNCHANGED lateCalls

(* The driver returns a message: a valid one, or one that validation        *)
(* refuses.  The HTTP client does not answer on an expired context.         *)
Answer(kind) ==
  /\ pc = "call" /\ ~doomed
  /\ Record(kind)
  /\ UNCHANGED lateCalls

(* executeTool.  Faulty variant: a failed call leaves no message.           *)
ExecuteUnanswered(kind) ==
  /\ pc = "tool"
  /\ lateCalls' = Late
  /\ \/ kind = "tool_result" /\ Record(kind)
     \/ /\ kind = "tool_error"
        /\ pc' = "head" /\ step' = step + 1
        /\ UNCHANGED <<mode, attempt, doomed, trace, events, deltas, outcome,
                       expired>>

(* The router may refuse the call altogether; a tool that fails is a        *)
(* result.                                                                  *)
Execute(kind) ==
  /\ pc = "tool"
  /\ lateCalls' = Late
  /\ Record(kind)

-----------------------------------------------------------------------------
(* What follows the last message of the trace.                              *)
Stop(reason) ==
  /\ outcome' = reason
  /\ pc' = IF mode # "fallback" THEN "done"
           ELSE IF reason = "final" THEN "say" ELSE "close"
  /\ UNCHANGED <<step, attempt>>

(* Whether and as what an answer that breaks the protocol is retried.       *)
(* Faulty variant: one attempt too many.                                    *)
OneMoreAttempt == attempt <= MaxAttempts

AttemptsLeft == attempt < MaxAttempts
NextAttempt  == attempt + 1

(* Messages that use up the step.                                           *)
UsesStep == {"response_error", "tool_result"}

Proceed(kind) ==
  \/ /\ kind = "protocol_retry" /\ AttemptsLeft
     /\ pc' = "ask" /\ attempt' = NextAttempt
     /\ UNCHANGED <<step, outcome>>
  \/ kind = "protocol_retry" /\ ~AttemptsLeft /\ Stop("error")
  \/ /\ kind \in UsesStep
     /\ pc' = "head" /\ step' = step + 1
     /\ UNCHANGED <<attempt, outcome>>
  \/ kind = "tool_call" /\ pc' = "tool" /\ UNCHANGED <<step, attempt, outcome>>
  \/ kind \in Ending /\ Stop(StopReason(kind))

(* emitEvent and emitSafetyFinalEvent.  Faulty variants: a retry, or the    *)
(* final message that the engine makes up, is not announced.                *)
ToldUnlessRetry(message) ==
  IF mode = "stream" /\ message.kind # "protocol_retry"
  THEN Append(events, message) ELSE events
ToldUnlessSafety(message) ==
  IF mode = "stream" /\ message.kind \notin {"timeout", "max_steps"}
  THEN Append(events, message) ELSE events

Told(message) ==
  IF mode = "stream" THEN Append(events, message) ELSE events

Emit ==
  /\ pc = "emit"
  /\ events' = Told(Last(trace))
  /\ Proceed(Last(trace).kind)
  /\ UNCHANGED <<mode, doomed, trace, deltas, expired, lateCalls>>

(* The callback returns an error: the run ends without a result.            *)
EmitFails ==
  /\ pc = "emit" /\ mode = "stream"
  /\ pc' = "done" /\ outcome' = "aborted"
  /\ UNCHANGED <<mode, step, attempt, doomed, trace, events, deltas, expired,
                 lateCalls>>

(* RunStream over a driver that does not stream: the final text, then a     *)
(* final message with the stop reason, both as of step 0.                   *)
Say ==
  /\ pc = "say"
  /\ \/ /\ deltas' = {[step |-> 0, attempt |-> 0, after |-> 0]}
        /\ pc' = "close" /\ UNCHANGED outcome
     \/ pc' = "done" /\ outcome' = "aborted" /\ UNCHANGED deltas
  /\ UNCHANGED <<mode, step, attempt, doomed, trace, events, expired, lateCalls>>

Close ==
  /\ pc = "close"
  /\ pc' = "done"
  /\ \/ events' = <<[kind |-> "final", step |-> 0]>> /\ UNCHANGED outcome
     \/ outcome' = "aborted" /\ UNCHANGED events
  /\ UNCHANGED <<mode, step, attempt, doomed, trace, deltas, expired, lateCalls>>

-----------------------------------------------------------------------------
Engine ==
  \/ Step \/ Ask
  \/ \E kind \in {"protocol_retry", "response_error"} : CallFails(kind)
  \/ \E kind \in ModelKinds \cup {"protocol_retry"} : Answer(kind)
  \/ \E kind \in {"tool_result", "tool_error"} : Execute(kind)
  \/ Emit \/ EmitFails \/ Say \/ Close

Next == Engine \/ Delta \/ Expire

Spec == Init /\ [][Next]_vars

(* Model and tool calls return, and the loop goes on.  Nothing is assumed   *)
(* of deltas or of the expiry: the run ends without a timeout too.          *)
FairSpec == Spec /\ WF_vars(Engine)

-----------------------------------------------------------------------------
(* Properties                                                               *)

Outcomes == {"running", "final", "error", "timeout", "max_steps", "aborted"}

(* The type invariant: the loop indices stay within their limits.           *)
TypeOK ==
  /\ mode \in {"run", "stream", "fallback"}
  /\ pc \in {"head", "ask", "call", "tool", "emit", "say", "close", "done"}
  /\ step \in 0..MaxSteps /\ attempt \in 1..MaxAttempts
  /\ trace \in Seq(Message) /\ events \in Seq(Message)
  /\ deltas \subseteq [step : Nat, attempt : Nat, after : Nat]
  /\ doomed \in BOOLEAN /\ expired \in BOOLEAN
  /\ outcome \in Outcomes /\ lateCalls \in Nat

(* What a streaming callback is told is the trace, in order and without     *)
(* gaps: the last message may be missing only while it is being told, or    *)
(* when the callback failed.  So retries, failed steps and the final        *)
(* message the engine makes up reach the callback too.                      *)
StreamFollowsTrace ==
  mode = "stream" =>
    /\ Len(events) <= Len(trace) /\ Len(trace) <= Len(events) + 1
    /\ \A i \in DOMAIN events : events[i] = trace[i]
    /\ Len(events) < Len(trace) => pc = "emit" \/ outcome = "aborted"

(* Every tool call in the trace is answered by the very next message, of    *)
(* the same step, before the model is asked again; nothing answers a call   *)
(* that was not made.                                                       *)
ToolAnswers == {"tool_result", "tool_error"}

CallsAnswered ==
  \A i \in DOMAIN trace :
    /\ trace[i].kind = "tool_call" =>
         IF i = Len(trace) THEN pc \in {"emit", "tool"} \/ outcome = "aborted"
         ELSE trace[i + 1].kind \in ToolAnswers /\ trace[i + 1].step = trace[i].step
    /\ trace[i].kind \in ToolAnswers => i > 1 /\ trace[i - 1].kind = "tool_call"

(* MaxAttempts refused answers in a row end the run: the model is not asked *)
(* again, in this step or a later one.                                      *)
RetryLimit ==
  \A i \in DOMAIN trace :
    /\ i + MaxAttempts - 1 <= Len(trace)
    /\ \A j \in i..(i + MaxAttempts - 1) : trace[j].kind = "protocol_retry"
    => i + MaxAttempts - 1 = Len(trace) /\ pc \notin {"head", "ask", "call", "tool"}

(* A message that ends the run is the last of its trace: the loop never     *)
(* goes on after a final message or an error of the model or of the router, *)
(* and it reports a final message only if the model gave one.               *)
EndsOnce ==
  /\ \A i \in DOMAIN trace :
       trace[i].kind \in {"final", "model_error", "tool_error", "timeout", "max_steps"} =>
         i = Len(trace) /\ pc \notin {"head", "ask", "call", "tool"}
  /\ outcome = "final" => Last(trace).kind = "final"

(* After the context has expired at most one more call, of the model or of  *)
(* a tool, is begun.                                                        *)
OneLateCall == lateCalls <= 1

(* Text of two model calls never reaches the callback back to back: another *)
(* message is told in between, so that the text of a refused answer can be  *)
(* told from the text of the next one.                                      *)
DeltasSeparated == \A d, e \in deltas : d.after = e.after => d = e

(* Every step of the engine brings the end nearer: the step index grows, or *)
(* within a step the attempt, or within an attempt the phase.               *)
Phase ==
  CASE pc \in {"head", "ask"} -> 0
    [] pc = "call"  -> 1
    [] pc = "emit"  -> IF Last(trace).kind = "tool_call" THEN 2 ELSE 4
    [] pc = "tool"  -> 3
    [] pc = "say"   -> 5
    [] pc = "close" -> 6
    [] pc = "done"  -> 7

Nearer ==
  \/ step' > step
  \/ step' = step /\ pc = "head" /\ pc' # "head"
  \/ /\ step' = step /\ pc # "head" /\ pc' # "head"
     /\ attempt' > attempt \/ (attempt' = attempt /\ Phase' > Phase)

EveryStepAdvances == [][UNCHANGED <<pc, trace>> \/ Nearer]_vars

(* The run comes to its end, whatever the model, the tools and the callback *)
(* answer.                                                                  *)
Terminates == <>(pc = "done")

=============================================================================
