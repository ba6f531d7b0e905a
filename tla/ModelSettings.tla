---------------------------- MODULE ModelSettings ----------------------------
(***************************************************************************)
(* The settings of the LLM: what the manager keeps under its lock and what  *)
(* the client keeps under another one (internal/llm, internal/llm/client),  *)
(* and the commands that change them: /reload, /llm model, prompt, reset.   *)
(*                                                                          *)
(* A setting is named by the configuration file it came from: the n-th      *)
(* version of the file that was ever loaded, or Chosen for one a command    *)
(* gave.  /reload replaces the manager's part at once and then sets the     *)
(* client's parts one by one.  Replies that read them are in ReplyPipeline. *)
(***************************************************************************)
EXTENDS Integers, Sequences

CONSTANTS
  Configs,        \* the versions of the configuration file
  Reloaders,      \* handlers of /reload
  MinBudget,      \* DefaultThinkingBudgetTokens
  MaxTokens       \* DefaultMaxTokens

ASSUME SettingsConstants ==
  /\ Len(Configs) \in Nat \ {0} /\ DOMAIN Configs = 1 .. Len(Configs)
  /\ MinBudget \in Nat /\ MaxTokens \in Nat /\ MinBudget < MaxTokens
  /\ \A v \in DOMAIN Configs : Configs[v].thinking.budget \in Int

Versions  == DOMAIN Configs
Chosen    == 0             \* a setting that a command gave
NoSetting == 0             \* a setting that is not sent

VARIABLES
  file,        \* the version of the file that was loaded last
  current,     \* the manager's settings: model, prompt and all the others
  defaults,    \* what /llm reset goes back to
  client,      \* url, key, thinking, effort
  reload,      \* what each handler of /reload has done so far
  overlapped   \* history: two reloads ran at once since the start

settings == <<file, current, defaults, client, reload, overlapped>>

-----------------------------------------------------------------------------
(* What a version means. *)

\* A budget below the least one is raised, one of MaxTokens or more lowered.
ThinkingSent(raw) ==
  [type   |-> IF raw.type \in {"enabled", "adaptive"} THEN raw.type ELSE "disabled",
   budget |-> IF raw.type # "enabled" THEN 0
              ELSE CASE raw.budget < MinBudget  -> MinBudget
                     [] raw.budget >= MaxTokens -> MaxTokens - 1
                     [] OTHER                   -> raw.budget]

\* The effort goes with adaptive thinking only.
EffortSent(thinking, effort) ==
  IF thinking # NoSetting /\ ThinkingSent(Configs[thinking].thinking).type = "adaptive" THEN effort ELSE NoSetting

Manages(v) == [model |-> v, prompt |-> v, rest |-> v]
Parts      == {"url", "key", "thinking", "effort"}
Sends(v)   == [part \in Parts |-> v]

-----------------------------------------------------------------------------
(* Start and /reload. *)

Idle == [step |-> 0, of |-> 0]

\* The order in which a reload sets the client's parts.
KeyForgotten == <<"url", "thinking", "effort">>
KeyLast      == <<"url", "thinking", "effort", "key">>
Setters      == <<"url", "key", "thinking", "effort">>

SettingsInit(v) ==
  /\ file = v /\ defaults = v
  /\ current = Manages(v) /\ client = Sends(v)
  /\ reload = [h \in Reloaders |-> Idle] /\ overlapped = FALSE

\* A new process reads the file as it is now.
SettingsRestart ==
  /\ defaults' = file /\ current' = Manages(file) /\ client' = Sends(file)
  /\ reload' = [h \in Reloaders |-> Idle] /\ overlapped' = FALSE
  /\ UNCHANGED file

Reloading == \E h \in Reloaders : reload[h] # Idle

\* The file was edited, and config.Load has read it.
Load(h) ==
  /\ reload[h] = Idle /\ file < Len(Configs)
  /\ file' = file + 1
  /\ reload' = [reload EXCEPT ![h] = [step |-> 1, of |-> file + 1]]
  /\ overlapped' = (overlapped \/ Reloading)
  /\ UNCHANGED <<current, defaults, client>>

\* The critical section of ReloadConfig: settings, defaults, assembler, router.
Lock(h) ==
  /\ reload[h].step = 1
  /\ current' = Manages(reload[h].of)
  /\ defaults' = reload[h].of
  /\ reload' = [reload EXCEPT ![h].step = 2]
  /\ UNCHANGED <<file, client, overlapped>>

\* The lock is free again: one part of the client at a time.
Set(h) ==
  /\ reload[h].step > 1
  /\ LET n == reload[h].step - 1 IN
       /\ client' = [client EXCEPT ![Setters[n]] = reload[h].of]
       /\ reload' = [reload EXCEPT ![h] = IF n = Len(Setters) THEN Idle ELSE [@ EXCEPT !.step = n + 2]]
  /\ UNCHANGED <<file, current, defaults, overlapped>>

Reload == \E h \in Reloaders : Lock(h) \/ Set(h)

-----------------------------------------------------------------------------
(* /llm model, /llm prompt, /llm reset. *)

SetModel        == current' = [current EXCEPT !.model = Chosen] /\ UNCHANGED <<file, defaults, client, reload, overlapped>>
SetSystemPrompt == current' = [current EXCEPT !.prompt = Chosen] /\ UNCHANGED <<file, defaults, client, reload, overlapped>>

ResetDefaults ==
  /\ current' = [current EXCEPT !.model = defaults, !.prompt = defaults]
  /\ client' = [client EXCEPT !.url = defaults]
  /\ UNCHANGED <<file, defaults, reload, overlapped>>

-----------------------------------------------------------------------------

SettingsOK ==
  /\ file \in Versions /\ defaults \in Versions
  /\ current \in [model : Versions \cup {Chosen}, prompt : Versions \cup {Chosen}, rest : Versions]
  /\ client \in [Parts -> Versions]
  /\ reload \in [Reloaders -> [step : 0 .. Len(Setters) + 1, of : Versions \cup {0}]]
  /\ \A v \in Versions : ThinkingSent(Configs[v].thinking).budget \in {0} \cup (MinBudget .. MaxTokens - 1)

\* Once the reloads are over the manager and the client work with the newest
\* configuration in every part (ReloadConfig sets five things one after another,
\* and /llm commands run in between); only two reloads at once may mix them.
ConfigurationSettles ==
  ~Reloading /\ ~overlapped =>
    /\ current.rest = file /\ defaults = file
    /\ current.model \in {file, Chosen} /\ current.prompt \in {file, Chosen}
    /\ client = Sends(file)
=============================================================================
