------------------------- MODULE ReplyPipelineProofs -------------------------
(***************************************************************************)
(* Proofs about the settings of the LLM, the replies that work with them    *)
(* and the histories and diary they read and write, for every sequence of   *)
(* configurations and any number of handlers of /reload and of replies.     *)
(***************************************************************************)
EXTENDS ReplyPipeline, FiniteSetTheorems, SequenceTheorems, NaturalsInduction, WellFoundedInduction, TLAPS

USE SettingsConstants

(* What the settings are, as far as the proofs need it. *)
Settled ==
  /\ current.rest = file /\ defaults = file
  /\ current.model \in {file, Chosen} /\ current.prompt \in {file, Chosen}

SettingsTypes ==
  /\ file \in Versions /\ defaults \in Versions
  /\ current \in [model : Versions \cup {Chosen}, prompt : Versions \cup {Chosen}, rest : Versions]
  /\ client \in [Parts -> Versions]
  /\ reload \in [Reloaders -> [step : 0 .. 5, of : Versions \cup {0}]]
  /\ overlapped \in BOOLEAN
  /\ \A h \in Reloaders : (reload[h].step = 0 => reload[h] = Idle) /\ (reload[h].step # 0 => reload[h].of \in Versions)

(* As long as no two reloads were at work at once: the one that is brings   *)
(* the newest version, the parts it has set have it, and the others follow  *)
(* in the order in which they are set.  No part is newer than the defaults, *)
(* so that /llm reset never puts the endpoint behind the key.               *)
OneAtATime ==
  /\ \A h, g \in Reloaders : reload[h] # Idle /\ reload[g] # Idle => h = g
  /\ \A h \in Reloaders : reload[h] # Idle => reload[h].of = file

Progress ==
  \A h \in Reloaders :
    /\ reload[h].step >= 2 => Settled
    /\ reload[h].step >= 3 => client["url"] = file
    /\ reload[h].step >= 4 => client["key"] = file
    /\ reload[h].step >= 5 => client["thinking"] = file

InOrder ==
  /\ defaults <= file
  /\ client["url"] <= defaults /\ client["key"] <= client["url"]
  /\ client["thinking"] <= client["key"] /\ client["effort"] <= client["key"]

AllSettled == ~Reloading => Settled /\ \A part \in Parts : client[part] = file

SettingsInv ==
  /\ SettingsTypes
  /\ ~overlapped => OneAtATime /\ Progress /\ InOrder /\ AllSettled

(* The setters, one by one. *)
LEMMA SettersAre ==
  /\ Len(Setters) = 4 /\ Parts = {"url", "key", "thinking", "effort"}
  /\ Setters[1] = "url" /\ Setters[2] = "key" /\ Setters[3] = "thinking" /\ Setters[4] = "effort"
  BY DEF Setters, Parts

(* Settings that come from one version are settled. *)
LEMMA FreshSettings ==
  ASSUME NEW v \in Versions, file = v, defaults = v, current = Manages(v), client = Sends(v),
         reload = [h \in Reloaders |-> Idle], overlapped = FALSE
  PROVE  SettingsInv
  <1>1. \A part \in Parts : client[part] = v
    BY DEF Sends
  <1>2. v \in Nat
    BY DEF Versions
  <1>3. \A h \in Reloaders : reload[h] = Idle /\ reload[h].step = 0
    BY DEF Idle
  <1>4. SettingsTypes
    <2>1. current \in [model : Versions \cup {Chosen}, prompt : Versions \cup {Chosen}, rest : Versions]
      BY DEF Manages
    <2>2. client \in [Parts -> Versions]
      BY DEF Sends
    <2>3. reload \in [Reloaders -> [step : 0 .. 5, of : Versions \cup {0}]]
      BY DEF Idle
    <2> QED
      BY <1>3, <2>1, <2>2, <2>3 DEF SettingsTypes
  <1>5. Settled
    BY DEF Settled, Manages
  <1>6. InOrder
    BY <1>1, <1>2 DEF InOrder, Parts
  <1>7. OneAtATime /\ Progress
    BY <1>3 DEF OneAtATime, Progress
  <1> QED
    BY <1>1, <1>4, <1>5, <1>6, <1>7 DEF SettingsInv, AllSettled

LEMMA InitSettings == ASSUME NEW v \in Versions, SettingsInit(v) PROVE SettingsInv
  BY FreshSettings DEF SettingsInit

LEMMA RestartSettings == ASSUME SettingsInv, SettingsRestart PROVE SettingsInv'
  <1>1. file' \in Versions /\ defaults' = file' /\ current' = Manages(file') /\ client' = Sends(file')
    BY DEF SettingsRestart, SettingsInv, SettingsTypes
  <1>2. \A part \in Parts : client'[part] = file'
    BY <1>1 DEF Sends
  <1>3. file' \in Nat
    BY <1>1 DEF Versions
  <1>4. /\ reload' = [h \in Reloaders |-> Idle] /\ overlapped' = FALSE
        /\ \A h \in Reloaders : reload'[h] = Idle /\ reload'[h].step = 0
    BY DEF SettingsRestart, Idle
  <1>5. SettingsTypes'
    <2>1. current' \in [model : Versions \cup {Chosen}, prompt : Versions \cup {Chosen}, rest : Versions]
      BY <1>1 DEF Manages
    <2>2. client' \in [Parts -> Versions]
      BY <1>1 DEF Sends
    <2>3. reload' \in [Reloaders -> [step : 0 .. 5, of : Versions \cup {0}]]
      BY <1>4 DEF Idle
    <2> QED
      BY <1>1, <1>4, <2>1, <2>2, <2>3 DEF SettingsTypes
  <1>6. Settled'
    BY <1>1 DEF Settled, Manages
  <1>7. InOrder'
    BY <1>1, <1>2, <1>3 DEF InOrder, Parts
  <1>8. OneAtATime' /\ Progress'
    BY <1>4 DEF OneAtATime, Progress
  <1> QED
    BY <1>2, <1>5, <1>6, <1>7, <1>8 DEF SettingsInv, AllSettled

LEMMA SameSettings == ASSUME SettingsInv, UNCHANGED settings PROVE SettingsInv'
  BY DEF settings, SettingsInv, SettingsTypes, OneAtATime, Progress, InOrder, AllSettled, Settled, Reloading

LEMMA LoadSettings == ASSUME SettingsInv, NEW h \in Reloaders, Load(h) PROVE SettingsInv'
  <1>1. SettingsTypes'
    BY DEF SettingsInv, SettingsTypes, Load, Idle, Reloading, Versions
  <1>2. ASSUME ~overlapped' PROVE (OneAtATime /\ Progress /\ InOrder /\ AllSettled)'
    <2>1. ~overlapped /\ ~Reloading
      BY <1>2 DEF Load
    <2>2. \A g \in Reloaders : reload[g] = Idle
      BY <2>1 DEF Reloading
    <2>3. \A g \in Reloaders : reload'[g] = IF g = h THEN [step |-> 1, of |-> file + 1] ELSE Idle
      BY <2>2 DEF Load, SettingsInv, SettingsTypes
    <2>4. file' = file + 1 /\ UNCHANGED <<current, defaults, client>> /\ file \in Nat
      BY DEF Load, SettingsInv, SettingsTypes, Versions
    <2>5. OneAtATime' /\ Progress' /\ Reloading'
      BY <2>3, <2>4 DEF OneAtATime, Progress, Idle, Reloading
    <2>6. InOrder'
      BY <2>1, <2>4 DEF SettingsInv, InOrder, SettingsTypes, Versions, Parts
    <2> QED
      BY <2>5, <2>6 DEF AllSettled
  <1> QED
    BY <1>1, <1>2 DEF SettingsInv

LEMMA LockSettings == ASSUME SettingsInv, NEW h \in Reloaders, Lock(h) PROVE SettingsInv'
  <1>1. /\ reload[h].step = 1 /\ reload[h] # Idle /\ reload[h].of \in Versions
        /\ current' = Manages(reload[h].of) /\ defaults' = reload[h].of
        /\ UNCHANGED <<file, client, overlapped>>
    BY DEF Lock, Idle, SettingsInv, SettingsTypes
  <1>2. \A g \in Reloaders : reload'[g] = IF g = h THEN [step |-> 2, of |-> reload[h].of] ELSE reload[g]
    BY DEF Lock, SettingsInv, SettingsTypes
  <1>3. SettingsTypes'
    <2>1. reload' \in [Reloaders -> [step : 0 .. 5, of : Versions \cup {0}]]
      BY <1>1 DEF Lock, SettingsInv, SettingsTypes
    <2>2. \A g \in Reloaders : (reload'[g].step = 0 => reload'[g] = Idle) /\ (reload'[g].step # 0 => reload'[g].of \in Versions)
      BY <1>1, <1>2 DEF SettingsInv, SettingsTypes
    <2> QED
      BY <1>1, <2>1, <2>2 DEF SettingsInv, SettingsTypes, Manages
  <1>4. ASSUME ~overlapped' PROVE (OneAtATime /\ Progress /\ InOrder /\ AllSettled)'
    <2>1. ~overlapped /\ OneAtATime /\ Progress /\ InOrder
      BY <1>4, <1>1 DEF SettingsInv
    <2>2. reload[h].of = file /\ \A g \in Reloaders : g # h => reload[g] = Idle
      BY <2>1, <1>1 DEF OneAtATime
    <2>3. OneAtATime' /\ Reloading'
      BY <1>1, <1>2, <2>2 DEF OneAtATime, Idle, Reloading
    <2>4. Settled'
      BY <1>1, <2>2 DEF Settled, Manages
    <2>5. Progress'
      BY <1>1, <1>2, <2>2, <2>4 DEF Progress, Idle
    <2>6. InOrder'
      <3>1. defaults \in Nat /\ file \in Nat /\ client["url"] \in Nat
        BY SettersAre DEF SettingsInv, SettingsTypes, Versions
      <3> QED
        BY <1>1, <2>1, <2>2, <3>1 DEF InOrder
    <2> QED
      BY <2>3, <2>5, <2>6 DEF AllSettled
  <1> QED
    BY <1>3, <1>4 DEF SettingsInv

(* Setting the n-th part leads the handler to the next one, or to its end.  *)
LEMMA SetSettings == ASSUME SettingsInv, NEW h \in Reloaders, Set(h) PROVE SettingsInv'
  <1> DEFINE n == reload[h].step - 1
             part == Setters[n]
             next == IF n = 4 THEN Idle ELSE [step |-> n + 2, of |-> reload[h].of]
  <1>1. /\ n \in 1 .. 4 /\ reload[h] # Idle /\ reload[h].of \in Versions /\ part \in Parts
        /\ UNCHANGED <<file, current, defaults, overlapped>>
    BY SettersAre DEF Set, Idle, SettingsInv, SettingsTypes
  <1>2. client' = [client EXCEPT ![part] = reload[h].of]
    BY DEF Set
  <1>3. reload' = [reload EXCEPT ![h] = next]
    <2>1. reload[h] \in [step : 0 .. 5, of : Versions \cup {0}]
      BY DEF SettingsInv, SettingsTypes
    <2>2. [reload[h] EXCEPT !.step = n + 2] = [step |-> n + 2, of |-> reload[h].of]
      BY <2>1
    <2>3. reload' = [reload EXCEPT ![h] = IF n = 4 THEN Idle ELSE [reload[h] EXCEPT !.step = n + 2]]
      BY SettersAre DEF Set
    <2> QED
      BY <2>2, <2>3
  <1>4. /\ \A g \in Reloaders : reload'[g] = IF g = h THEN next ELSE reload[g]
        /\ \A p \in Parts : client'[p] = IF p = part THEN reload[h].of ELSE client[p]
    BY <1>1, <1>2, <1>3 DEF SettingsInv, SettingsTypes
  <1>5. /\ next \in [step : 0 .. 5, of : Versions \cup {0}]
        /\ next = Idle \/ (next.step = n + 2 /\ next.of = reload[h].of)
        /\ n # 4 <=> next # Idle
    BY <1>1 DEF Idle
  <1>6. SettingsTypes'
    <2>1. reload' \in [Reloaders -> [step : 0 .. 5, of : Versions \cup {0}]]
      BY <1>3, <1>5 DEF SettingsInv, SettingsTypes
    <2>2. client' \in [Parts -> Versions]
      BY <1>1, <1>2 DEF SettingsInv, SettingsTypes
    <2>3. \A g \in Reloaders : (reload'[g].step = 0 => reload'[g] = Idle) /\ (reload'[g].step # 0 => reload'[g].of \in Versions)
      <3>1. ASSUME NEW g \in Reloaders, g # h PROVE reload'[g] = reload[g]
        BY <1>4, <3>1
      <3>2. reload'[h] = next /\ (next.step = 0 => next = Idle) /\ (next.step # 0 => next.of \in Versions)
        <4>1. CASE n = 4
          BY <1>4, <4>1 DEF Idle
        <4>2. CASE n # 4
          BY <1>1, <1>4, <4>2
        <4> QED
          BY <4>1, <4>2
      <3> HIDE DEF next
      <3> QED
        BY <3>1, <3>2 DEF SettingsInv, SettingsTypes
    <2> QED
      BY <1>1, <2>1, <2>2, <2>3 DEF SettingsInv, SettingsTypes
  <1>7. ASSUME ~overlapped' PROVE (OneAtATime /\ Progress /\ InOrder /\ AllSettled)'
    <2>1. ~overlapped /\ OneAtATime /\ Progress /\ InOrder
      BY <1>7, <1>1 DEF SettingsInv
    <2>2. reload[h].of = file /\ \A g \in Reloaders : g # h => reload[g] = Idle
      BY <2>1, <1>1 DEF OneAtATime
    <2>3. /\ \A g \in Reloaders : g # h => reload'[g] = Idle
          /\ reload'[h] = next
      BY <2>2, <1>4
    <2>4. OneAtATime'
      BY <1>1, <1>5, <2>2, <2>3 DEF OneAtATime
    <2>5. Settled'
      BY <1>1, <2>1 DEF Settled, Progress
    <2>6. /\ n >= 2 => client["url"] = file
          /\ n >= 3 => client["key"] = file
          /\ n >= 4 => client["thinking"] = file
      BY <1>1, <2>1 DEF Progress
    <2>7. \A p \in Parts : client'[p] = IF p = part THEN file ELSE client[p]
      BY <1>4, <2>2
    <2>8. /\ n >= 1 => client'["url"] = file
          /\ n >= 2 => client'["key"] = file
          /\ n >= 3 => client'["thinking"] = file
          /\ n >= 4 => client'["effort"] = file
      BY <1>1, <2>6, <2>7, SettersAre
    <2>9. Progress'
      BY <1>1, <1>5, <2>3, <2>5, <2>8 DEF Progress, Idle
    <2>10. InOrder'
      BY <1>1, <2>1, <2>5, <2>6, <2>7, SettersAre DEF Settled, InOrder, SettingsInv, SettingsTypes, Versions
    <2>11. AllSettled'
      <3>1. SUFFICES ASSUME ~Reloading' PROVE \A p \in Parts : client'[p] = file'
        BY <2>5 DEF AllSettled
      <3>2. n = 4
        BY <3>1, <2>3, <1>5 DEF Reloading
      <3> QED
        BY <1>1, <3>2, <2>8, SettersAre
    <2> QED
      BY <2>4, <2>9, <2>10, <2>11
  <1> QED
    BY <1>6, <1>7 DEF SettingsInv

(* The commands give the model and the prompt a name of their own or the    *)
(* defaults back, and the endpoint the default one, which is none too new.  *)
LEMMA CommandSettings ==
  ASSUME SettingsInv, SetModel \/ SetSystemPrompt \/ ResetDefaults
  PROVE  SettingsInv'
  <1>1. /\ UNCHANGED <<file, defaults, reload, overlapped>>
        /\ current' \in [model : Versions \cup {Chosen}, prompt : Versions \cup {Chosen}, rest : Versions]
        /\ current'.rest = current.rest
        /\ current'.model \in {current.model, defaults, Chosen}
        /\ current'.prompt \in {current.prompt, defaults, Chosen}
    BY DEF SetModel, SetSystemPrompt, ResetDefaults, SettingsInv, SettingsTypes
  <1>2. client' = client \/ client' = [client EXCEPT !["url"] = defaults]
    BY DEF SetModel, SetSystemPrompt, ResetDefaults
  <1>3. /\ client' \in [Parts -> Versions]
        /\ client'["url"] \in {client["url"], defaults}
        /\ \A part \in Parts \ {"url"} : client'[part] = client[part]
    BY <1>2 DEF SettingsInv, SettingsTypes
  <1> client'["key"] = client["key"] /\ client'["thinking"] = client["thinking"] /\ client'["effort"] = client["effort"]
    BY <1>3, SettersAre
  <1>4. SettingsTypes'
    BY <1>1, <1>3 DEF SettingsInv, SettingsTypes
  <1>5. ASSUME ~overlapped' PROVE (OneAtATime /\ Progress /\ InOrder /\ AllSettled)'
    <2>1. ~overlapped /\ OneAtATime /\ Progress /\ InOrder /\ AllSettled
      BY <1>5, <1>1 DEF SettingsInv
    <2>2. Settled => Settled'
      BY <1>1 DEF Settled
    <2>3. Reloading' <=> Reloading
      BY <1>1 DEF Reloading
    <2>4. OneAtATime'
      BY <1>1, <2>1 DEF OneAtATime
    <2>5. Progress'
      <3>1. ASSUME NEW h \in Reloaders, reload[h].step >= 3 PROVE client'["url"] = file
        BY <1>1, <1>3, <2>1, <3>1 DEF Progress, Settled, SettingsInv, SettingsTypes
      <3> QED
        BY <1>1, <2>1, <2>2, <3>1 DEF Progress
    <2>6. AllSettled'
      BY <1>1, <1>3, <2>1, <2>2, <2>3 DEF AllSettled, Settled
    <2>7. /\ defaults \in Nat /\ file \in Nat
          /\ client["url"] \in Nat /\ client["key"] \in Nat /\ client["thinking"] \in Nat /\ client["effort"] \in Nat
      BY <2>1, SettersAre DEF InOrder, SettingsInv, SettingsTypes, Versions
    <2>8. InOrder'
      BY <1>1, <1>3, <2>1, <2>7 DEF InOrder
    <2> QED
      BY <2>4, <2>5, <2>6, <2>8
  <1> QED
    BY <1>4, <1>5 DEF SettingsInv

-----------------------------------------------------------------------------
(* The settings within the pipeline. *)

LEMMA SettingsStep == ASSUME SettingsInv, [Next]_vars PROVE SettingsInv'
  <1>1. CASE UNCHANGED settings
    BY <1>1, SameSettings
  <1>2. CASE Restart
    BY <1>2, RestartSettings DEF Restart
  <1>3. CASE Settings
    <2>1. CASE \E h \in Reloaders : Load(h)
      BY <2>1, LoadSettings
    <2>2. CASE Reload
      BY <2>2, LockSettings, SetSettings DEF Reload
    <2>3. CASE SetModel \/ SetSystemPrompt \/ ResetDefaults
      BY <2>3, CommandSettings
    <2> QED
      BY <1>3, <2>1, <2>2, <2>3 DEF Settings
  <1>4. CASE Replies \/ Clear \/ ClearChat \/ ClearDiary \/ ClearStats
    <2>1. UNCHANGED settings
      BY <1>4 DEF Replies, Clear, ClearChat, ClearDiary, ClearStats, Begin, Snapshot, Number, AppendQuestion, ReadChat,
         ReadDiary, EnsureKey, ReadThinking, ReadEffort, Send, Answer, NoAnswer, AppendAnswer, CallTool, Refuse,
         WriteDiary, Count, Select, ReadPage
    <2> QED
      BY <2>1, <1>1
  <1>5. CASE UNCHANGED vars
    BY <1>5, <1>1 DEF vars
  <1> QED
    BY <1>2, <1>3, <1>4, <1>5 DEF Next

(* ConfigurationSettles (ReloadConfig, ResetDefaults, the setters of the    *)
(* client): reloads that do not overlap leave no part behind.               *)
THEOREM ReloadsSettle == Spec => []ConfigurationSettles
  <1>1. Init => SettingsInv
    BY InitSettings, PipelineConstants DEF Init
  <1>2. SettingsInv /\ [Next]_vars => SettingsInv'
    BY SettingsStep
  <1>3. SettingsInv => ConfigurationSettles
    <2>1. SUFFICES ASSUME SettingsInv, ~Reloading, ~overlapped PROVE ConfigurationSettles
      BY DEF ConfigurationSettles
    <2>2. Settled /\ \A part \in Parts : client[part] = file
      BY <2>1 DEF SettingsInv, AllSettled
    <2>3. client = Sends(file)
      BY <2>1, <2>2 DEF SettingsInv, SettingsTypes, Sends
    <2> QED
      BY <2>2, <2>3 DEF Settled, ConfigurationSettles
  <1> QED
    BY <1>1, <1>2, <1>3, PTL DEF Spec

-----------------------------------------------------------------------------
(* What a request has read. *)

Fields == {"step", "thinking", "effort", "url", "key"}

(* What was read first is no newer than what is read next, even if a reload *)
(* sets it meanwhile.                                                       *)
ReadInOrder(q) ==
  /\ q.step = "effort" => q.thinking \in Nat /\ q.thinking <= client["key"]
  /\ q.step = "send"   => /\ q.thinking \in Nat /\ q.thinking <= client["key"]
                          /\ q.effort \in Nat /\ q.effort <= client["key"]
  /\ q.step = "answer" => /\ q.thinking <= q.key /\ q.effort <= q.key
                          /\ q.key <= q.url

RequestInv ==
  /\ request = [r \in Requests |-> request[r]]
  /\ \A r \in Requests : Fields \subseteq DOMAIN request[r]
  /\ ~overlapped => \A r \in Requests : ReadInOrder(request[r])

(* A handler that has read nothing of the client. *)
Quiet(q) == Fields \subseteq DOMAIN q /\ q.step \notin {"effort", "send", "answer"}

LEMMA QuietReads == ASSUME NEW q, Quiet(q) PROVE ReadInOrder(q)
  BY DEF Quiet, ReadInOrder

LEMMA KeyNeverFalls ==
  ASSUME SettingsInv, Settings \/ UNCHANGED settings, ~overlapped'
  PROVE  ~overlapped /\ client["key"] \in Nat /\ client'["key"] \in Nat /\ client["key"] <= client'["key"]
  <1>1. SettingsInv'
    BY SameSettings, LoadSettings, LockSettings, SetSettings, CommandSettings DEF Settings, Reload
  <1>2. client["key"] \in Nat /\ client'["key"] \in Nat
    BY <1>1, SettersAre DEF SettingsInv, SettingsTypes, Versions
  <1>3. CASE client'["key"] = client["key"] /\ overlapped' = overlapped
    BY <1>2, <1>3
  <1>4. CASE \E h \in Reloaders : Load(h)
    <2>1. client' = client
      BY <1>4 DEF Load
    <2>2. ~overlapped
      BY <1>4, Zenon DEF Load
    <2> QED
      BY <1>2, <2>1, <2>2
  <1>5. ASSUME NEW h \in Reloaders, Set(h) PROVE client["key"] <= client'["key"] /\ ~overlapped
    <2>1. /\ reload[h].step - 1 \in 1 .. 4 /\ reload[h] # Idle /\ ~overlapped
          /\ client' = [client EXCEPT ![Setters[reload[h].step - 1]] = reload[h].of]
      BY <1>5 DEF Set, SettingsInv, SettingsTypes, Idle
    <2>2. reload[h].of = file /\ InOrder
      BY <2>1 DEF SettingsInv, OneAtATime
    <2>3. client'["key"] \in {client["key"], file}
      BY <2>1, <2>2, SettersAre DEF SettingsInv, SettingsTypes
    <2>4. file \in Nat /\ defaults \in Nat /\ client["url"] \in Nat
      BY SettersAre DEF SettingsInv, SettingsTypes, Versions
    <2> QED
      BY <1>2, <2>1, <2>2, <2>3, <2>4 DEF InOrder
  <1>6. CASE SetModel \/ SetSystemPrompt \/ ResetDefaults
    <2>1. client'["key"] = client["key"] /\ overlapped' = overlapped
      BY <1>6, SettersAre DEF SetModel, SetSystemPrompt, ResetDefaults, SettingsInv, SettingsTypes
    <2> QED
      BY <2>1, <1>3
  <1>7. CASE \E h \in Reloaders : Lock(h)
    BY <1>3, <1>7 DEF Lock
  <1>8. CASE UNCHANGED settings
    BY <1>3, <1>8 DEF settings
  <1> QED
    BY <1>2, <1>4, <1>5, <1>6, <1>7, <1>8 DEF Settings, Reload

(* The requests that are left alone keep the order. *)
LEMMA OthersReadInOrder ==
  ASSUME SettingsInv, RequestInv, Settings \/ UNCHANGED settings, ~overlapped',
         NEW r \in Requests, request'[r] = request[r]
  PROVE  ReadInOrder(request[r])'
  BY KeyNeverFalls DEF RequestInv, ReadInOrder

LEMMA GoesOn ==
  ASSUME SettingsInv, RequestInv, UNCHANGED settings, NEW r \in Requests, NEW next, Goes(r, next),
         Fields \subseteq DOMAIN next, ~overlapped => ReadInOrder(next)
  PROVE  RequestInv'
  <1>1. /\ request' = [s \in Requests |-> request'[s]]
        /\ request'[r] = next /\ \A s \in Requests \ {r} : request'[s] = request[s]
    BY DEF Goes, RequestInv
  <1>2. client' = client /\ overlapped' = overlapped
    BY DEF settings
  <1>3. ASSUME ~overlapped', NEW s \in Requests PROVE ReadInOrder(request[s])'
    BY <1>1, <1>2, <1>3 DEF RequestInv, ReadInOrder
  <1>4. \A s \in Requests : Fields \subseteq DOMAIN request'[s]
    BY <1>1 DEF RequestInv
  <1> QED
    BY <1>1, <1>3, <1>4 DEF RequestInv

LEMMA GoesQuiet ==
  ASSUME SettingsInv, RequestInv, UNCHANGED settings, NEW r \in Requests, NEW next, Goes(r, next), Quiet(next)
  PROVE  RequestInv'
  BY GoesOn, QuietReads DEF Quiet

(* Whatever a handler does next when it is done with the model, or before   *)
(* it asks it, has read nothing.                                            *)
LEMMA NextIsQuiet ==
  ASSUME NEW q, Fields \subseteq DOMAIN q
  PROVE  /\ Quiet(Failed(q)) /\ Quiet(Answered(q)) /\ Quiet(Asked(q))
         /\ Quiet([Asked(q) EXCEPT !.cutoff = NoCutoff])
  <1>1. "step" \in DOMAIN q
    BY DEF Fields
  <1>2. Quiet(Failed(q))
    BY <1>1 DEF Failed, Quiet
  <1>3. Quiet(Answered(q))
    BY <1>1 DEF Answered, Quiet
  <1>4. Quiet(Asked(q))
    BY <1>1 DEF Asked, Quiet
  <1>5. Quiet([Asked(q) EXCEPT !.cutoff = NoCutoff])
    BY <1>4 DEF Quiet
  <1> QED
    BY <1>2, <1>3, <1>4, <1>5

LEMMA ReturnedIsQuiet ==
  ASSUME SettingsInv, RequestInv, UNCHANGED settings, NEW r \in Requests, Returned(r)
  PROVE  RequestInv'
  <1>1. Fields \subseteq DOMAIN request[r] /\ "step" \in DOMAIN request[r]
    BY DEF RequestInv, Fields
  <1>2. Quiet([request[r] EXCEPT !.step = "key", !.call = NoCall])
    BY <1>1 DEF Quiet
  <1>3. Quiet(Failed([request[r] EXCEPT !.call = NoCall]))
    <2>1. Fields \subseteq DOMAIN [request[r] EXCEPT !.call = NoCall]
      BY <1>1
    <2> QED
      BY <2>1, NextIsQuiet
  <1>4. PICK next : Goes(r, next) /\ Quiet(next)
    BY <1>2, <1>3, Zenon DEF Returned, Goes
  <1> QED
    BY <1>4, GoesQuiet

(* The question, before the client is read. *)
LEMMA QuestionStep ==
  ASSUME SettingsInv, RequestInv, NEW r \in Requests,
         \/ \E kind \in Kinds : Begin(r, kind)
         \/ Snapshot(r) \/ Number(r) \/ AppendQuestion(r) \/ ReadChat(r) \/ ReadDiary(r)
  PROVE  RequestInv'
  <1> DEFINE q == request[r]
  <1>1. Fields \subseteq DOMAIN q /\ "step" \in DOMAIN q
    BY DEF RequestInv, Fields
  <1>2. ASSUME NEW kind \in Kinds, Begin(r, kind) PROVE RequestInv'
    <2>1. Quiet([Nobody EXCEPT !.kind = kind, !.step = IF kind = "ambient" THEN "number" ELSE "snapshot"])
      BY DEF Quiet, Nobody, Fields
    <2> QED
      BY <1>2, <2>1, GoesQuiet DEF Begin
  <1>3. CASE Snapshot(r)
    <2> DEFINE m == [q EXCEPT !.model = current.model, !.prompt = current.prompt, !.rest = current.rest]
    <2>1. Fields \subseteq DOMAIN m /\ "step" \in DOMAIN m
      BY <1>1
    <2>2. Quiet(Failed(m))
      BY <2>1, NextIsQuiet
    <2>3. Quiet([m EXCEPT !.step = IF m.kind = "ai" THEN "number" ELSE "chat"])
      BY <2>1 DEF Quiet
    <2>4. PICK next : Goes(r, next) /\ Quiet(next)
      BY <1>3, <2>2, <2>3, Zenon DEF Snapshot, Goes
    <2> QED
      BY <1>3, <2>4, GoesQuiet DEF Snapshot
  <1>4. CASE Number(r)
    <2>1. Quiet([q EXCEPT !.seq = causalSeq', !.era = era, !.step = IF q.step = "number" THEN "append" ELSE "append_answer"])
      BY <1>1 DEF Quiet
    <2> QED
      BY <1>4, <2>1, GoesQuiet DEF Number
  <1>5. CASE AppendQuestion(r)
    <2>1. PICK next : Goes(r, next) /\ Quiet(next)
      BY <1>1, <1>5, NextIsQuiet, Zenon DEF AppendQuestion, Goes
    <2> QED
      BY <1>5, <2>1, GoesQuiet DEF AppendQuestion
  <1>6. CASE ReadChat(r)
    <2>1. PICK next : Goes(r, next) /\ Quiet(next)
      <3>1. \A context, hidden : Quiet([q EXCEPT !.step = "diary", !.context = context, !.hidden = hidden])
        BY <1>1 DEF Quiet
      <3> QED
        BY <1>1, <1>6, <3>1, NextIsQuiet, Zenon DEF ReadChat, Goes
    <2> QED
      BY <1>6, <2>1, GoesQuiet DEF ReadChat
  <1>7. CASE ReadDiary(r)
    <2>1. PICK next : Goes(r, next) /\ Quiet(next)
      <3>1. \A context : Quiet([q EXCEPT !.step = "key", !.context = context])
        BY <1>1 DEF Quiet
      <3> QED
        BY <1>1, <1>7, <3>1, NextIsQuiet, Zenon DEF ReadDiary, Goes
    <2> QED
      BY <1>7, <2>1, GoesQuiet DEF ReadDiary
  <1> QED
    BY <1>2, <1>3, <1>4, <1>5, <1>6, <1>7

(* The client is read: thinking, effort, key, endpoint, in this order. *)
LEMMA AskingStep ==
  ASSUME SettingsInv, RequestInv, NEW r \in Requests,
         EnsureKey(r) \/ ReadThinking(r) \/ ReadEffort(r) \/ Send(r) \/ Answer(r) \/ NoAnswer(r)
  PROVE  RequestInv'
  <1> DEFINE q == request[r]
  <1>1. /\ Fields \subseteq DOMAIN q /\ "step" \in DOMAIN q /\ "thinking" \in DOMAIN q
        /\ "effort" \in DOMAIN q /\ "url" \in DOMAIN q /\ "key" \in DOMAIN q
    BY DEF RequestInv, Fields
  <1>2. ~overlapped => /\ InOrder /\ ReadInOrder(q) /\ client["key"] \in Nat
                       /\ client["thinking"] \in Nat /\ client["effort"] \in Nat /\ client["url"] \in Nat
    BY SettersAre DEF SettingsInv, SettingsTypes, RequestInv, Versions
  <1>3. CASE EnsureKey(r)
    <2>1. Quiet([q EXCEPT !.step = "thinking"])
      BY <1>1 DEF Quiet
    <2>2. PICK next : Goes(r, next) /\ Quiet(next)
      BY <1>1, <1>3, <2>1, NextIsQuiet, Zenon DEF EnsureKey, Goes
    <2> QED
      BY <1>3, <2>2, GoesQuiet DEF EnsureKey
  <1>4. CASE ReadThinking(r)
    <2> DEFINE next == [q EXCEPT !.step = "effort", !.thinking = Thinking(q)]
    <2>1. Fields \subseteq DOMAIN next /\ next.step = "effort" /\ next.thinking = Thinking(q)
      BY <1>1
    <2>2. ~overlapped => Thinking(q) \in Nat /\ Thinking(q) <= client["key"]
      BY <1>2 DEF Thinking, NoSetting, InOrder
    <2>3. ~overlapped => ReadInOrder(next)
      BY <2>1, <2>2 DEF ReadInOrder
    <2>4. Goes(r, next) /\ UNCHANGED settings
      BY <1>4 DEF ReadThinking
    <2> HIDE DEF next
    <2> QED
      BY <2>1, <2>3, <2>4, GoesOn
  <1>5. CASE ReadEffort(r)
    <2> DEFINE effort == EffortSent(q.thinking, client["effort"])
               next   == [q EXCEPT !.step = "send", !.effort = effort]
    <2>1. /\ Fields \subseteq DOMAIN next /\ next.step = "send" /\ next.effort = effort
          /\ next.thinking = q.thinking /\ q.step = "effort"
      BY <1>1, <1>5 DEF ReadEffort, Does
    <2>2. ~overlapped => effort \in Nat /\ effort <= client["key"]
      BY <1>2 DEF EffortSent, NoSetting, InOrder
    <2>3. Goes(r, next) /\ UNCHANGED settings
      BY <1>5 DEF ReadEffort
    <2> HIDE DEF next, effort
    <2>4. ~overlapped => ReadInOrder(next)
      BY <1>2, <2>1, <2>2 DEF ReadInOrder
    <2> QED
      BY <2>1, <2>3, <2>4, GoesOn
  <1>6. CASE Send(r)
    <2> DEFINE next == [q EXCEPT !.step = "answer", !.url = client["url"], !.key = client["key"]]
    <2>1. /\ Fields \subseteq DOMAIN next /\ next.step = "answer" /\ q.step = "send"
          /\ next.url = client["url"] /\ next.key = client["key"]
          /\ next.thinking = q.thinking /\ next.effort = q.effort
      BY <1>1, <1>6 DEF Send, Does
    <2>2. Goes(r, next) /\ UNCHANGED settings
      BY <1>6 DEF Send
    <2> HIDE DEF next
    <2>3. ~overlapped => ReadInOrder(next)
      BY <1>2, <2>1 DEF ReadInOrder, InOrder
    <2> QED
      BY <2>1, <2>2, <2>3, GoesOn
  <1>7. CASE Answer(r)
    BY <1>1, <1>7, NextIsQuiet, GoesQuiet DEF Answer
  <1>8. CASE NoAnswer(r)
    BY <1>1, <1>8, NextIsQuiet, GoesQuiet DEF NoAnswer
  <1> QED
    BY <1>3, <1>4, <1>5, <1>6, <1>7, <1>8

(* Tools and the stored answer. *)
LEMMA ToolStep ==
  ASSUME SettingsInv, RequestInv, NEW r \in Requests,
         \/ AppendAnswer(r) \/ \E call \in Calls : CallTool(r, call)
         \/ Refuse(r) \/ WriteDiary(r) \/ Count(r) \/ Select(r) \/ ReadPage(r)
  PROVE  RequestInv'
  <1> DEFINE q == request[r]
  <1>1. Fields \subseteq DOMAIN q /\ "step" \in DOMAIN q
    BY DEF RequestInv, Fields
  <1>2. CASE AppendAnswer(r)
    <2> DEFINE said == [q EXCEPT !.step = "done", !.told = "reply"]
    <2>1. Quiet(said) /\ Quiet([said EXCEPT !.lost = TRUE])
      BY <1>1 DEF Quiet
    <2>2. PICK next : Goes(r, next) /\ Quiet(next)
      BY <1>2, <2>1, Zenon DEF AppendAnswer
    <2> QED
      BY <1>2, <2>2, GoesQuiet DEF AppendAnswer
  <1>3. ASSUME NEW call \in Calls, CallTool(r, call) PROVE RequestInv'
    <2>1. Quiet([q EXCEPT !.step = "tool", !.call = call, !.calls = q.calls + 1])
      BY <1>1 DEF Quiet
    <2> QED
      BY <1>3, <2>1, GoesQuiet DEF CallTool
  <1>4. CASE Refuse(r)
    BY <1>4, ReturnedIsQuiet DEF Refuse
  <1>5. CASE WriteDiary(r)
    BY <1>5, ReturnedIsQuiet DEF WriteDiary
  <1>6. CASE Count(r)
    <2>1. Quiet([q EXCEPT !.step = "select"])
      BY <1>1 DEF Quiet
    <2>2. UNCHANGED settings /\ (Returned(r) \/ Goes(r, [q EXCEPT !.step = "select"]))
      BY <1>6, Zenon DEF Count
    <2> QED
      BY <2>1, <2>2, GoesQuiet, ReturnedIsQuiet
  <1>7. CASE Select(r)
    BY <1>7, ReturnedIsQuiet DEF Select
  <1>8. CASE ReadPage(r)
    BY <1>8, ReturnedIsQuiet DEF ReadPage
  <1> QED
    BY <1>2, <1>3, <1>4, <1>5, <1>6, <1>7, <1>8

LEMMA RequestStep == ASSUME SettingsInv, RequestInv, [Next]_vars PROVE RequestInv'
  <1>1. CASE Replies
    BY <1>1, QuestionStep, AskingStep, ToolStep DEF Replies
  <1>2. ASSUME UNCHANGED request, Settings \/ UNCHANGED settings PROVE RequestInv'
    <2>1. ASSUME ~overlapped', NEW r \in Requests PROVE ReadInOrder(request[r])'
      BY <1>2, <2>1, OthersReadInOrder
    <2> QED
      BY <1>2, <2>1 DEF RequestInv
  <1>3. CASE Settings
    BY <1>2, <1>3 DEF Settings
  <1>4. CASE Clear \/ ClearChat \/ ClearDiary \/ ClearStats \/ UNCHANGED vars
    BY <1>2, <1>4 DEF Clear, ClearChat, ClearDiary, ClearStats, vars
  <1>5. CASE Restart
    <2>1. \A r \in Requests : Quiet(Stopped(request[r]))
      BY DEF RequestInv, Fields, Quiet, Stopped
    <2>2. request' = [r \in Requests |-> Stopped(request[r])]
      BY <1>5 DEF Restart
    <2>3. \A r \in Requests : Quiet(request'[r])
      BY <2>1, <2>2
    <2> QED
      BY <2>2, <2>3 DEF RequestInv, Quiet, ReadInOrder
  <1> QED
    BY <1>1, <1>3, <1>4, <1>5 DEF Next

(* SettingsNotAheadOfEndpoint (Client.Generate and ReloadConfig, which read *)
(* and set the same four things in opposite orders): however many requests  *)
(* and reloads there are, and whatever the commands do in between.          *)
THEOREM EndpointIsNewest == Spec => []SettingsNotAheadOfEndpoint
  <1>1. Init => SettingsInv /\ RequestInv
    <2>1. Init => SettingsInv
      BY InitSettings, PipelineConstants DEF Init
    <2>2. Init => RequestInv
      BY DEF Init, RequestInv, Nobody, Fields, ReadInOrder
    <2> QED
      BY <2>1, <2>2
  <1>2. SettingsInv /\ RequestInv /\ [Next]_vars => SettingsInv' /\ RequestInv'
    BY SettingsStep, RequestStep
  <1>3. RequestInv => SettingsNotAheadOfEndpoint
    BY DEF RequestInv, ReadInOrder, SettingsNotAheadOfEndpoint, Does
  <1> QED
    BY <1>1, <1>2, <1>3, PTL DEF Spec
-----------------------------------------------------------------------------
(* Rows, requests and readers: their types, and what a step of a request    *)
(* says of it.                                                               *)

LogRows == [by : Int, role : {"user", "assistant"}, seq : Nat \ {0}, cutoff : Nat, era : Nat]
Notes   == [by : Int, nth : Nat]

RequestFields == {"kind", "step", "model", "prompt", "rest", "seq", "era", "cutoff", "context", "hidden",
                  "calls", "call", "told", "lost"}

Before  == {"idle", "snapshot", "number", "append"}      \* the question is not stored yet
Holding == {"append", "append_answer"}                   \* a number is taken, and its row not stored
Asking  == {"key", "thinking", "effort", "send", "answer", "tool", "select"}

Shape(q) ==
  /\ RequestFields \subseteq DOMAIN q
  /\ q.kind \in Kinds \cup {"none"} /\ q.step \in Steps /\ q.told \in {"nothing", "reply", "error"}
  /\ q.rest \in Versions /\ q.seq \in Nat /\ q.era \in Nat /\ q.cutoff \in Nat /\ q.calls \in Nat
  /\ q.step = "idle" => q = Nobody
  /\ q.step \in Holding => q.seq # 0
  /\ q.step \in {"tool", "select"} => q.call \in Calls
  /\ q.step = "select" => q.call.tool = "read"
  /\ q.kind = "ai" /\ q.told = "reply" => q.step = "done"

(* What may have happened to a request in a step, and who did what is left. *)
Moved(r) ==
  LET q == request[r]
      u == request'[r]
  IN /\ Shape(u)
     /\ q.step = "done" => u = q
     /\ q.step # "idle" => u.kind = q.kind /\ u.step # "idle"
     /\ q.step \notin Before => u.step \notin Before /\ u.cutoff = q.cutoff
     /\ u.era = q.era \/ u.era = era
     /\ u.calls >= q.calls /\ (u.step = "tool" => u = q \/ u.calls > q.calls)
     /\ u.step \in Holding => u = q \/ Number(r)
     /\ u.step = "diary" => u = q \/ ReadChat(r)
     /\ u.step \in Asking => (q.step \in Asking /\ u.context = q.context /\ u.hidden = q.hidden) \/ ReadDiary(r)
     /\ u.kind = "ai" /\ u.told = "reply" => u = q \/ AppendAnswer(r)
     /\ u.step = "select" => u = q \/ Count(r)

Readers == {"of", "start", "shown", "cursor", "total", "broken", "ended"}

Reader(open) ==
  /\ Readers \subseteq DOMAIN open
  /\ open.ended \in {"no", "cut", "whole"} /\ open.cursor \in Nat /\ open.total \in Nat

TypeInv ==
  /\ causalSeq \in Nat /\ era \in Nat /\ clearing \in {"none", "chat", "diary", "stats"}
  /\ log \in Seq(LogRows) /\ diary \in Seq(Notes)
  /\ request = [r \in Requests |-> request[r]] /\ \A r \in Requests : Shape(request[r])
  /\ reading = [r \in Requests |-> reading[r]]
  /\ \A r \in Requests : Reader(reading[r])

(* A row that is in the log, or was when somebody began to read it: whose    *)
(* it is, and how far its handler has come since.                           *)
Stored(row, of, now) ==
  /\ row \in LogRows /\ row.era <= now
  /\ row.by \in Requests \/ (row.by < 0 /\ row.role = "user")
  /\ row.role = "user" => row.cutoff = NoCutoff
  /\ row.by \in Requests /\ row.role = "user" =>
       of[row.by].step \notin Before /\ row.seq = of[row.by].cutoff
  /\ row.role = "assistant" =>
       of[row.by].step = "done" /\ of[row.by].told = "reply" /\ row.cutoff = of[row.by].cutoff

(* A note in the diary: of a call that is over. *)
Kept(note, of) ==
  /\ note \in Notes
  /\ note.by \in Requests \/ note.by < 0
  /\ note.by \in Requests =>
       /\ note.nth <= of[note.by].calls
       /\ of[note.by].step = "tool" => note.nth # of[note.by].calls

StoreInv ==
  /\ \A r \in Requests : request[r].era <= era
  /\ \A i \in 1 .. Len(log) : Stored(log[i], request, era)
  /\ \A i \in 1 .. Len(diary) : Kept(diary[i], request)
  /\ \A r \in Requests : \A row \in reading[r].start : IF reading[r].of = "chat" THEN Stored(row, request, era) ELSE Kept(row, request)

(* In one era of the counter no number is given twice. *)
Holds(r) == request[r].step \in Holding
NumberInv ==
  /\ \A i, j \in 1 .. Len(log) : i # j /\ log[i].era = log[j].era => log[i].seq # log[j].seq
  /\ \A i \in 1 .. Len(log) : log[i].era = era => log[i].seq <= causalSeq
  /\ \A r \in Requests : Holds(r) /\ request[r].era = era => request[r].seq <= causalSeq
  /\ \A r \in Requests : Holds(r) =>
       \A i \in 1 .. Len(log) : log[i].era = request[r].era => log[i].seq # request[r].seq
  /\ \A r, s \in Requests : Holds(r) /\ Holds(s) /\ r # s /\ request[r].era = request[s].era =>
       request[r].seq # request[s].seq

HasRow(r, role) == \E i \in 1 .. Len(log) : log[i].by = r /\ log[i].role = role

OutcomeInv ==
  \A r \in Requests : request[r].kind = "ai" /\ request[r].told = "reply" /\ ~request[r].lost /\ HasRow(r, "user") =>
    HasRow(r, "assistant")

Shown(r, rows) == \E i \in DOMAIN rows : rows[i].by = r /\ rows[i].role = "user"

SeenInv ==
  \A r \in Requests : request[r].kind = "ai" /\ ~request[r].hidden =>
    /\ request[r].step \in Asking => Shown(r, request[r].context)
    /\ request[r].step = "diary" =>
         /\ Shown(r, request[r].context) /\ request[r].context \in Seq(LogRows)
         /\ Shows(r).maxChars <= 0 \/ Shows(r).maxChars >= Chars(Len(request[r].context))

(* A reader that goes on has seen what it began with, or has it ahead of it.  *)
Ahead(open, rows) == IF open.ended = "whole" THEN {} ELSE {rows[i] : i \in 1 .. Len(rows) - open.cursor}

Covers(open, rows) ==
  open.ended # "cut" /\ ~open.broken => open.start \cap ToSet(rows) \subseteq open.shown \cup Ahead(open, rows)

PagesInv ==
  \A r \in Requests :
    /\ Covers(reading[r], Rows(reading[r].of))
    /\ request[r].step = "select" =>
         /\ reading[r].ended = "no" /\ reading[r].cursor < reading[r].total
         /\ \/ Len(Rows(reading[r].of)) >= reading[r].total
            \/ reading[r].start \cap ToSet(Rows(reading[r].of)) = {}

-----------------------------------------------------------------------------
(* The types, step by step. *)

LEMMA RequestsAre == Requests \subseteq Nat \ {0}
  <1> DEFINE n == Cardinality(Requests)
  <1>1. n \in Nat
    BY PipelineConstants, FS_CardinalityType
  <1>2. Requests = 1 .. n
    BY PipelineConstants
  <1> HIDE DEF n
  <1> QED
    BY <1>1, <1>2

LEMMA NobodyShape == Shape(Nobody) /\ Nobody.step = "idle" /\ Nobody.era = 0 /\ Nobody.calls = 0 /\ Nobody.kind = "none"
  <1>1. 1 \in Versions
    BY DEF Versions
  <1>2. /\ RequestFields \subseteq DOMAIN Nobody
        /\ Nobody.kind = "none" /\ Nobody.step = "idle" /\ Nobody.told = "nothing" /\ Nobody.rest = 1
        /\ Nobody.seq = 0 /\ Nobody.era = 0 /\ Nobody.cutoff = 0 /\ Nobody.calls = 0
    BY DEF Nobody, RequestFields, NoCutoff
  <1> QED
    BY <1>1, <1>2 DEF Shape, Kinds, Steps, Holding

LEMMA GoesTo ==
  ASSUME TypeInv, NEW r \in Requests, NEW next, Goes(r, next)
  PROVE  /\ request'[r] = next /\ \A s \in Requests \ {r} : request'[s] = request[s]
         /\ request' = [s \in Requests |-> request'[s]]
  BY DEF Goes, TypeInv

LEMMA Stays == ASSUME NEW r \in Requests, Shape(request[r]), request'[r] = request[r] PROVE Moved(r)
  BY DEF Moved, Shape

(* A step that only goes on.                                                *)
LEMMA Walks ==
  ASSUME NEW r \in Requests, Shape(request[r]), Shape(request'[r]), request[r].step \notin {"idle", "done"},
         request'[r].kind = request[r].kind, request'[r].cutoff = request[r].cutoff, request'[r].calls = request[r].calls,
         request'[r].era = request[r].era,
         request'[r].step \notin {"idle", "snapshot", "number", "append", "append_answer", "diary", "tool", "select"},
         request'[r].step \in Asking => /\ request[r].step \in Asking
                                        /\ request'[r].context = request[r].context /\ request'[r].hidden = request[r].hidden,
         ~(request'[r].kind = "ai" /\ request'[r].told = "reply")
  PROVE  Moved(r)
  BY DEF Moved, Shape, Before, Holding

LEMMA FailedShape ==
  ASSUME NEW q, Shape(q), q.step \notin {"idle", "done"}
  PROVE  LET u == Failed(q)
         IN /\ Shape(u) /\ u.kind = q.kind /\ u.cutoff = q.cutoff /\ u.era = q.era /\ u.calls = q.calls
            /\ u.step \in {"done", "number_answer"} /\ ~(u.kind = "ai" /\ u.told = "reply")
  <1>1. CASE q.kind = "poke"
    <2>1. Failed(q) = [q EXCEPT !.step = "number_answer", !.told = "reply"]
      BY <1>1 DEF Failed
    <2> QED
      BY <1>1, <2>1 DEF Shape, RequestFields, Steps, Holding
  <1>2. CASE q.kind # "poke"
    <2>1. Failed(q) = [q EXCEPT !.step = "done", !.told = "error"]
      BY <1>2 DEF Failed
    <2> QED
      BY <1>2, <2>1 DEF Shape, RequestFields, Steps, Holding
  <1> QED
    BY <1>1, <1>2

LEMMA FailedMoves ==
  ASSUME NEW r \in Requests, Shape(request[r]), request[r].step \notin {"idle", "done"}, request'[r] = Failed(request[r])
  PROVE  Moved(r)
  <1> DEFINE u == Failed(request[r])
  <1>1. /\ Shape(u) /\ u.kind = request[r].kind /\ u.cutoff = request[r].cutoff /\ u.era = request[r].era /\ u.calls = request[r].calls
        /\ u.step \in {"done", "number_answer"} /\ ~(u.kind = "ai" /\ u.told = "reply")
    BY FailedShape
  <1> HIDE DEF u
  <1>2. request'[r] = u
    BY DEF u
  <1> QED
    BY <1>1, <1>2, Walks DEF Asking

(* What r does to itself leaves the others alone. *)
LEMMA Alone ==
  ASSUME TypeInv, NEW r \in Requests, NEW next, Goes(r, next), request'[r] = next => Moved(r)
  PROVE  request' = [s \in Requests |-> request'[s]] /\ \A s \in Requests : Moved(s)
  BY GoesTo, Stays DEF TypeInv

AllMoved == request' = [s \in Requests |-> request'[s]] /\ \A s \in Requests : Moved(s)

LEMMA BeginMoves == ASSUME TypeInv, NEW r \in Requests, NEW kind \in Kinds, Begin(r, kind) PROVE AllMoved
  <1> DEFINE u == [Nobody EXCEPT !.kind = kind, !.step = IF kind = "ambient" THEN "number" ELSE "snapshot"]
  <1>1. Goes(r, u) /\ request[r].step = "idle" /\ request[r] = Nobody
    BY DEF Begin, Does, TypeInv, Shape
  <1>2. Shape(u) /\ u.step \in {"number", "snapshot"} /\ u.calls = 0 /\ u.era = 0 /\ u.told = "nothing"
    <2>1. /\ RequestFields \subseteq DOMAIN u /\ u.kind = kind /\ u.step = (IF kind = "ambient" THEN "number" ELSE "snapshot")
          /\ u.told = "nothing" /\ u.rest = 1 /\ u.seq = 0 /\ u.era = 0 /\ u.cutoff = 0 /\ u.calls = 0
      BY DEF Nobody, RequestFields, NoCutoff
    <2>2. 1 \in Versions
      BY DEF Versions
    <2> QED
      BY <2>1, <2>2 DEF Shape, Steps, Holding, Kinds
  <1> HIDE DEF u
  <1>3. request'[r] = u => Moved(r)
    BY <1>1, <1>2, NobodyShape DEF Moved, Before, Holding, Asking
  <1> QED
    BY <1>1, <1>3, Alone DEF AllMoved

LEMMA SnapshotMoves == ASSUME TypeInv, SettingsInv, NEW r \in Requests, Snapshot(r) PROVE AllMoved
  <1> DEFINE q == request[r]
             m == [q EXCEPT !.model = current.model, !.prompt = current.prompt, !.rest = current.rest]
             u == [m EXCEPT !.step = IF q.kind = "ai" THEN "number" ELSE "chat"]
  <1>1. Shape(q) /\ q.step = "snapshot"
    BY DEF TypeInv, Snapshot, Does
  <1>2. current.rest \in Versions
    BY DEF SettingsInv, SettingsTypes
  <1>3. Shape(m) /\ m.step = "snapshot" /\ m.kind = q.kind /\ m.cutoff = q.cutoff /\ m.era = q.era /\ m.calls = q.calls
    BY <1>1, <1>2 DEF Shape, RequestFields, Holding
  <1>4. Goes(r, Failed(m)) \/ Goes(r, u)
    BY <1>1, <1>3, Zenon DEF Snapshot, Goes
  <1>5. /\ Shape(u) /\ u.step \in {"number", "chat"} /\ u.kind = q.kind /\ u.era = q.era /\ u.calls = q.calls
        /\ ~(u.kind = "ai" /\ u.told = "reply")
    BY <1>1, <1>3 DEF Shape, RequestFields, Holding, Steps
  <1>6. request'[r] = u => Moved(r)
    <2> HIDE DEF u
    <2> QED
      BY <1>1, <1>5 DEF Moved, Shape, Before, Holding, Asking
  <1> DEFINE f == Failed(m)
  <1>7. /\ Shape(f) /\ f.kind = q.kind /\ f.cutoff = q.cutoff /\ f.era = q.era /\ f.calls = q.calls
        /\ f.step \in {"done", "number_answer"} /\ ~(f.kind = "ai" /\ f.told = "reply")
    BY <1>3, FailedShape
  <1>8. request'[r] = f => Moved(r)
    <2> HIDE DEF f, m
    <2> QED
      BY <1>1, <1>7, Walks DEF Asking
  <1> HIDE DEF f, m, u
  <1>9. Goes(r, f) \/ Goes(r, u)
    BY <1>4 DEF f
  <1> QED
    BY <1>6, <1>8, <1>9, Alone DEF AllMoved

LEMMA NumberMoves == ASSUME TypeInv, NEW r \in Requests, Number(r) PROVE AllMoved
  <1> DEFINE q == request[r]
             u == [q EXCEPT !.seq = causalSeq', !.era = era, !.step = IF q.step = "number" THEN "append" ELSE "append_answer"]
  <1>1. Shape(q) /\ q.step \in {"number", "number_answer"} /\ Goes(r, u) /\ causalSeq' = causalSeq + 1
    BY DEF TypeInv, Number, NextSeq
  <1>2. causalSeq' \in Nat /\ causalSeq' # 0 /\ era \in Nat
    BY <1>1 DEF TypeInv
  <1>3. /\ Shape(u) /\ u.kind = q.kind /\ u.cutoff = q.cutoff /\ u.era = era /\ u.calls = q.calls
        /\ u.step = (IF q.step = "number" THEN "append" ELSE "append_answer") /\ ~(u.kind = "ai" /\ u.told = "reply")
    BY <1>1, <1>2 DEF Shape, RequestFields, Holding, Steps
  <1> HIDE DEF u
  <1>4. request'[r] = u => Moved(r)
    BY <1>1, <1>3 DEF Moved, Shape, Before, Holding, Asking
  <1> QED
    BY <1>1, <1>4, Alone DEF AllMoved

LEMMA AskedShape ==
  ASSUME NEW q, Shape(q), q.step = "append"
  PROVE  LET u == Asked(q)
         IN /\ Shape(u) /\ Shape([u EXCEPT !.cutoff = NoCutoff])
            /\ u.kind = q.kind /\ u.calls = q.calls /\ u.step \in {"done", "chat"} /\ ~(u.kind = "ai" /\ u.told = "reply")
            /\ u.cutoff = q.seq /\ u.era = q.era
  <1> DEFINE s == IF q.kind = "ambient" THEN "done" ELSE "chat"
  <1>1. Asked(q) = [q EXCEPT !.cutoff = q.seq, !.step = s]
    BY DEF Asked
  <1> QED
    BY <1>1 DEF Shape, RequestFields, Holding, Steps, NoCutoff

LEMMA AppendQuestionMoves == ASSUME TypeInv, NEW r \in Requests, AppendQuestion(r) PROVE AllMoved
  <1> DEFINE q == request[r]
             u == Asked(q)
             v == [u EXCEPT !.cutoff = NoCutoff]
  <1>1. Shape(q) /\ q.step = "append"
    BY DEF TypeInv, AppendQuestion, Does
  <1>2. Goes(r, u) \/ Goes(r, v) \/ Goes(r, Failed(q))
    BY Zenon DEF AppendQuestion, Goes
  <1>3. /\ Shape(u) /\ u.kind = q.kind /\ u.era = q.era /\ u.calls = q.calls /\ u.step \in {"done", "chat"}
        /\ ~(u.kind = "ai" /\ u.told = "reply")
        /\ Shape(v)
    BY <1>1, AskedShape
  <1> HIDE DEF u
  <1>4. v.kind = u.kind /\ v.era = u.era /\ v.calls = u.calls /\ v.step = u.step /\ v.told = u.told
    BY <1>3 DEF Shape, RequestFields
  <1> HIDE DEF v
  <1>5. request'[r] = u => Moved(r)
    BY <1>1, <1>3 DEF Moved, Shape, Before, Holding, Asking
  <1>6. request'[r] = v => Moved(r)
    BY <1>1, <1>3, <1>4 DEF Moved, Shape, Before, Holding, Asking
  <1>7. request'[r] = Failed(q) => Moved(r)
    BY <1>1, FailedMoves
  <1> QED
    BY <1>2, <1>5, <1>6, <1>7, Alone DEF AllMoved

LEMMA ReadChatMoves == ASSUME TypeInv, NEW r \in Requests, ReadChat(r) PROVE AllMoved
  <1> DEFINE q == request[r]
  <1>1. Shape(q) /\ q.step = "chat"
    BY DEF TypeInv, ReadChat, Does
  <1>2. Goes(r, Failed(q)) \/ \E context, hidden : Goes(r, [q EXCEPT !.step = "diary", !.context = context, !.hidden = hidden])
    BY Zenon DEF ReadChat, Goes
  <1>3. ASSUME NEW context, NEW hidden, request'[r] = [q EXCEPT !.step = "diary", !.context = context, !.hidden = hidden]
        PROVE  Moved(r)
    <2> DEFINE u == [q EXCEPT !.step = "diary", !.context = context, !.hidden = hidden]
    <2>1. /\ Shape(u) /\ u.kind = q.kind /\ u.calls = q.calls /\ u.cutoff = q.cutoff /\ u.era = q.era /\ u.step = "diary"
          /\ ~(u.kind = "ai" /\ u.told = "reply")
      BY <1>1 DEF Shape, RequestFields, Holding, Steps
    <2>2. request'[r] = u
      BY <1>3
    <2> HIDE DEF u
    <2> QED
      BY <1>1, <2>1, <2>2 DEF Moved, Shape, Before, Holding, Asking
  <1>4. request'[r] = Failed(q) => Moved(r)
    BY <1>1, FailedMoves
  <1> QED
    BY <1>2, <1>3, <1>4, Alone DEF AllMoved

LEMMA ReadDiaryMoves == ASSUME TypeInv, NEW r \in Requests, ReadDiary(r) PROVE AllMoved
  <1> DEFINE q == request[r]
  <1>1. Shape(q) /\ q.step = "diary"
    BY DEF TypeInv, ReadDiary, Does
  <1>2. Goes(r, Failed(q)) \/ \E context : Goes(r, [q EXCEPT !.step = "key", !.context = context])
    BY Zenon DEF ReadDiary, Goes
  <1>3. ASSUME NEW context, request'[r] = [q EXCEPT !.step = "key", !.context = context]
        PROVE  Moved(r)
    <2> DEFINE u == [q EXCEPT !.step = "key", !.context = context]
    <2>1. /\ Shape(u) /\ u.kind = q.kind /\ u.calls = q.calls /\ u.cutoff = q.cutoff /\ u.era = q.era /\ u.step = "key"
          /\ ~(u.kind = "ai" /\ u.told = "reply")
      BY <1>1 DEF Shape, RequestFields, Holding, Steps
    <2>2. request'[r] = u
      BY <1>3
    <2> HIDE DEF u
    <2> QED
      BY <1>1, <2>1, <2>2 DEF Moved, Shape, Before, Holding, Asking
  <1>4. request'[r] = Failed(q) => Moved(r)
    BY <1>1, FailedMoves
  <1> QED
    BY <1>2, <1>3, <1>4, Alone DEF AllMoved

(* The client is read and the model asked: the step is all that changes.    *)
LEMMA EnsureKeyMoves == ASSUME TypeInv, NEW r \in Requests, EnsureKey(r) PROVE AllMoved
  <1> DEFINE q == request[r]
             u == [q EXCEPT !.step = "thinking"]
  <1>1. Shape(q) /\ q.step = "key"
    BY DEF TypeInv, EnsureKey, Does
  <1>2. Goes(r, u) \/ Goes(r, Failed(q))
    BY Zenon DEF EnsureKey, Goes
  <1>3. /\ Shape(u) /\ u.kind = q.kind /\ u.calls = q.calls /\ u.cutoff = q.cutoff /\ u.era = q.era /\ u.step = "thinking"
        /\ u.context = q.context /\ u.hidden = q.hidden /\ ~(u.kind = "ai" /\ u.told = "reply")
    BY <1>1 DEF Shape, RequestFields, Holding, Steps
  <1> HIDE DEF u
  <1>4. request'[r] = u => Moved(r)
    BY <1>1, <1>3, Walks DEF Asking
  <1>5. request'[r] = Failed(q) => Moved(r)
    BY <1>1, FailedMoves
  <1> QED
    BY <1>2, <1>4, <1>5, Alone DEF AllMoved

LEMMA ReadThinkingMoves == ASSUME TypeInv, NEW r \in Requests, ReadThinking(r) PROVE AllMoved
  <1> DEFINE q == request[r]
             u == [q EXCEPT !.step = "effort", !.thinking = Thinking(q)]
  <1>1. Shape(q) /\ q.step = "thinking"
    BY DEF TypeInv, ReadThinking, Does
  <1>2. Goes(r, u)
    BY Zenon DEF ReadThinking, Goes
  <1>3. /\ Shape(u) /\ u.kind = q.kind /\ u.calls = q.calls /\ u.cutoff = q.cutoff /\ u.era = q.era /\ u.step = "effort"
        /\ u.context = q.context /\ u.hidden = q.hidden /\ ~(u.kind = "ai" /\ u.told = "reply")
    BY <1>1 DEF Shape, RequestFields, Holding, Steps
  <1> HIDE DEF u
  <1>4. request'[r] = u => Moved(r)
    BY <1>1, <1>3, Walks DEF Asking
  <1> QED
    BY <1>2, <1>4, Alone DEF AllMoved

LEMMA ReadEffortMoves == ASSUME TypeInv, NEW r \in Requests, ReadEffort(r) PROVE AllMoved
  <1> DEFINE q == request[r]
             u == [q EXCEPT !.step = "send", !.effort = EffortSent(q.thinking, client.effort)]
  <1>1. Shape(q) /\ q.step = "effort"
    BY DEF TypeInv, ReadEffort, Does
  <1>2. Goes(r, u)
    BY Zenon DEF ReadEffort, Goes
  <1>3. /\ Shape(u) /\ u.kind = q.kind /\ u.calls = q.calls /\ u.cutoff = q.cutoff /\ u.era = q.era /\ u.step = "send"
        /\ u.context = q.context /\ u.hidden = q.hidden /\ ~(u.kind = "ai" /\ u.told = "reply")
    BY <1>1 DEF Shape, RequestFields, Holding, Steps
  <1> HIDE DEF u
  <1>4. request'[r] = u => Moved(r)
    BY <1>1, <1>3, Walks DEF Asking
  <1> QED
    BY <1>2, <1>4, Alone DEF AllMoved

LEMMA SendMoves == ASSUME TypeInv, NEW r \in Requests, Send(r) PROVE AllMoved
  <1> DEFINE q == request[r]
             u == [q EXCEPT !.step = "answer", !.url = client.url, !.key = client.key]
  <1>1. Shape(q) /\ q.step = "send"
    BY DEF TypeInv, Send, Does
  <1>2. Goes(r, u)
    BY Zenon DEF Send, Goes
  <1>3. /\ Shape(u) /\ u.kind = q.kind /\ u.calls = q.calls /\ u.cutoff = q.cutoff /\ u.era = q.era /\ u.step = "answer"
        /\ u.context = q.context /\ u.hidden = q.hidden /\ ~(u.kind = "ai" /\ u.told = "reply")
    BY <1>1 DEF Shape, RequestFields, Holding, Steps
  <1> HIDE DEF u
  <1>4. request'[r] = u => Moved(r)
    BY <1>1, <1>3, Walks DEF Asking
  <1> QED
    BY <1>2, <1>4, Alone DEF AllMoved

LEMMA AnswerMoves == ASSUME TypeInv, NEW r \in Requests, Answer(r) PROVE AllMoved
  <1> DEFINE q == request[r]
             u == Answered(q)
  <1>1. Shape(q) /\ q.step = "answer"
    BY DEF TypeInv, Answer, Does
  <1>2. Goes(r, u)
    BY Zenon DEF Answer
  <1>3. /\ Shape(u) /\ u.kind = q.kind /\ u.calls = q.calls /\ u.cutoff = q.cutoff /\ u.era = q.era
        /\ u.step \in {"number_answer", "done"}
        /\ ~(u.kind = "ai" /\ u.told = "reply")
    <2>1. CASE q.kind = "ai"
      <3>1. u = [q EXCEPT !.step = "number_answer"]
        BY <2>1 DEF Answered
      <3> QED
        BY <1>1, <2>1, <3>1 DEF Shape, RequestFields, Holding, Steps
    <2>2. CASE q.kind = "poke"
      <3>1. u = [q EXCEPT !.step = "number_answer", !.told = "reply"]
        BY <2>2 DEF Answered
      <3> QED
        BY <1>1, <2>2, <3>1 DEF Shape, RequestFields, Holding, Steps
    <2>3. CASE q.kind \notin {"ai", "poke"}
      <3>1. u = [q EXCEPT !.step = "done", !.told = "reply"]
        BY <2>3 DEF Answered
      <3> QED
        BY <1>1, <2>3, <3>1 DEF Shape, RequestFields, Holding, Steps
    <2> QED
      BY <2>1, <2>2, <2>3
  <1> HIDE DEF u
  <1>4. request'[r] = u => Moved(r)
    BY <1>1, <1>3, Walks DEF Asking
  <1> QED
    BY <1>2, <1>4, Alone DEF AllMoved

LEMMA NoAnswerMoves == ASSUME TypeInv, NEW r \in Requests, NoAnswer(r) PROVE AllMoved
  <1>1. Shape(request[r]) /\ request[r].step = "answer" /\ Goes(r, Failed(request[r]))
    BY Zenon DEF TypeInv, NoAnswer, Does
  <1>2. request'[r] = Failed(request[r]) => Moved(r)
    BY <1>1, FailedMoves
  <1> QED
    BY <1>1, <1>2, Alone DEF AllMoved

(* Tools. *)
LEMMA CallToolMoves == ASSUME TypeInv, NEW r \in Requests, NEW call \in Calls, CallTool(r, call) PROVE AllMoved
  <1> DEFINE q == request[r]
             u == [q EXCEPT !.step = "tool", !.call = call, !.calls = q.calls + 1]
  <1>1. Shape(q) /\ q.step = "answer" /\ Goes(r, u)
    BY Zenon DEF TypeInv, CallTool, Does, Goes
  <1>2. /\ Shape(u) /\ u.kind = q.kind /\ u.calls = q.calls + 1 /\ u.cutoff = q.cutoff /\ u.era = q.era /\ u.step = "tool"
        /\ u.context = q.context /\ u.hidden = q.hidden /\ ~(u.kind = "ai" /\ u.told = "reply")
    BY <1>1 DEF Shape, RequestFields, Holding, Steps
  <1>3. q.calls \in Nat
    BY <1>1 DEF Shape
  <1> HIDE DEF u
  <1>4. request'[r] = u => Moved(r)
    BY <1>1, <1>2, <1>3 DEF Moved, Before, Holding, Asking
  <1> QED
    BY <1>1, <1>4, Alone DEF AllMoved

LEMMA ReturnedMoves ==
  ASSUME TypeInv, NEW r \in Requests, request[r].step \in {"tool", "select"}, Returned(r)
  PROVE  AllMoved /\ request'[r].step \notin {"tool", "select"}
  <1> DEFINE q == request[r]
             u == [q EXCEPT !.step = "key", !.call = NoCall]
             m == [q EXCEPT !.call = NoCall]
             f == Failed([m EXCEPT !.step = "key"])
             g == Failed(m)
  <1>1. Shape(q) /\ q.step \in {"tool", "select"}
    BY DEF TypeInv
  <1>2. /\ Shape(u) /\ u.kind = q.kind /\ u.calls = q.calls /\ u.cutoff = q.cutoff /\ u.era = q.era /\ u.step = "key"
        /\ u.context = q.context /\ u.hidden = q.hidden /\ ~(u.kind = "ai" /\ u.told = "reply")
    BY <1>1 DEF Shape, RequestFields, Holding, Steps
  <1>3. g = f
    BY <1>1 DEF Failed, Shape, RequestFields
  <1>4. u = [m EXCEPT !.step = "key"]
    BY <1>1 DEF Shape, RequestFields
  <1>5. Goes(r, u) \/ Goes(r, g)
    BY Zenon DEF Returned, Goes
  <1>6. f = Failed(u)
    BY <1>4
  <1> HIDE DEF u, f, g
  <1>7. /\ Shape(f) /\ f.kind = q.kind /\ f.calls = q.calls /\ f.cutoff = q.cutoff /\ f.era = q.era
        /\ f.step \in {"done", "number_answer"} /\ ~(f.kind = "ai" /\ f.told = "reply")
    BY <1>2, <1>6, FailedShape
  <1>8. request'[r] = u => Moved(r)
    BY <1>1, <1>2, Walks DEF Asking
  <1>9. request'[r] = f => Moved(r)
    BY <1>1, <1>7, Walks DEF Asking
  <1>10. PICK next : Goes(r, next) /\ (next = u \/ next = f)
    BY <1>3, <1>5
  <1>11. request'[r] = next
    BY <1>10, GoesTo
  <1> QED
    BY <1>2, <1>7, <1>8, <1>9, <1>10, <1>11, Alone DEF AllMoved

LEMMA SelectMoves == ASSUME TypeInv, NEW r \in Requests, Refuse(r) \/ WriteDiary(r) \/ Select(r) \/ ReadPage(r) PROVE AllMoved
  <1>1. request[r].step \in {"tool", "select"} /\ Returned(r)
    BY Zenon DEF Refuse, WriteDiary, Select, ReadPage, Runs, Does
  <1> QED
    BY <1>1, ReturnedMoves

LEMMA CountMoves == ASSUME TypeInv, NEW r \in Requests, Count(r) PROVE AllMoved
  <1> DEFINE q == request[r]
             u == [q EXCEPT !.step = "select"]
  <1>1. Shape(q) /\ q.step = "tool" /\ q.call.tool = "read" /\ (Returned(r) \/ Goes(r, u))
    BY Zenon DEF TypeInv, Count, Runs, Does
  <1>2. /\ Shape(u) /\ u.kind = q.kind /\ u.calls = q.calls /\ u.cutoff = q.cutoff /\ u.era = q.era /\ u.step = "select"
        /\ u.context = q.context /\ u.hidden = q.hidden /\ ~(u.kind = "ai" /\ u.told = "reply")
    BY <1>1 DEF Shape, RequestFields, Holding, Steps
  <1>3. q.calls \in Nat
    BY <1>1 DEF Shape
  <1> HIDE DEF u
  <1>4. request'[r] = u => Moved(r)
    BY <1>1, <1>2, <1>3 DEF Moved, Before, Holding, Asking
  <1> QED
    BY <1>1, <1>4, Alone, ReturnedMoves DEF AllMoved

LEMMA AppendAnswerMoves == ASSUME TypeInv, NEW r \in Requests, AppendAnswer(r) PROVE AllMoved
  <1> DEFINE q == request[r]
             u == [q EXCEPT !.step = "done", !.told = "reply"]
             v == [u EXCEPT !.lost = TRUE]
  <1>1. Shape(q) /\ q.step = "append_answer" /\ (Goes(r, u) \/ Goes(r, v))
    BY Zenon DEF TypeInv, AppendAnswer, Does
  <1>2. Shape(u) /\ u.kind = q.kind /\ u.calls = q.calls /\ u.cutoff = q.cutoff /\ u.era = q.era /\ u.step = "done"
    BY <1>1 DEF Shape, RequestFields, Holding, Steps
  <1>3. Shape(v) /\ v.kind = q.kind /\ v.calls = q.calls /\ v.cutoff = q.cutoff /\ v.era = q.era /\ v.step = "done"
    BY <1>1 DEF Shape, RequestFields, Holding, Steps
  <1>4. q.calls \in Nat
    BY <1>1 DEF Shape
  <1> HIDE DEF u, v
  <1>5. request'[r] = u => Moved(r)
    BY <1>1, <1>2, <1>4 DEF Moved, Before, Holding, Asking
  <1>6. request'[r] = v => Moved(r)
    BY <1>1, <1>3, <1>4 DEF Moved, Before, Holding, Asking
  <1> QED
    BY <1>1, <1>5, <1>6, Alone DEF AllMoved

LEMMA RestartMoves == ASSUME TypeInv, Restart PROVE AllMoved
  <1>1. request' = [r \in Requests |-> Stopped(request[r])]
    BY DEF Restart
  <1>2. ASSUME NEW r \in Requests PROVE Moved(r)
    <2> DEFINE q == request[r]
               u == [q EXCEPT !.step = "done", !.lost = TRUE]
    <2>1. Shape(q) /\ request'[r] = Stopped(q)
      BY <1>1 DEF TypeInv
    <2>2. CASE q.step \in {"idle", "done"}
      BY <2>1, <2>2, Stays DEF Stopped
    <2>3. CASE q.step \notin {"idle", "done"}
      <3>1. request'[r] = u
        BY <2>1, <2>3 DEF Stopped
      <3>2. /\ Shape(u) /\ u.kind = q.kind /\ u.calls = q.calls /\ u.cutoff = q.cutoff /\ u.era = q.era /\ u.step = "done"
            /\ ~(u.kind = "ai" /\ u.told = "reply")
        BY <2>1, <2>3 DEF Shape, RequestFields, Holding, Steps
      <3> HIDE DEF u
      <3> QED
        BY <2>1, <2>3, <3>1, <3>2, Walks DEF Asking
    <2> QED
      BY <2>2, <2>3
  <1> QED
    BY <1>1, <1>2 DEF AllMoved

LEMMA AllMove == ASSUME TypeInv, SettingsInv, [Next]_vars PROVE AllMoved
  <1>1. CASE Replies
    <2>1. PICK r \in Requests :
            \/ \E kind \in Kinds : Begin(r, kind)
            \/ Snapshot(r) \/ Number(r) \/ AppendQuestion(r) \/ ReadChat(r) \/ ReadDiary(r)
            \/ EnsureKey(r) \/ ReadThinking(r) \/ ReadEffort(r) \/ Send(r) \/ Answer(r) \/ NoAnswer(r) \/ AppendAnswer(r)
            \/ \E call \in Calls : CallTool(r, call)
            \/ Refuse(r) \/ WriteDiary(r) \/ Count(r) \/ Select(r) \/ ReadPage(r)
      BY <1>1, Zenon DEF Replies
    <2> QED
      BY <2>1, BeginMoves, SnapshotMoves, NumberMoves, AppendQuestionMoves, ReadChatMoves, ReadDiaryMoves, EnsureKeyMoves,
         ReadThinkingMoves, ReadEffortMoves, SendMoves, AnswerMoves, NoAnswerMoves, AppendAnswerMoves, CallToolMoves,
         SelectMoves, CountMoves
  <1>2. CASE Restart
    BY <1>2, RestartMoves
  <1>3. CASE Settings \/ Clear \/ ClearChat \/ ClearDiary \/ ClearStats \/ UNCHANGED vars
    <2>1. request' = request
      BY <1>3 DEF Settings, Clear, ClearChat, ClearDiary, ClearStats, vars
    <2> QED
      BY <2>1, Stays DEF AllMoved, TypeInv
  <1> QED
    BY <1>1, <1>2, <1>3 DEF Next

-----------------------------------------------------------------------------
(* What a step does to the stores, the counter and the readers.             *)

Asks(r)     == AppendQuestion(r) /\ log' = Append(log, Row(r, "user", NoCutoff)) /\ Goes(r, Asked(request[r]))
Replied(q)  == [q EXCEPT !.step = "done", !.told = "reply"]
Tells(r)    == AppendAnswer(r) /\ log' = Append(log, Row(r, "assistant", request[r].cutoff)) /\ Goes(r, Replied(request[r]))
Writes(r)   == WriteDiary(r) /\ diary' = Append(diary, Note(r))

StepsOf(r) ==
  \/ \E kind \in Kinds : Begin(r, kind)
  \/ Snapshot(r) \/ Number(r) \/ AppendQuestion(r) \/ ReadChat(r) \/ ReadDiary(r)
  \/ EnsureKey(r) \/ ReadThinking(r) \/ ReadEffort(r) \/ Send(r) \/ Answer(r) \/ NoAnswer(r) \/ AppendAnswer(r)
  \/ \E call \in Calls : CallTool(r, call)
  \/ Refuse(r) \/ WriteDiary(r) \/ Count(r) \/ Select(r) \/ ReadPage(r)

LEMMA LogSteps ==
  ASSUME [Next]_vars
  PROVE  \/ log' = log \/ log' = <<>>
         \/ \E r \in Requests : Asks(r) \/ Tells(r)
  <1>1. CASE Replies
    <2>1. PICK r \in Requests : StepsOf(r)
      BY <1>1, Zenon DEF Replies, StepsOf
    <2>2. CASE AppendQuestion(r)
      BY <2>2, Zenon DEF AppendQuestion, Asks
    <2>3. CASE AppendAnswer(r)
      BY <2>3, Zenon DEF AppendAnswer, Tells, Cutoff, Replied
    <2>4. CASE ~AppendQuestion(r) /\ ~AppendAnswer(r)
      BY <2>1, <2>4, Zenon DEF StepsOf, Begin, Snapshot, Number, ReadChat, ReadDiary, EnsureKey, ReadThinking, ReadEffort, Send,
         Answer, NoAnswer, CallTool, Refuse, WriteDiary, Count, Select, ReadPage, history
    <2> QED
      BY <2>2, <2>3, <2>4
  <1>2. CASE ~Replies
    BY <1>2 DEF Next, Settings, Clear, ClearChat, ClearDiary, ClearStats, Restart, vars, history
  <1> QED
    BY <1>1, <1>2

LEMMA DiarySteps ==
  ASSUME [Next]_vars
  PROVE  \/ diary' = diary \/ diary' = <<>>
         \/ \E r \in Requests : Writes(r)
  <1>1. CASE Replies
    <2>1. PICK r \in Requests : StepsOf(r)
      BY <1>1, Zenon DEF Replies, StepsOf
    <2>2. CASE WriteDiary(r)
      BY <2>2, Zenon DEF WriteDiary, Writes
    <2>3. CASE ~WriteDiary(r)
      BY <2>1, <2>3, Zenon DEF StepsOf, Begin, Snapshot, Number, AppendQuestion, ReadChat, ReadDiary, EnsureKey, ReadThinking,
         ReadEffort, Send, Answer, NoAnswer, AppendAnswer, CallTool, Refuse, Count, Select, ReadPage, history
    <2> QED
      BY <2>2, <2>3
  <1>2. CASE ~Replies
    BY <1>2 DEF Next, Settings, Clear, ClearChat, ClearDiary, ClearStats, Restart, vars, history
  <1> QED
    BY <1>1, <1>2

LEMMA CounterSteps ==
  ASSUME [Next]_vars
  PROVE  \/ causalSeq' = causalSeq /\ era' = era
         \/ \E r \in Requests : Number(r)
         \/ causalSeq' = 0 /\ era' = era + 1 /\ (log' = log \/ log' = <<>>) /\ ~Replies
  <1>1. CASE Replies
    <2>1. PICK r \in Requests : StepsOf(r)
      BY <1>1, Zenon DEF Replies, StepsOf
    <2>2. CASE ~Number(r)
      BY <2>1, <2>2, Zenon DEF StepsOf, Begin, Snapshot, AppendQuestion, ReadChat, ReadDiary, EnsureKey, ReadThinking,
         ReadEffort, Send, Answer, NoAnswer, AppendAnswer, CallTool, Refuse, WriteDiary, Count, Select, ReadPage, history
    <2> QED
      BY <2>2
  <1>2. CASE ~Replies
    BY <1>2 DEF Next, Settings, Clear, ClearChat, ClearDiary, ClearStats, Restart, vars, history
  <1> QED
    BY <1>1, <1>2

LEMMA ClearingSteps == ASSUME [Next]_vars, TypeInv PROVE clearing' \in {"none", "chat", "diary", "stats"}
  <1>1. CASE Replies
    <2>1. PICK r \in Requests : StepsOf(r)
      BY <1>1, Zenon DEF Replies, StepsOf
    <2>2. clearing' = clearing
      BY <2>1, Zenon DEF StepsOf, Begin, Snapshot, Number, AppendQuestion, ReadChat, ReadDiary, EnsureKey, ReadThinking,
         ReadEffort, Send, Answer, NoAnswer, AppendAnswer, CallTool, Refuse, WriteDiary, Count, Select, ReadPage, history
    <2> QED
      BY <2>2 DEF TypeInv
  <1>2. CASE ~Replies
    BY <1>2 DEF Next, Settings, Clear, ClearChat, ClearDiary, ClearStats, Restart, vars, history, TypeInv
  <1> QED
    BY <1>1, <1>2

(* A reader goes on by itself, or the process stops. *)
Opens(r)  == Opened(r, request[r].call.of)

(* The count of a page: there is more, or the reader is through. *)
MoreCounted(r) ==
  LET open == Opens(r)
  IN /\ open.cursor < Len(Rows(open.of))
     /\ reading' = [reading EXCEPT ![r] = [open EXCEPT !.total = Len(Rows(open.of))]]
     /\ Goes(r, [request[r] EXCEPT !.step = "select"])
AllCounted(r) ==
  LET open == Opens(r)
  IN /\ ~(open.cursor < Len(Rows(open.of)))
     /\ reading' = [reading EXCEPT ![r] = [open EXCEPT !.ended = "whole"]]
     /\ Returned(r)
Selected(r) ==
  LET open == reading[r]
      rows == Rows(open.of)
  IN reading' = [reading EXCEPT ![r] = Turned(open, Page(rows, open, open.total, request[r].call), Len(rows) > open.total)]
PageRead(r) ==
  LET open == Opens(r)
      rows == Rows(open.of)
  IN reading' = [reading EXCEPT ![r] = Turned(open, Page(rows, open, Len(rows), request[r].call), FALSE)]

ReadSteps(r) ==
  \/ Count(r) /\ (MoreCounted(r) \/ AllCounted(r))
  \/ Select(r) /\ Selected(r)
  \/ ReadPage(r) /\ PageRead(r)

LEMMA ReadingSteps ==
  ASSUME [Next]_vars
  PROVE  \/ reading' = reading
         \/ reading' = [r \in Requests |-> Unread] /\ Restart
         \/ \E r \in Requests : ReadSteps(r)
  <1>1. CASE Replies
    <2>1. PICK r \in Requests : StepsOf(r)
      BY <1>1, Zenon DEF Replies, StepsOf
    <2>2. CASE Count(r)
      <3>1. reading' = reading \/ MoreCounted(r) \/ AllCounted(r)
        BY <2>2, Zenon DEF Count, MoreCounted, AllCounted, Opens
      <3> QED
        BY <2>2, <3>1 DEF ReadSteps
    <2>3. CASE Select(r)
      <3>1. reading' = reading \/ Selected(r)
        BY <2>3, Zenon DEF Select, Selected
      <3> QED
        BY <2>3, <3>1 DEF ReadSteps
    <2>4. CASE ReadPage(r)
      <3>1. PageRead(r)
        BY <2>4, Zenon DEF ReadPage, PageRead, Opens
      <3> QED
        BY <2>4, <3>1 DEF ReadSteps
    <2>5. CASE ~Count(r) /\ ~Select(r) /\ ~ReadPage(r)
      BY <2>1, <2>5, Zenon DEF StepsOf, Begin, Snapshot, Number, AppendQuestion, ReadChat, ReadDiary, EnsureKey, ReadThinking,
         ReadEffort, Send, Answer, NoAnswer, AppendAnswer, CallTool, Refuse, WriteDiary, history
    <2> QED
      BY <2>2, <2>3, <2>4, <2>5
  <1>2. CASE ~Replies
    BY <1>2 DEF Next, Settings, Clear, ClearChat, ClearDiary, ClearStats, Restart, vars, history
  <1> QED
    BY <1>1, <1>2

-----------------------------------------------------------------------------
(* Pages of a history (HistoryStore).                                       *)

LEMMA ReverseIs ==
  ASSUME NEW S, NEW rows \in Seq(S)
  PROVE  /\ Reverse(rows) \in Seq(S) /\ Len(Reverse(rows)) = Len(rows)
         /\ \A i \in 1 .. Len(rows) : Reverse(rows)[i] = rows[Len(rows) - i + 1]
  <1> DEFINE n == Len(rows)
  <1>1. n \in Nat /\ DOMAIN rows = 1 .. n /\ \A i \in 1 .. n : rows[i] \in S
    BY LenProperties, ElementOfSeq
  <1>2. Reverse(rows) = [i \in 1 .. n |-> rows[n - i + 1]]
    BY DEF Reverse
  <1> HIDE DEF n
  <1>3. \A i \in 1 .. n : rows[n - i + 1] \in S
    BY <1>1
  <1>4. [i \in 1 .. n |-> rows[n - i + 1]] \in Seq(S) /\ Len([i \in 1 .. n |-> rows[n - i + 1]]) = n
    BY <1>1, <1>3
  <1>5. \A i \in 1 .. n : [j \in 1 .. n |-> rows[n - j + 1]][i] = rows[n - i + 1]
    OBVIOUS
  <1> QED
    BY <1>2, <1>4, <1>5 DEF n

(* The place of the k-th row that comes after the first "offset" newest ones. *)
Back(rows, offset, k) == Len(rows) - offset - k + 1

LEMMA NewestIs ==
  ASSUME NEW S, NEW rows \in Seq(S), NEW limit \in Int, NEW offset \in Nat
  PROVE  LET page == Newest(rows, limit, offset)
             last == Least(offset + limit, Len(rows))
         IN /\ page \in Seq(S)
            /\ Len(page) = IF offset + 1 <= last THEN last - offset ELSE 0
            /\ \A k \in 1 .. Len(page) : Back(rows, offset, k) \in 1 .. Len(rows) /\ page[k] = rows[Back(rows, offset, k)]
  <1> DEFINE page == Newest(rows, limit, offset)
             last == Least(offset + limit, Len(rows))
             back == Reverse(rows)
             n    == Len(rows)
  <1>1. /\ n \in Nat /\ back \in Seq(S) /\ Len(back) = n
        /\ \A i \in 1 .. n : back[i] = rows[n - i + 1]
    BY ReverseIs, LenProperties
  <1>2. last \in Int /\ last <= n
    BY <1>1 DEF Least
  <1>3. page = SubSeq(back, offset + 1, last)
    BY DEF Newest
  <1>4. \A i \in 1 .. n : back[i] \in S
    BY <1>1, ElementOfSeq
  <1> HIDE DEF back, last, n, page
  <1>5. \A i \in offset + 1 .. last : back[i] \in S
    BY <1>1, <1>2, <1>4
  <1>6. /\ page \in Seq(S) /\ Len(page) = (IF offset + 1 <= last THEN last - (offset + 1) + 1 ELSE 0)
        /\ \A i \in 1 .. last - (offset + 1) + 1 : page[i] = back[offset + 1 + i - 1]
    BY <1>2, <1>3, <1>5, SubSeqProperties
  <1>7. ASSUME NEW k \in 1 .. Len(page)
        PROVE  n - offset - k + 1 \in 1 .. n /\ page[k] = rows[n - offset - k + 1]
    <2> DEFINE size == Len(page)
    <2>0. k \in 1 .. size /\ size = (IF offset + 1 <= last THEN last - (offset + 1) + 1 ELSE 0)
      BY <1>6
    <2> HIDE DEF size
    <2>4. k \in 1 .. last - (offset + 1) + 1 /\ offset + k \in 1 .. n /\ offset + 1 + k - 1 = offset + k
      BY <1>1, <1>2, <2>0
    <2>1. page[k] = back[offset + k] /\ offset + k \in 1 .. n
      <3>1. page[k] = back[offset + 1 + k - 1]
        BY <1>6, <2>4
      <3> QED
        BY <2>4, <3>1
    <2>2. back[offset + k] = rows[n - (offset + k) + 1]
      BY <1>1, <2>1
    <2>3. n - (offset + k) + 1 = n - offset - k + 1 /\ n - offset - k + 1 \in 1 .. n
      BY <1>1, <2>1
    <2> QED
      BY <2>1, <2>2, <2>3
  <1>8. Len(page) = (IF offset + 1 <= last THEN last - offset ELSE 0)
    BY <1>2, <1>6
  <1> QED
    BY <1>6, <1>7, <1>8 DEF Back, n, last, page

(* A list of a history that holds as many rows as were counted, or fewer. *)
LEMMA ListedIs ==
  ASSUME NEW S, NEW rows \in Seq(S), NEW total \in Nat, NEW cursor \in Nat, NEW limit \in Int
  PROVE  LET list == Listed(rows, total, cursor, limit)
         IN /\ list.page \in Seq(S)
            /\ list.next # NoCursor => list.next \in Nat /\ list.next = cursor + Len(list.page)
            /\ \A k \in 1 .. Len(list.page) :
                 Back(rows, cursor, k) \in 1 .. Len(rows) /\ list.page[k] = rows[Back(rows, cursor, k)]
            /\ list.next = NoCursor => cursor + Len(list.page) >= total
  <1> DEFINE list  == Listed(rows, total, cursor, limit)
             many  == IF limit <= 0 THEN total - cursor ELSE limit
             page  == Newest(rows, many, cursor)
  <1>1. CASE cursor >= total
    <2>1. list = [page |-> <<>>, next |-> NoCursor]
      BY <1>1 DEF Listed
    <2>2. <<>> \in Seq(S) /\ Len(<<>>) = 0
      BY EmptySeq
    <2>3. list.page = <<>> /\ list.next = NoCursor
      BY <2>1
    <2>4. Len(list.page) = 0
      BY <2>2, <2>3
    <2> HIDE DEF list
    <2> QED
      <3>1. list.page \in Seq(S)
        BY <2>2, <2>3
      <3>2. \A k \in 1 .. Len(list.page) : FALSE
        BY <2>4
      <3>3. cursor + Len(list.page) >= total
        BY <1>1, <2>4
      <3> QED
        BY <2>3, <3>1, <3>2, <3>3 DEF list
  <1>2. CASE ~(cursor >= total)
    <2>1. list = [page |-> page, next |-> NextCursor(cursor, page, total)]
      BY <1>2 DEF Listed
    <2>2. many \in Int
      OBVIOUS
    <2> HIDE DEF many
    <2>3. /\ page \in Seq(S)
          /\ \A k \in 1 .. Len(page) : Back(rows, cursor, k) \in 1 .. Len(rows) /\ page[k] = rows[Back(rows, cursor, k)]
      <3>1. page \in Seq(S)
        BY <2>2, NewestIs
      <3>2. ASSUME NEW k \in 1 .. Len(page) PROVE Back(rows, cursor, k) \in 1 .. Len(rows) /\ page[k] = rows[Back(rows, cursor, k)]
        BY <2>2, <3>2, NewestIs
      <3> QED
        BY <3>1, <3>2
    <2>4. Len(page) \in Nat
      BY <2>3, LenProperties
    <2>5. list.page = page /\ list.next = NextCursor(cursor, page, total)
      BY <2>1
    <2> HIDE DEF list, page
    <2>6. /\ list.next # NoCursor => list.next \in Nat /\ list.next = cursor + Len(page)
          /\ list.next = NoCursor => cursor + Len(page) >= total
      BY <2>4, <2>5 DEF NextCursor, NoCursor
    <2> QED
      BY <2>3, <2>5, <2>6 DEF list
  <1> QED
    BY <1>1, <1>2

LEMMA ToSetIs == ASSUME NEW S, NEW rows \in Seq(S) PROVE ToSet(rows) = {rows[i] : i \in 1 .. Len(rows)}
  BY LenProperties DEF ToSet

(* What a page leaves a reader with. *)
LEMMA OpensIs ==
  ASSUME TypeInv, NEW r \in Requests
  PROVE  LET open == Opens(r)
         IN /\ Reader(open) /\ open.ended = "no" /\ open.of = request[r].call.of
            /\ open = reading[r] \/ (open.start = ToSet(Rows(open.of)) /\ open.shown = {} /\ open.cursor = 0)
  <1> DEFINE of == request[r].call.of
             open == Opens(r)
             new == [Unread EXCEPT !.of = of, !.start = ToSet(Rows(of))]
  <1>1. CASE reading[r].of = of /\ reading[r].ended = "no"
    <2>1. open = reading[r]
      BY <1>1 DEF Opens, Opened
    <2> QED
      BY <1>1, <2>1 DEF TypeInv
  <1>2. CASE ~(reading[r].of = of /\ reading[r].ended = "no")
    <2>1. open = new
      BY <1>2 DEF Opens, Opened
    <2>2. /\ Readers \subseteq DOMAIN new /\ new.of = of /\ new.start = ToSet(Rows(of)) /\ new.shown = {}
          /\ new.cursor = 0 /\ new.total = 0 /\ new.ended = "no"
      BY DEF Unread, Readers
    <2> HIDE DEF new, open
    <2> QED
      BY <2>1, <2>2 DEF Reader, open
  <1> QED
    BY <1>1, <1>2

LEMMA LimitIs == ASSUME NEW call \in Calls, call.tool = "read" PROVE ReadLimit(call.limit) \in Int
  BY PipelineConstants, HistoryConstants DEF ReadLimit, Least

LEMMA RowsAre == ASSUME TypeInv, NEW of PROVE \E S : Rows(of) \in Seq(S)
  BY DEF TypeInv, Rows

LEMMA TurnedIs ==
  ASSUME NEW open, Reader(open), NEW S, NEW rows \in Seq(S), NEW total \in Nat, NEW limit \in Int, NEW stale
  PROVE  LET next == Turned(open, Limited(Listed(rows, total, open.cursor, limit)), stale)
         IN /\ Reader(next) /\ next.of = open.of /\ next.start = open.start
            /\ open.ended = "no" /\ Covers(open, rows) /\ (Len(rows) = total \/ stale \/ open.start \cap ToSet(rows) = {})
                 => Covers(next, rows)
  <1> DEFINE list == Listed(rows, total, open.cursor, limit)
             page == Limited(list)
             next == Turned(open, page, stale)
  <1>1. open.cursor \in Nat
    BY DEF Reader
  <1>2. /\ list.page \in Seq(S)
        /\ list.next # NoCursor => list.next \in Nat /\ list.next = open.cursor + Len(list.page)
        /\ \A k \in 1 .. Len(list.page) :
             Back(rows, open.cursor, k) \in 1 .. Len(rows) /\ list.page[k] = rows[Back(rows, open.cursor, k)]
        /\ list.next = NoCursor => open.cursor + Len(list.page) >= total
    BY <1>1, ListedIs
  <1>3. page = (IF Len(list.page) > ResultRows THEN [page |-> <<>>, next |-> NoCursor, truncated |-> TRUE]
                ELSE [page |-> list.page, next |-> list.next, truncated |-> FALSE])
    BY DEF Limited
  <1> HIDE DEF list
  <1>4. page.next = NoCursor \/ page.next \in Nat
    BY <1>2, <1>3
  <1> HIDE DEF page
  <1>5. /\ Readers \subseteq DOMAIN next /\ next.of = open.of /\ next.start = open.start /\ next.total = open.total
        /\ next.shown = open.shown \cup ToSet(page.page) /\ next.cursor = (IF page.next = NoCursor THEN open.cursor ELSE page.next)
        /\ next.broken = (open.broken \/ stale)
        /\ next.ended = (IF page.truncated THEN "cut" ELSE IF page.next = NoCursor THEN "whole" ELSE "no")
    BY DEF Turned, Reader, Readers
  <1> HIDE DEF next
  <1>6. Reader(next)
    <2>1. next.ended \in {"no", "cut", "whole"}
      BY <1>5
    <2>2. next.cursor \in Nat
      BY <1>1, <1>4, <1>5
    <2> QED
      BY <1>5, <2>1, <2>2 DEF Reader
  <1>7. ASSUME open.ended = "no", Covers(open, rows), Len(rows) = total \/ stale \/ open.start \cap ToSet(rows) = {},
               next.ended # "cut", ~next.broken, NEW row \in next.start \cap ToSet(rows)
        PROVE  row \in next.shown \cup Ahead(next, rows)
    <2>1. ~open.broken /\ ~stale /\ ~page.truncated
      BY <1>5, <1>7
    <2>2. page.page = list.page /\ page.next = list.next
      BY <1>3, <2>1
    <2>3. row \in open.start \cap ToSet(rows) /\ Len(rows) = total
      BY <1>5, <1>7, <2>1
    <2>4. row \in open.shown \cup Ahead(open, rows)
      BY <1>7, <2>1, <2>3 DEF Covers
    <2>5. CASE row \in open.shown
      BY <1>5, <2>5
    <2>6. CASE row \in Ahead(open, rows)
      <3> DEFINE c == open.cursor
                 m == Len(list.page)
      <3>1. PICK i \in 1 .. total - c : row = rows[i]
        BY <1>7, <2>3, <2>6 DEF Ahead
      <3>2. m \in Nat /\ DOMAIN list.page = 1 .. m
        BY <1>2, LenProperties
      <3>3. CASE i > total - c - m
        <4> DEFINE k == total - c - i + 1
        <4>1. k \in 1 .. m /\ total - c - k + 1 = i
          <5>1. c \in Nat /\ m \in Nat /\ i \in 1 .. total - c /\ i > total - c - m
            BY <1>1, <3>1, <3>2, <3>3
          <5> HIDE DEF c, m
          <5>2. i \in Int /\ i >= 1 /\ i <= total - c
            BY <5>1
          <5> QED
            BY <5>1, <5>2
        <4>2. Back(rows, c, k) = i
          BY <2>3, <4>1 DEF Back
        <4> HIDE DEF k
        <4>3. list.page[k] = row
          BY <1>2, <3>1, <4>1, <4>2
        <4>4. row \in ToSet(page.page)
          BY <2>2, <3>2, <4>1, <4>3 DEF ToSet
        <4> QED
          BY <1>5, <4>4
      <3>4. CASE i <= total - c - m
        <4>1. total > c + m
          BY <1>1, <3>1, <3>2, <3>4
        <4>2. list.next # NoCursor /\ list.next = c + m
          BY <1>1, <1>2, <3>2, <4>1
        <4>3. next.cursor = c + m /\ next.ended = "no"
          BY <1>5, <2>1, <2>2, <4>2
        <4>4. i \in 1 .. total - (c + m)
          BY <1>1, <3>1, <3>2, <3>4
        <4>5. i \in 1 .. Len(rows) - next.cursor
          BY <2>3, <4>3, <4>4
        <4> QED
          BY <3>1, <4>3, <4>5 DEF Ahead
      <3> QED
        BY <1>1, <3>1, <3>2, <3>3, <3>4
    <2> QED
      BY <2>4, <2>5, <2>6
  <1>8. open.ended = "no" /\ Covers(open, rows) /\ (Len(rows) = total \/ stale \/ open.start \cap ToSet(rows) = {})
          => Covers(next, rows)
    BY <1>7 DEF Covers
  <1> QED
    BY <1>5, <1>6, <1>8 DEF next, page, list

LEMMA RowIs ==
  ASSUME TypeInv, NEW r \in Requests, request[r].step \in Holding, NEW role \in {"user", "assistant"}, NEW cutoff \in Nat
  PROVE  LET row == Row(r, role, cutoff)
         IN /\ row \in LogRows /\ row.by = r /\ row.role = role /\ row.cutoff = cutoff
            /\ row.seq = request[r].seq /\ row.era = request[r].era
  <1>1. request[r].seq \in Nat \ {0} /\ request[r].era \in Nat /\ r \in Int
    BY RequestsAre DEF TypeInv, Shape
  <1> QED
    BY <1>1 DEF Row, LogRows

LEMMA NewRow ==
  ASSUME TypeInv, NEW r \in Requests, Asks(r) \/ Tells(r)
  PROVE  \E row \in LogRows : /\ log' = Append(log, row) /\ row.by = r /\ row.seq = request[r].seq /\ row.era = request[r].era
                              /\ request[r].step \in Holding
                              /\ Asks(r) => row = Row(r, "user", NoCutoff) /\ row.role = "user" /\ row.cutoff = NoCutoff
                              /\ Tells(r) => /\ row = Row(r, "assistant", request[r].cutoff)
                                             /\ row.role = "assistant" /\ row.cutoff = request[r].cutoff
                              /\ Asks(r) => request[r].step = "append"
                              /\ Tells(r) => request[r].step = "append_answer"
  <1>1. Asks(r) => request[r].step = "append"
    BY DEF Asks, AppendQuestion, Does
  <1>2. Tells(r) => request[r].step = "append_answer"
    BY DEF Tells, AppendAnswer, Does
  <1>3. request[r].step \in Holding
    BY <1>1, <1>2 DEF Holding
  <1>4. request[r].cutoff \in Nat /\ NoCutoff \in Nat
    BY DEF TypeInv, Shape, NoCutoff
  <1>5. CASE Asks(r)
    <2> DEFINE row == Row(r, "user", NoCutoff)
    <2>1. /\ row \in LogRows /\ row.by = r /\ row.role = "user" /\ row.cutoff = NoCutoff
          /\ row.seq = request[r].seq /\ row.era = request[r].era
      BY <1>3, <1>4, RowIs
    <2>2. log' = Append(log, row) /\ ~Tells(r)
      BY <1>1, <1>2, <1>5 DEF Asks
    <2> QED
      BY <1>1, <1>3, <2>1, <2>2
  <1>6. CASE Tells(r)
    <2> DEFINE row == Row(r, "assistant", request[r].cutoff)
    <2>1. /\ row \in LogRows /\ row.by = r /\ row.role = "assistant" /\ row.cutoff = request[r].cutoff
          /\ row.seq = request[r].seq /\ row.era = request[r].era
      BY <1>3, <1>4, RowIs
    <2>2. log' = Append(log, row) /\ ~Asks(r)
      BY <1>1, <1>2, <1>6 DEF Tells
    <2> QED
      BY <1>2, <1>3, <2>1, <2>2
  <1> QED
    BY <1>5, <1>6

LEMMA NewNote ==
  ASSUME TypeInv, NEW r \in Requests, Writes(r)
  PROVE  /\ Note(r) \in Notes /\ Note(r).by = r /\ Note(r).nth = request[r].calls /\ diary' = Append(diary, Note(r))
         /\ request[r].step = "tool"
  BY RequestsAre DEF Writes, Note, Notes, TypeInv, Shape, WriteDiary, Runs, Does

LEMMA ReadersStep ==
  ASSUME TypeInv, [Next]_vars
  PROVE  reading' = [r \in Requests |-> reading'[r]] /\ \A r \in Requests : Reader(reading'[r])
  <1>1. CASE reading' = reading
    BY <1>1 DEF TypeInv
  <1>2. CASE reading' = [r \in Requests |-> Unread]
    BY <1>2 DEF Reader, Unread, Readers
  <1>3. ASSUME NEW r \in Requests, ReadSteps(r)
        PROVE  \E next : reading' = [reading EXCEPT ![r] = next] /\ Reader(next)
    <2>1. PICK S : Rows(Opens(r).of) \in Seq(S)
      BY RowsAre
    <2>2. PICK T : Rows(reading[r].of) \in Seq(T)
      BY RowsAre
    <2>3. Reader(Opens(r)) /\ Reader(reading[r])
      BY OpensIs DEF TypeInv
    <2> DEFINE call  == request[r].call
               limit == ReadLimit(call.limit)
    <2>4. Runs(r, "read") \/ Does(r, "select") => limit \in Int
      <3>1. Runs(r, "read") \/ Does(r, "select") => call \in Calls /\ call.tool = "read"
        BY DEF Runs, Does, TypeInv, Shape
      <3> QED
        BY <3>1, LimitIs
    <2>5. CASE Count(r) /\ MoreCounted(r)
      <3> DEFINE open == Opens(r)
                 n    == Len(Rows(open.of))
                 next == [open EXCEPT !.total = n]
      <3>1. n \in Nat
        BY <2>1, LenProperties
      <3>2. Reader(next)
        <4> HIDE DEF open, n
        <4> QED
          BY <2>3, <3>1 DEF Reader, Readers, open
      <3> QED
        BY <2>5, <3>2 DEF MoreCounted
    <2>6. CASE Count(r) /\ AllCounted(r)
      <3> DEFINE open == Opens(r)
                 next == [open EXCEPT !.ended = "whole"]
      <3>1. Reader(next)
        <4> HIDE DEF open
        <4> QED
          BY <2>3 DEF Reader, Readers, open
      <3> QED
        BY <2>6, <3>1 DEF AllCounted
    <2>7. CASE Select(r) /\ Selected(r)
      <3> DEFINE open == reading[r]
                 rows == Rows(open.of)
                 next == Turned(open, Limited(Listed(rows, open.total, open.cursor, limit)), Len(rows) > open.total)
      <3>1. limit \in Int
        BY <2>4, <2>7 DEF Select
      <3>2. open.total \in Nat
        BY <2>3 DEF Reader
      <3> HIDE DEF limit
      <3>3. Reader(next)
        BY <2>2, <2>3, <3>1, <3>2, TurnedIs
      <3>4. reading' = [reading EXCEPT ![r] = next]
        BY <2>7 DEF Selected, Page, limit
      <3> QED
        BY <3>3, <3>4
    <2>8. CASE ReadPage(r) /\ PageRead(r)
      <3> DEFINE open == Opens(r)
                 rows == Rows(open.of)
                 next == Turned(open, Limited(Listed(rows, Len(rows), open.cursor, limit)), FALSE)
      <3>1. limit \in Int
        BY <2>4, <2>8 DEF ReadPage
      <3>2. Len(rows) \in Nat
        BY <2>1, LenProperties
      <3> HIDE DEF limit
      <3>3. Reader(next)
        BY <2>1, <2>3, <3>1, <3>2, TurnedIs
      <3>4. reading' = [reading EXCEPT ![r] = next]
        BY <2>8 DEF PageRead, Page, limit
      <3> QED
        BY <3>3, <3>4
    <2> QED
      BY <1>3, <2>5, <2>6, <2>7, <2>8 DEF ReadSteps
  <1>4. ASSUME NEW r \in Requests, ReadSteps(r)
        PROVE  reading' = [s \in Requests |-> reading'[s]] /\ \A s \in Requests : Reader(reading'[s])
    <2>1. PICK next : reading' = [reading EXCEPT ![r] = next] /\ Reader(next)
      BY <1>3, <1>4
    <2> QED
      BY <2>1 DEF TypeInv
  <1> QED
    BY <1>1, <1>2, <1>4, ReadingSteps

LEMMA TypeStep == ASSUME TypeInv, SettingsInv, [Next]_vars PROVE TypeInv'
  <1>1. causalSeq' \in Nat /\ era' \in Nat
    <2>1. \A r \in Requests : Number(r) => causalSeq' = causalSeq + 1 /\ era' = era
      BY DEF Number, NextSeq
    <2> QED
      BY <2>1, CounterSteps DEF TypeInv
  <1>2. clearing' \in {"none", "chat", "diary", "stats"}
    BY ClearingSteps
  <1>3. log' \in Seq(LogRows)
    <2>1. <<>> \in Seq(LogRows) /\ log \in Seq(LogRows)
      BY EmptySeq DEF TypeInv
    <2>2. ASSUME NEW r \in Requests, Asks(r) \/ Tells(r) PROVE log' \in Seq(LogRows)
      <3>1. PICK row \in LogRows : log' = Append(log, row)
        BY <2>2, NewRow, Zenon
      <3> QED
        BY <2>1, <3>1, AppendProperties
    <2> QED
      BY <2>1, <2>2, LogSteps
  <1>4. diary' \in Seq(Notes)
    <2>1. <<>> \in Seq(Notes) /\ diary \in Seq(Notes)
      BY EmptySeq DEF TypeInv
    <2>2. ASSUME NEW r \in Requests, Writes(r) PROVE diary' \in Seq(Notes)
      BY <2>1, <2>2, NewNote, AppendProperties
    <2> QED
      BY <2>1, <2>2, DiarySteps
  <1>5. request' = [r \in Requests |-> request'[r]] /\ \A r \in Requests : Shape(request'[r])
    BY AllMove DEF AllMoved, Moved
  <1>6. reading' = [r \in Requests |-> reading'[r]] /\ \A r \in Requests : Reader(reading'[r])
    BY ReadersStep
  <1>7. \A r \in Requests : Shape(request[r])' /\ Reader(reading[r])'
    BY <1>5, <1>6 DEF Shape, Reader
  <1> QED
    BY <1>1, <1>2, <1>3, <1>4, <1>5, <1>6, <1>7 DEF TypeInv

LEMMA InitTypes == ASSUME Init PROVE TypeInv
  <1>1. left \in Mixes /\ left.old \in Nat /\ left.notes \in Nat
    BY PipelineConstants DEF Init
  <1> DEFINE n == left.old
             m == left.notes
  <1>2. log = [i \in 1 .. n |-> OldRow(n + 1 - i)] /\ diary = [i \in 1 .. m |-> [by |-> -i, nth |-> 0]]
    BY DEF Init
  <1>3. n \in Nat /\ m \in Nat
    BY <1>1
  <1> HIDE DEF n, m
  <1>4. \A i \in 1 .. n : OldRow(n + 1 - i) \in LogRows
    BY <1>3 DEF OldRow, LogRows, NoCutoff
  <1>5. \A i \in 1 .. m : [by |-> -i, nth |-> 0] \in Notes
    BY <1>3 DEF Notes
  <1>6. log \in Seq(LogRows) /\ diary \in Seq(Notes)
    BY <1>2, <1>3, <1>4, <1>5
  <1>7. Reader(Unread)
    BY DEF Reader, Unread, Readers
  <1> QED
    BY <1>6, <1>7, NobodyShape DEF Init, TypeInv

-----------------------------------------------------------------------------
(* What is stored: every row and note is of a handler that came so far.     *)

LEMMA EraGrows == ASSUME TypeInv, [Next]_vars PROVE era \in Nat /\ era' \in Nat /\ era <= era'
  <1>1. era \in Nat
    BY DEF TypeInv
  <1>2. era' = era \/ era' = era + 1
    BY CounterSteps DEF Number
  <1> QED
    BY <1>1, <1>2

LEMMA StoredStays == ASSUME TypeInv, AllMoved, era' \in Nat, era <= era', NEW row, Stored(row, request, era)
                     PROVE  Stored(row, request', era')
  <1>1. row \in LogRows /\ row.era \in Nat /\ row.era <= era /\ era \in Nat
    BY DEF Stored, LogRows, TypeInv
  <1>2. row.era <= era'
    BY <1>1
  <1>3. ASSUME row.by \in Requests, row.role = "user"
        PROVE  request'[row.by].step \notin Before /\ row.seq = request'[row.by].cutoff
    <2>1. request[row.by].step \notin Before /\ row.seq = request[row.by].cutoff /\ Moved(row.by)
      BY <1>3, Zenon DEF Stored, AllMoved
    <2> QED
      BY <2>1, Zenon DEF Moved
  <1>4. ASSUME row.role = "assistant"
        PROVE  request'[row.by].step = "done" /\ request'[row.by].told = "reply" /\ row.cutoff = request'[row.by].cutoff
    <2>1. row.by \in Requests
      BY <1>4 DEF Stored
    <2>2. request[row.by].step = "done" /\ request[row.by].told = "reply" /\ row.cutoff = request[row.by].cutoff /\ Moved(row.by)
      BY <1>4, <2>1, Zenon DEF Stored, AllMoved
    <2> QED
      BY <2>2, Zenon DEF Moved
  <1>5. /\ row.by \in Requests \/ (row.by < 0 /\ row.role = "user")
        /\ row.role = "user" => row.cutoff = NoCutoff
    BY Zenon DEF Stored
  <1> QED
    BY <1>1, <1>2, <1>3, <1>4, <1>5, Zenon DEF Stored

LEMMA KeptStays == ASSUME TypeInv, AllMoved, NEW note, Kept(note, request) PROVE Kept(note, request')
  <1>1. note \in Notes /\ note.nth \in Nat /\ (note.by \in Requests \/ note.by < 0)
    BY DEF Kept, Notes
  <1>2. ASSUME note.by \in Requests
        PROVE  note.nth <= request'[note.by].calls /\ (request'[note.by].step = "tool" => note.nth # request'[note.by].calls)
    <2> DEFINE q == request[note.by]
               u == request'[note.by]
    <2>1. note.nth <= q.calls /\ (q.step = "tool" => note.nth # q.calls) /\ Moved(note.by)
      BY <1>2, Zenon DEF Kept, AllMoved
    <2>2. u.calls >= q.calls /\ (u.step = "tool" => u = q \/ u.calls > q.calls) /\ Shape(u)
      BY <2>1, Zenon DEF Moved
    <2>3. u.calls \in Nat /\ q.calls \in Nat
      BY <1>2, <2>2 DEF TypeInv, Shape
    <2> DEFINE n == note.nth
               a == q.calls
               b == u.calls
    <2>4. n \in Nat /\ a \in Nat /\ b \in Nat /\ n <= a /\ b >= a
      BY <1>1, <2>1, <2>2, <2>3
    <2>5. u.step = "tool" => b > a \/ n # b
      BY <2>1, <2>2
    <2> HIDE DEF u, q, n, a, b
    <2>6. n <= b /\ (b > a => n # b)
      BY <2>4
    <2> QED
      BY <2>5, <2>6 DEF n, b, u
  <1> QED
    BY <1>1, <1>2, Zenon DEF Kept

(* What r asks or tells is stored after it came so far. *)
LEMMA AskedRow ==
  ASSUME TypeInv, NEW r \in Requests, Asks(r)
  PROVE  request'[r].step \notin Before /\ request'[r].cutoff = request[r].seq
  <1>1. Shape(request[r]) /\ request[r].step = "append" /\ Goes(r, Asked(request[r]))
    BY DEF Asks, AppendQuestion, Does, TypeInv
  <1>2. Asked(request[r]).step \in {"done", "chat"} /\ Asked(request[r]).cutoff = request[r].seq
    BY <1>1, AskedShape
  <1>3. request'[r] = Asked(request[r])
    BY <1>1, GoesTo
  <1> QED
    BY <1>2, <1>3 DEF Before

LEMMA ToldRow ==
  ASSUME TypeInv, NEW r \in Requests, Tells(r)
  PROVE  request'[r].step = "done" /\ request'[r].told = "reply" /\ request'[r].cutoff = request[r].cutoff
  <1>1. Shape(request[r]) /\ Goes(r, Replied(request[r]))
    BY DEF Tells, TypeInv
  <1>2. request'[r] = Replied(request[r])
    BY <1>1, GoesTo
  <1> QED
    BY <1>1, <1>2 DEF Replied, Shape, RequestFields

LEMMA LogStored == ASSUME TypeInv, StoreInv, SettingsInv, [Next]_vars PROVE \A i \in 1 .. Len(log') : Stored(log'[i], request', era')
  <1>1. AllMoved /\ era' \in Nat /\ era <= era' /\ log \in Seq(LogRows)
    BY AllMove, EraGrows DEF TypeInv
  <1>2. \A i \in 1 .. Len(log) : Stored(log[i], request', era')
    BY <1>1, StoredStays DEF StoreInv
  <1>3. CASE log' = log
    <2>1. ASSUME NEW i \in 1 .. Len(log') PROVE Stored(log[i], request', era')
      BY <1>2, <1>3
    <2>2. \A i \in 1 .. Len(log') : Stored(log'[i], request', era')
      BY <1>3, <2>1 DEF Stored
    <2> QED
      BY <2>2
  <1>4. CASE log' = <<>>
    <2>1. Len(log') = 0
      BY <1>4
    <2> QED
      BY <2>1
  <1>5. ASSUME NEW r \in Requests, Asks(r) \/ Tells(r) PROVE \A i \in 1 .. Len(log') : Stored(log'[i], request', era')
    <2>1. PICK row \in LogRows : /\ log' = Append(log, row) /\ row.by = r /\ row.seq = request[r].seq /\ row.era = request[r].era
                                 /\ Asks(r) => row.role = "user" /\ row.cutoff = NoCutoff
                                 /\ Tells(r) => row.role = "assistant" /\ row.cutoff = request[r].cutoff
      BY <1>5, NewRow
    <2>2. row.era <= era'
      <3>1. row.era <= era /\ row.era \in Nat /\ era \in Nat
        BY <2>1 DEF StoreInv, TypeInv, LogRows
      <3> QED
        BY <1>1, <3>1
    <2>3. Stored(row, request', era')
      <3>1. Asks(r) => request'[r].step \notin Before /\ request'[r].cutoff = request[r].seq
        BY AskedRow
      <3>2. Tells(r) => request'[r].step = "done" /\ request'[r].told = "reply" /\ request'[r].cutoff = request[r].cutoff
        BY ToldRow
      <3> QED
        BY <1>5, <2>1, <2>2, <3>1, <3>2 DEF Stored
    <2>4. /\ Len(log) \in Nat /\ Len(log') = Len(log) + 1 /\ log'[Len(log) + 1] = row
          /\ \A i \in 1 .. Len(log) : log'[i] = log[i]
      BY <1>1, <2>1, AppendProperties, LenProperties
    <2>5. ASSUME NEW i \in 1 .. Len(log') PROVE Stored(log'[i], request', era')
      <3>1. CASE i = Len(log) + 1
        <4>1. log'[i] = row
          BY <2>4, <3>1
        <4> QED
          BY <2>3, <4>1 DEF Stored
      <3>2. CASE i # Len(log) + 1
        <4>1. i \in 1 .. Len(log)
          BY <2>4, <3>2
        <4>2. log'[i] = log[i] /\ Stored(log[i], request', era')
          BY <1>2, <2>4, <4>1
        <4> QED
          BY <4>2 DEF Stored
      <3> QED
        BY <3>1, <3>2
    <2> QED
      BY <2>5
  <1> QED
    BY <1>3, <1>4, <1>5, LogSteps

LEMMA DiaryKept == ASSUME TypeInv, StoreInv, SettingsInv, [Next]_vars PROVE \A i \in 1 .. Len(diary') : Kept(diary'[i], request')
  <1>1. AllMoved /\ diary \in Seq(Notes)
    BY AllMove DEF TypeInv
  <1>2. \A i \in 1 .. Len(diary) : Kept(diary[i], request')
    BY <1>1, KeptStays DEF StoreInv
  <1>3. CASE diary' = diary
    <2>1. \A i \in 1 .. Len(diary') : Kept(diary'[i], request')
      BY <1>2, <1>3 DEF Kept
    <2> QED
      BY <2>1
  <1>4. CASE diary' = <<>>
    <2>1. Len(diary') = 0
      BY <1>4
    <2> QED
      BY <2>1
  <1>5. ASSUME NEW r \in Requests, Writes(r) PROVE \A i \in 1 .. Len(diary') : Kept(diary'[i], request')
    <2> DEFINE note == Note(r)
    <2>1. note \in Notes /\ note.by = r /\ note.nth = request[r].calls /\ diary' = Append(diary, note) /\ request[r].step = "tool"
      BY <1>5, NewNote
    <2> HIDE DEF note
    <2>2. Kept(note, request')
      <3>1. request'[r].step # "tool"
        BY <1>5, <2>1, ReturnedMoves DEF Writes, WriteDiary
      <3>2. request'[r].calls >= request[r].calls
        BY <1>1 DEF AllMoved, Moved
      <3>3. request'[r].calls \in Nat /\ request[r].calls \in Nat
        BY <1>1 DEF AllMoved, Moved, TypeInv, Shape
      <3>4. note.nth <= request'[r].calls
        BY <2>1, <3>2, <3>3
      <3> QED
        BY <2>1, <3>1, <3>4 DEF Kept
    <2>3. /\ Len(diary) \in Nat /\ Len(diary') = Len(diary) + 1 /\ diary'[Len(diary) + 1] = note
          /\ \A i \in 1 .. Len(diary) : diary'[i] = diary[i]
      BY <1>1, <2>1, AppendProperties, LenProperties
    <2>4. ASSUME NEW i \in 1 .. Len(diary') PROVE Kept(diary'[i], request')
      <3>1. CASE i = Len(diary) + 1
        <4>1. diary'[i] = note
          BY <2>3, <3>1
        <4> QED
          BY <2>2, <4>1 DEF Kept
      <3>2. CASE i # Len(diary) + 1
        <4>1. i \in 1 .. Len(diary)
          BY <2>3, <3>2
        <4>2. diary'[i] = diary[i] /\ Kept(diary[i], request')
          BY <1>2, <2>3, <4>1
        <4> QED
          BY <4>2 DEF Kept
      <3> QED
        BY <3>1, <3>2
    <2> QED
      BY <2>4
  <1> QED
    BY <1>3, <1>4, <1>5, DiarySteps

(* What a reader began with is in the log or the diary it reads, or was.    *)
Begun(open, of, now) == \A row \in open.start : IF open.of = "chat" THEN Stored(row, of, now) ELSE Kept(row, of)

LEMMA OpensBegun == ASSUME TypeInv, StoreInv, NEW r \in Requests PROVE Begun(Opens(r), request, era)
  <1> DEFINE open == Opens(r)
  <1>1. open = reading[r] \/ open.start = ToSet(Rows(open.of))
    BY OpensIs
  <1>2. CASE open = reading[r]
    BY <1>2 DEF StoreInv, Begun
  <1>3. CASE open.start = ToSet(Rows(open.of))
    <2>0. SUFFICES Begun(open, request, era)
      OBVIOUS
    <2>1. \A row \in ToSet(log) : Stored(row, request, era)
      BY ToSetIs DEF StoreInv, TypeInv
    <2>2. \A row \in ToSet(diary) : Kept(row, request)
      BY ToSetIs DEF StoreInv, TypeInv
    <2> HIDE DEF open
    <2>3. CASE open.of = "chat"
      <3>1. open.start = ToSet(log)
        BY <1>3, <2>3 DEF Rows
      <3> QED
        BY <2>1, <2>3, <3>1, Zenon DEF Begun
    <2>4. CASE open.of # "chat"
      <3>1. open.start = ToSet(diary)
        BY <1>3, <2>4 DEF Rows
      <3> QED
        BY <2>2, <2>4, <3>1, Zenon DEF Begun
    <2> QED
      BY <2>3, <2>4
  <1> QED
    BY <1>1, <1>2, <1>3

LEMMA BegunStays ==
  ASSUME TypeInv, AllMoved, era' \in Nat, era <= era', NEW open, Begun(open, request, era)
  PROVE  Begun(open, request', era')
  <1>1. ASSUME NEW row \in open.start PROVE IF open.of = "chat" THEN Stored(row, request', era') ELSE Kept(row, request')
    <2>1. CASE open.of = "chat"
      <3>1. Stored(row, request, era)
        BY <2>1, Zenon DEF Begun
      <3>2. Stored(row, request', era')
        BY <3>1, StoredStays
      <3> QED
        BY <2>1, <3>2
    <2>2. CASE open.of # "chat"
      <3>1. Kept(row, request)
        BY <2>2, Zenon DEF Begun
      <3>2. Kept(row, request')
        BY <3>1, KeptStays
      <3> QED
        BY <2>2, <3>2
    <2> QED
      BY <2>1, <2>2
  <1> QED
    BY <1>1, Zenon DEF Begun

LEMMA TurnedKeeps ==
  ASSUME NEW open, Reader(open), NEW page, NEW stale
  PROVE  Turned(open, page, stale).of = open.of /\ Turned(open, page, stale).start = open.start
  BY DEF Turned, Reader, Readers

(* Who read a page: what it has now, of what it had. *)
LEMMA ReaderGoesOn ==
  ASSUME TypeInv, NEW r \in Requests, ReadSteps(r)
  PROVE  \E open, next : /\ reading' = [reading EXCEPT ![r] = next]
                         /\ next.of = open.of /\ next.start = open.start
                         /\ open = Opens(r) \/ open = reading[r]
  <1>3. Reader(Opens(r)) /\ Reader(reading[r])
    BY OpensIs DEF TypeInv
  <1> DEFINE call  == request[r].call
             limit == ReadLimit(call.limit)
  <1>5. CASE Count(r) /\ MoreCounted(r)
    <2> DEFINE open == Opens(r)
               n    == Len(Rows(open.of))
               next == [open EXCEPT !.total = n]
    <2>1. reading' = [reading EXCEPT ![r] = next]
      BY <1>5 DEF MoreCounted
    <2>2. next.of = open.of /\ next.start = open.start
      <3> HIDE DEF open, n
      <3> QED
        BY <1>3 DEF Reader, Readers, open
    <2> HIDE DEF next
    <2> QED
      BY <2>1, <2>2
  <1>6. CASE Count(r) /\ AllCounted(r)
    <2> DEFINE open == Opens(r)
               next == [open EXCEPT !.ended = "whole"]
    <2>1. reading' = [reading EXCEPT ![r] = next]
      BY <1>6 DEF AllCounted
    <2>2. next.of = open.of /\ next.start = open.start
      <3> HIDE DEF open
      <3> QED
        BY <1>3 DEF Reader, Readers, open
    <2> HIDE DEF next
    <2> QED
      BY <2>1, <2>2
  <1>7. CASE Select(r) /\ Selected(r)
    <2> DEFINE open == reading[r]
               rows == Rows(open.of)
               next == Turned(open, Limited(Listed(rows, open.total, open.cursor, limit)), Len(rows) > open.total)
    <2> HIDE DEF limit
    <2>2. next.of = open.of /\ next.start = open.start
      BY <1>3, TurnedKeeps
    <2>3. reading' = [reading EXCEPT ![r] = next]
      BY <1>7 DEF Selected, Page, limit
    <2> HIDE DEF next
    <2> QED
      BY <2>2, <2>3
  <1>8. CASE ReadPage(r) /\ PageRead(r)
    <2> DEFINE open == Opens(r)
               rows == Rows(open.of)
               next == Turned(open, Limited(Listed(rows, Len(rows), open.cursor, limit)), FALSE)
    <2> HIDE DEF limit
    <2>3. next.of = open.of /\ next.start = open.start
      BY <1>3, TurnedKeeps
    <2>4. reading' = [reading EXCEPT ![r] = next]
      BY <1>8 DEF PageRead, Page, limit
    <2> HIDE DEF next
    <2> QED
      BY <2>3, <2>4
  <1> QED
    BY <1>5, <1>6, <1>7, <1>8 DEF ReadSteps

LEMMA StartStep ==
  ASSUME TypeInv, StoreInv, SettingsInv, [Next]_vars
  PROVE  \A r \in Requests : Begun(reading'[r], request', era')
  <1>1. AllMoved /\ era' \in Nat /\ era <= era'
    BY AllMove, EraGrows
  <1>2. \A r \in Requests : Begun(reading[r], request, era)
    BY DEF StoreInv, Begun
  <1>3. \A r \in Requests : Begun(reading[r], request', era')
    BY <1>1, <1>2, BegunStays
  <1>4. CASE reading' = reading
    BY <1>3, <1>4
  <1>5. CASE reading' = [r \in Requests |-> Unread]
    <2>1. Unread.start = {}
      BY DEF Unread
    <2>2. Begun(Unread, request', era')
      BY <2>1 DEF Begun
    <2> QED
      BY <1>5, <2>2
  <1>6. ASSUME NEW r \in Requests, ReadSteps(r) PROVE \A s \in Requests : Begun(reading'[s], request', era')
    <2>1. PICK open, next : /\ reading' = [reading EXCEPT ![r] = next]
                            /\ next.of = open.of /\ next.start = open.start
                            /\ open = Opens(r) \/ open = reading[r]
      BY <1>6, ReaderGoesOn
    <2>2. Begun(open, request, era)
      BY <1>2, <2>1, OpensBegun
    <2>3. Begun(open, request', era')
      BY <1>1, <2>2, BegunStays
    <2>4. Begun(next, request', era')
      BY <2>1, <2>3 DEF Begun
    <2>5. \A s \in Requests : reading'[s] = IF s = r THEN next ELSE reading[s]
      BY <2>1 DEF TypeInv
    <2> QED
      BY <1>3, <2>4, <2>5
  <1> QED
    BY <1>4, <1>5, <1>6, ReadingSteps

LEMMA StoreStep == ASSUME TypeInv, StoreInv, SettingsInv, [Next]_vars PROVE StoreInv'
  <1>1. ASSUME NEW r \in Requests PROVE request'[r].era <= era'
    <2>1. Moved(r) /\ era' \in Nat /\ era <= era' /\ era \in Nat
      BY AllMove, EraGrows DEF AllMoved
    <2>2. request'[r].era = request[r].era \/ request'[r].era = era
      BY <2>1 DEF Moved
    <2>3. request[r].era <= era /\ request[r].era \in Nat
      BY DEF StoreInv, TypeInv, Shape
    <2> QED
      BY <2>1, <2>2, <2>3
  <1>2. \A i \in 1 .. Len(log') : Stored(log'[i], request', era')
    BY LogStored
  <1>3. \A i \in 1 .. Len(diary') : Kept(diary'[i], request')
    BY DiaryKept
  <1>4. \A r \in Requests : Begun(reading'[r], request', era')
    BY StartStep
  <1> QED
    BY <1>1, <1>2, <1>3, <1>4 DEF StoreInv, Begun

LEMMA InitStore == ASSUME Init PROVE StoreInv
  <1>1. left \in Mixes /\ left.old \in Nat /\ left.notes \in Nat /\ era = 1
    BY PipelineConstants DEF Init
  <1> DEFINE n == left.old
             m == left.notes
  <1>2. log = [i \in 1 .. n |-> OldRow(n + 1 - i)] /\ diary = [i \in 1 .. m |-> [by |-> -i, nth |-> 0]]
    BY DEF Init
  <1>3. n \in Nat /\ m \in Nat
    BY <1>1
  <1> HIDE DEF n, m
  <1>4. Len(log) = n /\ Len(diary) = m
    BY <1>2, <1>3
  <1>5. ASSUME NEW k \in 1 .. n PROVE Stored(OldRow(k), request, era)
    <2>1. k \in Nat /\ k # 0 /\ -k \in Int /\ -k < 0 /\ -k \notin Requests
      BY <1>3, RequestsAre
    <2> QED
      BY <1>1, <2>1 DEF Stored, OldRow, LogRows, NoCutoff
  <1>6. ASSUME NEW k \in 1 .. m PROVE Kept([by |-> -k, nth |-> 0], request)
    <2>1. k \in Nat /\ k # 0 /\ -k \in Int /\ -k < 0 /\ -k \notin Requests
      BY <1>3, RequestsAre
    <2> QED
      BY <2>1 DEF Kept, Notes
  <1>7. \A i \in 1 .. n : n + 1 - i \in 1 .. n
    BY <1>3
  <1>8. \A i \in 1 .. n : Stored(log[i], request, era)
    BY <1>2, <1>5, <1>7
  <1>9. \A i \in 1 .. m : Kept(diary[i], request)
    BY <1>2, <1>6
  <1>10. \A r \in Requests : request[r].era = 0 /\ reading[r].start = {}
    BY NobodyShape DEF Init, Unread
  <1> QED
    BY <1>1, <1>4, <1>8, <1>9, <1>10 DEF StoreInv

-----------------------------------------------------------------------------
(* Numbers: who takes one takes a new one, and keeps it until it is stored. *)

LEMMA HoldersStay ==
  ASSUME TypeInv, SettingsInv, [Next]_vars, NEW r \in Requests, Holds(r)', ~Number(r)
  PROVE  Holds(r) /\ request'[r] = request[r]
  <1>1. Moved(r) /\ request'[r].step \in Holding
    BY AllMove DEF AllMoved, Holds
  <1>2. request'[r] = request[r]
    BY <1>1, Zenon DEF Moved
  <1> QED
    BY <1>1, <1>2 DEF Holds

LEMMA NumberTaken ==
  ASSUME TypeInv, StoreInv, NumberInv, SettingsInv, [Next]_vars, NEW p \in Requests, Number(p)
  PROVE  NumberInv'
  <1> DEFINE c == causalSeq
  <1>1. /\ log' = log /\ era' = era /\ causalSeq' = c + 1
        /\ request'[p].seq = c + 1 /\ request'[p].era = era
        /\ \A s \in Requests \ {p} : request'[s] = request[s]
    <2> DEFINE q == request[p]
               u == [q EXCEPT !.seq = causalSeq', !.era = era, !.step = IF q.step = "number" THEN "append" ELSE "append_answer"]
    <2>1. log' = log /\ era' = era /\ causalSeq' = c + 1 /\ Goes(p, u)
      BY DEF Number, NextSeq
    <2>2. request'[p] = u /\ \A s \in Requests \ {p} : request'[s] = request[s]
      <3> HIDE DEF u
      <3> QED
        BY <2>1, GoesTo
    <2>3. u.seq = causalSeq' /\ u.era = era
      BY DEF TypeInv, Shape, RequestFields
    <2> HIDE DEF u
    <2> QED
      BY <2>1, <2>2, <2>3
  <1>2. /\ \A s \in Requests \ {p} : Holds(s)' => Holds(s) /\ (s # p)
        /\ c \in Nat /\ era \in Nat
    BY <1>1 DEF Holds, TypeInv
  <1>3. ASSUME NEW i \in 1 .. Len(log), NEW j \in 1 .. Len(log), i # j, log[i].era = log[j].era PROVE log[i].seq # log[j].seq
    BY <1>3, Zenon DEF NumberInv
  <1>4. ASSUME NEW i \in 1 .. Len(log), log[i].era = era PROVE log[i].seq \in Nat /\ log[i].seq <= c
    <2>1. log[i] \in LogRows
      BY ElementOfSeq DEF TypeInv
    <2>2. log[i].seq \in Nat
      BY <2>1 DEF LogRows
    <2>3. log[i].seq <= c
      BY <1>4, Zenon DEF NumberInv
    <2> QED
      BY <2>2, <2>3
  <1>5. ASSUME NEW s \in Requests \ {p}, Holds(s)', request[s].era = era PROVE request[s].seq \in Nat /\ request[s].seq <= c
    <2>1. Holds(s)
      BY <1>2, <1>5
    <2> QED
      BY <1>5, <2>1 DEF NumberInv, TypeInv, Shape
  <1> HIDE DEF c
  <1>6. ASSUME NEW i \in 1 .. Len(log), log[i].era = era PROVE log[i].seq <= c + 1 /\ log[i].seq # c + 1
    BY <1>2, <1>4, <1>6
  <1>7. ASSUME NEW s \in Requests, Holds(s)', request'[s].era = era PROVE request'[s].seq <= c + 1
    BY <1>1, <1>2, <1>5, <1>7
  <1>8. ASSUME NEW s \in Requests, Holds(s)', NEW i \in 1 .. Len(log), log[i].era = request'[s].era PROVE log[i].seq # request'[s].seq
    <2>1. CASE s = p
      BY <1>1, <1>6, <1>8, <2>1
    <2>2. CASE s # p
      <3>1. Holds(s) /\ request'[s] = request[s]
        BY <1>1, <1>2, <1>8, <2>2
      <3> QED
        BY <1>8, <3>1, Zenon DEF NumberInv
    <2> QED
      BY <2>1, <2>2
  <1>9. ASSUME NEW s \in Requests, NEW t \in Requests, Holds(s)', Holds(t)', s # t, request'[s].era = request'[t].era
        PROVE  request'[s].seq # request'[t].seq
    <2>1. CASE s = p
      <3>1. t # p /\ request'[t] = request[t] /\ request[t].era = era
        BY <1>1, <1>9, <2>1
      <3>2. request[t].seq \in Nat /\ request[t].seq <= c
        BY <1>5, <1>9, <3>1
      <3> QED
        BY <1>1, <1>2, <2>1, <3>1, <3>2
    <2>2. CASE t = p
      <3>1. s # p /\ request'[s] = request[s] /\ request[s].era = era
        BY <1>1, <1>9, <2>2
      <3>2. request[s].seq \in Nat /\ request[s].seq <= c
        BY <1>5, <1>9, <3>1
      <3> QED
        BY <1>1, <1>2, <2>2, <3>1, <3>2
    <2>3. CASE s # p /\ t # p
      <3>1. Holds(s) /\ Holds(t) /\ request'[s] = request[s] /\ request'[t] = request[t]
        BY <1>1, <1>2, <1>9, <2>3
      <3> QED
        BY <1>9, <3>1, Zenon DEF NumberInv
    <2> QED
      BY <2>1, <2>2, <2>3
  <1>10. \A i, j \in 1 .. Len(log') : i # j /\ log'[i].era = log'[j].era => log'[i].seq # log'[j].seq
    BY <1>1, <1>3
  <1>11. \A i \in 1 .. Len(log') : log'[i].era = era' => log'[i].seq <= causalSeq'
    BY <1>1, <1>6
  <1>12. \A r \in Requests : Holds(r)' /\ request'[r].era = era' => request'[r].seq <= causalSeq'
    BY <1>1, <1>7
  <1>13. \A r \in Requests : Holds(r)' => \A i \in 1 .. Len(log') : log'[i].era = request'[r].era => log'[i].seq # request'[r].seq
    BY <1>1, <1>8
  <1>14. \A r, s \in Requests : Holds(r)' /\ Holds(s)' /\ r # s /\ request'[r].era = request'[s].era
           => request'[r].seq # request'[s].seq
    BY <1>9
  <1> QED
    BY <1>10, <1>11, <1>12, <1>13, <1>14, Zenon DEF NumberInv

LEMMA RowNumbered ==
  ASSUME TypeInv, StoreInv, NumberInv, SettingsInv, [Next]_vars, \A r \in Requests : ~Number(r),
         NEW p \in Requests, Asks(p) \/ Tells(p)
  PROVE  NumberInv'
  <1> DEFINE n == Len(log)
  <1>1. PICK row \in LogRows : /\ log' = Append(log, row) /\ row.by = p /\ row.seq = request[p].seq /\ row.era = request[p].era
                               /\ request[p].step \in Holding
    BY NewRow
  <1>2. n \in Nat /\ Len(log') = n + 1 /\ log'[n + 1] = row /\ \A i \in 1 .. n : log'[i] = log[i]
    BY <1>1, AppendProperties, LenProperties DEF TypeInv
  <1>3. causalSeq' = causalSeq /\ era' = era
    BY DEF Asks, Tells, AppendQuestion, AppendAnswer
  <1>4. ~Holds(p)' /\ Holds(p)
    <2>1. Asks(p) => request'[p].step \notin Before
      BY AskedRow
    <2>2. Asks(p) => request'[p].step \in {"done", "chat"}
      <3>1. Asks(p) => request'[p] = Asked(request[p]) /\ Shape(request[p]) /\ request[p].step = "append"
        BY GoesTo DEF Asks, AppendQuestion, Does, TypeInv
      <3> QED
        BY <3>1, AskedShape
    <2>3. Tells(p) => request'[p].step = "done"
      BY ToldRow
    <2> QED
      BY <1>1, <2>2, <2>3 DEF Holds, Holding
  <1>5. \A s \in Requests : Holds(s)' => s # p /\ Holds(s) /\ request'[s] = request[s]
    BY <1>4, HoldersStay
  <1> HIDE DEF n
  <1>6. \A i \in 1 .. n + 1 : i \in 1 .. n \/ i = n + 1
    BY <1>2
  <1>7. \A i \in 1 .. n : log[i].era = row.era => log[i].seq # row.seq
    BY <1>1, <1>4, Zenon DEF NumberInv, n
  <1>8. \A i, j \in 1 .. n : i # j /\ log[i].era = log[j].era => log[i].seq # log[j].seq
    BY Zenon DEF NumberInv, n
  <1>9. \A i \in 1 .. n : log[i].era = era => log[i].seq <= causalSeq
    BY Zenon DEF NumberInv, n
  <1>10. row.era = era => row.seq <= causalSeq
    BY <1>1, <1>4, Zenon DEF NumberInv
  <1>11. \A i, j \in 1 .. n + 1 : i # j /\ log'[i].era = log'[j].era => log'[i].seq # log'[j].seq
    <2>1. SUFFICES ASSUME NEW i \in 1 .. n + 1, NEW j \in 1 .. n + 1, i # j, log'[i].era = log'[j].era PROVE log'[i].seq # log'[j].seq
      OBVIOUS
    <2>2. CASE i = n + 1
      <3>1. j \in 1 .. n
        BY <1>6, <2>1, <2>2
      <3> QED
        BY <1>2, <1>7, <2>1, <2>2, <3>1
    <2>3. CASE j = n + 1
      <3>1. i \in 1 .. n
        BY <1>6, <2>1, <2>3
      <3> QED
        BY <1>2, <1>7, <2>1, <2>3, <3>1
    <2>4. CASE i # n + 1 /\ j # n + 1
      <3>1. i \in 1 .. n /\ j \in 1 .. n
        BY <1>6, <2>4
      <3> QED
        BY <1>2, <1>8, <2>1, <3>1
    <2> QED
      BY <2>2, <2>3, <2>4
  <1>12. \A i \in 1 .. n + 1 : log'[i].era = era => log'[i].seq <= causalSeq
    BY <1>2, <1>6, <1>9, <1>10
  <1>13. ASSUME NEW s \in Requests, Holds(s)', request'[s].era = era PROVE request'[s].seq <= causalSeq
    <2>1. Holds(s) /\ request'[s] = request[s]
      BY <1>5, <1>13
    <2> QED
      BY <1>13, <2>1, Zenon DEF NumberInv
  <1>14. ASSUME NEW s \in Requests, Holds(s)', NEW i \in 1 .. n + 1, log'[i].era = request'[s].era
        PROVE  log'[i].seq # request'[s].seq
    <2>1. s # p /\ Holds(s) /\ request'[s] = request[s]
      BY <1>5, <1>14
    <2>2. CASE i = n + 1
      <3>1. row.seq # request[s].seq
        <4>1. request[p].era = request[s].era
          BY <1>1, <1>2, <1>14, <2>1, <2>2
        <4>2. request[p].seq # request[s].seq
          BY <1>4, <2>1, <4>1, Zenon DEF NumberInv
        <4> QED
          BY <1>1, <4>2
      <3> QED
        BY <1>2, <2>1, <2>2, <3>1
    <2>3. CASE i # n + 1
      <3>1. i \in 1 .. n /\ log'[i] = log[i]
        BY <1>2, <1>6, <2>3
      <3> QED
        BY <1>14, <2>1, <3>1, Zenon DEF NumberInv, n
    <2> QED
      BY <2>2, <2>3
  <1>15. ASSUME NEW s \in Requests, NEW t \in Requests, Holds(s)', Holds(t)', s # t, request'[s].era = request'[t].era
         PROVE  request'[s].seq # request'[t].seq
    <2>1. Holds(s) /\ Holds(t) /\ request'[s] = request[s] /\ request'[t] = request[t]
      BY <1>5, <1>15
    <2> QED
      BY <1>15, <2>1, Zenon DEF NumberInv
  <1>16. \A i, j \in 1 .. Len(log') : i # j /\ log'[i].era = log'[j].era => log'[i].seq # log'[j].seq
    BY <1>2, <1>11
  <1>17. \A i \in 1 .. Len(log') : log'[i].era = era' => log'[i].seq <= causalSeq'
    BY <1>2, <1>3, <1>12
  <1>18. \A r \in Requests : Holds(r)' /\ request'[r].era = era' => request'[r].seq <= causalSeq'
    BY <1>3, <1>13
  <1>19. \A r \in Requests : Holds(r)' => \A i \in 1 .. Len(log') : log'[i].era = request'[r].era => log'[i].seq # request'[r].seq
    BY <1>2, <1>14
  <1>20. \A r, s \in Requests : Holds(r)' /\ Holds(s)' /\ r # s /\ request'[r].era = request'[s].era
           => request'[r].seq # request'[s].seq
    BY <1>15
  <1> QED
    BY <1>16, <1>17, <1>18, <1>19, <1>20, Zenon DEF NumberInv

(* No row and no request is of an era that begins. *)
LEMMA NumbersKept ==
  ASSUME TypeInv, StoreInv, NumberInv, SettingsInv, [Next]_vars, \A r \in Requests : ~Number(r), log' = log \/ log' = <<>>
  PROVE  NumberInv'
  <1>1. \A s \in Requests : Holds(s)' => Holds(s) /\ request'[s] = request[s]
    BY HoldersStay
  <1>2. \A i \in 1 .. Len(log') : i \in 1 .. Len(log) /\ log'[i] = log[i]
    <2>1. log' = <<>> => 1 .. Len(log') = {}
      OBVIOUS
    <2> QED
      BY <2>1
  <1>3. (causalSeq' = causalSeq /\ era' = era) \/ era' = era + 1
    BY CounterSteps
  <1>4. era \in Nat
    BY DEF TypeInv
  <1>5. ASSUME NEW i \in 1 .. Len(log), log[i].era = era' PROVE log[i].seq <= causalSeq'
    <2>1. log[i].era \in Nat /\ log[i].era <= era
      BY DEF StoreInv, Stored, LogRows
    <2>2. causalSeq' = causalSeq /\ era' = era
      BY <1>3, <1>4, <1>5, <2>1
    <2> QED
      BY <1>5, <2>2, Zenon DEF NumberInv
  <1>6. ASSUME NEW s \in Requests, Holds(s)', request'[s].era = era' PROVE request'[s].seq <= causalSeq'
    <2>1. Holds(s) /\ request'[s] = request[s]
      BY <1>1, <1>6
    <2>2. request[s].era \in Nat /\ request[s].era <= era
      BY DEF StoreInv, TypeInv, Shape
    <2>3. causalSeq' = causalSeq /\ era' = era
      BY <1>3, <1>4, <1>6, <2>1, <2>2
    <2> QED
      BY <1>6, <2>1, <2>3, Zenon DEF NumberInv
  <1>7. ASSUME NEW i \in 1 .. Len(log'), NEW j \in 1 .. Len(log'), i # j, log'[i].era = log'[j].era PROVE log'[i].seq # log'[j].seq
    <2>1. i \in 1 .. Len(log) /\ j \in 1 .. Len(log) /\ log'[i] = log[i] /\ log'[j] = log[j]
      BY <1>2
    <2> QED
      BY <1>7, <2>1, Zenon DEF NumberInv
  <1>8. ASSUME NEW s \in Requests, Holds(s)', NEW i \in 1 .. Len(log'), log'[i].era = request'[s].era
        PROVE  log'[i].seq # request'[s].seq
    <2>1. Holds(s) /\ request'[s] = request[s] /\ i \in 1 .. Len(log) /\ log'[i] = log[i]
      BY <1>1, <1>2, <1>8
    <2> QED
      BY <1>8, <2>1, Zenon DEF NumberInv
  <1>9. ASSUME NEW s \in Requests, NEW t \in Requests, Holds(s)', Holds(t)', s # t, request'[s].era = request'[t].era
        PROVE  request'[s].seq # request'[t].seq
    <2>1. Holds(s) /\ Holds(t) /\ request'[s] = request[s] /\ request'[t] = request[t]
      BY <1>1, <1>9
    <2> QED
      BY <1>9, <2>1, Zenon DEF NumberInv
  <1>10. \A i \in 1 .. Len(log') : log'[i].era = era' => log'[i].seq <= causalSeq'
    BY <1>2, <1>5
  <1> QED
    BY <1>6, <1>7, <1>8, <1>9, <1>10, Zenon DEF NumberInv

LEMMA NumberStep == ASSUME TypeInv, StoreInv, NumberInv, SettingsInv, [Next]_vars PROVE NumberInv'
  <1>1. CASE \E p \in Requests : Number(p)
    BY <1>1, NumberTaken
  <1>2. CASE ~ \E p \in Requests : Number(p)
    BY <1>2, LogSteps, RowNumbered, NumbersKept
  <1> QED
    BY <1>1, <1>2

LEMMA InitNumbers == ASSUME Init PROVE NumberInv
  <1>1. left \in Mixes /\ left.old \in Nat /\ era = 1
    BY PipelineConstants DEF Init
  <1> DEFINE n == left.old
  <1>2. log = [i \in 1 .. n |-> OldRow(n + 1 - i)]
    BY DEF Init
  <1>3. n \in Nat
    BY <1>1
  <1> HIDE DEF n
  <1>4. Len(log) = n
    BY <1>2, <1>3
  <1>5. \A i \in 1 .. n : log[i].era = 0 /\ log[i].seq = n + 1 - i
    BY <1>2 DEF OldRow
  <1>6. \A r \in Requests : ~Holds(r)
    BY NobodyShape DEF Init, Holds, Holding
  <1>7. \A i, j \in 1 .. n : i # j => n + 1 - i # n + 1 - j
    BY <1>3
  <1> QED
    BY <1>1, <1>4, <1>5, <1>6, <1>7 DEF NumberInv

-----------------------------------------------------------------------------
(* What became of a question, and what the model saw of it.                 *)

LEMMA OutcomeStep == ASSUME TypeInv, StoreInv, OutcomeInv, SettingsInv, [Next]_vars PROVE OutcomeInv'
  <1> SUFFICES ASSUME NEW r \in Requests, request'[r].kind = "ai", request'[r].told = "reply", ~request'[r].lost, HasRow(r, "user")'
               PROVE  HasRow(r, "assistant")'
    BY DEF OutcomeInv
  <1>1. Moved(r) /\ Shape(request[r]) /\ Shape(request'[r])
    BY AllMove DEF AllMoved, Moved, TypeInv
  <1>2. request'[r] = request[r] \/ AppendAnswer(r)
    BY <1>1, Zenon DEF Moved
  <1>3. log' # <<>>
    BY DEF HasRow
  <1>4. CASE request'[r] = request[r]
    <2>1. request[r].step = "done"
      BY <1>1, <1>4 DEF Shape
    <2>2. ASSUME NEW i \in 1 .. Len(log'), log'[i].by = r, log'[i].role = "user" PROVE HasRow(r, "user")
      <3>1. CASE log' = log
        BY <2>2, <3>1 DEF HasRow
      <3>2. ASSUME NEW p \in Requests, Asks(p) \/ Tells(p) PROVE HasRow(r, "user")
        <4>1. PICK row \in LogRows : /\ log' = Append(log, row) /\ row.by = p
                                     /\ Asks(p) => row.role = "user" /\ request[p].step = "append"
                                     /\ Tells(p) => row.role = "assistant"
          BY <3>2, NewRow
        <4>2. Len(log) \in Nat /\ Len(log') = Len(log) + 1 /\ log'[Len(log) + 1] = row /\ \A k \in 1 .. Len(log) : log'[k] = log[k]
          BY <4>1, AppendProperties, LenProperties DEF TypeInv
        <4>3. i # Len(log) + 1
          BY <2>1, <2>2, <3>2, <4>1, <4>2
        <4>4. i \in 1 .. Len(log) /\ log'[i] = log[i]
          BY <4>2, <4>3
        <4> QED
          BY <2>2, <4>4 DEF HasRow
      <3> QED
        BY <1>3, <3>1, <3>2, LogSteps
    <2>3. HasRow(r, "user")
      BY <2>2 DEF HasRow
    <2>4. PICK i \in 1 .. Len(log) : log[i].by = r /\ log[i].role = "assistant"
      BY <1>4, <2>3 DEF OutcomeInv, HasRow
    <2>5. i \in 1 .. Len(log') /\ log'[i] = log[i]
      <3>1. CASE log' = log
        BY <3>1
      <3>2. ASSUME NEW p \in Requests, Asks(p) \/ Tells(p) PROVE i \in 1 .. Len(log') /\ log'[i] = log[i]
        <4>1. PICK row \in LogRows : log' = Append(log, row)
          BY <3>2, NewRow
        <4>2. Len(log) \in Nat /\ Len(log') = Len(log) + 1 /\ \A k \in 1 .. Len(log) : log'[k] = log[k]
          BY <4>1, AppendProperties, LenProperties DEF TypeInv
        <4> QED
          BY <4>2
      <3> QED
        BY <1>3, <3>1, <3>2, LogSteps
    <2> QED
      BY <2>4, <2>5 DEF HasRow
  <1>5. CASE AppendAnswer(r)
    <2> DEFINE said == Replied(request[r])
               gone == [said EXCEPT !.lost = TRUE]
    <2>1. Tells(r) \/ Goes(r, gone)
      BY <1>5, Zenon DEF AppendAnswer, Tells, Replied, Cutoff
    <2>2. gone.lost
      BY <1>1 DEF Replied, Shape, RequestFields
    <2> HIDE DEF gone
    <2>3. Tells(r)
      BY <2>1, <2>2, GoesTo
    <2>4. PICK row \in LogRows : log' = Append(log, row) /\ row.by = r /\ row.role = "assistant"
      BY <2>3, NewRow
    <2>5. Len(log) \in Nat /\ Len(log') = Len(log) + 1 /\ log'[Len(log) + 1] = row
      BY <2>4, AppendProperties, LenProperties DEF TypeInv
    <2>6. Len(log) + 1 \in 1 .. Len(log')
      BY <2>5
    <2> QED
      BY <2>4, <2>5, <2>6 DEF HasRow
  <1> QED
    BY <1>2, <1>4, <1>5

LEMMA InitOutcome == ASSUME Init PROVE OutcomeInv
  BY NobodyShape DEF Init, OutcomeInv

LEMMA LeastOf ==
  ASSUME NEW I, I \subseteq Nat, I # {}
  PROVE  \E x \in I : \A y \in I : x <= y
  <1> DEFINE below == {pair \in Nat \X Nat : pair[1] < pair[2]}
  <1>1. IsWellFoundedOn(below, Nat)
    BY NatLessThanWellFounded, Zenon DEF OpToRel
  <1>2. \A x, y \in Nat : y < x => <<y, x>> \in below
    OBVIOUS
  <1> HIDE DEF below
  <1>3. PICK x \in I : \A y \in I : <<y, x>> \notin below
    BY <1>1, WFMin, Zenon
  <1>4. \A y \in I : x \in Nat /\ y \in Nat /\ ~(y < x)
    BY <1>2, <1>3
  <1> QED
    BY <1>4

(* The place a search finds: the first such row, 0 when there is none. *)
LEMMA PlaceIs ==
  ASSUME TypeInv, NEW r \in Requests
  PROVE  /\ QuestionOf(r) # 0 => QuestionOf(r) \in 1 .. Len(log) /\ log[QuestionOf(r)].by = r /\ log[QuestionOf(r)].role = "user"
         /\ QuestionOf(r) = 0 => ~HasRow(r, "user")
         /\ AnswerOf(r) # 0 => AnswerOf(r) \in 1 .. Len(log) /\ log[AnswerOf(r)].by = r /\ log[AnswerOf(r)].role = "assistant"
         /\ AnswerOf(r) = 0 => ~HasRow(r, "assistant")
  <1>1. Len(log) \in Nat
    BY LenProperties DEF TypeInv
  <1>2. ASSUME NEW I \in SUBSET (1 .. Len(log)), I # {}
        PROVE  Min(I) \in I
    <2>1. \E x \in I : \A y \in I : x <= y
      <3>1. I \in SUBSET Nat
        BY <1>1, <1>2
      <3> QED
        BY <1>2, <3>1, LeastOf
    <2> QED
      BY <2>1 DEF Min
  <1> DEFINE Q == {i \in 1 .. Len(log) : log[i].by = r /\ log[i].role = "user"}
             A == {i \in 1 .. Len(log) : log[i].by = r /\ log[i].role = "assistant"}
  <1>3. QuestionOf(r) = (IF Q # {} THEN Min(Q) ELSE 0) /\ AnswerOf(r) = (IF A # {} THEN Min(A) ELSE 0)
    BY DEF QuestionOf, AnswerOf, SelectInSeq
  <1>4. (Q # {} => Min(Q) \in Q) /\ (A # {} => Min(A) \in A)
    BY <1>2
  <1>5. (Q = {} <=> ~HasRow(r, "user")) /\ (A = {} <=> ~HasRow(r, "assistant"))
    BY DEF HasRow
  <1>6. \A i \in Q : i # 0 /\ i \in 1 .. Len(log) /\ log[i].by = r /\ log[i].role = "user"
    BY <1>1
  <1>7. \A i \in A : i # 0 /\ i \in 1 .. Len(log) /\ log[i].by = r /\ log[i].role = "assistant"
    BY <1>1
  <1> HIDE DEF Q, A
  <1> QED
    BY <1>3, <1>4, <1>5, <1>6, <1>7

LEMMA CharsNat == ASSUME NEW n \in Nat PROVE Chars(n) \in Nat
  <1>1. n * RowChars \in Nat
    BY HistoryConstants
  <1> QED
    BY <1>1 DEF Chars

(* The chat block is cut last: when it fits, it is whole.                   *)
LEMMA WholeWindow ==
  ASSUME NEW window \in Seq(LogRows), NEW notes \in Nat, NEW maxChars \in Int,
         maxChars <= 0 \/ maxChars >= Chars(Len(window))
  PROVE  SeenRows(window, notes, maxChars) = window
  <1> DEFINE n    == Len(window)
             chat == Chars(n)
             note == Chars(notes)
             all  == Blocks(window, notes)
             kept == KeptChat(all, maxChars)
             fits == {k \in 0 .. n : Chars(k) <= kept}
  <1>1. n \in Nat
    BY LenProperties
  <1>2. chat \in Nat /\ note \in Nat /\ MetaChars \in Nat
    BY <1>1, CharsNat, HistoryConstants
  <1>3. all.chat = chat /\ all.diary = note /\ all.meta = MetaChars
    BY DEF Blocks
  <1>4. kept = chat
    <2> HIDE DEF all, chat, note
    <2>1. CASE maxChars <= 0
      BY <1>3, <2>1 DEF KeptChat
    <2>2. CASE ~(maxChars <= 0)
      <3>1. maxChars >= chat
        BY <2>2 DEF chat
      <3> DEFINE over == Overflow(all, maxChars)
      <3>2. over = AtLeastZero(chat + note + MetaChars - maxChars)
        BY <1>3 DEF Overflow
      <3>3. over \in Int /\ over <= note + MetaChars
        BY <1>2, <3>1, <3>2 DEF AtLeastZero
      <3>4. kept = AtLeastZero(chat - AtLeastZero(AtLeastZero(over - MetaChars) - note))
        BY <1>3, <2>2 DEF KeptChat
      <3> HIDE DEF over
      <3>5. AtLeastZero(AtLeastZero(over - MetaChars) - note) = 0
        BY <1>2, <3>3 DEF AtLeastZero
      <3> HIDE DEF kept
      <3> QED
        BY <1>2, <3>4, <3>5 DEF AtLeastZero
    <2> QED
      BY <2>1, <2>2
  <1>5. Max(fits) = n
    <2>1. n \in fits
      BY <1>1, <1>2, <1>4
    <2>2. \A k \in fits : k \in Nat /\ k <= n
      BY <1>1
    <2> HIDE DEF fits, n
    <2>3. \E x \in fits : \A y \in fits : x >= y
      BY <1>1, <2>1, <2>2
    <2>4. \A x \in fits : (\A y \in fits : x >= y) => x = n
      BY <1>1, <2>1, <2>2
    <2> QED
      BY <2>3, <2>4 DEF Max
  <1>6. SeenRows(window, notes, maxChars) = SubSeq(window, 1, n)
    BY <1>5 DEF SeenRows
  <1>7. SubSeq(window, 1, n) = window
    <2>1. \A i \in 1 .. n : window[i] \in LogRows
      BY ElementOfSeq
    <2> HIDE DEF n
    <2>2. /\ SubSeq(window, 1, n) \in Seq(LogRows)
          /\ Len(SubSeq(window, 1, n)) = IF 1 <= n THEN n - 1 + 1 ELSE 0
          /\ \A i \in 1 .. n - 1 + 1 : SubSeq(window, 1, n)[i] = window[1 + i - 1]
      BY <1>1, <2>1, SubSeqProperties
    <2>3. Len(SubSeq(window, 1, n)) = n /\ \A i \in 1 .. n : SubSeq(window, 1, n)[i] = window[i]
      BY <1>1, <2>2
    <2> QED
      BY <2>2, <2>3, SeqEqual DEF n
  <1> QED
    BY <1>6, <1>7

(* The window of the log shows a row that is not too far back. *)
LEMMA WindowShows ==
  ASSUME TypeInv, NEW limit \in Nat \ {0}, NEW place \in 1 .. Len(log), ~(Len(log) - place >= limit)
  PROVE  LET window == Window(log, limit)
         IN window \in Seq(LogRows) /\ \E i \in DOMAIN window : window[i] = log[place]
  <1> DEFINE n      == Len(log)
             page   == Newest(log, limit, 0)
             window == Reverse(page)
             m      == Len(page)
             k      == n - place + 1
  <1>1. n \in Nat /\ log \in Seq(LogRows) /\ limit \in Int /\ 0 \in Nat /\ place \in Int /\ 1 <= place /\ place <= n
    BY LenProperties DEF TypeInv
  <1>2. Listed(log, n, 0, limit).page = page
    <2>1. ~(0 >= n) /\ ~(limit <= 0)
      BY <1>1
    <2> HIDE DEF n, page
    <2>2. Listed(log, n, 0, limit) = [page |-> Newest(log, limit, 0), next |-> NextCursor(0, Newest(log, limit, 0), n)]
      BY <2>1 DEF Listed
    <2> QED
      BY <2>2 DEF page
  <1>3. Window(log, limit) = window
    BY <1>2 DEF Window
  <1>4. page \in Seq(LogRows)
    BY <1>1, NewestIs, Zenon
  <1>5. m = IF 0 + 1 <= Least(0 + limit, n) THEN Least(0 + limit, n) - 0 ELSE 0
    BY <1>1, NewestIs
  <1>6. \A j \in 1 .. m : page[j] = log[n - 0 - j + 1]
    BY <1>1, NewestIs DEF Back
  <1>7. window \in Seq(LogRows) /\ Len(window) = m /\ \A i \in 1 .. m : window[i] = page[m - i + 1]
    BY <1>4, ReverseIs
  <1>8. DOMAIN window = 1 .. m
    BY <1>7, LenProperties
  <1> HIDE DEF n, page, window, m
  <1>9. limit > n - place
    BY <1>1 DEF n
  <1>10. m \in Nat /\ k \in 1 .. m /\ n - 0 - k + 1 = place /\ m - (m - k + 1) + 1 = k /\ m - k + 1 \in 1 .. m
    BY <1>1, <1>5, <1>9 DEF Least
  <1> HIDE DEF k
  <1>11. window[m - k + 1] = log[place]
    <2>1. window[m - k + 1] = page[k]
      BY <1>7, <1>10
    <2>2. page[k] = log[place]
      BY <1>6, <1>10
    <2> QED
      BY <2>1, <2>2
  <1> QED
    BY <1>3, <1>7, <1>8, <1>10, <1>11

LEMMA LimitNat == ASSUME NEW n \in Int PROVE Limit(n) \in Nat \ {0}
  BY PipelineConstants DEF Limit

LEMMA RestIs ==
  ASSUME TypeInv, NEW r \in Requests
  PROVE  Shows(r).chats \in Int /\ Shows(r).diaries \in Int /\ Shows(r).maxChars \in Int
  <1>1. request[r].rest \in Versions
    BY DEF TypeInv, Shape
  <1> QED
    BY <1>1, PipelineConstants DEF Shows

(* The log is read. *)
LEMMA ChatSeen ==
  ASSUME TypeInv, NEW r \in Requests, ReadChat(r), request'[r].step = "diary", ~request'[r].hidden
  PROVE  /\ Shown(r, request'[r].context) /\ request'[r].context \in Seq(LogRows)
         /\ Shows(r)'.maxChars <= 0 \/ Shows(r)'.maxChars >= Chars(Len(request'[r].context))
  <1> DEFINE q      == request[r]
             limit  == Limit(Shows(r).chats)
             window == Window(log, limit)
             place  == QuestionOf(r)
             size   == Shows(r).maxChars
             hidden == place = 0 \/ Len(log) - place >= limit \/ size \in 1 .. Chars(Len(window)) - 1
             u      == [q EXCEPT !.step = "diary", !.context = window, !.hidden = hidden]
  <1>1. Shape(q) /\ q.step = "chat"
    BY DEF TypeInv, ReadChat, Does
  <1>2. Goes(r, u) \/ Goes(r, Failed(q))
    BY Zenon DEF ReadChat
  <1>3. Failed(q).step # "diary"
    BY <1>1, FailedShape
  <1>4. request'[r] = u
    <2> HIDE DEF u
    <2> QED
      BY <1>2, <1>3, GoesTo
  <1>5. u.context = window /\ u.hidden = hidden /\ u.rest = q.rest
    BY <1>1 DEF Shape, RequestFields
  <1> HIDE DEF u
  <1>6. ~hidden
    BY <1>4, <1>5
  <1>7. limit \in Nat \ {0} /\ size \in Int
    BY RestIs, LimitNat
  <1> HIDE DEF limit, size
  <1>8. place \in 1 .. Len(log) /\ log[place].by = r /\ log[place].role = "user"
    BY <1>6, PlaceIs
  <1>9. window \in Seq(LogRows) /\ \E i \in DOMAIN window : window[i] = log[place]
    BY <1>6, <1>7, <1>8, WindowShows
  <1> HIDE DEF place
  <1>10. Chars(Len(window)) \in Nat
    BY <1>9, LenProperties, CharsNat
  <1> HIDE DEF window
  <1>11. size <= 0 \/ size >= Chars(Len(window))
    BY <1>6, <1>7, <1>10
  <1>12. Shown(r, window)
    BY <1>8, <1>9 DEF Shown
  <1>13. Shows(r)'.maxChars = size
    BY <1>4, <1>5 DEF Shows, size
  <1> QED
    BY <1>4, <1>5, <1>9, <1>11, <1>12, <1>13

(* The diary is read, and the context is cut. *)
LEMMA DiarySeen ==
  ASSUME TypeInv, SeenInv, NEW r \in Requests, ReadDiary(r), request'[r].step \in Asking, request[r].kind = "ai", ~request'[r].hidden
  PROVE  Shown(r, request'[r].context)
  <1> DEFINE q     == request[r]
             notes == Least(Len(diary), Limit(Shows(r).diaries))
             size  == Shows(r).maxChars
             seen  == SeenRows(q.context, notes, size)
             u     == [q EXCEPT !.step = "key", !.context = seen]
  <1>1. Shape(q) /\ q.step = "diary"
    BY DEF TypeInv, ReadDiary, Does
  <1>2. Goes(r, u) \/ Goes(r, Failed(q))
    BY Zenon DEF ReadDiary
  <1>3. Failed(q).step \notin Asking
    BY <1>1, FailedShape DEF Asking
  <1>4. request'[r] = u
    <2> HIDE DEF u
    <2> QED
      BY <1>2, <1>3, GoesTo
  <1>5. u.context = seen /\ u.hidden = q.hidden
    BY <1>1 DEF Shape, RequestFields
  <1> HIDE DEF u
  <1>6. Shown(r, q.context) /\ q.context \in Seq(LogRows) /\ (size <= 0 \/ size >= Chars(Len(q.context)))
    BY <1>1, <1>4, <1>5 DEF SeenInv
  <1>7. Len(diary) \in Nat /\ Limit(Shows(r).diaries) \in Nat /\ size \in Int
    BY LenProperties, RestIs, LimitNat DEF TypeInv
  <1>8. notes \in Nat
    BY <1>7 DEF Least
  <1> HIDE DEF notes, size
  <1>9. seen = q.context
    BY <1>6, <1>7, <1>8, WholeWindow
  <1> QED
    BY <1>4, <1>5, <1>6, <1>9

LEMMA SeenStep == ASSUME TypeInv, SeenInv, SettingsInv, [Next]_vars PROVE SeenInv'
  <1> SUFFICES ASSUME NEW r \in Requests, request'[r].kind = "ai", ~request'[r].hidden
               PROVE  /\ request'[r].step \in Asking => Shown(r, request'[r].context)
                      /\ request'[r].step = "diary" =>
                           /\ Shown(r, request'[r].context) /\ request'[r].context \in Seq(LogRows)
                           /\ Shows(r)'.maxChars <= 0 \/ Shows(r)'.maxChars >= Chars(Len(request'[r].context))
    BY Zenon DEF SeenInv, Shown
  <1> DEFINE q == request[r]
             u == request'[r]
  <1>1. Moved(r)
    BY AllMove DEF AllMoved
  <1>2. CASE u.step \in Asking
    <2>1. (q.step \in Asking /\ u.context = q.context /\ u.hidden = q.hidden) \/ ReadDiary(r)
      BY <1>1, <1>2, Zenon DEF Moved
    <2>2. q.step # "idle" => q.kind = "ai"
      BY <1>1 DEF Moved
    <2>3. CASE q.step \in Asking /\ u.context = q.context /\ u.hidden = q.hidden
      <3>1. q.kind = "ai" /\ ~q.hidden
        BY <2>2, <2>3 DEF Asking
      <3> QED
        BY <1>2, <2>3, <3>1 DEF SeenInv, Asking
    <2>4. CASE ReadDiary(r)
      <3>1. q.kind = "ai"
        BY <2>2, <2>4 DEF ReadDiary, Does
      <3> QED
        BY <1>2, <2>4, <3>1, DiarySeen DEF Asking
    <2> QED
      BY <2>1, <2>3, <2>4
  <1>3. CASE u.step = "diary"
    <2>1. u = q \/ ReadChat(r)
      BY <1>1, <1>3, Zenon DEF Moved
    <2>2. CASE u = q
      <3>1. Shows(r)' = Shows(r)
        BY <2>2 DEF Shows
      <3> QED
        BY <1>3, <2>2, <3>1 DEF SeenInv, Asking
    <2>3. CASE ReadChat(r)
      BY <1>3, <2>3, ChatSeen DEF Asking
    <2> QED
      BY <2>1, <2>2, <2>3
  <1> QED
    BY <1>2, <1>3

LEMMA InitSeen == ASSUME Init PROVE SeenInv
  BY NobodyShape DEF Init, SeenInv

-----------------------------------------------------------------------------
(* Pages: what a reader began with, it has seen or has ahead of it.         *)

(* A row that is stored now is not one that somebody began with. *)
LEMMA NewRowIsFresh ==
  ASSUME NEW r \in Requests, NEW row, row.by = r, row.role = "user" => request[r].step \in Before,
         row.role = "assistant" => request[r].step # "done", row.role \in {"user", "assistant"}
  PROVE  ~Stored(row, request, era)
  BY DEF Stored

LEMMA RowsChange ==
  ASSUME TypeInv, [Next]_vars, NEW open, Begun(open, request, era)
  PROVE  \/ Rows(open.of)' = Rows(open.of) \/ Rows(open.of)' = <<>>
         \/ \E row : Rows(open.of)' = Append(Rows(open.of), row) /\ row \notin open.start
                     /\ row \in (IF open.of = "chat" THEN LogRows ELSE Notes)
  <1>1. CASE open.of = "chat"
    <2>1. Rows(open.of) = log /\ Rows(open.of)' = log'
      BY <1>1 DEF Rows
    <2>2. ASSUME NEW r \in Requests, Asks(r) \/ Tells(r) PROVE \E row \in LogRows : log' = Append(log, row) /\ row \notin open.start
      <3>1. PICK row \in LogRows : /\ log' = Append(log, row) /\ row.by = r
                                   /\ Asks(r) => row.role = "user" /\ request[r].step = "append"
                                   /\ Tells(r) => row.role = "assistant" /\ request[r].step = "append_answer"
        BY <2>2, NewRow
      <3>2. ~Stored(row, request, era)
        BY <2>2, <3>1, NewRowIsFresh DEF Before
      <3>3. row \notin open.start
        BY <1>1, <3>2 DEF Begun
      <3> QED
        BY <3>1, <3>3
    <2> QED
      BY <1>1, <2>1, <2>2, LogSteps
  <1>2. CASE open.of # "chat"
    <2>1. Rows(open.of) = diary /\ Rows(open.of)' = diary'
      BY <1>2 DEF Rows
    <2>2. ASSUME NEW r \in Requests, Writes(r) PROVE \E row \in Notes : diary' = Append(diary, row) /\ row \notin open.start
      <3> DEFINE note == Note(r)
      <3>1. note \in Notes /\ note.by = r /\ note.nth = request[r].calls /\ diary' = Append(diary, note) /\ request[r].step = "tool"
        BY <2>2, NewNote
      <3> HIDE DEF note
      <3>2. ~Kept(note, request)
        BY <3>1 DEF Kept
      <3>3. note \notin open.start
        BY <1>2, <3>2 DEF Begun
      <3> QED
        BY <3>1, <3>3
    <2> QED
      BY <1>2, <2>1, <2>2, DiarySteps
  <1> QED
    BY <1>1, <1>2

LEMMA CoversStay ==
  ASSUME NEW S, NEW rows \in Seq(S), NEW next, NEW open, Reader(open),
         next = rows \/ next = <<>> \/ \E row \in S : next = Append(rows, row) /\ row \notin open.start
  PROVE  /\ Covers(open, rows) => Covers(open, next)
         /\ Len(rows) >= open.total \/ open.start \cap ToSet(rows) = {} => Len(next) >= open.total \/ open.start \cap ToSet(next) = {}
  <1>1. CASE next = rows
    BY <1>1
  <1>2. CASE next = <<>>
    <2>1. ToSet(next) = {}
      BY <1>2 DEF ToSet
    <2> QED
      BY <2>1 DEF Covers
  <1>3. ASSUME NEW row \in S, next = Append(rows, row), row \notin open.start
        PROVE  /\ Covers(open, rows) => Covers(open, next)
               /\ Len(rows) >= open.total \/ open.start \cap ToSet(rows) = {}
                  => Len(next) >= open.total \/ open.start \cap ToSet(next) = {}
    <2> DEFINE n == Len(rows)
    <2>1. /\ n \in Nat /\ next \in Seq(S) /\ Len(next) = n + 1 /\ next[n + 1] = row
          /\ \A i \in 1 .. n : next[i] = rows[i]
      BY <1>3, AppendProperties, LenProperties
    <2>2. ToSet(rows) = {rows[i] : i \in 1 .. n} /\ ToSet(next) = {next[i] : i \in 1 .. n + 1}
      BY <2>1, ToSetIs
    <2>3. Ahead(open, rows) = (IF open.ended = "whole" THEN {} ELSE {rows[i] : i \in 1 .. n - open.cursor})
          /\ Ahead(open, next) = (IF open.ended = "whole" THEN {} ELSE {next[i] : i \in 1 .. Len(next) - open.cursor})
      BY DEF Ahead
    <2>4. open.cursor \in Nat /\ open.total \in Nat
      BY DEF Reader
    <2> HIDE DEF n
    <2>5. \A i \in 1 .. n + 1 : i = n + 1 \/ i \in 1 .. n
      BY <2>1
    <2>6. open.start \cap ToSet(next) \subseteq open.start \cap ToSet(rows)
      BY <1>3, <2>1, <2>2, <2>5
    <2>7. Ahead(open, rows) \subseteq Ahead(open, next)
      <3> DEFINE c == open.cursor
                 m == Len(next)
      <3>1. c \in Nat /\ m = n + 1
        BY <2>1, <2>4
      <3>2. ASSUME NEW i \in 1 .. n - c PROVE i \in 1 .. m - c /\ next[i] = rows[i]
        <4> HIDE DEF c, m
        <4>1. i \in 1 .. m - c /\ i \in 1 .. n
          BY <2>1, <3>1
        <4> QED
          BY <2>1, <4>1
      <3> QED
        BY <2>3, <3>2
    <2>8. n >= open.total => Len(next) >= open.total
      BY <2>1, <2>4
    <2>9. Covers(open, rows) => Covers(open, next)
      BY <2>6, <2>7 DEF Covers
    <2> QED
      BY <2>6, <2>8, <2>9 DEF n
  <1> QED
    BY <1>1, <1>2, <1>3

(* The rows of one history, as a sequence of its kind of rows. *)
LEMMA RowsOf == ASSUME TypeInv, NEW of PROVE Rows(of) \in Seq(IF of = "chat" THEN LogRows ELSE Notes)
  BY DEF TypeInv, Rows

LEMMA OpensCovers == ASSUME TypeInv, PagesInv, NEW r \in Requests PROVE Covers(Opens(r), Rows(Opens(r).of))
  <1> DEFINE open == Opens(r)
             rows == Rows(open.of)
  <1>1. Reader(open) /\ open.ended = "no" /\ (open = reading[r] \/ (open.start = ToSet(rows) /\ open.shown = {} /\ open.cursor = 0))
    BY OpensIs
  <1>2. PICK S : rows \in Seq(S)
    BY RowsAre
  <1>3. CASE open = reading[r]
    BY <1>3 DEF PagesInv
  <1>4. CASE open.start = ToSet(rows) /\ open.cursor = 0
    <2>1. SUFFICES Covers(open, rows)
      OBVIOUS
    <2>2. ToSet(rows) = {rows[i] : i \in 1 .. Len(rows)} /\ Len(rows) \in Nat
      BY <1>2, ToSetIs, LenProperties
    <2> HIDE DEF open, rows
    <2>3. Ahead(open, rows) = {rows[i] : i \in 1 .. Len(rows)}
      BY <1>1, <1>4, <2>2 DEF Ahead
    <2> QED
      BY <1>4, <2>2, <2>3 DEF Covers
  <1> QED
    BY <1>1, <1>3, <1>4

(* The reader that goes on. *)
LEMMA PagesOfReader ==
  ASSUME TypeInv, PagesInv, NEW r \in Requests, ReadSteps(r)
  PROVE  \E next : /\ reading' = [reading EXCEPT ![r] = next]
                   /\ Covers(next, Rows(next.of))
                   /\ request'[r].step = "select" =>
                        next.ended = "no" /\ next.cursor < next.total /\ Len(Rows(next.of)) >= next.total
  <1>1. Reader(Opens(r)) /\ Opens(r).ended = "no" /\ Reader(reading[r]) /\ Covers(Opens(r), Rows(Opens(r).of))
    BY OpensIs, OpensCovers DEF TypeInv
  <1>2. PICK S : Rows(Opens(r).of) \in Seq(S)
    BY RowsAre
  <1>3. PICK T : Rows(reading[r].of) \in Seq(T)
    BY RowsAre
  <1> DEFINE call  == request[r].call
             limit == ReadLimit(call.limit)
  <1>4. Runs(r, "read") \/ Does(r, "select") => limit \in Int
    <2>1. Runs(r, "read") \/ Does(r, "select") => call \in Calls /\ call.tool = "read"
      BY DEF Runs, Does, TypeInv, Shape
    <2> QED
      BY <2>1, LimitIs
  <1>5. Returned(r) /\ (Count(r) \/ Select(r) \/ ReadPage(r)) => request'[r].step # "select"
    BY ReturnedMoves DEF Count, Select, ReadPage, Runs, Does
  <1>6. CASE Count(r) /\ MoreCounted(r)
    <2> DEFINE open == Opens(r)
               rows == Rows(open.of)
               n    == Len(rows)
               next == [open EXCEPT !.total = n]
    <2>1. reading' = [reading EXCEPT ![r] = next] /\ open.cursor < n
      BY <1>6 DEF MoreCounted
    <2>2. n \in Nat
      BY <1>2, LenProperties
    <2> HIDE DEF open, n
    <2>3. /\ next.of = open.of /\ next.start = open.start /\ next.shown = open.shown /\ next.cursor = open.cursor
          /\ next.broken = open.broken /\ next.ended = open.ended /\ next.total = n
      BY <1>1 DEF Reader, Readers, open
    <2>4. Covers(open, rows) /\ open.ended = "no"
      BY <1>1 DEF open
    <2> HIDE DEF next, rows
    <2>5. Covers(next, rows)
      BY <2>3, <2>4 DEF Covers, Ahead
    <2>6. Rows(next.of) = rows
      BY <2>3 DEF rows
    <2>7. Len(Rows(next.of)) >= next.total
      BY <2>2, <2>3, <2>6 DEF n
    <2> QED
      BY <2>1, <2>3, <2>4, <2>5, <2>6, <2>7
  <1>7. CASE Count(r) /\ AllCounted(r)
    <2> DEFINE open == Opens(r)
               rows == Rows(open.of)
               n    == Len(rows)
               next == [open EXCEPT !.ended = "whole"]
    <2>1. reading' = [reading EXCEPT ![r] = next] /\ ~(open.cursor < n) /\ request'[r].step # "select"
      BY <1>5, <1>7 DEF AllCounted
    <2>2. n \in Nat /\ open.cursor \in Nat
      BY <1>1, <1>2, LenProperties DEF Reader
    <2> HIDE DEF open, n
    <2>3. /\ next.of = open.of /\ next.start = open.start /\ next.shown = open.shown /\ next.cursor = open.cursor
          /\ next.broken = open.broken /\ next.ended = "whole"
      BY <1>1 DEF Reader, Readers, open
    <2>4. Covers(open, rows) /\ open.ended = "no"
      BY <1>1 DEF open
    <2> HIDE DEF next, rows
    <2>5. Ahead(open, rows) = {} /\ Ahead(next, rows) = {}
      <3>1. 1 .. n - open.cursor = {}
        BY <2>1, <2>2
      <3> QED
        BY <2>3, <2>4, <3>1 DEF Ahead, n
    <2>6. Covers(next, rows)
      BY <2>3, <2>4, <2>5 DEF Covers
    <2>7. Rows(next.of) = rows
      BY <2>3 DEF rows
    <2> QED
      BY <2>1, <2>6, <2>7
  <1>8. CASE Select(r) /\ Selected(r)
    <2> DEFINE open == reading[r]
               rows == Rows(open.of)
               stale == Len(rows) > open.total
               next == Turned(open, Limited(Listed(rows, open.total, open.cursor, limit)), stale)
    <2>1. limit \in Int /\ open.total \in Nat /\ request[r].step = "select"
      BY <1>1, <1>4, <1>8 DEF Select, Reader, Does
    <2>2. open.ended = "no" /\ Covers(open, rows) /\ (Len(rows) >= open.total \/ open.start \cap ToSet(rows) = {})
      BY <2>1 DEF PagesInv
    <2>3. Len(rows) \in Nat
      BY <1>3, LenProperties
    <2>4. Len(rows) = open.total \/ stale \/ open.start \cap ToSet(rows) = {}
      BY <2>1, <2>2, <2>3
    <2>5. reading' = [reading EXCEPT ![r] = next] /\ request'[r].step # "select"
      BY <1>5, <1>8 DEF Selected, Page, Select
    <2>6. Reader(open) /\ rows \in Seq(T)
      BY <1>1, <1>3
    <2> HIDE DEF limit, stale, open, rows
    <2>7. next.of = open.of /\ Covers(next, rows)
      <3>1. next.of = open.of
        BY <2>6, TurnedKeeps
      <3>2. Covers(next, rows)
        BY <2>1, <2>2, <2>4, <2>6, TurnedIs
      <3> QED
        BY <3>1, <3>2
    <2> HIDE DEF next
    <2>8. Rows(next.of) = rows
      BY <2>7 DEF rows
    <2> QED
      BY <2>5, <2>7, <2>8
  <1>9. CASE ReadPage(r) /\ PageRead(r)
    <2> DEFINE open == Opens(r)
               rows == Rows(open.of)
               n    == Len(rows)
               next == Turned(open, Limited(Listed(rows, n, open.cursor, limit)), FALSE)
    <2>1. limit \in Int
      BY <1>4, <1>9 DEF ReadPage
    <2>2. open.ended = "no" /\ Covers(open, rows) /\ Reader(open) /\ rows \in Seq(S)
      BY <1>1, <1>2
    <2>3. n \in Nat
      BY <1>2, LenProperties
    <2>4. reading' = [reading EXCEPT ![r] = next] /\ request'[r].step # "select"
      BY <1>5, <1>9 DEF PageRead, Page, ReadPage
    <2> HIDE DEF limit, open, rows
    <2>5. next.of = open.of /\ Covers(next, rows)
      <3>1. next.of = open.of
        BY <2>2, TurnedKeeps
      <3>2. Covers(next, rows)
        BY <2>1, <2>2, <2>3, TurnedIs
      <3> QED
        BY <3>1, <3>2
    <2> HIDE DEF next
    <2>6. Rows(next.of) = rows
      BY <2>5 DEF rows
    <2> QED
      BY <2>4, <2>5, <2>6
  <1> QED
    BY <1>6, <1>7, <1>8, <1>9 DEF ReadSteps

LEMMA PagesStep == ASSUME TypeInv, StoreInv, PagesInv, SettingsInv, [Next]_vars PROVE PagesInv'
  <1>1. AllMoved
    BY AllMove
  <1>2. ASSUME NEW r \in Requests, reading'[r] = reading[r], request'[r].step = "select" => request'[r] = request[r]
        PROVE  /\ Covers(reading'[r], Rows(reading[r].of)')
               /\ request'[r].step = "select" =>
                    /\ reading'[r].ended = "no" /\ reading'[r].cursor < reading'[r].total
                    /\ \/ Len(Rows(reading[r].of)') >= reading'[r].total
                       \/ reading'[r].start \cap ToSet(Rows(reading[r].of)') = {}
    <2> DEFINE open == reading[r]
               rows == Rows(open.of)
               next == IF open.of = "chat" THEN log' ELSE diary'
               S    == IF open.of = "chat" THEN LogRows ELSE Notes
    <2>1. Begun(open, request, era) /\ Reader(open) /\ rows \in Seq(S)
      BY RowsOf DEF StoreInv, Begun, TypeInv
    <2>2. next = rows \/ next = <<>> \/ \E row \in S : next = Append(rows, row) /\ row \notin open.start
      <3>1. PICK this : this = open
        OBVIOUS
      <3>2. Rows(this.of)' = (IF this.of = "chat" THEN log' ELSE diary')
        BY DEF Rows
      <3> HIDE DEF open
      <3>3. \/ Rows(this.of)' = Rows(this.of) \/ Rows(this.of)' = <<>>
            \/ \E row : Rows(this.of)' = Append(Rows(this.of), row) /\ row \notin this.start
                        /\ row \in (IF this.of = "chat" THEN LogRows ELSE Notes)
        BY <2>1, <3>1, RowsChange
      <3> QED
        BY <3>1, <3>2, <3>3
    <2>3. /\ Covers(open, rows)
          /\ request[r].step = "select" =>
               /\ open.ended = "no" /\ open.cursor < open.total
               /\ Len(rows) >= open.total \/ open.start \cap ToSet(rows) = {}
      BY DEF PagesInv
    <2>4. Rows(reading[r].of)' = next /\ reading'[r] = open
      BY <1>2 DEF Rows
    <2> HIDE DEF open, rows, next, S
    <2>5. /\ Covers(open, next)
          /\ Len(rows) >= open.total \/ open.start \cap ToSet(rows) = {} => Len(next) >= open.total \/ open.start \cap ToSet(next) = {}
      BY <2>1, <2>2, <2>3, CoversStay
    <2> QED
      BY <1>2, <2>3, <2>4, <2>5
  <1>3. ASSUME NEW p \in Requests, ReadSteps(p) PROVE PagesInv'
    <2>1. log' = log /\ diary' = diary
      BY <1>3 DEF ReadSteps, Count, Select, ReadPage, history
    <2>2. PICK next : /\ reading' = [reading EXCEPT ![p] = next]
                      /\ Covers(next, Rows(next.of))
                      /\ request'[p].step = "select" =>
                           next.ended = "no" /\ next.cursor < next.total /\ Len(Rows(next.of)) >= next.total
      BY <1>3, PagesOfReader
    <2>3. \A of : Rows(of)' = Rows(of)
      BY <2>1 DEF Rows
    <2>4. reading'[p] = next /\ \A r \in Requests \ {p} : reading'[r] = reading[r]
      BY <2>2 DEF TypeInv
    <2>5. \A r \in Requests \ {p} : request'[r] = request[r]
      <3>1. PICK u : Goes(p, u)
        BY <1>3, Zenon DEF ReadSteps, MoreCounted, AllCounted, Select, ReadPage, Returned
      <3> QED
        BY <3>1, GoesTo
    <2>6. \A r \in Requests : Rows(reading[r].of)' = Rows(reading'[r].of)
      BY <2>1 DEF Rows
    <2>7. ASSUME NEW r \in Requests
          PROVE  /\ Covers(reading'[r], Rows(reading'[r].of))
                 /\ request'[r].step = "select" =>
                      /\ reading'[r].ended = "no" /\ reading'[r].cursor < reading'[r].total
                      /\ \/ Len(Rows(reading'[r].of)) >= reading'[r].total
                         \/ reading'[r].start \cap ToSet(Rows(reading'[r].of)) = {}
      <3>1. CASE r = p
        BY <2>2, <2>4, <3>1
      <3>2. CASE r # p
        <4>1. reading'[r] = reading[r] /\ request'[r] = request[r]
          BY <2>4, <2>5, <3>2
        <4> QED
          BY <4>1, Zenon DEF PagesInv
      <3> QED
        BY <3>1, <3>2
    <2>8. \A r \in Requests : Covers(reading[r], Rows(reading[r].of))'
      BY <2>6, <2>7 DEF Covers, Ahead
    <2> QED
      BY <2>6, <2>7, <2>8 DEF PagesInv
  <1>4. CASE Restart
    <2>1. \A r \in Requests : reading'[r] = Unread /\ request'[r] = Stopped(request[r])
      BY <1>4 DEF Restart
    <2>2. \A r \in Requests : request'[r].step # "select"
      BY <2>1 DEF Stopped, TypeInv, Shape, RequestFields
    <2>3. \A r \in Requests : Covers(reading[r], Rows(reading[r].of))'
      BY <2>1 DEF Covers, Unread
    <2> QED
      BY <2>2, <2>3 DEF PagesInv
  <1>5. CASE reading' = reading /\ ~ \E p \in Requests : ReadSteps(p)
    <2>1. ASSUME NEW r \in Requests, request'[r].step = "select" PROVE request'[r] = request[r]
      <3>1. request'[r] = request[r] \/ Count(r)
        BY <1>1, <2>1, Zenon DEF AllMoved, Moved
      <3>2. CASE Count(r)
        <4>1. MoreCounted(r) \/ AllCounted(r) \/ Returned(r)
          BY <3>2, Zenon DEF Count, MoreCounted, AllCounted, Opens
        <4>2. Returned(r)
          BY <1>5, <3>2, <4>1, Zenon DEF ReadSteps
        <4>3. request[r].step = "tool"
          BY <3>2 DEF Count, Runs, Does
        <4> QED
          BY <2>1, <4>2, <4>3, ReturnedMoves
      <3> QED
        BY <3>1, <3>2
    <2>2. \A r \in Requests : Covers(reading[r], Rows(reading[r].of))'
      BY <1>2, <1>5, <2>1 DEF Covers, Ahead, Rows
    <2> QED
      BY <1>2, <1>5, <2>1, <2>2 DEF PagesInv, Rows
  <1> QED
    BY <1>3, <1>4, <1>5, ReadingSteps

LEMMA InitPages == ASSUME Init PROVE PagesInv
  BY NobodyShape DEF Init, PagesInv, Covers, Unread

-----------------------------------------------------------------------------
(* The theorems. *)

ReplyInv == SettingsInv /\ TypeInv /\ StoreInv /\ NumberInv /\ OutcomeInv /\ SeenInv /\ PagesInv

LEMMA InitReplies == ASSUME Init PROVE ReplyInv
  <1>1. SettingsInv
    BY InitSettings, PipelineConstants DEF Init
  <1> QED
    BY <1>1, InitTypes, InitStore, InitNumbers, InitOutcome, InitSeen, InitPages DEF ReplyInv

LEMMA ReplyStep == ASSUME ReplyInv, [Next]_vars PROVE ReplyInv'
  BY SettingsStep, TypeStep, StoreStep, NumberStep, OutcomeStep, SeenStep, PagesStep DEF ReplyInv

LEMMA BudgetsFit == ASSUME NEW v \in Versions PROVE ThinkingSent(Configs[v].thinking).budget \in {0} \cup (MinBudget .. MaxTokens - 1)
  <1> DEFINE raw == Configs[v].thinking
             b   == raw.budget
             all == MinBudget .. MaxTokens - 1
  <1>1. b \in Int /\ MinBudget \in Nat /\ MaxTokens \in Nat /\ MinBudget < MaxTokens
    BY DEF Versions
  <1>2. ThinkingSent(raw).budget = IF raw.type # "enabled" THEN 0
                                   ELSE CASE b < MinBudget  -> MinBudget
                                          [] b >= MaxTokens -> MaxTokens - 1
                                          [] OTHER          -> b
    BY DEF ThinkingSent
  <1> HIDE DEF raw, b
  <1>3. CASE raw.type # "enabled"
    BY <1>2, <1>3 DEF raw
  <1>4. CASE raw.type = "enabled"
    <2>1. ThinkingSent(raw).budget \in all
      BY <1>1, <1>2, <1>4
    <2> QED
      BY <2>1 DEF raw
  <1> QED
    BY <1>3, <1>4

LEMMA SettingsAreTyped == ASSUME SettingsInv PROVE SettingsOK
  <1>1. Len(Setters) + 1 = 5
    BY SettersAre
  <1>2. reload \in [Reloaders -> [step : 0 .. Len(Setters) + 1, of : Versions \cup {0}]]
    BY <1>1 DEF SettingsInv, SettingsTypes
  <1> QED
    BY <1>2, BudgetsFit DEF SettingsInv, SettingsTypes, SettingsOK

LEMMA TypesImplied == ASSUME ReplyInv PROVE TypeOK
  <1>1. SettingsOK
    BY SettingsAreTyped DEF ReplyInv
  <1>2. DOMAIN log = 1 .. Len(log)
    BY LenProperties DEF ReplyInv, TypeInv
  <1>3. ASSUME NEW i \in DOMAIN log
        PROVE  /\ log[i].role \in {"user", "assistant"} /\ log[i].seq >= 1 /\ log[i].era <= era
               /\ log[i].cutoff # NoCutoff => log[i].role = "assistant"
    <2>1. Stored(log[i], request, era)
      BY <1>2 DEF ReplyInv, StoreInv
    <2>2. log[i].role \in {"user", "assistant"} /\ log[i].seq \in Nat \ {0}
      BY <2>1 DEF Stored, LogRows
    <2> QED
      BY <2>1, <2>2 DEF Stored
  <1>4. \A r \in Requests : Shape(request[r]) /\ Reader(reading[r])
    BY DEF ReplyInv, TypeInv
  <1> QED
    BY <1>1, <1>3, <1>4 DEF ReplyInv, TypeInv, TypeOK, Shape, Reader

LEMMA AnswersName == ASSUME ReplyInv PROVE AnswerNamesItsQuestion
  <1> DEFINE Q(i) == QuestionOf(log[i].by)
  <1> SUFFICES ASSUME NEW i \in DOMAIN log, log[i].cutoff # NoCutoff, Q(i) \in 1 .. i - 1,
                      \A j \in Q(i) + 1 .. i - 1 : log[j].era = log[Q(i)].era
               PROVE  log[Q(i)].seq = log[i].cutoff /\ \A j \in Q(i) + 1 .. i - 1 : log[j].role = "user" => log[j].seq # log[i].cutoff
    BY DEF AnswerNamesItsQuestion
  <1> DEFINE r == log[i].by
             q == QuestionOf(r)
  <1>1. DOMAIN log = 1 .. Len(log) /\ Len(log) \in Nat
    BY LenProperties DEF ReplyInv, TypeInv
  <1>2. Stored(log[i], request, era)
    BY <1>1 DEF ReplyInv, StoreInv
  <1>3. log[i].role = "assistant" /\ r \in Requests /\ log[i].cutoff = request[r].cutoff
    BY <1>2 DEF Stored, LogRows
  <1>4. q # 0 /\ q \in Int
    OBVIOUS
  <1>5. q \in 1 .. Len(log) /\ log[q].by = r /\ log[q].role = "user"
    BY <1>3, <1>4, PlaceIs DEF ReplyInv
  <1>6. Stored(log[q], request, era)
    BY <1>5 DEF ReplyInv, StoreInv
  <1>7. log[q].seq = request[r].cutoff
    BY <1>3, <1>5, <1>6, Zenon DEF Stored
  <1> HIDE DEF q
  <1>8. ASSUME NEW j \in q + 1 .. i - 1 PROVE log[j].seq # log[q].seq
    <2>1. j \in 1 .. Len(log) /\ j # q
      BY <1>1, <1>4, <1>5
    <2>2. log[j].era = log[q].era
      BY DEF q
    <2> QED
      BY <1>5, <2>1, <2>2, Zenon DEF ReplyInv, NumberInv
  <1> QED
    BY <1>3, <1>7, <1>8 DEF q

LEMMA OutcomeTold == ASSUME ReplyInv PROVE HistoryTellsOutcome
  <1> SUFFICES ASSUME NEW r \in Requests, request[r].kind = "ai", ~request[r].lost, QuestionOf(r) # 0
               PROVE  AnswerOf(r) # 0 <=> request[r].told = "reply"
    BY DEF HistoryTellsOutcome
  <1>1. HasRow(r, "user")
    BY PlaceIs DEF ReplyInv, HasRow
  <1>2. ASSUME AnswerOf(r) # 0 PROVE request[r].told = "reply"
    <2>1. AnswerOf(r) \in 1 .. Len(log) /\ log[AnswerOf(r)].by = r /\ log[AnswerOf(r)].role = "assistant"
      BY <1>2, PlaceIs DEF ReplyInv
    <2>2. Stored(log[AnswerOf(r)], request, era)
      BY <2>1 DEF ReplyInv, StoreInv
    <2> QED
      BY <2>1, <2>2, Zenon DEF Stored
  <1>3. ASSUME request[r].told = "reply" PROVE AnswerOf(r) # 0
    <2>1. HasRow(r, "assistant")
      BY <1>1, <1>3 DEF ReplyInv, OutcomeInv
    <2> QED
      BY <2>1, PlaceIs DEF ReplyInv
  <1> QED
    BY <1>2, <1>3

LEMMA PagesCover == ASSUME ReplyInv PROVE PagesCoverHistory
  <1> SUFFICES ASSUME NEW r \in Requests, reading[r].ended = "whole", ~reading[r].broken
               PROVE  reading[r].start \cap ToSet(Rows(reading[r].of)) \subseteq reading[r].shown
    BY DEF PagesCoverHistory
  <1>1. Covers(reading[r], Rows(reading[r].of))
    BY DEF ReplyInv, PagesInv
  <1> QED
    BY <1>1 DEF Covers, Ahead

LEMMA RepliesHold == Spec => []ReplyInv
  <1>1. Init => ReplyInv
    BY InitReplies
  <1>2. ReplyInv /\ [Next]_vars => ReplyInv'
    BY ReplyStep
  <1> QED
    BY <1>1, <1>2, PTL DEF Spec

(* TypeOK: the settings, the stores and the requests have their types, and  *)
(* only an answer carries a cutoff (appendAssistantEventFormatted).         *)
THEOREM TypesHold == Spec => []TypeOK
  BY RepliesHold, TypesImplied, PTL

(* AnswerNamesItsQuestion (nextCausalSeq, appendAssistantEventFormatted):   *)
(* the cutoff of an answer finds its question, whatever number of handlers  *)
(* stored their rows in whatever order, and however often the history was   *)
(* cleared, as long as the counter was not reset in between.                *)
THEOREM AnswersNameTheirQuestions == Spec => []AnswerNamesItsQuestion
  BY RepliesHold, AnswersName, PTL

(* HistoryTellsOutcome (the callers of appendUserEvent and                  *)
(* appendAssistantEvent): after /ai an answer is in the log exactly when    *)
(* the user was given one.                                                  *)
THEOREM HistoryIsTold == Spec => []HistoryTellsOutcome
  BY RepliesHold, OutcomeTold, PTL

(* QuestionSeen (Assemble, clipBlocks): for every limit of the context and  *)
(* every number of rows and notes, the question is cut last.                *)
THEOREM QuestionIsSeen == Spec => []QuestionSeen
  <1>1. ReplyInv => QuestionSeen
    BY DEF ReplyInv, SeenInv, QuestionSeen, Does, Asking, Shown
  <1> QED
    BY <1>1, RepliesHold, PTL

(* PagesCoverHistory (the lists of the stores and the tools that page       *)
(* through them): following the cursors skips no row, whatever is appended  *)
(* or cleared between two pages.                                            *)
THEOREM PagesSkipNothing == Spec => []PagesCoverHistory
  BY RepliesHold, PagesCover, PTL

=============================================================================
