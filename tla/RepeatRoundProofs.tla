-------------------------- MODULE RepeatRoundProofs --------------------------
(***************************************************************************)
(* Proofs about RepeatRound, for any number of handlers, users and texts    *)
(* and any scan limit: types and the lock, the order of rows and causal     *)
(* numbers, and what the engine's memory of the last round is worth.        *)
(***************************************************************************)
EXTENDS RepeatRound, SequenceTheorems, NaturalsInduction,
        WellFoundedInduction, TLAPS

AllRows == {rows[i] : i \in DOMAIN rows}
View    == Listed(ScanLimit)

(* Identifiers grow with the rows and none is used twice.                   *)
OrderInv ==
  /\ \A i \in DOMAIN rows : rows[i].id \in 1..written
  /\ \A i, j \in DOMAIN rows : i < j => rows[i].id < rows[j].id

LEMMA SmallestNat ==
  ASSUME NEW T, T \subseteq Nat, T # {}
  PROVE  \E n \in T : \A m \in T : n <= m
<1> DEFINE R == {ss \in Nat \X Nat : ss[1] < ss[2]}
<1>1. IsWellFoundedOn(R, Nat)
  BY NatLessThanWellFounded, Zenon DEF OpToRel
<1>2. \A m, n \in Nat : m < n => <<m, n>> \in R
  OBVIOUS
<1> HIDE DEF R
<1>3. PICK n \in T : \A m \in T : ~(<<m, n>> \in R)
  BY <1>1, WFMin, Zenon
<1>4. ASSUME NEW m \in T PROVE n <= m
  <2>1. m \in Nat /\ n \in Nat /\ ~(m < n)
    BY <1>2, <1>3
  <2> QED BY <2>1
<1> QED BY <1>4

(* What the sequence of rows is, before and after an append.                *)
LEMMA RowsAre ==
  ASSUME LogOK
  PROVE  /\ Len(rows) \in Nat /\ DOMAIN rows = 1..Len(rows)
         /\ AllRows \subseteq Rows /\ View \subseteq AllRows
         /\ Listed(Len(rows)) = AllRows
<1>1. Len(rows) \in Nat /\ DOMAIN rows = 1..Len(rows) /\ \A i \in DOMAIN rows : rows[i] \in Rows
  BY LenProperties, ElementOfSeq DEF LogOK
<1> QED BY <1>1 DEF AllRows, View, Listed

LEMMA RowsAppended ==
  ASSUME LogOK, NEW row \in Rows, rows' = Append(rows, row)
  PROVE  /\ rows' \in Seq(Rows) /\ Len(rows)' = Len(rows) + 1
         /\ DOMAIN rows' = 1..Len(rows) + 1
         /\ \A i \in 1..Len(rows) : rows'[i] = rows[i]
         /\ rows'[Len(rows) + 1] = row
         /\ AllRows' = AllRows \cup {row}
<1>1. /\ rows' \in Seq(Rows) /\ Len(rows)' = Len(rows) + 1
      /\ DOMAIN rows' = 1..Len(rows) + 1
      /\ \A i \in 1..Len(rows) : rows'[i] = rows[i]
      /\ rows'[Len(rows) + 1] = row
  BY AppendProperties, RowsAre DEF LogOK
<1>2. 1..Len(rows) + 1 = (1..Len(rows)) \cup {Len(rows) + 1}
  BY RowsAre
<1>3. AllRows' = AllRows \cup {row}
  BY <1>1, <1>2, RowsAre DEF AllRows
<1> QED BY <1>1, <1>3

(* A set of rows has an oldest and a newest row.                            *)
LEMMA Extremes ==
  ASSUME LogOK, OrderInv, NEW S, S \subseteq AllRows, S # {}
  PROVE  /\ \E r \in S : \A q \in S : r.id <= q.id
         /\ \E r \in S : \A q \in S : q.id <= r.id
<1>1. \A r \in S : r.id \in Nat /\ r.id <= written
  <2>1. \A r \in AllRows : r.id \in 1..written
    BY Zenon DEF OrderInv, AllRows
  <2> QED BY <2>1 DEF LogOK
<1>2. \E r \in S : \A q \in S : r.id <= q.id
  <2> DEFINE T == {r.id : r \in S}
  <2>1. PICK n \in T : \A m \in T : n <= m
    <3>1. T \subseteq Nat /\ T # {}
      BY <1>1
    <3> QED BY <3>1, SmallestNat, Zenon
  <2> QED BY <2>1
<1>3. \E r \in S : \A q \in S : q.id <= r.id
  <2> DEFINE T == {written - r.id : r \in S}
  <2>1. T \subseteq Nat /\ T # {}
    BY <1>1 DEF LogOK
  <2>2. PICK n \in T : \A m \in T : n <= m
    BY <2>1, SmallestNat, Zenon
  <2>3. PICK r \in S : n = written - r.id
    BY <2>2
  <2>4. \A q \in S : written - r.id <= written - q.id
    BY <2>2, <2>3
  <2>5. \A q \in S : q.id <= r.id
    BY <2>4, <1>1 DEF LogOK
  <2> QED BY <2>5
<1> QED BY <1>2, <1>3

(* What a run is, and its earliest and latest row.                          *)
LEMMA RunIs ==
  ASSUME LogOK, OrderInv, NEW view, view \subseteq AllRows
  PROVE  /\ Run(view) \subseteq view
         /\ \A r \in Run(view) : r.text # Nobody
         /\ Run(view) # {} => /\ Earliest(Run(view)) \in Run(view)
                              /\ \A q \in Run(view) : Earliest(Run(view)).id <= q.id
                              /\ Latest(Run(view)) \in Run(view)
<1>1. Run(view) \subseteq view /\ \A r \in Run(view) : r.text # Nobody
  BY Zenon DEF Run
<1>2. ASSUME NEW S, S = Run(view), S # {}
      PROVE  /\ Earliest(S) \in S /\ \A q \in S : Earliest(S).id <= q.id
             /\ Latest(S) \in S
  <2>1. S \subseteq AllRows
    BY <1>1, <1>2
  <2>2. /\ \E r \in S : \A q \in S : r.id <= q.id
        /\ \E r \in S : \A q \in S : q.id <= r.id
    BY <1>2, <2>1, Extremes
  <2> QED BY <2>2, Zenon DEF Earliest, Latest
<1> QED BY <1>1, <1>2

(* While something was said a run of all rows is not empty.                 *)
LEMMA SomeRun ==
  ASSUME LogOK, OrderInv, NEW r \in AllRows, r.text # Nobody
  PROVE  Run(AllRows) # {}
<1> DEFINE S == {q \in AllRows : q.text # Nobody}
<1>1. PICK l \in S : \A q \in S : q.id <= l.id
  BY Extremes
<1>2. \A q \in S : q.id >= l.id => q = l
  <2> SUFFICES ASSUME NEW q \in S, q.id >= l.id PROVE q = l
    OBVIOUS
  <2>1. PICK i \in DOMAIN rows, j \in DOMAIN rows : q = rows[i] /\ l = rows[j]
    BY Zenon DEF AllRows
  <2>2. i \in Nat /\ j \in Nat
    BY RowsAre
  <2>3. q.id \in Nat /\ l.id \in Nat /\ q.id = l.id
    BY <1>1, RowsAre DEF Rows
  <2>4. ~(i < j) /\ ~(j < i)
    BY <2>1, <2>3 DEF OrderInv
  <2> QED BY <2>1, <2>2, <2>4
<1>3. l \in Run(AllRows)
  BY <1>2, Zenon DEF Run
<1> QED BY <1>3

(* The round that is found: its texts and numbers are those of rows.        *)
LEMMA RoundIs ==
  ASSUME LogOK, OrderInv, IsRound(Run(View))
  PROVE  /\ Round(Run(View)) \in Rounds
         /\ Round(Run(View)).text # Nobody
         /\ \E r \in AllRows : /\ Round(Run(View)).text = r.text
                               /\ Round(Run(View)).start = r.number
                               /\ Round(Run(View)).shown = r.id
         /\ \E r \in AllRows : Round(Run(View)).latest = r.number
         /\ \A q \in Run(View) : Round(Run(View)).shown <= q.id
<1> DEFINE run == Run(View)
          all == Run(AllRows)
<1>1. run # {} /\ View \subseteq AllRows /\ AllRows \subseteq Rows
  BY RowsAre, Zenon DEF IsRound
<1>2. /\ Earliest(run) \in run /\ Latest(run) \in run /\ run \subseteq AllRows
      /\ \A q \in run : Earliest(run).id <= q.id
      /\ \A q \in run : q.text # Nobody
  BY <1>1, RunIs
<1>3. Earliest(all) \in AllRows
  <2>1. Run(AllRows) # {}
    BY <1>1, <1>2, SomeRun
  <2> QED BY <2>1, RunIs
<1>4. Round(run) = [text |-> Earliest(run).text, start |-> Earliest(run).number,
                    shown |-> Earliest(run).id, first |-> Earliest(all).id,
                    latest |-> Latest(run).number]
  BY RowsAre DEF Round
<1>5. Earliest(run) \in Rows /\ Latest(run) \in Rows /\ Earliest(all) \in Rows
  BY <1>1, <1>2, <1>3
<1> HIDE DEF run, all
<1>6. Round(run) \in Rounds
  BY <1>4, <1>5 DEF Rounds, Rows
<1>7. /\ Round(run).text = Earliest(run).text /\ Round(run).start = Earliest(run).number
      /\ Round(run).shown = Earliest(run).id /\ Round(run).latest = Latest(run).number
  BY <1>4
<1> QED BY <1>2, <1>6, <1>7, Zenon DEF run

-----------------------------------------------------------------------------
(* Rows keep their order: the identifier of a new one is the next.          *)
LEMMA RowIs ==
  ASSUME TypeOK, NEW m \in Said, NEW n \in Numbers, NEW cutoff \in Numbers
  PROVE  /\ Row(m, n, cutoff) \in Rows /\ Row(m, n, cutoff).id = written + 1
         /\ Row(m, n, cutoff).number = n /\ Row(m, n, cutoff).cutoff = cutoff
<1>1. m.user \in Users \cup {Nobody} /\ m.text \in Texts \cup {Nobody}
  BY DEF Said, NoMessage
<1> QED BY <1>1 DEF Row, Rows, TypeOK, LogOK

LEMMA OrderAppended ==
  ASSUME TypeOK, OrderInv, NEW row \in Rows, row.id = written + 1, Appended(row)
  PROVE  OrderInv'
<1>1. written \in Nat /\ written' = written + 1 /\ rows' = Append(rows, row) /\ LogOK
  BY DEF TypeOK, LogOK, Appended
<1>2. ASSUME NEW i \in DOMAIN rows' PROVE rows'[i].id \in 1..written'
  <2>1. CASE i \in 1..Len(rows)
    <3>1. rows[i].id \in 1..written
      BY <2>1, <1>1, RowsAre DEF OrderInv
    <3> QED BY <2>1, <3>1, <1>1, RowsAppended
  <2>2. CASE i = Len(rows) + 1
    BY <2>2, <1>1, RowsAppended
  <2> QED BY <2>1, <2>2, <1>1, RowsAppended, RowsAre
<1>3. ASSUME NEW i \in DOMAIN rows', NEW j \in DOMAIN rows', i < j PROVE rows'[i].id < rows'[j].id
  <2>1. i \in 1..Len(rows) /\ i \in DOMAIN rows
    BY <1>1, <1>3, RowsAppended, RowsAre
  <2>2. rows[i].id \in 1..written /\ rows'[i] = rows[i]
    BY <2>1, <1>1, RowsAppended DEF OrderInv
  <2>3. CASE j \in 1..Len(rows)
    <3>1. rows[i].id < rows[j].id
      BY <2>1, <2>3, <1>1, <1>3, RowsAre DEF OrderInv
    <3> QED BY <2>2, <2>3, <3>1, <1>1, RowsAppended
  <2>4. CASE j = Len(rows) + 1
    BY <2>2, <2>4, <1>1, RowsAppended
  <2> QED BY <2>3, <2>4, <1>1, RowsAppended, RowsAre
<1> QED BY <1>2, <1>3 DEF OrderInv

LEMMA OrderStep == TypeOK /\ OrderInv /\ [Next]_vars => OrderInv'
<1> SUFFICES ASSUME TypeOK, OrderInv, [Next]_vars PROVE OrderInv'
  OBVIOUS
<1> USE DEF log
<1>0. UNCHANGED <<rows, written>> => OrderInv'
  BY Zenon DEF OrderInv
<1>1. ASSUME NEW h \in Handlers, NEW stored \in BOOLEAN, AppendMessage(h, stored) PROVE OrderInv'
  <2>1. NoNumber \in Numbers /\ message[h] \in Said /\ number[h] \in Numbers
    BY DEF TypeOK, HandlersOK, NoNumber, Numbers
  <2> QED BY <2>1, <1>0, <1>1, RowIs, OrderAppended DEF AppendMessage
<1>2. ASSUME NEW h \in Handlers, NEW stored \in BOOLEAN, AppendReply(h, stored) PROVE OrderInv'
  <2>1. NoMessage \in Said /\ number[h] \in Numbers /\ found[h].latest \in Numbers
    BY DEF TypeOK, HandlersOK, Said, Rounds
  <2> QED BY <2>1, <1>0, <1>2, RowIs, OrderAppended DEF AppendReply
<1>3. ClearRows => OrderInv'
  <2>1. ClearRows => (rows' = <<>> \/ rows' = rows) /\ written' = written
    BY Zenon DEF ClearRows
  <2>2. rows' = <<>> => OrderInv'
    BY DEF OrderInv
  <2> QED BY <2>1, <2>2, <1>0
<1>4. ASSUME NEW h \in Handlers, NEW m \in Said, NEW try \in BOOLEAN, Arrive(h, m, try) PROVE OrderInv'
  BY <1>0, <1>4, Zenon DEF Arrive
<1>5. ASSUME NEW h \in Handlers, Number(h) \/ NumberReply(h) PROVE OrderInv'
  BY <1>0, <1>5, Zenon DEF Number, NumberReply
<1>6. ASSUME NEW h \in Handlers, Ask(h) \/ Evaluate(h) \/ Suppress(h) \/ Miss(h) \/ Send(h) \/ Remember(h)
      PROVE  OrderInv'
  BY <1>0, <1>6, Zenon DEF Ask, Evaluate, Suppress, Miss, Send, Remember
<1>7. RepeatOn \/ RepeatOff \/ Clear \/ ReloadConfig \/ ClearStats \/ Restart \/ UNCHANGED vars => OrderInv'
  BY <1>0, Zenon DEF RepeatOn, RepeatOff, Clear, ReloadConfig, ClearStats, Restart, vars
<1>8. ASSUME NEW h \in Handlers, Handler(h) PROVE OrderInv'
  BY <1>1, <1>2, <1>4, <1>5, <1>6, <1>8, Zenon DEF Handler, TryRepeat
<1> QED BY <1>3, <1>7, <1>8, Zenon DEF Next, Command

-----------------------------------------------------------------------------
(* Types.                                                                   *)

(* A handler goes on, or leaves, with the lock as it is or given back.      *)
LEMMA HandlerMoves ==
  ASSUME HandlersOK, LockOK, NEW h \in Handlers, NEW step \in Steps,
         pc' = [pc EXCEPT ![h] = step], step \in Joining <=> pc[h] \in Joining, UNCHANGED lock
  PROVE  pc' \in [Handlers -> Steps] /\ LockOK'
<1>1. \A g \in Handlers : pc'[g] = IF g = h THEN step ELSE pc[g]
  BY DEF HandlersOK
<1> QED BY <1>1 DEF HandlersOK, LockOK

LEMMA HandlerLeaves ==
  ASSUME HandlersOK, LockOK, NEW h \in Handlers, Leave(h), UNCHANGED lock \/ lock' = Nobody,
         pc[h] \in Joining <=> lock' # lock
  PROVE  HandlersOK' /\ LockOK'
<1>1. "idle" \in Steps /\ "idle" \notin Joining /\ NoMessage \in Said /\ NoNumber \in Numbers /\ NoRound \in Rounds
  BY DEF Steps, Joining, Said, NoNumber, Numbers, NoRound, Rounds
<1>2. HandlersOK'
  BY <1>1 DEF Leave, Goto, HandlersOK
<1>3. \A g \in Handlers : pc'[g] = IF g = h THEN "idle" ELSE pc[g]
  BY DEF Leave, Goto, HandlersOK
<1>4. \A g \in Handlers : g # Nobody
  BY ConstantsAssumption
<1>5. LockOK'
  BY <1>1, <1>3, <1>4, Zenon DEF LockOK
<1> QED BY <1>2, <1>5

LEMMA TypeInit == Init => TypeOK
<1> SUFFICES ASSUME Init PROVE TypeOK
  OBVIOUS
<1>1. LogOK /\ HistoryOK
  BY DEF Init, LogOK, HistoryOK
<1>2. EngineOK
  BY DEF Init, EngineOK, NoRound, NoNumber, Rounds, Numbers
<1>3. HandlersOK
  BY DEF Init, HandlersOK, Steps, Said, NoNumber, Numbers, NoRound, Rounds
<1>4. LockOK
  <2>1. \A h \in Handlers : pc[h] = "idle" /\ lock # h
    BY ConstantsAssumption DEF Init
  <2> QED BY <2>1 DEF LockOK, Joining
<1> QED BY <1>1, <1>2, <1>3, <1>4 DEF TypeOK

LEMMA TypeHandler ==
  ASSUME TypeOK, OrderInv, NEW h \in Handlers, Handler(h)
  PROVE  TypeOK'
<1>0. LogOK /\ EngineOK /\ HandlersOK /\ HistoryOK /\ LockOK
  BY DEF TypeOK
<1> USE DEF log, engine, commands, history
<1>1. ASSUME NEW m \in Said, NEW try \in BOOLEAN, Arrive(h, m, try) PROVE TypeOK'
  <2>1. LogOK' /\ EngineOK' /\ HistoryOK'
    BY <1>0, <1>1, Zenon DEF Arrive, LogOK, EngineOK, HistoryOK
  <2>2. "number" \in Steps /\ ("number" \in Joining <=> pc[h] \in Joining)
    BY <1>1 DEF Arrive, Steps, Joining
  <2>3. pc' \in [Handlers -> Steps] /\ LockOK'
    BY <1>0, <1>1, <2>2, HandlerMoves DEF Arrive, Goto
  <2>4. HandlersOK'
    BY <1>0, <1>1, <2>3 DEF Arrive, HandlersOK
  <2> QED BY <2>1, <2>3, <2>4 DEF TypeOK
<1>2. ASSUME Number(h) \/ NumberReply(h) PROVE TypeOK'
  <2>1. EngineOK' /\ HistoryOK'
    BY <1>0, <1>2, Zenon DEF Number, NumberReply, EngineOK, HistoryOK
  <2>2. LogOK' /\ NextNumber \in Numbers
    BY <1>0, <1>2 DEF Number, NumberReply, LogOK, NextNumber, Numbers
  <2>3. PICK step \in Steps : pc' = [pc EXCEPT ![h] = step] /\ (step \in Joining <=> pc[h] \in Joining)
    <3>1. CASE Number(h)
      BY <3>1 DEF Number, Goto, Steps, Joining
    <3>2. CASE NumberReply(h)
      BY <3>2 DEF NumberReply, Goto, Steps, Joining
    <3> QED BY <1>2, <3>1, <3>2
  <2>4. pc' \in [Handlers -> Steps] /\ LockOK'
    BY <1>0, <1>2, <2>3, HandlerMoves DEF Number, NumberReply
  <2>5. HandlersOK'
    BY <1>0, <1>2, <2>2, <2>4 DEF Number, NumberReply, HandlersOK
  <2> QED BY <2>1, <2>2, <2>4, <2>5 DEF TypeOK
<1>3. ASSUME NEW stored \in BOOLEAN, AppendMessage(h, stored) PROVE TypeOK'
  <2>1. EngineOK' /\ HistoryOK' /\ pc[h] = "append" /\ UNCHANGED lock
    BY <1>0, <1>3, Zenon DEF AppendMessage, EngineOK, HistoryOK
  <2>2. NoNumber \in Numbers /\ message[h] \in Said /\ number[h] \in Numbers
    BY <1>0 DEF HandlersOK, NoNumber, Numbers
  <2>3. LogOK'
    BY <1>0, <1>3, <2>2, RowIs, RowsAppended DEF AppendMessage, Appended, LogOK
  <2>4. pc[h] \notin Joining /\ "ask" \in Steps /\ "ask" \notin Joining
    BY <2>1 DEF Joining, Steps
  <2>5. CASE tries[h]
    <3>1. pc' = [pc EXCEPT ![h] = "ask"] /\ UNCHANGED <<message, number, tries, found>>
      BY <1>3, <2>5, Zenon DEF AppendMessage, Goto
    <3>2. pc' \in [Handlers -> Steps] /\ LockOK'
      BY <1>0, <2>1, <2>4, <3>1, HandlerMoves
    <3> QED BY <1>0, <2>1, <2>3, <3>1, <3>2 DEF TypeOK, HandlersOK
  <2>6. CASE ~tries[h]
    <3>1. Leave(h)
      BY <1>3, <2>6, Zenon DEF AppendMessage
    <3>2. HandlersOK' /\ LockOK'
      BY <1>0, <2>1, <2>4, <3>1, HandlerLeaves
    <3> QED BY <2>1, <2>3, <3>2 DEF TypeOK
  <2> QED BY <2>5, <2>6
<1>4. ASSUME Ask(h) \/ Miss(h) \/ Suppress(h) PROVE TypeOK'
  <2>1. LogOK' /\ EngineOK' /\ HistoryOK' /\ UNCHANGED lock
    BY <1>0, <1>4, Zenon DEF Ask, Miss, Suppress, LogOK, EngineOK, HistoryOK
  <2>2. pc[h] \notin Joining /\ "look" \in Steps /\ "look" \notin Joining
    BY <1>4 DEF Ask, Miss, Suppress, Joining, Steps
  <2>3. CASE Leave(h)
    <3>1. HandlersOK' /\ LockOK'
      BY <1>0, <2>1, <2>2, <2>3, HandlerLeaves
    <3> QED BY <2>1, <3>1 DEF TypeOK
  <2>4. CASE ~Leave(h)
    <3>1. pc' = [pc EXCEPT ![h] = "look"] /\ UNCHANGED <<message, number, tries, found>>
      BY <1>4, <2>4, Zenon DEF Ask, Miss, Suppress, Goto
    <3>2. pc' \in [Handlers -> Steps] /\ LockOK'
      BY <1>0, <2>1, <2>2, <3>1, HandlerMoves
    <3> QED BY <1>0, <2>1, <3>1, <3>2 DEF TypeOK, HandlersOK
  <2> QED BY <2>3, <2>4
<1>5. ASSUME Evaluate(h) PROVE TypeOK'
  <2>1. LogOK' /\ HistoryOK' /\ EngineOK'
    BY <1>0, <1>5 DEF Evaluate, LogOK, HistoryOK, EngineOK
  <2>2. Round(Run(View)) \in Rounds
    BY <1>0, <1>5, RoundIs, Zenon DEF Evaluate, View
  <2>3. /\ pc' = [pc EXCEPT ![h] = "send"] /\ found' = [found EXCEPT ![h] = Round(Run(View))]
        /\ lock = Nobody /\ lock' = h /\ UNCHANGED <<message, number, tries>>
    BY <1>5, Zenon DEF Evaluate, Goto, View
  <2>4. HandlersOK'
    BY <1>0, <2>2, <2>3 DEF HandlersOK, Steps
  <2>5. \A g \in Handlers : pc'[g] = IF g = h THEN "send" ELSE pc[g]
    BY <1>0, <2>3 DEF HandlersOK
  <2>6. \A g \in Handlers : g # Nobody
    BY ConstantsAssumption
  <2>7. "send" \in Joining
    BY DEF Joining
  <2>8. LockOK'
    BY <1>0, <2>3, <2>5, <2>6, <2>7, Zenon DEF LockOK
  <2> QED BY <2>1, <2>4, <2>8 DEF TypeOK
<1>6. ASSUME Send(h) PROVE TypeOK'
  <2>1. LogOK' /\ EngineOK' /\ UNCHANGED lock
    BY <1>0, <1>6, Zenon DEF Send, LogOK, EngineOK
  <2>2. [shown |-> found[h].shown, first |-> found[h].first, life |-> life] \in [shown : Nat, first : Nat, life : Nat]
    BY <1>0 DEF HandlersOK, Rounds, EngineOK
  <2>3. HistoryOK'
    BY <1>0, <1>6, <2>2, AppendProperties DEF Send, HistoryOK
  <2>4. pc[h] \in Joining /\ "number_reply" \in Joining /\ "number_reply" \in Steps
    BY <1>6 DEF Send, Joining, Steps
  <2>5. pc' \in [Handlers -> Steps] /\ LockOK'
    BY <1>0, <1>6, <2>1, <2>4, HandlerMoves DEF Send, Goto
  <2>6. HandlersOK'
    BY <1>0, <1>6, <2>5 DEF Send, HandlersOK
  <2> QED BY <2>1, <2>3, <2>5, <2>6 DEF TypeOK
<1>7. ASSUME NEW stored \in BOOLEAN, AppendReply(h, stored) PROVE TypeOK'
  <2>1. EngineOK' /\ HistoryOK' /\ UNCHANGED lock
    BY <1>0, <1>7, Zenon DEF AppendReply, EngineOK, HistoryOK
  <2>2. NoMessage \in Said /\ number[h] \in Numbers /\ found[h].latest \in Numbers
    BY <1>0 DEF HandlersOK, Said, Rounds
  <2>3. LogOK'
    BY <1>0, <1>7, <2>2, RowIs, RowsAppended DEF AppendReply, Appended, LogOK
  <2>4. pc[h] \in Joining /\ "remember" \in Joining /\ "remember" \in Steps
    BY <1>7 DEF AppendReply, Joining, Steps
  <2>5. pc' \in [Handlers -> Steps] /\ LockOK'
    BY <1>0, <1>7, <2>1, <2>4, HandlerMoves DEF AppendReply, Goto
  <2>6. HandlersOK'
    BY <1>0, <1>7, <2>5 DEF AppendReply, HandlersOK
  <2> QED BY <2>1, <2>3, <2>5, <2>6 DEF TypeOK
<1>8. ASSUME Remember(h) PROVE TypeOK'
  <2>1. LogOK' /\ HistoryOK'
    BY <1>0, <1>8, Zenon DEF Remember, LogOK, HistoryOK
  <2>2. EngineOK'
    BY <1>0, <1>8 DEF Remember, EngineOK, HandlersOK
  <2>3. pc[h] \in Joining /\ Leave(h) /\ lock' = Nobody
    BY <1>8 DEF Remember, Joining
  <2>4. lock = h /\ h # Nobody
    BY <1>0, <2>3, ConstantsAssumption DEF LockOK
  <2>5. HandlersOK' /\ LockOK'
    BY <1>0, <2>3, <2>4, HandlerLeaves
  <2> QED BY <2>1, <2>2, <2>5 DEF TypeOK
<1> QED BY <1>1, <1>2, <1>3, <1>4, <1>5, <1>6, <1>7, <1>8, Zenon DEF Handler, TryRepeat

LEMMA TypeStep == TypeOK /\ OrderInv /\ [Next]_vars => TypeOK'
<1> SUFFICES ASSUME TypeOK, OrderInv, [Next]_vars PROVE TypeOK'
  OBVIOUS
<1>0. LogOK /\ EngineOK /\ HandlersOK /\ HistoryOK /\ LockOK
  BY DEF TypeOK
<1> USE DEF log, engine, handlers, history
<1>1. CASE RepeatOn \/ RepeatOff \/ ReloadConfig
  <2>1. LogOK' /\ HandlersOK' /\ HistoryOK' /\ LockOK'
    BY <1>0, <1>1, Zenon DEF RepeatOn, RepeatOff, ReloadConfig, LogOK, HandlersOK, HistoryOK, LockOK
  <2>2. enabled' \in {TRUE, FALSE, ~enabled} /\ UNCHANGED <<last, life, lock, wiping>> /\ leaving' \in {leaving, leaving + 1}
    BY <1>1, Zenon DEF RepeatOn, RepeatOff, ReloadConfig
  <2>3. enabled' \in BOOLEAN
    BY <2>2
  <2>4. leaving' \in Nat
    BY <1>0, <2>2 DEF EngineOK
  <2>5. EngineOK'
    BY <1>0, <2>2, <2>3, <2>4, Zenon DEF EngineOK
  <2> QED BY <2>1, <2>5 DEF TypeOK
<1>2. CASE Clear
  <2>1. LogOK' /\ HandlersOK' /\ HistoryOK' /\ LockOK'
    BY <1>0, <1>2, Zenon DEF Clear, LogOK, HandlersOK, HistoryOK, LockOK
  <2>2. NoRound \in Rounds
    BY DEF NoRound, NoNumber, Rounds, Numbers
  <2>3. /\ last' = NoRound /\ life' = life + 1 /\ leaving > 0 /\ leaving' = leaving - 1
        /\ UNCHANGED <<enabled, lock, wiping>>
    BY <1>2, Zenon DEF Clear
  <2>4. EngineOK'
    BY <1>0, <2>2, <2>3 DEF EngineOK
  <2> QED BY <2>1, <2>4 DEF TypeOK
<1>3. CASE ClearRows \/ ClearStats
  <2>1. HandlersOK' /\ HistoryOK' /\ LockOK'
    BY <1>0, <1>3, Zenon DEF ClearRows, ClearStats, HandlersOK, HistoryOK, LockOK
  <2>2. EngineOK'
    <3>1. UNCHANGED <<enabled, last, lock, life, leaving>>
      BY <1>3, Zenon DEF ClearRows, ClearStats
    <3>2. wiping' = wiping + 1 \/ (wiping > 0 /\ wiping' = wiping - 1)
      BY <1>3 DEF ClearRows, ClearStats
    <3>3. wiping' \in Nat
      BY <1>0, <3>2 DEF EngineOK
    <3> QED BY <1>0, <3>1, <3>3, Zenon DEF EngineOK
  <2>3. LogOK'
    <3>1. UNCHANGED written /\ rows' \in {<<>>, rows}
      BY <1>3, Zenon DEF ClearRows, ClearStats
    <3>2. causalSeq' \in {causalSeq, 0} /\ era' \in {era, era + 1}
      BY <1>3 DEF ClearRows, ClearStats
    <3>3. rows' \in Seq(Rows)
      BY <1>0, <3>1, EmptySeq, Zenon DEF LogOK
    <3> QED BY <1>0, <3>1, <3>2, <3>3 DEF LogOK
  <2> QED BY <2>1, <2>2, <2>3 DEF TypeOK
<1>4. CASE Restart
  <2>1. LogOK' /\ HistoryOK'
    <3>1. UNCHANGED <<rows, written, joins>> /\ causalSeq' = 0 /\ era' = era + 1
      BY <1>4, Zenon DEF Restart
    <3> QED BY <1>0, <3>1 DEF LogOK, HistoryOK
  <2>2. EngineOK'
    <3>1. NoRound \in Rounds
      BY DEF NoRound, NoNumber, Rounds, Numbers
    <3>2. /\ enabled' \in BOOLEAN /\ last' = NoRound /\ lock' = Nobody /\ life' = life + 1
          /\ leaving' = 0 /\ wiping' = 0
      BY <1>4, Zenon DEF Restart
    <3> QED BY <1>0, <3>1, <3>2 DEF EngineOK
  <2>3. HandlersOK'
    BY <1>4 DEF Restart, HandlersOK, Steps, Said, NoNumber, Numbers, NoRound, Rounds
  <2>4. LockOK'
    <3>1. \A h \in Handlers : pc'[h] = "idle" /\ lock' # h
      BY <1>4, ConstantsAssumption DEF Restart
    <3> QED BY <3>1 DEF LockOK, Joining
  <2> QED BY <2>1, <2>2, <2>3, <2>4 DEF TypeOK
<1>5. CASE UNCHANGED vars
  <2>1. LogOK' /\ EngineOK' /\ HandlersOK' /\ HistoryOK' /\ LockOK'
    BY <1>0, <1>5, Zenon DEF vars, commands, LogOK, EngineOK, HandlersOK, HistoryOK, LockOK
  <2> QED BY <2>1 DEF TypeOK
<1> QED BY <1>1, <1>2, <1>3, <1>4, <1>5, TypeHandler, Zenon DEF Next, Command

(* Types, for all handlers, and the lock: only the handler that is joining  *)
(* a round holds it.                                                        *)
THEOREM TypeCorrect == Spec => []TypeOK
<1>1. Init => OrderInv
  BY DEF Init, OrderInv
<1> QED BY <1>1, TypeInit, TypeStep, OrderStep, PTL DEF Spec

-----------------------------------------------------------------------------
(* Steps by what they do to rows, numbers and rounds.                       *)
Pending == {"append", "append_reply"}
After   == {"number_reply", "append_reply", "remember"}

(* No handler takes a number, finds a round or sends one.                   *)
Handled ==
  \A h \in Handlers :
    /\ pc'[h] \in Pending => pc'[h] = pc[h] /\ number'[h] = number[h]
    /\ pc'[h] \in Joining => pc[h] \in Joining /\ found'[h] = found[h]
    /\ pc'[h] = "send" => pc[h] = "send"
    /\ pc'[h] \in After <=> pc[h] \in After

Remembered == UNCHANGED <<last, life, joins, suppressed>>
Counted    == UNCHANGED <<causalSeq, era>>

Calm == Handled /\ Remembered /\ Counted /\ UNCHANGED <<rows, written>>

Appending(h, row) ==
  /\ Handled /\ Remembered /\ Counted
  /\ Appended(row) /\ row \in Rows /\ row.id = written + 1 /\ row.number = number[h]
  /\ row.cutoff = NoNumber \/ (pc[h] = "append_reply" /\ row.cutoff = found[h].latest)
  /\ pc[h] \in Pending /\ pc'[h] \notin Pending

LEMMA HandledMove ==
  ASSUME HandlersOK, NEW h \in Handlers, NEW step,
         pc' = [pc EXCEPT ![h] = step], step \notin Pending, step # "send",
         step \in Joining => pc[h] \in Joining, step \in After <=> pc[h] \in After,
         \A g \in Handlers : g # h => number'[g] = number[g] /\ found'[g] = found[g],
         step \in Joining => found'[h] = found[h]
  PROVE  Handled
<1>1. \A g \in Handlers : pc'[g] = IF g = h THEN step ELSE pc[g]
  BY DEF HandlersOK
<1> QED BY <1>1, Zenon DEF Handled

LEMMA HandledLeave ==
  ASSUME HandlersOK, NEW h \in Handlers, Leave(h), pc[h] \notin After
  PROVE  Handled
<1>1. /\ pc' = [pc EXCEPT ![h] = "idle"]
      /\ \A g \in Handlers : g # h => number'[g] = number[g] /\ found'[g] = found[g]
  BY DEF Leave, Goto, HandlersOK
<1>2. "idle" \notin Pending /\ "idle" \notin Joining /\ "idle" \notin After /\ "idle" # "send"
  BY DEF Pending, Joining, After
<1> QED BY <1>1, <1>2, HandledMove

LEMMA HandledSame ==
  ASSUME UNCHANGED <<pc, number, found>>
  PROVE  Handled
BY Zenon DEF Handled, After, Joining

LEMMA SortedHandler ==
  ASSUME TypeOK, NEW h \in Handlers, Handler(h)
  PROVE  \/ Calm \/ \E row \in Rows : Appending(h, row)
         \/ Number(h) \/ NumberReply(h)
         \/ Evaluate(h) \/ Suppress(h) \/ Send(h) \/ Remember(h)
<1>0. HandlersOK /\ LogOK
  BY DEF TypeOK
<1> USE DEF log, engine, commands, history
<1>1. ASSUME NEW m \in Said, NEW try \in BOOLEAN, Arrive(h, m, try) PROVE Calm
  <2>1. Remembered /\ Counted /\ UNCHANGED <<rows, written, number, found>> /\ pc' = [pc EXCEPT ![h] = "number"] /\ pc[h] = "idle"
    BY <1>1, Zenon DEF Arrive, Goto, Remembered, Counted
  <2>2. "number" \notin Pending /\ "number" \notin Joining /\ "number" \notin After /\ "number" # "send" /\ "idle" \notin After
    BY DEF Pending, Joining, After
  <2>3. Handled
    BY <1>0, <2>1, <2>2, HandledMove
  <2> QED BY <2>1, <2>3, Zenon DEF Calm
<1>2. ASSUME Ask(h) \/ Miss(h) PROVE Calm
  <2>1. Remembered /\ Counted /\ UNCHANGED <<rows, written>>
    BY <1>2, Zenon DEF Ask, Miss, Remembered, Counted
  <2>2. pc[h] \notin After
    BY <1>2 DEF Ask, Miss, After
  <2>3. CASE Leave(h)
    BY <1>0, <2>1, <2>2, <2>3, HandledLeave DEF Calm
  <2>4. CASE ~Leave(h)
    <3>1. pc' = [pc EXCEPT ![h] = "look"] /\ UNCHANGED <<number, found>>
      BY <1>2, <2>4, Zenon DEF Ask, Miss, Goto
    <3>2. "look" \notin Pending /\ "look" \notin Joining /\ "look" \notin After /\ "look" # "send"
      BY DEF Pending, Joining, After
    <3>3. Handled
      BY <1>0, <2>2, <3>1, <3>2, HandledMove
    <3> QED BY <2>1, <3>3, Zenon DEF Calm
  <2> QED BY <2>3, <2>4
<1>3. ASSUME NEW stored \in BOOLEAN, AppendMessage(h, stored)
      PROVE  Calm \/ \E row \in Rows : Appending(h, row)
  <2>1. Remembered /\ Counted /\ pc[h] \in Pending /\ pc[h] \notin After /\ pc[h] \notin Joining
    BY <1>3 DEF AppendMessage, Remembered, Counted, Pending, After, Joining
  <2>2. /\ "ask" \notin Pending /\ "ask" \notin Joining /\ "ask" \notin After /\ "ask" # "send"
        /\ "idle" \notin Pending
    BY DEF Pending, Joining, After
  <2>3. Handled /\ pc'[h] \notin Pending
    <3>1. CASE Leave(h)
      <4>1. pc'[h] = "idle"
        BY <1>0, <3>1 DEF Leave, Goto, HandlersOK
      <4> QED BY <1>0, <2>1, <2>2, <3>1, <4>1, HandledLeave
    <3>2. CASE ~Leave(h)
      <4>1. pc' = [pc EXCEPT ![h] = "ask"] /\ UNCHANGED <<number, found>>
        BY <1>3, <3>2, Zenon DEF AppendMessage, Goto
      <4>2. pc'[h] = "ask"
        BY <1>0, <4>1 DEF HandlersOK
      <4>3. Handled
        BY <1>0, <2>1, <2>2, <4>1, HandledMove
      <4> QED BY <2>2, <4>2, <4>3
    <3> QED BY <3>1, <3>2
  <2>4. CASE stored
    <3> DEFINE row == Row(message[h], number[h], NoNumber)
    <3>1. NoNumber \in Numbers /\ message[h] \in Said /\ number[h] \in Numbers
      BY <1>0 DEF HandlersOK, NoNumber, Numbers
    <3>2. row \in Rows /\ row.id = written + 1 /\ row.number = number[h] /\ row.cutoff = NoNumber
      BY <3>1, RowIs
    <3>3. Appended(row)
      BY <1>3, <2>4, Zenon DEF AppendMessage
    <3> HIDE DEF row
    <3>4. Appending(h, row)
      BY <2>1, <2>3, <3>2, <3>3, Zenon DEF Appending
    <3> QED BY <3>2, <3>4
  <2>5. CASE ~stored
    <3>1. UNCHANGED <<rows, written>>
      BY <1>3, <2>5, Zenon DEF AppendMessage
    <3> QED BY <2>1, <2>3, <3>1, Zenon DEF Calm
  <2> QED BY <2>4, <2>5
<1>4. ASSUME NEW stored \in BOOLEAN, AppendReply(h, stored)
      PROVE  Calm \/ \E row \in Rows : Appending(h, row)
  <2>1. /\ Remembered /\ Counted /\ pc[h] = "append_reply"
        /\ pc' = [pc EXCEPT ![h] = "remember"] /\ UNCHANGED <<number, found>>
    BY <1>4, Zenon DEF AppendReply, Goto, Remembered, Counted
  <2>2. /\ "remember" \notin Pending /\ "remember" \in Joining /\ "remember" \in After /\ "remember" # "send"
        /\ "append_reply" \in Joining /\ "append_reply" \in After /\ "append_reply" \in Pending
    BY DEF Pending, Joining, After
  <2>3. Handled
    BY <1>0, <2>1, <2>2, HandledMove
  <2>4. pc'[h] = "remember"
    BY <1>0, <2>1 DEF HandlersOK
  <2>5. CASE stored
    <3> DEFINE row == Row(NoMessage, number[h], found[h].latest)
    <3>1. NoMessage \in Said /\ number[h] \in Numbers /\ found[h].latest \in Numbers
      BY <1>0 DEF HandlersOK, Said, Rounds
    <3>2. row \in Rows /\ row.id = written + 1 /\ row.number = number[h] /\ row.cutoff = found[h].latest
      BY <3>1, RowIs
    <3>3. Appended(row)
      BY <1>4, <2>5, Zenon DEF AppendReply
    <3> HIDE DEF row
    <3>4. Appending(h, row)
      BY <2>1, <2>2, <2>3, <2>4, <3>2, <3>3, Zenon DEF Appending
    <3> QED BY <3>2, <3>4
  <2>6. CASE ~stored
    <3>1. UNCHANGED <<rows, written>>
      BY <1>4, <2>6, Zenon DEF AppendReply
    <3> QED BY <2>1, <2>3, <3>1, Zenon DEF Calm
  <2> QED BY <2>5, <2>6
<1> QED BY <1>1, <1>2, <1>3, <1>4, Zenon DEF Handler, TryRepeat

(* Commands that leave rows, numbers and rounds alone are calm, too.        *)
LEMMA SortedStep ==
  ASSUME TypeOK, [Next]_vars
  PROVE  \/ Calm \/ Clear \/ ClearRows \/ ClearStats \/ Restart
         \/ \E h \in Handlers : \/ \E row \in Rows : Appending(h, row)
                                \/ Number(h) \/ NumberReply(h)
                                \/ Evaluate(h) \/ Suppress(h) \/ Send(h) \/ Remember(h)
<1> USE DEF log, engine, handlers, history
<1>1. RepeatOn \/ RepeatOff \/ ReloadConfig \/ UNCHANGED vars
      => UNCHANGED <<pc, number, found>> /\ Remembered /\ Counted /\ UNCHANGED <<rows, written>>
  BY Zenon DEF RepeatOn, RepeatOff, ReloadConfig, vars, Remembered, Counted
<1>2. RepeatOn \/ RepeatOff \/ ReloadConfig \/ UNCHANGED vars => Calm
  BY <1>1, HandledSame, Zenon DEF Calm
<1> QED BY <1>2, SortedHandler, Zenon DEF Next, Command

-----------------------------------------------------------------------------
(* Causal numbers.                                                          *)

(* A number that has been given out.                                        *)
Used(n) == n \in Numbers /\ n.era <= era /\ (n.era = era => n.seq <= causalSeq)

NumberInv ==
  /\ \A r \in AllRows : Used(r.number)
  /\ \A i, j \in DOMAIN rows : i # j => rows[i].number # rows[j].number
  /\ \A h \in Handlers : pc[h] \in Pending =>
       /\ Used(number[h])
       /\ \A r \in AllRows : r.number # number[h]
       /\ \A g \in Handlers : g # h /\ pc[g] \in Pending => number[g] # number[h]

(* A used number stays used; the next one has not been.                     *)
LEMMA UsedKept ==
  ASSUME LogOK, NEW n, Used(n),
         \/ Counted
         \/ causalSeq' = causalSeq + 1 /\ UNCHANGED era
         \/ causalSeq' = 0 /\ era' = era + 1
  PROVE  Used(n)'
BY DEF LogOK, Used, Counted, Numbers

LEMMA NextIsNew ==
  ASSUME LogOK, NEW next, next = NextNumber
  PROVE  /\ next \in Numbers /\ \A n : Used(n) => n # next
         /\ next.era = era /\ \A n : Used(n) /\ n.era = next.era => n.seq < next.seq
         /\ causalSeq' = causalSeq + 1 /\ UNCHANGED era => Used(next)'
<1>1. next \in Numbers /\ next.era = era /\ next.seq = causalSeq + 1 /\ causalSeq \in Nat
  BY DEF LogOK, NextNumber, Numbers
<1>2. ~Used(next)
  BY <1>1 DEF Used
<1>3. causalSeq' = causalSeq + 1 /\ UNCHANGED era => Used(next)'
  BY <1>1 DEF Used, Numbers
<1>4. \A n : Used(n) /\ n.era = next.era => n.seq < next.seq
  BY <1>1 DEF Used, Numbers
<1> QED BY <1>1, <1>2, <1>3, <1>4, Zenon

LEMMA CountsGrow ==
  ASSUME TypeOK, [Next]_vars, NEW n, Used(n)
  PROVE  Used(n)'
<1>0. LogOK
  BY DEF TypeOK
<1> USE DEF log, engine, handlers, history, commands
<1>1. ASSUME NEW h \in Handlers,
             \/ \E row \in Rows : Appending(h, row)
             \/ Number(h) \/ NumberReply(h)
             \/ Evaluate(h) \/ Suppress(h) \/ Send(h) \/ Remember(h)
      PROVE  Counted \/ (causalSeq' = causalSeq + 1 /\ UNCHANGED era)
  BY <1>1, Zenon DEF Appending, Number, NumberReply, Evaluate, Suppress, Send, Remember, Counted
<1>2. Calm \/ Clear \/ ClearRows => Counted
  BY Zenon DEF Calm, Clear, ClearRows, Counted
<1>3. ClearStats \/ Restart => causalSeq' = 0 /\ era' = era + 1
  BY Zenon DEF ClearStats, Restart
<1>4. \/ Counted
      \/ causalSeq' = causalSeq + 1 /\ UNCHANGED era
      \/ causalSeq' = 0 /\ era' = era + 1
  BY <1>1, <1>2, <1>3, SortedStep, Zenon
<1> QED BY <1>0, <1>4, UsedKept

LEMMA NumberStep == TypeOK /\ OrderInv /\ NumberInv /\ [Next]_vars => NumberInv'
<1> SUFFICES ASSUME TypeOK, OrderInv, NumberInv, [Next]_vars PROVE NumberInv'
  OBVIOUS
<1>0. LogOK /\ HandlersOK /\ AllRows \subseteq Rows /\ \A n : Used(n) => Used(n)'
  BY RowsAre, CountsGrow DEF TypeOK
<1>1. ASSUME Handled, UNCHANGED rows PROVE NumberInv'
  <2>1. ASSUME NEW h \in Handlers, pc'[h] \in Pending
        PROVE  pc[h] \in Pending /\ number'[h] = number[h]
    BY <1>1, <2>1, Zenon DEF Handled
  <2>2. AllRows' = AllRows
    BY <1>1 DEF AllRows
  <2>3. ASSUME NEW h \in Handlers, pc'[h] \in Pending
        PROVE  /\ Used(number[h])' /\ number'[h] = number[h] /\ Used(number[h]) /\ \A r \in AllRows : r.number # number[h]
               /\ \A g \in Handlers : g # h /\ pc'[g] \in Pending => number'[g] # number[h]
    <3>1. Used(number[h]) /\ pc[h] \in Pending /\ number'[h] = number[h]
      BY <2>1, <2>3, Zenon DEF NumberInv
    <3>2. \A n : n = number[h] => Used(n)'
      BY <1>0, <3>1, Zenon
    <3>3. Used(number[h])'
      BY <3>1, <3>2, Zenon
    <3> QED BY <2>1, <3>1, <3>3, Zenon DEF NumberInv
  <2> QED BY <1>0, <1>1, <2>2, <2>3, Zenon DEF NumberInv
<1>2. ASSUME rows' = <<>>, UNCHANGED <<pc, number>> PROVE NumberInv'
  <2>1. AllRows' = {}
    BY <1>2 DEF AllRows
  <2>2. ASSUME NEW h \in Handlers, pc'[h] \in Pending
        PROVE  Used(number[h])'
    <3>1. Used(number[h]) /\ number'[h] = number[h]
      BY <1>2, <2>2, Zenon DEF NumberInv
    <3>2. \A n : n = number[h] => Used(n)'
      BY <1>0, <3>1, Zenon
    <3> QED BY <3>1, <3>2, Zenon
  <2>3. DOMAIN rows' = {}
    BY <1>2
  <2> QED BY <1>2, <2>1, <2>2, <2>3, Zenon DEF NumberInv
<1>3. ASSUME NEW h \in Handlers, NEW row \in Rows, Appending(h, row) PROVE NumberInv'
  <2>1. /\ Handled /\ rows' = Append(rows, row) /\ row.number = number[h]
        /\ pc[h] \in Pending /\ pc'[h] \notin Pending
    BY <1>3, Zenon DEF Appending, Appended
  <2>2. /\ AllRows' = AllRows \cup {row} /\ DOMAIN rows' = (1..Len(rows)) \cup {Len(rows) + 1}
        /\ \A i \in 1..Len(rows) : rows'[i] = rows[i] /\ rows[i] \in AllRows
        /\ DOMAIN rows = 1..Len(rows)
        /\ rows'[Len(rows) + 1] = row
    BY <1>0, <2>1, RowsAppended, RowsAre DEF AllRows
  <2>3. Used(row.number) /\ \A r \in AllRows : r.number # row.number
    BY <2>1, Zenon DEF NumberInv
  <2>4. \A r \in AllRows' : Used(r.number)'
    BY <1>0, <2>2, <2>3, Zenon DEF NumberInv
  <2>5. \A i, j \in DOMAIN rows' : i # j => rows'[i].number # rows'[j].number
    BY <2>2, <2>3, Zenon DEF NumberInv
  <2>6. ASSUME NEW g \in Handlers, pc'[g] \in Pending
        PROVE  /\ number'[g] = number[g] /\ pc[g] \in Pending /\ g # h /\ Used(number[g])
               /\ number[g] # row.number
    BY <2>1, <2>6, Zenon DEF Handled, NumberInv
  <2>7. ASSUME NEW g \in Handlers, pc'[g] \in Pending
        PROVE  /\ Used(number[g])' /\ \A r \in AllRows' : r.number # number'[g]
               /\ \A f \in Handlers : f # g /\ pc'[f] \in Pending => number'[f] # number'[g]
    <3>1. \A n : n = number[g] => Used(n)'
      BY <1>0, <2>6, <2>7, Zenon
    <3>2. Used(number[g])'
      BY <2>6, <2>7, <3>1, Zenon
    <3>3. \A r \in AllRows' : r.number # number'[g]
      BY <2>2, <2>6, <2>7, Zenon DEF NumberInv
    <3>4. \A f \in Handlers : f # g /\ pc'[f] \in Pending => number'[f] # number'[g]
      BY <2>6, <2>7, Zenon DEF NumberInv
    <3> QED BY <3>2, <3>3, <3>4
  <2> QED BY <2>4, <2>5, <2>7, Zenon DEF NumberInv
<1>4. ASSUME NEW h \in Handlers, Number(h) \/ NumberReply(h) PROVE NumberInv'
  <2> DEFINE next == NextNumber
  <2>1. /\ number' = [number EXCEPT ![h] = next] /\ causalSeq' = causalSeq + 1
        /\ UNCHANGED <<rows, era>>
    BY <1>4, Zenon DEF Number, NumberReply
  <2>2. PICK step : pc' = [pc EXCEPT ![h] = step]
    BY <1>4, Zenon DEF Number, NumberReply, Goto
  <2>3. \A g \in Handlers : /\ number'[g] = IF g = h THEN next ELSE number[g]
                            /\ g # h => pc'[g] = pc[g]
    BY <1>0, <2>1, <2>2 DEF HandlersOK
  <2>4. (\A n : Used(n) => n # next) /\ \A n : n = next => Used(n)'
    BY <1>0, <2>1, NextIsNew
  <2> HIDE DEF next
  <2>5. AllRows' = AllRows
    BY <2>1 DEF AllRows
  <2>6. ASSUME NEW g \in Handlers, pc'[g] \in Pending
        PROVE  /\ Used(number[g])' /\ \A r \in AllRows : r.number # number'[g]
               /\ \A f \in Handlers : f # g /\ pc'[f] \in Pending => number'[f] # number'[g]
    <3>1. CASE g = h
      <4>1. number'[g] = next
        BY <2>3, <3>1
      <4>2. Used(number[g])'
        BY <2>4, <4>1, Zenon
      <4> QED BY <2>3, <2>4, <3>1, <4>1, <4>2, Zenon DEF NumberInv
    <3>2. CASE g # h
      <4>1. number'[g] = number[g] /\ pc[g] \in Pending /\ Used(number[g])
        BY <2>3, <2>6, <3>2, Zenon DEF NumberInv
      <4>2. \A n : n = number[g] => Used(n)'
        BY <1>0, <4>1, Zenon
      <4>3. Used(number[g])'
        BY <4>1, <4>2, Zenon
      <4> QED BY <2>3, <2>4, <3>2, <4>1, <4>3, Zenon DEF NumberInv
    <3> QED BY <3>1, <3>2
  <2> QED BY <1>0, <2>1, <2>5, <2>6, Zenon DEF NumberInv
<1>5. ASSUME NEW h \in Handlers, Evaluate(h) \/ Suppress(h) \/ Send(h) \/ Remember(h) PROVE NumberInv'
  <2>1. UNCHANGED rows
    BY <1>5, Zenon DEF Evaluate, Suppress, Send, Remember, log
  <2>2. PICK step : pc' = [pc EXCEPT ![h] = step] /\ step \notin Pending
    <3>1. "send" \notin Pending /\ "idle" \notin Pending /\ "number_reply" \notin Pending
      BY DEF Pending
    <3> QED BY <1>5, <3>1, Zenon DEF Evaluate, Suppress, Send, Remember, Goto, Leave
  <2>3. \A g \in Handlers : g # h => number'[g] = number[g]
    BY <1>0, <1>5 DEF Evaluate, Suppress, Send, Remember, Leave, HandlersOK
  <2>4. \A g \in Handlers : pc'[g] = IF g = h THEN step ELSE pc[g]
    BY <1>0, <2>2 DEF HandlersOK
  <2>5. AllRows' = AllRows
    BY <2>1 DEF AllRows
  <2>6. ASSUME NEW g \in Handlers, pc'[g] \in Pending
        PROVE  /\ Used(number[g])' /\ \A r \in AllRows : r.number # number'[g]
               /\ \A f \in Handlers : f # g /\ pc'[f] \in Pending => number'[f] # number'[g]
    <3>1. g # h /\ number'[g] = number[g] /\ pc[g] \in Pending /\ Used(number[g])
      BY <2>2, <2>3, <2>4, <2>6, Zenon DEF NumberInv
    <3>2. \A n : n = number[g] => Used(n)'
      BY <1>0, <3>1, Zenon
    <3>3. Used(number[g])'
      BY <3>1, <3>2, Zenon
    <3> QED BY <2>2, <2>3, <2>4, <3>1, <3>3, Zenon DEF NumberInv
  <2> QED BY <1>0, <2>1, <2>5, <2>6, Zenon DEF NumberInv
<1>6. CASE Calm
  BY <1>1, <1>6, Zenon DEF Calm
<1>7. CASE Clear \/ ClearStats
  BY <1>1, <1>7, HandledSame, Zenon DEF Clear, ClearStats, log, handlers
<1>8. CASE ClearRows
  BY <1>1, <1>2, <1>8, HandledSame DEF ClearRows, handlers
<1>9. CASE Restart
  <2>1. UNCHANGED rows /\ \A h \in Handlers : pc'[h] = "idle"
    BY <1>9 DEF Restart
  <2>2. "idle" \notin Pending /\ AllRows' = AllRows
    BY <2>1 DEF Pending, AllRows
  <2> QED BY <1>0, <2>1, <2>2, Zenon DEF NumberInv
<1> QED BY <1>3, <1>4, <1>5, <1>6, <1>7, <1>8, <1>9, SortedStep, Zenon

-----------------------------------------------------------------------------
(* What a step does to rows, to pending numbers and to rounds.              *)
LEMMA RowsMove ==
  ASSUME TypeOK, [Next]_vars
  PROVE  \/ UNCHANGED <<rows, written>>
         \/ rows' = <<>> /\ UNCHANGED written
         \/ \E h \in Handlers : \E row \in Rows : Appending(h, row)
<1>1. ASSUME NEW h \in Handlers,
             Number(h) \/ NumberReply(h) \/ Evaluate(h) \/ Suppress(h) \/ Send(h) \/ Remember(h)
      PROVE  UNCHANGED <<rows, written>>
  BY <1>1, Zenon DEF Number, NumberReply, Evaluate, Suppress, Send, Remember, log
<1>2. Calm \/ Clear \/ ClearStats \/ Restart => UNCHANGED <<rows, written>>
  BY Zenon DEF Calm, Clear, ClearStats, Restart, log
<1>3. ClearRows => (rows' = <<>> \/ rows' = rows) /\ UNCHANGED written
  BY DEF ClearRows
<1> QED BY <1>1, <1>2, <1>3, SortedStep, Zenon

LEMMA PendingMove ==
  ASSUME TypeOK, [Next]_vars, NEW h \in Handlers, pc'[h] \in Pending
  PROVE  \/ pc[h] \in Pending /\ number'[h] = number[h]
         \/ \A n : Used(n) => number'[h] # n
<1>0. HandlersOK /\ LogOK
  BY DEF TypeOK
<1>1. Handled => pc[h] \in Pending /\ number'[h] = number[h]
  BY Zenon DEF Handled
<1>2. ASSUME NEW g \in Handlers, Number(g) \/ NumberReply(g)
      PROVE  \/ pc[h] \in Pending /\ number'[h] = number[h]
             \/ \A n : Used(n) => number'[h] # n
  <2>1. number' = [number EXCEPT ![g] = NextNumber]
    BY <1>2, Zenon DEF Number, NumberReply
  <2>2. PICK step : pc' = [pc EXCEPT ![g] = step]
    BY <1>2, Zenon DEF Number, NumberReply, Goto
  <2>3. CASE g = h
    <3>1. number'[h] = NextNumber
      BY <1>0, <2>1, <2>3 DEF HandlersOK
    <3> QED BY <1>0, <3>1, NextIsNew
  <2>4. CASE g # h
    BY <1>0, <2>1, <2>2, <2>4 DEF HandlersOK
  <2> QED BY <2>3, <2>4
<1>3. ASSUME NEW g \in Handlers, Evaluate(g) \/ Suppress(g) \/ Send(g) \/ Remember(g)
      PROVE  pc[h] \in Pending /\ number'[h] = number[h]
  <2>1. PICK step : pc' = [pc EXCEPT ![g] = step] /\ step \notin Pending
    <3>1. "send" \notin Pending /\ "idle" \notin Pending /\ "number_reply" \notin Pending
      BY DEF Pending
    <3> QED BY <1>3, <3>1, Zenon DEF Evaluate, Suppress, Send, Remember, Goto, Leave
  <2>2. g # h => number'[h] = number[h]
    BY <1>0, <1>3 DEF Evaluate, Suppress, Send, Remember, Leave, HandlersOK
  <2>3. pc'[h] = IF g = h THEN step ELSE pc[h]
    BY <1>0, <2>1 DEF HandlersOK
  <2> QED BY <2>1, <2>2, <2>3
<1>4. Clear \/ ClearRows \/ ClearStats => Handled
  BY HandledSame, Zenon DEF Clear, ClearRows, ClearStats, handlers
<1>5. ~Restart
  <2>1. Restart => pc'[h] = "idle"
    BY DEF Restart
  <2> QED BY <2>1 DEF Pending
<1>6. Calm \/ (\E g \in Handlers : \E row \in Rows : Appending(g, row)) => Handled
  BY Zenon DEF Calm, Appending
<1> QED BY <1>1, <1>2, <1>3, <1>4, <1>5, <1>6, SortedStep, Zenon

(* Rounds, joins and the engine's memory stay; who is joining stays so.     *)
Steady ==
  /\ UNCHANGED <<last, life, joins>>
  /\ \A h \in Handlers :
       /\ pc'[h] \in Joining => pc[h] \in Joining /\ found'[h] = found[h]
       /\ pc'[h] = "send" => pc[h] = "send"
       /\ pc'[h] \in After <=> pc[h] \in After

LEMMA SteadyMove ==
  ASSUME TypeOK, [Next]_vars
  PROVE  \/ Steady /\ UNCHANGED suppressed
         \/ Clear \/ Restart
         \/ \E h \in Handlers : Evaluate(h) \/ (Suppress(h) /\ Steady) \/ Send(h) \/ Remember(h)
<1>0. HandlersOK
  BY DEF TypeOK
<1> USE DEF log, engine, handlers, history, commands
<1>1. Handled /\ Remembered => Steady /\ UNCHANGED suppressed
  BY Zenon DEF Handled, Remembered, Steady
<1>2. Calm \/ (\E g \in Handlers : \E row \in Rows : Appending(g, row)) => Handled /\ Remembered
  BY Zenon DEF Calm, Appending
<1>3. ClearRows \/ ClearStats => Handled /\ Remembered
  BY HandledSame, Zenon DEF ClearRows, ClearStats, Remembered
<1>4. ASSUME NEW h \in Handlers, Number(h) \/ NumberReply(h) PROVE Steady /\ UNCHANGED suppressed
  <2>1. UNCHANGED <<last, life, joins, found, suppressed>>
    BY <1>4, Zenon DEF Number, NumberReply
  <2>2. PICK step : /\ pc' = [pc EXCEPT ![h] = step] /\ step # "send"
                    /\ step \in Joining <=> pc[h] \in Joining
                    /\ step \in After <=> pc[h] \in After
    <3>1. Number(h) => /\ pc' = [pc EXCEPT ![h] = "append"] /\ pc[h] \notin Joining /\ pc[h] \notin After
                       /\ "append" \notin Joining /\ "append" \notin After
      BY DEF Number, Goto, Joining, After
    <3>2. NumberReply(h) => /\ pc' = [pc EXCEPT ![h] = "append_reply"] /\ pc[h] \in Joining /\ pc[h] \in After
                            /\ "append_reply" \in Joining /\ "append_reply" \in After
      BY DEF NumberReply, Goto, Joining, After
    <3> QED BY <1>4, <3>1, <3>2
  <2>3. \A g \in Handlers : pc'[g] = IF g = h THEN step ELSE pc[g]
    BY <1>0, <2>2 DEF HandlersOK
  <2> QED BY <2>1, <2>2, <2>3, Zenon DEF Steady
<1>5. ASSUME NEW h \in Handlers, Suppress(h) PROVE Steady
  <2>1. UNCHANGED <<last, life, joins>> /\ Leave(h) /\ pc[h] = "look"
    BY <1>5, Zenon DEF Suppress
  <2>2. pc[h] \notin After
    BY <2>1 DEF After
  <2>3. Handled
    BY <1>0, <2>1, <2>2, HandledLeave
  <2> QED BY <2>1, <2>3, Zenon DEF Handled, Steady
<1> QED BY <1>1, <1>2, <1>3, <1>4, <1>5, SortedStep, Zenon

-----------------------------------------------------------------------------
(* A round somebody found.  Its number and the identifier of its first row  *)
(* in view mean one row for ever, in the log or not.                        *)
Known(round) ==
  /\ Used(round.start) /\ Used(round.latest) /\ round.shown <= written
  /\ \A r \in AllRows : r.number = round.start \/ r.id = round.shown
       => r.number = round.start /\ r.id = round.shown /\ r.text = round.text
  /\ \A h \in Handlers : pc[h] \in Pending => number[h] # round.start

KnownInv ==
  /\ last.text # Nobody => Known(last)
  /\ \A h \in Handlers : pc[h] \in Joining => Known(found[h]) /\ found[h].text # Nobody

LEMMA OneRow ==
  ASSUME LogOK, OrderInv, NumberInv, NEW q \in AllRows, NEW r \in AllRows,
         q.id = r.id \/ q.number = r.number
  PROVE  q = r
<1>1. PICK i \in DOMAIN rows, j \in DOMAIN rows : q = rows[i] /\ r = rows[j]
  BY Zenon DEF AllRows
<1>2. i \in Nat /\ j \in Nat /\ q.id \in Nat /\ r.id \in Nat
  BY RowsAre DEF Rows
<1>3. q.number = r.number => i = j
  BY <1>1, Zenon DEF NumberInv
<1>4. q.id = r.id => ~(i < j) /\ ~(j < i)
  BY <1>1, <1>2 DEF OrderInv
<1> QED BY <1>1, <1>2, <1>3, <1>4

LEMMA KnownKept ==
  ASSUME TypeOK, OrderInv, NumberInv, [Next]_vars, NEW round \in Rounds, Known(round)
  PROVE  Known(round)'
<1>0. LogOK /\ round.shown \in Nat /\ written \in Nat /\ round.shown <= written
  BY DEF TypeOK, LogOK, Rounds, Known
<1>1. Used(round.start)' /\ Used(round.latest)'
  <2>1. \A n : Used(n) => Used(n)'
    BY CountsGrow
  <2>2. Used(round.start) /\ Used(round.latest)
    BY Zenon DEF Known
  <2> QED BY <2>1, <2>2, Zenon
<1>2. ASSUME NEW h \in Handlers, pc'[h] \in Pending PROVE number'[h] # round.start
  <2>1. Used(round.start) /\ \A g \in Handlers : pc[g] \in Pending => number[g] # round.start
    BY Zenon DEF Known
  <2>2. \/ pc[h] \in Pending /\ number'[h] = number[h]
        \/ \A n : Used(n) => number'[h] # n
    BY <1>2, PendingMove
  <2> QED BY <2>1, <2>2, Zenon
<1>3. ASSUME UNCHANGED written, AllRows' \subseteq AllRows PROVE Known(round)'
  BY <1>0, <1>1, <1>2, <1>3, Zenon DEF Known
<1>4. ASSUME NEW h \in Handlers, NEW row \in Rows, Appending(h, row) PROVE Known(round)'
  <2>1. rows' = Append(rows, row) /\ written' = written + 1 /\ row.id = written + 1 /\ row.number = number[h] /\ pc[h] \in Pending
    BY <1>4, Zenon DEF Appending, Appended
  <2>2. AllRows' = AllRows \cup {row}
    BY <1>0, <2>1, RowsAppended
  <2>3. row.number # round.start /\ row.id # round.shown
    <3>1. row.number # round.start
      BY <2>1, Zenon DEF Known
    <3>2. row.id # round.shown
      BY <1>0, <2>1
    <3> QED BY <3>1, <3>2
  <2>4. round.shown <= written'
    BY <1>0, <2>1
  <2> QED BY <1>1, <1>2, <2>2, <2>3, <2>4, Zenon DEF Known
<1>5. rows' = <<>> => AllRows' = {}
  BY DEF AllRows
<1>6. UNCHANGED rows => AllRows' = AllRows
  BY DEF AllRows
<1> QED BY <1>3, <1>4, <1>5, <1>6, RowsMove

LEMMA RoundKnown ==
  ASSUME TypeOK, OrderInv, NumberInv, IsRound(Run(View)), NEW round, round = Round(Run(View))
  PROVE  round \in Rounds /\ Known(round) /\ round.text # Nobody
<1>0. LogOK /\ AllRows \subseteq Rows
  BY RowsAre DEF TypeOK
<1>1. PICK r \in AllRows : round.text = r.text /\ round.start = r.number /\ round.shown = r.id
  BY <1>0, RoundIs
<1>2. PICK l \in AllRows : round.latest = l.number
  BY <1>0, RoundIs
<1>3. Used(round.start) /\ Used(round.latest)
  BY <1>1, <1>2, Zenon DEF NumberInv
<1>4. round.shown <= written
  BY <1>0, <1>1 DEF OrderInv, AllRows, LogOK
<1>5. \A q \in AllRows : q.number = round.start \/ q.id = round.shown
        => q.number = round.start /\ q.id = round.shown /\ q.text = round.text
  BY <1>0, <1>1, OneRow
<1>6. \A h \in Handlers : pc[h] \in Pending => number[h] # round.start
  BY <1>1, Zenon DEF NumberInv
<1> QED BY <1>0, <1>3, <1>4, <1>5, <1>6, RoundIs DEF Known

LEMMA KnownStep == TypeOK /\ OrderInv /\ NumberInv /\ KnownInv /\ [Next]_vars => KnownInv'
<1> SUFFICES ASSUME TypeOK, OrderInv, NumberInv, KnownInv, [Next]_vars PROVE KnownInv'
  OBVIOUS
<1>0. /\ HandlersOK /\ last \in Rounds /\ \A h \in Handlers : found[h] \in Rounds
      /\ \A round \in Rounds : Known(round) => Known(round)'
  BY KnownKept DEF TypeOK, HandlersOK, EngineOK
<1>1. ASSUME NEW h \in Handlers, pc[h] \in Joining PROVE Known(found[h]) /\ found[h].text # Nobody /\ found[h] \in Rounds
  BY <1>0, <1>1, Zenon DEF KnownInv
<1>2. ASSUME last' = last PROVE last'.text # Nobody => Known(last)'
  <2>1. last.text # Nobody => \A round : round = last => Known(round)'
    BY <1>0, Zenon DEF KnownInv
  <2> QED BY <1>2, <2>1, Zenon
<1>3. ASSUME NEW h \in Handlers, pc[h] \in Joining, found'[h] = found[h]
      PROVE  Known(found[h])' /\ found'[h].text # Nobody
  <2>1. \A round : round = found[h] => Known(round)'
    BY <1>0, <1>1, <1>3, Zenon
  <2> QED BY <1>1, <1>3, <2>1, Zenon
<1>4. CASE Steady
  BY <1>2, <1>3, <1>4, Zenon DEF Steady, KnownInv
<1>5. CASE Clear \/ Restart
  <2>1. last' = NoRound
    BY <1>5, Zenon DEF Clear, Restart
  <2>2. \A h \in Handlers : pc'[h] \in Joining => pc[h] \in Joining /\ found'[h] = found[h]
    <3>1. Clear => UNCHANGED <<pc, found>>
      BY Zenon DEF Clear, handlers
    <3>2. Restart => \A h \in Handlers : pc'[h] = "idle"
      BY DEF Restart
    <3>3. "idle" \notin Joining
      BY DEF Joining
    <3> QED BY <1>5, <3>1, <3>2, <3>3, Zenon
  <2>3. last'.text = Nobody
    BY <2>1 DEF NoRound
  <2> QED BY <1>3, <2>2, <2>3, Zenon DEF KnownInv
<1>6. ASSUME NEW h \in Handlers, Evaluate(h) PROVE KnownInv'
  <2>1. /\ last' = last /\ pc' = [pc EXCEPT ![h] = "send"] /\ IsRound(Run(View))
        /\ found' = [found EXCEPT ![h] = Round(Run(View))]
    BY <1>6, Zenon DEF Evaluate, Goto, View
  <2>2. PICK round : round = Round(Run(View))
    OBVIOUS
  <2>3. Known(round)' /\ round.text # Nobody
    BY <1>0, <2>1, <2>2, RoundKnown
  <2>4. \A g \in Handlers : /\ pc'[g] = IF g = h THEN "send" ELSE pc[g]
                            /\ found'[g] = IF g = h THEN round ELSE found[g]
    BY <1>0, <2>1, <2>2 DEF HandlersOK
  <2>5. ASSUME NEW g \in Handlers, pc'[g] \in Joining PROVE Known(found[g])' /\ found'[g].text # Nobody
    <3>1. CASE g = h
      <4>1. found'[g] = round
        BY <2>4, <3>1
      <4> QED BY <2>3, <4>1, Zenon
    <3>2. CASE g # h
      BY <1>3, <2>4, <2>5, <3>2, Zenon
    <3> QED BY <3>1, <3>2
  <2> QED BY <1>2, <2>1, <2>5, Zenon DEF KnownInv
<1>7. ASSUME NEW h \in Handlers, Send(h) PROVE KnownInv'
  <2>1. last' = last /\ pc' = [pc EXCEPT ![h] = "number_reply"] /\ found' = found /\ pc[h] = "send"
    BY <1>7, Zenon DEF Send, Goto, engine
  <2>2. pc[h] \in Joining /\ \A g \in Handlers : g # h => pc'[g] = pc[g]
    BY <1>0, <2>1 DEF HandlersOK, Joining
  <2> QED BY <1>2, <1>3, <2>1, <2>2, Zenon DEF KnownInv
<1>8. ASSUME NEW h \in Handlers, Remember(h) PROVE KnownInv'
  <2>1. last' = found[h] /\ Leave(h) /\ pc[h] = "remember"
    BY <1>8, Zenon DEF Remember
  <2>2. pc[h] \in Joining /\ "idle" \notin Joining
    BY <2>1 DEF Joining
  <2>3. \A g \in Handlers : /\ pc'[g] = IF g = h THEN "idle" ELSE pc[g]
                            /\ g # h => found'[g] = found[g]
    BY <1>0, <2>1 DEF Leave, Goto, HandlersOK
  <2>4. Known(last)'
    <3>1. \A round : round = found[h] => Known(round)'
      BY <1>0, <1>1, <2>2, Zenon
    <3> QED BY <2>1, <3>1, Zenon
  <2> QED BY <1>3, <2>2, <2>3, <2>4, Zenon DEF KnownInv
<1> QED BY <1>4, <1>5, <1>6, <1>7, <1>8, SteadyMove, Zenon

LEMMA SetUp == Init => OrderInv /\ NumberInv /\ KnownInv
<1> SUFFICES ASSUME Init PROVE OrderInv /\ NumberInv /\ KnownInv
  OBVIOUS
<1>1. rows = <<>> /\ AllRows = {} /\ last.text = Nobody /\ \A h \in Handlers : pc[h] = "idle"
  BY DEF Init, AllRows, NoRound
<1>2. "idle" \notin Pending /\ "idle" \notin Joining
  BY DEF Pending, Joining
<1> QED BY <1>1, <1>2 DEF OrderInv, NumberInv, KnownInv

Base == TypeOK /\ OrderInv /\ NumberInv /\ KnownInv

LEMMA BaseKept == Spec => []Base
<1>1. Base /\ [Next]_vars => Base'
  BY TypeStep, OrderStep, NumberStep, KnownStep, Zenon DEF Base
<1>2. Init => Base
  BY TypeInit, SetUp DEF Base
<1> QED BY <1>1, <1>2, PTL DEF Spec

-----------------------------------------------------------------------------
(* A reply and the row it answers: the row was in the log, with its number, *)
(* before the reply took its own.                                           *)
Later(n, cutoff) == cutoff.era = n.era => cutoff.seq < n.seq

CutoffInv ==
  /\ \A r \in AllRows : r.cutoff # NoNumber => Later(r.number, r.cutoff)
  /\ \A h \in Handlers : pc[h] = "append_reply" => Later(number[h], found[h].latest)

LEMMA CutoffStep == Base /\ CutoffInv /\ [Next]_vars => CutoffInv'
<1> SUFFICES ASSUME Base, CutoffInv, [Next]_vars PROVE CutoffInv'
  OBVIOUS
<1>0. TypeOK /\ LogOK /\ HandlersOK
  BY DEF Base, TypeOK
<1>1. ASSUME NEW r \in AllRows', r.cutoff # NoNumber PROVE Later(r.number, r.cutoff)
  <2>1. CASE AllRows' \subseteq AllRows
    BY <1>1, <2>1, Zenon DEF CutoffInv
  <2>2. ASSUME NEW h \in Handlers, NEW row \in Rows, Appending(h, row) PROVE Later(r.number, r.cutoff)
    <3>1. AllRows' = AllRows \cup {row}
      BY <1>0, <2>2, RowsAppended DEF Appending, Appended
    <3>2. CASE r \in AllRows
      BY <1>1, <3>2, Zenon DEF CutoffInv
    <3>3. CASE r = row
      BY <1>1, <2>2, <3>3, Zenon DEF Appending, CutoffInv
    <3> QED BY <3>1, <3>2, <3>3
  <2>3. (UNCHANGED rows => AllRows' = AllRows) /\ (rows' = <<>> => AllRows' = {})
    BY DEF AllRows
  <2> QED BY <1>0, <2>1, <2>2, <2>3, RowsMove
<1>2. ASSUME NEW h \in Handlers, pc'[h] = "append_reply" PROVE Later(number'[h], found'[h].latest)
  <2>0. "append_reply" \in Pending /\ "append_reply" \in Joining /\ "append" # "append_reply" /\ "append" \notin Joining
    BY DEF Pending, Joining
  <2>1. ASSUME Handled PROVE Later(number'[h], found'[h].latest)
    BY <1>2, <2>0, <2>1, Zenon DEF Handled, CutoffInv
  <2>2. ASSUME NEW g \in Handlers, Number(g) \/ NumberReply(g) PROVE Later(number'[h], found'[h].latest)
    <3>1. number' = [number EXCEPT ![g] = NextNumber] /\ found' = found
      BY <2>2, Zenon DEF Number, NumberReply
    <3>2. CASE g = h
      <4>1. NumberReply(h)
        <5>1. Number(h) => pc'[h] = "append"
          BY <1>0 DEF Number, Goto, HandlersOK
        <5> QED BY <1>2, <2>0, <2>2, <3>2, <5>1, Zenon
      <4>2. pc[h] \in Joining
        BY <4>1 DEF NumberReply, Joining
      <4>3. Used(found[h].latest)
        BY <4>2, Zenon DEF Base, KnownInv, Known
      <4>4. number'[h] = NextNumber
        BY <1>0, <3>1, <3>2 DEF HandlersOK
      <4>5. \A n : Used(n) /\ n.era = number'[h].era => n.seq < number'[h].seq
        BY <1>0, <4>4, NextIsNew
      <4> QED BY <3>1, <4>3, <4>5, Zenon DEF Later
    <3>3. CASE g # h
      <4>1. pc'[h] = pc[h] /\ number'[h] = number[h]
        BY <1>0, <2>2, <3>1, <3>3 DEF Number, NumberReply, Goto, HandlersOK
      <4> QED BY <1>2, <3>1, <4>1, Zenon DEF CutoffInv
    <3> QED BY <3>2, <3>3
  <2>3. ASSUME NEW g \in Handlers, Evaluate(g) \/ Suppress(g) \/ Send(g) \/ Remember(g)
        PROVE  Later(number'[h], found'[h].latest)
    <3>1. PICK step : pc' = [pc EXCEPT ![g] = step] /\ step # "append_reply"
      BY <2>3, Zenon DEF Evaluate, Suppress, Send, Remember, Goto, Leave
    <3>2. g # h /\ pc[h] = "append_reply"
      BY <1>0, <1>2, <3>1 DEF HandlersOK
    <3>3. number'[h] = number[h] /\ found'[h] = found[h]
      BY <1>0, <2>3, <3>2 DEF Evaluate, Suppress, Send, Remember, Leave, HandlersOK
    <3> QED BY <3>2, <3>3, Zenon DEF CutoffInv
  <2>4. Calm \/ (\E g \in Handlers : \E row \in Rows : Appending(g, row)) => Handled
    BY Zenon DEF Calm, Appending
  <2>5. Clear \/ ClearRows \/ ClearStats => Handled
    BY HandledSame, Zenon DEF Clear, ClearRows, ClearStats, handlers
  <2>6. ~Restart
    <3>1. Restart => pc'[h] = "idle"
      BY DEF Restart
    <3> QED BY <1>2, <3>1
  <2> QED BY <1>0, <2>1, <2>2, <2>3, <2>4, <2>5, <2>6, SortedStep, Zenon
<1> QED BY <1>1, <1>2, Zenon DEF CutoffInv

(* In whatever order handlers take numbers and append rows, and whatever    *)
(* restarts the counter, no two rows of one numbering share a number and a  *)
(* reply comes after what it answers.                                       *)
THEOREM NumbersAreCausal == Spec => []CausalOrder
<1>1. Init => CutoffInv
  <2>1. Init => AllRows = {} /\ \A h \in Handlers : pc[h] = "idle"
    BY DEF Init, AllRows
  <2> QED BY <2>1 DEF CutoffInv
<1>2. Base /\ CutoffInv => CausalOrder
  <2> SUFFICES ASSUME Base, CutoffInv PROVE CausalOrder
    OBVIOUS
  <2>1. \A i, j \in DOMAIN rows : i # j => rows[i].number # rows[j].number
    BY Zenon DEF Base, NumberInv
  <2>2. \A i \in DOMAIN rows : rows[i].cutoff # NoNumber /\ rows[i].cutoff.era = rows[i].number.era
          => rows[i].cutoff.seq < rows[i].number.seq
    BY Zenon DEF CutoffInv, AllRows, Later
  <2> QED BY <2>1, <2>2, Zenon DEF CausalOrder
<1> QED BY <1>1, <1>2, BaseKept, CutoffStep, PTL DEF Spec

-----------------------------------------------------------------------------
(* Joined rounds.  What the engine remembers, and what a handler has sent,  *)
(* has been joined.                                                         *)
HasJoined(id) == \E i \in DOMAIN joins : joins[i].shown = id

RefusedInv ==
  /\ last.text # Nobody => HasJoined(last.shown)
  /\ \A h \in Handlers : pc[h] \in After => HasJoined(found[h].shown)
  /\ SuppressedWasJoined

LEMMA JoinsGrow ==
  ASSUME HistoryOK, NEW join \in [shown : Nat, first : Nat, life : Nat], joins' = Append(joins, join)
  PROVE  /\ DOMAIN joins = 1..Len(joins) /\ Len(joins) \in Nat
         /\ DOMAIN joins' = 1..Len(joins) + 1
         /\ \A i \in DOMAIN joins : i \in DOMAIN joins' /\ joins'[i] = joins[i]
         /\ joins'[Len(joins) + 1] = join
<1>1. DOMAIN joins = 1..Len(joins) /\ Len(joins) \in Nat
  BY LenProperties DEF HistoryOK
<1>2. /\ DOMAIN joins' = 1..Len(joins) + 1
      /\ \A i \in 1..Len(joins) : joins'[i] = joins[i]
      /\ joins'[Len(joins) + 1] = join
  BY <1>1, AppendProperties DEF HistoryOK
<1> QED BY <1>1, <1>2

LEMMA JoinIs ==
  ASSUME TypeOK, NEW h \in Handlers, Send(h)
  PROVE  \E join \in [shown : Nat, first : Nat, life : Nat] :
           joins' = Append(joins, join) /\ join.shown = found[h].shown /\ join.life = life
<1> DEFINE join == [shown |-> found[h].shown, first |-> found[h].first, life |-> life]
<1>1. join \in [shown : Nat, first : Nat, life : Nat] /\ join.shown = found[h].shown /\ join.life = life
  BY DEF TypeOK, HandlersOK, EngineOK, Rounds
<1>2. joins' = Append(joins, join)
  BY Zenon DEF Send
<1> QED BY <1>1, <1>2

LEMMA RefusedStep == Base /\ RefusedInv /\ [Next]_vars => RefusedInv'
<1> SUFFICES ASSUME Base, RefusedInv, [Next]_vars PROVE RefusedInv'
  OBVIOUS
<1>0. TypeOK /\ LogOK /\ HandlersOK /\ HistoryOK /\ OrderInv /\ NumberInv /\ KnownInv
  BY DEF Base, TypeOK
<1>1. ASSUME UNCHANGED joins PROVE \A id : HasJoined(id)' <=> HasJoined(id)
  BY <1>1, Zenon DEF HasJoined
<1>2. SuppressedWasJoined <=> \A s \in suppressed : s.sameEra => HasJoined(s.shown)
  BY Zenon DEF SuppressedWasJoined, HasJoined
<1>3. ASSUME \A s \in suppressed' : s.sameEra => HasJoined(s.shown)' PROVE SuppressedWasJoined'
  BY <1>3, Zenon DEF SuppressedWasJoined, HasJoined
<1>4. ASSUME Steady
      PROVE  /\ last'.text # Nobody => HasJoined(last.shown)'
             /\ \A h \in Handlers : pc'[h] \in After => HasJoined(found[h].shown)'
  <2>1. UNCHANGED joins /\ last' = last
    BY <1>4, Zenon DEF Steady
  <2>2. After \subseteq Joining
    BY DEF After, Joining
  <2>3. ASSUME NEW h \in Handlers, pc'[h] \in After PROVE found'[h] = found[h] /\ pc[h] \in After
    BY <1>4, <2>2, <2>3, Zenon DEF Steady
  <2>4. ASSUME NEW h \in Handlers, pc'[h] \in After PROVE HasJoined(found[h].shown)'
    BY <2>1, <2>3, <2>4, Zenon DEF RefusedInv, HasJoined
  <2> QED BY <2>1, <2>4, Zenon DEF RefusedInv, HasJoined
<1>5. CASE Steady /\ UNCHANGED suppressed
  <2>1. UNCHANGED <<joins, suppressed>>
    BY <1>5, Zenon DEF Steady
  <2>2. SuppressedWasJoined'
    BY <2>1, Zenon DEF SuppressedWasJoined, RefusedInv
  <2> QED BY <1>4, <1>5, <2>2, Zenon DEF RefusedInv
<1>6. CASE Clear \/ Restart
  <2>1. UNCHANGED <<joins, suppressed>> /\ last' = NoRound
    BY <1>6, Zenon DEF Clear, Restart, history
  <2>2. NoRound.text = Nobody
    BY DEF NoRound
  <2>3. ASSUME NEW h \in Handlers, pc'[h] \in After PROVE HasJoined(found[h].shown)'
    <3>1. CASE Clear
      BY <2>1, <2>3, <3>1, Zenon DEF Clear, handlers, RefusedInv, HasJoined
    <3>2. CASE Restart
      <4>1. pc'[h] = "idle"
        BY <3>2 DEF Restart
      <4> QED BY <2>3, <4>1 DEF After
    <3> QED BY <1>6, <3>1, <3>2
  <2>4. SuppressedWasJoined'
    BY <2>1, Zenon DEF SuppressedWasJoined, RefusedInv
  <2> QED BY <2>1, <2>2, <2>3, <2>4, Zenon DEF RefusedInv
<1>7. ASSUME NEW h \in Handlers, Evaluate(h) PROVE RefusedInv'
  <2>1. UNCHANGED <<joins, suppressed, last>> /\ pc' = [pc EXCEPT ![h] = "send"]
    BY <1>7, Zenon DEF Evaluate, history, Goto
  <2>2. \A g \in Handlers : /\ pc'[g] = IF g = h THEN "send" ELSE pc[g]
                            /\ g # h => found'[g] = found[g]
    BY <1>0, <1>7, <2>1 DEF Evaluate, HandlersOK
  <2>3. "send" \notin After
    BY DEF After
  <2>4. ASSUME NEW g \in Handlers, pc'[g] \in After PROVE HasJoined(found[g].shown)'
    BY <2>1, <2>2, <2>3, <2>4, Zenon DEF RefusedInv, HasJoined
  <2>5. SuppressedWasJoined'
    BY <2>1, Zenon DEF SuppressedWasJoined, RefusedInv
  <2> QED BY <2>1, <2>4, <2>5, Zenon DEF RefusedInv, HasJoined
<1>8. ASSUME NEW h \in Handlers, Suppress(h), Steady PROVE RefusedInv'
  <2> DEFINE round == Round(Run(View))
  <2>1. /\ UNCHANGED joins /\ IsRound(Run(View)) /\ Joined(round)
        /\ suppressed' = suppressed \cup {[shown |-> round.shown, sameEra |-> round.start.era = last.start.era]}
    BY <1>8, Zenon DEF Suppress, View
  <2>2. round \in Rounds /\ round.text # Nobody
    BY <1>0, <2>1, RoundKnown
  <2>3. PICK r \in AllRows : round.start = r.number /\ round.shown = r.id
    BY <1>0, <2>1, RoundIs
  <2>4. round.text = last.text /\ round.start.seq = last.start.seq
    BY <2>1, Zenon DEF Joined
  <2> HIDE DEF round
  <2>5. Known(last) /\ HasJoined(last.shown)
    BY <1>0, <2>2, <2>4, Zenon DEF KnownInv, RefusedInv
  <2>6. ASSUME round.start.era = last.start.era PROVE HasJoined(round.shown)
    <3>1. round.start \in Numbers /\ last.start \in Numbers
      BY <1>0, <2>2 DEF Rounds, TypeOK, EngineOK
    <3>2. round.start = last.start
      BY <2>4, <2>6, <3>1 DEF Numbers
    <3>3. round.shown = last.shown
      BY <2>3, <2>5, <3>2, Zenon DEF Known
    <3> QED BY <2>5, <3>3
  <2>7. \A s \in suppressed' : s.sameEra => HasJoined(s.shown)'
    <3> SUFFICES ASSUME NEW s \in suppressed', s.sameEra PROVE HasJoined(s.shown)'
      OBVIOUS
    <3>1. CASE s \in suppressed
      BY <1>2, <2>1, <3>1, Zenon DEF RefusedInv, HasJoined
    <3>2. CASE s \notin suppressed
      <4>1. s = [shown |-> round.shown, sameEra |-> round.start.era = last.start.era]
        BY <2>1, <3>2
      <4>2. s.shown = round.shown /\ s.sameEra = (round.start.era = last.start.era)
        BY <4>1, Zenon
      <4>3. HasJoined(round.shown)
        BY <2>6, <4>2, Zenon
      <4> QED BY <2>1, <4>2, <4>3, Zenon DEF HasJoined
    <3> QED BY <3>1, <3>2
  <2> QED BY <1>3, <1>4, <1>8, <2>7, Zenon DEF RefusedInv
<1>9. ASSUME NEW h \in Handlers, Send(h) PROVE RefusedInv'
  <2>1. UNCHANGED <<suppressed, last, found>> /\ pc' = [pc EXCEPT ![h] = "number_reply"]
    BY <1>9, Zenon DEF Send, Goto, engine
  <2>2. PICK join \in [shown : Nat, first : Nat, life : Nat] :
          joins' = Append(joins, join) /\ join.shown = found[h].shown
    BY <1>0, <1>9, JoinIs
  <2>3. /\ \A i \in DOMAIN joins : i \in DOMAIN joins' /\ joins'[i] = joins[i]
        /\ Len(joins) + 1 \in DOMAIN joins' /\ joins'[Len(joins) + 1] = join
    BY <1>0, <2>2, JoinsGrow
  <2>4. (\A id : HasJoined(id) => HasJoined(id)') /\ HasJoined(found[h].shown)'
    BY <2>1, <2>2, <2>3, Zenon DEF HasJoined
  <2>5. \A g \in Handlers : g # h => pc'[g] = pc[g]
    BY <1>0, <2>1 DEF HandlersOK
  <2>6. ASSUME NEW g \in Handlers, pc'[g] \in After PROVE HasJoined(found[g].shown)'
    <3>1. CASE g = h
      BY <2>4, <3>1
    <3>2. CASE g # h
      <4>1. \A id : id = found[g].shown => HasJoined(id)'
        BY <2>4, <2>5, <2>6, <3>2, Zenon DEF RefusedInv
      <4> QED BY <2>1, <4>1, Zenon
    <3> QED BY <3>1, <3>2
  <2>7. last'.text # Nobody => HasJoined(last.shown)'
    <3>1. last.text # Nobody => \A id : id = last.shown => HasJoined(id)'
      BY <2>4, Zenon DEF RefusedInv
    <3> QED BY <2>1, <3>1, Zenon
  <2>8. SuppressedWasJoined'
    BY <1>2, <1>3, <2>1, <2>4, Zenon DEF RefusedInv
  <2> QED BY <2>6, <2>7, <2>8, Zenon DEF RefusedInv
<1>10. ASSUME NEW h \in Handlers, Remember(h) PROVE RefusedInv'
  <2>1. UNCHANGED <<joins, suppressed>> /\ last' = found[h] /\ Leave(h) /\ pc[h] = "remember"
    BY <1>10, Zenon DEF Remember, history
  <2>2. pc[h] \in After /\ "idle" \notin After
    BY <2>1 DEF After
  <2>3. \A g \in Handlers : /\ pc'[g] = IF g = h THEN "idle" ELSE pc[g]
                            /\ g # h => found'[g] = found[g]
    BY <1>0, <2>1 DEF Leave, Goto, HandlersOK
  <2>4. ASSUME NEW g \in Handlers, pc'[g] \in After PROVE HasJoined(found[g].shown)'
    BY <2>1, <2>2, <2>3, <2>4, Zenon DEF RefusedInv, HasJoined
  <2>5. HasJoined(last.shown)'
    BY <2>1, <2>2, Zenon DEF RefusedInv, HasJoined
  <2>6. SuppressedWasJoined'
    BY <2>1, Zenon DEF SuppressedWasJoined, RefusedInv
  <2> QED BY <2>4, <2>5, <2>6, Zenon DEF RefusedInv
<1> QED BY <1>0, <1>5, <1>6, <1>7, <1>8, <1>9, <1>10, SteadyMove, Zenon

(* The engine refuses a round as joined only after the bot joined it: the   *)
(* two fields it remembers of a round name one row, until /llm clear or a   *)
(* restart starts the numbering again.                                      *)
THEOREM OnlyJoinedIsRefused == Spec => []SuppressedWasJoined
<1>1. Init => RefusedInv
  <2>1. Init => last.text = Nobody /\ suppressed = {} /\ \A h \in Handlers : pc[h] = "idle"
    BY DEF Init, NoRound
  <2> QED BY <2>1 DEF RefusedInv, SuppressedWasJoined, After
<1>2. RefusedInv => SuppressedWasJoined
  BY DEF RefusedInv
<1> QED BY <1>1, <1>2, BaseKept, RefusedStep, PTL DEF Spec

-----------------------------------------------------------------------------
(* A round the bot joins is newer than those it joined before: what the     *)
(* engine sees never goes back behind a round it saw.                       *)
Ahead(n) == \A r \in Run(View) : n <= r.id

AheadInv ==
  /\ Ahead(last.shown) /\ (last.text = Nobody => last.shown = 0)
  /\ \A h \in Handlers : pc[h] \in Joining => Ahead(found[h].shown)

(* A new row pushes old ones out of view and may end the run.               *)
LEMMA RunAppended ==
  ASSUME LogOK, OrderInv, NEW row \in Rows, rows' = Append(rows, row)
  PROVE  Run(View)' \subseteq Run(View) \cup {row}
<1>1. /\ Len(rows) \in Nat /\ DOMAIN rows = 1..Len(rows)
      /\ Len(rows)' = Len(rows) + 1 /\ DOMAIN rows' = 1..Len(rows) + 1
      /\ \A i \in 1..Len(rows) : rows'[i] = rows[i]
      /\ rows'[Len(rows) + 1] = row
  BY RowsAre, RowsAppended
<1>2. ScanLimit \in Nat /\ ScanLimit > 0
  BY ConstantsAssumption
<1>3. SUFFICES ASSUME NEW r \in Run(View)', r # row PROVE r \in Run(View)
  OBVIOUS
<1>4. /\ r \in View' /\ r.text # Nobody
      /\ \A q \in View' : q.text # Nobody /\ q.id >= r.id => q.text = r.text
  BY Zenon DEF Run
<1>5. PICK i \in 1..Len(rows) + 1 : i + ScanLimit > Len(rows) + 1 /\ r = rows'[i]
  <2>1. View' = {rows'[k] : k \in {j \in 1..Len(rows) + 1 : j + ScanLimit > Len(rows) + 1}}
    BY <1>1 DEF View, Listed
  <2> QED BY <1>4, <2>1
<1>6. i \in 1..Len(rows) /\ r = rows[i] /\ r \in View
  <2>1. i # Len(rows) + 1
    BY <1>1, <1>3, <1>5
  <2>2. i \in 1..Len(rows) /\ i + ScanLimit > Len(rows)
    BY <1>1, <1>2, <1>5, <2>1
  <2>3. r = rows[i]
    BY <1>1, <1>5, <2>2
  <2> QED BY <1>1, <2>2, <2>3 DEF View, Listed
<1>7. ASSUME NEW q \in View, q.text # Nobody, q.id >= r.id PROVE q.text = r.text
  <2>1. PICK j \in 1..Len(rows) : q = rows[j]
    BY <1>1 DEF View, Listed
  <2>2. q.id \in Nat /\ r.id \in Nat
    BY <1>6, <1>7, RowsAre DEF Rows
  <2>3. ~(j < i)
    <3>1. j < i => q.id < r.id
      BY <1>1, <1>6, <2>1 DEF OrderInv
    <3> QED BY <1>7, <2>2, <3>1
  <2>4. j \in 1..Len(rows) + 1 /\ j + ScanLimit > Len(rows) + 1 /\ rows'[j] = q
    BY <1>1, <1>2, <1>5, <1>6, <2>1, <2>3
  <2>5. q \in View'
    BY <1>1, <2>4 DEF View, Listed
  <2> QED BY <1>4, <1>7, <2>5
<1> QED BY <1>4, <1>6, <1>7, Zenon DEF Run

LEMMA AheadKept ==
  ASSUME TypeOK, OrderInv, [Next]_vars, NEW n \in Nat, n <= written, Ahead(n)
  PROVE  Ahead(n)'
<1>0. LogOK /\ written \in Nat
  BY DEF TypeOK, LogOK
<1>1. CASE UNCHANGED rows
  BY <1>1 DEF Ahead, View, Listed, Run
<1>2. CASE rows' = <<>>
  <2>1. View' = {}
    BY <1>2 DEF View, Listed
  <2>2. Run(View)' = {}
    BY <2>1 DEF Run
  <2> QED BY <2>2, Zenon DEF Ahead
<1>3. ASSUME NEW h \in Handlers, NEW row \in Rows, Appending(h, row) PROVE Ahead(n)'
  <2>1. rows' = Append(rows, row) /\ row.id = written + 1
    BY <1>3, Zenon DEF Appending, Appended
  <2>2. Run(View)' \subseteq Run(View) \cup {row}
    BY <1>0, <2>1, RunAppended
  <2>3. n <= row.id
    BY <1>0, <2>1
  <2> QED BY <2>2, <2>3, Zenon DEF Ahead
<1> QED BY <1>1, <1>2, <1>3, RowsMove, Zenon

LEMMA AheadStep == Base /\ AheadInv /\ [Next]_vars => AheadInv'
<1> SUFFICES ASSUME Base, AheadInv, [Next]_vars PROVE AheadInv'
  OBVIOUS
<1>0. TypeOK /\ LogOK /\ HandlersOK /\ OrderInv /\ NumberInv /\ KnownInv
  BY DEF Base, TypeOK
<1>1. last.shown \in Nat /\ last.shown <= written /\ Ahead(last.shown)
  <2>1. last.shown \in Nat /\ written \in Nat
    BY <1>0 DEF TypeOK, EngineOK, LogOK, Rounds
  <2>2. last.text = Nobody => last.shown = 0
    BY DEF AheadInv
  <2>3. last.text # Nobody => last.shown <= written
    BY <1>0, Zenon DEF KnownInv, Known
  <2> QED BY <2>1, <2>2, <2>3 DEF AheadInv
<1>2. ASSUME NEW h \in Handlers, pc[h] \in Joining PROVE \A n : n = found[h].shown => Ahead(n)'
  <2>1. found[h].shown \in Nat /\ found[h].shown <= written /\ Ahead(found[h].shown)
    <3>1. found[h].shown \in Nat
      BY <1>0 DEF HandlersOK, Rounds
    <3> QED BY <1>0, <1>2, <3>1, Zenon DEF KnownInv, Known, AheadInv
  <2>2. \A n \in Nat : n <= written /\ Ahead(n) => Ahead(n)'
    BY <1>0, AheadKept
  <2> QED BY <2>1, <2>2, Zenon
<1>3. \A n : n = last.shown => Ahead(n)'
  <2>1. \A n \in Nat : n <= written /\ Ahead(n) => Ahead(n)'
    BY <1>0, AheadKept
  <2> QED BY <1>1, <2>1, Zenon
<1>4. last' = last => Ahead(last.shown)' /\ (last'.text = Nobody => last'.shown = 0)
  BY <1>3, Zenon DEF AheadInv
<1>5. ASSUME NEW h \in Handlers, pc[h] \in Joining, found'[h] = found[h] PROVE Ahead(found[h].shown)'
  BY <1>2, <1>5, Zenon
<1>6. CASE Steady
  BY <1>4, <1>5, <1>6, Zenon DEF Steady, AheadInv
<1>7. CASE Clear \/ Restart
  <2>1. last' = NoRound /\ NoRound.shown = 0 /\ NoRound.text = Nobody
    BY <1>7 DEF Clear, Restart, NoRound
  <2>2. \A h \in Handlers : pc'[h] \in Joining => pc[h] \in Joining /\ found'[h] = found[h]
    <3>1. Clear => UNCHANGED <<pc, found>>
      BY Zenon DEF Clear, handlers
    <3>2. Restart => \A h \in Handlers : pc'[h] = "idle"
      BY DEF Restart
    <3>3. "idle" \notin Joining
      BY DEF Joining
    <3> QED BY <1>7, <3>1, <3>2, <3>3, Zenon
  <2>3. \A n : n = 0 => Ahead(n)'
    <3>1. UNCHANGED rows /\ AllRows \subseteq Rows
      BY <1>0, <1>7, RowsAre, Zenon DEF Clear, Restart, log
    <3>2. \A r \in AllRows' : 0 <= r.id
      BY <3>1 DEF AllRows, Rows
    <3>3. Run(View)' \subseteq AllRows'
      BY DEF Run, View, Listed, AllRows
    <3> QED BY <3>2, <3>3, Zenon DEF Ahead
  <2>4. Ahead(last.shown)'
    BY <2>1, <2>3, Zenon
  <2> QED BY <1>5, <2>1, <2>2, <2>4, Zenon DEF AheadInv
<1>8. ASSUME NEW h \in Handlers, Evaluate(h) PROVE AheadInv'
  <2>1. /\ last' = last /\ pc' = [pc EXCEPT ![h] = "send"] /\ IsRound(Run(View)) /\ UNCHANGED rows
        /\ found' = [found EXCEPT ![h] = Round(Run(View))]
    BY <1>8, Zenon DEF Evaluate, Goto, View, log
  <2>2. PICK round : round = Round(Run(View))
    OBVIOUS
  <2>3. Ahead(round.shown)'
    <3>1. Run(View)' = Run(View)
      BY <2>1 DEF Run, View, Listed
    <3>2. \A q \in Run(View) : round.shown <= q.id
      BY <1>0, <2>1, <2>2, RoundIs
    <3> QED BY <3>1, <3>2, Zenon DEF Ahead
  <2>4. \A g \in Handlers : /\ pc'[g] = IF g = h THEN "send" ELSE pc[g]
                            /\ found'[g] = IF g = h THEN round ELSE found[g]
    BY <1>0, <2>1, <2>2 DEF HandlersOK
  <2>5. ASSUME NEW g \in Handlers, pc'[g] \in Joining PROVE Ahead(found[g].shown)'
    <3>1. CASE g = h
      <4>1. found'[g] = round
        BY <2>4, <3>1
      <4> QED BY <2>3, <4>1, Zenon
    <3>2. CASE g # h
      BY <1>5, <2>4, <2>5, <3>2, Zenon
    <3> QED BY <3>1, <3>2
  <2> QED BY <1>4, <2>1, <2>5, Zenon DEF AheadInv
<1>9. ASSUME NEW h \in Handlers, Send(h) PROVE AheadInv'
  <2>1. last' = last /\ pc' = [pc EXCEPT ![h] = "number_reply"] /\ found' = found /\ pc[h] = "send"
    BY <1>9, Zenon DEF Send, Goto, engine
  <2>2. pc[h] \in Joining /\ \A g \in Handlers : g # h => pc'[g] = pc[g]
    BY <1>0, <2>1 DEF HandlersOK, Joining
  <2> QED BY <1>4, <1>5, <2>1, <2>2, Zenon DEF AheadInv
<1>10. ASSUME NEW h \in Handlers, Remember(h) PROVE AheadInv'
  <2>1. last' = found[h] /\ Leave(h) /\ pc[h] = "remember"
    BY <1>10, Zenon DEF Remember
  <2>2. pc[h] \in Joining /\ "idle" \notin Joining
    BY <2>1 DEF Joining
  <2>3. \A g \in Handlers : /\ pc'[g] = IF g = h THEN "idle" ELSE pc[g]
                            /\ g # h => found'[g] = found[g]
    BY <1>0, <2>1 DEF Leave, Goto, HandlersOK
  <2>4. Ahead(last.shown)'
    BY <1>2, <2>1, <2>2, Zenon
  <2>5. last'.text # Nobody
    BY <1>0, <2>1, <2>2, Zenon DEF KnownInv
  <2> QED BY <1>5, <2>2, <2>3, <2>4, <2>5, Zenon DEF AheadInv
<1> QED BY <1>0, <1>6, <1>7, <1>8, <1>9, <1>10, SteadyMove, Zenon

-----------------------------------------------------------------------------
(* Rounds joined once.  Nobody joins: the round remembered is the newest of *)
(* this life; after it is sent it is the newest; before, it is newer still. *)
Settled(n) == \A j \in DOMAIN joins : joins[j].life = life => joins[j].shown <= n
Newer(n)   == \A j \in DOMAIN joins : joins[j].life = life => joins[j].shown < n

JoinInv ==
  /\ \A j \in DOMAIN joins : joins[j].life <= life
  /\ (\A h \in Handlers : pc[h] \notin After) => Settled(last.shown)
  /\ \A h \in Handlers : pc[h] \in After => Settled(found[h].shown)
  /\ \A h \in Handlers : pc[h] = "send" => Newer(found[h].shown)
  /\ RoundJoinedOnce

LEMMA JoinsTyped ==
  ASSUME HistoryOK, NEW j \in DOMAIN joins
  PROVE  joins[j].shown \in Nat /\ joins[j].life \in Nat
<1>1. joins[j] \in [shown : Nat, first : Nat, life : Nat]
  BY ElementOfSeq, LenProperties DEF HistoryOK
<1> QED BY <1>1

LEMMA RoundIsNewer ==
  ASSUME Base, AheadInv, IsRound(Run(View)), ~Joined(Round(Run(View)))
  PROVE  last.shown < Round(Run(View)).shown
<1> DEFINE round == Round(Run(View))
<1>0. TypeOK /\ LogOK /\ OrderInv /\ NumberInv /\ KnownInv
  BY DEF Base, TypeOK
<1>1. round \in Rounds /\ round.text # Nobody /\ last \in Rounds
  BY <1>0, RoundKnown DEF TypeOK, EngineOK
<1>2. PICK r \in AllRows : round.text = r.text /\ round.start = r.number /\ round.shown = r.id
  BY <1>0, RoundIs
<1>3. ~(round.text = last.text /\ round.start.seq = last.start.seq)
  BY Zenon DEF Joined
<1> HIDE DEF round
<1>4. last.text # Nobody => round.shown # last.shown
  <2> SUFFICES ASSUME last.text # Nobody, round.shown = last.shown PROVE FALSE
    OBVIOUS
  <2>1. r.number = last.start /\ r.text = last.text
    BY <1>0, <1>2, Zenon DEF KnownInv, Known
  <2> QED BY <1>2, <1>3, <2>1, Zenon
<1>5. r.id \in Nat /\ r.id > 0
  BY <1>0, <1>2 DEF OrderInv, AllRows, LogOK
<1>6. last.shown <= round.shown
  <2>1. PICK q \in Run(View) : q.id = round.shown
    <3>1. View \subseteq AllRows
      BY <1>0, RowsAre
    <3>2. Run(View) # {}
      BY Zenon DEF IsRound
    <3>3. Earliest(Run(View)) \in Run(View)
      BY <1>0, <3>1, <3>2, RunIs
    <3>4. round.shown = Earliest(Run(View)).id
      BY DEF Round, round
    <3> QED BY <3>3, <3>4
  <2> QED BY <2>1, Zenon DEF AheadInv, Ahead
<1>7. last.text = Nobody => last.shown = 0
  BY DEF AheadInv
<1>8. last.shown < round.shown
  BY <1>1, <1>2, <1>4, <1>5, <1>6, <1>7 DEF Rounds
<1> QED BY <1>8 DEF round

LEMMA JoinStep == Base /\ AheadInv /\ JoinInv /\ [Next]_vars => JoinInv'
<1> SUFFICES ASSUME Base, AheadInv, JoinInv, [Next]_vars PROVE JoinInv'
  OBVIOUS
<1>0. TypeOK /\ HandlersOK /\ HistoryOK /\ LockOK /\ life \in Nat
  BY DEF Base, TypeOK, EngineOK
<1>1. After \subseteq Joining /\ "send" \in Joining /\ "send" \notin After /\ "idle" \notin Joining
  BY DEF After, Joining
<1>2. ASSUME UNCHANGED <<joins, life>>
      PROVE  /\ \A n : (Settled(n)' <=> Settled(n)) /\ (Newer(n)' <=> Newer(n))
             /\ RoundJoinedOnce' /\ \A j \in DOMAIN joins' : joins'[j].life <= life'
  BY <1>2, Zenon DEF Settled, Newer, RoundJoinedOnce, JoinInv
<1>3. CASE Steady
  <2>1. UNCHANGED <<joins, life, last>>
    BY <1>3, Zenon DEF Steady
  <2>2. ASSUME NEW h \in Handlers, pc'[h] \in After PROVE Settled(found[h].shown)'
    BY <1>1, <1>2, <1>3, <2>1, <2>2, Zenon DEF Steady, JoinInv
  <2>3. ASSUME NEW h \in Handlers, pc'[h] = "send" PROVE Newer(found[h].shown)'
    BY <1>1, <1>2, <1>3, <2>1, <2>3, Zenon DEF Steady, JoinInv
  <2>4. (\A h \in Handlers : pc'[h] \notin After) => Settled(last.shown)'
    <3>1. \A h \in Handlers : pc'[h] \in After <=> pc[h] \in After
      BY <1>3, Zenon DEF Steady
    <3> QED BY <1>2, <2>1, <3>1, Zenon DEF JoinInv
  <2> QED BY <1>2, <2>1, <2>2, <2>3, <2>4, Zenon DEF JoinInv
<1>4. CASE Clear \/ Restart
  <2>1. UNCHANGED joins /\ life' = life + 1
    BY <1>4, Zenon DEF Clear, Restart, history
  <2>2. \A j \in DOMAIN joins : joins[j].life \in Nat /\ joins[j].life <= life
    BY <1>0, JoinsTyped, Zenon DEF JoinInv
  <2>3. \A j \in DOMAIN joins' : joins'[j].life <= life' /\ joins'[j].life # life'
    BY <1>0, <2>1, <2>2
  <2>4. \A n : Settled(n)' /\ Newer(n)'
    BY <2>3, Zenon DEF Settled, Newer
  <2>5. RoundJoinedOnce'
    BY <2>1, Zenon DEF RoundJoinedOnce, JoinInv
  <2> QED BY <2>3, <2>4, <2>5, Zenon DEF JoinInv
<1>5. ASSUME NEW h \in Handlers, Evaluate(h) PROVE JoinInv'
  <2>1. /\ UNCHANGED <<joins, life, last>> /\ pc' = [pc EXCEPT ![h] = "send"] /\ lock = Nobody
        /\ IsRound(Run(View)) /\ ~Joined(Round(Run(View)))
        /\ found' = [found EXCEPT ![h] = Round(Run(View))]
    BY <1>5, Zenon DEF Evaluate, Goto, View, history
  <2>2. \A g \in Handlers : pc[g] \notin Joining
    BY <1>0, <2>1, ConstantsAssumption, Zenon DEF LockOK
  <2>3. \A g \in Handlers : pc'[g] = IF g = h THEN "send" ELSE pc[g]
    BY <1>0, <2>1 DEF HandlersOK
  <2>4. \A g \in Handlers : pc[g] \notin After /\ pc'[g] \notin After
    BY <1>1, <2>2, <2>3, Zenon
  <2>5. Settled(last.shown)
    BY <2>4, Zenon DEF JoinInv
  <2>6. PICK n : n = Round(Run(View)).shown
    OBVIOUS
  <2>7. Newer(n)
    <3>1. last.shown < n /\ last.shown \in Nat /\ n \in Nat
      <4>1. Round(Run(View)) \in Rounds
        BY <2>1, RoundKnown DEF Base
      <4> QED BY <2>1, <2>6, <4>1, RoundIsNewer DEF Base, TypeOK, EngineOK, Rounds
    <3>2. \A j \in DOMAIN joins : joins[j].shown \in Nat
      BY <1>0, JoinsTyped
    <3> QED BY <2>5, <3>1, <3>2 DEF Settled, Newer
  <2>8. found'[h].shown = n
    BY <1>0, <2>1, <2>6 DEF HandlersOK
  <2>9. ASSUME NEW g \in Handlers, pc'[g] = "send" PROVE Newer(found[g].shown)'
    <3>1. g = h
      BY <1>1, <2>2, <2>3, <2>9, Zenon
    <3>2. Newer(n)'
      BY <1>2, <2>1, <2>7, Zenon
    <3> QED BY <2>8, <3>1, <3>2, Zenon
  <2>10. Settled(last.shown)'
    BY <1>2, <2>1, <2>5, Zenon
  <2> QED BY <1>2, <2>1, <2>4, <2>9, <2>10, Zenon DEF JoinInv
<1>6. ASSUME NEW h \in Handlers, Send(h) PROVE JoinInv'
  <2>1. UNCHANGED <<found, life>> /\ pc[h] = "send" /\ pc' = [pc EXCEPT ![h] = "number_reply"]
    BY <1>6, Zenon DEF Send, Goto, engine
  <2>2. PICK join \in [shown : Nat, first : Nat, life : Nat] :
          joins' = Append(joins, join) /\ join.shown = found[h].shown /\ join.life = life
    BY <1>0, <1>6, JoinIs
  <2>3. /\ DOMAIN joins = 1..Len(joins) /\ DOMAIN joins' = 1..Len(joins) + 1 /\ Len(joins) \in Nat
        /\ \A i \in DOMAIN joins : joins'[i] = joins[i]
        /\ joins'[Len(joins) + 1] = join
    BY <1>0, <2>2, JoinsGrow
  <2>4. Newer(join.shown)
    BY <2>1, <2>2, Zenon DEF JoinInv
  <2>5. \A j \in DOMAIN joins : joins[j].shown \in Nat
    BY <1>0, JoinsTyped
  <2>6. \A n : n = join.shown => Settled(n)'
    BY <2>1, <2>2, <2>3, <2>4, <2>5 DEF Settled, Newer
  <2>7. \A j \in DOMAIN joins' : joins'[j].life <= life'
    BY <1>0, <2>1, <2>2, <2>3 DEF JoinInv
  <2>8. RoundJoinedOnce'
    BY <2>2, <2>3, <2>4, <2>5 DEF RoundJoinedOnce, Newer, JoinInv
  <2>9. "number_reply" # "send" /\ "number_reply" \in After
    BY DEF After
  <2>10. \A g \in Handlers : /\ pc'[g] = IF g = h THEN "number_reply" ELSE pc[g]
                             /\ g # h => pc[g] \notin Joining
    BY <1>0, <1>1, <2>1 DEF HandlersOK, LockOK
  <2>11. ASSUME NEW g \in Handlers, pc'[g] \in After PROVE Settled(found[g].shown)'
    <3>1. g = h
      BY <1>1, <2>10, <2>11, Zenon
    <3> QED BY <2>1, <2>2, <2>6, <3>1, Zenon
  <2>12. (\E g \in Handlers : pc'[g] \in After) /\ \A g \in Handlers : pc'[g] # "send"
    BY <1>1, <2>9, <2>10, Zenon
  <2> QED BY <2>7, <2>8, <2>11, <2>12, Zenon DEF JoinInv
<1>7. ASSUME NEW h \in Handlers, Remember(h) PROVE JoinInv'
  <2>1. UNCHANGED <<joins, life>> /\ last' = found[h] /\ Leave(h) /\ pc[h] = "remember"
    BY <1>7, Zenon DEF Remember, history
  <2>2. pc[h] \in After
    BY <2>1 DEF After
  <2>3. \A g \in Handlers : pc'[g] = IF g = h THEN "idle" ELSE pc[g]
    BY <1>0, <2>1 DEF Leave, Goto, HandlersOK
  <2>4. \A g \in Handlers : pc'[g] \notin Joining
    BY <1>0, <1>1, <2>2, <2>3, Zenon DEF LockOK
  <2>5. Settled(last.shown)'
    BY <1>2, <2>1, <2>2, Zenon DEF JoinInv
  <2> QED BY <1>1, <1>2, <2>1, <2>4, <2>5, Zenon DEF JoinInv
<1> QED BY <1>0, <1>3, <1>4, <1>5, <1>6, <1>7, SteadyMove, Zenon

(* However many handlers look at the log at once, a round that the engine   *)
(* sees begin with the same row is joined once between two times the engine *)
(* forgets.                                                                 *)
THEOREM RoundsJoinedOnce == Spec => []RoundJoinedOnce
<1>1. Init => AheadInv /\ JoinInv
  <2> SUFFICES ASSUME Init PROVE AheadInv /\ JoinInv
    OBVIOUS
  <2>1. rows = <<>> /\ last.shown = 0 /\ joins = <<>> /\ \A h \in Handlers : pc[h] = "idle"
    BY DEF Init, NoRound
  <2>2. Run(View) = {}
    BY <2>1 DEF Run, View, Listed
  <2>3. AheadInv
    BY <2>1, <2>2 DEF AheadInv, Ahead, Joining
  <2>4. JoinInv
    BY <2>1 DEF JoinInv, Settled, Newer, RoundJoinedOnce, After
  <2> QED BY <2>3, <2>4
<1>2. JoinInv => RoundJoinedOnce
  BY DEF JoinInv
<1> QED BY <1>1, <1>2, BaseKept, AheadStep, JoinStep, PTL DEF Spec

=============================================================================
