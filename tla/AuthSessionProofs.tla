------------------------- MODULE AuthSessionProofs -------------------------
(***************************************************************************)
(* Proofs about the admin sessions.  TypeOK is inductive by itself; the     *)
(* others rest on StoreInv, which says how the version in memory, the row   *)
(* and the history of passphrases hang together.                            *)
(***************************************************************************)
EXTENDS AuthSession, SequenceTheorems, TLAPS

USE DEF memory, row, pairs, expiry, requests

(* The initial state is well-typed. *)
LEMMA TypeInit == Init => TypeOK
<1> SUFFICES ASSUME Init PROVE TypeOK
  OBVIOUS
<1>1. AnyPhrase \in Passphrases
  BY ConstantsAssumption DEF AnyPhrase
<1>2. phrases \in Seq(Passphrases)
  BY DEF Init
<1>3. StoreOK
  BY <1>1, <1>2 DEF Init, StoreOK
<1>4. PairsOK
  BY <1>1, ConstantsAssumption DEF Init, PairsOK, Issued, Pairs
<1>5. RequestsOK
  BY <1>1, ConstantsAssumption DEF Init, RequestsOK, Steps
<1> QED BY <1>3, <1>4, <1>5 DEF TypeOK

(* Every step keeps the types. *)
LEMMA TypeStep == TypeOK /\ [Next]_vars => TypeOK'
<1> SUFFICES ASSUME TypeOK, [Next]_vars PROVE TypeOK'
  OBVIOUS
<1>0. AnyPhrase \in Passphrases
  BY ConstantsAssumption DEF AnyPhrase
<1>1. ASSUME StartRow PROVE TypeOK'
  <2>1. StoreOK'
    BY <1>1, <1>0, ConstantsAssumption DEF TypeOK, StartRow, StoreOK
  <2>2. PairsOK'
    BY <1>1, <1>0, ConstantsAssumption DEF TypeOK, StartRow, PairsOK, Issued, Pairs
  <2>3. RequestsOK'
    BY <1>1, <1>0, ConstantsAssumption DEF TypeOK, StartRow, RequestsOK, Steps, Pairs
  <2> QED BY <2>1, <2>2, <2>3 DEF TypeOK
<1>2. ASSUME Crash PROVE TypeOK'
  <2>1. StoreOK'
    BY <1>2, <1>0, ConstantsAssumption DEF TypeOK, Crash, StoreOK
  <2>2. PairsOK'
    BY <1>2, <1>0, ConstantsAssumption DEF TypeOK, Crash, PairsOK, Issued, Pairs
  <2>3. RequestsOK'
    BY <1>2, <1>0, ConstantsAssumption DEF TypeOK, Crash, RequestsOK, Steps, Pairs
  <2> QED BY <2>1, <2>2, <2>3 DEF TypeOK
<1>3. ASSUME NEW configured \in Configured, StartKey(configured) PROVE TypeOK'
  <2>1. StoreOK'
    BY <1>3, <1>0, ConstantsAssumption DEF TypeOK, StartKey, StoreOK
  <2>2. PairsOK'
    BY <1>3, <1>0, ConstantsAssumption DEF TypeOK, StartKey, PairsOK, Issued, Pairs
  <2>3. RequestsOK'
    BY <1>3, <1>0, ConstantsAssumption DEF TypeOK, StartKey, RequestsOK, Steps, Pairs
  <2> QED BY <2>1, <2>2, <2>3 DEF TypeOK
<1>4. ASSUME NEW t \in Pairs, ExpireAccess(t) PROVE TypeOK'
  <2>1. StoreOK'
    BY <1>4, <1>0, ConstantsAssumption DEF TypeOK, ExpireAccess, StoreOK
  <2>2. PairsOK'
    BY <1>4, <1>0, ConstantsAssumption DEF TypeOK, ExpireAccess, PairsOK, Issued, Pairs
  <2>3. RequestsOK'
    BY <1>4, <1>0, ConstantsAssumption DEF TypeOK, ExpireAccess, RequestsOK, Steps, Pairs
  <2> QED BY <2>1, <2>2, <2>3 DEF TypeOK
<1>5. ASSUME NEW t \in Pairs, ExpireRefresh(t) PROVE TypeOK'
  <2>1. StoreOK'
    BY <1>5, <1>0, ConstantsAssumption DEF TypeOK, ExpireRefresh, StoreOK
  <2>2. PairsOK'
    BY <1>5, <1>0, ConstantsAssumption DEF TypeOK, ExpireRefresh, PairsOK, Issued, Pairs
  <2>3. RequestsOK'
    BY <1>5, <1>0, ConstantsAssumption DEF TypeOK, ExpireRefresh, RequestsOK, Steps, Pairs
  <2> QED BY <2>1, <2>2, <2>3 DEF TypeOK
<1>6. ASSUME NEW r \in Requests, NEW p \in Passphrases, Login(r, p) PROVE TypeOK'
  <2>1. StoreOK'
    BY <1>6, <1>0, ConstantsAssumption DEF TypeOK, Login, Idle, Goto, StoreOK
  <2>2. PairsOK'
    BY <1>6, <1>0, ConstantsAssumption DEF TypeOK, Login, Idle, Goto, PairsOK, Issued, Pairs
  <2>3. RequestsOK'
    BY <1>6, <1>0, ConstantsAssumption DEF TypeOK, Login, Idle, Goto, RequestsOK, Steps, Pairs, StoreOK
  <2> QED BY <2>1, <2>2, <2>3 DEF TypeOK
<1>7. ASSUME NEW r \in Requests, NEW t \in Pairs, Refresh(r, t) PROVE TypeOK'
  <2>1. StoreOK'
    BY <1>7, <1>0, ConstantsAssumption DEF TypeOK, Refresh, Idle, Goto, Accepted, Issued, PairsOK, StoreOK
  <2>2. PairsOK'
    BY <1>7, <1>0, ConstantsAssumption DEF TypeOK, Refresh, Idle, Goto, Accepted, Issued, PairsOK, Pairs
  <2>3. RequestsOK'
    BY <1>7, <1>0, ConstantsAssumption DEF TypeOK, Refresh, Idle, Goto, Accepted, Issued, PairsOK, RequestsOK, Steps, Pairs
  <2> QED BY <2>1, <2>2, <2>3 DEF TypeOK
<1>8. ASSUME NEW r \in Requests, NEW t \in Pairs, Authorize(r, t) PROVE TypeOK'
  <2>1. StoreOK'
    BY <1>8, <1>0, ConstantsAssumption DEF TypeOK, Authorize, Idle, Goto, StoreOK
  <2>2. PairsOK'
    BY <1>8, <1>0, ConstantsAssumption DEF TypeOK, Authorize, Idle, Goto, PairsOK, Issued, Pairs
  <2>3. RequestsOK'
    BY <1>8, <1>0, ConstantsAssumption DEF TypeOK, Authorize, Idle, Goto, RequestsOK, Steps, Pairs
  <2> QED BY <2>1, <2>2, <2>3 DEF TypeOK
<1>9. ASSUME NEW r \in Requests, Consume(r) PROVE TypeOK'
  <2>1. StoreOK'
    BY <1>9, <1>0, ConstantsAssumption DEF TypeOK, Consume, Goto, StoreOK
  <2>2. PairsOK'
    BY <1>9, <1>0, ConstantsAssumption DEF TypeOK, Consume, Goto, PairsOK, Issued, Pairs
  <2>3. RequestsOK'
    BY <1>9, <1>0, ConstantsAssumption DEF TypeOK, Consume, Goto, RequestsOK, Steps, Pairs
  <2> QED BY <2>1, <2>2, <2>3 DEF TypeOK
<1>10. ASSUME NEW r \in Requests, ConsumeRefused(r) PROVE TypeOK'
  <2>1. StoreOK'
    BY <1>10, <1>0, ConstantsAssumption DEF TypeOK, ConsumeRefused, Goto, Return, StoreOK
  <2>2. PairsOK'
    BY <1>10, <1>0, ConstantsAssumption DEF TypeOK, ConsumeRefused, Goto, Return, PairsOK, Issued, Pairs
  <2>3. RequestsOK'
    BY <1>10, <1>0, ConstantsAssumption DEF TypeOK, ConsumeRefused, Goto, Return, RequestsOK, Steps, Pairs
  <2> QED BY <2>1, <2>2, <2>3 DEF TypeOK
<1>11. ASSUME NEW r \in Requests, Issue(r) PROVE TypeOK'
  <2>1. StoreOK'
    BY <1>11, <1>0, ConstantsAssumption DEF TypeOK, Issue, Goto, Return, StoreOK
  <2>2. PairsOK'
    <3>1. ver' \in [Pairs -> Nat] /\ sealed' \in [Pairs -> Nat]
      BY <1>11 DEF TypeOK, Issue, StoreOK, PairsOK, RequestsOK
    <3>2. proof' \in [Pairs -> Passphrases]
      BY <1>11 DEF TypeOK, Issue, PairsOK, RequestsOK
    <3>3. login' \in [Pairs -> 0..MaxPairs]
      <4>1. token[r] \in Pairs \/ token[r] = 0
        BY DEF TypeOK, RequestsOK, Pairs
      <4>2. (IF token[r] = 0 THEN issued + 1 ELSE login[token[r]]) \in 0..MaxPairs
        BY <1>11, <4>1, ConstantsAssumption DEF TypeOK, Issue, PairsOK, Pairs
      <4> QED BY <1>11, <4>2 DEF TypeOK, Issue, PairsOK
    <3>4. issued' \in 0..MaxPairs /\ Issued \subseteq Issued' /\ issued + 1 \in Issued'
      BY <1>11, ConstantsAssumption DEF TypeOK, Issue, PairsOK, Issued
    <3>5. items' \subseteq Issued' /\ accessExpired' \subseteq Issued'
          /\ refreshExpired' \subseteq Issued'
      BY <1>11, <3>4 DEF TypeOK, Issue, PairsOK
    <3> QED BY <3>1, <3>2, <3>3, <3>4, <3>5 DEF PairsOK
  <2>3. RequestsOK'
    BY <1>11, <1>0, ConstantsAssumption DEF TypeOK, Issue, Goto, Return, RequestsOK, Steps, Pairs
  <2> QED BY <2>1, <2>2, <2>3 DEF TypeOK
<1>12. ASSUME NEW r \in Requests, IssueFails(r) PROVE TypeOK'
  <2>1. StoreOK'
    BY <1>12, <1>0, ConstantsAssumption DEF TypeOK, IssueFails, Goto, Return, StoreOK
  <2>2. PairsOK'
    BY <1>12, <1>0, ConstantsAssumption DEF TypeOK, IssueFails, Goto, Return, PairsOK, Issued, Pairs
  <2>3. RequestsOK'
    BY <1>12, <1>0, ConstantsAssumption DEF TypeOK, IssueFails, Goto, Return, RequestsOK, Steps, Pairs
  <2> QED BY <2>1, <2>2, <2>3 DEF TypeOK
<1>13. ASSUME NEW r \in Requests, NEW p \in Passphrases, NEW p2 \in Passphrases, RotateRow(r, p, p2) PROVE TypeOK'
  <2>1. StoreOK'
    BY <1>13, <1>0, ConstantsAssumption DEF TypeOK, RotateRow, Goto, StoreOK
  <2>2. PairsOK'
    BY <1>13, <1>0, ConstantsAssumption DEF TypeOK, RotateRow, Goto, PairsOK, Issued, Pairs
  <2>3. RequestsOK'
    BY <1>13, <1>0, ConstantsAssumption DEF TypeOK, RotateRow, Goto, RequestsOK, Steps, Pairs
  <2> QED BY <2>1, <2>2, <2>3 DEF TypeOK
<1>14. ASSUME NEW r \in Requests, RotateFails(r) PROVE TypeOK'
  <2>1. StoreOK'
    BY <1>14, <1>0, ConstantsAssumption DEF TypeOK, RotateFails, Goto, Return, StoreOK
  <2>2. PairsOK'
    BY <1>14, <1>0, ConstantsAssumption DEF TypeOK, RotateFails, Goto, Return, PairsOK, Issued, Pairs
  <2>3. RequestsOK'
    BY <1>14, <1>0, ConstantsAssumption DEF TypeOK, RotateFails, Goto, Return, RequestsOK, Steps, Pairs
  <2> QED BY <2>1, <2>2, <2>3 DEF TypeOK
<1>15. ASSUME NEW r \in Requests, RotateMemory(r) PROVE TypeOK'
  <2>1. StoreOK'
    BY <1>15, <1>0, ConstantsAssumption DEF TypeOK, RotateMemory, Goto, StoreOK
  <2>2. PairsOK'
    BY <1>15, <1>0, ConstantsAssumption DEF TypeOK, RotateMemory, Goto, PairsOK, Issued, Pairs
  <2>3. RequestsOK'
    BY <1>15, <1>0, ConstantsAssumption DEF TypeOK, RotateMemory, Goto, RequestsOK, Steps, Pairs
  <2> QED BY <2>1, <2>2, <2>3 DEF TypeOK
<1>16. ASSUME NEW r \in Requests, ResetRefresh(r) PROVE TypeOK'
  <2>1. StoreOK'
    BY <1>16, <1>0, ConstantsAssumption DEF TypeOK, ResetRefresh, Goto, Return, StoreOK
  <2>2. PairsOK'
    BY <1>16, <1>0, ConstantsAssumption DEF TypeOK, ResetRefresh, Goto, Return, PairsOK, Issued, Pairs
  <2>3. RequestsOK'
    BY <1>16, <1>0, ConstantsAssumption DEF TypeOK, ResetRefresh, Goto, Return, RequestsOK, Steps, Pairs
  <2> QED BY <2>1, <2>2, <2>3 DEF TypeOK
<1>17. ASSUME UNCHANGED vars PROVE TypeOK'
  <2>1. StoreOK'
    BY <1>17, <1>0, ConstantsAssumption DEF TypeOK, vars, StoreOK
  <2>2. PairsOK'
    BY <1>17, <1>0, ConstantsAssumption DEF TypeOK, vars, PairsOK, Issued, Pairs
  <2>3. RequestsOK'
    BY <1>17, <1>0, ConstantsAssumption DEF TypeOK, vars, RequestsOK, Steps, Pairs
  <2> QED BY <2>1, <2>2, <2>3 DEF TypeOK
<1> QED BY <1>1, <1>2, <1>3, <1>4, <1>5, <1>6, <1>7, <1>8, <1>9, <1>10, <1>11, <1>12, <1>13, <1>14, <1>15, <1>16, <1>17, Zenon DEF Next, Handler

(* Every variable keeps its type; once a process has read its row it never   *)
(* runs with version 0.                                                      *)
THEOREM TypeCorrect == Spec => []TypeOK
<1> QED BY TypeInit, TypeStep, PTL DEF Spec

-----------------------------------------------------------------------------
(* The strengthening.  LockInv: the lock is held by exactly the rotation     *)
(* between its two writes, and only a serving process has requests.  RowInv: *)
(* the history has one passphrase per version of the row, the row holds the  *)
(* last of them and the memory the one of its own version, which lags behind *)
(* the row only while the lock is held.                                      *)
LockInv ==
  /\ \A r \in Requests : pc[r] # "idle" => stage = "up"
  /\ \A r \in Requests : pc[r] = "memory" <=> lock = r

RowInv ==
  /\ Len(phrases) = dbVersion /\ tokenVersion <= dbVersion
  /\ dbVersion > 0 => dbPassphrase = phrases[dbVersion]
  /\ stage # "down" => passphrase = phrases[tokenVersion]
  /\ stage # "down" /\ lock = Nobody => tokenVersion = dbVersion
  /\ stage = "up" => key = dbKey
  /\ stage = "down" => lock = Nobody

StoreInv == LockInv /\ RowInv

(* The initial state satisfies the strengthening. *)
LEMMA StoreInit == Init => StoreInv
BY ConstantsAssumption DEF Init, StoreInv, LockInv, RowInv

(* Every step keeps the strengthening. *)
LEMMA StoreStep == TypeOK /\ StoreInv /\ [Next]_vars => StoreInv'
<1> SUFFICES ASSUME TypeOK, StoreInv, [Next]_vars PROVE StoreInv'
  OBVIOUS
<1>1. ASSUME StartRow PROVE StoreInv'
  <2>1. LockInv'
    BY <1>1, ConstantsAssumption DEF TypeOK, StoreOK, RequestsOK, StoreInv, LockInv, RowInv, StartRow
  <2>2. RowInv'
    <3>1. CASE dbVersion = 0
      <4>1. dbVersion' = 1 /\ phrases' = <<dbPassphrase'>>
            /\ passphrase' = dbPassphrase' /\ tokenVersion' = 1
            /\ stage' = "row" /\ lock' = lock
        BY <1>1, <3>1 DEF StartRow
      <4>2. Len(phrases') = 1 /\ phrases'[1] = dbPassphrase'
        BY <4>1
      <4> QED BY <4>1, <4>2 DEF RowInv
    <3>2. CASE dbVersion > 0
      BY <1>1, <3>2 DEF TypeOK, StoreOK, StoreInv, RowInv, StartRow
    <3> QED BY <3>1, <3>2 DEF TypeOK, StoreOK
  <2> QED BY <2>1, <2>2 DEF StoreInv
<1>2. ASSUME Crash PROVE StoreInv'
  <2>1. LockInv'
    BY <1>2, ConstantsAssumption DEF TypeOK, StoreOK, RequestsOK, StoreInv, LockInv, RowInv, Crash
  <2>2. RowInv'
    BY <1>2, ConstantsAssumption DEF TypeOK, StoreOK, StoreInv, LockInv, RowInv, Crash
  <2> QED BY <2>1, <2>2 DEF StoreInv
<1>3. ASSUME NEW configured \in Configured, StartKey(configured) PROVE StoreInv'
  <2>1. LockInv'
    BY <1>3, ConstantsAssumption DEF TypeOK, StoreOK, RequestsOK, StoreInv, LockInv, RowInv, StartKey
  <2>2. RowInv'
    BY <1>3, ConstantsAssumption DEF TypeOK, StoreOK, StoreInv, LockInv, RowInv, StartKey
  <2> QED BY <2>1, <2>2 DEF StoreInv
<1>4. ASSUME NEW t \in Pairs, ExpireAccess(t) PROVE StoreInv'
  <2>1. LockInv'
    BY <1>4, ConstantsAssumption DEF TypeOK, StoreOK, RequestsOK, StoreInv, LockInv, RowInv, ExpireAccess
  <2>2. RowInv'
    BY <1>4, ConstantsAssumption DEF TypeOK, StoreOK, StoreInv, LockInv, RowInv, ExpireAccess
  <2> QED BY <2>1, <2>2 DEF StoreInv
<1>5. ASSUME NEW t \in Pairs, ExpireRefresh(t) PROVE StoreInv'
  <2>1. LockInv'
    BY <1>5, ConstantsAssumption DEF TypeOK, StoreOK, RequestsOK, StoreInv, LockInv, RowInv, ExpireRefresh
  <2>2. RowInv'
    BY <1>5, ConstantsAssumption DEF TypeOK, StoreOK, StoreInv, LockInv, RowInv, ExpireRefresh
  <2> QED BY <2>1, <2>2 DEF StoreInv
<1>6. ASSUME NEW r \in Requests, NEW p \in Passphrases, Login(r, p) PROVE StoreInv'
  <2>1. LockInv'
    BY <1>6, ConstantsAssumption DEF TypeOK, StoreOK, RequestsOK, StoreInv, LockInv, RowInv, Login, Idle, Goto
  <2>2. RowInv'
    BY <1>6, ConstantsAssumption DEF TypeOK, StoreOK, StoreInv, LockInv, RowInv, Login, Idle, Goto
  <2> QED BY <2>1, <2>2 DEF StoreInv
<1>7. ASSUME NEW r \in Requests, NEW t \in Pairs, Refresh(r, t) PROVE StoreInv'
  <2>1. LockInv'
    BY <1>7, ConstantsAssumption DEF TypeOK, StoreOK, RequestsOK, StoreInv, LockInv, RowInv, Refresh, Idle, Goto, Accepted
  <2>2. RowInv'
    BY <1>7, ConstantsAssumption DEF TypeOK, StoreOK, StoreInv, LockInv, RowInv, Refresh, Idle, Goto, Accepted
  <2> QED BY <2>1, <2>2 DEF StoreInv
<1>8. ASSUME NEW r \in Requests, NEW t \in Pairs, Authorize(r, t) PROVE StoreInv'
  <2>1. LockInv'
    BY <1>8, ConstantsAssumption DEF TypeOK, StoreOK, RequestsOK, StoreInv, LockInv, RowInv, Authorize, Idle, Goto, Accepted
  <2>2. RowInv'
    BY <1>8, ConstantsAssumption DEF TypeOK, StoreOK, StoreInv, LockInv, RowInv, Authorize, Idle, Goto, Accepted
  <2> QED BY <2>1, <2>2 DEF StoreInv
<1>9. ASSUME NEW r \in Requests, Consume(r) PROVE StoreInv'
  <2>1. LockInv'
    BY <1>9, ConstantsAssumption DEF TypeOK, StoreOK, RequestsOK, StoreInv, LockInv, RowInv, Consume, Goto
  <2>2. RowInv'
    BY <1>9, ConstantsAssumption DEF TypeOK, StoreOK, StoreInv, LockInv, RowInv, Consume, Goto
  <2> QED BY <2>1, <2>2 DEF StoreInv
<1>10. ASSUME NEW r \in Requests, ConsumeRefused(r) PROVE StoreInv'
  <2>1. LockInv'
    BY <1>10, ConstantsAssumption DEF TypeOK, StoreOK, RequestsOK, StoreInv, LockInv, RowInv, ConsumeRefused, Goto, Return
  <2>2. RowInv'
    BY <1>10, ConstantsAssumption DEF TypeOK, StoreOK, StoreInv, LockInv, RowInv, ConsumeRefused, Goto, Return
  <2> QED BY <2>1, <2>2 DEF StoreInv
<1>11. ASSUME NEW r \in Requests, Issue(r) PROVE StoreInv'
  <2>1. LockInv'
    BY <1>11, ConstantsAssumption DEF TypeOK, StoreOK, RequestsOK, StoreInv, LockInv, RowInv, Issue, Goto, Return
  <2>2. RowInv'
    BY <1>11, ConstantsAssumption DEF TypeOK, StoreOK, StoreInv, LockInv, RowInv, Issue, Goto, Return
  <2> QED BY <2>1, <2>2 DEF StoreInv
<1>12. ASSUME NEW r \in Requests, IssueFails(r) PROVE StoreInv'
  <2>1. LockInv'
    BY <1>12, ConstantsAssumption DEF TypeOK, StoreOK, RequestsOK, StoreInv, LockInv, RowInv, IssueFails, Goto, Return
  <2>2. RowInv'
    BY <1>12, ConstantsAssumption DEF TypeOK, StoreOK, StoreInv, LockInv, RowInv, IssueFails, Goto, Return
  <2> QED BY <2>1, <2>2 DEF StoreInv
<1>13. ASSUME NEW r \in Requests, NEW p \in Passphrases, NEW p2 \in Passphrases, RotateRow(r, p, p2) PROVE StoreInv'
  <2>1. LockInv'
    BY <1>13, ConstantsAssumption DEF TypeOK, StoreOK, RequestsOK, StoreInv, LockInv, RowInv, RotateRow, Goto
  <2>2. stage = "up" /\ tokenVersion = dbVersion /\ Len(phrases) = dbVersion
    BY <1>13 DEF StoreInv, LockInv, RowInv, RotateRow
  <2>3. Len(phrases') = dbVersion' /\ tokenVersion' <= dbVersion'
    BY <1>13, <2>2 DEF TypeOK, StoreOK, RotateRow
  <2>4. phrases'[dbVersion'] = dbPassphrase' /\ phrases'[tokenVersion] = phrases[tokenVersion]
    BY <1>13, <2>2 DEF TypeOK, StoreOK, RotateRow
  <2>5. lock' # Nobody /\ stage' = "up" /\ key' = dbKey' /\ passphrase' = phrases'[tokenVersion']
    BY <1>13, <2>2, <2>4, ConstantsAssumption DEF StoreInv, RowInv, RotateRow
  <2>6. RowInv'
    BY <2>3, <2>4, <2>5 DEF RowInv
  <2> QED BY <2>1, <2>6 DEF StoreInv
<1>14. ASSUME NEW r \in Requests, RotateFails(r) PROVE StoreInv'
  <2>1. LockInv'
    BY <1>14, ConstantsAssumption DEF TypeOK, StoreOK, RequestsOK, StoreInv, LockInv, RowInv, RotateFails, Goto, Return
  <2>2. RowInv'
    BY <1>14, ConstantsAssumption DEF TypeOK, StoreOK, StoreInv, LockInv, RowInv, RotateFails, Goto, Return
  <2> QED BY <2>1, <2>2 DEF StoreInv
<1>15. ASSUME NEW r \in Requests, RotateMemory(r) PROVE StoreInv'
  <2>1. LockInv'
    BY <1>15, ConstantsAssumption DEF TypeOK, StoreOK, RequestsOK, StoreInv, LockInv, RowInv, RotateMemory, Goto
  <2>2. RowInv'
    BY <1>15, ConstantsAssumption DEF TypeOK, StoreOK, StoreInv, LockInv, RowInv, RotateMemory, Goto
  <2> QED BY <2>1, <2>2 DEF StoreInv
<1>16. ASSUME NEW r \in Requests, ResetRefresh(r) PROVE StoreInv'
  <2>1. LockInv'
    BY <1>16, ConstantsAssumption DEF TypeOK, StoreOK, RequestsOK, StoreInv, LockInv, RowInv, ResetRefresh, Goto, Return
  <2>2. RowInv'
    BY <1>16, ConstantsAssumption DEF TypeOK, StoreOK, StoreInv, LockInv, RowInv, ResetRefresh, Goto, Return
  <2> QED BY <2>1, <2>2 DEF StoreInv
<1>17. ASSUME UNCHANGED vars PROVE StoreInv'
  <2>1. LockInv'
    BY <1>17, ConstantsAssumption DEF TypeOK, StoreOK, RequestsOK, StoreInv, LockInv, RowInv, vars
  <2>2. RowInv'
    BY <1>17, ConstantsAssumption DEF TypeOK, StoreOK, StoreInv, LockInv, RowInv, vars
  <2> QED BY <2>1, <2>2 DEF StoreInv
<1> QED BY <1>1, <1>2, <1>3, <1>4, <1>5, <1>6, <1>7, <1>8, <1>9, <1>10, <1>11, <1>12, <1>13, <1>14, <1>15, <1>16, <1>17, Zenon DEF Next, Handler

(* The strengthening holds in every state. *)
LEMMA StoreCorrect == Spec => []StoreInv
<1> QED BY StoreInit, StoreStep, TypeCorrect, PTL DEF Spec

(* For any number of requests, rotations and crashes, memory and row agree   *)
(* whenever no rotation is between its two writes.                           *)
THEOREM RestartChangesNothing == Spec => []MemoryMatchesRow
<1>1. TypeOK /\ StoreInv => MemoryMatchesRow
  <2> SUFFICES ASSUME TypeOK, StoreInv, stage = "up", lock = Nobody
               PROVE passphrase = dbPassphrase /\ tokenVersion = dbVersion /\ key = dbKey
    BY DEF MemoryMatchesRow
  <2> QED BY DEF TypeOK, StoreOK, StoreInv, RowInv
<1> QED BY <1>1, TypeCorrect, StoreCorrect, PTL

(* The token version never falls: not by a rotation, not by a restart.       *)
THEOREM RevokedForGood == Spec => VersionNeverFalls
<1>1. TypeOK /\ StoreInv /\ [Next]_vars
        => [tokenVersion' >= tokenVersion /\ dbVersion' >= dbVersion]_vars
  <2> SUFFICES ASSUME TypeOK, StoreInv, [Next]_vars
               PROVE tokenVersion' >= tokenVersion /\ dbVersion' >= dbVersion
    OBVIOUS
  <2>1. CASE StartRow
    BY <2>1 DEF TypeOK, StoreOK, StoreInv, RowInv, StartRow
  <2>2. ASSUME NEW r \in Requests, NEW p \in Passphrases, NEW q \in Passphrases,
               RotateRow(r, p, q)
        PROVE  tokenVersion' >= tokenVersion /\ dbVersion' >= dbVersion
    BY <2>2 DEF TypeOK, StoreOK, StoreInv, RowInv, LockInv, RotateRow
  <2>3. ASSUME NEW r \in Requests, RotateMemory(r)
        PROVE  tokenVersion' >= tokenVersion /\ dbVersion' >= dbVersion
    BY <2>3 DEF TypeOK, StoreOK, StoreInv, RowInv, RotateMemory
  <2>4. ASSUME UNCHANGED <<tokenVersion, dbVersion>>
        PROVE  tokenVersion' >= tokenVersion /\ dbVersion' >= dbVersion
    BY <2>4 DEF TypeOK, StoreOK
  <2>5. CASE Crash
    BY <2>4, <2>5, Zenon DEF Crash
  <2>6. ASSUME NEW configured \in Configured, StartKey(configured)
        PROVE  UNCHANGED <<tokenVersion, dbVersion>>
    BY <2>6, Zenon DEF StartKey
  <2>7. ASSUME NEW t \in Pairs, ExpireAccess(t) \/ ExpireRefresh(t)
        PROVE  UNCHANGED <<tokenVersion, dbVersion>>
    BY <2>7, Zenon DEF ExpireAccess, ExpireRefresh
  <2>8. ASSUME NEW r \in Requests, NEW p \in Passphrases, Login(r, p)
        PROVE  UNCHANGED <<tokenVersion, dbVersion>>
    BY <2>8, Zenon DEF Login
  <2>9. ASSUME NEW r \in Requests, NEW t \in Pairs, Refresh(r, t) \/ Authorize(r, t)
        PROVE  UNCHANGED <<tokenVersion, dbVersion>>
    BY <2>9, Zenon DEF Refresh, Authorize
  <2>10. ASSUME NEW r \in Requests,
                Consume(r) \/ ConsumeRefused(r) \/ Issue(r) \/ IssueFails(r)
                \/ RotateFails(r) \/ ResetRefresh(r)
         PROVE  UNCHANGED <<tokenVersion, dbVersion>>
    BY <2>10, Zenon DEF Consume, ConsumeRefused, Issue, IssueFails, RotateFails, ResetRefresh
  <2>11. CASE UNCHANGED vars
    BY <2>4, <2>11, Zenon DEF vars
  <2> QED BY <2>1, <2>2, <2>3, <2>4, <2>5, <2>6, <2>7, <2>8, <2>9, <2>10, <2>11, Zenon
          DEF Next, Handler
<1> QED BY <1>1, TypeCorrect, StoreCorrect, PTL DEF Spec, VersionNeverFalls

-----------------------------------------------------------------------------
(* A request that is to issue, or to exchange a token, carries the version   *)
(* of the passphrase its session began with.                                 *)
RequestsProve ==
  \A r \in Requests : pc[r] \in {"consume", "issue"} =>
    version[r] \in DOMAIN phrases /\ shown[r] = phrases[version[r]]

(* The history of passphrases only grows. *)
LEMMA PhrasesGrow ==
  ASSUME TypeOK, StoreInv, [Next]_vars, NEW v \in DOMAIN phrases
  PROVE  v \in DOMAIN phrases' /\ phrases'[v] = phrases[v]
<1>1. CASE StartRow
  <2>1. dbVersion > 0
    BY DEF TypeOK, StoreOK, StoreInv, RowInv
  <2> QED BY <1>1, <2>1 DEF StartRow
<1>2. ASSUME NEW r \in Requests, NEW p \in Passphrases, NEW q \in Passphrases,
             RotateRow(r, p, q)
      PROVE  v \in DOMAIN phrases' /\ phrases'[v] = phrases[v]
  BY <1>2 DEF TypeOK, StoreOK, RotateRow
<1>3. ASSUME NEW configured \in Configured, StartKey(configured) PROVE phrases' = phrases
  BY <1>3, Zenon DEF StartKey
<1>4. ASSUME NEW t \in Pairs, ExpireAccess(t) \/ ExpireRefresh(t) PROVE phrases' = phrases
  BY <1>4, Zenon DEF ExpireAccess, ExpireRefresh
<1>5. ASSUME NEW r \in Requests, NEW p \in Passphrases, Login(r, p) PROVE phrases' = phrases
  BY <1>5, Zenon DEF Login
<1>6. ASSUME NEW r \in Requests, NEW t \in Pairs, Refresh(r, t) \/ Authorize(r, t)
      PROVE  phrases' = phrases
  BY <1>6, Zenon DEF Refresh, Authorize
<1>7. ASSUME NEW r \in Requests,
             Consume(r) \/ ConsumeRefused(r) \/ Issue(r) \/ IssueFails(r)
             \/ RotateFails(r) \/ RotateMemory(r) \/ ResetRefresh(r)
      PROVE  phrases' = phrases
  BY <1>7, Zenon DEF Consume, ConsumeRefused, Issue, IssueFails, RotateFails, RotateMemory,
                     ResetRefresh
<1>8. CASE Crash
  BY <1>8, Zenon DEF Crash
<1>9. CASE UNCHANGED vars
  BY <1>9, Zenon DEF vars
<1> QED BY <1>1, <1>2, <1>3, <1>4, <1>5, <1>6, <1>7, <1>8, <1>9, Zenon DEF Next, Handler

ProofInv == TokensProvePassphrase /\ RequestsProve

(* A step that issues nothing and leaves what requests carry alone, or lets  *)
(* a request end, keeps ProofInv.                                            *)
LEMMA ProofKept ==
  ASSUME TypeOK, StoreInv, ProofInv, [Next]_vars, UNCHANGED <<issued, ver, proof>>,
         \A r \in Requests : pc'[r] \in {"consume", "issue"} =>
            \/ /\ pc[r] \in {"consume", "issue"}
               /\ version'[r] = version[r] /\ shown'[r] = shown[r]
            \/ version'[r] \in DOMAIN phrases /\ shown'[r] = phrases[version'[r]]
  PROVE  ProofInv'
<1>1. TokensProvePassphrase'
  <2> SUFFICES ASSUME NEW t \in Issued
               PROVE  ver[t] \in DOMAIN phrases' /\ proof[t] = phrases'[ver[t]]
    BY DEF TokensProvePassphrase, Issued
  <2>1. ver[t] \in DOMAIN phrases /\ proof[t] = phrases[ver[t]]
    BY DEF ProofInv, TokensProvePassphrase
  <2> QED BY <2>1, PhrasesGrow
<1>2. RequestsProve'
  <2> SUFFICES ASSUME NEW r \in Requests, pc'[r] \in {"consume", "issue"}
               PROVE  version'[r] \in DOMAIN phrases' /\ shown'[r] = phrases'[version'[r]]
    BY DEF RequestsProve
  <2>1. version'[r] \in DOMAIN phrases /\ shown'[r] = phrases[version'[r]]
    BY DEF ProofInv, RequestsProve
  <2> QED BY <2>1, PhrasesGrow
<1> QED BY <1>1, <1>2 DEF ProofInv

(* The one step that issues a pair stamps it with what its request carries.  *)
LEMMA ProofIssue ==
  ASSUME TypeOK, StoreInv, ProofInv, NEW r \in Requests, Issue(r)
  PROVE  ProofInv'
<1>1. phrases' = phrases
  BY DEF Issue
<1>2. TokensProvePassphrase'
  <2> SUFFICES ASSUME NEW t \in Issued'
               PROVE  ver'[t] \in DOMAIN phrases /\ proof'[t] = phrases[ver'[t]]
    BY <1>1 DEF TokensProvePassphrase
  <2>1. CASE t = issued + 1
    <3>1. version[r] \in DOMAIN phrases /\ shown[r] = phrases[version[r]]
      BY DEF ProofInv, RequestsProve, Issue
    <3>2. ver'[t] = version[r] /\ proof'[t] = shown[r]
      BY <2>1, ConstantsAssumption DEF TypeOK, PairsOK, Issue, Pairs
    <3> QED BY <3>1, <3>2
  <2>2. CASE t # issued + 1
    <3>1. t \in Issued /\ t \in Pairs
      BY <2>2, ConstantsAssumption DEF TypeOK, PairsOK, Issue, Issued, Pairs
    <3>2. ver'[t] = ver[t] /\ proof'[t] = proof[t]
      BY <2>2, <3>1 DEF TypeOK, PairsOK, Issue
    <3> QED BY <3>1, <3>2 DEF ProofInv, TokensProvePassphrase
  <2> QED BY <2>1, <2>2
<1>3. RequestsProve'
  <2> SUFFICES ASSUME NEW q \in Requests, pc'[q] \in {"consume", "issue"}
               PROVE  version'[q] \in DOMAIN phrases /\ shown'[q] = phrases[version'[q]]
    BY <1>1 DEF RequestsProve
  <2>1. q # r /\ pc'[q] = pc[q] /\ version'[q] = version[q] /\ shown'[q] = shown[q]
    BY DEF TypeOK, RequestsOK, Issue, Return, Goto
  <2> QED BY <2>1 DEF ProofInv, RequestsProve
<1> QED BY <1>2, <1>3 DEF ProofInv

(* Every step keeps ProofInv. *)
LEMMA ProofStep == TypeOK /\ StoreInv /\ ProofInv /\ [Next]_vars => ProofInv'
<1> SUFFICES ASSUME TypeOK, StoreInv, ProofInv, [Next]_vars PROVE ProofInv'
  OBVIOUS
<1>1. ASSUME StartRow PROVE ProofInv'
  <2>1. \A q \in Requests : pc'[q] \in {"consume", "issue"} =>
           /\ pc[q] \in {"consume", "issue"}
           /\ version'[q] = version[q] /\ shown'[q] = shown[q]
    BY <1>1 DEF TypeOK, RequestsOK, StartRow
  <2>2. UNCHANGED <<issued, ver, proof>>
    BY <1>1, Zenon DEF StartRow
  <2> QED BY <2>1, <2>2, ProofKept
<1>2. ASSUME Crash PROVE ProofInv'
  <2>1. \A q \in Requests : pc'[q] \in {"consume", "issue"} =>
           /\ pc[q] \in {"consume", "issue"}
           /\ version'[q] = version[q] /\ shown'[q] = shown[q]
    BY <1>2 DEF TypeOK, RequestsOK, Crash
  <2>2. UNCHANGED <<issued, ver, proof>>
    BY <1>2, Zenon DEF Crash
  <2> QED BY <2>1, <2>2, ProofKept
<1>3. ASSUME NEW configured \in Configured, StartKey(configured) PROVE ProofInv'
  <2>1. \A q \in Requests : pc'[q] \in {"consume", "issue"} =>
           /\ pc[q] \in {"consume", "issue"}
           /\ version'[q] = version[q] /\ shown'[q] = shown[q]
    BY <1>3 DEF TypeOK, RequestsOK, StartKey
  <2>2. UNCHANGED <<issued, ver, proof>>
    BY <1>3, Zenon DEF StartKey
  <2> QED BY <2>1, <2>2, ProofKept
<1>4. ASSUME NEW t \in Pairs, ExpireAccess(t) PROVE ProofInv'
  <2>1. \A q \in Requests : pc'[q] \in {"consume", "issue"} =>
           /\ pc[q] \in {"consume", "issue"}
           /\ version'[q] = version[q] /\ shown'[q] = shown[q]
    BY <1>4 DEF TypeOK, RequestsOK, ExpireAccess
  <2>2. UNCHANGED <<issued, ver, proof>>
    BY <1>4, Zenon DEF ExpireAccess
  <2> QED BY <2>1, <2>2, ProofKept
<1>5. ASSUME NEW t \in Pairs, ExpireRefresh(t) PROVE ProofInv'
  <2>1. \A q \in Requests : pc'[q] \in {"consume", "issue"} =>
           /\ pc[q] \in {"consume", "issue"}
           /\ version'[q] = version[q] /\ shown'[q] = shown[q]
    BY <1>5 DEF TypeOK, RequestsOK, ExpireRefresh
  <2>2. UNCHANGED <<issued, ver, proof>>
    BY <1>5, Zenon DEF ExpireRefresh
  <2> QED BY <2>1, <2>2, ProofKept
<1>6. ASSUME NEW r \in Requests, NEW p \in Passphrases, Login(r, p) PROVE ProofInv'
  <2>1. tokenVersion \in DOMAIN phrases /\ phrases[tokenVersion] = passphrase
    BY <1>6 DEF TypeOK, StoreOK, StoreInv, RowInv, Login, Idle
  <2>2. \A q \in Requests : pc'[q] \in {"consume", "issue"} =>
           \/ /\ pc[q] \in {"consume", "issue"}
              /\ version'[q] = version[q] /\ shown'[q] = shown[q]
           \/ version'[q] \in DOMAIN phrases /\ shown'[q] = phrases[version'[q]]
    BY <1>6, <2>1 DEF TypeOK, RequestsOK, Login, Goto
  <2>3. UNCHANGED <<issued, ver, proof>>
    BY <1>6, Zenon DEF Login
  <2> QED BY <2>2, <2>3, ProofKept
<1>7. ASSUME NEW r \in Requests, NEW t \in Pairs, Refresh(r, t) PROVE ProofInv'
  <2>1. tokenVersion \in DOMAIN phrases /\ phrases[tokenVersion] = proof[t]
    BY <1>7 DEF ProofInv, TokensProvePassphrase, Refresh, Accepted
  <2>2. \A q \in Requests : pc'[q] \in {"consume", "issue"} =>
           \/ /\ pc[q] \in {"consume", "issue"}
              /\ version'[q] = version[q] /\ shown'[q] = shown[q]
           \/ version'[q] \in DOMAIN phrases /\ shown'[q] = phrases[version'[q]]
    BY <1>7, <2>1 DEF TypeOK, RequestsOK, Refresh, Goto
  <2>3. UNCHANGED <<issued, ver, proof>>
    BY <1>7, Zenon DEF Refresh
  <2> QED BY <2>2, <2>3, ProofKept
<1>8. ASSUME NEW r \in Requests, NEW t \in Pairs, Authorize(r, t) PROVE ProofInv'
  <2>1. \A q \in Requests : pc'[q] \in {"consume", "issue"} =>
           /\ pc[q] \in {"consume", "issue"}
           /\ version'[q] = version[q] /\ shown'[q] = shown[q]
    BY <1>8 DEF TypeOK, RequestsOK, Authorize, Idle, Goto, Accepted
  <2>2. UNCHANGED <<issued, ver, proof>>
    BY <1>8, Zenon DEF Authorize, Idle, Goto, Accepted
  <2> QED BY <2>1, <2>2, ProofKept
<1>9. ASSUME NEW r \in Requests, Consume(r) PROVE ProofInv'
  <2>1. \A q \in Requests : pc'[q] \in {"consume", "issue"} =>
           /\ pc[q] \in {"consume", "issue"}
           /\ version'[q] = version[q] /\ shown'[q] = shown[q]
    BY <1>9 DEF TypeOK, RequestsOK, Consume, Goto
  <2>2. UNCHANGED <<issued, ver, proof>>
    BY <1>9, Zenon DEF Consume, Goto
  <2> QED BY <2>1, <2>2, ProofKept
<1>10. ASSUME NEW r \in Requests, ConsumeRefused(r) PROVE ProofInv'
  <2>1. \A q \in Requests : pc'[q] \in {"consume", "issue"} =>
           /\ pc[q] \in {"consume", "issue"}
           /\ version'[q] = version[q] /\ shown'[q] = shown[q]
    BY <1>10 DEF TypeOK, RequestsOK, ConsumeRefused, Goto, Return
  <2>2. UNCHANGED <<issued, ver, proof>>
    BY <1>10, Zenon DEF ConsumeRefused, Goto, Return
  <2> QED BY <2>1, <2>2, ProofKept
<1>11. ASSUME NEW r \in Requests, Issue(r) PROVE ProofInv'
  BY <1>11, ProofIssue
<1>12. ASSUME NEW r \in Requests, IssueFails(r) PROVE ProofInv'
  <2>1. \A q \in Requests : pc'[q] \in {"consume", "issue"} =>
           /\ pc[q] \in {"consume", "issue"}
           /\ version'[q] = version[q] /\ shown'[q] = shown[q]
    BY <1>12 DEF TypeOK, RequestsOK, IssueFails, Goto, Return
  <2>2. UNCHANGED <<issued, ver, proof>>
    BY <1>12, Zenon DEF IssueFails, Goto, Return
  <2> QED BY <2>1, <2>2, ProofKept
<1>13. ASSUME NEW r \in Requests, NEW p \in Passphrases, NEW p2 \in Passphrases, RotateRow(r, p, p2) PROVE ProofInv'
  <2>1. \A q \in Requests : pc'[q] \in {"consume", "issue"} =>
           /\ pc[q] \in {"consume", "issue"}
           /\ version'[q] = version[q] /\ shown'[q] = shown[q]
    BY <1>13 DEF TypeOK, RequestsOK, RotateRow, Goto
  <2>2. UNCHANGED <<issued, ver, proof>>
    BY <1>13, Zenon DEF RotateRow, Goto
  <2> QED BY <2>1, <2>2, ProofKept
<1>14. ASSUME NEW r \in Requests, RotateFails(r) PROVE ProofInv'
  <2>1. \A q \in Requests : pc'[q] \in {"consume", "issue"} =>
           /\ pc[q] \in {"consume", "issue"}
           /\ version'[q] = version[q] /\ shown'[q] = shown[q]
    BY <1>14 DEF TypeOK, RequestsOK, RotateFails, Goto, Return
  <2>2. UNCHANGED <<issued, ver, proof>>
    BY <1>14, Zenon DEF RotateFails, Goto, Return
  <2> QED BY <2>1, <2>2, ProofKept
<1>15. ASSUME NEW r \in Requests, RotateMemory(r) PROVE ProofInv'
  <2>1. \A q \in Requests : pc'[q] \in {"consume", "issue"} =>
           /\ pc[q] \in {"consume", "issue"}
           /\ version'[q] = version[q] /\ shown'[q] = shown[q]
    BY <1>15 DEF TypeOK, RequestsOK, RotateMemory, Goto
  <2>2. UNCHANGED <<issued, ver, proof>>
    BY <1>15, Zenon DEF RotateMemory, Goto
  <2> QED BY <2>1, <2>2, ProofKept
<1>16. ASSUME NEW r \in Requests, ResetRefresh(r) PROVE ProofInv'
  <2>1. \A q \in Requests : pc'[q] \in {"consume", "issue"} =>
           /\ pc[q] \in {"consume", "issue"}
           /\ version'[q] = version[q] /\ shown'[q] = shown[q]
    BY <1>16 DEF TypeOK, RequestsOK, ResetRefresh, Goto, Return
  <2>2. UNCHANGED <<issued, ver, proof>>
    BY <1>16, Zenon DEF ResetRefresh, Goto, Return
  <2> QED BY <2>1, <2>2, ProofKept
<1>17. ASSUME UNCHANGED vars PROVE ProofInv'
  <2>1. \A q \in Requests : pc'[q] \in {"consume", "issue"} =>
           /\ pc[q] \in {"consume", "issue"}
           /\ version'[q] = version[q] /\ shown'[q] = shown[q]
    BY <1>17 DEF TypeOK, RequestsOK, vars
  <2>2. UNCHANGED <<issued, ver, proof>>
    BY <1>17, Zenon DEF vars
  <2> QED BY <2>1, <2>2, ProofKept
<1> QED BY <1>1, <1>2, <1>3, <1>4, <1>5, <1>6, <1>7, <1>8, <1>9, <1>10, <1>11, <1>12, <1>13, <1>14, <1>15, <1>16, <1>17, Zenon DEF Next, Handler

(* For any number of requests, rotations, restarts and pairs, no token of a  *)
(* version goes back to a login with the passphrase of another version.      *)
THEOREM SessionsProvePassphrase == Spec => []TokensProvePassphrase
<1>1. Init => ProofInv
  <2> SUFFICES ASSUME Init PROVE ProofInv
    OBVIOUS
  <2>1. TokensProvePassphrase
    BY DEF Init, TokensProvePassphrase, Issued
  <2>2. RequestsProve
    BY DEF Init, RequestsProve
  <2> QED BY <2>1, <2>2 DEF ProofInv
<1>2. ProofInv => TokensProvePassphrase
  BY DEF ProofInv
<1> QED BY <1>1, <1>2, TypeCorrect, StoreCorrect, ProofStep, PTL DEF Spec

-----------------------------------------------------------------------------
(* Numbers of pairs that requests carry and that sessions begin with are     *)
(* numbers of pairs already issued, so the next pair is new to all of them.  *)
Numbered ==
  /\ \A t \in Issued : login[t] \in Issued
  /\ \A r \in Requests : pc[r] = "consume" => token[r] \in Issued
  /\ \A r \in Requests : pc[r] = "issue" => token[r] \in Issued \cup {0}

SessionInv == OneSessionPerLogin /\ Numbered

(* A step that adds no refresh token and starts no exchange keeps it. *)
LEMMA SessionKept ==
  ASSUME SessionInv, UNCHANGED <<issued, login>>, items' \subseteq items,
         \A r \in Requests : pc'[r] = "issue" =>
            (pc[r] = "issue" /\ token'[r] = token[r]) \/ token'[r] = 0,
         \A r \in Requests : pc'[r] = "consume" =>
            (pc[r] = "consume" /\ token'[r] = token[r]) \/ token'[r] \in Issued
  PROVE  SessionInv'
<1>1. Numbered'
  BY DEF SessionInv, Numbered, Issued
<1>2. \A t \in Issued : t # 0
  BY DEF Issued
<1>3. \A r \in Requests, t \in Issued : Exchanging(r, t)' => Exchanging(r, t)
  BY <1>2 DEF Exchanging
<1>4. Issued' = Issued
  BY DEF Issued
<1>5. OneSessionPerLogin'
  BY <1>3, <1>4 DEF SessionInv, OneSessionPerLogin
<1> QED BY <1>1, <1>5 DEF SessionInv

(* An exchange takes its token out of the store. *)
LEMMA SessionConsume ==
  ASSUME TypeOK, SessionInv, NEW r \in Requests, Consume(r)
  PROVE  SessionInv'
<1> DEFINE x == token[r]
<1>1. /\ x \in items /\ x \in Issued
      /\ items' \subseteq items \ {x}
      /\ UNCHANGED <<issued, login, token>>
  BY DEF SessionInv, Numbered, Consume
<1>2. \A q \in Requests : pc'[q] = IF q = r THEN "issue" ELSE pc[q]
  BY DEF TypeOK, RequestsOK, Consume, Goto
<1>3. Issued' = Issued
  BY <1>1 DEF Issued
<1>4. Numbered'
  BY <1>1, <1>2, <1>3 DEF SessionInv, Numbered
<1>5. \A q \in Requests, t \in Issued :
         Exchanging(q, t)' => (q = r /\ t = x) \/ (q # r /\ Exchanging(q, t))
  BY <1>1, <1>2 DEF Exchanging
<1>6. \A t, u \in items' : login'[t] = login'[u] => t = u
  BY <1>1 DEF SessionInv, OneSessionPerLogin
<1>7. \A q \in Requests, t \in Issued, u \in items' :
         Exchanging(q, t)' => login'[t] # login'[u]
  BY <1>1, <1>5 DEF SessionInv, OneSessionPerLogin
<1>8. \A p, q \in Requests, t, u \in Issued :
         Exchanging(p, t)' /\ Exchanging(q, u)' /\ login'[t] = login'[u] => p = q
  BY <1>1, <1>5 DEF SessionInv, OneSessionPerLogin
<1>9. OneSessionPerLogin'
  BY <1>3, <1>6, <1>7, <1>8 DEF OneSessionPerLogin
<1> QED BY <1>4, <1>9 DEF SessionInv

(* The new pair ends the exchange, or begins a session of its own. *)
LEMMA SessionIssue ==
  ASSUME TypeOK, SessionInv, NEW r \in Requests, Issue(r)
  PROVE  SessionInv'
<1> DEFINE n == issued + 1
           x == token[r]
<1>1. /\ n \in Pairs /\ n \notin Issued /\ n # 0 /\ Issued' = Issued \cup {n}
      /\ Issued \subseteq Pairs /\ 0 \notin Issued /\ items \subseteq Issued
  BY ConstantsAssumption DEF TypeOK, PairsOK, Issue, Issued, Pairs
<1>2. /\ items' \subseteq items \cup {n}
      /\ \A t \in Issued : login'[t] = login[t]
      /\ login'[n] = IF x = 0 THEN n ELSE login[x]
  BY <1>1 DEF TypeOK, PairsOK, Issue
<1>3. \A q \in Requests : pc'[q] = (IF q = r THEN "idle" ELSE pc[q])
                          /\ token'[q] = IF q = r THEN 0 ELSE token[q]
  BY DEF TypeOK, RequestsOK, Issue, Return, Goto
<1>4. pc[r] = "issue" /\ x \in Issued \cup {0}
  BY DEF SessionInv, Numbered, Issue
<1>5. \A q \in Requests, t \in Issued' :
         Exchanging(q, t)' => q # r /\ t \in Issued /\ Exchanging(q, t)
  <2> SUFFICES ASSUME NEW q \in Requests, NEW t \in Issued', Exchanging(q, t)'
               PROVE  q # r /\ t \in Issued /\ Exchanging(q, t)
    OBVIOUS
  <2>1. q # r /\ pc[q] = "issue" /\ token[q] = t
    BY <1>3 DEF Exchanging
  <2>2. t \in Issued
    BY <1>1, <2>1 DEF SessionInv, Numbered
  <2> QED BY <2>1, <2>2 DEF Exchanging
<1>6. ASSUME x = 0
        PROVE  /\ \A t, u \in items' : login'[t] = login'[u] => t = u
               /\ \A q \in Requests, t \in Issued', u \in items' :
                    Exchanging(q, t)' => login'[t] # login'[u]
  <2>1. login'[n] = n /\ \A t \in Issued : login'[t] # n
    BY <1>1, <1>2, <1>6 DEF SessionInv, Numbered
  <2>2. \A t, u \in items' : login'[t] = login'[u] => t = u
    BY <1>1, <1>2, <2>1 DEF SessionInv, OneSessionPerLogin
  <2>3. \A q \in Requests, t \in Issued', u \in items' :
           Exchanging(q, t)' => login'[t] # login'[u]
    BY <1>1, <1>2, <1>5, <2>1 DEF SessionInv, OneSessionPerLogin
  <2> QED BY <2>2, <2>3
<1>7. ASSUME x \in Issued
        PROVE  /\ \A t, u \in items' : login'[t] = login'[u] => t = u
               /\ \A q \in Requests, t \in Issued', u \in items' :
                    Exchanging(q, t)' => login'[t] # login'[u]
  <2>1. login'[n] = login[x] /\ Exchanging(r, x)
    BY <1>1, <1>2, <1>4, <1>7 DEF Exchanging
  <2>2. \A t, u \in items' : login'[t] = login'[u] => t = u
    BY <1>1, <1>2, <1>7, <2>1 DEF SessionInv, OneSessionPerLogin
  <2>3. \A q \in Requests, t \in Issued', u \in items' :
           Exchanging(q, t)' => login'[t] # login'[u]
    BY <1>1, <1>2, <1>5, <1>7, <2>1 DEF SessionInv, OneSessionPerLogin
  <2> QED BY <2>2, <2>3
<1>8. \A p, q \in Requests, t, u \in Issued' :
         Exchanging(p, t)' /\ Exchanging(q, u)' /\ login'[t] = login'[u] => p = q
  BY <1>2, <1>5 DEF SessionInv, OneSessionPerLogin
<1>9. OneSessionPerLogin'
  BY <1>4, <1>6, <1>7, <1>8 DEF OneSessionPerLogin
<1>10. Numbered'
  <2>1. \A t \in Issued' : login'[t] \in Issued'
    BY <1>1, <1>2, <1>4 DEF SessionInv, Numbered
  <2> QED BY <2>1, <1>1, <1>3 DEF SessionInv, Numbered
<1> QED BY <1>9, <1>10 DEF SessionInv

(* Every step keeps SessionInv. *)
LEMMA SessionStep == TypeOK /\ SessionInv /\ [Next]_vars => SessionInv'
<1> SUFFICES ASSUME TypeOK, SessionInv, [Next]_vars PROVE SessionInv'
  OBVIOUS
<1>1. ASSUME StartRow PROVE SessionInv'
  <2>1. /\ \A q \in Requests : pc'[q] = "issue" =>
              (pc[q] = "issue" /\ token'[q] = token[q]) \/ token'[q] = 0
        /\ \A q \in Requests : pc'[q] = "consume" =>
              (pc[q] = "consume" /\ token'[q] = token[q]) \/ token'[q] \in Issued
    BY <1>1 DEF TypeOK, RequestsOK, StartRow
  <2>2. UNCHANGED <<issued, login>>
    BY <1>1, Zenon DEF StartRow
  <2>3. items' \subseteq items
    BY <1>1, Zenon DEF StartRow
  <2> QED BY <2>1, <2>2, <2>3, SessionKept
<1>2. ASSUME Crash PROVE SessionInv'
  <2>1. /\ \A q \in Requests : pc'[q] = "issue" =>
              (pc[q] = "issue" /\ token'[q] = token[q]) \/ token'[q] = 0
        /\ \A q \in Requests : pc'[q] = "consume" =>
              (pc[q] = "consume" /\ token'[q] = token[q]) \/ token'[q] \in Issued
    BY <1>2 DEF TypeOK, RequestsOK, Crash
  <2>2. UNCHANGED <<issued, login>>
    BY <1>2, Zenon DEF Crash
  <2>3. items' \subseteq items
    BY <1>2, Zenon DEF Crash
  <2> QED BY <2>1, <2>2, <2>3, SessionKept
<1>3. ASSUME NEW configured \in Configured, StartKey(configured) PROVE SessionInv'
  <2>1. /\ \A q \in Requests : pc'[q] = "issue" =>
              (pc[q] = "issue" /\ token'[q] = token[q]) \/ token'[q] = 0
        /\ \A q \in Requests : pc'[q] = "consume" =>
              (pc[q] = "consume" /\ token'[q] = token[q]) \/ token'[q] \in Issued
    BY <1>3 DEF TypeOK, RequestsOK, StartKey
  <2>2. UNCHANGED <<issued, login>>
    BY <1>3, Zenon DEF StartKey
  <2>3. items' \subseteq items
    BY <1>3, Zenon DEF StartKey
  <2> QED BY <2>1, <2>2, <2>3, SessionKept
<1>4. ASSUME NEW t \in Pairs, ExpireAccess(t) PROVE SessionInv'
  <2>1. /\ \A q \in Requests : pc'[q] = "issue" =>
              (pc[q] = "issue" /\ token'[q] = token[q]) \/ token'[q] = 0
        /\ \A q \in Requests : pc'[q] = "consume" =>
              (pc[q] = "consume" /\ token'[q] = token[q]) \/ token'[q] \in Issued
    BY <1>4 DEF TypeOK, RequestsOK, ExpireAccess
  <2>2. UNCHANGED <<issued, login>>
    BY <1>4, Zenon DEF ExpireAccess
  <2>3. items' \subseteq items
    BY <1>4, Zenon DEF ExpireAccess
  <2> QED BY <2>1, <2>2, <2>3, SessionKept
<1>5. ASSUME NEW t \in Pairs, ExpireRefresh(t) PROVE SessionInv'
  <2>1. /\ \A q \in Requests : pc'[q] = "issue" =>
              (pc[q] = "issue" /\ token'[q] = token[q]) \/ token'[q] = 0
        /\ \A q \in Requests : pc'[q] = "consume" =>
              (pc[q] = "consume" /\ token'[q] = token[q]) \/ token'[q] \in Issued
    BY <1>5 DEF TypeOK, RequestsOK, ExpireRefresh
  <2>2. UNCHANGED <<issued, login>>
    BY <1>5, Zenon DEF ExpireRefresh
  <2>3. items' \subseteq items
    BY <1>5, Zenon DEF ExpireRefresh
  <2> QED BY <2>1, <2>2, <2>3, SessionKept
<1>6. ASSUME NEW r \in Requests, NEW p \in Passphrases, Login(r, p) PROVE SessionInv'
  <2>1. /\ \A q \in Requests : pc'[q] = "issue" =>
              (pc[q] = "issue" /\ token'[q] = token[q]) \/ token'[q] = 0
        /\ \A q \in Requests : pc'[q] = "consume" =>
              (pc[q] = "consume" /\ token'[q] = token[q]) \/ token'[q] \in Issued
    BY <1>6 DEF TypeOK, RequestsOK, Login, Idle, Goto
  <2>2. UNCHANGED <<issued, login>>
    BY <1>6, Zenon DEF Login, Idle, Goto
  <2>3. items' \subseteq items
    BY <1>6, Zenon DEF Login, Idle, Goto
  <2> QED BY <2>1, <2>2, <2>3, SessionKept
<1>7. ASSUME NEW r \in Requests, NEW t \in Pairs, Refresh(r, t) PROVE SessionInv'
  <2>1. /\ \A q \in Requests : pc'[q] = "issue" =>
              (pc[q] = "issue" /\ token'[q] = token[q]) \/ token'[q] = 0
        /\ \A q \in Requests : pc'[q] = "consume" =>
              (pc[q] = "consume" /\ token'[q] = token[q]) \/ token'[q] \in Issued
    BY <1>7 DEF TypeOK, RequestsOK, Refresh, Idle, Goto, Accepted
  <2>2. UNCHANGED <<issued, login>>
    BY <1>7, Zenon DEF Refresh, Idle, Goto, Accepted
  <2>3. items' \subseteq items
    BY <1>7, Zenon DEF Refresh, Idle, Goto, Accepted
  <2> QED BY <2>1, <2>2, <2>3, SessionKept
<1>8. ASSUME NEW r \in Requests, NEW t \in Pairs, Authorize(r, t) PROVE SessionInv'
  <2>1. /\ \A q \in Requests : pc'[q] = "issue" =>
              (pc[q] = "issue" /\ token'[q] = token[q]) \/ token'[q] = 0
        /\ \A q \in Requests : pc'[q] = "consume" =>
              (pc[q] = "consume" /\ token'[q] = token[q]) \/ token'[q] \in Issued
    BY <1>8 DEF TypeOK, RequestsOK, Authorize, Idle, Goto, Accepted
  <2>2. UNCHANGED <<issued, login>>
    BY <1>8, Zenon DEF Authorize, Idle, Goto, Accepted
  <2>3. items' \subseteq items
    BY <1>8, Zenon DEF Authorize, Idle, Goto, Accepted
  <2> QED BY <2>1, <2>2, <2>3, SessionKept
<1>9. ASSUME NEW r \in Requests, Consume(r) PROVE SessionInv'
  BY <1>9, SessionConsume
<1>10. ASSUME NEW r \in Requests, ConsumeRefused(r) PROVE SessionInv'
  <2>1. /\ \A q \in Requests : pc'[q] = "issue" =>
              (pc[q] = "issue" /\ token'[q] = token[q]) \/ token'[q] = 0
        /\ \A q \in Requests : pc'[q] = "consume" =>
              (pc[q] = "consume" /\ token'[q] = token[q]) \/ token'[q] \in Issued
    BY <1>10 DEF TypeOK, RequestsOK, ConsumeRefused, Goto, Return
  <2>2. UNCHANGED <<issued, login>>
    BY <1>10, Zenon DEF ConsumeRefused, Goto, Return
  <2>3. items' \subseteq items
    BY <1>10, Zenon DEF ConsumeRefused, Goto, Return
  <2> QED BY <2>1, <2>2, <2>3, SessionKept
<1>11. ASSUME NEW r \in Requests, Issue(r) PROVE SessionInv'
  BY <1>11, SessionIssue
<1>12. ASSUME NEW r \in Requests, IssueFails(r) PROVE SessionInv'
  <2>1. /\ \A q \in Requests : pc'[q] = "issue" =>
              (pc[q] = "issue" /\ token'[q] = token[q]) \/ token'[q] = 0
        /\ \A q \in Requests : pc'[q] = "consume" =>
              (pc[q] = "consume" /\ token'[q] = token[q]) \/ token'[q] \in Issued
    BY <1>12 DEF TypeOK, RequestsOK, IssueFails, Goto, Return
  <2>2. UNCHANGED <<issued, login>>
    BY <1>12, Zenon DEF IssueFails, Goto, Return
  <2>3. items' \subseteq items
    BY <1>12, Zenon DEF IssueFails, Goto, Return
  <2> QED BY <2>1, <2>2, <2>3, SessionKept
<1>13. ASSUME NEW r \in Requests, NEW p \in Passphrases, NEW p2 \in Passphrases, RotateRow(r, p, p2) PROVE SessionInv'
  <2>1. /\ \A q \in Requests : pc'[q] = "issue" =>
              (pc[q] = "issue" /\ token'[q] = token[q]) \/ token'[q] = 0
        /\ \A q \in Requests : pc'[q] = "consume" =>
              (pc[q] = "consume" /\ token'[q] = token[q]) \/ token'[q] \in Issued
    BY <1>13 DEF TypeOK, RequestsOK, RotateRow, Goto
  <2>2. UNCHANGED <<issued, login>>
    BY <1>13, Zenon DEF RotateRow, Goto
  <2>3. items' \subseteq items
    BY <1>13, Zenon DEF RotateRow, Goto
  <2> QED BY <2>1, <2>2, <2>3, SessionKept
<1>14. ASSUME NEW r \in Requests, RotateFails(r) PROVE SessionInv'
  <2>1. /\ \A q \in Requests : pc'[q] = "issue" =>
              (pc[q] = "issue" /\ token'[q] = token[q]) \/ token'[q] = 0
        /\ \A q \in Requests : pc'[q] = "consume" =>
              (pc[q] = "consume" /\ token'[q] = token[q]) \/ token'[q] \in Issued
    BY <1>14 DEF TypeOK, RequestsOK, RotateFails, Goto, Return
  <2>2. UNCHANGED <<issued, login>>
    BY <1>14, Zenon DEF RotateFails, Goto, Return
  <2>3. items' \subseteq items
    BY <1>14, Zenon DEF RotateFails, Goto, Return
  <2> QED BY <2>1, <2>2, <2>3, SessionKept
<1>15. ASSUME NEW r \in Requests, RotateMemory(r) PROVE SessionInv'
  <2>1. /\ \A q \in Requests : pc'[q] = "issue" =>
              (pc[q] = "issue" /\ token'[q] = token[q]) \/ token'[q] = 0
        /\ \A q \in Requests : pc'[q] = "consume" =>
              (pc[q] = "consume" /\ token'[q] = token[q]) \/ token'[q] \in Issued
    BY <1>15 DEF TypeOK, RequestsOK, RotateMemory, Goto
  <2>2. UNCHANGED <<issued, login>>
    BY <1>15, Zenon DEF RotateMemory, Goto
  <2>3. items' \subseteq items
    BY <1>15, Zenon DEF RotateMemory, Goto
  <2> QED BY <2>1, <2>2, <2>3, SessionKept
<1>16. ASSUME NEW r \in Requests, ResetRefresh(r) PROVE SessionInv'
  <2>1. /\ \A q \in Requests : pc'[q] = "issue" =>
              (pc[q] = "issue" /\ token'[q] = token[q]) \/ token'[q] = 0
        /\ \A q \in Requests : pc'[q] = "consume" =>
              (pc[q] = "consume" /\ token'[q] = token[q]) \/ token'[q] \in Issued
    BY <1>16 DEF TypeOK, RequestsOK, ResetRefresh, Goto, Return
  <2>2. UNCHANGED <<issued, login>>
    BY <1>16, Zenon DEF ResetRefresh, Goto, Return
  <2>3. items' \subseteq items
    BY <1>16, Zenon DEF ResetRefresh, Goto, Return
  <2> QED BY <2>1, <2>2, <2>3, SessionKept
<1>17. ASSUME UNCHANGED vars PROVE SessionInv'
  <2>1. /\ \A q \in Requests : pc'[q] = "issue" =>
              (pc[q] = "issue" /\ token'[q] = token[q]) \/ token'[q] = 0
        /\ \A q \in Requests : pc'[q] = "consume" =>
              (pc[q] = "consume" /\ token'[q] = token[q]) \/ token'[q] \in Issued
    BY <1>17 DEF TypeOK, RequestsOK, vars
  <2>2. UNCHANGED <<issued, login>>
    BY <1>17, Zenon DEF vars
  <2>3. items' \subseteq items
    BY <1>17, Zenon DEF vars
  <2> QED BY <2>1, <2>2, <2>3, SessionKept
<1> QED BY <1>1, <1>2, <1>3, <1>4, <1>5, <1>6, <1>7, <1>8, <1>9, <1>10, <1>11, <1>12, <1>13, <1>14, <1>15, <1>16, <1>17, Zenon DEF Next, Handler

(* However many requests present refresh tokens at once, however often and   *)
(* with whatever rotations and restarts between, a login never has more than *)
(* one refresh token that is usable or being exchanged.                      *)
THEOREM NoSessionBranches == Spec => []OneSessionPerLogin
<1>1. Init => SessionInv
  <2> SUFFICES ASSUME Init PROVE SessionInv
    OBVIOUS
  <2>1. Numbered
    BY DEF Init, Numbered, Issued
  <2>2. OneSessionPerLogin
    BY DEF Init, OneSessionPerLogin, Exchanging
  <2> QED BY <2>1, <2>2 DEF SessionInv
<1>2. SessionInv => OneSessionPerLogin
  BY DEF SessionInv
<1> QED BY <1>1, <1>2, TypeCorrect, SessionStep, PTL DEF Spec


=============================================================================
