---------------------------- MODULE AuthSession ----------------------------
(***************************************************************************)
(* The admin sessions of the HTTP API (internal/httpapi): one passphrase,   *)
(* pairs of access and refresh tokens sealed with the service key and       *)
(* stamped with the token version, one use per refresh token, and a         *)
(* rotation of the passphrase that moves to the next token version.         *)
(*                                                                          *)
(* A request is an HTTP handler goroutine; an action is one critical        *)
(* section of authStateStore.mu or refreshStore.mu, or one database         *)
(* statement.  A pair is its number: token ids are random UUIDs and never   *)
(* collide.  A passphrase stands for its hash; weak passphrases are refused *)
(* before anything is read and are left out.                                *)
(***************************************************************************)
EXTENDS Naturals, Sequences

CONSTANTS
  Requests,      \* HTTP handler goroutines
  Passphrases,   \* passphrases of sufficient length
  Nobody,        \* no request holds the lock
  Configured,    \* values of auth.paseto_key_hex at a start: 0 empty, 1 a key
  MaxPairs,      \* bound: token pairs issued
  MaxRotations,  \* bound: rotations
  MaxCrashes     \* bound: process crashes

ASSUME ConstantsAssumption ==
  /\ MaxPairs \in Nat /\ MaxRotations \in Nat /\ MaxCrashes \in Nat
  /\ Configured \subseteq {0, 1}
  /\ Nobody \notin Requests /\ Passphrases # {}

VARIABLES
  stage,          \* of the process: down, row read, serving
  passphrase,     \* authStateStore: in memory
  tokenVersion,
  key,            \* AuthService.key
  lock,           \* the rotation that holds authStateStore.mu
  dbPassphrase,   \* the row of auth_state
  dbVersion,
  dbKey,
  items,          \* refreshStore.items
  issued,         \* pairs issued so far
  ver,            \* claim "ver" of each pair
  sealed,         \* the key each pair was encrypted with
  accessExpired,  \* pairs whose access token is past its expiry
  refreshExpired, \* pairs whose refresh token is past its expiry
  pc,             \* where each request stands
  token,          \* the pair a request presented, 0 for a login
  version,        \* the version a request read
  shown,          \* history: passphrase shown by the login of this session
  proof,          \* history: passphrase shown at the login behind a pair
  login,          \* history: first pair of the session of a pair
  phrases,        \* history: phrases[v] was set with token version v
  generated,      \* history: keys generated
  crashes         \* history: crashes

memory   == <<passphrase, tokenVersion, key>>
row      == <<dbPassphrase, dbVersion, dbKey>>
pairs    == <<issued, ver, sealed, proof, login>>
expiry   == <<accessExpired, refreshExpired>>
requests == <<pc, token, version, shown>>
vars == <<stage, memory, lock, row, items, pairs, expiry, requests,
          phrases, generated, crashes>>

Pairs == 1..MaxPairs
Issued == 1..issued
AnyPhrase == CHOOSE p \in Passphrases : TRUE

Init ==
  /\ stage = "down" /\ lock = Nobody
  /\ passphrase = AnyPhrase /\ tokenVersion = 0 /\ key = 0
  /\ dbPassphrase = AnyPhrase /\ dbVersion = 0 /\ dbKey = 0
  /\ items = {} /\ accessExpired = {} /\ refreshExpired = {}
  /\ issued = 0 /\ ver = [t \in Pairs |-> 0] /\ sealed = [t \in Pairs |-> 0]
  /\ proof = [t \in Pairs |-> AnyPhrase] /\ login = [t \in Pairs |-> 0]
  /\ pc = [r \in Requests |-> "idle"] /\ token = [r \in Requests |-> 0]
  /\ version = [r \in Requests |-> 0]
  /\ shown = [r \in Requests |-> AnyPhrase]
  /\ phrases = <<>> /\ generated = 0 /\ crashes = 0

-----------------------------------------------------------------------------
(* Process start and crash.                                                 *)

(* initialize: the row is read, or inserted with a generated passphrase and *)
(* version 1 (dbVersion = 0: there is no row).  Faulty variants: the first  *)
(* version is 0; a row that exists is inserted again.                       *)
StartRowZero ==
  /\ stage = "down"
  /\ stage' = "row"
  /\ \/ /\ dbVersion = 0
        /\ dbPassphrase' \in Passphrases /\ dbVersion' = 0
        /\ phrases' = <<dbPassphrase'>>
     \/ dbVersion > 0 /\ UNCHANGED <<dbPassphrase, dbVersion, phrases>>
  /\ passphrase' = dbPassphrase' /\ tokenVersion' = dbVersion'
  /\ UNCHANGED <<key, lock, dbKey, items, pairs, expiry, requests, generated,
                 crashes>>

StartRowAgain ==
  /\ stage = "down"
  /\ stage' = "row"
  /\ dbPassphrase' \in Passphrases /\ dbVersion' = 1
  /\ phrases' = <<dbPassphrase'>>
  /\ passphrase' = dbPassphrase' /\ tokenVersion' = dbVersion'
  /\ UNCHANGED <<key, lock, dbKey, items, pairs, expiry, requests, generated,
                 crashes>>

StartRow ==
  /\ stage = "down"
  /\ stage' = "row"
  /\ \/ /\ dbVersion = 0
        /\ dbPassphrase' \in Passphrases /\ dbVersion' = 1
        /\ phrases' = <<dbPassphrase'>>
     \/ dbVersion > 0 /\ UNCHANGED <<dbPassphrase, dbVersion, phrases>>
  /\ passphrase' = dbPassphrase' /\ tokenVersion' = dbVersion'
  /\ UNCHANGED <<key, lock, dbKey, items, pairs, expiry, requests, generated,
                 crashes>>

(* resolvePasetoKeyHex: the configured key, else the stored one, else a new *)
(* one; what is used is stored first.  1 is the configured key, keys above  *)
(* are generated.                                                           *)
StartKey(configured) ==
  /\ stage = "row"
  /\ stage' = "up"
  /\ IF configured # 0
     THEN key' = configured /\ UNCHANGED generated
     ELSE IF dbKey # 0
          THEN key' = dbKey /\ UNCHANGED generated
          ELSE key' = generated + 2 /\ generated' = generated + 1
  /\ dbKey' = key'
  /\ UNCHANGED <<passphrase, tokenVersion, lock, dbPassphrase, dbVersion,
                 items, pairs, expiry, requests, phrases, crashes>>

(* The process dies: its memory, with the refresh store, and its requests   *)
(* are gone.                                                                *)
Crash ==
  /\ stage # "down" /\ crashes < MaxCrashes
  /\ crashes' = crashes + 1
  /\ stage' = "down"
  /\ lock' = Nobody
  /\ items' = {}
  /\ pc' = [r \in Requests |-> "idle"]
  /\ token' = [r \in Requests |-> 0] /\ version' = [r \in Requests |-> 0]
  /\ shown' = [r \in Requests |-> AnyPhrase]
  /\ UNCHANGED <<memory, row, pairs, expiry, phrases, generated>>

(* Time passes: a token reaches its expiry.                                 *)
ExpireAccess(t) ==
  /\ t \in Issued \ accessExpired
  /\ accessExpired' = accessExpired \cup {t}
  /\ UNCHANGED <<stage, memory, lock, row, items, pairs, refreshExpired,
                 requests, phrases, generated, crashes>>

ExpireRefresh(t) ==
  /\ t \in Issued \ refreshExpired
  /\ refreshExpired' = refreshExpired \cup {t}
  /\ UNCHANGED <<stage, memory, lock, row, items, pairs, accessExpired,
                 requests, phrases, generated, crashes>>

-----------------------------------------------------------------------------
Idle(r)    == stage = "up" /\ pc[r] = "idle"
Goto(r, l) == pc' = [pc EXCEPT ![r] = l]

(* The handler answers its request; its local variables are gone.           *)
Return(r) ==
  /\ Goto(r, "idle")
  /\ token' = [token EXCEPT ![r] = 0]
  /\ version' = [version EXCEPT ![r] = 0]
  /\ shown' = [shown EXCEPT ![r] = AnyPhrase]

(* parseAndValidateToken and the version check that follows it.             *)
Accepted(t, expired) ==
  /\ t \in Issued \ expired
  /\ sealed[t] = key
  /\ lock = Nobody /\ ver[t] = tokenVersion

(* Login: authenticate reads hash and version in one critical section and   *)
(* compares outside it; a wrong passphrase changes nothing.                 *)
Login(r, p) ==
  /\ Idle(r) /\ lock = Nobody
  /\ p = passphrase
  /\ Goto(r, "issue")
  /\ token' = [token EXCEPT ![r] = 0]
  /\ version' = [version EXCEPT ![r] = tokenVersion]
  /\ shown' = [shown EXCEPT ![r] = p]
  /\ UNCHANGED <<stage, memory, lock, row, items, pairs, expiry, phrases,
                 generated, crashes>>

(* Refresh up to consume.                                                   *)
Refresh(r, t) ==
  /\ Idle(r)
  /\ Accepted(t, refreshExpired)
  /\ Goto(r, "consume")
  /\ token' = [token EXCEPT ![r] = t]
  /\ version' = [version EXCEPT ![r] = tokenVersion]
  /\ shown' = [shown EXCEPT ![r] = proof[t]]
  /\ UNCHANGED <<stage, memory, lock, row, items, pairs, expiry, phrases,
                 generated, crashes>>

(* consume: the token must still be there.  Faulty variant: it stays.       *)
ConsumeKeeps(r) ==
  /\ pc[r] = "consume"
  /\ token[r] \in items \ refreshExpired
  /\ Goto(r, "issue")
  /\ items' = items \ refreshExpired
  /\ UNCHANGED <<stage, memory, lock, row, pairs, expiry, token, version,
                 shown, phrases, generated, crashes>>

Consume(r) ==
  /\ pc[r] = "consume"
  /\ token[r] \in items \ refreshExpired
  /\ Goto(r, "issue")
  /\ items' = (items \ refreshExpired) \ {token[r]}
  /\ UNCHANGED <<stage, memory, lock, row, pairs, expiry, token, version,
                 shown, phrases, generated, crashes>>

(* The token was used, reset or has expired meanwhile.                      *)
ConsumeRefused(r) ==
  /\ pc[r] = "consume"
  /\ token[r] \notin items \ refreshExpired
  /\ items' = items \ refreshExpired
  /\ Return(r)
  /\ UNCHANGED <<stage, memory, lock, row, pairs, expiry, phrases, generated,
                 crashes>>

(* issueTokenPair.  Faulty variant: the version is read again.              *)
IssueCurrent(r) ==
  /\ pc[r] = "issue" /\ issued < MaxPairs
  /\ issued' = issued + 1
  /\ ver' = [ver EXCEPT ![issued + 1] = tokenVersion]
  /\ sealed' = [sealed EXCEPT ![issued + 1] = key]
  /\ proof' = [proof EXCEPT ![issued + 1] = shown[r]]
  /\ login' = [login EXCEPT ![issued + 1] =
                 IF token[r] = 0 THEN issued + 1 ELSE login[token[r]]]
  /\ items' = (items \ refreshExpired) \cup {issued + 1}
  /\ Return(r)
  /\ UNCHANGED <<stage, memory, lock, row, expiry, phrases, generated,
                 crashes>>

Issue(r) ==
  /\ pc[r] = "issue" /\ issued < MaxPairs
  /\ issued' = issued + 1
  /\ ver' = [ver EXCEPT ![issued + 1] = version[r]]
  /\ sealed' = [sealed EXCEPT ![issued + 1] = key]
  /\ proof' = [proof EXCEPT ![issued + 1] = shown[r]]
  /\ login' = [login EXCEPT ![issued + 1] =
                 IF token[r] = 0 THEN issued + 1 ELSE login[token[r]]]
  /\ items' = (items \ refreshExpired) \cup {issued + 1}
  /\ Return(r)
  /\ UNCHANGED <<stage, memory, lock, row, expiry, phrases, generated,
                 crashes>>

(* The random source or the encoding fails: a consumed token is not         *)
(* replaced.                                                                *)
IssueFails(r) ==
  /\ pc[r] = "issue"
  /\ Return(r)
  /\ UNCHANGED <<stage, memory, lock, row, items, pairs, expiry, phrases,
                 generated, crashes>>

(* The rotation handler runs behind accessTokenMiddleware.                  *)
Authorize(r, t) ==
  /\ Idle(r)
  /\ Accepted(t, accessExpired)
  /\ Goto(r, "rotate")
  /\ UNCHANGED <<stage, memory, lock, row, items, pairs, expiry, token,
                 version, shown, phrases, generated, crashes>>

(* rotatePassphrase: the lock is held from the comparison to the end; the   *)
(* row is updated first, the memory after it.                               *)
RotateRow(r, current, new) ==
  /\ pc[r] = "rotate" /\ lock = Nobody
  /\ current = passphrase
  /\ tokenVersion <= MaxRotations
  /\ lock' = r
  /\ dbPassphrase' = new
  /\ dbVersion' = tokenVersion + 1
  /\ phrases' = Append(phrases, new)
  /\ Goto(r, "memory")
  /\ UNCHANGED <<stage, memory, dbKey, items, pairs, expiry, token, version,
                 shown, generated, crashes>>

(* Wrong passphrase, or hashing or the update failed: nothing changes.      *)
(* Faulty variant: the memory is changed although the update failed.        *)
RotateFailsLate(r) ==
  /\ pc[r] = "rotate" /\ lock = Nobody
  /\ passphrase' \in Passphrases
  /\ Return(r)
  /\ UNCHANGED <<stage, tokenVersion, key, lock, row, items, pairs, expiry,
                 phrases, generated, crashes>>

RotateFails(r) ==
  /\ pc[r] = "rotate" /\ lock = Nobody
  /\ Return(r)
  /\ UNCHANGED <<stage, memory, lock, row, items, pairs, expiry, phrases,
                 generated, crashes>>

RotateMemory(r) ==
  /\ pc[r] = "memory"
  /\ passphrase' = dbPassphrase /\ tokenVersion' = dbVersion
  /\ lock' = Nobody
  /\ Goto(r, "reset")
  /\ UNCHANGED <<stage, key, row, items, pairs, expiry, token, version, shown,
                 phrases, generated, crashes>>

ResetRefresh(r) ==
  /\ pc[r] = "reset"
  /\ items' = {}
  /\ Return(r)
  /\ UNCHANGED <<stage, memory, lock, row, pairs, expiry, phrases, generated,
                 crashes>>

-----------------------------------------------------------------------------
Handler(r) ==
  \/ \E p \in Passphrases : Login(r, p)
  \/ \E t \in Pairs : Refresh(r, t) \/ Authorize(r, t)
  \/ Consume(r) \/ ConsumeRefused(r) \/ Issue(r) \/ IssueFails(r)
  \/ \E p, q \in Passphrases : RotateRow(r, p, q)
  \/ RotateFails(r) \/ RotateMemory(r) \/ ResetRefresh(r)

Next ==
  \/ StartRow \/ Crash
  \/ \E configured \in Configured : StartKey(configured)
  \/ \E t \in Pairs : ExpireAccess(t) \/ ExpireRefresh(t)
  \/ \E r \in Requests : Handler(r)

Spec == Init /\ [][Next]_vars

-----------------------------------------------------------------------------
(* Properties                                                               *)

Steps == {"idle", "consume", "issue", "rotate", "memory", "reset"}

StoreOK ==
  /\ stage \in {"down", "row", "up"} /\ lock \in Requests \cup {Nobody}
  /\ passphrase \in Passphrases /\ dbPassphrase \in Passphrases
  /\ tokenVersion \in Nat /\ dbVersion \in Nat
  /\ key \in Nat /\ dbKey \in Nat /\ generated \in Nat /\ crashes \in Nat
  /\ phrases \in Seq(Passphrases)
  /\ stage # "down" => tokenVersion >= 1 /\ dbVersion >= 1

PairsOK ==
  /\ issued \in 0..MaxPairs /\ items \subseteq Issued
  /\ accessExpired \subseteq Issued /\ refreshExpired \subseteq Issued
  /\ ver \in [Pairs -> Nat] /\ sealed \in [Pairs -> Nat]
  /\ proof \in [Pairs -> Passphrases] /\ login \in [Pairs -> 0..MaxPairs]

RequestsOK ==
  /\ pc \in [Requests -> Steps] /\ token \in [Requests -> 0..MaxPairs]
  /\ version \in [Requests -> Nat] /\ shown \in [Requests -> Passphrases]

(* The type invariant; a process that has read its row never runs, and      *)
(* never leaves a row, with the version 0 that currentTokenVersion refuses. *)
TypeOK == StoreOK /\ PairsOK /\ RequestsOK

(* Every pair proves the passphrase of its version: its session began with  *)
(* a login that showed the passphrase set with that version, however        *)
(* logins, refreshes, rotations and restarts interleave.  So no token of    *)
(* the current version goes back to a passphrase that was rotated away.     *)
TokensProvePassphrase ==
  \A t \in Issued : ver[t] \in DOMAIN phrases /\ proof[t] = phrases[ver[t]]

(* One login never branches into two sessions: of the pairs that go back to *)
(* it at most one refresh token is usable or being exchanged.               *)
Exchanging(r, t) == pc[r] = "issue" /\ token[r] = t

OneSessionPerLogin ==
  /\ \A t, u \in items : login[t] = login[u] => t = u
  /\ \A r \in Requests, t \in Issued, u \in items :
       Exchanging(r, t) => login[t] # login[u]
  /\ \A q, r \in Requests, t, u \in Issued :
       Exchanging(q, t) /\ Exchanging(r, u) /\ login[t] = login[u] => q = r

(* While no rotation is between its two writes, the serving process and its *)
(* row agree: a restart changes neither the passphrase, nor the version,    *)
(* nor (with the same configuration) the key.                               *)
MemoryMatchesRow ==
  stage = "up" /\ lock = Nobody =>
    passphrase = dbPassphrase /\ tokenVersion = dbVersion /\ key = dbKey

(* The token version never falls, across crashes too: what a rotation       *)
(* revoked stays revoked.                                                   *)
VersionNeverFalls ==
  [][tokenVersion' >= tokenVersion /\ dbVersion' >= dbVersion]_vars

=============================================================================
