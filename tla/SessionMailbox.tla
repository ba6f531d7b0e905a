--------------------------- MODULE SessionMailbox ---------------------------
(***************************************************************************)
(* What a session promises about the messages it accepts, whatever timers,  *)
(* waits, commands and follow-ups do: one reader at a time takes the whole  *)
(* inbox; it answers all of it at most once, and then lets it go, or puts   *)
(* all of it back, unanswered, before what arrived meanwhile.  Nothing else *)
(* removes a message, except that the inbox may be discarded as a whole.    *)
(***************************************************************************)
EXTENDS Naturals, Sequences

CONSTANT Readers

VARIABLES
  inbox,     \* numbers of the waiting messages
  held,      \* numbers of the messages each reader took
  answered,  \* messages some reply has covered
  accepted   \* messages put so far

mailbox == <<inbox, held, answered, accepted>>

Elements(s) == {s[i] : i \in DOMAIN s}

Init ==
  /\ inbox = <<>> /\ held = [r \in Readers |-> <<>>]
  /\ answered = {} /\ accepted = 0

Put ==
  /\ inbox' = Append(inbox, accepted + 1)
  /\ accepted' = accepted + 1
  /\ UNCHANGED <<held, answered>>

Take(r) ==
  /\ \A q \in Readers : held[q] = <<>>
  /\ held' = [held EXCEPT ![r] = inbox]
  /\ inbox' = <<>>
  /\ UNCHANGED <<answered, accepted>>

Answer(r) ==
  /\ Elements(held[r]) \cap answered = {}
  /\ answered' = answered \cup Elements(held[r])
  /\ UNCHANGED <<inbox, held, accepted>>

Settle(r) ==
  /\ held' = [held EXCEPT ![r] = <<>>]
  /\ UNCHANGED <<inbox, answered, accepted>>

Return(r) ==
  /\ Elements(held[r]) \cap answered = {}
  /\ inbox' = held[r] \o inbox
  /\ held' = [held EXCEPT ![r] = <<>>]
  /\ UNCHANGED <<answered, accepted>>

Discard ==
  /\ inbox' = <<>>
  /\ UNCHANGED <<held, answered, accepted>>

Next ==
  \/ Put \/ Discard
  \/ \E r \in Readers : Take(r) \/ Answer(r) \/ Settle(r) \/ Return(r)

Spec == Init /\ [][Next]_mailbox
=============================================================================
