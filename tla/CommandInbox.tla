---------------------------- MODULE CommandInbox ----------------------------
(***************************************************************************)
(* What the control bot promises of Telegram's queue of updates: they are  *)
(* confirmed in order, none twice, and a command only after its chat was   *)
(* told how it went.                                                       *)
(***************************************************************************)
EXTENDS Naturals, Sequences

CONSTANT IsCommand(_)   \* a text from an allowed chat

VARIABLES
    updates,        \* all updates so far
    answered,       \* the ones whose chat got an answer
    confirmed       \* how many Telegram may forget

vars == <<updates, answered, confirmed>>

Init == updates = <<>> /\ answered = {} /\ confirmed = 0

Arrive ==
    /\ \E kind \in {"pause", "resume", "other"} : updates' = Append(updates, kind)
    /\ UNCHANGED <<answered, confirmed>>

\* An answer, the first or another one, to a command that waits.
Answer(u) ==
    /\ u \in (confirmed + 1)..Len(updates) /\ IsCommand(updates[u])
    /\ answered' = answered \cup {u}
    /\ UNCHANGED <<updates, confirmed>>

Confirm(n) ==
    /\ n \in (confirmed + 1)..Len(updates)
    /\ \A u \in (confirmed + 1)..n : IsCommand(updates[u]) => u \in answered
    /\ confirmed' = n
    /\ UNCHANGED <<updates, answered>>

Next ==
    \/ Arrive
    \/ \E u \in DOMAIN updates : Answer(u) \/ Confirm(u)

Spec == Init /\ [][Next]_vars
=============================================================================
