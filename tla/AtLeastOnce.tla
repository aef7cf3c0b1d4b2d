----------------------------- MODULE AtLeastOnce -----------------------------
(***************************************************************************)
(* What the transactional outbox promises a task command: an accepted       *)
(* message stays owed until the consumer has it and the outbox knows it, or  *)
(* until the outbox gives it up; both outcomes are final.  The consumer may  *)
(* receive a message several times, also one that is then given up.          *)
(***************************************************************************)
CONSTANT Messages

VARIABLES
    fate,     \* fate[m]
    received  \* the messages the consumer has received at least once

Init ==
    /\ fate = [m \in Messages |-> "none"]
    /\ received = {}

Accept(m) ==
    /\ fate[m] = "none"
    /\ fate' = [fate EXCEPT ![m] = "owed"]
    /\ UNCHANGED received

Receive(m) ==
    /\ fate[m] # "none"
    /\ received' = received \cup {m}
    /\ UNCHANGED fate

Acknowledge(m) ==
    /\ fate[m] = "owed"
    /\ m \in received
    /\ fate' = [fate EXCEPT ![m] = "delivered"]
    /\ UNCHANGED received

GiveUp(m) ==
    /\ fate[m] = "owed"
    /\ fate' = [fate EXCEPT ![m] = "dead_letter"]
    /\ UNCHANGED received

Next == \E m \in Messages : Accept(m) \/ Receive(m) \/ Acknowledge(m) \/ GiveUp(m)

Spec == Init /\ [][Next]_<<fate, received>>
=============================================================================
