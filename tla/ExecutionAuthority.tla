------------------------- MODULE ExecutionAuthority -------------------------
(***************************************************************************)
(* What the durable execution-authority boundary of the workers promises    *)
(* (AttemptExecutionCoordinator in persistent_worker.go), without clocks,   *)
(* tokens, fences or rows: every node has a log of grants, at most the last *)
(* one is open, an outcome is written once, and a node that succeeded or    *)
(* was cancelled is never granted again.                                    *)
(***************************************************************************)
EXTENDS Integers, Sequences

CONSTANTS Nodes, Workers

VARIABLE grants   \* grants[n]: the grants of n, oldest first

Outcomes == {"ABANDONED", "SUCCEEDED", "FAILED", "CANCELLED"}

LastOutcome(n) == grants[n][Len(grants[n])].outcome

OpenGrant(w) == [owner |-> w, outcome |-> "OPEN"]

Init == grants = [n \in Nodes |-> <<>>]

\* Claim of a node nobody holds.
Grant(n, w) ==
    /\ Len(grants[n]) > 0 => LastOutcome(n) \in {"ABANDONED", "FAILED"}
    /\ grants' = [grants EXCEPT ![n] = Append(@, OpenGrant(w))]

\* Claim that takes the node from a holder that let its lease expire.
Supersede(n, w) ==
    /\ Len(grants[n]) > 0
    /\ LastOutcome(n) = "OPEN"
    /\ grants' = [grants EXCEPT
                    ![n] = Append([grants[n] EXCEPT ![Len(grants[n])].outcome = "ABANDONED"],
                                  OpenGrant(w))]

\* Complete and ReleaseBeforeEffect.
Close(n, outcome) ==
    /\ Len(grants[n]) > 0
    /\ LastOutcome(n) = "OPEN"
    /\ grants' = [grants EXCEPT ![n][Len(grants[n])].outcome = outcome]

Next ==
    \E n \in Nodes :
        \/ \E w \in Workers : Grant(n, w) \/ Supersede(n, w)
        \/ \E outcome \in Outcomes : Close(n, outcome)

Spec == Init /\ [][Next]_grants
=============================================================================
