---------------------------- MODULE TaskAggregate ----------------------------
(***************************************************************************)
(* The Task aggregate of internal/domain: the states of a task and the moves *)
(* between them.  Every writer of the tasks table (the command kernel, the    *)
(* control plane's own path, the workflow activities) goes through it.        *)
(***************************************************************************)
EXTENDS Integers

IsTerminal(status) == status \in {"COMPLETED", "FAILED", "CANCELLED", "EXPIRED"}

CanTransition(from, to) ==
    /\ ~IsTerminal(from)
    /\ \/ to \in {"FAILED", "CANCELLED", "EXPIRED"}
       \/ <<from, to>> \in
             {<<"CREATED", "PLANNING">>, <<"PLANNING", "ROUTING">>,
              <<"ROUTING", "EXECUTING">>, <<"EXECUTING", "WAITING_APPROVAL">>,
              <<"EXECUTING", "VALIDATING">>, <<"WAITING_APPROVAL", "EXECUTING">>,
              <<"VALIDATING", "COMPLETED">>}

\* NewTask: the version starts at one.
NewTask(row) == [row EXCEPT !.status = "CREATED", !.version = 1]

\* Transition, for a caller that saves the row: every save raises the version.
Transition(row, to) == [row EXCEPT !.status = to, !.version = @ + 1]
=============================================================================
