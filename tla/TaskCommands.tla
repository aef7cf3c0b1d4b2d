----------------------------- MODULE TaskCommands -----------------------------
(***************************************************************************)
(* The task command kernel: the public commands of the control plane (create *)
(* a task, decide its route, execute a model) over the tables tasks,          *)
(* task_events, outbox_messages and idempotency_records.  Every method of     *)
(* ScopedPostgresTaskCommands is one transaction and one action; what a       *)
(* request reads before its transaction is kept in its own variables and may  *)
(* be stale when the transaction runs.  The provider call lies between two    *)
(* transactions, and a request may stop between any two of its steps.         *)
(*                                                                            *)
(* A transaction that refuses, or that a database error rolls back, changes   *)
(* nothing and ends the request.  A COMMIT whose answer is lost is the        *)
(* transaction followed by Abandon.                                           *)
(***************************************************************************)
EXTENDS Integers, Sequences, TaskAggregate

CONSTANTS
    Tasks,      \* ids that domain.NewTask may be given
    Keys,       \* values of the Idempotency-Key header
    Digests,    \* digests of the request bodies
    Bodies,     \* the pairs of a key and a digest that clients send
    Clients,    \* requests the API servers handle at the same time
    Decisions,  \* ids of the route decisions router.Plan returns
    None,       \* SQL NULL
    MaxCalls    \* bound: provider calls of one command

ASSUME TaskConstants ==
    /\ None \notin Tasks \cup Keys \cup Digests \cup Decisions
    /\ Bodies \subseteq Keys \X Digests
    /\ MaxCalls \in Nat \ {0}

VARIABLES
    task,     \* task[t]: the row of tasks
    events,   \* events[t]: the states whose canonical events are in task_events
    outbox,   \* outbox[t]: workflow.start messages of t
    idem,     \* idem[<<s, k>>]: the row of idempotency_records, s its operation
    pc,       \* pc[c]: the next step of request c
    cmd,      \* cmd[c]: its operation, key and digest
    seen,     \* seen[c]: the task as c read it last
    outcome,  \* outcome[c]: how the provider call of c ended
    calls,    \* calls[<<s, k>>]: outcomes of the provider calls of a command (history)
    answers   \* answers[s, k, d]: results returned to clients (history)

store == <<task, events, outbox, idem>>
request == <<pc, cmd, seen, outcome>>
vars == <<store, request, calls, answers>>

-----------------------------------------------------------------------------
\* The operation column: the operation and the task it is about.
Operations ==
    {<<"create", None>>} \cup ({"planning", "route", "model"} \X Tasks)

\* What a stored response amounts to: the task created, the decision taken, or
\* how the model execution ended.
Responses == Tasks \cup Decisions \cup {"ok", "final", None}

Command == {r \in [op : Operations, key : Keys, digest : Digests] : <<r.key, r.digest>> \in Bodies}

NoRecord == [status |-> "none", digest |-> None, response |-> None]

-----------------------------------------------------------------------------
Init ==
    /\ task = [t \in Tasks |->
                 [status |-> "none", version |-> 0, route |-> None, result |-> None]]
    /\ events = [t \in Tasks |-> <<>>]
    /\ outbox = [t \in Tasks |-> 0]
    /\ idem = [s \in Operations \X Keys |-> NoRecord]
    /\ pc = [c \in Clients |-> "idle"]
    /\ cmd = [c \in Clients |-> None]
    /\ seen = [c \in Clients |-> None]
    /\ outcome = [c \in Clients |-> None]
    /\ calls = [s \in Operations \X Keys |-> <<>>]
    /\ answers = [s \in Operations \X Keys \X Digests |-> {}]

\* Mutation: a command in progress is reserved again.
ReservableInProgress(op, key, digest) ==
    \/ idem[<<op, key>>].status = "none"
    \/ /\ idem[<<op, key>>].status \in {"in_progress", "failed_retryable"}
       /\ idem[<<op, key>>].digest = digest

\* reserveIdempotency: the key is free, or its last attempt may be retried.
Reservable(op, key, digest) ==
    \/ idem[<<op, key>>].status = "none"
    \/ idem[<<op, key>>].status = "failed_retryable" /\ idem[<<op, key>>].digest = digest

\* Mutation: the digest of the stored command is not compared.
ReplayableAnyDigest(op, key, digest) ==
    idem[<<op, key>>].status \in {"completed", "failed_final"}

\* reserveIdempotency and ResolveIdempotency: the stored result is returned.
Replayable(op, key, digest) ==
    /\ idem[<<op, key>>].status \in {"completed", "failed_final"}
    /\ idem[<<op, key>>].digest = digest

Recorded(status, digest, response) ==
    [status |-> status, digest |-> digest, response |-> response]

\* The version column is still the one the request read.
Current(t, snapshot) == task[t].version = snapshot.version

\* Mutation: one version step for a command that makes two transitions.
AppliedOnce(row, path) ==
    [row EXCEPT !.status = path[Len(path)], !.version = @ + 1]

\* The projection after the given transitions.
Applied(row, path) ==
    [row EXCEPT !.status = path[Len(path)], !.version = @ + Len(path)]

Answer(op, key, digest, response) ==
    answers' = [answers EXCEPT ![<<op, key, digest>>] = @ \cup {response}]

\* The request ends: it has its answer, an error, or nobody waits for it any more.
End(c) ==
    /\ pc' = [pc EXCEPT ![c] = "idle"]
    /\ cmd' = [cmd EXCEPT ![c] = None]
    /\ seen' = [seen EXCEPT ![c] = None]
    /\ outcome' = [outcome EXCEPT ![c] = None]

Refuse(c) == End(c) /\ UNCHANGED <<store, calls, answers>>

Replay(c) ==
    LET r == cmd[c] IN
    /\ Answer(r.op, r.key, r.digest, idem[<<r.op, r.key>>].response)
    /\ End(c)
    /\ UNCHANGED <<store, calls>>

Abandon(c) == pc[c] # "idle" /\ Refuse(c)

-----------------------------------------------------------------------------
\* Mutation: the workflow.start message is not part of the transaction.
CreateTaskUnannounced(key, digest, t) ==
    LET op == <<"create", None>> IN
    /\ Reservable(op, key, digest)
    /\ task[t].status = "none"
    /\ task' = [task EXCEPT ![t] = NewTask(@)]
    /\ events' = [events EXCEPT ![t] = <<"CREATED">>]
    /\ idem' = [idem EXCEPT ![<<op, key>>] = Recorded("completed", digest, t)]
    /\ Answer(op, key, digest, t)
    /\ UNCHANGED <<outbox, request, calls>>

\* Mutation: a row with the same id is replaced instead of refused.
CreateTaskOver(key, digest, t) ==
    LET op == <<"create", None>> IN
    /\ Reservable(op, key, digest)
    /\ task' = [task EXCEPT ![t] = NewTask(@)]
    /\ events' = [events EXCEPT ![t] = <<"CREATED">>]
    /\ outbox' = [outbox EXCEPT ![t] = @ + 1]
    /\ idem' = [idem EXCEPT ![<<op, key>>] = Recorded("completed", digest, t)]
    /\ Answer(op, key, digest, t)
    /\ UNCHANGED <<request, calls>>

\* CreateTask: task, TaskCreated, the workflow.start message and the result of
\* the command in one transaction.
CreateTask(key, digest, t) ==
    LET op == <<"create", None>> IN
    /\ Reservable(op, key, digest)
    /\ task[t].status = "none"
    /\ task' = [task EXCEPT ![t] = NewTask(@)]
    /\ events' = [events EXCEPT ![t] = <<"CREATED">>]
    /\ outbox' = [outbox EXCEPT ![t] = @ + 1]
    /\ idem' = [idem EXCEPT ![<<op, key>>] = Recorded("completed", digest, t)]
    /\ Answer(op, key, digest, t)
    /\ UNCHANGED <<request, calls>>

\* The answer of CreateTask is lost, with or without its transaction: the client
\* repeats the command and is given the stored task.
CreateTaskReplay(key, digest) ==
    LET op == <<"create", None>> IN
    /\ Replayable(op, key, digest)
    /\ Answer(op, key, digest, idem[<<op, key>>].response)
    /\ UNCHANGED <<store, request, calls>>

\* A route or model request arrives and looks its key up.
Lookup(c, r) ==
    /\ pc[c] = "idle"
    /\ task[r.op[2]].status # "none"
    /\ \/ /\ Reservable(r.op, r.key, r.digest)
          /\ Len(calls[<<r.op, r.key>>]) < MaxCalls
          /\ pc' = [pc EXCEPT ![c] = "load"]
          /\ cmd' = [cmd EXCEPT ![c] = r]
          /\ UNCHANGED <<store, seen, outcome, calls, answers>>
       \/ /\ Replayable(r.op, r.key, r.digest)
          /\ Answer(r.op, r.key, r.digest, idem[<<r.op, r.key>>].response)
          /\ UNCHANGED <<store, request, calls>>

\* The step a task in the given state calls for, "refused" when there is none.
RouteStep(status) ==
    CASE status = "CREATED"  -> "planning"
      [] status = "PLANNING" -> "route"
      [] status = "ROUTING"  -> "relookup"
      [] OTHER               -> "refused"

ModelStep(status) == IF status \in {"ROUTING", "EXECUTING"} THEN "begin" ELSE "refused"

\* tasks.Get and the switch on the status.
Load(c) ==
    LET row == task[cmd[c].op[2]]
        step == IF cmd[c].op[1] = "route" THEN RouteStep(row.status) ELSE ModelStep(row.status)
    IN
    /\ pc[c] = "load"
    /\ IF step = "refused"
       THEN Refuse(c)
       ELSE /\ pc' = [pc EXCEPT ![c] = step]
            /\ seen' = [seen EXCEPT ![c] = row]
            /\ UNCHANGED <<store, cmd, outcome, calls, answers>>

\* commitPlanningForRoute: CommitTransition of CREATED -> PLANNING under the key
\* of the planning step.  When that key is already completed the task is read
\* again.
CommitPlanning(c) ==
    LET r == cmd[c]
        t == r.op[2]
        op == <<"planning", t>>
    IN
    /\ pc[c] = "planning"
    /\ IF Replayable(op, r.key, r.digest)
       THEN /\ pc' = [pc EXCEPT ![c] = "reload"]
            /\ UNCHANGED <<store, cmd, seen, outcome, calls, answers>>
       ELSE IF Reservable(op, r.key, r.digest) /\ Current(t, seen[c])
       THEN /\ task' = [task EXCEPT ![t] = Applied(@, <<"PLANNING">>)]
            /\ events' = [events EXCEPT ![t] = @ \o <<"PLANNING">>]
            /\ idem' = [idem EXCEPT ![<<op, r.key>>] = Recorded("completed", r.digest, t)]
            /\ pc' = [pc EXCEPT ![c] = "route"]
            /\ seen' = [seen EXCEPT ![c] = task'[t]]
            /\ UNCHANGED <<outbox, cmd, outcome, calls, answers>>
       ELSE Refuse(c)

\* The task after a replayed planning step; Transition refuses all but PLANNING.
Reload(c) ==
    LET row == task[cmd[c].op[2]] IN
    /\ pc[c] = "reload"
    /\ IF CanTransition(row.status, "ROUTING")
       THEN /\ pc' = [pc EXCEPT ![c] = "route"]
            /\ seen' = [seen EXCEPT ![c] = row]
            /\ UNCHANGED <<store, cmd, outcome, calls, answers>>
       ELSE Refuse(c)

\* The second lookup of DecideRouteIdempotent, for a task found in ROUTING.
Relookup(c) ==
    /\ pc[c] = "relookup"
    /\ IF Replayable(cmd[c].op, cmd[c].key, cmd[c].digest) THEN Replay(c) ELSE Refuse(c)

\* Mutation: the transaction trusts the task as the request read it.
RoutableAsSeen(t, snapshot) == snapshot.status = "PLANNING"

Routable(t, snapshot) == Current(t, snapshot) /\ task[t].status = "PLANNING"

\* CommitRouteTransition with the decision that router.Plan returned.
CommitRoute(c, decision) ==
    LET r == cmd[c]
        t == r.op[2]
    IN
    /\ pc[c] = "route"
    /\ IF Replayable(r.op, r.key, r.digest)
       THEN Replay(c)
       ELSE IF Reservable(r.op, r.key, r.digest) /\ Routable(t, seen[c])
       THEN /\ task' = [task EXCEPT ![t] = [Applied(@, <<"ROUTING">>) EXCEPT !.route = decision]]
            /\ events' = [events EXCEPT ![t] = @ \o <<"ROUTING">>]
            /\ idem' = [idem EXCEPT ![<<r.op, r.key>>] = Recorded("completed", r.digest, decision)]
            /\ Answer(r.op, r.key, r.digest, decision)
            /\ End(c)
            /\ UNCHANGED <<outbox, calls>>
       ELSE Refuse(c)

-----------------------------------------------------------------------------
\* BeginModelExecution: the key is reserved and stays in_progress; the first
\* execution moves the task to EXECUTING, a later one finds it there.
BeginModelExecution(c) ==
    LET r == cmd[c]
        t == r.op[2]
        begun == IF task[t].status = "ROUTING" THEN <<"EXECUTING">> ELSE <<>>
    IN
    /\ pc[c] = "begin"
    /\ IF Replayable(r.op, r.key, r.digest)
       THEN Replay(c)
       ELSE IF /\ Reservable(r.op, r.key, r.digest)
               /\ Current(t, seen[c])
               /\ task[t].status \in {"ROUTING", "EXECUTING"}
               /\ task[t].status = seen[c].status
       THEN /\ task' = IF begun = <<>> THEN task ELSE [task EXCEPT ![t] = Applied(@, begun)]
            /\ events' = [events EXCEPT ![t] = @ \o begun]
            /\ idem' = [idem EXCEPT ![<<r.op, r.key>>] = Recorded("in_progress", r.digest, None)]
            /\ pc' = [pc EXCEPT ![c] = "call"]
            /\ seen' = [seen EXCEPT ![c] = task'[t]]
            /\ UNCHANGED <<outbox, cmd, outcome, calls, answers>>
       ELSE Refuse(c)

\* modelRuntime.Execute: success, a retryable error or a final one.
CallProvider(c, o) ==
    /\ pc[c] = "call"
    /\ calls' = [calls EXCEPT ![<<cmd[c].op, cmd[c].key>>] = Append(@, o)]
    /\ outcome' = [outcome EXCEPT ![c] = o]
    /\ pc' = [pc EXCEPT ![c] = "record"]
    /\ UNCHANGED <<store, cmd, seen, answers>>

\* The row both finalization and the retry mark insist on.
HeldBy(r) == idem[<<r.op, r.key>>].status = "in_progress" /\ idem[<<r.op, r.key>>].digest = r.digest

FinalPath(o) == IF o = "ok" THEN <<"VALIDATING", "COMPLETED">> ELSE <<"FAILED">>

FinalStatus(o) == IF o = "ok" THEN "completed" ELSE "failed_final"

\* Mutation: a task that another command finished is finished again.
FinalizableAgain(t, snapshot) ==
    task[t].status \in {"EXECUTING", "COMPLETED", "FAILED"}

Finalizable(t, snapshot) == task[t].status = "EXECUTING" /\ Current(t, snapshot)

\* FinalizeModelExecution: the projection, its events and the command's result in
\* one transaction.
FinalizeModelExecution(c) ==
    LET r == cmd[c]
        t == r.op[2]
        o == outcome[c]
    IN
    /\ pc[c] = "record"
    /\ o \in {"ok", "final"}
    /\ IF HeldBy(r) /\ Finalizable(t, seen[c])
       THEN /\ task' = [task EXCEPT ![t] = [Applied(@, FinalPath(o)) EXCEPT !.result = r.key]]
            /\ events' = [events EXCEPT ![t] = @ \o FinalPath(o)]
            /\ idem' = [idem EXCEPT ![<<r.op, r.key>>] = Recorded(FinalStatus(o), r.digest, o)]
            /\ Answer(r.op, r.key, r.digest, o)
            /\ End(c)
            /\ UNCHANGED <<outbox, calls>>
       ELSE Refuse(c)

\* MarkModelExecutionRetryable: only the key changes; the task stays EXECUTING.
MarkModelExecutionRetryable(c) ==
    LET r == cmd[c] IN
    /\ pc[c] = "record"
    /\ outcome[c] = "retryable"
    /\ IF HeldBy(r)
       THEN /\ idem' = [idem EXCEPT ![<<r.op, r.key>>] = Recorded("failed_retryable", r.digest, None)]
            /\ End(c)
            /\ UNCHANGED <<task, events, outbox, calls, answers>>
       ELSE Refuse(c)

-----------------------------------------------------------------------------
Requests == {r \in Command : r.op[1] \in {"route", "model"}}

Next ==
    \/ \E body \in Bodies :
          \/ \E t \in Tasks : CreateTask(body[1], body[2], t)
          \/ CreateTaskReplay(body[1], body[2])
    \/ \E c \in Clients :
          \/ \E r \in Requests : Lookup(c, r)
          \/ Load(c)
          \/ CommitPlanning(c)
          \/ Reload(c)
          \/ Relookup(c)
          \/ \E decision \in Decisions : CommitRoute(c, decision)
          \/ BeginModelExecution(c)
          \/ \E o \in {"ok", "retryable", "final"} : CallProvider(c, o)
          \/ FinalizeModelExecution(c)
          \/ MarkModelExecutionRetryable(c)
          \/ Abandon(c)

Spec == Init /\ [][Next]_vars

-----------------------------------------------------------------------------
\* task-event-contract.md: "Every Task state transition creates exactly one
\* canonical state event", and model-execution-idempotency.md: "Task version
\* increments once per logical state transition".  The events of a task are a
\* gap-free path through the state machine that leads to the stored status, and
\* the version counts them, whichever commands raced.
EventsExplainTask ==
    \A t \in Tasks :
        /\ Len(events[t]) = task[t].version
        /\ task[t].status # "none" =>
              /\ events[t][1] = "CREATED"
              /\ events[t][task[t].version] = task[t].status
        /\ \A i \in 1..(Len(events[t]) - 1) : CanTransition(events[t][i], events[t][i + 1])

\* A task exists exactly when one completed create command answers with it, and
\* then one workflow.start message was committed with it: repeated and concurrent
\* creations neither duplicate a task nor lose the intent to start its workflow.
CreatedOnce ==
    \A t \in Tasks :
        LET creators == {k \in Keys : idem[<<<<"create", None>>, k>>].response = t}
            exists == task[t].status # "none"
        IN  /\ \A j, k \in creators : j = k
            /\ exists <=> creators # {}
            /\ outbox[t] = IF exists THEN 1 ELSE 0

\* At most one route command of a task takes effect, and the decision it answers
\* is the one the task carries.
RouteIsTheAnswered ==
    \A t \in Tasks, k \in Keys :
        idem[<<<<"route", t>>, k>>].status = "completed" =>
            task[t].route = idem[<<<<"route", t>>, k>>].response

\* The stored answer of a finished model command is what happened to the task:
\* only the command whose result the task carries is completed or failed_final,
\* and the other commands that were executing at the same time are not.
ResultIsTheAnswered ==
    \A t \in Tasks, k \in Keys :
        LET r == idem[<<<<"model", t>>, k>>] IN
        r.status \in {"completed", "failed_final"} <=>
            /\ task[t].result = k
            /\ task[t].status = (IF r.response = "ok" THEN "COMPLETED" ELSE "FAILED")

\* model-execution-idempotency.md: "concurrent duplicate while provider execution
\* is ambiguous returns in-progress and does not call the provider again".  A
\* command calls the provider again only after a call it knows to be retryable.
CalledAgainOnlyAfterRetryable ==
    \A s \in Operations \X Keys :
        \A i \in 1..(Len(calls[s]) - 1) : calls[s][i] = "retryable"

\* "exact completed retry replays the original logical result" and "same key with
\* changed business request returns conflict": all the answers a key ever gives are
\* the same one, and they answer requests with one digest.
OneAnswerPerKey ==
    \A s \in Operations \X Keys :
        LET given == {x \in Digests \X Responses : x[2] \in answers[<<s[1], s[2], x[1]>>]}
        IN  \A x, y \in given : x = y

\* Events are only appended, a result once stored never changes, and a key in
\* progress is given up only by the request that holds it.
HistoryIsKept ==
    [][/\ \A t \in Tasks :
             /\ Len(events[t]) <= Len(events'[t])
             /\ events[t] = SubSeq(events'[t], 1, Len(events[t]))
       /\ \A s \in Operations \X Keys :
             /\ idem[s].status \in {"completed", "failed_final"} => idem'[s] = idem[s]
             /\ (idem[s].status = "in_progress" /\ idem'[s].status # "in_progress") =>
                   \E c \in Clients : pc[c] = "record" /\ <<cmd[c].op, cmd[c].key>> = s
      ]_vars
=============================================================================
