------------------------------- MODULE Lifecycle -------------------------------
(***************************************************************************)
(* The life of one task under the Temporal workflow TaskLifecycleWorkflow and *)
(* its durable activities: DurablePlanningActivity, DurableRoutingActivity and *)
(* DurableExecutionActivity over the base backend for loading, transitions     *)
(* and validation.  The workflow is deterministic and single threaded; what    *)
(* makes it hard is outside it.  An activity attempt may time out and go on    *)
(* running beside its own retry, may stop between any two of its               *)
(* transactions, and the API commands move the same row of tasks.              *)
(*                                                                             *)
(* Every transaction is one action.  The attempt whose result the workflow     *)
(* waits for is run["live"]; an attempt that Temporal has given up is          *)
(* run["orphan"].                                                              *)
(***************************************************************************)
EXTENDS Integers, FiniteSets, TaskAggregate

CONSTANTS
    Starters,        \* who starts the workflow: "engine" (the outbox) or "client"
    Backends,        \* the registered activities: "durable" or "disabled"
    Policies,        \* decisions a routing policy other than the baseline may take
    MaximumAttempts, \* of the activity retry policy
    NodeMaxAttempts, \* RetryPolicy.MaxAttempts of the plan's model node
    MaxFaults,       \* bound: timeouts, stopped attempts and failed calls
    MaxExternal      \* bound: commands that reach the task from outside

ASSUME LifecycleConstants ==
    /\ Policies \subseteq {"ALLOW", "DENY", "REQUIRE_APPROVAL"}
    /\ MaximumAttempts \in Nat \ {0}
    /\ NodeMaxAttempts \in Nat \ {0}
    /\ MaxFaults \in Nat
    /\ MaxExternal \in Nat

VARIABLES
    task,     \* status, version and the route decision (by whom) of the tasks row
    ops,      \* ops[to]: version recorded under the operation key of to, 0 if none
    rows,     \* persisted lineage: subset of {"goal", "plan", "selection", "execution"}
    node,     \* the runtime record of the plan's one node
    run,      \* run[r]: an activity attempt
    wf,       \* the workflow
    tries,    \* attempts dispatched for the activity the workflow waits for
    backend, faults, external

store == <<task, ops, rows, node>>
flow == <<wf, tries>>
env == <<backend, faults, external>>
vars == <<store, run, flow, env>>

-----------------------------------------------------------------------------
Targets == {"PLANNING", "ROUTING", "EXECUTING", "VALIDATING", "COMPLETED"}

\* The status the workflow asks for next, and the step it runs before asking.
TargetOf(status) ==
    CASE status = "CREATED"    -> "PLANNING"
      [] status = "PLANNING"   -> "ROUTING"
      [] status = "ROUTING"    -> "EXECUTING"
      [] status = "EXECUTING"  -> "VALIDATING"
      [] status = "VALIDATING" -> "COMPLETED"

StepOf(status) ==
    CASE status = "PLANNING"   -> "plan"
      [] status = "ROUTING"    -> "route"
      [] status = "EXECUTING"  -> "execute"
      [] status = "VALIDATING" -> "validate"

\* The plan of BaselineModelPlanBuilder has this one node.
PlannedNode ==
    [type |-> "model", effect |-> "pure", retrySafe |-> TRUE, maxAttempts |-> NodeMaxAttempts,
     retryOn |-> {"transient", "target_unavailable", "timeout"}]

\* The activities a worker registers.
Handlers == {"load", "transition", "plan", "route", "execute", "validate"}

NoTask == [status |-> "none", version |-> 0, route |-> "none"]
Idle == [kind |-> "none", pc |-> "idle", seen |-> NoTask, to |-> "none"]
Open == wf.pc \in {"load", "step", "advance", "reload", "final"}

\* The activity the workflow waits for.
Scheduled ==
    CASE wf.pc \in {"load", "reload", "final"} -> "load"
      [] wf.pc = "advance" -> "transition"
      [] wf.pc = "step"    -> StepOf(wf.snap.status)

Init ==
    /\ task = [NewTask(NoTask) EXCEPT !.route = "none"]
    /\ ops = [to \in Targets |-> 0]
    /\ rows = {}
    /\ node = [state |-> "NONE", attempts |-> 0, class |-> "none", holder |-> "none"]
    /\ run = [r \in {"live", "orphan"} |-> Idle]
    /\ wf = [pc |-> "none", snap |-> NoTask, observed |-> "none", already |-> FALSE,
             steps |-> {}, err |-> "none"]
    /\ tries = 0
    /\ backend \in Backends
    /\ faults = 0
    /\ external = 0

-----------------------------------------------------------------------------
\* The workflow code between two activities.

Failed(err) == [wf EXCEPT !.pc = "failed", !.err = err]

Loaded(snap) ==
    LET seen == [wf EXCEPT !.snap = snap, !.observed = snap.status] IN
    CASE IsTerminal(snap.status)          -> [seen EXCEPT !.pc = "done", !.already = TRUE]
      [] snap.status = "CREATED"          -> [seen EXCEPT !.pc = "advance"]
      [] snap.status = "WAITING_APPROVAL" -> [seen EXCEPT !.pc = "failed",
                                                          !.err = "WAITING_APPROVAL"]
      [] OTHER                            -> [seen EXCEPT !.pc = "step"]

Stepped == [wf EXCEPT !.pc = "advance", !.steps = @ \cup {StepOf(wf.snap.status)}]

Advanced(snap) ==
    LET to == TargetOf(wf.snap.status) IN
    [wf EXCEPT !.observed = snap.status,
               !.steps = IF snap.status = to THEN @ \cup {to} ELSE @,
               !.pc = IF snap.status = to /\ to = "COMPLETED" THEN "final" ELSE "load"]

\* Mutation: the target is claimed although the transition was stale.
ReloadedAsApplied(snap) ==
    [wf EXCEPT !.observed = snap.status, !.pc = "load",
               !.steps = @ \cup {TargetOf(wf.snap.status)}]

\* After a stale transition the state is read again and nothing is claimed.
Reloaded(snap) == [wf EXCEPT !.observed = snap.status, !.pc = "load"]

Finished(snap) ==
    [wf EXCEPT !.observed = snap.status, !.already = FALSE, !.pc = "done"]

Continue(snap) ==
    CASE wf.pc = "load"    -> Loaded(snap)
      [] wf.pc = "step"    -> Stepped
      [] wf.pc = "advance" -> Advanced(snap)
      [] wf.pc = "reload"  -> Reloaded(snap)
      [] wf.pc = "final"   -> Finished(snap)

\* How an attempt ends.  Nobody hears of the end of an orphan.
Return(r, then) ==
    /\ run' = [run EXCEPT ![r] = Idle]
    /\ IF r = "orphan" THEN UNCHANGED flow ELSE then

Ok(r, snap) == Return(r, wf' = Continue(snap) /\ tries' = 0)

Fatal(r, err) == Return(r, wf' = Failed(err) /\ tries' = 0)

Stale(r) == Return(r, wf' = [wf EXCEPT !.pc = "reload"] /\ tries' = 0)

\* Mutation: the attempts are counted from zero after every error.
RetryableForever(r, err) == Return(r, tries' = 0 /\ UNCHANGED wf)

\* An ordinary error: the retry policy has attempts left, or the workflow fails.
Retryable(r, err) ==
    Return(r, IF tries < MaximumAttempts THEN UNCHANGED flow
              ELSE wf' = Failed(err) /\ tries' = 0)

Goto(r, pc) == run' = [run EXCEPT ![r].pc = pc] /\ UNCHANGED flow

At(r, kind, pc) == run[r].kind = kind /\ run[r].pc = pc

-----------------------------------------------------------------------------
\* Temporal: starting, scheduling and giving up.

\* TaskWorkflowInput.Validate: the schema version is required.  The engine sends a
\* StartRequest, which has none.
ValidInput(starter) == starter = "client"

\* ExecuteWorkflow; a second start of the same workflow id is refused by the
\* service and reported as AlreadyStarted, which changes nothing.
ExecuteWorkflow(starter) ==
    wf' = IF ValidInput(starter) THEN [wf EXCEPT !.pc = "load"]
          ELSE Failed("INVALID_TASK_WORKFLOW_INPUT")

StartWorkflow(starter) ==
    /\ wf.pc = "none"
    /\ ExecuteWorkflow(starter)
    /\ UNCHANGED <<store, run, tries, env>>

\* Mutation: one attempt more than the policy allows.
MayDispatchAgain == tries <= MaximumAttempts

MayDispatch == tries < MaximumAttempts

\* FailClosedLifecycleActivities: every activity ends the workflow.
BackendDisabled == wf' = Failed("LIFECYCLE_BACKEND_DISABLED") /\ tries' = 0

Dispatch ==
    /\ Open
    /\ Scheduled \in Handlers
    /\ run["live"] = Idle
    /\ MayDispatch
    /\ IF backend = "disabled"
       THEN BackendDisabled /\ UNCHANGED run
       ELSE /\ run' = [run EXCEPT !["live"] =
                         [kind |-> Scheduled, pc |-> "begin", seen |-> wf.snap,
                          to |-> IF wf.pc = "advance" THEN TargetOf(wf.snap.status) ELSE "none"]]
            /\ tries' = tries + 1
            /\ UNCHANGED wf
    /\ UNCHANGED <<store, env>>

\* The attempt goes on running, but nobody waits for it.
Detach ==
    /\ run' = [run EXCEPT !["live"] = Idle, !["orphan"] = run["live"]]
    /\ node' = IF node.holder = "live" THEN [node EXCEPT !.holder = "orphan"] ELSE node

\* StartToCloseTimeout.
TimeOut ==
    /\ run["live"] # Idle
    /\ run["orphan"] = Idle
    /\ faults < MaxFaults
    /\ faults' = faults + 1
    /\ Detach
    /\ IF MayDispatch THEN UNCHANGED flow ELSE wf' = Failed("TIMEOUT") /\ tries' = 0
    /\ UNCHANGED <<task, ops, rows, backend, external>>

\* A database error or the death of the worker ends an attempt between two of its
\* transactions; the lease it holds stays until it expires.
Stop(r) ==
    /\ run[r] # Idle
    /\ faults < MaxFaults
    /\ faults' = faults + 1
    /\ node' = IF node.holder = r THEN [node EXCEPT !.holder = "gone"] ELSE node
    /\ Retryable(r, "TRANSIENT")
    /\ UNCHANGED <<task, ops, rows, backend, external>>

\* No worker takes the activity within ScheduleToCloseTimeout.
ScheduleToClose ==
    /\ Open
    /\ run["live"] = Idle
    /\ faults < MaxFaults
    /\ faults' = faults + 1
    /\ wf' = Failed("TIMEOUT")
    /\ tries' = 0
    /\ UNCHANGED <<store, run, backend, external>>

\* Cancel closes the workflow and leaves the task and the running attempt alone.
Cancel ==
    /\ Open
    /\ external < MaxExternal
    /\ external' = external + 1
    /\ run["orphan"] = Idle
    /\ Detach
    /\ wf' = [wf EXCEPT !.pc = "cancelled"]
    /\ tries' = 0
    /\ UNCHANGED <<task, ops, rows, backend, faults>>

-----------------------------------------------------------------------------
\* The API commands of TaskCommands, as the workflow meets them.
ApiMoves(row) ==
    CASE row.status = "CREATED"  -> {Transition(row, "PLANNING")}
      [] row.status = "PLANNING" -> {[Transition(row, "ROUTING") EXCEPT !.route = "api"]}
      [] row.status = "ROUTING" /\ row.route # "none" -> {Transition(row, "EXECUTING")}
      [] row.status = "EXECUTING" /\ row.route # "none" ->
            {Transition(row, "FAILED"),
             Transition(Transition(row, "VALIDATING"), "COMPLETED")}
      [] OTHER -> {}

ApiCommand ==
    /\ external < MaxExternal
    /\ external' = external + 1
    /\ task' \in ApiMoves(task)
    /\ UNCHANGED <<ops, rows, node, run, flow, backend, faults>>

-----------------------------------------------------------------------------
\* The base backend.

Snapshot(row) == row

LoadTask(r) ==
    /\ At(r, "load", "begin")
    /\ Ok(r, Snapshot(task))
    /\ UNCHANGED <<store, env>>

IsCurrent(row, expected) == row.version = expected.version

\* The recorded result is returned; a terminal task is only reported; a version
\* that moved on is STALE_TASK_VERSION.
TransitionTask(r) ==
    LET to == run[r].to IN
    /\ At(r, "transition", "begin")
    /\ IF ops[to] # 0 \/ IsTerminal(task.status)
       THEN /\ Ok(r, IF ops[to] # 0 THEN [task EXCEPT !.status = to, !.version = ops[to]]
                     ELSE task)
            /\ UNCHANGED store
       ELSE IF ~IsCurrent(task, run[r].seen)
       THEN Stale(r) /\ UNCHANGED store
       ELSE IF ~CanTransition(task.status, to)
       THEN Retryable(r, "INVALID_TASK_TRANSITION") /\ UNCHANGED store
       ELSE /\ task' = Transition(task, to)
            /\ ops' = [ops EXCEPT ![to] = task'.version]
            /\ Ok(r, task')
            /\ UNCHANGED <<rows, node>>
    /\ UNCHANGED env

\* runStep: validation passes, or finds the task made terminal meanwhile.
ValidateStub(r) ==
    /\ At(r, "validate", "begin")
    /\ Ok(r, run[r].seen)
    /\ \/ UNCHANGED <<task, external>>
       \/ /\ external < MaxExternal
          /\ external' = external + 1
          /\ \E to \in {"FAILED", "CANCELLED", "EXPIRED"} :
                CanTransition(task.status, to) /\ task' = Transition(task, to)
    /\ UNCHANGED <<ops, rows, node, backend, faults>>

-----------------------------------------------------------------------------
\* ScopedPostgresExecutionLineage: a record is inserted once, under its parents.

CreateGoal == "goal" \notin rows /\ rows' = rows \cup {"goal"}

GetGoal == "goal" \in rows

CreatePlan ==
    /\ GetGoal
    /\ "plan" \notin rows
    /\ rows' = rows \cup {"plan"}

GetPlan == "plan" \in rows

ListPlansByTask == {"plan"} \cap rows

CreateExecution ==
    /\ GetGoal /\ GetPlan
    /\ "execution" \notin rows
    /\ rows' = rows \cup {"execution"}

GetExecution == "execution" \in rows

\* An activity that finds the task in another state than its own returns an
\* ordinary error, whether or not that state is a terminal one.
NotInState(r, status) ==
    Retryable(r, IF IsTerminal(status) THEN "TERMINAL_TASK" ELSE "INVALID_TASK_TRANSITION")

\* Plan reads the task ...
PlanGetTask(r) ==
    /\ At(r, "plan", "begin")
    /\ run' = [run EXCEPT ![r].pc = "getplan", ![r].seen = task]
    /\ UNCHANGED <<store, flow, env>>

\* ... and the plan, which is the record of an attempt that got this far before.
PlanGetPlan(r) ==
    /\ At(r, "plan", "getplan")
    /\ IF GetPlan THEN Ok(r, NoTask)
       ELSE IF run[r].seen.status # "PLANNING" THEN NotInState(r, run[r].seen.status)
       ELSE Goto(r, "getgoal")
    /\ UNCHANGED <<store, env>>

\* ensureGoal: an insert that loses to another attempt finds the goal there.
EnsureGoal(r) ==
    \/ /\ At(r, "plan", "getgoal")
       /\ Goto(r, IF GetGoal THEN "createplan" ELSE "creategoal")
       /\ UNCHANGED <<store, env>>
    \/ /\ At(r, "plan", "creategoal")
       /\ CreateGoal \/ (GetGoal /\ UNCHANGED rows)
       /\ Goto(r, "createplan")
       /\ UNCHANGED <<task, ops, node, env>>

PersistPlan(r) ==
    /\ At(r, "plan", "createplan")
    /\ CreatePlan \/ (GetPlan /\ UNCHANGED rows)
    /\ Ok(r, NoTask)
    /\ UNCHANGED <<task, ops, node, env>>

\* Plan, a transaction at a time.
Plan(r) == PlanGetTask(r) \/ PlanGetPlan(r) \/ EnsureGoal(r) \/ PersistPlan(r)

-----------------------------------------------------------------------------
\* ResolveRouteSelection: the completed selection under the workflow's own key.
ResolveRouteSelection == "selection" \in rows

RouteReplay(r) ==
    /\ At(r, "route", "begin")
    /\ IF ResolveRouteSelection THEN Ok(r, NoTask) ELSE Goto(r, "gettask")
    /\ UNCHANGED <<store, env>>

\* Mutation: route evidence that came from elsewhere is not noticed.
UnroutedAlways(row) == TRUE

Unrouted(row) == row.route = "none"

RouteGetTask(r) ==
    /\ At(r, "route", "gettask")
    /\ IF task.status # "ROUTING" THEN NotInState(r, task.status)
       ELSE IF ~Unrouted(task) THEN Fatal(r, "ROUTE_SELECTION_INCONSISTENT")
       ELSE run' = [run EXCEPT ![r].pc = "policy", ![r].seen = task] /\ UNCHANGED flow
    /\ UNCHANGED <<store, env>>

\* currentPlan has one plan to choose from, and the plan one model node to route.
CurrentPlan == ListPlansByTask # {}

BaselineRoutingPolicy(n) ==
    IF n.type = "model" /\ n.effect \in {"pure", "read_only"} THEN "ALLOW" ELSE "DENY"

\* currentPlan, the goal, the policy and the planner; the deployment is frozen into
\* the target before the commit.
RoutePolicy(r) ==
    /\ At(r, "route", "policy")
    /\ IF ~(CurrentPlan /\ GetGoal) THEN Retryable(r, "NO_PLAN")
       ELSE \E decision \in Policies \cup {BaselineRoutingPolicy(PlannedNode)} :
               CASE decision = "ALLOW"            -> Goto(r, "commit")
                 [] decision = "DENY"             -> Fatal(r, "ROUTE_POLICY_DENIED")
                 [] decision = "REQUIRE_APPROVAL" -> Fatal(r, "ROUTE_APPROVAL_REQUIRED")
    /\ UNCHANGED <<store, env>>

Selectable(seen) == task.status = "ROUTING" /\ task.version = seen.version

SelectRoute ==
    /\ rows' = rows \cup {"selection"}
    /\ task' = [task EXCEPT !.route = "workflow", !.version = @ + 1]
    /\ UNCHANGED <<ops, node>>

\* CommitRouteSelection: decision, projection, event and replay record at once.
CommitRouteSelection(r) ==
    /\ At(r, "route", "commit")
    /\ IF ResolveRouteSelection
       THEN Ok(r, NoTask) /\ UNCHANGED store
       ELSE IF Selectable(run[r].seen)
       THEN SelectRoute /\ Ok(r, NoTask)
       ELSE Goto(r, "resolve") /\ UNCHANGED store
    /\ UNCHANGED env

\* The answer to COMMIT is lost, with or without the transaction.
CommitUnanswered(r) ==
    /\ At(r, "route", "commit")
    /\ faults < MaxFaults
    /\ faults' = faults + 1
    /\ \/ ~ResolveRouteSelection /\ Selectable(run[r].seen) /\ SelectRoute
       \/ UNCHANGED store
    /\ Goto(r, "resolve")
    /\ UNCHANGED <<backend, external>>

\* A refused or unanswered commit: the selection may be there.
RouteResolve(r) ==
    /\ At(r, "route", "resolve")
    /\ IF ResolveRouteSelection THEN Ok(r, NoTask) ELSE Retryable(r, "COMMIT_REFUSED")
    /\ UNCHANGED <<store, env>>

\* Route, a transaction at a time.
Route(r) ==
    RouteReplay(r) \/ RouteGetTask(r) \/ RoutePolicy(r)
        \/ CommitRouteSelection(r) \/ CommitUnanswered(r) \/ RouteResolve(r)

-----------------------------------------------------------------------------
ExecuteGetTask(r) ==
    /\ At(r, "execute", "begin")
    /\ IF task.status # "EXECUTING" THEN NotInState(r, task.status) ELSE Goto(r, "binding")
    /\ UNCHANGED <<store, env>>

\* Mutation: a missing selection is left to a later step to notice.
BindingUnchecked == TRUE

\* validExecutionBinding of the frozen selection, its plan and its goal.
BindingValid == ResolveRouteSelection /\ GetPlan /\ GetGoal

ExecuteBinding(r) ==
    /\ At(r, "execute", "binding")
    /\ IF BindingValid THEN Goto(r, "getexecution")
       ELSE Fatal(r, "EXECUTION_BINDING_INCONSISTENT")
    /\ UNCHANGED <<store, env>>

\* ensureExecution: the id is derived from the task and the plan.
EnsureExecution(r) ==
    \/ /\ At(r, "execute", "getexecution")
       /\ Goto(r, IF GetExecution THEN "getruntime" ELSE "createexecution")
       /\ UNCHANGED <<store, env>>
    \/ /\ At(r, "execute", "createexecution")
       /\ CreateExecution \/ (GetExecution /\ UNCHANGED rows)
       /\ Goto(r, "getruntime")
       /\ UNCHANGED <<task, ops, node, env>>

\* What Execute does with the runtime record it reads.
RuntimeStep(state) ==
    CASE state = "NONE" -> "register"
      [] state = "FAILED" -> "attempts"
      [] state \in {"READY", "RUNNING"} -> "claim"

GetRuntime(r) ==
    /\ At(r, "execute", "getruntime")
    /\ IF node.state = "SUCCEEDED" THEN Ok(r, NoTask) ELSE Goto(r, RuntimeStep(node.state))
    /\ UNCHANGED <<store, env>>

\* ensureRuntime: a record that another attempt registered is as good.
RegisterRuntime(r) ==
    /\ At(r, "execute", "register")
    /\ node' = IF node.state = "NONE" THEN [node EXCEPT !.state = "READY"] ELSE node
    /\ Goto(r, "getruntime")
    /\ UNCHANGED <<task, ops, rows, env>>

\* prepareRetry: the attempts are listed, then the node is requeued.
RetryAllowed ==
    /\ node.attempts < PlannedNode.maxAttempts
    /\ PlannedNode.retrySafe
    /\ node.class \in PlannedNode.retryOn

PrepareRetry(r) ==
    \/ /\ At(r, "execute", "attempts")
       /\ IF RetryAllowed THEN Goto(r, "requeue") ELSE Fatal(r, "EXECUTION_RETRY_NOT_ALLOWED")
       /\ UNCHANGED <<store, env>>
    \/ /\ At(r, "execute", "requeue")
       /\ IF node.state = "FAILED"
          THEN node' = [node EXCEPT !.state = "READY"] /\ Goto(r, "reload")
          ELSE Retryable(r, "TRANSIENT") /\ UNCHANGED node
       /\ UNCHANGED <<task, ops, rows, env>>

ReloadRuntime(r) ==
    /\ At(r, "execute", "reload")
    /\ IF node.state \in {"READY", "RUNNING"} THEN Goto(r, "claim") ELSE Retryable(r, "TRANSIENT")
    /\ UNCHANGED <<store, env>>

\* The worker claims a READY node, or a RUNNING one whose lease has expired; a lease
\* that is still held refuses it.  NodeLease and ExecutionWorker have the details.
Claim(r) ==
    /\ At(r, "execute", "claim")
    /\ \/ /\ node.state \in {"READY", "RUNNING"}
          /\ node' = [node EXCEPT !.state = "RUNNING", !.attempts = @ + 1, !.holder = r]
          /\ Goto(r, "call")
       \/ node.state # "READY" /\ Retryable(r, "NOT_CLAIMED") /\ UNCHANGED node
    /\ UNCHANGED <<task, ops, rows, env>>

\* The worker calls the target; a failure is classified for the retry policy.
Invoke(r) ==
    /\ At(r, "execute", "call")
    /\ \/ run' = [run EXCEPT ![r].pc = "complete", ![r].to = "ok"] /\ UNCHANGED faults
       \/ /\ faults < MaxFaults
          /\ faults' = faults + 1
          /\ \E class \in {"transient", "invalid_request"} :
                run' = [run EXCEPT ![r].pc = "complete", ![r].to = class]
    /\ UNCHANGED <<store, flow, backend, external>>

Holds(r) == node.state = "RUNNING" /\ node.holder = r

\* finishReadOnly: only the holder of the lease completes the node.
CompleteNode(r) ==
    LET o == run[r].to IN
    /\ At(r, "execute", "complete")
    /\ IF ~Holds(r)
       THEN Retryable(r, "LEASE_LOST") /\ UNCHANGED node
       ELSE IF o = "ok"
       THEN /\ node' = [node EXCEPT !.state = "SUCCEEDED", !.holder = "none"]
            /\ Goto(r, "verify")
       ELSE /\ node' = [node EXCEPT !.state = "FAILED", !.class = o, !.holder = "none"]
            /\ Retryable(r, "EXECUTION_FAILED")
    /\ UNCHANGED <<task, ops, rows, env>>

\* Execute trusts the record, not the worker's answer.
Verify(r) ==
    /\ At(r, "execute", "verify")
    /\ IF node.state = "SUCCEEDED" THEN Ok(r, NoTask) ELSE Retryable(r, "TRANSIENT")
    /\ UNCHANGED <<store, env>>

\* Execute, a transaction at a time.
Execute(r) ==
    \/ ExecuteGetTask(r) \/ ExecuteBinding(r) \/ EnsureExecution(r) \/ GetRuntime(r)
    \/ RegisterRuntime(r) \/ PrepareRetry(r) \/ ReloadRuntime(r) \/ Claim(r)
    \/ Invoke(r) \/ CompleteNode(r) \/ Verify(r)

-----------------------------------------------------------------------------
Attempt(r) ==
    LoadTask(r) \/ TransitionTask(r) \/ ValidateStub(r) \/ Plan(r) \/ Route(r) \/ Execute(r)

Next ==
    \/ \E starter \in Starters : StartWorkflow(starter)
    \/ Dispatch
    \/ \E r \in {"live", "orphan"} : Attempt(r) \/ Stop(r)
    \/ TimeOut
    \/ ScheduleToClose
    \/ Cancel
    \/ ApiCommand

\* The Temporal service dispatches what is scheduled, and the worker that took an
\* attempt runs its code; nothing is assumed of orphans, faults or other commands.
Fairness == WF_vars(Dispatch) /\ WF_vars(Attempt("live"))

Spec == Init /\ [][Next]_vars /\ Fairness

-----------------------------------------------------------------------------
\* The lineage is whole and the workflow moves the task only on persisted evidence:
\* the plan before ROUTING, the frozen selection before EXECUTING, a SUCCEEDED node
\* before VALIDATING, whatever attempts overlapped.  The selection in the replay
\* record is the one the task refers to.
EvidenceBeforeTransition ==
    /\ "plan" \in rows => "goal" \in rows
    /\ "selection" \in rows => "plan" \in rows /\ task.route = "workflow"
    /\ "execution" \in rows => "selection" \in rows
    /\ node.state # "NONE" => "execution" \in rows
    /\ ops["ROUTING"] # 0 => "plan" \in rows
    /\ ops["EXECUTING"] # 0 => "selection" \in rows
    /\ ops["VALIDATING"] # 0 => node.state = "SUCCEEDED"
    /\ ops["COMPLETED"] # 0 => ops["VALIDATING"] # 0 /\ task.status = "COMPLETED"

\* lifecycle.go: "Callers must not claim the target state in evidence when applied is
\* false."  A status among the steps of the result was committed by this workflow,
\* and a workflow that says it brought the task to its end did.
EvidenceIsTrue ==
    /\ \A to \in wf.steps \cap Targets : ops[to] # 0
    /\ wf.pc = "done" =>
          /\ IsTerminal(wf.observed) /\ task.status = wf.observed
          /\ ~wf.already => ops["COMPLETED"] # 0

\* The plan allows its node a number of attempts, but the check of prepareRetry is
\* passed by a lease that expired: overlapping attempts, takeovers and requeued
\* failures together stay within the limit because each activity attempt claims at
\* most once.
AttemptsWithinPolicy == node.attempts <= NodeMaxAttempts

\* A task once routed keeps its decision, whoever took it.
RouteIsFinal == [][task.route # "none" => task'.route = task.route]_vars

\* Retries, stale versions and reloads come to an end: a workflow that was started
\* closes.
WorkflowCloses == (wf.pc # "none") ~> ~Open

\* s3c-task-lifecycle-workflow.md: "SchemaVersion starts at 1 and is required", and the
\* input comes "from the S3B durable Engine/Outbox path": a workflow the engine starts
\* has an input that the workflow accepts.
EngineStartIsValid == wf.err # "INVALID_TASK_WORKFLOW_INPUT"

=============================================================================
