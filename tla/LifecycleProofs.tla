---------------------------- MODULE LifecycleProofs ----------------------------
(***************************************************************************)
(* Lifecycle, for any retry policy, any routing policies, any number of      *)
(* timeouts, stopped attempts, failed calls and outside commands.            *)
(*                                                                           *)
(* The argument is the one that makes an orphaned attempt harmless: what an  *)
(* attempt has seen is never taken back.  Rows are only added, operation     *)
(* keys only filled in, a SUCCEEDED node and a terminal task stay so, and    *)
(* every write of the tasks row raises its version (Grows).  So the evidence *)
(* an attempt is holding (RunOK), and the evidence the workflow acts on      *)
(* (FlowInv), survive whatever runs beside it.                               *)
(***************************************************************************)
EXTENDS Lifecycle, TLAPS

Runs == {"live", "orphan"}

Statuses ==
    {"CREATED", "PLANNING", "ROUTING", "EXECUTING", "WAITING_APPROVAL", "VALIDATING",
     "COMPLETED", "FAILED", "CANCELLED", "EXPIRED"}

TaskRows == [status : Statuses, version : Nat \ {0}, route : {"none", "api", "workflow"}]

Seen == TaskRows \cup {NoTask}

Pcs ==
    {"idle", "begin", "getplan", "getgoal", "creategoal", "createplan", "gettask", "policy",
     "commit", "resolve", "binding", "getexecution", "createexecution", "getruntime",
     "register", "attempts", "requeue", "reload", "claim", "call", "complete", "verify"}

Tos == Targets \cup {"none", "ok", "transient", "invalid_request"}

RunRows == [kind : Handlers \cup {"none"}, pc : Pcs, seen : Seen, to : Tos]

NodeRows ==
    [state : {"NONE", "READY", "RUNNING", "FAILED", "SUCCEEDED"}, attempts : Nat,
     class : Tos, holder : Runs \cup {"none", "gone"}]

Errors ==
    {"none", "INVALID_TASK_WORKFLOW_INPUT", "LIFECYCLE_BACKEND_DISABLED", "WAITING_APPROVAL",
     "TIMEOUT", "TRANSIENT", "TERMINAL_TASK", "INVALID_TASK_TRANSITION", "NO_PLAN",
     "ROUTE_SELECTION_INCONSISTENT", "ROUTE_POLICY_DENIED", "ROUTE_APPROVAL_REQUIRED",
     "COMMIT_REFUSED", "EXECUTION_BINDING_INCONSISTENT", "EXECUTION_RETRY_NOT_ALLOWED",
     "NOT_CLAIMED", "LEASE_LOST", "EXECUTION_FAILED"}

WfPcs ==
    {"none", "load", "step", "advance", "reload", "final", "done", "failed", "cancelled"}

WfRows ==
    [pc : WfPcs, snap : Seen, observed : Statuses \cup {"none"}, already : BOOLEAN,
     steps : SUBSET (Targets \cup Handlers), err : Errors]

StoreTypeOK ==
    /\ task \in TaskRows
    /\ ops \in [Targets -> Nat]
    /\ rows \in SUBSET {"goal", "plan", "selection", "execution"}
    /\ node \in NodeRows

FlowTypeOK ==
    /\ wf \in WfRows
    /\ tries \in 0 .. MaximumAttempts

\* EvidenceBeforeTransition, with what keeps it: a task that has a route is past
\* PLANNING, and a task that the workflow brought to VALIDATING is ended by the
\* workflow or not completed at all.
StoreInv ==
    /\ EvidenceBeforeTransition
    /\ task.status \in {"CREATED", "PLANNING"} => task.route = "none"
    /\ task.status = "VALIDATING" => ops["VALIDATING"] # 0
    /\ ops["VALIDATING"] # 0 => task.status = "VALIDATING" \/ IsTerminal(task.status)
    /\ ops["VALIDATING"] # 0 /\ task.status = "COMPLETED" => ops["COMPLETED"] # 0

\* What has to be on record before a task is moved to a status.
Evidence(to) ==
    /\ to = "ROUTING" => "plan" \in rows
    /\ to = "EXECUTING" => "selection" \in rows
    /\ to = "VALIDATING" => node.state = "SUCCEEDED"
    /\ to = "COMPLETED" => ops["VALIDATING"] # 0

\* The row an attempt has read: any write since has raised the version.
StillUnrouted(seen) ==
    /\ seen.route = "none"
    /\ seen.version <= task.version
    /\ seen.version = task.version => task = seen

Bound == {"getexecution", "createexecution"}

\* What an attempt that got this far has established, live or orphaned.
RunOK(x) ==
    /\ x.kind = "transition" => x.to \in Targets /\ Evidence(x.to)
    /\ x.kind = "route" /\ x.pc \in {"policy", "commit"} => StillUnrouted(x.seen)
    /\ x.kind = "route" /\ x.pc = "commit" => "plan" \in rows
    /\ x.kind = "execute" /\ x.pc \notin {"begin", "binding"} => "selection" \in rows
    /\ x.kind = "execute" /\ x.pc \notin {"begin", "binding"} \cup Bound => "execution" \in rows

RunInv == run \in [Runs -> RunRows] /\ \A r \in Runs : RunOK(run[r])

\* The live attempt is one of the activity that the workflow waits for.
LiveInv ==
    run["live"] # Idle =>
        /\ Open
        /\ run["live"].kind = Scheduled
        /\ wf.pc = "advance" => run["live"].to = TargetOf(wf.snap.status)

FlowInv ==
    /\ wf.pc = "step" => wf.snap.status \in {"PLANNING", "ROUTING", "EXECUTING", "VALIDATING"}
    /\ wf.pc = "step" /\ wf.snap.status = "VALIDATING" => ops["VALIDATING"] # 0
    /\ wf.pc = "advance" =>
          /\ wf.snap.status \in {"CREATED", "PLANNING", "ROUTING", "EXECUTING", "VALIDATING"}
          /\ Evidence(TargetOf(wf.snap.status))
    /\ wf.pc = "final" => ops["COMPLETED"] # 0
    /\ EvidenceIsTrue

\* An attempt of Execute that may still claim the node, and only once.
Unclaimed(x) == IF x.kind = "execute" /\ x.pc \notin {"call", "complete", "verify"} THEN 1 ELSE 0

Total == node.attempts + Unclaimed(run["live"]) + Unclaimed(run["orphan"])

AtExecute == wf.pc = "step" /\ wf.snap.status = "EXECUTING"

\* Before the step no attempt was dispatched; while it runs, as many as the policy has
\* counted; after it the node is SUCCEEDED or the workflow is closed.
Budget ==
    IF AtExecute THEN tries
    ELSE IF Open \/ wf.pc = "none" THEN 0
    ELSE MaximumAttempts

ClaimInv ==
    /\ node.attempts <= MaximumAttempts
    /\ node.state # "SUCCEEDED" => Total <= Budget

Inv == StoreTypeOK /\ StoreInv /\ RunInv /\ FlowTypeOK /\ LiveInv /\ FlowInv /\ ClaimInv

-----------------------------------------------------------------------------
LEMMA InitInv == Init => Inv
<1> SUFFICES ASSUME Init PROVE Inv
  OBVIOUS
<1>1. task = [status |-> "CREATED", version |-> 1, route |-> "none"]
  BY Zenon DEF Init, NewTask, NoTask
<1>2. StoreTypeOK
  <2>1. task \in TaskRows
    BY <1>1 DEF TaskRows, Statuses
  <2>2. node \in NodeRows
    BY DEF Init, NodeRows, Tos
  <2>3. ops \in [Targets -> Nat] /\ rows = {}
    BY DEF Init
  <2> QED
    BY <2>1, <2>2, <2>3 DEF StoreTypeOK
<1>3. StoreInv
  BY <1>1 DEF Init, StoreInv, EvidenceBeforeTransition, Targets, IsTerminal
<1>4. \A r \in Runs : run[r] = Idle
  BY DEF Init, Runs
<1>5. RunInv
  BY <1>4 DEF Init, RunInv, RunRows, Runs, Idle, Seen, RunOK, Pcs, Tos
<1>6. FlowTypeOK
  <2>1. tries \in 0 .. MaximumAttempts
    BY LifecycleConstants DEF Init
  <2>2. wf \in WfRows
    BY DEF Init, WfRows, WfPcs, Seen, Errors
  <2> QED
    BY <2>1, <2>2 DEF FlowTypeOK
<1>7. LiveInv
  BY <1>4 DEF LiveInv, Runs
<1>8. FlowInv
  BY DEF Init, FlowInv, EvidenceIsTrue
<1>9. ClaimInv
  BY <1>4, LifecycleConstants DEF Init, ClaimInv, Total, Budget, AtExecute, Unclaimed, Idle, Runs
<1> QED
  BY <1>2, <1>3, <1>5, <1>6, <1>7, <1>8, <1>9 DEF Inv

-----------------------------------------------------------------------------
\* The store.  No step takes back what an attempt may have seen.

Grows ==
    /\ rows \subseteq rows'
    /\ \A to \in Targets : ops[to] # 0 => ops'[to] # 0
    /\ node.state = "SUCCEEDED" => node'.state = "SUCCEEDED"
    /\ task.version <= task'.version
    /\ task'.version = task.version => task' = task
    /\ IsTerminal(task.status) => task'.status = task.status

StoreSound == StoreTypeOK' /\ StoreInv' /\ Grows

LEMMA StoreUnchanged ==
  ASSUME Inv, UNCHANGED store
  PROVE  StoreSound
<1>1. task' = task /\ ops' = ops /\ rows' = rows /\ node' = node
  BY DEF store
<1>2. StoreTypeOK'
  BY <1>1 DEF Inv, StoreTypeOK
<1>3. StoreInv'
  BY <1>1 DEF Inv, StoreInv, EvidenceBeforeTransition
<1>4. Grows
  BY <1>1 DEF Inv, StoreTypeOK, TaskRows, Grows
<1> QED
  BY <1>2, <1>3, <1>4 DEF StoreSound

\* The runtime record moves: not out of SUCCEEDED, and not into being without an execution.
LEMMA NodeMoves ==
  ASSUME Inv, UNCHANGED <<task, ops, rows>>,
         node' \in NodeRows,
         node.state = "SUCCEEDED" => node'.state = "SUCCEEDED",
         node'.state # "NONE" => "execution" \in rows
  PROVE  StoreSound
<1>1. StoreTypeOK'
  BY DEF Inv, StoreTypeOK
<1>2. StoreInv'
  BY DEF Inv, StoreInv, EvidenceBeforeTransition
<1>3. Grows
  BY DEF Inv, StoreTypeOK, TaskRows, Grows
<1> QED
  BY <1>1, <1>2, <1>3 DEF StoreSound

\* A row of the lineage is added under its parents.
LEMMA RowAdded ==
  ASSUME Inv, UNCHANGED <<task, ops, node>>, NEW x \in {"goal", "plan", "execution"},
         rows' = rows \cup {x},
         x = "plan" => "goal" \in rows,
         x = "execution" => "selection" \in rows
  PROVE  StoreSound
<1>1. StoreTypeOK'
  BY DEF Inv, StoreTypeOK
<1>2. StoreInv'
  BY DEF Inv, StoreInv, EvidenceBeforeTransition
<1>3. Grows
  BY DEF Inv, StoreTypeOK, TaskRows, Grows
<1> QED
  BY <1>1, <1>2, <1>3 DEF StoreSound

\* Transition keeps the route and raises the version.
LEMMA TransitionRow ==
  ASSUME NEW row \in TaskRows, NEW to \in Statuses
  PROVE  /\ Transition(row, to) \in TaskRows
         /\ Transition(row, to).status = to
         /\ Transition(row, to).version = row.version + 1
         /\ Transition(row, to).route = row.route
<1>1. row.version + 1 \in Nat \ {0}
  BY DEF TaskRows
<1> QED
  BY <1>1, Zenon DEF Transition, TaskRows

\* The API commands: a decision is written only on the way out of PLANNING, and
\* VALIDATING is never left behind.
LEMMA ApiMovesTask ==
  ASSUME Inv, task' \in ApiMoves(task), UNCHANGED <<ops, rows, node>>
  PROVE  StoreSound
<1>1. task \in TaskRows /\ task.status \in Statuses /\ task.version \in Nat
  BY DEF Inv, StoreTypeOK, TaskRows
<1>2. /\ task' \in TaskRows
      /\ task'.version > task.version
      /\ ~IsTerminal(task.status)
      /\ task'.status \notin {"CREATED", "VALIDATING"}
      /\ task.status # "VALIDATING"
      /\ task.status \notin {"CREATED", "PLANNING"} =>
            task'.route = task.route /\ task'.status \notin {"CREATED", "PLANNING"}
      /\ task'.status = "PLANNING" => task'.route = task.route /\ task.status = "CREATED"
  <2>1. CASE task.status = "CREATED"
    <3>1. task' = Transition(task, "PLANNING")
      BY <2>1 DEF ApiMoves
    <3> QED
      BY <1>1, <2>1, <3>1, TransitionRow DEF Statuses, IsTerminal
  <2>2. CASE task.status = "PLANNING"
    <3>1. task' = [Transition(task, "ROUTING") EXCEPT !.route = "api"]
      BY <2>2 DEF ApiMoves
    <3>2. /\ Transition(task, "ROUTING") \in TaskRows
          /\ Transition(task, "ROUTING").status = "ROUTING"
          /\ Transition(task, "ROUTING").version = task.version + 1
      BY <1>1, TransitionRow DEF Statuses
    <3> QED
      BY <1>1, <2>2, <3>1, <3>2 DEF TaskRows, Statuses, IsTerminal
  <2>3. CASE task.status = "ROUTING"
    <3>1. task' = Transition(task, "EXECUTING")
      BY <2>3 DEF ApiMoves
    <3> QED
      BY <1>1, <2>3, <3>1, TransitionRow DEF Statuses, IsTerminal
  <2>4. CASE task.status = "EXECUTING"
    <3>1. \/ task' = Transition(task, "FAILED")
          \/ task' = Transition(Transition(task, "VALIDATING"), "COMPLETED")
      BY <2>4 DEF ApiMoves
    <3>2. CASE task' = Transition(task, "FAILED")
      BY <1>1, <2>4, <3>2, TransitionRow DEF Statuses, IsTerminal
    <3>3. CASE task' = Transition(Transition(task, "VALIDATING"), "COMPLETED")
      <4>1. /\ Transition(task, "VALIDATING") \in TaskRows
            /\ Transition(task, "VALIDATING").route = task.route
            /\ Transition(task, "VALIDATING").version = task.version + 1
        BY <1>1, TransitionRow DEF Statuses
      <4>2. /\ task' \in TaskRows
            /\ task'.status = "COMPLETED"
            /\ task'.route = task.route
            /\ task'.version = (task.version + 1) + 1
        BY <3>3, <4>1, TransitionRow DEF Statuses
      <4> QED
        BY <1>1, <2>4, <4>2 DEF IsTerminal
    <3> QED
      BY <3>1, <3>2, <3>3
  <2> QED
    BY <1>1, <2>1, <2>2, <2>3, <2>4 DEF ApiMoves, Statuses
<1>3. ops["VALIDATING"] = 0 /\ ops["COMPLETED"] = 0
  BY <1>2 DEF Inv, StoreInv, EvidenceBeforeTransition
<1>4. StoreTypeOK'
  BY <1>2 DEF Inv, StoreTypeOK
<1>5. StoreInv'
  BY <1>2, <1>3 DEF Inv, StoreInv, EvidenceBeforeTransition
<1>6. Grows
  BY <1>1, <1>2 DEF Grows, Inv, StoreTypeOK, TaskRows
<1> QED
  BY <1>4, <1>5, <1>6 DEF StoreSound

\* Validation that finds the task made terminal meanwhile.
LEMMA TaskEnded ==
  ASSUME Inv, UNCHANGED <<ops, rows, node>>,
         NEW to \in {"FAILED", "CANCELLED", "EXPIRED"},
         CanTransition(task.status, to), task' = Transition(task, to)
  PROVE  StoreSound
<1>1. task \in TaskRows /\ task.version \in Nat
  BY DEF Inv, StoreTypeOK, TaskRows
<1>2. /\ task' \in TaskRows
      /\ task'.status = to
      /\ task'.version = task.version + 1
      /\ task'.route = task.route
  BY <1>1, TransitionRow DEF Statuses
<1>3. ~IsTerminal(task.status)
  BY DEF CanTransition
<1>4. StoreTypeOK'
  BY <1>2 DEF Inv, StoreTypeOK
<1>5. StoreInv'
  BY <1>2, <1>3 DEF Inv, StoreInv, EvidenceBeforeTransition, IsTerminal
<1>6. Grows
  BY <1>1, <1>2, <1>3 DEF Grows, Inv, StoreTypeOK
<1> QED
  BY <1>4, <1>5, <1>6 DEF StoreSound

\* A transition of the workflow, on its evidence and under its operation key.
LEMMA TaskMoved ==
  ASSUME Inv, UNCHANGED <<rows, node>>, NEW to \in Targets, Evidence(to),
         CanTransition(task.status, to), task' = Transition(task, to),
         ops' = [ops EXCEPT ![to] = task'.version]
  PROVE  StoreSound
<1>1. task \in TaskRows /\ task.version \in Nat /\ task.status \in Statuses
  BY DEF Inv, StoreTypeOK, TaskRows
<1>2. /\ task' \in TaskRows
      /\ task'.status = to
      /\ task'.version = task.version + 1
      /\ task'.route = task.route
  BY <1>1, TransitionRow DEF Statuses, Targets
<1>3. /\ ~IsTerminal(task.status)
      /\ to = "PLANNING" => task.status = "CREATED"
      /\ to = "ROUTING" => task.status = "PLANNING"
      /\ to = "EXECUTING" => task.status \in {"ROUTING", "WAITING_APPROVAL"}
      /\ to = "VALIDATING" => task.status = "EXECUTING"
      /\ to = "COMPLETED" => task.status = "VALIDATING"
  BY DEF CanTransition, Targets
<1>4. /\ ops' \in [Targets -> Nat]
      /\ ops'[to] # 0
      /\ \A u \in Targets : u # to => ops'[u] = ops[u]
  BY <1>1, <1>2 DEF Inv, StoreTypeOK
<1>5. StoreTypeOK'
  BY <1>2, <1>4 DEF Inv, StoreTypeOK
<1>6. Grows
  BY <1>1, <1>2, <1>3, <1>4 DEF Grows, Inv, StoreTypeOK
<1>7. StoreInv'
  <2>1. /\ ops'["ROUTING"] # 0 => ops["ROUTING"] # 0 \/ to = "ROUTING"
        /\ ops'["EXECUTING"] # 0 => ops["EXECUTING"] # 0 \/ to = "EXECUTING"
        /\ ops'["VALIDATING"] # 0 <=> ops["VALIDATING"] # 0 \/ to = "VALIDATING"
        /\ ops'["COMPLETED"] # 0 <=> ops["COMPLETED"] # 0 \/ to = "COMPLETED"
    BY <1>4 DEF Targets
  <2>2. EvidenceBeforeTransition'
    BY <1>2, <1>3, <2>1 DEF Inv, StoreInv, EvidenceBeforeTransition, Evidence, IsTerminal
  <2> QED
    BY <1>2, <1>3, <2>1, <2>2 DEF Inv, StoreInv, EvidenceBeforeTransition, IsTerminal, Targets
<1> QED
  BY <1>5, <1>6, <1>7 DEF StoreSound

\* The selection and the reference to it are written together.
LEMMA RouteSelected ==
  ASSUME Inv, SelectRoute, "plan" \in rows, task.status = "ROUTING"
  PROVE  StoreSound
<1>1. task \in TaskRows /\ task.version \in Nat \ {0}
  BY DEF Inv, StoreTypeOK, TaskRows
<1>2. task.version + 1 \in Nat \ {0}
  BY <1>1
<1>3. /\ task' \in TaskRows
      /\ task'.status = "ROUTING"
      /\ task'.version = task.version + 1
      /\ task'.route = "workflow"
  BY <1>1, <1>2, Zenon DEF SelectRoute, TaskRows
<1>4. rows' = rows \cup {"selection"} /\ ops' = ops /\ node' = node
  BY DEF SelectRoute
<1>5. StoreTypeOK'
  BY <1>3, <1>4 DEF Inv, StoreTypeOK
<1>6. StoreInv'
  BY <1>3, <1>4 DEF Inv, StoreInv, EvidenceBeforeTransition, IsTerminal
<1>7. Grows
  BY <1>1, <1>3, <1>4 DEF Grows, Inv, StoreTypeOK, IsTerminal
<1> QED
  BY <1>5, <1>6, <1>7 DEF StoreSound

-----------------------------------------------------------------------------
\* What an attempt and the workflow rely on survives every sound step of the store.

LEMMA EvidenceKept ==
  ASSUME Inv, StoreSound, NEW to, Evidence(to)
  PROVE  Evidence(to)'
  BY DEF Evidence, StoreSound, Grows, Targets

LEMMA StillUnroutedKept ==
  ASSUME Inv, StoreSound, NEW seen \in Seen, StillUnrouted(seen)
  PROVE  StillUnrouted(seen)'
<1>1. /\ task.version \in Nat /\ task'.version \in Nat /\ seen.version \in Nat
  BY DEF Inv, StoreSound, StoreTypeOK, TaskRows, Seen, NoTask
<1> QED
  BY <1>1 DEF StillUnrouted, StoreSound, Grows

LEMMA RunKept ==
  ASSUME Inv, StoreSound, NEW x \in RunRows, RunOK(x)
  PROVE  RunOK(x)'
<1>1. x.kind = "transition" => x.to \in Targets /\ Evidence(x.to)'
  BY EvidenceKept DEF RunOK
<1>2. x.kind = "route" /\ x.pc \in {"policy", "commit"} => StillUnrouted(x.seen)'
  BY StillUnroutedKept DEF RunOK, RunRows
<1>3. rows \subseteq rows'
  BY DEF StoreSound, Grows
<1> QED
  BY <1>1, <1>2, <1>3 DEF RunOK

LEMMA FlowKept ==
  ASSUME Inv, StoreSound, UNCHANGED wf
  PROVE  FlowInv'
<1>1. \A to \in Targets : ops[to] # 0 => ops'[to] # 0
  BY DEF StoreSound, Grows
<1>2. wf.pc = "advance" => Evidence(TargetOf(wf.snap.status))'
  BY EvidenceKept DEF Inv, FlowInv
<1>3. EvidenceIsTrue'
  BY <1>1 DEF Inv, FlowInv, EvidenceIsTrue, StoreSound, Grows, Targets
<1> QED
  BY <1>1, <1>2, <1>3 DEF Inv, FlowInv, Targets

\* One attempt changes and the other is as it was.
LEMMA RunChanged ==
  ASSUME Inv, StoreSound, NEW r \in Runs, NEW x \in RunRows, RunOK(x)',
         run' = [run EXCEPT ![r] = x]
  PROVE  /\ RunInv'
         /\ run'[r] = x
         /\ \A q \in Runs : q # r => run'[q] = run[q]
<1>1. run \in [Runs -> RunRows]
  BY DEF Inv, RunInv
<1>2. run' \in [Runs -> RunRows] /\ run'[r] = x /\ \A q \in Runs : q # r => run'[q] = run[q]
  BY <1>1
<1>3. ASSUME NEW q \in Runs PROVE RunOK(run[q])'
  <2>1. CASE q = r
    <3>1. run'[q] = x
      BY <1>2, <2>1
    <3> QED
      BY <3>1 DEF RunOK
  <2>2. CASE q # r
    <3>1. run'[q] = run[q] /\ run[q] \in RunRows /\ RunOK(run[q])
      BY <1>1, <1>2, <2>2 DEF Inv, RunInv
    <3>2. \A z \in RunRows : RunOK(z) => RunOK(z)'
      BY RunKept
    <3> QED
      BY <3>1, <3>2 DEF RunOK
  <2> QED
    BY <2>1, <2>2
<1> QED
  BY <1>2, <1>3 DEF RunInv

LEMMA IdleIsOK == Idle \in RunRows /\ RunOK(Idle) /\ RunOK(Idle)' /\ Unclaimed(Idle) = 0
  BY DEF Idle, RunRows, Handlers, Pcs, Seen, Tos, RunOK, Unclaimed

-----------------------------------------------------------------------------
\* The claims: no step but a claim raises the attempts of the node.

ClaimSound ==
    /\ Total' <= Total
    /\ node.state = "SUCCEEDED" => node'.attempts = node.attempts

LEMMA Numbers ==
  ASSUME Inv
  PROVE  /\ node.attempts \in Nat
         /\ \A x : Unclaimed(x) \in {0, 1}
         /\ Total \in Nat /\ node.attempts <= Total
         /\ tries \in 0 .. MaximumAttempts
         /\ MaximumAttempts \in Nat \ {0}
         /\ Budget \in 0 .. MaximumAttempts
<1>1. node.attempts \in Nat /\ tries \in 0 .. MaximumAttempts /\ MaximumAttempts \in Nat \ {0}
  BY LifecycleConstants DEF Inv, StoreTypeOK, FlowTypeOK, NodeRows
<1>2. \A x : Unclaimed(x) \in {0, 1}
  BY DEF Unclaimed
<1>3. Total \in Nat /\ node.attempts <= Total
  <2>1. Unclaimed(run["live"]) \in {0, 1} /\ Unclaimed(run["orphan"]) \in {0, 1}
    BY <1>2
  <2> QED
    BY <1>1, <2>1 DEF Total
<1>4. Budget \in 0 .. MaximumAttempts
  BY <1>1 DEF Budget
<1> QED
  BY <1>1, <1>2, <1>3, <1>4

LEMMA ClaimKept ==
  ASSUME Inv, StoreSound, FlowTypeOK', ClaimSound,
         node'.state = "SUCCEEDED" \/ Budget <= Budget'
  PROVE  ClaimInv'
<1>1. /\ node.attempts \in Nat /\ Total \in Nat /\ Budget \in 0 .. MaximumAttempts
      /\ MaximumAttempts \in Nat
  BY Numbers
<1>2. node'.attempts \in Nat /\ node'.state \in {"NONE", "READY", "RUNNING", "FAILED", "SUCCEEDED"}
  BY DEF StoreSound, StoreTypeOK, NodeRows
<1>3. Total' \in Nat /\ node'.attempts <= Total'
  <2>1. Unclaimed(run["live"])' \in {0, 1} /\ Unclaimed(run["orphan"])' \in {0, 1}
    BY DEF Unclaimed
  <2> QED
    BY <1>2, <2>1 DEF Total
<1>4. Budget' \in 0 .. MaximumAttempts
  BY <1>1 DEF Budget, FlowTypeOK
<1>5. node.state # "SUCCEEDED" => Total <= Budget
  BY DEF Inv, ClaimInv
<1>6. node'.attempts <= MaximumAttempts
  <2>1. CASE node.state = "SUCCEEDED"
    BY <2>1 DEF Inv, ClaimInv, ClaimSound
  <2>2. CASE node.state # "SUCCEEDED"
    BY <1>1, <1>2, <1>3, <1>5, <2>2 DEF ClaimSound
  <2> QED
    BY <2>1, <2>2
<1>7. node'.state # "SUCCEEDED" => Total' <= Budget'
  <2> SUFFICES ASSUME node'.state # "SUCCEEDED" PROVE Total' <= Budget'
    OBVIOUS
  <2>1. node.state # "SUCCEEDED"
    BY DEF StoreSound, Grows
  <2> QED
    BY <1>1, <1>3, <1>4, <1>5, <2>1 DEF ClaimSound
<1> QED
  BY <1>6, <1>7 DEF ClaimInv

\* A step that leaves the attempts of the node and changes one attempt, which may then
\* claim no more often than before.
LEMMA ClaimQuiet ==
  ASSUME Inv, node'.attempts = node.attempts, NEW r \in Runs, NEW x \in RunRows,
         run'[r] = x, \A q \in Runs : q # r => run'[q] = run[q],
         Unclaimed(x) <= Unclaimed(run[r])
  PROVE  ClaimSound
<1>1. /\ node.attempts \in Nat
      /\ Unclaimed(run["live"]) \in {0, 1} /\ Unclaimed(run["orphan"]) \in {0, 1}
      /\ Unclaimed(x) \in {0, 1}
  BY Numbers
<1>2. CASE r = "live"
  <2>1. Unclaimed(run["live"])' = Unclaimed(x) /\ Unclaimed(run["orphan"])' = Unclaimed(run["orphan"])
    BY <1>2 DEF Unclaimed, Runs
  <2> QED
    BY <1>1, <1>2, <2>1 DEF ClaimSound, Total
<1>3. CASE r = "orphan"
  <2>1. Unclaimed(run["orphan"])' = Unclaimed(x) /\ Unclaimed(run["live"])' = Unclaimed(run["live"])
    BY <1>3 DEF Unclaimed, Runs
  <2> QED
    BY <1>1, <1>3, <2>1 DEF ClaimSound, Total
<1> QED
  BY <1>2, <1>3 DEF Runs

-----------------------------------------------------------------------------
\* How an attempt goes on or ends.

\* It goes on: the workflow still waits for the same activity.
LEMMA GoesOn ==
  ASSUME Inv, StoreSound, ClaimSound, UNCHANGED flow, NEW r \in Runs, NEW x \in RunRows,
         RunOK(x)', run' = [run EXCEPT ![r] = x], run[r] # Idle,
         x.kind = run[r].kind, x.kind # "transition"
  PROVE  Inv'
<1>1. RunInv' /\ run'[r] = x /\ \A q \in Runs : q # r => run'[q] = run[q]
  BY RunChanged, Zenon
<1>2. wf' = wf /\ tries' = tries
  BY DEF flow
<1>3. FlowTypeOK' /\ FlowInv'
  BY <1>2, FlowKept DEF Inv, FlowTypeOK
<1>4. LiveInv'
  <2>1. run["live"] # Idle => Open' /\ run["live"].kind = Scheduled'
                              /\ (wf'.pc = "advance" => run["live"].to = TargetOf(wf'.snap.status))
    BY <1>2 DEF Inv, LiveInv, Open, Scheduled
  <2>2. CASE r = "live"
    <3>1. run["live"].kind = Scheduled /\ run["live"].kind # "transition"
      BY <2>2 DEF Inv, LiveInv
    <3>2. wf.pc # "advance"
      BY <3>1 DEF Scheduled
    <3> QED
      BY <1>1, <1>2, <2>1, <2>2, <3>2 DEF LiveInv
  <2>3. CASE r # "live"
    <3>1. run'["live"] = run["live"]
      BY <1>1, <2>3 DEF Runs
    <3> QED
      BY <2>1, <3>1 DEF LiveInv
  <2> QED
    BY <2>2, <2>3
<1>5. ClaimInv'
  <2>1. Budget' = Budget
    BY <1>2 DEF Budget, AtExecute, Open
  <2>2. Budget <= Budget'
    BY <2>1, Numbers
  <2> QED
    BY <1>3, <2>2, ClaimKept
<1> QED
  BY <1>1, <1>3, <1>4, <1>5 DEF Inv, StoreSound

\* It ends and the workflow goes on, or is done with.
LEMMA EndsWith ==
  ASSUME Inv, StoreSound, node'.attempts = node.attempts, run' = [run EXCEPT !["live"] = Idle],
         FlowTypeOK', FlowInv', node'.state = "SUCCEEDED" \/ Budget <= Budget'
  PROVE  Inv'
<1>1. "live" \in Runs
  BY DEF Runs
<1>2. RunInv' /\ run'["live"] = Idle /\ \A q \in Runs : q # "live" => run'[q] = run[q]
  BY <1>1, RunChanged, IdleIsOK, Zenon
<1>3. LiveInv'
  BY <1>2 DEF LiveInv
<1>4. Unclaimed(Idle) <= Unclaimed(run["live"])
  BY IdleIsOK, Numbers
<1>5. ClaimSound
  BY <1>1, <1>2, <1>4, IdleIsOK, ClaimQuiet
<1>6. ClaimInv'
  BY <1>5, ClaimKept
<1> QED
  BY <1>2, <1>3, <1>6 DEF Inv, StoreSound

\* It ends and the workflow waits for another attempt, or for nothing: an orphan.
LEMMA EndsQuietly ==
  ASSUME Inv, StoreSound, node'.attempts = node.attempts, NEW r \in Runs,
         run' = [run EXCEPT ![r] = Idle], UNCHANGED flow
  PROVE  Inv'
<1>1. RunInv' /\ run'[r] = Idle /\ \A q \in Runs : q # r => run'[q] = run[q]
  BY RunChanged, IdleIsOK, Zenon
<1>2. wf' = wf /\ tries' = tries
  BY DEF flow
<1>3. FlowTypeOK' /\ FlowInv'
  BY <1>2, FlowKept DEF Inv, FlowTypeOK
<1>4. LiveInv'
  <2>1. run["live"] # Idle => Open' /\ run["live"].kind = Scheduled'
                              /\ (wf'.pc = "advance" => run["live"].to = TargetOf(wf'.snap.status))
    BY <1>2 DEF Inv, LiveInv, Open, Scheduled
  <2>2. run'["live"] = Idle \/ run'["live"] = run["live"]
    BY <1>1 DEF Runs
  <2> QED
    BY <2>1, <2>2 DEF LiveInv
<1>5. Unclaimed(Idle) <= Unclaimed(run[r])
  BY IdleIsOK, Numbers
<1>6. ClaimSound
  BY <1>1, <1>5, IdleIsOK, ClaimQuiet
<1>7. ClaimInv'
  <2>1. Budget' = Budget
    BY <1>2 DEF Budget, AtExecute, Open
  <2>2. Budget <= Budget'
    BY <2>1, Numbers
  <2> QED
    BY <1>3, <1>6, <2>2, ClaimKept
<1> QED
  BY <1>1, <1>3, <1>4, <1>7 DEF Inv, StoreSound

\* The workflow fails or is closed: it claims nothing more than it did.
LEMMA Closes ==
  ASSUME Inv, StoreSound, tries' = 0, NEW err \in Errors, NEW pc \in {"failed", "cancelled"},
         wf' = [wf EXCEPT !.pc = pc, !.err = err]
  PROVE  FlowTypeOK' /\ FlowInv' /\ Budget <= Budget' /\ ~Open'
<1>1. wf \in WfRows
  BY DEF Inv, FlowTypeOK
<1>2. /\ wf' \in WfRows /\ wf'.pc = pc /\ wf'.steps = wf.steps
  BY <1>1, Zenon DEF WfRows, WfPcs
<1>3. FlowTypeOK'
  BY <1>2, LifecycleConstants DEF FlowTypeOK
<1>4. EvidenceIsTrue'
  <2>1. \A to \in Targets : ops[to] # 0 => ops'[to] # 0
    BY DEF StoreSound, Grows
  <2> QED
    BY <1>2, <2>1 DEF Inv, FlowInv, EvidenceIsTrue
<1>5. FlowInv'
  BY <1>2, <1>4 DEF FlowInv
<1>6. Budget' = MaximumAttempts /\ ~Open'
  BY <1>2 DEF Budget, AtExecute, Open
<1> QED
  BY <1>3, <1>5, <1>6, Numbers

LEMMA FatalSound ==
  ASSUME Inv, StoreSound, node'.attempts = node.attempts, NEW r \in Runs, NEW err \in Errors,
         Fatal(r, err)
  PROVE  Inv'
<1>1. CASE r = "orphan"
  BY <1>1, EndsQuietly, Zenon DEF Fatal, Return
<1>2. CASE r = "live"
  <2>1. run' = [run EXCEPT !["live"] = Idle] /\ wf' = Failed(err) /\ tries' = 0
    BY <1>2 DEF Fatal, Return
  <2>2. FlowTypeOK' /\ FlowInv' /\ Budget <= Budget'
    BY <2>1, Closes, Zenon DEF Failed
  <2> QED
    BY <2>1, <2>2, EndsWith
<1> QED
  BY <1>1, <1>2 DEF Runs

LEMMA RetryableSound ==
  ASSUME Inv, StoreSound, node'.attempts = node.attempts, NEW r \in Runs, NEW err \in Errors,
         Retryable(r, err)
  PROVE  Inv'
<1>1. CASE UNCHANGED flow
  BY <1>1, EndsQuietly, Zenon DEF Retryable, Return
<1>2. CASE r = "live" /\ ~UNCHANGED flow
  <2>1. run' = [run EXCEPT !["live"] = Idle] /\ wf' = Failed(err) /\ tries' = 0
    BY <1>2 DEF Retryable, Return
  <2>2. FlowTypeOK' /\ FlowInv' /\ Budget <= Budget'
    BY <2>1, Closes, Zenon DEF Failed
  <2> QED
    BY <2>1, <2>2, EndsWith
<1> QED
  BY <1>1, <1>2 DEF Runs, Retryable, Return

\* A step of the workflow is done, and what it established is on record.
LEMMA StepDone ==
  ASSUME Inv, StoreSound, node'.attempts = node.attempts, NEW r \in Runs, run[r] # Idle,
         NEW snap, Ok(r, snap),
         run[r].kind \in {"plan", "route", "execute", "validate"},
         run[r].kind = "plan" => "plan" \in rows',
         run[r].kind = "route" => "selection" \in rows',
         run[r].kind = "execute" => node'.state = "SUCCEEDED"
  PROVE  Inv'
<1>1. CASE r = "orphan"
  BY <1>1, EndsQuietly, Zenon DEF Ok, Return
<1>2. CASE r = "live"
  <2>1. run' = [run EXCEPT !["live"] = Idle] /\ wf' = Continue(snap) /\ tries' = 0
    BY <1>2 DEF Ok, Return
  <2>2. run["live"].kind = Scheduled /\ Open
    BY <1>2 DEF Inv, LiveInv
  <2>3. wf.pc = "step" /\ run["live"].kind = StepOf(wf.snap.status)
    BY <1>2, <2>2 DEF Scheduled, Open
  <2>4. wf' = Stepped
    BY <2>1, <2>3 DEF Continue
  <2>5. wf.snap.status \in {"PLANNING", "ROUTING", "EXECUTING", "VALIDATING"}
    BY <2>3 DEF Inv, FlowInv
  <2>6. StepOf(wf.snap.status) \in Handlers /\ StepOf(wf.snap.status) \notin Targets
    BY <2>5 DEF StepOf, Handlers, Targets
  <2>7. /\ wf' \in WfRows /\ wf'.pc = "advance" /\ wf'.snap = wf.snap
        /\ wf'.steps = wf.steps \cup {StepOf(wf.snap.status)}
    BY <2>4, <2>6, Zenon DEF Stepped, Inv, FlowTypeOK, WfRows, WfPcs
  <2>8. FlowTypeOK'
    BY <2>1, <2>7, LifecycleConstants DEF FlowTypeOK
  <2>9. Evidence(TargetOf(wf.snap.status))'
    <3>1. ops'["VALIDATING"] # 0 \/ wf.snap.status # "VALIDATING"
      BY <2>3 DEF Inv, FlowInv, StoreSound, Grows, Targets
    <3> QED
      BY <1>2, <2>3, <2>5, <2>7, <3>1 DEF Evidence, TargetOf, StepOf
  <2>10. EvidenceIsTrue'
    <3>1. \A to \in Targets : ops[to] # 0 => ops'[to] # 0
      BY DEF StoreSound, Grows
    <3> QED
      BY <2>6, <2>7, <3>1 DEF Inv, FlowInv, EvidenceIsTrue
  <2>11. FlowInv'
    BY <2>5, <2>7, <2>9, <2>10 DEF FlowInv
  <2>12. node'.state = "SUCCEEDED" \/ Budget <= Budget'
    <3>1. CASE wf.snap.status = "EXECUTING"
      BY <1>2, <2>3, <3>1 DEF StepOf
    <3>2. CASE wf.snap.status # "EXECUTING"
      <4>1. Budget = 0 /\ Budget' = 0
        BY <2>3, <2>7, <3>2 DEF Budget, AtExecute, Open
      <4> QED
        BY <4>1
    <3> QED
      BY <3>1, <3>2
  <2> QED
    BY <2>1, <2>8, <2>11, <2>12, EndsWith
<1> QED
  BY <1>1, <1>2 DEF Runs

-----------------------------------------------------------------------------
\* The actions.

LEMMA LoadTaskStep ==
  ASSUME Inv, NEW r \in Runs, LoadTask(r)
  PROVE  Inv'
<1>1. UNCHANGED store /\ Ok(r, task) /\ run[r].kind = "load"
  BY DEF LoadTask, Snapshot, At
<1>2. StoreSound /\ node' = node /\ task' = task /\ ops' = ops
  BY <1>1, StoreUnchanged DEF store
<1>3. CASE r = "orphan"
  BY <1>1, <1>2, <1>3, EndsQuietly, Zenon DEF Ok, Return
<1>4. CASE r = "live"
  <2>1. run' = [run EXCEPT !["live"] = Idle] /\ wf' = Continue(task) /\ tries' = 0
    BY <1>1, <1>4 DEF Ok, Return
  <2>2. run["live"] # Idle
    BY <1>1, <1>4 DEF Idle
  <2>3. Scheduled = "load" /\ Open
    BY <1>1, <1>4, <2>2 DEF Inv, LiveInv
  <2>4. wf.pc \in {"load", "reload", "final"}
    <3>1. wf.pc = "step" => StepOf(wf.snap.status) # "load"
      BY DEF Inv, FlowInv, StepOf
    <3> QED
      BY <2>3, <3>1 DEF Scheduled, Open
  <2>5. wf \in WfRows /\ task \in TaskRows /\ task \in Seen /\ task.status \in Statuses
    BY DEF Inv, FlowTypeOK, StoreTypeOK, Seen, TaskRows
  <2>6. Budget = 0
    BY <2>4 DEF Budget, AtExecute, Open
  <2>7. ASSUME wf' \in WfRows, wf'.steps = wf.steps, wf'.pc # "done",
               wf'.pc = "final" => ops["COMPLETED"] # 0,
               wf'.pc \in {"step", "advance"} =>
                   wf'.snap.status \in {"PLANNING", "ROUTING", "EXECUTING", "VALIDATING"},
               wf'.pc \in {"step", "advance"} /\ wf'.snap.status = "VALIDATING" => ops["VALIDATING"] # 0,
               wf'.pc # "advance"
        PROVE  FlowTypeOK' /\ FlowInv'
    BY <1>2, <2>1, <2>7, LifecycleConstants DEF FlowTypeOK, FlowInv, Inv, EvidenceIsTrue
  <2>8. CASE wf.pc = "load"
    <3>1. wf' = Loaded(task)
      BY <2>1, <2>8 DEF Continue
    <3>2. CASE IsTerminal(task.status)
      <4>1. wf' = [[wf EXCEPT !.snap = task, !.observed = task.status] EXCEPT !.pc = "done", !.already = TRUE]
        BY <3>1, <3>2 DEF Loaded, IsTerminal
      <4>2. /\ wf'.pc = "done" /\ wf'.steps = wf.steps /\ wf'.observed = task.status
            /\ wf' \in WfRows
        BY <2>5, <4>1, Zenon DEF WfRows, WfPcs
      <4>3. wf'.already
        BY <2>5, <4>1 DEF WfRows
      <4>4. EvidenceIsTrue'
        BY <1>2, <3>2, <4>2, <4>3 DEF Inv, FlowInv, EvidenceIsTrue
      <4>5. FlowTypeOK' /\ FlowInv'
        BY <2>1, <4>2, <4>4, LifecycleConstants DEF FlowTypeOK, FlowInv
      <4>6. Budget <= Budget'
        BY <2>6, <4>2, LifecycleConstants DEF Budget, AtExecute, Open
      <4> QED
        BY <1>2, <2>1, <4>5, <4>6, EndsWith
    <3>3. CASE task.status = "CREATED"
      <4>1. wf' = [[wf EXCEPT !.snap = task, !.observed = task.status] EXCEPT !.pc = "advance"]
        BY <3>1, <3>3 DEF Loaded, IsTerminal
      <4>2. /\ wf'.pc = "advance" /\ wf'.steps = wf.steps /\ wf'.snap = task
            /\ wf' \in WfRows
        BY <2>5, <4>1, Zenon DEF WfRows, WfPcs
      <4>3. EvidenceIsTrue'
        BY <1>2, <4>2 DEF Inv, FlowInv, EvidenceIsTrue
      <4>4. Evidence(TargetOf(wf.snap.status))'
        BY <3>3, <4>2 DEF Evidence, TargetOf
      <4>5. FlowTypeOK' /\ FlowInv'
        BY <2>1, <3>3, <4>2, <4>3, <4>4, LifecycleConstants DEF FlowTypeOK, FlowInv
      <4>6. Budget <= Budget'
        BY <2>6, <4>2 DEF Budget, AtExecute, Open
      <4> QED
        BY <1>2, <2>1, <4>5, <4>6, EndsWith
    <3>4. CASE task.status = "WAITING_APPROVAL"
      <4>1. wf' = [[wf EXCEPT !.snap = task, !.observed = task.status] EXCEPT !.pc = "failed",
                                                               !.err = "WAITING_APPROVAL"]
        BY <3>1, <3>4 DEF Loaded, IsTerminal
      <4>2. /\ wf'.pc = "failed" /\ wf'.steps = wf.steps
            /\ wf' \in WfRows
        BY <2>5, <4>1, Zenon DEF WfRows, WfPcs, Errors
      <4>3. FlowTypeOK' /\ FlowInv'
        BY <2>7, <4>2
      <4>4. Budget <= Budget'
        BY <2>6, <4>2, LifecycleConstants DEF Budget, AtExecute, Open
      <4> QED
        BY <1>2, <2>1, <4>3, <4>4, EndsWith
    <3>5. CASE task.status \in {"PLANNING", "ROUTING", "EXECUTING", "VALIDATING"}
      <4>1. wf' = [[wf EXCEPT !.snap = task, !.observed = task.status] EXCEPT !.pc = "step"]
        BY <3>1, <3>5 DEF Loaded, IsTerminal
      <4>2. /\ wf'.pc = "step" /\ wf'.steps = wf.steps /\ wf'.snap = task
            /\ wf' \in WfRows
        BY <2>5, <4>1, Zenon DEF WfRows, WfPcs
      <4>3. task.status = "VALIDATING" => ops["VALIDATING"] # 0
        BY DEF Inv, StoreInv
      <4>4. FlowTypeOK' /\ FlowInv'
        BY <2>7, <3>5, <4>2, <4>3
      <4>5. Budget <= Budget'
        BY <2>1, <2>6, <4>2 DEF Budget, AtExecute, Open
      <4> QED
        BY <1>2, <2>1, <4>4, <4>5, EndsWith
    <3> QED
      BY <2>5, <3>2, <3>3, <3>4, <3>5 DEF Statuses, IsTerminal
  <2>9. CASE wf.pc = "reload"
    <3>1. wf' = [wf EXCEPT !.observed = task.status, !.pc = "load"]
      BY <2>1, <2>9 DEF Continue, Reloaded
    <3>2. wf' \in WfRows /\ wf'.pc = "load" /\ wf'.steps = wf.steps
      BY <2>5, <3>1, Zenon DEF WfRows, WfPcs
    <3>3. FlowTypeOK' /\ FlowInv'
      BY <2>7, <3>2
    <3>4. Budget <= Budget'
      BY <2>6, <3>2 DEF Budget, AtExecute, Open
    <3> QED
      BY <1>2, <2>1, <3>3, <3>4, EndsWith
  <2>10. CASE wf.pc = "final"
    <3>1. wf' = [wf EXCEPT !.observed = task.status, !.already = FALSE, !.pc = "done"]
      BY <2>1, <2>10 DEF Continue, Finished
    <3>2. /\ wf' \in WfRows /\ wf'.pc = "done" /\ wf'.steps = wf.steps
          /\ wf'.observed = task.status
      BY <2>5, <3>1, Zenon DEF WfRows, WfPcs
    <3>3. ops["COMPLETED"] # 0 /\ task.status = "COMPLETED"
      BY <2>10 DEF Inv, FlowInv, StoreInv, EvidenceBeforeTransition
    <3>4. EvidenceIsTrue'
      BY <1>2, <3>2, <3>3 DEF Inv, FlowInv, EvidenceIsTrue, IsTerminal
    <3>5. FlowTypeOK' /\ FlowInv'
      BY <2>1, <3>2, <3>4, LifecycleConstants DEF FlowTypeOK, FlowInv
    <3>6. Budget <= Budget'
      BY <2>6, <3>2, LifecycleConstants DEF Budget, AtExecute, Open
    <3> QED
      BY <1>2, <2>1, <3>5, <3>6, EndsWith
  <2> QED
    BY <2>4, <2>8, <2>9, <2>10
<1> QED
  BY <1>3, <1>4 DEF Runs

\* The live attempt of a transition asks for the target of the snapshot.
LEMMA LiveTransition ==
  ASSUME Inv, run["live"].kind = "transition"
  PROVE  /\ wf.pc = "advance" /\ run["live"].to = TargetOf(wf.snap.status)
         /\ run["live"].to \in Targets /\ Budget = 0 /\ wf \in WfRows
<1>1. run["live"] # Idle
  BY DEF Idle
<1>2. Scheduled = "transition" /\ Open
  BY <1>1 DEF Inv, LiveInv
<1>3. wf.pc = "advance"
  <2>1. wf.pc = "step" => StepOf(wf.snap.status) # "transition"
    BY DEF Inv, FlowInv, StepOf
  <2> QED
    BY <1>2, <2>1 DEF Scheduled, Open
<1> QED
  BY <1>1, <1>3 DEF Inv, LiveInv, RunInv, RunOK, Runs, Budget, AtExecute, Open, FlowTypeOK

\* The answer to a transition names the target only when it is under the operation key.
LEMMA TransitionDone ==
  ASSUME Inv, StoreSound, node' = node, NEW r \in Runs, run[r].kind = "transition",
         NEW snap, Ok(r, snap), snap.status \in Statuses,
         snap.status = run[r].to => ops'[run[r].to] # 0
  PROVE  Inv'
<1>1. CASE r = "orphan"
  BY <1>1, EndsQuietly, Zenon DEF Ok, Return
<1>2. CASE r = "live"
  <2> DEFINE to == TargetOf(wf.snap.status)
  <2>1. run' = [run EXCEPT !["live"] = Idle] /\ wf' = Continue(snap) /\ tries' = 0
    BY <1>2 DEF Ok, Return
  <2>2. /\ wf.pc = "advance" /\ run["live"].to = to /\ to \in Targets
        /\ Budget = 0 /\ wf \in WfRows
    BY <1>2, LiveTransition
  <2>3. wf' = Advanced(snap)
    BY <2>1, <2>2 DEF Continue
  <2>4. /\ wf' \in WfRows
        /\ wf'.steps = (IF snap.status = to THEN wf.steps \cup {to} ELSE wf.steps)
        /\ wf'.pc = (IF snap.status = to /\ to = "COMPLETED" THEN "final" ELSE "load")
    <3> HIDE DEF to
    <3>1. wf' = [wf EXCEPT !.observed = snap.status,
                           !.steps = IF snap.status = to THEN @ \cup {to} ELSE @,
                           !.pc = IF snap.status = to /\ to = "COMPLETED" THEN "final" ELSE "load"]
      BY <2>3 DEF Advanced, to
    <3> QED
      BY <2>2, <3>1, Zenon DEF WfRows, WfPcs
  <2>5. \A u \in Targets : ops[u] # 0 => ops'[u] # 0
    BY DEF StoreSound, Grows
  <2>6. FlowTypeOK'
    BY <2>1, <2>4, LifecycleConstants DEF FlowTypeOK
  <2>7. EvidenceIsTrue' /\ (wf'.pc = "final" => ops'["COMPLETED"] # 0)
    <3> HIDE DEF to
    <3>1. snap.status = to => ops'[to] # 0
      BY <1>2, <2>2
    <3>2. \A u \in wf'.steps \cap Targets : ops'[u] # 0
      BY <2>4, <2>5, <3>1 DEF Inv, FlowInv, EvidenceIsTrue
    <3> QED
      BY <2>4, <3>1, <3>2 DEF EvidenceIsTrue
  <2>8. wf'.pc \in {"final", "load"}
    BY <2>4
  <2>9. FlowInv'
    BY <2>7, <2>8 DEF FlowInv
  <2>10. Budget <= Budget'
    BY <2>2, <2>8 DEF Budget, AtExecute, Open
  <2> QED
    BY <2>1, <2>6, <2>9, <2>10, EndsWith
<1> QED
  BY <1>1, <1>2 DEF Runs

LEMMA StaleSound ==
  ASSUME Inv, StoreSound, node' = node, NEW r \in Runs, run[r].kind = "transition", Stale(r)
  PROVE  Inv'
<1>1. CASE r = "orphan"
  BY <1>1, EndsQuietly, Zenon DEF Stale, Return
<1>2. CASE r = "live"
  <2>1. run' = [run EXCEPT !["live"] = Idle] /\ wf' = [wf EXCEPT !.pc = "reload"] /\ tries' = 0
    BY <1>2 DEF Stale, Return
  <2>2. Budget = 0 /\ wf \in WfRows
    BY <1>2, LiveTransition
  <2>3. wf' \in WfRows /\ wf'.pc = "reload" /\ wf'.steps = wf.steps
    BY <2>1, <2>2 DEF WfRows, WfPcs
  <2>4. FlowTypeOK'
    BY <2>1, <2>3, LifecycleConstants DEF FlowTypeOK
  <2>5. EvidenceIsTrue'
    <3>1. \A u \in Targets : ops[u] # 0 => ops'[u] # 0
      BY DEF StoreSound, Grows
    <3> QED
      BY <2>3, <3>1 DEF Inv, FlowInv, EvidenceIsTrue
  <2>6. FlowInv'
    BY <2>3, <2>5 DEF FlowInv
  <2>7. Budget <= Budget'
    BY <2>2, <2>3 DEF Budget, AtExecute, Open
  <2> QED
    BY <2>1, <2>4, <2>6, <2>7, EndsWith
<1> QED
  BY <1>1, <1>2 DEF Runs

LEMMA TransitionTaskStep ==
  ASSUME Inv, NEW r \in Runs, TransitionTask(r)
  PROVE  Inv'
<1> DEFINE to == run[r].to
<1>1. run[r].kind = "transition" /\ to \in Targets /\ Evidence(to)
  BY DEF TransitionTask, At, Inv, RunInv, RunOK
<1>2. task \in TaskRows /\ task.status \in Statuses /\ to \in Statuses
  BY <1>1 DEF Inv, StoreTypeOK, TaskRows, Targets, Statuses
<1> HIDE DEF to
<1>3. CASE ops[to] # 0 /\ UNCHANGED store /\ Ok(r, [task EXCEPT !.status = to, !.version = ops[to]])
  <2>1. StoreSound /\ node' = node /\ ops' = ops
    BY <1>3, StoreUnchanged DEF store
  <2>2. [task EXCEPT !.status = to, !.version = ops[to]].status = to
    BY <1>2 DEF TaskRows
  <2> QED
    BY <1>1, <1>2, <1>3, <2>1, <2>2, TransitionDone, Zenon DEF to
<1>4. CASE ops[to] = 0 /\ IsTerminal(task.status) /\ UNCHANGED store /\ Ok(r, task)
  <2>1. StoreSound /\ node' = node /\ ops' = ops
    BY <1>4, StoreUnchanged DEF store
  <2>2. task.status # to
    BY <1>1, <1>4 DEF Inv, StoreInv, Evidence, IsTerminal, Targets
  <2> QED
    BY <1>1, <1>2, <1>4, <2>1, <2>2, TransitionDone DEF to
<1>5. CASE Stale(r) /\ UNCHANGED store
  <2>1. StoreSound /\ node' = node
    BY <1>5, StoreUnchanged DEF store
  <2> QED
    BY <1>1, <1>5, <2>1, StaleSound
<1>6. CASE Retryable(r, "INVALID_TASK_TRANSITION") /\ UNCHANGED store
  <2>1. StoreSound /\ node' = node
    BY <1>6, StoreUnchanged DEF store
  <2>2. "INVALID_TASK_TRANSITION" \in Errors
    BY DEF Errors
  <2> QED
    BY <1>6, <2>1, <2>2, RetryableSound
<1>7. CASE /\ CanTransition(task.status, to)
           /\ task' = Transition(task, to)
           /\ ops' = [ops EXCEPT ![to] = task'.version]
           /\ Ok(r, task')
           /\ UNCHANGED <<rows, node>>
  <2>1. StoreSound
    BY <1>1, <1>7, TaskMoved, Zenon
  <2>2. task'.status = to /\ task'.version \in Nat \ {0}
    BY <1>2, <1>7, TransitionRow DEF TaskRows
  <2>3. ops'[to] # 0
    BY <1>1, <1>7, <2>2 DEF Inv, StoreTypeOK
  <2> QED
    BY <1>1, <1>2, <1>7, <2>1, <2>2, <2>3, TransitionDone DEF to
<1> QED
  BY <1>3, <1>4, <1>5, <1>6, <1>7 DEF TransitionTask, to

LEMMA ValidateStubStep ==
  ASSUME Inv, NEW r \in Runs, ValidateStub(r)
  PROVE  Inv'
<1>1. /\ run[r].kind = "validate" /\ run[r] # Idle
      /\ Ok(r, run[r].seen) /\ UNCHANGED <<ops, rows, node>>
  BY DEF ValidateStub, At, Idle
<1>2. StoreSound
  <2>1. CASE UNCHANGED task
    BY <1>1, <2>1, StoreUnchanged DEF store
  <2>2. CASE \E to \in {"FAILED", "CANCELLED", "EXPIRED"} :
                CanTransition(task.status, to) /\ task' = Transition(task, to)
    BY <1>1, <2>2, TaskEnded
  <2> QED
    BY <2>1, <2>2 DEF ValidateStub
<1> QED
  BY <1>1, <1>2, StepDone

\* The next transaction of an attempt: what it is to rely on is established.
LEMMA GotoSound ==
  ASSUME Inv, StoreSound, node'.attempts = node.attempts, NEW r \in Runs, NEW pc \in Pcs,
         Goto(r, pc), run[r].kind \in {"plan", "route", "execute"},
         run[r].kind = "route" => pc \notin {"policy"},
         run[r].kind = "route" /\ pc = "commit" => StillUnrouted(run[r].seen) /\ "plan" \in rows',
         run[r].kind = "execute" /\ pc \notin {"begin", "binding"} => "selection" \in rows',
         run[r].kind = "execute" /\ pc \notin {"begin", "binding"} \cup Bound => "execution" \in rows',
         run[r].pc \in {"call", "complete", "verify"} => pc \in {"call", "complete", "verify"}
  PROVE  Inv'
<1>1. run \in [Runs -> RunRows] /\ run[r] \in RunRows /\ run[r] # Idle
  BY DEF Inv, RunInv, Idle
<1>2. PICK x \in RunRows : x = [run[r] EXCEPT !.pc = pc]
  BY <1>1, Zenon DEF RunRows
<1>3. /\ x.kind = run[r].kind /\ x.pc = pc /\ x.seen = run[r].seen /\ x.seen \in Seen
      /\ run' = [run EXCEPT ![r] = x] /\ UNCHANGED flow
  BY <1>1, <1>2 DEF Goto, RunRows
<1>4. \A y \in Seen : StillUnrouted(y) => StillUnrouted(y)'
  BY StillUnroutedKept
<1>5. RunOK(x)'
  BY <1>3, <1>4 DEF RunOK
<1>6. Unclaimed(x) <= Unclaimed(run[r])
  BY <1>3 DEF Unclaimed
<1>7. run'[r] = x /\ \A q \in Runs : q # r => run'[q] = run[q]
  BY <1>1, <1>3
<1>8. ClaimSound
  BY <1>6, <1>7, ClaimQuiet
<1> QED
  BY <1>1, <1>3, <1>5, <1>8, GoesOn, Zenon

\* Only the snapshot the attempt works with changes with the transaction.
LEMMA ReadsTask ==
  ASSUME Inv, UNCHANGED <<store, flow>>, NEW r \in Runs,
         \/ run[r].kind = "plan" /\ run' = [run EXCEPT ![r].pc = "getplan", ![r].seen = task]
         \/ /\ run[r].kind = "route" /\ task.route = "none"
            /\ run' = [run EXCEPT ![r].pc = "policy", ![r].seen = task]
  PROVE  Inv'
<1>1. /\ run \in [Runs -> RunRows] /\ run[r] \in RunRows /\ run[r] # Idle
      /\ task \in Seen /\ task.version \in Nat
  BY DEF Inv, RunInv, Idle, StoreTypeOK, Seen, TaskRows
<1>2. PICK pc \in Pcs : pc = IF run[r].kind = "plan" THEN "getplan" ELSE "policy"
  BY DEF Pcs
<1>3. UNCHANGED flow /\ StoreSound /\ task' = task /\ node' = node
  BY StoreUnchanged DEF store
<1>4. PICK x \in RunRows : x = [run[r] EXCEPT !.pc = pc, !.seen = task]
  BY <1>1, Zenon DEF RunRows
<1>5. /\ x.kind = run[r].kind /\ x.pc = pc /\ x.seen = task
      /\ run' = [run EXCEPT ![r] = x]
  BY <1>1, <1>2, <1>4, Zenon DEF RunRows
<1>6. RunOK(x)' /\ Unclaimed(x) <= Unclaimed(run[r])
  <2>1. x.kind = "route" => StillUnrouted(x.seen)'
    BY <1>1, <1>3, <1>5 DEF StillUnrouted
  <2>2. x.pc # "commit" /\ x.kind \in {"plan", "route"}
    BY <1>2, <1>5
  <2> QED
    BY <2>1, <2>2, <1>5 DEF RunOK, Unclaimed
<1>7. run'[r] = x /\ \A q \in Runs : q # r => run'[q] = run[q]
  BY <1>1, <1>5
<1>8. ClaimSound
  BY <1>3, <1>6, <1>7, ClaimQuiet
<1> QED
  BY <1>1, <1>3, <1>5, <1>6, <1>8, GoesOn, Zenon

LEMMA PlanStep ==
  ASSUME Inv, NEW r \in Runs, Plan(r)
  PROVE  Inv'
<1>1. run[r].kind = "plan" /\ run[r] # Idle
  BY DEF Plan, PlanGetTask, PlanGetPlan, EnsureGoal, PersistPlan, At, Idle
<1>2. ASSUME UNCHANGED store PROVE StoreSound /\ node' = node
  BY <1>2, StoreUnchanged DEF store
<1>3. ASSUME NEW pc \in {"getgoal", "createplan", "creategoal"}, Goto(r, pc), StoreSound,
             node' = node, run[r].pc \notin {"call", "complete", "verify"}
      PROVE  Inv'
  <2>1. pc \in Pcs
    BY DEF Pcs
  <2> QED
    BY <1>1, <1>3, <2>1, GotoSound
<1>4. CASE PlanGetTask(r)
  BY <1>1, <1>4, ReadsTask, Zenon DEF PlanGetTask
<1>5. CASE PlanGetPlan(r)
  <2>1. UNCHANGED store /\ StoreSound /\ node' = node /\ rows' = rows
    BY <1>2, <1>5 DEF PlanGetPlan, store
  <2>2. CASE GetPlan /\ Ok(r, NoTask)
    BY <1>1, <2>1, <2>2, StepDone DEF GetPlan
  <2>3. CASE NotInState(r, run[r].seen.status)
    <3>1. /\ "TERMINAL_TASK" \in Errors /\ "INVALID_TASK_TRANSITION" \in Errors
      BY DEF Errors
    <3> QED
      BY <2>1, <2>3, <3>1, RetryableSound DEF NotInState
  <2>4. CASE Goto(r, "getgoal")
    BY <1>3, <1>5, <2>1, <2>4 DEF PlanGetPlan, At
  <2> QED
    BY <1>5, <2>2, <2>3, <2>4 DEF PlanGetPlan
<1>6. CASE EnsureGoal(r)
  <2>1. CASE At(r, "plan", "getgoal") /\ UNCHANGED store
             /\ Goto(r, IF GetGoal THEN "createplan" ELSE "creategoal")
    BY <1>2, <1>3, <2>1 DEF At
  <2>2. CASE /\ At(r, "plan", "creategoal") /\ Goto(r, "createplan")
             /\ CreateGoal \/ (GetGoal /\ UNCHANGED rows)
             /\ UNCHANGED <<task, ops, node>>
    <3>1. StoreSound
      BY <2>2, RowAdded, StoreUnchanged DEF CreateGoal, store
    <3> QED
      BY <1>3, <2>2, <3>1 DEF At
  <2> QED
    BY <1>6, <2>1, <2>2 DEF EnsureGoal
<1>7. CASE PersistPlan(r)
  <2>1. StoreSound /\ node' = node /\ "plan" \in rows'
    BY <1>7, RowAdded, StoreUnchanged DEF PersistPlan, CreatePlan, GetPlan, GetGoal, store
  <2> QED
    BY <1>1, <1>7, <2>1, StepDone DEF PersistPlan
<1> QED
  BY <1>4, <1>5, <1>6, <1>7 DEF Plan

LEMMA RouteStep ==
  ASSUME Inv, NEW r \in Runs, Route(r)
  PROVE  Inv'
<1>1. run[r].kind = "route" /\ run[r] # Idle /\ run[r].pc \notin {"call", "complete", "verify"}
  <2>1. At(r, "route", run[r].pc) /\ run[r].pc \notin {"call", "complete", "verify"}
    <3>1. CASE RouteReplay(r) \/ RouteGetTask(r) \/ RouteResolve(r)
      BY <3>1 DEF RouteReplay, RouteGetTask, RouteResolve, At
    <3>2. CASE CommitRouteSelection(r) \/ CommitUnanswered(r)
      BY <3>2 DEF CommitRouteSelection, CommitUnanswered, At
    <3>3. CASE RoutePolicy(r)
      BY <3>3, Zenon DEF RoutePolicy, At
    <3> QED
      BY <3>1, <3>2, <3>3 DEF Route
  <2> QED
    BY <2>1 DEF At, Idle
<1>2. /\ "gettask" \in Pcs /\ "commit" \in Pcs /\ "resolve" \in Pcs
      /\ "TERMINAL_TASK" \in Errors /\ "INVALID_TASK_TRANSITION" \in Errors
      /\ "NO_PLAN" \in Errors /\ "ROUTE_SELECTION_INCONSISTENT" \in Errors
      /\ "ROUTE_POLICY_DENIED" \in Errors /\ "ROUTE_APPROVAL_REQUIRED" \in Errors
      /\ "COMMIT_REFUSED" \in Errors
  BY DEF Pcs, Errors
<1>3. ASSUME UNCHANGED store PROVE StoreSound /\ node' = node /\ rows' = rows
  BY <1>3, StoreUnchanged DEF store
<1>4. CASE RouteReplay(r)
  <2>1. StoreSound /\ node' = node /\ rows' = rows
    BY <1>3, <1>4 DEF RouteReplay
  <2>2. CASE ResolveRouteSelection /\ Ok(r, NoTask)
    BY <1>1, <2>1, <2>2, StepDone DEF ResolveRouteSelection
  <2>3. CASE Goto(r, "gettask")
    BY <1>1, <1>2, <2>1, <2>3, GotoSound
  <2> QED
    BY <1>4, <2>2, <2>3 DEF RouteReplay
<1>5. CASE RouteGetTask(r)
  <2>1. UNCHANGED store /\ StoreSound /\ node' = node
    BY <1>3, <1>5 DEF RouteGetTask
  <2>2. CASE NotInState(r, task.status)
    BY <1>2, <2>1, <2>2, RetryableSound DEF NotInState
  <2>3. CASE Fatal(r, "ROUTE_SELECTION_INCONSISTENT")
    BY <1>2, <2>1, <2>3, FatalSound
  <2>4. CASE /\ Unrouted(task) /\ UNCHANGED flow
             /\ run' = [run EXCEPT ![r].pc = "policy", ![r].seen = task]
    BY <1>1, <2>1, <2>4, ReadsTask, Zenon DEF Unrouted
  <2> QED
    BY <1>5, <2>2, <2>3, <2>4 DEF RouteGetTask
<1>6. CASE RoutePolicy(r)
  <2>1. StoreSound /\ node' = node /\ rows' = rows /\ StillUnrouted(run[r].seen)
    BY <1>1, <1>3, <1>6 DEF RoutePolicy, At, Inv, RunInv, RunOK
  <2>2. CASE Retryable(r, "NO_PLAN")
    BY <1>2, <2>1, <2>2, RetryableSound
  <2>3. CASE CurrentPlan /\ Goto(r, "commit")
    <3>1. "plan" \in rows
      BY <2>3 DEF CurrentPlan, ListPlansByTask
    <3> QED
      BY <1>1, <1>2, <2>1, <2>3, <3>1, GotoSound
  <2>4. CASE Fatal(r, "ROUTE_POLICY_DENIED") \/ Fatal(r, "ROUTE_APPROVAL_REQUIRED")
    BY <1>2, <2>1, <2>4, FatalSound
  <2>5. Policies \cup {BaselineRoutingPolicy(PlannedNode)} \subseteq {"ALLOW", "DENY", "REQUIRE_APPROVAL"}
    BY LifecycleConstants DEF BaselineRoutingPolicy
  <2> QED
    BY <1>6, <2>2, <2>3, <2>4, <2>5, Zenon DEF RoutePolicy
<1>7. ASSUME At(r, "route", "commit"), Selectable(run[r].seen), SelectRoute
      PROVE  StoreSound /\ node' = node /\ "selection" \in rows'
  <2>1. "plan" \in rows
    BY <1>7 DEF At, Inv, RunInv, RunOK
  <2> QED
    BY <1>7, <2>1, RouteSelected DEF Selectable, SelectRoute
<1>8. CASE CommitRouteSelection(r)
  <2>1. CASE ResolveRouteSelection /\ Ok(r, NoTask) /\ UNCHANGED store
    BY <1>1, <1>3, <2>1, StepDone DEF ResolveRouteSelection
  <2>2. CASE Selectable(run[r].seen) /\ SelectRoute /\ Ok(r, NoTask)
    BY <1>1, <1>7, <1>8, <2>2, StepDone DEF CommitRouteSelection
  <2>3. CASE Goto(r, "resolve") /\ UNCHANGED store
    BY <1>1, <1>2, <1>3, <2>3, GotoSound
  <2> QED
    BY <1>8, <2>1, <2>2, <2>3 DEF CommitRouteSelection
<1>9. CASE CommitUnanswered(r)
  <2>1. StoreSound /\ node' = node
    BY <1>3, <1>7, <1>9 DEF CommitUnanswered
  <2> QED
    BY <1>1, <1>2, <1>9, <2>1, GotoSound DEF CommitUnanswered
<1>10. CASE RouteResolve(r)
  <2>1. StoreSound /\ node' = node /\ rows' = rows
    BY <1>3, <1>10 DEF RouteResolve
  <2>2. CASE ResolveRouteSelection /\ Ok(r, NoTask)
    BY <1>1, <2>1, <2>2, StepDone DEF ResolveRouteSelection
  <2>3. CASE Retryable(r, "COMMIT_REFUSED")
    BY <1>2, <2>1, <2>3, RetryableSound
  <2> QED
    BY <1>10, <2>2, <2>3 DEF RouteResolve
<1> QED
  BY <1>4, <1>5, <1>6, <1>8, <1>9, <1>10 DEF Route

LEMMA ExecutePrepares ==
  ASSUME Inv, NEW r \in Runs,
         ExecuteGetTask(r) \/ ExecuteBinding(r) \/ EnsureExecution(r) \/ GetRuntime(r)
            \/ RegisterRuntime(r) \/ PrepareRetry(r) \/ ReloadRuntime(r)
  PROVE  Inv'
<1>1. run[r].kind = "execute" /\ run[r] # Idle /\ run[r].pc \notin {"call", "complete", "verify"}
  BY DEF ExecuteGetTask, ExecuteBinding, EnsureExecution, GetRuntime, RegisterRuntime,
         PrepareRetry, ReloadRuntime, At, Idle
<1>2. /\ {"binding", "getexecution", "createexecution", "getruntime", "register", "attempts",
          "requeue", "reload", "claim"} \subseteq Pcs
      /\ "TERMINAL_TASK" \in Errors /\ "INVALID_TASK_TRANSITION" \in Errors
      /\ "EXECUTION_BINDING_INCONSISTENT" \in Errors /\ "EXECUTION_RETRY_NOT_ALLOWED" \in Errors
      /\ "TRANSIENT" \in Errors
  BY DEF Pcs, Errors
<1>3. ASSUME UNCHANGED store PROVE StoreSound /\ node' = node /\ rows' = rows
  BY <1>3, StoreUnchanged DEF store
<1>4. /\ run[r].pc \notin {"begin", "binding"} => "selection" \in rows
      /\ run[r].pc \notin {"begin", "binding"} \cup Bound => "execution" \in rows
  BY <1>1 DEF Inv, RunInv, RunOK
<1>5. node \in NodeRows
  BY DEF Inv, StoreTypeOK
<1>6. CASE ExecuteGetTask(r)
  <2>1. StoreSound /\ node' = node
    BY <1>3, <1>6 DEF ExecuteGetTask
  <2>2. CASE NotInState(r, task.status)
    BY <1>2, <2>1, <2>2, RetryableSound DEF NotInState
  <2>3. CASE Goto(r, "binding")
    BY <1>1, <1>2, <2>1, <2>3, GotoSound
  <2> QED
    BY <1>6, <2>2, <2>3 DEF ExecuteGetTask
<1>7. CASE ExecuteBinding(r)
  <2>1. StoreSound /\ node' = node /\ rows' = rows
    BY <1>3, <1>7 DEF ExecuteBinding
  <2>2. CASE BindingValid /\ Goto(r, "getexecution")
    <3>1. "selection" \in rows
      BY <2>2 DEF BindingValid, ResolveRouteSelection
    <3> QED
      BY <1>1, <1>2, <2>1, <2>2, <3>1, GotoSound DEF Bound
  <2>3. CASE Fatal(r, "EXECUTION_BINDING_INCONSISTENT")
    BY <1>2, <2>1, <2>3, FatalSound
  <2> QED
    BY <1>7, <2>2, <2>3 DEF ExecuteBinding
<1>8. CASE EnsureExecution(r)
  <2>1. CASE At(r, "execute", "getexecution") /\ UNCHANGED store
             /\ Goto(r, IF GetExecution THEN "getruntime" ELSE "createexecution")
    <3>1. StoreSound /\ node' = node /\ rows' = rows /\ "selection" \in rows
      BY <1>3, <1>4, <2>1 DEF At
    <3> QED
      BY <1>1, <1>2, <2>1, <3>1, GotoSound DEF Bound, GetExecution
  <2>2. CASE /\ At(r, "execute", "createexecution") /\ Goto(r, "getruntime")
             /\ CreateExecution \/ (GetExecution /\ UNCHANGED rows)
             /\ UNCHANGED <<task, ops, node>>
    <3>1. "selection" \in rows
      BY <1>4, <2>2 DEF At
    <3>2. StoreSound /\ {"selection", "execution"} \subseteq rows'
      BY <2>2, <3>1, RowAdded, StoreUnchanged DEF CreateExecution, GetExecution, store
    <3> QED
      BY <1>1, <1>2, <2>2, <3>2, GotoSound
  <2> QED
    BY <1>8, <2>1, <2>2 DEF EnsureExecution
<1>9. ASSUME run[r].pc \notin {"begin", "binding"} \cup Bound, StoreSound, rows' = rows,
             node'.attempts = node.attempts,
             NEW pc \in {"getruntime", "register", "attempts", "requeue", "reload", "claim"},
             Goto(r, pc)
      PROVE  Inv'
  BY <1>1, <1>2, <1>4, <1>9, GotoSound
<1>10. CASE GetRuntime(r)
  <2>1. StoreSound /\ node' = node /\ rows' = rows /\ run[r].pc \notin {"begin", "binding"} \cup Bound
    BY <1>3, <1>10 DEF GetRuntime, At, Bound
  <2>2. CASE node.state = "SUCCEEDED" /\ Ok(r, NoTask)
    BY <1>1, <2>1, <2>2, StepDone
  <2>3. CASE node.state # "SUCCEEDED" /\ Goto(r, RuntimeStep(node.state))
    <3>1. RuntimeStep(node.state) \in {"register", "attempts", "claim"}
      BY <1>5, <2>3 DEF RuntimeStep, NodeRows
    <3> QED
      BY <1>9, <2>1, <2>3, <3>1
  <2> QED
    BY <1>10, <2>2, <2>3 DEF GetRuntime
<1>11. CASE RegisterRuntime(r)
  <2>1. run[r].pc \notin {"begin", "binding"} \cup Bound /\ UNCHANGED <<task, ops, rows>>
    BY <1>11 DEF RegisterRuntime, At, Bound
  <2>2. /\ node' \in NodeRows /\ node'.attempts = node.attempts
        /\ node.state = "SUCCEEDED" => node'.state = "SUCCEEDED"
    BY <1>5, <1>11 DEF RegisterRuntime, NodeRows
  <2>3. StoreSound
    BY <1>4, <2>1, <2>2, NodeMoves
  <2> QED
    BY <1>9, <1>11, <2>1, <2>2, <2>3 DEF RegisterRuntime
<1>12. CASE PrepareRetry(r)
  <2>1. run[r].pc \notin {"begin", "binding"} \cup Bound
    BY <1>12 DEF PrepareRetry, At, Bound
  <2>2. CASE UNCHANGED store /\ (Goto(r, "requeue") \/ Fatal(r, "EXECUTION_RETRY_NOT_ALLOWED"))
    BY <1>2, <1>3, <1>9, <2>1, <2>2, FatalSound
  <2>3. CASE /\ node.state = "FAILED" /\ node' = [node EXCEPT !.state = "READY"]
             /\ Goto(r, "reload") /\ UNCHANGED <<task, ops, rows>>
    <3>1. node' \in NodeRows /\ node'.attempts = node.attempts
      BY <1>5, <2>3 DEF NodeRows
    <3>2. StoreSound
      BY <1>4, <2>1, <2>3, <3>1, NodeMoves
    <3> QED
      BY <1>9, <2>1, <2>3, <3>1, <3>2
  <2>4. CASE Retryable(r, "TRANSIENT") /\ UNCHANGED <<task, ops, rows, node>>
    <3>1. StoreSound
      BY <1>3, <2>4 DEF store
    <3> QED
      BY <1>2, <2>4, <3>1, RetryableSound
  <2> QED
    BY <1>12, <2>2, <2>3, <2>4 DEF PrepareRetry
<1>13. CASE ReloadRuntime(r)
  <2>1. StoreSound /\ node' = node /\ rows' = rows /\ run[r].pc \notin {"begin", "binding"} \cup Bound
    BY <1>3, <1>13 DEF ReloadRuntime, At, Bound
  <2> QED
    BY <1>2, <1>9, <1>13, <2>1, RetryableSound DEF ReloadRuntime
<1> QED
  BY <1>6, <1>7, <1>8, <1>10, <1>11, <1>12, <1>13

LEMMA ClaimStep ==
  ASSUME Inv, NEW r \in Runs, Claim(r)
  PROVE  Inv'
<1>1. /\ run[r].kind = "execute" /\ run[r].pc = "claim" /\ run[r] # Idle
      /\ UNCHANGED <<task, ops, rows>>
  BY DEF Claim, At, Idle
<1>2. /\ node \in NodeRows /\ run \in [Runs -> RunRows] /\ run[r] \in RunRows
      /\ "selection" \in rows /\ "execution" \in rows
  BY <1>1 DEF Inv, StoreTypeOK, RunInv, RunOK, Bound
<1>3. CASE /\ node.state \in {"READY", "RUNNING"}
           /\ node' = [node EXCEPT !.state = "RUNNING", !.attempts = @ + 1, !.holder = r]
           /\ Goto(r, "call")
  <2>1. node.attempts \in Nat
    BY <1>2 DEF NodeRows
  <2>2. node' \in NodeRows /\ node'.attempts = node.attempts + 1
    <3>1. node.attempts + 1 \in Nat /\ r \in Runs \cup {"none", "gone"}
      BY <2>1
    <3> QED
      BY <1>2, <1>3, <3>1, Zenon DEF NodeRows
  <2>3. StoreSound
    BY <1>1, <1>2, <1>3, <2>2, NodeMoves
  <2>4. PICK x \in RunRows : x = [run[r] EXCEPT !.pc = "call"]
    BY <1>2, Zenon DEF RunRows, Pcs
  <2>5. /\ x.kind = "execute" /\ x.pc = "call" /\ UNCHANGED flow
        /\ run' = [run EXCEPT ![r] = x]
    BY <1>1, <1>2, <1>3, <2>4 DEF Goto, RunRows
  <2>6. RunOK(x)'
    BY <1>1, <1>2, <2>5 DEF RunOK
  <2>7. Total' = Total
    <3>1. Unclaimed(x) = 0 /\ Unclaimed(run[r]) = 1
      BY <1>1, <2>5 DEF Unclaimed
    <3>2. run'[r] = x /\ \A q \in Runs : q # r => run'[q] = run[q]
      BY <1>2, <2>5
    <3>3. /\ Unclaimed(run["live"]) \in {0, 1} /\ Unclaimed(run["orphan"]) \in {0, 1}
      BY Numbers
    <3>4. CASE r = "live"
      <4>1. Unclaimed(run["live"])' = 0 /\ Unclaimed(run["orphan"])' = Unclaimed(run["orphan"])
        BY <3>1, <3>2, <3>4 DEF Unclaimed, Runs
      <4> QED
        BY <2>1, <2>2, <3>1, <3>3, <3>4, <4>1 DEF Total
    <3>5. CASE r = "orphan"
      <4>1. Unclaimed(run["orphan"])' = 0 /\ Unclaimed(run["live"])' = Unclaimed(run["live"])
        BY <3>1, <3>2, <3>5 DEF Unclaimed, Runs
      <4> QED
        BY <2>1, <2>2, <3>1, <3>3, <3>5, <4>1 DEF Total
    <3> QED
      BY <3>4, <3>5 DEF Runs
  <2>8. ClaimSound
    BY <1>3, <2>7, Numbers DEF ClaimSound
  <2> QED
    BY <1>1, <2>3, <2>5, <2>6, <2>8, GoesOn, Zenon
<1>4. CASE Retryable(r, "NOT_CLAIMED") /\ UNCHANGED node
  <2>1. StoreSound
    BY <1>1, <1>4, StoreUnchanged DEF store
  <2>2. "NOT_CLAIMED" \in Errors
    BY DEF Errors
  <2> QED
    BY <1>4, <2>1, <2>2, RetryableSound
<1> QED
  BY <1>3, <1>4 DEF Claim

LEMMA InvokeStep ==
  ASSUME Inv, NEW r \in Runs, Invoke(r)
  PROVE  Inv'
<1>1. /\ run[r].kind = "execute" /\ run[r].pc = "call" /\ run[r] # Idle
      /\ UNCHANGED store /\ UNCHANGED flow
  BY DEF Invoke, At, Idle
<1>2. StoreSound /\ node' = node /\ rows' = rows
  BY <1>1, StoreUnchanged DEF store
<1>3. /\ run \in [Runs -> RunRows] /\ run[r] \in RunRows
      /\ "selection" \in rows /\ "execution" \in rows
  BY <1>1 DEF Inv, RunInv, RunOK, Bound
<1>4. PICK o \in Tos : run' = [run EXCEPT ![r].pc = "complete", ![r].to = o]
  BY DEF Invoke, Tos
<1>5. PICK x \in RunRows : x = [run[r] EXCEPT !.pc = "complete", !.to = o]
  BY <1>3, Zenon DEF RunRows, Pcs
<1>6. x.kind = "execute" /\ x.pc = "complete" /\ run' = [run EXCEPT ![r] = x]
  BY <1>1, <1>3, <1>4, <1>5, Zenon DEF RunRows
<1>7. RunOK(x)'
  BY <1>2, <1>3, <1>6 DEF RunOK
<1>8. Unclaimed(x) <= Unclaimed(run[r])
  BY <1>1, <1>6 DEF Unclaimed
<1>9. run'[r] = x /\ \A q \in Runs : q # r => run'[q] = run[q]
  BY <1>3, <1>6
<1>10. ClaimSound
  BY <1>2, <1>8, <1>9, ClaimQuiet
<1> QED
  BY <1>1, <1>2, <1>6, <1>7, <1>10, GoesOn, Zenon

LEMMA CompleteNodeStep ==
  ASSUME Inv, NEW r \in Runs, CompleteNode(r)
  PROVE  Inv'
<1>1. /\ run[r].kind = "execute" /\ run[r].pc = "complete"
      /\ UNCHANGED <<task, ops, rows>>
  BY DEF CompleteNode, At
<1>2. /\ node \in NodeRows /\ run[r] \in RunRows
      /\ "selection" \in rows /\ "execution" \in rows
  BY <1>1 DEF Inv, StoreTypeOK, RunInv, RunOK, Bound
<1>3. "LEASE_LOST" \in Errors /\ "EXECUTION_FAILED" \in Errors /\ "verify" \in Pcs
  BY DEF Errors, Pcs
<1>4. CASE Retryable(r, "LEASE_LOST") /\ UNCHANGED node
  <2>1. StoreSound
    BY <1>1, <1>4, StoreUnchanged DEF store
  <2> QED
    BY <1>3, <1>4, <2>1, RetryableSound
<1>5. CASE Goto(r, "verify") /\ node' = [node EXCEPT !.state = "SUCCEEDED", !.holder = "none"]
  <2>1. node' \in NodeRows /\ node'.attempts = node.attempts /\ node'.state = "SUCCEEDED"
    BY <1>2, <1>5, Zenon DEF NodeRows
  <2>2. StoreSound
    BY <1>1, <1>2, <2>1, NodeMoves
  <2> QED
    BY <1>1, <1>2, <1>3, <1>5, <2>1, <2>2, GotoSound
<1>6. CASE /\ Holds(r) /\ run[r].to # "ok" /\ Retryable(r, "EXECUTION_FAILED")
           /\ node' = [node EXCEPT !.state = "FAILED", !.class = run[r].to, !.holder = "none"]
  <2>1. /\ node'.attempts = node.attempts /\ node'.state = "FAILED"
        /\ node.state = "RUNNING"
    BY <1>2, <1>6 DEF NodeRows, Holds
  <2>2. node' \in NodeRows
    BY <1>2, <1>6, Zenon DEF NodeRows, RunRows
  <2>3. StoreSound
    BY <1>1, <1>2, <2>1, <2>2, NodeMoves
  <2> QED
    BY <1>3, <1>6, <2>1, <2>3, RetryableSound
<1> QED
  BY <1>4, <1>5, <1>6 DEF CompleteNode

LEMMA VerifyStep ==
  ASSUME Inv, NEW r \in Runs, Verify(r)
  PROVE  Inv'
<1>1. UNCHANGED store /\ run[r].kind = "execute" /\ run[r] # Idle
  BY DEF Verify, At, Idle
<1>2. StoreSound /\ node' = node
  BY <1>1, StoreUnchanged DEF store
<1>3. "TRANSIENT" \in Errors
  BY DEF Errors
<1>4. CASE node.state = "SUCCEEDED" /\ Ok(r, NoTask)
  BY <1>1, <1>2, <1>4, StepDone
<1>5. CASE Retryable(r, "TRANSIENT")
  BY <1>2, <1>3, <1>5, RetryableSound
<1> QED
  BY <1>4, <1>5 DEF Verify

LEMMA ExecuteStep ==
  ASSUME Inv, NEW r \in Runs, Execute(r)
  PROVE  Inv'
  BY ExecutePrepares, ClaimStep, InvokeStep, CompleteNodeStep, VerifyStep DEF Execute

LEMMA StartWorkflowStep ==
  ASSUME Inv, NEW starter, StartWorkflow(starter)
  PROVE  Inv'
<1>1. /\ wf.pc = "none" /\ wf \in WfRows /\ tries' = tries /\ run' = run
      /\ UNCHANGED store
  BY DEF StartWorkflow, Inv, FlowTypeOK
<1>2. StoreSound /\ node' = node /\ ops' = ops
  BY <1>1, StoreUnchanged DEF store
<1>3. /\ wf' \in WfRows /\ wf'.steps = wf.steps /\ wf'.pc \in {"load", "failed"}
  <2>1. CASE wf' = [wf EXCEPT !.pc = "load"]
    BY <1>1, <2>1 DEF WfRows, WfPcs
  <2>2. CASE wf' = [wf EXCEPT !.pc = "failed", !.err = "INVALID_TASK_WORKFLOW_INPUT"]
    BY <1>1, <2>2, Zenon DEF WfRows, WfPcs, Errors
  <2> QED
    BY <2>1, <2>2 DEF StartWorkflow, ExecuteWorkflow, Failed
<1>4. run["live"] = Idle
  BY <1>1 DEF Inv, LiveInv, Open
<1>5. FlowTypeOK' /\ FlowInv' /\ LiveInv'
  BY <1>1, <1>2, <1>3, <1>4 DEF Inv, FlowTypeOK, FlowInv, EvidenceIsTrue, LiveInv
<1>6. RunInv'
  <2>1. ASSUME NEW q \in Runs PROVE RunOK(run[q])'
    <3>1. run'[q] = run[q] /\ run[q] \in RunRows /\ RunOK(run[q])
      BY <1>1 DEF Inv, RunInv
    <3>2. \A z \in RunRows : RunOK(z) => RunOK(z)'
      BY <1>2, RunKept
    <3> QED
      BY <3>1, <3>2 DEF RunOK
  <2> QED
    BY <1>1, <2>1 DEF Inv, RunInv
<1>7. ClaimInv'
  <2>1. Budget = 0 /\ Total' = Total
    BY <1>1, <1>2 DEF Budget, AtExecute, Open, Total, Unclaimed
  <2>2. Budget <= Budget' /\ ClaimSound
    BY <1>2, <1>3, <2>1, Numbers, LifecycleConstants DEF ClaimSound, Budget, AtExecute, Open
  <2> QED
    BY <1>2, <1>5, <2>2, ClaimKept
<1> QED
  BY <1>2, <1>5, <1>6, <1>7 DEF Inv, StoreSound

LEMMA DispatchStep ==
  ASSUME Inv, Dispatch
  PROVE  Inv'
<1>1. /\ Open /\ Scheduled \in Handlers /\ run["live"] = Idle /\ tries < MaximumAttempts
      /\ UNCHANGED store /\ "live" \in Runs
  BY DEF Dispatch, MayDispatch, Runs
<1>2. StoreSound /\ node' = node /\ ops' = ops /\ task' = task /\ rows' = rows
  BY <1>1, StoreUnchanged DEF store
<1>3. CASE BackendDisabled /\ UNCHANGED run
  <2>1. "LIFECYCLE_BACKEND_DISABLED" \in Errors
    BY SMTT(30) DEF Errors
  <2>2. FlowTypeOK' /\ FlowInv' /\ Budget <= Budget'
    BY <1>2, <1>3, <2>1, Closes, Zenon DEF BackendDisabled, Failed
  <2>3. run' = [run EXCEPT !["live"] = Idle]
    BY <1>1, <1>3, SMTT(30) DEF Inv, RunInv
  <2> QED
    BY <1>2, <2>2, <2>3, EndsWith
<1>4. CASE /\ run' = [run EXCEPT !["live"] =
                         [kind |-> Scheduled, pc |-> "begin", seen |-> wf.snap,
                          to |-> IF wf.pc = "advance" THEN TargetOf(wf.snap.status) ELSE "none"]]
           /\ tries' = tries + 1
           /\ UNCHANGED wf
  <2>1. wf \in WfRows /\ wf.snap \in Seen
    BY DEF Inv, FlowTypeOK, WfRows
  <2>2. wf.pc = "advance" =>
            /\ TargetOf(wf.snap.status) \in Targets
            /\ Evidence(TargetOf(wf.snap.status))
    BY DEF Inv, FlowInv, TargetOf, Targets
  <2>3. (Scheduled = "transition" <=> wf.pc = "advance") /\ (Scheduled = "execute" <=> AtExecute)
    <3>1. wf.pc = "step" =>
              /\ StepOf(wf.snap.status) # "transition"
              /\ StepOf(wf.snap.status) = "execute" <=> wf.snap.status = "EXECUTING"
      BY DEF Inv, FlowInv, StepOf
    <3> QED
      BY <1>1, <3>1 DEF Scheduled, Open, AtExecute
  <2>4. PICK x \in RunRows :
            x = [kind |-> Scheduled, pc |-> "begin", seen |-> wf.snap,
                 to |-> IF wf.pc = "advance" THEN TargetOf(wf.snap.status) ELSE "none"]
    <3>1. PICK to \in Tos : to = IF wf.pc = "advance" THEN TargetOf(wf.snap.status) ELSE "none"
      BY <2>2 DEF Tos
    <3>2. "begin" \in Pcs
      BY DEF Pcs
    <3>3. [kind |-> Scheduled, pc |-> "begin", seen |-> wf.snap, to |-> to] \in RunRows
      BY <1>1, <2>1, <3>2 DEF RunRows
    <3> QED
      BY <3>1, <3>3
  <2>5. /\ x.kind = Scheduled /\ x.pc = "begin"
        /\ wf.pc = "advance" => x.to = TargetOf(wf.snap.status)
        /\ run' = [run EXCEPT !["live"] = x]
    BY <1>4, <2>4
  <2>6. RunOK(x)'
    <3>1. \A to : Evidence(to) => Evidence(to)'
      BY <1>2, EvidenceKept
    <3>2. x.kind = "transition" => x.to \in Targets /\ Evidence(x.to)'
      BY <2>2, <2>3, <2>5, <3>1
    <3> QED
      BY <2>5, <3>2 DEF RunOK
  <2>7. RunInv' /\ run'["live"] = x /\ \A q \in Runs : q # "live" => run'[q] = run[q]
    BY <1>1, <1>2, <2>5, <2>6, RunChanged, Zenon
  <2>8. FlowTypeOK' /\ FlowInv'
    <3>1. FlowInv'
      BY <1>2, <1>4, FlowKept
    <3>2. tries' \in 0 .. MaximumAttempts
      BY <1>1, <1>4, Numbers
    <3> QED
      BY <1>4, <2>1, <3>1, <3>2 DEF FlowTypeOK
  <2>9. LiveInv'
    BY <1>1, <1>4, <2>5, <2>7 DEF LiveInv, Open, Scheduled
  <2>10. ClaimInv'
    <3>1. /\ node.attempts \in Nat /\ tries \in Nat
          /\ Unclaimed(run["orphan"]) \in {0, 1} /\ Unclaimed(run["live"]) = 0
      BY <1>1, Numbers, IdleIsOK
    <3>2. /\ Unclaimed(run["live"])' = (IF AtExecute THEN 1 ELSE 0)
          /\ Unclaimed(run["orphan"])' = Unclaimed(run["orphan"])
      <4>1. run'["live"] = x /\ run'["orphan"] = run["orphan"]
        BY <2>7 DEF Runs
      <4>2. x.kind = "execute" <=> AtExecute
        BY <2>3, <2>5
      <4> HIDE DEF AtExecute
      <4> QED
        BY <2>5, <4>1, <4>2 DEF Unclaimed
    <3>3. CASE AtExecute
      <4>1. Budget = tries /\ Budget' = tries + 1
        BY <1>4, <3>3 DEF Budget, AtExecute
      <4>2. Total' = Total + 1
        BY <1>2, <3>1, <3>2, <3>3 DEF Total
      <4>3. Total \in Nat
        BY Numbers
      <4> QED
        BY <1>2, <3>1, <4>1, <4>2, <4>3 DEF Inv, ClaimInv
    <3>4. CASE ~AtExecute
      <4>1. Budget' = Budget
        BY <1>4, <3>4 DEF Budget, AtExecute, Open
      <4>2. Total' = Total
        BY <1>2, <3>1, <3>2, <3>4 DEF Total
      <4> QED
        BY <1>2, <4>1, <4>2 DEF Inv, ClaimInv
    <3> QED
      BY <3>3, <3>4
  <2> QED
    BY <1>2, <2>7, <2>8, <2>9, <2>10 DEF Inv, StoreSound
<1> QED
  BY <1>3, <1>4 DEF Dispatch

\* The live attempt becomes the orphan: nothing it relies on is lost.
LEMMA DetachSound ==
  ASSUME Inv, Detach, run["orphan"] = Idle, UNCHANGED <<task, ops, rows>>
  PROVE  StoreSound /\ RunInv' /\ LiveInv' /\ ClaimSound
<1>1. node \in NodeRows /\ run \in [Runs -> RunRows]
  BY DEF Inv, StoreTypeOK, RunInv
<1>2. node' \in NodeRows /\ node'.state = node.state /\ node'.attempts = node.attempts
  BY <1>1 DEF Detach, NodeRows, Runs
<1>3. node.state # "NONE" => "execution" \in rows
  BY DEF Inv, StoreInv, EvidenceBeforeTransition
<1>4. StoreSound
  BY <1>2, <1>3, NodeMoves
<1>5. /\ run' \in [Runs -> RunRows] /\ run'["live"] = Idle /\ run'["orphan"] = run["live"]
  BY <1>1, IdleIsOK DEF Detach, Runs
<1>6. RunInv'
  <2>1. RunOK(run["orphan"])'
    <3>1. run["live"] \in RunRows /\ RunOK(run["live"])
      BY DEF Inv, RunInv, Runs
    <3>2. \A z \in RunRows : RunOK(z) => RunOK(z)'
      BY <1>4, RunKept
    <3> QED
      BY <1>5, <3>1, <3>2 DEF RunOK
  <2>2. RunOK(run["live"])'
    BY <1>5 DEF RunOK, Idle
  <2> QED
    BY <1>5, <2>1, <2>2 DEF RunInv, Runs
<1>7. ClaimSound
  <2>1. Unclaimed(run["orphan"]) = 0 /\ Unclaimed(run["live"]) \in {0, 1} /\ node.attempts \in Nat
    BY IdleIsOK, Numbers
  <2>2. Unclaimed(run["live"])' = 0 /\ Unclaimed(run["orphan"])' = Unclaimed(run["live"])
    BY <1>5 DEF Unclaimed, Idle
  <2> QED
    BY <1>2, <2>1, <2>2 DEF ClaimSound, Total
<1>8. LiveInv'
  BY <1>5 DEF LiveInv
<1> QED
  BY <1>4, <1>6, <1>7, <1>8

LEMMA TimeOutStep ==
  ASSUME Inv, TimeOut
  PROVE  Inv'
<1>1. StoreSound /\ RunInv' /\ LiveInv' /\ ClaimSound
  BY DetachSound DEF TimeOut
<1>2. "TIMEOUT" \in Errors
  BY DEF Errors
<1>3. FlowTypeOK' /\ FlowInv' /\ Budget <= Budget'
  <2>1. CASE UNCHANGED flow
    <3>1. wf' = wf /\ tries' = tries
      BY <2>1 DEF flow
    <3>2. Budget' = Budget
      BY <3>1, SMTT(30) DEF Budget, AtExecute, Open
    <3> QED
      BY <1>1, <3>1, <3>2, FlowKept, Numbers DEF Inv, FlowTypeOK
  <2>2. CASE wf' = Failed("TIMEOUT") /\ tries' = 0
    BY <1>1, <1>2, <2>2, Closes, Zenon DEF Failed
  <2> QED
    BY <2>1, <2>2 DEF TimeOut
<1>4. ClaimInv'
  BY <1>1, <1>3, ClaimKept
<1> QED
  BY <1>1, <1>3, <1>4 DEF Inv, StoreSound

LEMMA StopStep ==
  ASSUME Inv, NEW r \in Runs, Stop(r)
  PROVE  Inv'
<1>1. node \in NodeRows /\ (node.state # "NONE" => "execution" \in rows)
  BY DEF Inv, StoreTypeOK, StoreInv, EvidenceBeforeTransition
<1>2. node' \in NodeRows /\ node'.state = node.state /\ node'.attempts = node.attempts
  BY <1>1 DEF Stop, NodeRows
<1>3. StoreSound
  BY <1>1, <1>2, NodeMoves DEF Stop
<1>4. "TRANSIENT" \in Errors
  BY DEF Errors
<1> QED
  BY <1>2, <1>3, <1>4, RetryableSound DEF Stop

LEMMA ScheduleToCloseStep ==
  ASSUME Inv, ScheduleToClose
  PROVE  Inv'
<1>1. UNCHANGED store /\ run["live"] = Idle /\ run' = run
  BY DEF ScheduleToClose
<1>2. StoreSound /\ node' = node
  BY <1>1, StoreUnchanged, SMTT(30) DEF store
<1>3. "TIMEOUT" \in Errors
  BY DEF Errors
<1>4. FlowTypeOK' /\ FlowInv' /\ Budget <= Budget'
  BY <1>2, <1>3, Closes, Zenon DEF ScheduleToClose, Failed
<1>5. run' = [run EXCEPT !["live"] = Idle]
  BY <1>1 DEF Inv, RunInv
<1> QED
  BY <1>2, <1>4, <1>5, EndsWith

LEMMA CancelStep ==
  ASSUME Inv, Cancel
  PROVE  Inv'
<1>1. StoreSound /\ RunInv' /\ LiveInv' /\ ClaimSound
  BY DetachSound DEF Cancel
<1>2. wf \in WfRows /\ wf.err \in Errors
  BY DEF Inv, FlowTypeOK, WfRows
<1>3. wf' = [wf EXCEPT !.pc = "cancelled", !.err = wf.err] /\ tries' = 0
  BY <1>2, Zenon DEF Cancel, WfRows
<1>4. FlowTypeOK' /\ FlowInv' /\ Budget <= Budget'
  BY <1>1, <1>2, <1>3, Closes, Zenon
<1>5. ClaimInv'
  BY <1>1, <1>4, ClaimKept
<1> QED
  BY <1>1, <1>4, <1>5 DEF Inv, StoreSound

LEMMA ApiCommandStep ==
  ASSUME Inv, ApiCommand
  PROVE  Inv'
<1>1. StoreSound /\ node' = node /\ run' = run /\ UNCHANGED flow
  BY ApiMovesTask DEF ApiCommand
<1>2. wf' = wf /\ tries' = tries
  BY <1>1 DEF flow
<1>3. FlowTypeOK' /\ FlowInv' /\ LiveInv'
  BY <1>1, <1>2, FlowKept DEF Inv, FlowTypeOK, LiveInv, Open, Scheduled
<1>4. RunInv'
  <2>1. ASSUME NEW q \in Runs PROVE RunOK(run[q])'
    <3>1. run'[q] = run[q] /\ run[q] \in RunRows /\ RunOK(run[q])
      BY <1>1 DEF Inv, RunInv
    <3>2. \A z \in RunRows : RunOK(z) => RunOK(z)'
      BY <1>1, RunKept
    <3> QED
      BY <3>1, <3>2 DEF RunOK
  <2> QED
    BY <1>1, <2>1 DEF Inv, RunInv
<1>5. ClaimInv'
  BY <1>1, <1>2 DEF Inv, ClaimInv, Total, Budget, AtExecute, Open, Unclaimed
<1> QED
  BY <1>1, <1>3, <1>4, <1>5 DEF Inv, StoreSound

LEMMA StutterStep ==
  ASSUME Inv, UNCHANGED vars
  PROVE  Inv'
<1>1. /\ task' = task /\ ops' = ops /\ rows' = rows /\ node' = node /\ run' = run
      /\ wf' = wf /\ tries' = tries
  BY DEF vars, store, flow
<1>2. StoreTypeOK' /\ StoreInv' /\ FlowTypeOK'
  BY <1>1, Zenon DEF Inv, StoreTypeOK, StoreInv, EvidenceBeforeTransition, FlowTypeOK
<1>3. RunInv'
  BY <1>1, Zenon DEF Inv, RunInv, RunOK, Evidence, StillUnrouted
<1>4. LiveInv' /\ ClaimInv'
  BY <1>1, Zenon DEF Inv, LiveInv, Open, Scheduled, ClaimInv, Total, Budget, AtExecute, Unclaimed
<1>5. FlowInv'
  BY <1>1, Zenon DEF Inv, FlowInv, Evidence, EvidenceIsTrue
<1> QED
  BY <1>2, <1>3, <1>4, <1>5 DEF Inv

LEMMA NextStep ==
  ASSUME Inv, [Next]_vars
  PROVE  Inv'
<1>1. CASE \E starter \in Starters : StartWorkflow(starter)
  BY <1>1, StartWorkflowStep
<1>2. CASE \E r \in {"live", "orphan"} : Attempt(r) \/ Stop(r)
  BY <1>2, LoadTaskStep, TransitionTaskStep, ValidateStubStep, PlanStep, RouteStep, ExecuteStep,
     StopStep DEF Attempt, Runs
<1> QED
  BY <1>1, <1>2, DispatchStep, TimeOutStep, ScheduleToCloseStep, CancelStep, ApiCommandStep,
     StutterStep DEF Next

-----------------------------------------------------------------------------
\* The invariant holds under any interleaving of the live attempt, the orphan, the
\* API commands and the failures.
THEOREM InvHolds == Spec => []Inv
  BY InitInv, NextStep, PTL DEF Spec

\* The lineage is whole and no transition of the workflow is ahead of its evidence:
\* TransitionTask commits ROUTING on a plan, EXECUTING on a frozen selection,
\* VALIDATING on a SUCCEEDED node and COMPLETED on VALIDATING, although an attempt
\* that timed out may commit it beside its own retry.
THEOREM EvidenceFirst == Spec => []EvidenceBeforeTransition
<1>1. Inv => EvidenceBeforeTransition
  BY DEF Inv, StoreInv
<1> QED
  BY <1>1, InvHolds, PTL

\* The steps a workflow reports are steps it committed, and the end it reports is the
\* end of the task: Advanced, Reloaded and Finished claim nothing that a lost answer or
\* a stale version left undone.
THEOREM ReportedEvidenceIsTrue == Spec => []EvidenceIsTrue
<1>1. Inv => EvidenceIsTrue
  BY DEF Inv, FlowInv
<1> QED
  BY <1>1, InvHolds, PTL

\* The node is claimed at most once by each attempt of the activity, so the claims stay
\* within the policy of the node wherever the retry policy of the activity allows no
\* more attempts than it does (three and three in the code).  Without that the check of
\* prepareRetry does not bound them: a claim after an expired lease passes it by.
THEOREM ClaimsWithinPolicy ==
    ASSUME MaximumAttempts <= NodeMaxAttempts
    PROVE  Spec => []AttemptsWithinPolicy
<1>1. Inv => AttemptsWithinPolicy
  BY LifecycleConstants DEF Inv, ClaimInv, StoreTypeOK, NodeRows, AttemptsWithinPolicy
<1> QED
  BY <1>1, InvHolds, PTL

LEMMA RouteKept ==
  ASSUME Inv, [Next]_vars, task.route # "none"
  PROVE  task'.route = task.route
<1>1. task \in TaskRows /\ task.status \in Statuses
  BY DEF Inv, StoreTypeOK, TaskRows
<1>2. \A to \in Statuses : Transition(task, to).route = task.route
  BY <1>1, TransitionRow
<1>3. CASE UNCHANGED task
  BY <1>3
<1>4. CASE ApiCommand
  <2>1. task.status \notin {"CREATED", "PLANNING"}
    BY DEF Inv, StoreInv
  <2>2. /\ Transition(task, "VALIDATING") \in TaskRows
        /\ Transition(task, "VALIDATING").route = task.route
    BY <1>1, TransitionRow DEF Statuses
  <2>3. Transition(Transition(task, "VALIDATING"), "COMPLETED").route = task.route
    BY <2>2, TransitionRow DEF Statuses
  <2>4. task' \in {Transition(task, "EXECUTING"), Transition(task, "FAILED"),
                   Transition(Transition(task, "VALIDATING"), "COMPLETED")}
    BY <1>1, <1>4, <2>1 DEF ApiCommand, ApiMoves, Statuses
  <2> QED
    BY <1>2, <2>3, <2>4 DEF Statuses
<1>5. ASSUME NEW r \in Runs, Attempt(r) PROVE task'.route = task.route
  <2>1. CASE TransitionTask(r)
    <3>1. run[r].to \in Statuses
      BY <2>1 DEF TransitionTask, At, Inv, RunInv, RunOK, Targets, Statuses
    <3>2. task' = task \/ task' = Transition(task, run[r].to)
      BY <2>1 DEF TransitionTask, store
    <3> QED
      BY <1>2, <3>1, <3>2
  <2>2. CASE ValidateStub(r)
    BY <1>2, <2>2 DEF ValidateStub, Statuses
  <2>3. ASSUME At(r, "route", "commit"), Selectable(run[r].seen) PROVE FALSE
    BY <2>3 DEF At, Selectable, Inv, RunInv, RunOK, StillUnrouted
  <2>4. CASE CommitRouteSelection(r) \/ CommitUnanswered(r)
    BY <2>3, <2>4 DEF CommitRouteSelection, CommitUnanswered, store
  <2>5. CASE LoadTask(r)
    BY <2>5 DEF LoadTask, store
  <2>6. CASE Plan(r)
    BY <2>6 DEF Plan, PlanGetTask, PlanGetPlan, EnsureGoal, PersistPlan, store
  <2>7. CASE RouteReplay(r) \/ RouteGetTask(r) \/ RouteResolve(r)
    BY <2>7 DEF RouteReplay, RouteGetTask, RouteResolve, store
  <2>8. CASE RoutePolicy(r)
    BY <2>8, Zenon DEF RoutePolicy, store
  <2>9. CASE Execute(r)
    <3>1. CASE ExecuteGetTask(r) \/ ExecuteBinding(r) \/ EnsureExecution(r) \/ GetRuntime(r)
      BY <3>1 DEF ExecuteGetTask, ExecuteBinding, EnsureExecution, GetRuntime, store
    <3>2. CASE RegisterRuntime(r) \/ PrepareRetry(r) \/ ReloadRuntime(r) \/ Claim(r)
      BY <3>2 DEF RegisterRuntime, PrepareRetry, ReloadRuntime, Claim, store
    <3>3. CASE Invoke(r) \/ CompleteNode(r) \/ Verify(r)
      BY <3>3 DEF Invoke, CompleteNode, Verify, store
    <3> QED
      BY <2>9, <3>1, <3>2, <3>3 DEF Execute
  <2> QED
    BY <1>5, <2>1, <2>2, <2>4, <2>5, <2>6, <2>7, <2>8, <2>9 DEF Attempt, Route
<1>6. CASE Next
  <2>1. CASE \E starter \in Starters : StartWorkflow(starter)
    BY <2>1 DEF StartWorkflow, store
  <2>2. CASE Dispatch \/ TimeOut \/ ScheduleToClose \/ Cancel
    BY <2>2 DEF Dispatch, TimeOut, ScheduleToClose, Cancel, store
  <2>3. CASE \E r \in Runs : Stop(r)
    BY <2>3 DEF Stop
  <2> QED
    BY <1>4, <1>5, <1>6, <2>1, <2>2, <2>3 DEF Next, Runs
<1> QED
  BY <1>3, <1>6 DEF vars, store

\* A task once routed keeps its decision: CommitRouteSelection compares the version it
\* read together with an empty decision, so neither an orphaned attempt nor a command
\* of the API writes a second one.
THEOREM RouteOnce == Spec => RouteIsFinal
<1>1. ASSUME Inv, [Next]_vars
      PROVE  [task.route # "none" => task'.route = task.route]_vars
  BY <1>1, RouteKept
<1> QED
  BY <1>1, InvHolds, PTL DEF Spec, RouteIsFinal
=============================================================================
