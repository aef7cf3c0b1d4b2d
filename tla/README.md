# TLA+ verification of aicloud

aicloud is an AI control plane: clients create tasks, a task is planned, routed to a model
deployment, executed and validated, tools run under policy and approval, and plan nodes are
executed by workers under durable leases and budgets. This directory models the parts of it
whose correctness depends on the order of steps of several actors, checks them with TLC and
proves the central ones with TLAPS. Paths below are relative to the repository.

## The system

| Part | Code | Modules |
|---|---|---|
| Execution node leases and attempts | `internal/repository/postgres_execution_node_leases.go`, `..._attempts.go`, `..._node_retry.go` | `NodeLease`, `NodeLeaseProofs` |
| What workers rely on | `AttemptExecutionCoordinator` in `execution/persistent_worker.go` | `ExecutionAuthority` |
| Execution budget | `execution/budget.go` | `BudgetLedger`, `AccountingProofs` |
| Execute activity and persistent worker | `internal/workflow/execution_activity.go`, `execution/persistent_worker.go` | `ExecutionWorker`, `ExecutionWorkerSteps`, `ExecutionWorkerProofs` |
| Outbox and dispatcher | `internal/repository/postgres_outbox.go`, `internal/outbox/dispatcher.go` | `Outbox`, `AtLeastOnce`, `ServicesProofs` |
| Task aggregate | `internal/domain/task_aggregate.go` | `TaskAggregate` |
| Task commands | `internal/controlplane/task_*commands.go`, `internal/repository/postgres_task_*.go`, `postgres_route_commands.go`, `postgres_model_execution_commands.go` | `TaskCommands`, `TaskCommandsProofs` |
| Lifecycle workflow, its activities and their stores | `internal/workflow/lifecycle.go`, `lifecycle_activities.go`, `temporal_engine.go`, `planning_activity.go`, `routing_activity.go`, `execution_activity.go`, `internal/repository/postgres_execution_lineage.go`, `postgres_route_selection.go` | `Lifecycle`, `LifecycleProofs` |
| Router, admission, price quotes | `internal/router`, `internal/admission` | `Routing`, `AccountingProofs` |
| Model runtime, circuit breaker, cost ledger | `internal/modelruntime`, `internal/circuitbreaker`, `internal/cost` | `ModelRuntime`, `ControlPlaneProofs` |
| Control plane without command store | `internal/controlplane/service.go`, `internal/repository/memory.go` | `ControlPlane`, `ControlPlaneProofs` |
| Pricing policies, route evidence, cost reconciliation | `internal/repository/postgres_pricing_policies.go`, `cost_event_pricing_reconcile.go`, `internal/router/deployment_plan.go` | `Pricing`, `AccountingProofs` |
| Tool gateway, approvals, credentials, sandbox plan | `internal/toolgateway`, `internal/approval`, `internal/credentials`, `internal/sandbox`, `internal/policy` | `ToolGateway`, `ServicesProofs` |
| Supervisor, plan validation, state tables | `execution/supervisor.go`, `plan.go`, `state.go`, `runner.go` | `Supervisor`, `AccountingProofs` |
| Evaluation | `internal/evaluation`, `internal/httpapi/evidence_handlers.go` | `Evaluation` |
| Authentication, authorization, task scope | `internal/authn`, `internal/identity`, `internal/authorization`, `internal/tenantrepo`, `internal/httpapi/access*.go` | `Access`, `ServicesProofs` |

How they interact: a request is authenticated and scoped (`Access`). A create command commits a
task, its first event and a `workflow.start` message in one transaction (`TaskCommands`). A
dispatcher delivers the message at least once (`Outbox`) and Temporal starts the lifecycle
workflow (`Lifecycle`), which runs the planning, routing and execution activities. The execution
activity registers the plan node, claims it (`NodeLease`), reserves budget (`BudgetLedger`),
calls the target, settles and completes (`ExecutionWorker` composes the three). Beside the
workflow, the route and model commands of the API move the same task: through the command kernel
with PostgreSQL (`TaskCommands`), on copies with optimistic versions in memory
(`ControlPlane`, which composes `Routing`, `ModelRuntime` and `TaskAggregate`). Routing by
deployment quotes under versioned pricing policies and bills against the evidence captured with
the decision (`Pricing` over `Routing`). The tool gateway, the in-memory supervisor (over
`BudgetLedger`) and evaluation stand apart.

Proofs are in modules of their own, named after what they are about. The outbox, the access to the
API and the tool gateway, which share no state, have theirs in `ServicesProofs`; the budget, the
supervisor over it and the prices, which need sums and rankings, in `AccountingProofs`. The
invariant of the model runtime is in `ControlPlaneProofs`, which composes it with the rest.

`PROJECT.json` lists every component, hazards with the line they bite at, and the source lines
of each definition.

## Modules

### NodeLease and ExecutionAuthority

State: `node[n]` is the `execution_node_runtime` row, `attempts[n]` the
`execution_attempts` rows in claim order, `clock` is PostgreSQL's `clock_timestamp()`.

| Action | Code |
|---|---|
| `Register` | `Register` |
| `ClaimReady`, `ClaimExpired` | `Claim` of a READY row, and of a RUNNING row whose lease expired (with `abandonAttemptTx` and `insertPendingAttemptTx`) |
| `Renew`, `MarkEffectStarted`, `MarkEffectCommitted`, `ReleaseBeforeEffect`, `Complete`, `StartAttempt`, `RequeueFailed` | the methods of the same name |
| `Tick` | time passes |

Every method is one transaction that reads the clock *before* it waits for the row lock. The
model keeps this: a transaction decides with an instant `now` up to `LockWait` older than
`clock`. A reading is never older than the claim of the lease that is presented, since the
holder received the lease before it called (`HolderNow`). The specification is the most general
client: any lease ever issued may be presented at any time. Random tokens are represented by
the fence of their claim, a value not issued before for the node. `heartbeat_at`, error classes,
usage and the target binding are not told apart by any property; `started` stands for the
binding that `StartAttempt` writes.

`ExecutionAuthority` is the abstract specification: a log of grants per node, of which at most
the last is open. `ImplementsAuthority` reads it off the attempt rows.

### BudgetLedger

`reserved`, `consumed` and `reservations` are the fields of `BudgetLedger`; each method runs
under its mutex and is one action. The flag `Closed` is split by the call that set it, and
`overrun` is a history variable: what settlements used beyond their estimates. `Cost`
is a `float64` in the code and a natural number here, so rounding is not covered.

### ExecutionWorker

Composes `NodeLease` and `BudgetLedger`. `pc[r]` is the next call of activity run `r`; each
action is one call: `GetRuntime`, `Register`, `PrepareRetry`, `Requeue`, `ReloadRequeued` are
`DurableExecutionActivity.Execute` and its helpers, `Claim` to `CompleteFailed` are
`PersistentWorker.Execute`, `finishReadOnly` and `finishMutation`, and `Verify` is the
last read. `Transaction` gives each database call its three outcomes: committed and
answered, committed with the answer lost, failed. `Crash` stops a run anywhere; a failed read
or a cancelled context stop it in the same way. `Start` stands for the reads and validations
before the runtime row is touched. The target answers anything (`Invoke`). The ledger is the
shared coordinator that `BudgetCoordinator` asks for ("production must use shared durable
state", `execution/budget.go:167`), so it survives the crash of a run. Nobody
renews: no caller of `Renew` exists outside tests.

### Outbox and AtLeastOnce

`row[m]` is the `outbox_messages` row, `batch[d]` what dispatcher `d` still holds of its
leased messages, `answer[d]` what the adapter said. `Lease`, `Deliver`, `MarkDelivered`,
`RetryDelivery` and `RejectUnrouted` are the steps of `DispatchOnce`. Dispatchers
compare with their own clocks, so time is the flag `due`: a backoff elapses or a lease expires
at any moment (`BecomeDue`, and `Overtake` while the holder is still at work).
Every dispatcher process has its own owner name; two processes configured with one name are
outside the model, because the guard compares nothing else. `AtLeastOnce` is the promise.

### TaskAggregate and TaskCommands

`TaskAggregate` has the states of a task and `CanTransition`; every writer of tasks uses it
(`TaskCommands`, `ControlPlane`, `Lifecycle`). In `TaskCommands`, `task`, `events`, `outbox` and
`idem` are the four tables; `pc`, `cmd`, `seen` and `outcome` are what a request holds between
its steps; `calls` and `answers` are history. `CreateTask`, `CommitPlanning`
(`CommitTransition`), `CommitRoute` (`CommitRouteTransition`), `BeginModelExecution`,
`FinalizeModelExecution` and `MarkModelExecutionRetryable` are the transactions; `Lookup`,
`Load`, `Reload` and `Relookup` the reads between which they happen; `CallProvider` the model
runtime, whose outcome (success, retryable, final) is taken as given. `Abandon` stops a request
anywhere. Payloads, actors, traces, tenant scope and cost columns are left out.

### Lifecycle

One task under `TaskLifecycleWorkflow`. `task`, `ops` (the operation keys of
`TransitionTask`), `rows` (goal, plan, route selection, execution) and `node` are what is
persisted; `wf` is the workflow, `tries` the attempts dispatched for the activity it waits for,
`run` the activity attempts in flight. `Loaded`, `Stepped`, `Advanced`, `Reloaded` and
`Finished` are the workflow code between two activities; `LoadTask`, `TransitionTask`, `Plan`,
`Route`, `Execute` and `ValidateStub` the activities, one action per transaction.
`Dispatch`, `TimeOut`, `ScheduleToClose`, `Cancel` and `StartWorkflow` are Temporal, which is
outside the repository. An attempt that Temporal gave up goes on running as
`run["orphan"]` beside its retry; one orphan at a time. `Stop` ends an attempt between any two
transactions, and a transaction followed by it is a lost answer. `ApiCommand` stands
for commands that route, execute or cancel the same task. The leases of the one plan node are
reduced to holder and takeover; `ExecutionWorker` has them in full.

### Routing

Pure operators: eligibility of models and deployments (`Evaluate` and the deployment filter),
estimated cost, score, ranking and fallback chain, admission evidence, resolution of a
pricing policy and its quote. Costs are integers, scores thousandths of a point. `Rankings` has
the sorted slice of `Decide`: the sequence of the candidates in which each is `Better` than the next
ones. Candidates of one request differ in their place in the catalogue, so there is exactly one.
`Resolve` is the first policy of an `ORDER BY`; between rows that are equal in its columns the
choice is left open, as PostgreSQL leaves it.

### ModelRuntime and ControlPlane

`ModelRuntime` is `Executor.Execute` over the fallback chain. `breaker` is the circuit store:
`Allow` and `Failure` are two steps each (the store locks `Get` and `Put` separately), so
updates are lost as in the code. `costs` are the cost events, appended one by one;
`storeFaults` are appends that failed. `ControlPlane` adds the task, the decisions and the
catalogue: routers and executors are HTTP requests that work on copies (`copy`) and save them
with the version they read. Administrators change model rows and append admission evidence
between any two steps. `fit` is history: the models that their row allowed at some moment of a
routing request, with the mode they had then, and the modes for which their evidence stood.

### Pricing

A planner takes the time, lists deployments, quotes one after the other and commits; the trigger
of migration 016 captures the policies as evidence; `AppendCostEvent` prices usage
from that evidence. Policies with any effective date are added between any two steps, operators
update deployments, and `UpsertDeployment` is the configured row a restarting server writes.
`Unevidenced` planners are decisions from before the trigger.

### ToolGateway

One action per call on a store: policy, approval, sandbox plan, credential lease, sandbox run
with its audit event, revocation. Approvals are put, revoked and expire meanwhile. Tool registry
and policy rules are constants, as they are fixed at start-up.

### Supervisor

`ValidatePlan` with the depth-first `hasCycle` (a recursive function over the list still to visit
and the marks), the transition tables of `state.go`,
`SelectRunnable` node by node over `BudgetLedger`, and `AttemptRunner`. The caller is not in the
package; the model's caller starts what it is handed, applies results between two
selections, hands nodes back and retries failed ones.

### Evaluation

`POST /tasks/{id}/evaluations`: digest, gate, append, trace. Digests are taken as injective.

### Access

The bearer-token verifier with its cache of signing keys, the principal, roles and scopes, the
task scope guard and the scoped repository. `KeyFor`, `FetchJSON`, `Refresh` and `KeyForAgain`
are the parts of `keyFor` between its locks. `Admit` takes claims, authorization and
scope as one step: they read nothing that changes. Assumed: signatures are sound,
the issuer never publishes a withdrawn key again, and a fetch takes no longer than the
lifetime of a key set (`FetchTime <= TTL`; the HTTP client gives up after 5 s, the default lifetime is
300 s).

## Runs

| Run | Bounds |
|---|---|
| `node_lease` | 1 node, 2 workers (symmetric), lease 2, lock wait 1, clock to 5, 3 attempts |
| `node_lease_renew` | the same, 2 attempts (violation) |
| `execution_worker` | 1 node of any effect class, 3 runs of 2 workers, 3 attempts, lease 1, no lock wait (`node_lease` covers it), clock to 3, 2 attempts of budget |
| `execution_worker_retry` | the same with 2 runs, no budget limit and `MaxAttempts` 1 (violation) |
| `outbox` | a routed and an unrouted message, 2 dispatchers, batches of 2, 2 deliveries, 2 faults |
| `outbox_retry` | the same (violation) |
| `task_commands` | 1 task, a key with two bodies and a key with one, 2 concurrent requests (symmetric) repeated without limit, 2 decisions, 2 provider calls per command |
| `lifecycle` | 1 task, both starters, durable and disabled backend, any routing policy decision, 3 attempts per activity and per node, 3 faults, 2 outside commands; 207,283 states |
| `lifecycle_start` | the same, started by the engine (violation) |
| `control_plane` | 3 models (2 with a provider), breaker threshold 2, 1 fault of the cost store; either two routers, an executor and a catalogue change, or one router and three executors (symmetric); 1,204,387 states. A change makes a model unhealthy, gives it a mode its evidence does not cover, revokes it or approves it for that mode |
| `services` | `ToolGateway`, `Pricing`, `Supervisor` and `Access` share no state and are explored side by side, one of them per initial state; 2,356,806 states. 6 tool calls of different kinds, 1 approval, 2 writes of 4 kinds of grant, 1 fault; 2 planners, 2 deployments, 2 updates among 3 more policies and operators' changes, clock to 2; 3 nodes with every set of at most two dependencies, a repeated and an unknown one, cost limit 3, 4 selections, 1 retry; 2 requests at a time, 4 tokens, 2 keys, lifetime, fetch time and skew 1, clock to 4, PostgreSQL with OIDC and memory with trusted ingress |
| `evaluation_repeat` | 5 reports, two of them alike (violation) |

Why the bounds are enough to reach the interesting cases: rows of different nodes, messages
and tasks do not interact in the code except through the budget and the batch, so one node (two
messages, one task) carries the races. Two workers with three attempts cover a stale holder,
its successor and a third claim; a lock wait of 1 with leases of 2 lets a stale reading cross an
expiry and not only touch it. Three activity runs are needed for a run that returns
from a requeue while two others hold older attempts. A request slot of `task_commands` is used
again, so two slots let two commands race while a finished one is repeated. In `lifecycle` three
faults suffice for an orphan, the stop of its retry and the stop of the orphan. A breaker
opens after two failures, so three executors are needed for a lost update that matters. Two
requests are enough for a key set that is fetched first and stored last, and the clock runs past
lifetime plus fetch time. Clocks, attempts, faults, outside commands and provider calls are
capped in the guards. The caps and the finite histories make the models stop, so deadlock
checking is off; the system itself may stop as well, when no request, message or node is left.

What they check:

- `node_lease`: numbering and both schema contracts (`RecordContract`), exclusive authority and
  agreement of the two tables (`SingleLiveAttempt`), a terminal row has the outcome of its newest
  attempt (`TerminalMatchesAttempt`), effects are not repeated (`OneEffect`), stale workers
  change nothing (`StaleWorkersInert`), no takeover before the expiry (`NoEarlyTakeover`),
  the refinement (`ImplementsAuthority`).
- `execution_worker`: a node that is not retry-safe is called at most once
  (`UnsafeNodeCalledOnce`), calls are recorded before they are made (`CallsAreRecorded`), the
  attempt budget bounds the calls of all runs (`CallsWithinBudget`), budget leaks only
  when a run stops (`OnlyCrashesLeakBudget`), and what success means (`SuccessWasReported`,
  `ReportedSuccessHolds`).
- `outbox`: dead letters only after enough deliveries (`GivenUpOnlyWhenExhausted`), a row is
  closed under its newest lease although it carries no fence (`ClosedByNewestLease`), every
  message settles (`EveryMessageSettles`), the refinement (`ImplementsAtLeastOnce`).
- `task_commands`: events explain the projection (`EventsExplainTask`), creation
  (`CreatedOnce`), stored answers are what happened to the task (`RouteIsTheAnswered`,
  `ResultIsTheAnswered`), provider calls (`CalledAgainOnlyAfterRetryable`), replay and
  conflict (`OneAnswerPerKey`), what is written stays (`HistoryIsKept`).
- `lifecycle`: transitions follow persisted evidence (`EvidenceBeforeTransition`), the result
  claims only what this workflow committed (`EvidenceIsTrue`), the node stays within its attempts
  (`AttemptsWithinPolicy`), a route is final (`RouteIsFinal`), a started workflow closes
  (`WorkflowCloses`). `prepareRetry` does not count takeovers, as `execution_worker_retry`
  shows; within one workflow the limit holds nevertheless, because an activity attempt claims at
  most once and Temporal gives the activity no more attempts than the plan gives the node.
- `control_plane`: a provider is called for the route the task references
  (`ExecutedRouteIsReferenced`), the outcome kept is one execution's and paid for
  (`OutcomeIsPaid`), candidates were routable during the request (`RoutedWasRoutable`), a
  circuit opens on failures only, lost updates included (`OpenedByFailures`). Admission is checked
  for the mode that was listed, so `RoutedWasRoutable` asks for evidence that covers the mode of the
  row that allowed the model, not the mode it has when the decision is stored.
- `services`: every tool run is allowed, audited and its lease revoked (`ToolRunIsAccounted`);
  usage is priced by the policy captured with the decision (`PricedByRoute`); the
  counters of the budget are sums and overspending is overrun (`CountersAreSums`,
  `OverspendIsOverrun`); a validated plan does not wait for itself (`AcceptedPlanNeverStuck`);
  an open reservation is in somebody's hands (`OpenIsOwned`); whoever is answered was
  verified under a current key and sees their project (`AnsweredUnderCurrentKey`).

### Disagreements found

Five runs end in a violation of what a comment or a document says:

1. `Renew` revives an expired lease when it waited for the row lock past the expiry
   (comment at `postgres_execution_node_leases.go:167`). Authority stays exclusive
   nevertheless: the other properties of `node_lease` hold with it.
2. `RetryPolicy.MaxAttempts` does not bound attempts that end by lease expiry
   (`docs/architecture/workflow-source-of-truth.md:97`). The budget of the execution does.
3. The dispatcher's maximum does not bound deliveries whose lease expires
   (`docs/architecture/task-event-contract.md:159`).
4. A workflow started by `TemporalEngine.Start` gets a payload without `schemaVersion` and fails
   its own validation at once (`temporal_engine.go:103`, `lifecycle.go:40`;
   `docs/implementation/s3c-task-lifecycle-workflow.md:80`).
5. The identifier of an evaluation run is a part of its configuration digest, so a repeated run is
   refused (`evaluation.go:136`; `docs/operations/trace-evaluation-fallback-admission.md:70`).

Met while modelling, kept in the models, without a run of their own:

- A task that became terminal through the API makes the planning, routing and execution
  activities fail and be retried, while `s3c-task-lifecycle-workflow.md:223` and `:331` describe a
  short-circuit (`planning_activity.go:120`, `routing_activity.go:141`,
  `execution_activity.go:74`). The workflow still closes.
- The policy that the trigger captures is resolved again at commit. When a policy with a past
  date is added between quote and commit, the quoted total and the captured policy differ
  (`docs/implementation/api-data-contracts.md:192`). Billing follows the captured one.
- A known and fresh key is not fetched again when a signature does not verify
  (`jwks.go:63`; `docs/implementation/r7-oidc-jwt-verifier.md:103`).

## Fairness

`outbox`: `FairSpec` assumes weak fairness of each dispatcher's steps and of time. The
repository has no loop that calls `DispatchOnce` outside tests, so the first is an assumption on
the deployment: a process keeps calling it. Within a call the loop goes on to the next message
after every error, which is what weak fairness of its steps says. Crashes, failed
transactions and overtaken leases are not fair and finitely many (`MaxFaults`): if every batch
outlives its lease, the code settles nothing.

`lifecycle`: weak fairness of `Dispatch` (Temporal dispatches what is scheduled and retries
within the policy) and of the live attempt (a worker that took an activity runs its code).
Nothing is assumed of orphans, of faults or of outside commands; the last two are finitely many. The
start is not fair either: `WorkflowCloses` is about a workflow that was started.

## Proofs

`NodeLeaseProofs` proves, for any sets of nodes and workers and any `LeaseDuration > 0`,
`LockWait`, `MaxClock` and `MaxAttempts` (the assumption `LeaseConstants`):

| Theorem | Statement |
|---|---|
| `TypeCorrect` | `Spec => []TypeOK` |
| `ExclusiveAuthority` | `Spec => []SingleLiveAttempt` |
| `SchemaContracts` | `Spec => []RecordContract`: migrations 017 and 018 |
| `TerminalRowsAgree` | `Spec => []TerminalMatchesAttempt` |
| `EffectsNotRepeated` | `OneEffect`, and `ReadyIsClaimable`, `OutcomeIsFinal` |
| `StaleWorkersAreInert` | `Spec => StaleWorkersInert` |
| `TakeoverOnlyAfterExpiry` | `Spec => NoEarlyTakeover` |
| `RefinesAuthority` | `Spec => ImplementsAuthority` |

The inductive invariant `IInv` is `TypeOK` and, for each node, the conjunction `RowInv` of the
predicates above over its row and its attempts. None of them is inductive alone: that a
reclaim does not repeat a committed effect needs that the row's effect columns are those of
the newest attempt (`SingleLiveAttempt`), which needs the numbering (in `RecordContract`); that a
claim of a READY row repeats nothing needs `ReadyIsClaimable`, which records what release and
requeue leave behind; that nothing follows a final outcome needs `OutcomeIsFinal`. The proof
has one lemma per operation on a single row and its attempts, and one lemma that lifts a step of
one node to all. The action properties and the refinement follow from `IInv` and a
classification of how a step changes the attempts (`HistoryStep`).

`ServicesProofs` proves of the outbox, for any messages, any dispatchers with different owner names, batch size, delivery limit and number of faults (the assumption `OutboxConstants`):

| Theorem | Statement |
|---|---|
| `GivenUpAfterEnough` | `Spec => []GivenUpOnlyWhenExhausted` |
| `NewestLeaseCloses` | `Spec => ClosedByNewestLease` |
| `DeliversAtLeastOnce` | `Spec => ImplementsAtLeastOnce` |

The row carries no fence, so the argument is about what dispatchers remember: the invariant
`OInv` says that when a row still names `d` as its owner, what `d` holds of the row in its batch
is the row's newest lease (`ItemInv`), and that an adapter's acknowledgement in `answer[d]` was
a delivery of the current message (`AnswerInv`). A dispatcher leases a new batch only when
the old one is empty, which keeps the first; without it the owner name alone would not do.

`ExecutionWorkerProofs` proves, for any nodes, runs, workers and effect specifications, any limits
and any durations (the assumption `WorkerConstants`; the ledger has a dimension `NodeAttempts`):

| Theorem | Statement |
|---|---|
| `UnsafeCalledOnce` | `Spec => []UnsafeNodeCalledOnce` |
| `CallsRecorded` | `Spec => []CallsAreRecorded` |
| `BudgetBoundsCalls` | `Spec => []CallsWithinBudget` |
| `LeaksOnlyByCrash` | `Spec => []OnlyCrashesLeakBudget` |
| `SuccessReported` | `Spec => []SuccessWasReported` |
| `ReportedSuccessStays` | `Spec => []ReportedSuccessHolds` |

Every lease call of a run is a step of `NodeLease`, so the lease rows keep `IInv` of
`NodeLeaseProofs`, which is instantiated and not proved again. What has to be added (`Inv`) is about
the runs: `RunOK` ties the program counter of a run to the attempt it holds, to what is recorded of
that attempt and to its reservation; `OneHolder` says that no two runs were answered the same
lease, without which the attempt of one run could be completed by another; `NodesInv` ties a
SUCCEEDED node to the run whose call succeeded; and `LedgerInv` says that the counters of
`NodeAttempts` add up to the number of reservations that are open or settled. The last is what
bounds the calls: a call has a reservation that is never given back, and different calls have
different ones. `ExecutionWorkerSteps` has the invariant and the steps that leave the ledger alone.

`TaskCommandsProofs` proves, for any tasks, keys, digests, decisions and requests (the assumption
`TaskConstants`):

| Theorem | Statement |
|---|---|
| `EventsExplained` | `Spec => []EventsExplainTask` |
| `TaskCreatedOnce` | `Spec => []CreatedOnce` |
| `RouteAnswered` | `Spec => []RouteIsTheAnswered` |
| `ResultAnswered` | `Spec => []ResultIsTheAnswered` |
| `CalledAgainAfterRetryable` | `Spec => []CalledAgainOnlyAfterRetryable` |
| `OneAnswer` | `Spec => []OneAnswerPerKey` |
| `HistoryKept` | `Spec => HistoryIsKept` |

The stored tables alone are not enough, because a transaction trusts what its request read before.
`RequestInv` says what that is worth: the snapshot of a request is the row of some earlier version,
and it is the present row if the version has not moved, which is all that the version comparison in
the transaction needs. `CallInv` says which request may call the provider: the one that holds the
key (`HeldBy`), and there is only one (`OneCaller`). `AnswerInv` compares every answer ever given
with the record that is stored. `HistoryKept` follows from the invariant and a classification of
the writes of each step.

`LifecycleProofs` proves, for any retry policy, routing policies, numbers of faults and outside
commands (the assumption `LifecycleConstants`):

| Theorem | Statement |
|---|---|
| `EvidenceFirst` | `Spec => []EvidenceBeforeTransition` |
| `ReportedEvidenceIsTrue` | `Spec => []EvidenceIsTrue` |
| `ClaimsWithinPolicy` | `MaximumAttempts <= NodeMaxAttempts` implies `Spec => []AttemptsWithinPolicy` |
| `RouteOnce` | `Spec => RouteIsFinal` |

What makes an orphaned attempt harmless is that nothing an attempt has seen is taken back: rows are
only added, operation keys only filled in, a SUCCEEDED node and a terminal task stay so, and every
write raises the version. So the evidence that an attempt holds (`RunOK`) and that the workflow acts
on (`FlowInv`) survives whatever runs beside it. `ClaimsWithinPolicy` counts the claims that were
made and those that attempts in flight may still make. Its hypothesis is needed: it is the
relation of two numbers of the code, three attempts of the activity and three of the node, and
without it takeovers, which `prepareRetry` does not count, would exceed the policy.

`ServicesProofs` proves of `Access` `KeysAreCurrent`, `AccessSpec => []AnsweredUnderCurrentKey`, for
any number of requests, keys and tasks, any lifetime, and any fetch time up to it (the assumption
`AccessConstants`). The invariant `AInv` dates every set of keys: a member was published at that
instant or later (`Since`). A fetched set is as old as its fetch, a cached one is at most one fetch
older than its storing, and a request that looks again does so within `FetchTime` of its own fetch,
after which the cache cannot hold a set older than lifetime plus fetch time. A withdrawal is dated
now, so it keeps every date.

It proves of `ToolGateway` `ToolRunsAreAccounted`, `ToolInit /\ [][ToolNext]_toolVars =>
[]ToolRunIsAccounted`, for any calls, tools, rules, approvals and grants (the assumption
`ToolConstants`: the fields of a call and of a grant are strings). The invariant `CallOK` says what
each step of a call still has to show for the ones before it: that policy allowed it and
that it was covered is remembered beyond the life of the approval, a lease is live exactly between
issue and revocation, and there is no audit event before the sandbox ran. An event is appended at
the end of a log that all calls share, so that the events of the others stay theirs is a lemma
about that log.

`AccountingProofs` proves:

| Theorem | Statement |
|---|---|
| `LedgerCountersAreSums` | `BudgetSpec => []CountersAreSums` |
| `LedgerOverspendIsOverrun` | `BudgetSpec => []OverspendIsOverrun` |
| `ReservationsAreOwned` | `SupervisorSpec => []OpenIsOwned` |
| `RoutesArePriced` | `PricingInit /\ [][PricingNext]_pricingVars => []PricedByRoute` |

The first two are about `BudgetSpec`: callers that reserve, settle and release in any order and with
any amounts, which are the steps that the worker, the supervisor and the model's own runs take. The
ledger holds for any reservations and limits (`BudgetConstants`). The counters are folds
over sets, so the argument is about sums: `Total` over a finite set changes by one summand when an
element comes or goes, by induction on the number of elements (`SetInduction`), and the library's
`MapThenSumSet` is that sum. `BudgetInv` adds that only finitely many reservations are open or
settled, as each step touches one.

`ReservationsAreOwned` holds for any plan, estimates and costs (the assumption
`SupervisorConstants`: the nodes have reservations to be named after, and estimates are not
negative). Every step of the supervisor and its caller is a step of the ledger or leaves it alone, so
`BudgetInv` holds of it too. `SupervisorInv` adds that a reservation follows its node from the
selection to the call (`Owned`) and, for the second half of the property, that as long as
nothing was retried a node that is PENDING or READY and not held has an unused name and a selection
has still to reserve only such nodes (`SelectionOK`); so a selection can fail after it has
reserved only when some node is tried again.

`RoutesArePriced` holds for any planners, deployments, prices, requests and administrators (the
assumption `PricingConstants`: prices, limits and dates are integers, no deployment is listed twice,
and the policies are finitely many). A decision quotes first and the trigger looks the
policy up again at commit, when a policy with a past date may have been added, so the two need not
find the same one; it has to be shown that the trigger finds one. `PlanOK` says that a plan has
one candidate for each deployment that it has quoted and none for those still to come, and
that a policy was found for each that it may select; policies are only added, so the trigger finds
one as well, and what it captures prices every later cost event.
The selected deployment and the fallbacks are among the candidates because a ranking is a sequence of
them. That there always is one, so that a plan with an eligible candidate can commit, is proved by
induction on their number (`RankedOf`, from the well-foundedness of the naturals).

`ControlPlaneProofs` proves, for any finite set of executors, any routers, targets, catalogue,
threshold, cost components, provider answers and administrators' changes (the assumptions
`RuntimeConstants` and `ControlConstants`: prices and the rows' other numbers are integers, and no
request is named like the absent decision):

| Theorem | Statement |
|---|---|
| `OpensOnFailures` | `ControlSpec => []OpenedByFailures` |
| `ExecutesReferencedRoute` | `ControlSpec => []ExecutedRouteIsReferenced` |
| `KeptOutcomeIsPaid` | `ControlSpec => []OutcomeIsPaid` |
| `DecidesOnRoutableModels` | `ControlSpec => []RoutedWasRoutable` |

The circuits need a count of what is under way: a circuit's failures and the failures that are
`Pending` (answered by the provider and not yet put) are together no more than those that happened,
and the same holds of every snapshot that is still to be written (`BreakerInv`). A lost update makes
the left side smaller only. `RunsInv` follows one execution over its chain and its bill.
`RoutersInv` and `ExecutorsInv` say that the copy of the task a request holds is the stored one as
long as the version is, and only one executor gets past the save that makes the task EXECUTING,
so at most one of them has a route to execute and an outcome to keep. `SeenInv` follows the
listed rows and the checked evidence of a routing request into its decision; it rests on
the fallback chain being made of the candidates and of nothing else (`ChainOf`) and on the newest
decisive record being one that stands (`CheckedStands`).

Each of these invariants was checked by TLC on the instance of its run before it was proved.

Only model-checked: liveness under fairness (`EveryMessageSettles`, `WorkflowCloses`), which is
beyond the prover; and `AcceptedPlanNeverStuck` of `Supervisor`, which rests on what the recursion
of `hasCycle` computes for every plan, and that would take an induction over plans. The five
properties of the runs that end in a violation are refuted, not proved (see above).

## Known and not claimed

Behaviour the models have, or the code has, for which no document makes a promise that could be
checked:

- A node that is not retry-safe, or whose effect is committed, stays RUNNING once its holder is
  gone (`ErrNodeRecoveryRequired`); a task whose transition fails after VALIDATING stays there
  without the command store; a model command whose server died keeps its key in progress. No
  code recovers any of them.
- A run that lost its lease can still call the target of a retry-safe node: the target is given
  no fence.
- `actualBudgetForInvocation` never reports frontier calls, so `MaxFrontierCalls` limits calls in
  flight only.
- Half-open circuits admit every caller that reads the snapshot, not one probe.
- A model revoked after the decision is still called by an execution of that decision. A model whose
  mode changes after the catalogue was listed is admitted for its former mode.
- A tool call whose credential is refused ends without an audit event.
- A route decision without captured evidence is priced by whatever policy resolves when the usage
  is recorded.
- A restart writes the configured deployment over an operator's change.
- A late key set without a just-published key makes the next token of that key refused until the
  next refresh.
- Identifiers made of a clock reading in nanoseconds may collide; the models give every event an
  identity of its own.

## Not modelled

- `execution/approval.go`: a map under one mutex that no other code uses.
- Deployment lifecycle events, model versions and the in-memory deployments: single-row writes
  and projections that no modelled decision reads between two steps.
- The PostgreSQL repositories without scope, beyond the operations above: row mapping.
- HTTP decoding, error envelopes, wiring, configuration and process start-up; the handlers that
  guard or sequence operations are in `Access`, `ControlPlane`, `ToolGateway` and `Evaluation`.
- Migrations: the schema's CHECK constraints are properties of `NodeLease`, its pricing trigger is
  in `Pricing` and its row security in `Access`.
- The trace store, an append-only log nothing decides by.
- Model gateway libraries, provider clients, safety and schema validation: wire formats and
  functions of one request.
- Infrastructure mapping, GitOps writers and the fake controller: pure transformations and a
  single-threaded demonstration.
- The compute cloud provider and secret look-up: clients of outside services.
