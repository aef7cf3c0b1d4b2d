--------------------------- MODULE ExecutionWorker ---------------------------
(***************************************************************************)
(* The Execute activity of the task lifecycle: DurableExecutionActivity      *)
(* finds or requeues the node and hands it to PersistentWorker, which claims *)
(* it, reserves budget, starts the attempt, calls the target, settles and    *)
(* completes.  The rows are those of NodeLease and the budget is that of     *)
(* BudgetLedger, as the shared coordinator its interface asks for; every     *)
(* step below is one call of the code, taken by one activity run.            *)
(*                                                                           *)
(* Several runs may be in flight for one node: Temporal starts another one   *)
(* when a run exceeds its timeout, while the first may still be executing.   *)
(* A run may stop for good between any two calls.  A call to PostgreSQL may  *)
(* commit without its answer arriving, or fail without effect.               *)
(***************************************************************************)
EXTENDS Integers, Sequences, FiniteSets

CONSTANTS
    Nodes, NoOwner, LeaseDuration, LockWait, MaxClock, MaxAttempts,  \* NodeLease
    Dimensions, Limit,                                               \* BudgetLedger
    Runs,          \* activity runs
    Workers,       \* worker ids
    WorkerOf,      \* WorkerOf[r]: the id of the process that executes run r
    RetryLimit     \* RetryPolicy.MaxAttempts of the frozen plan

ASSUME WorkerConstants ==
    /\ NoOwner \notin Workers
    /\ LeaseDuration \in Nat \ {0}
    /\ LockWait \in Nat /\ MaxClock \in Nat /\ MaxAttempts \in Nat
    /\ "NodeAttempts" \in Dimensions
    /\ Limit \in [Dimensions -> Nat]
    /\ WorkerOf \in [Runs -> Workers]
    /\ RetryLimit \in Nat

VARIABLES
    clock, node, attempts,                        \* NodeLease
    reserved, consumed, reservations, overrun,    \* BudgetLedger
    plan,     \* plan[n]: the effect specification of the frozen plan node
    pc,       \* pc[r]: the call run r makes next
    at,       \* at[r]: the node run r executes
    held,     \* held[r]: the attempt number of the lease run r was answered
    result,   \* result[r]: what the target answered run r
    calls     \* history: every call made to a target

leaseVars == <<clock, node, attempts>>
ledgerVars == <<reserved, consumed, reservations, overrun>>
runVars == <<pc, at, held, result>>
vars == <<leaseVars, ledgerVars, plan, runVars, calls>>

Lease == INSTANCE NodeLease
Budget == INSTANCE BudgetLedger WITH Reservations <- Nodes \X (1..MaxAttempts)

-----------------------------------------------------------------------------
\* What the target answers: its error, by whether the plan's RetryOn lists its
\* class, and the effect disposition, which only mutations look at.
Errors == {"none", "retryable", "permanent"}
Dispositions == {"NOT_APPLICABLE", "COMMITTED", "NOT_APPLIED", "UNKNOWN"}
NoResult == [error |-> "none", disposition |-> "NOT_APPLICABLE"]

\* ValidateEffectSpec
ValidateEffectSpec(spec) ==
    /\ spec.effect = "IDEMPOTENT_MUTATION" => spec.retrySafe
    /\ spec.effect = "NON_IDEMPOTENT_MUTATION" => ~spec.retrySafe

EffectSpecs == {spec \in [effect : Lease!EffectClasses, retrySafe : BOOLEAN] :
                  ValidateEffectSpec(spec)}

Mutation(n) == Lease!isMutation(plan[n].effect)

\* The estimate of preparedNodeFromFrozenBinding for a model target, and the
\* usage actualBudgetForInvocation settles: model calls are not counted in it.
Estimate == [d \in Dimensions |-> IF d \in {"NodeAttempts", "FrontierCalls"} THEN 1 ELSE 0]

Actual == [d \in Dimensions |-> IF d = "NodeAttempts" THEN 1 ELSE 0]

Ended == {"idle", "succeeded", "failed", "crashed"}

\* Between Reserve and the call that closes the reservation.
Reserving == {"start", "unreserve", "markStarted", "settleUncalled", "invoke", "settle"}

\* reservationID: "attempt/" and the attempt reference.
ReservationOf(r) == <<at[r], held[r]>>

LeaseHeld(r) == Lease!LeaseOf(at[r], held[r])

Goto(r, label) == pc' = [pc EXCEPT ![r] = label]

\* A transaction that commits and is answered, one whose answer is lost, and one
\* that is refused or fails.
Transaction(r, Effect, ok, err) ==
    \/ Effect /\ Goto(r, ok)
    \/ Effect /\ Goto(r, err)
    \/ UNCHANGED leaseVars /\ Goto(r, err)

-----------------------------------------------------------------------------
Init ==
    /\ Lease!Init
    /\ Budget!BudgetInit
    /\ plan \in [Nodes -> EffectSpecs]
    /\ pc = [r \in Runs |-> "idle"]
    /\ at \in [Runs -> Nodes]
    /\ held = [r \in Runs |-> 0]
    /\ result = [r \in Runs |-> NoResult]
    /\ calls = {}

Tick == Lease!Tick /\ UNCHANGED <<ledgerVars, plan, runVars, calls>>

\* A run starts, or stops between two of its calls: the process dies, a read
\* fails, or the activity context is cancelled for good.
Start(r) ==
    /\ pc[r] = "idle"
    /\ Goto(r, "runtime")
    /\ UNCHANGED <<leaseVars, ledgerVars, plan, at, held, result, calls>>

Crash(r) ==
    /\ pc[r] \notin Ended
    /\ Goto(r, "crashed")
    /\ UNCHANGED <<leaseVars, ledgerVars, plan, at, held, result, calls>>

\* ensureRuntime's Get, and what Execute does with the state it returns.
GetRuntime(r) ==
    /\ pc[r] = "runtime"
    /\ Goto(r, CASE node[at[r]].state = "ABSENT" -> "register"
                 [] node[at[r]].state = "SUCCEEDED" -> "succeeded"
                 [] node[at[r]].state = "FAILED" -> "retry"
                 [] node[at[r]].state \in {"READY", "RUNNING"} -> "claim"
                 [] OTHER -> "failed")
    /\ UNCHANGED <<leaseVars, ledgerVars, plan, at, held, result, calls>>

\* ErrNodeRuntimeExists is not an error: another run registered the node.
Register(r) ==
    /\ pc[r] = "register"
    /\ \/ Transaction(r, Lease!Register(at[r], plan[at[r]].effect, plan[at[r]].retrySafe),
                      "runtime", "failed")
       \/ /\ node[at[r]].state # "ABSENT"
          /\ Goto(r, "runtime")
          /\ UNCHANGED leaseVars
    /\ UNCHANGED <<ledgerVars, plan, at, held, result, calls>>

\* retryClassAllowed for the error class recorded with attempt k.
RetryClassAllowed(n, k) ==
    \E c \in calls : c.node = n /\ c.attempt = k /\ c.error = "retryable"

\* prepareRetry's conditions, on the attempts it has listed.
RetryAllowed(n) ==
    /\ Len(attempts[n]) > 0
    /\ attempts[n][Len(attempts[n])].number < (IF RetryLimit = 0 THEN 1 ELSE RetryLimit)
    /\ plan[n].retrySafe /\ ~Mutation(n)
    /\ RetryClassAllowed(n, Len(attempts[n]))

PrepareRetry(r) ==
    /\ pc[r] = "retry"
    /\ Goto(r, IF RetryAllowed(at[r]) THEN "requeue" ELSE "failed")
    /\ UNCHANGED <<leaseVars, ledgerVars, plan, at, held, result, calls>>

Requeue(r) ==
    /\ pc[r] = "requeue"
    /\ Transaction(r, Lease!RequeueFailed(at[r]), "requeued", "failed")
    /\ UNCHANGED <<ledgerVars, plan, at, held, result, calls>>

\* The Get after a requeue.
ReloadRequeued(r) ==
    /\ pc[r] = "requeued"
    /\ Goto(r, IF node[at[r]].state \in {"READY", "RUNNING"} THEN "claim" ELSE "failed")
    /\ UNCHANGED <<leaseVars, ledgerVars, plan, at, held, result, calls>>

-----------------------------------------------------------------------------
ClaimNode(r) ==
    \E now \in Lease!databaseNow :
        Lease!ClaimReady(at[r], WorkerOf[r], now) \/ Lease!ClaimExpired(at[r], WorkerOf[r], now)

Claim(r) ==
    /\ pc[r] = "claim"
    /\ \/ /\ ClaimNode(r)
          /\ held' = [held EXCEPT ![r] = Len(attempts'[at[r]])]
          /\ Goto(r, "reserve")
       \/ /\ ClaimNode(r) \/ UNCHANGED leaseVars
          /\ Goto(r, "failed")
          /\ UNCHANGED held
    /\ UNCHANGED <<ledgerVars, plan, at, result, calls>>

Reserve(r) ==
    /\ pc[r] = "reserve"
    /\ \/ Budget!Reserve(ReservationOf(r), Estimate) /\ Goto(r, "start")
       \/ /\ ~Budget!WithinLimit(Budget!Plus(Budget!Plus(reserved, consumed), Estimate))
          /\ Goto(r, "release")
          /\ UNCHANGED ledgerVars
    /\ UNCHANGED <<leaseVars, plan, at, held, result, calls>>

\* Mutation: a mutation calls its target without recording the boundary first.
AfterStartUnmarked(n) == "invoke"

AfterStart(n) == IF Mutation(n) THEN "markStarted" ELSE "invoke"

\* Mutation: the reservation is not released when the attempt does not start.
StartAttemptLeaks(r) ==
    /\ pc[r] = "start"
    /\ Transaction(r, \E now \in Lease!databaseNow : Lease!StartAttempt(at[r], LeaseHeld(r), now),
                   AfterStart(at[r]), "release")
    /\ UNCHANGED <<ledgerVars, plan, at, held, result, calls>>

StartAttempt(r) ==
    /\ pc[r] = "start"
    /\ Transaction(r, \E now \in Lease!databaseNow : Lease!StartAttempt(at[r], LeaseHeld(r), now),
                   AfterStart(at[r]), "unreserve")
    /\ UNCHANGED <<ledgerVars, plan, at, held, result, calls>>

\* budget.Release after StartAttempt failed
Unreserve(r) ==
    /\ pc[r] = "unreserve"
    /\ Budget!Release(ReservationOf(r))
    /\ Goto(r, "release")
    /\ UNCHANGED <<leaseVars, plan, at, held, result, calls>>

ReleaseLease(r) ==
    /\ pc[r] = "release"
    /\ Transaction(r, \E now \in Lease!databaseNow :
                         Lease!ReleaseBeforeEffect(at[r], LeaseHeld(r), now),
                   "failed", "failed")
    /\ UNCHANGED <<ledgerVars, plan, at, held, result, calls>>

MarkStarted(r) ==
    /\ pc[r] = "markStarted"
    /\ Transaction(r, \E now \in Lease!databaseNow :
                         Lease!MarkEffectStarted(at[r], LeaseHeld(r), now),
                   "invoke", "settleUncalled")
    /\ UNCHANGED <<ledgerVars, plan, at, held, result, calls>>

\* The started attempt is accounted although its target was not called.
SettleUncalled(r) ==
    /\ pc[r] = "settleUncalled"
    /\ Budget!Settle(ReservationOf(r), Actual)
    /\ Goto(r, "fail")
    /\ UNCHANGED <<leaseVars, plan, at, held, result, calls>>

-----------------------------------------------------------------------------
\* TargetInvoker.Invoke: the call takes as long as it takes, and its error and
\* disposition are whatever the target reports.
Invoke(r) ==
    /\ pc[r] = "invoke"
    /\ \E error \in Errors,
          disposition \in IF Mutation(at[r]) THEN Dispositions ELSE {"NOT_APPLICABLE"} :
          /\ result' = [result EXCEPT ![r] = [error |-> error, disposition |-> disposition]]
          /\ calls' = calls \cup {[node |-> at[r], attempt |-> held[r], run |-> r,
                                   error |-> error, disposition |-> disposition]}
    /\ Goto(r, "settle")
    /\ UNCHANGED <<leaseVars, ledgerVars, plan, at, held>>

\* Mutation: an unknown disposition is taken for a committed effect.
OutcomeStepUnknownCommits(n, answer) ==
    CASE ~Mutation(n) -> (IF answer.error = "none" THEN "complete" ELSE "fail")
      [] Mutation(n) /\ answer.disposition \in {"COMMITTED", "UNKNOWN"} -> "markCommitted"
      [] Mutation(n) /\ answer.disposition = "NOT_APPLIED" /\ answer.error # "none" -> "fail"
      [] OTHER -> "failed"

\* finishReadOnly and finishMutation: the call each answer leads to.
OutcomeStep(n, answer) ==
    CASE ~Mutation(n) -> (IF answer.error = "none" THEN "complete" ELSE "fail")
      [] Mutation(n) /\ answer.disposition = "COMMITTED" -> "markCommitted"
      [] Mutation(n) /\ answer.disposition = "NOT_APPLIED" /\ answer.error # "none" -> "fail"
      [] OTHER -> "failed"

\* Mutation: a failed call gives its reservation back instead of settling it.
SettleReleases(r) ==
    /\ pc[r] = "settle"
    /\ Budget!Release(ReservationOf(r))
    /\ Goto(r, OutcomeStep(at[r], result[r]))
    /\ UNCHANGED <<leaseVars, plan, at, held, result, calls>>

Settle(r) ==
    /\ pc[r] = "settle"
    /\ Budget!Settle(ReservationOf(r), Actual)
    /\ Goto(r, OutcomeStep(at[r], result[r]))
    /\ UNCHANGED <<leaseVars, plan, at, held, result, calls>>

MarkCommitted(r) ==
    /\ pc[r] = "markCommitted"
    /\ Transaction(r, \E now \in Lease!databaseNow :
                         Lease!MarkEffectCommitted(at[r], LeaseHeld(r), now),
                   IF result[r].error = "none" THEN "complete" ELSE "failed", "failed")
    /\ UNCHANGED <<ledgerVars, plan, at, held, result, calls>>

CompleteNode(r, terminal) ==
    \E now \in Lease!databaseNow : Lease!Complete(at[r], LeaseHeld(r), terminal, now)

\* Mutation: the error of Complete is dropped.
CompleteSucceededUnchecked(r) ==
    /\ pc[r] = "complete"
    /\ Transaction(r, CompleteNode(r, "SUCCEEDED"), "verify", "succeeded")
    /\ UNCHANGED <<ledgerVars, plan, at, held, result, calls>>

CompleteSucceeded(r) ==
    /\ pc[r] = "complete"
    /\ Transaction(r, CompleteNode(r, "SUCCEEDED"), "verify", "failed")
    /\ UNCHANGED <<ledgerVars, plan, at, held, result, calls>>

CompleteFailed(r) ==
    /\ pc[r] = "fail"
    /\ Transaction(r, CompleteNode(r, "FAILED"), "failed", "failed")
    /\ UNCHANGED <<ledgerVars, plan, at, held, result, calls>>

\* The Get that Execute ends with.
Verify(r) ==
    /\ pc[r] = "verify"
    /\ Goto(r, IF node[at[r]].state = "SUCCEEDED" THEN "succeeded" ELSE "failed")
    /\ UNCHANGED <<leaseVars, ledgerVars, plan, at, held, result, calls>>

-----------------------------------------------------------------------------
RunStep(r) ==
    \/ Start(r) \/ GetRuntime(r) \/ Register(r)
    \/ PrepareRetry(r) \/ Requeue(r) \/ ReloadRequeued(r)
    \/ Claim(r) \/ Reserve(r) \/ StartAttempt(r) \/ Unreserve(r) \/ ReleaseLease(r)
    \/ MarkStarted(r) \/ SettleUncalled(r) \/ Invoke(r) \/ Settle(r)
    \/ MarkCommitted(r) \/ CompleteSucceeded(r) \/ CompleteFailed(r) \/ Verify(r)

Next == Tick \/ \E r \in Runs : RunStep(r) \/ Crash(r)

Spec == Init /\ [][Next]_vars

-----------------------------------------------------------------------------
CallsOf(n) == {c \in calls : c.node = n}

\* The target of a node that is not retry-safe is called at most once, ever:
\* across concurrent runs, expired leases, released claims, requeues, lost
\* answers and crashes at any point.
UnsafeNodeCalledOnce ==
    \A n \in Nodes : ~plan[n].retrySafe => Cardinality(CallsOf(n)) <= 1

\* Write-ahead: by the time a target is called the attempt is recorded as started
\* and, for a mutation, its effect boundary is recorded, and both stay recorded
\* whatever becomes of the attempt.
CallsAreRecorded ==
    \A c \in calls :
        /\ attempts[c.node][c.attempt].started
        /\ Mutation(c.node) => attempts[c.node][c.attempt].effectStarted

\* The node-attempt limit bounds the calls made to targets, by all runs together.
CallsWithinBudget ==
    Limit["NodeAttempts"] > 0 => Cardinality(calls) <= Limit["NodeAttempts"]

\* A reservation stays open only while its run is on the way to closing it, or
\* because that run stopped for good: refusals, lost leases and lost answers leak
\* none.  And it is given back only for an attempt that never called its target.
OnlyCrashesLeakBudget ==
    /\ \A id \in DOMAIN reservations :
          reservations[id].status = "OPEN" =>
              \E r \in Runs : /\ ReservationOf(r) = id
                              /\ pc[r] \in Reserving \cup {"crashed"}
    /\ \A c \in calls : reservations[<<c.node, c.attempt>>].status \in {"OPEN", "SETTLED"}

\* A node is SUCCEEDED only when the target answered its newest attempt without
\* error and, for a mutation, reported the effect committed.
SuccessWasReported ==
    \A n \in Nodes :
        node[n].state = "SUCCEEDED" =>
            \E c \in CallsOf(n) :
                /\ c.attempt = Len(attempts[n])
                /\ c.error = "none"
                /\ Mutation(n) => c.disposition = "COMMITTED"

\* The activity reports success to the workflow only for a node that is and
\* remains SUCCEEDED, whichever run completed it.
ReportedSuccessHolds ==
    \A r \in Runs : pc[r] = "succeeded" => node[at[r]].state = "SUCCEEDED"

\* docs/architecture/workflow-source-of-truth.md:97: "A retry at one layer must not
\* accidentally multiply retries at another layer. Each operation defines a maximum
\* attempt budget and stable idempotency key."  The frozen plan defines it as
\* RetryPolicy.MaxAttempts.
AttemptBudgetRespected ==
    \A n \in Nodes : RetryLimit > 0 => Cardinality(CallsOf(n)) <= RetryLimit
=============================================================================
