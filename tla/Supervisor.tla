----------------------------- MODULE Supervisor -----------------------------
(***************************************************************************)
(* The in-memory execution path of package execution: ValidatePlan, the    *)
(* Supervisor's SelectRunnable, the AttemptRunner and the budget they      *)
(* share.  The caller is not part of the package.  It keeps the states of  *)
(* the nodes, selects, starts every node it was handed, each on a          *)
(* goroutine of its own, applies the results between two selections, and   *)
(* may retry a failed node; so attempts settle while SelectRunnable is     *)
(* reserving.                                                              *)
(*                                                                         *)
(* A node's reservation is named after the node: the identifier holds the  *)
(* execution, the node and the attempt number, which is always 1.          *)
(***************************************************************************)
EXTENDS BudgetLedger, Sequences

CONSTANTS
  NodeOrder,      \* the nodes, in the order of their identifiers
  DependsOn,      \* the dependency lists plans are made of: node -> set of sequences
  Estimated,      \* node -> the estimate of the cost estimator
  ToolNodes,      \* nodes whose target is a tool
  MaxCost,        \* bound: cost of one attempt
  MaxRounds,      \* bound: selections
  MaxRetries      \* bound: retries of failed nodes

VARIABLES
  plan,           \* node -> its DependsOn
  phase,          \* the execution's phase
  nodeState,      \* node -> its state, as the caller keeps it
  round,          \* the selection in progress: [pc, left, conditions]
  held,           \* nodes handed out with a reservation and not started
  invoked,        \* node -> "no", "calling", "ok", "failed": its attempt
  rounds, retries,
  dropped         \* nodes reserved in a selection that then failed (history)

supervisorVars == <<plan, phase, nodeState, round, held, invoked, rounds, retries, dropped>>

PlanNodes == {NodeOrder[i] : i \in DOMAIN NodeOrder}

ASSUME SupervisorConstants ==
  /\ PlanNodes \subseteq Reservations
  /\ Estimated \in [PlanNodes -> [Dimensions -> Nat]]
  /\ MaxCost \in Nat /\ MaxRetries \in Nat

-----------------------------------------------------------------------------
\* Mutation: a node is done as soon as it is first seen.
EnteredAsDone(marks, id) == [marks EXCEPT !.done = @ \cup {id}]

(* visit: a node is entered, and left when nothing below it is a cycle.    *)
Entered(marks, id) == [marks EXCEPT !.visiting = @ \cup {id}]

Left(marks, id) == [marks EXCEPT !.visiting = @ \ {id}, !.done = @ \cup {id}]

(* hasCycle: depth first along DependsOn, with the nodes being visited and *)
(* the nodes done, until a node is met that is being visited.              *)
HasCycle(p) ==
  LET Marks == [visiting : SUBSET PlanNodes, done : SUBSET PlanNodes, cycle : BOOLEAN]
      visitAll[ids \in Seq(PlanNodes), marks \in Marks] ==
        IF ids = <<>> \/ marks.cycle THEN marks
        ELSE LET id    == Head(ids)
                 below == visitAll[p[id], Entered(marks, id)]
             IN  visitAll[Tail(ids), CASE id \in marks.visiting -> [marks EXCEPT !.cycle = TRUE]
                                       [] id \in marks.done -> marks
                                       [] OTHER -> IF below.cycle THEN below ELSE Left(below, id)]
  IN  visitAll[NodeOrder, [visiting |-> {}, done |-> {}, cycle |-> FALSE]].cycle

(* ValidatePlan; the effects of the nodes are valid.                       *)
ValidatePlan(p) ==
  /\ \A n \in PlanNodes :
       /\ \A i \in DOMAIN p[n] : p[n][i] # n /\ p[n][i] \in PlanNodes
       /\ \A i, j \in DOMAIN p[n] : i # j => p[n][i] # p[n][j]
  /\ ~HasCycle(p)

-----------------------------------------------------------------------------
NextPhases(from) ==
  CASE from = "CREATED"    -> {"PLANNING", "CANCELLED"}
    [] from = "PLANNING"   -> {"READY", "FAILED", "CANCELLED"}
    [] from = "READY"      -> {"RUNNING", "FAILED", "CANCELLED"}
    [] from = "RUNNING"    -> {"VERIFYING", "REPLANNING", "FAILED", "CANCELLED"}
    [] from = "VERIFYING"  -> {"SUCCEEDED", "REPLANNING", "FAILED", "CANCELLED"}
    [] from = "REPLANNING" -> {"READY", "FAILED", "CANCELLED"}
    [] OTHER               -> {}

CanTransitionExecution(from, to) == from = to \/ to \in NextPhases(from)

NextNodeStates(from) ==
  CASE from = "PENDING"          -> {"READY", "SKIPPED", "BLOCKED", "CANCELLED"}
    [] from = "READY"            -> {"RUNNING", "WAITING_APPROVAL", "BLOCKED", "CANCELLED"}
    [] from = "WAITING_APPROVAL" -> {"READY", "BLOCKED", "CANCELLED"}
    [] from = "RUNNING"          -> {"SUCCEEDED", "FAILED", "CANCELLED"}
    [] from = "FAILED"           -> {"READY", "BLOCKED", "CANCELLED"}
    [] from = "BLOCKED"          -> {"READY", "CANCELLED"}
    [] OTHER                     -> {}

CanTransitionNode(from, to) == from = to \/ to \in NextNodeStates(from)

SupervisorInit ==
  /\ plan \in {p \in [PlanNodes -> UNION {DependsOn[n] : n \in PlanNodes}] :
                 \A n \in PlanNodes : p[n] \in DependsOn[n]}
  /\ phase = "PLANNING"
  /\ nodeState = [n \in PlanNodes |-> "PENDING"]
  /\ round = [pc |-> "idle", left |-> {}, conditions |-> {}]
  /\ held = {} /\ dropped = {}
  /\ invoked = [n \in PlanNodes |-> "no"]
  /\ rounds = 0 /\ retries = 0

(* The caller accepts the plan and starts the execution.                   *)
AcceptPlan ==
  /\ phase = "PLANNING"
  /\ phase' = IF ValidatePlan(plan) THEN "READY" ELSE "FAILED"
  /\ CanTransitionExecution(phase, phase')
  /\ UNCHANGED <<budgetVars, plan, nodeState, round, held, invoked, rounds, retries, dropped>>

-----------------------------------------------------------------------------
DependenciesSucceeded(n) == \A i \in DOMAIN plan[n] : nodeState[plan[n][i]] = "SUCCEEDED"

HasActiveOrWaitingNodes ==
  \E n \in PlanNodes : nodeState[n] \in {"RUNNING", "WAITING_APPROVAL", "BLOCKED"}

Candidates == {n \in PlanNodes : nodeState[n] \in {"PENDING", "READY"} /\ DependenciesSucceeded(n)}

(* PrepareRunnable.  The policy, the target resolver and the estimator are *)
(* asked about every candidate; an error of the policy or of the estimator *)
(* ends the selection.  A node the policy denies or wants approved, or     *)
(* that has no target, is reported as a condition.                         *)
PrepareRunnable ==
  /\ round.pc # "reserve" /\ held = {}
  /\ phase \in {"READY", "RUNNING"}
  /\ rounds < MaxRounds
  /\ rounds' = rounds + 1
  /\ \/ \E refused \in SUBSET Candidates :
          LET prepared == Candidates \ refused
          IN  round' = [pc |-> IF prepared # {} THEN "reserve"
                               ELSE IF refused # {} \/ HasActiveOrWaitingNodes THEN "idle"
                               ELSE "ErrPlanNotReady",
                        left |-> prepared, conditions |-> refused]
     \/ Candidates # {} /\ round' = [pc |-> "idle", left |-> {}, conditions |-> {}]
  /\ UNCHANGED <<budgetVars, plan, phase, nodeState, held, invoked, retries, dropped>>

(* The prepared nodes are taken in the order of their identifiers.         *)
PositionOf(n) == CHOOSE i \in DOMAIN NodeOrder : NodeOrder[i] = n

(* SelectRunnable's loop: one reservation at a time.  A node beyond the    *)
(* budget is a condition; any other refusal ends the selection, and the    *)
(* nodes already reserved in it are not handed out.                        *)
SelectRunnable ==
  /\ round.pc = "reserve"
  /\ \E n \in round.left :
       /\ \A m \in round.left : PositionOf(n) <= PositionOf(m)
       /\ LET rest == round.left \ {n}
              next == IF rest = {} THEN "idle" ELSE "reserve"
          IN  \/ /\ Reserve(n, Estimated[n])
                 /\ held' = held \cup {n}
                 /\ round' = [round EXCEPT !.left = rest, !.pc = next]
                 /\ UNCHANGED dropped
              \/ /\ ~Reservable(n)
                 /\ held' = {} /\ dropped' = dropped \cup held
                 /\ round' = [round EXCEPT !.left = {}, !.pc = "idle"]
                 /\ UNCHANGED budgetVars
              \/ /\ Reservable(n) /\ ~WithinLimit(Plus(Plus(reserved, consumed), Estimated[n]))
                 /\ round' = [round EXCEPT !.left = rest, !.pc = next, !.conditions = @ \cup {n}]
                 /\ UNCHANGED <<budgetVars, held, dropped>>
  /\ UNCHANGED <<plan, phase, nodeState, invoked, rounds, retries>>

-----------------------------------------------------------------------------
(* The caller runs a node it holds; AttemptRunner.Run calls the target ... *)
Run(n) ==
  /\ round.pc # "reserve" /\ n \in held
  /\ held' = held \ {n}
  /\ phase' = "RUNNING" /\ CanTransitionExecution(phase, "RUNNING")
  /\ CanTransitionNode("READY", "RUNNING")
  /\ nodeState' = [nodeState EXCEPT ![n] = "RUNNING"]
  /\ invoked' = [invoked EXCEPT ![n] = "calling"]
  /\ UNCHANGED <<budgetVars, plan, round, rounds, retries, dropped>>

(* ... which reports a cost whether it succeeds or fails: one attempt, one *)
(* tool call when the target is a tool, and no frontier call ever.         *)
ActualBudgetForInvocation(n, cost) ==
  [d \in Dimensions |-> CASE d = "cost" -> cost
                          [] d = "attempts" -> 1
                          [] d = "tools" -> IF n \in ToolNodes THEN 1 ELSE 0
                          [] OTHER -> 0]

SettleInvocation(n) ==
  /\ invoked[n] = "calling"
  /\ \E cost \in 0..MaxCost, outcome \in {"ok", "failed"} :
       /\ Settle(n, ActualBudgetForInvocation(n, cost))
       /\ invoked' = [invoked EXCEPT ![n] = outcome]
  /\ UNCHANGED <<plan, phase, nodeState, round, held, rounds, retries, dropped>>

(* Between two selections the caller applies the results.                  *)
ApplyResult(n) ==
  /\ round.pc # "reserve"
  /\ invoked[n] \in {"ok", "failed"} /\ nodeState[n] = "RUNNING"
  /\ nodeState' = [nodeState EXCEPT ![n] = IF invoked[n] = "ok" THEN "SUCCEEDED" ELSE "FAILED"]
  /\ CanTransitionNode("RUNNING", nodeState'[n])
  /\ UNCHANGED <<budgetVars, plan, phase, round, held, invoked, rounds, retries, dropped>>

Retry(n) ==
  /\ round.pc # "reserve" /\ retries < MaxRetries
  /\ nodeState[n] = "FAILED" /\ CanTransitionNode("FAILED", "READY")
  /\ nodeState' = [nodeState EXCEPT ![n] = "READY"]
  /\ retries' = retries + 1
  /\ round' = [round EXCEPT !.pc = "idle"]
  /\ UNCHANGED <<budgetVars, plan, phase, held, invoked, rounds, dropped>>

(* A cancelled execution gives back what it holds and has not started.     *)
Cancel ==
  /\ round.pc # "reserve" /\ phase \in {"READY", "RUNNING"}
  /\ CanTransitionExecution(phase, "CANCELLED")
  /\ phase' = "CANCELLED"
  /\ UNCHANGED <<budgetVars, plan, nodeState, round, held, invoked, rounds, retries, dropped>>

\* Mutation: the node is forgotten and its reservation stays.
GiveBackUnreleased(n) ==
  /\ phase = "CANCELLED" /\ n \in held
  /\ held' = held \ {n}
  /\ UNCHANGED <<budgetVars, plan, phase, nodeState, round, invoked, rounds, retries, dropped>>

GiveBack(n) ==
  /\ phase = "CANCELLED" /\ n \in held
  /\ Release(n)
  /\ held' = held \ {n}
  /\ UNCHANGED <<plan, phase, nodeState, round, invoked, rounds, retries, dropped>>

SupervisorNext ==
  \/ AcceptPlan \/ PrepareRunnable \/ SelectRunnable \/ Cancel
  \/ \E n \in PlanNodes : Run(n) \/ SettleInvocation(n) \/ ApplyResult(n) \/ Retry(n) \/ GiveBack(n)

SupervisorSpec ==
  BudgetInit /\ SupervisorInit /\ [][SupervisorNext]_<<budgetVars, supervisorVars>>

-----------------------------------------------------------------------------
(* ErrPlanNotReady, "plan has no runnable nodes", is only ever the end of  *)
(* a plan or the consequence of a failure: a plan ValidatePlan accepted    *)
(* cannot have nodes that wait for each other, so the selection that finds *)
(* nothing to run, nothing refused and nothing running has every node      *)
(* succeeded or some node failed; and no node runs before its              *)
(* dependencies have succeeded.                                            *)
AcceptedPlanNeverStuck ==
  /\ round.pc = "ErrPlanNotReady" =>
       \/ \A n \in PlanNodes : nodeState[n] = "SUCCEEDED"
       \/ \E n \in PlanNodes : nodeState[n] = "FAILED"
  /\ \A n \in PlanNodes : nodeState[n] \in {"RUNNING", "SUCCEEDED", "FAILED"} => DependenciesSucceeded(n)

(* An open reservation belongs to a node in somebody's hands: being        *)
(* handed out, held, or called.  The one way to lose it is a selection     *)
(* that ends with an error after it has reserved, which takes a retried    *)
(* node, whose identifier is taken.                                        *)
OpenIsOwned ==
  /\ \A n \in Reservations : reservations[n].status = "OPEN" => n \in held \/ n \in dropped \/ invoked[n] = "calling"
  /\ dropped # {} => retries > 0
=============================================================================
