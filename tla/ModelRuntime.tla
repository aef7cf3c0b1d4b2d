---------------------------- MODULE ModelRuntime ----------------------------
(***************************************************************************)
(* The model runtime: one Execute call per executor walks the candidates   *)
(* of a route decision (the selected one, then its fallback chain).  Each  *)
(* candidate asks the circuit breaker of its target, calls the provider,   *)
(* tells the breaker what happened, records what the call cost and leaves  *)
(* a trace event.                                                          *)
(*                                                                         *)
(* The breaker's store locks each Get and each Put, but Allow and Failure  *)
(* read, compute and write in two critical sections: both are two steps    *)
(* here, so that updates of concurrent executors can be lost.  Success     *)
(* overwrites what it read and is one step.                                *)
(*                                                                         *)
(* A target is a deployment, or a model version when the route names no    *)
(* deployment: the key of the breaker and of the provider registry.        *)
(***************************************************************************)
EXTENDS Integers, Sequences, FiniteSets

CONSTANTS
  Executors,     \* concurrent Execute calls
  Targets,       \* route targets
  Registered,    \* targets a provider is registered for
  Answers,       \* what a provider may answer: "ok" or an error code
  Threshold,     \* recoverable failures that open a circuit
  Components,    \* the cost components one successful call is billed for
  MaxFaults      \* bound: failures of the cost-event store

ASSUME RuntimeConstants ==
  /\ IsFiniteSet(Executors)
  /\ Registered \subseteq Targets
  /\ "ok" \in Answers
  /\ Threshold \in Nat \ {0}
  /\ MaxFaults \in Nat
  /\ Components \in Seq({Components[j] : j \in DOMAIN Components})

VARIABLES
  breaker,       \* target -> [state, failures, cooled]: the circuit store
  run,           \* executor -> the local state of its Execute call
  costs,         \* set of cost events [by, target, component]
  failed,        \* target -> recoverable failures so far (history)
  storeFaults    \* cost-event appends that failed so far

runtimeVars == <<breaker, run, costs, failed, storeFaults>>

Closed == [state |-> "CLOSED", failures |-> 0, cooled |-> FALSE]

(* A finished or not yet started Execute call.  "tried" is the sequence of *)
(* attempts: what the result's attempt list and the trace events say.      *)
NotRun == [pc |-> "off", chain |-> <<>>, i |-> 0, snap |-> Closed,
           left |-> <<>>, outcome |-> "none", tried |-> <<>>]

RuntimeInit ==
  /\ breaker = [k \in Targets |-> Closed]
  /\ run = [e \in Executors |-> NotRun]
  /\ costs = {}
  /\ failed = [k \in Targets |-> 0]
  /\ storeFaults = 0

Target(e) == run[e].chain[run[e].i]

(* classify: the error codes worth another candidate.                      *)
Classify(answer) == answer \in {"UNAVAILABLE", "TIMEOUT", "RATE_LIMITED", "flagged", "deadline"}

(* Execute begins.  A deterministic route has no candidate and succeeds    *)
(* without a call.                                                         *)
StartRun(chain) ==
  IF chain = <<>>
  THEN [NotRun EXCEPT !.pc = "done", !.outcome = "ok"]
  ELSE [NotRun EXCEPT !.pc = "allow", !.chain = chain, !.i = 1]

Note(row, status) == [row EXCEPT !.tried = Append(@, [target |-> row.chain[row.i], status |-> status])]

(* The candidate failed in a way another one may not: try the next one, or *)
(* give up at the end of the chain.                                        *)
NextCandidate(row) ==
  IF row.i = Len(row.chain)
  THEN [row EXCEPT !.pc = "done", !.outcome = "recoverable"]
  ELSE [row EXCEPT !.pc = "allow", !.i = @ + 1]

GiveUp(row) == [row EXCEPT !.pc = "done", !.outcome = "fatal"]

(* Breaker.Allow, first critical section: Get.  A circuit that is open and *)
(* has not cooled down skips the candidate.                                *)
Allow(e) ==
  /\ run[e].pc = "allow"
  /\ LET seen == breaker[Target(e)]
         row == [run[e] EXCEPT !.snap = seen]
     IN  run' = [run EXCEPT ![e] =
                   IF seen.state # "OPEN" THEN [row EXCEPT !.pc = "generate"]
                   ELSE IF seen.cooled THEN [row EXCEPT !.pc = "halfOpen"]
                   ELSE NextCandidate(Note(row, "SKIPPED_OPEN_CIRCUIT"))]
  /\ UNCHANGED <<breaker, costs, failed, storeFaults>>

(* Breaker.Allow, second critical section: Put of the half-open snapshot.  *)
(* Nothing keeps other callers out while the circuit is half open.         *)
AllowPut(e) ==
  /\ run[e].pc = "halfOpen"
  /\ breaker' = [breaker EXCEPT ![Target(e)] = [run[e].snap EXCEPT !.state = "HALF_OPEN"]]
  /\ run' = [run EXCEPT ![e].pc = "generate"]
  /\ UNCHANGED <<costs, failed, storeFaults>>

(* The provider is looked up, by deployment and then by model, and called. *)
(* A missing provider and an unclassified error end the whole execution.   *)
Generate(e) ==
  /\ run[e].pc = "generate"
  /\ \/ /\ Target(e) \notin Registered
        /\ run' = [run EXCEPT ![e] = GiveUp(Note(@, "FAILED"))]
        /\ UNCHANGED failed
     \/ /\ Target(e) \in Registered
        /\ \E answer \in Answers :
             IF answer = "ok"
             THEN /\ run' = [run EXCEPT ![e].pc = "success"]
                  /\ UNCHANGED failed
             ELSE IF Classify(answer)
             THEN /\ run' = [run EXCEPT ![e].pc = "failure"]
                  /\ failed' = [failed EXCEPT ![Target(e)] = @ + 1]
             ELSE /\ run' = [run EXCEPT ![e] = GiveUp(Note(@, "FAILED"))]
                  /\ UNCHANGED failed
  /\ UNCHANGED <<breaker, costs, storeFaults>>

(* Breaker.Failure, first critical section: Get.                           *)
Failure(e) ==
  /\ run[e].pc = "failure"
  /\ run' = [run EXCEPT ![e] = [@ EXCEPT !.snap = breaker[Target(e)], !.pc = "failurePut"]]
  /\ UNCHANGED <<breaker, costs, failed, storeFaults>>

(* The snapshot after one more failure: a half-open circuit, or one that   *)
(* reached the threshold, opens now and starts cooling down again.         *)
\* Mutation: one failure short of the threshold opens the circuit.
FailedEarly(snap) ==
  LET n == snap.failures + 1
  IN  IF snap.state = "HALF_OPEN" \/ n + 1 >= Threshold
      THEN [state |-> "OPEN", failures |-> n, cooled |-> FALSE]
      ELSE [snap EXCEPT !.failures = n]

Failed(snap) ==
  LET n == snap.failures + 1
  IN  IF snap.state = "HALF_OPEN" \/ n >= Threshold
      THEN [state |-> "OPEN", failures |-> n, cooled |-> FALSE]
      ELSE [snap EXCEPT !.failures = n]

FailurePut(e) ==
  /\ run[e].pc = "failurePut"
  /\ breaker' = [breaker EXCEPT ![Target(e)] = Failed(run[e].snap)]
  /\ run' = [run EXCEPT ![e] = NextCandidate(Note(@, "FAILED"))]
  /\ UNCHANGED <<costs, failed, storeFaults>>

(* Breaker.Success closes the circuit, whatever it was.                    *)
Success(e) ==
  /\ run[e].pc = "success"
  /\ breaker' = [breaker EXCEPT ![Target(e)] = Closed]
  /\ run' = [run EXCEPT ![e] = [@ EXCEPT !.pc = "cost", !.left = Components]]
  /\ UNCHANGED <<costs, failed, storeFaults>>

CostEvent(e, component) == [by |-> e, target |-> Target(e), component |-> component]

(* RecordModelUsage appends one event per component; an append that fails  *)
(* ends the execution with what was already appended kept.  After the last *)
(* one the attempt is traced and the execution has succeeded.              *)
RecordModelUsage(e) ==
  /\ run[e].pc = "cost"
  /\ \/ /\ run[e].left # <<>>
        /\ costs' = costs \cup {CostEvent(e, Head(run[e].left))}
        /\ run' = [run EXCEPT ![e].left = Tail(@)]
        /\ UNCHANGED storeFaults
     \/ /\ run[e].left # <<>>
        /\ storeFaults < MaxFaults
        /\ storeFaults' = storeFaults + 1
        /\ run' = [run EXCEPT ![e] = GiveUp(@)]
        /\ UNCHANGED costs
     \/ /\ run[e].left = <<>>
        /\ run' = [run EXCEPT ![e] = [Note(@, "SUCCEEDED") EXCEPT !.pc = "done", !.outcome = "ok"]]
        /\ UNCHANGED <<costs, storeFaults>>
  /\ UNCHANGED <<breaker, failed>>

(* The cool-down of an open circuit elapses.                               *)
CoolDown(k) ==
  /\ breaker[k].state = "OPEN" /\ ~breaker[k].cooled
  /\ breaker' = [breaker EXCEPT ![k].cooled = TRUE]
  /\ UNCHANGED <<run, costs, failed, storeFaults>>

ExecuteStep(e) ==
  \/ Allow(e) \/ AllowPut(e) \/ Generate(e) \/ Failure(e) \/ FailurePut(e)
  \/ Success(e) \/ RecordModelUsage(e)

-----------------------------------------------------------------------------
(* A circuit opens on recoverable failures only, and on Threshold of them  *)
(* at least: its counter never runs ahead of the failures that happened,   *)
(* whatever updates are lost between Get and Put.                          *)
OpenedByFailures ==
  \A k \in Targets :
    /\ breaker[k].failures <= failed[k]
    /\ breaker[k].state = "OPEN" => failed[k] >= Threshold

=============================================================================
