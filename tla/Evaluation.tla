----------------------------- MODULE Evaluation -----------------------------
(***************************************************************************)
(* Evaluation runs of a task: POST /tasks/{id}/evaluations digests the     *)
(* reported configuration, gates the metrics against the thresholds and    *)
(* appends a run; the run is then noted in the task's trace.  A report is  *)
(* [task, config, metrics, thresholds], and two reports may be alike: a    *)
(* regression is run again.                                                *)
(***************************************************************************)
EXTENDS Integers, FiniteSets

CONSTANTS
  Reports,        \* requests to record an evaluation
  Reported,       \* report -> its body
  EvaluatedTasks, \* the tasks that exist
  Minima, Maxima  \* names of the metrics bounded below and above

VARIABLES
  evaluations,    \* the stored runs
  evaluationTrace,\* trace events [run, status]
  report          \* report -> [pc, run, answer]

evaluationVars == <<evaluations, evaluationTrace, report>>

NoRun == [id |-> "none"]

EvaluationInit ==
  /\ evaluations = {}
  /\ evaluationTrace = {}
  /\ report = [r \in Reports |-> [pc |-> "idle", run |-> NoRun, answer |-> "none"]]

-----------------------------------------------------------------------------
(* A configuration is [named, budgets, parameters]: whether all required   *)
(* names and versions are given, the two budgets, and the parameters as a  *)
(* function.                                                               *)
ValidateConfig(config) == config.named /\ \A b \in DOMAIN config.budgets : config.budgets[b] > 0

(* The canonical form lists the parameters in the order of their keys, so  *)
(* it is a function of the configuration as a value.                       *)
CanonicalConfig(config) == <<config.named, config.budgets, config.parameters>>

DigestConfig(config) == CanonicalConfig(config)

(* EvaluateGate: the thresholds missed.  A maximum of 0 is not checked.    *)
EvaluateGate(metrics, thresholds) ==
  {m \in Minima : metrics[m] < thresholds[m]}
    \cup {m \in Maxima : thresholds[m] > 0 /\ metrics[m] > thresholds[m]}

(* NewRun: the identifier is the end of the digest of the configuration.   *)
NewRun(body) ==
  [id |-> DigestConfig(body.config), task |-> body.task, digest |-> DigestConfig(body.config),
   metrics |-> body.metrics, reasons |-> EvaluateGate(body.metrics, body.thresholds)]

-----------------------------------------------------------------------------
EvaluationAnswer(r, answer) == report' = [report EXCEPT ![r] = [@ EXCEPT !.pc = "done", !.answer = answer]]

(* CreateEvaluation: the task, then the run, then the store, the trace.    *)
(* (The PostgreSQL store's refusal of a second run is answered 500.)       *)
LoadEvaluated(r) ==
  /\ report[r].pc = "idle"
  /\ IF Reported[r].task \notin EvaluatedTasks THEN EvaluationAnswer(r, "404")
     ELSE IF ~ValidateConfig(Reported[r].config) THEN EvaluationAnswer(r, "400")
     ELSE report' = [report EXCEPT ![r] = [@ EXCEPT !.pc = "append", !.run = NewRun(Reported[r])]]
  /\ UNCHANGED <<evaluations, evaluationTrace>>

AppendEvaluation(r) ==
  /\ report[r].pc = "append"
  /\ IF report[r].run.id \in {e.id : e \in evaluations}
     THEN EvaluationAnswer(r, "400") /\ UNCHANGED evaluations
     ELSE /\ evaluations' = evaluations \cup {report[r].run}
          /\ report' = [report EXCEPT ![r].pc = "trace"]
  /\ UNCHANGED evaluationTrace

TraceEvaluation(r) ==
  /\ report[r].pc = "trace"
  /\ evaluationTrace' = evaluationTrace
       \cup {[run |-> report[r].run.id, status |-> IF report[r].run.reasons = {} THEN "OK" ELSE "ERROR"]}
  /\ EvaluationAnswer(r, "201")
  /\ UNCHANGED evaluations

ListEvaluations(task) == {e \in evaluations : e.task = task}

EvaluationNext == \E r \in Reports : LoadEvaluated(r) \/ AppendEvaluation(r) \/ TraceEvaluation(r)

-----------------------------------------------------------------------------
(* "Repeated regression runs with the same configuration therefore remain  *)
(* distinct and comparable": a report of an existing task with a valid     *)
(* configuration is recorded, however often that configuration has been    *)
(* evaluated before; so once every report is answered, a task lists as     *)
(* many runs as it had valid reports.                                      *)
RepeatedRunsAreKept ==
  (\A r \in Reports : report[r].pc = "done") =>
    \A task \in EvaluatedTasks :
      Cardinality(ListEvaluations(task)) =
        Cardinality({r \in Reports : Reported[r].task = task /\ ValidateConfig(Reported[r].config)})
=============================================================================
