---------------------------- MODULE MCEvaluation ----------------------------
EXTENDS Evaluation

Config == [named |-> TRUE, budgets |-> <<1, 1>>, parameters |-> <<"dataset v1">>]

Body == [task |-> "t1", config |-> Config, metrics |-> [quality |-> 1, latency |-> 1],
         thresholds |-> [quality |-> 1, latency |-> 0]]

(* A run, its repetition with a worse result, another configuration, an    *)
(* incomplete one and an unknown task.                                     *)
MCReported == [r \in Reports |->
  CASE r = "first"      -> Body
    [] r = "again"      -> [Body EXCEPT !.metrics.quality = 0]
    [] r = "other"      -> [Body EXCEPT !.config.parameters = <<"dataset v2">>]
    [] r = "incomplete" -> [Body EXCEPT !.config.budgets = <<1, 0>>]
    [] r = "unknown"    -> [Body EXCEPT !.task = "t2"]]

Spec == EvaluationInit /\ [][EvaluationNext]_evaluationVars
=============================================================================
