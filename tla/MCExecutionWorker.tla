-------------------------- MODULE MCExecutionWorker --------------------------
(* Both budget dimensions that the activity estimates; two runs share a worker. *)
EXTENDS ExecutionWorker, TLC

CONSTANTS AttemptLimit, w1, w2, r1, r2, r3

MCLimit == [d \in Dimensions |-> IF d = "NodeAttempts" THEN AttemptLimit ELSE 0]

MCWorkerOf == [r \in Runs |-> IF r = r2 THEN w2 ELSE w1]
=============================================================================
