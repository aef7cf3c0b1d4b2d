CONSTANTS
    r1 = r1
    r2 = r2
    r3 = r3
    w1 = w1
    w2 = w2
    Nodes = {n1}
    Workers = {w1, w2}
    NoOwner = NoOwner
    LeaseDuration = 1
    LockWait = 0
    MaxClock = 3
    MaxAttempts = 3
    Dimensions = {"NodeAttempts", "FrontierCalls"}
    AttemptLimit = 0
    Limit <- MCLimit
    Runs = {r1, r2}
    WorkerOf <- MCWorkerOf
    RetryLimit = 1
SPECIFICATION Spec
CHECK_DEADLOCK FALSE
INVARIANT AttemptBudgetRespected
