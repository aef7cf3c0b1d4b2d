SPECIFICATION Spec
CONSTANTS
    Nodes = {n1}
    Workers = {w1, w2}
    NoOwner = NoOwner
    LeaseDuration = 2
    LockWait = 1
    MaxClock = 5
    MaxAttempts = 3
SYMMETRY WorkerSymmetry
CHECK_DEADLOCK FALSE
INVARIANTS
    RecordContract
    SingleLiveAttempt
    TerminalMatchesAttempt
    OneEffect
PROPERTIES
    StaleWorkersInert
    NoEarlyTakeover
    ImplementsAuthority
