SPECIFICATION Spec
CONSTANTS
    Starters = {"engine", "client"}
    Backends = {"durable", "disabled"}
    Policies = {"ALLOW", "DENY", "REQUIRE_APPROVAL"}
    MaximumAttempts = 3
    NodeMaxAttempts = 3
    MaxFaults = 3
    MaxExternal = 2
INVARIANTS
    EvidenceBeforeTransition
    
    AttemptsWithinPolicy
PROPERTIES
    RouteIsFinal
    WorkflowCloses
CHECK_DEADLOCK FALSE
