SPECIFICATION Spec
CONSTANTS
    Starters = {"engine"}
    Backends = {"durable"}
    Policies = {"ALLOW", "DENY", "REQUIRE_APPROVAL"}
    MaximumAttempts = 3
    NodeMaxAttempts = 3
    MaxFaults = 3
    MaxExternal = 2
INVARIANT EngineStartIsValid
CHECK_DEADLOCK FALSE
