CONSTANTS
    Tasks = {t1}
    Keys = {"k1", "k2"}
    Digests = {"d1", "d2"}
    Bodies <- MCBodies
    Clients = {c1, c2}
    Decisions = {r1, r2}
    MaxCalls = 2
    None = None
SPECIFICATION Spec
SYMMETRY Symmetry
INVARIANTS
    EventsExplainTask
    
    RouteIsTheAnswered
    ResultIsTheAnswered
    CalledAgainOnlyAfterRetryable
    OneAnswerPerKey
PROPERTIES
    HistoryIsKept
CHECK_DEADLOCK FALSE
