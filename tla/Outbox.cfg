CONSTANTS
    Messages = {m1, m2}
    Routed = {m1}
    Dispatchers = {d1, d2}
    NoOwner = NoOwner
    Limit = 2
    MaxDeliveries = 2
    MaxFaults = 2
SPECIFICATION FairSpec
CHECK_DEADLOCK FALSE

    
PROPERTIES
    ClosedByNewestLease
    EveryMessageSettles
    ImplementsAtLeastOnce
