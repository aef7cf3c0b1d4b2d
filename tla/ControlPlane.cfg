SPECIFICATION ControlSpec
CONSTANTS
  Executors = {e1, e2, e3}
  Targets = {"m1", "m2", "m3"}
  Registered = {"m1", "m2"}
  Answers = {"ok", "TIMEOUT", "INVALID"}
  Threshold = 2
  Components <- MCComponents
  MaxFaults = 1
  Routers = {"a", "b"}
  ModelOrder <- MCModelOrder
  FirstRow <- MCFirstRow
  ModelRows <- MCModelRows
  FirstRecord <- Record
  EvidenceRecords <- MCEvidenceRecords
  RouteRequests <- MCRouteRequests
  Loads <- MCLoads
INVARIANTS
  ExecutedRouteIsReferenced
  
  RoutedWasRoutable
  OpenedByFailures
SYMMETRY ExecutorSymmetry
CHECK_DEADLOCK FALSE
