SPECIFICATION Spec
CONSTANTS
  Reports = {"first", "again", "other", "incomplete", "unknown"}
  Reported <- MCReported
  EvaluatedTasks = {"t1"}
  Minima = {"quality"}
  Maxima = {"latency"}
INVARIANT RepeatedRunsAreKept
CHECK_DEADLOCK FALSE
