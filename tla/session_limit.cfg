SPECIFICATION Spec
CONSTANTS
  Requests = {q1, q2}
  MaxIterations = 2
  MaxCalls = 1
  HistoryLimit = 3
  Faults = {}
INVARIANT OwnMessageShown
CHECK_DEADLOCK FALSE
