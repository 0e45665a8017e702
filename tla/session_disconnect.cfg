SPECIFICATION Spec
CONSTANTS
  Requests = {q1, q2}
  MaxIterations = 2
  MaxCalls = 2
  HistoryLimit = 100
  Faults = {"disconnect"}
INVARIANT PromptsWellFormed
CHECK_DEADLOCK FALSE
