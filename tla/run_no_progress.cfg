SPECIFICATION Spec
CONSTANTS
  Args = {x}
  T = t
  U = u
  V = v
  Tools <- MCTools
  Usable <- MCUsable
  Calls <- MCCalls
  ToolOf <- MCToolOf
  MaxIterations = 5
  MaxBatch = 1
  ExactThreshold = 3
  SameToolThreshold = 5
  NoProgressThreshold = 3
INVARIANT NoProgressStops
CHECK_DEADLOCK FALSE
