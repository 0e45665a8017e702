SPECIFICATION FairSpec
CONSTANTS
  Args = {x, y, z}
  T = t
  U = u
  V = v
  Tools <- MCTools
  Usable <- MCUsable
  Calls <- MCCalls
  ToolOf <- MCToolOf
  MaxIterations = 6
  MaxBatch = 2
  ExactThreshold = 3
  SameToolThreshold = 3
  NoProgressThreshold = 3
INVARIANTS TypeOK RepeatedFailureStops HonestEnd FailingToolStops
PROPERTY RunEnds
CHECK_DEADLOCK FALSE
