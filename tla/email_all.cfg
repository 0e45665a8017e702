SPECIFICATION FairSpec
CONSTANTS
  Requests = {r1, r2, r3}
  Verifiers = {v1, v2}
  None = None
INVARIANTS TypeOK OneLiveToken ProvenPassword
PROPERTIES AccountStands EveryCallAnswered
CHECK_DEADLOCK FALSE
