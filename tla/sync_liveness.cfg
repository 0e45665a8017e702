SPECIFICATION FairSpec
CONSTANTS
  Integrations = {i1}
  Runs = {n1, n2}
  Names = {a}
  Syncs = {s1, s2}
  Drops = {d1}
  Manual = Manual
PROPERTY EveryRequestAnswered
CHECK_DEADLOCK FALSE
