SPECIFICATION MCSpec
CONSTANTS
  Requests = {q1, q2}
  Conns = {c1}
  Users = {u1, u2}
  Tenants = {t1, t2}
  None = None
  Capacity = 2
  MaxRefused = 1
  MaxMessages = 4
INVARIANTS TypeOK OwnSession PoolClean RunOwnsConnection StreamHolds
PROPERTIES NobodyWaitsForever
