SPECIFICATION MCSpec
CONSTANTS
  Users = {ann, bob}
  SuperAdmins = {bob}
  Tenants = {t1}
  Invites = {i1}
  Projects = {j1}
  Requests = {q1, q2}
  None = None
  Plans = {p1, p2}
  Prices = {e1, e2}
  SeedPlan = p1
  SeedPrice = e1
  Calls = {c1, c2}
  OldSub = s0
  Terms = {1, 12}
  EditLimit = 2
INVARIANTS TypeOK OwnerIsCreator NoDangling
PROPERTIES JoinsSpendInvites OwnerStands EveryCallAnswered SubscriptionsStand
CHECK_DEADLOCK FALSE
