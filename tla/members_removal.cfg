SPECIFICATION Spec
CONSTANTS
  Users = {ann, bob}
  SuperAdmins = {}
  Tenants = {t1}
  Invites = {i1}
  Projects = {p1}
  Requests = {q1}
  None = None
PROPERTY RemovalTakesEffect
CHECK_DEADLOCK FALSE
