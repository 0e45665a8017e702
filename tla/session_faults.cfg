SPECIFICATION MCSpec
CONSTANTS
  Requests = {x1, x2}
  MaxIterations = 2
  MaxCalls = 1
  HistoryLimit = 100
  Faults = {"overlap", "disconnect", "crash"}
  Users = {x1, x2}
  None = None
  Admins = {x1, x2}
  Savers = {y1, y2}
  Sends = {r1}
  ConfigNames = {"default", "strict"}
  ConfigSays <- MCConfigSays
  SoulSays <- MCSoulSays
  SystemSouls <- MCSystemSouls
  Capabilities <- MCCapabilities
  Topics <- MCTopics
  Sessions = {s1}
  Projects = {y1, y2}
  Makers = {m1}
  Attachers = {t1}
  Runs = {n1}
  Providers = {"openai", "google"}
  Ids = {i1, i2}
  Keys = {k1}
  Processes = {x1, x2}
  Last = 4
  Bases = {1, 2}
  Forward = 3
  Checkouts = {3, 4}
  Tenants = {x1, x2}
  ServerKey = ServerKey
  NoKey = NoKey
  Searches = {h1}
  Depth = 4
  DefaultLimit = 2
  MaxLimit = 3
  Limits = {0, 1, 3, 7}
  Events = {1, 2, 3, 4, 5}
  Lists <- MCLists
  Unusable = {2}
SYMMETRY Symmetry
INVARIANTS TypeOK CalmPromptsWellFormed OwnMessageShown Resumable
  ScopeHolds MigrationsHold
PROPERTIES SessionsHold ProfilesHold SearchesHold
CHECK_DEADLOCK FALSE
