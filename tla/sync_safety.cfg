SPECIFICATION MCSpec
CONSTANTS
  Integrations = {i1}
  Runs = {n1, n2}
  Names = {a, b}
  Syncs = {s1, s2}
  Drops = {d1}
  Manual = Manual
  Projects = {p1}
  Capabilities = {c1}
  Tenants = {t1, t2}
  System = System
  Requests = {r1, r2}
  MaxPublications = 1
  None = None
  Documents <- MCDocuments
  Values <- MCValues
  Schemas <- MCSchemas
  Depth = 9
  Configs <- MCConfigs
SYMMETRY Symmetry
INVARIANTS TypeOK WholeManifests NoOrphans Refreshed ToolsAreSound
PROPERTIES CatalogSpec RecordsAreGuarded
CHECK_DEADLOCK FALSE
