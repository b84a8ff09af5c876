CONSTANTS
  some = some
  plain = plain
  noBase = noBase
  all = all
  Plugins = {some, plain, noBase, all}
  Requests = {r1}
  Override <- OneOfEach
  Roles = {"a", "A", "b"}
  Clients = {"own", "other"}
  Client = "own"
  Requirements <- SomeRequirements
  Base <- Spelling
  CaseSensitive = FALSE
  MaxRoles = 3
  Permissions = {"user", "supervisor", "admin"}
  Trees <- AllTrees
  Groups <- SomeGroups
  Routes <- SomeRoutes
  App = "home"
  OrgTree <- NoTree
  OrgWild = {}
  MaxGroups = 2
SPECIFICATION Spec
INVARIANTS
  AllAgreed
  DecidedByMeaning
  ResultIsInherited
  ReportIsExact
CHECK_DEADLOCK FALSE
