CONSTANTS
  Requests = {r1, r2, r3}
  None = none
  AccessLife = 2
  RefreshLife = 4
  Holdover = 1
  EagerTime = 1
  FetchInfo = TRUE
  MaxTime = 4
  LastSend = 4
  MaxFaults = 1
SPECIFICATION Spec
CONSTRAINT Scenarios
SYMMETRY Perms
INVARIANTS
  TokensReachBrowser
  LoggedInStaysIn
  LoggedOutMeansOut
PROPERTIES
  JarGoesBackOnlyWhenShared
CHECK_DEADLOCK FALSE
