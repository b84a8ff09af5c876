CONSTANTS
  Tabs = {t1, t2}
  Slots = {c1, c2}
  None = none
  Fast = TRUE
  MaxStamp = 3
  MaxSets = 3
  MaxFaults = 1
  MaxMoves = 2
SPECIFICATION Spec
CONSTRAINT Scenarios
SYMMETRY Perms
INVARIANTS
  FlagMeansWork
  TabsConverge
  OldStatusOnlyAfterClear
CHECK_DEADLOCK FALSE
