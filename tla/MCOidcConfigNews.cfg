CONSTANTS
  StartDelay = 2
  MaxStartDelay = 4
  PrevExpiry = 3
  MaxPrevExpiry = 5
  MillisAsSecs = 20
  RefreshAfter = 30
  MaxTries = 2
  MaxTime = 6
  MaxKeys = 3
  MaxFailures = 0
SPECIFICATION Spec
INVARIANTS
  ActiveKeyUsed
CHECK_DEADLOCK FALSE
