CONSTANTS
  StartDelay = 2
  MaxStartDelay = 4
  PrevExpiry = 3
  MaxPrevExpiry = 5
  MillisAsSecs = 20
  RefreshAfter = 3
  MaxTries = 2
  MaxTime = 9
  MaxKeys = 3
  MaxFailures = 1
SPECIFICATION Spec
INVARIANTS
  FreshAnswers
  NewKeyIsTested
PROPERTIES
  MakerSwitches
CHECK_DEADLOCK FALSE
