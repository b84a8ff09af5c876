CONSTANTS
  MaxMounts = 2
  MaxSets = 2
  MaxMoves = 2
SPECIFICATION Spec
INVARIANTS
  StatusFollowsClient
  HiddenMeansLoggedIn
CHECK_DEADLOCK FALSE
