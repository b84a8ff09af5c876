CONSTANTS
  n1 = n1
  n2 = n2
  j1 = j1
  j2 = j2
  None = None
  Nodes <- MCNodes
  Jobs  <- MCJobs
  At    <- MCAt
  LockTtl = 1
  StartDelay = 2
  MaxStartDelay = 4
  PrevExpiry = 3
  MaxPrevExpiry = 5
  MillisAsSecs = 20
  MaxTime = 5
  MaxKeys = 3
  MaxAttempts = 2
  Found = {"nothing", "first", "rotated"}
  Faults = {"loss", "crash", "reject"}
SPECIFICATION Spec
CONSTRAINT Scenarios
INVARIANTS
  SettledAgree
  SigningKeyKnown
  FinishMeansActive
  StartedJobsReport
PROPERTIES
  RotationsChain
CHECK_DEADLOCK FALSE
