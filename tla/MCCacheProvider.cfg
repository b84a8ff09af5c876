CONSTANTS
  r1 = r1
  r2 = r2
  r3 = r3
  i1 = i1
  None = None
  Requests  <- MCRequests
  Instances <- MCInstances
  Home      <- MCHome
  MaxWait = 1
  MissMax = 2
  Ttl = 1
  MaxTime = 3
  LastStart = 2
  MaxSrc = 2
SPECIFICATION Spec
INVARIANTS
  OneFlight
  StaleOnlyFromOverlap
PROPERTIES
  StoresInOrder
  KeepsPromise
  EveryGetReturns
CHECK_DEADLOCK FALSE
