CONSTANTS
  r1 = r1
  r2 = r2
  r3 = r3
  i1 = i1
  i2 = i2
  None = None
  Requests  <- ThreeRequests
  Instances <- MCInstances
  Home      <- ThreeHome
  MaxWait = 0
  MissMax = 2
  LockTtl = 1
  Ttl = 1
  MaxTime = 1
  LastStart = 1
  MaxSrc = 2
  MaxInv = 1
  MaxFailures = 1
  Faults = {"loss", "redis"}
SPECIFICATION ClusterSpec
CONSTRAINT Scenarios
SYMMETRY Symmetry
INVARIANTS
  SingleFlight
  LeaseHeld
  NoLostBroadcast
  StaleOnlyFromOverlappingMiss
PROPERTIES
  LeaseBrokenOnlyBy
  NoRefetchWhileStored
CHECK_DEADLOCK FALSE
