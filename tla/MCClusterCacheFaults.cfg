CONSTANTS
  r1 = r1
  r2 = r2
  r3 = r3
  i1 = i1
  i2 = i2
  None = None
  Requests  <- TwoRequests
  Instances <- MCInstances
  Home      <- TwoHome
  MaxWait = 0
  MissMax = 1
  LockTtl = 1
  Ttl = 1
  MaxTime = 2
  LastStart = 0
  MaxSrc = 1
  MaxInv = 0
  MaxFailures = 1
  Faults = {"redis", "loss", "crash"}
SPECIFICATION ClusterSpec
PROPERTIES
  KeepsPromise
  EveryClusterGetReturns
CHECK_DEADLOCK FALSE
