CONSTANTS
  a1 = a1
  a2 = a2
  a3 = a3
  b1 = b1
  a = a
  b = b
  Gets = {a1, a2, a3, b1}
  Channels = {a, b}
  ChannelOf <- TwoKeys
  None = none
  MaxValid = 3
  MaxFaults = 2
SPECIFICATION Spec
CONSTRAINT Scenarios
INVARIANTS
  NoOutageUnannounced
  WaiterHears
PROPERTIES
  Recovers
CHECK_DEADLOCK FALSE
