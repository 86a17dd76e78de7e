SPECIFICATION FairSpec
CONSTANTS
  n1 = n1  n2 = n2
  k1 = k1
  Node = {n1, n2}
  Key = {k1}
  Duration = 1
  MaxQueue = 2
  CircuitAfter = 2
  CircuitReset = 1
PROPERTIES SharedCooldowns
CHECK_DEADLOCK FALSE
