SPECIFICATION Spec
CONSTANTS
  k1 = k1  k2 = k2  k3 = k3
  r1 = r1  r2 = r2  r3 = r3
  None = None
  Key = {k1, k2}
  InitKeys <- TwoKeys
  Request = {r1, r2}
  Route <- AllCatchAll
  Replies = {"broken", "auth"}
  Probers = {"background"}
  EditableKeys = {}
  MaxRpm = 4
  FloorRpm = 1
  RpmWindow = 2
  Duration <- Ticks
  NearExpiry = 1
  Pool429Window = 1
  Pool429Keys = 2
  PoolPause = 1
  FailCap = 2
  MaxAttempts = 2
  Passes = 2
  MaxNetworkErrors = 2
  MaxExhaustedWaits = 1
  SemCap = 1
  CircuitAfter = 2
  CircuitReset = 1
PROPERTIES DeadKeysStayDead
