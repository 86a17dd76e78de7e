SPECIFICATION Spec
CONSTANTS
  k1 = k1  k2 = k2  k3 = k3
  r1 = r1  r2 = r2  r3 = r3
  None = None
  Key = {k1, k2, k3}
  InitKeys <- ThreeKeys
  Request = {r1, r2}
  Route <- Direct
  Replies = {"ok", "rate", "slow", "noconnect", "exhausted", "gateway"}
  Probers = {}
  EditableKeys = {}
  MaxRpm = 2
  FloorRpm = 1
  RpmWindow = 1
  Duration <- Ticks
  NearExpiry = 1
  Pool429Window = 1
  Pool429Keys = 2
  PoolPause = 1
  FailCap = 2
  MaxAttempts = 2
  Passes = 1
  MaxNetworkErrors = 2
  MaxExhaustedWaits = 1
  SemCap = 1
  CircuitAfter = 2
  CircuitReset = 1
INVARIANTS TypeOK ExactLoad ClaimsReleased
PROPERTIES BlamelessKeys LeastLoadedFirst NoClaimWhilePaused FullWorkersAreNoFailure
