SPECIFICATION FairSpec
CONSTANTS
  k1 = k1  k2 = k2  k3 = k3
  r1 = r1  r2 = r2  r3 = r3
  None = None
  Key = {k1}
  InitKeys <- OneKey
  Request = {r1, r2}
  Route <- Shims
  Replies = {"ok", "goaway", "slow", "exhausted", "gateway", "reject"}
  Probers = {"background"}
  EditableKeys = {k1}
  MaxRpm = 2
  FloorRpm = 1
  RpmWindow = 1
  Duration <- Ticks
  NearExpiry = 1
  Pool429Window = 1
  Pool429Keys = 2
  PoolPause = 1
  FailCap = 2
  MaxAttempts = 1
  Passes = 2
  MaxNetworkErrors = 2
  MaxExhaustedWaits = 1
  SemCap = 1
  CircuitAfter = 2
  CircuitReset = 1
INVARIANTS NoPhantomLoad RpmRespected SemaphoreRespected
PROPERTIES Answered PhaseMovesOn
