SPECIFICATION Spec
CONSTANTS
  r1 = r1  r2 = r2
  m1 = m1  m2 = m2
  Nobody = Nobody
  Switched = {m1}
  Settings = {"on", "auto"}
  Request = {r1, r2}
  Model = {m1, m2}
  Kind <- OneOfEach
  Asked = {m1}
  Presets <- BothModels
  HostCount = 2
  BaseHost = 1
  HostRetry = 1
  ProviderCount = 1
  CacheMax = 1
  CacheTtl = 1
  CircuitAfter = 1
  CircuitReset = 2
INVARIANTS TypeOK RejectionIsFinal CacheIsSound
PROPERTIES NeverProlonged
