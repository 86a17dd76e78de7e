SPECIFICATION FairSpec
CONSTANTS
  p1 = p1  p2 = p2  p3 = p3
  k1 = k1
  torn = torn  Torn = {torn}
  Proxy = {p1, p2, p3}
  Key = {k1}
  MaxBackups = 1
  First = p1
  InitKeys = {k1}
  Desktop = {p3}
  Editable = {k1}
INVARIANTS TypeOK KeyFileWhole PromisesKept SomebodyServes
PROPERTIES OverwrittenIsBackedUp GapsClose
CHECK_DEADLOCK FALSE
