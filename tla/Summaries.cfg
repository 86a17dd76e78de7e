SPECIFICATION Spec
CONSTANTS
  c1 = c1  c2 = c2  t1 = t1  t2 = t2
  NoTask = NoTask
  Client = {c1, c2}
  TaskId = {t1, t2}
  Histories <- Turns
  KeyLen = 1
  RollingCap = 1
  Budget = 5
  Target = 4
  SystemSize = 1
  SystemSpare = 2
  SummarySize = 1
  SummarySpare = 0
  NoticeSize = 1
  NoticeSpare = 1
  KeepRecent = 2
SYMMETRY Clients
INVARIANTS TypeOK ServedIsOwnHistory NoOrphanedToolResult ServedFits SingleFlight NeverBackwards
CHECK_DEADLOCK FALSE
