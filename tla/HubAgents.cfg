SPECIFICATION FairSpec
CONSTANTS
  o1 = o1  o2 = o2  w1 = w1  w2 = w2
  Root = {o1, o2}
  Worker = {w1}
  MaxIterations = 2
  MaxMail = 1
INVARIANTS TypeOK RunningIsActive NoGhosts CloseStopsEverything
PROPERTIES StatusIsFinal OthersEnd
CHECK_DEADLOCK FALSE
