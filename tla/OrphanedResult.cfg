SPECIFICATION Spec
CONSTANTS
  None = None
  Call = {"c0", "c1"}
  Chunks <- SomeChunks
  MaxChunks = 4
INVARIANTS ResultsKeepTheirCalls
CHECK_DEADLOCK FALSE
