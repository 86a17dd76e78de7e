SPECIFICATION FairSpec
CONSTANTS
  None = None
  Call = {"c0", "c1"}
  Chunks <- SomeChunks
  MaxChunks = 4
INVARIANTS TypeOK EveryWordArrives SameUnstreamed RoundTrip
PROPERTIES WellFormed EveryReplyEnds
CHECK_DEADLOCK FALSE
