SPECIFICATION FairSpec
CONSTANTS
  Bound = 1
  Chunk = 1
  MaxRequests = 2
PROPERTIES
  FailureIsNoticed
  ShutdownEndsAll
  LettingGoEndsAll
CHECK_DEADLOCK FALSE
