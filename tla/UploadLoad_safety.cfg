SPECIFICATION Spec
CONSTANTS
  Bound = 3
  Chunk = 2
  MaxRequests = 2
INVARIANTS
  TypeOK
  RelayExact
  LoopNotAhead
  FailureIsGenuine
PROPERTY
  ImplementsContract
CHECK_DEADLOCK FALSE
