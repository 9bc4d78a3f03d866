SPECIFICATION FairSpec
CONSTANT
  Size = 3
INVARIANTS
  TypeOK
  CompleteMeansAll
  FailureIsGenuine
PROPERTIES
  ImplementsContract
  NoZombie
  WaiterAnswered
CHECK_DEADLOCK FALSE
