SPECIFICATION Spec
CONSTANTS
  NumPackets = 3
  BatchSize = 2
INVARIANT
  CompleteRunSentAll
CHECK_DEADLOCK FALSE
