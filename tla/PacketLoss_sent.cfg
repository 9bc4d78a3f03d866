SPECIFICATION FairSpec
CONSTANTS
  NumPackets = 4
  BatchSize = 1
INVARIANTS
  UnsentMeansCutShort
  CountIsDistinct
PROPERTIES
  EndsOnceOpen
  ShutdownEnds
CHECK_DEADLOCK FALSE
