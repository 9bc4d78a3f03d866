SPECIFICATION Spec
CONSTANT
  MaxStep = 2
INVARIANT
  LatencyIsHandshake
CHECK_DEADLOCK FALSE
