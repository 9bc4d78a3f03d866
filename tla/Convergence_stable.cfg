SPECIFICATION Spec
CONSTANTS
  KeepNum = 19
  KeepDen = 20
  MAD = 2
  TolNum = 1
  TolDen = 20
  Rate = {100}
  Rpm = {340, 345}
  Intervals = 6
INVARIANTS
  NotStableInRamp
  LatchedWasMeasured
  MeasuredIsReported
CHECK_DEADLOCK FALSE
