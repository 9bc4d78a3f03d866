SPECIFICATION Spec
CONSTANTS
  KeepNum = 19
  KeepDen = 20
  MaxTime = 3
  Latency = {1, 3}
  SlowPhases = {{}, {"tcp"}, {"tls", "http"}}
  Chunk = {0, 2, 3}
  MaxProbes = 3
  MaxEvents = 6
  MaxTotal = 6
INVARIANTS
  WindowIsExact
  RpmNeedsBothKinds
  BytesOfWindow
  SlowProbesNeverHelp
CHECK_DEADLOCK FALSE
