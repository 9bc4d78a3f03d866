SPECIFICATION FairSpec
CONSTANTS
  MaxLoads = 2
  Duration = 3
  Policies = {"Retire", "Abort"}
  LoadOnly = FALSE
  MaxConns = 3
  MaxProbes = 2
INVARIANTS
  TypeOK
  AtMostOneProbe
  SelfFollowsForeign
  RpmNeedsLoad
  NoDegradedResult
  LoadsSeenTruly
PROPERTIES
  FailuresOnlyGrow
  Terminates
CHECK_DEADLOCK FALSE
