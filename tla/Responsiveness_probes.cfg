SPECIFICATION Spec
CONSTANTS
  MaxLoads = 2
  Duration = 2
  Policies = {"Retire"}
  LoadOnly = FALSE
  MaxConns = 3
  MaxProbes = 2
INVARIANT
  ProbesKeepGoing
CHECK_DEADLOCK FALSE
