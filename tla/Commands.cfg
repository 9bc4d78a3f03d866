SPECIFICATION FairSpec
CONSTANTS
  MaxLength = 2
  MaxTransfers = 1
INVARIANTS
  TokenStaysInScope
  LegsRunAlone
  ReportIsWhole
PROPERTY
  Exits
CHECK_DEADLOCK FALSE
