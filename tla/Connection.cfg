SPECIFICATION FairSpec
CONSTANT
  MaxStep = 2
INVARIANTS
  TypeOK
  ProbeFiguresAreExact

  
CHECK_DEADLOCK FALSE
