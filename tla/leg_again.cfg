SPECIFICATION FairSpec
CONSTANTS
  Tries = 2
  None = None
INVARIANT TypeOK
PROPERTY StatusExplained
PROPERTY LegEnds
CHECK_DEADLOCK FALSE
