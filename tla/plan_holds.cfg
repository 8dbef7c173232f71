SPECIFICATION FairSpec
CONSTANTS
  Lines = 3
  Plan <- GatePlan
  Holds = 3
INVARIANT TypeOK
INVARIANT VerdictIsCurrent
INVARIANT StartedOnEvidence
PROPERTY WalkEnds
CHECK_DEADLOCK FALSE
