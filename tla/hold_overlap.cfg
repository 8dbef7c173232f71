SPECIFICATION HoldFairSpec
CONSTANTS
  Procs = {p1, p2, p3}
  Absent = Absent
  Unowned = Unowned
  Forcers = {p1}
  Overlap = TRUE
  Orphans = TRUE
INVARIANT NoLeakedHold
PROPERTY DeadNeverBlock
CHECK_DEADLOCK FALSE
