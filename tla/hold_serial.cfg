SPECIFICATION HoldSpec
CONSTANTS
  Procs = {p1, p2, p3, p4}
  Absent = Absent
  Unowned = Unowned
  Forcers = {}
  Overlap = FALSE
  Orphans = FALSE
INVARIANT UserIsNamed
PROPERTY ImplementsPhoneUse
SYMMETRY Symmetry
CHECK_DEADLOCK FALSE
