SPECIFICATION Spec
CONSTANTS
  c1 = c1
  c2 = c2
  c3 = c3
  Cmds = {c1, c2, c3}
  Other = other
  Nobody = nobody
  Rule = "last"
  Timely = TRUE
  KeepersMortal = FALSE
INVARIANT UnderHold
PROPERTY ReleasedMeansFree
SYMMETRY Symmetry
CHECK_DEADLOCK FALSE
