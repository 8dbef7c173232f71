SPECIFICATION FairSpec
CONSTANTS
  c1 = c1
  c2 = c2
  c3 = c3
  Cmds = {c1, c2}
  Other = other
  Nobody = nobody
  Rule = "cleanup"
  Timely = FALSE
  KeepersMortal = TRUE
INVARIANT OneAtWork
PROPERTY RoundEnds
CHECK_DEADLOCK FALSE
