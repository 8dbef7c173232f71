SPECIFICATION FairSpec
CONSTANTS
  Graphs = {"g1", "g2"}
  Caches = {"k1", "k2"}
  NoCache = "-"
  Plan <- ABPlan
  GraphSize = 1
  CacheSize = 1
  Room = 3
  Runs = 2
  Mortal = TRUE
INVARIANT CachedOnWhole
INVARIANT KeepsToRoom
INVARIANT AloneOnPhone
 
PROPERTY ChainEnds
CHECK_DEADLOCK FALSE
