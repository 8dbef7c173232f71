SPECIFICATION Spec
CONSTANTS
  Absent = Absent
  Blank = Blank
  Infinite = 99
  Shift62 = 99
  ByName <- SortedNames
  Repos <- OriginAndFork
  Curateds <- CuratedFilesSet
  HandMade <- ByHand
  SizeOf <- Sizes
  ContextOf <- Contexts
  ControlOf <- Controls
  Options <- Asked
  MaxCommits = 4
  Classes = {Absent, "mid", "low"}
INVARIANT TypeOK
INVARIANT ReadersAgree
INVARIANT KeepsToRules
INVARIANT VerifiedMeansDescribed
INVARIANT PinnedGetsDescribed
CHECK_DEADLOCK FALSE
