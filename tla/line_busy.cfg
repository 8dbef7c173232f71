SPECIFICATION FairSpec
CONSTANTS
  w1 = w1
  w2 = w2
  A = A
  B = B
  D = D
  Waits = {w1, w2}
  ScriptOf <- TwoScripts
  Scripts = {A, B, D}
  Hands = {h1}
  Commands <- WaitersCommand
  Others = {other}
  Overlap = FALSE
  Mortal = {}
  Interleaved = TRUE
  Patient = FALSE
  InitLines <- EmptyLine
  Absent = Absent
  Garbage = Garbage
  None = None
  NoKey = NoKey
INVARIANT TypeOK
PROPERTY LineHeals
CHECK_DEADLOCK FALSE
