SPECIFICATION FairSpec
CONSTANTS
  w1 = w1
  w2 = w2
  A = A
  B = B
  D = D
  Waits = {w1, w2}
  ScriptOf <- TwoScripts
  Scripts = {A, B, D}
  Hands = {h1}
  Commands <- OthersCommands
  Others = {other}
  Overlap = FALSE
  Mortal = {w1, other}
  Interleaved = FALSE
  Patient = TRUE
  InitLines <- OthersEntry
  Absent = Absent
  Garbage = Garbage
  None = None
  NoKey = NoKey
INVARIANT OneHolder
PROPERTY TurnOrder
PROPERTY PhoneShared
PROPERTY EveryWaitServed
CHECK_DEADLOCK FALSE
