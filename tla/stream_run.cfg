SPECIFICATION FairSpec
CONSTANTS
  Count = 2
  Rounds = 2
  Ab = 1
  Lengths = {0, 3, 4, 22}
  Caps = {0, 2}
  Samples <- TwoLengths
  PromptOf <- Prompts
  Options <- CommandLines
  Q = 2
  S = 3
  F0 = 3
  F = 4
  Hop = 2
  NFft = 6
  Win = 4
  Slack = 2
INVARIANT WindowIsItsOwn
INVARIANT DecoderIsItsOwn
INVARIANT WholeUtterance
PROPERTY RunEnds
CHECK_DEADLOCK FALSE
