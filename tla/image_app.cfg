SPECIFICATION FairSpec
CONSTANTS
  Runs = 2
  Screens = 2
  Steps = 2
  Autorun = TRUE
INVARIANT TypeOK
INVARIANT OneGraphAtATime
INVARIANT ScreenAtRestIsTrue
PROPERTY CancelIsItsOwn
PROPERTY ButtonComesBack
CHECK_DEADLOCK FALSE
