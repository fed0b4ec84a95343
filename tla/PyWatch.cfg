SPECIFICATION FairPyWatchSpec
CONSTANTS
  Limits <- MCLimits
  OutRoom = 2
  ErrRoom = 2
  MaxValues = 4
INVARIANTS
  ExhaustedIsComplete
  NoProcessLeft
PROPERTIES
  ClosingEnds
  ProcessEnds
CHECK_DEADLOCK FALSE
