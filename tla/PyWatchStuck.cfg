SPECIFICATION FairPyWatchSpec
CONSTANTS
  Limits <- MCLimits
  OutRoom = 2
  ErrRoom = 2
  MaxValues = 4
PROPERTIES
  NextReturns
CHECK_DEADLOCK FALSE
