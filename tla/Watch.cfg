SPECIFICATION FairWatchSpec
CONSTANTS
  TableSize <- MCTableSize
  InitMem <- MCInitMem
  Calls <- PollCalls
  MaxCalls = 3
  MaxDials = 1
  TxMod = 65536
  UnitID = 1
  ReuseAfterError = TRUE
  Count = 2
  Width = 2
  Durations <- MCDurations
  Interval = 5
  Backoffs <- MCBackoffs
INVARIANTS
  BackoffInBounds
  EmitsOwnAnswer
  CountExact
PROPERTIES
  InterruptReturns
  IsWatchProcess
CHECK_DEADLOCK FALSE
