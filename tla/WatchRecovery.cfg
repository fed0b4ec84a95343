SPECIFICATION WatchSpec
CONSTANTS
  TableSize <- MCTableSize
  InitMem <- MCInitMem
  Calls <- OneRegister
  MaxCalls = 3
  MaxDials = 1
  TxMod = 65536
  UnitID = 1
  ReuseAfterError = TRUE
  Count = 0
  Width = 1
  Durations <- MCDurations
  Interval = 1
  Backoffs <- AnyBackoff
INVARIANTS
  OneRetryPerFailure
CHECK_DEADLOCK FALSE
