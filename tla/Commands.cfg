SPECIFICATION FairCommandSpec
CONSTANTS
  TableSize <- MCTableSize
  InitMem <- MCInitMem
  Calls <- PairCalls
  MaxCalls = 3
  MaxDials = 1
  TxMod = 65536
  UnitID = 1
  ReuseAfterError = TRUE
  MaxLines = 3
  Width = 2
INVARIANTS
  NothingWithoutConsent
  DryRunNeverDials
  InOrderOnce
  RefusedMeansUndone
  OkMeansDone
PROPERTIES
  CommandReturns
  IsOtcatProcess
CHECK_DEADLOCK FALSE
