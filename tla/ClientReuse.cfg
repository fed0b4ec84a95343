SPECIFICATION Spec
CONSTANTS
  TableSize <- MCTableSize
  InitMem <- MCInitMem
  Calls <- CoreCalls
  MaxCalls = 5
  MaxDials = 1
  TxMod = 65536
  UnitID = 1
  ReuseAfterError = TRUE
INVARIANTS
  OwnAnswer
  CleanExchange
  NoForeignAnswer
CHECK_DEADLOCK FALSE
