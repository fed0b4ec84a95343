SPECIFICATION Spec
CONSTANTS
  TableSize <- MCTableSize
  InitMem <- MCInitMem
  Calls <- CoreCalls
  MaxCalls = 4
  MaxDials = 3
  TxMod = 2
  UnitID = 1
  ReuseAfterError = FALSE
INVARIANTS
  TypeOK
  FramingHolds
PROPERTIES
  ImplementsRegisterBank
CHECK_DEADLOCK FALSE
