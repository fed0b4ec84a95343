SPECIFICATION DriverSpec
CONSTANTS
  TableSize <- MCTableSize
  InitMem <- MCInitMem
  Numerals <- MCNumerals
  Counts <- MCCounts
  LiteralLists <- MCLiterals
  ByteSize = 16
INVARIANTS
  DriverTypeOK
  ReadsBackWritten
  PlanIsWritten
  ReadsTheCells
  NumbersNameOffsets
CHECK_DEADLOCK FALSE
