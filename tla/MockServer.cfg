SPECIFICATION FairServerSpec
CONSTANTS
  MaxConns = 2
  Size = 2
  Blocks <- MCBlocks
  InitBlock <- MCFresh
  Seed <- MCSeed
  MaxRequests = 3
INVARIANTS
  NothingAfterClose
  CloseIsNotStuck
PROPERTIES
  ServesAtomically
  CloseReturns
  ProbeEnds
CHECK_DEADLOCK FALSE
