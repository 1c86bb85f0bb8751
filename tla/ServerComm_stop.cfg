CONSTANTS
  MaxServers = 2
SPECIFICATION FairSpec
INVARIANTS
  TypeOK
  QuietAfterStop
PROPERTIES
  InitOnce
  StopReturns
