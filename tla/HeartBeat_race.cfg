CONSTANTS
  NServers = 3
  MAX_HEARD_COUNT = 3
  BadAddresses = {2}
  MayLose = TRUE
SPECIFICATION FairSpec
INVARIANTS
  TypeOK
  InactiveWhenUnheard
PROPERTIES
  SilentDetected
  AnsweringReturns
