SPECIFICATION FairSpec
CONSTANTS
  Clients = {c1, c2}
  NoClient = nobody
  LastChan = 3
  MaxLosses = 3
  DropsScan = TRUE
INVARIANTS
  TypeOK
  OneChain
  SemaphoreHasOneUser
  ScanBitIsCovered
  OrderIsObeyed
  ScanIsComplete
PROPERTIES
  ScanReturns
CHECK_DEADLOCK FALSE
