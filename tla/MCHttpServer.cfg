SPECIFICATION FairSpec
CONSTANTS
  Tasks = {t1, t2}
  NoTask = nobody
  App = app
  MaxRequest = 3
  MaxContent = 2
  NoLength = none
  MaxFragments = 2
  MaxChunks = 2
INVARIANTS
  EverythingReleased
  RequestFitsBuffer
PROPERTIES
  StopEndsServer
CHECK_DEADLOCK FALSE
