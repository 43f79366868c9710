SPECIFICATION FairSpec
CONSTANTS
  Tasks = {t1, t2, t3}
  NoTask = nobody
  MaxPhones = 2
  Capacity = 2
  Deletes = TRUE
INVARIANTS
  TypeOK
  OneServer
  NothingLeft
  WatchedIsFed
PROPERTIES
  StopIsObeyed
  StartIsObeyed
