SPECIFICATION Spec
CONSTANTS
  Clients = {c1}
  Starter = c1
  Task = task
  Timer = timer
  NoThread = nobody
  Capacity = 3
  Window = 8
INVARIANTS
  TypeOK
  MutexInv
  NoSendOnDeletedQueue
  AtMostOneFeed
PROPERTIES
  ImplementsChannel
CHECK_DEADLOCK FALSE
