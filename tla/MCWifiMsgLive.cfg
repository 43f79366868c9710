SPECIFICATION FairSpec
CONSTANTS
  Clients = {c1}
  Starter = c1
  Task = task
  Timer = timer
  NoThread = nobody
  Capacity = 3
  Window = 2
PROPERTIES
  CallsReturn
  WatchdogIsFed
  StopEndsTask
