SPECIFICATION FairSpec
CONSTANTS
  Clients = {c1}
  Task = task
  Loop = loop
  Timer = timer
  Ssids = {s1}
  NoSsid = nossid
  Calls = {"connect", "delete", "disconnect", "restore", "wps", "eth", "eth_link"}
  MaxCalls = 2
  MaxFaults = 2
  MaxEvents = 2
  MayRefuse = FALSE
PROPERTIES
  RestoresConnection
  LossIsRepaired
  StormNeedsTwoOrders
CHECK_DEADLOCK FALSE
