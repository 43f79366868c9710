SPECIFICATION Spec
CONSTANTS
  Clients = {c1}
  Task = task
  Loop = loop
  Timer = timer
  Ssids = {s1}
  NoSsid = nossid
  Calls = {"connect", "delete", "disconnect", "restore", "wps"}
  MaxCalls = 2
  MaxFaults = 2
  MaxEvents = 4
  MayRefuse = TRUE
INVARIANTS
  TypeOK
  ConnectedBitFollowsLink
  ToldWhatBitSays
  JsonOkOnlyWhileConnected
  TimerOnlyWhileDown
  CmdBitIsCovered
CHECK_DEADLOCK FALSE
