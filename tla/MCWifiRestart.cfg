SPECIFICATION Spec
CONSTANTS
  Callers = {c1, c2}
  Manager = m
  NoOne = nobody
  NoQueue = none
  QueueLength = 3
  Followed = {"IS_WORKING", "STA_ACTIVE", "AP_ACTIVE", "WIFI_CONNECTED"}
INVARIANTS
  RestartCanSucceed
