SPECIFICATION FairSpec
CONSTANTS
  Clients = {u, v}
  User = u
  Addresses = {a, b}
  Home = a
  Ids = {i1, i2, i3, i4}
  Passwords = {p}
  AuthTypes = {"basic", "ruuvi"}
  KeySets = {{}}
  None = none
  MaxSessions = 1
PROPERTIES
  ClientLogsIn
