SPECIFICATION Spec
CONSTANTS
  Clients = {v}
  User = none
  Addresses = {a, b}
  Home = a
  Ids = {i1, i2, i3, i4}
  Passwords = {p, q}
  AuthTypes = {"allow", "basic", "digest", "ruuvi", "default", "deny", "bearer"}
  KeySets = {{}, {"ro"}, {"rw"}, {"ro", "rw"}}
  None = none
  MaxSessions = 2
SYMMETRY IdSymmetry
INVARIANTS
  TypeOK
  SessionsMatchCredentials
  LogoutEndsSession
PROPERTIES
  OnlyAuthorisedRequestsAct
