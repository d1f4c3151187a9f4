SPECIFICATION Spec
CONSTANTS
  Session = s1
  Ids = {s1}
  Plugins = {l1, l2}
  Phones = {p1, p2}
  Ephemerals = {p1, p2}
  NoConn = none
  NoPeer = nobody
  KeyIds = {1, 2}
  MaxHellos = 2
  Admission <- OneToken
  Bodies <- LinkBodies
  MaxObjects = 2
  MaxSessions = 1
  MaxPhones = 2
  MaxCached = 1
  MaxKeySets = 3
  Rotation = 2
  CacheSize = 2
  Nonces = {1}
  MaxCommands = 1
  Devices = {a, b}
  MaxFaults = 0
  Fragile = {}
INVARIANTS JoiningPhoneCanRead
CHECK_DEADLOCK FALSE
