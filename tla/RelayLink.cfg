SPECIFICATION FairSpec
CONSTANTS
  Session = s1
  Ids = {s1}
  Plugins = {l1, l2}
  Phones = {p1, p2}
  Ephemerals = {p1, p2}
  NoConn = none
  NoPeer = nobody
  KeyIds = {1, 2}
  MaxHellos = 2
  Admission <- OneToken
  Bodies <- LinkBodies
  MaxObjects = 2
  MaxSessions = 1
  MaxPhones = 2
  MaxCached = 1
  MaxKeySets = 3
  Rotation = 1
  CacheSize = 2
  Nonces = {1}
  MaxCommands = 1
  Devices = {a}
  MaxFaults = 1
  Fragile = {p1}
INVARIANTS LinkTypeOK KeyAgreement CommandsReadable
PROPERTIES FirstPhoneGoesLive
CHECK_DEADLOCK FALSE
