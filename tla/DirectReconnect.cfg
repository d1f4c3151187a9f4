SPECIFICATION AutomaticSpec
CONSTANTS
  Pages = {a}
  MaxHellos = 2
  MaxDerivations = 2
  MaxEvents = 2
  MaxOrphans = 1
  Ephemerals <- MCEphemerals
  NoPeer = none
  Nonces = {n1, n2}
  MaxKeySets = 2
  Rotation = 2
  CacheSize = 2
  Faults = {"drop"}
  MaxFaults = 1
CHECK_DEADLOCK FALSE
PROPERTY StreamReconnects
