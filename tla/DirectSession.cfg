SPECIFICATION DirectSpec
CONSTANTS
  Pages = {a}
  MaxHellos = 3
  MaxDerivations = 2
  MaxEvents = 2
  MaxOrphans = 1
  Ephemerals <- MCEphemerals
  NoPeer = none
  Nonces = {n1}
  MaxKeySets = 2
  Rotation = 2
  CacheSize = 2
  Faults = {"drop", "busy", "lost"}
  MaxFaults = 1
CHECK_DEADLOCK FALSE
INVARIANTS
  DirectTypeOK
  FramesReadable
  NegotiatedCommandsReadable
PROPERTIES
  RetryRecovers
  KeysRotate
