SPECIFICATION MCSpec
CONSTANTS
  Ids = {s1, s2}
  Plugins = {l1, l2}
  Phones = {p1, p2, p3, s}
  NoConn = none
  Late = {p3}
  Other = {s2}
  Strangers = {s}
  Wrong = ""
  Admission <- MCAdmission
  Scenes <- MCScenes
  KeyIds = {1, 2}
  Bodies = {0, 1}
  MaxObjects = 2
  MaxSessions = 1
  MaxPhones = 2
  MaxCached = 1
SYMMETRY Symmetry
VIEW View
INVARIANTS RelayTypeOK CacheBelongsToHello HelloBeforeFrames NoMessageTwice PhonesBounded
PROPERTIES SlotReleasedByOwner
CHECK_DEADLOCK FALSE
