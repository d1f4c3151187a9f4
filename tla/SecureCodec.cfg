SPECIFICATION MCSpec
CONSTANTS
  MaxHellos = 4
  Ephemerals = {e1, e2}
  NoPeer = none
  Nonces = {n1, n2, n3}
  MaxKeySets = 3
  Rotation = 2
  CacheSize = 2
  MaxAccepted = 4
  MaxFrames = 4
INVARIANTS OffersArePaced KeyTableConsistent NoReplayWithinWindow
PROPERTIES PreviousKeySurvives KeySetsAreFinal
SYMMETRY Symmetry
CHECK_DEADLOCK FALSE
