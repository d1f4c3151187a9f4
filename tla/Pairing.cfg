SPECIFICATION PairingSpec
CONSTANTS
  Workers = {w1}
  Pipes = {p1, p2}
  Pictures = {f1, f2}
  NoPicture = nopicture
  MaxMishaps = 1
CHECK_DEADLOCK FALSE
INVARIANTS
  QrImagesAreRemoved
  FirstPhoneStartsShow
PROPERTIES
  OpenDialogIsRight
  TunnelEnds
