SPECIFICATION SlideSpec
CONSTANTS
  DeckSize = 3
  Order <- MCOrder
  Texts = {t1, t2}
  NoSlide = noslide
  NoToken = notoken
  NoImage = noimage
  Refused = refused
  CacheLimit = 2
  MaxMoves = 2
  Ways = {"direct", "relay"}
  MaxUnread = 1
  MaxAsked = 1
CHECK_DEADLOCK FALSE
INVARIANTS
  SlideTypeOK
  ImagesMatchRevision
  ShownOrOnItsWay
PROPERTIES
  NextGoesWhereReported
  ImageCatchesUp
