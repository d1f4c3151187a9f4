SPECIFICATION SlideSpec
CONSTANTS
  DeckSize = 3
  Order <- MCOrder
  Texts = {t1, t2}
  NoSlide = noslide
  NoToken = notoken
  NoImage = noimage
  Refused = refused
  CacheLimit = 2
  MaxMoves = 3
  Ways = {"direct"}
  MaxUnread = 1
  MaxAsked = 1
CHECK_DEADLOCK FALSE
PROPERTY ServedImageIsOfItsSlide
