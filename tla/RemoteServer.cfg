SPECIFICATION RemoteSpec
CONSTANTS
  Ports = {p1, p2}
  DefaultPort = p1
  RelayUrls = {u1, u2}
  NoUrl = nourl
  Shorthand <- MCShorthand
  Found <- MCFound
  Office = office
  Shutdowns = {t1, t2}
  Clients = {c1, c2}
  NoClient = noclient
  EphemeralPort = ephemeral
  NoPort = noport
  NoListener = nolistener
  Nowhere = nowhere
  PortTexts = {p2, bad}
  UrlTexts = {nourl, short, u2}
  BadPort = bad
  u1 = u1
  short = short
  MaxCommands = 3
  MaxSaves = 1
  MaxMishaps = 1
CHECK_DEADLOCK FALSE
INVARIANTS
  RemoteTypeOK
  TransportsAreOwned
  OfferedUrlIsBacked
  SettingsComeBack
PROPERTIES
  SavingNeverStarts
  CurrentClientConnects
  TerminationCleansUp
