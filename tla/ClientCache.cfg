\* Two calls, one reset, four environments. Every call is made once; nobody has to change the settings or reset.
CONSTANTS
  writer = writer
  reader = reader
  Blank = Blank
  Malformed = Malformed
  Broken = Broken
  Parsed <- Known
  Trim <- Stripped
  MaxNameLength = 128
  NameLength <- Lengths
  MaxConnections = 64
  Environments <- Several
  Calls = {writer, reader}
  Asked <- AllMain
  WriteCalls = {writer}
  MaxResets = 1
  Resetter = Resetter
SPECIFICATION FairSpec
INVARIANTS
  TypeOK
  OneOpenClient
  SettledConfiguration
  DialectsSurvive
PROPERTIES
  RevokedWritesDoNotStart
  GetApiReturns
  ClientsLive
