\* A server, one under an alias, one the registry does not know and one that SQLAlchemy does not know; three tables. A call is made once, so the system stops.
CONSTANTS
  Registry <- InOrder
  Default = "maria"
  NoName = NoName
  NoIdentity = NoIdentity
  Blank = Blank
  Broken = Broken
  BackendOf <- Backends
  Installed = {"postgresql", "mariadb", "duckdb"}
  Tables = {1, 2, 3}
  Limits = {0, 1, 3}
  MaxRows = 2
SPECIFICATION Spec
INVARIANTS
  TypeOK
  ReportIsAboutTarget
  PingAllComplete
  CapabilitiesTrue
  EveryNameOnce
CHECK_DEADLOCK FALSE
