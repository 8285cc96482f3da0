\* Scripts longer than MaxStatements are among them; a script ends, so CHECK_DEADLOCK is off.
CONSTANTS
  lite = lite  net = net  my = my  spare = spare  NoName = NoName  NoIdentity = NoIdentity
  Registry <- OnlyLite
  Default = lite
  DialectOf <- OneOfEach
  AllowWrites = TRUE
  Writable = {lite}
  MaxStatements = 3
  Scripts <- ShortScripts
SPECIFICATION Spec
INVARIANTS EveryScriptAtomic
CHECK_DEADLOCK FALSE
