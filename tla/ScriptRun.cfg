\* Scripts longer than MaxStatements are among them; a script ends, so CHECK_DEADLOCK is off.
CONSTANTS
  lite = lite  net = net  my = my  spare = spare  NoName = NoName  NoIdentity = NoIdentity
  Registry <- FourConnections
  Default = spare
  DialectOf <- OneOfEach
  AllowWrites = TRUE
  Writable = {net, my, lite}
  MaxStatements = 3
  Scripts <- ShortScripts
SPECIFICATION Spec
INVARIANTS AllOrNothing AnswerIsTrue OnlyWhereChecked
CHECK_DEADLOCK FALSE
