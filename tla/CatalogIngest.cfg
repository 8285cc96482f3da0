\* The mapper ends, so TLC would call the end a deadlock.
CONSTANTS
  a = a  b = b  c = c  d = d
  Words <- SmallWords
  Sources <- SmallSchemas
  Requests = {1, 2, 3, 5, 9}
  MaxObjects = 9
  MaxRows = 5
  MaxBytes = 8
SPECIFICATION Spec
INVARIANTS EveryNodeLinked EveryKeyKept NodesDistinct CatalogIsHonest
CHECK_DEADLOCK FALSE
