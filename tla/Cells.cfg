\* Leaves around a cell limit of 100 bytes, nested four deep. A cell is filled once.
CONSTANTS
  Values <- SomeValues
  StrSize <- Sizes
  MaxCell = 100
  MaxItems = 2
  MaxDepth = 2
SPECIFICATION Spec
INVARIANTS
  CellBounded
  LossIsMarked
  MarkedOnlyIfLost
CHECK_DEADLOCK FALSE
