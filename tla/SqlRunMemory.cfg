\* Two calls on an in-memory database and dispose. Every call and dispose happen once, so the system stops.
CONSTANTS
  w1 = w1
  w2 = w2
  r1 = r1
  mem = mem
  net = net
  Ops = {w1, r1}
  Engines = {mem}
  EngineOf <- OnMemory
  Static = {mem}
  Cancellable = {mem}
  Remote = {}
  Async = {w1}
  Writes = {w1}
  Ends = {}
  MaxWorkers = 2
  PoolLimit = 1
SPECIFICATION Spec
INVARIANTS
  TypeOK
  ConnectionsExclusive
  DatabaseLostByExpiryOnly
  NothingAfterDispose
PROPERTIES
  ImplementsContract
  KeepsLife
CHECK_DEADLOCK FALSE
