\* The statement of w1 ends, that of r1 may not. Every call and dispose happen once, so the system stops.
CONSTANTS
  w1 = w1
  w2 = w2
  r1 = r1
  mem = mem
  net = net
  Ops = {w1, r1}
  Engines = {net}
  EngineOf <- OnNetwork
  Static = {}
  Cancellable = {net}
  Remote = {}
  Async = {w1}
  Writes = {w1}
  Ends = {w1}
  MaxWorkers = 1
  PoolLimit = 1
SPECIFICATION FairSpec
PROPERTIES
  EveryCallAnswered
  EverythingReturned
  ExpiredWriteStaysOut
CHECK_DEADLOCK FALSE
