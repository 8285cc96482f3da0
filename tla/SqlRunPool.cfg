\* Three calls, one worker, two slots, one pooled network connection. Every call and dispose happen once, so the system stops.
CONSTANTS
  w1 = w1
  w2 = w2
  r1 = r1
  mem = mem
  net = net
  Ops = {w1, w2, r1}
  Engines = {net}
  EngineOf <- OnNetwork
  Static = {}
  Cancellable = {net}
  Remote = {net}
  Async = {w1, w2}
  Writes = {w1, w2}
  Ends = {}
  MaxWorkers = 1
  PoolLimit = 1
SPECIFICATION OpenSpec
SYMMETRY TwoWriters
INVARIANTS
  SlotAccounting
  AnswerIsTrue
CHECK_DEADLOCK FALSE
