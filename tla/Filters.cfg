CONSTANTS
  Callers = {r1}
  Closers = {k1, k2}
  ChunkSizes = {1, 2}
  Rates = {1, 2}
  Bursts = {1, 3}
  QueueSizes = {2, 3}
  DelayCallers = {r1, r2}
  SetDelays = {0, 2}
  Minute = 3
  DelayedChunks = 3
  DelayTime = 4
  BlockSize = 5
  Chances = {0, 9, 10, 35, 69, 100}
  BucketSize = 2
  ExtraDelays = {0, 1, 2}
  DupChunks = 2
  DupTime = 4
SPECIFICATION FiltersSpec
INVARIANTS Conforms Delivery NotEarly Accounted NoneStuck
CHECK_DEADLOCK FALSE
