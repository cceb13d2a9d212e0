CONSTANTS
  Raddrs = {ra, rb}
  Acceptors = {a1}
  MaxConns = 3
  Backlog = 1
  ReadMayFail = TRUE
SPECIFICATION FairSpec
INVARIANTS Bookkeeping SocketOutlivesConns
PROPERTIES CallsReturn NothingLeaks
CHECK_DEADLOCK FALSE
