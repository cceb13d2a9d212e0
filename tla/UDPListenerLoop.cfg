CONSTANTS
  Raddrs = {ra}
  Acceptors = {a1}
  MaxConns = 1
  Backlog = 1
  ReadMayFail = FALSE
SPECIFICATION Spec
INVARIANT ReadLoopOutlivesConns
CHECK_DEADLOCK FALSE
