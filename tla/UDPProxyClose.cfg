CONSTANTS
  Servers = {s1}
  Clients = {a}
  Callers = {c1, c2}
  MaxWorkers = 2
SPECIFICATION Spec
INVARIANT ClosesAll
CHECK_DEADLOCK FALSE
