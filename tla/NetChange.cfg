CONSTANTS
  Callers = {c1, c2}
  first = 1
  Ifaces = {1, 2}
  eth = eth
  up = up
  Names = {eth, tun, hidden}
  Flags = {up}
  Matching = {eth, tun}
  Addrs = {none, a1}
  NoAddrs = none
  Absent = absent
  MaxChanges = 2
SPECIFICATION MCSpec
INVARIANTS InStep NoChangeMissed
PROPERTIES ChangeReported
CHECK_DEADLOCK FALSE
