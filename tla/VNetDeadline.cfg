CONSTANTS
  Conns = {c1}
  IPs = {eth}
  AnyIPs = {any}
  IPv6 = {}
  Ports = {p1}
  Remotes = {r1}
  Peers = {none}
  NoRemote = none
  Readers = {c1}
  MaxReads = 1
  QueueSize = 1
SPECIFICATION Spec
INVARIANT DeadlineHolds
CHECK_DEADLOCK FALSE
