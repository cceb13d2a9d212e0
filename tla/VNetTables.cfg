CONSTANTS
  Locals = {la, lb}
  Remotes <- MCRemotes
  Ports <- MCPorts
  LifeTime = 1
  MaxTime = 2
  MaxMappings = 2
  Conns = {c1, c2, c3}
  NetPorts = {p1, p2}
  conn = conn
  lo = lo
  eth = eth
  lo6 = lo6
  any = any
  any6 = any6
  r1 = r1
  r2 = r2
  none = none
SPECIFICATION TablesSpec
SYMMETRY Symmetry
INVARIANTS MapsAgree BehavesAsTyped BindExclusive RightConn NoneStuck ProxyStops
CHECK_DEADLOCK FALSE
