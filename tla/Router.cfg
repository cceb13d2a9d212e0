CONSTANTS
  Size <- Sizes
  Nets = {"a", "b"}
  Configs <- SetUps
  LastID = 2
  Extra <- Extras
  MaxAddrs = 2
  wan = wan
  lan = lan
  a1 = a1
  a2 = a2
  Depth = 3
  Names = {"host"}
  IPs = {"p", "q"}
SPECIFICATION NetworkSpec
INVARIANTS Stoppable InTurn NoneStuck Reachable NamesResolve
CHECK_DEADLOCK FALSE
