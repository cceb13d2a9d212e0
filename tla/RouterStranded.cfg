CONSTANTS
  Root = wan
  Children = {}
  Apps = {a1}
  MinDelay = 1
  QueueSize = 2
  NATMayFail = FALSE
  MaxStarts = 2
  MaxChunks = 1
  MaxTime = 2
SPECIFICATION FairSpec
PROPERTIES QueuedIsRouted
CHECK_DEADLOCK FALSE
