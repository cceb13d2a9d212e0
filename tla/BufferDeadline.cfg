CONSTANTS
  MaxTime = 3
  MaxSets = 5
  MaxCtxs = 2
  MaxCallbacks = 2
  PendingMod = 3
  Readers = {r1, r2}
  LimitCount = 2
  MaxWrites = 2
  Calls = 3
  JsTime = 3
  JsCalls = 5
SPECIFICATION MCSpec
INVARIANTS NeverEarly DoneChannels ContextFollowsDone NoLostWakeup EOFIsFinal
PROPERTIES Releases Implements
CHECK_DEADLOCK FALSE
