CONSTANTS
  ReadCallers = {r1, r2}
  WriteCallers = {w1}
  PacketCallers = {w1, w2}
  Capacity = 2
  MaxPackets = 4
  BatchCallers = {w1, w2}
  BatchSize = 2
  MaxMsgs = 4
  BridgePackets = 3
  MaxSettings = 2
SPECIFICATION Spec
INVARIANTS DeadlineRestored InOrder NoneStuck
PROPERTIES CallsHonest
CHECK_DEADLOCK FALSE
