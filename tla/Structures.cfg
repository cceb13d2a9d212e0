CONSTANTS
  WindowSize = 3
  MaxSeq = 6
  WrapWindowSize = 3
  WrapMaxSeq = 5
  MaxPacket = 7
  Callers = {1, 2}
  W = 3
  Sizes = {0, 1, 2, 3, 4, 5, 6, 7, 8, 9}
  MaxShift = 10
  NoAttrs = NoAttrs
  a1 = a1
SPECIFICATION StructuresSpec
INVARIANTS DetectsExactly WrapDetectsExactly ImplementsBitMask RingsInStep
PROPERTIES ReportsLatest StepsAsSpecified
