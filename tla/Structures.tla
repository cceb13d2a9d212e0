------------------------------ MODULE Structures ------------------------------
(***************************************************************************)
(* Data structures that one goroutine at a time uses: the replay detectors *)
(* (module ReplayDetectors), and the rings of a packetio.Buffer in three   *)
(* sizes of module BufferRing.  Bytes have two values, so payloads have up *)
(* to three bytes.  Growing: no limit is set, the ring grows 6, 7, 8 and   *)
(* wraps at every size.  Limited: limits below, at and above the default   *)
(* capacity, changed at any time.  Hard: the same built with the tag       *)
(* packetioSizeHardlimit.                                                  *)
(***************************************************************************)
EXTENDS ReplayDetectors, Sequences

CONSTANTS NoAttrs, a1   \* of BufferRing

VARIABLES b, limitCount, limitSize, result

Growing == INSTANCE BufferRing WITH
  Payloads <- {<<>>, <<1>>}, Attrs <- {NoAttrs, a1}, Caps <- {0, 1},
  LimitCounts <- {}, LimitSizes <- {}, ByteMod <- 2,
  minSize <- 6, cutoffSize <- 6, maxSize <- 8, sizeHardLimit <- FALSE, MaxGrowths <- 3
Limited == INSTANCE BufferRing WITH
  Payloads <- {<<>>, <<1>>, <<1, 1, 1, 1>>}, Attrs <- {a1}, Caps <- {2},
  LimitCounts <- {0, 2}, LimitSizes <- {0, 4, 6}, ByteMod <- 2,
  minSize <- 3, cutoffSize <- 4, maxSize <- 6, sizeHardLimit <- FALSE, MaxGrowths <- 5
Hard == INSTANCE BufferRing WITH
  Payloads <- {<<>>, <<1>>, <<1, 1, 1, 1>>}, Attrs <- {a1}, Caps <- {2},
  LimitCounts <- {0, 2}, LimitSizes <- {0, 4, 6}, ByteMod <- 2,
  minSize <- 3, cutoffSize <- 4, maxSize <- 6, sizeHardLimit <- TRUE, MaxGrowths <- 5

ring == <<b, limitCount, limitSize, result>>

StructuresInit ==
  /\ which \in {"window", "wrapped", "mask", "growing", "limited", "hard"}
  /\ DetectorsInit
  /\ Growing!Init   \* NewBuffer is the same in all sizes

StructuresNext ==
  \/ DetectorsNext /\ UNCHANGED ring
  \/ which = "growing" /\ Growing!Next /\ UNCHANGED detectors
  \/ which = "limited" /\ Limited!Next /\ UNCHANGED detectors
  \/ which = "hard" /\ Hard!Next /\ UNCHANGED detectors

StructuresSpec == StructuresInit /\ [][StructuresNext]_<<detectors, ring>>

-----------------------------------------------------------------------------
(* The invariants TypeOK and SizeIsBytesQueued of BufferRing: head, tail   *)
(* and the count of attributes stay inside their rings, and Size() is the  *)
(* number of bytes of the queued packets and their headers (none in a new  *)
(* buffer, as PacketQueue has it).                                         *)
RingsInStep ==
  /\ which = "growing" => Growing!TypeOK /\ Growing!SizeIsBytesQueued /\ Growing!NewIsEmpty
  /\ which = "limited" => Limited!TypeOK /\ Limited!SizeIsBytesQueued /\ Limited!NewIsEmpty
  /\ which = "hard" => Hard!TypeOK /\ Hard!SizeIsBytesQueued /\ Hard!NewIsEmpty

(* What a step may return.  BufferRing implements PacketQueue: through     *)
(* growth, wrap-around, short reads and changes of the limits, every Read  *)
(* returns the oldest packet with its own attributes, Write is refused     *)
(* exactly when a limit says so, and a ring that grows leaves at most one  *)
(* byte more than the limit in force.  An accept of the wrapping detector, *)
(* by token or by a function used while the head is where its check saw    *)
(* it, reports whether the packet is newer than all accepted before, also  *)
(* across a wrap.                                                          *)
StepsAsSpecified ==
  [][/\ which = "growing" => Growing!ImplementsQueue /\ Growing!GrowthWithinLimit
     /\ which = "limited" => Limited!ImplementsQueue /\ Limited!GrowthWithinLimit
     /\ which = "hard" => Hard!ImplementsQueue /\ Hard!GrowthWithinLimit
     /\ which = "wrapped" => Wrapped!ReportsLatest]_<<wrap, ring>>
=============================================================================
