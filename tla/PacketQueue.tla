----------------------------- MODULE PacketQueue -----------------------------
(***************************************************************************)
(* What packetio.Buffer promises its users, with no ring in it: a FIFO     *)
(* queue of packets with their attributes, bounded by a number of packets  *)
(* and by a number of bytes (src/packetio/buffer.go, the comments of       *)
(* Write, Read, SetLimitCount and SetLimitSize).  A write is refused only  *)
(* when a limit says so, and a refused write queues nothing.               *)
(***************************************************************************)
EXTENDS Integers, Sequences, FiniteSetsExt

CONSTANTS
  Payloads,       \* the payloads writers may pass, sequences of bytes
  Attrs,          \* the attributes writers may pass
  Caps,           \* lengths of the buffers readers pass
  LimitCounts,    \* arguments of SetLimitCount
  LimitSizes,     \* arguments of SetLimitSize
  MaxPayload,     \* payloads longer than this are errPacketTooBig
  maxSize,        \* default capacity in bytes
  sizeHardLimit   \* whether the capacity also caps limitSize (build tag)

VARIABLES queue, limitCount, limitSize, result

headerSize == 2

TotalSize(q) == MapThenSumSet(LAMBDA i : Len(q[i].payload) + headerSize, DOMAIN q)

Limit == IF limitSize <= 0 \/ (sizeHardLimit /\ limitSize >= maxSize)
         THEN maxSize - 1 ELSE limitSize

Full(n) ==
  \/ limitCount > 0 /\ Len(queue) >= limitCount
  \/ n + headerSize > Limit - TotalSize(queue)

Prefix(s, n) == SubSeq(s, 1, IF n < Len(s) THEN n ELSE Len(s))

Init ==
  /\ queue = <<>>
  /\ limitCount = 0
  /\ limitSize = 0
  /\ result = [op |-> "new"]

Write(payload, attrs) ==
  /\ LET err == IF Len(payload) > MaxPayload THEN "toobig"
                ELSE IF Full(Len(payload)) THEN "full" ELSE "none"
     IN  /\ result' = [op |-> "write", err |-> err]
         /\ queue' = IF err = "none"
                     THEN Append(queue, [payload |-> payload, attrs |-> attrs])
                     ELSE queue
  /\ UNCHANGED <<limitCount, limitSize>>

Read(cap) ==
  /\ queue # <<>>
  /\ queue' = Tail(queue)
  /\ result' = [op      |-> "read",
                payload |-> Prefix(Head(queue).payload, cap),
                attrs   |-> Head(queue).attrs,
                err     |-> IF cap < Len(Head(queue).payload) THEN "short" ELSE "none"]
  /\ UNCHANGED <<limitCount, limitSize>>

SetLimitCount(limit) ==
  /\ limitCount' = limit
  /\ UNCHANGED <<queue, limitSize, result>>

SetLimitSize(limit) ==
  /\ limitSize' = limit
  /\ UNCHANGED <<queue, limitCount, result>>

Next ==
  \/ \E payload \in Payloads, attrs \in Attrs : Write(payload, attrs)
  \/ \E cap \in Caps : Read(cap)
  \/ \E limit \in LimitCounts : SetLimitCount(limit)
  \/ \E limit \in LimitSizes : SetLimitSize(limit)

Spec == Init /\ [][Next]_<<queue, limitCount, limitSize, result>>
=============================================================================
