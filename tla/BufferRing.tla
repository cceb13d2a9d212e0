----------------------------- MODULE BufferRing -----------------------------
(***************************************************************************)
(* The storage of packetio.Buffer (src/packetio/buffer.go): a growing ring *)
(* of bytes that holds each packet behind a two byte header, and a growing *)
(* ring of attributes that must stay in step with it.  All of it is only   *)
(* touched under b.mutex, so the operations here are sequential; module    *)
(* BufferSync has the readers, the wake-ups, the deadline and Close.       *)
(*                                                                         *)
(* Slices are sequences, so the byte b.data[i] of the code is data[i + 1]. *)
(***************************************************************************)
EXTENDS Integers, Sequences

CONSTANTS
  Payloads, Attrs, Caps, LimitCounts, LimitSizes,   \* as in PacketQueue
  ByteMod,        \* number of values of a byte
  minSize, cutoffSize, maxSize, sizeHardLimit,      \* as in the code
  MaxGrowths,     \* rounds of grow() that take the ring to its largest size
  NoAttrs         \* an empty Attributes slice

VARIABLES
  b,            \* the fields of Buffer that make up the two rings
  limitCount, limitSize,
  result        \* what the last Write or Read returned

vars == <<b, limitCount, limitSize, result>>

headerSize == 2

(* NewBuffer(). *)
Init ==
  /\ b = [data |-> <<>>, head |-> 0, tail |-> 0, count |-> 0,
          attributes |-> <<>>, attributesHead |-> 0]
  /\ limitCount = 0
  /\ limitSize = 0
  /\ result = [op |-> "new"]

-----------------------------------------------------------------------------
Least(x, y) == IF x < y THEN x ELSE y

(* size(). *)
sizeUnwrapped(r) == r.tail - r.head
sizeOf(r) == r.tail - r.head + (IF r.tail < r.head THEN Len(r.data) ELSE 0)

(* available(size): one byte is always kept free. *)
available(r, size) ==
  size + headerSize + 1 <= r.head - r.tail + (IF r.head - r.tail <= 0 THEN Len(r.data) ELSE 0)

(* The size grow() asks for; it fails with ErrFull when that is no growth. *)
Doubled(len) ==
  LET double  == IF len < cutoffSize THEN 2 * len ELSE (5 * len) \div 4
      atLeast == IF double < minSize THEN minSize ELSE double
  IN  IF (limitSize <= 0 \/ sizeHardLimit) /\ atLeast > maxSize THEN maxSize ELSE atLeast
NewSizeNoSlack(len) ==
  IF limitSize > 0 /\ Doubled(len) > limitSize THEN limitSize ELSE Doubled(len)
NewSizeUnlimited(len) == Doubled(len)
NewSize(len) ==
  IF limitSize > 0 /\ Doubled(len) - 1 > limitSize THEN limitSize + 1 ELSE Doubled(len)

(* The queued bytes in order, whether or not they wrap around. *)
UsedBytes(r) ==
  IF r.head <= r.tail
  THEN SubSeq(r.data, r.head + 1, r.tail)
  ELSE SubSeq(r.data, r.head + 1, Len(r.data)) \o SubSeq(r.data, 1, r.tail)

(* grow(): a larger ring with the queued bytes moved to its front. *)
grow(r) ==
  LET newSize == NewSize(Len(r.data))
      used    == UsedBytes(r)
  IN  [r EXCEPT !.data = [i \in 1..newSize |-> IF i <= Len(used) THEN used[i] ELSE 0],
                !.head = 0,
                !.tail = Len(used)]

(* The loop "for !b.available(n) { b.grow() }": the ring it ends with, fit *)
(* to hold the packet unless grow() returned ErrFull.                      *)
GrowOnce(r, n) ==
  IF available(r, n) \/ NewSize(Len(r.data)) <= Len(r.data) THEN r ELSE grow(r)
GrowToFit(r, n) ==
  LET after[k \in 0..MaxGrowths] == IF k = 0 THEN r ELSE GrowOnce(after[k-1], n)
  IN  after[MaxGrowths]

(* writeBytes(src). *)
writeBytes(r, src) ==
  LET room == Least(Len(src), Len(r.data) - r.tail)
      end  == r.tail + room
      put  == [i \in 1..Len(r.data) |->
                 IF i > r.tail /\ i <= end THEN src[i - r.tail]
                 ELSE IF end >= Len(r.data) /\ i <= Len(src) - room THEN src[room + i]
                 ELSE r.data[i]]
  IN  [r EXCEPT !.data = put,
                !.tail = IF end >= Len(r.data) THEN Len(src) - room ELSE end]

(* readBytes(dst, size): the bytes copied to dst, and the ring after it. *)
BytesRead(r, cap, size) ==
  LET copied == Least(cap, size)
  IN  IF r.head + copied <= Len(r.data)
      THEN SubSeq(r.data, r.head + 1, r.head + copied)
      ELSE SubSeq(r.data, r.head + 1, Len(r.data))
           \o SubSeq(r.data, 1, copied - (Len(r.data) - r.head))
SkipPastEnd(r, size) ==
  [r EXCEPT !.head = IF @ + size > Len(r.data) THEN @ + size - Len(r.data) ELSE @ + size]
Skip(r, size) ==
  [r EXCEPT !.head = IF @ + size >= Len(r.data) THEN @ + size - Len(r.data) ELSE @ + size]

(* growAttributes(). *)
growAttributesInPlace(r) ==
  IF r.count < Len(r.attributes) THEN r
  ELSE LET n == IF Len(r.attributes) = 0 THEN 1 ELSE 2 * Len(r.attributes)
       IN  [r EXCEPT !.attributes =
              [i \in 1..n |-> IF i <= Len(r.attributes) THEN r.attributes[i] ELSE NoAttrs]]
growAttributes(r) ==
  IF r.count < Len(r.attributes) THEN r
  ELSE LET n    == IF Len(r.attributes) = 0 THEN 1 ELSE 2 * Len(r.attributes)
           used == SubSeq(r.attributes, r.attributesHead + 1, Len(r.attributes))
                   \o SubSeq(r.attributes, 1, r.attributesHead)
       IN  [r EXCEPT !.attributes = [i \in 1..n |-> IF i <= Len(used) THEN used[i] ELSE NoAttrs],
                     !.attributesHead = 0]

(* binary.BigEndian.PutUint16 and Uint16. *)
PutUint16(n) == <<n \div ByteMod, n % ByteMod>>
Uint16(bytes) == bytes[1] * ByteMod + bytes[2]

(* The part of Write that stores the packet. *)
Store(r, payload, attrs) ==
  LET r1   == growAttributes(r)
      r2   == writeBytes(writeBytes(r1, PutUint16(Len(payload))), payload)
      slot == r2.attributesHead + r2.count
      tail == IF slot >= Len(r2.attributes) THEN slot - Len(r2.attributes) ELSE slot
  IN  [r2 EXCEPT !.attributes[tail + 1] = attrs, !.count = @ + 1]

(* consumePacket(payloadBuf, attributes), the rings after it. *)
HeadersLen(r) == Uint16(BytesRead(r, headerSize, headerSize))
Consume(r) ==
  LET r1   == Skip(Skip(r, headerSize), HeadersLen(r))
      r2   == [r1 EXCEPT !.attributes[r1.attributesHead + 1] = NoAttrs,
                         !.attributesHead = IF @ + 1 = Len(r1.attributes) THEN 0 ELSE @ + 1,
                         !.count = @ - 1]
  IN  IF r2.head = r2.tail
      THEN [r2 EXCEPT !.head = 0, !.tail = 0, !.attributesHead = 0]
      ELSE r2

-----------------------------------------------------------------------------
Write(payload, attrs) ==
  LET n     == Len(payload)
      limit == IF limitSize <= 0 \/ (sizeHardLimit /\ limitSize >= maxSize)
               THEN maxSize - 1 ELSE limitSize
      over  == \/ limitCount > 0 /\ b.count >= limitCount
               \/ n + headerSize > limit - sizeOf(b)
      grown == GrowToFit(b, n)
      err   == CASE n >= ByteMod * ByteMod -> "toobig"
                 [] n < ByteMod * ByteMod /\ over -> "full"
                 [] OTHER -> IF available(grown, n) THEN "none" ELSE "growfull"
  IN  /\ result' = [op |-> "write", err |-> err]
      /\ b' = CASE err = "none" -> Store(grown, payload, attrs)
                [] err = "growfull" -> grown
                [] OTHER -> b
      /\ UNCHANGED <<limitCount, limitSize>>

(* Read, when the buffer is not empty (b.head != b.tail). *)
Read(cap) ==
  LET size == HeadersLen(b)
      n    == BytesRead(Skip(b, headerSize), cap, size)
  IN  /\ b.head # b.tail
      /\ b' = Consume(b)
      /\ result' = [op      |-> "read",
                    payload |-> n,
                    attrs   |-> b.attributes[b.attributesHead + 1],
                    err     |-> IF Len(n) < size THEN "short" ELSE "none"]
      /\ UNCHANGED <<limitCount, limitSize>>

SetLimitCount(limit) ==
  /\ limitCount' = limit
  /\ UNCHANGED <<b, limitSize, result>>

SetLimitSize(limit) ==
  /\ limitSize' = limit
  /\ UNCHANGED <<b, limitCount, result>>

Next ==
  \/ \E payload \in Payloads, attrs \in Attrs : Write(payload, attrs)
  \/ \E cap \in Caps : Read(cap)
  \/ \E limit \in LimitCounts : SetLimitCount(limit)
  \/ \E limit \in LimitSizes : SetLimitSize(limit)

Spec == Init /\ [][Next]_vars

-----------------------------------------------------------------------------
TypeOK ==
  /\ b.data \in Seq(Nat)
  /\ b.head \in 0..Len(b.data) /\ b.tail \in 0..Len(b.data)
  /\ Len(b.data) > 0 => b.head < Len(b.data) /\ b.tail < Len(b.data)
  /\ b.count \in 0..Len(b.attributes)
  /\ b.attributes \in Seq(Attrs \cup {NoAttrs})
  /\ b.attributesHead \in 0..Len(b.attributes)
  /\ limitCount \in Int /\ limitSize \in Int

(* The packets in the ring, decoded from the bytes between head and tail   *)
(* and paired with the attributes in the attribute ring.                   *)
Packets ==
  LET bytes == UsedBytes(b)
      LenAt(pos) == Uint16(SubSeq(bytes, pos + 1, pos + headerSize))
      After(pos) == pos + headerSize + LenAt(pos)
      start[i \in 1..b.count] == IF i = 1 THEN 0 ELSE After(start[i-1])
  IN  [i \in 1..b.count |->
         [payload |-> SubSeq(bytes, start[i] + headerSize + 1, After(start[i])),
          attrs   |-> b.attributes[((b.attributesHead + i - 1) % Len(b.attributes)) + 1]]]

Queue == INSTANCE PacketQueue WITH
  queue <- Packets, MaxPayload <- ByteMod * ByteMod - 1

(* The rings implement a FIFO queue of packets with their attributes:      *)
(* through growth, wrap-around, short reads and changes of the limits,     *)
(* every Read returns the oldest packet and its own attributes, and Write  *)
(* returns ErrFull exactly when a limit says so (the ErrFull of grow,       *)
(* "growfull" here, never reaches the caller).                             *)
ImplementsQueue == Queue!Next \/ UNCHANGED <<Packets, limitCount, limitSize, result>>

(* The initial state of the rings is one of the queue. *)
NewIsEmpty == result.op = "new" /\ limitCount = 0 /\ limitSize = 0 => Queue!Init

(* Size() is the number of bytes of the queued packets and their headers.  *)
SizeIsBytesQueued == sizeOf(b) = Queue!TotalSize(Packets)

(* The ring never allocates more than the limit in force when it grew:     *)
(* a step that grows the ring leaves at most one byte more than the limit. *)
GrowthWithinLimit ==
  Len(b'.data) > Len(b.data) =>
    Len(b'.data) - 1 <= (IF limitSize > 0 THEN limitSize ELSE maxSize - 1)
=============================================================================
