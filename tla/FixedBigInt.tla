----------------------------- MODULE FixedBigInt -----------------------------
(***************************************************************************)
(* The fixed-size multi-word integer of src/replaydetector/fixedbig.go, in *)
(* words of W bits (64 in the code).  A word is the set of the positions   *)
(* of its 1 bits; << and >> lose the bits that leave the word, and a shift *)
(* by W or more gives 0, as in Go.                                         *)
(***************************************************************************)
EXTENDS Integers, FiniteSets

CONSTANTS
  W,        \* bits in a word
  Sizes,    \* the sizes n a mask may be created with
  MaxShift  \* bound on the shift distances

VARIABLES
  bits,    \* the words, word 0 the least significant
  n,       \* the size
  ideal    \* the abstract mask, moved by the same calls

vars == <<bits, n, ideal>>

A == INSTANCE BitMask

Word == SUBSET (0..(W - 1))
ShiftLeft(x, k) == {i \in 0..(W - 1) : i - k \in x}
ShiftRight(x, k) == {i \in 0..(W - 1) : i + k \in x}

Max(a, b) == IF a >= b THEN a ELSE b
chunkSize(size) == Max((size + W - 1) \div W, 1)
msbMask == ShiftRight(0..(W - 1), (W - (n % W)) % W)

TypeOK ==
  /\ n \in Sizes
  /\ bits \in [0..(chunkSize(n) - 1) -> Word]
  /\ ideal \in SUBSET (0..(n - 1))

(* newFixedBigInt. *)
Init ==
  /\ n \in Sizes
  /\ bits = [i \in 0..(chunkSize(n) - 1) |-> {}]
  /\ ideal = {}

-----------------------------------------------------------------------------
(* The bits carried into word i by a shift of k, taken from the words that *)
(* the descending loop has not yet changed.                                *)
CarryOneWord(i, k) ==
  LET nChunk == k \div W
  IN  IF i - nChunk >= 0 THEN ShiftLeft(bits[i - nChunk], k % W) ELSE {}
Carry(i, k) ==
  LET nChunk == k \div W
      nN == k % W
  IN  (IF i - nChunk >= 0 THEN ShiftLeft(bits[i - nChunk], nN) ELSE {})
      \cup (IF i - nChunk - 1 >= 0 THEN ShiftRight(bits[i - nChunk - 1], W - nN) ELSE {})

MaskNothing(i, word) == word
MaskTop(i, word) == IF i = chunkSize(n) - 1 THEN word \cap msbMask ELSE word

Lsh(k) ==
  /\ bits' = IF k = 0 THEN bits
             ELSE [i \in DOMAIN bits |-> MaskTop(i, ShiftLeft(bits[i], k) \cup Carry(i, k))]
  /\ ideal' = A!Lsh(ideal, n, k)
  /\ UNCHANGED n

PosInMask(i) == i
PosInWord(i) == i % W
Bit(i) == i < n /\ PosInWord(i) \in bits[i \div W]

SetBit(i) ==
  /\ bits' = IF i >= n THEN bits ELSE [bits EXCEPT ![i \div W] = @ \cup {PosInWord(i)}]
  /\ ideal' = A!SetBit(ideal, n, i)
  /\ UNCHANGED n

Next ==
  \/ \E k \in 0..MaxShift : Lsh(k)
  \/ \E i \in 0..MaxShift : SetBit(i)

Spec == Init /\ [][Next]_vars

-----------------------------------------------------------------------------
(* Bit answers, for every position, what a single integer of n bits would  *)
(* answer after the same shifts and sets: no bit is lost or invented at a  *)
(* word boundary, by a shift of whole words or beyond the size.            *)
ImplementsBitMask == \A i \in 0..(n + MaxShift) : Bit(i) = A!Bit(ideal, i)

(* No bit at or above n is ever stored, so that none can be shifted in     *)
(* from, or printed by String, later.                                      *)
NothingAboveSize ==
  \A c \in DOMAIN bits : \A b \in bits[c] : c * W + b < n
=============================================================================
