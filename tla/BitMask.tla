------------------------------- MODULE BitMask -------------------------------
(***************************************************************************)
(* What src/replaydetector/fixedbig.go promises: an integer of n bits, as  *)
(* the set of the positions of its 1 bits.  Module FixedBigInt shows that  *)
(* the multi-word code implements these operators; the replay detectors    *)
(* are modelled with them.                                                 *)
(***************************************************************************)
EXTENDS Naturals

Bit(mask, i) == i \in mask

(* Bits at or above n are not stored. *)
SetBit(mask, n, i) == IF i < n THEN mask \cup {i} ELSE mask

Lsh(mask, n, k) == {i \in 0..(n - 1) : i >= k /\ i - k \in mask}
=============================================================================
