---------------------------- MODULE ReplayWindow ----------------------------
(***************************************************************************)
(* The replay detector without wrapping of                                 *)
(* src/replaydetector/replaydetector.go (New).  Check and CheckSeq hand    *)
(* out a permission to accept a sequence number, which the caller may use  *)
(* at any later time and in any order.                                     *)
(***************************************************************************)
EXTENDS Integers, BitMask

CONSTANTS WindowSize, MaxSeq

ASSUME ReplayAssumption == WindowSize \in Nat /\ MaxSeq \in Nat \ {0}

VARIABLES
  latestSeq, mask,
  passed,     \* sequence numbers that passed a check
  accepted,   \* history: sequence numbers accepted
  latest      \* what the last Accept returned

vars == <<latestSeq, mask, passed, accepted, latest>>

Seqs == 0..MaxSeq

TypeOK ==
  /\ latestSeq \in Seqs
  /\ mask \in SUBSET (0..(WindowSize - 1))
  /\ passed \in SUBSET Seqs
  /\ accepted \in SUBSET Seqs
  /\ latest \in BOOLEAN

(* New. *)
Init ==
  /\ latestSeq = 0
  /\ mask = {}
  /\ passed = {}
  /\ accepted = {}
  /\ latest = FALSE

-----------------------------------------------------------------------------
checkSeqNoLimit(seq) ==
  seq <= latestSeq =>
    /\ latestSeq - seq < WindowSize
    /\ ~Bit(mask, latestSeq - seq)
checkSeq(seq) ==
  /\ seq <= MaxSeq
  /\ seq <= latestSeq =>
       /\ latestSeq - seq < WindowSize
       /\ ~Bit(mask, latestSeq - seq)

(* Check and CheckSeq. *)
Check(seq) ==
  /\ passed' = IF checkSeq(seq) THEN passed \cup {seq} ELSE passed
  /\ UNCHANGED <<latestSeq, mask, accepted, latest>>

Minimum(a, b) == IF a <= b THEN a ELSE b

(* The mask when the head of the window moves to seq. *)
MaskAheadClamped(seq) == Lsh(mask, WindowSize, Minimum(seq - latestSeq, WindowSize - 1))
MaskAhead(seq) == Lsh(mask, WindowSize, Minimum(seq - latestSeq, WindowSize))

isFirstOrSame(seq) == seq >= latestSeq
isLatest(seq) == seq > latestSeq \/ (seq = 0 /\ latestSeq = 0 /\ ~Bit(mask, 0))

(* acceptSeq, called through the function Check returned or by Accept. *)
Accept(seq) ==
  /\ seq \in passed
  /\ latest' = isLatest(seq)
  /\ latestSeq' = IF seq > latestSeq THEN seq ELSE latestSeq
  /\ mask' = SetBit(IF seq > latestSeq THEN MaskAhead(seq) ELSE mask,
                    WindowSize, (latestSeq' - seq) % MaxSeq)
  /\ accepted' = accepted \cup {seq}
  /\ UNCHANGED passed

Next == \E seq \in 0..(MaxSeq + 1) : Check(seq) \/ Accept(seq)

Spec == Init /\ [][Next]_vars

-----------------------------------------------------------------------------
(* A check passes exactly the sequence numbers that are within the limit,  *)
(* not older than the window and not yet accepted, whatever checks are     *)
(* still outstanding and in whatever order they are accepted.              *)
DetectsExactly ==
  \A seq \in 0..(MaxSeq + 1) :
    checkSeq(seq) <=> /\ seq \in Seqs \ accepted
                      /\ seq > latestSeq - WindowSize

(* Accept reports whether the sequence number is the highest so far. *)
ReportsLatest ==
  [][\A seq \in Seqs : Accept(seq) => (latest' <=> \A s \in accepted : s < seq)]_vars
=============================================================================
