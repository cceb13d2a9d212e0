---------------------------- MODULE WrappedWindow ----------------------------
(***************************************************************************)
(* The replay detector with wrapping of                                    *)
(* src/replaydetector/replaydetector.go (WithWrap).  The sender numbers    *)
(* its packets 0, 1, 2, ... without limit; the detector sees the packet    *)
(* number modulo MaxSeq + 1.  A packet comes, and is accepted by token,    *)
(* while it is at most half the sequence space away from the head of the   *)
(* window: that is what a wrapping counter can tell apart.                 *)
(*                                                                         *)
(* A caller holds what its last check returned: the accept function of     *)
(* Check, which keeps the distance the check computed, or the token of     *)
(* CheckSeq, for which Accept computes it anew.  Both come from checkSeq,  *)
(* so one operation stands for them, and what it returns may be used       *)
(* either way, at any time and any number of times.                        *)
(***************************************************************************)
EXTENDS Integers, BitMask

CONSTANTS
  WindowSize, MaxSeq,
  Callers,     \* who check and accept
  MaxPacket    \* bound on the packet numbers

VARIABLES
  latestSeq, mask, init,
  head,       \* history: number of the newest packet accepted, or the packet
              \* before the first one checked
  held,       \* per caller: <<packet, distance>> if its last check passed, or <<>>
  accepted,   \* history: packets accepted
  latest,     \* what the last accept returned
  stale       \* history: an accept function ran after the head had moved away
              \* from where its check saw it

vars == <<latestSeq, mask, init, head, held, accepted, latest, stale>>

Packets == 0..MaxPacket
Seqs == 0..MaxSeq
Seq(p) == p % (MaxSeq + 1)

TypeOK ==
  /\ latestSeq \in Seqs
  /\ mask \in SUBSET (0..(WindowSize - 1))
  /\ init \in BOOLEAN
  /\ head \in -1..MaxPacket
  /\ held \in [Callers -> {<<>>} \cup (Packets \X Int)]
  /\ accepted \in SUBSET Packets
  /\ latest \in BOOLEAN /\ stale \in BOOLEAN

(* WithWrap. *)
Init ==
  /\ latestSeq = 0
  /\ mask = {}
  /\ init = FALSE
  /\ head = -1
  /\ held = [c \in Callers |-> <<>>] /\ accepted = {}
  /\ latest = FALSE /\ stale = FALSE

-----------------------------------------------------------------------------
half == MaxSeq \div 2

(* The distance of seq behind last, wrapped; / truncates towards zero. *)
diffUnwrapped(last, seq) == last - seq
diff(last, seq) ==
  LET d == last - seq
  IN  IF d > half THEN d - (MaxSeq + 1)
      ELSE IF d <= -half THEN d + (MaxSeq + 1)
      ELSE d

(* The head of the window when seq is the first sequence number checked. *)
StartBeforeUnwrapped(seq) == seq - 1
StartBefore(seq) == IF seq # 0 THEN seq - 1 ELSE MaxSeq

(* The outcome of checkSeq for a window whose head is last. *)
Passes(last, seq) ==
  LET d == diff(last, seq)
  IN  d < WindowSize /\ (d >= 0 => ~Bit(mask, d))

Near(p) == head - p <= half /\ p - head <= half

(* Check and CheckSeq, for packet p; the first call sets the head.  (A     *)
(* number above maxSeq is rejected before anything changes.)               *)
Check(c, p) ==
  /\ init => Near(p)
  /\ LET last == IF init THEN latestSeq ELSE StartBefore(Seq(p))
     IN  /\ held' = [held EXCEPT ![c] =
                        IF Passes(last, Seq(p)) THEN <<p, diff(last, Seq(p))>> ELSE <<>>]
         /\ latestSeq' = last
  /\ head' = IF init THEN head ELSE p - 1
  /\ init' = TRUE
  /\ UNCHANGED <<mask, accepted, latest, stale>>

Minimum(a, b) == IF a <= b THEN a ELSE b

(* acceptDiff, for packet p and a distance d: the window moves to a        *)
(* sequence number ahead of it.                                            *)
MaskKept(d) == SetBit(mask, WindowSize, 0)
MaskAhead(d) == SetBit(Lsh(mask, WindowSize, Minimum(-d, WindowSize)), WindowSize, 0)

isLatest(d) == d < 0

acceptDiff(p, d) ==
  /\ mask' = IF d < 0 THEN MaskAhead(d) ELSE SetBit(mask, WindowSize, d)
  /\ latestSeq' = IF d < 0 THEN Seq(p) ELSE latestSeq
  /\ latest' = isLatest(d)
  /\ head' = IF p > head THEN p ELSE head
  /\ accepted' = accepted \cup {p}
  /\ UNCHANGED <<init, held>>

(* Accept, for the token a caller holds. *)
AcceptHeldDistance(c) ==
  /\ held[c] # <<>>
  /\ Near(held[c][1]) /\ acceptDiff(held[c][1], held[c][2])
  /\ UNCHANGED stale
Accept(c) ==
  /\ held[c] # <<>>
  /\ LET p == held[c][1]
     IN  Near(p) /\ acceptDiff(p, diff(latestSeq, Seq(p)))
  /\ UNCHANGED stale

(* The accept function a caller holds. *)
AcceptFunc(c) ==
  /\ held[c] # <<>>
  /\ LET p == held[c][1]
         d == held[c][2]
     IN  /\ acceptDiff(p, d)
         /\ stale' = (stale \/ d # head - p)

Next == \E c \in Callers : (\E p \in Packets : Check(c, p)) \/ Accept(c) \/ AcceptFunc(c)

Spec == Init /\ [][Next]_vars

-----------------------------------------------------------------------------
(* The detector follows the newest packet across wraps, and a check passes *)
(* exactly the packets in reach that are not older than the window and not *)
(* yet accepted: none is taken for a packet of another round.  A packet is *)
(* in reach up to MaxSeq \div 2 ahead; the one exactly that far is taken   *)
(* for one behind, and refused, unless the counter wraps on the way.       *)
(* Accepts may come in any order by token; by accept function, as long as  *)
(* the head is where the check saw it.                                     *)
InReach(p) == p - head < half \/ (p - head = half /\ Seq(p) < latestSeq)
DetectsExactly ==
  init /\ ~stale =>
    /\ latestSeq = head % (MaxSeq + 1)
    /\ \A p \in Packets : Near(p) =>
         (Passes(latestSeq, Seq(p)) <=>
            p \notin accepted /\ p > head - WindowSize /\ InReach(p))

(* An accept, by token or by a function that is not stale, reports whether *)
(* the packet is newer than all accepted before, also across a wrap.       *)
ReportsLatest ==
  \A c \in Callers :
    (Accept(c) \/ AcceptFunc(c)) /\ ~stale' => (latest' <=> held[c][1] > head)
=============================================================================
