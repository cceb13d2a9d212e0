------------------------ MODULE ReplayDetectorsProofs ------------------------
(***************************************************************************)
(* Proofs about the replay detectors and their bit mask, for every window  *)
(* size, limit of the counter and width of a word.  The invariants say     *)
(* what the masks mean: bit d stands for the sequence number, or for the   *)
(* packet, d behind the head, and is set exactly when that was accepted;   *)
(* bit p of word c stands for position c * W + p.                          *)
(***************************************************************************)
EXTENDS ReplayDetectors, TLAPS

(* The windows the code is meant for: beyond them acceptSeq, which reduces *)
(* the distance modulo maxSeq, marks another bit than checkSeq looks at.   *)
WindowFits == WindowSize <= MaxSeq

MaskMeaning ==
  \A d \in 0..(WindowSize - 1) :
    d \in mask <=> d <= latestSeq /\ latestSeq - d \in accepted

HeadIsHighest ==
  /\ \A s \in accepted : s <= latestSeq
  /\ latestSeq # 0 => latestSeq \in accepted

(* With an empty window nothing at or behind the head ever passes. *)
IInv ==
  /\ TypeOK
  /\ MaskMeaning
  /\ HeadIsHighest
  /\ WindowSize = 0 => 0 \notin passed

-----------------------------------------------------------------------------
(* The reduction modulo maxSeq in acceptSeq changes only the distance      *)
(* maxSeq itself.                                                          *)
LEMMA ModMaxSeq ==
  ASSUME NEW d \in 0..MaxSeq
  PROVE  d % MaxSeq = IF d = MaxSeq THEN 0 ELSE d
  BY ReplayAssumption, SMT

(* A new detector has accepted nothing, and its mask is empty. *)
LEMMA InitIInv == Init => IInv
<1> SUFFICES ASSUME Init
             PROVE  IInv
  OBVIOUS
<1>1. TypeOK
  <2>1. latest \in BOOLEAN
    BY Zenon DEF Init
  <2> QED BY <2>1, ReplayAssumption DEF Init, TypeOK, Seqs
<1>2. MaskMeaning /\ HeadIsHighest
  BY DEF Init, MaskMeaning, HeadIsHighest
<1> QED BY <1>1, <1>2 DEF Init, IInv

(* Check only remembers that a number passed. *)
LEMMA CheckIInv ==
  ASSUME IInv, NEW seq \in 0..(MaxSeq + 1), Check(seq)
  PROVE  IInv'
  BY ReplayAssumption DEF IInv, Check, checkSeq, TypeOK, MaskMeaning, HeadIsHighest, Seqs

(* Accept moves head and mask so that each bit keeps its meaning. *)
LEMMA AcceptIInv ==
  ASSUME WindowFits, IInv, NEW seq \in 0..(MaxSeq + 1), Accept(seq)
  PROVE  IInv'
<1>0. WindowSize \in Int /\ WindowSize >= 0 /\ MaxSeq \in Int /\ MaxSeq > 0
  BY ReplayAssumption
<1> DEFINE h == IF seq > latestSeq THEN seq ELSE latestSeq
           bit == IF h - seq = MaxSeq THEN 0 ELSE h - seq
           moved == IF seq > latestSeq THEN MaskAhead(seq) ELSE mask
<1>1. /\ seq \in Int /\ 0 <= seq /\ seq <= h
      /\ latestSeq \in Int /\ 0 <= latestSeq /\ latestSeq <= h
      /\ h \in Int /\ h <= MaxSeq
  BY <1>0 DEF IInv, Accept, TypeOK, Seqs
<1>h. latestSeq' = h
  BY DEF Accept
<1>2. mask' = SetBit(moved, WindowSize, bit)
  <2>1. h - seq \in 0..MaxSeq
    BY <1>0, <1>1
  <2> QED BY <2>1, <1>h, ModMaxSeq DEF Accept
<1>3. \A d \in 0..(WindowSize - 1) : d \in moved <=> d <= h /\ h - d \in accepted
  <2>1. CASE seq > latestSeq
    BY <2>1, <1>0, <1>1 DEF IInv, MaskMeaning, HeadIsHighest, MaskAhead, Lsh, Minimum
  <2>2. CASE ~(seq > latestSeq)
    BY <2>2, <1>1 DEF IInv, MaskMeaning
  <2> QED BY <2>1, <2>2
<1>4. moved \in SUBSET (0..(WindowSize - 1))
  BY DEF IInv, TypeOK, MaskAhead, Lsh
<1>b. bit \in Int /\ 0 <= bit
  BY <1>0, <1>1
<1>k. (h # 0 => h \in accepted \cup {seq}) /\ (\A s \in accepted : s <= h)
  BY <1>0, <1>1 DEF IInv, HeadIsHighest, TypeOK, Seqs
<1> HIDE DEF moved, bit, h
<1>5. TypeOK'
  <2>1. mask' \in SUBSET (0..(WindowSize - 1))
    BY <1>0, <1>2, <1>4, <1>b DEF SetBit
  <2>2. latest' \in BOOLEAN
    BY DEF Accept, isLatest
  <2>3. latestSeq' \in Seqs /\ seq \in Seqs
    BY <1>0, <1>1, <1>h DEF Seqs
  <2> QED BY <2>1, <2>2, <2>3 DEF IInv, TypeOK, Accept
<1>6. HeadIsHighest'
  BY <1>1, <1>h, <1>k DEF HeadIsHighest, Accept
<1>7. MaskMeaning'
  <2> SUFFICES ASSUME NEW d \in 0..(WindowSize - 1)
               PROVE  d \in mask' <=> d <= h /\ h - d \in accepted \cup {seq}
    BY <1>h DEF MaskMeaning, Accept
  <2>1. d \in mask' <=> d \in moved \/ (bit < WindowSize /\ d = bit)
    BY <1>2 DEF SetBit
  <2>2. CASE h - seq # MaxSeq
    BY <2>1, <2>2, <1>0, <1>1, <1>3 DEF bit
  <2>3. CASE h - seq = MaxSeq
    <3>1. h = MaxSeq /\ seq = 0
      BY <2>3, <1>0, <1>1
    <3>2. h \in accepted
      BY <1>0, <1>k, <3>1
    <3> QED BY <2>1, <2>3, <3>1, <3>2, <1>0, <1>3 DEF WindowFits, bit
  <2> QED BY <2>2, <2>3
<1>8. (WindowSize = 0 => 0 \notin passed)'
  BY DEF IInv, Accept
<1> QED BY <1>5, <1>6, <1>7, <1>8 DEF IInv

(* Both operations keep the invariant. *)
LEMMA NextIInv ==
  ASSUME WindowFits
  PROVE  IInv /\ [Next]_vars => IInv'
<1> SUFFICES ASSUME IInv, [Next]_vars
             PROVE  IInv'
  OBVIOUS
<1>1. CASE Next
  BY <1>1, CheckIInv, AcceptIInv DEF Next
<1>2. CASE UNCHANGED vars
  BY <1>2 DEF vars, IInv, TypeOK, MaskMeaning, HeadIsHighest
<1> QED BY <1>1, <1>2

-----------------------------------------------------------------------------
(* The state of the detector keeps its types: no accept moves the head     *)
(* above maxSeq or marks a bit outside the window.                         *)
THEOREM TypeCorrect ==
  ASSUME WindowFits
  PROVE  Spec => []TypeOK
<1>1. Spec => []IInv
  BY InitIInv, NextIInv, PTL DEF Spec
<1>2. IInv => TypeOK
  BY DEF IInv
<1> QED BY <1>1, <1>2, PTL

(* A check passes exactly the numbers within the limit that are not older  *)
(* than the window and were not accepted, for every window that fits.      *)
THEOREM DetectsExactlyCorrect ==
  ASSUME WindowFits
  PROVE  Spec => []DetectsExactly
<1>1. Spec => []IInv
  BY InitIInv, NextIInv, PTL DEF Spec
<1>2. IInv => DetectsExactly
  BY ReplayAssumption
     DEF IInv, TypeOK, MaskMeaning, HeadIsHighest, DetectsExactly, checkSeq, Bit, Seqs
<1> QED BY <1>1, <1>2, PTL

(* Accept returns true exactly for a number above all accepted before. *)
THEOREM ReportsLatestCorrect ==
  ASSUME WindowFits
  PROVE  Spec => ReportsLatest
<1>1. IInv => [\A seq \in Seqs : Accept(seq) => (latest' <=> \A s \in accepted : s < seq)]_vars
  <2> SUFFICES ASSUME IInv, NEW seq \in Seqs, Accept(seq)
               PROVE  latest' <=> \A s \in accepted : s < seq
    OBVIOUS
  <2>1. latest' <=> isLatest(seq)
    BY Zenon DEF Accept, isLatest
  <2>2. CASE seq > latestSeq
    BY <2>1, <2>2 DEF IInv, HeadIsHighest, isLatest, TypeOK, Seqs
  <2>3. CASE ~(seq > latestSeq) /\ latestSeq # 0
    BY <2>1, <2>3, ReplayAssumption DEF IInv, HeadIsHighest, isLatest, TypeOK, Seqs
  <2>4. CASE ~(seq > latestSeq) /\ latestSeq = 0
    <3>1. seq = 0 /\ WindowSize # 0 /\ accepted \subseteq {0}
      BY <2>4, ReplayAssumption DEF IInv, HeadIsHighest, TypeOK, Seqs, Accept
    <3>2. 0 \in mask <=> 0 \in accepted
      BY <2>4, <3>1, ReplayAssumption DEF IInv, MaskMeaning
    <3> QED BY <2>1, <2>4, <3>1, <3>2 DEF isLatest, Bit
  <2> QED BY <2>2, <2>3, <2>4
<1>2. Spec => []IInv
  BY InitIInv, NextIInv, PTL DEF Spec
<1> QED BY <1>1, <1>2, PTL DEF ReportsLatest

-----------------------------------------------------------------------------
(* Arithmetic of the two modules below: quotient and remainder by a        *)
(* positive m, and multiples of m.                                         *)
LEMMA DivMod ==
  ASSUME NEW m \in Nat \ {0}, NEW x \in Int
  PROVE  /\ x \div m \in Int
         /\ x % m \in 0..(m - 1)
         /\ x = m * (x \div m) + (x % m)
  BY SMT

(* A multiple of m that is less than 2 * m away from 0 is 0, m or -m. *)
LEMMA Multiple ==
  ASSUME NEW m \in Nat \ {0}, NEW k \in Int
  PROVE  k = 0 \/ k = 1 \/ k = -1 \/ m * k >= 2 * m \/ m * k <= -(2 * m)
  BY SMT

(* Quotient and remainder are unique. *)
LEMMA ModUnique ==
  ASSUME NEW m \in Nat \ {0}, NEW q \in Int, NEW r \in 0..(m - 1), NEW x \in Int,
         x = m * q + r
  PROVE  x \div m = q /\ x % m = r
<1>1. x \div m \in Int /\ x % m \in 0..(m - 1) /\ x = m * (x \div m) + (x % m)
  BY DivMod
<1> DEFINE k == (x \div m) - q
<1>2. k \in Int /\ m * k = m * (x \div m) - m * q
  BY <1>1
<1>3. m * k < m /\ m * k > -m
  BY <1>1, <1>2
<1>4. k = 0 \/ k = 1 \/ k = -1 \/ m * k >= 2 * m \/ m * k <= -(2 * m)
  BY <1>2, Multiple
<1>5. k = 0
  BY <1>2, <1>3, <1>4
<1> QED BY <1>1, <1>5

(* The remainder of the number before: StartBefore of the detector. *)
LEMMA Predecessor ==
  ASSUME NEW m \in Nat \ {0}, NEW x \in Int
  PROVE  (x - 1) % m = IF x % m # 0 THEN (x % m) - 1 ELSE m - 1
<1>1. x \div m \in Int /\ x % m \in 0..(m - 1) /\ x = m * (x \div m) + (x % m)
  BY DivMod
<1>2. PICK y \in Int : y = x - 1
  OBVIOUS
<1>3. PICK r \in 0..(m - 1) : r = IF x % m # 0 THEN (x % m) - 1 ELSE m - 1
  BY <1>1
<1>4. PICK q \in Int : q = IF x % m # 0 THEN x \div m ELSE (x \div m) - 1
  BY <1>1
<1>5. y = m * q + r
  BY <1>1, <1>2, <1>3, <1>4
<1>6. y % m = r
  BY <1>5, ModUnique
<1> QED BY <1>2, <1>3, <1>6

-----------------------------------------------------------------------------
(* The wrapping detector.  As long as no accept function was used with an  *)
(* outdated distance, bit d of its mask stands for packet head - d,        *)
(* whatever round of the counter that packet was sent in, the head is the  *)
(* newest packet accepted, and what a caller holds is a packet in reach.   *)
Followed ==
  /\ init => w_latestSeq = head % (WrapMaxSeq + 1)
  /\ ~init => w_mask = {} /\ w_accepted = {} /\ \A c \in Callers : held[c] = <<>>
  /\ \A d \in 0..(WrapWindowSize - 1) : d \in w_mask <=> head - d \in w_accepted
  /\ \A p \in w_accepted : p <= head
  /\ \A c \in Callers : held[c] # <<>> => Wrapped!InReach(held[c][1])

WrapInv == Wrapped!TypeOK /\ (stale \/ Followed)

(* For a packet in reach, at most half the sequence space away from the    *)
(* head, the wrapped difference of the two sequence numbers is that of the *)
(* packet numbers: it is never taken for a packet of another round.  The   *)
(* one half ahead that is not in reach is taken for one behind the window. *)
LEMMA DiffIsDistance ==
  ASSUME NEW h \in Int, NEW p \in Int,
         h - p <= WrapMaxSeq \div 2, p - h <= WrapMaxSeq \div 2
  PROVE  Wrapped!diff(h % (WrapMaxSeq + 1), p % (WrapMaxSeq + 1)) =
           IF p - h < WrapMaxSeq \div 2 \/ p % (WrapMaxSeq + 1) < h % (WrapMaxSeq + 1)
           THEN h - p ELSE (h - p) + (WrapMaxSeq + 1)
<1> DEFINE m == WrapMaxSeq + 1
           k == (h \div m) - (p \div m)
<1>h. PICK half \in Nat : half = WrapMaxSeq \div 2
  BY WrapAssumption
<1>1. m \in Nat \ {0} /\ half > 1 /\ 2 * half < m
  BY <1>h, WrapAssumption
<1> HIDE DEF m
<1>2. /\ h \div m \in Int /\ h % m \in 0..(m - 1) /\ h = m * (h \div m) + (h % m)
      /\ p \div m \in Int /\ p % m \in 0..(m - 1) /\ p = m * (p \div m) + (p % m)
  BY Zenon, <1>1, DivMod
<1>3. k \in Int /\ m * k = m * (h \div m) - m * (p \div m)
  BY <1>1, <1>2
<1>4. k = 0 \/ k = 1 \/ k = -1 \/ m * k >= 2 * m \/ m * k <= -(2 * m)
  BY <1>1, <1>3, Multiple
<1>5. m * k \in Int /\ h - p = m * k + ((h % m) - (p % m))
  BY <1>1, <1>2, <1>3
<1>6. h - p <= half /\ p - h <= half
  BY <1>h
<1>7. k = 0 \/ k = 1 \/ k = -1
  BY <1>1, <1>2, <1>4, <1>5, <1>6
<1>8. h - p = (h % m) - (p % m) \/ h - p = m + ((h % m) - (p % m)) \/ h - p = ((h % m) - (p % m)) - m
  BY <1>1, <1>2, <1>3, <1>5, <1>7
<1>9. Wrapped!diff(h % m, p % m) =
        IF (h % m) - (p % m) > half THEN (h % m) - (p % m) - m
        ELSE IF (h % m) - (p % m) <= -half THEN (h % m) - (p % m) + m
        ELSE (h % m) - (p % m)
  BY <1>h DEF Wrapped!diff, Wrapped!half, m
<1>10. Wrapped!diff(h % m, p % m) = IF p - h < half \/ p % m < h % m THEN h - p ELSE (h - p) + m
  <2>0. (h % m) - (p % m) \in Int
    BY <1>1, <1>2
  <2>1. PICK x \in Int : x = (h % m) - (p % m)
    BY <2>0, Zenon
  <2>2. h - p \in Int /\ (h - p = x \/ h - p = m + x \/ h - p = x - m) /\ x < m /\ x > -m
    BY <2>1, <1>1, <1>2, <1>8
  <2>3. Wrapped!diff(h % m, p % m) =
          IF x > half THEN x - m ELSE IF x <= -half THEN x + m ELSE x
    BY <2>1, <1>9
  <2>4. p % m < h % m <=> x > 0
    BY <2>1, <1>1, <1>2
  <2> QED BY <2>2, <2>3, <2>4, <1>1, <1>6
<1> QED BY <1>h, <1>10 DEF m

(* So checkSeq passes exactly the packets in reach that are not older than *)
(* the window and not accepted, with their distance.                       *)
LEMMA PassesExactly ==
  ASSUME Wrapped!TypeOK, Followed, init, NEW p \in Wrapped!Packets, Wrapped!Near(p)
  PROVE  /\ Wrapped!InReach(p) => Wrapped!diff(w_latestSeq, Wrapped!Seq(p)) = head - p
         /\ Wrapped!Passes(w_latestSeq, Wrapped!Seq(p)) <=>
              p \notin w_accepted /\ p > head - WrapWindowSize /\ Wrapped!InReach(p)
<1>0. /\ p \in Int /\ head \in Int /\ w_latestSeq = head % (WrapMaxSeq + 1)
      /\ WrapWindowSize \in Nat /\ WrapMaxSeq \in Nat
  BY WrapAssumption DEF Followed, Wrapped!TypeOK, Wrapped!Packets
<1>h. PICK half \in Nat : half = WrapMaxSeq \div 2 /\ half > 1 /\ WrapWindowSize + half <= WrapMaxSeq + 1
  BY WrapAssumption
<1>1. head - p <= half /\ p - head <= half
  BY <1>h DEF Wrapped!Near, Wrapped!half
<1>2. PICK in \in BOOLEAN : in <=> Wrapped!InReach(p)
  BY Zenon
<1>3. in <=> p - head < half \/ p % (WrapMaxSeq + 1) < head % (WrapMaxSeq + 1)
  BY <1>0, <1>1, <1>2, <1>h DEF Wrapped!InReach, Wrapped!half, Wrapped!Seq
<1>4. Wrapped!diff(w_latestSeq, Wrapped!Seq(p)) =
        IF in THEN head - p ELSE (head - p) + (WrapMaxSeq + 1)
  BY Zenon, <1>0, <1>1, <1>3, <1>h, DiffIsDistance DEF Wrapped!Seq
<1>5. PICK d \in Int : d = Wrapped!diff(w_latestSeq, Wrapped!Seq(p))
  BY <1>0, <1>4
<1>6. Wrapped!Passes(w_latestSeq, Wrapped!Seq(p)) <=>
        d < WrapWindowSize /\ (d >= 0 => d \notin w_mask)
  BY <1>5 DEF Wrapped!Passes, Wrapped!Bit
<1>7. CASE in
  <2>1. d = head - p /\ head - d = p
    BY <1>0, <1>4, <1>5, <1>7
  <2>2. \A q \in w_accepted : q <= head
    BY DEF Followed
  <2>3. d < WrapWindowSize /\ d >= 0 => (d \in w_mask <=> p \in w_accepted)
    BY <1>0, <2>1 DEF Followed
  <2> QED BY <1>0, <1>2, <1>5, <1>6, <1>7, <2>1, <2>2, <2>3
<1>8. CASE ~in
  <2>1. p - head = half /\ d = (head - p) + (WrapMaxSeq + 1)
    BY <1>0, <1>1, <1>3, <1>4, <1>5, <1>8
  <2> QED BY <1>0, <1>h, <1>2, <1>6, <1>8, <2>1
<1> QED BY <1>7, <1>8

(* A new detector has seen nothing. *)
LEMMA InitWrapInv == Wrapped!Init => WrapInv
<1> SUFFICES ASSUME Wrapped!Init
             PROVE  WrapInv
  OBVIOUS
<1>1. w_latestSeq \in Wrapped!Seqs /\ head \in -1..MaxPacket
  BY WrapAssumption DEF Wrapped!Init, Wrapped!Seqs
<1>2. Wrapped!TypeOK
  BY <1>1, Zenon DEF Wrapped!Init, Wrapped!TypeOK
<1>3. Followed
  BY Zenon DEF Wrapped!Init, Followed
<1> QED BY <1>2, <1>3 DEF WrapInv

(* The first check puts the head right before its packet, also when that   *)
(* is packet 0; the later ones only leave the caller what passed.          *)
LEMMA WrapCheck ==
  ASSUME WrapInv, NEW c \in Callers, NEW p \in Wrapped!Packets, Wrapped!Check(c, p)
  PROVE  WrapInv'
<1>0. /\ p \in Nat /\ p <= MaxPacket /\ init \in BOOLEAN /\ init' = TRUE
      /\ UNCHANGED <<w_mask, w_accepted, w_latest, stale>> /\ Wrapped!TypeOK
  BY WrapAssumption DEF WrapInv, Wrapped!TypeOK, Wrapped!Packets, Wrapped!Check
<1>l. PICK last : last = IF init THEN w_latestSeq ELSE Wrapped!StartBefore(Wrapped!Seq(p))
  OBVIOUS
<1>m. last \in Wrapped!Seqs /\ (~init => last = (p - 1) % (WrapMaxSeq + 1))
  <2>1. CASE init
    BY <1>0, <1>l, <2>1 DEF Wrapped!TypeOK
  <2>2. CASE ~init
    <3>1. WrapMaxSeq + 1 \in Nat \ {0} /\ (WrapMaxSeq + 1) - 1 = WrapMaxSeq /\ p \in Int /\ p - 1 \in Int
      BY <1>0, WrapAssumption
    <3>2. last = (p - 1) % (WrapMaxSeq + 1)
      BY <1>l, <2>2, <3>1, Predecessor DEF Wrapped!StartBefore, Wrapped!Seq
    <3> QED BY <3>1, <3>2, DivMod DEF Wrapped!Seqs
  <2> QED BY <2>1, <2>2
<1>1. /\ w_latestSeq' = last /\ head' = IF init THEN head ELSE p - 1
      /\ held' = [held EXCEPT ![c] = IF Wrapped!Passes(last, Wrapped!Seq(p))
                                     THEN <<p, Wrapped!diff(last, Wrapped!Seq(p))>> ELSE <<>>]
  BY <1>l, Zenon DEF Wrapped!Check
<1>2. Wrapped!diff(last, Wrapped!Seq(p)) \in Int
  <2>1. last \in Int /\ Wrapped!Seq(p) \in Int
    BY <1>0, <1>m, WrapAssumption, DivMod DEF Wrapped!Seqs, Wrapped!Seq
  <2> QED BY <2>1, WrapAssumption DEF Wrapped!diff
<1>3. /\ head' \in -1..MaxPacket
      /\ held' \in [Callers -> {<<>>} \cup (Wrapped!Packets \X Int)]
  <2>0. head \in -1..MaxPacket /\ p - 1 \in -1..MaxPacket
    BY <1>0, WrapAssumption DEF Wrapped!TypeOK
  <2>1. head' \in -1..MaxPacket
    BY <1>1, <2>0, Zenon
  <2>2. (IF Wrapped!Passes(last, Wrapped!Seq(p))
         THEN <<p, Wrapped!diff(last, Wrapped!Seq(p))>> ELSE <<>>)
          \in {<<>>} \cup (Wrapped!Packets \X Int)
    BY <1>2
  <2> QED BY <1>0, <1>1, <2>1, <2>2 DEF Wrapped!TypeOK
<1>4. Wrapped!TypeOK'
  BY <1>0, <1>1, <1>m, <1>3, Zenon DEF Wrapped!TypeOK
<1>5. ASSUME ~stale
      PROVE  Followed'
  <2>0. Followed
    BY <1>5 DEF WrapInv
  <2>1. \A e \in Callers : held'[e] # <<>> =>
          \/ e = c /\ held'[e][1] = p /\ Wrapped!Passes(last, Wrapped!Seq(p))
          \/ held[e] # <<>> /\ held'[e] = held[e]
    BY <1>0, <1>1, Zenon DEF Wrapped!TypeOK
  <2>2. CASE init
    <3>1. UNCHANGED <<w_latestSeq, head, init>>
      BY <1>0, <1>1, <1>l, <2>2
    <3>2. Wrapped!Near(p)
      BY <2>2 DEF Wrapped!Check
    <3>3. Wrapped!Passes(last, Wrapped!Seq(p)) => Wrapped!InReach(p)
      BY <1>0, <1>1, <2>0, <2>2, <3>1, <3>2, PassesExactly
    <3>4. \A e \in Callers : held'[e] # <<>> => Wrapped!InReach(held'[e][1])
      BY <2>0, <2>1, <3>3, Zenon DEF Followed
    <3>5. \A e \in Callers : held'[e] # <<>> => Wrapped!InReach(held[e][1])'
      BY <3>1, <3>4 DEF Wrapped!InReach, Wrapped!half, Wrapped!Seq
    <3> QED BY <1>0, <2>0, <2>2, <3>1, <3>5, Zenon DEF Followed
  <2>3. CASE ~init
    <3>1. head' = p - 1 /\ w_latestSeq' = (p - 1) % (WrapMaxSeq + 1)
      BY <1>1, <1>m, <2>3
    <3>2. w_mask = {} /\ w_accepted = {} /\ \A e \in Callers : held[e] = <<>>
      BY <2>0, <2>3, Zenon DEF Followed
    <3>3. \A e \in Callers : held'[e] # <<>> => held'[e][1] = p
      BY <2>1, <3>2, Zenon
    <3>4. p - head' < WrapMaxSeq \div 2
      BY <1>0, <3>1, WrapAssumption
    <3>5. \A e \in Callers : held'[e] # <<>> => Wrapped!InReach(held[e][1])'
      BY <3>3, <3>4 DEF Wrapped!InReach, Wrapped!half
    <3> QED BY <1>0, <3>1, <3>2, <3>5, Zenon DEF Followed
  <2> QED BY <1>0, <2>2, <2>3
<1> QED BY <1>0, <1>4, <1>5, Zenon DEF WrapInv

(* acceptDiff keeps the types, whatever distance it is given. *)
LEMMA AcceptDiffType ==
  ASSUME Wrapped!TypeOK, NEW p \in Wrapped!Packets, NEW d \in Int, Wrapped!acceptDiff(p, d),
         stale' \in BOOLEAN
  PROVE  Wrapped!TypeOK'
<1>0. /\ p \in Nat /\ p <= MaxPacket /\ WrapWindowSize \in Nat /\ WrapMaxSeq \in Nat
      /\ w_mask \in SUBSET (0..(WrapWindowSize - 1)) /\ head \in -1..MaxPacket
  BY WrapAssumption DEF Wrapped!TypeOK, Wrapped!Packets
<1>1. w_mask' \in SUBSET (0..(WrapWindowSize - 1))
  <2>1. CASE d < 0
    BY <2>1, <1>0 DEF Wrapped!acceptDiff, Wrapped!MaskAhead, Wrapped!SetBit, Wrapped!Lsh, Wrapped!Minimum
  <2>2. CASE ~(d < 0)
    BY <2>2, <1>0 DEF Wrapped!acceptDiff, Wrapped!SetBit
  <2> QED BY <2>1, <2>2
<1>2. w_latestSeq' \in Wrapped!Seqs
  <2>1. Wrapped!Seq(p) \in Wrapped!Seqs
    <3>1. WrapMaxSeq + 1 \in Nat \ {0} /\ (WrapMaxSeq + 1) - 1 = WrapMaxSeq /\ p \in Int
      BY <1>0
    <3> QED BY Zenon, <3>1, DivMod DEF Wrapped!Seq, Wrapped!Seqs
  <2> QED BY <2>1 DEF Wrapped!acceptDiff, Wrapped!TypeOK
<1>3. w_latest' \in BOOLEAN
  BY DEF Wrapped!acceptDiff, Wrapped!isLatest
<1>4. head' \in -1..MaxPacket /\ w_accepted' \in SUBSET Wrapped!Packets
  BY <1>0 DEF Wrapped!acceptDiff, Wrapped!TypeOK
<1> QED BY <1>1, <1>2, <1>3, <1>4, Zenon DEF Wrapped!acceptDiff, Wrapped!TypeOK

(* Given the distance of the packet, acceptDiff moves head and mask so     *)
(* that each bit keeps its meaning, and reports the packets ahead of the   *)
(* head.                                                                   *)
LEMMA AcceptDiffFollows ==
  ASSUME Wrapped!TypeOK, Followed, init, NEW p \in Wrapped!Packets,
         Wrapped!acceptDiff(p, head - p)
  PROVE  Followed' /\ (w_latest' <=> p > head)
<1>0. /\ p \in Nat /\ p <= MaxPacket /\ head \in Int /\ head >= -1 /\ head <= MaxPacket
      /\ WrapWindowSize \in Nat
  BY WrapAssumption DEF Wrapped!TypeOK, Wrapped!Packets
<1>1. init' = init /\ held' = held /\ w_accepted' = w_accepted \cup {p}
  BY Zenon DEF Wrapped!acceptDiff
<1>2. w_latestSeq = head % (WrapMaxSeq + 1)
  BY Zenon DEF Followed
<1>4. /\ w_latest' <=> head - p < 0
      /\ w_latestSeq' = IF head - p < 0 THEN Wrapped!Seq(p) ELSE w_latestSeq
      /\ w_mask' = IF head - p < 0 THEN Wrapped!MaskAhead(head - p)
                   ELSE SetBit(w_mask, WrapWindowSize, head - p)
      /\ head' = IF p > head THEN p ELSE head
  BY Zenon DEF Wrapped!acceptDiff, Wrapped!isLatest, Wrapped!SetBit, SetBit
<1>5. w_latestSeq' = head' % (WrapMaxSeq + 1)
  BY <1>0, <1>2, <1>4 DEF Wrapped!Seq
<1>7. \A q \in w_accepted' : q <= head'
  <2>1. \A q \in w_accepted : q \in Int /\ q <= head
    BY WrapAssumption DEF Followed, Wrapped!TypeOK, Wrapped!Packets
  <2> QED BY <2>1, <1>0, <1>1, <1>4
<1>8. \A d \in 0..(WrapWindowSize - 1) : d \in w_mask' <=> head' - d \in w_accepted'
  <2>1. /\ w_mask \in SUBSET (0..(WrapWindowSize - 1))
        /\ \A d \in 0..(WrapWindowSize - 1) : d \in w_mask <=> head - d \in w_accepted
        /\ \A q \in w_accepted : q \in Int /\ q <= head
    BY WrapAssumption DEF Followed, Wrapped!TypeOK, Wrapped!Packets
  <2>2. CASE head - p < 0
    <3>1. w_mask' = Wrapped!SetBit(Wrapped!Lsh(w_mask, WrapWindowSize,
                      Wrapped!Minimum(p - head, WrapWindowSize)), WrapWindowSize, 0)
      BY <2>2, <1>0, <1>4 DEF Wrapped!MaskAhead
    <3>2. head' = p
      BY <2>2, <1>0, <1>4
    <3> QED BY <3>1, <3>2, <2>1, <2>2, <1>0, <1>1
            DEF Wrapped!SetBit, Wrapped!Lsh, Wrapped!Minimum
  <2>3. CASE ~(head - p < 0)
    BY <2>1, <2>3, <1>0, <1>1, <1>4 DEF SetBit
  <2> QED BY <2>2, <2>3
<1>9. \A c \in Callers : held'[c] # <<>> => Wrapped!InReach(held[c][1])'
  <2> SUFFICES ASSUME NEW c \in Callers, held[c] # <<>>
               PROVE  Wrapped!InReach(held[c][1])'
    BY <1>1
  <2>1. PICK q \in Int : q = held[c][1]
    BY WrapAssumption DEF Wrapped!TypeOK, Wrapped!Packets
  <2>2. q - head < WrapMaxSeq \div 2 \/ (q - head = WrapMaxSeq \div 2 /\ Wrapped!Seq(q) < w_latestSeq)
    BY <2>1 DEF Followed, Wrapped!InReach, Wrapped!half
  <2>3. q - head' < WrapMaxSeq \div 2 \/ (q - head' = WrapMaxSeq \div 2 /\ Wrapped!Seq(q) < w_latestSeq')
    BY <2>1, <2>2, <1>0, <1>4, WrapAssumption
  <2> QED BY <2>1, <2>3, <1>1 DEF Wrapped!InReach, Wrapped!half, Wrapped!Seq
<1>10. Followed'
  BY <1>1, <1>5, <1>7, <1>8, <1>9, Zenon DEF Followed
<1>11. w_latest' <=> p > head
  BY <1>0, <1>4
<1> QED BY <1>10, <1>11

(* By token, or by an accept function whose distance is still right, the   *)
(* invariant is kept and the newest packet is reported as such; a function *)
(* with another distance is remembered as stale.                           *)
LEMMA WrapAccept ==
  ASSUME WrapInv, NEW c \in Callers, Wrapped!Accept(c) \/ Wrapped!AcceptFunc(c)
  PROVE  /\ WrapInv'
         /\ ~stale' => (w_latest' <=> held[c][1] > head)
<1>0. /\ Wrapped!TypeOK /\ held[c] # <<>> /\ stale \in BOOLEAN
  BY DEF WrapInv, Wrapped!TypeOK, Wrapped!Accept, Wrapped!AcceptFunc
<1>1. PICK p, d : held[c] = <<p, d>> /\ p \in Wrapped!Packets /\ d \in Int
  BY <1>0 DEF Wrapped!TypeOK
<1>2. held[c][1] = p /\ held[c][2] = d
  BY <1>1
<1>3. CASE Wrapped!Accept(c)
  <2>1. Wrapped!Near(p) /\ Wrapped!acceptDiff(p, Wrapped!diff(w_latestSeq, Wrapped!Seq(p))) /\ stale' = stale
    BY <1>2, <1>3, Zenon DEF Wrapped!Accept
  <2>2. Wrapped!diff(w_latestSeq, Wrapped!Seq(p)) \in Int
    <3>1. w_latestSeq \in Int /\ Wrapped!Seq(p) \in Int
      BY <1>0, <1>1, WrapAssumption, DivMod DEF Wrapped!TypeOK, Wrapped!Seqs, Wrapped!Seq, Wrapped!Packets
    <3> QED BY <3>1, WrapAssumption DEF Wrapped!diff
  <2>3. Wrapped!TypeOK'
    BY <1>0, <1>1, <2>1, <2>2, AcceptDiffType
  <2>4. ASSUME ~stale
        PROVE  Followed' /\ (w_latest' <=> p > head)
    <3>1. Followed /\ init
      BY <1>0, <2>4, Zenon DEF WrapInv, Followed
    <3>2. Wrapped!InReach(p)
      BY <1>0, <1>2, <3>1, Zenon DEF Followed
    <3>3. Wrapped!diff(w_latestSeq, Wrapped!Seq(p)) = head - p
      BY <1>0, <1>1, <2>1, <3>1, <3>2, PassesExactly
    <3> QED BY <1>0, <1>1, <2>1, <3>1, <3>3, AcceptDiffFollows
  <2> QED BY <1>0, <1>2, <2>1, <2>3, <2>4 DEF WrapInv
<1>4. CASE Wrapped!AcceptFunc(c)
  <2>1. Wrapped!acceptDiff(p, d) /\ stale' = (stale \/ d # head - p)
    BY <1>2, <1>4, Zenon DEF Wrapped!AcceptFunc
  <2>2. stale' \in BOOLEAN
    BY <2>1, Zenon
  <2>3. Wrapped!TypeOK'
    BY <1>0, <1>1, <2>1, <2>2, AcceptDiffType
  <2>4. ASSUME ~stale'
        PROVE  Followed' /\ (w_latest' <=> p > head)
    <3>1. ~stale /\ d = head - p
      BY Zenon, <2>1, <2>4
    <3>2. Followed /\ init
      BY <1>0, <3>1, Zenon DEF WrapInv, Followed
    <3> QED BY <1>0, <1>1, <2>1, <3>1, <3>2, AcceptDiffFollows
  <2> QED BY <1>2, <2>3, <2>4 DEF WrapInv
<1> QED BY <1>3, <1>4

(* Every step of the structures keeps the invariant of the detector. *)
LEMMA WrapInvariance == DetectorsSpec => []WrapInv
<1>1. DetectorsInit => WrapInv
  BY InitWrapInv DEF DetectorsInit
<1>2. WrapInv /\ [DetectorsNext]_detectors => WrapInv'
  <2> SUFFICES ASSUME WrapInv, [DetectorsNext]_detectors
               PROVE  WrapInv'
    OBVIOUS
  <2>1. CASE Wrapped!Next
    BY <2>1, WrapCheck, WrapAccept DEF Wrapped!Next
  <2>2. CASE UNCHANGED wrap
    BY <2>2, Zenon DEF wrap, WrapInv, Followed, Wrapped!TypeOK, Wrapped!InReach, Wrapped!half, Wrapped!Seq
  <2> QED BY <2>1, <2>2, Zenon DEF DetectorsNext, detectors
<1> QED BY <1>1, <1>2, PTL DEF DetectorsSpec

-----------------------------------------------------------------------------
(* The mask of several words.  Bit p of word c stands for position         *)
(* c * W + p of the one integer.                                           *)
MaskInv ==
  /\ Big!TypeOK
  /\ \A c \in 0..(Big!chunkSize(n) - 1), p \in 0..(W - 1) :
       p \in bits[c] <=> c * W + p \in ideal

(* The words hold n positions, and the last one is needed. *)
LEMMA Words ==
  ASSUME NEW s \in Nat
  PROVE  /\ Big!chunkSize(s) \in Nat \ {0}
         /\ s <= Big!chunkSize(s) * W
         /\ s > 0 => (Big!chunkSize(s) - 1) * W < s
<1>0. W \in Nat \ {0}
  BY MaskAssumption
<1>x. PICK x \in Int : x = s + W - 1
  BY <1>0
<1>1. PICK q, r : q = x \div W /\ r = x % W
  OBVIOUS
<1>2. q \in Int /\ r \in 0..(W - 1) /\ s + W - 1 = W * q + r
  BY Zenon, <1>0, <1>x, <1>1, DivMod
<1>3. q >= 0 /\ (s > 0 => q > 0)
  BY <1>0, <1>2, Multiple
<1>4. Big!chunkSize(s) = IF q >= 1 THEN q ELSE 1
  BY <1>x, <1>1 DEF Big!chunkSize, Big!Max
<1>5. W * q = q * W /\ (q - 1) * W = W * q - W
  BY <1>0, <1>2
<1> QED BY <1>0, <1>2, <1>3, <1>4, <1>5

(* The mask of the last word keeps the positions below n. *)
LEMMA TopWord ==
  ASSUME n \in Nat \ {0}, NEW p \in 0..(W - 1)
  PROVE  p \in Big!msbMask <=> (Big!chunkSize(n) - 1) * W + p < n
<1>0. W \in Nat \ {0}
  BY MaskAssumption
<1>1. PICK q, r : q = n \div W /\ r = n % W
  OBVIOUS
<1>2. q \in Int /\ r \in 0..(W - 1) /\ n = W * q + r
  BY <1>0, <1>1, DivMod
<1>3. PICK C \in Nat \ {0} : C = Big!chunkSize(n) /\ n <= C * W /\ (C - 1) * W < n
  BY Words
<1>4. PICK k \in Int : k = (C - 1) - q
  BY <1>2
<1>5. W * k = (C - 1) * W - W * q /\ C * W = (C - 1) * W + W
  BY <1>0, <1>2, <1>4
<1>6. W * k < W /\ W * k >= -W
  BY <1>0, <1>2, <1>3, <1>5
<1>7. k = 0 \/ k = -1
  BY <1>0, <1>2, <1>3, <1>5, <1>6, Multiple
<1>8. (r = 0 => k = -1) /\ (r # 0 => k = 0)
  BY <1>0, <1>2, <1>3, <1>5, <1>7
<1>9. (W - r) % W = IF r = 0 THEN 0 ELSE W - r
  <2>1. CASE r = 0
    BY <2>1, <1>0, ModUnique
  <2>2. CASE r # 0
    BY <2>2, <1>0, <1>2
  <2> QED BY <2>1, <2>2
<1>10. p \in Big!msbMask <=> p + (IF r = 0 THEN 0 ELSE W - r) <= W - 1
  <2>1. p \in Big!msbMask <=> p + ((W - r) % W) \in 0..(W - 1)
    BY <1>1 DEF Big!msbMask, Big!ShiftRight
  <2> QED BY <2>1, <1>0, <1>2, <1>9
<1>11. (C - 1) * W + p < n <=> (W * k) + p < r
  BY <1>0, <1>2, <1>3, <1>5
<1>12. CASE r = 0
  BY <1>0, <1>3, <1>8, <1>10, <1>11, <1>12
<1>13. CASE r # 0
  BY <1>0, <1>2, <1>3, <1>8, <1>10, <1>11, <1>13
<1> QED BY <1>12, <1>13

(* What a shift by k puts at bit p of word i, before the last word is      *)
(* masked, is the bit k positions below.                                   *)
LEMMA ShiftedWord ==
  ASSUME MaskInv, NEW k \in Nat, NEW i \in 0..(Big!chunkSize(n) - 1), NEW p \in 0..(W - 1)
  PROVE  p \in Big!ShiftLeft(bits[i], k) \cup Big!Carry(i, k) <=> i * W + p - k \in ideal
<1>0. /\ W \in Nat \ {0} /\ n \in Nat /\ ideal \in SUBSET (0..(n - 1))
      /\ \A c \in 0..(Big!chunkSize(n) - 1), e \in 0..(W - 1) :
           e \in bits[c] <=> c * W + e \in ideal
      /\ \A c \in 0..(Big!chunkSize(n) - 1) : bits[c] \subseteq 0..(W - 1)
  BY MaskAssumption DEF MaskInv, Big!TypeOK, Big!Word
<1>1. PICK C \in Nat \ {0} : C = Big!chunkSize(n)
  BY <1>0, Words
<1>2. PICK q, r : q = k \div W /\ r = k % W
  OBVIOUS
<1>3. q \in Int /\ r \in 0..(W - 1) /\ k = W * q + r
  BY <1>0, <1>2, DivMod
<1>4. q >= 0
  BY <1>0, <1>3, Multiple
<1>5. i \in Nat /\ p \in Nat /\ p < W /\ i < C
  BY <1>0, <1>1
<1>6. PICK x \in Int : x = i * W + p - k
  BY <1>0, <1>3, <1>5
<1>7. /\ (i - q) * W + (p - r) = x
      /\ (i - q - 1) * W + (p + (W - r)) = x
  BY <1>0, <1>3, <1>5, <1>6
<1>8. p \in Big!ShiftLeft(bits[i], k) => x \in ideal
  <2> SUFFICES ASSUME p - k \in bits[i]
               PROVE  x \in ideal
    BY DEF Big!ShiftLeft
  <2>1. p - k \in 0..(W - 1)
    BY <1>0
  <2>2. i * W + (p - k) \in ideal
    BY <2>1, <1>0
  <2>3. i * W + (p - k) = x
    BY <1>0, <1>5, <1>6
  <2> QED BY <2>2, <2>3
<1>9. p \in Big!Carry(i, k) <=>
        \/ i - q >= 0 /\ p - r \in bits[i - q]
        \/ i - q - 1 >= 0 /\ p + (W - r) \in bits[i - q - 1]
  BY <1>2 DEF Big!Carry, Big!ShiftLeft, Big!ShiftRight
<1>10. i - q >= 0 /\ p - r \in bits[i - q] <=> p >= r /\ x \in ideal
  <2>1. i - q \in Int /\ i - q <= C - 1 /\ p - r \in Int /\ p - r < W
    BY <1>0, <1>1, <1>3, <1>4, <1>5
  <2>2. ASSUME i - q >= 0
        PROVE  p - r \in bits[i - q] <=> p >= r /\ x \in ideal
    <3>1. i - q \in 0..(C - 1)
      BY <2>1, <2>2, <1>1
    <3>2. CASE p >= r
      <4>1. p - r \in 0..(W - 1)
        BY <3>2, <2>1, <1>0, <1>3, <1>5
      <4> QED BY <3>1, <3>2, <4>1, <1>0, <1>1, <1>7
    <3>3. CASE ~(p >= r)
      BY <3>1, <3>3, <1>0, <1>1, <1>3, <1>5
    <3> QED BY <3>2, <3>3
  <2>3. ASSUME ~(i - q >= 0), p >= r
        PROVE  x \notin ideal
    <3>1. (i - q) * W <= -W
      BY <2>1, <2>3, <1>0
    <3>2. (i - q) * W \in Int /\ x < 0
      BY <3>1, <2>1, <1>0, <1>3, <1>5, <1>7
    <3> QED BY <3>2, <1>0, <1>6
  <2> QED BY <2>2, <2>3
<1>11. i - q - 1 >= 0 /\ p + (W - r) \in bits[i - q - 1] <=> p < r /\ x \in ideal
  <2>1. i - q - 1 \in Int /\ i - q - 1 <= C - 1 /\ p + (W - r) \in Int /\ p + (W - r) >= 0
    BY <1>0, <1>1, <1>3, <1>4, <1>5
  <2>2. ASSUME i - q - 1 >= 0
        PROVE  p + (W - r) \in bits[i - q - 1] <=> p < r /\ x \in ideal
    <3>1. i - q - 1 \in 0..(C - 1)
      BY <2>1, <2>2, <1>1
    <3>2. CASE p < r
      <4>1. p + (W - r) \in 0..(W - 1)
        BY <3>2, <2>1, <1>0, <1>3, <1>5
      <4> QED BY <3>1, <3>2, <4>1, <1>0, <1>1, <1>7
    <3>3. CASE ~(p < r)
      BY <3>1, <3>3, <1>0, <1>1, <1>3, <1>5
    <3> QED BY <3>2, <3>3
  <2>3. ASSUME ~(i - q - 1 >= 0), p < r
        PROVE  x \notin ideal
    <3>1. (i - q - 1) * W <= -W
      BY <2>1, <2>3, <1>0
    <3>2. (i - q - 1) * W \in Int /\ x < 0
      BY <3>1, <2>1, <2>3, <1>0, <1>3, <1>5, <1>7
    <3> QED BY <3>2, <1>0, <1>6
  <2> QED BY <2>2, <2>3
<1>12. p < r \/ p >= r
  BY <1>3, <1>5
<1> QED BY <1>6, <1>8, <1>9, <1>10, <1>11, <1>12

(* A new mask is empty. *)
LEMMA InitMaskInv == Big!Init => MaskInv
<1> SUFFICES ASSUME Big!Init
             PROVE  MaskInv
  OBVIOUS
<1>1. n \in Sizes /\ bits = [i \in 0..(Big!chunkSize(n) - 1) |-> {}] /\ ideal = {}
  BY DEF Big!Init
<1>2. {} \in Big!Word /\ {} \in SUBSET (0..(n - 1))
  BY DEF Big!Word
<1>3. Big!TypeOK
  BY <1>1, <1>2 DEF Big!TypeOK
<1> QED BY <1>1, <1>3 DEF MaskInv

(* Lsh moves every bit by k positions, across words, and drops those that  *)
(* reach the size.                                                         *)
LEMMA LshMaskInv ==
  ASSUME MaskInv, NEW k \in 0..MaxShift, Big!Lsh(k)
  PROVE  MaskInv'
<1>0. /\ W \in Nat \ {0} /\ n \in Nat /\ n' = n /\ n \in Sizes /\ k \in Nat
      /\ ideal \in SUBSET (0..(n - 1)) /\ Big!chunkSize(n') = Big!chunkSize(n)
      /\ bits \in [0..(Big!chunkSize(n) - 1) -> Big!Word]
  BY MaskAssumption DEF MaskInv, Big!TypeOK, Big!Lsh
<1>C. Big!chunkSize(n) \in Nat \ {0}
  BY <1>0, Words
<1>1. ideal' = {x \in 0..(n - 1) : x >= k /\ x - k \in ideal}
  BY DEF Big!Lsh, Big!A!Lsh
<1>2. CASE k = 0
  <2>0. \A x \in 0..(n - 1) : x - k = x /\ x >= k
    BY <1>0, <1>2
  <2>1. bits' = bits /\ ideal' = ideal
    BY Zenon, <2>0, <1>0, <1>1, <1>2 DEF Big!Lsh
  <2> QED BY <1>0, <2>1 DEF MaskInv, Big!TypeOK
<1>3. CASE k # 0
  <2>1. bits' = [i \in 0..(Big!chunkSize(n) - 1) |->
                   Big!MaskTop(i, Big!ShiftLeft(bits[i], k) \cup Big!Carry(i, k))]
    BY <1>0, <1>3 DEF Big!Lsh
  <2>2. \A i \in 0..(Big!chunkSize(n) - 1) : bits'[i] \in Big!Word
    <3> SUFFICES ASSUME NEW i \in 0..(Big!chunkSize(n) - 1), NEW p \in bits'[i]
                 PROVE  p \in 0..(W - 1)
      BY DEF Big!Word
    <3>1. p \in Big!ShiftLeft(bits[i], k) \cup Big!Carry(i, k)
      BY <2>1 DEF Big!MaskTop
    <3> QED BY <3>1 DEF Big!ShiftLeft, Big!ShiftRight, Big!Carry
  <2>3. Big!TypeOK'
    <3>1. bits' \in [0..(Big!chunkSize(n) - 1) -> Big!Word]
      BY <2>1, <2>2
    <3>2. ideal' \in SUBSET (0..(n - 1))
      BY <1>1
    <3> QED BY <3>1, <3>2, <1>0 DEF Big!TypeOK
  <2>4. ASSUME NEW i \in 0..(Big!chunkSize(n) - 1), NEW p \in 0..(W - 1)
        PROVE  p \in bits'[i] <=> i * W + p \in ideal'
    <3>1. PICK shifted : shifted = Big!ShiftLeft(bits[i], k) \cup Big!Carry(i, k)
      BY Zenon
    <3>2. p \in shifted <=> i * W + p - k \in ideal
      BY <1>0, <3>1, ShiftedWord
    <3>3. p \in bits'[i] <=> p \in shifted /\ (i = Big!chunkSize(n) - 1 => p \in Big!msbMask)
      BY <2>1, <3>1 DEF Big!MaskTop
    <3>4. CASE n = 0
      BY <3>2, <3>3, <3>4, <1>0, <1>1
    <3>5. CASE n # 0
      <4>1. PICK C \in Nat \ {0} : C = Big!chunkSize(n) /\ (C - 1) * W < n
        <5>1. n > 0 /\ n \in Nat
          BY <1>0, <3>5
        <5>2. (Big!chunkSize(n) - 1) * W < n
          BY <5>1, Words
        <5> QED BY <5>2, <1>C, Zenon
      <4>2. PICK x \in Nat : x = i * W + p
        BY <1>0
      <4>3. (i = C - 1 => p \in Big!msbMask) <=> x < n
        <5>1. CASE i = C - 1
          BY SMTT(30), <5>1, <3>5, <4>1, <4>2, <1>0, TopWord
        <5>2. CASE i # C - 1
          <6>e. PICK e \in Nat \ {0} : e = C - 1 - i
            BY <5>2, <4>1
          <6>1. (C - 1 - i) * W >= W
            BY <6>e, <1>0
          <6>2. (C - 1 - i) * W = (C - 1) * W - i * W /\ (C - 1) * W \in Int /\ i * W \in Int
            BY <4>1, <1>0
          <6> QED BY <5>2, <6>1, <6>2, <4>1, <4>2, <1>0
        <5> QED BY <5>1, <5>2
      <4>4. x - k \in ideal => x >= k
        BY <1>0
      <4> QED BY <3>2, <3>3, <4>1, <4>2, <4>3, <4>4, <1>0, <1>1
    <3> QED BY <3>4, <3>5
  <2> QED BY <2>3, <2>4, <1>0 DEF MaskInv
<1> QED BY <1>2, <1>3

(* SetBit sets one position, in one word, and none at or above the size. *)
LEMMA SetBitMaskInv ==
  ASSUME MaskInv, NEW j \in 0..MaxShift, Big!SetBit(j)
  PROVE  MaskInv'
<1>0. /\ W \in Nat \ {0} /\ n \in Nat /\ n' = n /\ n \in Sizes /\ j \in Nat
      /\ ideal \in SUBSET (0..(n - 1)) /\ Big!chunkSize(n') = Big!chunkSize(n)
      /\ bits \in [0..(Big!chunkSize(n) - 1) -> Big!Word]
  BY MaskAssumption DEF MaskInv, Big!TypeOK, Big!SetBit
<1>1. CASE j >= n
  <2>1. bits' = bits /\ ideal' = ideal
    BY <1>0, <1>1 DEF Big!SetBit, Big!A!SetBit
  <2> QED BY <1>0, <2>1 DEF MaskInv, Big!TypeOK
<1>2. CASE ~(j >= n)
  <2>1. PICK q, r : q = j \div W /\ r = j % W
    OBVIOUS
  <2>2. q \in Int /\ r \in 0..(W - 1) /\ j = W * q + r
    BY <1>0, <2>1, DivMod
  <2>3. PICK C \in Nat \ {0} : C = Big!chunkSize(n) /\ n <= C * W
    BY <1>0, Words
  <2>4. q \in 0..(C - 1)
    <3>1. q >= 0
      BY <1>0, <2>2, Multiple
    <3>2. W * (q - C) = W * q - C * W /\ W * (q - C) < 0
      BY <1>0, <1>2, <2>2, <2>3
    <3>3. q < C
      BY <3>2, <1>0, <2>2, <2>3, SMTT(30)
    <3> QED BY <3>1, <3>3, <2>2, <2>3
  <2>5. bits' = [bits EXCEPT ![q] = bits[q] \cup {r}] /\ ideal' = ideal \cup {j}
    BY <1>0, <1>2, <2>1 DEF Big!SetBit, Big!A!SetBit, Big!PosInWord
  <2>6. Big!TypeOK'
    <3>1. bits[q] \cup {r} \in Big!Word
      BY <1>0, <2>2, <2>3, <2>4 DEF Big!Word
    <3>2. bits' \in [0..(Big!chunkSize(n) - 1) -> Big!Word]
      BY Zenon, <3>1, <2>5, <1>0
    <3>3. ideal' \in SUBSET (0..(n - 1))
      BY <2>5, <1>0, <1>2
    <3> QED BY <3>2, <3>3, <1>0 DEF Big!TypeOK
  <2>7. ASSUME NEW c \in 0..(Big!chunkSize(n) - 1), NEW p \in 0..(W - 1)
        PROVE  p \in bits'[c] <=> c * W + p \in ideal'
    <3>1. p \in bits'[c] <=> p \in bits[c] \/ (c = q /\ p = r)
      BY <2>3, <2>4, <2>5, <1>0
    <3>2. p \in bits[c] <=> c * W + p \in ideal
      BY DEF MaskInv
    <3>3. c * W + p = j <=> c = q /\ p = r
      <4>1. ASSUME c * W + p = j
            PROVE  c = q /\ p = r
        <5>1. j = W * c + p /\ c \in Int /\ j \in Int
          BY <4>1, <1>0
        <5> QED BY SMTT(30), <5>1, <2>1, <1>0, ModUnique
      <4> QED BY <4>1, <2>2, <1>0
    <3> QED BY <3>1, <3>2, <3>3, <2>5
  <2> QED BY <2>6, <2>7, <1>0 DEF MaskInv
<1> QED BY <1>1, <1>2

(* Bit finds the word and the bit of a position. *)
LEMMA MaskInvImplies == MaskInv => ImplementsBitMask
<1> SUFFICES ASSUME MaskInv
             PROVE  ImplementsBitMask
  OBVIOUS
<1>0. /\ W \in Nat \ {0} /\ n \in Nat /\ MaxShift \in Nat
      /\ ideal \in SUBSET (0..(n - 1))
      /\ bits \in [0..(Big!chunkSize(n) - 1) -> Big!Word]
  BY MaskAssumption DEF MaskInv, Big!TypeOK
<1>1. PICK C \in Nat \ {0} : C = Big!chunkSize(n) /\ n <= C * W
  BY <1>0, Words
<1>2. ASSUME NEW j \in 0..(n + MaxShift)
      PROVE  Big!Bit(j) = Big!A!Bit(ideal, j)
  <2>1. PICK q, r : q = j \div W /\ r = j % W
    OBVIOUS
  <2>2. j \in Nat /\ q \in Int /\ r \in 0..(W - 1) /\ j = W * q + r
    BY <1>0, <2>1, DivMod
  <2>3. CASE j < n
    <3>1. q >= 0
      BY <1>0, <2>2, Multiple
    <3>2. W * (q - C) = W * q - C * W /\ W * (q - C) < 0
      BY <1>0, <1>1, <2>2, <2>3
    <3>3. q < C
      BY SMTT(30), <3>2, <1>0, <1>1, <2>2
    <3>4. q \in 0..(Big!chunkSize(n) - 1)
      BY <3>1, <3>3, <1>1, <2>2
    <3>5. r \in bits[q] <=> q * W + r \in ideal
      BY <3>4, <2>2 DEF MaskInv
    <3>6. q * W + r = j
      BY <1>0, <2>2
    <3> QED BY <2>1, <2>3, <3>5, <3>6 DEF Big!Bit, Big!A!Bit, Big!PosInWord
  <2>4. CASE ~(j < n)
    BY <2>4, <2>2, <1>0 DEF Big!Bit, Big!A!Bit
  <2> QED BY <2>3, <2>4
<1>3. Big!ImplementsBitMask
  BY <1>2 DEF Big!ImplementsBitMask
<1>4. Big!NothingAboveSize
  <2> SUFFICES ASSUME NEW c \in DOMAIN bits, NEW p \in bits[c]
               PROVE  c * W + p < n
    BY DEF Big!NothingAboveSize
  <2>1. c \in 0..(Big!chunkSize(n) - 1) /\ p \in 0..(W - 1)
    BY <1>0 DEF Big!Word
  <2>2. PICK x : x = c * W + p
    OBVIOUS
  <2>3. x \in ideal
    BY <2>1, <2>2 DEF MaskInv
  <2> QED BY <2>2, <2>3, <1>0
<1> QED BY <1>3, <1>4 DEF ImplementsBitMask, MaskInv

-----------------------------------------------------------------------------
(* Across wraps of the counter, the detector follows the newest packet and *)
(* passes exactly the packets that are not older than the window and not   *)
(* yet accepted, for every window size and every limit of the counter.     *)
THEOREM WrapDetectsExactlyCorrect ==
  ASSUME WindowFits
  PROVE  DetectorsSpec => []WrapDetectsExactly
<1>1. DetectorsSpec => []IInv
  <2>1. DetectorsInit => IInv
    BY InitIInv DEF DetectorsInit
  <2>2. IInv /\ [DetectorsNext]_detectors => IInv'
    BY NextIInv, Zenon DEF DetectorsNext, detectors, win
  <2> QED BY <2>1, <2>2, PTL DEF DetectorsSpec
<1>2. IInv => TypeOK
  BY DEF IInv
<1>3. WrapInv => Wrapped!TypeOK /\ Wrapped!DetectsExactly
  <2> SUFFICES ASSUME WrapInv, init, ~stale
               PROVE  /\ w_latestSeq = head % (WrapMaxSeq + 1)
                      /\ \A p \in Wrapped!Packets : Wrapped!Near(p) =>
                           (Wrapped!Passes(w_latestSeq, Wrapped!Seq(p)) <=>
                              p \notin w_accepted /\ p > head - WrapWindowSize /\ Wrapped!InReach(p))
    BY Zenon DEF WrapInv, Wrapped!DetectsExactly
  <2>1. Wrapped!TypeOK /\ Followed
    BY DEF WrapInv
  <2>2. w_latestSeq = head % (WrapMaxSeq + 1)
    BY <2>1 DEF Followed
  <2> QED BY <2>1, <2>2, PassesExactly
<1> QED BY <1>1, <1>2, <1>3, WrapInvariance, PTL DEF WrapDetectsExactly

(* The part of StepsAsSpecified about the wrapping detector: Accept        *)
(* reports exactly the packets newer than all accepted before.             *)
THEOREM WrapReportsLatestCorrect ==
  DetectorsSpec => [][which = "wrapped" => Wrapped!ReportsLatest]_wrap
<1>1. WrapInv => [which = "wrapped" => Wrapped!ReportsLatest]_wrap
  BY WrapAccept DEF Wrapped!ReportsLatest
<1> QED BY <1>1, WrapInvariance, PTL

(* The words of fixedBigInt answer as one integer of n bits would, and     *)
(* hold no bit beyond it: for every width of a word, size and shift.       *)
THEOREM ImplementsBitMaskCorrect == DetectorsSpec => []ImplementsBitMask
<1>1. DetectorsInit => MaskInv
  BY InitMaskInv DEF DetectorsInit
<1>2. MaskInv /\ [DetectorsNext]_detectors => MaskInv'
  <2> SUFFICES ASSUME MaskInv, [DetectorsNext]_detectors
               PROVE  MaskInv'
    OBVIOUS
  <2>1. CASE Big!Next
    BY <2>1, LshMaskInv, SetBitMaskInv DEF Big!Next
  <2>2. CASE UNCHANGED big
    BY <2>2 DEF big, MaskInv, Big!TypeOK, Big!chunkSize
  <2> QED BY <2>1, <2>2, Zenon DEF DetectorsNext, detectors
<1> QED BY <1>1, <1>2, MaskInvImplies, PTL DEF DetectorsSpec
=============================================================================
