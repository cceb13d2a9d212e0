----------------------------- MODULE FiltersProofs -----------------------------
(***************************************************************************)
(* Proofs about the token bucket queue, the delay filter and the           *)
(* duplication filter, for all sizes, rates, bursts, delays and bucket     *)
(* sizes and for any number of callers: the queue conforms to its bucket,  *)
(* chunks are handed on in order and none before its time.                 *)
(***************************************************************************)
EXTENDS Filters, TLAPS

USE Zenon

(* A queue whose head is taken. *)
LEMMA TailParts ==
  ASSUME NEW S, NEW s \in Seq(S), s # <<>>
  PROVE  /\ Head(s) \in S /\ Head(s) = s[1] /\ Len(s) \in Nat /\ Len(s) >= 1
         /\ Tail(s) \in Seq(S) /\ Len(Tail(s)) = Len(s) - 1
         /\ \A i \in 1..(Len(s) - 1) : Tail(s)[i] = s[i + 1]
  BY SMT

(* A queue that loses its first k entries. *)
LEMMA SuffixParts ==
  ASSUME NEW S, NEW s \in Seq(S), NEW k \in 0..Len(s)
  PROVE  /\ SubSeq(s, k + 1, Len(s)) \in Seq(S)
         /\ Len(SubSeq(s, k + 1, Len(s))) = Len(s) - k
         /\ \A j \in 1..(Len(s) - k) : SubSeq(s, k + 1, Len(s))[j] = s[j + k]
  BY SMT

(* Two sequences joined. *)
LEMMA JoinedParts ==
  ASSUME NEW S, NEW s \in Seq(S), NEW t \in Seq(S)
  PROVE  /\ s \o t \in Seq(S) /\ Len(s \o t) = Len(s) + Len(t)
         /\ \A i \in 1..Len(s) : (s \o t)[i] = s[i]
         /\ \A i \in (Len(s) + 1)..(Len(s) + Len(t)) : (s \o t)[i] = t[i - Len(s)]
  BY SMT

(* The entries of a queue are those at its places. *)
LEMMA InRange ==
  ASSUME NEW S, NEW s \in Seq(S)
  PROVE  /\ \A i \in 1..Len(s) : s[i] \in Range(s)
         /\ \A x \in Range(s) : \E i \in 1..Len(s) : s[i] = x
<1>1. DOMAIN s = 1..Len(s)
  BY SMT
<1> QED BY <1>1 DEF Range

(* The token bucket queue.  What is left in the bucket and what was sent   *)
(* beyond the rate make at most the greatest burst; and the timer is set   *)
(* only for a queued chunk, so that pop finds one.                         *)
Balance == tokens + level <= peak /\ burst <= peak
TimerHasChunk == rpc = "select" /\ left # Never => chunks # <<>>
Inv == TypeOK /\ Balance /\ TimerHasChunk

(* Sizes and rates are positive numbers. *)
LEMMA Settings ==
  /\ \A n \in ChunkSizes : n \in Nat /\ n > 0
  /\ \A r \in Rates : r \in Nat /\ r > 0
  /\ \A b \in Bursts : b \in Nat
BY TBFAssumption, SMT

(* The delay that next computes is a time or none. *)
LEMMA DelayType ==
  ASSUME NEW n \in ChunkSizes, TypeOK
  PROVE  Delay(n) \in Nat \cup {Never}
<1>1. CASE n > burst
  BY <1>1 DEF Delay
<1>2. CASE ~(n > burst) /\ tokens >= n
  BY <1>2 DEF Delay
<1>3. CASE ~(n > burst) /\ ~(tokens >= n)
  <2> DEFINE d == n - tokens + rate - 1
  <2>1. d \in Nat /\ rate \in Nat /\ rate > 0
    BY <1>3, Settings, SMT DEF TypeOK
  <2>2. \A a, b \in Nat : b > 0 => a \div b \in Nat
    BY SMT
  <2>3. d \div rate \in Nat
    BY <2>1, <2>2
  <2> QED
    BY <2>3, <1>3 DEF Delay, CeilDiv
<1> QED
  BY <1>1, <1>2, <1>3

(* A new queue has a full bucket and no timer. *)
LEMMA InitInv == Init => Inv
<1> SUFFICES ASSUME Init PROVE Inv
  OBVIOUS
<1>1. burst \in Nat /\ tokens = burst /\ level = 0 /\ peak = burst
  BY Settings DEF Init
<1>2. pushed \in Marks /\ popped \subseteq Marks /\ left \in Nat \cup {Never}
  BY SMT DEF Init, Marks
<1>3. chunks \in Seq(Chunks) /\ currentSize \in Int
  BY SMT DEF Init
<1>4. waiting \in [Callers -> ChunkSizes \cup {0}]
  BY DEF Init
<1>5. cpc \in [Closers -> {"idle", "wait", "returned"}]
  BY DEF Init
<1>6. TypeOK
  <2>1. closed \in BOOLEAN /\ rpc \in {"schedule", "select", "ended"}
    BY DEF Init
  <2>2. maxSize \in QueueSizes /\ rate \in Rates /\ burst \in Bursts
    BY DEF Init
  <2>3. tokens \in Nat /\ tokens <= burst /\ level \in Nat /\ peak \in Nat
    BY <1>1, SMT
  <2> QED
    BY <1>2, <1>3, <1>4, <1>5, <2>1, <2>2, <2>3 DEF TypeOK
<1> QED
  BY <1>1, <1>6, SMT DEF Init, Inv, Balance, TimerHasChunk

(* push *)
LEMMA PushInv ==
  ASSUME Inv, NEW c \in Callers, Receive(c)
  PROVE  Inv'
<1>1. waiting[c] \in ChunkSizes /\ waiting[c] \in Nat
  BY Settings DEF Receive, Inv, TypeOK
<1>2. /\ chunks' \in Seq(Chunks)
      /\ currentSize' \in Int
      /\ pushed' \in Marks
  <2>1. CASE currentSize + waiting[c] > maxSize
    BY <2>1 DEF Receive, Push, Inv, TypeOK, discipline
  <2>2. CASE ~(currentSize + waiting[c] > maxSize)
    <3>1. PICK mark \in {0, pushed + 1} \cap Marks :
            /\ currentSize' = currentSize + waiting[c]
            /\ chunks' = Append(chunks, [size |-> waiting[c], mark |-> mark])
            /\ pushed' = IF mark = 0 THEN pushed ELSE mark
      BY <2>2 DEF Receive, Push
    <3>2. [size |-> waiting[c], mark |-> mark] \in Chunks
      BY <1>1 DEF Chunks
    <3> QED
      BY <3>1, <3>2, <1>1, SMT DEF Inv, TypeOK
  <2> QED
    BY <2>1, <2>2
<1>3. waiting' \in [Callers -> ChunkSizes \cup {0}]
  BY DEF Receive, Inv, TypeOK
<1>4. TypeOK'
  BY <1>2, <1>3 DEF Receive, Inv, TypeOK, settings
<1> QED
  BY <1>4 DEF Receive, Inv, Balance, TimerHasChunk, settings

(* pop: what is sent is taken from the bucket. *)
LEMMA PopInv ==
  ASSUME Inv, TimerFires
  PROVE  Inv'
<1>1. chunks # <<>> /\ chunks \in Seq(Chunks)
  BY SMT DEF TimerFires, Inv, TimerHasChunk, TypeOK, Never
<1>2. Head(chunks) \in Chunks /\ Tail(chunks) \in Seq(Chunks)
  BY <1>1, TailParts
<1> DEFINE n == Head(chunks).size
<1>3. n \in ChunkSizes /\ n \in Nat /\ Head(chunks).mark \in Marks
  BY <1>2, Settings DEF Chunks
<1>4. CASE Allowed(n)
  <2>1. /\ tokens' = tokens - n /\ level' = level + n
        /\ chunks' = Tail(chunks) /\ currentSize' = currentSize - n
        /\ popped' = popped \cup {Head(chunks).mark}
    BY <1>4 DEF TimerFires, Pop
  <2>2. n <= tokens /\ tokens \in Nat /\ level \in Nat /\ burst \in Nat /\ peak \in Nat
    BY <1>4, Settings DEF Allowed, Inv, TypeOK
  <2>3. /\ tokens' \in Nat /\ tokens' <= burst /\ level' \in Nat
        /\ tokens' + level' <= peak
    <3> DEFINE t == tokens - n
               l == level + n
    <3>1. t \in Nat /\ t <= burst /\ l \in Nat /\ t + l <= peak
      <4>1. tokens <= burst /\ tokens + level <= peak
        BY DEF Inv, Balance, TypeOK
      <4> QED BY <4>1, <2>2, <1>3, SMT
    <3> HIDE DEF t, l
    <3>2. tokens' = t /\ level' = l
      BY <2>1 DEF t, l
    <3> QED
      BY <3>1, <3>2
  <2>4. currentSize' \in Int /\ popped' \subseteq Marks /\ chunks' \in Seq(Chunks)
    BY <2>1, <1>2, <1>3, SMT DEF Inv, TypeOK
  <2>5. TypeOK'
    BY <2>3, <2>4 DEF TimerFires, Inv, TypeOK, settings
  <2> QED
    BY <2>3, <2>5 DEF TimerFires, Inv, Balance, TimerHasChunk, settings
<1>5. CASE ~Allowed(n)
  BY <1>5 DEF TimerFires, Pop, Inv, TypeOK, Balance, TimerHasChunk, settings, discipline
<1> QED
  BY <1>4, <1>5

(* next: a reservation that is lost only takes tokens away. *)
LEMMA ScheduleInv ==
  ASSUME Inv, Schedule
  PROVE  Inv'
<1>1. CASE closed
  BY <1>1 DEF Schedule, Inv, TypeOK, Balance, TimerHasChunk, settings, discipline, history
<1>2. CASE ~closed /\ chunks = <<>>
  BY <1>2 DEF Schedule, Inv, TypeOK, Balance, TimerHasChunk, Never, settings, discipline, history
<1>3. CASE ~closed /\ chunks # <<>>
  <2> DEFINE n == Head(chunks).size
  <2>1. n \in ChunkSizes
    <3>1. Head(chunks) \in Chunks
      BY <1>3, SMT DEF Inv, TypeOK
    <3> QED
      BY <3>1 DEF Chunks
  <2>2. left' = Delay(n) /\ tokens' \in AfterCancel(n)
    BY <1>3 DEF Schedule
  <2>3. left' \in Nat \cup {Never}
    BY <2>1, <2>2, DelayType DEF Inv
  <2>4. tokens' \in Nat /\ tokens' <= tokens
    BY <2>2, SMT DEF AfterCancel, Inv, TypeOK
  <2>5. tokens \in Nat /\ level \in Nat /\ burst \in Nat /\ peak \in Nat
    BY Settings DEF Inv, TypeOK
  <2>6. TypeOK'
    BY <1>3, <2>3, <2>4, <2>5, SMT DEF Schedule, Inv, TypeOK, settings, discipline, history
  <2>7. tokens' + level <= peak
    <3>1. \A t \in {0, tokens} : t + level <= peak
      BY <2>5, SMT DEF Inv, Balance
    <3>2. tokens' \in {0, tokens}
      BY <2>2 DEF AfterCancel
    <3> QED
      BY <3>1, <3>2
  <2> QED
    BY <1>3, <2>6, <2>7 DEF Schedule, Inv, Balance, TimerHasChunk, settings, discipline, history
<1> QED
  BY <1>1, <1>2, <1>3

(* Time: the bucket is filled at the rate at which the level falls. *)
LEMMA TickInv ==
  ASSUME Inv, Tick
  PROVE  Inv'
<1>1. /\ tokens \in Nat /\ level \in Nat /\ burst \in Nat /\ peak \in Nat
      /\ rate \in Nat /\ rate > 0 /\ left \in Nat \cup {Never}
  BY Settings DEF Inv, TypeOK
<1>2. left' \in Nat \cup {Never}
  BY <1>1, SMT DEF Tick, Never
<1>3. /\ tokens' \in Nat /\ tokens' <= burst /\ level' \in Nat
      /\ tokens' + level' <= peak
  BY <1>1, SMT DEF Tick, AtMost, Inv, Balance, TypeOK
<1>4. TypeOK'
  BY <1>2, <1>3 DEF Tick, Inv, TypeOK, settings, discipline
<1>5. TimerHasChunk'
  BY <1>1, SMT DEF Tick, Inv, TimerHasChunk, discipline, Never
<1> QED
  BY <1>3, <1>4, <1>5 DEF Tick, Inv, Balance, settings

(* SetBurst raises the peak with the burst. *)
LEMMA SetBurstInv ==
  ASSUME Inv, NEW b \in Bursts, SetBurst(b)
  PROVE  Inv'
<1>1. /\ tokens \in Nat /\ level \in Nat /\ burst \in Nat /\ peak \in Nat /\ b \in Nat
  BY Settings DEF Inv, TypeOK
<1>2. /\ tokens' \in Nat /\ tokens' <= b /\ peak' \in Nat
      /\ tokens' + level <= peak' /\ b <= peak'
  BY <1>1, SMT DEF SetBurst, AtMost, Inv, Balance, TypeOK
<1>3. TypeOK'
  BY <1>2 DEF SetBurst, Inv, TypeOK, discipline
<1> QED
  BY <1>2, <1>3 DEF SetBurst, Inv, Balance, TimerHasChunk, discipline

(* Every step of router, queue and settings keeps the invariant. *)
LEMMA StepInv == Inv /\ [Next]_vars => Inv'
<1> SUFFICES ASSUME Inv, [Next]_vars PROVE Inv'
  OBVIOUS
<1> USE DEF Inv, TypeOK, Balance, TimerHasChunk, settings, discipline, history
<1>1. ASSUME NEW c \in Callers, NEW n \in ChunkSizes, OnInboundChunk(c, n) PROVE Inv'
  BY <1>1 DEF OnInboundChunk
<1>2. ASSUME NEW c \in Callers, InboundSeesClose(c) PROVE Inv'
  BY <1>2 DEF InboundSeesClose
<1>3. ASSUME NEW c \in Callers, Receive(c) PROVE Inv'
  BY <1>3, PushInv
<1>4. ASSUME NEW k \in Closers, Close(k) PROVE Inv'
  BY <1>4 DEF Close
<1>5. ASSUME NEW k \in Closers, CloseReturns(k) PROVE Inv'
  BY <1>5 DEF CloseReturns
<1>6. CASE Schedule
  BY <1>6, ScheduleInv
<1>7. CASE TimerFires
  BY <1>7, PopInv
<1>8. CASE RunSeesClose
  BY <1>8 DEF RunSeesClose
<1>9. CASE Tick
  BY <1>9, TickInv
<1>10. ASSUME NEW r \in Rates, SetRate(r) PROVE Inv'
  BY <1>10 DEF SetRate
<1>11. ASSUME NEW b \in Bursts, SetBurst(b) PROVE Inv'
  BY <1>11, SetBurstInv
<1>12. ASSUME NEW s \in QueueSizes, SetSize(s) PROVE Inv'
  BY <1>12 DEF SetSize
<1>13. CASE UNCHANGED vars
  BY <1>13 DEF vars
<1> QED
  BY <1>1, <1>2, <1>3, <1>4, <1>5, <1>6, <1>7, <1>8, <1>9, <1>10, <1>11, <1>12, <1>13 DEF Next

-----------------------------------------------------------------------------
(* The order of the queue.  The marks 1 and 2 are queued in this order, so *)
(* no chunk marked 1 is behind one marked 2, and none has left that was    *)
(* not queued.                                                             *)
MarksInv ==
  /\ \A i \in 1..Len(chunks) : chunks[i].mark <= pushed
  /\ popped \subseteq 0..pushed
  /\ \A i, j \in 1..Len(chunks) : i < j => ~(chunks[i].mark = 2 /\ chunks[j].mark = 1)
  /\ KeptInOrder

(* The invariant, by the places of the queue. *)
LEMMA MarksByPlace ==
  ASSUME Inv, MarksInv
  PROVE  /\ \A i \in 1..Len(chunks) : chunks[i].mark <= pushed /\ chunks[i].mark \in 0..2
         /\ popped \subseteq 0..pushed
         /\ \A i, j \in 1..Len(chunks) : i < j => ~(chunks[i].mark = 2 /\ chunks[j].mark = 1)
         /\ \A m \in 1..pushed : m \in popped \/ \E i \in 1..Len(chunks) : chunks[i].mark = m
         /\ 2 \in popped => 1 \in popped
<1>0. chunks \in Seq(Chunks)
  BY DEF Inv, TypeOK
<1>1. KeptInOrder
  BY DEF MarksInv
<1>2. \A i \in 1..Len(chunks) : chunks[i].mark \in 0..2
  <2>1. \A x \in Chunks : x.mark \in 0..2
    BY DEF Chunks, Marks
  <2> QED BY <2>1, <1>0, SMT
<1>3. /\ \A m \in 1..pushed : m \in popped \/ \E i \in 1..Len(chunks) : chunks[i].mark = m
      /\ 2 \in popped => 1 \in popped
  <2>1. \A x \in Range(chunks) : \E i \in 1..Len(chunks) : chunks[i] = x
    BY <1>0, InRange
  <2>2. ASSUME NEW m \in 1..pushed, m \notin popped
        PROVE  \E i \in 1..Len(chunks) : chunks[i].mark = m
    <3>1. m \in {c.mark : c \in Range(chunks)}
      BY <2>2, <1>1 DEF KeptInOrder
    <3> QED BY <3>1, <2>1
  <2> QED BY <2>2, <1>1 DEF KeptInOrder
<1> QED BY <1>2, <1>3, Zenon DEF MarksInv

(* A chunk that is queued comes after all the others. *)
LEMMA PushMarks ==
  ASSUME Inv, MarksInv, NEW c \in Callers, Receive(c)
  PROVE  MarksInv'
<1>0. chunks \in Seq(Chunks) /\ pushed \in 0..2 /\ Len(chunks) \in Nat /\ popped' = popped
  BY SMT DEF Inv, TypeOK, Marks, Receive
<1>1. CASE UNCHANGED <<discipline, pushed>>
  BY <1>0, <1>1, Zenon DEF MarksInv, discipline, KeptInOrder
<1>2. CASE ~UNCHANGED <<discipline, pushed>>
  <2>1. PICK mark \in {0, pushed + 1} \cap Marks :
          /\ chunks' = Append(chunks, [size |-> waiting[c], mark |-> mark])
          /\ pushed' = IF mark = 0 THEN pushed ELSE mark
    BY <1>2 DEF Receive, Push
  <2>2. PICK new : new = [size |-> waiting[c], mark |-> mark]
    OBVIOUS
  <2>3. new \in Chunks /\ new.mark = mark
    BY <2>2 DEF Chunks, Inv, TypeOK, Receive
  <2>4. /\ chunks' \in Seq(Chunks) /\ Len(chunks') = Len(chunks) + 1
        /\ \A i \in 1..Len(chunks) : chunks'[i] = chunks[i]
        /\ chunks'[Len(chunks) + 1] = new
    <3>1. chunks \in Seq(Chunks) /\ chunks' = Append(chunks, new)
      BY <2>1, <2>2, <1>0
    <3> QED BY <3>1, <2>3, SMT
  <2>5. /\ mark \in 0..2 /\ pushed' \in 0..2 /\ pushed <= pushed'
        /\ mark # 0 => mark = pushed + 1 /\ pushed' = mark
        /\ mark = 0 => pushed' = pushed
        /\ mark <= pushed' /\ (mark = 1 => pushed = 0)
    BY <1>0, <2>1, SMT DEF Marks
  <2>6. /\ \A i \in 1..Len(chunks) : chunks[i].mark <= pushed /\ chunks[i].mark \in 0..2
        /\ popped \subseteq 0..pushed
        /\ \A i, j \in 1..Len(chunks) : i < j => ~(chunks[i].mark = 2 /\ chunks[j].mark = 1)
        /\ \A m \in 1..pushed : m \in popped \/ \E i \in 1..Len(chunks) : chunks[i].mark = m
        /\ 2 \in popped => 1 \in popped
    BY MarksByPlace
  <2>a. /\ \A n \in 0..2 : n <= pushed => n <= pushed'
        /\ \A n \in 0..2 : pushed = 0 /\ n <= pushed => n # 2
    <3>1. pushed \in 0..2 /\ pushed' \in 0..2 /\ pushed <= pushed'
      BY <1>0, <2>5
    <3> QED BY <3>1, SMT
  <2>b. /\ \A i \in 1..Len(chunks') : i \in 1..Len(chunks) \/ i = Len(chunks) + 1
        /\ \A i, j \in 1..Len(chunks') : i < j => i \in 1..Len(chunks)
    <3>1. Len(chunks) \in Nat /\ Len(chunks') = Len(chunks) + 1
      BY <1>0, <2>4
    <3> QED BY <3>1, SMT
  <2>7. \A i \in 1..Len(chunks') : chunks'[i].mark <= pushed'
    BY <2>3, <2>4, <2>5, <2>6, <2>a, <2>b
  <2>8. popped' \subseteq 0..pushed'
    BY <1>0, <2>5, <2>6, SMT
  <2>9. \A i, j \in 1..Len(chunks') : i < j => ~(chunks'[i].mark = 2 /\ chunks'[j].mark = 1)
    <3> SUFFICES ASSUME NEW i \in 1..Len(chunks'), NEW j \in 1..Len(chunks'), i < j
                 PROVE  ~(chunks'[i].mark = 2 /\ chunks'[j].mark = 1)
      OBVIOUS
    <3>1. i \in 1..Len(chunks) /\ chunks'[i] = chunks[i]
      BY <2>b, <2>4
    <3>2. CASE j \in 1..Len(chunks)
      <4>1. chunks'[j] = chunks[j]
        BY <3>2, <2>4
      <4> QED BY <4>1, <3>1, <3>2, <2>6
    <3>3. CASE j = Len(chunks) + 1
      BY <3>1, <3>3, <2>3, <2>4, <2>5, <2>6, <2>a
    <3> QED BY <3>2, <3>3, <2>b
  <2>10. \A m \in 1..pushed' : m \in popped' \/ \E i \in 1..Len(chunks') : chunks'[i].mark = m
    <3> SUFFICES ASSUME NEW m \in 1..pushed'
                 PROVE  m \in popped \/ \E i \in 1..Len(chunks') : chunks'[i].mark = m
      BY <1>0
    <3>1. CASE m <= pushed
      BY <3>1, <1>0, <2>4, <2>6, SMT
    <3>2. CASE ~(m <= pushed)
      BY <3>2, <1>0, <2>3, <2>4, <2>5, SMT
    <3> QED BY <3>1, <3>2
  <2>11. KeptInOrder'
    <3>1. \A i \in 1..Len(chunks') : chunks'[i] \in Range(chunks')
      BY <2>4, InRange
    <3> QED BY <3>1, <2>6, <2>10, <1>0 DEF KeptInOrder
  <2> QED BY <2>7, <2>8, <2>9, <2>11 DEF MarksInv
<1> QED BY <1>1, <1>2

(* Only the head leaves, and only when it is sent. *)
LEMMA PopMarks ==
  ASSUME Inv, MarksInv, TimerFires
  PROVE  MarksInv'
<1>0. /\ chunks \in Seq(Chunks) /\ pushed \in 0..2 /\ Len(chunks) \in Nat /\ pushed' = pushed
      /\ chunks # <<>>
  BY SMT DEF Inv, TypeOK, Marks, TimerFires, TimerHasChunk, Never
<1>1. CASE UNCHANGED <<chunks, popped>>
  BY <1>0, <1>1, Zenon DEF MarksInv, KeptInOrder
<1>2. CASE ~UNCHANGED <<chunks, popped>>
  <2>1. chunks' = Tail(chunks) /\ popped' = popped \cup {Head(chunks).mark}
    BY <1>2 DEF TimerFires, Pop, discipline
  <2>2. /\ Head(chunks) = chunks[1] /\ Len(chunks) >= 1
        /\ chunks' \in Seq(Chunks) /\ Len(chunks') = Len(chunks) - 1
        /\ \A i \in 1..(Len(chunks) - 1) : chunks'[i] = chunks[i + 1]
    BY <1>0, <2>1, TailParts
  <2>6. /\ \A i \in 1..Len(chunks) : chunks[i].mark <= pushed /\ chunks[i].mark \in 0..2
        /\ popped \subseteq 0..pushed
        /\ \A i, j \in 1..Len(chunks) : i < j => ~(chunks[i].mark = 2 /\ chunks[j].mark = 1)
        /\ \A m \in 1..pushed : m \in popped \/ \E i \in 1..Len(chunks) : chunks[i].mark = m
        /\ 2 \in popped => 1 \in popped
    BY MarksByPlace
  <2>3. \A i \in 1..(Len(chunks) - 1) : i + 1 \in 1..Len(chunks)
    BY <1>0, SMT
  <2>4. /\ \A i \in 1..Len(chunks') : chunks'[i].mark <= pushed'
        /\ \A i, j \in 1..Len(chunks') : i < j => ~(chunks'[i].mark = 2 /\ chunks'[j].mark = 1)
        /\ popped' \subseteq 0..pushed'
    <3>1. \A i \in 1..Len(chunks') : i + 1 \in 1..Len(chunks) /\ chunks'[i] = chunks[i + 1]
      BY <2>2, <2>3
    <3>2. \A i \in 1..Len(chunks') : chunks'[i].mark <= pushed'
      BY <1>0, <2>6, <3>1
    <3>4. ASSUME NEW i \in 1..Len(chunks'), NEW j \in 1..Len(chunks'), i < j
          PROVE  ~(chunks'[i].mark = 2 /\ chunks'[j].mark = 1)
      <4>1. PICK k, l \in 1..Len(chunks) : k = i + 1 /\ l = j + 1
        BY <3>1, Zenon
      <4>2. k < l /\ chunks'[i] = chunks[k] /\ chunks'[j] = chunks[l]
        <5>1. k < l
          BY <4>1, <3>4, SMT
        <5> QED BY <5>1, <4>1, <3>1
      <4> QED BY <4>2, <2>6, Zenon
    <3>5. Head(chunks).mark \in 0..pushed
      <4>1. 1 \in 1..Len(chunks)
        BY <1>0, <2>2, SMT
      <4>2. Head(chunks).mark \in 0..2 /\ Head(chunks).mark <= pushed
        BY <4>1, <2>2, <2>6
      <4> QED BY <4>2, <1>0, SMT
    <3> QED BY <3>2, <3>4, <3>5, <1>0, <2>1, <2>6
  <2>5. ASSUME NEW m \in 1..pushed'
        PROVE  m \in popped' \/ \E i \in 1..Len(chunks') : chunks'[i].mark = m
    <3>1. CASE m \in popped
      BY <3>1, <2>1
    <3>2. CASE m \notin popped
      <4>1. PICK i \in 1..Len(chunks) : chunks[i].mark = m
        BY <3>2, <1>0, <2>6
      <4>2. CASE i = 1
        BY <4>1, <4>2, <2>1, <2>2
      <4>3. CASE i # 1
        <5>1. i - 1 \in 1..(Len(chunks) - 1) /\ (i - 1) + 1 = i
          BY <4>3, <1>0, SMT
        <5> QED BY <5>1, <4>1, <2>2
      <4> QED BY <4>2, <4>3
    <3> QED BY <3>1, <3>2
  <2>7. 2 \in popped' => 1 \in popped'
    <3> SUFFICES ASSUME 2 \in popped', 1 \notin popped'
                 PROVE  FALSE
      OBVIOUS
    <3>1. chunks[1].mark = 2 /\ 1 \notin popped /\ pushed = 2
      BY <1>0, <2>1, <2>2, <2>6, SMT
    <3>2. PICK i \in 1..Len(chunks) : chunks[i].mark = 1
      BY <3>1, <2>6, SMT
    <3>3. 1 < i
      BY <3>1, <3>2, <1>0, SMT
    <3> QED BY <3>1, <3>2, <3>3, <2>2, <2>6, SMT
  <2>8. KeptInOrder'
    <3>1. \A i \in 1..Len(chunks') : chunks'[i] \in Range(chunks')
      BY <2>2, InRange
    <3> QED BY <3>1, <2>5, <2>7 DEF KeptInOrder
  <2> QED BY <2>4, <2>8 DEF MarksInv
<1> QED BY <1>1, <1>2

(* Every step of the queue keeps the marks in order. *)
LEMMA MarksStep == Inv /\ MarksInv /\ [Next]_vars => MarksInv'
<1> SUFFICES ASSUME Inv, MarksInv, [Next]_vars
             PROVE  MarksInv'
  OBVIOUS
<1>1. CASE UNCHANGED <<chunks, pushed, popped>>
  BY <1>1, Zenon DEF MarksInv, KeptInOrder
<1>2. CASE ~UNCHANGED <<chunks, pushed, popped>>
  <2>1. (\E c \in Callers : Receive(c)) \/ TimerFires
    BY <1>2, Zenon DEF Next, vars, discipline, history, InboundSeesClose, OnInboundChunk, Close,
       CloseReturns, Schedule, RunSeesClose, Tick, SetRate, SetBurst, SetSize
  <2> QED BY <2>1, PushMarks, PopMarks
<1> QED BY <1>1, <1>2

-----------------------------------------------------------------------------
(* The delay filter.  Chunks are numbered as they come, so out and queue   *)
(* together hold 1, 2, ..., count in this order; what a caller was         *)
(* told is taken over is among them, and all of it is out when run ends.   *)
DelayInv ==
  /\ Delayer!TypeOK /\ ~d_early
  /\ Len(d_out) + Len(d_queue) = d_count
  /\ \A i \in 1..Len(d_out) : d_out[i] = i
  /\ \A j \in 1..Len(d_queue) : d_queue[j].id = Len(d_out) + j
  /\ \A c \in DelayCallers : d_waiting[c] <= d_count
  /\ \A x \in d_accepted : x <= d_count
  /\ d_rpc = "ended" => \A x \in d_accepted : x <= Len(d_out)
  /\ d_cpc = "returned" => d_rpc = "ended"

(* A time past the horizon stands for the horizon. *)
LEMMA DelayHorizon ==
  ASSUME NEW t \in Nat
  PROVE  Delayer!Horizon(t) \in Delayer!Times
  BY DelayAssumption, SMT DEF Delayer!Horizon, Delayer!Times

(* A new filter holds nothing, and its timer fires at once. *)
LEMMA InitDelayInv == Delayer!Init => DelayInv
<1> SUFFICES ASSUME Delayer!Init
             PROVE  DelayInv
  OBVIOUS
<1>1. /\ d_now \in Delayer!Times /\ d_timer \in Delayer!Times \cup {Delayer!Never}
      /\ d_waiting \in [DelayCallers -> 0..DelayedChunks]
      /\ d_count \in 0..DelayedChunks
  BY DelayAssumption, SMT DEF Delayer!Init, Delayer!Times
<1>2. /\ d_queue \in Seq(Delayer!Chunks) /\ d_out \in Seq(Delayer!Ids)
      /\ Len(d_queue) = 0 /\ Len(d_out) = 0 /\ d_count = 0
  BY SMT DEF Delayer!Init
<1>3. Delayer!TypeOK
  <2>1. Len(d_out) + Len(d_queue) <= d_count
    BY <1>2, SMT
  <2> QED BY <1>1, <1>2, <2>1, Zenon DEF Delayer!Init, Delayer!TypeOK
<1>4. \A c \in DelayCallers : d_waiting[c] <= d_count
  BY SMT DEF Delayer!Init
<1> QED BY <1>2, <1>3, <1>4, SMT DEF Delayer!Init, DelayInv

(* onInboundChunk numbers the chunk and puts it last. *)
LEMMA DelayPush ==
  ASSUME DelayInv, NEW c \in DelayCallers, Delayer!OnInboundChunk(c)
  PROVE  DelayInv'
<1> DEFINE chunk == [id |-> d_count + 1, deadline |-> Delayer!Horizon(d_now + d_delay)]
<1>0. /\ d_count \in Nat /\ d_count < DelayedChunks /\ DelayedChunks \in Nat
      /\ d_now \in Nat /\ d_delay \in Nat
      /\ d_queue \in Seq(Delayer!Chunks) /\ d_out \in Seq(Delayer!Ids)
      /\ d_waiting \in [DelayCallers -> 0..DelayedChunks]
  BY DelayAssumption, SMTT(30) DEF DelayInv, Delayer!TypeOK, Delayer!Times, Delayer!OnInboundChunk
<1>1. chunk \in Delayer!Chunks /\ chunk.id = d_count + 1
  BY <1>0, DelayHorizon, SMT DEF Delayer!Chunks, Delayer!Ids
<1>2. /\ d_count' = d_count + 1 /\ d_queue' = Append(d_queue, chunk)
      /\ d_waiting' = [d_waiting EXCEPT ![c] = d_count + 1]
      /\ UNCHANGED <<d_now, d_delay, d_timer, d_done, d_rpc, d_cpc, d_accepted, d_out, d_early>>
  BY DEF Delayer!OnInboundChunk, Delayer!Push
<1> HIDE DEF chunk
<1>3. /\ d_queue' \in Seq(Delayer!Chunks) /\ Len(d_queue') = Len(d_queue) + 1
      /\ \A j \in 1..Len(d_queue) : d_queue'[j] = d_queue[j]
      /\ d_queue'[Len(d_queue) + 1] = chunk
      /\ Len(d_queue) \in Nat /\ Len(d_out) \in Nat
  BY <1>0, <1>1, <1>2, SMTT(30)
<1>4. d_waiting' \in [DelayCallers -> 0..DelayedChunks] /\ d_count' \in 0..DelayedChunks
  BY <1>0, <1>2, SMT
<1>5. Delayer!TypeOK'
  <2>1. Len(d_out') + Len(d_queue') <= d_count'
    BY <1>0, <1>2, <1>3, SMT DEF DelayInv
  <2> QED BY <1>2, <1>3, <1>4, <2>1, <1>0, Zenon DEF DelayInv, Delayer!TypeOK
<1>6. /\ Len(d_out') + Len(d_queue') = d_count'
      /\ \A j \in 1..Len(d_queue') : d_queue'[j].id = Len(d_out') + j
  BY <1>0, <1>1, <1>2, <1>3, SMT DEF DelayInv
<1>7. /\ \A e \in DelayCallers : d_waiting'[e] <= d_count'
      /\ \A x \in d_accepted' : x <= d_count'
  BY <1>0, <1>2, SMTT(30) DEF DelayInv, Delayer!TypeOK, Delayer!Ids
<1> QED BY <1>2, <1>5, <1>6, <1>7, Zenon DEF DelayInv

(* run takes the signal: the chunk the caller waits for is queued or out. *)
LEMMA DelaySignal ==
  ASSUME DelayInv, NEW c \in DelayCallers, Delayer!Signal(c)
  PROVE  DelayInv'
<1>0. /\ d_waiting \in [DelayCallers -> 0..DelayedChunks] /\ d_waiting[c] \in Nat
      /\ d_waiting[c] # 0 /\ d_waiting[c] <= d_count /\ d_count \in Nat
      /\ d_queue \in Seq(Delayer!Chunks) /\ d_accepted \subseteq Delayer!Ids
      /\ d_waiting[c] \in 1..DelayedChunks /\ DelayedChunks \in Nat /\ d_rpc = "select"
  BY DelayAssumption, SMT DEF DelayInv, Delayer!TypeOK, Delayer!Signal
<1>1. /\ d_accepted' = d_accepted \cup {d_waiting[c]}
      /\ d_waiting' = [d_waiting EXCEPT ![c] = 0]
      /\ UNCHANGED <<d_now, d_delay, d_queue, d_done, d_rpc, d_cpc, d_count, d_out, d_early>>
  BY DEF Delayer!Signal
<1>2. d_timer' \in Delayer!Times \cup {Delayer!Never}
  <2>1. CASE d_queue = <<>>
    BY <2>1 DEF Delayer!Signal, Delayer!ForNext, DelayInv, Delayer!TypeOK
  <2>2. CASE d_queue # <<>>
    <3>1. Head(d_queue) \in Delayer!Chunks
      BY <2>2, <1>0, SMT
    <3> QED BY <2>2, <3>1 DEF Delayer!Signal, Delayer!ForNext, Delayer!Chunks
  <2> QED BY <2>1, <2>2
<1>3. /\ d_waiting' \in [DelayCallers -> 0..DelayedChunks]
      /\ d_accepted' \subseteq Delayer!Ids
  <2>1. d_waiting' \in [DelayCallers -> 0..DelayedChunks]
    BY <1>0, <1>1, SMT
  <2>2. d_waiting[c] \in Delayer!Ids
    BY <1>0 DEF Delayer!Ids
  <2> QED BY <2>1, <2>2, <1>0, <1>1
<1>4. /\ \A e \in DelayCallers : d_waiting'[e] <= d_count'
      /\ \A x \in d_accepted' : x <= d_count'
  BY <1>0, <1>1, SMT DEF DelayInv
<1>5. Delayer!TypeOK'
  BY <1>1, <1>2, <1>3, Zenon DEF DelayInv, Delayer!TypeOK
<1>6. d_rpc' # "ended"
  BY <1>0, <1>1
<1> QED BY <1>1, <1>4, <1>5, <1>6, Zenon DEF DelayInv

(* The chunks whose deadline is past leave from the front of the queue. *)
LEMMA DelayTimer ==
  ASSUME DelayInv, Delayer!TimerFires
  PROVE  DelayInv'
<1>0. /\ d_now \in Delayer!Times /\ d_timer \in Nat /\ d_now \in Nat /\ d_count \in Nat
      /\ d_queue \in Seq(Delayer!Chunks) /\ d_out \in Seq(Delayer!Ids)
      /\ Len(d_queue) \in Nat /\ Len(d_out) \in Nat /\ d_rpc = "select" /\ Minute \in Nat
      /\ d_early = FALSE
  <2>1. /\ d_now \in Delayer!Times /\ d_timer \in Delayer!Times \cup {Delayer!Never}
        /\ d_count \in 0..DelayedChunks
        /\ d_queue \in Seq(Delayer!Chunks) /\ d_out \in Seq(Delayer!Ids)
    BY DEF DelayInv, Delayer!TypeOK
  <2>2. d_rpc = "select"
    BY DEF Delayer!TimerFires
  <2>3. /\ \A t \in Delayer!Times \cup {Delayer!Never} : t \in Nat
        /\ \A n \in 0..DelayedChunks : n \in Nat
    BY DelayAssumption, SMT DEF Delayer!Times, Delayer!Never
  <2>4. \A S : \A s \in Seq(S) : Len(s) \in Nat
    BY SMT
  <2>5. Minute \in Nat
    BY DelayAssumption
  <2>6. d_early = FALSE
    BY DEF DelayInv, Delayer!TypeOK
  <2> QED BY <2>1, <2>2, <2>3, <2>4, <2>5, <2>6
<1>1. PICK t \in d_timer..d_now, k \in 0..Len(d_queue) :
        /\ Delayer!Ready(k, t)
        /\ d_out' = d_out \o [i \in 1..k |-> d_queue[i].id]
        /\ d_early' = (d_early \/ \E i \in 1..k : d_queue[i].deadline > d_now)
        /\ d_queue' = SubSeq(d_queue, k + 1, Len(d_queue))
  BY DEF Delayer!TimerFires
<1>2. /\ d_timer' = Delayer!Rescheduled(d_queue')
      /\ UNCHANGED <<d_now, d_delay, d_waiting, d_done, d_rpc, d_cpc, d_count, d_accepted>>
  BY DEF Delayer!TimerFires
<1>3. \A i \in 1..Len(d_queue) :
        d_queue[i] \in Delayer!Chunks /\ d_queue[i].id \in Delayer!Ids
        /\ d_queue[i].deadline \in Nat
  <2>1. \A x \in Delayer!Chunks : x.id \in Delayer!Ids /\ x.deadline \in Nat
    BY DelayAssumption, SMT DEF Delayer!Chunks, Delayer!Times
  <2> QED BY <2>1, <1>0, SMT
<1>4. d_early' = FALSE
  <2>0. \A i \in 1..k : i \in 1..Len(d_queue)
    BY <1>0, SMT
  <2>1. \A i \in 1..k : d_queue[i].deadline <= t /\ d_queue[i].deadline \in Nat
    BY <2>0, <1>1, <1>3 DEF Delayer!Ready
  <2>2. t <= d_now /\ t \in Int
    BY <1>0, SMT
  <2>3. ~\E i \in 1..k : d_queue[i].deadline > d_now
    BY <2>1, <2>2, <1>0, SMT
  <2> QED BY <2>3, <1>0, <1>1, Zenon
<1>e. /\ Len(d_out) + Len(d_queue) = d_count
      /\ \A i \in 1..Len(d_out) : d_out[i] = i
      /\ \A j \in 1..Len(d_queue) : d_queue[j].id = Len(d_out) + j
  BY DEF DelayInv
<1>5. PICK ids : ids = [i \in 1..k |-> d_queue[i].id]
  OBVIOUS
<1>6. ids \in Seq(Delayer!Ids) /\ Len(ids) = k /\ \A i \in 1..k : ids[i] = d_queue[i].id
  <2>1. k \in Nat /\ ids \in [1..k -> Delayer!Ids]
    <3>1. k \in Nat /\ \A i \in 1..k : i \in 1..Len(d_queue)
      BY <1>0, SMT
    <3> QED BY <3>1, <1>3, <1>5
  <2>2. \A S : \A n \in Nat : \A f \in [1..n -> S] : f \in Seq(S) /\ Len(f) = n
    BY SMT
  <2> QED BY <2>1, <2>2, <1>5
<1>7. /\ d_out' \in Seq(Delayer!Ids) /\ Len(d_out') = Len(d_out) + k
      /\ \A i \in 1..Len(d_out) : d_out'[i] = d_out[i]
      /\ \A i \in (Len(d_out) + 1)..(Len(d_out) + k) : d_out'[i] = ids[i - Len(d_out)]
  <2>1. d_out' = d_out \o ids
    BY <1>1, <1>5
  <2>2. /\ d_out \o ids \in Seq(Delayer!Ids) /\ Len(d_out \o ids) = Len(d_out) + Len(ids)
        /\ \A i \in 1..Len(d_out) : (d_out \o ids)[i] = d_out[i]
        /\ \A i \in (Len(d_out) + 1)..(Len(d_out) + Len(ids)) :
             (d_out \o ids)[i] = ids[i - Len(d_out)]
    BY <1>0, <1>6, JoinedParts
  <2> QED BY <2>1, <2>2, <1>6
<1>8. /\ d_queue' \in Seq(Delayer!Chunks) /\ Len(d_queue') = Len(d_queue) - k
      /\ \A j \in 1..(Len(d_queue) - k) : d_queue'[j] = d_queue[j + k]
  BY <1>0, <1>1, SuffixParts
<1>9. /\ Len(d_out') + Len(d_queue') = d_count'
      /\ \A i \in 1..Len(d_out') : d_out'[i] = i
      /\ \A j \in 1..Len(d_queue') : d_queue'[j].id = Len(d_out') + j
  <2>1. Len(d_out') + Len(d_queue') = d_count'
    <3>1. Len(d_out) \in Nat /\ Len(d_queue) \in Nat /\ k \in Int /\ d_count' = d_count
      BY <1>0, <1>2, SMT
    <3>2. Len(d_out') = Len(d_out) + k /\ Len(d_queue') = Len(d_queue) - k
      BY <1>7, <1>8
    <3> QED BY <3>1, <3>2, <1>e, SMT
  <2>2. ASSUME NEW i \in 1..Len(d_out')
        PROVE  d_out'[i] = i
    <3>1. CASE i <= Len(d_out)
      <4>1. i \in 1..Len(d_out)
        BY <3>1, <1>0, SMT
      <4> QED BY <4>1, <1>7, <1>e
    <3>2. CASE ~(i <= Len(d_out))
      <4>0. Len(d_out') = Len(d_out) + k /\ Len(d_out) \in Nat /\ Len(d_queue) \in Nat
        BY <1>0, <1>7
      <4>1. /\ i - Len(d_out) \in 1..k /\ i - Len(d_out) \in 1..Len(d_queue)
            /\ i \in (Len(d_out) + 1)..(Len(d_out) + k)
            /\ Len(d_out) + (i - Len(d_out)) = i
        BY <3>2, <4>0, SMT
      <4>2. d_queue[i - Len(d_out)].id = Len(d_out) + (i - Len(d_out))
        BY <4>1, <1>e
      <4>3. d_out'[i] = d_queue[i - Len(d_out)].id
        BY <4>1, <1>6, <1>7
      <4> QED BY <4>1, <4>2, <4>3
    <3> QED BY <3>1, <3>2
  <2>3. ASSUME NEW j \in 1..Len(d_queue')
        PROVE  d_queue'[j].id = Len(d_out') + j
    <3>0. Len(d_queue) \in Nat /\ Len(d_queue') = Len(d_queue) - k
      BY <1>0, <1>8
    <3>1. j + k \in 1..Len(d_queue) /\ j \in 1..(Len(d_queue) - k)
      BY <3>0, SMT
    <3>a. d_queue'[j] = d_queue[j + k]
      BY <3>1, <1>8, Zenon
    <3>2. d_queue[j + k].id = Len(d_out) + (j + k)
      BY <3>1, <1>e
    <3>3. Len(d_out') = Len(d_out) + k /\ Len(d_out) \in Nat
      BY <1>0, <1>7
    <3>4. Len(d_out) + (j + k) = Len(d_out') + j
      BY <3>3, SMT
    <3> QED BY <3>a, <3>2, <3>4
  <2> QED BY <2>1, <2>2, <2>3
<1>10. d_timer' \in Delayer!Times \cup {Delayer!Never}
  <2>1. CASE d_queue' = <<>>
    BY <2>1, <1>0, <1>2, DelayHorizon, SMT DEF Delayer!Rescheduled
  <2>2. CASE d_queue' # <<>>
    <3>1. Head(d_queue') \in Delayer!Chunks
      BY <2>2, <1>8, SMT
    <3> QED BY <2>2, <3>1, <1>2 DEF Delayer!Rescheduled, Delayer!Chunks
  <2> QED BY <2>1, <2>2
<1>11. Delayer!TypeOK'
  <2>1. Len(d_out') + Len(d_queue') <= d_count'
    BY <1>0, <1>2, <1>9, SMT
  <2> QED BY <1>2, <1>4, <1>7, <1>8, <1>10, <2>1, Zenon DEF DelayInv, Delayer!TypeOK
<1>12. d_rpc' # "ended"
  BY <1>0, <1>2
<1> QED BY <1>2, <1>4, <1>9, <1>11, <1>12, Zenon DEF DelayInv

(* Draining hands on the head; run ends once every chunk is out. *)
LEMMA DelayDrain ==
  ASSUME DelayInv, Delayer!Drain
  PROVE  DelayInv'
<1>0. /\ d_queue \in Seq(Delayer!Chunks) /\ d_out \in Seq(Delayer!Ids)
      /\ Len(d_queue) \in Nat /\ Len(d_out) \in Nat /\ d_rpc = "drain" /\ d_count \in Nat
  BY SMTT(30) DEF DelayInv, Delayer!TypeOK, Delayer!Drain
<1>1. UNCHANGED <<d_now, d_delay, d_timer, d_done, d_waiting, d_cpc, d_count, d_accepted, d_early>>
  BY DEF Delayer!Drain
<1>2. CASE d_queue = <<>>
  <2>1. d_rpc' = "ended" /\ UNCHANGED <<d_queue, d_out>>
    BY <1>2 DEF Delayer!Drain, Delayer!DrainOne
  <2>2. Len(d_out) = d_count
    BY <1>2, <1>0, SMT DEF DelayInv
  <2>3. Delayer!TypeOK'
    BY <2>1, <1>1, Zenon DEF DelayInv, Delayer!TypeOK
  <2> QED BY <2>1, <2>2, <2>3, <1>1, Zenon DEF DelayInv
<1>3. CASE d_queue # <<>>
  <2>1. d_out' = Append(d_out, Head(d_queue).id) /\ d_queue' = Tail(d_queue) /\ d_rpc' = d_rpc
    BY <1>3 DEF Delayer!Drain, Delayer!DrainOne
  <2>2. Head(d_queue) = d_queue[1] /\ d_queue[1] \in Delayer!Chunks /\ Len(d_queue) >= 1
    BY <1>3, <1>0, SMT
  <2>3. d_queue[1].id \in Delayer!Ids /\ d_queue[1].id = Len(d_out) + 1
    BY <2>2, <1>0, SMT DEF DelayInv, Delayer!Chunks
  <2>4. /\ d_out' \in Seq(Delayer!Ids) /\ Len(d_out') = Len(d_out) + 1
        /\ \A i \in 1..Len(d_out) : d_out'[i] = d_out[i]
        /\ d_out'[Len(d_out) + 1] = Len(d_out) + 1
    BY <2>1, <2>2, <2>3, <1>0, SMT
  <2>5. /\ d_queue' \in Seq(Delayer!Chunks) /\ Len(d_queue') = Len(d_queue) - 1
        /\ \A j \in 1..(Len(d_queue) - 1) : d_queue'[j] = d_queue[j + 1]
    BY <2>1, <2>2, <1>0, SMT
  <2>6. /\ Len(d_out') + Len(d_queue') = d_count'
        /\ \A i \in 1..Len(d_out') : d_out'[i] = i
        /\ \A j \in 1..Len(d_queue') : d_queue'[j].id = Len(d_out') + j
    <3>1. /\ Len(d_out) + Len(d_queue) = d_count
          /\ \A i \in 1..Len(d_out) : d_out[i] = i
          /\ \A j \in 1..Len(d_queue) : d_queue[j].id = Len(d_out) + j
      BY DEF DelayInv
    <3>2. Len(d_out') + Len(d_queue') = d_count'
      <4>1. Len(d_out) \in Nat /\ Len(d_queue) \in Nat /\ d_count' = d_count
        BY <1>0, <1>1
      <4>2. Len(d_out') = Len(d_out) + 1 /\ Len(d_queue') = Len(d_queue) - 1
        BY <2>4, <2>5
      <4> QED BY <4>1, <4>2, <3>1, SMT
    <3>3. \A i \in 1..Len(d_out') : d_out'[i] = i
      BY <2>4, <3>1, <1>0, SMT
    <3>4. ASSUME NEW j \in 1..Len(d_queue')
          PROVE  d_queue'[j].id = Len(d_out') + j
      <4>1. j + 1 \in 1..Len(d_queue) /\ d_queue'[j] = d_queue[j + 1]
        BY <2>5, <1>0, SMT
      <4>2. d_queue[j + 1].id = Len(d_out) + (j + 1)
        BY <4>1, <3>1
      <4> QED BY <4>1, <4>2, <2>4, <1>0, SMT
    <3> QED BY <3>2, <3>3, <3>4
  <2>7. Delayer!TypeOK'
    <3>1. Len(d_out') + Len(d_queue') <= d_count'
      BY <1>0, <1>1, <2>6, SMT
    <3> QED BY <3>1, <2>1, <2>4, <2>5, <1>1, Zenon DEF DelayInv, Delayer!TypeOK
  <2>8. d_rpc' # "ended"
    BY <1>0, <2>1
  <2> QED BY <2>1, <2>6, <2>7, <2>8, <1>1, Zenon DEF DelayInv
<1> QED BY <1>2, <1>3

(* Every step of the delay filter keeps the invariant. *)
LEMMA DelayStep == DelayInv /\ [Delayer!Next]_del => DelayInv'
<1> SUFFICES ASSUME DelayInv, [Delayer!Next]_del
             PROVE  DelayInv'
  OBVIOUS
<1> USE DEF DelayInv, Delayer!TypeOK, Delayer!filter, Delayer!history
<1>1. CASE Delayer!SeesDone
  BY <1>1, Zenon DEF Delayer!SeesDone
<1>2. CASE Delayer!Close
  BY <1>2, Zenon DEF Delayer!Close
<1>3. CASE Delayer!CloseReturns
  BY <1>3, Zenon DEF Delayer!CloseReturns
<1>4. CASE Delayer!Tick
  <2>1. d_now' \in Delayer!Times
    BY <1>4, DelayAssumption, SMTT(30) DEF Delayer!Tick, Delayer!Times
  <2> QED BY <2>1, <1>4, Zenon DEF Delayer!Tick
<1>5. ASSUME NEW d \in SetDelays, Delayer!SetDelay(d)
      PROVE  DelayInv'
  BY <1>5, Zenon DEF Delayer!SetDelay
<1>6. CASE UNCHANGED del
  BY <1>6, Zenon DEF del
<1> QED BY <1>1, <1>2, <1>3, <1>4, <1>5, <1>6, DelayPush, DelaySignal, DelayTimer, DelayDrain, Zenon
        DEF Delayer!Next

-----------------------------------------------------------------------------
(* The duplication filter.  No duplicate is due after the time of its      *)
(* bucket, a goroutine or a timer runs only for a time whose bucket is     *)
(* there, never both for the same one, and Close stops what it has seen.   *)
DupInv ==
  /\ Duplicator!TypeOK
  /\ buckets \in [Duplicator!Times -> Seq(Duplicator!Dups)]
  /\ \A t \in Duplicator!Times : \A i \in 1..Len(buckets[t]) : buckets[t][i].due <= t
  /\ \A t \in fired : t <= now
  /\ \A i \in 1..Len(taken) : taken[i].due <= now
  /\ \A s \in pushing : s # <<>> /\ \A i \in 1..Len(s) : s[i].due <= now
  /\ timers \cap fired = {}
  /\ ~u_closed => \A t \in timers \cup fired : buckets[t] # <<>>
  /\ u_closed <=> u_cpc # "idle"
  /\ u_cpc = "stop" => timers \subseteq stopping
  /\ u_cpc = "done" => timers = {}

(* Quotient and remainder. *)
LEMMA DivMod ==
  ASSUME NEW m \in Nat \ {0}, NEW x \in Int
  PROVE  /\ x \div m \in Int
         /\ x % m \in 0..(m - 1)
         /\ x = m * (x \div m) + (x % m)
  BY SMT

(* The delivery time of a duplicate is rounded up, never down. *)
LEMMA RoundsUp ==
  ASSUME NEW x \in Nat
  PROVE  Duplicator!RoundUp(x) \in Nat /\ x <= Duplicator!RoundUp(x)
<1>0. BucketSize \in Nat \ {0}
  BY DupAssumption
<1>1. PICK y \in Int : y = (x + BucketSize) - 1
  BY <1>0, SMT
<1>2. PICK q, r : q = y \div BucketSize /\ r = y % BucketSize
  OBVIOUS
<1>3. q \in Int /\ r \in 0..(BucketSize - 1) /\ y = BucketSize * q + r
  BY <1>0, <1>2, DivMod
<1>4. q * BucketSize = BucketSize * q /\ q * BucketSize \in Int
  BY <1>0, <1>3, SMT
<1>5. Duplicator!RoundUp(x) = q * BucketSize
  BY <1>1, <1>2 DEF Duplicator!RoundUp
<1> QED BY <1>0, <1>1, <1>3, <1>4, <1>5, SMT

(* Beyond the horizon the rounded time and the exact one are the same. *)
LEMMA DupHorizon ==
  ASSUME NEW x \in Nat, NEW y \in Nat, x <= y
  PROVE  /\ Duplicator!Horizon(x) \in Duplicator!Times
         /\ Duplicator!Horizon(y) \in Duplicator!Times
         /\ Duplicator!Horizon(x) <= Duplicator!Horizon(y)
  BY DupAssumption, SMT DEF Duplicator!Horizon, Duplicator!Times

(* A new filter has no bucket and no timer. *)
LEMMA InitDupInv == Duplicator!Init => DupInv
<1> SUFFICES ASSUME Duplicator!Init
             PROVE  DupInv
  OBVIOUS
<1>1. now \in Duplicator!Times /\ arrived \in 0..DupChunks
  BY DupAssumption, SMT DEF Duplicator!Init, Duplicator!Times
<1>2. /\ buckets \in [Duplicator!Times -> Seq(Duplicator!Dups)]
      /\ \A t \in Duplicator!Times : buckets[t] = <<>>
  BY SMT DEF Duplicator!Init
<1>3. /\ inq \in Seq(Duplicator!Chunks) /\ call \in Seq(Duplicator!Chunks)
      /\ taken \in Seq(Duplicator!Dups) /\ dups \in Seq(Duplicator!Ids)
      /\ Len(taken) = 0
  BY SMT DEF Duplicator!Init
<1>4. Duplicator!TypeOK
  BY <1>1, <1>2, <1>3, Zenon DEF Duplicator!Init, Duplicator!TypeOK
<1>5. /\ \A t \in Duplicator!Times : \A i \in 1..Len(buckets[t]) : buckets[t][i].due <= t
      /\ \A i \in 1..Len(taken) : taken[i].due <= now
  BY <1>2, <1>3, SMT
<1> QED BY <1>2, <1>4, <1>5, Zenon DEF Duplicator!Init, DupInv

(* The router's own steps leave the filter alone. *)
LEMMA DupRouter ==
  ASSUME DupInv, Duplicator!Arrive \/ Duplicator!Process \/ Duplicator!ShouldDuplicate
  PROVE  DupInv'
<1>1. Duplicator!TypeOK'
  <2> USE DEF Duplicator!filter, Duplicator!closing
  <2>1. CASE Duplicator!Arrive
    <3>0. /\ arrived \in 0..DupChunks /\ arrived < DupChunks /\ arrived' = arrived + 1
          /\ inq \in Seq(Duplicator!Chunks)
          /\ inq' = Append(inq, [id |-> arrived + 1, dup |-> FALSE])
      BY <2>1, Zenon DEF DupInv, Duplicator!TypeOK, Duplicator!Arrive
    <3>1. [id |-> arrived + 1, dup |-> FALSE] \in Duplicator!Chunks /\ arrived' \in 0..DupChunks
      BY <3>0, DupAssumption, SMT DEF Duplicator!Chunks, Duplicator!Ids
    <3>2. inq' \in Seq(Duplicator!Chunks)
      BY <3>0, <3>1, SMT
    <3> QED BY <2>1, <3>1, <3>2, Zenon DEF DupInv, Duplicator!TypeOK, Duplicator!Arrive
  <2>2. CASE Duplicator!Process
    <3>1. inq' \in Seq(Duplicator!Chunks) /\ Head(inq) \in Duplicator!Chunks
      BY <2>2, SMTT(30) DEF DupInv, Duplicator!TypeOK, Duplicator!Process
    <3>2. <<Head(inq)>> \in Seq(Duplicator!Chunks) /\ <<Head(inq)>> # <<>>
      BY <3>1, SMT
    <3>3. /\ call' \in Seq(Duplicator!Chunks) /\ u_rpc' \in {"idle", "decide", "schedule"}
          /\ u_rpc' = "idle" <=> call' = <<>>
      BY <2>2, <3>2, Zenon DEF DupInv, Duplicator!TypeOK, Duplicator!Process
    <3> QED BY <2>2, <3>1, <3>3, Zenon DEF DupInv, Duplicator!TypeOK, Duplicator!Process
  <2>3. CASE Duplicator!ShouldDuplicate
    <3>1. <<>> \in Seq(Duplicator!Chunks)
      BY SMT
    <3>2. u_rpc = "decide"
      BY <2>3 DEF Duplicator!ShouldDuplicate
    <3>3. CASE Duplicator!Return
      BY <2>3, <3>1, <3>3, Zenon DEF DupInv, Duplicator!TypeOK, Duplicator!ShouldDuplicate, Duplicator!Return
    <3>4. CASE ~Duplicator!Return
      <4>1. u_delay' \in ExtraDelays /\ u_rpc' = "schedule" /\ call' = call
        BY <2>3, <3>4 DEF Duplicator!ShouldDuplicate
      <4> QED BY <2>3, <3>2, <4>1, Zenon DEF DupInv, Duplicator!TypeOK, Duplicator!ShouldDuplicate
    <3> QED BY <3>3, <3>4
  <2> QED BY <2>1, <2>2, <2>3
<1>2. UNCHANGED <<now, mu, buckets, timers, fired, taken, pushing, u_closed, u_cpc, stopping>>
  BY Zenon DEF Duplicator!Arrive, Duplicator!Process, Duplicator!ShouldDuplicate,
               Duplicator!filter, Duplicator!closing
<1> QED BY <1>1, <1>2, Zenon DEF DupInv

(* scheduleDuplicate puts the duplicate in a bucket that is not earlier,   *)
(* and starts a timer for a bucket that has none.                          *)
LEMMA DupSchedule ==
  ASSUME DupInv, Duplicator!ScheduleDuplicate
  PROVE  DupInv'
<1>1. /\ UNCHANGED <<now, arrived, inq, mu, fired, taken, pushing, u_closed, u_cpc, stopping, dups>>
      /\ u_rpc' = "idle" /\ call' = <<>> /\ u_delay' = 0
  BY DEF Duplicator!ScheduleDuplicate, Duplicator!Return, Duplicator!closing
<1>2. call' \in Seq(Duplicator!Chunks) /\ u_delay' \in ExtraDelays \cup {0}
  BY <1>1, SMT
<1>3. CASE u_closed
  <2>1. UNCHANGED <<buckets, timers>>
    BY <1>3 DEF Duplicator!ScheduleDuplicate, Duplicator!Refuses
  <2>2. Duplicator!TypeOK'
    BY <1>1, <1>2, <2>1, Zenon DEF DupInv, Duplicator!TypeOK
  <2> QED BY <1>1, <2>1, <2>2, Zenon DEF DupInv
<1>4. CASE ~u_closed
  <2>0. /\ now \in Nat /\ u_delay \in Nat
        /\ call \in Seq(Duplicator!Chunks) /\ call # <<>>
        /\ buckets \in [Duplicator!Times -> Seq(Duplicator!Dups)]
        /\ timers \subseteq Duplicator!Times
    <3>1. now \in Nat /\ u_delay \in Nat
      BY DupAssumption, SMT DEF DupInv, Duplicator!TypeOK, Duplicator!Times
    <3>2. call # <<>>
      BY DEF DupInv, Duplicator!TypeOK, Duplicator!ScheduleDuplicate
    <3> QED BY <3>1, <3>2 DEF DupInv, Duplicator!TypeOK
  <2>1. PICK due, t, d : /\ due = Duplicator!Horizon(now + u_delay)
                         /\ t = Duplicator!Horizon(Duplicator!RoundUp(now + u_delay))
                         /\ d = [id |-> call[1].id, due |-> due]
    OBVIOUS
  <2>2. due \in Duplicator!Times /\ t \in Duplicator!Times /\ due <= t
    <3>1. PICK x \in Nat : x = now + u_delay
      BY <2>0, SMT
    <3> QED BY <3>1, <2>1, RoundsUp, DupHorizon
  <2>3. d \in Duplicator!Dups /\ d.due = due
    <3>1. call[1] \in Duplicator!Chunks
      BY <2>0, SMT
    <3>2. call[1].id \in Duplicator!Ids
      BY <3>1 DEF Duplicator!Chunks
    <3> QED BY <2>1, <2>2, <3>2 DEF Duplicator!Dups
  <2>4. /\ timers' = IF buckets[t] = <<>> THEN timers \cup {t} ELSE timers
        /\ buckets' = [buckets EXCEPT ![t] = Append(buckets[t], d)]
    BY <1>4, <2>1 DEF Duplicator!ScheduleDuplicate, Duplicator!Refuses, Duplicator!NeedsTimer
  <2>5. PICK s : s = Append(buckets[t], d)
    OBVIOUS
  <2>6. /\ s \in Seq(Duplicator!Dups) /\ s # <<>> /\ Len(s) = Len(buckets[t]) + 1
        /\ \A i \in 1..Len(buckets[t]) : s[i] = buckets[t][i]
        /\ s[Len(buckets[t]) + 1] = d /\ Len(buckets[t]) \in Nat
    <3>1. PICK old \in Seq(Duplicator!Dups) : old = buckets[t]
      BY <2>0, <2>2
    <3>2. s = Append(old, d)
      BY <3>1, <2>5
    <3>3. /\ s \in Seq(Duplicator!Dups) /\ s # <<>> /\ Len(s) = Len(old) + 1
          /\ \A i \in 1..Len(old) : s[i] = old[i]
          /\ s[Len(old) + 1] = d /\ Len(old) \in Nat
      BY <3>2, <2>3, SMT
    <3> QED BY <3>1, <3>3
  <2>7. /\ buckets' \in [Duplicator!Times -> Seq(Duplicator!Dups)]
        /\ buckets'[t] = s /\ \A u \in Duplicator!Times : u # t => buckets'[u] = buckets[u]
    BY <2>0, <2>2, <2>4, <2>5, <2>6
  <2>8. \A i \in 1..Len(s) : s[i].due <= t
    <3>1. \A i \in 1..Len(buckets[t]) : buckets[t][i].due <= t
      BY <2>2 DEF DupInv
    <3> QED BY <3>1, <2>2, <2>3, <2>6, SMTT(30)
  <2>9. \A u \in Duplicator!Times : \A i \in 1..Len(buckets'[u]) : buckets'[u][i].due <= u
    <3>1. \A u \in Duplicator!Times : \A i \in 1..Len(buckets[u]) : buckets[u][i].due <= u
      BY DEF DupInv
    <3> QED BY <3>1, <2>7, <2>8, Zenon
  <2>10. timers' \cap fired' = {}
    <3>1. buckets[t] = <<>> => t \notin fired
      BY <1>4 DEF DupInv
    <3> QED BY <3>1, <1>1, <2>4 DEF DupInv
  <2>11. \A u \in timers' \cup fired' : buckets'[u] # <<>>
    <3>1. \A u \in timers \cup fired : buckets[u] # <<>> /\ u \in Duplicator!Times
      BY <1>4 DEF DupInv, Duplicator!TypeOK
    <3> QED BY <3>1, <2>4, <2>6, <2>7, <1>1
  <2>12. Duplicator!TypeOK'
    <3>1. timers' \subseteq Duplicator!Times
      BY <2>0, <2>2, <2>4
    <3> QED BY <3>1, <1>1, <1>2, <2>7, Zenon DEF DupInv, Duplicator!TypeOK
  <2>13. u_cpc = "idle"
    BY <1>4 DEF DupInv
  <2> QED BY <1>1, <2>7, <2>9, <2>10, <2>11, <2>12, <2>13, Zenon DEF DupInv
<1> QED BY <1>3, <1>4

(* A timer that fires moves its time from the timers to the goroutines. *)
LEMMA DupTimer ==
  ASSUME DupInv, NEW t \in Duplicator!Times, Duplicator!TimerFires(t)
  PROVE  DupInv'
<1>1. /\ t \in timers /\ t <= now /\ timers' = timers \ {t} /\ fired' = fired \cup {t}
      /\ UNCHANGED <<now, arrived, inq, u_rpc, call, u_delay, mu, buckets, taken, pushing,
                     u_closed, u_cpc, stopping, dups>>
  BY DEF Duplicator!TimerFires, Duplicator!router, Duplicator!closing
<1>2. Duplicator!TypeOK'
  <2>1. timers' \subseteq Duplicator!Times /\ fired' \subseteq Duplicator!Times
    BY <1>1 DEF DupInv, Duplicator!TypeOK
  <2> QED BY <2>1, <1>1, Zenon DEF DupInv, Duplicator!TypeOK
<1>3. /\ timers' \cap fired' = {} /\ timers' \cup fired' = timers \cup fired
      /\ \A u \in fired' : u <= now'
      /\ timers' \subseteq timers
  BY <1>1 DEF DupInv
<1>4. u_cpc' = "done" => timers' = {}
  BY <1>1 DEF DupInv
<1> QED BY <1>1, <1>2, <1>3, <1>4, Zenon DEF DupInv

(* onBucketFired takes the whole bucket, whose time has come. *)
LEMMA DupBucket ==
  ASSUME DupInv, NEW t \in Duplicator!Times, Duplicator!OnBucketFired(t)
  PROVE  DupInv'
<1>1. /\ t \in fired /\ mu' = TRUE /\ fired' = fired \ {t}
      /\ taken' = IF u_closed THEN <<>> ELSE buckets[t]
      /\ buckets' = [buckets EXCEPT ![t] = <<>>]
      /\ UNCHANGED <<now, arrived, inq, u_rpc, call, u_delay, timers, pushing,
                     u_closed, u_cpc, stopping, dups>>
  BY DEF Duplicator!OnBucketFired, Duplicator!router, Duplicator!closing
<1>2. /\ buckets \in [Duplicator!Times -> Seq(Duplicator!Dups)]
      /\ fired \subseteq Duplicator!Times /\ timers \subseteq Duplicator!Times
      /\ now \in Nat /\ t \in Nat /\ t <= now
  BY <1>1, DupAssumption, SMTT(30) DEF DupInv, Duplicator!TypeOK, Duplicator!Times
<1>3. PICK old \in Seq(Duplicator!Dups) : old = buckets[t]
  BY <1>2
<1>4. \A i \in 1..Len(old) : old[i].due \in Nat /\ old[i].due <= t
  <2>1. \A i \in 1..Len(old) : old[i] \in Duplicator!Dups
    BY SMT
  <2>2. \A d \in Duplicator!Dups : d.due \in Nat
    BY DupAssumption, SMT DEF Duplicator!Dups, Duplicator!Times
  <2>3. \A i \in 1..Len(old) : old[i].due <= t
    BY <1>3 DEF DupInv
  <2> QED BY <2>1, <2>2, <2>3
<1>5. taken' \in Seq(Duplicator!Dups) /\ \A i \in 1..Len(taken') : taken'[i].due <= now'
  <2>1. CASE u_closed
    BY <2>1, <1>1, SMTT(30)
  <2>2. CASE ~u_closed
    BY <2>2, <1>1, <1>2, <1>3, <1>4, SMTT(30)
  <2> QED BY <2>1, <2>2
<1>6. /\ buckets' \in [Duplicator!Times -> Seq(Duplicator!Dups)]
      /\ Len(buckets'[t]) = 0 /\ \A u \in Duplicator!Times : u # t => buckets'[u] = buckets[u]
  <2>1. <<>> \in Seq(Duplicator!Dups) /\ Len(<<>>) = 0
    BY SMT
  <2> QED BY <2>1, <1>1, <1>2
<1>7. \A u \in Duplicator!Times : \A i \in 1..Len(buckets'[u]) : buckets'[u][i].due <= u
  <2>1. \A i \in 1..0 : FALSE
    BY SMT
  <2>2. \A u \in Duplicator!Times : \A i \in 1..Len(buckets[u]) : buckets[u][i].due <= u
    BY DEF DupInv
  <2> QED BY <2>1, <2>2, <1>6, Zenon
<1>8. /\ timers' \cap fired' = {} /\ t \notin timers' \cup fired'
      /\ timers' \cup fired' \subseteq timers \cup fired
      /\ \A u \in fired' : u <= now'
  BY <1>1 DEF DupInv
<1>9. ~u_closed => \A u \in timers' \cup fired' : buckets'[u] # <<>>
  BY <1>2, <1>6, <1>8 DEF DupInv
<1>10. Duplicator!TypeOK'
  <2>1. fired' \subseteq Duplicator!Times
    BY <1>1, <1>2
  <2> QED BY <2>1, <1>1, <1>5, <1>6, Zenon DEF DupInv, Duplicator!TypeOK
<1> QED BY <1>1, <1>5, <1>6, <1>7, <1>8, <1>9, <1>10, Zenon DEF DupInv

(* ... and what it took is then pushed without the mutex. *)
LEMMA DupUnlock ==
  ASSUME DupInv, Duplicator!Unlock
  PROVE  DupInv'
<1>1. /\ mu' = FALSE /\ taken' = <<>>
      /\ pushing' = IF taken = <<>> THEN pushing ELSE pushing \cup {taken}
      /\ UNCHANGED <<now, arrived, inq, u_rpc, call, u_delay, buckets, timers, fired,
                     u_closed, u_cpc, stopping, dups>>
  BY DEF Duplicator!Unlock, Duplicator!Unlocked, Duplicator!router, Duplicator!closing
<1>2. taken' \in Seq(Duplicator!Dups) /\ \A i \in 1..Len(taken') : taken'[i].due <= now'
  BY <1>1, SMT
<1>3. \A s \in pushing' : s \in Seq(Duplicator!Dups)
  BY <1>1 DEF DupInv, Duplicator!TypeOK
<1>4. \A s \in pushing' : s # <<>> /\ \A i \in 1..Len(s) : s[i].due <= now'
  BY <1>1 DEF DupInv
<1>5. Duplicator!TypeOK'
  BY <1>1, <1>2, <1>3, Zenon DEF DupInv, Duplicator!TypeOK
<1> QED BY <1>1, <1>2, <1>4, <1>5, Zenon DEF DupInv

(* One duplicate is pushed to the router, the others wait. *)
LEMMA DupPush ==
  ASSUME DupInv, NEW s \in pushing, Duplicator!PushDuplicate(s)
  PROVE  DupInv'
<1>1. /\ inq' = Append(inq, [id |-> Head(s).id, dup |-> TRUE])
      /\ pushing' = (pushing \ {s}) \cup Duplicator!Rest(s)
      /\ dups' = Append(dups, Head(s).id)
      /\ UNCHANGED <<now, arrived, u_rpc, call, u_delay, mu, buckets, timers, fired, taken,
                     u_closed, u_cpc, stopping>>
  BY DEF Duplicator!PushDuplicate, Duplicator!closing
<1>2. /\ s \in Seq(Duplicator!Dups) /\ s # <<>>
      /\ \A i \in 1..Len(s) : s[i].due <= now
      /\ \A q \in pushing : q \in Seq(Duplicator!Dups) /\ q # <<>>
                            /\ \A i \in 1..Len(q) : q[i].due <= now
      /\ inq \in Seq(Duplicator!Chunks) /\ dups \in Seq(Duplicator!Ids)
  BY DEF DupInv, Duplicator!TypeOK
<1>3. Head(s).id \in Duplicator!Ids
  <2>1. Head(s) \in Duplicator!Dups
    BY <1>2, SMT
  <2> QED BY <2>1 DEF Duplicator!Dups
<1>4. inq' \in Seq(Duplicator!Chunks) /\ dups' \in Seq(Duplicator!Ids)
  <2>1. [id |-> Head(s).id, dup |-> TRUE] \in Duplicator!Chunks
    BY <1>3 DEF Duplicator!Chunks
  <2> QED BY <2>1, <1>1, <1>2, <1>3, SMTT(30)
<1>5. PICK q : q = Tail(s)
  OBVIOUS
<1>6. Len(s) # 1 => /\ q \in Seq(Duplicator!Dups) /\ q # <<>>
                    /\ \A i \in 1..Len(q) : q[i].due <= now
  <2>1. /\ q \in Seq(Duplicator!Dups) /\ Len(q) = Len(s) - 1 /\ Len(s) \in Nat
        /\ \A i \in 1..(Len(s) - 1) : q[i] = s[i + 1]
    BY <1>2, <1>5, SMT
  <2>2. \A i \in 1..(Len(s) - 1) : i + 1 \in 1..Len(s)
    BY <2>1, SMT
  <2>3. \A i \in 1..Len(q) : q[i].due <= now
    BY <2>1, <2>2, <1>2
  <2> QED BY <2>1, <2>3, <1>2, SMT
<1>7. \A x \in pushing' : x \in pushing \/ (Len(s) # 1 /\ x = q)
  BY <1>1, <1>5 DEF Duplicator!Rest
<1>8. \A x \in pushing' : /\ x \in Seq(Duplicator!Dups) /\ x # <<>>
                           /\ \A i \in 1..Len(x) : x[i].due <= now
  BY <1>2, <1>6, <1>7, Zenon
<1>9. Duplicator!TypeOK'
  BY <1>1, <1>4, <1>8, Zenon DEF DupInv, Duplicator!TypeOK
<1> QED BY <1>1, <1>8, <1>9, Zenon DEF DupInv

(* Close sees every timer, since a timer has a bucket, and stops them. *)
LEMMA DupClose ==
  ASSUME DupInv, Duplicator!Close \/ Duplicator!CloseStops
  PROVE  DupInv'
<1>1. CASE Duplicator!Close
  <2>1. /\ u_cpc = "idle" /\ u_closed' = TRUE /\ u_cpc' = "stop"
        /\ stopping' = {t \in Duplicator!Times : buckets[t] # <<>>}
        /\ UNCHANGED <<now, arrived, inq, u_rpc, call, u_delay, mu, buckets, timers, fired,
                       taken, pushing, dups>>
    BY <1>1 DEF Duplicator!Close, Duplicator!router, Duplicator!filter
  <2>2. timers \subseteq stopping'
    BY <2>1 DEF DupInv, Duplicator!TypeOK
  <2>3. Duplicator!TypeOK'
    <3>1. stopping' \subseteq Duplicator!Times
      BY <2>1
    <3> QED BY <2>1, <3>1, Zenon DEF DupInv, Duplicator!TypeOK
  <2> QED BY <2>1, <2>2, <2>3, Zenon DEF DupInv
<1>2. CASE Duplicator!CloseStops
  <2>1. /\ u_cpc = "stop"
        /\ UNCHANGED <<now, arrived, inq, u_rpc, call, u_delay, mu, buckets, fired, taken,
                       pushing, u_closed, dups>>
    BY <1>2 DEF Duplicator!CloseStops, Duplicator!router
  <2>2. CASE stopping = {}
    <3>1. u_cpc' = "done" /\ UNCHANGED <<timers, stopping>>
      BY <1>2, <2>2 DEF Duplicator!CloseStops
    <3>2. timers = {}
      BY <2>1, <2>2 DEF DupInv
    <3>3. Duplicator!TypeOK'
      BY <2>1, <3>1, Zenon DEF DupInv, Duplicator!TypeOK
    <3> QED BY <2>1, <3>1, <3>2, <3>3, Zenon DEF DupInv
  <2>3. CASE stopping # {}
    <3>1. PICK t \in stopping : /\ timers' = timers \ {t} /\ stopping' = stopping \ {t}
                                /\ u_cpc' = u_cpc
      BY <1>2, <2>3 DEF Duplicator!CloseStops
    <3>2. timers' \subseteq stopping' /\ timers' \subseteq timers
      BY <2>1, <3>1 DEF DupInv
    <3>3. Duplicator!TypeOK'
      <4>1. timers' \subseteq Duplicator!Times /\ stopping' \subseteq Duplicator!Times
        BY <3>1 DEF DupInv, Duplicator!TypeOK
      <4> QED BY <2>1, <3>1, <4>1, Zenon DEF DupInv, Duplicator!TypeOK
    <3>4. timers' \cap fired' = {} /\ u_closed' /\ u_cpc' = "stop"
      BY <2>1, <3>1 DEF DupInv
    <3> QED BY <2>1, <3>1, <3>2, <3>3, <3>4, Zenon DEF DupInv
  <2> QED BY <2>2, <2>3
<1> QED BY <1>1, <1>2

(* Time: what was due stays due. *)
LEMMA DupTick ==
  ASSUME DupInv, Duplicator!Tick
  PROVE  DupInv'
<1>1. /\ now' \in Duplicator!Times /\ now' = now + 1 /\ now \in Nat
      /\ UNCHANGED <<arrived, inq, u_rpc, call, u_delay, mu, buckets, timers, fired,
                     taken, pushing, u_closed, u_cpc, stopping, dups>>
  <2>1. now \in Duplicator!Times /\ now < DupTime /\ now' = now + 1
    BY Zenon DEF DupInv, Duplicator!TypeOK, Duplicator!Tick
  <2>2. /\ now' \in Duplicator!Times /\ now \in Nat
    BY <2>1, DupAssumption, SMT DEF Duplicator!Times
  <2>3. UNCHANGED <<arrived, inq, u_rpc, call, u_delay, mu, buckets, timers, fired,
                    taken, pushing, u_closed, u_cpc, stopping, dups>>
    BY DEF Duplicator!Tick, Duplicator!router, Duplicator!filter, Duplicator!closing
  <2> QED BY <2>1, <2>2, <2>3
<1>2. \A d \in Duplicator!Dups : d.due \in Nat
  <2>1. \A d \in Duplicator!Dups : d.due \in Duplicator!Times
    BY DEF Duplicator!Dups
  <2>2. \A t \in Duplicator!Times : t \in Nat
    BY DupAssumption, SMT DEF Duplicator!Times
  <2> QED BY <2>1, <2>2, Zenon
<1>3. \A t \in fired : t <= now'
  BY <1>1, DupAssumption, SMTT(30) DEF DupInv, Duplicator!TypeOK, Duplicator!Times
<1>4. \A s : s \in Seq(Duplicator!Dups) /\ (\A i \in 1..Len(s) : s[i].due <= now)
          => \A i \in 1..Len(s) : s[i].due <= now'
  <2> TAKE s
  <2> HAVE s \in Seq(Duplicator!Dups) /\ (\A i \in 1..Len(s) : s[i].due <= now)
  <2>1. \A i \in 1..Len(s) : s[i] \in Duplicator!Dups
    BY SMT
  <2>2. now \in Nat /\ now' = now + 1
    BY <1>1, DupAssumption DEF DupInv, Duplicator!TypeOK, Duplicator!Times
  <2> QED BY <2>1, <2>2, <1>2, SMT
<1>5. \A i \in 1..Len(taken) : taken[i].due <= now'
  BY <1>4, Zenon DEF DupInv, Duplicator!TypeOK
<1>6. \A s \in pushing : s # <<>> /\ \A i \in 1..Len(s) : s[i].due <= now'
  BY <1>4, Zenon DEF DupInv, Duplicator!TypeOK
<1>7. Duplicator!TypeOK'
  BY <1>1, Zenon DEF DupInv, Duplicator!TypeOK
<1> QED BY <1>1, <1>3, <1>5, <1>6, <1>7, Zenon DEF DupInv

(* Every step of the router and the duplication filter keeps the           *)
(* invariant.                                                              *)
LEMMA DupStep == DupInv /\ [Duplicator!Next]_dup => DupInv'
<1> SUFFICES ASSUME DupInv, [Duplicator!Next]_dup
             PROVE  DupInv'
  OBVIOUS
<1>1. CASE UNCHANGED dup
  BY <1>1, Zenon DEF dup, DupInv, Duplicator!TypeOK
<1>2. CASE Duplicator!Next
  BY <1>2, DupRouter, DupSchedule, DupTimer, DupBucket, DupUnlock, DupPush, DupClose, DupTick, Zenon
     DEF Duplicator!Next, Duplicator!RouterStep, Duplicator!FilterStep, Duplicator!Push
<1> QED BY <1>1, <1>2

-----------------------------------------------------------------------------
(* The state of the queue stays typed; in particular the limiter never     *)
(* owes tokens and never holds more than the burst.                        *)
THEOREM TypeCorrect == Spec => []TypeOK
<1>1. Inv => TypeOK
  BY DEF Inv
<1> QED
  BY <1>1, InitInv, StepInv, PTL DEF Spec

(* Whatever the sizes, rates and bursts, and however they change, no more  *)
(* is sent over any interval than the bucket allows (pop, next).           *)
THEOREM Conformance == Spec => []Conforms
<1>1. Inv => Conforms
  <2> SUFFICES ASSUME Inv PROVE Conforms
    OBVIOUS
  <2>1. tokens \in Nat /\ level \in Nat /\ peak \in Nat /\ tokens + level <= peak
    BY DEF Inv, TypeOK, Balance
  <2> QED
    BY <2>1, SMT DEF Conforms
<1> QED
  BY <1>1, InitInv, StepInv, PTL DEF Spec

(* The three invariants hold in every state of the filters. *)
LEMMA FiltersInvariance == FiltersSpec => [](Inv /\ MarksInv /\ DelayInv /\ DupInv)
<1>1. FiltersInit => Inv /\ MarksInv /\ DelayInv /\ DupInv
  <2> SUFFICES ASSUME FiltersInit
               PROVE  Inv /\ MarksInv /\ DelayInv /\ DupInv
    OBVIOUS
  <2>1. Inv /\ DelayInv /\ DupInv
    BY InitInv, InitDelayInv, InitDupInv DEF FiltersInit
  <2>2. chunks = <<>> /\ pushed = 0 /\ popped = {}
    BY DEF FiltersInit, Init
  <2>3. KeptInOrder
    <3>1. chunks \in Seq(Chunks) /\ 1..pushed = {}
      BY <2>2, SMT
    <3> QED BY <2>2, <3>1 DEF KeptInOrder
  <2> QED BY <2>1, <2>2, <2>3, SMT DEF MarksInv
<1>2. Inv /\ MarksInv /\ DelayInv /\ DupInv /\ [FiltersNext]_allVars
        => (Inv /\ MarksInv /\ DelayInv /\ DupInv)'
  <2>1. [FiltersNext]_allVars => [Next]_vars /\ [Delayer!Next]_del /\ [Duplicator!Next]_dup
    BY Zenon DEF FiltersNext, allVars, tbf
  <2> QED BY <2>1, StepInv, MarksStep, DelayStep, DupStep
<1> QED BY <1>1, <1>2, PTL DEF FiltersSpec

(* Chunks leave the queue and the delay filter in the order they came,     *)
(* none is lost by a pop that the limiter refuses, and what the delay      *)
(* filter took over has been delivered when its Close returns.             *)
THEOREM DeliveryCorrect == FiltersSpec => []Delivery
<1>1. MarksInv => KeptInOrder
  BY DEF MarksInv
<1>2. DelayInv => Delayer!InOrder /\ Delayer!DrainedByClose
  <2> SUFFICES ASSUME DelayInv
               PROVE  Delayer!InOrder /\ Delayer!DrainedByClose
    OBVIOUS
  <2>0. d_out \in Seq(Delayer!Ids)
    BY Zenon DEF DelayInv, Delayer!TypeOK
  <2>1. DOMAIN d_out = 1..Len(d_out) /\ Len(d_out) \in Nat
    BY <2>0, SMT
  <2>2. \A i \in 1..Len(d_out) : d_out[i] = i
    BY DEF DelayInv
  <2>3. Delayer!InOrder
    BY <2>1, <2>2 DEF Delayer!InOrder
  <2>4. ASSUME d_cpc = "returned", NEW x \in d_accepted
        PROVE  \E i \in DOMAIN d_out : d_out[i] = x
    <3>1. x \in Nat /\ x >= 1 /\ x <= Len(d_out)
      BY <2>4, DelayAssumption, SMTT(30) DEF DelayInv, Delayer!TypeOK, Delayer!Ids
    <3>2. x \in 1..Len(d_out) /\ d_out[x] = x
      BY <3>1, <2>1, <2>2, SMT
    <3> QED BY <3>2, <2>1
  <2>5. Delayer!DrainedByClose
    BY <2>4 DEF Delayer!DrainedByClose
  <2> QED BY <2>3, <2>5
<1> QED BY <1>1, <1>2, FiltersInvariance, PTL DEF Delivery

(* No chunk leaves an open delay filter before its deadline, although      *)
(* SetDelay moves deadlines while the timer runs, and no duplicate is      *)
(* pushed before its delay is over.                                        *)
THEOREM NotEarlyCorrect == FiltersSpec => []NotEarly
<1>1. DelayInv => Delayer!NotEarly
  BY DEF DelayInv, Delayer!NotEarly
<1>2. DupInv => Duplicator!NotEarly
  <2> SUFFICES ASSUME DupInv, NEW s \in pushing
               PROVE  \A i \in DOMAIN s : s[i].due <= now
    BY DEF Duplicator!NotEarly
  <2>1. s \in Seq(Duplicator!Dups) /\ \A i \in 1..Len(s) : s[i].due <= now
    BY DEF DupInv, Duplicator!TypeOK
  <2>2. DOMAIN s = 1..Len(s)
    BY <2>1, SMT
  <2> QED BY <2>1, <2>2
<1> QED BY <1>1, <1>2, FiltersInvariance, PTL DEF NotEarly

(* The part of Accounted about timers: a bucket goroutine of an open       *)
(* duplication filter finds its bucket, and once Close has returned no     *)
(* timer is left, also when scheduleDuplicate or a timer came between.     *)
THEOREM TimersCorrect ==
  FiltersSpec => [](Duplicator!BucketThere /\ Duplicator!NoTimersLeft)
<1>1. DupInv => Duplicator!BucketThere /\ Duplicator!NoTimersLeft
  BY Zenon DEF DupInv, Duplicator!BucketThere, Duplicator!NoTimersLeft
<1> QED BY <1>1, FiltersInvariance, PTL
=============================================================================
