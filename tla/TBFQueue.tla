------------------------------- MODULE TBFQueue -------------------------------
(***************************************************************************)
(* A Queue (src/vnet/queue.go) with the token bucket discipline of         *)
(* src/vnet/tbf_queue.go.  Routers hand chunks to onInboundChunk, which    *)
(* meets the goroutine run on the channel chunkCh or returns when the      *)
(* queue is closed.  Each turn of run (schedule) computes when the chunk   *)
(* at the head may leave, then waits for a chunk, for that time or for     *)
(* Close.                                                                  *)
(*                                                                         *)
(* The limiter of golang.org/x/time/rate is modelled as the code uses it:  *)
(* TokensAt, AllowN, SetLimit, SetBurst, and a reservation that is made    *)
(* only to read its delay and then cancelled.  A cancellation restores     *)
(* the tokens only if the reservation's time has not passed; when the      *)
(* tokens are just enough, that time is the present, and whether it has    *)
(* passed depends on the clock.  Sizes and tokens are in the same unit     *)
(* (the code converts both to bits), rates are tokens per tick and above   *)
(* zero.                                                                   *)
(***************************************************************************)
EXTENDS Integers, Sequences, Functions

CONSTANTS
  Callers,     \* goroutines that call onInboundChunk
  Closers,     \* goroutines that call Close
  ChunkSizes,  \* lengths of chunks
  Rates, Bursts, QueueSizes    \* arguments of NewTBFQueue and of the setters

ASSUME TBFAssumption ==
  /\ ChunkSizes \subseteq Nat \ {0} /\ Rates \subseteq Nat \ {0}
  /\ Bursts \subseteq Nat /\ QueueSizes \subseteq Nat

(* The number of chunks is not bounded.  Two of those queued, chosen at    *)
(* will, carry the marks 1 and 2, in this order; the others have mark 0.   *)
Marks == 0..2
Chunks == [size : ChunkSizes, mark : Marks]

VARIABLES
  chunks, currentSize,        \* TBFQueue
  maxSize, rate, burst,       \* its settings
  tokens,                     \* of the limiter
  rpc,                        \* run: "schedule", "select" or "ended"
  left,                       \* ticks until the timer of schedule fires
  closed,                     \* closed, and the channel close is closed
  waiting,                    \* size of the chunk a caller offers, 0 if none
  cpc,                        \* Close: "idle", "wait" or "returned"
  pushed, popped,             \* history: the last mark given, the marks sent
  level, peak                 \* history: see Conforms

discipline == <<chunks, currentSize>>
settings == <<maxSize, rate, burst>>
history == <<pushed, popped, level, peak>>
vars == <<discipline, settings, tokens, rpc, left, closed, waiting, cpc, history>>

Never == -1   \* rate.InfDuration, or no timer
TypeOK ==
  /\ chunks \in Seq(Chunks) /\ currentSize \in Int
  /\ maxSize \in QueueSizes /\ rate \in Rates /\ burst \in Bursts
  /\ tokens \in Nat /\ tokens <= burst
  /\ rpc \in {"schedule", "select", "ended"}
  /\ left \in Nat \cup {Never}
  /\ closed \in BOOLEAN
  /\ waiting \in [Callers -> ChunkSizes \cup {0}]
  /\ cpc \in [Closers -> {"idle", "wait", "returned"}]
  /\ pushed \in Marks /\ popped \subseteq Marks
  /\ level \in Nat /\ peak \in Nat

Init ==
  /\ chunks = <<>> /\ currentSize = 0
  /\ maxSize \in QueueSizes /\ rate \in Rates /\ burst \in Bursts
  /\ tokens = burst
  /\ rpc = "schedule" /\ left = Never
  /\ closed = FALSE
  /\ waiting = [c \in Callers |-> 0]
  /\ cpc = [k \in Closers |-> "idle"]
  /\ pushed = 0 /\ popped = {} /\ level = 0 /\ peak = burst

AtMost(a, b) == IF a < b THEN a ELSE b
CeilDiv(a, b) == (a + b - 1) \div b

-----------------------------------------------------------------------------
(* onInboundChunk: offer the chunk on chunkCh, ... *)
OnInboundChunk(c, n) ==
  /\ waiting[c] = 0
  /\ waiting' = [waiting EXCEPT ![c] = n]
  /\ UNCHANGED <<discipline, settings, tokens, rpc, left, closed, cpc, history>>

(* ... or return when the queue is closed. *)
InboundSeesCloseLate(c) ==
  /\ waiting[c] # 0
  /\ closed /\ rpc # "ended"
  /\ waiting' = [waiting EXCEPT ![c] = 0]
  /\ UNCHANGED <<discipline, settings, tokens, rpc, left, closed, cpc, history>>
InboundSeesClose(c) ==
  /\ waiting[c] # 0
  /\ closed
  /\ waiting' = [waiting EXCEPT ![c] = 0]
  /\ UNCHANGED <<discipline, settings, tokens, rpc, left, closed, cpc, history>>

(* next, for a chunk of n at the head: the delay, and what the limiter is  *)
(* left with.                                                              *)
Delay(n) ==
  IF n > burst THEN Never ELSE IF tokens >= n THEN 0 ELSE CeilDiv(n - tokens, rate)
NotCancelled(n) == IF n <= burst THEN {tokens - n} ELSE {tokens}
AfterCancel(n) == IF n <= burst /\ tokens = n THEN {0, tokens} ELSE {tokens}

(* The first half of schedule. *)
Schedule ==
  /\ rpc = "schedule"
  /\ IF closed
     THEN rpc' = "ended" /\ UNCHANGED <<left, tokens>>
     ELSE /\ rpc' = "select"
          /\ IF chunks = <<>>
             THEN left' = Never /\ UNCHANGED tokens
             ELSE /\ left' = Delay(Head(chunks).size)
                  /\ tokens' \in AfterCancel(Head(chunks).size)
  /\ UNCHANGED <<discipline, settings, closed, waiting, cpc, history>>

(* Its select, first case: push, which drops a chunk that does not fit. *)
PushCountsDropped(n) ==
  /\ currentSize' = currentSize + n
  /\ IF currentSize + n > maxSize
     THEN UNCHANGED <<chunks, pushed>>
     ELSE \E mark \in {0, pushed + 1} \cap Marks :
            /\ chunks' = Append(chunks, [size |-> n, mark |-> mark])
            /\ pushed' = IF mark = 0 THEN pushed ELSE mark
Push(n) ==
  IF currentSize + n > maxSize
  THEN UNCHANGED <<discipline, pushed>>
  ELSE \E mark \in {0, pushed + 1} \cap Marks :
         /\ currentSize' = currentSize + n
         /\ chunks' = Append(chunks, [size |-> n, mark |-> mark])
         /\ pushed' = IF mark = 0 THEN pushed ELSE mark
Receive(c) ==
  /\ rpc = "select"
  /\ waiting[c] # 0
  /\ Push(waiting[c])
  /\ waiting' = [waiting EXCEPT ![c] = 0]
  /\ rpc' = "schedule"
  /\ UNCHANGED <<settings, tokens, left, closed, cpc, popped, level, peak>>

(* Second case, the timer: pop, which sends nothing when the limiter does  *)
(* not allow it.                                                           *)
Allowed(n) == n <= burst /\ n <= tokens
PopAfterDelay ==
  LET c == Head(chunks)
  IN  /\ tokens' = IF Allowed(c.size) THEN tokens - c.size ELSE tokens
      /\ chunks' = Tail(chunks)
      /\ currentSize' = currentSize - c.size
      /\ popped' = popped \cup {c.mark}
      /\ level' = level + c.size
PopFirst ==
  LET c == Head(chunks)
  IN  /\ chunks' = Tail(chunks)
      /\ currentSize' = currentSize - c.size
      /\ IF Allowed(c.size)
         THEN /\ tokens' = tokens - c.size
              /\ popped' = popped \cup {c.mark}
              /\ level' = level + c.size
         ELSE UNCHANGED <<tokens, popped, level>>
Pop ==
  LET c == Head(chunks)
  IN  IF Allowed(c.size)
      THEN /\ tokens' = tokens - c.size
           /\ chunks' = Tail(chunks)
           /\ currentSize' = currentSize - c.size
           /\ popped' = popped \cup {c.mark}
           /\ level' = level + c.size
      ELSE UNCHANGED <<tokens, discipline, popped, level>>
TimerFires ==
  /\ rpc = "select"
  /\ left = 0
  /\ Pop
  /\ rpc' = "schedule"
  /\ UNCHANGED <<settings, left, closed, waiting, cpc, pushed, peak>>

(* Third case. *)
RunSeesClose ==
  /\ rpc = "select"
  /\ closed
  /\ rpc' = "ended"
  /\ UNCHANGED <<discipline, settings, tokens, left, closed, waiting, cpc, history>>

(* Close waits for run, also when another Close came first. *)
Close(k) ==
  /\ cpc[k] = "idle"
  /\ closed' = TRUE
  /\ cpc' = [cpc EXCEPT ![k] = "wait"]
  /\ UNCHANGED <<discipline, settings, tokens, rpc, left, waiting, history>>

CloseReturnsToFirst(k) ==
  /\ cpc[k] = "wait"
  /\ rpc = "ended"
  /\ \A j \in Closers : cpc[j] # "returned"
  /\ cpc' = [cpc EXCEPT ![k] = "returned"]
  /\ UNCHANGED <<discipline, settings, tokens, rpc, left, closed, waiting, history>>
CloseReturns(k) ==
  /\ cpc[k] = "wait"
  /\ rpc = "ended"
  /\ cpc' = [cpc EXCEPT ![k] = "returned"]
  /\ UNCHANGED <<discipline, settings, tokens, rpc, left, closed, waiting, history>>

-----------------------------------------------------------------------------
SetRate(r) ==
  /\ rate' = r
  /\ UNCHANGED <<discipline, maxSize, burst, tokens, rpc, left, closed, waiting, cpc, history>>

(* The limiter caps its tokens at the new burst when it is next used. *)
SetBurst(b) ==
  /\ burst' = b
  /\ tokens' = AtMost(tokens, b)
  /\ peak' = IF b > peak THEN b ELSE peak
  /\ UNCHANGED <<discipline, maxSize, rate, rpc, left, closed, waiting, cpc, pushed, popped, level>>

SetSize(s) ==
  /\ maxSize' = s
  /\ UNCHANGED <<discipline, rate, burst, tokens, rpc, left, closed, waiting, cpc, history>>

Tick ==
  /\ left' = IF left > 0 THEN left - 1 ELSE left
  /\ tokens' = AtMost(tokens + rate, burst)
  /\ level' = IF level > rate THEN level - rate ELSE 0
  /\ UNCHANGED <<discipline, settings, rpc, closed, waiting, cpc, pushed, popped, peak>>

Next ==
  \/ \E c \in Callers : Receive(c) \/ InboundSeesClose(c)
                         \/ \E n \in ChunkSizes : OnInboundChunk(c, n)
  \/ \E k \in Closers : Close(k) \/ CloseReturns(k)
  \/ Schedule \/ TimerFires \/ RunSeesClose \/ Tick
  \/ \E r \in Rates : SetRate(r)
  \/ \E b \in Bursts : SetBurst(b)
  \/ \E s \in QueueSizes : SetSize(s)

Spec == Init /\ [][Next]_vars

-----------------------------------------------------------------------------
(* The size that push compares with the limit is that of what is queued,   *)
(* through drops, pops the limiter refuses and changes of the limit.       *)
SizeExact == currentSize = SumFunction([i \in DOMAIN chunks |-> chunks[i].size])

(* A queued chunk stays until it is sent, and leaves after those before    *)
(* it, also when pop is called too early.                                  *)
KeptInOrder ==
  /\ 1..pushed \subseteq popped \cup {c.mark : c \in Range(chunks)}
  /\ 2 \in popped => 1 \in popped

(* The token bucket's promise.  A bucket that every chunk sent fills by    *)
(* its size, and that leaks at the rate, never holds more than the         *)
(* greatest burst so far: over any interval at most the burst, and what    *)
(* the rate allows in it, is sent, although reservations are made and      *)
(* cancelled and rate and burst change while the timer runs.               *)
Conforms == level <= peak

(* run, the callers of onInboundChunk and several Close calls never wait   *)
(* for each other, also when run has ended, and the chunk at the head is   *)
(* not forgotten: when nothing can take a step that changes the state,     *)
(* none of them waits and, unless the queue is closed, the head has left   *)
(* or was found larger than the burst (then no timer is set for it).       *)
Step ==
  \/ Schedule \/ TimerFires \/ RunSeesClose \/ Tick
  \/ \E c \in Callers : Receive(c) \/ InboundSeesClose(c)
  \/ \E k \in Closers : CloseReturns(k)
NothingStuck ==
  ~ENABLED <<Step>>_vars =>
    /\ \A c \in Callers : waiting[c] = 0
    /\ \A k \in Closers : cpc[k] # "wait"
    /\ chunks # <<>> => closed \/ left = Never
=============================================================================
