------------------------------ MODULE DelayFilter ------------------------------
(***************************************************************************)
(* The filter of src/vnet/delay_filter.go: onInboundChunk, called by the   *)
(* goroutines of routers, puts a chunk with its deadline in a queue and    *)
(* then waits until the goroutine of the filter, run, has received its     *)
(* signal; run hands chunks whose deadline is past to the NIC; Close       *)
(* stops it, and it drains the queue.                                      *)
(*                                                                         *)
(* A time past MaxTime stands for MaxTime.  Resetting or stopping a timer  *)
(* removes its tick (Go 1.23 and later), so the receive after a failed     *)
(* Stop is never reached.                                                  *)
(***************************************************************************)
EXTENDS Naturals, Sequences

CONSTANTS
  Callers,     \* goroutines that call onInboundChunk
  Delays,      \* values of SetDelay
  Minute,      \* the timeout while the queue is empty
  MaxChunks,   \* bound on the chunks
  MaxTime      \* bound on the clock

Ids == 1..MaxChunks
Times == 0..MaxTime
Never == MaxTime + 1   \* a timer that is not set
Chunks == [id : Ids, deadline : Times]

VARIABLES
  now, delay,
  queue,
  timer,      \* when the timer of run fires
  waiting,    \* callers that wait to send on f.push, and their chunk
  done,       \* f.done is closed
  rpc,        \* run: "select", "drain" or "ended"
  cpc,        \* Close: "idle", "wait" or "returned"
  count,      \* history: chunks that have come in
  accepted,   \* history: chunks whose onInboundChunk has returned
  out,        \* history: chunks handed to the NIC, in order
  early       \* history: some chunk left before its deadline, not by draining

filter == <<queue, timer, done, rpc>>
history == <<count, accepted, out, early>>
vars == <<now, delay, filter, waiting, cpc, history>>

TypeOK ==
  /\ now \in Times /\ timer \in Times \cup {Never} /\ delay \in Delays
  /\ queue \in Seq(Chunks)
  /\ waiting \in [Callers -> 0..MaxChunks]
  /\ done \in BOOLEAN /\ early \in BOOLEAN
  /\ rpc \in {"select", "drain", "ended"} /\ cpc \in {"idle", "wait", "returned"}
  /\ count \in 0..MaxChunks /\ accepted \subseteq Ids /\ out \in Seq(Ids)
  /\ Len(out) + Len(queue) <= count

Init ==
  /\ now = 0 /\ delay \in Delays
  /\ queue = <<>> /\ timer = 0
  /\ waiting = [c \in Callers |-> 0]
  /\ done = FALSE /\ rpc = "select" /\ cpc = "idle"
  /\ count = 0 /\ accepted = {} /\ out = <<>> /\ early = FALSE

Horizon(t) == IF t < MaxTime THEN t ELSE MaxTime

-----------------------------------------------------------------------------
(* onInboundChunk queues the chunk, ...  The clock and the delay are read  *)
(* just before the push; a chunk stamped earlier than it is queued is, to  *)
(* run, one that a smaller delay was set for.                              *)
PushByDeadline(q, c) ==
  SelectSeq(q, LAMBDA x : x.deadline <= c.deadline) \o <<c>>
    \o SelectSeq(q, LAMBDA x : x.deadline > c.deadline)
Push(q, c) == Append(q, c)
OnInboundChunk(c) ==
  /\ waiting[c] = 0
  /\ count < MaxChunks
  /\ count' = count + 1
  /\ queue' = Push(queue, [id |-> count + 1, deadline |-> Horizon(now + delay)])
  /\ waiting' = [waiting EXCEPT ![c] = count + 1]
  /\ UNCHANGED <<now, delay, timer, done, rpc, cpc, accepted, out, early>>

(* ... and signals run, which sets its timer for the chunk at the head of  *)
(* the queue (updateTimerForNextPacket).                                   *)
ForNext(q) == IF q = <<>> THEN timer ELSE Head(q).deadline
SignalIfQueued(c) ==
  /\ waiting[c] # 0
  /\ rpc = "select"
  /\ queue # <<>>
  /\ timer' = ForNext(queue)
  /\ accepted' = accepted \cup {waiting[c]}
  /\ waiting' = [waiting EXCEPT ![c] = 0]
  /\ UNCHANGED <<now, delay, queue, done, rpc, cpc, count, out, early>>
Signal(c) ==
  /\ waiting[c] # 0
  /\ rpc = "select"
  /\ timer' = ForNext(queue)
  /\ accepted' = accepted \cup {waiting[c]}
  /\ waiting' = [waiting EXCEPT ![c] = 0]
  /\ UNCHANGED <<now, delay, queue, done, rpc, cpc, count, out, early>>

(* The timer: processReadyPackets with the time t of the tick, which may   *)
(* have waited, hands on k packets, up to the first that is not ready;     *)
(* then scheduleNextPacketTimer.                                           *)
ReadyAll(k, t) == k = Len(queue)
Ready(k, t) ==
  /\ \A i \in 1..k : queue[i].deadline <= t
  /\ k < Len(queue) => queue[k + 1].deadline > t
RescheduledIfEmpty(q) == IF q = <<>> THEN Horizon(now + Minute) ELSE Never
Rescheduled(q) == IF q = <<>> THEN Horizon(now + Minute) ELSE Head(q).deadline
TimerFires ==
  /\ rpc = "select"
  /\ timer <= now
  /\ \E t \in timer..now, k \in 0..Len(queue) :
       /\ Ready(k, t)
       /\ out' = out \o [i \in 1..k |-> queue[i].id]
       /\ early' = (early \/ \E i \in 1..k : queue[i].deadline > now)
       /\ queue' = SubSeq(queue, k + 1, Len(queue))
  /\ timer' = Rescheduled(queue')
  /\ UNCHANGED <<now, delay, waiting, done, rpc, cpc, count, accepted>>

(* f.done: drainRemainingPackets, one packet at a time, then run ends. *)
SeesDone ==
  /\ rpc = "select"
  /\ done
  /\ rpc' = "drain"
  /\ UNCHANGED <<now, delay, queue, timer, done, waiting, cpc, history>>

DrainNothing == rpc' = "ended" /\ UNCHANGED <<queue, out>>
DrainOne ==
  IF queue = <<>>
  THEN rpc' = "ended" /\ UNCHANGED <<queue, out>>
  ELSE /\ out' = Append(out, Head(queue).id)
       /\ queue' = Tail(queue)
       /\ UNCHANGED rpc
Drain ==
  /\ rpc = "drain"
  /\ DrainOne
  /\ UNCHANGED <<now, delay, timer, done, waiting, cpc, count, accepted, early>>

CloseWaitsOnly ==
  /\ cpc = "idle"
  /\ cpc' = "wait"
  /\ UNCHANGED <<now, delay, filter, waiting, history>>
Close ==
  /\ cpc = "idle"
  /\ done' = TRUE
  /\ cpc' = "wait"
  /\ UNCHANGED <<now, delay, queue, timer, rpc, waiting, history>>

CloseReturns ==
  /\ cpc = "wait"
  /\ rpc = "ended"
  /\ cpc' = "returned"
  /\ UNCHANGED <<now, delay, filter, waiting, history>>

SetDelay(d) ==
  /\ d # delay
  /\ delay' = d
  /\ UNCHANGED <<now, filter, waiting, cpc, history>>

Tick ==
  /\ now < MaxTime
  /\ now' = now + 1
  /\ UNCHANGED <<delay, filter, waiting, cpc, history>>

-----------------------------------------------------------------------------
Next ==
  \/ \E c \in Callers : OnInboundChunk(c) \/ Signal(c)
  \/ TimerFires \/ SeesDone \/ Drain \/ Close \/ CloseReturns \/ Tick
  \/ \E d \in Delays : SetDelay(d)

Spec == Init /\ [][Next]_vars

-----------------------------------------------------------------------------
(* Chunks leave in the order they came, although SetDelay may give a later *)
(* chunk an earlier deadline.                                              *)
InOrder == \A i, j \in DOMAIN out : i < j => out[i] < out[j]

(* No chunk leaves before its deadline while the filter is open, also when *)
(* the timer was set for another chunk.                                    *)
NotEarly == ~early

(* A chunk taken over before Close is delivered when Close returns. *)
DrainedByClose == cpc = "returned" => \A x \in accepted : \E i \in DOMAIN out : out[i] = x

(* Goroutines never wait for each other, and nothing is forgotten: when    *)
(* no step of a goroutine or of time changes the state any more, callers   *)
(* of onInboundChunk and of Close have returned and the queue is empty.    *)
(* Not so for a caller and its chunk when the filter is being closed.      *)
Step ==
  (\E c \in Callers : Signal(c)) \/ TimerFires \/ SeesDone \/ Drain \/ CloseReturns \/ Tick
NothingStuck ==
  ~ENABLED <<Step>>_vars =>
    /\ cpc # "wait"
    /\ ~done => queue = <<>> /\ \A c \in Callers : waiting[c] = 0
=============================================================================
