--------------------------- MODULE DuplicationFilter ---------------------------
(***************************************************************************)
(* The filter of src/vnet/duplication_filter.go and the router it belongs  *)
(* to.  The router calls the filter with its own mutex held; the filter    *)
(* puts a duplicate in the bucket of its delivery time; the timer of the   *)
(* bucket runs onBucketFired, which pushes the duplicates to the router;   *)
(* Close stops the timers.                                                 *)
(*                                                                         *)
(* The random choices of shouldDuplicate, bursts included, are free.  A    *)
(* bucket is never empty, so an empty one stands for none.  A time past    *)
(* MaxTime stands for MaxTime.                                             *)
(***************************************************************************)
EXTENDS Naturals, Sequences

CONSTANTS
  BucketSize,   \* duplicationBucketSize
  Delays,       \* the extra delays that may be chosen
  MaxChunks,    \* bound on the chunks sent
  MaxTime       \* bound on the clock

Ids == 1..MaxChunks
Times == 0..MaxTime

VARIABLES
  now,
  arrived,    \* chunks that have entered the router
  inq,        \* the router's queue
  rpc,        \* the router: "idle", or in the filter with its mutex held
  call,       \* the chunk the filter is called for, and the chosen delay
  delay,
  mu,         \* whether a bucket goroutine holds f.mu
  buckets, timers,
  fired,      \* times for which onBucketFired is started and not yet locked
  taken,      \* the chunks it has taken from the bucket under f.mu
  pushing,    \* sequences of duplicates that are being pushed
  closed,
  cpc,        \* Close: "idle", "stop" or "done"
  stopping,   \* the timers it has yet to stop
  dups        \* history: ids of the duplicates pushed

router == <<arrived, inq, rpc, call, delay>>
filter == <<mu, buckets, timers, fired, taken, pushing>>
closing == <<closed, cpc, stopping>>
vars == <<now, router, filter, closing, dups>>

Dups == [id : Ids, due : Times]
Chunks == [id : Ids, dup : BOOLEAN]

TypeOK ==
  /\ now \in Times /\ arrived \in 0..MaxChunks
  /\ inq \in Seq(Chunks) /\ call \in Seq(Chunks) /\ delay \in Delays \cup {0}
  /\ rpc \in {"idle", "decide", "schedule"} /\ (rpc = "idle" <=> call = <<>>)
  /\ mu \in BOOLEAN
  /\ \A t \in Times : buckets[t] \in Seq(Dups)
  /\ timers \subseteq Times /\ fired \subseteq Times /\ stopping \subseteq Times
  /\ taken \in Seq(Dups) /\ \A s \in pushing : s \in Seq(Dups)
  /\ closed \in BOOLEAN /\ cpc \in {"idle", "stop", "done"}
  /\ dups \in Seq(Ids)

Init ==
  /\ now = 0 /\ arrived = 0
  /\ inq = <<>> /\ rpc = "idle" /\ call = <<>> /\ delay = 0
  /\ mu = FALSE /\ buckets = [t \in Times |-> <<>>] /\ timers = {} /\ fired = {}
  /\ taken = <<>> /\ pushing = {}
  /\ closed = FALSE /\ cpc = "idle" /\ stopping = {}
  /\ dups = <<>>

-----------------------------------------------------------------------------
(* The router (module Router): a chunk enters its queue, and the next one  *)
(* is taken and given to the filter.                                       *)
Arrive ==
  /\ rpc = "idle"
  /\ arrived < MaxChunks
  /\ arrived' = arrived + 1
  /\ inq' = Append(inq, [id |-> arrived + 1, dup |-> FALSE])
  /\ UNCHANGED <<now, rpc, call, delay, filter, closing, dups>>

(* ChunkFilter lets a duplicate pass as it is. *)
FiltersAll(c) == TRUE
Filters(c) == ~c.dup
Process ==
  /\ rpc = "idle"
  /\ inq # <<>>
  /\ inq' = Tail(inq)
  /\ IF Filters(Head(inq))
     THEN rpc' = "decide" /\ call' = <<Head(inq)>>
     ELSE UNCHANGED <<rpc, call>>
  /\ UNCHANGED <<now, arrived, delay, filter, closing, dups>>

Return == rpc' = "idle" /\ call' = <<>> /\ delay' = 0

ShouldDuplicate ==
  /\ rpc = "decide"
  /\ ~mu
  /\ \/ Return
     \/ /\ ~closed
        /\ \E d \in Delays : delay' = d
        /\ rpc' = "schedule"
        /\ UNCHANGED call
  /\ UNCHANGED <<now, arrived, inq, filter, closing, dups>>

Horizon(t) == IF t < MaxTime THEN t ELSE MaxTime
RoundDown(t) == (t \div BucketSize) * BucketSize
RoundUp(t) == (((t + BucketSize) - 1) \div BucketSize) * BucketSize
NeedsTimerAlways(t) == TRUE
NeedsTimer(t) == buckets[t] = <<>>
NeverRefuses == FALSE
Refuses == closed
ScheduleDuplicate ==
  /\ rpc = "schedule"
  /\ ~mu
  /\ IF Refuses
     THEN UNCHANGED <<buckets, timers>>
     ELSE LET due == Horizon(now + delay)
              t == Horizon(RoundUp(now + delay))
          IN  /\ timers' = IF NeedsTimer(t) THEN timers \cup {t} ELSE timers
              /\ buckets' = [buckets EXCEPT ![t] = Append(@, [id |-> call[1].id, due |-> due])]
  /\ Return
  /\ UNCHANGED <<now, arrived, inq, mu, fired, taken, pushing, closing, dups>>

-----------------------------------------------------------------------------
TimerFires(t) ==
  /\ t \in timers
  /\ t <= now
  /\ timers' = timers \ {t}
  /\ fired' = fired \cup {t}
  /\ UNCHANGED <<now, router, mu, buckets, taken, pushing, closing, dups>>

(* onBucketFired: take the bucket under f.mu, ... *)
OnBucketFired(t) ==
  /\ t \in fired
  /\ ~mu
  /\ mu' = TRUE
  /\ fired' = fired \ {t}
  /\ taken' = IF closed THEN <<>> ELSE buckets[t]
  /\ buckets' = [buckets EXCEPT ![t] = <<>>]
  /\ UNCHANGED <<now, router, timers, pushing, closing, dups>>

(* ... unlock it, ... *)
StaysLocked == taken = <<>>
Unlocked == FALSE
Unlock ==
  /\ mu
  /\ mu' = Unlocked
  /\ pushing' = IF taken = <<>> THEN pushing ELSE pushing \cup {taken}
  /\ taken' = <<>>
  /\ UNCHANGED <<now, router, buckets, timers, fired, closing, dups>>

(* ... and push each duplicate, which takes the mutex of the router. *)
Rest(s) == IF Len(s) = 1 THEN {} ELSE {Tail(s)}
PushDuplicate(s) ==
  /\ s \in pushing
  /\ rpc = "idle"
  /\ inq' = Append(inq, [id |-> Head(s).id, dup |-> TRUE])
  /\ pushing' = (pushing \ {s}) \cup Rest(s)
  /\ dups' = Append(dups, Head(s).id)
  /\ UNCHANGED <<now, arrived, rpc, call, delay, mu, buckets, timers, fired, taken, closing>>

(* Close marks the filter closed and then stops the timers it has seen. *)
Close ==
  /\ cpc = "idle"
  /\ ~mu
  /\ closed' = TRUE
  /\ stopping' = {t \in Times : buckets[t] # <<>>}
  /\ cpc' = "stop"
  /\ UNCHANGED <<now, router, filter, dups>>

CloseStops ==
  /\ cpc = "stop"
  /\ IF stopping = {}
     THEN cpc' = "done" /\ UNCHANGED <<timers, stopping>>
     ELSE \E t \in stopping : /\ timers' = timers \ {t}
                              /\ stopping' = stopping \ {t}
                              /\ cpc' = cpc
  /\ UNCHANGED <<now, router, mu, buckets, fired, taken, pushing, closed, dups>>

Tick ==
  /\ now < MaxTime
  /\ now' = now + 1
  /\ UNCHANGED <<router, filter, closing, dups>>

-----------------------------------------------------------------------------
Push == \E s \in pushing : PushDuplicate(s)
RouterStep == Process \/ ShouldDuplicate \/ ScheduleDuplicate
FilterStep == (\E t \in Times : TimerFires(t) \/ OnBucketFired(t)) \/ Unlock \/ CloseStops

Next == Arrive \/ RouterStep \/ FilterStep \/ Push \/ Close \/ Tick

Spec == Init /\ [][Next]_vars

-----------------------------------------------------------------------------
(* A chunk is duplicated at most once, although its duplicate passes the   *)
(* same filter.                                                            *)
DuplicatedOnce == \A i, j \in DOMAIN dups : dups[i] = dups[j] => i = j

(* "we round up to the next bucket boundary to avoid early delivery": no   *)
(* duplicate is delivered before its delay is over.                        *)
NotEarly == \A s \in pushing : \A i \in DOMAIN s : s[i].due <= now

(* onBucketFired of an open filter finds its bucket: a time whose bucket   *)
(* is used anew while its goroutine is about to run has one timer only.    *)
BucketThere == ~closed => \A t \in fired : buckets[t] # <<>>

(* The router and the bucket goroutines, each taking the other's mutex,    *)
(* never block each other: when no step of a goroutine, of a timer or of   *)
(* time changes the state any more, the filter and Close have returned and *)
(* no bucket or duplicate waits, unless the filter was closed.             *)
Step == RouterStep \/ FilterStep \/ Push \/ Tick
NothingStuck ==
  ~ENABLED <<Step>>_vars =>
    /\ rpc = "idle" /\ cpc # "stop" /\ pushing = {}
    /\ ~closed => \A t \in Times : buckets[t] = <<>>

(* After Close no timer of the filter is left running. *)
NoTimersLeft == cpc = "done" => timers = {}
=============================================================================
