------------------------------ MODULE Deadline ------------------------------
(***************************************************************************)
(* deadline.Deadline (src/deadline/deadline.go): the updatable deadline    *)
(* behind the Read and Write timeouts of the package's connections.        *)
(*                                                                         *)
(* Every method runs under d.mu, so each is one action; the only work done *)
(* after d.mu is released is the call of the cancel function that fire()   *)
(* returned, which is the action of its own RunCancel.  The runtime timer  *)
(* (time.AfterFunc) is the pair armedAt, callbacks: an armed timer may be  *)
(* stopped, and once it has gone off its callback d.timeout is a goroutine *)
(* that can reach d.mu arbitrarily late, after any number of calls of Set. *)
(*                                                                         *)
(* In this and the other modules, a definition that stands just before one *)
(* it resembles and is used nowhere is a faulty variant of it: replacing   *)
(* the right one by it must break a property (mutants in PROJECT.json).    *)
(***************************************************************************)
EXTENDS Integers, Sequences

CONSTANTS
  MaxTime,       \* clock values are 1..MaxTime
  MaxSets,       \* bound on the number of calls of Set
  MaxCtxs,       \* bound on the number of contexts Context creates
  MaxCallbacks,  \* bound on timeout goroutines waiting for d.mu at once
  PendingMod     \* number of values of the field pending (uint8: 256)

(* The counter pending can only be trusted while fewer callbacks than its  *)
(* range wait for d.mu.  With one more, an armed timer and PendingMod      *)
(* callbacks bring the first callback to pending = 0 too early.            *)
ASSUME DeadlineAssumption ==
  /\ MaxTime \in Nat /\ MaxSets \in Nat /\ MaxCtxs \in Nat
  /\ MaxCallbacks \in Nat \ {0}
  /\ PendingMod \in Nat
  /\ MaxCallbacks < PendingMod

VARIABLES
  now,         \* the clock
  state,       \* d.state
  deadline,    \* d.deadline
  pending,     \* d.pending
  armedAt,     \* when d.timer goes off, or NotArmed
  callbacks,   \* timeout() goroutines started and not yet in d.mu
  done,        \* d.done, as the index of the channel last made
  closed,      \* the channels that have been closed
  reclosed,    \* the channels closed a second time (close panics)
  ctx,         \* d.ctx as an index of ctxs, or NoCtx
  ctxs,        \* the done channel each context was created for
  firing,      \* the contexts whose cancel function fire() has handed out
  canceled,    \* the contexts that have been canceled
  sets         \* number of calls of Set so far

vars == <<now, state, deadline, pending, armedAt, callbacks, done, closed,
          reclosed, ctx, ctxs, firing, canceled, sets>>

NoDeadline == 0    \* the zero time.Time
NotArmed == 0
NoCtx == 0
Times == 1..MaxTime

TypeOK ==
  /\ now \in Nat \ {0}
  /\ state \in {"suspended", "started", "exceeded"}
  /\ deadline \in Nat
  /\ pending \in 0..PendingMod-1
  /\ armedAt \in Nat
  /\ callbacks \in 0..MaxCallbacks
  /\ done \in Nat \ {0}
  /\ closed \in SUBSET (Nat \ {0})
  /\ reclosed \in SUBSET (Nat \ {0})
  /\ ctx \in Nat
  /\ ctxs \in Seq(Nat \ {0})
  /\ firing \in SUBSET Nat
  /\ canceled \in SUBSET Nat
  /\ sets \in Nat

(* New(): no timer, an open done channel. *)
Init ==
  /\ now = 1
  /\ state = "suspended"
  /\ deadline = NoDeadline
  /\ pending = 0
  /\ armedAt = NotArmed
  /\ callbacks = 0
  /\ done = 1
  /\ closed = {}
  /\ reclosed = {}
  /\ ctx = NoCtx
  /\ ctxs = <<>>
  /\ firing = {}
  /\ canceled = {}
  /\ sets = 0

-----------------------------------------------------------------------------
(* pending-- and pending++ on an unsigned field of PendingMod values. *)
Dec(p) == IF p = 0 THEN PendingMod - 1 ELSE p - 1
Inc(p) == IF p = PendingMod - 1 THEN 0 ELSE p + 1

(* d.timer.Stop(): true iff the timer was armed; its callback never runs. *)
StopAssumed == state = "started"
StopSucceeds == state = "started" /\ armedAt # NotArmed

(* pending after "if started and Stop() then pending--; pending++". *)
PendingInSet == Inc(IF StopSucceeds THEN Dec(pending) ELSE pending)

(* The done channel after "if exceeded then d.done = make(chan struct{})". *)
DoneKept == done
DoneInSet == IF state = "exceeded" THEN done + 1 ELSE done

(* The context fields after fire(): the current context's cancel function  *)
(* is taken out, to be run after d.mu is released.                         *)
CtxKept == UNCHANGED <<ctx, firing>>
TakeCancel ==
  /\ ctx' = NoCtx
  /\ firing' = IF ctx = NoCtx THEN firing ELSE firing \cup {ctx}

(* fire(), closing channel ch. *)
fireUnclosed(ch) ==
  /\ state' = "exceeded"
  /\ UNCHANGED <<closed, reclosed>>
  /\ TakeCancel
fire(ch) ==
  /\ state' = "exceeded"
  /\ closed' = closed \cup {ch}
  /\ reclosed' = reclosed \cup (closed \cap {ch})
  /\ TakeCancel

(* Set(setTo) / set(setTo). *)
SetZero ==
  /\ pending' = Dec(PendingInSet)
  /\ state' = "suspended"
  /\ armedAt' = IF StopSucceeds THEN NotArmed ELSE armedAt
  /\ UNCHANGED <<closed, reclosed, ctx, firing>>

SetFuture(setTo) ==
  /\ pending' = PendingInSet
  /\ state' = "started"
  /\ armedAt' = setTo
  /\ UNCHANGED <<closed, reclosed, ctx, firing>>

SetPast ==
  /\ pending' = Dec(PendingInSet)
  /\ armedAt' = IF StopSucceeds THEN NotArmed ELSE armedAt
  /\ fire(DoneInSet)

Set(setTo) ==
  /\ sets < MaxSets
  /\ sets' = sets + 1
  /\ deadline' = setTo
  /\ done' = DoneInSet
  /\ \/ setTo = NoDeadline /\ SetZero
     \/ setTo > now /\ SetFuture(setTo)
     \/ setTo # NoDeadline /\ setTo <= now /\ SetPast
  /\ UNCHANGED <<now, callbacks, ctxs, canceled>>

(* timeout(): the timer's callback, once it has acquired d.mu.  It fires   *)
(* when no other callback or armed timer is left (p is pending after --).  *)
FiresUncounted(p) == state = "started"
FiresUnlessLast(p) == p # 0 /\ state = "started"
TimeoutFires(p) == p = 0 /\ state = "started"

timeout ==
  /\ callbacks > 0
  /\ callbacks' = callbacks - 1
  /\ pending' = Dec(pending)
  /\ \/ TimeoutFires(Dec(pending)) /\ fire(done)
     \/ ~TimeoutFires(Dec(pending)) /\ UNCHANGED <<state, closed, reclosed, ctx, firing>>
  /\ UNCHANGED <<now, deadline, armedAt, done, ctxs, canceled, sets>>

(* cancel(context.DeadlineExceeded), called by timeout and Set once they   *)
(* no longer hold d.mu.                                                    *)
RunCancelWhileExceeded(c) ==
  /\ c \in firing
  /\ state = "exceeded"
  /\ firing' = firing \ {c}
  /\ canceled' = canceled \cup {c}
  /\ UNCHANGED <<now, state, deadline, pending, armedAt, callbacks, done, closed,
                 reclosed, ctx, ctxs, sets>>
RunCancel(c) ==
  /\ c \in firing
  /\ firing' = firing \ {c}
  /\ canceled' = canceled \cup {c}
  /\ UNCHANGED <<now, state, deadline, pending, armedAt, callbacks, done, closed,
                 reclosed, ctx, ctxs, sets>>

(* Context(), when it has to create a context.  When the deadline is       *)
(* exceeded or a context exists it returns one and changes nothing.        *)
Context ==
  /\ state # "exceeded"
  /\ ctx = NoCtx
  /\ Len(ctxs) < MaxCtxs
  /\ ctxs' = Append(ctxs, done)
  /\ ctx' = Len(ctxs) + 1
  /\ UNCHANGED <<now, state, deadline, pending, armedAt, callbacks, done, closed,
                 reclosed, firing, canceled, sets>>

(* Err(): reads the state only. *)
Err == state = "exceeded"

-----------------------------------------------------------------------------
(* The runtime: time passes, and an armed timer that is due goes off by    *)
(* starting its callback in a goroutine.                                   *)
Tick ==
  /\ now < MaxTime
  /\ now' = now + 1
  /\ UNCHANGED <<state, deadline, pending, armedAt, callbacks, done, closed,
                 reclosed, ctx, ctxs, firing, canceled, sets>>

TimerFires ==
  /\ armedAt # NotArmed
  /\ armedAt <= now
  /\ callbacks < MaxCallbacks
  /\ armedAt' = NotArmed
  /\ callbacks' = callbacks + 1
  /\ UNCHANGED <<now, state, deadline, pending, done, closed, reclosed, ctx, ctxs,
                 firing, canceled, sets>>

Next ==
  \/ \E setTo \in Times \cup {NoDeadline} : Set(setTo)
  \/ timeout
  \/ \E c \in 1..MaxCtxs : RunCancel(c)
  \/ Context
  \/ Tick
  \/ TimerFires

Spec == Init /\ [][Next]_vars

(* Time passes, due timers go off, and started goroutines are scheduled.   *)
(* Nothing obliges a caller to call Set or Context.                        *)
Fairness ==
  /\ WF_vars(Tick)
  /\ WF_vars(TimerFires)
  /\ WF_vars(timeout)
  /\ \A c \in 1..MaxCtxs : WF_vars(RunCancel(c))

-----------------------------------------------------------------------------
(* A deadline reports "exceeded" only when the deadline in force has       *)
(* passed: the callback of a timer that was replaced by a later Set (and   *)
(* could not be stopped) never fires the new deadline early.               *)
NeverEarly == Err => deadline # NoDeadline /\ deadline <= now

(* The done channels: exactly the replaced channels and, when the deadline *)
(* is exceeded, the current one are closed, and none was closed twice.     *)
(* So whoever waits on a channel that Done() ever returned is released by  *)
(* the deadline it was waiting for and is never left on an abandoned one.  *)
DoneChannels ==
  /\ reclosed = {}
  /\ closed = IF state = "exceeded" THEN 1..done ELSE 1..done-1

(* Every context ever handed out is either the one the next fire() will    *)
(* cancel, or its cancel function has been taken by the one call that      *)
(* closed the done channel it was created for.                             *)
ContextFollowsDone ==
  \A c \in DOMAIN ctxs :
    IF ctxs[c] \in closed THEN c \in firing \cup canceled /\ ctx # c
                          ELSE c \notin firing \cup canceled /\ ctx = c

(* pending counts, in its width, the armed timer and the callbacks on      *)
(* their way to d.mu, and a started deadline has one or the other to end   *)
(* it.                                                                     *)
Outstanding == callbacks + (IF armedAt = NotArmed THEN 0 ELSE 1)
PendingCount ==
  /\ pending = IF Outstanding = PendingMod THEN 0 ELSE Outstanding
  /\ armedAt # NotArmed => state = "started" /\ armedAt = deadline
  /\ state = "started" => /\ deadline # NoDeadline
                          /\ armedAt = NotArmed => callbacks > 0 /\ deadline <= now

(* A started deadline does not stay started for ever: unless it is         *)
(* suspended first, it fires.                                              *)
FiresEventually == state = "started" ~> state # "started"

(* A context whose deadline fired is eventually cancelled, although the    *)
(* cancel function runs outside d.mu and races with later calls of Set.    *)
ContextCanceledEventually ==
  \A c \in 1..MaxCtxs : c \in firing ~> c \in canceled

(* Both: whatever waits for a started deadline, on its channel or on its   *)
(* context, is released.                                                   *)
ReleasesEventually == FiresEventually /\ ContextCanceledEventually
=============================================================================
