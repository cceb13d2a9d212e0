-------------------------------- MODULE Router --------------------------------
(***************************************************************************)
(* The virtual routers of src/vnet/router.go: a root and its child         *)
(* routers, the goroutine each Start makes, push, processChunks, and Start *)
(* and Stop of the root, called by several applications.                   *)
(*                                                                         *)
(* A chunk names the router on whose subnet its destination is.  Address   *)
(* translation is external (module NAT): it forwards a chunk, drops it,    *)
(* or, when its ports are exhausted, fails.  The jitter that processChunks *)
(* sleeps is time its goroutine spends before it enters.                   *)
(***************************************************************************)
EXTENDS Naturals, Sequences

CONSTANTS
  Root, Children,   \* the routers
  Apps,             \* goroutines that call Start and Stop of the root
  MinDelay,         \* of every router
  QueueSize,        \* of every router; 0, if not configured, is no limit
  NATMayFail,       \* whether translateOutbound may return an error
  MaxStarts,        \* bound on the Starts of a router
  MaxChunks,        \* bound on the chunks sent
  MaxTime           \* bound on the clock

Routers == {Root} \cup Children
Loops == Routers \X (1..MaxStarts)
Nowhere == "nowhere"
Chunks == [id : 1..MaxChunks, to : Routers \cup {Nowhere}, ts : 0..MaxTime]

VARIABLES
  stopFunc,    \* the Start that r.stopFunc would cancel, 0 for nil
  starts,      \* how often each router was started
  cancelled,   \* the goroutines whose cancelCh is closed
  pc,          \* where each goroutine is
  entered,     \* enteredAt of its call of processChunks
  wake,        \* when its timer fires
  hand,        \* the chunk it forwards with the mutex unlocked
  mutex,       \* the goroutine in processChunks that holds r.mutex, 0 if none
  queue, pushCh, now,
  apc, todo,   \* Stop: where each application is, the children it has yet to stop
  sent,        \* history: ids of the chunks each router handed over, in order
  gone         \* history: <<router, id>> of the chunks dropped there

routing == <<queue, pushCh, sent, gone>>
control == <<stopFunc, starts, cancelled, apc, todo>>
loops == <<pc, entered, wake, hand, mutex>>
vars == <<routing, control, loops, now>>

TypeOK ==
  /\ stopFunc \in [Routers -> 0..MaxStarts] /\ starts \in [Routers -> 0..MaxStarts]
  /\ cancelled \in SUBSET Loops
  /\ pc \in [Loops -> {"none", "process", "body", "forward", "relock", "wait", "sleep", "done"}]
  /\ entered \in [Loops -> 0..MaxTime] /\ wake \in [Loops -> 0..MaxTime]
  /\ \A l \in Loops : hand[l] \in Seq(Chunks) /\ Len(hand[l]) <= 1
  /\ mutex \in [Routers -> 0..MaxStarts]
  /\ \A r \in Routers : queue[r] \in Seq(Chunks) /\ (QueueSize > 0 => Len(queue[r]) <= QueueSize)
  /\ pushCh \in [Routers -> BOOLEAN] /\ now \in 0..MaxTime
  /\ apc \in [Apps -> {"idle", "children", "relock", "failed", "panic"}]
  /\ todo \in [Apps -> SUBSET Children]

Init ==
  /\ stopFunc = [r \in Routers |-> 0] /\ starts = [r \in Routers |-> 0]
  /\ cancelled = {}
  /\ pc = [l \in Loops |-> "none"]
  /\ entered = [l \in Loops |-> 0] /\ wake = [l \in Loops |-> 0]
  /\ hand = [l \in Loops |-> <<>>]
  /\ mutex = [r \in Routers |-> 0]
  /\ queue = [r \in Routers |-> <<>>] /\ pushCh = [r \in Routers |-> FALSE]
  /\ now = 0
  /\ apc = [a \in Apps |-> "idle"] /\ todo = [a \in Apps |-> {}]
  /\ sent = [r \in Routers |-> <<>>] /\ gone = {}

-----------------------------------------------------------------------------
(* push, and the push of chunkQueue: a stopped router drops the chunk, and *)
(* so does a full queue; otherwise the goroutine is signalled.             *)
AlwaysRoom(r) == TRUE
HasRoom(r) == QueueSize = 0 \/ Len(queue[r]) < QueueSize
EnqueuedFirst(r, c) == <<c>> \o queue[r]
Enqueued(r, c) == Append(queue[r], c)
SignalsIfQueued(r) == queue[r] # <<>>
Signals(r) == TRUE
Push(r, id, to) ==
  /\ mutex[r] = 0
  /\ IF stopFunc[r] # 0 /\ HasRoom(r)
     THEN /\ queue' = [queue EXCEPT ![r] = Enqueued(r, [id |-> id, to |-> to, ts |-> now])]
          /\ pushCh' = [pushCh EXCEPT ![r] = @ \/ Signals(r)]
          /\ gone' = gone
     ELSE /\ gone' = gone \cup {<<r, id>>}
          /\ UNCHANGED <<queue, pushCh>>

(* A host of router r sends a chunk (Net.write). *)
Contents(s) == {s[i] : i \in DOMAIN s}
Queued(r) == {c.id : c \in Contents(queue[r])}
Held(l) == {c.id : c \in Contents(hand[l])}
Past(r) == Contents(sent[r]) \cup {g[2] : g \in {h \in gone : h[1] = r}}
Used == (UNION {Queued(r) \cup Past(r) : r \in Routers}) \cup (UNION {Held(l) : l \in Loops})
NextID == LET used == Used IN CHOOSE n \in 1..(MaxChunks + 1) : used = 1..(n - 1)
Send(r, to) ==
  /\ NextID <= MaxChunks
  /\ now + MinDelay <= MaxTime
  /\ Push(r, NextID, to)
  /\ UNCHANGED <<sent, control, loops, now>>

-----------------------------------------------------------------------------
(* The goroutine of Start: enter processChunks. *)
Lock(l) ==
  /\ pc[l] = "process"
  /\ mutex[l[1]] = 0
  /\ mutex' = [mutex EXCEPT ![l[1]] = l[2]]
  /\ entered' = [entered EXCEPT ![l] = now]
  /\ pc' = [pc EXCEPT ![l] = "body"]
  /\ UNCHANGED <<routing, control, wake, hand, now>>

InBody(l) == pc[l] = "body"
DueAnyTime(l) == TRUE
Due(l) == Head(queue[l[1]]).ts + MinDelay <= entered[l]
Leave(l, next) ==
  /\ pc' = [pc EXCEPT ![l] = next]
  /\ mutex' = [mutex EXCEPT ![l[1]] = 0]

(* No chunk: wait for a push. *)
Drained(l) ==
  /\ InBody(l)
  /\ queue[l[1]] = <<>>
  /\ Leave(l, "wait")
  /\ UNCHANGED <<routing, control, entered, wake, hand, now>>

(* No chunk is due: sleep.  A timer past MaxTime fires at MaxTime. *)
NotDue(l) ==
  /\ InBody(l)
  /\ queue[l[1]] # <<>> /\ ~Due(l)
  /\ LET at == now + ((Head(queue[l[1]]).ts + MinDelay) - entered[l])
     IN  wake' = [wake EXCEPT ![l] = IF at < MaxTime THEN at ELSE MaxTime]
  /\ Leave(l, "sleep")
  /\ UNCHANGED <<routing, control, entered, hand, now>>

DueChunk(l) == InBody(l) /\ queue[l[1]] # <<>> /\ Due(l)
Peeked(r) == queue[r]
Popped(r) == Tail(queue[r])
IsOutside(l) == l[1] # Root /\ Head(queue[l[1]]).to # l[1]

(* A filter, a missing NIC, a missing route or the NAT drops the chunk.    *)
DropChunk(l) ==
  /\ DueChunk(l)
  /\ queue' = [queue EXCEPT ![l[1]] = Popped(l[1])]
  /\ gone' = gone \cup {<<l[1], Head(queue[l[1]]).id>>}
  /\ UNCHANGED <<sent, pushCh, control, loops, now>>

(* The NIC, the child router or the parent takes it, the mutex unlocked.   *)
Forward(l) ==
  /\ DueChunk(l)
  /\ Head(queue[l[1]]).to = Nowhere => IsOutside(l)
  /\ hand' = [hand EXCEPT ![l] = <<Head(queue[l[1]])>>]
  /\ queue' = [queue EXCEPT ![l[1]] = Popped(l[1])]
  /\ Leave(l, "forward")
  /\ UNCHANGED <<sent, pushCh, gone, control, entered, wake, now>>

(* translateOutbound fails: processChunks returns the error and the        *)
(* goroutine ends, with stopFunc still set.                                *)
TranslateFails(l) ==
  /\ NATMayFail
  /\ DueChunk(l)
  /\ IsOutside(l)
  /\ queue' = [queue EXCEPT ![l[1]] = Popped(l[1])]
  /\ gone' = gone \cup {<<l[1], Head(queue[l[1]]).id>>}
  /\ Leave(l, "done")
  /\ UNCHANGED <<sent, pushCh, control, entered, wake, hand, now>>

(* parent.push, or onInboundChunk of the NIC: a host, or a child router    *)
(* whose NAT may drop the chunk before push.                               *)
Handover(l) ==
  LET c == hand[l][1]
  IN  /\ pc[l] = "forward"
      /\ \/ l[1] # Root /\ c.to # l[1] /\ Push(Root, c.id, c.to)
         \/ l[1] = Root /\ c.to # Root /\ Push(c.to, c.id, c.to)
         \/ /\ l[1] = Root /\ c.to # Root
            /\ gone' = gone \cup {<<c.to, c.id>>} /\ UNCHANGED <<queue, pushCh>>
         \/ c.to = l[1] /\ UNCHANGED <<queue, pushCh, gone>>
      /\ pc' = [pc EXCEPT ![l] = "relock"]
      /\ hand' = [hand EXCEPT ![l] = <<>>]
      /\ sent' = [sent EXCEPT ![l[1]] = Append(@, c.id)]
      /\ UNCHANGED <<control, entered, wake, mutex, now>>

Relock(l) ==
  /\ pc[l] = "relock"
  /\ mutex[l[1]] = 0
  /\ mutex' = [mutex EXCEPT ![l[1]] = l[2]]
  /\ pc' = [pc EXCEPT ![l] = "body"]
  /\ UNCHANGED <<routing, control, entered, wake, hand, now>>

(* The two selects of the goroutine.  It may have left processChunks and   *)
(* not have reached the select yet, so that a push and a cancellation are  *)
(* both ready when it does.                                                *)
Signalled(l) ==
  /\ pc[l] = "wait"
  /\ pushCh[l[1]]
  /\ pushCh' = [pushCh EXCEPT ![l[1]] = FALSE]
  /\ pc' = [pc EXCEPT ![l] = "process"]
  /\ UNCHANGED <<queue, sent, gone, control, entered, wake, hand, mutex, now>>

TimerFires(l) ==
  /\ pc[l] = "sleep"
  /\ now >= wake[l]
  /\ pc' = [pc EXCEPT ![l] = "process"]
  /\ UNCHANGED <<routing, control, entered, wake, hand, mutex, now>>

CancelledAsleep(l) ==
  /\ pc[l] = "sleep"
  /\ l \in cancelled
  /\ pc' = [pc EXCEPT ![l] = "done"]
  /\ UNCHANGED <<routing, control, entered, wake, hand, mutex, now>>
Cancelled(l) ==
  /\ pc[l] \in {"wait", "sleep"}
  /\ l \in cancelled
  /\ pc' = [pc EXCEPT ![l] = "done"]
  /\ UNCHANGED <<routing, control, entered, wake, hand, mutex, now>>

-----------------------------------------------------------------------------
(* Start of the root: its goroutine, then its children, as far as none is  *)
(* already started.                                                        *)
AnyState == TRUE
NotStarted == stopFunc[Root] = 0
Start(a) ==
  /\ apc[a] = "idle"
  /\ NotStarted
  /\ \A r \in Routers : mutex[r] = 0 /\ starts[r] < MaxStarts
  /\ LET stopped == {r \in Children : stopFunc[r] = 0}
     IN  \E S \in SUBSET stopped :
           /\ stopped = Children => S = Children
           /\ LET new == {Root} \cup S
              IN  /\ starts' = [r \in Routers |-> starts[r] + (IF r \in new THEN 1 ELSE 0)]
                  /\ stopFunc' = [r \in Routers |-> IF r \in new THEN starts'[r] ELSE stopFunc[r]]
                  /\ pc' = [l \in Loops |-> IF l[1] \in new /\ l[2] = starts'[l[1]]
                                            THEN "process" ELSE pc[l]]
  /\ UNCHANGED <<routing, cancelled, apc, todo, entered, wake, hand, mutex, now>>

(* r.stopFunc(); r.stopFunc = nil *)
CallStopFunc(r) ==
  /\ cancelled' = cancelled \cup {<<r, stopFunc[r]>>}
  /\ stopFunc' = [stopFunc EXCEPT ![r] = 0]

(* The root is stopped before its children. *)
StopRootFirst(a) ==
  /\ apc[a] = "idle"
  /\ mutex[Root] = 0
  /\ stopFunc[Root] # 0
  /\ CallStopFunc(Root)
  /\ apc' = [apc EXCEPT ![a] = IF Children = {} THEN "idle" ELSE "children"]
  /\ todo' = [todo EXCEPT ![a] = Children]
  /\ UNCHANGED <<routing, starts, loops, now>>
(* Stop of the root; it unlocks the mutex around the Stop of each child.   *)
Stop(a) ==
  /\ apc[a] = "idle"
  /\ mutex[Root] = 0
  /\ stopFunc[Root] # 0
  /\ IF Children = {}
     THEN CallStopFunc(Root) /\ UNCHANGED <<apc, todo>>
     ELSE /\ apc' = [apc EXCEPT ![a] = "children"]
          /\ todo' = [todo EXCEPT ![a] = Children]
          /\ UNCHANGED <<cancelled, stopFunc>>
  /\ UNCHANGED <<routing, starts, loops, now>>

(* The children are stopped, but none of them fails. *)
StopIgnoresErrors(a, c) ==
  /\ apc' = [apc EXCEPT ![a] = "relock"]
  /\ IF stopFunc[c] # 0 THEN CallStopFunc(c) ELSE UNCHANGED <<cancelled, stopFunc>>
StopOne(a, c) ==
  IF stopFunc[c] # 0
  THEN apc' = [apc EXCEPT ![a] = "relock"] /\ CallStopFunc(c)
  ELSE apc' = [apc EXCEPT ![a] = "failed"] /\ UNCHANGED <<cancelled, stopFunc>>
StopChild(a) ==
  /\ apc[a] = "children"
  /\ \E c \in todo[a] :
       /\ mutex[c] = 0
       /\ StopOne(a, c)
       /\ todo' = [todo EXCEPT ![a] = @ \ {c}]
  /\ UNCHANGED <<routing, starts, loops, now>>

(* The root is locked again; calling a nil stopFunc panics. *)
StopRelock(a) ==
  /\ apc[a] \in {"relock", "failed"}
  /\ mutex[Root] = 0
  /\ IF apc[a] = "relock" /\ todo[a] = {} /\ stopFunc[Root] # 0
     THEN CallStopFunc(Root)
     ELSE UNCHANGED <<cancelled, stopFunc>>
  /\ apc' = [apc EXCEPT ![a] = IF apc[a] = "failed" \/ (todo[a] = {} /\ stopFunc[Root] # 0)
                               THEN "idle" ELSE IF todo[a] # {} THEN "children" ELSE "panic"]
  /\ UNCHANGED <<routing, starts, todo, loops, now>>

Tick ==
  /\ now < MaxTime
  /\ now' = now + 1
  /\ UNCHANGED <<routing, control, loops>>

-----------------------------------------------------------------------------
LoopStep(l) ==
  \/ Lock(l) \/ Drained(l) \/ NotDue(l) \/ DropChunk(l) \/ Forward(l) \/ TranslateFails(l)
  \/ Handover(l) \/ Relock(l) \/ Signalled(l) \/ TimerFires(l) \/ Cancelled(l)
StopStep(a) == StopChild(a) \/ StopRelock(a)

Next ==
  \/ \E r \in Routers, to \in Routers \cup {Nowhere} : Send(r, to)
  \/ \E l \in Loops : LoopStep(l)
  \/ \E a \in Apps : Start(a) \/ Stop(a) \/ StopStep(a)
  \/ Tick

Spec == Init /\ [][Next]_vars

(* Goroutines run and time passes; a mutex is granted to a goroutine that  *)
(* waits for it, whoever else takes it in between.                         *)
FairSpec ==
  /\ Spec
  /\ WF_vars(Tick)
  /\ \A l \in Loops : SF_vars(LoopStep(l))
  /\ \A a \in Apps : SF_vars(StopStep(a))

-----------------------------------------------------------------------------
(* README.md: Stop of the root stops "all internal Go routines in the      *)
(* router tree".  No child runs under a stopped root, a goroutine that     *)
(* nothing has cancelled is the one its router's stopFunc cancels, and     *)
(* concurrent Stops never call a nil stopFunc: the second one fails at a   *)
(* child that the first has stopped.                                       *)
Stoppable ==
  /\ stopFunc[Root] = 0 => \A r \in Children : stopFunc[r] = 0
  /\ \A l \in Loops : pc[l] \notin {"none", "done"} /\ l \notin cancelled => stopFunc[l[1]] = l[2]
  /\ \A a \in Apps : apc[a] # "panic"

(* A router forwards or drops a chunk once, whatever goroutines process    *)
(* its queue at the same time.                                             *)
OnceEach ==
  \A r \in Routers :
    /\ \A i, j \in DOMAIN queue[r] : queue[r][i].id = queue[r][j].id => i = j
    /\ \A i, j \in DOMAIN sent[r] : sent[r][i] = sent[r][j] => i = j
    /\ Queued(r) \cap Past(r) = {}
    /\ \A i \in DOMAIN sent[r] : <<r, sent[r][i]>> \notin gone

(* Chunks leave a router that is started once in the order they came, even *)
(* though the mutex is unlocked while one is handed over.                  *)
InOrder ==
  Children = {} /\ starts[Root] = 1 =>
    \A i, j \in DOMAIN sent[Root] : i < j => sent[Root][i] < sent[Root][j]

(* A chunk spends at least MinDelay in the router. *)
DelayHonoured == \A l \in Loops : \A c \in Contents(hand[l]) : c.ts + MinDelay <= now

(* When no goroutine and no time can take a step any more, goroutines that *)
(* were cancelled have ended, also while chunks were pushed to the one of  *)
(* a later Start, every Stop has returned, and no chunk is left in a queue *)
(* because a push was missed between the last look at it and the wait for  *)
(* pushCh.  The last is for a router started once, with a goroutine that   *)
(* no failure of its NAT has ended; see QueuedIsRouted.                    *)
Step == (\E l \in Loops : LoopStep(l)) \/ (\E a \in Apps : StopStep(a)) \/ Tick
NothingStuck ==
  \/ /\ \A l \in cancelled : pc[l] = "done"
     /\ \A a \in Apps : apc[a] = "idle"
     /\ \A r \in Routers : stopFunc[r] = 1 /\ pc[<<r, 1>>] # "done" => queue[r] = <<>>
  \/ ENABLED Step

(* README.md: Start makes the goroutine that routes packets: a chunk in    *)
(* the queue leaves it unless the router is stopped.                       *)
QueuedIsRouted ==
  \A r \in Routers, id \in 1..MaxChunks :
    id \in Queued(r) ~> id \notin Queued(r) \/ stopFunc[r] = 0
=============================================================================
