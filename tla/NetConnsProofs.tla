--------------------------- MODULE NetConnsProofs ---------------------------
(***************************************************************************)
(* Proofs about the connections of module NetConns, for any set of callers *)
(* and any capacity: what a cancellation does to the deadline, the order   *)
(* in which packets and messages come, and what no step may do.            *)
(***************************************************************************)
EXTENDS NetConns, TLAPS

(* Most steps below are first-order reasoning; those that are not say so. *)
USE Zenon

-----------------------------------------------------------------------------
(* A context-controlled net.Conn.  A call has the mutex of its direction   *)
(* from Lock to Return, and alone; Close has both mutexes when it closes,  *)
(* and no call has one then.                                               *)
Holds(c) == pc[c] \in {"check", "io", "done", "wait"}
ConnLocks ==
  /\ \A c \in ConnCallers : Holds(c) => Dir[c] \in held
  /\ \A b, c \in ConnCallers : Holds(b) /\ Holds(c) /\ Dir[b] = Dir[c] => b = c
  /\ cpc = "lockRead" => "write" \in held /\ \A c \in ConnCallers : Holds(c) => Dir[c] # "write"
  /\ cpc = "close" => held = Conn!Dirs /\ \A c \in ConnCallers : ~Holds(c)

(* A watcher that has armed the past deadline (setting "old") belongs to a *)
(* call that is canceled and not yet back, so the mutex is held for as     *)
(* long as that deadline is set.                                           *)
ConnWatches ==
  /\ \A c \in ConnCallers : watch[c] # "none" => pc[c] \in {"io", "done", "wait"}
  /\ \A c \in ConnCallers : watch[c] = "armed" => ctx[c]
ConnDeadlines ==
  \A d \in Conn!Dirs : open /\ deadline[d] = "old"
    => \E c \in ConnCallers : Dir[c] = d /\ watch[c] = "armed"
ConnInv == Conn!TypeOK /\ Conn!NoForeignTimeout /\ ConnLocks /\ ConnWatches /\ ConnDeadlines

(* What every step of such a connection keeps. *)
LEMMA ConnKept ==
  /\ Conn!Init => ConnInv
  /\ ConnInv /\ [Conn!Next]_con => ConnInv'
(* A call reads or writes. *)
<1>DirType. \A c \in ConnCallers : Dir[c] \in Conn!Dirs
  BY DEF Dir, Conn!Dirs
(* NewConn. *)
<1>InitConnInv. Conn!Init => ConnInv
  <2> SUFFICES ASSUME Conn!Init
               PROVE  ConnInv
    OBVIOUS
  <2>1. Conn!TypeOK
    BY DEF Conn!Init, Conn!TypeOK, Conn!Outcomes, Conn!Dirs
  <2>2. ConnLocks
    BY DEF Conn!Init, ConnLocks, Holds
  <2> QED BY <2>1, <2>2 DEF Conn!Init, ConnInv, ConnWatches, ConnDeadlines, Conn!NoForeignTimeout
(* Steps that take no mutex and give none back. *)
<1>LocksStay. ASSUME ConnLocks, \A b \in ConnCallers : Holds(b)' => Holds(b), held' = held, cpc' = cpc
              PROVE  ConnLocks'
  BY <1>LocksStay DEF ConnLocks
(* A call gets its mutex, or gives it back. *)
<1>Acquired. ASSUME ConnLocks, NEW c \in ConnCallers, Dir[c] \notin held,
                    \A b \in ConnCallers : Holds(b)' => Holds(b) \/ b = c,
                    held' = held \cup {Dir[c]}, cpc' = cpc
             PROVE  ConnLocks'
  <2> USE <1>Acquired
  <2>1. \A b \in ConnCallers : Holds(b) => Dir[b] # Dir[c]
    BY DEF ConnLocks
  <2>2. cpc # "close" /\ (cpc = "lockRead" => Dir[c] # "write")
    BY <1>DirType DEF ConnLocks
  <2> QED BY <2>1, <2>2 DEF ConnLocks
<1>Released. ASSUME ConnLocks, NEW c \in ConnCallers, Holds(c),
                    \A b \in ConnCallers : Holds(b)' => Holds(b) /\ b # c,
                    held' = held \ {Dir[c]}, cpc' = cpc
             PROVE  ConnLocks'
  <2> USE <1>Released
  <2>1. \A b \in ConnCallers : Holds(b)' => Dir[b] # Dir[c]
    BY DEF ConnLocks
  <2>2. cpc # "close" /\ (cpc = "lockRead" => Dir[c] # "write")
    BY DEF ConnLocks
  <2> QED BY <2>1, <2>2 DEF ConnLocks
(* Steps that arm no deadline. *)
<1>DeadlinesStay. ASSUME ConnDeadlines, deadline' = deadline, open' => open,
                         \A b \in ConnCallers : watch[b] = "armed" => watch'[b] = "armed"
                  PROVE  ConnDeadlines'
  BY <1>DeadlinesStay DEF ConnDeadlines
(* A call begins, its context is canceled or it gets its mutex. *)
<1>ConnStarts. ASSUME ConnInv, NEW c \in ConnCallers, Conn!Call(c) \/ Conn!Cancel(c) \/ Conn!Lock(c)
               PROVE  ConnInv'
  <2>0. Conn!TypeOK /\ Conn!NoForeignTimeout /\ ConnLocks /\ ConnWatches /\ ConnDeadlines
    BY <1>ConnStarts DEF ConnInv
  <2>1. CASE Conn!Call(c)
    <3>1. Conn!TypeOK'
      BY <2>0, <2>1 DEF Conn!TypeOK, Conn!Call, Conn!Outcomes
    <3>2. /\ pc[c] = "idle" /\ pc'[c] = "lock" /\ io'[c] = "none"
          /\ \A b \in ConnCallers \ {c} : pc'[b] = pc[b] /\ ctx'[b] = ctx[b] /\ io'[b] = io[b]
          /\ UNCHANGED <<watch, held, deadline, open, cpc>>
      BY <2>0, <2>1 DEF Conn!TypeOK, Conn!Call
    <3>3. Conn!NoForeignTimeout' /\ ConnWatches'
      BY <2>0, <3>2 DEF Conn!NoForeignTimeout, ConnWatches
    <3>4. \A b \in ConnCallers : Holds(b)' => Holds(b)
      BY <3>2 DEF Holds
    <3> QED BY <2>0, <3>1, <3>2, <3>3, <3>4, <1>LocksStay, <1>DeadlinesStay DEF ConnInv
  <2>2. CASE Conn!Cancel(c)
    <3>1. Conn!TypeOK'
      BY <2>0, <2>2 DEF Conn!TypeOK, Conn!Cancel
    <3>2. /\ ctx'[c] /\ \A b \in ConnCallers \ {c} : ctx'[b] = ctx[b]
          /\ UNCHANGED <<pc, watch, io, held, deadline, open, cpc>>
      BY <2>0, <2>2 DEF Conn!TypeOK, Conn!Cancel
    <3>3. Conn!NoForeignTimeout' /\ ConnWatches'
      BY <2>0, <3>2 DEF Conn!NoForeignTimeout, ConnWatches
    <3>4. \A b \in ConnCallers : Holds(b)' => Holds(b)
      BY <3>2 DEF Holds
    <3> QED BY <2>0, <3>1, <3>2, <3>3, <3>4, <1>LocksStay, <1>DeadlinesStay DEF ConnInv
  <2>3. CASE Conn!Lock(c)
    <3>1. Conn!TypeOK'
      BY <2>0, <2>3, <1>DirType DEF Conn!TypeOK, Conn!Lock
    <3>2. /\ pc[c] = "lock" /\ pc'[c] = "check" /\ \A b \in ConnCallers \ {c} : pc'[b] = pc[b]
          /\ Dir[c] \notin held /\ held' = held \cup {Dir[c]}
          /\ UNCHANGED <<ctx, watch, io, deadline, open, cpc>>
      BY <2>0, <2>3 DEF Conn!TypeOK, Conn!Lock
    <3>3. Conn!NoForeignTimeout' /\ ConnWatches'
      BY <2>0, <3>2 DEF Conn!NoForeignTimeout, ConnWatches
    <3>4. \A b \in ConnCallers : Holds(b)' => Holds(b) \/ b = c
      BY <3>2 DEF Holds
    <3> QED BY <2>0, <3>1, <3>2, <3>3, <3>4, <1>Acquired, <1>DeadlinesStay DEF ConnInv
  <2> QED BY <1>ConnStarts, <2>1, <2>2, <2>3
(* The steps of a call that has the mutex. *)
<1>ConnCall. ASSUME ConnInv, NEW c \in ConnCallers, Conn!IOSucceeds(c) \/ Conn!CallStep(c)
             PROVE  ConnInv'
  <2>0. Conn!TypeOK /\ Conn!NoForeignTimeout /\ ConnLocks /\ ConnWatches /\ ConnDeadlines
    BY <1>ConnCall DEF ConnInv
  <2>1. CASE Conn!Check(c)
    <3>1. Conn!TypeOK'
      <4>1. "closed" \in Conn!Outcomes \ {"timeout"}
        BY DEF Conn!Outcomes
      <4>2. CASE closed
        <5>1. /\ pc' = [pc EXCEPT ![c] = "idle"] /\ result' = [result EXCEPT ![c] = "closed"]
              /\ held' = held \ {Dir[c]} /\ UNCHANGED <<watch, ctx, io, deadline, open, closed, cpc>>
          BY <2>1, <4>2 DEF Conn!Check
        <5> QED BY <2>0, <4>1, <5>1 DEF Conn!TypeOK
      <4>3. CASE ~closed
        BY <2>0, <2>1, <4>3 DEF Conn!TypeOK, Conn!Check
      <4> QED BY <4>2, <4>3
    <3>2. /\ pc[c] = "check" /\ \A b \in ConnCallers \ {c} : pc'[b] = pc[b] /\ watch'[b] = watch[b]
          /\ UNCHANGED <<ctx, io, deadline, open, cpc>>
      BY <2>0, <2>1 DEF Conn!TypeOK, Conn!Check
    <3>3. watch[c] = "none" /\ Holds(c)
      BY <2>0, <3>2 DEF ConnWatches, Holds
    <3>4. CASE closed
      <4>1. pc'[c] = "idle" /\ held' = held \ {Dir[c]} /\ watch' = watch
        BY <2>0, <2>1, <3>4 DEF Conn!TypeOK, Conn!Check
      <4>2. Conn!NoForeignTimeout' /\ ConnWatches'
        BY <2>0, <3>2, <3>3, <4>1 DEF Conn!NoForeignTimeout, ConnWatches
      <4>3. \A b \in ConnCallers : Holds(b)' => Holds(b) /\ b # c
        BY <3>2, <4>1 DEF Holds
      <4> QED BY <2>0, <3>1, <3>2, <3>3, <4>1, <4>2, <4>3, <1>Released, <1>DeadlinesStay DEF ConnInv
    <3>5. CASE ~closed
      <4>1. pc'[c] = "io" /\ watch'[c] = "select" /\ held' = held
        BY <2>0, <2>1, <3>5 DEF Conn!TypeOK, Conn!Check
      <4>2. Conn!NoForeignTimeout' /\ ConnWatches'
        BY <2>0, <3>2, <4>1 DEF Conn!NoForeignTimeout, ConnWatches
      <4>3. \A b \in ConnCallers : Holds(b)' => Holds(b)
        BY <3>2, <3>3, <4>1 DEF Holds
      <4>4. \A b \in ConnCallers : watch[b] = "armed" => watch'[b] = "armed"
        BY <3>2, <3>3
      <4> QED BY <2>0, <3>1, <3>2, <4>1, <4>2, <4>3, <4>4, <1>LocksStay, <1>DeadlinesStay DEF ConnInv
    <3> QED BY <3>4, <3>5
  <2>2. CASE Conn!IOSucceeds(c) \/ Conn!IOFails(c)
    <3>1. PICK outcome \in Conn!Outcomes \ {"canceled"} :
            /\ Conn!IOReturns(c, outcome)
            /\ outcome = "timeout" => open /\ deadline[Dir[c]] = "old"
      <4>1. \A x \in {"data", "closed", "timeout"} : x \in Conn!Outcomes \ {"canceled"}
        BY DEF Conn!Outcomes
      <4> QED BY <2>2, <4>1 DEF Conn!IOSucceeds, Conn!IOFails
    <3>2. Conn!TypeOK'
      BY <2>0, <3>1 DEF Conn!TypeOK, Conn!IOReturns
    <3>3. /\ pc[c] = "io" /\ pc'[c] = "done" /\ io'[c] = outcome
          /\ \A b \in ConnCallers \ {c} : pc'[b] = pc[b] /\ io'[b] = io[b]
          /\ UNCHANGED <<ctx, watch, held, deadline, open, cpc>>
      BY <2>0, <3>1 DEF Conn!TypeOK, Conn!IOReturns
    <3>4. outcome = "timeout" => ctx[c]
      <4>1. SUFFICES ASSUME outcome = "timeout" PROVE ctx[c]
        OBVIOUS
      <4>2. PICK b \in ConnCallers : Dir[b] = Dir[c] /\ watch[b] = "armed"
        BY <2>0, <3>1, <4>1, <1>DirType DEF ConnDeadlines
      <4>3. Holds(b) /\ Holds(c) /\ ctx[b]
        BY <2>0, <3>3, <4>2 DEF ConnWatches, Holds
      <4> QED BY <2>0, <4>2, <4>3 DEF ConnLocks
    <3>5. Conn!NoForeignTimeout' /\ ConnWatches'
      BY <2>0, <3>3, <3>4 DEF Conn!NoForeignTimeout, ConnWatches
    <3>6. \A b \in ConnCallers : Holds(b)' => Holds(b)
      BY <3>3 DEF Holds
    <3> QED BY <2>0, <3>2, <3>3, <3>5, <3>6, <1>LocksStay, <1>DeadlinesStay DEF ConnInv
  <2>3. CASE Conn!CloseDone(c)
    <3>1. Conn!TypeOK'
      BY <2>0, <2>3 DEF Conn!TypeOK, Conn!CloseDone
    <3>2. /\ pc[c] = "done" /\ pc'[c] = "wait" /\ \A b \in ConnCallers \ {c} : pc'[b] = pc[b]
          /\ UNCHANGED <<ctx, watch, io, held, deadline, open, cpc>>
      BY <2>0, <2>3 DEF Conn!TypeOK, Conn!CloseDone
    <3>3. Conn!NoForeignTimeout' /\ ConnWatches'
      BY <2>0, <3>2 DEF Conn!NoForeignTimeout, ConnWatches
    <3>4. \A b \in ConnCallers : Holds(b)' => Holds(b)
      BY <3>2 DEF Holds
    <3> QED BY <2>0, <3>1, <3>2, <3>3, <3>4, <1>LocksStay, <1>DeadlinesStay DEF ConnInv
  <2>4. CASE Conn!Return(c)
    <3>1. Conn!CallResult(c) \in Conn!Outcomes \ {"timeout"}
      BY <2>0 DEF Conn!TypeOK, Conn!NoForeignTimeout, Conn!CallResult, Conn!Outcomes
    <3>2. Conn!TypeOK'
      BY <2>0, <2>4, <3>1 DEF Conn!TypeOK, Conn!Return
    <3>3. /\ pc[c] = "wait" /\ pc'[c] = "idle" /\ watch[c] = "ended" /\ watch'[c] = "none"
          /\ \A b \in ConnCallers \ {c} : pc'[b] = pc[b] /\ watch'[b] = watch[b]
          /\ held' = held \ {Dir[c]} /\ UNCHANGED <<ctx, io, deadline, open, cpc>>
      BY <2>0, <2>4 DEF Conn!TypeOK, Conn!Return, Conn!WatcherEnded
    <3>4. Conn!NoForeignTimeout' /\ ConnWatches'
      BY <2>0, <3>3 DEF Conn!NoForeignTimeout, ConnWatches
    <3>5. Holds(c) /\ \A b \in ConnCallers : Holds(b)' => Holds(b) /\ b # c
      BY <3>3 DEF Holds
    <3>6. \A b \in ConnCallers : watch[b] = "armed" => watch'[b] = "armed"
      BY <3>3
    <3> QED BY <2>0, <3>2, <3>3, <3>4, <3>5, <3>6, <1>Released, <1>DeadlinesStay DEF ConnInv
  <2> QED BY <1>ConnCall, <2>1, <2>2, <2>3, <2>4 DEF Conn!CallStep
(* The watcher moves the deadline only while its call has the mutex. *)
<1>ConnWatch. ASSUME ConnInv, NEW c \in ConnCallers, Conn!WatchStep(c)
              PROVE  ConnInv'
  <2>0. Conn!TypeOK /\ Conn!NoForeignTimeout /\ ConnLocks /\ ConnWatches /\ ConnDeadlines
    BY <1>ConnWatch DEF ConnInv
  <2>1. UNCHANGED <<pc, ctx, io, held, open, cpc>> /\ \A b \in ConnCallers \ {c} : watch'[b] = watch[b]
    BY <2>0, <1>ConnWatch DEF Conn!TypeOK, Conn!WatchStep, Conn!WatchCanceled, Conn!WatchDone, Conn!WatchRestore
  <2>2. Conn!NoForeignTimeout' /\ ConnLocks'
    <3>1. \A b \in ConnCallers : Holds(b)' => Holds(b)
      BY <2>1 DEF Holds
    <3>2. ConnLocks'
      BY <2>0, <2>1, <3>1, <1>LocksStay
    <3> QED BY <2>0, <2>1, <3>2 DEF Conn!NoForeignTimeout
  <2>3. CASE Conn!WatchCanceled(c)
    <3>1. Conn!TypeOK'
      BY <2>0, <2>3, <1>DirType DEF Conn!TypeOK, Conn!WatchCanceled, Conn!ExpireDeadline, Conn!SetDeadline
    <3>2. /\ watch[c] = "select" /\ ctx[c] /\ watch'[c] \in {"armed", "ended"} /\ (open => watch'[c] = "armed")
          /\ open => \A d \in Conn!Dirs : d # Dir[c] => deadline'[d] = deadline[d]
      BY <2>0, <2>3, <1>DirType DEF Conn!TypeOK, Conn!WatchCanceled, Conn!ExpireDeadline, Conn!SetDeadline
    <3>3. ConnWatches'
      BY <2>0, <2>1, <3>2 DEF ConnWatches
    <3>4. ConnDeadlines'
      <4>1. SUFFICES ASSUME NEW d \in Conn!Dirs, open, deadline'[d] = "old"
                     PROVE  \E b \in ConnCallers : Dir[b] = d /\ watch'[b] = "armed"
        BY <2>1 DEF ConnDeadlines
      <4>2. CASE d = Dir[c]
        BY <3>2, <4>1, <4>2
      <4>3. CASE d # Dir[c]
        <5>1. PICK b \in ConnCallers : Dir[b] = d /\ watch[b] = "armed"
          BY <2>0, <3>2, <4>1, <4>3 DEF ConnDeadlines
        <5> QED BY <2>1, <3>2, <5>1
      <4> QED BY <4>2, <4>3
    <3> QED BY <2>2, <3>1, <3>3, <3>4 DEF ConnInv
  <2>4. CASE Conn!WatchDone(c)
    <3>1. Conn!TypeOK'
      BY <2>0, <2>4 DEF Conn!TypeOK, Conn!WatchDone
    <3>2. watch[c] = "select" /\ watch'[c] = "ended" /\ deadline' = deadline
      BY <2>0, <2>4 DEF Conn!TypeOK, Conn!WatchDone
    <3>3. ConnWatches'
      BY <2>0, <2>1, <3>2 DEF ConnWatches
    <3>4. \A b \in ConnCallers : watch[b] = "armed" => watch'[b] = "armed"
      BY <2>1, <3>2
    <3> QED BY <2>0, <2>1, <2>2, <3>1, <3>2, <3>3, <3>4, <1>DeadlinesStay DEF ConnInv
  <2>5. CASE Conn!WatchRestore(c)
    <3>1. Conn!TypeOK'
      BY <2>0, <2>5, <1>DirType DEF Conn!TypeOK, Conn!WatchRestore, Conn!ClearDeadline, Conn!SetDeadline
    <3>2. /\ watch[c] = "armed" /\ watch'[c] = "ended"
          /\ open => /\ \A d \in Conn!Dirs : d # Dir[c] => deadline'[d] = deadline[d]
                     /\ deadline'[Dir[c]] = "none"
      BY <2>0, <2>5, <1>DirType DEF Conn!TypeOK, Conn!WatchRestore, Conn!ClearDeadline, Conn!SetDeadline
    <3>3. ConnWatches'
      BY <2>0, <2>1, <3>2 DEF ConnWatches
    <3>4. ConnDeadlines'
      <4>1. SUFFICES ASSUME NEW d \in Conn!Dirs, open, deadline'[d] = "old"
                     PROVE  \E b \in ConnCallers : Dir[b] = d /\ watch'[b] = "armed"
        BY <2>1 DEF ConnDeadlines
      <4>2. d # Dir[c] /\ deadline[d] = "old"
        BY <3>2, <4>1
      <4>3. PICK b \in ConnCallers : Dir[b] = d /\ watch[b] = "armed"
        BY <2>0, <4>1, <4>2 DEF ConnDeadlines
      <4> QED BY <2>1, <4>2, <4>3
    <3> QED BY <2>2, <3>1, <3>3, <3>4 DEF ConnInv
  <2> QED BY <1>ConnWatch, <2>3, <2>4, <2>5 DEF Conn!WatchStep
(* Close, which ends with both mutexes. *)
<1>ConnClose. ASSUME ConnInv, Conn!Close \/ Conn!CloseStep
              PROVE  ConnInv'
  <2>0. Conn!TypeOK /\ Conn!NoForeignTimeout /\ ConnLocks /\ ConnWatches /\ ConnDeadlines
    BY <1>ConnClose DEF ConnInv
  <2>1. UNCHANGED <<pc, ctx, watch, io, result, deadline>> /\ (open' => open)
    <3>1. open' => open
      <4>1. CASE Conn!Close
        BY <4>1 DEF Conn!Close, Conn!CloseNextFirst
      <4>2. CASE Conn!CloseStep
        BY <4>2 DEF Conn!CloseStep, Conn!CloseLock, Conn!CloseReturns
      <4> QED BY <1>ConnClose, <4>1, <4>2
    <3> QED BY <1>ConnClose, <3>1 DEF Conn!Close, Conn!CloseStep, Conn!CloseLock, Conn!CloseReturns
  <2>2. Conn!NoForeignTimeout' /\ ConnWatches'
    BY <2>0, <2>1 DEF Conn!NoForeignTimeout, ConnWatches
  <2>3. ConnDeadlines'
    BY <2>0, <2>1, <1>DeadlinesStay
  <2>4. \A c \in ConnCallers : Holds(c)' <=> Holds(c)
    BY <2>1 DEF Holds
  <2>5. Conn!TypeOK'
    <3>1. held' \subseteq Conn!Dirs /\ open' \in BOOLEAN /\ closed' \in BOOLEAN
          /\ cpc' \in {"lockWrite", "lockRead", "close", "returned"}
      BY <2>0, <1>ConnClose DEF Conn!TypeOK, Conn!Dirs, Conn!Close, Conn!CloseNextFirst, Conn!CloseStep,
                                Conn!CloseLock, Conn!CloseReturns
    <3> QED BY <2>0, <2>1, <3>1 DEF Conn!TypeOK
  <2>6. CASE Conn!Close
    <3>1. held' = held /\ cpc' = "lockWrite"
      BY <2>6 DEF Conn!Close
    <3> QED BY <2>0, <2>2, <2>3, <2>4, <2>5, <3>1 DEF ConnInv, ConnLocks
  <2>7. CASE Conn!CloseLock("lockWrite", "write", "lockRead")
    <3>1. "write" \notin held /\ held' = held \cup {"write"} /\ cpc' = "lockRead"
      BY <2>7 DEF Conn!CloseLock
    <3>2. ConnLocks'
      BY <2>0, <2>4, <3>1 DEF ConnLocks
    <3> QED BY <2>2, <2>3, <2>5, <3>2 DEF ConnInv
  <2>8. CASE Conn!CloseLock("lockRead", "read", "close")
    <3>0. /\ cpc = "lockRead" /\ "write" \in held /\ held \subseteq {"read", "write"}
          /\ "read" \notin held /\ held' = held \cup {"read"} /\ cpc' = "close"
      BY <2>0, <2>8 DEF ConnLocks, Conn!TypeOK, Conn!CloseLock, Conn!Dirs
    <3>1. held' = Conn!Dirs
      BY <3>0 DEF Conn!Dirs
    <3>2. \A c \in ConnCallers : ~Holds(c) /\ ~Holds(c)'
      <4>1. \A c \in ConnCallers : Holds(c) => Dir[c] # "read" /\ Dir[c] # "write"
        BY <2>0, <3>0 DEF ConnLocks
      <4> QED BY <2>4, <4>1, <1>DirType DEF Conn!Dirs
    <3> QED BY <2>2, <2>3, <2>5, <3>0, <3>1, <3>2 DEF ConnInv, ConnLocks
  <2>9. CASE Conn!CloseReturns
    <3>1. cpc = "close" /\ cpc' = "returned"
      BY <2>9 DEF Conn!CloseReturns
    <3>2. \A c \in ConnCallers : ~Holds(c)'
      BY <2>0, <2>4, <3>1 DEF ConnLocks
    <3> QED BY <2>2, <2>3, <2>5, <3>1, <3>2 DEF ConnInv, ConnLocks
  <2> QED BY <1>ConnClose, <2>6, <2>7, <2>8, <2>9 DEF Conn!CloseStep
(* Every step of a context-controlled connection keeps its invariant. *)
<1>ConnStep. ConnInv /\ [Conn!Next]_con => ConnInv'
  <2> SUFFICES ASSUME ConnInv, [Conn!Next]_con
               PROVE  ConnInv'
    OBVIOUS
  <2>1. CASE UNCHANGED con
    <3>1. UNCHANGED <<pc, ctx, watch, io, result, held, deadline, open, closed, cpc>>
      BY <2>1 DEF con
    <3>2. Conn!TypeOK' /\ Conn!NoForeignTimeout'
      BY <3>1 DEF ConnInv, Conn!TypeOK, Conn!NoForeignTimeout
    <3>3. ConnLocks' /\ ConnWatches'
      BY <3>1 DEF ConnInv, ConnLocks, Holds, ConnWatches
    <3>4. ConnDeadlines'
      BY <3>1, <1>DeadlinesStay DEF ConnInv
    <3> QED BY <3>2, <3>3, <3>4 DEF ConnInv
  <2> QED BY <2>1, <1>ConnStarts, <1>ConnCall, <1>ConnWatch, <1>ConnClose DEF Conn!Next
<1> QED BY <1>InitConnInv, <1>ConnStep

-----------------------------------------------------------------------------
(* A context-controlled net.PacketConn, the same with one mutex for        *)
(* writers: a call in its I/O may have a function registered, which alone  *)
(* sets the deadline to the past, and the call clears the deadline before  *)
(* it gives the mutex back.                                                *)
PHolds(c) == p_pc[c] \in {"check", "io", "detach", "wait", "return"}
PacketLocks ==
  /\ \A c \in PacketCallers : PHolds(c) => "write" \in p_held
  /\ \A b, c \in PacketCallers : PHolds(b) /\ PHolds(c) => b = c
PacketFuncs ==
  /\ \A c \in PacketCallers : func[c] # "none" => p_pc[c] \in {"io", "detach", "wait"}
  /\ \A c \in PacketCallers : func[c] \in {"started", "closing", "ended"} => p_ctx[c]
  /\ \A c \in PacketCallers : p_pc[c] \in {"lock", "check", "io"} => p_io[c] = "none"
PacketDeadlines ==
  \A d \in PacketConn!Dirs : p_deadline[d] = "old" =>
    /\ settable
    /\ ~p_closed => d = "write" /\ \E c \in PacketCallers : func[c] = "ended"
PacketInv ==
  /\ PacketConn!TypeOK /\ PacketLocks /\ PacketFuncs /\ PacketDeadlines
  /\ ~p_closed => p_open /\ once = "new"

(* What every step of such a connection keeps, and what none does. *)
LEMMA PacketKept ==
  /\ PacketConn!Init => PacketInv
  /\ PacketInv /\ [PacketConn!Next]_pac =>
       PacketInv' /\ PacketConn!UserDeadlineKept /\ PacketConn!ProgressKept
(* NewPacketConn. *)
<1>InitPacketInv. PacketConn!Init => PacketInv
  <2> SUFFICES ASSUME PacketConn!Init
               PROVE  PacketInv
    OBVIOUS
  <2>1. PacketConn!TypeOK
    BY DEF PacketConn!Init, PacketConn!TypeOK, PacketConn!Outcomes, PacketConn!Dirs
  <2>2. PacketLocks
    BY DEF PacketConn!Init, PacketLocks, PHolds
  <2> QED BY <2>1, <2>2 DEF PacketConn!Init, PacketInv, PacketFuncs, PacketDeadlines
(* Steps that take no mutex; a call gets it, or gives it back. *)
<1>LocksStay. ASSUME PacketLocks, \A b \in PacketCallers : PHolds(b)' => PHolds(b), p_held' = p_held
              PROVE  PacketLocks'
  BY <1>LocksStay DEF PacketLocks
<1>Acquired. ASSUME PacketLocks, NEW c \in PacketCallers, "write" \notin p_held,
                    \A b \in PacketCallers : PHolds(b)' => PHolds(b) \/ b = c, p_held' = p_held \cup {"write"}
             PROVE  PacketLocks'
  BY <1>Acquired DEF PacketLocks
<1>Released. ASSUME PacketLocks, NEW c \in PacketCallers, PHolds(c),
                    \A b \in PacketCallers : PHolds(b)' => PHolds(b) /\ b # c
             PROVE  PacketLocks'
  BY <1>Released DEF PacketLocks
(* Steps that arm no deadline. *)
<1>DeadlinesStay. ASSUME PacketDeadlines, UNCHANGED <<p_deadline, settable>>, p_closed => p_closed',
                         \A b \in PacketCallers : func[b] = "ended" => func'[b] = "ended"
                  PROVE  PacketDeadlines'
  BY <1>DeadlinesStay DEF PacketDeadlines
(* A call returns. *)
<1>Returned. ASSUME PacketInv, NEW c \in PacketCallers, NEW outcome \in PacketConn!Outcomes,
                    PacketConn!Returns(c, outcome), UNCHANGED func, PHolds(c), func[c] = "none"
             PROVE  PacketInv'
  <2>0. PacketConn!TypeOK /\ PacketLocks /\ PacketFuncs /\ PacketDeadlines
    BY <1>Returned DEF PacketInv
  <2>1. PacketConn!TypeOK'
    BY <2>0, <1>Returned DEF PacketConn!TypeOK, PacketConn!Returns
  <2>2. /\ p_pc'[c] = "idle" /\ \A b \in PacketCallers \ {c} : p_pc'[b] = p_pc[b]
        /\ UNCHANGED <<p_ctx, p_io, p_open, p_deadline, func, p_closed, once, settable>>
    BY <2>0, <1>Returned DEF PacketConn!TypeOK, PacketConn!Returns
  <2>3. PacketFuncs'
    BY <2>0, <2>2, <1>Returned DEF PacketFuncs
  <2>4. \A b \in PacketCallers : PHolds(b)' => PHolds(b) /\ b # c
    BY <2>2 DEF PHolds
  <2>5. PacketLocks' /\ PacketDeadlines'
    BY <2>0, <2>2, <2>4, <1>Returned, <1>Released, <1>DeadlinesStay
  <2> QED BY <1>Returned, <2>1, <2>2, <2>3, <2>5 DEF PacketInv
(* A call begins, or its context is canceled. *)
<1>PacketUser. ASSUME PacketInv, NEW c \in PacketCallers, PacketConn!Call(c) \/ PacketConn!Cancel(c)
               PROVE  PacketInv'
  <2>0. PacketConn!TypeOK /\ PacketLocks /\ PacketFuncs /\ PacketDeadlines
    BY <1>PacketUser DEF PacketInv
  <2>1. UNCHANGED <<p_held, p_open, p_deadline, func, p_closed, once, settable>>
    BY <1>PacketUser DEF PacketConn!Call, PacketConn!Cancel
  <2>2. CASE PacketConn!Call(c)
    <3>1. PacketConn!TypeOK'
      BY <2>0, <2>2 DEF PacketConn!TypeOK, PacketConn!Call, PacketConn!Outcomes
    <3>2. /\ p_pc[c] = "idle" /\ p_pc'[c] = "lock" /\ p_io'[c] = "none"
          /\ \A b \in PacketCallers \ {c} : p_pc'[b] = p_pc[b] /\ p_ctx'[b] = p_ctx[b] /\ p_io'[b] = p_io[b]
      BY <2>0, <2>2 DEF PacketConn!TypeOK, PacketConn!Call
    <3>3. PacketFuncs'
      BY <2>0, <2>1, <3>2 DEF PacketFuncs
    <3>4. \A b \in PacketCallers : PHolds(b)' => PHolds(b)
      BY <3>2 DEF PHolds
    <3>5. PacketLocks' /\ PacketDeadlines'
      BY <2>0, <2>1, <3>4, <1>LocksStay, <1>DeadlinesStay
    <3> QED BY <1>PacketUser, <2>1, <3>1, <3>3, <3>5 DEF PacketInv
  <2>3. CASE PacketConn!Cancel(c)
    <3>1. PacketConn!TypeOK'
      BY <2>0, <2>3 DEF PacketConn!TypeOK, PacketConn!Cancel
    <3>2. p_ctx'[c] /\ (\A b \in PacketCallers \ {c} : p_ctx'[b] = p_ctx[b]) /\ UNCHANGED <<p_pc, p_io>>
      BY <2>0, <2>3 DEF PacketConn!TypeOK, PacketConn!Cancel
    <3>3. PacketFuncs'
      BY <2>0, <2>1, <3>2 DEF PacketFuncs
    <3>4. \A b \in PacketCallers : PHolds(b)' => PHolds(b)
      BY <3>2 DEF PHolds
    <3>5. PacketLocks' /\ PacketDeadlines'
      BY <2>0, <2>1, <3>4, <1>LocksStay, <1>DeadlinesStay
    <3> QED BY <1>PacketUser, <2>1, <3>1, <3>3, <3>5 DEF PacketInv
  <2> QED BY <1>PacketUser, <2>2, <2>3
(* Deadlines are set between calls; Close may come at any time. *)
<1>PacketClose. ASSUME PacketInv,
                       \/ \E d \in PacketConn!Dirs : PacketConn!UserSetsDeadline(d)
                       \/ PacketConn!Close \/ PacketConn!CloseNext
                PROVE  PacketInv'
  <2>0. PacketConn!TypeOK /\ PacketLocks /\ PacketFuncs /\ PacketDeadlines
    BY <1>PacketClose DEF PacketInv
  <2>1. UNCHANGED <<p_pc, p_ctx, p_io, p_result, p_held, func, settable>>
    BY <1>PacketClose DEF PacketConn!UserSetsDeadline, PacketConn!Close, PacketConn!CloseNext
  <2>2. PacketFuncs' /\ PacketLocks'
    BY <2>0, <2>1 DEF PacketFuncs, PacketLocks, PHolds
  <2>3. ASSUME NEW d \in PacketConn!Dirs, PacketConn!UserSetsDeadline(d)
        PROVE  PacketInv'
    <3>1. PacketConn!TypeOK'
      BY <2>0, <2>3 DEF PacketConn!TypeOK, PacketConn!UserSetsDeadline
    <3>2. /\ \A e \in PacketConn!Dirs : p_deadline'[e] = "old" => p_deadline[e] = "old"
          /\ UNCHANGED <<p_open, p_closed, once>>
      BY <2>0, <2>3 DEF PacketConn!TypeOK, PacketConn!UserSetsDeadline
    <3>3. PacketDeadlines'
      BY <2>0, <2>1, <3>2 DEF PacketDeadlines
    <3> QED BY <1>PacketClose, <2>2, <3>1, <3>2, <3>3 DEF PacketInv
  <2>4. CASE PacketConn!Close \/ PacketConn!CloseNext
    <3>1. PacketConn!TypeOK'
      BY <2>0, <2>4 DEF PacketConn!TypeOK, PacketConn!Close, PacketConn!CloseNext, PacketConn!NextOpen
    <3>2. p_closed' /\ p_deadline' = p_deadline
      BY <1>PacketClose, <2>4 DEF PacketInv, PacketConn!Close, PacketConn!CloseNext
    <3>3. PacketDeadlines'
      BY <2>0, <2>1, <3>2, <1>DeadlinesStay
    <3> QED BY <2>2, <3>1, <3>2, <3>3 DEF PacketInv
  <2> QED BY <1>PacketClose, <2>3, <2>4
(* The steps of a call up to its I/O. *)
<1>PacketCall. ASSUME PacketInv, NEW c \in PacketCallers,
                      \/ PacketConn!Lock(c) \/ PacketConn!Check(c) \/ PacketConn!WriteToNonBlock(c)
                      \/ PacketConn!IOSucceeds(c) \/ PacketConn!IOTimesOut(c) \/ PacketConn!IOFails(c)
               PROVE  PacketInv'
  <2>0. PacketConn!TypeOK /\ PacketLocks /\ PacketFuncs /\ PacketDeadlines
    BY <1>PacketCall DEF PacketInv
  <2>1. p_pc[c] = "check" => PHolds(c) /\ func[c] = "none"
    BY <2>0 DEF PacketFuncs, PHolds
  <2>2. CASE PacketConn!Lock(c)
    <3>1. /\ "write" \notin p_held /\ p_held' = p_held \cup {"write"} /\ p_pc[c] = "lock"
          /\ p_pc' = [p_pc EXCEPT ![c] = "check"]
          /\ UNCHANGED <<p_ctx, p_io, p_result, p_open, p_deadline, func, p_closed, once, settable>>
      BY <2>2 DEF PacketConn!Lock
    <3>2. p_held' \subseteq PacketConn!Dirs
      BY <2>0, <3>1 DEF PacketConn!TypeOK, PacketConn!Dirs
    <3>3. PacketConn!TypeOK'
      BY <2>0, <3>1, <3>2 DEF PacketConn!TypeOK
    <3>4. p_pc'[c] = "check" /\ \A b \in PacketCallers \ {c} : p_pc'[b] = p_pc[b]
      BY <2>0, <3>1 DEF PacketConn!TypeOK
    <3>5. PacketFuncs'
      BY <2>0, <3>1, <3>4 DEF PacketFuncs
    <3>6. \A b \in PacketCallers : PHolds(b)' => PHolds(b) \/ b = c
      BY <3>4 DEF PHolds
    <3>7. PacketLocks' /\ PacketDeadlines'
      BY <2>0, <3>1, <3>6, <1>Acquired, <1>DeadlinesStay
    <3> QED BY <1>PacketCall, <3>1, <3>3, <3>5, <3>7 DEF PacketInv
  <2>3. CASE PacketConn!Check(c)
    <3>1. CASE p_closed \/ p_ctx[c]
      <4>1. "closed" \in PacketConn!Outcomes /\ "canceled" \in PacketConn!Outcomes
        BY DEF PacketConn!Outcomes
      <4>2. PICK outcome \in PacketConn!Outcomes : PacketConn!Returns(c, outcome) /\ UNCHANGED func
        BY <2>3, <3>1, <4>1 DEF PacketConn!Check
      <4>3. p_pc[c] = "check"
        BY <2>3 DEF PacketConn!Check
      <4> QED BY <1>PacketCall, <2>1, <4>2, <4>3, <1>Returned
    <3>2. CASE ~(p_closed \/ p_ctx[c])
      <4>1. /\ p_pc[c] = "check" /\ p_pc' = [p_pc EXCEPT ![c] = "io"] /\ func' = [func EXCEPT ![c] = "armed"]
            /\ UNCHANGED <<p_ctx, p_io, p_result, p_held, p_open, p_deadline, p_closed, once, settable>>
        BY <2>3, <3>2 DEF PacketConn!Check
      <4>2. PacketConn!TypeOK'
        BY <2>0, <4>1 DEF PacketConn!TypeOK
      <4>3. /\ p_pc'[c] = "io" /\ func'[c] = "armed"
            /\ \A b \in PacketCallers \ {c} : p_pc'[b] = p_pc[b] /\ func'[b] = func[b]
        BY <2>0, <4>1 DEF PacketConn!TypeOK
      <4>4. PacketFuncs'
        <5>1. p_io[c] = "none"
          BY <2>0, <4>1 DEF PacketFuncs
        <5>2. \A b \in PacketCallers : func'[b] # "none" => p_pc'[b] \in {"io", "detach", "wait"}
          BY <2>0, <4>3 DEF PacketFuncs
        <5>3. \A b \in PacketCallers : func'[b] \in {"started", "closing", "ended"} => p_ctx'[b]
          BY <2>0, <4>1, <4>3 DEF PacketFuncs
        <5>4. \A b \in PacketCallers : p_pc'[b] \in {"lock", "check", "io"} => p_io'[b] = "none"
          BY <2>0, <4>1, <4>3, <5>1 DEF PacketFuncs
        <5> QED BY <5>2, <5>3, <5>4 DEF PacketFuncs
      <4>5. \A b \in PacketCallers : PHolds(b)' => PHolds(b)
        BY <2>1, <4>1, <4>3 DEF PHolds
      <4>6. \A b \in PacketCallers : func[b] = "ended" => func'[b] = "ended"
        BY <2>1, <4>1, <4>3
      <4>7. PacketLocks' /\ PacketDeadlines'
        BY <2>0, <4>1, <4>5, <4>6, <1>LocksStay, <1>DeadlinesStay
      <4> QED BY <1>PacketCall, <4>1, <4>2, <4>4, <4>7 DEF PacketInv
    <3> QED BY <3>1, <3>2
  <2>4. CASE PacketConn!WriteToNonBlock(c)
    <3>1. "data" \in PacketConn!Outcomes
      BY DEF PacketConn!Outcomes
    <3>2. p_pc[c] = "check" /\ PacketConn!Returns(c, "data") /\ UNCHANGED func
      BY <2>4 DEF PacketConn!WriteToNonBlock
    <3> QED BY <1>PacketCall, <2>1, <3>1, <3>2, <1>Returned
  <2>5. CASE PacketConn!IOSucceeds(c) \/ PacketConn!IOTimesOut(c) \/ PacketConn!IOFails(c)
    <3>1. PICK outcome \in PacketConn!Outcomes \ {"canceled"} : PacketConn!IOReturns(c, outcome)
      <4>1. \A x \in {"data", "timeout", "closed"} : x \in PacketConn!Outcomes \ {"canceled"}
        BY DEF PacketConn!Outcomes
      <4> QED BY <2>5, <4>1 DEF PacketConn!IOSucceeds, PacketConn!IOTimesOut, PacketConn!IOFails
    <3>2. PacketConn!TypeOK'
      BY <2>0, <3>1 DEF PacketConn!TypeOK, PacketConn!IOReturns
    <3>3. /\ p_pc[c] = "io" /\ p_pc'[c] = "detach"
          /\ \A b \in PacketCallers \ {c} : p_pc'[b] = p_pc[b] /\ p_io'[b] = p_io[b]
          /\ UNCHANGED <<p_ctx, p_held, p_open, p_deadline, func, p_closed, once, settable>>
      BY <2>0, <3>1 DEF PacketConn!TypeOK, PacketConn!IOReturns
    <3>4. PacketFuncs'
      BY <2>0, <3>3 DEF PacketFuncs
    <3>5. \A b \in PacketCallers : PHolds(b)' => PHolds(b)
      BY <3>3 DEF PHolds
    <3>6. PacketLocks' /\ PacketDeadlines'
      BY <2>0, <3>3, <3>5, <1>LocksStay, <1>DeadlinesStay
    <3> QED BY <1>PacketCall, <3>2, <3>3, <3>4, <3>6 DEF PacketInv
  <2> QED BY <1>PacketCall, <2>2, <2>3, <2>4, <2>5
(* The steps after it: the deadline is cleared once the function ended. *)
<1>PacketReturn. ASSUME PacketInv, NEW c \in PacketCallers,
                        PacketConn!Detach(c) \/ PacketConn!ClearDeadline(c) \/ PacketConn!Return(c)
                 PROVE  PacketInv'
  <2>0. PacketConn!TypeOK /\ PacketLocks /\ PacketFuncs /\ PacketDeadlines
    BY <1>PacketReturn DEF PacketInv
  <2>1. CASE PacketConn!Detach(c)
    <3>1. PacketConn!TypeOK'
      BY <2>0, <2>1 DEF PacketConn!TypeOK, PacketConn!Detach, PacketConn!Detached
    <3>2. /\ p_pc[c] = "detach" /\ p_pc'[c] = (IF func[c] = "armed" THEN "return" ELSE "wait")
          /\ func'[c] = (IF func[c] = "armed" THEN "none" ELSE func[c])
          /\ \A b \in PacketCallers \ {c} : p_pc'[b] = p_pc[b] /\ func'[b] = func[b]
          /\ UNCHANGED <<p_ctx, p_io, p_held, p_open, p_deadline, p_closed, once, settable>>
      BY <2>0, <2>1 DEF PacketConn!TypeOK, PacketConn!Detach, PacketConn!Detached
    <3>3. /\ p_pc'[c] \in {"return", "wait"} /\ (func'[c] # "none" => func'[c] = func[c] /\ p_pc'[c] = "wait")
          /\ func[c] = "ended" => func'[c] = "ended"
      BY <3>2
    <3>4. PacketFuncs'
      BY <2>0, <3>2, <3>3 DEF PacketFuncs
    <3>5. \A b \in PacketCallers : PHolds(b)' => PHolds(b)
      BY <3>2 DEF PHolds
    <3>6. \A b \in PacketCallers : func[b] = "ended" => func'[b] = "ended"
      BY <3>2, <3>3
    <3>7. PacketLocks' /\ PacketDeadlines'
      BY <2>0, <3>2, <3>5, <3>6, <1>LocksStay, <1>DeadlinesStay
    <3> QED BY <1>PacketReturn, <3>1, <3>2, <3>4, <3>7 DEF PacketInv
  <2>2. CASE PacketConn!ClearDeadline(c)
    <3>1. /\ p_pc[c] = "wait" /\ func[c] = "ended" /\ p_pc' = [p_pc EXCEPT ![c] = "return"]
          /\ func' = [func EXCEPT ![c] = "none"]
          /\ UNCHANGED <<p_ctx, p_io, p_result, p_held, p_open, p_closed, once, settable>>
      BY <2>0, <2>2 DEF PacketConn!TypeOK, PacketConn!ClearDeadline, PacketConn!FuncEnded
    <3>2. /\ p_deadline' = p_deadline \/ p_deadline' = [p_deadline EXCEPT !["write"] = "none"]
          /\ ~p_closed /\ settable => p_deadline' = [p_deadline EXCEPT !["write"] = "none"]
      <4>1. [x \in PacketCallers |-> "write"][c] = "write"
        OBVIOUS
      <4> QED BY <1>PacketReturn, <2>2, <4>1 DEF PacketInv, PacketConn!ClearDeadline
    <3>3. PacketConn!TypeOK'
      BY <2>0, <3>1, <3>2 DEF PacketConn!TypeOK
    <3>4. /\ p_pc'[c] = "return" /\ func'[c] = "none"
          /\ \A b \in PacketCallers \ {c} : p_pc'[b] = p_pc[b] /\ func'[b] = func[b]
      BY <2>0, <3>1 DEF PacketConn!TypeOK
    <3>5. /\ \A d \in PacketConn!Dirs : p_deadline'[d] = "old" => p_deadline[d] = "old"
          /\ ~p_closed /\ settable => p_deadline'["write"] # "old"
      BY <2>0, <3>2 DEF PacketConn!TypeOK, PacketConn!Dirs
    <3>6. PacketFuncs'
      BY <2>0, <3>1, <3>4 DEF PacketFuncs
    <3>7. PacketDeadlines'
      BY <2>0, <3>1, <3>5 DEF PacketDeadlines
    <3>8. \A b \in PacketCallers : PHolds(b)' => PHolds(b)
      BY <3>1, <3>4 DEF PHolds
    <3>9. PacketLocks'
      BY <2>0, <3>1, <3>8, <1>LocksStay
    <3> QED BY <1>PacketReturn, <3>1, <3>3, <3>6, <3>7, <3>9 DEF PacketInv
  <2>3. CASE PacketConn!Return(c)
    <3>1. PacketConn!CallResult(c) \in PacketConn!Outcomes
      BY <2>0 DEF PacketConn!TypeOK, PacketConn!CallResult, PacketConn!Outcomes
    <3>2. p_pc[c] = "return" /\ PacketConn!Returns(c, PacketConn!CallResult(c)) /\ UNCHANGED func
      BY <2>3 DEF PacketConn!Return
    <3>3. PHolds(c) /\ func[c] = "none"
      BY <2>0, <3>2 DEF PHolds, PacketFuncs
    <3> QED BY <1>PacketReturn, <3>1, <3>2, <3>3, <1>Returned
  <2> QED BY <1>PacketReturn, <2>1, <2>2, <2>3
(* The registered function runs only when its call is canceled. *)
<1>PacketFunc. ASSUME PacketInv, NEW c \in PacketCallers, PacketConn!FuncStep(c)
               PROVE  PacketInv'
  <2>0. PacketConn!TypeOK /\ PacketLocks /\ PacketFuncs /\ PacketDeadlines
    BY <1>PacketFunc DEF PacketInv
  <2>1. PICK next \in {"started", "closing", "ended"} :
          /\ func[c] \in {"armed", "started", "closing"} /\ (func[c] = "armed" => p_ctx[c])
          /\ func' = [func EXCEPT ![c] = next]
    <3>1. \A x \in {"started", "closing", "ended"} : \A y \in {"armed", "started", "closing"} :
            func[c] = y /\ (y = "armed" => p_ctx[c]) /\ func' = [func EXCEPT ![c] = x]
              => \E next \in {"started", "closing", "ended"} :
                   /\ func[c] \in {"armed", "started", "closing"} /\ (func[c] = "armed" => p_ctx[c])
                   /\ func' = [func EXCEPT ![c] = next]
      OBVIOUS
    <3> QED BY <3>1, <1>PacketFunc DEF PacketConn!FuncStep, PacketConn!FuncStarts, PacketConn!ExpireDeadline,
                                       PacketConn!DeadlineFails, PacketConn!Closes, PacketConn!FuncClosed
  <2>2. UNCHANGED <<p_pc, p_ctx, p_io, p_result, p_held, p_open, p_closed, once, settable>>
    BY <1>PacketFunc DEF PacketConn!FuncStep, PacketConn!FuncStarts, PacketConn!ExpireDeadline,
                         PacketConn!DeadlineFails, PacketConn!FuncClosed
  <2>3. \/ p_deadline' = p_deadline
        \/ settable /\ func'[c] = "ended" /\ p_deadline' = [p_deadline EXCEPT !["write"] = "old"]
    <3>1. [x \in PacketCallers |-> "write"][c] = "write"
      OBVIOUS
    <3> QED BY <1>PacketFunc, <2>0, <3>1 DEF PacketConn!TypeOK, PacketConn!FuncStep, PacketConn!FuncStarts,
                         PacketConn!ExpireDeadline, PacketConn!DeadlineFails, PacketConn!FuncClosed
  <2>4. /\ func'[c] = next /\ func[c] # "ended" /\ func[c] # "none"
        /\ \A b \in PacketCallers \ {c} : func'[b] = func[b]
    BY <2>0, <2>1 DEF PacketConn!TypeOK
  <2>5. PacketConn!TypeOK'
    <3>1. func' \in [PacketCallers -> {"none", "armed", "started", "closing", "ended"}]
      BY <2>0, <2>1 DEF PacketConn!TypeOK
    <3>2. p_deadline' \in [PacketConn!Dirs -> {"none", "user", "old"}]
      BY <2>0, <2>3 DEF PacketConn!TypeOK
    <3>3. p_pc[c] # "idle"
      BY <2>0, <2>4 DEF PacketConn!TypeOK
    <3> QED BY <2>0, <2>2, <2>4, <3>1, <3>2, <3>3 DEF PacketConn!TypeOK
  <2>6. PacketFuncs'
    <3>1. p_pc[c] \in {"io", "detach", "wait"} /\ p_ctx[c]
      BY <2>0, <2>1 DEF PacketFuncs
    <3> QED BY <2>0, <2>2, <2>4, <3>1 DEF PacketFuncs
  <2>7. PacketLocks'
    BY <2>0, <2>2 DEF PacketLocks, PHolds
  <2>8. PacketDeadlines'
    <3>1. \A b \in PacketCallers : func[b] = "ended" => func'[b] = "ended"
      BY <2>4
    <3>2. CASE p_deadline' = p_deadline
      BY <2>0, <2>2, <3>1, <3>2, <1>DeadlinesStay
    <3>3. CASE settable /\ func'[c] = "ended" /\ p_deadline' = [p_deadline EXCEPT !["write"] = "old"]
      <4>1. \A d \in PacketConn!Dirs : d # "write" => p_deadline'[d] = p_deadline[d]
        BY <2>0, <3>3 DEF PacketConn!TypeOK
      <4> QED BY <2>0, <2>2, <3>1, <3>3, <4>1 DEF PacketDeadlines
    <3> QED BY <2>3, <3>2, <3>3
  <2> QED BY <1>PacketFunc, <2>2, <2>5, <2>6, <2>7, <2>8 DEF PacketInv
(* Every step of a packet connection keeps its invariant. *)
<1>PacketStep. PacketInv /\ [PacketConn!Next]_pac => PacketInv'
  <2> SUFFICES ASSUME PacketInv, [PacketConn!Next]_pac
               PROVE  PacketInv'
    OBVIOUS
  <2>1. CASE UNCHANGED pac
    <3>0. PacketConn!TypeOK /\ PacketLocks /\ PacketFuncs /\ PacketDeadlines
      BY DEF PacketInv
    <3>1. UNCHANGED <<p_pc, p_ctx, p_io, p_result, p_held, p_open, p_deadline, func, p_closed, once, settable>>
      BY <2>1 DEF pac
    <3>2. PacketConn!TypeOK'
      BY <3>0, <3>1 DEF PacketConn!TypeOK
    <3>3. PacketLocks' /\ PacketFuncs'
      BY <3>0, <3>1 DEF PacketLocks, PHolds, PacketFuncs
    <3>4. PacketDeadlines'
      BY <3>0, <3>1, <1>DeadlinesStay
    <3> QED BY <3>1, <3>2, <3>3, <3>4 DEF PacketInv
  <2> QED BY <2>1, <1>PacketUser, <1>PacketClose, <1>PacketCall, <1>PacketReturn, <1>PacketFunc
          DEF PacketConn!Next, PacketConn!CallStep
(* No step of a packet connection clears a deadline of the user except for *)
(* a call that was canceled, and a call whose write went through reports   *)
(* that.                                                                   *)
<1>PacketHonest. PacketInv /\ [PacketConn!Next]_pac => PacketConn!UserDeadlineKept /\ PacketConn!ProgressKept
  <2> SUFFICES ASSUME PacketInv, [PacketConn!Next]_pac
               PROVE  PacketConn!UserDeadlineKept /\ PacketConn!ProgressKept
    OBVIOUS
  <2>1. PacketConn!UserDeadlineKept
    <3> SUFFICES ASSUME NEW d \in PacketConn!Dirs, p_deadline[d] = "user", p_deadline'[d] # "user"
                 PROVE  \E c \in PacketCallers :
                          [x \in PacketCallers |-> "write"][c] = d /\ p_ctx[c] /\ p_pc[c] # "idle"
      BY DEF PacketConn!UserDeadlineKept
    <3>1. PICK c \in PacketCallers : PacketConn!ExpireDeadline(c) \/ PacketConn!ClearDeadline(c)
      BY Zenon DEF PacketInv, PacketConn!TypeOK, PacketConn!Next, PacketConn!CallStep, PacketConn!FuncStep,
             PacketConn!Call, PacketConn!Cancel, PacketConn!UserSetsDeadline, PacketConn!Lock,
             PacketConn!Check, PacketConn!Returns, PacketConn!WriteToNonBlock, PacketConn!IOSucceeds,
             PacketConn!IOTimesOut, PacketConn!IOFails, PacketConn!IOReturns, PacketConn!Detach,
             PacketConn!Return, PacketConn!FuncStarts, PacketConn!DeadlineFails,
             PacketConn!FuncClosed, PacketConn!Close, PacketConn!CloseNext, pac
    <3>2. func[c] \in {"started", "ended"} /\ \A e \in PacketConn!Dirs : e # "write" => p_deadline'[e] = p_deadline[e]
      <4>1. [x \in PacketCallers |-> "write"][c] = "write"
        OBVIOUS
      <4> QED BY <3>1, <4>1 DEF PacketInv, PacketConn!TypeOK, PacketConn!ExpireDeadline,
                                PacketConn!ClearDeadline, PacketConn!FuncEnded
    <3>3. p_ctx[c] /\ p_pc[c] # "idle"
      BY <3>2 DEF PacketInv, PacketFuncs
    <3> QED BY <3>2, <3>3
  <2>2. PacketConn!ProgressKept
    <3> SUFFICES ASSUME NEW c \in PacketCallers, p_io[c] = "data", p_pc[c] # "idle", p_pc'[c] = "idle"
                 PROVE  p_result'[c] = "data"
      BY DEF PacketConn!ProgressKept
    <3>1. PICK b \in PacketCallers :
            \/ PacketConn!Call(b) \/ PacketConn!Lock(b) \/ PacketConn!Detach(b) \/ PacketConn!ClearDeadline(b)
            \/ \E outcome : PacketConn!IOReturns(b, outcome)
            \/ PacketConn!Check(b) \/ PacketConn!WriteToNonBlock(b) \/ PacketConn!Return(b)
      BY Zenon DEF PacketConn!Next, PacketConn!CallStep, PacketConn!FuncStep, PacketConn!Cancel,
             PacketConn!UserSetsDeadline, PacketConn!IOSucceeds, PacketConn!IOTimesOut,
             PacketConn!IOFails, PacketConn!FuncStarts, PacketConn!ExpireDeadline,
             PacketConn!DeadlineFails, PacketConn!FuncClosed, PacketConn!Close, PacketConn!CloseNext, pac
    <3>2. \A b1 \in PacketCallers : \A v : p_pc' = [p_pc EXCEPT ![b1] = v] => b1 = c /\ v = "idle"
      BY DEF PacketInv, PacketConn!TypeOK
    <3>3. PacketConn!Check(b) \/ PacketConn!WriteToNonBlock(b) \/ PacketConn!Return(b)
      BY SMTT(30), <3>1, <3>2 DEF PacketConn!Call, PacketConn!Lock, PacketConn!Detach, PacketConn!ClearDeadline,
                        PacketConn!IOReturns
    <3>4. b = c
      BY <3>2, <3>3 DEF PacketConn!Check, PacketConn!Returns, PacketConn!WriteToNonBlock, PacketConn!Return
    <3>5. p_io[c] # "none" /\ p_pc[c] # "check"
      BY DEF PacketInv, PacketFuncs
    <3>6. PacketConn!Returns(c, PacketConn!CallResult(c))
      BY <3>3, <3>4, <3>5 DEF PacketConn!Check, PacketConn!WriteToNonBlock, PacketConn!Return
    <3>7. PacketConn!CallResult(c) = "data"
      BY DEF PacketConn!CallResult
    <3> QED BY <3>6, <3>7 DEF PacketInv, PacketConn!TypeOK, PacketConn!Returns
  <2> QED BY <2>1, <2>2
<1> QED BY <1>InitPacketInv, <1>PacketStep, <1>PacketHonest

-----------------------------------------------------------------------------

(* Sequences of numbers: their elements, and whether they increase or      *)
(* differ.                                                                 *)
Elems(s) == {s[i] : i \in 1..Len(s)}
Rises(s) == \A i, j \in 1..Len(s) : i < j => s[i] < s[j]
Distinct(s) == \A i, j \in 1..Len(s) : s[i] = s[j] => i = j

(* A sequence of the numbers of packets or messages is one of numbers. *)
LEMMA Numbers ==
  ASSUME NEW m \in Nat, NEW s \in Seq(1..m)
  PROVE  s \in Seq(Nat) /\ Elems(s) \subseteq 1..m /\ DOMAIN s = 1..Len(s) /\ Len(s) \in Nat
<1>1. \A i \in 1..Len(s) : s[i] \in 1..m
  BY SMT
<1>2. s \in [1..Len(s) -> Nat] /\ Len(s) \in Nat
  BY <1>1, SMT
<1> QED BY <1>1, <1>2, SMT DEF Elems

(* A sequence u that is s and then t. *)
LEMMA Parts ==
  ASSUME NEW s \in Seq(Nat), NEW t \in Seq(Nat), NEW u \in Seq(Nat),
         Len(u) = Len(s) + Len(t),
         \A i \in 1..Len(s) : u[i] = s[i],
         \A j \in 1..Len(t) : u[Len(s) + j] = t[j]
  PROVE  /\ Elems(u) = Elems(s) \cup Elems(t)
         /\ Rises(u) <=> Rises(s) /\ Rises(t) /\ \A x \in Elems(s), y \in Elems(t) : x < y
         /\ Distinct(u) <=> Distinct(s) /\ Distinct(t) /\ Elems(s) \cap Elems(t) = {}
<1>0. PICK k \in Nat, l \in Nat : k = Len(s) /\ l = Len(t)
  BY SMT
<1>1. /\ Len(u) = k + l
      /\ \A i \in 1..k : u[i] = s[i] /\ s[i] \in Nat
      /\ \A j \in 1..l : u[k + j] = t[j] /\ t[j] \in Nat
  BY <1>0, SMTT(30)
<1> USE <1>0, <1>1
<1>2. \A i \in 1..(k + l) : i \in 1..k \/ (i - k \in 1..l /\ u[i] = t[i - k])
  <2>1. \A i \in 1..(k + l) : i \in 1..k \/ (i - k \in 1..l /\ i = k + (i - k))
    BY SMT
  <2> QED BY <2>1, Zenon
<1>3. \A j \in 1..l : k + j \in 1..(k + l)
  BY SMT
<1>4. \A i \in 1..k : i \in 1..(k + l)
  BY SMT
<1>5. Elems(u) = Elems(s) \cup Elems(t)
  <2>1. \A i \in 1..k : s[i] \in Elems(s) /\ s[i] \in Elems(u)
    BY <1>4 DEF Elems
  <2>2. \A j \in 1..l : u[k + j] \in Elems(u)
    BY <1>3, Zenon DEF Elems
  <2>3. \A j \in 1..l : t[j] \in Elems(t) /\ t[j] \in Elems(u)
    BY <2>2 DEF Elems
  <2>4. \A i \in 1..(k + l) : u[i] \in Elems(s) \cup Elems(t)
    BY <2>1, <2>3, <1>2, Zenon
  <2>5. Elems(u) \subseteq Elems(s) \cup Elems(t)
    BY <2>4, Zenon DEF Elems
  <2>6. Elems(s) \subseteq Elems(u)
    BY <2>1, Zenon DEF Elems
  <2>7. Elems(t) \subseteq Elems(u)
    BY <2>3 DEF Elems
  <2> QED BY <2>5, <2>6, <2>7
<1>6. ASSUME Rises(u)
      PROVE  Rises(s) /\ Rises(t) /\ \A x \in Elems(s), y \in Elems(t) : x < y
  <2>1. Rises(s)
    BY <1>6, <1>4 DEF Rises
  <2>2. ASSUME NEW i \in 1..l, NEW j \in 1..l, i < j
        PROVE  t[i] < t[j]
    <3>1. k + i < k + j /\ k + i \in 1..Len(u) /\ k + j \in 1..Len(u)
      BY <2>2, <1>3, SMT
    <3> QED BY <3>1, <1>6, Zenon DEF Rises
  <2>3. ASSUME NEW i \in 1..k, NEW j \in 1..l
        PROVE  s[i] < t[j]
    <3>1. i < k + j /\ i \in 1..Len(u) /\ k + j \in 1..Len(u)
      BY <1>3, <1>4, SMT
    <3> QED BY <3>1, <1>6 DEF Rises
  <2> QED BY <2>1, <2>2, <2>3 DEF Elems, Rises
<1>7. ASSUME Rises(s), Rises(t), \A x \in Elems(s), y \in Elems(t) : x < y
      PROVE  Rises(u)
  <2> SUFFICES ASSUME NEW i \in 1..(k + l), NEW j \in 1..(k + l), i < j
               PROVE  u[i] < u[j]
    BY DEF Rises
  <2>1. CASE j \in 1..k
    <3>1. i \in 1..k
      BY <2>1, SMT
    <3> QED BY <2>1, <3>1, <1>7 DEF Rises
  <2>2. CASE i \notin 1..k
    <3>1. i - k \in 1..l /\ j - k \in 1..l /\ i - k < j - k /\ j \notin 1..k
      BY <2>2, SMT
    <3>2. u[i] = t[i - k] /\ u[j] = t[j - k]
      BY <2>2, <3>1, <1>2
    <3> QED BY <3>1, <3>2, <1>7, Zenon DEF Rises
  <2>3. CASE i \in 1..k /\ j \notin 1..k
    <3>1. j - k \in 1..l /\ u[j] = t[j - k]
      BY <2>3, <1>2
    <3>2. s[i] \in Elems(s) /\ t[j - k] \in Elems(t)
      BY <2>3, <3>1, Zenon DEF Elems
    <3> QED BY <2>3, <3>1, <3>2, <1>7, Zenon
  <2> QED BY <2>1, <2>2, <2>3
<1>8. ASSUME Distinct(u)
      PROVE  Distinct(s) /\ Distinct(t) /\ Elems(s) \cap Elems(t) = {}
  <2>1. Distinct(s)
    BY <1>8, <1>4 DEF Distinct
  <2>2. ASSUME NEW i \in 1..l, NEW j \in 1..l, t[i] = t[j]
        PROVE  i = j
    <3>1. k + i \in 1..Len(u) /\ k + j \in 1..Len(u) /\ u[k + i] = u[k + j]
      BY <2>2, <1>3, Zenon
    <3>2. k + i = k + j
      BY <3>1, <1>8, Zenon DEF Distinct
    <3> QED BY <3>2, SMT
  <2>3. ASSUME NEW i \in 1..k, NEW j \in 1..l
        PROVE  s[i] # t[j]
    <3>1. i # k + j /\ i \in 1..Len(u) /\ k + j \in 1..Len(u)
      BY <1>3, <1>4, SMT
    <3> QED BY <3>1, <1>8 DEF Distinct
  <2>4. Distinct(t)
    BY <2>2 DEF Distinct
  <2>5. ASSUME NEW x \in Elems(s), x \in Elems(t)
        PROVE  FALSE
    <3>1. PICK i \in 1..k : x = s[i]
      BY DEF Elems
    <3>2. PICK j \in 1..l : x = t[j]
      BY <2>5 DEF Elems
    <3> QED BY <2>3, <3>1, <3>2
  <2> QED BY <2>1, <2>4, <2>5
<1>9. ASSUME Distinct(s), Distinct(t), Elems(s) \cap Elems(t) = {}
      PROVE  Distinct(u)
  <2> SUFFICES ASSUME NEW i \in 1..(k + l), NEW j \in 1..(k + l), u[i] = u[j]
               PROVE  i = j
    BY DEF Distinct
  <2>0. \A x \in 1..k, y \in 1..l : s[x] # t[y]
    <3>1. (\A x \in 1..k : s[x] \in Elems(s)) /\ \A y \in 1..l : t[y] \in Elems(t)
      BY DEF Elems
    <3> QED BY <1>9, <3>1, Zenon
  <2>1. CASE i \in 1..k /\ j \in 1..k
    BY <2>1, <1>9 DEF Distinct
  <2>2. CASE i \notin 1..k /\ j \notin 1..k
    <3>1. i - k \in 1..l /\ j - k \in 1..l /\ t[i - k] = t[j - k]
      BY <2>2, <1>2
    <3>2. i - k = j - k
      BY <3>1, <1>9, Zenon DEF Distinct
    <3> QED BY <3>2, SMT
  <2>3. CASE i \in 1..k /\ j \notin 1..k
    <3>1. j - k \in 1..l /\ u[j] = t[j - k] /\ u[i] = s[i]
      BY <2>3, <1>2
    <3> QED BY <2>0, <2>3, <3>1, Zenon
  <2>4. CASE i \notin 1..k /\ j \in 1..k
    <3>1. i - k \in 1..l /\ u[i] = t[i - k] /\ u[j] = s[j]
      BY <2>4, <1>2
    <3> QED BY <2>0, <2>4, <3>1, Zenon
  <2> QED BY <2>1, <2>2, <2>3, <2>4
<1> QED BY <1>5, <1>6, <1>7, <1>8, <1>9

(* One sequence and then another, as \o makes them. *)
LEMMA Joined ==
  ASSUME NEW s \in Seq(Nat), NEW t \in Seq(Nat)
  PROVE  /\ s \o t \in Seq(Nat)
         /\ Elems(s \o t) = Elems(s) \cup Elems(t)
         /\ Rises(s \o t) <=> Rises(s) /\ Rises(t) /\ \A x \in Elems(s), y \in Elems(t) : x < y
         /\ Distinct(s \o t) <=> Distinct(s) /\ Distinct(t) /\ Elems(s) \cap Elems(t) = {}
<1>1. s \o t \in Seq(Nat)
  BY SMT
<1>2. /\ Len(s \o t) = Len(s) + Len(t)
      /\ \A i \in 1..Len(s) : (s \o t)[i] = s[i]
      /\ \A j \in 1..Len(t) : (s \o t)[Len(s) + j] = t[j]
  BY SMT
<1> QED BY <1>1, <1>2, Parts, Zenon

(* A sequence of one number. *)
LEMMA Single == ASSUME NEW x \in Nat
                PROVE  /\ <<x>> \in Seq(Nat) /\ Elems(<<x>>) = {x}
                       /\ Rises(<<x>>) /\ Distinct(<<x>>)
<1>1. <<x>> \in Seq(Nat) /\ Len(<<x>>) = 1 /\ <<x>>[1] = x
  BY SMT
<1>2. \A i \in 1..Len(<<x>>) : i = 1
  BY <1>1, SMT
<1> QED BY <1>1, <1>2, SMT DEF Elems, Rises, Distinct

(* A number at the end, as Append puts a packet into a queue. *)
LEMMA Appended ==
  ASSUME NEW s \in Seq(Nat), NEW x \in Nat
  PROVE  /\ Append(s, x) \in Seq(Nat)
         /\ Elems(Append(s, x)) = Elems(s) \cup {x}
         /\ Rises(Append(s, x)) <=> Rises(s) /\ \A y \in Elems(s) : y < x
         /\ Distinct(Append(s, x)) <=> Distinct(s) /\ x \notin Elems(s)
<1>1. Append(s, x) = s \o <<x>> /\ Append(s, x) \in Seq(Nat)
  BY SMT
<1>2. /\ Elems(s \o <<x>>) = Elems(s) \cup Elems(<<x>>)
      /\ Rises(s \o <<x>>) <=> /\ Rises(s) /\ Rises(<<x>>)
                              /\ \A y \in Elems(s), z \in Elems(<<x>>) : y < z
      /\ Distinct(s \o <<x>>) <=> Distinct(s) /\ Distinct(<<x>>) /\ Elems(s) \cap Elems(<<x>>) = {}
  BY Joined, Single, Zenon
<1>3. Elems(<<x>>) = {x} /\ Rises(<<x>>) /\ Distinct(<<x>>)
  BY Single
<1> QED BY <1>1, <1>2, <1>3, Zenon

(* A number at the head, as a channel or a queue gives up its oldest. *)
LEMMA Taken ==
  ASSUME NEW s \in Seq(Nat), s # <<>>
  PROVE  /\ Head(s) \in Nat /\ Tail(s) \in Seq(Nat)
         /\ Elems(s) = {Head(s)} \cup Elems(Tail(s))
         /\ Rises(s) <=> Rises(Tail(s)) /\ \A y \in Elems(Tail(s)) : Head(s) < y
         /\ Distinct(s) <=> Distinct(Tail(s)) /\ Head(s) \notin Elems(Tail(s))
<1>1. Head(s) \in Nat /\ Tail(s) \in Seq(Nat)
  BY SMT
<1>2. /\ Len(s) = Len(<<Head(s)>>) + Len(Tail(s))
      /\ \A i \in 1..Len(<<Head(s)>>) : s[i] = <<Head(s)>>[i]
      /\ \A j \in 1..Len(Tail(s)) : s[Len(<<Head(s)>>) + j] = Tail(s)[j]
  BY SMT
<1>3. PICK h \in Seq(Nat) : h = <<Head(s)>>
  BY <1>1, Single, Zenon
<1>4. /\ Elems(s) = Elems(h) \cup Elems(Tail(s))
      /\ Rises(s) <=> /\ Rises(h) /\ Rises(Tail(s))
                      /\ \A y \in Elems(h), z \in Elems(Tail(s)) : y < z
      /\ Distinct(s) <=> Distinct(h) /\ Distinct(Tail(s)) /\ Elems(h) \cap Elems(Tail(s)) = {}
  BY <1>1, <1>2, <1>3, Parts, Zenon
<1>5. Elems(h) = {Head(s)} /\ Rises(h) /\ Distinct(h)
  BY <1>1, <1>3, Single
<1> QED BY <1>1, <1>4, <1>5, Zenon

(* What is left of a sequence without its first k numbers. *)
LEMMA Suffix ==
  ASSUME NEW s \in Seq(Nat), NEW k \in 0..Len(s)
  PROVE  LET r == SubSeq(s, k + 1, Len(s))
         IN  r \in Seq(Nat) /\ Len(r) = Len(s) - k /\ \A i \in 1..(Len(s) - k) : r[i] = s[k + i]
<1>1. Len(s) \in Nat /\ k \in Nat /\ k <= Len(s) /\ \A i \in 1..Len(s) : s[i] \in Nat
  BY SMT
<1> QED BY <1>1, SMT

(* What a second FlushSome or a Drop leaves of what was left before it. *)
LEMMA SuffixOfSuffix ==
  ASSUME NEW s \in Seq(Nat), NEW k \in 0..Len(s), NEW n \in 0..(Len(s) - k)
  PROVE  LET r == SubSeq(s, k + 1, Len(s))
         IN  SubSeq(r, n + 1, Len(r)) = SubSeq(s, (k + n) + 1, Len(s))
<1>1. Len(s) \in Nat /\ k \in Nat /\ n \in Nat /\ k + n \in 0..Len(s)
  BY SMT
<1>2. PICK l \in Nat, m \in Nat : l = Len(s) /\ m = k + n
  BY <1>1, SMT
<1>3. PICK r \in Seq(Nat) : /\ r = SubSeq(s, k + 1, l) /\ Len(r) = l - k
                            /\ \A i \in 1..(l - k) : r[i] = s[k + i]
  BY <1>2, Suffix, Zenon
<1>a. n \in 0..Len(r)
  BY <1>2, <1>3
<1>b. PICK q \in Seq(Nat) : /\ q = SubSeq(r, n + 1, Len(r)) /\ Len(q) = Len(r) - n
                            /\ \A i \in 1..(Len(r) - n) : q[i] = r[n + i]
  BY <1>a, Suffix, Zenon
<1>4. Len(q) = l - k - n /\ \A i \in 1..(l - k - n) : q[i] = r[n + i]
  BY <1>3, <1>b
<1>5. PICK z \in Seq(Nat) : /\ z = SubSeq(s, m + 1, l) /\ Len(z) = l - m
                            /\ \A i \in 1..(l - m) : z[i] = s[m + i]
  BY <1>1, <1>2, Suffix, Zenon
<1>6. l - m = l - k - n /\ \A i \in 1..(l - m) : n + i \in 1..(l - k) /\ k + (n + i) = m + i
  BY <1>1, <1>2, SMT
<1>7. \A i \in 1..(l - m) : q[i] = z[i]
  BY <1>3, <1>4, <1>5, <1>6, Zenon
<1>8. q \in [1..(l - m) -> Nat] /\ z \in [1..(l - m) -> Nat]
  <2>1. \A x \in Seq(Nat) : x \in [1..Len(x) -> Nat]
    BY SMT
  <2>2. Len(q) = l - m /\ Len(z) = l - m
    BY <1>4, <1>5, <1>6, Zenon
  <2> QED BY <2>1, <2>2, Zenon
<1>9. q = z
  BY <1>7, <1>8, SMT
<1> QED BY <1>2, <1>3, <1>b, <1>5, <1>9, Zenon

(* The first k numbers and the rest. *)
LEMMA Split ==
  ASSUME NEW s \in Seq(Nat), NEW k \in 0..Len(s)
  PROVE  LET f == SubSeq(s, 1, k)
             r == SubSeq(s, k + 1, Len(s))
         IN  /\ f \in Seq(Nat) /\ r \in Seq(Nat) /\ Len(r) = Len(s) - k
             /\ Elems(s) = Elems(f) \cup Elems(r)
             /\ Rises(s) <=> Rises(f) /\ Rises(r) /\ \A x \in Elems(f), y \in Elems(r) : x < y
             /\ Distinct(s) <=> Distinct(f) /\ Distinct(r) /\ Elems(f) \cap Elems(r) = {}
<1>0. Len(s) \in Nat /\ k \in Nat /\ k <= Len(s) /\ \A i \in 1..Len(s) : s[i] \in Nat
  BY SMT
<1>f. PICK f : f = SubSeq(s, 1, k)
  BY Zenon
<1>r. PICK r : r = SubSeq(s, k + 1, Len(s))
  BY Zenon
<1>1. f \in Seq(Nat) /\ Len(f) = k /\ \A i \in 1..k : f[i] = s[i]
  BY <1>0, <1>f, SMT
<1>2. r \in Seq(Nat) /\ Len(r) = Len(s) - k /\ \A i \in 1..(Len(s) - k) : r[i] = s[k + i]
  BY <1>r, Suffix
<1>a. Len(s) = Len(f) + Len(r)
  BY <1>0, <1>1, <1>2, SMT
<1>b. \A i \in 1..Len(f) : s[i] = f[i]
  BY <1>1, Zenon
<1>c. \A j \in 1..Len(r) : s[Len(f) + j] = r[j]
  BY <1>1, <1>2, Zenon
<1>4. /\ Elems(s) = Elems(f) \cup Elems(r)
      /\ Rises(s) <=> Rises(f) /\ Rises(r) /\ \A x \in Elems(f), y \in Elems(r) : x < y
      /\ Distinct(s) <=> Distinct(f) /\ Distinct(r) /\ Elems(f) \cap Elems(r) = {}
  BY <1>1, <1>2, <1>a, <1>b, <1>c, Parts, Zenon
<1> QED BY <1>f, <1>r, <1>1, <1>2, <1>4, Zenon

(* A reversed queue or stack holds the same packets. *)
LEMMA Turned ==
  ASSUME NEW s \in Seq(Nat)
  PROVE  /\ Br!Reversed(s) \in Seq(Nat) /\ Elems(Br!Reversed(s)) = Elems(s)
         /\ Br!Reversed(s) # <<>> <=> s # <<>>
         /\ Distinct(s) => Distinct(Br!Reversed(s))
<1>1. PICK l \in Nat : l = Len(s)
  BY SMT
<1>r. Br!Reversed(s) \in Seq(Nat) /\ Len(Br!Reversed(s)) = l
      /\ \A i \in 1..l : Br!Reversed(s)[i] = s[(l + 1) - i]
  <2>1. \A i \in 1..l : s[(l + 1) - i] \in Nat
    BY <1>1, SMT
  <2> QED BY <1>1, <2>1, SMT DEF Br!Reversed
<1>2. PICK r \in Seq(Nat) : r = Br!Reversed(s) /\ Len(r) = l /\ \A i \in 1..l : r[i] = s[(l + 1) - i]
  BY <1>r, Zenon
<1>3. \A i \in 1..l : (l + 1) - i \in 1..l /\ (l + 1) - ((l + 1) - i) = i
  BY <1>1, SMT
<1>4. Elems(r) = Elems(s)
  <2>1. \A i \in 1..l : r[i] \in Elems(s)
    BY <1>1, <1>2, <1>3 DEF Elems
  <2>2. \A i \in 1..l : s[i] = r[(l + 1) - i]
    BY <1>2, <1>3, SMT
  <2>3. \A i \in 1..l : s[i] \in Elems(r)
    BY <2>2, <1>2, <1>3, SMT DEF Elems
  <2> QED BY <2>1, <2>3, <1>1, <1>2, Zenon DEF Elems
<1>5. Distinct(s) => Distinct(r)
  <2> SUFFICES ASSUME Distinct(s), NEW i \in 1..l, NEW j \in 1..l, r[i] = r[j]
               PROVE  i = j
    BY <1>2 DEF Distinct
  <2>1. (l + 1) - i = (l + 1) - j
    BY <1>1, <1>2, <1>3, Zenon DEF Distinct
  <2> QED BY <2>1, <1>3
<1>6. r # <<>> <=> s # <<>>
  BY <1>1, <1>2, SMT
<1> QED BY <1>2, <1>4, <1>5, <1>6

-----------------------------------------------------------------------------
(* The pipe.  The writer has written the packets 1 to n; what the reader   *)
(* has and what waits in its channel, in this order, are those no timed-   *)
(* out Write discarded, in increasing order.  A call that began after      *)
(* Close is never in the select that transfers a packet.                   *)
PipeOrder(n) ==
  /\ written[0] = 1..n /\ written[1] = {} /\ dropped \subseteq 1..n
  /\ ch[0] = <<>> /\ got[0] = <<>>
  /\ Rises(got[1]) /\ Rises(ch[1]) /\ \A x \in Elems(got[1]), y \in Elems(ch[1]) : x < y
  /\ Elems(got[1]) \cup Elems(ch[1]) = (1..n) \ dropped
LateInv == \A k \in late : k[1] \in d_closed /\ d_pc[k] # "select"
PipeInv == /\ Pipe!TypeOK /\ LateInv
           /\ \E n \in 0..MaxPackets : PipeOrder(n)

(* What every step of a pipe keeps, and what none does. *)
LEMMA PipeKept ==
  /\ Pipe!Init => PipeInv
  /\ PipeInv /\ [Pipe!Next]_pip => PipeInv' /\ Pipe!ClosedIsSilent /\ Pipe!CloseIsLocal
  /\ PipeInv => Pipe!InOrder
(* The pipe's calls are those of the reader at end 1 and the writer at end 0. *)
<1>PipeCalls. /\ Pipe!Calls = {<<1, "read">>, <<0, "write">>} /\ Pipe!Ends = {0, 1}
              /\ Pipe!Other(0) = 1 /\ Pipe!Other(1) = 0
  BY SMT DEF Pipe!Calls, Pipe!Ends, Pipe!Other
(* Pipe(). *)
<1>InitPipeInv. Pipe!Init => PipeInv
  <2> SUFFICES ASSUME Pipe!Init
               PROVE  PipeInv
    OBVIOUS
  <2>1. Pipe!TypeOK
    BY NetConnsAssumption, SMT DEF Pipe!Init, Pipe!TypeOK, Pipe!Ends
  <2>2. Elems(<<>>) = {} /\ Rises(<<>>) /\ 1..0 = {}
    BY SMT DEF Elems, Rises
  <2>3. 0 \in 0..MaxPackets /\ PipeOrder(0)
    BY <2>2, NetConnsAssumption, SMT DEF Pipe!Init, PipeOrder, Pipe!Ends
  <2> QED BY <2>1, <2>3 DEF Pipe!Init, PipeInv, LateInv
(* The steps that move no packet. *)
<1>PipeQuiet. ASSUME PipeInv,
                     \/ \E k \in Pipe!Calls : Pipe!Call(k) \/ Pipe!CallStep(k) \/ Pipe!DeadlinePasses(k) \/ Pipe!SetDeadline(k)
                     \/ \E e \in Pipe!Ends : Pipe!Close(e)
                     \/ UNCHANGED pip
              PROVE  PipeInv'
  <2> USE <1>PipeQuiet
  <2>1. PICK n \in 0..MaxPackets : PipeOrder(n)
    BY DEF PipeInv
  <2>2. UNCHANGED <<ch, written, got, dropped>>
    BY Zenon DEF Pipe!Call, Pipe!CallStep, Pipe!DeadlinePasses, Pipe!SetDeadline, Pipe!Close, Pipe!Check,
           Pipe!CheckPast, Pipe!ReturnClosed, Pipe!ReturnTimeout, pip
  <2>3. PipeOrder(n)'
    BY <2>1, <2>2, Zenon DEF PipeOrder
  <2>4. Pipe!TypeOK' /\ LateInv'
    <3>1. Pipe!TypeOK /\ LateInv
      BY DEF PipeInv
    <3>2. CASE \E k \in Pipe!Calls : Pipe!Call(k) \/ Pipe!CallStep(k)
      <4>1. PICK k \in Pipe!Calls : Pipe!Call(k) \/ Pipe!CallStep(k)
        BY SMTT(30), <3>2
      <4>2. CASE Pipe!Call(k)
        BY <4>2, <3>1, <2>2 DEF Pipe!TypeOK, LateInv, Pipe!Call
      <4>3. CASE Pipe!CallStep(k)
        BY <4>1, <4>3, <3>1, <2>2, Zenon DEF Pipe!TypeOK, LateInv, Pipe!CallStep, Pipe!Check, Pipe!MayWait,
           Pipe!CheckPast, Pipe!ReturnClosed, Pipe!ReturnTimeout, Pipe!AfterTimeout
      <4> QED BY <4>1, <4>2, <4>3
    <3>3. CASE \E k \in Pipe!Calls : Pipe!DeadlinePasses(k) \/ Pipe!SetDeadline(k)
      BY <3>3, <3>1, <2>2 DEF Pipe!TypeOK, LateInv, Pipe!DeadlinePasses, Pipe!SetDeadline, Pipe!HitWaiting
    <3>4. CASE (\E e \in Pipe!Ends : Pipe!Close(e)) \/ UNCHANGED pip
      BY <3>4, <3>1, <2>2 DEF Pipe!TypeOK, LateInv, Pipe!Close, pip
    <3> QED BY <3>2, <3>3, <3>4
  <2> QED BY <2>1, <2>3, <2>4 DEF PipeInv
(* The sequences of the pipe are sequences of numbers. *)
<1>PipeTyped. ASSUME PipeInv
              PROVE  /\ got[1] \in Seq(Pipe!Packets) /\ ch[1] \in Seq(Pipe!Packets)
                     /\ got[1] \in Seq(Nat) /\ ch[1] \in Seq(Nat) /\ Pipe!Packets = 1..MaxPackets
  <2> USE <1>PipeTyped
  <2>1. got[1] \in Seq(1..MaxPackets) /\ ch[1] \in Seq(1..MaxPackets)
    BY <1>PipeCalls DEF PipeInv, Pipe!TypeOK, Pipe!Packets
  <2> QED BY <2>1, Numbers, NetConnsAssumption DEF Pipe!Packets
(* Receive: the oldest packet goes to the reader. *)
<1>PipeReceive. ASSUME PipeInv, Pipe!Receive(1)
                PROVE  PipeInv'
  <2> USE <1>PipeReceive
  <2>1. PICK n \in 0..MaxPackets : PipeOrder(n)
    BY DEF PipeInv
  <2>a. /\ ch[1] # <<>> /\ ch[1] \in Seq(Pipe!Packets)
    BY <1>PipeTyped DEF Pipe!Receive
  <2>b. /\ Head(ch[1]) \in Pipe!Packets /\ Tail(ch[1]) \in Seq(Pipe!Packets)
        /\ Len(Tail(ch[1])) <= Len(ch[1]) /\ Len(Tail(ch[1])) \in Nat /\ Len(ch[1]) \in Nat
    BY <2>a, SMT
  <2>2. PICK h \in Pipe!Packets, t \in Seq(Pipe!Packets) :
          /\ h = Head(ch[1]) /\ t = Tail(ch[1]) /\ ch[1] # <<>> /\ Len(t) <= Len(ch[1])
          /\ Len(t) \in Nat /\ Len(ch[1]) \in Nat
    BY <2>a, <2>b, Zenon
  <2>3. /\ got' = [got EXCEPT ![1] = Append(@, h)] /\ ch' = [ch EXCEPT ![1] = t]
        /\ got \in [{0, 1} -> Seq(Pipe!Packets)] /\ ch \in [{0, 1} -> Seq(Pipe!Packets)]
        /\ d_pc' = [d_pc EXCEPT ![<<1, "read">>] = "idle"]
        /\ UNCHANGED <<d_closed, past, hit, late, written, dropped>>
    BY <2>2, <1>PipeCalls DEF PipeInv, Pipe!TypeOK, Pipe!Receive, Pipe!Oldest
  <2>4. got'[1] = Append(got[1], h) /\ ch'[1] = t /\ got'[0] = got[0] /\ ch'[0] = ch[0]
    BY SMTT(30), <2>3
  <2>5. /\ Elems(got'[1]) = Elems(got[1]) \cup {h}
        /\ Rises(got'[1]) <=> Rises(got[1]) /\ \A y \in Elems(got[1]) : y < h
    BY SMTT(30), <2>2, <2>4, Appended, <1>PipeTyped
  <2>6. /\ Elems(ch[1]) = {h} \cup Elems(ch'[1])
        /\ Rises(ch[1]) <=> Rises(ch'[1]) /\ \A y \in Elems(ch'[1]) : h < y
    BY <2>2, <2>4, Taken, <1>PipeTyped, SMT
  <2>7. PipeOrder(n)'
    <3>1. /\ Rises(got[1]) /\ Rises(ch[1]) /\ \A x \in Elems(got[1]), y \in Elems(ch[1]) : x < y
          /\ Elems(got[1]) \cup Elems(ch[1]) = (1..n) \ dropped
      BY <2>1 DEF PipeOrder
    <3>2. Rises(got'[1]) /\ Rises(ch'[1]) /\ \A x \in Elems(got'[1]), y \in Elems(ch'[1]) : x < y
      BY <2>5, <2>6, <3>1
    <3>3. Elems(got'[1]) \cup Elems(ch'[1]) = (1..n) \ dropped
      BY <2>5, <2>6, <3>1
    <3> QED BY <2>1, <2>3, <2>4, <3>2, <3>3 DEF PipeOrder
  <2>8. Pipe!TypeOK'
    <3>1. got'[1] \in Seq(Pipe!Packets)
      BY <2>2, <2>4, <1>PipeTyped, SMT
    <3>2. ch' \in [{0, 1} -> Seq(Pipe!Packets)] /\ got' \in [{0, 1} -> Seq(Pipe!Packets)]
      BY <3>1, <2>2, <2>3
    <3>3. \A e \in {0, 1} : Len(ch'[e]) <= Capacity
      BY <2>2, <2>4, <1>PipeCalls, NetConnsAssumption, SMT DEF PipeInv, Pipe!TypeOK
    <3> QED BY <3>2, <3>3, <2>3, <1>PipeCalls, Zenon DEF PipeInv, Pipe!TypeOK
  <2>9. LateInv'
    BY <2>3, <1>PipeCalls DEF PipeInv, LateInv, Pipe!TypeOK
  <2> QED BY <2>1, <2>7, <2>8, <2>9 DEF PipeInv
(* Packets are numbered in the order of the Writes. *)
<1>SentNumber. ASSUME NEW n \in 0..MaxPackets, PipeOrder(n)
               PROVE  Pipe!NextPacket = 1 + n
  <2> USE <1>SentNumber
  <2>1. n \in Nat /\ 1 + n \in 1..(MaxPackets + 1) /\ (1 + n) - 1 = n
    BY NetConnsAssumption, SMT
  <2>2. \A p \in 1..(MaxPackets + 1) : 1..(p - 1) = 1..n => p = 1 + n
    <3> SUFFICES ASSUME NEW p \in 1..(MaxPackets + 1), 1..(p - 1) = 1..n
                 PROVE  p = 1 + n
      OBVIOUS
    <3>1. p \in Nat /\ p >= 1
      BY NetConnsAssumption, SMT
    <3>2. p - 1 \in 1..n \/ p = 1
      BY <3>1, SMT
    <3>3. n \in 1..(p - 1) \/ n = 0
      BY <2>1, SMT
    <3> QED BY <2>1, <3>1, <3>2, <3>3, SMT
  <2>3. written[0] \cup written[1] = 1..n
    BY DEF PipeOrder
  <2> QED BY <2>1, <2>2, <2>3 DEF Pipe!NextPacket
(* Send: the next packet goes to the end of the channel. *)
<1>PipeSend. ASSUME PipeInv, Pipe!Send(0)
             PROVE  PipeInv'
  <2> USE <1>PipeSend
  <2>1. PICK n \in 0..MaxPackets : PipeOrder(n)
    BY DEF PipeInv
  <2>2. Pipe!NextPacket = n + 1 /\ n + 1 \in 1..MaxPackets
    <3>1. n \in Nat
      BY NetConnsAssumption, SMT
    <3>2. Pipe!NextPacket = 1 + n /\ Pipe!NextPacket <= MaxPackets
      BY <2>1, <1>SentNumber DEF Pipe!Send
    <3> QED BY <3>1, <3>2, NetConnsAssumption, SMT
  <2>3. /\ ch' = [ch EXCEPT ![1] = Append(@, n + 1)] /\ Len(ch[1]) < Capacity
        /\ written' = [written EXCEPT ![0] = @ \cup {n + 1}]
        /\ ch \in [{0, 1} -> Seq(Pipe!Packets)] /\ written \in [{0, 1} -> SUBSET Pipe!Packets]
        /\ d_pc' = [d_pc EXCEPT ![<<0, "write">>] = "idle"]
        /\ UNCHANGED <<d_closed, past, hit, late, got, dropped>>
    BY <2>2, <1>PipeCalls, Zenon DEF PipeInv, Pipe!TypeOK, Pipe!Send, Pipe!HasRoom
  <2>4. /\ ch'[1] = Append(ch[1], n + 1) /\ ch'[0] = ch[0]
        /\ written'[0] = written[0] \cup {n + 1} /\ written'[1] = written[1]
    BY SMTT(30), <2>3
  <2>5. /\ Elems(ch'[1]) = Elems(ch[1]) \cup {n + 1}
        /\ Rises(ch'[1]) <=> Rises(ch[1]) /\ \A y \in Elems(ch[1]) : y < n + 1
    BY <2>2, <2>4, Appended, <1>PipeTyped, SMT
  <2>6. \A x \in 1..n : x < n + 1 /\ x # n + 1
    BY NetConnsAssumption, SMT
  <2>7. 1..(n + 1) = (1..n) \cup {n + 1}
    BY SMTT(30), NetConnsAssumption
  <2>8. n + 1 \notin dropped
    BY SMTT(30), <2>1, <2>6 DEF PipeOrder
  <2>9. PipeOrder(n + 1)'
    BY <2>1, <2>3, <2>4, <2>5, <2>6, <2>7, <2>8, SMT DEF PipeOrder
  <2>10. Pipe!TypeOK'
    <3>1. /\ ch'[1] \in Seq(Pipe!Packets) /\ Len(ch'[1]) <= Capacity
          /\ written'[0] \in SUBSET Pipe!Packets
      BY <2>2, <2>3, <2>4, <1>PipeTyped, NetConnsAssumption, SMT
    <3>2. ch' \in [{0, 1} -> Seq(Pipe!Packets)] /\ written' \in [{0, 1} -> SUBSET Pipe!Packets]
      BY SMTT(30), <3>1, <2>3
    <3>3. \A e \in {0, 1} : Len(ch'[e]) <= Capacity
      BY SMTT(30), <3>1, <2>4, <1>PipeCalls DEF PipeInv, Pipe!TypeOK
    <3> QED BY <3>2, <3>3, <2>3, <1>PipeCalls, Zenon DEF PipeInv, Pipe!TypeOK
  <2>11. LateInv'
    BY <2>3, <1>PipeCalls DEF PipeInv, LateInv, Pipe!TypeOK
  <2>12. n + 1 \in 0..MaxPackets
    BY <2>2, NetConnsAssumption, SMT
  <2> QED BY <2>9, <2>10, <2>11, <2>12 DEF PipeInv
(* cleanWriteBuffer: the oldest packet is discarded. *)
<1>PipeClean. ASSUME PipeInv, Pipe!CleanWriteBuffer(0)
              PROVE  PipeInv'
  <2> USE <1>PipeClean
  <2>1. PICK n \in 0..MaxPackets : PipeOrder(n)
    BY DEF PipeInv
  <2>2. CASE ch[1] = <<>>
    <3>1. /\ d_pc' = [d_pc EXCEPT ![<<0, "write">>] = "idle"]
          /\ UNCHANGED <<ch, dropped, d_closed, past, hit, late, written, got>>
      BY SMTT(30), <2>2, <1>PipeCalls DEF Pipe!CleanWriteBuffer
    <3>2. PipeOrder(n)'
      BY <3>1, <2>1, SMT DEF PipeOrder, Elems, Rises
    <3>3. Pipe!TypeOK' /\ LateInv'
      BY <3>1, <1>PipeCalls, Zenon DEF PipeInv, Pipe!TypeOK, LateInv
    <3> QED BY <3>2, <3>3 DEF PipeInv
  <2>3. CASE ch[1] # <<>>
    <3>a. ch[1] \in Seq(Pipe!Packets)
      BY <1>PipeTyped
    <3>b. /\ Head(ch[1]) \in Pipe!Packets /\ Tail(ch[1]) \in Seq(Pipe!Packets)
          /\ Len(Tail(ch[1])) <= Len(ch[1]) /\ Len(Tail(ch[1])) \in Nat /\ Len(ch[1]) \in Nat
      BY <3>a, <2>3, SMT
    <3>1. PICK h \in Pipe!Packets, t \in Seq(Pipe!Packets) :
            /\ h = Head(ch[1]) /\ t = Tail(ch[1]) /\ Len(t) <= Len(ch[1])
            /\ Len(t) \in Nat /\ Len(ch[1]) \in Nat
      BY <3>a, <3>b, Zenon
    <3>2. /\ dropped' = dropped \cup {h} /\ ch' = [ch EXCEPT ![1] = t]
          /\ ch \in [{0, 1} -> Seq(Pipe!Packets)]
          /\ UNCHANGED <<d_pc, d_closed, past, hit, late, written, got>>
      BY <2>3, <3>1, <1>PipeCalls DEF PipeInv, Pipe!TypeOK, Pipe!CleanWriteBuffer
    <3>3. ch'[1] = t /\ ch'[0] = ch[0]
      BY <3>2, SMT
    <3>4. /\ Elems(ch[1]) = {h} \cup Elems(ch'[1])
          /\ Rises(ch[1]) <=> Rises(ch'[1]) /\ \A y \in Elems(ch'[1]) : h < y
      <4>1. /\ Elems(ch[1]) = {h} \cup Elems(t)
            /\ Rises(ch[1]) <=> Rises(t) /\ \A y \in Elems(t) : h < y
        BY <2>3, <3>1, Taken, <1>PipeTyped, Zenon
      <4> QED BY <3>3, <4>1, Zenon
    <3>5. /\ \A x \in Elems(got[1]) : x < h /\ x # h
          /\ \A y \in Elems(ch'[1]) : h < y /\ y # h
      <4>1. /\ Elems(got[1]) \subseteq Nat /\ Elems(ch'[1]) \subseteq Nat /\ h \in Nat
        BY SMTT(30), <2>1, <3>1, <3>4, <1>PipeTyped, NetConnsAssumption DEF PipeOrder
      <4>2. /\ \A x \in Elems(got[1]) : x < h
            /\ \A y \in Elems(ch'[1]) : h < y
        BY <2>1, <3>4, Zenon DEF PipeOrder
      <4> QED BY SMTT(30), <4>1, <4>2
    <3>6. Elems(got[1]) \cup Elems(ch'[1]) = (1..n) \ dropped'
      BY <2>1, <3>2, <3>4, <3>5 DEF PipeOrder
    <3>7. PipeOrder(n)'
      <4>1. dropped' \subseteq 1..n
        BY <2>1, <3>2, <3>4, Zenon DEF PipeOrder
      <4> QED BY <2>1, <3>2, <3>3, <3>4, <3>6, <4>1, Zenon DEF PipeOrder
    <3>8. Pipe!TypeOK'
      <4>1. ch' \in [{0, 1} -> Seq(Pipe!Packets)] /\ dropped' \in SUBSET Pipe!Packets
        BY <3>1, <3>2 DEF PipeInv, Pipe!TypeOK
      <4>2. \A e \in {0, 1} : Len(ch'[e]) <= Capacity
        BY <3>1, <3>3, <1>PipeCalls, NetConnsAssumption, SMT DEF PipeInv, Pipe!TypeOK
      <4> QED BY <3>2, <4>1, <4>2, <1>PipeCalls DEF PipeInv, Pipe!TypeOK
    <3>9. LateInv'
      BY <3>2, Zenon DEF PipeInv, LateInv
    <3> QED BY <3>7, <3>8, <3>9 DEF PipeInv
  <2> QED BY <2>2, <2>3
(* Every step of the pipe keeps its invariant. *)
<1>PipeStep. PipeInv /\ [Pipe!Next]_pip => PipeInv'
  BY <1>PipeQuiet, <1>PipeReceive, <1>PipeSend, <1>PipeClean DEF Pipe!Next
(* Packets are read in the order written. *)
<1>PipeInOrder. PipeInv => Pipe!InOrder
  <2> SUFFICES ASSUME PipeInv
               PROVE  Pipe!InOrder
    OBVIOUS
  <2>1. PICK n \in 0..MaxPackets : PipeOrder(n)
    BY DEF PipeInv
  <2>2. PICK seen \in Seq(Nat) : seen = got[1] \o ch[1]
    BY <1>PipeTyped, Joined, Zenon
  <2>3. Rises(seen) /\ Elems(seen) = written[0] \ dropped
    BY <2>1, <2>2, <1>PipeTyped, Joined, Zenon DEF PipeOrder
  <2>4. /\ \A i, j \in DOMAIN seen : i < j => seen[i] < seen[j]
        /\ {seen[i] : i \in DOMAIN seen} = written[0] \ dropped
    <3>1. DOMAIN seen = 1..Len(seen)
      BY SMT
    <3> QED BY <2>3, <3>1, Zenon DEF Rises, Elems
  <2>a. <<>> \o <<>> = <<>> /\ <<>> \in Seq(Nat)
    BY SMT
  <2>5. PICK none \in Seq(Nat) : none = got[0] \o ch[0] /\ none = <<>>
    BY <2>1, <2>a, Zenon DEF PipeOrder
  <2>6. DOMAIN none = {}
    BY <2>5, SMT
  <2>7. {none[i] : i \in DOMAIN none} = written[1] \ dropped
    BY <2>1, <2>6, Zenon DEF PipeOrder
  <2>8. \A i, j \in DOMAIN none : i < j => none[i] < none[j]
    BY <2>6, Zenon
  <2>9. SUFFICES ASSUME NEW e \in {0, 1}, NEW all, all = got[e] \o ch[e]
                 PROVE  /\ \A i, j \in DOMAIN all : i < j => all[i] < all[j]
                        /\ {all[i] : i \in DOMAIN all} = written[Pipe!Other(e)] \ dropped
    BY <1>PipeCalls, Zenon DEF Pipe!InOrder
  <2>10. CASE e = 0
    <3>1. all = none /\ Pipe!Other(e) = 1
      BY <2>5, <2>9, <2>10, <1>PipeCalls, Zenon
    <3> QED BY <2>7, <2>8, <3>1, Zenon
  <2>11. CASE e = 1
    <3>1. all = seen /\ Pipe!Other(e) = 0
      BY <2>2, <2>9, <2>11, <1>PipeCalls, Zenon
    <3> QED BY <2>4, <3>1, Zenon
  <2> QED BY <2>10, <2>11, Zenon
(* A call that began after Close is never in the select that transfers.    *)
(* A waiting call at an open end, its deadline not past, is ended by its   *)
(* own Receive or Send alone, which moves a packet.                        *)
<1>PipeHonest. PipeInv /\ [Pipe!Next]_pip => Pipe!ClosedIsSilent /\ Pipe!CloseIsLocal
  <2> SUFFICES ASSUME PipeInv, [Pipe!Next]_pip
               PROVE  Pipe!ClosedIsSilent /\ Pipe!CloseIsLocal
    OBVIOUS
  <2> USE <1>PipeCalls
  <2>0. /\ d_pc \in [Pipe!Calls -> {"idle", "check", "select", "clean"}]
        /\ got \in [{0, 1} -> Seq(Pipe!Packets)] /\ written \in [{0, 1} -> SUBSET Pipe!Packets]
        /\ \A k \in late : d_pc[k] # "select"
    BY DEF PipeInv, Pipe!TypeOK, LateInv
  <2>1. CASE Pipe!Receive(1)
    <3>1. got'[1] = Append(got[1], Head(ch[1])) /\ got'[0] = got[0] /\ written' = written
      BY <2>0, <2>1, SMT DEF Pipe!Receive, Pipe!Oldest
    <3>2. got'[1] # got[1]
      <4>1. Len(Append(got[1], Head(ch[1]))) = Len(got[1]) + 1 /\ Len(got[1]) \in Nat
        BY <2>0, SMT
      <4> QED BY <3>1, <4>1, SMT
    <3>3. d_pc[<<1, "read">>] = "select" /\ d_pc' = [d_pc EXCEPT ![<<1, "read">>] = "idle"]
      BY <2>1 DEF Pipe!Receive
    <3>4. Pipe!ClosedIsSilent
      BY <2>0, <3>1, <3>3, Zenon DEF Pipe!ClosedIsSilent
    <3>5. Pipe!CloseIsLocal
      BY <2>0, <3>2, <3>3, SMT DEF Pipe!CloseIsLocal
    <3> QED BY <3>4, <3>5
  <2>2. CASE Pipe!Send(0)
    <3>1. d_pc[<<0, "write">>] = "select" /\ d_pc' = [d_pc EXCEPT ![<<0, "write">>] = "idle"]
      BY <2>2 DEF Pipe!Send
    <3>2. got' = got /\ written'[1] = written[1] /\ written'[0] = written[0] \cup {Pipe!NextPacket}
      BY SMTT(30), <2>0, <2>2 DEF Pipe!Send
    <3>3. written'[0] # written[0]
      <4>1. PICK n \in 0..MaxPackets : PipeOrder(n)
        BY DEF PipeInv
      <4>2. Pipe!NextPacket = 1 + n
        BY <4>1, <1>SentNumber
      <4>3. 1 + n \notin 1..n
        BY NetConnsAssumption, SMT
      <4> QED BY <3>2, <4>1, <4>2, <4>3 DEF PipeOrder
    <3>4. Pipe!ClosedIsSilent
      BY <2>0, <3>1, <3>2, Zenon DEF Pipe!ClosedIsSilent
    <3>5. Pipe!CloseIsLocal
      BY SMTT(30), <2>0, <3>1, <3>3 DEF Pipe!CloseIsLocal
    <3> QED BY <3>4, <3>5
  <2>3. CASE \/ \E k \in Pipe!Calls : \/ Pipe!Call(k) \/ Pipe!CallStep(k)
                                      \/ Pipe!DeadlinePasses(k) \/ Pipe!SetDeadline(k)
             \/ Pipe!CleanWriteBuffer(0) \/ (\E e \in Pipe!Ends : Pipe!Close(e)) \/ UNCHANGED pip
    <3>1. got' = got /\ written' = written
      BY <2>3, Zenon DEF Pipe!Call, Pipe!CallStep, Pipe!DeadlinePasses, Pipe!SetDeadline, Pipe!Close,
         Pipe!Check, Pipe!CheckPast, Pipe!ReturnClosed, Pipe!ReturnTimeout, Pipe!CleanWriteBuffer, pip
    <3>2. ASSUME NEW k \in Pipe!Calls, d_pc[k] = "select", k[1] \notin d_closed, k \notin hit
          PROVE  d_pc'[k] # "idle"
      BY <2>0, <2>3, <3>2, Zenon DEF Pipe!Call, Pipe!CallStep, Pipe!DeadlinePasses, Pipe!SetDeadline, Pipe!Close,
         Pipe!Check, Pipe!CheckPast, Pipe!ReturnClosed, Pipe!SeesClosed, Pipe!ReturnTimeout,
         Pipe!CleanWriteBuffer, pip
    <3> QED BY <3>1, <3>2 DEF Pipe!ClosedIsSilent, Pipe!CloseIsLocal
  <2> QED BY <2>1, <2>2, <2>3 DEF Pipe!Next
<1> QED BY <1>InitPipeInv, <1>PipeStep, <1>PipeInOrder, <1>PipeHonest

-----------------------------------------------------------------------------
(* The connection that writes in batches.  The messages sent, those of the *)
(* batch being flushed and those of the batch being written follow one     *)
(* another in increasing order.                                            *)
Row(s, f, w) ==
  /\ Rises(s) /\ Rises(f) /\ Rises(w)
  /\ \A x \in Elems(s), y \in Elems(f) : x < y
  /\ \A x \in Elems(s), y \in Elems(w) : x < y
  /\ \A x \in Elems(f), y \in Elems(w) : x < y
(* The flusher works on one batch and the writers fill the other one while *)
(* a flush is pending; else both point to the same batch and the other one *)
(* is empty.                                                               *)
BatchPlace ==
  /\ IF fpc \in {"flush", "update"}
     THEN flushPending /\ writeBatchIdx = 1 - readBatchIdx
     ELSE ~flushPending /\ writeBatchIdx = readBatchIdx /\ batches[1 - readBatchIdx] = <<>>
  /\ fpc = "update" => batches[readBatchIdx] = <<>>
  /\ fpc # "flush" => txN = 0
  /\ txN <= Len(batches[readBatchIdx])
(* Together they are the messages enqueued, without those of a WriteBatch  *)
(* that failed.                                                            *)
BatchOrder ==
  /\ Row(sent, Batch!Flushing, batches[writeBatchIdx])
  /\ Elems(sent) \cup Elems(Batch!Flushing) \cup Elems(batches[writeBatchIdx]) = (1..enqueued) \ b_dropped
  /\ b_dropped \subseteq 1..enqueued
BatchInv == Batch!TypeOK /\ BatchPlace /\ BatchOrder

(* What every step of a batch writer keeps. *)
LEMMA BatchKept ==
  /\ Batch!Init => BatchInv
  /\ BatchInv /\ [Batch!Next]_bat => BatchInv'
  /\ BatchInv => Batch!FirstInFirstOut /\ Batch!BatchesApart
(* A swap releases the writers that wait. *)
<1>Released. ASSUME Batch!TypeOK, wpc' = wpc \/ wpc' = Batch!ReleaseWriters
             PROVE  wpc' \in [BatchCallers -> {"idle", "lock", "wait", "released", "unlocked"}]
  BY <1>Released DEF Batch!TypeOK, Batch!ReleaseWriters
(* newPingPong. *)
<1>InitBatchInv. Batch!Init => BatchInv
  <2> SUFFICES ASSUME Batch!Init
               PROVE  BatchInv
    OBVIOUS
  <2>1. Batch!TypeOK
    <3>1. /\ batches \in [{0, 1} -> Seq(Nat)] /\ \A b \in {0, 1} : Len(batches[b]) <= BatchSize
          /\ txN \in 0..BatchSize /\ enqueued \in Nat /\ sent \in Seq(Nat)
      BY NetConnsAssumption, SMT DEF Batch!Init
    <3> QED BY <3>1, Zenon DEF Batch!Init, Batch!TypeOK
  <2>3. Elems(<<>>) = {} /\ Rises(<<>>) /\ 1..0 = {}
    BY SMT DEF Elems, Rises
  <2>4. BatchPlace
    BY SMT DEF Batch!Init, BatchPlace
  <2>5. BatchOrder
    BY <2>3, Zenon DEF Batch!Init, BatchOrder, Row, Batch!Flushing
  <2> QED BY <2>1, <2>4, <2>5 DEF BatchInv
(* A step that moves no message and begins and ends no flush. *)
<1>BatchStill. ASSUME BatchInv, Batch!TypeOK',
                      UNCHANGED <<batches, writeBatchIdx, readBatchIdx, flushPending, txN, enqueued, sent, b_dropped>>,
                      fpc' = fpc \/ (fpc \notin {"flush", "update"} /\ fpc' \notin {"flush", "update"})
               PROVE  BatchInv'
  <2> USE <1>BatchStill
  <2>1. BatchPlace'
    BY DEF BatchInv, BatchPlace
  <2>2. Batch!Flushing' = Batch!Flushing
    BY DEF Batch!Flushing, Batch!Unsent
  <2>3. BatchOrder'
    BY <2>2, Zenon DEF BatchInv, BatchOrder
  <2> QED BY <2>1, <2>3 DEF BatchInv
(* WriteTo, a message that finds no room, and the end of EnqueueMessage. *)
<1>BatchWriter. ASSUME BatchInv, NEW w \in BatchCallers,
                       \/ Batch!WriteTo(w) \/ Batch!EnqueueReleased(w) \/ Batch!EnqueueReturns(w)
                       \/ Batch!EnqueueMessage(w) /\ ~Batch!Room
                PROVE  BatchInv'
  <2> USE <1>BatchWriter
  <2>0. Batch!TypeOK
    BY DEF BatchInv
  <2>1. PICK to \in {"idle", "lock", "wait", "released"} : wpc' = [wpc EXCEPT ![w] = to]
    BY SMTT(30) DEF Batch!WriteTo, Batch!EnqueueReleased, Batch!EnqueueReturns, Batch!EnqueueMessage
  <2>2. UNCHANGED <<batches, writeBatchIdx, readBatchIdx, flushPending, fpc, txN, enqueued, sent, b_dropped,
                    b_closed, full, b_cpc>>
    BY DEF Batch!WriteTo, Batch!EnqueueReleased, Batch!EnqueueReturns, Batch!EnqueueMessage
  <2>3. writeReady' \in {0, 1}
    BY <2>0, Zenon DEF Batch!WriteTo, Batch!EnqueueReleased, Batch!EnqueueReturns, Batch!EnqueueMessage,
                Batch!ReadyIfFull, Batch!TypeOK
  <2>4. Batch!TypeOK'
    <3>1. wpc' \in [BatchCallers -> {"idle", "lock", "wait", "released", "unlocked"}]
      BY <2>0, <2>1 DEF Batch!TypeOK
    <3> HIDE <1>BatchWriter
    <3> QED BY <2>0, <2>2, <2>3, <3>1 DEF Batch!TypeOK
  <2> QED BY <2>2, <2>4, <1>BatchStill
(* The flusher's loop outside a flush, and Close. *)
<1>BatchIdle. ASSUME BatchInv,
                     \/ Batch!FlusherCheck \/ Batch!FlusherReady \/ (\E due \in BOOLEAN : Batch!FlusherTick(due))
                     \/ Batch!FlusherExit \/ Batch!Close \/ Batch!CloseStep \/ UNCHANGED bat
              PROVE  BatchInv'
  <2> USE <1>BatchIdle
  <2>0. Batch!TypeOK
    BY DEF BatchInv
  <2>1. UNCHANGED <<batches, writeBatchIdx, readBatchIdx, flushPending, txN, enqueued, sent, b_dropped, full>>
    BY Zenon DEF Batch!FlusherCheck, Batch!FlusherReady, Batch!FlusherTick, Batch!FlusherExit, Batch!Close,
           Batch!CloseStep, Batch!CloseWakes, Batch!CloseReturns, bat
  <2>2. fpc' = fpc \/ (fpc \notin {"flush", "update"}
                       /\ fpc' \in {"check", "select", "swap", "exit", "exited", "done"})
    BY Zenon DEF Batch!FlusherCheck, Batch!FlusherReady, Batch!FlusherTick, Batch!FlusherExit, Batch!Close,
           Batch!CloseStep, Batch!CloseWakes, Batch!CloseReturns, bat
  <2>3. wpc' = wpc \/ wpc' = Batch!ReleaseWriters
    BY Zenon DEF Batch!FlusherCheck, Batch!FlusherReady, Batch!FlusherTick, Batch!FlusherExit, Batch!ReleaseAtExit,
           Batch!Close, Batch!CloseStep, Batch!CloseWakes, Batch!CloseReturns, bat
  <2>4. /\ b_closed' \in BOOLEAN /\ writeReady' \in {0, 1}
        /\ b_cpc' \in {"idle", "stored", "wait", "returned"}
    BY <2>0, Zenon DEF Batch!FlusherCheck, Batch!FlusherReady, Batch!FlusherTick, Batch!FlusherExit, Batch!Close,
           Batch!CloseStep, Batch!CloseWakes, Batch!CloseReturns, Batch!WakeFlusher, bat, Batch!TypeOK
  <2>5. wpc' \in [BatchCallers -> {"idle", "lock", "wait", "released", "unlocked"}]
    BY SMTT(30), <2>0, <2>3, <1>Released
  <2>6. Batch!TypeOK'
    BY <2>0, <2>1, <2>2, <2>4, <2>5 DEF Batch!TypeOK
  <2> QED BY <2>1, <2>2, <2>6, <1>BatchStill
(* The sequences of messages are sequences of numbers. *)
<1>BatchTyped. ASSUME Batch!TypeOK
               PROVE  /\ sent \in Seq(Nat)
                      /\ \A b \in {0, 1} : batches[b] \in Seq(Nat) /\ Len(batches[b]) \in Nat
                      /\ readBatchIdx \in {0, 1} /\ writeBatchIdx \in {0, 1} /\ txN \in Nat
  <2> USE <1>BatchTyped
  <2>1. \A s \in Seq(Nat) : Len(s) \in Nat
    BY SMT
  <2> QED BY <2>1, NetConnsAssumption, SMT DEF Batch!TypeOK
(* EnqueueMessage: the message goes to the end of the batch being written. *)
<1>BatchEnqueue. ASSUME BatchInv, NEW w \in BatchCallers, Batch!EnqueueMessage(w), Batch!Room
                 PROVE  BatchInv'
  <2> USE <1>BatchEnqueue
  <2>0. Batch!TypeOK /\ BatchPlace /\ BatchOrder
    BY DEF BatchInv
  <2>1. PICK i \in {0, 1}, x \in Nat, s \in Seq(Nat) :
          i = writeBatchIdx /\ x = enqueued + 1 /\ s = batches[i]
    BY SMTT(30), <2>0, <1>BatchTyped, NetConnsAssumption DEF Batch!TypeOK
  <2>2. /\ batches' = [batches EXCEPT ![i] = Append(s, x)] /\ enqueued' = x
        /\ wpc' = [wpc EXCEPT ![w] = "unlocked"]
        /\ Len(s) < BatchSize
        /\ UNCHANGED <<writeBatchIdx, readBatchIdx, flushPending, writeReady, b_closed, fpc, txN, b_cpc,
                       sent, b_dropped>>
    BY <2>1 DEF Batch!EnqueueMessage, Batch!Room
  <2>3. /\ batches'[i] = Append(s, x) /\ batches \in [{0, 1} -> Seq(Nat)]
        /\ \A j \in {0, 1} : j # i => batches'[j] = batches[j]
    BY <2>0, <2>2 DEF Batch!TypeOK
  <2>6. Append(s, x) \in Seq(Nat) /\ Len(Append(s, x)) = Len(s) + 1 /\ Len(s) \in Nat
    BY SMT
  <2>7. Batch!TypeOK'
    <3>1. batches' \in [{0, 1} -> Seq(Nat)]
      BY <2>2, <2>3, <2>6
    <3>2. \A b \in {0, 1} : Len(batches'[b]) <= BatchSize
      BY <2>0, <2>2, <2>3, <2>6, NetConnsAssumption, SMT DEF Batch!TypeOK
    <3>3. full' \in [BatchCallers -> BOOLEAN]
      <4>1. full' = [full EXCEPT ![w] = Len(batches'[writeBatchIdx]) = BatchSize]
        BY Zenon DEF Batch!EnqueueMessage
      <4> QED BY <2>0, <4>1, Zenon DEF Batch!TypeOK
    <3>4. wpc' \in [BatchCallers -> {"idle", "lock", "wait", "released", "unlocked"}]
      BY <2>0, <2>2 DEF Batch!TypeOK
    <3>5. enqueued' \in Nat
      BY <2>2
    <3> QED BY <2>0, <2>2, <3>1, <3>2, <3>3, <3>4, <3>5, Zenon DEF Batch!TypeOK
  <2>8. BatchPlace' /\ Batch!Flushing' = Batch!Flushing
    <3>1. readBatchIdx \in {0, 1} /\ 1 - readBatchIdx \in {0, 1}
      BY <2>0, <1>BatchTyped, SMT
    <3>2. fpc \in {"flush", "update"} => batches'[readBatchIdx] = batches[readBatchIdx]
      BY SMTT(30), <2>0, <2>1, <2>3, <3>1 DEF BatchPlace
    <3>3. fpc \notin {"flush", "update"} => batches'[1 - readBatchIdx] = batches[1 - readBatchIdx]
      BY <2>0, <2>1, <2>3, <3>1, SMT DEF BatchPlace
    <3>4. txN <= Len(batches'[readBatchIdx])
      <4>1. Len(batches'[readBatchIdx]) >= Len(batches[readBatchIdx]) /\ Len(batches'[readBatchIdx]) \in Nat
        BY <2>1, <2>3, <2>6, <3>1, <2>0, <1>BatchTyped, SMT
      <4>2. txN <= Len(batches[readBatchIdx]) /\ txN \in Nat /\ Len(batches[readBatchIdx]) \in Nat
        BY <2>0, <3>1, <1>BatchTyped DEF BatchPlace
      <4> QED BY <4>1, <4>2, SMT
    <3>5. BatchPlace'
      BY <2>0, <2>2, <3>2, <3>3, <3>4, Zenon DEF BatchPlace
    <3>6. Batch!Flushing' = Batch!Flushing
      <4>1. fpc = "flush" => Batch!Unsent' = Batch!Unsent
        BY <2>2, <3>2, Zenon DEF Batch!Unsent
      <4> QED BY <2>2, <4>1, Zenon DEF Batch!Flushing
    <3> QED BY <3>5, <3>6
  <2>9. BatchOrder'
    <3>0. s \in Seq(Nat) /\ x = enqueued + 1 /\ enqueued \in Nat
      BY <2>0, <2>1, <1>BatchTyped DEF Batch!TypeOK
    <3>1. /\ Elems(Append(s, x)) = Elems(s) \cup {x}
          /\ Rises(Append(s, x)) <=> Rises(s) /\ \A y \in Elems(s) : y < x
      BY <3>0, Appended
    <3>2. PICK a, f : a = sent /\ f = Batch!Flushing
      OBVIOUS
    <3>3. /\ Row(a, f, s) /\ Elems(a) \cup Elems(f) \cup Elems(s) = (1..enqueued) \ b_dropped
          /\ b_dropped \subseteq 1..enqueued
      BY <2>0, <2>1, <3>2 DEF BatchOrder
    <3>4. 1..x = (1..enqueued) \cup {x} /\ \A y \in 1..enqueued : y < x /\ y # x
      BY SMTT(30), <3>0
    <3>5. Row(a, f, Append(s, x))
      BY <3>1, <3>3, <3>4 DEF Row
    <3>6. /\ Elems(a) \cup Elems(f) \cup Elems(Append(s, x)) = (1..x) \ b_dropped
          /\ b_dropped \subseteq 1..x
      BY <3>1, <3>3, <3>4
    <3>7. sent' = a /\ Batch!Flushing' = f /\ batches'[writeBatchIdx'] = Append(s, x) /\ enqueued' = x
          /\ b_dropped' = b_dropped
      BY <2>1, <2>2, <2>3, <2>8, <3>2
    <3> QED BY <3>5, <3>6, <3>7, Zenon DEF BatchOrder
  <2> QED BY <2>7, <2>8, <2>9 DEF BatchInv
(* updateWriteBatchAndGetReadBatch: the batch written so far is flushed. *)
<1>BatchSwap. ASSUME BatchInv, Batch!updateWriteBatchAndGetReadBatch
              PROVE  BatchInv'
  <2> USE <1>BatchSwap
  <2>0. Batch!TypeOK /\ BatchPlace /\ BatchOrder
    BY DEF BatchInv
  <2>1. /\ fpc = "swap" /\ ~flushPending /\ writeBatchIdx = readBatchIdx /\ txN = 0
        /\ batches[1 - readBatchIdx] = <<>>
    BY <2>0 DEF Batch!updateWriteBatchAndGetReadBatch, BatchPlace
  <2>2. /\ writeBatchIdx' = 1 - writeBatchIdx /\ flushPending' = TRUE /\ fpc' = "flush"
        /\ wpc' = Batch!ReleaseWriters
        /\ UNCHANGED <<batches, readBatchIdx, writeReady, b_closed, full, txN, b_cpc, enqueued, sent, b_dropped>>
    BY <2>1, Zenon DEF Batch!updateWriteBatchAndGetReadBatch
  <2>3. wpc' \in [BatchCallers -> {"idle", "lock", "wait", "released", "unlocked"}]
    BY <2>0, <2>2, <1>Released
  <2>4. Batch!TypeOK'
    <3>1. writeBatchIdx' \in {0, 1} /\ fpc' \in {"flush"}
      BY <2>0, <2>2, SMT DEF Batch!TypeOK
    <3>2. flushPending' \in BOOLEAN
      BY SMTT(30), <2>2
    <3> QED BY <2>0, <2>2, <2>3, <3>1, <3>2 DEF Batch!TypeOK
  <2>5. BatchPlace'
    <3>1. txN <= Len(batches[readBatchIdx])
      BY <2>0 DEF BatchPlace
    <3> QED BY <2>1, <2>2, <3>1 DEF BatchPlace
  <2>6. BatchOrder'
    <3>1. PICK a, s \in Seq(Nat) : a = sent /\ s = batches[readBatchIdx]
      BY <2>0, <1>BatchTyped
    <3>2. Batch!Unsent' = SubSeq(s, 1, Len(s))
      BY <2>1, <2>2, <3>1, SMT DEF Batch!Unsent
    <3>3. SubSeq(s, 1, Len(s)) = s
      BY SMT
    <3>4. Batch!Flushing' = s /\ batches'[writeBatchIdx'] = <<>> /\ sent' = a
      BY <2>1, <2>2, <3>1, <3>2, <3>3, Zenon DEF Batch!Flushing
    <3>5. Elems(<<>>) = {} /\ Rises(<<>>)
      BY SMTT(30) DEF Elems, Rises
    <3>6. Batch!Flushing = <<>> /\ batches[writeBatchIdx] = s
      BY <2>1, <3>1 DEF Batch!Flushing
    <3>7. /\ Row(a, <<>>, s) /\ Elems(a) \cup Elems(<<>>) \cup Elems(s) = (1..enqueued) \ b_dropped
          /\ b_dropped \subseteq 1..enqueued
      BY <2>0, <3>1, <3>6, Zenon DEF BatchOrder
    <3>8. Row(a, s, <<>>) /\ Elems(a) \cup Elems(s) \cup Elems(<<>>) = (1..enqueued) \ b_dropped
      BY <3>5, <3>7 DEF Row
    <3> QED BY <2>2, <3>4, <3>7, <3>8, Zenon DEF BatchOrder
  <2> QED BY <2>4, <2>5, <2>6 DEF BatchInv
(* FlushSome: the first n unsent messages follow those sent. *)
<1>BatchFlushes. ASSUME BatchInv, NEW n \in 1..BatchSize, Batch!FlushSome(n)
                 PROVE  BatchInv'
  <2> USE <1>BatchFlushes
  <2>0. Batch!TypeOK /\ BatchPlace /\ BatchOrder
    BY DEF BatchInv
  <2>1. PICK a \in Seq(Nat), b \in Seq(Nat), t \in Nat, l \in Nat :
          a = sent /\ b = batches[readBatchIdx] /\ t = txN /\ l = Len(b)
    BY SMTT(30), <2>0, <1>BatchTyped
  <2>2. t <= l /\ l <= BatchSize /\ n \in Nat
    <3>1. t <= l
      BY <2>0, <2>1, Zenon DEF BatchPlace
    <3>2. l <= BatchSize
      BY <2>0, <2>1, Zenon DEF Batch!TypeOK
    <3>3. n \in Nat
      BY NetConnsAssumption, SMT
    <3> QED BY <3>1, <3>2, <3>3
  <2>u. SubSeq(b, t + 1, l) \in Seq(Nat) /\ Len(SubSeq(b, t + 1, l)) = l - t
    BY <2>1, <2>2, Suffix, SMT
  <2>3. PICK u \in Seq(Nat) : u = SubSeq(b, t + 1, l) /\ u = Batch!Unsent
    BY <2>1, <2>u, Zenon DEF Batch!Unsent
  <2>4. n <= Len(u) /\ Len(u) = l - t /\ n \in 0..Len(u) /\ t + n <= l
    <3>1. n <= Len(u)
      BY <2>3, Zenon DEF Batch!FlushSome
    <3>2. Len(u) = l - t
      BY <2>3, <2>u, Zenon
    <3> QED BY <2>2, <3>1, <3>2, SMT
  <2>6. PICK f, r : f = SubSeq(u, 1, n) /\ r = SubSeq(u, n + 1, Len(u))
    BY Zenon
  <2>7. /\ f \in Seq(Nat) /\ r \in Seq(Nat) /\ Elems(u) = Elems(f) \cup Elems(r)
        /\ Rises(u) <=> Rises(f) /\ Rises(r) /\ \A x \in Elems(f), y \in Elems(r) : x < y
    BY <2>4, <2>6, Split, Zenon
  <2>9. r = SubSeq(b, (t + n) + 1, l)
    <3>1. t \in 0..Len(b) /\ n \in 0..(Len(b) - t)
      BY <2>1, <2>2, <2>4, SMT
    <3>2. SubSeq(SubSeq(b, t + 1, Len(b)), n + 1, Len(SubSeq(b, t + 1, Len(b)))) = SubSeq(b, (t + n) + 1, Len(b))
      BY <3>1, SuffixOfSuffix
    <3> QED BY <2>1, <2>3, <2>6, <3>2, Zenon
  <2>10. /\ fpc = "flush" /\ sent' = a \o f /\ txN' = t + n
         /\ UNCHANGED <<batches, writeBatchIdx, readBatchIdx, flushPending, writeReady, b_closed, wpc, full,
                        fpc, b_cpc, enqueued, b_dropped>>
    BY <2>1, <2>3, <2>6 DEF Batch!FlushSome, Batch!FirstUnsent
  <2>11. Batch!TypeOK'
    <3>1. sent' \in Seq(Nat) /\ txN' \in 0..BatchSize
      BY <2>1, <2>2, <2>4, <2>7, <2>10, NetConnsAssumption, SMTT(30)
    <3> QED BY <2>0, <2>10, <3>1 DEF Batch!TypeOK
  <2>12. BatchPlace'
    BY <2>0, <2>1, <2>4, <2>10, Zenon DEF BatchPlace
  <2>13. BatchOrder'
    <3>1. PICK w : w = batches[writeBatchIdx]
      OBVIOUS
    <3>2. /\ Row(a, u, w) /\ Elems(a) \cup Elems(u) \cup Elems(w) = (1..enqueued) \ b_dropped
          /\ b_dropped \subseteq 1..enqueued
      BY <2>0, <2>1, <2>3, <2>10, <3>1, Zenon DEF BatchOrder, Batch!Flushing
    <3>3. /\ Elems(a \o f) = Elems(a) \cup Elems(f)
          /\ Rises(a \o f) <=> Rises(a) /\ Rises(f) /\ \A x \in Elems(a), y \in Elems(f) : x < y
      BY <2>7, Joined
    <3>4. Row(a \o f, r, w)
      BY <2>7, <3>2, <3>3, Zenon DEF Row
    <3>5. Elems(a \o f) \cup Elems(r) \cup Elems(w) = (1..enqueued) \ b_dropped
      BY <2>7, <3>2, <3>3
    <3>6. Batch!Flushing' = r /\ batches'[writeBatchIdx'] = w
      BY <2>1, <2>9, <2>10, <3>1 DEF Batch!Flushing, Batch!Unsent
    <3> QED BY <2>10, <3>2, <3>4, <3>5, <3>6, Zenon DEF BatchOrder
  <2> QED BY <2>11, <2>12, <2>13 DEF BatchInv
(* FlushEnds: what WriteBatch failed to send is given up. *)
<1>BatchFlushEnds. ASSUME BatchInv, Batch!FlushEnds
                   PROVE  BatchInv'
  <2> USE <1>BatchFlushEnds
  <2>0. Batch!TypeOK /\ BatchPlace /\ BatchOrder
    BY DEF BatchInv
  <2>1. PICK i \in {0, 1}, u \in Seq(Nat) : i = readBatchIdx /\ u = Batch!Unsent
    <3>1. PICK b \in Seq(Nat), t \in Nat : b = batches[readBatchIdx] /\ t = txN /\ t <= Len(b)
      BY <2>0, <1>BatchTyped DEF BatchPlace
    <3>2. SubSeq(b, t + 1, Len(b)) \in Seq(Nat)
      BY <3>1, SMT
    <3>3. Batch!Unsent \in Seq(Nat)
      BY <3>1, <3>2 DEF Batch!Unsent
    <3> QED BY <2>0, <3>3, <1>BatchTyped
  <2>2. /\ fpc = "flush" /\ fpc' = "update" /\ txN' = 0 /\ b_dropped' = b_dropped \cup Elems(u)
        /\ batches' = [batches EXCEPT ![i] = <<>>]
        /\ UNCHANGED <<writeBatchIdx, readBatchIdx, flushPending, writeReady, b_closed, wpc, full, b_cpc,
                       enqueued, sent>>
    <3>1. DOMAIN u = 1..Len(u)
      BY SMTT(30)
    <3> QED BY <2>1, <3>1, Zenon DEF Batch!FlushEnds, Elems
  <2>3. /\ writeBatchIdx # i /\ flushPending /\ writeBatchIdx = 1 - readBatchIdx /\ writeBatchIdx \in {0, 1}
        /\ batches \in [{0, 1} -> Seq(Nat)]
    BY SMTT(30), <2>0, <2>1, <2>2 DEF BatchPlace, Batch!TypeOK
  <2>4. batches'[i] = <<>> /\ batches'[writeBatchIdx] = batches[writeBatchIdx]
    BY <2>2, <2>3
  <2>5. PICK a, w : a = sent /\ w = batches[writeBatchIdx]
    OBVIOUS
  <2>6. /\ Row(a, u, w) /\ Elems(a) \cup Elems(u) \cup Elems(w) = (1..enqueued) \ b_dropped
        /\ b_dropped \subseteq 1..enqueued
    BY <2>0, <2>1, <2>2, <2>5, Zenon DEF BatchOrder, Batch!Flushing
  <2>7. Batch!TypeOK'
    <3>1. Elems(u) \subseteq Nat
      BY SMT DEF Elems
    <3>2. b_dropped' \in SUBSET Nat
      BY <2>0, <2>2, <3>1, Zenon DEF Batch!TypeOK
    <3>4. batches' \in [{0, 1} -> Seq(Nat)] /\ txN' \in 0..BatchSize
      BY SMTT(30), <2>2, <2>3, NetConnsAssumption
    <3>3. \A b \in {0, 1} : Len(batches'[b]) <= BatchSize
      BY <2>0, <2>2, <2>3, NetConnsAssumption, SMTT(30) DEF Batch!TypeOK
    <3> QED BY <2>0, <2>2, <3>2, <3>3, <3>4 DEF Batch!TypeOK
  <2>8. BatchPlace'
    BY <2>1, <2>2, <2>3, <2>4, SMT DEF BatchPlace
  <2>9. BatchOrder'
    <3>1. Elems(<<>>) = {} /\ Rises(<<>>)
      BY SMT DEF Elems, Rises
    <3>2. Row(a, <<>>, w)
      BY <2>6, <3>1 DEF Row
    <3>3. \A x \in Elems(u) : x \in 1..enqueued /\ x \notin Elems(a) /\ x \notin Elems(w)
      <4>1. \A x \in Elems(a) \cup Elems(u) \cup Elems(w) : x \in 1..enqueued
        BY <2>6
      <4>2. /\ \A x \in Elems(a), y \in Elems(u) : x < y
            /\ \A x \in Elems(u), y \in Elems(w) : x < y
        BY <2>6 DEF Row
      <4> QED BY <4>1, <4>2, SMT
    <3>4. /\ Elems(a) \cup Elems(<<>>) \cup Elems(w) = (1..enqueued) \ b_dropped'
          /\ b_dropped' \subseteq 1..enqueued
      BY <2>2, <2>6, <3>1, <3>3, Zenon
    <3>5. Batch!Flushing' = <<>>
      BY <2>2 DEF Batch!Flushing
    <3> QED BY <2>2, <2>4, <2>5, <3>2, <3>4, <3>5, Zenon DEF BatchOrder
  <2> QED BY <2>7, <2>8, <2>9 DEF BatchInv
(* updateReadBatch: the batch being written is the next to be flushed. *)
<1>BatchUpdate. ASSUME BatchInv, Batch!updateReadBatch
                PROVE  BatchInv'
  <2> USE <1>BatchUpdate
  <2>0. Batch!TypeOK /\ BatchPlace /\ BatchOrder
    BY DEF BatchInv
  <2>1. /\ fpc = "update" /\ readBatchIdx' = 1 - readBatchIdx /\ flushPending' = FALSE /\ fpc' = "check"
        /\ UNCHANGED <<batches, writeBatchIdx, writeReady, b_closed, wpc, full, txN, b_cpc, enqueued, sent,
                       b_dropped>>
    BY SMTT(30) DEF Batch!updateReadBatch, Batch!NextRead
  <2>2. /\ writeBatchIdx = 1 - readBatchIdx /\ batches[readBatchIdx] = <<>> /\ txN = 0
    BY <2>0, <2>1 DEF BatchPlace
  <2>3. readBatchIdx \in {0, 1} /\ readBatchIdx' \in {0, 1} /\ 1 - readBatchIdx' = readBatchIdx
    BY SMTT(30), <2>0, <2>1, <1>BatchTyped
  <2>4. Batch!TypeOK'
    <3>1. flushPending' \in BOOLEAN
      BY <2>1, Zenon
    <3> QED BY <2>0, <2>1, <2>3, <3>1 DEF Batch!TypeOK
  <2>5. BatchPlace'
    <3>1. Len(batches[readBatchIdx']) \in Nat
      BY SMTT(30), <2>0, <2>3, <1>BatchTyped
    <3>2. txN' <= Len(batches'[readBatchIdx'])
      BY <2>1, <2>2, <3>1, SMT
    <3> QED BY <2>1, <2>2, <2>3, <3>2, Zenon DEF BatchPlace
  <2>6. Batch!Flushing' = Batch!Flushing
    BY <2>1 DEF Batch!Flushing
  <2>7. BatchOrder'
    BY <2>0, <2>1, <2>6, Zenon DEF BatchOrder
  <2> QED BY <2>4, <2>5, <2>7 DEF BatchInv
(* Every step of the batch writer keeps its invariant. *)
<1>BatchStep. BatchInv /\ [Batch!Next]_bat => BatchInv'
  <2> SUFFICES ASSUME BatchInv, [Batch!Next]_bat
               PROVE  BatchInv'
    OBVIOUS
  <2>1. ASSUME NEW w \in BatchCallers, Batch!WriteTo(w) \/ Batch!WriterStep(w)
        PROVE  BatchInv'
    BY <2>1, <1>BatchWriter, <1>BatchEnqueue DEF Batch!WriterStep
  <2>2. CASE Batch!FlusherStep
    BY <2>2, <1>BatchIdle, <1>BatchSwap, <1>BatchFlushes, <1>BatchFlushEnds, <1>BatchUpdate DEF Batch!FlusherStep, Batch!Flush
  <2>3. CASE (\E due \in BOOLEAN : Batch!FlusherTick(due)) \/ Batch!Close \/ Batch!CloseStep \/ UNCHANGED bat
    BY <2>3, <1>BatchIdle
  <2> QED BY <2>1, <2>2, <2>3 DEF Batch!Next
(* Messages reach the socket in order. *)
<1>BatchInOrder. BatchInv => Batch!FirstInFirstOut /\ Batch!BatchesApart
  <2> SUFFICES ASSUME BatchInv
               PROVE  Batch!FirstInFirstOut /\ Batch!BatchesApart
    OBVIOUS
  <2>0. Batch!TypeOK /\ BatchPlace /\ BatchOrder
    BY DEF BatchInv
  <2>1. PICK a \in Seq(Nat), w \in Seq(Nat) : a = sent /\ w = batches[writeBatchIdx]
    BY <2>0, <1>BatchTyped
  <2>2. Batch!Flushing \in Seq(Nat)
    <3>1. PICK b \in Seq(Nat), t \in Nat : b = batches[readBatchIdx] /\ t = txN /\ t <= Len(b)
      BY <2>0, <1>BatchTyped DEF BatchPlace
    <3>2. SubSeq(b, t + 1, Len(b)) \in Seq(Nat)
      BY <3>1, SMT
    <3>3. <<>> \in Seq(Nat)
      BY SMT
    <3> QED BY <3>1, <3>2, <3>3, Zenon DEF Batch!Flushing, Batch!Unsent
  <2>3. PICK f \in Seq(Nat) : f = Batch!Flushing
    BY <2>2
  <2>4. /\ Row(a, f, w) /\ Elems(a) \cup Elems(f) \cup Elems(w) = (1..enqueued) \ b_dropped
    BY <2>0, <2>1, <2>3, Zenon DEF BatchOrder
  <2>5. PICK g \in Seq(Nat) : /\ g = a \o f /\ Elems(g) = Elems(a) \cup Elems(f)
                              /\ Rises(g) <=> Rises(a) /\ Rises(f) /\ \A x \in Elems(a), y \in Elems(f) : x < y
    BY Joined, Zenon
  <2>6. PICK all \in Seq(Nat) : /\ all = g \o w /\ Elems(all) = Elems(g) \cup Elems(w)
                                /\ Rises(all) <=> Rises(g) /\ Rises(w) /\ \A x \in Elems(g), y \in Elems(w) : x < y
    BY Joined, Zenon
  <2>7. Rises(all) /\ Elems(all) = (1..enqueued) \ b_dropped
    BY <2>4, <2>5, <2>6, Zenon DEF Row
  <2>8. all = sent \o Batch!Flushing \o batches[writeBatchIdx]
    BY <2>1, <2>3, <2>5, <2>6
  <2>9. DOMAIN all = 1..Len(all)
    BY SMT
  <2>10. Batch!FirstInFirstOut
    BY <2>7, <2>8, <2>9, Zenon DEF Batch!FirstInFirstOut, Rises, Elems
  <2>11. Batch!BatchesApart
    BY <2>0, SMT DEF Batch!BatchesApart, BatchPlace, Batch!TypeOK
  <2> QED BY <2>10, <2>11, Zenon
<1> QED BY <1>InitBatchInv, <1>BatchStep, <1>BatchInOrder

-----------------------------------------------------------------------------
(* A bridge.  One direction: w was written, g is read, q queued and k kept *)
(* back; out was disposed of by the test.  ask says whether the test       *)
(* reordered this direction, left writes are still to be kept back, turns  *)
(* stacks were forwarded and done says that the reader got EOF.  A stack   *)
(* that was never forwarded is apart from what is queued and read; one     *)
(* that was may come again, since it is never emptied.                     *)
Way(w, g, q, k, out, ask, left, turns, done) ==
  /\ w \ out \subseteq Elems(g) \cup Elems(q) \cup Elems(k)
  /\ Elems(g) \cup Elems(q) \cup Elems(k) \subseteq w
  /\ ~ask => /\ Rises(g) /\ Rises(q) /\ \A x \in Elems(g), y \in Elems(q) : x < y
             /\ k = <<>> /\ left = 0
  /\ turns <= 1 => /\ Distinct(g) /\ Distinct(q) /\ Elems(g) \cap Elems(q) = {}
                   /\ (Elems(g) \cup Elems(q)) \cap out = {}
  /\ turns = 0 => /\ Distinct(k) /\ Elems(k) \cap out = {}
                  /\ Elems(k) \cap (Elems(g) \cup Elems(q)) = {}
  /\ done => q = <<>>

(* The types of a bridge, with sequences of numbers. *)
BridgeData ==
  /\ queue \in [{0, 1} -> Seq(Nat)] /\ stack \in [{0, 1} -> Seq(Nat)] /\ r_got \in [{0, 1} -> Seq(Nat)]
  /\ r_written \in [{0, 1} -> SUBSET (1..BridgePackets)]
  /\ reorderNWrites \in [{0, 1} -> Nat] /\ rounds \in [{0, 1} -> Nat]
BridgeRest ==
  /\ closing \subseteq {0, 1} /\ r_closed \subseteq closing /\ dropNWrites \in [{0, 1} -> Nat]
  /\ filterCB \subseteq {0, 1} /\ lossChance \in {"none", "some", "all"}
  /\ r_pc \in [{0, 1} -> {"idle", "select", "expired"}]
  /\ settings \in 0..MaxSettings /\ asked \subseteq {0, 1}
(* The packets are numbered as they are written. *)
BridgeCount ==
  /\ \E n \in 0..BridgePackets : r_written[0] \cup r_written[1] = 1..n
  /\ r_written[0] \cap r_written[1] = {}
  /\ gone \subseteq r_written[0] \cup r_written[1]
(* The direction from end e, and all of a bridge. *)
BridgeWay(e) ==
  Way(r_written[e], r_got[1 - e], queue[e], stack[e], gone, e \in asked, reorderNWrites[e],
      rounds[e], (1 - e) \in r_closed)
BridgeInv ==
  /\ BridgeData /\ BridgeRest /\ BridgeCount
  /\ BridgeWay(0) /\ BridgeWay(1)

(* What every step of a bridge keeps. *)
LEMMA BridgeKept ==
  /\ Br!Init => BridgeInv
  /\ BridgeInv /\ [Br!Next]_bri => BridgeInv'
  /\ BridgeInv => Br!TypeOK /\ Br!InOrder
(* What the test disposes of in the other direction is none of this one's  *)
(* packets.                                                                *)
<1>WayOther. ASSUME NEW w, NEW g, NEW q, NEW k, NEW out, NEW ask, NEW left, NEW turns, NEW done,
                    Way(w, g, q, k, out, ask, left, turns, done), NEW gone1, gone1 \cap w = {}
             PROVE  Way(w, g, q, k, out \cup gone1, ask, left, turns, done)
  BY <1>WayOther, Zenon DEF Way
(* A packet that is lost, refused, dropped or filtered by Push. *)
<1>WayDiscard. ASSUME NEW w, NEW g, NEW q, NEW k, NEW out, NEW ask, NEW left, NEW turns, NEW done,
                      Way(w, g, q, k, out, ask, left, turns, done), NEW p, p \notin w
               PROVE  Way(w \cup {p}, g, q, k, out \cup {p}, ask, left, turns, done)
  BY <1>WayDiscard, Zenon DEF Way
(* A packet that Push queues is newer than all before it. *)
<1>WayEnqueue. ASSUME NEW w, NEW g, NEW q \in Seq(Nat), NEW k, NEW out, NEW ask, NEW left, NEW turns, NEW done,
                      Way(w, g, q, k, out, ask, left, turns, done), ~done,
                      NEW p \in Nat, p \notin w, p \notin out, \A x \in w : x < p
               PROVE  Way(w \cup {p}, g, Append(q, p), k, out, ask, left, turns, done)
  <2> USE <1>WayEnqueue
  <2>1. PICK a : /\ a = Append(q, p) /\ Elems(a) = Elems(q) \cup {p}
                 /\ Rises(a) <=> Rises(q) /\ \A y \in Elems(q) : y < p
                 /\ Distinct(a) <=> Distinct(q) /\ p \notin Elems(q)
    BY Appended, Zenon
  <2>2. Way(w \cup {p}, g, a, k, out, ask, left, turns, done)
    BY <2>1, Zenon DEF Way
  <2> QED BY <2>1, <2>2
(* A packet that Push keeps back, which a test must have asked for. *)
<1>WayKeep. ASSUME NEW w, NEW g, NEW q, NEW k \in Seq(Nat), NEW out, NEW ask, NEW left, NEW turns, NEW done,
                   Way(w, g, q, k, out, ask, left, turns, done), left # 0,
                   NEW p \in Nat, p \notin w, p \notin out, NEW left1
            PROVE  Way(w \cup {p}, g, q, Append(k, p), out, ask, left1, turns, done)
  <2> USE <1>WayKeep
  <2>1. PICK a : /\ a = Append(k, p) /\ Elems(a) = Elems(k) \cup {p}
                 /\ Distinct(a) <=> Distinct(k) /\ p \notin Elems(k)
    BY Appended, Zenon
  <2>2. ask /\ Way(w \cup {p}, g, q, a, out, ask, left1, turns, done)
    BY <2>1, Zenon DEF Way
  <2> QED BY <2>1, <2>2, Zenon
(* The stack is turned, and forwarded or, by end 0 with one packet, not. *)
<1>WayForward. ASSUME NEW w, NEW g, NEW q \in Seq(Nat), NEW k \in Seq(Nat), NEW out, NEW ask, NEW left,
                      NEW turns \in Nat, NEW done, ask, ~done,
                      Way(w, g, q, k, out, ask, left, turns, done),
                      NEW f \in Seq(Nat), Elems(f) = Elems(k), Distinct(k) => Distinct(f)
               PROVE  /\ Way(w, g, q \o f, f, out, ask, left, turns + 1, done)
                      /\ Way(w, g, q, f, out, ask, left, turns + 1, done)
  <2> USE <1>WayForward
  <2>1. PICK a : /\ a = q \o f /\ Elems(a) = Elems(q) \cup Elems(f)
                 /\ Distinct(a) <=> Distinct(q) /\ Distinct(f) /\ Elems(q) \cap Elems(f) = {}
    BY Joined, Zenon
  <2>2. (turns + 1 <= 1 => turns = 0) /\ turns + 1 # 0 /\ (turns = 0 => turns <= 1)
    BY SMT
  <2>3. Way(w, g, a, f, out, ask, left, turns + 1, done)
    BY <2>1, <2>2, Zenon DEF Way
  <2>4. Way(w, g, q, f, out, ask, left, turns + 1, done)
    BY <2>2, Zenon DEF Way
  <2> QED BY <2>1, <2>3, <2>4, Zenon
(* A packet that Tick hands to the reader. *)
<1>WayTake. ASSUME NEW w, NEW g \in Seq(Nat), NEW q \in Seq(Nat), NEW k, NEW out, NEW ask, NEW left, NEW turns,
                   NEW done, q # <<>>, Way(w, g, q, k, out, ask, left, turns, done)
            PROVE  Way(w, Append(g, Head(q)), Tail(q), k, out, ask, left, turns, done)
  <2> USE <1>WayTake
  <2>1. PICK h \in Nat, t \in Seq(Nat) :
          /\ h = Head(q) /\ t = Tail(q) /\ Elems(q) = {h} \cup Elems(t)
          /\ Rises(q) <=> Rises(t) /\ \A y \in Elems(t) : h < y
          /\ Distinct(q) <=> Distinct(t) /\ h \notin Elems(t)
    BY Taken, Zenon
  <2>2. PICK a : /\ a = Append(g, h) /\ Elems(a) = Elems(g) \cup {h}
                 /\ Rises(a) <=> Rises(g) /\ \A y \in Elems(g) : y < h
                 /\ Distinct(a) <=> Distinct(g) /\ h \notin Elems(g)
    BY Appended, Zenon
  <2>3. Way(w, a, t, k, out, ask, left, turns, done)
    <3>1. /\ w \ out \subseteq Elems(a) \cup Elems(t) \cup Elems(k)
          /\ Elems(a) \cup Elems(t) \cup Elems(k) \subseteq w
      BY <2>1, <2>2, Zenon DEF Way
    <3>2. ~ask => /\ Rises(a) /\ Rises(t) /\ \A x \in Elems(a), y \in Elems(t) : x < y
                  /\ k = <<>> /\ left = 0
      BY <2>1, <2>2, Zenon DEF Way
    <3>3. turns <= 1 => /\ Distinct(a) /\ Distinct(t) /\ Elems(a) \cap Elems(t) = {}
                        /\ (Elems(a) \cup Elems(t)) \cap out = {}
      <4>1. turns <= 1 => /\ Distinct(g) /\ Distinct(q) /\ Elems(g) \cap Elems(q) = {}
                          /\ (Elems(g) \cup Elems(q)) \cap out = {}
        BY Zenon DEF Way
      <4> QED BY <2>1, <2>2, <4>1
    <3>4. Elems(a) \cup Elems(t) = Elems(g) \cup Elems(q)
      BY <2>1, <2>2
    <3>5. ~done
      BY Zenon DEF Way
    <3> QED BY <3>1, <3>2, <3>3, <3>4, <3>5, Zenon DEF Way
  <2> QED BY <2>1, <2>2, <2>3
(* Reorder turns a queue. *)
<1>WayTurn. ASSUME NEW w, NEW g, NEW q \in Seq(Nat), NEW k, NEW out, NEW ask, NEW left, NEW turns, NEW done,
                   q # <<>>, Way(w, g, q, k, out, ask, left, turns, done)
            PROVE  Way(w, g, Br!Reversed(q), k, out, TRUE, left, turns, done)
  <2> USE <1>WayTurn
  <2>1. PICK r : r = Br!Reversed(q) /\ Elems(r) = Elems(q) /\ (Distinct(q) => Distinct(r))
    BY SMTT(30), Turned
  <2>2. Way(w, g, r, k, out, TRUE, left, turns, done)
    BY <2>1 DEF Way
  <2> QED BY <2>1, <2>2, Zenon
(* Drop and clear, which leave t of a queue q. *)
<1>WayDrop. ASSUME NEW w, NEW g, NEW q, NEW k, NEW out, NEW ask, NEW left, NEW turns \in Nat, NEW done,
                   Way(w, g, q, k, out, ask, left, turns, done),
                   NEW t, Elems(t) \subseteq Elems(q), Rises(q) => Rises(t), Distinct(q) => Distinct(t),
                   q = <<>> => t = <<>>
            PROVE  Way(w, g, t, k, out \cup (Elems(q) \ Elems(t)), ask, left, turns, done)
  <2> USE <1>WayDrop
  <2>1. turns = 0 => turns <= 1
    BY SMT
  <2> QED BY <2>1, Zenon DEF Way
(* A suffix has what its sequence has. *)
<1>Rest. ASSUME NEW s \in Seq(Nat), NEW k \in 0..Len(s)
         PROVE  \E r \in Seq(Nat) : /\ r = SubSeq(s, k + 1, Len(s)) /\ Elems(r) \subseteq Elems(s)
                                    /\ (Rises(s) => Rises(r)) /\ (Distinct(s) => Distinct(r))
  <2>1. PICK f : f = SubSeq(s, 1, k)
    BY Zenon
  <2>2. PICK r : r = SubSeq(s, k + 1, Len(s))
    BY Zenon
  <2>3. /\ r \in Seq(Nat) /\ Elems(s) = Elems(f) \cup Elems(r)
        /\ (Rises(s) => Rises(r)) /\ (Distinct(s) => Distinct(r))
    BY <2>1, <2>2, Split
  <2>4. Elems(r) \subseteq Elems(s)
    BY <2>3
  <2> QED BY <2>2, <2>3, <2>4, Zenon
(* What Drop leaves of a queue, also when fewer than n packets follow the  *)
(* offset.                                                                 *)
<1>Dropped. ASSUME NEW s \in Seq(Nat), NEW o \in 0..Len(s), NEW n \in Nat
            PROVE  \E t \in Seq(Nat) :
                     /\ t = Br!Without(s, o, n) /\ Elems(t) \subseteq Elems(s)
                     /\ (Rises(s) => Rises(t)) /\ (Distinct(s) => Distinct(t)) /\ (s = <<>> => t = <<>>)
  <2>0. Len(s) \in Nat /\ o \in Nat /\ o <= Len(s)
    BY SMT
  <2>f. PICK f : f = SubSeq(s, 1, o)
    BY Zenon
  <2>r. PICK r : r = SubSeq(s, o + 1, Len(s))
    BY Zenon
  <2>1. /\ f \in Seq(Nat) /\ r \in Seq(Nat) /\ Len(r) = Len(s) - o
        /\ Elems(s) = Elems(f) \cup Elems(r)
        /\ Rises(s) <=> Rises(f) /\ Rises(r) /\ \A x \in Elems(f), y \in Elems(r) : x < y
        /\ Distinct(s) <=> Distinct(f) /\ Distinct(r) /\ Elems(f) \cap Elems(r) = {}
    BY <2>f, <2>r, Split
  <2>2. PICK z \in Seq(Nat) : z = SubSeq(s, (o + n) + 1, Len(s)) /\ Elems(z) \subseteq Elems(r)
                              /\ (Rises(r) => Rises(z)) /\ (Distinct(r) => Distinct(z))
    <3>1. CASE n \in 0..Len(r)
      <4>1. PICK z \in Seq(Nat) : /\ z = SubSeq(r, n + 1, Len(r)) /\ Elems(z) \subseteq Elems(r)
                                  /\ (Rises(r) => Rises(z)) /\ (Distinct(r) => Distinct(z))
        BY <2>1, <3>1, <1>Rest, Zenon
      <4>2. SubSeq(r, n + 1, Len(r)) = SubSeq(s, (o + n) + 1, Len(s))
        BY <3>1, <2>1, <2>r, SuffixOfSuffix, SMT
      <4> QED BY <4>1, <4>2, Zenon
    <3>2. CASE n \notin 0..Len(r)
      <4>1. (o + n) + 1 > Len(s) /\ (o + n) + 1 \in Nat
        BY <3>2, <2>0, <2>1, SMT
      <4>2. SubSeq(s, (o + n) + 1, Len(s)) = <<>>
        BY <4>1, <2>0, SMT
      <4>3. <<>> \in Seq(Nat) /\ Elems(<<>>) = {} /\ Rises(<<>>) /\ Distinct(<<>>)
        BY SMT DEF Elems, Rises, Distinct
      <4> QED BY <4>2, <4>3, Zenon
    <3> QED BY <3>1, <3>2, Zenon
  <2>3. PICK t \in Seq(Nat) : /\ t = f \o z /\ Elems(t) = Elems(f) \cup Elems(z)
                              /\ Rises(t) <=> Rises(f) /\ Rises(z) /\ \A x \in Elems(f), y \in Elems(z) : x < y
                              /\ Distinct(t) <=> Distinct(f) /\ Distinct(z) /\ Elems(f) \cap Elems(z) = {}
    BY <2>1, Joined, Zenon
  <2>4. t = Br!Without(s, o, n)
    <3>1. o + 1 + n = (o + n) + 1
      BY SMTT(30), <2>0
    <3> QED BY <3>1, <2>f, <2>2, <2>3, Zenon DEF Br!Without
  <2>5. Elems(t) \subseteq Elems(s) /\ (Rises(s) => Rises(t)) /\ (Distinct(s) => Distinct(t))
    BY <2>1, <2>2, <2>3, Zenon
  <2>6. s = <<>> => t = <<>>
    <3> SUFFICES ASSUME s = <<>>, t # <<>>
                 PROVE  FALSE
      OBVIOUS
    <3>1. 1 \in 1..Len(t)
      BY SMT
    <3>2. t[1] \in Elems(t) /\ Elems(s) = {}
      BY <3>1, SMT DEF Elems
    <3> QED BY <2>5, <3>2
  <2> QED BY <2>4, <2>5, <2>6
(* An end and the other one. *)
<1>BothEnds. ASSUME NEW e \in {0, 1}
             PROVE  \E d \in {0, 1} : d = 1 - e /\ e = 1 - d /\ d # e /\ {0, 1} = {d, e}
  BY SMT
(* What is set of one end leaves the other. *)
<1>OneEnd. ASSUME NEW S, NEW f \in [{0, 1} -> S], NEW e \in {0, 1}, NEW v \in S, NEW d \in {0, 1}, d # e
           PROVE  /\ [f EXCEPT ![e] = v] \in [{0, 1} -> S]
                  /\ [f EXCEPT ![e] = v][e] = v /\ [f EXCEPT ![e] = v][d] = f[d]
  BY <1>OneEnd
(* NewBridge. *)
<1>InitBridgeInv. Br!Init => BridgeInv
  <2> SUFFICES ASSUME Br!Init
               PROVE  BridgeInv
    OBVIOUS
  <2> USE NetConnsAssumption
  <2>1. BridgeData /\ BridgeRest
    BY SMTT(30) DEF Br!Init, Br!Ends, BridgeData, BridgeRest
  <2>2. BridgeCount
    <3>1. r_written[0] \cup r_written[1] = 1..0 /\ 0 \in 0..BridgePackets
      BY SMT DEF Br!Init, Br!Ends
    <3> QED BY <3>1 DEF Br!Init, Br!Ends, BridgeCount
  <2>3. Elems(<<>>) = {} /\ Rises(<<>>) /\ Distinct(<<>>)
    BY SMTT(30) DEF Elems, Rises, Distinct
  <2>4. \A ask, left, turns, done : left = 0 => Way({}, <<>>, <<>>, <<>>, {}, ask, left, turns, done)
    BY SMTT(30), <2>3 DEF Way
  <2>5. BridgeWay(0) /\ BridgeWay(1)
    BY <2>4, SMT DEF BridgeWay, Br!Init, Br!Ends
  <2> QED BY SMTT(30), <2>1, <2>2, <2>5 DEF BridgeInv
(* A step at one end leaves the other direction alone. *)
<1>BridgeEnd. ASSUME BridgeInv, NEW e \in {0, 1}, NEW d \in {0, 1}, d = 1 - e, e = 1 - d, {0, 1} = {d, e},
                     BridgeData', BridgeRest', BridgeCount', NEW out, gone' = gone \cup out, out \cap r_written[d] = {},
                     r_written'[d] = r_written[d], r_got'[e] = r_got[e], queue'[d] = queue[d], stack'[d] = stack[d],
                     reorderNWrites'[d] = reorderNWrites[d], rounds'[d] = rounds[d],
                     (d \in asked') = (d \in asked), (e \in r_closed') = (e \in r_closed),
                     Way(r_written'[e], r_got'[d], queue'[e], stack'[e], gone', e \in asked', reorderNWrites'[e],
                         rounds'[e], d \in r_closed')
              PROVE  BridgeInv'
  <2> USE <1>BridgeEnd
  <2>1. Way(r_written[d], r_got[e], queue[d], stack[d], gone, d \in asked, reorderNWrites[d],
            rounds[d], e \in r_closed)
    BY Zenon DEF BridgeInv, BridgeWay
  <2>2. Way(r_written[d], r_got[e], queue[d], stack[d], gone \cup out, d \in asked, reorderNWrites[d],
            rounds[d], e \in r_closed)
    BY <2>1, <1>WayOther, Zenon
  <2>3. Way(r_written'[d], r_got'[e], queue'[d], stack'[d], gone', d \in asked', reorderNWrites'[d],
            rounds'[d], e \in r_closed')
    BY <2>2, Zenon
  <2>4. BridgeWay(e)'
    BY Zenon DEF BridgeWay
  <2>5. BridgeWay(d)'
    BY <2>3, Zenon DEF BridgeWay
  <2>6. BridgeWay(0)' /\ BridgeWay(1)'
    BY <2>4, <2>5, Zenon
  <2> QED BY <2>6, Zenon DEF BridgeInv
(* Read, its end, Close and the settings that concern no packet on its way. *)
<1>BridgeQuiet. ASSUME BridgeInv, UNCHANGED <<queue, stack, r_closed, r_written, r_got, gone, rounds, asked, reorderNWrites>>,
                       BridgeRest'
                PROVE  BridgeInv'
  <2> USE <1>BridgeQuiet
  <2>1. BridgeData' /\ BridgeCount'
    BY ZenonT(40) DEF BridgeInv, BridgeData, BridgeCount
  <2>2. BridgeWay(0)' /\ BridgeWay(1)'
    BY SMTT(30) DEF BridgeInv, BridgeWay
  <2> QED BY <2>1, <2>2 DEF BridgeInv
(* Packets are numbered in the order of the Writes. *)
<1>PushNumber. ASSUME BridgeInv, Br!NextPacket \in Br!Packets
               PROVE  \E p \in Nat :
                        /\ p = Br!NextPacket /\ p \in 1..BridgePackets
                        /\ p \notin r_written[0] \cup r_written[1] /\ p \notin gone
                        /\ \A x \in r_written[0] \cup r_written[1] : x < p
                        /\ r_written[0] \cup r_written[1] \cup {p} = 1..p
  <2> USE <1>PushNumber
  <2>1. PICK n \in 0..BridgePackets : r_written[0] \cup r_written[1] = 1..n
    BY DEF BridgeInv, BridgeCount
  <2>2. n \in Nat /\ 1 + n \in 1..(BridgePackets + 1) /\ (1 + n) - 1 = n
    BY NetConnsAssumption, SMT
  <2>3. \A p \in 1..(BridgePackets + 1) : 1..(p - 1) = 1..n => p = 1 + n
    <3> SUFFICES ASSUME NEW p \in 1..(BridgePackets + 1), 1..(p - 1) = 1..n
                 PROVE  p = 1 + n
      OBVIOUS
    <3>1. p \in Nat /\ p >= 1
      BY NetConnsAssumption, SMT
    <3>2. p - 1 \in 1..n \/ p = 1
      BY <3>1, SMT
    <3>3. n \in 1..(p - 1) \/ n = 0
      BY SMTT(30), <2>2
    <3> QED BY <2>2, <3>1, <3>2, <3>3, SMTT(30)
  <2>4. Br!NextPacket = 1 + n
    BY <2>1, <2>2, <2>3 DEF Br!NextPacket
  <2>5. PICK p \in Nat : p = Br!NextPacket /\ p = n + 1 /\ p \in 1..BridgePackets
    BY <2>2, <2>4, SMTT(30) DEF Br!Packets
  <2>6. p \notin 1..n /\ (1..n) \cup {p} = 1..p /\ \A x \in 1..n : x < p
    BY SMTT(30), <2>2, <2>5
  <2>7. p \notin gone
    BY <2>1, <2>6 DEF BridgeInv, BridgeCount
  <2> QED BY SMTT(30), <2>1, <2>5, <2>6, <2>7
(* A new packet, in one direction. *)
<1>OneMore. ASSUME BridgeCount, NEW e \in {0, 1}, NEW d \in {0, 1}, d # e, NEW p \in Nat, p \in 1..BridgePackets,
                   p \notin r_written[0] \cup r_written[1], r_written[0] \cup r_written[1] \cup {p} = 1..p,
                   r_written'[e] = r_written[e] \cup {p}, r_written'[d] = r_written[d],
                   gone' \in {gone, gone \cup {p}}
            PROVE  BridgeCount'
  <2> USE <1>OneMore
  <2>1. /\ r_written[0] \cap r_written[1] = {} /\ gone \subseteq r_written[0] \cup r_written[1]
    BY Zenon DEF BridgeCount
  <2>2. /\ r_written'[0] \cup r_written'[1] = r_written[0] \cup r_written[1] \cup {p}
        /\ r_written'[0] \cap r_written'[1] = {}
    <3>1. CASE e = 0 /\ d = 1
      BY <2>1, <3>1
    <3>2. CASE e = 1 /\ d = 0
      BY <2>1, <3>2
    <3> QED BY <3>1, <3>2, SMT
  <2>3. gone' \subseteq r_written'[0] \cup r_written'[1]
    BY <2>1, <2>2, Zenon
  <2>4. p \in 0..BridgePackets
    BY NetConnsAssumption, SMT
  <2> QED BY <2>2, <2>3, <2>4, Zenon DEF BridgeCount
(* Push: what it does with a packet is right if it is for its direction. *)
<1>BridgePush. ASSUME BridgeInv, NEW e \in {0, 1}, NEW d \in {0, 1}, d = 1 - e, e = 1 - d, d # e, {0, 1} = {d, e},
                      NEW p \in Nat, p \in 1..BridgePackets, p \notin r_written[0] \cup r_written[1],
                      r_written[0] \cup r_written[1] \cup {p} = 1..p,
                      r_written' = [r_written EXCEPT ![e] = @ \cup {p}], gone' \in {gone, gone \cup {p}},
                      UNCHANGED <<closing, r_closed, filterCB, lossChance, settings, r_pc, r_got, asked>>,
                      queue' \in [{0, 1} -> Seq(Nat)], queue'[d] = queue[d],
                      stack' \in [{0, 1} -> Seq(Nat)], stack'[d] = stack[d],
                      reorderNWrites' \in [{0, 1} -> Nat], reorderNWrites'[d] = reorderNWrites[d],
                      rounds' \in [{0, 1} -> Nat], rounds'[d] = rounds[d], dropNWrites' \in [{0, 1} -> Nat],
                      Way(r_written[e] \cup {p}, r_got[d], queue'[e], stack'[e], gone', e \in asked,
                          reorderNWrites'[e], rounds'[e], d \in r_closed)
               PROVE  BridgeInv'
  <2> USE <1>BridgePush
  <2>1. BridgeData'
    BY Zenon DEF BridgeInv, BridgeData
  <2>2. BridgeRest'
    BY Zenon DEF BridgeInv, BridgeRest
  <2>3. r_written'[e] = r_written[e] \cup {p} /\ r_written'[d] = r_written[d]
    BY Zenon DEF BridgeInv, BridgeData
  <2>4. BridgeCount'
    BY <2>3, <1>OneMore, Zenon DEF BridgeInv
  <2>5. PICK out : out \cap r_written[d] = {} /\ gone' = gone \cup out
    <3>1. (d = 0 \/ d = 1) /\ (gone' = gone \/ gone' = gone \cup {p})
      OBVIOUS
    <3>2. p \notin r_written[0] /\ p \notin r_written[1]
      OBVIOUS
    <3> HIDE <1>BridgePush
    <3>3. {} \cap r_written[d] = {} /\ {p} \cap r_written[d] = {} /\ gone = gone \cup {}
      BY <3>1, <3>2
    <3> QED BY <3>1, <3>3
  <2>6. Way(r_written'[e], r_got'[d], queue'[e], stack'[e], gone', e \in asked', reorderNWrites'[e],
            rounds'[e], d \in r_closed')
    BY <2>3, ZenonT(40)
  <2> QED BY <2>1, <2>2, <2>3, <2>4, <2>5, <2>6, <1>BridgeEnd, Zenon
(* The invariant of a direction with its types, as every action uses it. *)
<1>BridgeDirection. ASSUME BridgeInv, NEW e \in {0, 1}, NEW d \in {0, 1}, d = 1 - e
                    PROVE  /\ Way(r_written[e], r_got[d], queue[e], stack[e], gone, e \in asked, reorderNWrites[e],
                                  rounds[e], d \in r_closed)
                           /\ queue[e] \in Seq(Nat) /\ stack[e] \in Seq(Nat) /\ r_got[d] \in Seq(Nat)
                           /\ reorderNWrites[e] \in Nat /\ rounds[e] \in Nat /\ r_written[e] \subseteq 1..BridgePackets
  <2> USE <1>BridgeDirection
  <2>1. BridgeWay(e)
    BY DEF BridgeInv
  <2>2. Way(r_written[e], r_got[d], queue[e], stack[e], gone, e \in asked, reorderNWrites[e],
            rounds[e], d \in r_closed)
    BY <2>1, Zenon DEF BridgeWay
  <2>3. /\ queue[e] \in Seq(Nat) /\ stack[e] \in Seq(Nat) /\ r_got[d] \in Seq(Nat)
        /\ reorderNWrites[e] \in Nat /\ rounds[e] \in Nat /\ r_written[e] \subseteq 1..BridgePackets
    BY DEF BridgeInv, BridgeData
  <2> QED BY <2>2, <2>3, Zenon
(* Push that loses, refuses, drops or filters the packet. *)
<1>BridgeDiscard. ASSUME BridgeInv, NEW e \in {0, 1}, Br!Discard(e, Br!NextPacket)
                  PROVE  BridgeInv'
  <2> USE <1>BridgeDiscard
  <2>1. PICK d \in {0, 1} : d = 1 - e /\ e = 1 - d /\ d # e /\ {0, 1} = {d, e}
    BY <1>BothEnds
  <2>2. PICK p \in Nat :
          /\ p = Br!NextPacket /\ p \in 1..BridgePackets
          /\ p \notin r_written[0] \cup r_written[1] /\ p \notin gone
          /\ \A x \in r_written[0] \cup r_written[1] : x < p
          /\ r_written[0] \cup r_written[1] \cup {p} = 1..p
    BY <1>PushNumber, Zenon DEF Br!Discard, Br!Wrote
  <2>3. /\ Way(r_written[e], r_got[d], queue[e], stack[e], gone, e \in asked, reorderNWrites[e],
               rounds[e], d \in r_closed)
        /\ queue[e] \in Seq(Nat) /\ stack[e] \in Seq(Nat) /\ reorderNWrites[e] \in Nat /\ rounds[e] \in Nat
    BY <2>1, <1>BridgeDirection, Zenon
  <2>4. /\ r_written' = [r_written EXCEPT ![e] = @ \cup {p}] /\ gone' = gone \cup {p}
        /\ UNCHANGED <<closing, r_closed, filterCB, lossChance, settings, r_pc, r_got, asked>>
        /\ UNCHANGED <<queue, stack, reorderNWrites, rounds>>
    BY SMTT(30), <2>2 DEF Br!Discard, Br!Wrote
  <2>5. /\ queue' \in [{0, 1} -> Seq(Nat)] /\ stack' \in [{0, 1} -> Seq(Nat)]
        /\ reorderNWrites' \in [{0, 1} -> Nat] /\ rounds' \in [{0, 1} -> Nat]
    BY SMTT(30), <2>4 DEF BridgeInv, BridgeData
  <2>6. dropNWrites' \in [{0, 1} -> Nat]
    BY SMTT(30) DEF Br!Discard, BridgeInv, BridgeRest
  <2>7. p \notin r_written[e]
    BY <2>2
  <2>8. Way(r_written[e] \cup {p}, r_got[d], queue[e], stack[e], gone \cup {p}, e \in asked,
            reorderNWrites[e], rounds[e], d \in r_closed)
    BY <2>3, <2>7, <1>WayDiscard, Zenon
  <2>9. Way(r_written[e] \cup {p}, r_got[d], queue'[e], stack'[e], gone', e \in asked,
            reorderNWrites'[e], rounds'[e], d \in r_closed)
    BY <2>4, <2>8, Zenon
  <2> QED BY <2>1, <2>2, <2>4, <2>5, <2>6, <2>9, <1>BridgePush, Zenon
(* Push that queues it: no end is closing, so its reader has not got EOF. *)
<1>BridgeEnqueue. ASSUME BridgeInv, NEW e \in {0, 1}, Br!Enqueue(e, Br!NextPacket)
                  PROVE  BridgeInv'
  <2> USE <1>BridgeEnqueue
  <2>1. PICK d \in {0, 1} : d = 1 - e /\ e = 1 - d /\ d # e /\ {0, 1} = {d, e}
    BY <1>BothEnds
  <2>2. PICK p \in Nat :
          /\ p = Br!NextPacket /\ p \in 1..BridgePackets
          /\ p \notin r_written[0] \cup r_written[1] /\ p \notin gone
          /\ \A x \in r_written[0] \cup r_written[1] : x < p
          /\ r_written[0] \cup r_written[1] \cup {p} = 1..p
    BY <1>PushNumber, Zenon DEF Br!Enqueue, Br!Wrote
  <2>3. /\ Way(r_written[e], r_got[d], queue[e], stack[e], gone, e \in asked, reorderNWrites[e],
               rounds[e], d \in r_closed)
        /\ queue[e] \in Seq(Nat) /\ stack[e] \in Seq(Nat) /\ reorderNWrites[e] \in Nat /\ rounds[e] \in Nat
    BY <2>1, <1>BridgeDirection, Zenon
  <2>4. /\ r_written' = [r_written EXCEPT ![e] = @ \cup {p}] /\ gone' = gone
        /\ queue' = [queue EXCEPT ![e] = Append(@, p)]
        /\ UNCHANGED <<closing, r_closed, filterCB, lossChance, settings, r_pc, r_got, asked>>
        /\ UNCHANGED <<stack, dropNWrites, reorderNWrites, rounds>>
    BY <2>2 DEF Br!Enqueue, Br!Wrote
  <2>5. /\ queue' \in [{0, 1} -> Seq(Nat)] /\ stack' \in [{0, 1} -> Seq(Nat)]
        /\ reorderNWrites' \in [{0, 1} -> Nat] /\ rounds' \in [{0, 1} -> Nat]
        /\ queue'[e] = Append(queue[e], p) /\ queue'[d] = queue[d]
    <3>1. Append(queue[e], p) \in Seq(Nat)
      BY <2>2, <2>3, Appended, Zenon
    <3>2. PICK q \in Seq(Nat) : q = Append(queue[e], p)
      BY <3>1, Zenon
    <3>3. queue' = [queue EXCEPT ![e] = q] /\ queue \in [{0, 1} -> Seq(Nat)]
      BY <2>4, <3>2 DEF BridgeInv, BridgeData
    <3>4. queue' \in [{0, 1} -> Seq(Nat)] /\ queue'[e] = q /\ queue'[d] = queue[d]
      BY SMTT(30), <2>1, <3>3
    <3>5. /\ stack' \in [{0, 1} -> Seq(Nat)] /\ reorderNWrites' \in [{0, 1} -> Nat]
          /\ rounds' \in [{0, 1} -> Nat]
      BY SMTT(30), <2>4 DEF BridgeInv, BridgeData
    <3> QED BY <3>2, <3>4, <3>5, Zenon
  <2>6. dropNWrites' \in [{0, 1} -> Nat] /\ d \notin r_closed
    BY SMTT(30), <2>4 DEF Br!Enqueue, Br!Carried, Br!Refused, BridgeInv, BridgeRest
  <2>7. p \notin r_written[e] /\ \A x \in r_written[e] : x < p
    BY <2>2
  <2>8. Way(r_written[e] \cup {p}, r_got[d], Append(queue[e], p), stack[e], gone, e \in asked,
            reorderNWrites[e], rounds[e], d \in r_closed)
    BY <2>2, <2>3, <2>6, <2>7, <1>WayEnqueue, Zenon
  <2>9. Way(r_written[e] \cup {p}, r_got[d], queue'[e], stack'[e], gone', e \in asked,
            reorderNWrites'[e], rounds'[e], d \in r_closed)
    BY <2>4, <2>5, <2>8, Zenon
  <2> QED BY <2>1, <2>2, <2>4, <2>5, <2>6, <2>9, <1>BridgePush, Zenon
(* Push that keeps it back, and forwards the stack with the last one. *)
<1>BridgeKeep. ASSUME BridgeInv, NEW e \in {0, 1}, Br!Keep(e, Br!NextPacket)
               PROVE  BridgeInv'
  <2> USE <1>BridgeKeep
  <2>1. PICK d \in {0, 1} : d = 1 - e /\ e = 1 - d /\ d # e /\ {0, 1} = {d, e}
    BY <1>BothEnds
  <2>2. PICK p \in Nat :
          /\ p = Br!NextPacket /\ p \in 1..BridgePackets
          /\ p \notin r_written[0] \cup r_written[1] /\ p \notin gone
          /\ \A x \in r_written[0] \cup r_written[1] : x < p
          /\ r_written[0] \cup r_written[1] \cup {p} = 1..p
    BY <1>PushNumber, Zenon DEF Br!Keep, Br!Wrote
  <2>3. /\ Way(r_written[e], r_got[d], queue[e], stack[e], gone, e \in asked, reorderNWrites[e],
               rounds[e], d \in r_closed)
        /\ queue[e] \in Seq(Nat) /\ stack[e] \in Seq(Nat) /\ reorderNWrites[e] \in Nat /\ rounds[e] \in Nat
    BY <2>1, <1>BridgeDirection, Zenon
  <2>4. /\ r_written' = [r_written EXCEPT ![e] = @ \cup {p}] /\ gone' = gone
        /\ reorderNWrites[e] > 0 /\ reorderNWrites' = [reorderNWrites EXCEPT ![e] = @ - 1]
        /\ UNCHANGED <<closing, r_closed, filterCB, lossChance, settings, r_pc, r_got, asked, dropNWrites>>
    BY <2>2, Zenon DEF Br!Keep, Br!Wrote
  <2>5. dropNWrites' \in [{0, 1} -> Nat] /\ d \notin r_closed
    BY <2>4, Zenon DEF Br!Keep, Br!Carried, Br!Refused, BridgeInv, BridgeRest
  <2>6. p \notin r_written[e]
    BY <2>2
  <2>7. Append(stack[e], p) \in Seq(Nat) /\ reorderNWrites[e] - 1 \in Nat /\ reorderNWrites[e] # 0
        /\ rounds[e] + 1 \in Nat
    BY <2>2, <2>3, <2>4, SMTT(30)
  <2>8. PICK s \in Seq(Nat), left \in Nat, turns \in Nat :
          s = Append(stack[e], p) /\ left = reorderNWrites[e] - 1 /\ turns = rounds[e] + 1
    BY <2>7, Zenon
  <2>9. /\ e \in asked
        /\ Way(r_written[e] \cup {p}, r_got[d], queue[e], s, gone, e \in asked, left, rounds[e], d \in r_closed)
    <3>1. \A l : Way(r_written[e] \cup {p}, r_got[d], queue[e], Append(stack[e], p), gone, e \in asked,
                     l, rounds[e], d \in r_closed)
      BY <2>2, <2>3, <2>6, <2>7, <1>WayKeep, Zenon
    <3>2. e \in asked
      BY <2>3, <2>7, Zenon DEF Way
    <3> QED BY <2>8, <3>1, <3>2, Zenon
  <2>10. PICK f \in Seq(Nat) : /\ f = IF Len(s) < 2 THEN s ELSE Br!Reversed(s)
                               /\ Elems(f) = Elems(s) /\ (Distinct(s) => Distinct(f))
    BY Turned
  <2>11. /\ Way(r_written[e] \cup {p}, r_got[d], queue[e] \o f, f, gone, e \in asked, left, turns, d \in r_closed)
         /\ Way(r_written[e] \cup {p}, r_got[d], queue[e], f, gone, e \in asked, left, turns, d \in r_closed)
    BY <2>3, <2>5, <2>8, <2>9, <2>10, <1>WayForward, Zenon
  <2>12. /\ queue' = [queue EXCEPT ![e] = IF left = 0 /\ (e = 1 \/ Len(s) >= 2) THEN @ \o f ELSE @]
         /\ stack' = [stack EXCEPT ![e] = IF left = 0 THEN f ELSE s]
         /\ rounds' = [rounds EXCEPT ![e] = IF left = 0 THEN turns ELSE rounds[e]]
         /\ reorderNWrites' = [reorderNWrites EXCEPT ![e] = left]
    <3>1. left = 0 <=> reorderNWrites[e] = 1
      BY <2>3, <2>4, <2>8, SMTT(30)
    <3> QED BY <2>2, <2>4, <2>8, <2>10, <3>1, Zenon DEF Br!Keep
  <2>13. /\ queue' \in [{0, 1} -> Seq(Nat)] /\ stack' \in [{0, 1} -> Seq(Nat)]
         /\ reorderNWrites' \in [{0, 1} -> Nat] /\ rounds' \in [{0, 1} -> Nat]
    <3>1. queue[e] \o f \in Seq(Nat)
      BY <2>3, <2>10, SMT
    <3>2. PICK q \in Seq(Nat) : q = IF left = 0 /\ (e = 1 \/ Len(s) >= 2) THEN queue[e] \o f ELSE queue[e]
      BY <2>3, <3>1, Zenon
    <3>3. PICK k \in Seq(Nat) : k = IF left = 0 THEN f ELSE s
      BY <2>8, <2>10, Zenon
    <3>4. queue' = [queue EXCEPT ![e] = q] /\ stack' = [stack EXCEPT ![e] = k]
      BY SMTT(30), <2>12, <3>2, <3>3
    <3>5. queue' \in [{0, 1} -> Seq(Nat)] /\ stack' \in [{0, 1} -> Seq(Nat)]
      BY SMTT(30), <3>4 DEF BridgeInv, BridgeData
    <3>6. reorderNWrites' \in [{0, 1} -> Nat] /\ rounds' \in [{0, 1} -> Nat]
      BY <2>3, <2>8, <2>12, Zenon DEF BridgeInv, BridgeData
    <3> QED BY SMTT(30), <3>5, <3>6
  <2>14. /\ queue'[d] = queue[d] /\ stack'[d] = stack[d] /\ reorderNWrites'[d] = reorderNWrites[d]
         /\ rounds'[d] = rounds[d] /\ reorderNWrites'[e] = left
    BY <2>1, <2>12 DEF BridgeInv, BridgeData
  <2>15. Way(r_written[e] \cup {p}, r_got[d], queue'[e], stack'[e], gone', e \in asked,
             reorderNWrites'[e], rounds'[e], d \in r_closed)
    <3>1. CASE left # 0
      <4>1. queue'[e] = queue[e] /\ stack'[e] = s /\ rounds'[e] = rounds[e]
        BY <2>12, <3>1 DEF BridgeInv, BridgeData
      <4> QED BY <2>4, <2>9, <2>14, <4>1, Zenon
    <3>2. CASE left = 0
      <4>1. /\ queue'[e] \in {queue[e], queue[e] \o f} /\ stack'[e] = f /\ rounds'[e] = turns
        BY SMTT(30), <2>12, <3>2 DEF BridgeInv, BridgeData
      <4> QED BY <2>4, <2>11, <2>14, <4>1, Zenon
    <3> QED BY <3>1, <3>2, Zenon
  <2> QED BY <2>1, <2>2, <2>4, <2>5, <2>13, <2>14, <2>15, <1>BridgePush, Zenon
(* The elements of a queue, as the model of the bridge writes them. *)
<1>BridgeContents. ASSUME NEW s \in Seq(Nat)
                PROVE  Br!Contents(s) = Elems(s) /\ (Distinct(s) => \A i, j \in DOMAIN s : s[i] = s[j] => i = j)
  BY SMTT(30) DEF Br!Contents, Elems, Distinct
(* Tick, for the packets that go to end d. *)
<1>BridgeHands. ASSUME BridgeInv, Br!Tick, NEW e \in {0, 1}, NEW d \in {0, 1}, d = 1 - e, e = 1 - d
                PROVE  /\ r_got'[d] \in Seq(Nat) /\ queue'[e] \in Seq(Nat)
                       /\ BridgeWay(e)'
  <2> USE <1>BridgeHands
  <2>1. /\ Way(r_written[e], r_got[d], queue[e], stack[e], gone, e \in asked, reorderNWrites[e],
               rounds[e], d \in r_closed)
        /\ queue[e] \in Seq(Nat) /\ r_got[d] \in Seq(Nat)
    BY <1>BridgeDirection, Zenon
  <2>2. /\ r_closed' = r_closed \cup {f \in {0, 1} : Br!Closes(f)}
        /\ queue'[e] = IF Br!HandsTo(d) THEN Tail(queue[e]) ELSE queue[e]
        /\ r_got'[d] = IF Br!HandsTo(d) THEN Append(r_got[d], Head(queue[e])) ELSE r_got[d]
        /\ UNCHANGED <<stack, r_written, gone, asked, rounds, reorderNWrites>>
    BY SMTT(30) DEF Br!Tick, Br!Ends, Br!Other, Br!setup
  <2>3. /\ Br!HandsTo(d) => queue[e] # <<>> /\ d \notin r_closed
        /\ Br!Closes(d) => queue[e] = <<>>
    BY DEF Br!HandsTo, Br!Closes, Br!Other
  <2>4. SUFFICES /\ r_got'[d] \in Seq(Nat) /\ queue'[e] \in Seq(Nat)
                 /\ Way(r_written[e], r_got'[d], queue'[e], stack[e], gone, e \in asked, reorderNWrites[e],
                        rounds[e], d \in r_closed')
    BY <2>2, Zenon DEF BridgeWay
  <2>5. CASE Br!HandsTo(d)
    <3>1. PICK h \in Nat, t \in Seq(Nat) : h = Head(queue[e]) /\ t = Tail(queue[e])
      <4>1. Head(queue[e]) \in Nat /\ Tail(queue[e]) \in Seq(Nat)
        BY <2>1, <2>3, <2>5, Taken, Zenon
      <4> QED BY <4>1, Zenon
    <3>2. Append(r_got[d], h) \in Seq(Nat)
      BY SMTT(30), <2>1, <3>1
    <3>3. (d \in r_closed') = (d \in r_closed)
      <4>1. ~Br!Closes(d)
        BY <2>3, <2>5, Zenon
      <4>2. d \in r_closed' <=> d \in r_closed
        BY <2>2, <4>1, Zenon
      <4> QED BY <4>2, SMT
    <3>4. Way(r_written[e], Append(r_got[d], Head(queue[e])), Tail(queue[e]), stack[e], gone, e \in asked,
              reorderNWrites[e], rounds[e], d \in r_closed)
      BY <2>1, <2>3, <2>5, <1>WayTake, Zenon
    <3>5. queue'[e] = Tail(queue[e]) /\ r_got'[d] = Append(r_got[d], Head(queue[e]))
      BY <2>2, <2>5, Zenon
    <3> QED BY <3>1, <3>2, <3>3, <3>4, <3>5, Zenon
  <2>6. CASE ~Br!HandsTo(d)
    <3>1. queue'[e] = queue[e] /\ r_got'[d] = r_got[d]
      BY <2>2, <2>6, ZenonT(40)
    <3>2. d \in r_closed' => d \in r_closed \/ queue[e] = <<>>
      BY <2>2, <2>3
    <3>3. Way(r_written[e], r_got[d], queue[e], stack[e], gone, e \in asked, reorderNWrites[e],
              rounds[e], d \in r_closed')
      BY <2>1, <3>2, Zenon DEF Way
    <3> QED BY <2>1, <3>1, <3>3, Zenon
  <2> QED BY <2>5, <2>6
(* Tick, in both directions. *)
<1>BridgeTick. ASSUME BridgeInv, Br!Tick
               PROVE  BridgeInv'
  <2> USE <1>BridgeTick
  <2>1. /\ r_got'[1] \in Seq(Nat) /\ queue'[0] \in Seq(Nat) /\ BridgeWay(0)'
        /\ r_got'[0] \in Seq(Nat) /\ queue'[1] \in Seq(Nat) /\ BridgeWay(1)'
    BY <1>BridgeHands, SMT
  <2>2. queue' \in [{0, 1} -> Seq(Nat)] /\ r_got' \in [{0, 1} -> Seq(Nat)]
    <3>1. DOMAIN queue' = {0, 1} /\ queue' = [e \in {0, 1} |-> queue'[e]]
      BY SMTT(30) DEF Br!Tick, Br!Ends
    <3>2. DOMAIN r_got' = {0, 1} /\ r_got' = [e \in {0, 1} |-> r_got'[e]]
      BY DEF Br!Tick, Br!Ends
    <3> QED BY SMTT(30), <2>1, <3>1, <3>2
  <2>3. BridgeData'
    BY <2>2, Zenon DEF Br!Tick, Br!setup, BridgeInv, BridgeData
  <2>4. BridgeRest'
    <3>1. r_closed' \subseteq closing
      BY Zenon DEF Br!Tick, Br!Ends, Br!Closes, BridgeInv, BridgeRest
    <3>2. r_pc' \in [{0, 1} -> {"idle", "select", "expired"}]
      BY DEF Br!Tick, Br!Ends, BridgeInv, BridgeRest
    <3> QED BY <3>1, <3>2 DEF Br!Tick, Br!setup, BridgeInv, BridgeRest
  <2>5. BridgeCount'
    BY Zenon DEF Br!Tick, BridgeInv, BridgeCount
  <2> QED BY <2>1, <2>3, <2>4, <2>5 DEF BridgeInv
(* Reorder, at one end. *)
<1>BridgeReorder. ASSUME BridgeInv, NEW e \in {0, 1}, Br!Reorder(e)
                  PROVE  BridgeInv'
  <2> USE <1>BridgeReorder
  <2>1. PICK d \in {0, 1} : d = 1 - e /\ e = 1 - d /\ d # e /\ {0, 1} = {d, e}
    BY <1>BothEnds
  <2>2. /\ Way(r_written[e], r_got[d], queue[e], stack[e], gone, e \in asked, reorderNWrites[e],
               rounds[e], d \in r_closed)
        /\ queue[e] \in Seq(Nat)
    BY <2>1, <1>BridgeDirection, Zenon
  <2>3. PICK q \in Seq(Nat) : q = Br!Reversed(queue[e])
    BY <2>2, Turned, Zenon
  <2>4. /\ queue' = [queue EXCEPT ![e] = q] /\ asked' = asked \cup {e} /\ settings' \in 0..MaxSettings
        /\ queue[e] # <<>>
        /\ UNCHANGED <<stack, closing, r_closed, dropNWrites, reorderNWrites, filterCB, lossChance,
                       r_pc, r_written, r_got, gone, rounds>>
    <3>1. settings' \in 0..MaxSettings
      BY SMTT(30), NetConnsAssumption DEF Br!Reorder, BridgeInv, BridgeRest
    <3>2. queue[e] # <<>>
      BY SMTT(30) DEF Br!Reorder
    <3> QED BY <2>3, <3>1, <3>2, Zenon DEF Br!Reorder
  <2>5. BridgeData' /\ queue'[e] = q /\ queue'[d] = queue[d]
    BY <2>1, <2>4 DEF BridgeInv, BridgeData
  <2>6. BridgeRest' /\ BridgeCount'
    BY <2>4, Zenon DEF BridgeInv, BridgeRest, BridgeCount
  <2>7. Way(r_written[e], r_got[d], q, stack[e], gone, TRUE, reorderNWrites[e], rounds[e], d \in r_closed)
    BY <2>2, <2>3, <2>4, <1>WayTurn, Zenon
  <2>8. (e \in asked') = TRUE /\ (d \in asked') = (d \in asked)
    BY <2>1, <2>4, SMTT(30)
  <2>9. Way(r_written'[e], r_got'[d], queue'[e], stack'[e], gone', e \in asked', reorderNWrites'[e],
            rounds'[e], d \in r_closed')
    BY <2>4, <2>5, <2>7, <2>8, Zenon
  <2>10. gone' = gone \cup {} /\ {} \cap r_written[d] = {}
    BY <2>4, Zenon
  <2> QED BY <2>1, <2>4, <2>5, <2>6, <2>8, <2>9, <2>10, <1>BridgeEnd, Zenon
(* ReorderNextNWrites, which marks the direction as reordered. *)
<1>BridgeReorderNext. ASSUME BridgeInv, NEW e \in {0, 1}, NEW n \in Nat, Br!ReorderNextNWrites(e, n)
                      PROVE  BridgeInv'
  <2> USE <1>BridgeReorderNext
  <2>1. PICK d \in {0, 1} : d = 1 - e /\ e = 1 - d /\ d # e /\ {0, 1} = {d, e}
    BY <1>BothEnds
  <2>2. Way(r_written[e], r_got[d], queue[e], stack[e], gone, e \in asked, reorderNWrites[e],
            rounds[e], d \in r_closed)
    BY <2>1, <1>BridgeDirection, Zenon
  <2>4. /\ reorderNWrites' = [reorderNWrites EXCEPT ![e] = n] /\ asked' = asked \cup {e}
        /\ settings' \in 0..MaxSettings
        /\ UNCHANGED <<queue, stack, closing, r_closed, dropNWrites, filterCB, lossChance,
                       r_pc, r_written, r_got, gone, rounds>>
    BY SMTT(30), NetConnsAssumption DEF Br!ReorderNextNWrites, Br!Setting, BridgeInv, BridgeRest
  <2>5. BridgeData' /\ reorderNWrites'[d] = reorderNWrites[d]
    BY SMTT(30), <2>1, <2>4 DEF BridgeInv, BridgeData
  <2>6. BridgeRest' /\ BridgeCount'
    <3>1. asked' \subseteq {0, 1}
      BY <2>4 DEF BridgeInv, BridgeRest
    <3> QED BY <2>4, <3>1, Zenon DEF BridgeInv, BridgeRest, BridgeCount
  <2>8. (e \in asked') /\ (d \in asked') = (d \in asked)
    BY <2>1, <2>4, SMT
  <2>9. Way(r_written'[e], r_got'[d], queue'[e], stack'[e], gone', e \in asked', reorderNWrites'[e],
            rounds'[e], d \in r_closed')
    BY <2>2, <2>4, <2>8, Zenon DEF Way
  <2>10. gone' = gone \cup {} /\ {} \cap r_written[d] = {}
    BY <2>4, Zenon
  <2> QED BY <2>1, <2>4, <2>5, <2>6, <2>8, <2>9, <2>10, <1>BridgeEnd, Zenon
(* Drop, at one end. *)
<1>BridgeDrop. ASSUME BridgeInv, NEW e \in {0, 1}, NEW o \in Nat, NEW n \in Nat, Br!Drop(e, o, n)
               PROVE  BridgeInv'
  <2> USE <1>BridgeDrop
  <2>1. PICK d \in {0, 1} : d = 1 - e /\ e = 1 - d /\ d # e /\ {0, 1} = {d, e}
    BY <1>BothEnds
  <2>2. /\ Way(r_written[e], r_got[d], queue[e], stack[e], gone, e \in asked, reorderNWrites[e],
               rounds[e], d \in r_closed)
        /\ queue[e] \in Seq(Nat) /\ rounds[e] \in Nat
    BY <2>1, <1>BridgeDirection, Zenon
  <2>3. PICK t \in Seq(Nat) :
          /\ t = Br!Without(queue[e], o, n) /\ Elems(t) \subseteq Elems(queue[e])
          /\ (Rises(queue[e]) => Rises(t)) /\ (Distinct(queue[e]) => Distinct(t))
          /\ (queue[e] = <<>> => t = <<>>)
    <3>1. o \in 0..Len(queue[e])
      BY <2>2, SMT DEF Br!Drop
    <3> QED BY <2>2, <3>1, <1>Dropped, Zenon
  <2>4. /\ queue' = [queue EXCEPT ![e] = t] /\ settings' \in 0..MaxSettings
        /\ gone' = gone \cup (Br!Contents(queue[e]) \ Br!Contents(queue'[e]))
        /\ UNCHANGED <<stack, closing, r_closed, dropNWrites, reorderNWrites, filterCB, lossChance,
                       r_pc, r_written, r_got, asked, rounds>>
    <3>1. settings' \in 0..MaxSettings
      BY SMTT(30), NetConnsAssumption DEF Br!Drop, BridgeInv, BridgeRest
    <3> QED BY <2>3, <3>1, Zenon DEF Br!Drop
  <2>5. BridgeData' /\ queue'[e] = t /\ queue'[d] = queue[d]
    <3>1. queue \in [{0, 1} -> Seq(Nat)]
      BY Zenon DEF BridgeInv, BridgeData
    <3>2. queue' \in [{0, 1} -> Seq(Nat)] /\ queue'[e] = t /\ queue'[d] = queue[d]
      BY <2>1, <2>3, <2>4, <3>1, <1>OneEnd, Zenon
    <3> QED BY <2>4, <3>2, Zenon DEF BridgeInv, BridgeData
  <2>6. gone' = gone \cup (Elems(queue[e]) \ Elems(t))
    BY <2>2, <2>4, <2>5, <1>BridgeContents
  <2>7. Elems(queue[e]) \subseteq r_written[e] /\ r_written[e] \cap r_written[d] = {}
        /\ gone' \subseteq r_written[0] \cup r_written[1]
    BY <2>1, <2>2, <2>6, Zenon DEF Way, BridgeInv, BridgeCount
  <2>8. BridgeRest' /\ BridgeCount'
    BY <2>4, <2>7, Zenon DEF BridgeInv, BridgeRest, BridgeCount
  <2>9. Way(r_written[e], r_got[d], t, stack[e], gone \cup (Elems(queue[e]) \ Elems(t)), e \in asked,
            reorderNWrites[e], rounds[e], d \in r_closed)
    BY <2>2, <2>3, <1>WayDrop, Zenon
  <2>10. Way(r_written'[e], r_got'[d], queue'[e], stack'[e], gone', e \in asked', reorderNWrites'[e],
            rounds'[e], d \in r_closed')
    BY <2>4, <2>5, <2>6, <2>9, Zenon
  <2>11. (Elems(queue[e]) \ Elems(t)) \cap r_written[d] = {}
    BY <2>7, Zenon
  <2> QED BY <2>1, <2>4, <2>5, <2>6, <2>8, <2>10, <2>11, <1>BridgeEnd, Zenon
(* clear, for one direction. *)
<1>BridgeEmpties. ASSUME BridgeInv, Br!clear, NEW e \in {0, 1}, NEW d \in {0, 1}, d = 1 - e, e = 1 - d, {0, 1} = {d, e}
                  PROVE  BridgeWay(e)'
  <2> USE <1>BridgeEmpties
  <2>1. /\ Way(r_written[e], r_got[d], queue[e], stack[e], gone, e \in asked, reorderNWrites[e],
               rounds[e], d \in r_closed)
        /\ queue[e] \in Seq(Nat) /\ rounds[e] \in Nat
    BY <1>BridgeDirection, Zenon
  <2>2. queue[d] \in Seq(Nat) /\ Elems(queue[d]) \subseteq r_written[d]
    BY <1>BridgeDirection, Zenon DEF Way
  <2>3. Elems(<<>>) = {} /\ Rises(<<>>) /\ Distinct(<<>>)
    BY SMTT(30) DEF Elems, Rises, Distinct
  <2>4. Elems(<<>>) \subseteq Elems(queue[e])
    BY <2>3
  <2>5. Way(r_written[e], r_got[d], <<>>, stack[e], gone \cup (Elems(queue[e]) \ Elems(<<>>)), e \in asked,
            reorderNWrites[e], rounds[e], d \in r_closed)
    BY <2>1, <2>3, <2>4, <1>WayDrop, ZenonT(40)
  <2>6. Elems(queue[d]) \cap r_written[e] = {}
    BY <2>2 DEF BridgeInv, BridgeCount
  <2>7. Way(r_written[e], r_got[d], <<>>, stack[e],
            (gone \cup (Elems(queue[e]) \ Elems(<<>>))) \cup Elems(queue[d]), e \in asked,
            reorderNWrites[e], rounds[e], d \in r_closed)
    BY <2>5, <2>6, <1>WayOther, Zenon
  <2>8. gone' = (gone \cup (Elems(queue[e]) \ Elems(<<>>))) \cup Elems(queue[d])
    <3>1. gone' = gone \cup Br!Contents(queue[e]) \cup Br!Contents(queue[d])
      BY SMTT(30) DEF Br!clear
    <3>2. Br!Contents(queue[e]) = Elems(queue[e]) /\ Br!Contents(queue[d]) = Elems(queue[d])
      BY <2>1, <2>2, <1>BridgeContents
    <3>3. Elems(queue[e]) \ Elems(<<>>) = Elems(queue[e])
      BY <2>3
    <3> HIDE <1>BridgeEmpties
    <3> QED BY <3>1, <3>2, <3>3
  <2>9. queue'[e] = <<>> /\ UNCHANGED <<r_written, r_got, stack, asked, reorderNWrites, rounds, r_closed>>
    BY DEF Br!clear, Br!Ends
  <2> QED BY <2>7, <2>8, <2>9, Zenon DEF BridgeWay
(* clear, in both directions. *)
<1>BridgeClear. ASSUME BridgeInv, Br!clear
                PROVE  BridgeInv'
  <2> USE <1>BridgeClear
  <2>1. BridgeWay(0)' /\ BridgeWay(1)'
    BY <1>BridgeEmpties, SMT
  <2>2. BridgeData' /\ BridgeRest'
    <3>1. queue' \in [{0, 1} -> Seq(Nat)]
      BY SMTT(30) DEF Br!clear, Br!Ends
    <3>2. BridgeData'
      BY SMTT(30), <3>1 DEF BridgeInv, BridgeData, Br!clear
    <3>3. BridgeRest'
      BY NetConnsAssumption, SMT DEF BridgeInv, BridgeRest, Br!clear
    <3> QED BY SMTT(30), <3>2, <3>3
  <2>3. /\ Elems(queue[0]) \subseteq r_written[0] /\ Elems(queue[1]) \subseteq r_written[1]
        /\ queue[0] \in Seq(Nat) /\ queue[1] \in Seq(Nat)
    BY Zenon DEF BridgeInv, BridgeData, BridgeWay, Way
  <2>4. BridgeCount'
    BY <2>3, <1>BridgeContents, Zenon DEF BridgeInv, BridgeCount, Br!clear
  <2> QED BY <2>1, <2>2, <2>4 DEF BridgeInv
(* Every step of a bridge keeps its invariant. *)
<1>BridgeStep. BridgeInv /\ [Br!Next]_bri => BridgeInv'
  <2> SUFFICES ASSUME BridgeInv, [Br!Next]_bri
               PROVE  BridgeInv'
    OBVIOUS
  <2>1. ASSUME NEW e \in {0, 1}, Br!Read(e) \/ Br!DeadlinePasses(e) \/ Br!ReadEnds(e)
        PROVE  BridgeInv'
    <3>1. PICK to \in {"idle", "select", "expired"} : r_pc' = [r_pc EXCEPT ![e] = to]
      BY <2>1 DEF Br!Read, Br!DeadlinePasses, Br!ReadEnds
    <3>2. UNCHANGED <<queue, stack, closing, r_closed, dropNWrites, reorderNWrites, filterCB, lossChance, settings,
                      r_written, r_got, gone, asked, rounds>>
      BY <2>1, Zenon DEF Br!Read, Br!DeadlinePasses, Br!ReadEnds, Br!setup
    <3>3. BridgeRest'
      BY SMTT(30), <3>1, <3>2 DEF BridgeInv, BridgeRest
    <3> QED BY SMTT(30), <3>2, <3>3, <1>BridgeQuiet
  <2>2. ASSUME NEW e \in {0, 1}, Br!Close(e)
        PROVE  BridgeInv'
    <3>1. BridgeRest'
      BY SMTT(30), <2>2 DEF BridgeInv, BridgeRest, Br!Close, Br!setup
    <3> QED BY SMTT(30), <2>2, <3>1, <1>BridgeQuiet DEF Br!Close, Br!setup
  <2>3. ASSUME NEW e \in {0, 1}, NEW n \in Nat, Br!DropNextNWrites(e, n)
        PROVE  BridgeInv'
    <3>1. BridgeRest'
      BY SMTT(30), <2>3, NetConnsAssumption DEF BridgeInv, BridgeRest, Br!DropNextNWrites, Br!Setting
    <3> QED BY SMTT(30), <2>3, <3>1, <1>BridgeQuiet DEF Br!DropNextNWrites, Br!Setting
  <2>4. ASSUME NEW e \in {0, 1}, Br!Filter(e)
        PROVE  BridgeInv'
    <3>1. BridgeRest'
      BY <2>4, NetConnsAssumption, SMTT(30) DEF BridgeInv, BridgeRest, Br!Filter, Br!Setting
    <3> QED BY SMTT(30), <2>4, <3>1, <1>BridgeQuiet DEF Br!Filter, Br!Setting
  <2>5. ASSUME Br!SetLossChance
        PROVE  BridgeInv'
    <3>1. BridgeRest'
      BY SMTT(30), <2>5, NetConnsAssumption DEF BridgeInv, BridgeRest, Br!SetLossChance, Br!Setting
    <3> QED BY SMTT(30), <2>5, <3>1, <1>BridgeQuiet DEF Br!SetLossChance, Br!Setting
  <2>6. CASE UNCHANGED bri
    <3>1. BridgeRest'
      BY <2>6 DEF bri, BridgeInv, BridgeRest
    <3> QED BY SMTT(30), <2>6, <3>1, <1>BridgeQuiet DEF bri
  <2>7. 0..2 \subseteq Nat /\ 0..1 \subseteq Nat /\ 1..2 \subseteq Nat
    BY SMT
  <2>8. ASSUME NEW e \in {0, 1}, Br!Push(e)
        PROVE  BridgeInv'
    BY <2>8, <1>BridgeDiscard, <1>BridgeKeep, <1>BridgeEnqueue DEF Br!Push
  <2> QED BY <2>1, <2>2, <2>3, <2>4, <2>5, <2>6, <2>7, <2>8, <1>BridgeReorder, <1>BridgeReorderNext,
             <1>BridgeDrop, <1>BridgeClear, <1>BridgeTick, Zenon DEF Br!Next, Br!Ends
(* A sequence of elements of a set. *)
<1>Among. ASSUME NEW S, NEW s \in Seq(Nat), Elems(s) \subseteq S
          PROVE  s \in Seq(S)
  <2> USE <1>Among
  <2>1. \A i \in 1..Len(s) : s[i] \in S
    BY DEF Elems
  <2>2. s \in [1..Len(s) -> S] /\ Len(s) \in Nat
    BY <2>1, SMT
  <2> QED BY SMTT(30), <2>2
(* Every packet not disposed of is read, queued or kept, in the order and  *)
(* as often as the test asked for, and EOF is final.                       *)
<1>BridgeInOrder. BridgeInv => Br!TypeOK /\ Br!InOrder
  <2> SUFFICES ASSUME BridgeInv
               PROVE  Br!TypeOK /\ Br!InOrder
    OBVIOUS
  <2>1. ASSUME NEW e \in {0, 1}, NEW d \in {0, 1}, d = 1 - e, e = 1 - d
        PROVE  /\ queue[e] \in Seq(1..BridgePackets) /\ stack[e] \in Seq(1..BridgePackets)
               /\ r_got[d] \in Seq(1..BridgePackets)
    <3>1. /\ Elems(queue[e]) \subseteq 1..BridgePackets /\ Elems(stack[e]) \subseteq 1..BridgePackets
          /\ Elems(r_got[d]) \subseteq 1..BridgePackets
          /\ queue[e] \in Seq(Nat) /\ stack[e] \in Seq(Nat) /\ r_got[d] \in Seq(Nat)
      BY <2>1, <1>BridgeDirection, Zenon DEF Way
    <3>2. \A s \in Seq(Nat) : Elems(s) \subseteq 1..BridgePackets => s \in Seq(1..BridgePackets)
      BY <1>Among, Zenon
    <3> QED BY <3>1, <3>2, Zenon
  <2>2. Br!TypeOK
    <3>1. /\ \A e \in {0, 1} : queue[e] \in Seq(1..BridgePackets) /\ stack[e] \in Seq(1..BridgePackets)
          /\ \A e \in {0, 1} : r_got[e] \in Seq(1..BridgePackets)
      BY <2>1, SMT
    <3>2. /\ queue \in [{0, 1} -> Seq(1..BridgePackets)] /\ stack \in [{0, 1} -> Seq(1..BridgePackets)]
          /\ r_got \in [{0, 1} -> Seq(1..BridgePackets)]
      BY <3>1 DEF BridgeInv, BridgeData
    <3>3. gone \subseteq 1..BridgePackets
      BY DEF BridgeInv, BridgeCount, BridgeData
    <3> QED BY <3>2, <3>3 DEF BridgeInv, BridgeData, BridgeRest, Br!TypeOK, Br!Ends, Br!Packets
  <2>3. ASSUME NEW e \in {0, 1}, NEW d \in {0, 1}, d = 1 - e, e = 1 - d
        PROVE  LET seen == r_got[d] \o queue[e]
               IN  /\ r_written[e] \ gone \subseteq Br!Contents(seen) \cup Br!Contents(stack[e])
                   /\ Br!Contents(seen) \subseteq r_written[e]
                   /\ e \notin asked => \A i, j \in DOMAIN seen : i < j => seen[i] < seen[j]
                   /\ rounds[e] <= 1 => (\A i, j \in DOMAIN seen : seen[i] = seen[j] => i = j) /\ Br!Contents(seen) \cap gone = {}
                   /\ d \in r_closed => queue[e] = <<>>
    <3>1. /\ Way(r_written[e], r_got[d], queue[e], stack[e], gone, e \in asked, reorderNWrites[e],
                 rounds[e], d \in r_closed)
          /\ queue[e] \in Seq(Nat) /\ stack[e] \in Seq(Nat) /\ r_got[d] \in Seq(Nat)
      BY <2>3, <1>BridgeDirection, Zenon
    <3>2. PICK seen \in Seq(Nat) :
            /\ seen = r_got[d] \o queue[e] /\ Elems(seen) = Elems(r_got[d]) \cup Elems(queue[e])
            /\ Rises(seen) <=> Rises(r_got[d]) /\ Rises(queue[e])
                               /\ \A x \in Elems(r_got[d]), y \in Elems(queue[e]) : x < y
            /\ Distinct(seen) <=> Distinct(r_got[d]) /\ Distinct(queue[e])
                                  /\ Elems(r_got[d]) \cap Elems(queue[e]) = {}
      BY <3>1, Joined, Zenon
    <3>3. /\ Br!Contents(seen) = Elems(seen) /\ Br!Contents(stack[e]) = Elems(stack[e])
          /\ (Distinct(seen) => (\A i, j \in DOMAIN seen : seen[i] = seen[j] => i = j))
      BY <3>1, <1>BridgeContents
    <3>4. /\ r_written[e] \ gone \subseteq Br!Contents(seen) \cup Br!Contents(stack[e])
          /\ Br!Contents(seen) \subseteq r_written[e] /\ (d \in r_closed => queue[e] = <<>>)
      <4>1. /\ r_written[e] \ gone \subseteq Elems(r_got[d]) \cup Elems(queue[e]) \cup Elems(stack[e])
            /\ Elems(r_got[d]) \cup Elems(queue[e]) \subseteq r_written[e]
            /\ (d \in r_closed => queue[e] = <<>>)
        BY <3>1, Zenon DEF Way
      <4>2. Br!Contents(seen) = Elems(r_got[d]) \cup Elems(queue[e])
        BY <3>2, <3>3, Zenon
      <4> QED BY <3>3, <4>1, <4>2, Zenon
    <3>5. ASSUME e \notin asked
          PROVE  \A i, j \in DOMAIN seen : i < j => seen[i] < seen[j]
      <4>1. Rises(seen)
        BY <3>1, <3>2, <3>5, Zenon DEF Way
      <4> QED BY <4>1, SMT DEF Rises
    <3>6. rounds[e] <= 1 => (\A i, j \in DOMAIN seen : seen[i] = seen[j] => i = j) /\ Br!Contents(seen) \cap gone = {}
      BY <3>1, <3>2, <3>3, Zenon DEF Way
    <3> QED BY <3>2, <3>4, <3>5, <3>6, Zenon
  <2>4. Br!InOrder
    <3>1. 1 - 0 = 1 /\ 1 - 1 = 0
      BY SMT
    <3>2. \A e \in {0, 1} : e = 0 \/ e = 1
      OBVIOUS
    <3> QED BY <2>3, <3>1, <3>2, Zenon DEF Br!InOrder, Br!Ends, Br!Other
  <2> QED BY <2>2, <2>4
<1> QED BY <1>InitBridgeInv, <1>BridgeStep, <1>BridgeInOrder

-----------------------------------------------------------------------------
(* The connections share no variable, so each keeps its own invariant in   *)
(* every step, of whichever connection it is.                              *)
ConnsInv == ConnInv /\ PacketInv /\ PipeInv /\ BatchInv /\ BridgeInv

(* A step of one connection is a step of it or changes nothing of it. *)
LEMMA OwnSteps ==
  [Next]_vars => /\ [Conn!Next]_con /\ [PacketConn!Next]_pac /\ [Pipe!Next]_pip
                 /\ [Batch!Next]_bat /\ [Br!Next]_bri
<1>1. Next => /\ Conn!Next \/ UNCHANGED con
              /\ PacketConn!Next \/ UNCHANGED pac
              /\ Pipe!Next \/ UNCHANGED pip
              /\ Batch!Next \/ UNCHANGED bat
              /\ Br!Next \/ UNCHANGED bri
  BY Zenon DEF Next
<1>2. UNCHANGED vars => UNCHANGED <<con, pac, pip, bat, bri>>
  BY Zenon DEF vars
<1> QED BY <1>1, <1>2, Zenon

(* Every connection keeps its invariant, for any number of callers and any *)
(* capacity.                                                               *)
LEMMA ConnsInvHolds == Spec => []ConnsInv
<1>1. Init => ConnsInv
  BY ConnKept, PacketKept, PipeKept, BatchKept, BridgeKept DEF Init, ConnsInv
<1>2. ConnsInv /\ [Next]_vars => ConnsInv'
  BY OwnSteps, ConnKept, PacketKept, PipeKept, BatchKept, BridgeKept DEF ConnsInv
<1> QED BY <1>1, <1>2, PTL DEF Spec

(* The deadline that a cancellation sets is gone before the next call of   *)
(* its direction can start, and no call whose context is live fails with a *)
(* timeout (src/netctx/conn.go, packetconn.go).                            *)
THEOREM DeadlineRestoredCorrect == Spec => []DeadlineRestored
<1>1. ConnInv => Conn!TypeOK /\ Conn!DeadlineRestored /\ Conn!NoForeignTimeout
  <2> SUFFICES ASSUME ConnInv, NEW d \in Conn!Dirs, open, d \notin held
               PROVE  deadline[d] = "none"
    BY DEF ConnInv, Conn!DeadlineRestored
  <2>1. deadline[d] # "old"
    <3> SUFFICES ASSUME deadline[d] = "old"
                 PROVE  FALSE
      OBVIOUS
    <3>1. PICK c \in ConnCallers : Dir[c] = d /\ watch[c] = "armed"
      BY DEF ConnInv, ConnDeadlines
    <3>2. Holds(c)
      BY <3>1 DEF ConnInv, ConnWatches, Holds
    <3> QED BY <3>1, <3>2 DEF ConnInv, ConnLocks
  <2> QED BY <2>1 DEF ConnInv, Conn!TypeOK
<1>2. PacketInv => PacketConn!TypeOK /\ PacketConn!DeadlineRestored
  <2> SUFFICES ASSUME PacketInv, NEW d \in PacketConn!Dirs, ~p_closed, d \notin p_held, p_deadline[d] = "old"
               PROVE  FALSE
    BY DEF PacketInv, PacketConn!DeadlineRestored
  <2>1. PICK c \in PacketCallers : d = "write" /\ func[c] = "ended"
    BY DEF PacketInv, PacketDeadlines
  <2>2. PHolds(c)
    BY <2>1 DEF PacketInv, PacketFuncs, PHolds
  <2> QED BY <2>1, <2>2 DEF PacketInv, PacketLocks
<1>3. ConnsInv => DeadlineRestored
  BY <1>1, <1>2 DEF ConnsInv, DeadlineRestored
<1> QED BY <1>3, ConnsInvHolds, PTL

(* Packets leave a pipe, messages the batches and packets a bridge in the  *)
(* order in which they were written, none twice and none lost, but for     *)
(* what a time-out, a failed WriteBatch or the test disposes of            *)
(* (src/dpipe/dpipe.go, src/udp/batchconn.go, src/test/bridge.go).         *)
THEOREM InOrderCorrect == Spec => []InOrder
<1>1. ConnsInv => InOrder
  BY PipeKept, BatchKept, BridgeKept DEF ConnsInv, InOrder, PipeInv, BatchInv
<1> QED BY <1>1, ConnsInvHolds, PTL

(* No step clears a deadline the user has set but for a canceled call,     *)
(* reports a packet that was transferred as canceled, transfers one in a   *)
(* call that began after Close, or ends a call because the other end was   *)
(* closed.                                                                 *)
THEOREM CallsHonestCorrect == Spec => CallsHonest
<1>1. ConnsInv /\ [Next]_vars => /\ PacketConn!UserDeadlineKept /\ PacketConn!ProgressKept
                                 /\ Pipe!ClosedIsSilent /\ Pipe!CloseIsLocal
  BY OwnSteps, PacketKept, PipeKept DEF ConnsInv
<1> QED BY <1>1, ConnsInvHolds, PTL DEF Spec, CallsHonest
=============================================================================
