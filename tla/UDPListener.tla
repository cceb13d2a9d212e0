----------------------------- MODULE UDPListener -----------------------------
(***************************************************************************)
(* The UDP listener of src/udp/conn.go: Accept, listener.Close, Conn.Close,*)
(* the read loop and the goroutine that closes the socket, interleaved.    *)
(* Sections under connLock are one step; everything between two of them,   *)
(* each WaitGroup operation included, is a step of its own.                *)
(*                                                                         *)
(* connWG is Go's WaitGroup: the Done that takes it to zero releases the   *)
(* waiting goroutine, which panics if the counter is no longer zero when   *)
(* it resumes ("WaitGroup is reused before previous Wait has returned").   *)
(***************************************************************************)
EXTENDS Integers, Sequences, FiniteSets

CONSTANTS
  Raddrs,       \* remote addresses that send packets
  Acceptors,    \* goroutines that call Accept
  MaxConns,     \* bound on the number of Conns made
  Backlog,      \* capacity of acceptCh
  ReadMayFail   \* whether ReadFrom may fail on an open socket

ASSUME ListenerAssumption ==
  /\ MaxConns \in Nat /\ Backlog \in Nat \ {0} /\ ReadMayFail \in BOOLEAN

Conns == 1..MaxConns
NoConn == 0

VARIABLES
  conns,      \* l.conns: remote address -> Conn
  raddr,      \* rAddr of each Conn made
  status,     \* life of each Conn: made and queued by getConn, taken by an
              \* Accept that has not yet added it to connWG, open in the
              \* user's hands, then the steps of Conn.Close
  last,       \* the Conns whose Close found nConns = 0
  acceptCh,   \* l.acceptCh
  accepting,  \* l.accepting
  doneCh,     \* whether l.doneCh is closed
  connWG,     \* the counter of l.connWG
  late,       \* history: Conns that were taken when connWG reached zero
  apc,        \* where each Accept is
  got,        \* the Conn each Accept has received and not yet returned
  lpc,        \* where listener.Close is
  closer,     \* the goroutine started by Listen that closes pConn
  pConn,      \* whether the socket is open
  loop,       \* the read loop
  panicked

vars == <<conns, raddr, status, last, acceptCh, accepting, doneCh, connWG, late,
          apc, got, lpc, closer, pConn, loop, panicked>>

TypeOK ==
  /\ conns \in [Raddrs -> Conns \cup {NoConn}]
  /\ raddr \in Seq(Raddrs) /\ Len(raddr) <= MaxConns
  /\ status \in [Conns -> {"none", "queued", "taken", "open", "done", "deleted",
                           "wait", "closed", "dropped"}]
  /\ last \in SUBSET Conns
  /\ acceptCh \in Seq(Conns) /\ Len(acceptCh) <= Backlog
  /\ accepting \in BOOLEAN /\ doneCh \in BOOLEAN
  /\ connWG \in Nat
  /\ late \in SUBSET Conns
  /\ apc \in [Acceptors -> {"idle", "select", "taken"}]
  /\ got \in [Acceptors -> Conns \cup {NoConn}]
  /\ lpc \in {"idle", "stored", "signalled", "drained", "drained0", "wait", "returned"}
  /\ closer \in {"start", "wait", "woken", "close", "done", "ended"}
  /\ pConn \in BOOLEAN
  /\ loop \in {"reading", "failed", "signalled", "ended"}
  /\ panicked \in BOOLEAN

(* Listen. *)
Init ==
  /\ conns = [r \in Raddrs |-> NoConn]
  /\ raddr = <<>>
  /\ status = [c \in Conns |-> "none"]
  /\ last = {}
  /\ acceptCh = <<>>
  /\ accepting = TRUE
  /\ doneCh = FALSE
  /\ connWG = 1
  /\ late = {}
  /\ apc = [a \in Acceptors |-> "idle"]
  /\ got = [a \in Acceptors |-> NoConn]
  /\ lpc = "idle"
  /\ closer = "start"
  /\ pConn = TRUE
  /\ loop = "reading"
  /\ panicked = FALSE

-----------------------------------------------------------------------------
(* nConns == 0, for the map m. *)
AlwaysEmpty(m) == TRUE
NoConns(m) == \A r \in Raddrs : m[r] = NoConn

(* connWG.Done(). *)
ConnWGDone ==
  /\ connWG' = connWG - 1
  /\ closer' = IF connWG = 1 /\ closer = "wait" THEN "woken" ELSE closer
  /\ late' = IF connWG = 1 THEN late \cup {c \in Conns : status[c] = "taken"} ELSE late

(* readWG.Wait() returns once the read loop and the closer are done. *)
ReadWGZero == loop = "ended" /\ closer = "ended"

-----------------------------------------------------------------------------
QueueUnbounded == TRUE
QueueHasRoom == Len(acceptCh) < Backlog

(* read / dispatchMsg / getConn for a packet from r.  The new Conn goes to *)
(* acceptCh and conns in one section; a full queue discards it.  Writing   *)
(* the packet to the Conn's buffer is left to module BufferSync.           *)
getConn(r) ==
  /\ loop = "reading" /\ pConn
  /\ conns[r] = NoConn
  /\ accepting
  /\ Len(raddr) < MaxConns
  /\ QueueHasRoom
  /\ LET c == Len(raddr) + 1
     IN  /\ raddr' = Append(raddr, r)
         /\ acceptCh' = Append(acceptCh, c)
         /\ conns' = [conns EXCEPT ![r] = c]
         /\ status' = [status EXCEPT ![c] = "queued"]
  /\ UNCHANGED <<got, last, accepting, doneCh, connWG, late, apc, lpc, closer, pConn, loop, panicked>>

(* read / readBatch: the read fails, because the socket was closed or for  *)
(* a reason of its own, and the loop ends.                                 *)
ReadError ==
  /\ loop = "reading"
  /\ ~pConn \/ ReadMayFail
  /\ loop' = "failed"
  /\ UNCHANGED <<got, conns, raddr, status, last, acceptCh, accepting, doneCh, connWG, late,
                 apc, lpc, closer, pConn, panicked>>

(* readLoop's deferred close(l.readDoneCh), then l.readWG.Done(). *)
LoopEnds ==
  /\ \/ loop = "failed" /\ loop' = "signalled"
     \/ loop = "signalled" /\ loop' = "ended"
  /\ UNCHANGED <<got, conns, raddr, status, last, acceptCh, accepting, doneCh, connWG, late,
                 apc, lpc, closer, pConn, panicked>>

ReadDone == loop \in {"signalled", "ended"}

-----------------------------------------------------------------------------
(* Accept. *)
AcceptCall(a) ==
  /\ apc[a] = "idle"
  /\ apc' = [apc EXCEPT ![a] = "select"]
  /\ UNCHANGED <<got, conns, raddr, status, last, acceptCh, accepting, doneCh, connWG, late,
                 lpc, closer, pConn, loop, panicked>>

AcceptReceive(a) ==
  /\ apc[a] = "select"
  /\ acceptCh # <<>>
  /\ acceptCh' = Tail(acceptCh)
  /\ apc' = [apc EXCEPT ![a] = "taken"]
  /\ got' = [got EXCEPT ![a] = Head(acceptCh)]
  /\ status' = [status EXCEPT ![Head(acceptCh)] = "taken"]
  /\ UNCHANGED <<conns, raddr, last, accepting, doneCh, connWG, late, lpc, closer, pConn,
                 loop, panicked>>

NotAdded == connWG
Added == connWG + 1
AcceptAdd(a) ==
  /\ apc[a] = "taken"
  /\ connWG' = Added
  /\ status' = [status EXCEPT ![got[a]] = "open"]
  /\ apc' = [apc EXCEPT ![a] = "idle"]
  /\ got' = [got EXCEPT ![a] = NoConn]
  /\ UNCHANGED <<conns, raddr, last, acceptCh, accepting, doneCh, late, lpc, closer, pConn,
                 loop, panicked>>

AcceptReadyOnReadDone == ReadDone
AcceptReady == ReadDone \/ doneCh
AcceptFails(a) ==
  /\ apc[a] = "select"
  /\ AcceptReady
  /\ apc' = [apc EXCEPT ![a] = "idle"]
  /\ UNCHANGED <<got, conns, raddr, status, last, acceptCh, accepting, doneCh, connWG, late,
                 lpc, closer, pConn, loop, panicked>>

-----------------------------------------------------------------------------
(* listener.Close, inside doneOnce. *)
CloseStore ==
  /\ lpc = "idle"
  /\ lpc' = "stored"
  /\ accepting' = FALSE
  /\ UNCHANGED <<got, conns, raddr, status, last, acceptCh, doneCh, connWG, late, apc, closer,
                 pConn, loop, panicked>>

CloseSignal ==
  /\ lpc = "stored"
  /\ lpc' = "signalled"
  /\ doneCh' = TRUE
  /\ UNCHANGED <<got, conns, raddr, status, last, acceptCh, accepting, connWG, late, apc, closer,
                 pConn, loop, panicked>>

(* The section under connLock: drop the connections nobody accepted. *)
DrainQueueOnly(unaccepted) == conns
DrainConns(unaccepted) == [r \in Raddrs |-> IF conns[r] \in unaccepted THEN NoConn ELSE conns[r]]
CloseDrain ==
  /\ lpc = "signalled"
  /\ LET unaccepted == {acceptCh[i] : i \in DOMAIN acceptCh}
     IN  /\ conns' = DrainConns(unaccepted)
         /\ status' = [c \in Conns |-> IF c \in unaccepted THEN "dropped" ELSE status[c]]
         /\ lpc' = IF NoConns(conns') THEN "drained0" ELSE "drained"
  /\ acceptCh' = <<>>
  /\ UNCHANGED <<got, raddr, last, accepting, doneCh, connWG, late, apc, closer, pConn, loop, panicked>>

CloseDoneIfEmpty ==
  /\ lpc \in {"drained", "drained0"}
  /\ IF lpc = "drained0" THEN ConnWGDone ELSE UNCHANGED <<connWG, closer, late>>
  /\ lpc' = IF lpc = "drained0" THEN "wait" ELSE "returned"
  /\ UNCHANGED <<got, conns, raddr, status, last, acceptCh, accepting, doneCh, apc, pConn, loop, panicked>>
CloseDone ==
  /\ lpc \in {"drained", "drained0"}
  /\ ConnWGDone
  /\ lpc' = IF lpc = "drained0" THEN "wait" ELSE "returned"
  /\ UNCHANGED <<got, conns, raddr, status, last, acceptCh, accepting, doneCh, apc, pConn, loop, panicked>>

CloseWaited ==
  /\ lpc = "wait"
  /\ ReadWGZero
  /\ lpc' = "returned"
  /\ UNCHANGED <<got, conns, raddr, status, last, acceptCh, accepting, doneCh, connWG, late, apc,
                 closer, pConn, loop, panicked>>

-----------------------------------------------------------------------------
(* Conn.Close, inside doneOnce. *)
ConnDone(c) ==
  /\ status[c] = "open"
  /\ ConnWGDone
  /\ status' = [status EXCEPT ![c] = "done"]
  /\ UNCHANGED <<got, conns, raddr, last, acceptCh, accepting, doneCh, apc, lpc, pConn, loop, panicked>>

(* The section under connLock. *)
DeleteEntry(c) == [conns EXCEPT ![raddr[c]] = NoConn]
ConnDelete(c) ==
  /\ status[c] = "done"
  /\ conns' = DeleteEntry(c)
  /\ last' = IF NoConns(conns') THEN last \cup {c} ELSE last
  /\ status' = [status EXCEPT ![c] = "deleted"]
  /\ UNCHANGED <<got, raddr, acceptCh, accepting, doneCh, connWG, late, apc, lpc, closer, pConn,
                 loop, panicked>>

(* The test of nConns and accepting, and buffer.Close() when nothing has   *)
(* to be waited for.                                                       *)
WaitsIfLast(c) == c \in last
Waits(c) == c \in last /\ ~accepting
ConnCheck(c) ==
  /\ status[c] = "deleted"
  /\ status' = [status EXCEPT ![c] = IF Waits(c) THEN "wait" ELSE "closed"]
  /\ UNCHANGED <<got, conns, raddr, last, acceptCh, accepting, doneCh, connWG, late, apc, lpc,
                 closer, pConn, loop, panicked>>

ConnWaited(c) ==
  /\ status[c] = "wait"
  /\ ReadWGZero
  /\ status' = [status EXCEPT ![c] = "closed"]
  /\ UNCHANGED <<got, conns, raddr, last, acceptCh, accepting, doneCh, connWG, late, apc, lpc,
                 closer, pConn, loop, panicked>>

-----------------------------------------------------------------------------
(* The goroutine of Listen: connWG.Wait(), pConn.Close(), readWG.Done(). *)
CloserStep ==
  /\ \/ closer = "start" /\ closer' = (IF connWG = 0 THEN "close" ELSE "wait")
                         /\ UNCHANGED <<pConn, panicked>>
     \/ closer = "woken" /\ connWG = 0 /\ closer' = "close" /\ UNCHANGED <<pConn, panicked>>
     \/ closer = "woken" /\ connWG # 0 /\ panicked' = TRUE /\ UNCHANGED <<closer, pConn>>
     \/ closer = "close" /\ closer' = "done" /\ pConn' = FALSE /\ UNCHANGED panicked
     \/ closer = "done" /\ closer' = "ended" /\ UNCHANGED <<pConn, panicked>>
  /\ UNCHANGED <<got, conns, raddr, status, last, acceptCh, accepting, doneCh, connWG, late, apc,
                 lpc, loop>>

-----------------------------------------------------------------------------
(* Steps that finish what has been started, and calls users may make. *)
AcceptStep(a) == AcceptReceive(a) \/ AcceptAdd(a) \/ AcceptFails(a)
CloseStep == CloseSignal \/ CloseDrain \/ CloseDone \/ CloseWaited
ConnStep(c) == ConnDelete(c) \/ ConnCheck(c) \/ ConnWaited(c)

Next ==
  /\ ~panicked
  /\ \/ \E r \in Raddrs : getConn(r)
     \/ ReadError
     \/ LoopEnds
     \/ \E a \in Acceptors : AcceptCall(a) \/ AcceptStep(a)
     \/ CloseStore
     \/ CloseStep
     \/ \E c \in Conns : ConnDone(c) \/ ConnStep(c)
     \/ CloserStep

Spec == Init /\ [][Next]_vars

(* Goroutines that are not blocked run, and a closed socket fails reads.   *)
(* Packets need not arrive and users need not call anything.               *)
Fairness ==
  /\ WF_vars(~panicked /\ ~pConn /\ ReadError)
  /\ WF_vars(~panicked /\ LoopEnds)
  /\ WF_vars(~panicked /\ CloserStep)
  /\ WF_vars(~panicked /\ CloseStep)
  /\ \A a \in Acceptors : WF_vars(~panicked /\ AcceptStep(a))
  /\ \A c \in Conns : WF_vars(~panicked /\ ConnStep(c))

FairSpec == Spec /\ Fairness

-----------------------------------------------------------------------------
InMap(c) == status[c] \in {"queued", "taken", "open", "done"}

(* conns holds exactly the connections that are queued, being accepted or  *)
(* open, each under its own remote address: no Close ever removes the      *)
(* entry of a newer Conn, and no Conn is open without receiving packets.   *)
ConnMap ==
  \A c \in Conns :
    /\ InMap(c) => c <= Len(raddr) /\ conns[raddr[c]] = c
    /\ \A r \in Raddrs : conns[r] = c => InMap(c) /\ raddr[c] = r

(* connWG counts the listener, until its Close has called Done, and the    *)
(* connections handed to users and not yet closed.                         *)
ConnWGCount ==
  connWG = (IF lpc \in {"wait", "returned"} THEN 0 ELSE 1)
           + Cardinality({c \in Conns : status[c] = "open"})

(* The map and the count stay in step with the connections while packets,  *)
(* Accept and both Close functions interleave.                             *)
Bookkeeping == TypeOK /\ ConnMap /\ ConnWGCount

(* The socket is closed only when the listener is closed and no connection *)
(* is open, except one that was in the hands of an Accept (received from   *)
(* acceptCh but not yet added to connWG) when the count reached zero.      *)
SocketOutlivesConns ==
  ~pConn => lpc \in {"wait", "returned"} /\ \A c \in Conns : status[c] = "open" => c \in late

(* listener.Close returns, although it may wait for the read loop. *)
CloseReturns == lpc # "idle" ~> lpc = "returned" \/ panicked

(* Any Accept that is blocked when the listener is closed returns. *)
AcceptReleased == \A a \in Acceptors : doneCh /\ apc[a] # "idle" ~> apc[a] = "idle" \/ panicked

(* A Conn.Close does not hang unless some other connection is still open.  *)
ConnCloseReturns ==
  \A c \in Conns :
    ~<>[](/\ status[c] \in {"done", "deleted", "wait"}
          /\ \A d \in Conns \ {c} : status[d] \notin {"taken", "open"}
          /\ ~panicked)

(* Every call that waits returns: listener.Close, Conn.Close once no other *)
(* connection is open, and Accept once the listener is closed.             *)
CallsReturn == CloseReturns /\ ConnCloseReturns /\ AcceptReleased

(* When the listener and all its connections are closed, the socket is     *)
(* closed and the read loop ends: nothing is leaked.                       *)
NothingLeaks ==
  (lpc = "returned" /\ \A c \in Conns : ~InMap(c)) ~> ReadWGZero \/ panicked

(* The comment of readLoop: it can "not be ended until all Conns are       *)
(* closed".                                                                *)
ReadLoopOutlivesConns == loop = "ended" => \A c \in Conns : status[c] # "open"
=============================================================================
