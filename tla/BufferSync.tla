----------------------------- MODULE BufferSync -----------------------------
(***************************************************************************)
(* The synchronisation of packetio.Buffer (src/packetio/buffer.go): any    *)
(* number of concurrent Reads, woken through the one-token channel notify, *)
(* through Close and through the read deadline.  The storage is the FIFO   *)
(* queue that module BufferRing is shown to implement.                     *)
(*                                                                         *)
(* A Read takes these steps: the first look at the deadline, the section   *)
(* under b.mutex, the evaluation of the second select (which captures the  *)
(* deadline's current Done channel), and one of the select's two cases.    *)
(***************************************************************************)
EXTENDS Integers, Sequences

CONSTANTS
  Readers,      \* goroutines that call Read
  LimitCount,   \* b.limitCount
  MaxWrites     \* bound on the number of packets written

VARIABLES
  queue,        \* the packets between head and tail
  closed,       \* b.closed; b.notify is closed in the same section
  notify,       \* the number of tokens in b.notify
  rd,           \* the state of b.readDeadline
  pc,           \* where each Read is
  fired,        \* the Reads waiting on a Done channel that has been closed
  result,       \* what each goroutine's last Read returned
  written       \* number of packets accepted by Write

vars == <<queue, closed, notify, rd, pc, fired, result, written>>

TypeOK ==
  /\ queue \in Seq(Nat)
  /\ closed \in BOOLEAN
  /\ notify \in {0, 1}
  /\ rd \in {"none", "armed", "exceeded"}
  /\ pc \in [Readers -> {"idle", "lock", "select", "wait"}]
  /\ fired \in SUBSET {r \in Readers : pc[r] = "wait"}
  /\ result \in [Readers -> {"none", "packet", "EOF", "timeout"}]
  /\ written \in Nat

Init ==
  /\ queue = <<>>
  /\ closed = FALSE
  /\ notify = 0
  /\ rd = "none"
  /\ pc = [r \in Readers |-> "idle"]
  /\ fired = {}
  /\ result = [r \in Readers |-> "none"]
  /\ written = 0

-----------------------------------------------------------------------------
(* Write: refused with ErrClosedPipe or ErrFull, it changes nothing. *)
NotifyOnWrite == 1
WritableAlways == TRUE
Writable == ~closed

Write ==
  /\ written < MaxWrites
  /\ Writable
  /\ Len(queue) < LimitCount
  /\ queue' = Append(queue, written + 1)
  /\ written' = written + 1
  /\ notify' = NotifyOnWrite
  /\ UNCHANGED <<closed, rd, pc, fired, result>>

Return(r, res) ==
  /\ pc' = [pc EXCEPT ![r] = "idle"]
  /\ result' = [result EXCEPT ![r] = res]

Goto(r, from, to) == pc[r] = from /\ pc' = [pc EXCEPT ![r] = to]

(* Read, lines 214-220: return at once if the deadline is exceeded. *)
ReadStart(r) ==
  /\ pc[r] = "idle"
  /\ \/ rd = "exceeded" /\ Return(r, "timeout")
     \/ rd # "exceeded" /\ Goto(r, "idle", "lock") /\ UNCHANGED result
  /\ UNCHANGED <<queue, closed, notify, rd, fired, written>>

(* consumePacket passes the token on when packets are left. *)
NotifyKept(rest) == notify
NotifyOnConsume(rest) == IF rest # <<>> /\ ~closed THEN 1 ELSE notify

(* Read, lines 223-237: the section under b.mutex. *)
ReadLocked(r) ==
  /\ pc[r] = "lock"
  /\ \/ /\ queue # <<>>
        /\ queue' = Tail(queue)
        /\ notify' = NotifyOnConsume(Tail(queue))
        /\ Return(r, "packet")
     \/ /\ queue = <<>> /\ closed
        /\ Return(r, "EOF")
        /\ UNCHANGED <<queue, notify>>
     \/ /\ queue = <<>> /\ ~closed
        /\ Goto(r, "lock", "select")
        /\ UNCHANGED <<queue, notify, result>>
  /\ UNCHANGED <<closed, rd, fired, written>>

(* Read, line 240: the select's operands are evaluated, Done() among them. *)
CaptureNothing(r) == fired' = fired
CaptureDone(r) == fired' = IF rd = "exceeded" THEN fired \cup {r} ELSE fired

ReadSelect(r) ==
  /\ Goto(r, "select", "wait")
  /\ CaptureDone(r)
  /\ UNCHANGED <<queue, closed, notify, rd, result, written>>

(* Read, line 240: the deadline case. *)
ReadTimeout(r) ==
  /\ pc[r] = "wait"
  /\ r \in fired
  /\ Return(r, "timeout")
  /\ fired' = fired \ {r}
  /\ UNCHANGED <<queue, closed, notify, rd, written>>

(* Read, line 242: the notify case, ready with a token or when closed. *)
NotifyReadyOnToken == notify = 1
NotifyReady == notify = 1 \/ closed

ReadNotified(r) ==
  /\ Goto(r, "wait", "lock")
  /\ NotifyReady
  /\ notify' = 0
  /\ fired' = fired \ {r}
  /\ UNCHANGED <<queue, closed, rd, result, written>>

(* Close: closing notify makes the notify case ready for every reader. *)
Close ==
  /\ closed' = TRUE
  /\ UNCHANGED <<queue, notify, rd, pc, fired, result, written>>

(* SetReadDeadline with a zero or future time, and with a past one; and    *)
(* the deadline's timer.  Firing closes the Done channel the waiting Reads *)
(* captured; module Deadline has the details.                              *)
SetReadDeadline(to) ==
  /\ rd' = to
  /\ UNCHANGED <<queue, closed, notify, pc, fired, result, written>>

DeadlineExceeded ==
  /\ rd' = "exceeded"
  /\ fired' = {r \in Readers : pc[r] = "wait"}
  /\ UNCHANGED <<queue, closed, notify, pc, result, written>>

DeadlineFires == rd = "armed" /\ DeadlineExceeded

Next ==
  \/ Write
  \/ Close
  \/ \E r \in Readers :
       ReadStart(r) \/ ReadLocked(r) \/ ReadSelect(r) \/ ReadTimeout(r) \/ ReadNotified(r)
  \/ \E to \in {"none", "armed"} : SetReadDeadline(to)
  \/ DeadlineExceeded
  \/ DeadlineFires

Spec == Init /\ [][Next]_vars

(* A goroutine inside Read keeps running; an armed deadline fires.  No one *)
(* is obliged to call Read, Write, Close or SetReadDeadline.               *)
Fairness ==
  /\ \A r \in Readers :
       WF_vars(ReadLocked(r) \/ ReadSelect(r) \/ ReadTimeout(r) \/ ReadNotified(r))
  /\ WF_vars(DeadlineFires)

-----------------------------------------------------------------------------
(* No lost wake-up: while an open buffer holds packets, the token is in    *)
(* notify or the Read that took it is on its way to b.mutex.  So the       *)
(* waiting Reads are never all asleep beside a packet, although one token  *)
(* stands for any number of Writes.                                        *)
NoLostWakeup ==
  queue # <<>> /\ ~closed => notify = 1 \/ \E r \in Readers : pc[r] = "lock"

(* EOF is final: once any Read has returned EOF the buffer stays empty, so *)
(* no packet can slip in behind it.                                        *)
EOFIsFinal == (\E r \in Readers : result[r] = "EOF") => closed /\ queue = <<>>

(* Close unblocks every pending Read, even if no packet and no deadline    *)
(* ever comes.                                                             *)
CloseReleases == \A r \in Readers : closed /\ pc[r] # "idle" ~> pc[r] = "idle"

(* A Read pending when the deadline passes returns, unless the deadline is *)
(* set anew or it obtains a packet first.                                  *)
DeadlineReleases ==
  \A r \in Readers : rd = "exceeded" /\ pc[r] # "idle" ~> pc[r] = "idle" \/ rd # "exceeded"
=============================================================================
