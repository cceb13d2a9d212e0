-------------------------------- MODULE DPipe --------------------------------
(***************************************************************************)
(* The in-memory packet pipe of src/dpipe/dpipe.go: two ends, each with a  *)
(* channel of packets to read, deadlines and a closed channel.  Read and   *)
(* Write first look whether the end is closed or the deadline past, and    *)
(* then wait in a select.  (The channel `closing' is never closed.)        *)
(*                                                                         *)
(* A deadline is external (module Deadline): it passes at any time, and    *)
(* releases the calls that wait on it even if it is then set anew.         *)
(***************************************************************************)
EXTENDS Naturals, Sequences

CONSTANTS
  Capacity,     \* of the channels, 1000 in the code
  Readers,      \* the ends at which Read is called
  Writers,      \* the ends at which Write is called
  MaxPackets    \* bound on the packets written

Ends == {0, 1}

Calls == (Readers \X {"read"}) \cup (Writers \X {"write"})
Other(e) == 1 - e

VARIABLES
  ch,        \* ch[e]: rCh of end e, which is wCh of the other
  closed,    \* the ends that are closed
  past,      \* <<e, op>> whose deadline is past
  pc,        \* where the Read and the Write of each end are
  hit,       \* the waiting calls whose deadline has passed
  late,      \* history: the calls that began after Close
  written,   \* history: packets written so far, numbered in that order
  got,       \* history: packets each end has read
  dropped    \* history: packets discarded by a Write that timed out

vars == <<ch, closed, past, pc, hit, late, written, got, dropped>>

Packets == 1..MaxPackets

TypeOK ==
  /\ ch \in [Ends -> Seq(Packets)]
  /\ \A e \in Ends : Len(ch[e]) <= Capacity
  /\ closed \in SUBSET Ends
  /\ past \in SUBSET Calls /\ hit \in SUBSET Calls /\ late \in SUBSET Calls
  /\ pc \in [Calls -> {"idle", "check", "select", "clean"}]
  /\ written \in [Ends -> SUBSET Packets]
  /\ got \in [Ends -> Seq(Packets)]
  /\ dropped \in SUBSET Packets

(* Pipe. *)
Init ==
  /\ ch = [e \in Ends |-> <<>>]
  /\ closed = {} /\ past = {} /\ hit = {} /\ late = {}
  /\ pc = [k \in Calls |-> "idle"]
  /\ written = [e \in Ends |-> {}]
  /\ got = [e \in Ends |-> <<>>]
  /\ dropped = {}

-----------------------------------------------------------------------------
(* Read or Write is called. *)
Call(k) ==
  /\ pc[k] = "idle"
  /\ pc' = [pc EXCEPT ![k] = "check"]
  /\ hit' = hit \ {k}
  /\ late' = IF k[1] \in closed THEN late \cup {k} ELSE late \ {k}
  /\ UNCHANGED <<ch, closed, past, written, got, dropped>>

(* A Write that times out goes on to cleanWriteBuffer, a Read returns. *)
AfterTimeout(k) == IF k[2] = "write" THEN "clean" ELSE "idle"

(* One turn of the loop of cleanWriteBuffer, against a concurrent Read. *)
CleanWriteBuffer(e) ==
  LET o == Other(e)
  IN  /\ pc[<<e, "write">>] = "clean"
      /\ IF ch[o] = <<>>
         THEN /\ pc' = [pc EXCEPT ![<<e, "write">>] = "idle"]
              /\ UNCHANGED <<ch, dropped>>
         ELSE /\ dropped' = dropped \cup {Head(ch[o])}
              /\ ch' = [ch EXCEPT ![o] = Tail(@)]
              /\ UNCHANGED pc
      /\ UNCHANGED <<closed, past, hit, late, written, got>>

(* The first select: return if the end is closed or the deadline past. *)
CheckNothing(k) == TRUE
MayWait(k) == k[1] \notin closed /\ k \notin past
Check(k) ==
  /\ pc[k] = "check"
  /\ MayWait(k)
  /\ pc' = [pc EXCEPT ![k] = "select"]
  /\ UNCHANGED <<ch, closed, past, hit, late, written, got, dropped>>

CheckPast(k) ==
  /\ pc[k] = "check"
  /\ k \in past
  /\ pc' = [pc EXCEPT ![k] = AfterTimeout(k)]
  /\ UNCHANGED <<ch, closed, past, hit, late, written, got, dropped>>

(* A closed end, in either select: EOF or ErrClosedPipe. *)
SeesOther(k) == Other(k[1]) \in closed
SeesClosed(k) == k[1] \in closed
ReturnClosed(k) ==
  /\ pc[k] \in {"check", "select"}
  /\ SeesClosed(k)
  /\ pc' = [pc EXCEPT ![k] = "idle"]
  /\ UNCHANGED <<ch, closed, past, hit, late, written, got, dropped>>

(* The deadline passes while the call waits. *)
ReturnStillPast(k) ==
  /\ pc[k] = "select"
  /\ k \in hit \cap past
  /\ pc' = [pc EXCEPT ![k] = AfterTimeout(k)]
  /\ UNCHANGED <<ch, closed, past, hit, late, written, got, dropped>>
ReturnTimeout(k) ==
  /\ pc[k] = "select"
  /\ k \in hit
  /\ pc' = [pc EXCEPT ![k] = AfterTimeout(k)]
  /\ UNCHANGED <<ch, closed, past, hit, late, written, got, dropped>>

Newest(e) == [first |-> ch[e][Len(ch[e])], rest |-> SubSeq(ch[e], 1, Len(ch[e]) - 1)]
Oldest(e) == [first |-> Head(ch[e]), rest |-> Tail(ch[e])]
Receive(e) ==
  /\ pc[<<e, "read">>] = "select"
  /\ ch[e] # <<>>
  /\ got' = [got EXCEPT ![e] = Append(@, Oldest(e).first)]
  /\ ch' = [ch EXCEPT ![e] = Oldest(e).rest]
  /\ pc' = [pc EXCEPT ![<<e, "read">>] = "idle"]
  /\ UNCHANGED <<closed, past, hit, late, written, dropped>>

NoCapacity(e) == TRUE
HasRoom(e) == Len(ch[e]) < Capacity
NextPacket == CHOOSE p \in 1..(MaxPackets + 1) : written[0] \cup written[1] = 1..(p - 1)
Send(e) ==
  /\ pc[<<e, "write">>] = "select"
  /\ HasRoom(Other(e))
  /\ NextPacket <= MaxPackets
  /\ ch' = [ch EXCEPT ![Other(e)] = Append(@, NextPacket)]
  /\ written' = [written EXCEPT ![e] = @ \cup {NextPacket}]
  /\ pc' = [pc EXCEPT ![<<e, "write">>] = "idle"]
  /\ UNCHANGED <<closed, past, hit, late, got, dropped>>

Close(e) ==
  /\ e \notin closed
  /\ closed' = closed \cup {e}
  /\ UNCHANGED <<ch, past, pc, hit, late, written, got, dropped>>

(* SetReadDeadline and SetWriteDeadline: a deadline passes or is set anew. *)
HitWaiting(k) == IF pc[k] = "select" THEN hit \cup {k} ELSE hit
DeadlinePasses(k) ==
  /\ k \notin past
  /\ past' = past \cup {k}
  /\ hit' = HitWaiting(k)
  /\ UNCHANGED <<ch, closed, pc, late, written, got, dropped>>

SetDeadline(k) ==
  /\ k \in past
  /\ past' = past \ {k}
  /\ UNCHANGED <<ch, closed, pc, hit, late, written, got, dropped>>

-----------------------------------------------------------------------------
CallStep(k) == Check(k) \/ CheckPast(k) \/ ReturnClosed(k) \/ ReturnTimeout(k)

Next ==
  \/ \E k \in Calls : Call(k) \/ CallStep(k) \/ DeadlinePasses(k) \/ SetDeadline(k)
  \/ \E e \in Readers : Receive(e)
  \/ \E e \in Writers : Send(e) \/ CleanWriteBuffer(e)
  \/ \E e \in Ends : Close(e)

Spec == Init /\ [][Next]_vars

-----------------------------------------------------------------------------
(* Packets are read in the order written, none twice, and none is lost     *)
(* except those a timed-out Write of the same end discards.                *)
InOrder ==
  \A e \in Ends :
    LET seen == got[e] \o ch[e]
    IN  /\ \A i, j \in DOMAIN seen : i < j => seen[i] < seen[j]
        /\ {seen[i] : i \in DOMAIN seen} = written[Other(e)] \ dropped

(* A step of a Read or Write that began after Close transfers nothing. *)
ClosedIsSilent ==
  \A e \in Ends : /\ got'[e] # got[e] => <<e, "read">> \notin late
                  /\ written'[e] # written[e] => <<e, "write">> \notin late

(* Nobody waits for nothing: when no call can take a step, one that waits  *)
(* does so at an open end, its deadline has not passed while it waited,    *)
(* also if it is then set anew, and there is no packet to read or no room  *)
(* to write.                                                               *)
Step ==
  \/ \E k \in Calls : CallStep(k)
  \/ \E e \in Readers : Receive(e)
  \/ \E e \in Writers : Send(e) \/ CleanWriteBuffer(e)
NothingStuck ==
  ~ENABLED Step =>
    \A k \in Calls : pc[k] # "idle" => /\ pc[k] = "select" /\ k[1] \notin closed /\ k \notin hit
                                        /\ IF k[2] = "read" THEN ch[k[1]] = <<>>
                                           ELSE ~HasRoom(Other(k[1])) \/ NextPacket > MaxPackets

(* The comment of Pipe: "Close of the one end doesn't make effect to the   *)
(* other end": a call waiting at an end that is not closed, with its       *)
(* deadline not past, returns only by transferring a packet.               *)
CloseIsLocal ==
  \A k \in Calls :
    pc[k] = "select" /\ pc'[k] = "idle" /\ k[1] \notin closed /\ k \notin hit
      => IF k[2] = "read" THEN got'[k[1]] # got[k[1]] ELSE written'[k[1]] # written[k[1]]
=============================================================================
