------------------------------- MODULE Bridge -------------------------------
(***************************************************************************)
(* The test network of src/test/bridge.go: two connections, a queue per    *)
(* direction, and a Tick that hands at most one packet per direction to a  *)
(* Read that waits.  A test can drop, filter, lose and reorder packets.    *)
(*                                                                         *)
(* Push, Tick and the settings run under the mutex of the bridge and are   *)
(* atomic; a Read never takes it.  Process repeats Tick until the queues   *)
(* are empty.  A deadline (module Deadline) is external: one that is past  *)
(* makes a Read or a Write return at once, which changes nothing, and one  *)
(* that passes releases the Read that waits.                               *)
(***************************************************************************)
EXTENDS Naturals, Sequences

CONSTANTS
  MaxPackets,   \* bound on the packets written
  MaxSettings   \* bound on the calls that change or disturb the bridge

Ends == {0, 1}
Packets == 1..MaxPackets
Other(e) == 1 - e

VARIABLES
  queue,           \* queue[e]: packets from e to the other end
  stack,           \* stack[e]: packets kept back to be reordered
  closing,         \* ends whose Close was called
  closed,          \* ends whose readCh is closed
  dropNWrites, reorderNWrites,
  filterCB,        \* the directions that have a filter
  lossChance,      \* whether Write loses no packet, some, or all
  pc,              \* the Read of each end; "expired": its deadline has passed meanwhile
  settings,        \* calls made that MaxSettings bounds
  written, got,    \* history: packets written, and read in that order
  gone,            \* history: packets dropped, filtered, lost or refused
  asked,           \* history: directions some packets of which were reordered
  rounds           \* history: stacks forwarded in each direction

setup == <<dropNWrites, reorderNWrites, filterCB, lossChance, settings>>
vars == <<queue, stack, closing, closed, setup, pc, written, got, gone, asked, rounds>>

TypeOK ==
  /\ queue \in [Ends -> Seq(Packets)] /\ stack \in [Ends -> Seq(Packets)]
  /\ got \in [Ends -> Seq(Packets)] /\ written \in [Ends -> SUBSET Packets]
  /\ closing \subseteq Ends /\ closed \subseteq closing
  /\ dropNWrites \in [Ends -> Nat] /\ reorderNWrites \in [Ends -> Nat]
  /\ filterCB \subseteq Ends /\ lossChance \in {"none", "some", "all"}
  /\ gone \subseteq Packets
  /\ pc \in [Ends -> {"idle", "select", "expired"}]
  /\ settings \in 0..MaxSettings /\ asked \subseteq Ends /\ rounds \in [Ends -> Nat]

(* NewBridge. *)
Init ==
  /\ queue = [e \in Ends |-> <<>>] /\ stack = [e \in Ends |-> <<>>]
  /\ closing = {} /\ closed = {}
  /\ dropNWrites = [e \in Ends |-> 0] /\ reorderNWrites = [e \in Ends |-> 0]
  /\ filterCB = {} /\ lossChance = "none" /\ settings = 0
  /\ pc = [e \in Ends |-> "idle"]
  /\ written = [e \in Ends |-> {}] /\ got = [e \in Ends |-> <<>>]
  /\ gone = {} /\ asked = {} /\ rounds = [e \in Ends |-> 0]

-----------------------------------------------------------------------------
(* Read, unless its deadline is past, waits for a packet, for readCh to be *)
(* closed (EOF) and for its deadline.                                      *)
Read(e) ==
  /\ pc[e] = "idle"
  /\ pc' = [pc EXCEPT ![e] = "select"]
  /\ UNCHANGED <<queue, stack, closing, closed, setup, written, got, gone, asked, rounds>>

DeadlinePasses(e) ==
  /\ pc[e] = "select"
  /\ pc' = [pc EXCEPT ![e] = "expired"]
  /\ UNCHANGED <<queue, stack, closing, closed, setup, written, got, gone, asked, rounds>>

ReadEnds(e) ==
  /\ pc[e] = "expired" \/ (pc[e] = "select" /\ e \in closed)
  /\ pc' = [pc EXCEPT ![e] = "idle"]
  /\ UNCHANGED <<queue, stack, closing, closed, setup, written, got, gone, asked, rounds>>

NextPacket == CHOOSE p \in 1..(MaxPackets + 1) : written[0] \cup written[1] = 1..(p - 1)

(* What every Write of a packet p does, whatever Push does with it. *)
Wrote(e, p) ==
  /\ p \in Packets
  /\ written' = [written EXCEPT ![e] = @ \cup {p}]
  /\ UNCHANGED <<closing, closed, filterCB, lossChance, settings, pc, got, asked>>

(* The packet is lost by chance, refused or discarded since an end closes, *)
(* or falls to DropNextNWrites or to the filter.                           *)
RefusedByOwn(e) == e \in closing
Refused(e) == closing # {}
Carried(e) == lossChance # "all" /\ ~Refused(e)
Discard(e, p) ==
  /\ Wrote(e, p)
  /\ \/ lossChance # "none" /\ UNCHANGED dropNWrites
     \/ lossChance # "all" /\ Refused(e) /\ UNCHANGED dropNWrites
     \/ /\ Carried(e) /\ dropNWrites[e] > 0
        /\ dropNWrites' = [dropNWrites EXCEPT ![e] = @ - 1]
     \/ /\ Carried(e) /\ dropNWrites[e] = 0 /\ reorderNWrites[e] = 0
        /\ e \in filterCB /\ UNCHANGED dropNWrites
  /\ gone' = gone \cup {p}
  /\ UNCHANGED <<queue, stack, reorderNWrites, rounds>>

(* inverse. *)
Reversed(s) == [i \in 1..Len(s) |-> s[Len(s) + 1 - i]]

(* A packet kept to be reordered.  With the last one the whole stack,      *)
(* which is never emptied, goes to the queue in reverse; a stack of one    *)
(* packet is forwarded as it is by end 1, and not at all by end 0.         *)
Keep(e, p) ==
  LET s == Append(stack[e], p)
      flipped == IF Len(s) < 2 THEN s ELSE Reversed(s)
      done == reorderNWrites[e] = 1
  IN  /\ Wrote(e, p)
      /\ Carried(e) /\ dropNWrites[e] = 0 /\ reorderNWrites[e] > 0
      /\ reorderNWrites' = [reorderNWrites EXCEPT ![e] = @ - 1]
      /\ stack' = [stack EXCEPT ![e] = IF done THEN flipped ELSE s]
      /\ queue' = [queue EXCEPT ![e] =
                     IF done /\ (e = 1 \/ Len(s) >= 2) THEN @ \o flipped ELSE @]
      /\ rounds' = [rounds EXCEPT ![e] = IF done THEN @ + 1 ELSE @]
      /\ UNCHANGED <<dropNWrites, gone>>

Enqueue(e, p) ==
  /\ Wrote(e, p)
  /\ Carried(e) /\ dropNWrites[e] = 0 /\ reorderNWrites[e] = 0
  /\ queue' = [queue EXCEPT ![e] = Append(@, p)]
  /\ UNCHANGED <<stack, dropNWrites, reorderNWrites, gone, rounds>>

-----------------------------------------------------------------------------
(* Tick at the receiving end e: close its readCh once it is closing and    *)
(* nothing is queued for it, else hand it a packet if its Read waits.      *)
ClosesEarly(e) == e \in closing \ closed
Closes(e) == e \in closing \ closed /\ queue[Other(e)] = <<>>
HandsToOpen(e) == queue[Other(e)] # <<>> /\ e \notin closing /\ pc[e] # "idle"
HandsTo(e) == queue[Other(e)] # <<>> /\ e \notin closed /\ pc[e] # "idle"
Tick ==
  LET take == {e \in Ends : HandsTo(e)} IN
  /\ closed' = closed \cup {e \in Ends : Closes(e)}
  /\ queue' = [e \in Ends |-> IF Other(e) \in take THEN Tail(queue[e]) ELSE queue[e]]
  /\ got' = [e \in Ends |-> IF e \in take THEN Append(got[e], Head(queue[Other(e)])) ELSE got[e]]
  /\ pc' = [e \in Ends |-> IF e \in take THEN "idle" ELSE pc[e]]
  /\ UNCHANGED <<stack, closing, setup, written, gone, asked, rounds>>

Close(e) ==
  /\ e \notin closing
  /\ closing' = closing \cup {e}
  /\ UNCHANGED <<queue, stack, closed, setup, pc, written, got, gone, asked, rounds>>

(* Reorder reverses a queue, unless it has fewer than two packets. *)
Reorder(e) ==
  /\ settings < MaxSettings /\ settings' = settings + 1
  /\ Len(queue[e]) >= 2
  /\ queue' = [queue EXCEPT ![e] = Reversed(@)]
  /\ asked' = asked \cup {e}
  /\ UNCHANGED <<stack, closing, closed, dropNWrites, reorderNWrites, filterCB, lossChance,
                 pc, written, got, gone, rounds>>

(* The packets of a queue. *)
Contents(q) == {q[i] : i \in DOMAIN q}

(* Drop n packets from an offset within the queue; clear drops them all. *)
Without(s, offset, n) ==
  SubSeq(s, 1, offset) \o SubSeq(s, offset + 1 + n, Len(s))
Drop(e, offset, n) ==
  /\ settings < MaxSettings /\ settings' = settings + 1
  /\ offset <= Len(queue[e])
  /\ queue' = [queue EXCEPT ![e] = Without(@, offset, n)]
  /\ gone' = gone \cup (Contents(queue[e]) \ Contents(queue'[e]))
  /\ UNCHANGED <<stack, closing, closed, dropNWrites, reorderNWrites, filterCB, lossChance,
                 pc, written, got, asked, rounds>>

clear ==
  /\ settings < MaxSettings /\ settings' = settings + 1
  /\ queue' = [e \in Ends |-> <<>>]
  /\ gone' = gone \cup Contents(queue[0]) \cup Contents(queue[1])
  /\ UNCHANGED <<stack, closing, closed, dropNWrites, reorderNWrites, filterCB, lossChance,
                 pc, written, got, asked, rounds>>

(* The settings of the test. *)
Setting ==
  /\ settings < MaxSettings /\ settings' = settings + 1
  /\ UNCHANGED <<queue, stack, closing, closed, pc, written, got, gone, rounds>>
DropNextNWrites(e, n) ==
  /\ Setting
  /\ dropNWrites' = [dropNWrites EXCEPT ![e] = n]
  /\ UNCHANGED <<reorderNWrites, filterCB, lossChance, asked>>
ReorderNextNWrites(e, n) ==
  /\ Setting
  /\ reorderNWrites' = [reorderNWrites EXCEPT ![e] = n]
  /\ asked' = asked \cup {e}
  /\ UNCHANGED <<dropNWrites, filterCB, lossChance>>
Filter(e) ==
  /\ Setting
  /\ filterCB' \in {filterCB \cup {e}, filterCB \ {e}}
  /\ UNCHANGED <<dropNWrites, reorderNWrites, lossChance, asked>>
SetLossChance ==
  /\ Setting
  /\ lossChance' \in {"none", "some", "all"}
  /\ UNCHANGED <<dropNWrites, reorderNWrites, filterCB, asked>>

Push(e) == Discard(e, NextPacket) \/ Keep(e, NextPacket) \/ Enqueue(e, NextPacket)

Next ==
  \/ \E e \in Ends : Read(e) \/ DeadlinePasses(e) \/ ReadEnds(e)
  \/ \E e \in Ends : Push(e) \/ Close(e) \/ Reorder(e) \/ Filter(e)
  \/ \E e \in Ends, n \in 0..2 : DropNextNWrites(e, n) \/ ReorderNextNWrites(e, n)
  \/ \E e \in Ends, offset \in 0..1, n \in 1..2 : Drop(e, offset, n)
  \/ SetLossChance \/ clear \/ Tick

Spec == Init /\ [][Next]_vars

-----------------------------------------------------------------------------
(* Every packet that no setting of the test disposed of is read, queued or *)
(* kept to be reordered.  They come in the order written unless the test   *)
(* reordered that direction, and twice only if it forwarded a second       *)
(* stack.  EOF is final: an end whose readCh is closed has nothing left to *)
(* read, however Write, Close and Tick race.                               *)
InOrder ==
  \A e \in Ends :
    LET seen == got[Other(e)] \o queue[e]
    IN  /\ written[e] \ gone \subseteq Contents(seen) \cup Contents(stack[e])
        /\ Contents(seen) \subseteq written[e]
        /\ e \notin asked => \A i, j \in DOMAIN seen : i < j => seen[i] < seen[j]
        /\ rounds[e] <= 1 => /\ \A i, j \in DOMAIN seen : seen[i] = seen[j] => i = j
                               /\ Contents(seen) \cap gone = {}
        /\ e \in closed => queue[Other(e)] = <<>>

(* Nobody waits for nothing: when neither a Tick nor a call changes        *)
(* anything, a Read that waits has no packet queued for it, its end is not *)
(* closing and its deadline did not pass while it waited.                  *)
Step == (Tick /\ \E e \in Ends : Closes(e) \/ HandsTo(e)) \/ \E e \in Ends : ReadEnds(e)
NothingStuck ==
  ~ENABLED Step =>
    \A e \in Ends : pc[e] # "idle" =>
      queue[Other(e)] = <<>> /\ e \notin closing /\ pc[e] = "select"
=============================================================================
