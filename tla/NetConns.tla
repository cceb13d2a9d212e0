------------------------------- MODULE NetConns -------------------------------
(***************************************************************************)
(* The connections of src/netctx, src/dpipe, src/udp and src/test: a       *)
(* net.Conn and a net.PacketConn controlled by contexts, the in-memory     *)
(* packet pipe, the connection that writes in batches, and the bridge that *)
(* tests use as a network.  They share no state, so their joint behaviour  *)
(* is that of each of them: the connection under test is chosen once, and  *)
(* the others stay in an initial state.                                    *)
(***************************************************************************)
EXTENDS Naturals, Sequences

CONSTANTS
  ReadCallers, WriteCallers,     \* goroutines that call the net.Conn
  PacketCallers,                 \* goroutines that call WriteToContext
  Capacity, MaxPackets,          \* of DPipe
  BatchCallers, BatchSize, MaxMsgs,  \* of BatchWriter, whose WriteBatch may fail
  BridgePackets, MaxSettings     \* of Bridge

ASSUME NetConnsAssumption ==
  /\ Capacity \in Nat /\ MaxPackets \in Nat /\ BatchSize \in Nat
  /\ BridgePackets \in Nat /\ MaxSettings \in Nat

VARIABLES
  which,   \* the connection under test
  pc, ctx, watch, io, result, held, deadline, open, closed, cpc,
  p_pc, p_ctx, p_io, p_result, p_held, p_open, p_deadline, func, p_closed, once, settable,
  ch, d_closed, past, d_pc, hit, late, written, got, dropped,
  batches, writeBatchIdx, readBatchIdx, flushPending, writeReady, b_closed, wpc, full, fpc,
  txN, b_cpc, enqueued, sent, b_dropped,
  queue, stack, closing, r_closed, dropNWrites, reorderNWrites, filterCB, lossChance, settings,
  r_pc, r_written, r_got, gone, asked, rounds

ConnCallers == ReadCallers \cup WriteCallers
Dir == [c \in ConnCallers |-> IF c \in ReadCallers THEN "read" ELSE "write"]
Conn == INSTANCE ContextConn WITH Callers <- ConnCallers

PacketConn == INSTANCE ContextPacketConn WITH
  Callers <- PacketCallers, Dir <- [c \in PacketCallers |-> "write"],
  pc <- p_pc, ctx <- p_ctx, io <- p_io, result <- p_result, held <- p_held,
  open <- p_open, deadline <- p_deadline, closed <- p_closed

Pipe == INSTANCE DPipe WITH
  Readers <- {1}, Writers <- {0}, closed <- d_closed, pc <- d_pc

Batch == INSTANCE BatchWriter WITH
  Writers <- BatchCallers, MayFail <- TRUE,
  closed <- b_closed, cpc <- b_cpc, dropped <- b_dropped

Br == INSTANCE Bridge WITH
  MaxPackets <- BridgePackets, closed <- r_closed, pc <- r_pc, written <- r_written, got <- r_got

con == <<pc, ctx, watch, io, result, held, deadline, open, closed, cpc>>
pac == <<p_pc, p_ctx, p_io, p_result, p_held, p_open, p_deadline, func, p_closed, once, settable>>
pip == <<ch, d_closed, past, d_pc, hit, late, written, got, dropped>>
bat == <<batches, writeBatchIdx, readBatchIdx, flushPending, writeReady, b_closed, wpc, full,
         fpc, txN, b_cpc, enqueued, sent, b_dropped>>
bri == <<queue, stack, closing, r_closed, dropNWrites, reorderNWrites, filterCB, lossChance, settings,
         r_pc, r_written, r_got, gone, asked, rounds>>
vars == <<which, con, pac, pip, bat, bri>>

Init ==
  /\ which \in {"conn", "packetConn", "pipe", "batch", "bridge"}
  /\ Conn!Init /\ PacketConn!Init /\ Pipe!Init /\ Batch!Init /\ Br!Init
  /\ which # "packetConn" => settable

(* The directions of a bridge differ in code and share only the closing    *)
(* ends: one of them carries packets, and the test disturbs that one.      *)
OneWay ==
  \E e \in Br!Ends : /\ r_written[1 - e] = {} /\ r_pc[e] = "idle"
                     /\ dropNWrites[1 - e] = 0 /\ filterCB \cup asked \subseteq {e}

Next ==
  \/ which = "conn" /\ Conn!Next /\ UNCHANGED <<which, pac, pip, bat, bri>>
  \/ which = "packetConn" /\ PacketConn!Next /\ UNCHANGED <<which, con, pip, bat, bri>>
  \/ which = "pipe" /\ Pipe!Next /\ UNCHANGED <<which, con, pac, bat, bri>>
  \/ which = "batch" /\ Batch!Next /\ UNCHANGED <<which, con, pac, pip, bri>>
  \/ which = "bridge" /\ Br!Next /\ OneWay' /\ UNCHANGED <<which, con, pac, pip, bat>>

Spec == Init /\ [][Next]_vars

-----------------------------------------------------------------------------
(* The deadline a cancellation sets is gone before the next call of that   *)
(* direction can start, and a call whose own context is live never fails   *)
(* with a timeout, however data, cancellation and Close race.              *)
DeadlineRestored ==
  /\ Conn!TypeOK /\ PacketConn!TypeOK
  /\ Conn!DeadlineRestored /\ Conn!NoForeignTimeout /\ PacketConn!DeadlineRestored

(* Packets leave a pipe, messages the batches and packets a bridge in the  *)
(* order in which they were written, none twice, and none is lost, except  *)
(* for those a timed-out Write discards, those of a WriteBatch that        *)
(* failed, and what a test asks the bridge to drop, lose or reorder.  The  *)
(* bridge reports EOF only when nothing is left to read.  Channel, batches *)
(* and queues stay within their limits.                                    *)
InOrder ==
  /\ Pipe!TypeOK /\ Batch!TypeOK /\ Br!TypeOK
  /\ Pipe!InOrder /\ Batch!FirstInFirstOut /\ Batch!BatchesApart /\ Br!InOrder

(* What a step may not do: clear a deadline the user has set, report a     *)
(* packet that was transferred as canceled, transfer one in a call that    *)
(* began after Close, or end a call because the other end was closed.      *)
CallsHonest ==
  [][/\ PacketConn!UserDeadlineKept /\ PacketConn!ProgressKept
     /\ Pipe!ClosedIsSilent /\ Pipe!CloseIsLocal]_vars

(* Cancellation, deadlines, a flush, a Tick and Close release the calls    *)
(* that wait.                                                              *)
NoneStuck ==
  /\ Conn!NothingStuck /\ PacketConn!NothingStuck /\ Pipe!NothingStuck
  /\ Batch!NothingStuck /\ Br!NothingStuck
=============================================================================
