----------------------------- MODULE BatchWriter -----------------------------
(***************************************************************************)
(* The batched writes of src/udp/batchconn.go: writers enqueue messages in *)
(* one of two batches while the flusher goroutine sends the other, and     *)
(* Close stops the flusher.  Sections under pingPong.mu are one step;      *)
(* waiting on writeBatchSwapped, sending on writeReady and each WriteBatch *)
(* call of Flush are steps of their own.                                   *)
(***************************************************************************)
EXTENDS Naturals, FiniteSets, Sequences

CONSTANTS
  Writers,     \* goroutines that call WriteTo
  BatchSize,   \* batchWriteSize
  MaxMsgs,     \* bound on the messages put in batches
  MayFail      \* whether WriteBatch may fail

VARIABLES
  batches,       \* messages[:writePos] of the two batches
  writeBatchIdx, readBatchIdx, flushPending,
  writeReady,    \* tokens in the channel writeReady
  closed,
  wpc,           \* where each EnqueueMessage is
  full,          \* isFull, as it returned from the batch
  fpc,           \* where the flusher is
  txN,           \* messages of the batch sent by the Flush in progress
  cpc,           \* where Close is
  enqueued,      \* history: how many messages were put in batches; a message
                 \* is named by its place in that order
  sent,          \* history: messages given to the socket
  dropped        \* history: messages given up after a WriteBatch error

vars == <<batches, writeBatchIdx, readBatchIdx, flushPending, writeReady, closed, wpc,
          full, fpc, txN, cpc, enqueued, sent, dropped>>

TypeOK ==
  /\ batches \in [{0, 1} -> Seq(Nat)]
  /\ \A b \in {0, 1} : Len(batches[b]) <= BatchSize
  /\ writeBatchIdx \in {0, 1} /\ readBatchIdx \in {0, 1}
  /\ flushPending \in BOOLEAN /\ closed \in BOOLEAN
  /\ writeReady \in {0, 1}
  /\ wpc \in [Writers -> {"idle", "lock", "wait", "released", "unlocked"}]
  /\ full \in [Writers -> BOOLEAN]
  /\ fpc \in {"check", "select", "swap", "flush", "update", "exit", "exited", "done"}
  /\ txN \in 0..BatchSize
  /\ cpc \in {"idle", "stored", "wait", "returned"}
  /\ enqueued \in Nat /\ sent \in Seq(Nat) /\ dropped \in SUBSET Nat

(* newPingPong. *)
Init ==
  /\ batches = [b \in {0, 1} |-> <<>>]
  /\ writeBatchIdx = 0 /\ readBatchIdx = 0
  /\ flushPending = FALSE
  /\ writeReady = 0
  /\ closed = FALSE
  /\ wpc = [w \in Writers |-> "idle"]
  /\ full = [w \in Writers |-> FALSE]
  /\ fpc = "check"
  /\ txN = 0
  /\ cpc = "idle"
  /\ enqueued = 0 /\ sent = <<>> /\ dropped = {}

-----------------------------------------------------------------------------
(* WriteTo is called, if a message may still be enqueued within MaxMsgs. *)
WriteTo(w) ==
  /\ wpc[w] = "idle"
  /\ enqueued + Cardinality({v \in Writers : wpc[v] \in {"lock", "wait", "released"}}) < MaxMsgs
  /\ wpc' = [wpc EXCEPT ![w] = "lock"]
  /\ UNCHANGED <<batches, writeBatchIdx, readBatchIdx, flushPending, writeReady, closed, full,
                 fpc, txN, cpc, enqueued, sent, dropped>>

(* The batch can be written: getWriteBatch gives one and it is not full. *)
RoomAnyway == writeBatchIdx # readBatchIdx \/ ~flushPending
Room ==
  /\ writeBatchIdx # readBatchIdx \/ ~flushPending
  /\ Len(batches[writeBatchIdx]) < BatchSize

(* A turn of EnqueueMessage's loop, under p.mu.  The batch's own mutex is  *)
(* held by a Flush of it.  A writer without room waits on the channel      *)
(* writeBatchSwapped, which stays closed once the flusher has exited.      *)
EnqueueMessage(w) ==
  /\ wpc[w] = "lock"
  /\ ~(fpc = "flush" /\ writeBatchIdx = readBatchIdx)
  /\ IF Room
     THEN /\ batches' = [batches EXCEPT ![writeBatchIdx] = Append(@, enqueued + 1)]
          /\ enqueued' = enqueued + 1
          /\ full' = [full EXCEPT ![w] = Len(batches'[writeBatchIdx]) = BatchSize]
          /\ wpc' = [wpc EXCEPT ![w] = "unlocked"]
     ELSE /\ wpc' = [wpc EXCEPT ![w] = IF fpc \in {"exited", "done"} THEN "released" ELSE "wait"]
          /\ UNCHANGED <<batches, enqueued, full>>
  /\ UNCHANGED <<writeBatchIdx, readBatchIdx, flushPending, writeReady, closed, fpc, txN,
                 cpc, sent, dropped>>

(* The load of closed after the wait. *)
EnqueueReleased(w) ==
  /\ wpc[w] = "released"
  /\ wpc' = [wpc EXCEPT ![w] = IF closed THEN "idle" ELSE "lock"]
  /\ UNCHANGED <<batches, writeBatchIdx, readBatchIdx, flushPending, writeReady, closed, full,
                 fpc, txN, cpc, enqueued, sent, dropped>>

(* A filled batch queues up a flush, and EnqueueMessage returns. *)
ReadyIfFlusherIdle(w) == IF full[w] /\ fpc = "select" THEN 1 ELSE writeReady
ReadyIfFull(w) == IF full[w] THEN 1 ELSE writeReady
EnqueueReturns(w) ==
  /\ wpc[w] = "unlocked"
  /\ writeReady' = ReadyIfFull(w)
  /\ wpc' = [wpc EXCEPT ![w] = "idle"]
  /\ UNCHANGED <<batches, writeBatchIdx, readBatchIdx, flushPending, closed, full, fpc, txN,
                 cpc, enqueued, sent, dropped>>

-----------------------------------------------------------------------------
(* flusher: the loop condition. *)
FlusherCheck ==
  /\ fpc = "check"
  /\ fpc' = IF closed THEN "exit" ELSE "select"
  /\ UNCHANGED <<batches, writeBatchIdx, readBatchIdx, flushPending, writeReady, closed, wpc,
                 full, txN, cpc, enqueued, sent, dropped>>

FlusherReady ==
  /\ fpc = "select"
  /\ writeReady = 1
  /\ writeReady' = 0
  /\ fpc' = "swap"
  /\ UNCHANGED <<batches, writeBatchIdx, readBatchIdx, flushPending, closed, wpc, full, txN,
                 cpc, enqueued, sent, dropped>>

(* A tick of writeTicker: too soon after the last flush, or not. *)
FlusherTick(due) ==
  /\ fpc = "select"
  /\ fpc' = IF due THEN "swap" ELSE "check"
  /\ UNCHANGED <<batches, writeBatchIdx, readBatchIdx, flushPending, writeReady, closed, wpc,
                 full, txN, cpc, enqueued, sent, dropped>>

(* Closing writeBatchSwapped wakes every waiting writer. *)
ReleaseWriters == [w \in Writers |-> IF wpc[w] = "wait" THEN "released" ELSE wpc[w]]

updateWriteBatchAndGetReadBatch ==
  /\ fpc = "swap"
  /\ IF writeBatchIdx # readBatchIdx \/ flushPending
     THEN fpc' = "check" /\ UNCHANGED <<writeBatchIdx, flushPending, wpc>>
     ELSE /\ writeBatchIdx' = 1 - writeBatchIdx
          /\ flushPending' = TRUE
          /\ wpc' = ReleaseWriters
          /\ fpc' = "flush"
  /\ UNCHANGED <<batches, readBatchIdx, writeReady, closed, full, txN, cpc,
                 enqueued, sent, dropped>>

Unsent == SubSeq(batches[readBatchIdx], txN + 1, Len(batches[readBatchIdx]))

(* Flush: one WriteBatch, which sends the first n of the unsent messages. *)
ResendAll(n) == SubSeq(batches[readBatchIdx], 1, n)
FirstUnsent(n) == SubSeq(Unsent, 1, n)
FlushSome(n) ==
  /\ fpc = "flush"
  /\ n <= Len(Unsent)
  /\ sent' = sent \o FirstUnsent(n)
  /\ txN' = txN + n
  /\ UNCHANGED <<batches, writeBatchIdx, readBatchIdx, flushPending, writeReady, closed, wpc,
                 full, fpc, cpc, enqueued, dropped>>

(* Flush: the loop is over, or WriteBatch fails. *)
FlushEnds ==
  /\ fpc = "flush"
  /\ Unsent = <<>> \/ MayFail
  /\ dropped' = dropped \cup {Unsent[i] : i \in DOMAIN Unsent}
  /\ batches' = [batches EXCEPT ![readBatchIdx] = <<>>]
  /\ txN' = 0
  /\ fpc' = "update"
  /\ UNCHANGED <<writeBatchIdx, readBatchIdx, flushPending, writeReady, closed, wpc, full,
                 cpc, enqueued, sent>>

NextReadStays == readBatchIdx
NextRead == 1 - readBatchIdx
updateReadBatch ==
  /\ fpc = "update"
  /\ readBatchIdx' = NextRead
  /\ flushPending' = FALSE
  /\ fpc' = "check"
  /\ UNCHANGED <<batches, writeBatchIdx, writeReady, closed, wpc, full, txN, cpc,
                 enqueued, sent, dropped>>

(* The deferred function: close(writeBatchSwapped), then close(flusherDone). *)
ReleaseNone == wpc
ReleaseAtExit == ReleaseWriters
FlusherExit ==
  /\ \/ fpc = "exit" /\ wpc' = ReleaseAtExit /\ fpc' = "exited"
     \/ fpc = "exited" /\ UNCHANGED wpc /\ fpc' = "done"
  /\ UNCHANGED <<batches, writeBatchIdx, readBatchIdx, flushPending, writeReady, closed,
                 full, txN, cpc, enqueued, sent, dropped>>

-----------------------------------------------------------------------------
(* Close: store closed, wake the flusher, wait for it. *)
Close ==
  /\ cpc = "idle"
  /\ cpc' = "stored"
  /\ closed' = TRUE
  /\ UNCHANGED <<batches, writeBatchIdx, readBatchIdx, flushPending, writeReady, wpc, full,
                 fpc, txN, enqueued, sent, dropped>>

NoWake == writeReady
WakeFlusher == 1
CloseWakes ==
  /\ cpc = "stored"
  /\ cpc' = "wait"
  /\ writeReady' = WakeFlusher
  /\ UNCHANGED <<batches, writeBatchIdx, readBatchIdx, flushPending, closed, wpc, full, fpc,
                 txN, enqueued, sent, dropped>>

CloseReturns ==
  /\ cpc = "wait"
  /\ fpc = "done"
  /\ cpc' = "returned"
  /\ UNCHANGED <<batches, writeBatchIdx, readBatchIdx, flushPending, writeReady, closed, wpc,
                 full, fpc, txN, enqueued, sent, dropped>>

-----------------------------------------------------------------------------
Flush == (\E n \in 1..BatchSize : FlushSome(n)) \/ FlushEnds
FlusherStep ==
  FlusherCheck \/ FlusherReady \/ updateWriteBatchAndGetReadBatch \/ Flush \/ updateReadBatch
    \/ FlusherExit
WriterStep(w) == EnqueueMessage(w) \/ EnqueueReleased(w) \/ EnqueueReturns(w)
CloseStep == CloseWakes \/ CloseReturns

Next ==
  \/ \E w \in Writers : WriteTo(w) \/ WriterStep(w)
  \/ FlusherStep
  \/ \E due \in BOOLEAN : FlusherTick(due)
  \/ Close
  \/ CloseStep

Spec == Init /\ [][Next]_vars

-----------------------------------------------------------------------------
(* Messages reach the socket in the order in which they were put in a      *)
(* batch, none twice, and none lost but those of a failed WriteBatch: what *)
(* was sent, what is left of the batch being flushed and the batch being   *)
(* written make up, in this order, what was enqueued.                      *)
Flushing == IF fpc = "flush" THEN Unsent ELSE <<>>
FirstInFirstOut ==
  LET all == sent \o Flushing \o batches[writeBatchIdx]
  IN  /\ \A i, j \in DOMAIN all : i < j => all[i] < all[j]
      /\ {all[i] : i \in DOMAIN all} = (1..enqueued) \ dropped

(* The flusher always has the batch it flushes to itself, and outside a    *)
(* flush both indices agree, so that getWriteBatch always gives a batch.   *)
BatchesApart == (writeBatchIdx # readBatchIdx) = flushPending /\ (fpc = "flush" => flushPending)

(* Nobody waits for nothing.  When no goroutine can take a step until the  *)
(* ticker fires, no writer waits for a swap, a batch that has filled, also *)
(* while the flusher was busy, has been flushed, and Close has returned,   *)
(* with the flusher ended.                                                 *)
Step == FlusherStep \/ (\E w \in Writers : WriterStep(w)) \/ CloseStep
NothingStuck ==
  ~ENABLED Step =>
    /\ \A w \in Writers : wpc[w] = "idle"
    /\ closed \/ Len(batches[writeBatchIdx]) < BatchSize
    /\ cpc \in {"idle", "returned"} /\ (closed => fpc = "done")
=============================================================================
