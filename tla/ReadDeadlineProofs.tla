-------------------------- MODULE ReadDeadlineProofs --------------------------
(***************************************************************************)
(* Proofs about the deadline, the buffer with its read deadline and the js *)
(* timer: the parts of module MCBufferDeadline, for every clock, every     *)
(* number of calls and of readers, and every width of the counter pending  *)
(* that exceeds the number of callbacks waiting for d.mu at once.          *)
(***************************************************************************)
EXTENDS MCBufferDeadline, TLAPS

-----------------------------------------------------------------------------
(* The deadline. *)

(* The contexts known to d: d.ctx is one of those created, so are those    *)
(* that were fired, and each was created for a done channel that exists.   *)
CtxIndex ==
  /\ ctx \in 0..Len(ctxs)
  /\ firing \cup canceled \subseteq 1..Len(ctxs)
  /\ \A c \in DOMAIN ctxs : ctxs[c] \in 1..done

(* The inductive invariant.  NeverEarly alone is not inductive: a callback *)
(* could fire a deadline still to come; PendingCount excludes it, because  *)
(* the last callback of a started deadline that is no longer armed can     *)
(* only have come from the timer of that deadline.                         *)
IInv == TypeOK /\ PendingCount /\ NeverEarly /\ DoneChannels /\ CtxIndex /\ ContextFollowsDone

(* The state New() returns satisfies the invariant. *)
LEMMA InitIInv == Init => IInv
<1> SUFFICES ASSUME Init PROVE IInv
  OBVIOUS
<1> USE DeadlineAssumption DEF Init, NoDeadline, NotArmed, NoCtx, Outstanding
<1>1. TypeOK
  BY DEF TypeOK
<1>2. PendingCount /\ NeverEarly /\ CtxIndex /\ ContextFollowsDone
  BY DEF PendingCount, NeverEarly, CtxIndex, ContextFollowsDone, Err
<1>3. DoneChannels
  BY DEF DoneChannels
<1> QED
  BY <1>1, <1>2, <1>3 DEF IInv

(* What fire(ch) does to the channels and the contexts, when ch is the     *)
(* done channel in force and is still open.                                *)
LEMMA FirePreserves ==
  ASSUME TypeOK, CtxIndex, ContextFollowsDone,
         NEW ch \in Nat \ {0}, closed = 1..ch-1, done' = ch, ch >= done,
         reclosed = {}, fire(ch), UNCHANGED <<ctxs, canceled>>
  PROVE  /\ state' = "exceeded"
         /\ closed' \in SUBSET (Nat \ {0})
         /\ reclosed' \in SUBSET (Nat \ {0})
         /\ ctx' \in Nat
         /\ firing' \in SUBSET Nat
         /\ DoneChannels' /\ CtxIndex' /\ ContextFollowsDone'
<1> USE DEF fire, TakeCancel, NoCtx
<1>1. closed' = 1..ch /\ reclosed' = {} /\ state' = "exceeded"
  OBVIOUS
<1>2. DoneChannels'
  BY <1>1 DEF DoneChannels
<1>3. ctx' \in Nat /\ firing' \in SUBSET Nat
  BY DEF TypeOK
<1>4. CtxIndex'
  BY DEF CtxIndex, TypeOK
<1>5. ContextFollowsDone'
  BY <1>1 DEF CtxIndex, TypeOK, ContextFollowsDone
<1> QED
  BY <1>1, <1>2, <1>3, <1>4, <1>5

(* Every step of the deadline preserves the invariant. *)
LEMMA NextIInv == IInv /\ [Next]_vars => IInv'
<1> SUFFICES ASSUME IInv, [Next]_vars PROVE IInv'
  OBVIOUS
<1> USE DeadlineAssumption DEF NoDeadline, NotArmed, NoCtx, Outstanding
<1>1. ASSUME NEW at \in Times \cup {NoDeadline}, Set(at)
      PROVE  IInv'
  <2>1. StopSucceeds <=> armedAt # NotArmed
    BY DEF StopSucceeds, IInv, PendingCount
  <2>2. /\ PendingInSet = IF callbacks + 1 = PendingMod THEN 0 ELSE callbacks + 1
        /\ PendingInSet \in 0..PendingMod-1
    BY <2>1 DEF PendingInSet, Inc, Dec, IInv, TypeOK, PendingCount
  <2>3. Dec(PendingInSet) = callbacks
    BY <2>2 DEF Dec, IInv, TypeOK
  <2>4. DoneInSet \in Nat \ {0} /\ closed = 1..DoneInSet-1 /\ DoneInSet >= done
    BY DEF DoneInSet, IInv, TypeOK, DoneChannels
  <2>5. at \in Nat
    BY DEF Times
  <2>6. CASE at = NoDeadline /\ SetZero
    <3>1. TypeOK'
      BY <1>1, <2>1, <2>3, <2>4, <2>6 DEF Set, SetZero, IInv, TypeOK
    <3>2. PendingCount' /\ NeverEarly'
      BY <1>1, <2>1, <2>3, <2>6 DEF Set, SetZero, IInv, TypeOK, PendingCount, NeverEarly, Err
    <3>3. DoneChannels'
      BY <1>1, <2>4, <2>6 DEF Set, SetZero, IInv, TypeOK, DoneChannels
    <3>4. CtxIndex' /\ ContextFollowsDone'
      BY <1>1, <2>4, <2>6 DEF Set, SetZero, IInv, TypeOK, CtxIndex, ContextFollowsDone
    <3> QED
      BY <3>1, <3>2, <3>3, <3>4 DEF IInv
  <2>7. CASE at > now /\ SetFuture(at)
    <3>1. TypeOK'
      BY <1>1, <2>2, <2>4, <2>5, <2>7 DEF Set, SetFuture, IInv, TypeOK
    <3>2. PendingCount' /\ NeverEarly'
      BY <1>1, <2>2, <2>5, <2>7
      DEF Set, SetFuture, IInv, TypeOK, PendingCount, NeverEarly, Err
    <3>3. DoneChannels'
      BY <1>1, <2>4, <2>7 DEF Set, SetFuture, IInv, TypeOK, DoneChannels
    <3>4. CtxIndex' /\ ContextFollowsDone'
      BY <1>1, <2>4, <2>7 DEF Set, SetFuture, IInv, TypeOK, CtxIndex, ContextFollowsDone
    <3> QED
      BY <3>1, <3>2, <3>3, <3>4 DEF IInv
  <2>8. CASE at # NoDeadline /\ at <= now /\ SetPast
    <3>1. /\ state' = "exceeded"
          /\ closed' \in SUBSET (Nat \ {0}) /\ reclosed' \in SUBSET (Nat \ {0})
          /\ ctx' \in Nat /\ firing' \in SUBSET Nat
          /\ DoneChannels' /\ CtxIndex' /\ ContextFollowsDone'
      BY <1>1, <2>4, <2>8, FirePreserves DEF Set, SetPast, IInv, DoneChannels
    <3>2. TypeOK'
      BY <1>1, <2>1, <2>3, <2>4, <2>5, <2>8, <3>1 DEF Set, SetPast, IInv, TypeOK
    <3>3. PendingCount' /\ NeverEarly'
      BY <1>1, <2>1, <2>3, <2>8, <3>1
      DEF Set, SetPast, IInv, TypeOK, PendingCount, NeverEarly, Err
    <3> QED
      BY <3>1, <3>2, <3>3 DEF IInv
  <2> QED
    BY <1>1, <2>6, <2>7, <2>8 DEF Set
<1>2. CASE timeout
  <2>1. Dec(pending) = Outstanding - 1 /\ Dec(pending) \in 0..PendingMod-1
    BY <1>2 DEF timeout, Dec, IInv, TypeOK, PendingCount
  <2>2. CASE TimeoutFires(Dec(pending)) /\ fire(done)
    <3>1. state = "started" /\ armedAt = NotArmed /\ callbacks = 1
      BY <1>2, <2>1, <2>2 DEF timeout, TimeoutFires, IInv, TypeOK, PendingCount
    <3>2. done \in Nat \ {0} /\ closed = 1..done-1 /\ done' = done
      BY <1>2, <3>1 DEF timeout, IInv, TypeOK, DoneChannels
    <3>3. /\ state' = "exceeded"
          /\ closed' \in SUBSET (Nat \ {0}) /\ reclosed' \in SUBSET (Nat \ {0})
          /\ ctx' \in Nat /\ firing' \in SUBSET Nat
          /\ DoneChannels' /\ CtxIndex' /\ ContextFollowsDone'
      BY <1>2, <2>2, <3>2, FirePreserves DEF timeout, IInv, DoneChannels
    <3>4. TypeOK'
      BY <1>2, <2>1, <3>3 DEF timeout, IInv, TypeOK
    <3>5. PendingCount' /\ NeverEarly'
      BY <1>2, <2>1, <3>1, <3>3
      DEF timeout, IInv, TypeOK, PendingCount, NeverEarly, Err
    <3> QED
      BY <3>3, <3>4, <3>5 DEF IInv
  <2>3. CASE ~TimeoutFires(Dec(pending)) /\ UNCHANGED <<state, closed, reclosed, ctx, firing>>
    <3>1. TypeOK'
      BY <1>2, <2>1, <2>3 DEF timeout, IInv, TypeOK
    <3>2. PendingCount' /\ NeverEarly'
      BY <1>2, <2>1, <2>3
      DEF timeout, TimeoutFires, IInv, TypeOK, PendingCount, NeverEarly, Err
    <3>3. DoneChannels' /\ CtxIndex' /\ ContextFollowsDone'
      BY <1>2, <2>3 DEF timeout, IInv, DoneChannels, CtxIndex, ContextFollowsDone
    <3> QED
      BY <3>1, <3>2, <3>3 DEF IInv
  <2> QED
    BY <1>2, <2>2, <2>3 DEF timeout
<1>3. ASSUME NEW c \in 1..MaxCtxs, RunCancel(c)
      PROVE  IInv'
  <2>1. TypeOK' /\ PendingCount' /\ NeverEarly'
    BY <1>3 DEF RunCancel, IInv, TypeOK, PendingCount, NeverEarly, Err
  <2>2. DoneChannels' /\ CtxIndex' /\ ContextFollowsDone'
    BY <1>3 DEF RunCancel, IInv, DoneChannels, CtxIndex, ContextFollowsDone
  <2> QED
    BY <2>1, <2>2 DEF IInv
<1>4. CASE Context
  <2>1. TypeOK'
    BY <1>4 DEF Context, IInv, TypeOK
  <2>2. PendingCount' /\ NeverEarly' /\ DoneChannels'
    BY <1>4 DEF Context, IInv, PendingCount, NeverEarly, DoneChannels, Err
  <2>3. /\ Len(ctxs') = Len(ctxs) + 1
        /\ \A c \in DOMAIN ctxs' :
             ctxs'[c] = IF c = Len(ctxs) + 1 THEN done ELSE ctxs[c]
        /\ \A c \in DOMAIN ctxs' : c # Len(ctxs) + 1 => c \in DOMAIN ctxs
    BY <1>4 DEF Context, IInv, TypeOK
  <2>4. CtxIndex'
    BY <1>4, <2>3 DEF Context, IInv, TypeOK, CtxIndex
  <2>5. ContextFollowsDone'
    BY <1>4, <2>3 DEF Context, IInv, TypeOK, CtxIndex, ContextFollowsDone, DoneChannels
  <2> QED
    BY <2>1, <2>2, <2>4, <2>5 DEF IInv
<1>5. CASE Tick
  <2>1. TypeOK' /\ PendingCount' /\ NeverEarly'
    BY <1>5 DEF Tick, IInv, TypeOK, PendingCount, NeverEarly, Err
  <2>2. DoneChannels' /\ CtxIndex' /\ ContextFollowsDone'
    BY <1>5 DEF Tick, IInv, DoneChannels, CtxIndex, ContextFollowsDone
  <2> QED
    BY <2>1, <2>2 DEF IInv
<1>6. CASE TimerFires
  <2>1. TypeOK' /\ PendingCount' /\ NeverEarly'
    BY <1>6 DEF TimerFires, IInv, TypeOK, PendingCount, NeverEarly, Err
  <2>2. DoneChannels' /\ CtxIndex' /\ ContextFollowsDone'
    BY <1>6 DEF TimerFires, IInv, DoneChannels, CtxIndex, ContextFollowsDone
  <2> QED
    BY <2>1, <2>2 DEF IInv
<1>7. CASE UNCHANGED vars
  BY <1>7 DEF vars, IInv, TypeOK, PendingCount, NeverEarly, Err, DoneChannels, CtxIndex,
     ContextFollowsDone
<1> QED
  BY <1>1, <1>2, <1>3, <1>4, <1>5, <1>6, <1>7 DEF Next

(* Deadline keeps its types, for every width of pending. *)
THEOREM TypeCorrect == Spec => []TypeOK
<1>1. IInv => TypeOK
  BY DEF IInv
<1> QED
  BY <1>1, InitIInv, NextIInv, PTL DEF Spec

(* timeout() and Set report a deadline as exceeded only once the deadline  *)
(* in force has passed, whatever callbacks of replaced timers are around.  *)
THEOREM NeverEarlyCorrect == Spec => []NeverEarly
<1>1. IInv => NeverEarly
  BY DEF IInv
<1> QED
  BY <1>1, InitIInv, NextIInv, PTL DEF Spec

(* No done channel is closed twice or abandoned open. *)
THEOREM DoneChannelsCorrect == Spec => []DoneChannels
<1>1. IInv => DoneChannels
  BY DEF IInv
<1> QED
  BY <1>1, InitIInv, NextIInv, PTL DEF Spec

(* Every context handed out is canceled by the call that closes the done   *)
(* channel it was created for, and by no other.                            *)
THEOREM ContextFollowsDoneCorrect == Spec => []ContextFollowsDone
<1>1. IInv => ContextFollowsDone
  BY DEF IInv
<1> QED
  BY <1>1, InitIInv, NextIInv, PTL DEF Spec

-----------------------------------------------------------------------------
(* The buffer, over the deadline BufferSync assumes. *)

(* The two safety properties are inductive together with the types: every  *)
(* step that empties notify leaves its Read before b.mutex, and every step *)
(* that takes such a Read away from there puts the token back.             *)
SyncInv == B!TypeOK /\ B!NoLostWakeup /\ B!EOFIsFinal

(* A new buffer satisfies the invariant. *)
LEMMA InitSyncInv == B!Init => SyncInv
<1> SUFFICES ASSUME B!Init PROVE SyncInv
  OBVIOUS
<1>1. B!TypeOK
  <2>1. queue \in Seq(Nat) /\ written \in Nat /\ notify \in {0, 1}
    BY DEF B!Init
  <2>2. b_closed \in BOOLEAN /\ rd \in {"none", "armed", "exceeded"}
    BY Zenon DEF B!Init
  <2>3. pc \in [Readers -> {"idle", "lock", "select", "wait"}]
    BY DEF B!Init
  <2>4. result \in [Readers -> {"none", "packet", "EOF", "timeout"}]
    BY DEF B!Init
  <2>5. fired \in SUBSET {r \in Readers : pc[r] = "wait"}
    BY DEF B!Init
  <2> QED
    BY <2>1, <2>2, <2>3, <2>4, <2>5 DEF B!TypeOK
<1>2. B!NoLostWakeup
  BY DEF B!Init, B!NoLostWakeup
<1>3. B!EOFIsFinal
  BY DEF B!Init, B!EOFIsFinal
<1> QED
  BY <1>1, <1>2, <1>3 DEF SyncInv

(* Every step of a Read, a Write, Close and the deadline preserves it. *)
LEMMA SyncInvStep == SyncInv /\ [B!Next]_(B!vars) => SyncInv'
<1> SUFFICES ASSUME SyncInv, [B!Next]_(B!vars) PROVE SyncInv'
  OBVIOUS
<1> USE DEF SyncInv, B!TypeOK, B!NoLostWakeup, B!EOFIsFinal
<1>1. CASE B!Write
  BY <1>1 DEF B!Write, B!Writable, B!NotifyOnWrite
<1>2. CASE B!Close
  BY <1>2 DEF B!Close
<1>3. ASSUME NEW r \in Readers, B!ReadStart(r)
      PROVE  SyncInv'
  BY <1>3 DEF B!ReadStart, B!Return, B!Goto
<1>4. ASSUME NEW r \in Readers, B!ReadLocked(r)
      PROVE  SyncInv'
  <2>1. CASE /\ queue # <<>> /\ queue' = Tail(queue)
             /\ notify' = B!NotifyOnConsume(Tail(queue)) /\ B!Return(r, "packet")
    BY <1>4, <2>1 DEF B!ReadLocked, B!Return, B!NotifyOnConsume
  <2>2. CASE queue = <<>> /\ b_closed /\ B!Return(r, "EOF") /\ UNCHANGED <<queue, notify>>
    BY <1>4, <2>2 DEF B!ReadLocked, B!Return
  <2>3. CASE /\ queue = <<>> /\ ~b_closed /\ B!Goto(r, "lock", "select")
             /\ UNCHANGED <<queue, notify, result>>
    BY <1>4, <2>3 DEF B!ReadLocked, B!Goto
  <2> QED
    BY <1>4, <2>1, <2>2, <2>3 DEF B!ReadLocked
<1>5. ASSUME NEW r \in Readers, B!ReadSelect(r)
      PROVE  SyncInv'
  BY <1>5 DEF B!ReadSelect, B!Goto, B!CaptureDone
<1>6. ASSUME NEW r \in Readers, B!ReadTimeout(r)
      PROVE  SyncInv'
  BY <1>6 DEF B!ReadTimeout, B!Return
<1>7. ASSUME NEW r \in Readers, B!ReadNotified(r)
      PROVE  SyncInv'
  BY <1>7 DEF B!ReadNotified, B!Goto
<1>8. ASSUME NEW to \in {"none", "armed"}, B!SetReadDeadline(to)
      PROVE  SyncInv'
  BY <1>8 DEF B!SetReadDeadline
<1>9. CASE B!DeadlineExceeded
  BY <1>9 DEF B!DeadlineExceeded
<1>10. CASE B!DeadlineFires
  BY <1>9, <1>10 DEF B!DeadlineFires
<1>11. CASE UNCHANGED B!vars
  BY <1>11 DEF B!vars
<1> QED
  BY <1>1, <1>2, <1>3, <1>4, <1>5, <1>6, <1>7, <1>8, <1>9, <1>10, <1>11 DEF B!Next

-----------------------------------------------------------------------------
(* The buffer over the real deadline implements BufferSync.  The invariant *)
(* of the deadline says which channels are closed; what is added is that a *)
(* waiting Read holds one of them or the current one, so that an exceeded  *)
(* deadline releases all and a replaced one none that it should not.       *)

(* A Read in its select holds a channel that Done() has returned. *)
Holds ==
  /\ pc \in [Readers -> {"idle", "lock", "select", "wait"}]
  /\ cap \in [Readers -> Nat]
  /\ \A r \in Readers : pc[r] = "wait" => cap[r] \in 1..done

BufInv == IInv /\ Holds

(* A new buffer has no Read in its select. *)
LEMMA InitBufInv == BufInit => BufInv
<1> SUFFICES ASSUME BufInit
             PROVE  BufInv
  OBVIOUS
<1>1. IInv
  BY InitIInv DEF BufInit
<1>2. Holds
  BY DEF BufInit, B!Init, Holds
<1> QED
  BY <1>1, <1>2 DEF BufInv

(* A new buffer over a new deadline is a new buffer. *)
LEMMA InitMaps == BufInit => B!Init
  BY DEF BufInit

(* The channel never goes back to an earlier one. *)
LEMMA DoneGrows ==
  ASSUME TypeOK, Next
  PROVE  done' \in {done, done + 1}
  BY DEF Next, Set, DoneInSet, timeout, RunCancel, Context, Tick, TimerFires

(* A step of the buffer or of a Read leaves the deadline alone. *)
LEMMA ReadersHold ==
  ASSUME BufInv, [BufNext]_allVars
  PROVE  Holds'
<1> USE DEF Holds
<1>1. done \in Nat \ {0}
  BY DEF BufInv, IInv, TypeOK
<1>2. CASE Next /\ UNCHANGED bufVars
  BY <1>1, <1>2, DoneGrows DEF BufInv, IInv, bufVars
<1>3. CASE UNCHANGED <<vars, cap>> /\ (B!Write \/ B!Close \/ \E r \in Readers : B!ReadStart(r))
  BY <1>3 DEF BufInv, vars, B!Write, B!Close, B!ReadStart, B!Return, B!Goto
<1>4. ASSUME NEW r \in Readers, ReadStep(r)
      PROVE  Holds'
  <2>1. CASE Capture(r) /\ B!ReadSelect(r)
    BY <1>1, <1>4, <2>1 DEF BufInv, ReadStep, vars, Capture, B!ReadSelect, B!Goto
  <2>2. CASE UNCHANGED cap /\ (B!ReadLocked(r) \/ B!ReadTimeout(r) \/ B!ReadNotified(r))
    BY <1>4, <2>2 DEF BufInv, ReadStep, vars, B!ReadLocked, B!ReadTimeout, B!ReadNotified, B!Goto, B!Return
  <2> QED
    BY <1>4, <2>1, <2>2 DEF ReadStep
<1>5. CASE UNCHANGED allVars
  BY <1>5 DEF BufInv, allVars, vars, bufVars
<1> QED
  BY <1>2, <1>3, <1>4, <1>5 DEF BufNext

(* Calls of the buffer and of its deadline keep the invariant. *)
LEMMA BufInvStep == BufInv /\ [BufNext]_allVars => BufInv'
<1> SUFFICES ASSUME BufInv, [BufNext]_allVars
             PROVE  BufInv'
  OBVIOUS
<1>1. [Next]_vars
  BY DEF BufNext, ReadStep, allVars
<1> QED
  BY <1>1, NextIInv, ReadersHold DEF BufInv

-----------------------------------------------------------------------------
(* When the deadline is exceeded every channel Done() has returned is      *)
(* closed, so every waiting Read is released.                              *)
LEMMA ExceededReleases ==
  ASSUME BufInv', UNCHANGED bufVars, state' = "exceeded"
  PROVE  B!DeadlineExceeded
<1>1. rd' = "exceeded"
  BY DEF rd
<1>2. closed' = 1..done'
  BY DEF BufInv, IInv, DoneChannels
<1>3. fired' = {r \in Readers : pc[r] = "wait"}
  BY <1>2 DEF BufInv, Holds, fired, bufVars
<1> QED
  BY <1>1, <1>3 DEF B!DeadlineExceeded, bufVars

(* Setting another deadline releases no Read and holds none back. *)
LEMMA SettingKeeps ==
  ASSUME UNCHANGED bufVars, UNCHANGED closed, state' \in {"suspended", "started"}
  PROVE  \E to \in {"none", "armed"} : B!SetReadDeadline(to)
<1>1. rd' \in {"none", "armed"}
  BY DEF rd
<1>2. UNCHANGED fired
  BY DEF fired, bufVars
<1> QED
  BY <1>1, <1>2 DEF B!SetReadDeadline, bufVars

(* What changes neither Err() nor a channel is not seen by the buffer. *)
LEMMA OthersKeep ==
  ASSUME UNCHANGED bufVars, UNCHANGED <<state, closed>>
  PROVE  UNCHANGED B!vars
  BY DEF B!vars, rd, fired, bufVars

(* Every step of the deadline is one the buffer expects of a deadline. *)
LEMMA DeadlineSimulates ==
  ASSUME BufInv, BufInv', Next, UNCHANGED bufVars
  PROVE  [B!Next]_(B!vars)
<1>1. CASE state' = "exceeded" /\ ~UNCHANGED <<state, closed>>
  BY <1>1, ExceededReleases DEF B!Next
<1>2. CASE state' # "exceeded" /\ ~UNCHANGED <<state, closed>>
  <2>1. state' \in {"suspended", "started"} /\ UNCHANGED closed
    BY <1>2 DEF Next, Set, SetZero, SetFuture, SetPast, fire, timeout, RunCancel, Context, Tick, TimerFires
  <2> QED
    BY SMTT(30), <2>1, SettingKeeps DEF B!Next
<1>3. CASE UNCHANGED <<state, closed>>
  BY <1>3, OthersKeep
<1> QED
  BY <1>1, <1>2, <1>3

(* Every step of buffer and deadline is one of BufferSync, or none. *)
LEMMA Simulates == BufInv /\ BufInv' /\ [BufNext]_allVars => [B!Next]_(B!vars)
<1> SUFFICES ASSUME BufInv, BufInv', [BufNext]_allVars
             PROVE  [B!Next]_(B!vars)
  OBVIOUS
<1>1. CASE Next /\ UNCHANGED bufVars
  BY <1>1, DeadlineSimulates
<1>2. CASE UNCHANGED <<vars, cap>> /\ (B!Write \/ B!Close \/ \E r \in Readers : B!ReadStart(r))
  BY <1>2 DEF B!Next
<1>3. ASSUME NEW r \in Readers, ReadStep(r)
      PROVE  [B!Next]_(B!vars)
  BY <1>3 DEF ReadStep, B!Next
<1>4. CASE UNCHANGED allVars
  BY <1>4, OthersKeep DEF allVars, vars
<1> QED
  BY <1>1, <1>2, <1>3, <1>4 DEF BufNext

(* The buffer with its real deadline implements BufferSync. *)
THEOREM ImplementsCorrect == BufSpec => B!Spec
<1>1. BufInv /\ BufInv' /\ [BufNext]_allVars => [B!Next]_(B!vars)
  BY Simulates
<1> QED
  BY InitMaps, InitBufInv, BufInvStep, <1>1, PTL DEF BufSpec, B!Spec

(* The fields of the buffer keep their types; notify never holds more than *)
(* its one token.                                                          *)
THEOREM BufferTypeCorrect == B!Spec => []B!TypeOK
<1>1. SyncInv => B!TypeOK
  BY DEF SyncInv
<1> QED
  BY <1>1, InitSyncInv, SyncInvStep, PTL DEF B!Spec

(* What holds of BufferSync holds of the buffer with its real deadline. *)
LEMMA SyncInvariance == BufSpec => []SyncInv
  BY ImplementsCorrect, InitSyncInv, SyncInvStep, PTL DEF B!Spec

(* No wake-up is lost, whatever the real deadline does, for any number of  *)
(* readers.                                                                *)
THEOREM NoLostWakeupCorrect == BufSpec => []NoLostWakeup
<1>1. SyncInv => NoLostWakeup
  BY DEF SyncInv, NoLostWakeup
<1> QED
  BY <1>1, SyncInvariance, PTL

(* Once a Read has returned EOF nothing is queued any more, whatever the   *)
(* real deadline does.                                                     *)
THEOREM EOFIsFinalCorrect == BufSpec => []EOFIsFinal
<1>1. SyncInv => EOFIsFinal
  BY DEF SyncInv, EOFIsFinal
<1> QED
  BY <1>1, SyncInvariance, PTL

-----------------------------------------------------------------------------
(* jsTimer implements Timer: with the invariant that a started timer is    *)
(* carried either by the runtime timer or by one goroutine of the current  *)
(* version, every step of jsTimer is a step of Timer or leaves its state   *)
(* alone.                                                                  *)
JsInv == J!TypeOK /\ J!StartedIsCarried

(* A timer that has not been reset is not started. *)
LEMMA InitJsInv == J!Init => JsInv
<1> SUFFICES ASSUME J!Init
             PROVE  JsInv
  OBVIOUS
<1>1. ~started /\ started \in BOOLEAN
  BY Zenon DEF J!Init
<1>2. J!TypeOK
  BY <1>1 DEF J!Init, J!TypeOK
<1>3. J!StartedIsCarried
  BY SMTT(30), <1>1 DEF J!Init, J!StartedIsCarried
<1> QED
  BY <1>2, <1>3 DEF JsInv

(* A started timer keeps what will end it, whatever goroutine comes j_late. *)
LEMMA JsInvStep ==
  ASSUME JsInv, [J!Next]_(J!vars)
  PROVE  JsInv'
<1> USE DEF JsInv, J!TypeOK, J!StartedIsCarried
<1>1. CASE J!Stop
  <2>1. ~started' /\ started' \in BOOLEAN
    BY <1>1, Zenon DEF J!Stop
  <2> QED
    BY <1>1, <2>1 DEF J!Stop, J!StopVersion
<1>2. ASSUME NEW at \in 1..JsTime, J!Reset(at) PROVE JsInv'
  BY <1>2 DEF J!Reset
<1>3. ASSUME NEW v \in j_late, J!Callback(v) PROVE JsInv'
  <2>1. CASE J!Current(v)
    <3>1. ~started' /\ started' \in BOOLEAN
      BY <1>3, <2>1, Zenon DEF J!Callback
    <3> QED
      BY <1>3, <2>1, <3>1 DEF J!Callback, J!Current
  <2>2. CASE ~J!Current(v)
    BY <1>3, <2>2 DEF J!Callback, J!Current
  <2> QED
    BY <2>1, <2>2
<1>4. CASE J!Return
  BY <1>4 DEF J!Return
<1>5. CASE J!RuntimeFires
  BY <1>5 DEF J!RuntimeFires
<1>6. CASE J!Tick
  BY <1>6 DEF J!Tick
<1>7. CASE UNCHANGED J!vars
  BY <1>7 DEF J!vars
<1> QED
  BY <1>1, <1>2, <1>3, <1>4, <1>5, <1>6, <1>7 DEF J!Next

(* Each operation of jsTimer is the operation of Timer it stands for; the  *)
(* runtime's timers and the goroutines of old versions are not seen.       *)
LEMMA JsSimulates ==
  ASSUME JsInv, [J!Next]_(J!vars)
  PROVE  J!ImplementsTimer
<1> USE DEF JsInv, J!TypeOK, J!StartedIsCarried, J!ImplementsTimer, J!T!Next, J!T!vars, J!T!NotArmed
<1>1. CASE J!Stop
  BY <1>1 DEF J!Stop, J!StopVersion, J!T!Stop
<1>2. ASSUME NEW at \in 1..JsTime, J!Reset(at) PROVE J!ImplementsTimer
  BY <1>2 DEF J!Reset, J!T!Reset
<1>3. ASSUME NEW v \in j_late, J!Callback(v) PROVE J!ImplementsTimer
  <2>1. CASE J!Current(v)
    <3>1. started /\ setTo <= j_now
      BY <1>3, <2>1 DEF J!Callback, J!Current
    <3> QED
      BY <1>3, <2>1, <3>1 DEF J!Callback, J!T!GoesOff
  <2>2. CASE ~J!Current(v)
    BY <1>3, <2>2 DEF J!Callback
  <2> QED
    BY <2>1, <2>2
<1>4. CASE J!Return
  BY <1>4 DEF J!Return, J!T!Runs
<1>5. CASE J!RuntimeFires
  BY <1>5 DEF J!RuntimeFires
<1>6. CASE J!Tick
  BY <1>6 DEF J!Tick, J!T!Tick
<1>7. CASE UNCHANGED J!vars
  BY <1>7 DEF J!vars
<1> QED
  BY <1>1, <1>2, <1>3, <1>4, <1>5, <1>6, <1>7 DEF J!Next

(* The timer that afterFunc returns in js builds does what deadline.go     *)
(* relies on, for every length of the clock and every number of calls.     *)
THEOREM JsTimerCorrect == J!Spec => J!T!Spec
<1>1. J!Init => J!T!Init
  BY DEF J!Init, J!T!Init, J!T!NotArmed
<1>2. JsInv /\ [J!Next]_(J!vars) => JsInv'
  BY JsInvStep
<1>3. JsInv /\ [J!Next]_(J!vars) => [J!T!Next]_(J!T!vars)
  BY JsSimulates DEF J!ImplementsTimer
<1> QED
  BY InitJsInv, <1>1, <1>2, <1>3, PTL DEF J!Spec, J!T!Spec

-----------------------------------------------------------------------------
(* Both refinements, as the steps of MCBufferDeadline show them: whatever  *)
(* Set, timeout and Read do is a step of BufferSync or not seen by it, and *)
(* so it is for jsTimer and Timer.                                         *)
THEOREM ImplementsBothCorrect == MCSpec => Implements
<1>1. MCInit => BufInv /\ JsInv
  BY InitBufInv, InitJsInv DEF MCInit
<1>2. [MCNext]_mcVars => [BufNext]_allVars
  BY DEF MCNext, mcVars, BufNext, allVars
<1>3. [MCNext]_mcVars => [J!Next]_(J!vars)
  BY DEF MCNext, mcVars, jsVars, J!vars
<1>4. BufInv /\ JsInv /\ [MCNext]_mcVars => BufInv' /\ JsInv'
  BY <1>2, <1>3, BufInvStep, JsInvStep
<1>5. BufInv /\ BufInv' /\ JsInv /\ [MCNext]_mcVars => [ImplementsBufferSync /\ J!ImplementsTimer]_mcVars
  BY <1>2, <1>3, Simulates, JsSimulates DEF ImplementsBufferSync
<1> QED
  BY <1>1, <1>4, <1>5, PTL DEF MCSpec, Implements
=============================================================================
