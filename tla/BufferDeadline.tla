---------------------------- MODULE BufferDeadline ----------------------------
(***************************************************************************)
(* A packetio.Buffer together with its read deadline: module BufferSync    *)
(* with module Deadline in place of the three-valued deadline it assumes.  *)
(* A Read that evaluates its select takes the Done channel of the moment,  *)
(* and keeps that channel however often the deadline is set after.         *)
(***************************************************************************)
EXTENDS Deadline

CONSTANTS Readers, LimitCount, MaxWrites   \* of BufferSync

VARIABLES
  queue, b_closed, notify, pc, result, written,   \* of BufferSync
  cap            \* the Done channel in the select of each Read

bufVars == <<queue, b_closed, notify, pc, result, written, cap>>
allVars == <<vars, bufVars>>

(* The deadline as BufferSync sees it. *)
rd == IF state = "started" THEN "armed" ELSE IF state = "suspended" THEN "none" ELSE "exceeded"
fired == {r \in Readers : pc[r] = "wait" /\ cap[r] \in closed}

B == INSTANCE BufferSync WITH closed <- b_closed

BufInit ==
  /\ Init
  /\ cap = [r \in Readers |-> 0]
  /\ B!Init

(* The steps of a Read; Done() is called for the select only. *)
Capture(r) == cap' = [cap EXCEPT ![r] = done]

ReadStep(r) ==
  /\ UNCHANGED vars
  /\ \/ Capture(r) /\ B!ReadSelect(r)
     \/ UNCHANGED cap /\ (B!ReadLocked(r) \/ B!ReadTimeout(r) \/ B!ReadNotified(r))

BufNext ==
  \/ Next /\ UNCHANGED bufVars
  \/ UNCHANGED <<vars, cap>> /\ (B!Write \/ B!Close \/ \E r \in Readers : B!ReadStart(r))
  \/ \E r \in Readers : ReadStep(r)

BufSpec == BufInit /\ [][BufNext]_allVars

(* The fairness of both modules, but for the deadline, which has its own.  *)
BufFairness == Fairness /\ \A r \in Readers : WF_allVars(ReadStep(r))

-----------------------------------------------------------------------------
(* The buffer with its real deadline does what BufferSync says: however    *)
(* the deadline is set, fires and is set again, the Reads in their select  *)
(* are released exactly when the deadline they wait for is exceeded, and   *)
(* stay released when it is moved after that.                              *)
ImplementsBufferSync == [B!Next]_(B!vars)

(* BufferSync!NoLostWakeup. *)
NoLostWakeup == B!NoLostWakeup

(* BufferSync!EOFIsFinal. *)
EOFIsFinal == B!EOFIsFinal

(* Close and an exceeded deadline release the Reads, and a deadline that   *)
(* is started is exceeded unless it is set anew.                           *)
Releases == ReleasesEventually /\ B!CloseReleases /\ B!DeadlineReleases
=============================================================================
