--------------------------- MODULE MCBufferDeadline ---------------------------
(***************************************************************************)
(* One of three is chosen once: the deadline alone, with many calls of     *)
(* Set; the buffer with its deadline, with Calls calls of Write and Set in *)
(* all; the timer of the js builds.                                        *)
(***************************************************************************)
EXTENDS BufferDeadline

CONSTANTS Calls, JsTime, JsCalls

VARIABLES which, j_now, version, started, setTo, runtime, carries, j_late, j_callbacks

J == INSTANCE JsTimer WITH
  MaxTime <- JsTime, MaxCalls <- JsCalls, now <- j_now, late <- j_late, callbacks <- j_callbacks

jsVars == <<j_now, version, started, setTo, runtime, carries, j_late, j_callbacks>>
mcVars == <<which, allVars, jsVars>>

MCInit == which \in {"deadline", "buffer", "js"} /\ BufInit /\ J!Init

MCNext ==
  \/ which = "deadline" /\ Next /\ UNCHANGED <<which, bufVars, jsVars>>
  \/ /\ which = "buffer" /\ BufNext /\ UNCHANGED <<which, jsVars>>
     /\ sets' < Calls /\ sets' + written' <= Calls /\ ctxs' = <<>>
     /\ deadline' \in {deadline, NoDeadline, now, now + 1}
  \/ which = "js" /\ J!Next /\ UNCHANGED <<which, allVars>>

(* The fairness of BufferDeadline; no liveness is asked of the js timer. *)
MCSpec == MCInit /\ [][MCNext]_mcVars /\ BufFairness

-----------------------------------------------------------------------------
(* BufferDeadline!ImplementsBufferSync and JsTimer!ImplementsTimer. *)
Implements == [][ImplementsBufferSync /\ J!ImplementsTimer]_mcVars
=============================================================================
