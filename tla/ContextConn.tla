----------------------------- MODULE ContextConn -----------------------------
(***************************************************************************)
(* The context-controlled connection of src/netctx/conn.go.  ReadContext   *)
(* and WriteContext are the same code for the two directions: each call    *)
(* takes its direction's mutex, starts a goroutine that watches the        *)
(* context, does the I/O on the wrapped connection and waits for the       *)
(* watcher.  Close closes the wrapped connection and then takes both       *)
(* mutexes.                                                                *)
(*                                                                         *)
(* Of the wrapped net.Conn (external) the model has the two deadlines and  *)
(* whether it is open: I/O fails once it is closed or the deadline is      *)
(* past, and otherwise completes whenever the peer lets it.                *)
(***************************************************************************)
EXTENDS Naturals

CONSTANTS
  Callers,   \* goroutines that call ReadContext or WriteContext
  Dir        \* Dir[c]: "read" or "write"

Dirs == {"read", "write"}

VARIABLES
  pc,         \* where each call is
  ctx,        \* whether the call's context is canceled
  watch,      \* the call's watcher
  io,         \* what nextConn.Read or Write returned
  result,     \* what the last call returned
  held,       \* the directions whose mutex is held
  deadline,   \* deadlines of nextConn: "none" or "old"
  open,       \* whether nextConn is open
  closed,     \* whether c.closed is closed
  cpc         \* where Close is

vars == <<pc, ctx, watch, io, result, held, deadline, open, closed, cpc>>

Outcomes == {"none", "data", "timeout", "closed", "canceled"}

TypeOK ==
  /\ pc \in [Callers -> {"idle", "lock", "check", "io", "done", "wait"}]
  /\ ctx \in [Callers -> BOOLEAN]
  /\ watch \in [Callers -> {"none", "select", "armed", "ended"}]
  /\ io \in [Callers -> Outcomes \ {"canceled"}]
  /\ result \in [Callers -> Outcomes \ {"timeout"}]
  /\ held \in SUBSET Dirs
  /\ deadline \in [Dirs -> {"none", "old"}]
  /\ open \in BOOLEAN /\ closed \in BOOLEAN
  /\ cpc \in {"idle", "lockWrite", "lockRead", "close", "returned"}

(* NewConn. *)
Init ==
  /\ pc = [c \in Callers |-> "idle"]
  /\ ctx = [c \in Callers |-> FALSE]
  /\ watch = [c \in Callers |-> "none"]
  /\ io = [c \in Callers |-> "none"]
  /\ result = [c \in Callers |-> "none"]
  /\ held = {}
  /\ deadline = [d \in Dirs |-> "none"]
  /\ open = TRUE /\ closed = FALSE
  /\ cpc = "idle"

-----------------------------------------------------------------------------
Call(c) ==
  /\ pc[c] = "idle"
  /\ pc' = [pc EXCEPT ![c] = "lock"]
  /\ ctx' = [ctx EXCEPT ![c] = FALSE]
  /\ result' = [result EXCEPT ![c] = "none"]
  /\ io' = [io EXCEPT ![c] = "none"]
  /\ UNCHANGED <<watch, held, deadline, open, closed, cpc>>

Cancel(c) ==
  /\ pc[c] # "idle"
  /\ ~ctx[c]
  /\ ctx' = [ctx EXCEPT ![c] = TRUE]
  /\ UNCHANGED <<pc, watch, io, result, held, deadline, open, closed, cpc>>

Lock(c) ==
  /\ pc[c] = "lock"
  /\ Dir[c] \notin held
  /\ held' = held \cup {Dir[c]}
  /\ pc' = [pc EXCEPT ![c] = "check"]
  /\ UNCHANGED <<ctx, watch, io, result, deadline, open, closed, cpc>>

(* The test of c.closed; otherwise the watcher is started. *)
Check(c) ==
  /\ pc[c] = "check"
  /\ IF closed
     THEN /\ pc' = [pc EXCEPT ![c] = "idle"]
          /\ result' = [result EXCEPT ![c] = "closed"]
          /\ held' = held \ {Dir[c]}
          /\ UNCHANGED watch
     ELSE /\ pc' = [pc EXCEPT ![c] = "io"]
          /\ watch' = [watch EXCEPT ![c] = "select"]
          /\ UNCHANGED <<result, held>>
  /\ UNCHANGED <<ctx, io, deadline, open, closed, cpc>>

(* nextConn.Read or Write returns outcome. *)
IOReturns(c, outcome) ==
  /\ pc[c] = "io"
  /\ io' = [io EXCEPT ![c] = outcome]
  /\ pc' = [pc EXCEPT ![c] = "done"]
  /\ UNCHANGED <<ctx, watch, result, held, deadline, open, closed, cpc>>

IOSucceeds(c) == open /\ IOReturns(c, "data")
IOFails(c) ==
  \/ ~open /\ IOReturns(c, "closed")
  \/ open /\ deadline[Dir[c]] = "old" /\ IOReturns(c, "timeout")

(* close(done). *)
CloseDone(c) ==
  /\ pc[c] = "done"
  /\ pc' = [pc EXCEPT ![c] = "wait"]
  /\ UNCHANGED <<ctx, watch, io, result, held, deadline, open, closed, cpc>>

(* After wg.Wait(): the context's error replaces that of an I/O which made *)
(* no progress; the mutex is released.                                     *)
WatcherMayRun(c) == TRUE
WatcherEnded(c) == watch[c] = "ended"
CallResultRaw(c) == io[c]
CallResult(c) == IF ctx[c] /\ io[c] # "data" THEN "canceled" ELSE io[c]
Return(c) ==
  /\ pc[c] = "wait"
  /\ WatcherEnded(c)
  /\ result' = [result EXCEPT ![c] = CallResult(c)]
  /\ pc' = [pc EXCEPT ![c] = "idle"]
  /\ held' = held \ {Dir[c]}
  /\ watch' = [watch EXCEPT ![c] = "none"]
  /\ UNCHANGED <<ctx, io, deadline, open, closed, cpc>>

-----------------------------------------------------------------------------
(* The watcher.  Setting a deadline of a closed connection fails. *)
SetDeadline(d, to) == deadline' = IF open THEN [deadline EXCEPT ![d] = to] ELSE deadline

ExpireOther(c) == SetDeadline(CHOOSE d \in Dirs : d # Dir[c], "old")
ExpireDeadline(c) == SetDeadline(Dir[c], "old")
WatchCanceled(c) ==
  /\ watch[c] = "select"
  /\ ctx[c]
  /\ ExpireDeadline(c)
  /\ watch' = [watch EXCEPT ![c] = IF open THEN "armed" ELSE "ended"]
  /\ UNCHANGED <<pc, ctx, io, result, held, open, closed, cpc>>

WatchDone(c) ==
  /\ watch[c] = "select"
  /\ pc[c] = "wait"
  /\ watch' = [watch EXCEPT ![c] = "ended"]
  /\ UNCHANGED <<pc, ctx, io, result, held, deadline, open, closed, cpc>>

LeaveDeadline(c) == UNCHANGED deadline
ClearDeadline(c) == SetDeadline(Dir[c], "none")
WatchRestore(c) ==
  /\ watch[c] = "armed"
  /\ pc[c] = "wait"
  /\ ClearDeadline(c)
  /\ watch' = [watch EXCEPT ![c] = "ended"]
  /\ UNCHANGED <<pc, ctx, io, result, held, open, closed, cpc>>

-----------------------------------------------------------------------------
(* Close: nextConn.Close(), and once only, under both mutexes, close(c.closed). *)
CloseNextLast == UNCHANGED open
CloseNextFirst == open' = FALSE
Close ==
  /\ cpc = "idle"
  /\ CloseNextFirst
  /\ cpc' = "lockWrite"
  /\ UNCHANGED <<pc, ctx, watch, io, result, held, deadline, closed>>

CloseLock(at, dir, next) ==
  /\ cpc = at
  /\ dir \notin held
  /\ held' = held \cup {dir}
  /\ cpc' = next
  /\ UNCHANGED <<pc, ctx, watch, io, result, deadline, open, closed>>

CloseReturns ==
  /\ cpc = "close"
  /\ closed' = TRUE
  /\ held' = {}
  /\ cpc' = "returned"
  /\ UNCHANGED <<pc, ctx, watch, io, result, deadline, open>>

-----------------------------------------------------------------------------
CallStep(c) == Check(c) \/ IOFails(c) \/ CloseDone(c) \/ Return(c)
WatchStep(c) == WatchCanceled(c) \/ WatchDone(c) \/ WatchRestore(c)
CloseStep ==
  CloseLock("lockWrite", "write", "lockRead") \/ CloseLock("lockRead", "read", "close") \/ CloseReturns

Next ==
  \/ \E c \in Callers : Call(c) \/ Cancel(c) \/ Lock(c) \/ IOSucceeds(c) \/ CallStep(c) \/ WatchStep(c)
  \/ Close
  \/ CloseStep

Spec == Init /\ [][Next]_vars

-----------------------------------------------------------------------------
(* The deadline a cancellation sets is gone before the next call of that   *)
(* direction can start, however data, cancellation and Close race.         *)
DeadlineRestored == \A d \in Dirs : open /\ d \notin held => deadline[d] = "none"

(* A call whose own context is live never fails with a timeout: one call's *)
(* cancellation does not hit another.                                      *)
NoForeignTimeout ==
  \A c \in Callers : io[c] = "timeout" => ctx[c]

(* Nobody waits for nothing.  When no goroutine can take a step unless the *)
(* peer lets I/O complete, no call is canceled and still has its           *)
(* direction's mutex, a call waits for the mutex only because another one  *)
(* is blocked in I/O, and after Close every call and Close have returned.  *)
Step == (\E c \in Callers : Lock(c) \/ CallStep(c) \/ WatchStep(c)) \/ CloseStep
NothingStuck ==
  ~ENABLED Step =>
    /\ cpc \in {"idle", "returned"}
    /\ \A c \in Callers : /\ pc[c] \in {"idle", "lock", "io"}
                          /\ ctx[c] => pc[c] # "io"
                          /\ ~open => pc[c] = "idle"
                          /\ pc[c] = "lock" => \E b \in Callers : Dir[b] = Dir[c] /\ pc[b] = "io"
=============================================================================
