-------------------------- MODULE ContextPacketConn --------------------------
(***************************************************************************)
(* The context-controlled packet connection of src/netctx/packetconn.go.   *)
(* Unlike module ContextConn, a call registers a function with             *)
(* context.AfterFunc that expires the deadline, or closes the connection   *)
(* if the deadline cannot be set, and detaches it after the I/O.           *)
(*                                                                         *)
(* External: the wrapped net.PacketConn, as in ContextConn, with deadlines *)
(* its user may set, and context.AfterFunc, whose function starts some     *)
(* time after the context is canceled unless it is detached before.        *)
(***************************************************************************)
EXTENDS Naturals

CONSTANTS
  Callers,          \* goroutines that call ReadFromContext or WriteToContext
  Dir               \* Dir[c]: "read" or "write"

Dirs == {"read", "write"}

VARIABLES
  pc, ctx, io, result, held, open,   \* as in ContextConn
  deadline,   \* deadlines of nextConn: "none", "user" or "old"
  func,       \* the function registered with AfterFunc
  closed,     \* p.closed
  once,       \* p.closeOnce
  settable    \* whether nextConn lets its deadlines be set; never changes

vars == <<pc, ctx, io, result, held, open, deadline, func, closed, once, settable>>

Outcomes == {"none", "data", "timeout", "closed", "canceled"}

TypeOK ==
  /\ pc \in [Callers -> {"idle", "lock", "check", "io", "detach", "wait", "return"}]
  /\ ctx \in [Callers -> BOOLEAN]
  /\ io \in [Callers -> Outcomes \ {"canceled"}]
  /\ result \in [Callers -> Outcomes]
  /\ held \in SUBSET Dirs
  /\ open \in BOOLEAN /\ closed \in BOOLEAN
  /\ deadline \in [Dirs -> {"none", "user", "old"}]
  /\ func \in [Callers -> {"none", "armed", "started", "closing", "ended"}]
  /\ \A c \in Callers : pc[c] = "idle" => func[c] = "none"
  /\ once \in {"new", "running", "done"}
  /\ settable \in BOOLEAN

(* NewPacketConn. *)
Init ==
  /\ pc = [c \in Callers |-> "idle"]
  /\ ctx = [c \in Callers |-> FALSE]
  /\ io = [c \in Callers |-> "none"]
  /\ result = [c \in Callers |-> "none"]
  /\ held = {}
  /\ open = TRUE /\ closed = FALSE
  /\ deadline = [d \in Dirs |-> "none"]
  /\ func = [c \in Callers |-> "none"]
  /\ once = "new"
  /\ settable \in BOOLEAN

-----------------------------------------------------------------------------
(* The calls' environment. *)
Call(c) ==
  /\ pc[c] = "idle"
  /\ pc' = [pc EXCEPT ![c] = "lock"]
  /\ ctx' = [ctx EXCEPT ![c] = FALSE]
  /\ io' = [io EXCEPT ![c] = "none"]
  /\ result' = [result EXCEPT ![c] = "none"]
  /\ UNCHANGED <<held, open, deadline, func, closed, once, settable>>

Cancel(c) ==
  /\ pc[c] # "idle"
  /\ ~ctx[c]
  /\ ctx' = [ctx EXCEPT ![c] = TRUE]
  /\ UNCHANGED <<pc, io, result, held, open, deadline, func, closed, once, settable>>

(* Between calls the user may set a deadline through Conn(). *)
UserSetsDeadline(d) ==
  /\ open /\ settable
  /\ d \notin held
  /\ deadline' = [deadline EXCEPT ![d] = "user"]
  /\ UNCHANGED <<pc, ctx, io, result, held, open, func, closed, once, settable>>

-----------------------------------------------------------------------------
(* ReadFromContext and WriteToContext. *)
Lock(c) ==
  /\ pc[c] = "lock"
  /\ Dir[c] \notin held
  /\ held' = held \cup {Dir[c]}
  /\ pc' = [pc EXCEPT ![c] = "check"]
  /\ UNCHANGED <<ctx, io, result, open, deadline, func, closed, once, settable>>

Returns(c, outcome) ==
  /\ result' = [result EXCEPT ![c] = outcome]
  /\ pc' = [pc EXCEPT ![c] = "idle"]
  /\ held' = held \ {Dir[c]}
  /\ UNCHANGED <<ctx, io, open, deadline, closed, once, settable>>

(* The early returns, and the registration of the function. *)
Check(c) ==
  /\ pc[c] = "check"
  /\ IF closed \/ ctx[c]
     THEN Returns(c, IF closed THEN "closed" ELSE "canceled") /\ UNCHANGED func
     ELSE /\ pc' = [pc EXCEPT ![c] = "io"]
          /\ func' = [func EXCEPT ![c] = "armed"]
          /\ UNCHANGED <<ctx, io, result, held, open, deadline, closed, once, settable>>

(* WriteToNonBlock, if the wrapped connection has it and it completes. *)
WriteToNonBlock(c) ==
  /\ pc[c] = "check" /\ Dir[c] = "write"
  /\ ~closed /\ ~ctx[c]
  /\ Returns(c, "data")
  /\ UNCHANGED func

(* nextConn.ReadFrom or WriteTo returns outcome. *)
IOReturns(c, outcome) ==
  /\ pc[c] = "io"
  /\ io' = [io EXCEPT ![c] = outcome]
  /\ pc' = [pc EXCEPT ![c] = "detach"]
  /\ UNCHANGED <<ctx, result, held, open, deadline, func, closed, once, settable>>

IOSucceeds(c) == open /\ IOReturns(c, "data")
IOTimesOut(c) == open /\ deadline[Dir[c]] = "user" /\ IOReturns(c, "timeout")
IOFails(c) ==
  \/ ~open /\ IOReturns(c, "closed")
  \/ open /\ deadline[Dir[c]] = "old" /\ IOReturns(c, "timeout")

(* detachDeadline(): a function that has not started never will. *)
Detached(c) == IF func[c] = "armed" THEN "none" ELSE func[c]
DetachAndClear(c) ==
  /\ pc[c] = "detach"
  /\ func' = [func EXCEPT ![c] = Detached(c)]
  /\ deadline' = [deadline EXCEPT ![Dir[c]] = IF func[c] = "armed" THEN "none" ELSE @]
  /\ pc' = [pc EXCEPT ![c] = IF func[c] = "armed" THEN "return" ELSE "wait"]
  /\ UNCHANGED <<ctx, io, result, held, open, closed, once, settable>>
Detach(c) ==
  /\ pc[c] = "detach"
  /\ func' = [func EXCEPT ![c] = Detached(c)]
  /\ pc' = [pc EXCEPT ![c] = IF func[c] = "armed" THEN "return" ELSE "wait"]
  /\ UNCHANGED <<ctx, io, result, held, open, deadline, closed, once, settable>>

(* wg.Wait(), then the deadline is cleared unless the connection is closed. *)
FuncMayRun(c) == TRUE
FuncEnded(c) == func[c] = "ended"
ClearDeadline(c) ==
  /\ pc[c] = "wait"
  /\ FuncEnded(c)
  /\ deadline' = IF closed \/ ~open \/ ~settable THEN deadline ELSE [deadline EXCEPT ![Dir[c]] = "none"]
  /\ func' = [func EXCEPT ![c] = IF @ = "ended" THEN "none" ELSE @]
  /\ pc' = [pc EXCEPT ![c] = "return"]
  /\ UNCHANGED <<ctx, io, result, held, open, closed, once, settable>>

CallResultRaw(c) == IF ctx[c] THEN "canceled" ELSE io[c]
CallResult(c) == IF ctx[c] /\ io[c] # "data" THEN "canceled" ELSE io[c]
Return(c) ==
  /\ pc[c] = "return"
  /\ Returns(c, CallResult(c))
  /\ UNCHANGED func

-----------------------------------------------------------------------------
(* The registered function: SetDeadline(veryOld), or p.Close(). *)
FuncStarts(c) ==
  /\ func[c] = "armed"
  /\ ctx[c]
  /\ func' = [func EXCEPT ![c] = "started"]
  /\ UNCHANGED <<pc, ctx, io, result, held, open, deadline, closed, once, settable>>

ExpireDeadline(c) ==
  /\ func[c] = "started"
  /\ open /\ settable
  /\ deadline' = [deadline EXCEPT ![Dir[c]] = "old"]
  /\ func' = [func EXCEPT ![c] = "ended"]
  /\ UNCHANGED <<pc, ctx, io, result, held, open, closed, once, settable>>

GivesUp == "ended"
Closes == "closing"
DeadlineFails(c) ==
  /\ func[c] = "started"
  /\ ~open \/ ~settable
  /\ func' = [func EXCEPT ![c] = Closes]
  /\ UNCHANGED <<pc, ctx, io, result, held, open, deadline, closed, once, settable>>

FuncClosed(c) ==
  /\ func[c] = "closing"
  /\ once = "done"
  /\ func' = [func EXCEPT ![c] = "ended"]
  /\ UNCHANGED <<pc, ctx, io, result, held, open, deadline, closed, once, settable>>

(* Close, called by the user or by a registered function: the first call   *)
(* sets closed and then closes the wrapped connection.                     *)
Close ==
  /\ once = "new"
  /\ once' = "running"
  /\ closed' = TRUE
  /\ UNCHANGED <<pc, ctx, io, result, held, open, deadline, func, settable>>

StaysOpen == open
NextOpen == FALSE
CloseNext ==
  /\ once = "running"
  /\ once' = "done"
  /\ open' = NextOpen
  /\ UNCHANGED <<pc, ctx, io, result, held, deadline, func, closed, settable>>

-----------------------------------------------------------------------------
CallStep(c) == Check(c) \/ IOFails(c) \/ Detach(c) \/ ClearDeadline(c) \/ Return(c)
FuncStep(c) == FuncStarts(c) \/ ExpireDeadline(c) \/ DeadlineFails(c) \/ FuncClosed(c)

Next ==
  \/ \E c \in Callers :
       Call(c) \/ Cancel(c) \/ Lock(c) \/ WriteToNonBlock(c) \/ IOSucceeds(c) \/ IOTimesOut(c)
         \/ CallStep(c) \/ FuncStep(c)
  \/ \E d \in Dirs : UserSetsDeadline(d)
  \/ Close
  \/ CloseNext

Spec == Init /\ [][Next]_vars

-----------------------------------------------------------------------------
(* The very old deadline a cancellation sets is gone before the next call  *)
(* of that direction can start, unless the connection is being closed.     *)
DeadlineRestored == \A d \in Dirs : ~closed /\ d \notin held => deadline[d] # "old"

(* A step never clears a deadline the user set, unless a context has       *)
(* canceled a call of that direction: calls that complete leave it.        *)
UserDeadlineKept ==
  \A d \in Dirs : deadline[d] = "user" /\ deadline'[d] # "user"
                    => \E c \in Callers : Dir[c] = d /\ ctx[c] /\ pc[c] # "idle"

(* A step never reports a packet that was read or written as canceled. *)
ProgressKept ==
  \A c \in Callers :
    io[c] = "data" /\ pc[c] # "idle" /\ pc'[c] = "idle" => result'[c] = "data"

(* As in ContextConn: when no goroutine can take a step unless the peer    *)
(* lets I/O complete, no call that has the mutex is canceled, also if the  *)
(* deadline cannot be set, a call waits for the mutex only because another *)
(* one is blocked in I/O, and after Close every call has returned.  A      *)
(* function that has to close the connection does so.                      *)
Step ==
  \/ \E c \in Callers : Lock(c) \/ CallStep(c) \/ FuncStep(c) \/ (func[c] = "closing" /\ Close)
  \/ CloseNext
NothingStuck ==
  ~ENABLED Step =>
    \A c \in Callers : /\ pc[c] \in {"idle", "lock", "io"}
                       /\ ctx[c] => pc[c] # "io"
                       /\ closed => pc[c] = "idle"
                       /\ pc[c] = "lock" => \E b \in Callers : Dir[b] = Dir[c] /\ pc[b] = "io"
=============================================================================
