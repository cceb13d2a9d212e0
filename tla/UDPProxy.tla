------------------------------ MODULE UDPProxy ------------------------------
(***************************************************************************)
(* The proxy of src/vnet/udpproxy.go between a virtual network and real    *)
(* servers: a worker per server, with a socket in the virtual network, the *)
(* goroutine that reads it, and a real socket with a goroutine of its own  *)
(* for every client that sends.  Cancelling the context of a worker closes *)
(* its sockets, each by a goroutine that waits for it; Close cancels the   *)
(* workers one after the other and waits for the goroutines it counts.     *)
(*                                                                         *)
(* The sockets are external: dialling fails at any time, and a server that *)
(* refuses makes a real socket fail.                                       *)
(***************************************************************************)
EXTENDS Naturals, FiniteSets

CONSTANTS
  Servers, Clients,
  Callers,       \* goroutines that call Proxy
  MaxWorkers     \* bound on the workers created

Workers == 1..MaxWorkers
NoWorker == 0

VARIABLES
  workers,    \* the map of UDPProxy
  created,    \* the number of workers created
  pc, arg,    \* the call of Proxy of each caller, its server and its worker
  cancelled,  \* workers whose context is done
  sock,       \* sock[w]: vnetSocket
  loop, from, \* the goroutine that reads vnetSocket, and the client it serves
  real,       \* real[w][a]: the real socket of client a in endpoints
  reader,     \* reader[w][a]: the goroutine that reads it
  cpc, todo, cur,  \* Close, the servers its Range has not visited, and the worker it waits for
  early,      \* history: workers that had started when Close was called
  finished    \* history: workers Close has waited for

vars == <<workers, created, pc, arg, cancelled, sock, loop, from, real, reader, cpc, todo,
          cur, early, finished>>
calls == <<workers, created, pc, arg>>
close == <<cpc, todo, cur, early, finished>>
goroutines == <<sock, loop, from, real, reader>>

TypeOK ==
  /\ workers \in [Servers -> Workers \cup {NoWorker}] /\ created \in 0..MaxWorkers
  /\ pc \in [Callers -> {"idle", "store", "start"}]
  /\ arg \in [Callers -> [server : Servers, worker : Workers \cup {NoWorker}]]
  /\ cancelled \subseteq Workers /\ early \subseteq Workers /\ finished \subseteq Workers
  /\ sock \in [Workers -> {"none", "open", "closed"}]
  /\ loop \in [Workers -> {"none", "read", "find", "write", "done"}]
  /\ from \in [Workers -> Clients]
  /\ real \in [Workers -> [Clients -> {"none", "open", "closed"}]]
  /\ reader \in [Workers -> [Clients -> {"none", "run", "done"}]]
  /\ cpc \in {"idle", "range", "wait", "done"} /\ cur \in Workers \cup {NoWorker} /\ todo \subseteq Servers

(* NewProxy. *)
Init ==
  /\ workers = [s \in Servers |-> NoWorker] /\ created = 0
  /\ pc = [c \in Callers |-> "idle"]
  /\ arg = [c \in Callers |-> [server |-> CHOOSE s \in Servers : TRUE, worker |-> NoWorker]]
  /\ cancelled = {} /\ sock = [w \in Workers |-> "none"]
  /\ loop = [w \in Workers |-> "none"] /\ from = [w \in Workers |-> CHOOSE a \in Clients : TRUE]
  /\ real = [w \in Workers |-> [a \in Clients |-> "none"]]
  /\ reader = [w \in Workers |-> [a \in Clients |-> "none"]]
  /\ cpc = "idle" /\ todo = {} /\ cur = NoWorker /\ early = {} /\ finished = {}

-----------------------------------------------------------------------------
(* Proxy returns at once if the map has a worker for the server.  The      *)
(* lookup and the Store are separate steps.                                *)
ProxyLoad(c, s) ==
  /\ pc[c] = "idle" /\ workers[s] = NoWorker
  /\ pc' = [pc EXCEPT ![c] = "store"]
  /\ arg' = [arg EXCEPT ![c].server = s]
  /\ UNCHANGED <<workers, created, cancelled, goroutines, close>>

ProxyStore(c) ==
  /\ pc[c] = "store" /\ created < MaxWorkers
  /\ created' = created + 1
  /\ workers' = [workers EXCEPT ![arg[c].server] = created']
  /\ arg' = [arg EXCEPT ![c].worker = created']
  /\ pc' = [pc EXCEPT ![c] = "start"]
  /\ UNCHANGED <<cancelled, goroutines, close>>

(* The worker adds a Net to the router and listens, which may fail; then   *)
(* its goroutine starts.  A worker that failed stays in the map.           *)
ProxyStart(c) ==
  LET w == arg[c].worker IN
  /\ pc[c] = "start"
  /\ pc' = [pc EXCEPT ![c] = "idle"]
  /\ \/ /\ sock' = [sock EXCEPT ![w] = "open"]
        /\ loop' = [loop EXCEPT ![w] = "read"]
     \/ UNCHANGED <<sock, loop>>
  /\ UNCHANGED <<workers, created, arg, cancelled, from, real, reader, close>>

-----------------------------------------------------------------------------
(* The goroutines that wait for the context close the sockets. *)
CloseVnetSocket(w) ==
  /\ w \in cancelled /\ sock[w] = "open"
  /\ sock' = [sock EXCEPT ![w] = "closed"]
  /\ UNCHANGED <<calls, cancelled, loop, from, real, reader, close>>

NeverClosed(w, a) == FALSE
RealIsClosed(w, a) == w \in cancelled
CloseRealSocket(w, a) ==
  /\ RealIsClosed(w, a) /\ real[w][a] = "open"
  /\ real' = [real EXCEPT ![w][a] = "closed"]
  /\ UNCHANGED <<calls, cancelled, sock, loop, from, reader, close>>

(* ReadFrom returns a packet of a client, also one that came before the    *)
(* socket was closed, or fails.                                            *)
LoopRead(w, a) ==
  /\ loop[w] = "read" /\ sock[w] # "none"
  /\ loop' = [loop EXCEPT ![w] = "find"]
  /\ from' = [from EXCEPT ![w] = a]
  /\ UNCHANGED <<calls, cancelled, sock, real, reader, close>>

LoopEnds(w) ==
  /\ loop[w] = "read" /\ sock[w] = "closed"
  /\ loop' = [loop EXCEPT ![w] = "done"]
  /\ UNCHANGED <<calls, cancelled, sock, from, real, reader, close>>

(* findEndpointBy: the socket of the client, or a new one with its         *)
(* goroutine; a packet whose socket cannot be dialled is dropped.          *)
FindEndpointBy(w) ==
  LET a == from[w] IN
  /\ loop[w] = "find"
  /\ \/ /\ real[w][a] # "none"
        /\ loop' = [loop EXCEPT ![w] = "write"] /\ UNCHANGED <<real, reader>>
     \/ /\ real[w][a] = "none"
        /\ loop' = [loop EXCEPT ![w] = "write"]
        /\ real' = [real EXCEPT ![w][a] = "open"]
        /\ reader' = [reader EXCEPT ![w][a] = "run"]
     \/ /\ real[w][a] = "none"
        /\ loop' = [loop EXCEPT ![w] = "read"] /\ UNCHANGED <<real, reader>>
  /\ UNCHANGED <<calls, cancelled, sock, from, close>>

(* A Write that fails ends the goroutine of the worker. *)
LoopWrite(w) ==
  /\ loop[w] = "write"
  /\ \/ real[w][from[w]] = "open" /\ loop' = [loop EXCEPT ![w] = "read"]
     \/ loop' = [loop EXCEPT ![w] = "done"]
  /\ UNCHANGED <<calls, cancelled, sock, from, real, reader, close>>

(* The goroutine of an endpoint ends when its socket is closed or fails,   *)
(* or when the reply it has read cannot be written to vnetSocket.          *)
ReaderMustEnd(w, a) == real[w][a] = "closed"
ReaderEnds(w, a) ==
  /\ reader[w][a] = "run"
  /\ reader' = [reader EXCEPT ![w][a] = "done"]
  /\ UNCHANGED <<calls, cancelled, sock, loop, from, real, close>>

-----------------------------------------------------------------------------
(* Close visits the servers in the map, in any order, cancels a worker and *)
(* waits until the goroutines it counts have ended.                        *)
CloseCall ==
  /\ cpc = "idle" /\ cpc' = "range" /\ todo' = Servers
  /\ early' = {w \in Workers : loop[w] # "none"}
  /\ UNCHANGED <<calls, cancelled, goroutines, cur, finished>>

CloseVisit(s) ==
  /\ cpc = "range" /\ s \in todo
  /\ todo' = todo \ {s}
  /\ IF workers[s] = NoWorker THEN UNCHANGED <<cpc, cur, cancelled>>
     ELSE cpc' = "wait" /\ cur' = workers[s] /\ cancelled' = cancelled \cup {workers[s]}
  /\ UNCHANGED <<calls, goroutines, early, finished>>

LoopRuns(w) == loop[w] \in {"read", "find", "write"}
LoopWaited(w) == ~LoopRuns(w)
WaitOver(w) == ~LoopRuns(w) /\ \A a \in Clients : reader[w][a] # "run"
CloseWaited ==
  /\ cpc = "wait" /\ WaitOver(cur)
  /\ cpc' = "range"
  /\ finished' = IF loop[cur] = "done" THEN finished \cup {cur} ELSE finished
  /\ UNCHANGED <<calls, cancelled, goroutines, todo, cur, early>>

CloseReturns ==
  /\ cpc = "range" /\ todo = {} /\ cpc' = "done"
  /\ UNCHANGED <<calls, cancelled, goroutines, todo, cur, early, finished>>

-----------------------------------------------------------------------------
(* What happens without a call of the user, a packet or a failure. *)
Step ==
  \/ \E c \in Callers : ProxyStore(c) \/ ProxyStart(c)
  \/ \E w \in Workers :
       \/ CloseVnetSocket(w) \/ LoopEnds(w) \/ FindEndpointBy(w) \/ LoopWrite(w)
       \/ \E a \in Clients : CloseRealSocket(w, a) \/ (ReaderMustEnd(w, a) /\ ReaderEnds(w, a))
  \/ (\E s \in Servers : CloseVisit(s)) \/ CloseWaited \/ CloseReturns

Next ==
  \/ Step
  \/ \E c \in Callers, s \in Servers : ProxyLoad(c, s)
  \/ \E w \in Workers, a \in Clients : LoopRead(w, a) \/ ReaderEnds(w, a)
  \/ CloseCall

Spec == Init /\ [][Next]_vars

-----------------------------------------------------------------------------
Stopped(w) ==
  /\ ~LoopRuns(w) /\ sock[w] # "open"
  /\ \A a \in Clients : reader[w][a] # "run" /\ real[w][a] # "open"

(* Close waits: a worker that had started and that Close is done with has  *)
(* no goroutine left, and never gets one again.                            *)
CloseWaits ==
  \A w \in finished : ~LoopRuns(w) /\ \A a \in Clients : reader[w][a] # "run"

(* "Close the proxy, stop all workers": when Close has returned and what   *)
(* it set off has happened, every worker that had started when it was      *)
(* called has ended its goroutines and closed its sockets.                 *)
ClosesAll == ~ENABLED Step /\ cpc = "done" => \A w \in early : Stopped(w)

(* Nobody waits for ever: when only users, packets and failures can move,  *)
(* no Close waits, and no socket or goroutine of a cancelled worker is     *)
(* left, also of one that started only after Close had visited it.         *)
NothingStuck ==
  ~ENABLED Step => /\ cpc \in {"idle", "done"}
                   /\ \A w \in cancelled : Stopped(w)
=============================================================================
