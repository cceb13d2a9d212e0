----------------------------- MODULE MCVNetTables -----------------------------
(***************************************************************************)
(* What a virtual network looks up by ports: the NAT (NAT), the sockets of *)
(* a Net (VNetUDP), the TCP tables (TCPMaps) and the workers of a UDP      *)
(* proxy (UDPProxy), each in one size but the sockets in two.  The one     *)
(* under test is chosen once, and the others stay in an initial state.     *)
(*                                                                         *)
(* The NAT has two local addresses and three remotes, two of them at one   *)
(* IP address, and makes a number of mappings that exhausts the ports of   *)
(* either protocol.  Three connections are dialled and closed on two ports *)
(* of a host with an IPv4 and an IPv6 address, and one connection is read  *)
(* by two goroutines while two peers send to it.  A proxy has two servers, *)
(* and Proxy is called by one goroutine.                                   *)
(***************************************************************************)
EXTENDS NAT, TLC

CONSTANTS
  MaxMappings, \* bound on the mappings the NAT makes
  Conns, NetPorts, conn, lo, eth, lo6, any, any6, r1, r2, none

VARIABLES
  which,
  portMap, loc, rem, closed, mu, readCh, vmutex, dialling, carry, timer, reading, result,
  broken,
  listeners, conns, live,
  workers, created, pc, arg, cancelled, sock, loop, from, real, reader, cpc, todo, cur, early,
  finished

MCRemotes == {<<1, 1>>, <<1, 2>>, <<2, 1>>}
MCPorts == [proto \in {"udp", "tcp"} |-> IF proto = "udp" THEN 2 ELSE 1]

Binding == INSTANCE VNetUDP WITH
  IPs <- {lo, lo6}, AnyIPs <- {any, any6}, IPv6 <- {lo6, any6}, Ports <- NetPorts,
  Remotes <- {r1}, Peers <- {none}, NoRemote <- none, Readers <- {}, MaxReads <- 0, QueueSize <- 1
Reading == INSTANCE VNetUDP WITH
  Conns <- {conn}, IPs <- {eth}, AnyIPs <- {any}, IPv6 <- {}, Ports <- {"port"},
  Remotes <- {r1, r2}, Peers <- {r1, none}, NoRemote <- none, Readers <- {conn}, MaxReads <- 2,
  QueueSize <- 2

Maps == INSTANCE TCPMaps WITH
  Ids <- 1..3, IPs <- {lo, eth}, AnyIP <- any, Ports <- NetPorts, Remotes <- {r1, r2}
Proxy == INSTANCE UDPProxy WITH
  Servers <- {"s1", "s2"}, Clients <- {"a"}, Callers <- {"caller"}, MaxWorkers <- 2

nat == vars
udp == <<portMap, loc, rem, closed, mu, readCh, vmutex, dialling, carry, timer, reading, result,
         broken>>
tcp == <<listeners, conns, live>>
prox == <<workers, created, pc, arg, cancelled, sock, loop, from, real, reader, cpc, todo, cur,
          early, finished>>
tables == <<which, nat, udp, tcp, prox>>
Symmetry == Permutations(Conns) \cup Permutations(NetPorts)

TablesInit ==
  /\ \/ which = "reading" /\ Reading!Init
     \/ which \in {"nat", "binding", "tcp", "proxy"} /\ Binding!Init
  /\ Init /\ (which # "nat" => natType = [mapping |-> 0, filtering |-> 0])
  /\ Maps!Init /\ Proxy!Init

TablesNext ==
  \/ which = "nat" /\ Next /\ Len(mappings') <= MaxMappings /\ UNCHANGED <<which, udp, tcp, prox>>
  \/ which = "binding" /\ Binding!Next /\ UNCHANGED <<which, nat, tcp, prox>>
  \/ which = "reading" /\ Reading!Next /\ UNCHANGED <<which, nat, tcp, prox>>
  \/ which = "tcp" /\ Maps!Next /\ UNCHANGED <<which, nat, udp, prox>>
  \/ which = "proxy" /\ Proxy!Next /\ UNCHANGED <<which, nat, udp, tcp>>

TablesSpec == TablesInit /\ [][TablesNext]_tables

-----------------------------------------------------------------------------
(* VNetUDP!BindExclusive and MapExact: no two connections bind the same    *)
(* address, and the map holds exactly the open ones.  TCPMaps!MapsExact:   *)
(* so do the TCP tables, and they refuse an address only while something   *)
(* that conflicts with it is open.                                         *)
BindExclusive ==
  /\ which = "binding" => Binding!TypeOK /\ Binding!BindExclusive /\ Binding!MapExact
  /\ which = "reading" => Reading!TypeOK /\ Reading!BindExclusive /\ Reading!MapExact
  /\ which = "tcp" => Maps!TypeOK /\ Maps!MapsExact

(* VNetUDP!RightConn, FromPeer and NothingBreaks: a chunk reaches only a   *)
(* connection bound to its destination, ReadFrom of a connected socket     *)
(* returns only what its peer sent, no delivery that races with Close      *)
(* breaks, and an insert after a look-up fails only where the look-up did  *)
(* not see the other address family.                                       *)
RightConn ==
  /\ which = "binding" => Binding!RightConn /\ Binding!NothingBreaks
  /\ which = "reading" => Reading!RightConn /\ Reading!FromPeer /\ Reading!NothingBreaks

(* VNetUDP!NothingStuck: dialling, delivery and Close do not wait for each *)
(* other, and Close, chunks and the tick of the timer release a ReadFrom.  *)
(* UDPProxy!NothingStuck: Close of a proxy never waits for ever.           *)
NoneStuck ==
  /\ which = "binding" => Binding!NothingStuck
  /\ which = "reading" => Reading!NothingStuck
  /\ which = "proxy" => Proxy!TypeOK /\ Proxy!NothingStuck

(* UDPProxy!CloseWaits and ClosesAll, as long as Proxy is not called twice *)
(* at a time: when Close of a proxy returns, the workers that ran when it  *)
(* was called have no goroutine left, and their sockets get closed.        *)
ProxyStops == which = "proxy" => Proxy!CloseWaits /\ Proxy!ClosesAll
=============================================================================
