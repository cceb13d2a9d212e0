------------------------------- MODULE VNetUDP -------------------------------
(***************************************************************************)
(* The UDP sockets of a virtual host: Net._dialUDP with assignPort and the *)
(* map of connections (src/vnet/net.go, conn_map.go), and the connections  *)
(* themselves (src/vnet/conn.go).  The router delivers chunks with the     *)
(* mutex of the Net held; a write to a loopback address delivers without   *)
(* it; Close holds only the mutex of the connection.                       *)
(*                                                                         *)
(* A connection is dialled at most once, and again after a dial that       *)
(* failed.  The addresses of the host do not change.  Chunks are told      *)
(* apart by source and destination only.                                   *)
(***************************************************************************)
EXTENDS Naturals, Sequences, SequencesExt

CONSTANTS
  Conns,       \* connections that may be dialled
  IPs,         \* addresses of the interfaces of the host
  AnyIPs,      \* the unspecified addresses 0.0.0.0 and ::
  IPv6,        \* those of IPs and AnyIPs that are IPv6 addresses
  Ports,       \* ports, both to ask for and to assign
  Remotes,     \* sources of chunks
  Peers,       \* remAddr a connection may be dialled with: remotes and NoRemote
  NoRemote,    \* remAddr is nil
  Readers,     \* connections on which ReadFrom and SetReadDeadline are called
  MaxReads,    \* bound on the calls of ReadFrom in progress on a connection
  QueueSize    \* maxReadQueueSize, 1024 in the code

Carriers == {"router", "loopback"}
Chunks == [src : Remotes, ip : IPs, port : Ports]
Addrs == [ip : IPs \cup AnyIPs, port : Ports]

VARIABLES
  portMap,    \* udpConnMap
  loc, rem,   \* <<>> or <<address>>; the peer
  closed, mu, \* closed connections; those whose Close holds c.mu
  readCh,
  vmutex,     \* who holds the mutex of the Net
  dialling,   \* <<>> or <<c, assigned>>: _dialUDP has yet to insert connection c,
              \* with a port that assignPort chose or not
  carry,      \* per carrier: <<>> or <<connection found, chunk>>
  timer,      \* "off", "armed", "fired" with its tick in readTimer.C, or "taken"
              \* when a ReadFrom has received the tick
  reading,    \* number of calls of ReadFrom in progress
  result,     \* history: what the last ReadFrom returned
  broken      \* history: "send on closed channel"

net == <<portMap, loc, rem, vmutex, dialling>>
io == <<timer, reading, result>>
vars == <<net, io, closed, mu, readCh, carry, broken>>

TypeOK ==
  /\ portMap \in [Ports -> Seq(Conns)]
  /\ \A c \in Conns : loc[c] \in Seq(Addrs) /\ Len(loc[c]) <= 1
  /\ rem \in [Conns -> Peers \cup {NoRemote}]
  /\ closed \subseteq Conns /\ mu \subseteq Conns /\ reading \in [Conns -> 0..MaxReads]
  /\ \A c \in Conns : readCh[c] \in Seq(Chunks) /\ Len(readCh[c]) <= QueueSize
  /\ vmutex \in {"free", "dial", "router"}
  /\ dialling = <<>> \/ dialling \in Conns \X BOOLEAN
  /\ \A k \in Carriers : carry[k] = <<>> \/ carry[k] \in Conns \X Chunks
  /\ timer \in [Conns -> {"off", "armed", "fired", "taken"}]
  /\ \A c \in Conns : result[c] \in Seq(Chunks)
  /\ broken \subseteq {"send on closed channel"}

Init ==
  /\ portMap = [p \in Ports |-> <<>>]
  /\ loc = [c \in Conns |-> <<>>] /\ rem = [c \in Conns |-> NoRemote]
  /\ closed = {} /\ mu = {}
  /\ readCh = [c \in Conns |-> <<>>]
  /\ vmutex = "free" /\ dialling = <<>>
  /\ carry = [k \in Carriers |-> <<>>]
  /\ timer = [c \in Conns |-> "off"]
  /\ reading = [c \in Conns |-> 0] /\ result = [c \in Conns |-> <<>>]
  /\ broken = {}

-----------------------------------------------------------------------------
(* udpConnMap: find, insert and delete, each atomic under its own mutex.   *)
CoversOnly(c, ip) == loc[c][1].ip = ip
Covers(c, ip) == loc[c][1].ip \in AnyIPs \cup {ip}
FindFirst(ip, port) == IF portMap[port] = <<>> THEN <<>> ELSE <<portMap[port][1]>>
Find(ip, port) ==
  IF ip \in AnyIPs
  THEN IF portMap[port] = <<>> THEN <<>> ELSE <<portMap[port][1]>>
  ELSE LET found == SelectSeq(portMap[port], LAMBDA c : Covers(c, ip))
       IN  IF found = <<>> THEN <<>> ELSE <<found[1]>>

InUse(a) ==
  IF a.ip \in AnyIPs THEN portMap[a.port] # <<>>
  ELSE \E c \in ToSet(portMap[a.port]) : Covers(c, a.ip)

WithoutPort(c) == [portMap EXCEPT ![loc[c][1].port] = <<>>]
Without(c) ==
  LET a == loc[c][1]
  IN  [portMap EXCEPT ![a.port] =
         IF a.ip \in AnyIPs THEN <<>> ELSE SelectSeq(@, LAMBDA d : loc[d][1].ip # a.ip)]

-----------------------------------------------------------------------------
(* _dialUDP, under the mutex of the Net: the address must not be in use,   *)
(* or, for port 0, assignPort looks for a port that none of the addresses  *)
(* to bind uses, which for an unspecified address are those of its family. *)
(* The connection is inserted afterwards; when that fails there is none.   *)
SameFamily(i, j) == (i \in IPv6) = (j \in IPv6)
getAllIPAddrs(ip) == {i \in IPs : SameFamily(i, ip)}
AllocatesUnspecified(ip, port) == ip \in AnyIPs \/ Find(ip, port) = <<>>
Allocates(ip, port) ==
  LET ips == IF ip \in AnyIPs THEN getAllIPAddrs(ip) ELSE {ip}
  IN  ips # {} /\ \A i \in ips : Find(i, port) = <<>>

Dial(c, a, peer, assigned) ==
  /\ vmutex = "free"
  /\ loc[c] = <<>>
  /\ IF assigned THEN Allocates(a.ip, a.port) ELSE Find(a.ip, a.port) = <<>>
  /\ vmutex' = "dial"
  /\ dialling' = <<c, assigned>>
  /\ loc' = [loc EXCEPT ![c] = <<a>>]
  /\ rem' = [rem EXCEPT ![c] = peer]
  /\ UNCHANGED <<portMap, io, closed, mu, readCh, carry, broken>>

DialInsert ==
  /\ dialling # <<>>
  /\ LET c == dialling[1]
     IN  IF InUse(loc[c][1])
         THEN /\ loc' = [loc EXCEPT ![c] = <<>>]
              /\ rem' = [rem EXCEPT ![c] = NoRemote]
              /\ UNCHANGED portMap
         ELSE /\ portMap' = [portMap EXCEPT ![loc[c][1].port] = Append(@, c)]
              /\ UNCHANGED <<loc, rem>>
  /\ dialling' = <<>>
  /\ vmutex' = "free"
  /\ UNCHANGED <<io, closed, mu, readCh, carry, broken>>

IsDialled(c) == loc[c] # <<>> /\ (dialling # <<>> => dialling[1] # c)

(* Net.onInboundChunk, and Net.write to a loopback address: find, ...      *)
Carry(k, chunk) ==
  /\ carry[k] = <<>>
  /\ k = "router" => vmutex = "free"
  /\ LET found == Find(chunk.ip, chunk.port)
     IN  /\ found # <<>>
         /\ carry' = [carry EXCEPT ![k] = <<found[1], chunk>>]
  /\ vmutex' = IF k = "router" THEN "router" ELSE vmutex
  /\ UNCHANGED <<portMap, loc, rem, dialling, io, closed, mu, readCh, broken>>

(* ... then UDPConn.onInboundChunk; a full channel drops the chunk. *)
TakesAnyChunk(c) == TRUE
TakesChunk(c) == c \notin closed
AlwaysRoom(c) == TRUE
HasRoom(c) == Len(readCh[c]) < QueueSize
OnInboundChunk(k) ==
  /\ carry[k] # <<>>
  /\ LET c == carry[k][1]
     IN  /\ c \notin mu
         /\ readCh' = IF TakesChunk(c) /\ HasRoom(c)
                      THEN [readCh EXCEPT ![c] = Append(@, carry[k][2])] ELSE readCh
         /\ broken' = IF TakesChunk(c) /\ c \in closed
                      THEN broken \cup {"send on closed channel"} ELSE broken
  /\ carry' = [carry EXCEPT ![k] = <<>>]
  /\ vmutex' = IF k = "router" THEN "free" ELSE vmutex
  /\ UNCHANGED <<portMap, loc, rem, dialling, io, closed, mu>>

-----------------------------------------------------------------------------
(* Close: mark and close the channel, then delete from the map, all of it  *)
(* under c.mu.                                                             *)
Close(c) ==
  /\ IsDialled(c)
  /\ c \notin closed
  /\ closed' = closed \cup {c}
  /\ mu' = mu \cup {c}
  /\ UNCHANGED <<net, io, readCh, carry, broken>>

OnClosedLocked(c) ==
  /\ c \in mu
  /\ vmutex = "free"
  /\ portMap' = Without(c)
  /\ mu' = mu \ {c}
  /\ UNCHANGED <<loc, rem, vmutex, dialling, io, closed, readCh, carry, broken>>
OnClosed(c) ==
  /\ c \in mu
  /\ portMap' = Without(c)
  /\ mu' = mu \ {c}
  /\ UNCHANGED <<loc, rem, vmutex, dialling, io, closed, readCh, carry, broken>>

(* ReadFrom, called by any number of goroutines. *)
Reads(c, change) == reading' = [reading EXCEPT ![c] = @ + change]

Read(c) ==
  /\ IsDialled(c)
  /\ reading[c] < MaxReads
  /\ Reads(c, 1)
  /\ result' = [result EXCEPT ![c] = <<>>]
  /\ UNCHANGED <<net, timer, closed, mu, readCh, carry, broken>>

AcceptsAny(c, chunk) == TRUE
Accepts(c, chunk) == rem[c] \in {NoRemote, chunk.src}
ReadChunk(c) ==
  /\ reading[c] > 0
  /\ readCh[c] # <<>>
  /\ readCh' = [readCh EXCEPT ![c] = Tail(@)]
  /\ IF Accepts(c, Head(readCh[c]))
     THEN /\ Reads(c, -1)
          /\ result' = [result EXCEPT ![c] = <<Head(readCh[c])>>]
     ELSE UNCHANGED <<reading, result>>
  /\ UNCHANGED <<net, timer, closed, mu, carry, broken>>

ReadIgnoresClosed(c) == FALSE
ReadSeesClosed(c) == readCh[c] = <<>> /\ c \in closed
ReadClosed(c) ==
  /\ reading[c] > 0
  /\ ReadSeesClosed(c)
  /\ Reads(c, -1)
  /\ UNCHANGED <<net, timer, result, closed, mu, readCh, carry, broken>>

ReadIgnoresTick(c) == FALSE
ReadSeesTick(c) == timer[c] = "fired"
ReadTimeout(c) ==
  /\ reading[c] > 0
  /\ ReadSeesTick(c)
  /\ timer' = [timer EXCEPT ![c] = "taken"]
  /\ Reads(c, -1)
  /\ UNCHANGED <<net, result, closed, mu, readCh, carry, broken>>

(* SetReadDeadline resets the timer, which removes its tick: it fires once *)
(* more, or, for the zero time, not in the life of the program.            *)
SetReadDeadline(c, t) ==
  /\ IsDialled(c)
  /\ timer' = [timer EXCEPT ![c] = t]
  /\ UNCHANGED <<net, reading, result, closed, mu, readCh, carry, broken>>

TimerFires(c) ==
  /\ timer[c] = "armed"
  /\ timer' = [timer EXCEPT ![c] = "fired"]
  /\ UNCHANGED <<net, reading, result, closed, mu, readCh, carry, broken>>

-----------------------------------------------------------------------------
ReadStep(c) == ReadChunk(c) \/ ReadClosed(c) \/ ReadTimeout(c)

Next ==
  \/ \E c \in Conns, a \in Addrs, peer \in Peers, z \in BOOLEAN : Dial(c, a, peer, z)
  \/ DialInsert
  \/ \E k \in Carriers, chunk \in Chunks : Carry(k, chunk)
  \/ \E k \in Carriers : OnInboundChunk(k)
  \/ \E c \in Conns : Close(c) \/ OnClosed(c)
  \/ \E c \in Readers : Read(c) \/ ReadStep(c) \/ TimerFires(c)
  \/ \E c \in Readers, t \in {"off", "armed"} : SetReadDeadline(c, t)

Spec == Init /\ [][Next]_vars

-----------------------------------------------------------------------------
(* Two connections in the map never bind the same transport address, and   *)
(* one bound to 0.0.0.0 or :: has its port for itself.                     *)
BindExclusive ==
  \A p \in Ports : \A i, j \in DOMAIN portMap[p] :
    i # j => LET x == loc[portMap[p][i]][1].ip
                 y == loc[portMap[p][j]][1].ip
             IN  x # y /\ AnyIPs \cap {x, y} = {}

(* The map holds exactly the connections that are dialled and not closed,  *)
(* those in the middle of Close apart: closing one leaves the others of    *)
(* its port, and a closed address can be bound again.                      *)
MapExact ==
  \A c \in Conns :
    LET in == \E p \in Ports : c \in ToSet(portMap[p])
    IN  /\ in => c \notin closed \/ c \in mu
        /\ IsDialled(c) /\ c \notin closed => in

(* A chunk reaches only a connection bound to its destination, although    *)
(* the one found may be closed, and its address bound anew, before the     *)
(* chunk is delivered.                                                     *)
RightConn == \A c \in Conns : \A k \in ToSet(readCh[c]) : k.port = loc[c][1].port /\ Covers(c, k.ip)

(* A delivery that races with Close never sends on the closed channel, and *)
(* a connection whose address was found free can be inserted, although the *)
(* map is unlocked in between.  There is one exception, which has nothing  *)
(* to do with the lock: assignPort may choose, for an unspecified address, *)
(* a port that only connections of the other family use.                   *)
OtherFamilyOnly(a) ==
  /\ a.ip \in AnyIPs
  /\ \A d \in ToSet(portMap[a.port]) : ~SameFamily(loc[d][1].ip, a.ip)
NothingBreaks ==
  /\ "send on closed channel" \notin broken
  /\ dialling # <<>> /\ InUse(loc[dialling[1]][1]) =>
       dialling[2] /\ OtherFamilyOnly(loc[dialling[1]][1])

(* A connected socket returns only what its peer sent. *)
FromPeer == \A c \in Conns : \A k \in ToSet(result[c]) : rem[c] \in {NoRemote, k.src}

(* Nobody waits for ever, although the router keeps the mutex of the Net   *)
(* while it waits for that of a connection, and Close keeps the latter     *)
(* while it changes the map: when no step is left but calls of users and   *)
(* chunks of the network, every mutex is free, every chunk has been handed *)
(* over, and a ReadFrom in progress belongs to an open connection, with    *)
(* nothing to read and no tick of its timer to receive.  (A tick is one:   *)
(* see DeadlineHolds.)                                                     *)
Step ==
  \/ DialInsert
  \/ \E k \in Carriers : OnInboundChunk(k)
  \/ \E c \in Conns : OnClosed(c) \/ ReadStep(c)
NothingStuck ==
  ~ENABLED Step =>
    /\ vmutex = "free" /\ mu = {} /\ \A k \in Carriers : carry[k] = <<>>
    /\ \A c \in Conns : reading[c] > 0 =>
         c \notin closed /\ timer[c] # "fired" /\ readCh[c] = <<>>

(* "The deadline applies to all future and pending I/O, not just the       *)
(* immediately following call to ReadFrom or WriteTo."  (The comment of    *)
(* UDPConn.SetDeadline.)  So no ReadFrom is left waiting on a connection   *)
(* whose deadline has passed, also when an earlier one has timed out.      *)
DeadlineHolds == ~ENABLED Step => \A c \in Conns : reading[c] > 0 => timer[c] \in {"off", "armed"}
=============================================================================
