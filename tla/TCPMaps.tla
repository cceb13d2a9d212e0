------------------------------- MODULE TCPMaps -------------------------------
(***************************************************************************)
(* The tables of src/vnet/tcp_map.go: the listeners and the connections of *)
(* a Net, by local port.  Every operation runs under the mutex of its map. *)
(* Their users are still to come (TCPConn and TCPListener are stubs), so   *)
(* the model assumes what their names promise: an object is deleted by its *)
(* owner, by its own address, once.                                        *)
(***************************************************************************)
EXTENDS Naturals, Sequences, SequencesExt

CONSTANTS
  Ids,          \* listeners and connections
  IPs, AnyIP,   \* specified addresses, and the unspecified one
  Ports,
  Remotes       \* remote addresses with their ports

VARIABLES
  listeners,    \* portMap of tcpListenerMap: a function on the ports in use
  conns,        \* portMap of tcpConnMap
  live          \* history: what was inserted and not deleted, <<map, entry>>

vars == <<listeners, conns, live>>

LocalIPs == IPs \cup {AnyIP}
Listener == [id : Ids, ip : LocalIPs]
Conn == [id : Ids, ip : LocalIPs, rem : Remotes]

TypeOK ==
  /\ DOMAIN listeners \subseteq Ports /\ \A p \in DOMAIN listeners : listeners[p] \in Seq(Listener)
  /\ DOMAIN conns \subseteq Ports /\ \A p \in DOMAIN conns : conns[p] \in Seq(Conn)

(* newTCPListenerMap, newTCPConnMap. *)
Init == listeners = <<>> /\ conns = <<>> /\ live = {}

(* The entries of a port, none if it is not in the map. *)
At(map, p) == IF p \in DOMAIN map THEN map[p] ELSE <<>>

(* The map with the entries s at port p, and without p if s is empty. *)
StoreKept(map, p, s) == [q \in DOMAIN map \cup {p} |-> IF q = p THEN s ELSE map[q]]
Store(map, p, s) ==
  [q \in {r \in DOMAIN map \cup {p} : r = p => s # <<>>} |-> IF q = p THEN s ELSE map[q]]

Unused(id) == \A m \in live : m[2].id # id

-----------------------------------------------------------------------------
(* The listener map. *)
InUseIfSame(ip, p) == \E e \in ToSet(At(listeners, p)) : ip = e.ip
InUse(ip, p) ==
  p \in DOMAIN listeners /\ (ip = AnyIP \/ \E e \in ToSet(listeners[p]) : e.ip \in {AnyIP, ip})

ListenerInsert(l, p) ==
  /\ Unused(l.id) /\ ~InUse(l.ip, p)
  /\ listeners' = Store(listeners, p, Append(At(listeners, p), l))
  /\ live' = live \cup {<<"listener", l, p>>}
  /\ UNCHANGED conns

(* find: the first listener for the address, if there is one. *)
ListenerFind(ip, p) ==
  LET s == At(listeners, p)
      fits == {i \in DOMAIN s : ip = AnyIP \/ s[i].ip \in {AnyIP, ip}}
  IN  {s[i] : i \in {j \in fits : \A k \in fits : j <= k}}

(* delete by address: the whole port when that is unspecified. *)
ListenerDelete(l, p) ==
  /\ <<"listener", l, p>> \in live /\ p \in DOMAIN listeners
  /\ listeners' = Store(listeners, p, IF l.ip = AnyIP THEN <<>>
                                      ELSE SelectSeq(listeners[p], LAMBDA e : e.ip # l.ip))
  /\ live' = live \ {<<"listener", l, p>>}
  /\ UNCHANGED conns

-----------------------------------------------------------------------------
(* The connection map. *)
AlreadyUsedIfEqual(c, p) == \E e \in ToSet(At(conns, p)) : e.rem = c.rem /\ e.ip = c.ip
AlreadyUsed(c, p) ==
  \E e \in ToSet(At(conns, p)) : e.rem = c.rem /\ (AnyIP \in {e.ip, c.ip} \/ e.ip = c.ip)

ConnInsert(c, p) ==
  /\ Unused(c.id) /\ ~AlreadyUsed(c, p)
  /\ conns' = Store(conns, p, Append(At(conns, p), c))
  /\ live' = live \cup {<<"conn", c, p>>}
  /\ UNCHANGED listeners

(* findByChunk: the first connection for the addresses of a chunk. *)
ConnFind(ip, p, rem) ==
  LET s == At(conns, p)
      fits == {i \in DOMAIN s : s[i].ip \in {AnyIP, ip} /\ s[i].rem = rem}
  IN  {s[i] : i \in {j \in fits : \A k \in fits : j <= k}}

(* deleteConn removes one connection, deleteByAddr those of its addresses. *)
deleteConn(c, p) == SelectSeq(At(conns, p), LAMBDA e : e # c)
deleteByLocal(c, p) == SelectSeq(At(conns, p), LAMBDA e : e.ip # c.ip)
deleteByAddr(c, p) == SelectSeq(At(conns, p), LAMBDA e : ~(e.ip = c.ip /\ e.rem = c.rem))
ConnDelete(c, p) ==
  /\ <<"conn", c, p>> \in live
  /\ \E rest \in {deleteConn(c, p), deleteByAddr(c, p)} :
       Len(rest) # Len(At(conns, p)) /\ conns' = Store(conns, p, rest)
  /\ live' = live \ {<<"conn", c, p>>}
  /\ UNCHANGED listeners

portInUse(ip, p) == \E e \in ToSet(At(conns, p)) : e.ip \in {AnyIP, ip}

Next ==
  \E p \in Ports :
    \/ \E l \in Listener : ListenerInsert(l, p) \/ ListenerDelete(l, p)
    \/ \E c \in Conn : ConnInsert(c, p) \/ ConnDelete(c, p)

Spec == Init /\ [][Next]_vars

-----------------------------------------------------------------------------
Entries(map) == UNION {{<<e, p>> : e \in ToSet(map[p])} : p \in DOMAIN map}
Live(kind) == {<<m[2], m[3]>> : m \in {x \in live : x[1] = kind}}

(* The maps hold what their owners have inserted and not deleted: deleting *)
(* 0.0.0.0, which clears a whole port, or one address, takes nobody        *)
(* else's entry with it.  An address is refused exactly when a live        *)
(* listener or connection conflicts with it, also after others of the port *)
(* came and went; at most one entry fits a lookup, and a live one is       *)
(* found.  A specified address whose port is not in use can connect to     *)
(* any remote.                                                             *)
MapsExact ==
  /\ Entries(listeners) = Live("listener") /\ Entries(conns) = Live("conn")
  /\ \A ip \in LocalIPs, p \in Ports :
       InUse(ip, p) <=> \E e \in Live("listener") : e[2] = p /\ (ip = AnyIP \/ e[1].ip \in {AnyIP, ip})
  /\ \A ip \in IPs, p \in Ports :
       /\ ListenerFind(ip, p) = {e[1] : e \in {x \in Live("listener") : x[2] = p /\ x[1].ip \in {AnyIP, ip}}}
       /\ \A r \in Remotes :
            ConnFind(ip, p, r) =
              {e[1] : e \in {x \in Live("conn") : x[2] = p /\ x[1].rem = r /\ x[1].ip \in {AnyIP, ip}}}
       /\ ~portInUse(ip, p) => \A c \in Conn : c.ip = ip => ~AlreadyUsed(c, p)
=============================================================================
