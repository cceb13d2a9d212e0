--------------------------------- MODULE NAT ---------------------------------
(***************************************************************************)
(* The network address and port translator of src/vnet/nat.go in normal    *)
(* (NAPT) mode, for every mapping and filtering behaviour.  Each           *)
(* translation holds the mutex, so it is one step.  A remote address is    *)
(* <<ip, port>>; what a behaviour compares of it is a prefix.              *)
(***************************************************************************)
EXTENDS Naturals, Sequences, Functions

CONSTANTS
  Locals,      \* local addresses that send chunks
  Remotes,     \* remote addresses <<ip, port>>
  Ports,       \* Ports[proto]: how many ports there are from portBase up
  LifeTime,    \* MappingLifeTime
  MaxTime      \* bound on the time

Protos == DOMAIN Ports

(* EndpointIndependent, EndpointAddrDependent, EndpointAddrPortDependent. *)
EndpointDependencyType == 0..2

ASSUME NATAssumption ==
  /\ \A r \in Remotes : r \in Seq(Nat) /\ Len(r) = 2
  /\ \A p \in Protos : Ports[p] \in Nat
  /\ LifeTime \in Nat /\ MaxTime \in Nat

VARIABLES
  natType,      \* [mapping, filtering], fixed when the NAT is made
  now,
  mappings,     \* the mapping objects made so far
  outboundMap,  \* <<proto, local, bound>> -> index of a mapping
  inboundMap,   \* <<proto, port>> -> index of a mapping
  portCounter,  \* udpPortCounter and tcpPortCounter
  sent          \* history: for each port used within the life time, who
                \* sent through it, to whom, and when last

vars == <<natType, now, mappings, outboundMap, inboundMap, portCounter, sent>>

Keys == {SubSeq(r, 1, k) : r \in Remotes, k \in EndpointDependencyType}
Mapping == [proto : Protos, local : Locals, bound : Keys, mapped : Nat,
            filters : SUBSET Keys, expires : Nat]

TypeOK ==
  /\ natType \in [mapping : EndpointDependencyType, filtering : EndpointDependencyType]
  /\ now \in 0..MaxTime
  /\ mappings \in Seq(Mapping)
  /\ \A i \in DOMAIN mappings : mappings[i].mapped < Ports[mappings[i].proto]
  /\ \A k \in DOMAIN outboundMap : outboundMap[k] \in DOMAIN mappings
  /\ \A k \in DOMAIN inboundMap : inboundMap[k] \in DOMAIN mappings
  /\ \A p \in Protos : portCounter[p] \in 0..Ports[p]

(* newNAT. *)
Init ==
  /\ natType \in [mapping : EndpointDependencyType, filtering : EndpointDependencyType]
  /\ now = 0
  /\ mappings = <<>>
  /\ outboundMap = <<>>
  /\ inboundMap = <<>>
  /\ portCounter = [p \in Protos |-> 0]
  /\ sent = <<>>

-----------------------------------------------------------------------------
Without(f, k) == Restrict(f, DOMAIN f \ {k})
With(f, k, v) == [x \in DOMAIN f \cup {k} |-> IF x = k THEN v ELSE f[x]]

(* The part of the remote address a behaviour depends on. *)
AddrKey(behaviour, remote) == SubSeq(remote, 1, behaviour)

(* oKey, when an outbound chunk is translated. *)
OutboundKeyByFilter(proto, local, remote) == <<proto, local, AddrKey(natType.filtering, remote)>>
OutboundKey(proto, local, remote) == <<proto, local, AddrKey(natType.mapping, remote)>>

(* The keys made from a mapping. *)
oKey(m) == <<m.proto, m.local, m.bound>>
iKey(m) == <<m.proto, m.mapped>>

Expired(m) == now > m.expires

(* removeMapping deletes both entries, by keys made from the mapping. *)
removeOutboundOnly(m) ==
  /\ outboundMap' = Without(outboundMap, oKey(m))
  /\ UNCHANGED inboundMap
removeMapping(m) ==
  /\ outboundMap' = Without(outboundMap, oKey(m))
  /\ inboundMap' = Without(inboundMap, iKey(m))

PortSpaceOverrun(proto) == portCounter[proto] > Ports[proto]
PortSpaceExhausted(proto) == portCounter[proto] + 1 > Ports[proto]

RecordSent(proto, local, port, remote) ==
  sent' = With(sent, <<proto, port>>,
               [local |-> local, last |-> now,
                remotes |-> {remote} \cup
                  (IF <<proto, port>> \in DOMAIN sent THEN sent[<<proto, port>>].remotes ELSE {})])

(* An outbound chunk for which a mapping is live: it is refreshed, and the *)
(* remote is permitted.                                                    *)
NotRefreshed(m) == m.expires
Refreshed(m) == now + LifeTime
UseMapping(proto, local, remote) ==
  LET key == OutboundKey(proto, local, remote)
  IN  /\ key \in DOMAIN outboundMap
      /\ ~Expired(mappings[outboundMap[key]])
      /\ LET m == mappings[outboundMap[key]]
         IN  /\ mappings' = [mappings EXCEPT ![outboundMap[key]] =
                               [m EXCEPT !.expires = Refreshed(m),
                                         !.filters = @ \cup {AddrKey(natType.filtering, remote)}]]
             /\ RecordSent(proto, local, m.mapped, remote)
      /\ UNCHANGED <<natType, now, outboundMap, inboundMap, portCounter>>

(* An outbound chunk without one: a mapping is made on the next port, and  *)
(* an expired one is removed first.                                        *)
CreateMapping(proto, local, remote) ==
  LET key == OutboundKey(proto, local, remote)
      stale == IF key \in DOMAIN outboundMap THEN {mappings[outboundMap[key]]} ELSE {}
      m == [proto |-> proto, local |-> local, bound |-> key[3],
            mapped |-> portCounter[proto], expires |-> now + LifeTime,
            filters |-> {AddrKey(natType.filtering, remote)}]
  IN  /\ \A s \in stale : Expired(s)
      /\ ~PortSpaceExhausted(proto)
      /\ portCounter' = [portCounter EXCEPT ![proto] = @ + 1]
      /\ mappings' = Append(mappings, m)
      /\ outboundMap' = With(outboundMap, key, Len(mappings'))
      /\ inboundMap' = With(Restrict(inboundMap, DOMAIN inboundMap \ {iKey(s) : s \in stale}),
                            iKey(m), Len(mappings'))
      /\ RecordSent(proto, local, m.mapped, remote)
      /\ UNCHANGED <<natType, now>>

(* errPortSpaceExhausted: only an expired mapping is removed. *)
NoPortLeft(proto, local, remote) ==
  LET key == OutboundKey(proto, local, remote)
  IN  /\ PortSpaceExhausted(proto)
      /\ key \in DOMAIN outboundMap
      /\ Expired(mappings[outboundMap[key]])
      /\ removeMapping(mappings[outboundMap[key]])
      /\ UNCHANGED <<natType, now, mappings, portCounter, sent>>

translateOutbound(proto, local, remote) ==
  \/ UseMapping(proto, local, remote)
  \/ CreateMapping(proto, local, remote)
  \/ NoPortLeft(proto, local, remote)

(* The local addresses an inbound chunk goes to: at most one. *)
Delivers(proto, port, remote) ==
  LET key == <<proto, port>>
      m == mappings[inboundMap[key]]
  IN  IF key \in DOMAIN inboundMap /\ ~Expired(m) /\ AddrKey(natType.filtering, remote) \in m.filters
      THEN {m.local} ELSE {}

(* An inbound chunk changes the NAT only by finding its mapping expired. *)
translateInbound(proto, port) ==
  LET key == <<proto, port>>
  IN  /\ key \in DOMAIN inboundMap
      /\ Expired(mappings[inboundMap[key]])
      /\ removeMapping(mappings[inboundMap[key]])
      /\ UNCHANGED <<natType, now, mappings, portCounter, sent>>

Tick ==
  /\ now < MaxTime
  /\ now' = now + 1
  /\ sent' = Restrict(sent, {k \in DOMAIN sent : now' <= sent[k].last + LifeTime})
  /\ UNCHANGED <<natType, mappings, outboundMap, inboundMap, portCounter>>

Next ==
  \/ \E proto \in Protos, local \in Locals, remote \in Remotes :
       translateOutbound(proto, local, remote)
  \/ \E proto \in Protos, port \in UNION {0..(Ports[p] - 1) : p \in Protos} :
       translateInbound(proto, port)
  \/ Tick

Spec == Init /\ [][Next]_vars

-----------------------------------------------------------------------------
(* Both maps hold the same mappings, each under its own keys: removing an  *)
(* expired mapping by one path never leaves half of it, nor removes half   *)
(* of its successor, and no two live mappings share a port.                *)
MapsAgree ==
  /\ TypeOK
  /\ \A k \in DOMAIN outboundMap :
       LET m == mappings[outboundMap[k]]
       IN  k = oKey(m) /\ iKey(m) \in DOMAIN inboundMap /\ inboundMap[iKey(m)] = outboundMap[k]
  /\ \A k \in DOMAIN inboundMap :
       LET m == mappings[inboundMap[k]]
       IN  k = iKey(m) /\ oKey(m) \in DOMAIN outboundMap /\ outboundMap[oKey(m)] = inboundMap[k]

(* An inbound chunk is delivered exactly when the address it is sent to    *)
(* was used within the life time by an outbound chunk, some chunk through  *)
(* it went to a remote that the filtering behaviour does not distinguish   *)
(* from its source, and it goes to the sender of those.                    *)
InboundExactly ==
  \A proto \in Protos, remote \in Remotes : \A port \in 0..(Ports[proto] - 1) :
    Delivers(proto, port, remote) =
      LET used == <<proto, port>> \in DOMAIN sent
          s == sent[<<proto, port>>]
      IN  IF /\ used
             /\ \E r \in s.remotes : AddrKey(natType.filtering, r) = AddrKey(natType.filtering, remote)
          THEN {s.local} ELSE {}

(* The mapping behaviour: outbound chunks of one local address to remotes  *)
(* the behaviour does not distinguish are never live on two ports at once, *)
(* and those to remotes it distinguishes never share one.                  *)
OnePortPerEndpoint ==
  \A j, k \in DOMAIN sent :
    LET alike == \E q \in sent[j].remotes, r \in sent[k].remotes :
                   AddrKey(natType.mapping, q) = AddrKey(natType.mapping, r)
    IN  j[1] = k[1] /\ sent[j].local = sent[k].local => (alike <=> j = k)

(* The NAT behaves as its type says, inbound and outbound. *)
BehavesAsTyped == InboundExactly /\ OnePortPerEndpoint
=============================================================================
