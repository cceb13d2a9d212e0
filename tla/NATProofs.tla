------------------------------ MODULE NATProofs ------------------------------
(***************************************************************************)
(* The NAT keeps its two maps in step and behaves as its type says, for    *)
(* any sets of local and remote addresses, port ranges and life time.      *)
(***************************************************************************)
EXTENDS NAT, TLAPS

(* Ports are handed out upwards: the next one has never been used. *)
PortsFresh ==
  /\ portCounter \in [Protos -> Nat]
  /\ \A i \in DOMAIN mappings : mappings[i].mapped < portCounter[mappings[i].proto]

(* A chunk sent through the port k within the life time is recorded in the *)
(* mapping of that port: its sender, its remote and the time.              *)
Recorded(k) ==
  LET m == mappings[inboundMap[k]]
  IN  /\ k \in DOMAIN inboundMap
      /\ sent[k].last + LifeTime = m.expires /\ sent[k].last \in Nat
      /\ ~Expired(m)
      /\ sent[k].local = m.local
      /\ sent[k].remotes # {}
      /\ m.filters = {AddrKey(natType.filtering, r) : r \in sent[k].remotes}
      /\ \A r \in sent[k].remotes : AddrKey(natType.mapping, r) = m.bound

(* The live mappings are those used within the life time. *)
LiveAreSent ==
  /\ \A k \in DOMAIN sent : Recorded(k)
  /\ \A k \in DOMAIN inboundMap : ~Expired(mappings[inboundMap[k]]) => k \in DOMAIN sent

IInv == MapsAgree /\ PortsFresh /\ LiveAreSent

-----------------------------------------------------------------------------
(* What a behaviour compares of a remote address is one of the keys. *)
LEMMA AddrKeyType ==
  ASSUME NEW b \in EndpointDependencyType, NEW r \in Remotes
  PROVE  AddrKey(b, r) \in Keys
<1>1. \E q \in Remotes, k \in EndpointDependencyType : SubSeq(r, 1, b) = SubSeq(q, 1, k)
  BY Zenon
<1>2. QED
  BY <1>1, SMT DEF AddrKey, Keys, EndpointDependencyType

(* newNAT. *)
LEMMA InitIInv == Init => IInv
<1> SUFFICES ASSUME Init PROVE IInv
  OBVIOUS
<1>1. DOMAIN mappings = {} /\ DOMAIN outboundMap = {} /\ DOMAIN inboundMap = {} /\ DOMAIN sent = {}
  BY DEF Init
<1>2. TypeOK /\ PortsFresh
  <2>1. mappings \in Seq(Mapping)
    BY DEF Init
  <2>2. now \in 0..MaxTime
    BY NATAssumption DEF Init
  <2>3. \A p \in Protos : portCounter[p] = 0 /\ 0 \in 0..Ports[p]
    BY NATAssumption DEF Init
  <2>4. portCounter \in [Protos -> Nat]
    BY DEF Init
  <2>5. QED
    BY <1>1, <2>1, <2>2, <2>3, <2>4 DEF Init, TypeOK, PortsFresh
<1>3. QED
  BY <1>1, <1>2 DEF IInv, MapsAgree, LiveAreSent

(* Removing an expired mapping, on an outbound or on an inbound chunk,     *)
(* takes its two entries and no other.                                     *)
LEMMA RemoveStep ==
  ASSUME IInv, NEW k \in DOMAIN inboundMap,
         Expired(mappings[inboundMap[k]]), removeMapping(mappings[inboundMap[k]]),
         UNCHANGED <<natType, now, mappings, portCounter, sent>>
  PROVE  IInv'
<1> DEFINE m == mappings[inboundMap[k]]
<1>1. k = iKey(m) /\ oKey(m) \in DOMAIN outboundMap /\ outboundMap[oKey(m)] = inboundMap[k]
  BY DEF IInv, MapsAgree
<1>2. /\ outboundMap' = [x \in DOMAIN outboundMap \ {oKey(m)} |-> outboundMap[x]]
      /\ inboundMap' = [x \in DOMAIN inboundMap \ {k} |-> inboundMap[x]]
  BY <1>1 DEF removeMapping, Without, Restrict
<1>3. ASSUME NEW x \in DOMAIN inboundMap' 
      PROVE  x \in DOMAIN inboundMap /\ x # k /\ inboundMap'[x] = inboundMap[x]
  BY <1>2
<1>4. ASSUME NEW x \in DOMAIN outboundMap'
      PROVE  x \in DOMAIN outboundMap /\ x # oKey(m) /\ outboundMap'[x] = outboundMap[x]
  BY <1>2
<1>5. TypeOK'
  BY <1>3, <1>4 DEF IInv, MapsAgree, TypeOK
<1>6. ASSUME NEW x \in DOMAIN outboundMap'
      PROVE  LET o == mappings[outboundMap[x]]
             IN  x = oKey(o) /\ iKey(o) \in DOMAIN inboundMap' /\ inboundMap'[iKey(o)] = outboundMap[x]
  <2> DEFINE o == mappings[outboundMap[x]]
  <2>1. x = oKey(o) /\ iKey(o) \in DOMAIN inboundMap /\ inboundMap[iKey(o)] = outboundMap[x]
    BY <1>4 DEF IInv, MapsAgree
  <2>2. iKey(o) # k
    BY <1>1, <1>4, <2>1
  <2>3. QED
    BY <1>2, <2>1, <2>2
<1>7. ASSUME NEW x \in DOMAIN inboundMap'
      PROVE  LET o == mappings[inboundMap[x]]
             IN  x = iKey(o) /\ oKey(o) \in DOMAIN outboundMap' /\ outboundMap'[oKey(o)] = inboundMap[x]
  <2> DEFINE o == mappings[inboundMap[x]]
  <2>1. x = iKey(o) /\ oKey(o) \in DOMAIN outboundMap /\ outboundMap[oKey(o)] = inboundMap[x]
    BY <1>3 DEF IInv, MapsAgree
  <2>2. oKey(o) # oKey(m)
    BY <1>1, <1>3, <2>1
  <2>3. QED
    BY <1>2, <2>1, <2>2
<1>8. MapsAgree'
  BY SMTT(30), <1>3, <1>4, <1>5, <1>6, <1>7 DEF MapsAgree, oKey, iKey
<1>9. PortsFresh'
  BY DEF IInv, PortsFresh
<1>10. LiveAreSent'
  <2>1. k \notin DOMAIN sent
    BY DEF IInv, LiveAreSent, Recorded
  <2>2. ASSUME NEW x \in DOMAIN sent PROVE x \in DOMAIN inboundMap' /\ inboundMap'[x] = inboundMap[x]
    BY <1>2, <2>1 DEF IInv, LiveAreSent, Recorded
  <2>3. ASSUME NEW x \in DOMAIN sent' PROVE Recorded(x)'
    <3>1. x \in DOMAIN sent /\ Recorded(x)
      BY DEF IInv, LiveAreSent
    <3>2. QED
      BY <2>2, <3>1 DEF Recorded, Expired
  <2>4. QED
    BY <1>3, <2>3 DEF IInv, LiveAreSent, Expired
<1>11. QED
  BY <1>8, <1>9, <1>10 DEF IInv

(* Time passes: a mapping expires at the moment its last use is further    *)
(* back than the life time.                                                *)
LEMMA TickStep == ASSUME IInv, Tick PROVE IInv'
<1>t. TypeOK /\ now' = now + 1 /\ now \in Nat /\ LifeTime \in Nat
  BY NATAssumption DEF IInv, MapsAgree, TypeOK, Tick
<1>1. MapsAgree' /\ PortsFresh'
  <2>1. now' \in 0..MaxTime
    BY <1>t, NATAssumption DEF Tick, TypeOK
  <2>2. TypeOK'
    BY <1>t, <2>1 DEF Tick, TypeOK
  <2>3. QED
    BY Zenon, <2>2 DEF Tick, IInv, MapsAgree, PortsFresh, oKey, iKey
<1>2. /\ DOMAIN sent' = {k \in DOMAIN sent : now' <= sent[k].last + LifeTime}
      /\ \A k \in DOMAIN sent' : sent'[k] = sent[k]
  BY DEF Tick, Restrict
<1>3. ASSUME NEW k \in DOMAIN sent' PROVE Recorded(k)'
  <2>1. k \in DOMAIN sent /\ Recorded(k) /\ sent'[k] = sent[k] /\ now' <= sent[k].last + LifeTime
    BY <1>2 DEF IInv, LiveAreSent
  <2>2. ~Expired(mappings[inboundMap[k]])'
    <3>1. sent[k].last + LifeTime = mappings[inboundMap[k]].expires /\ sent[k].last \in Nat
      BY <2>1 DEF Recorded
    <3>2. ~(now' > mappings[inboundMap[k]].expires)
      BY <1>t, <2>1, <3>1
    <3>3. QED
      BY <3>2 DEF Expired, Tick
  <2>3. QED
    BY Zenon, <2>1, <2>2 DEF Recorded, Tick
<1>4. ASSUME NEW k \in DOMAIN inboundMap, ~Expired(mappings[inboundMap[k]])' PROVE k \in DOMAIN sent'
  <2>0. mappings[inboundMap[k]] \in Mapping
    BY <1>t DEF TypeOK
  <2>1. mappings[inboundMap[k]].expires \in Nat /\ ~(now' > mappings[inboundMap[k]].expires)
    BY <1>4, <2>0 DEF Mapping, Expired, Tick
  <2>2. ~Expired(mappings[inboundMap[k]])
    BY <1>t, <2>1 DEF Expired
  <2>3. k \in DOMAIN sent /\ Recorded(k)
    BY <2>2 DEF IInv, LiveAreSent
  <2>4. now' <= sent[k].last + LifeTime
    BY <1>t, <2>1, <2>3 DEF Recorded
  <2>5. QED
    BY <1>2, <2>3, <2>4
<1>5. LiveAreSent'
  BY <1>3, <1>4 DEF LiveAreSent, Tick
<1>6. QED
  BY <1>1, <1>5 DEF IInv

(* An outbound chunk on a live mapping: only that mapping changes, and     *)
(* what changes of it is what the history records.                         *)
LEMMA UseStep ==
  ASSUME IInv, NEW proto \in Protos, NEW local \in Locals, NEW remote \in Remotes,
         UseMapping(proto, local, remote)
  PROVE  IInv'
<1>d. PICK key, i, m, f, n, k :
        /\ key = OutboundKey(proto, local, remote)
        /\ i = outboundMap[key]
        /\ m = mappings[i]
        /\ f = AddrKey(natType.filtering, remote)
        /\ n = [m EXCEPT !.expires = now + LifeTime, !.filters = @ \cup {f}]
        /\ k = iKey(m)
  BY Zenon
<1>t. TypeOK /\ now \in Nat /\ LifeTime \in Nat
  BY NATAssumption DEF IInv, MapsAgree, TypeOK
<1>1. key \in DOMAIN outboundMap /\ ~Expired(m) /\ i \in DOMAIN mappings /\ m \in Mapping
  BY <1>t, <1>d DEF UseMapping, TypeOK
<1>2. key = oKey(m) /\ k \in DOMAIN inboundMap /\ inboundMap[k] = i
  BY <1>1, <1>d DEF IInv, MapsAgree
<1>3. m.proto = proto /\ m.local = local /\ m.bound = AddrKey(natType.mapping, remote)
  BY <1>2, <1>d DEF OutboundKey, oKey
<1>4. k \in DOMAIN sent /\ Recorded(k) /\ k = <<proto, m.mapped>>
  BY <1>1, <1>2, <1>3, <1>d DEF IInv, LiveAreSent, iKey
<1>5. mappings' = [mappings EXCEPT ![i] = n] /\ UNCHANGED <<natType, now, outboundMap, inboundMap, portCounter>>
  BY <1>d DEF UseMapping, Refreshed
<1>6. f \in Keys
  BY <1>t, <1>d, AddrKeyType DEF TypeOK
<1>7. /\ n \in Mapping /\ n.expires = now + LifeTime /\ n.filters = m.filters \cup {f}
      /\ n.proto = m.proto /\ n.local = m.local /\ n.bound = m.bound /\ n.mapped = m.mapped
  <2>1. now + LifeTime \in Nat
    BY <1>t
  <2>2. m \in Mapping /\ m.filters \cup {f} \in SUBSET Keys
    BY <1>1, <1>6 DEF Mapping
  <2>3. n = [m EXCEPT !.expires = now + LifeTime, !.filters = m.filters \cup {f}]
    BY <1>d, <2>2 DEF Mapping
  <2>4. QED
    BY Zenon, <2>1, <2>2, <2>3 DEF Mapping
<1>8. /\ DOMAIN sent' = DOMAIN sent
      /\ sent'[k] = [local |-> local, last |-> now, remotes |-> {remote} \cup sent[k].remotes]
      /\ \A x \in DOMAIN sent \ {k} : sent'[x] = sent[x]
  BY Zenon, <1>4, <1>d DEF UseMapping, RecordSent, With
<1>9. /\ mappings' \in Seq(Mapping) /\ DOMAIN mappings' = DOMAIN mappings /\ mappings'[i] = n
      /\ \A j \in DOMAIN mappings \ {i} : mappings'[j] = mappings[j]
  BY <1>t, <1>1, <1>5, <1>7 DEF TypeOK
<1>10. \A j \in DOMAIN mappings : /\ oKey(mappings'[j]) = oKey(mappings[j])
                                  /\ iKey(mappings'[j]) = iKey(mappings[j])
                                  /\ mappings'[j].mapped = mappings[j].mapped
                                  /\ mappings'[j].proto = mappings[j].proto
  <2>1. oKey(n) = oKey(m) /\ iKey(n) = iKey(m) /\ m = mappings[i]
    BY <1>7, <1>d DEF oKey, iKey
  <2>2. QED
    BY <1>7, <1>9, <2>1
<1>11. TypeOK' /\ PortsFresh'
  BY <1>t, <1>5, <1>9, <1>10 DEF TypeOK, PortsFresh, IInv
<1>12. MapsAgree'
  <2>1. \A x \in DOMAIN outboundMap : outboundMap[x] \in DOMAIN mappings
    BY <1>t DEF TypeOK
  <2>2. \A x \in DOMAIN inboundMap : inboundMap[x] \in DOMAIN mappings
    BY <1>t DEF TypeOK
  <2>3. QED
    BY <1>5, <1>10, <1>11, <2>1, <2>2 DEF IInv, MapsAgree
<1>13. Recorded(k)'
  <2>1. mappings'[inboundMap'[k]] = n /\ k \in DOMAIN inboundMap'
    BY <1>2, <1>5, <1>9
  <2>2. ~(now' > n.expires) /\ now' = now
    BY SMTT(30), <1>t, <1>5, <1>7
  <2>3. /\ m.filters = {AddrKey(natType.filtering, r) : r \in sent[k].remotes}
        /\ \A r \in sent[k].remotes : AddrKey(natType.mapping, r) = m.bound
    BY <1>2, <1>4, <1>d DEF Recorded
  <2>4. /\ sent'[k].local = local /\ sent'[k].last = now
        /\ sent'[k].remotes = {remote} \cup sent[k].remotes
    BY <1>8
  <2>5. n.filters = {AddrKey(natType.filtering, r) : r \in sent'[k].remotes}
    BY <1>7, <2>3, <2>4, <1>d, ZenonT(60)
  <2>6. \A r \in sent'[k].remotes : AddrKey(natType.mapping, r) = n.bound
    BY <1>3, <1>7, <2>3, <2>4
  <2>7. natType' = natType /\ n.local = local /\ n.expires = now + LifeTime
    BY <1>3, <1>5, <1>7
  <2>8. sent'[k].remotes # {}
    BY <2>4
  <2>9. QED
    BY <1>t, <2>1, <2>2, <2>4, <2>5, <2>6, <2>7, <2>8 DEF Recorded, Expired
<1>14. ASSUME NEW x \in DOMAIN inboundMap, x # k
       PROVE  mappings'[inboundMap'[x]] = mappings[inboundMap[x]]
  <2>1. inboundMap[x] \in DOMAIN mappings /\ x = iKey(mappings[inboundMap[x]])
    BY DEF IInv, MapsAgree, TypeOK
  <2>2. inboundMap[x] # i
    BY <1>14, <2>1, <1>d
  <2>3. QED
    BY <1>5, <1>9, <2>1, <2>2
<1>15. ASSUME NEW x \in DOMAIN sent, x # k PROVE Recorded(x)'
  <2>1. Recorded(x) /\ x \in DOMAIN inboundMap /\ sent'[x] = sent[x]
    BY Zenon, <1>8, <1>15 DEF IInv, LiveAreSent, Recorded
  <2>2. mappings'[inboundMap'[x]] = mappings[inboundMap[x]]
    BY <1>14, <1>15, <2>1
  <2>3. QED
    BY <1>5, <2>1, <2>2 DEF Recorded, Expired
<1>16. LiveAreSent'
  <2>1. \A x \in DOMAIN sent' : Recorded(x)'
    BY <1>8, <1>13, <1>15
  <2>2. ASSUME NEW x \in DOMAIN inboundMap', ~Expired(mappings[inboundMap[x]])' PROVE x \in DOMAIN sent'
    <3>1. CASE x = k
      BY <1>4, <1>8, <3>1
    <3>2. CASE x # k
      <4>1. ~Expired(mappings[inboundMap[x]]) /\ x \in DOMAIN inboundMap
        BY <1>5, <1>14, <2>2, <3>2 DEF Expired
      <4>2. QED
        BY <1>8, <4>1 DEF IInv, LiveAreSent
    <3>3. QED
      BY <3>1, <3>2
  <2>3. QED
    BY <2>1, <2>2 DEF LiveAreSent
<1>17. QED
  BY SMTT(30), <1>11, <1>12, <1>16 DEF IInv

(* An outbound chunk without a live mapping: the new one takes a port that *)
(* was never used, and replaces the expired one in both maps.              *)
LEMMA CreateStep ==
  ASSUME IInv, NEW proto \in Protos, NEW local \in Locals, NEW remote \in Remotes,
         CreateMapping(proto, local, remote)
  PROVE  IInv'
<1>d. PICK key, stale, m, n, k, f, R :
        /\ key = OutboundKey(proto, local, remote)
        /\ stale = IF key \in DOMAIN outboundMap THEN {mappings[outboundMap[key]]} ELSE {}
        /\ f = AddrKey(natType.filtering, remote)
        /\ m = [proto |-> proto, local |-> local, bound |-> key[3],
                mapped |-> portCounter[proto], expires |-> now + LifeTime, filters |-> {f}]
        /\ n = Len(mappings) + 1
        /\ k = iKey(m)
        /\ R = DOMAIN inboundMap \ {iKey(s) : s \in stale}
  BY Zenon
<1>t. /\ TypeOK /\ now \in Nat /\ LifeTime \in Nat /\ Ports[proto] \in Nat
      /\ portCounter \in [Protos -> Nat]
  BY NATAssumption DEF IInv, MapsAgree, TypeOK, PortsFresh
<1>1. /\ \A s \in stale : Expired(s)
      /\ portCounter[proto] + 1 <= Ports[proto]
      /\ portCounter' = [portCounter EXCEPT ![proto] = @ + 1]
      /\ UNCHANGED <<natType, now>>
  BY <1>d, <1>t DEF CreateMapping, PortSpaceExhausted
<1>2. key[3] = AddrKey(natType.mapping, remote) /\ key = oKey(m) /\ k = <<proto, portCounter[proto]>>
  BY <1>d DEF OutboundKey, oKey, iKey
<1>3. mappings' = Append(mappings, m) /\ Len(mappings') = n
  <2>1. mappings' = Append(mappings, m)
    BY <1>d DEF CreateMapping
  <2>2. QED
    BY SMTT(30), <1>d, <1>t, <2>1 DEF TypeOK
<1>4. outboundMap' = [x \in DOMAIN outboundMap \cup {key} |-> IF x = key THEN n ELSE outboundMap[x]]
  BY SMTT(30), <1>d, <1>3 DEF CreateMapping, With
<1>5. inboundMap' = [x \in R \cup {k} |-> IF x = k THEN n ELSE inboundMap[x]]
  BY SMTT(30), <1>d, <1>3 DEF CreateMapping, With, Restrict
<1>6. m \in Mapping
  <2>1. key[3] \in Keys /\ {f} \in SUBSET Keys
    BY <1>2, <1>t, <1>d, AddrKeyType DEF TypeOK
  <2>2. portCounter[proto] \in Nat /\ now + LifeTime \in Nat
    BY <1>t
  <2>3. QED
    BY <1>d, <2>1, <2>2 DEF Mapping
<1>7. /\ mappings' \in Seq(Mapping) /\ DOMAIN mappings' = DOMAIN mappings \cup {n}
      /\ mappings'[n] = m /\ n \notin DOMAIN mappings
      /\ \A j \in DOMAIN mappings : mappings'[j] = mappings[j]
  BY <1>t, <1>3, <1>6, <1>d DEF TypeOK
<1>8. k \notin DOMAIN inboundMap /\ k \notin DOMAIN sent
  <2>1. ASSUME k \in DOMAIN inboundMap PROVE FALSE
    <3>1. PICK j \in DOMAIN mappings : k = iKey(mappings[j])
      BY <2>1 DEF IInv, MapsAgree, TypeOK
    <3>2. mappings[j].proto = proto /\ mappings[j].mapped = portCounter[proto]
      BY <1>2, <3>1 DEF iKey
    <3>3. mappings[j].mapped < portCounter[proto] /\ portCounter[proto] \in Nat
      BY <1>t, <3>1, <3>2 DEF IInv, PortsFresh
    <3>4. QED
      BY <3>2, <3>3
  <2>2. QED
    BY <2>1 DEF IInv, LiveAreSent, Recorded
<1>9. ASSUME NEW x \in DOMAIN inboundMap, x \notin R
      PROVE  key \in DOMAIN outboundMap /\ inboundMap[x] = outboundMap[key] /\ Expired(mappings[inboundMap[x]])
  <2>1. key \in DOMAIN outboundMap /\ x = iKey(mappings[outboundMap[key]])
    BY <1>d, <1>9
  <2>2. inboundMap[x] = outboundMap[key]
    BY <2>1 DEF IInv, MapsAgree
  <2>3. QED
    BY SMTT(30), <1>1, <1>d, <2>1, <2>2
<1>10. ASSUME NEW x \in R
       PROVE  /\ x \in DOMAIN inboundMap /\ x # k /\ inboundMap'[x] = inboundMap[x]
              /\ mappings'[inboundMap'[x]] = mappings[inboundMap[x]]
              /\ inboundMap[x] \in DOMAIN mappings
  BY Zenon, <1>d, <1>t, <1>5, <1>7, <1>8 DEF TypeOK
<1>11. ASSUME NEW x \in DOMAIN outboundMap, x # key
       PROVE  /\ outboundMap'[x] = outboundMap[x] /\ outboundMap[x] \in DOMAIN mappings
              /\ mappings'[outboundMap'[x]] = mappings[outboundMap[x]]
  BY <1>t, <1>4, <1>7, <1>11 DEF TypeOK
<1>12. DOMAIN inboundMap' = R \cup {k} /\ inboundMap'[k] = n
       /\ DOMAIN outboundMap' = DOMAIN outboundMap \cup {key} /\ outboundMap'[key] = n
  BY <1>4, <1>5
<1>13. TypeOK'
  <2>1. \A i \in DOMAIN mappings' : mappings'[i].mapped < Ports[mappings'[i].proto]
    <3>1. m.mapped < Ports[m.proto]
      BY <1>t, <1>1, <1>d, SMTT(30)
    <3>2. QED
      BY SMTT(30), <1>t, <1>7, <3>1 DEF TypeOK
  <2>2. \A p \in Protos : portCounter'[p] \in 0..Ports[p]
    BY <1>t, <1>1 DEF TypeOK
  <2>3. \A x \in DOMAIN outboundMap' : outboundMap'[x] \in DOMAIN mappings'
    BY <1>7, <1>11, <1>12
  <2>4. \A x \in DOMAIN inboundMap' : inboundMap'[x] \in DOMAIN mappings'
    BY <1>7, <1>10, <1>12
  <2>5. QED
    BY <1>t, <1>1, <1>7, <2>1, <2>2, <2>3, <2>4 DEF TypeOK
<1>14. PortsFresh'
  <2>1. portCounter' \in [Protos -> Nat] /\ portCounter'[proto] = portCounter[proto] + 1
    BY <1>t, <1>1
  <2>2. ASSUME NEW j \in DOMAIN mappings PROVE mappings[j].mapped < portCounter'[mappings[j].proto]
    <3>1. mappings[j] \in Mapping /\ mappings[j].mapped < portCounter[mappings[j].proto]
      BY <1>t DEF TypeOK, IInv, PortsFresh
    <3>2. mappings[j].proto \in Protos /\ mappings[j].mapped \in Nat
      BY <3>1 DEF Mapping
    <3>3. QED
      BY <1>t, <1>1, <3>1, <3>2
  <2>3. m.mapped = portCounter[proto] /\ m.proto = proto
    BY <1>d
  <2>4. m.mapped < portCounter'[m.proto]
    BY <1>t, <2>1, <2>3
  <2>5. QED
    BY <1>7, <2>1, <2>2, <2>4 DEF PortsFresh
<1>15. MapsAgree'
  <2>1. ASSUME NEW x \in DOMAIN outboundMap, x # key
        PROVE  LET o == mappings[outboundMap[x]]
               IN  x = oKey(o) /\ iKey(o) \in R /\ inboundMap'[iKey(o)] = outboundMap[x]
    <3> DEFINE o == mappings[outboundMap[x]]
    <3>1. x = oKey(o) /\ iKey(o) \in DOMAIN inboundMap /\ inboundMap[iKey(o)] = outboundMap[x]
      BY DEF IInv, MapsAgree
    <3>2. iKey(o) \in R
      <4>1. SUFFICES ASSUME iKey(o) \notin R PROVE FALSE
        OBVIOUS
      <4>2. key \in DOMAIN outboundMap /\ outboundMap[x] = outboundMap[key]
        BY <1>9, <3>1, <4>1
      <4>3. key = oKey(o)
        BY <4>2 DEF IInv, MapsAgree
      <4>4. QED
        BY <2>1, <3>1, <4>3
    <3>3. QED
      BY <1>10, <3>1, <3>2
  <2>2. ASSUME NEW x \in R
        PROVE  LET o == mappings[inboundMap[x]]
               IN  x = iKey(o) /\ oKey(o) \in DOMAIN outboundMap' /\ outboundMap'[oKey(o)] = inboundMap[x]
    <3> DEFINE o == mappings[inboundMap[x]]
    <3>1. x = iKey(o) /\ oKey(o) \in DOMAIN outboundMap /\ outboundMap[oKey(o)] = inboundMap[x]
      BY <1>10 DEF IInv, MapsAgree
    <3>2. oKey(o) # key
      BY <1>d, <3>1
    <3>3. QED
      BY <1>11, <1>12, <3>1, <3>2
  <2>3. ASSUME NEW x \in DOMAIN outboundMap'
        PROVE  LET o == mappings'[outboundMap'[x]]
               IN  x = oKey(o) /\ iKey(o) \in DOMAIN inboundMap' /\ inboundMap'[iKey(o)] = outboundMap'[x]
    <3>1. CASE x = key
      BY Zenon, <1>2, <1>7, <1>12, <1>d, <3>1
    <3>2. CASE x # key
      BY <1>11, <1>12, <2>1, <3>2
    <3>3. QED
      BY <3>1, <3>2
  <2>4. ASSUME NEW x \in DOMAIN inboundMap'
        PROVE  LET o == mappings'[inboundMap'[x]]
               IN  x = iKey(o) /\ oKey(o) \in DOMAIN outboundMap' /\ outboundMap'[oKey(o)] = inboundMap'[x]
    <3>1. CASE x = k
      BY Zenon, <1>2, <1>7, <1>12, <1>d, <3>1
    <3>2. CASE x # k
      BY <1>10, <1>12, <2>2, <3>2
    <3>3. QED
      BY <3>1, <3>2
  <2>5. QED
    BY Zenon, <1>13, <2>3, <2>4 DEF MapsAgree, oKey, iKey
<1>16. /\ DOMAIN sent' = DOMAIN sent \cup {k}
       /\ sent'[k] = [local |-> local, last |-> now, remotes |-> {remote}]
       /\ \A x \in DOMAIN sent : sent'[x] = sent[x]
  <2>1. m.mapped = portCounter[proto] /\ k = <<proto, m.mapped>>
    BY <1>2, <1>d
  <2>2. RecordSent(proto, local, m.mapped, remote)
    BY Zenon, <1>d DEF CreateMapping
  <2>3. QED
    BY <1>8, <2>1, <2>2 DEF RecordSent, With
<1>17. Recorded(k)'
  <2>1. mappings'[inboundMap'[k]] = m /\ k \in DOMAIN inboundMap'
    BY <1>7, <1>12
  <2>2. /\ m.local = local /\ m.expires = now + LifeTime /\ m.filters = {f}
        /\ m.bound = AddrKey(natType.mapping, remote)
    BY <1>2, <1>d
  <2>3. ~(now' > m.expires) /\ now' = now /\ natType' = natType
    BY SMTT(30), <1>t, <1>1, <2>2
  <2>4. sent'[k].local = local /\ sent'[k].last = now /\ sent'[k].remotes = {remote}
    BY <1>16
  <2>5. m.filters = {AddrKey(natType.filtering, r) : r \in sent'[k].remotes}
    BY <2>2, <2>4, <1>d
  <2>6. \A r \in sent'[k].remotes : AddrKey(natType.mapping, r) = m.bound
    BY SMTT(30), <2>2, <2>4
  <2>7. QED
    BY SMTT(30), <1>t, <2>1, <2>2, <2>3, <2>4, <2>5, <2>6 DEF Recorded, Expired
<1>18. ASSUME NEW x \in DOMAIN sent PROVE Recorded(x)'
  <2>1. Recorded(x) /\ x \in DOMAIN inboundMap /\ ~Expired(mappings[inboundMap[x]])
    BY DEF IInv, LiveAreSent, Recorded
  <2>2. x \in R
    BY <1>9, <2>1
  <2>3. mappings'[inboundMap'[x]] = mappings[inboundMap[x]] /\ x \in DOMAIN inboundMap'
    BY <1>10, <1>12, <2>2
  <2>4. QED
    BY <1>1, <1>16, <2>1, <2>3, SMTT(30) DEF Recorded, Expired
<1>19. LiveAreSent'
  <2>1. \A x \in DOMAIN sent' : Recorded(x)'
    BY <1>16, <1>17, <1>18
  <2>2. ASSUME NEW x \in DOMAIN inboundMap', ~Expired(mappings[inboundMap[x]])' PROVE x \in DOMAIN sent'
    <3>1. CASE x = k
      BY <1>16, <3>1
    <3>2. CASE x # k
      <4>1. x \in R
        BY <1>12, <3>2
      <4>2. ~Expired(mappings[inboundMap[x]]) /\ x \in DOMAIN inboundMap
        BY <1>1, <1>10, <2>2, <4>1 DEF Expired
      <4>3. QED
        BY <1>16, <4>2 DEF IInv, LiveAreSent
    <3>3. QED
      BY <3>1, <3>2
  <2>3. QED
    BY <2>1, <2>2 DEF LiveAreSent
<1>20. QED
  BY <1>14, <1>15, <1>19 DEF IInv

-----------------------------------------------------------------------------
(* The invariant is inductive. *)
LEMMA Invariance == Spec => []IInv
<1>1. IInv /\ [Next]_vars => IInv'
  <2> SUFFICES ASSUME IInv, [Next]_vars PROVE IInv'
    OBVIOUS
  <2>1. ASSUME NEW proto \in Protos, NEW local \in Locals, NEW remote \in Remotes,
               NoPortLeft(proto, local, remote)
        PROVE  IInv'
    <3>1. PICK key : key = OutboundKey(proto, local, remote)
      OBVIOUS
    <3>2. /\ key \in DOMAIN outboundMap /\ Expired(mappings[outboundMap[key]])
          /\ removeMapping(mappings[outboundMap[key]])
          /\ UNCHANGED <<natType, now, mappings, portCounter, sent>>
      BY SMTT(30), <2>1, <3>1 DEF NoPortLeft
    <3>3. PICK k \in DOMAIN inboundMap : inboundMap[k] = outboundMap[key]
      BY <3>2 DEF IInv, MapsAgree
    <3>4. QED
      BY <3>2, <3>3, RemoveStep
  <2>2. ASSUME NEW proto \in Protos, NEW port, translateInbound(proto, port) PROVE IInv'
    BY <2>2, RemoveStep DEF translateInbound
  <2>3. ASSUME UNCHANGED vars PROVE IInv'
    <3>1. TypeOK' /\ PortsFresh'
      BY <2>3 DEF vars, IInv, MapsAgree, TypeOK, PortsFresh
    <3>2. MapsAgree'
      BY SMTT(30), <2>3, <3>1 DEF vars, IInv, MapsAgree, oKey, iKey
    <3>3. LiveAreSent'
      BY <2>3 DEF vars, IInv, LiveAreSent, Recorded, Expired
    <3>4. QED
      BY <3>1, <3>2, <3>3 DEF IInv
  <2>4. ASSUME NEW proto \in Protos, NEW local \in Locals, NEW remote \in Remotes,
               translateOutbound(proto, local, remote)
        PROVE  IInv'
    BY <2>1, <2>4, UseStep, CreateStep DEF translateOutbound
  <2>5. ASSUME Tick PROVE IInv'
    BY <2>5, TickStep
  <2>6. QED
    BY <2>2, <2>3, <2>4, <2>5, Zenon DEF Next
<1>2. QED
  BY <1>1, InitIInv, PTL DEF Spec

(* Creating a mapping, refreshing it and removing it on either path keep   *)
(* outboundMap and inboundMap each other's inverse, with every live        *)
(* mapping on a port of its own.                                           *)
THEOREM MapsAgreeCorrect == Spec => []MapsAgree
<1>1. IInv => MapsAgree
  BY DEF IInv
<1>2. QED
  BY <1>1, Invariance, PTL

(* translateInbound delivers exactly the chunks the filtering behaviour    *)
(* permits, to the sender it should, and translateOutbound gives one port  *)
(* to what the mapping behaviour does not distinguish and different ports  *)
(* to what it does.                                                        *)
THEOREM BehavesAsTypedCorrect == Spec => []BehavesAsTyped
<1>1. ASSUME IInv PROVE InboundExactly
  <2> SUFFICES ASSUME NEW proto \in Protos, NEW remote \in Remotes, NEW port \in 0..(Ports[proto] - 1)
               PROVE  Delivers(proto, port, remote) =
                        IF /\ <<proto, port>> \in DOMAIN sent
                           /\ \E r \in sent[<<proto, port>>].remotes :
                                AddrKey(natType.filtering, r) = AddrKey(natType.filtering, remote)
                        THEN {sent[<<proto, port>>].local} ELSE {}
    BY DEF InboundExactly
  <2>1. PICK key : key = <<proto, port>>
    BY Zenon
  <2>2. CASE key \in DOMAIN sent
    <3>1. Recorded(key)
      BY <1>1, <2>2 DEF IInv, LiveAreSent
    <3>2. QED
      BY <2>1, <2>2, <3>1 DEF Recorded, Delivers
  <2>3. CASE key \notin DOMAIN sent
    <3>1. ~(key \in DOMAIN inboundMap /\ ~Expired(mappings[inboundMap[key]]))
      BY <1>1, <2>3 DEF IInv, LiveAreSent
    <3>2. QED
      BY <2>1, <2>3, <3>1 DEF Delivers
  <2>4. QED
    BY <2>2, <2>3
<1>2. ASSUME IInv PROVE OnePortPerEndpoint
  <2> SUFFICES ASSUME NEW j \in DOMAIN sent, NEW k \in DOMAIN sent,
                      j[1] = k[1], sent[j].local = sent[k].local
               PROVE  (\E q \in sent[j].remotes, r \in sent[k].remotes :
                         AddrKey(natType.mapping, q) = AddrKey(natType.mapping, r)) <=> j = k
    BY DEF OnePortPerEndpoint
  <2>1. PICK m, n : m = mappings[inboundMap[j]] /\ n = mappings[inboundMap[k]]
    OBVIOUS
  <2>2. Recorded(j) /\ Recorded(k)
    BY <1>2 DEF IInv, LiveAreSent
  <2>3. /\ j = iKey(m) /\ outboundMap[oKey(m)] = inboundMap[j]
        /\ k = iKey(n) /\ outboundMap[oKey(n)] = inboundMap[k]
    BY <1>2, <2>1, <2>2 DEF Recorded, IInv, MapsAgree
  <2>4. m.proto = n.proto /\ m.local = n.local
    <3>1. j[1] = m.proto /\ k[1] = n.proto
      BY <2>3 DEF iKey
    <3>2. m.local = n.local
      BY Zenon, <2>1, <2>2 DEF Recorded
    <3>3. QED
      BY Zenon, <3>1, <3>2
  <2>5. ASSUME NEW q \in sent[j].remotes, NEW r \in sent[k].remotes,
               AddrKey(natType.mapping, q) = AddrKey(natType.mapping, r)
        PROVE  j = k
    <3>1. m.bound = n.bound
      BY <2>1, <2>2, <2>5 DEF Recorded
    <3>2. oKey(m) = oKey(n)
      BY <2>4, <3>1 DEF oKey
    <3>3. QED
      BY <2>1, <2>3, <3>2
  <2>6. j = k => \E q \in sent[j].remotes, r \in sent[k].remotes :
                   AddrKey(natType.mapping, q) = AddrKey(natType.mapping, r)
    BY <2>2 DEF Recorded
  <2>7. QED
    BY <2>5, <2>6
<1>3. IInv => BehavesAsTyped
  BY <1>1, <1>2 DEF BehavesAsTyped
<1>4. QED
  BY <1>3, Invariance, PTL
=============================================================================
