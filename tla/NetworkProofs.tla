---------------------------- MODULE NetworkProofs ----------------------------
(***************************************************************************)
(* Proofs about the running network, for every size of it: that Stop can   *)
(* stop what it must (Stoppable) and that chunks leave a router once, in   *)
(* order and not early (InTurn), for any number of routers, applications,  *)
(* Starts and chunks; that a network that is made in any order is as       *)
(* Reachable says, for any Nets and addresses; and that names resolve as   *)
(* NamesResolve says, for chains of any number of resolvers.               *)
(***************************************************************************)
EXTENDS MCRouter, TLAPS

netvars == <<which, run, topo, vars>>

(* Most steps below are first-order reasoning; those that are not say so. *)
USE Zenon

-----------------------------------------------------------------------------
(* Names. *)

(* While a call is under way: names and parents are never lost, what a     *)
(* resolver knows is recorded, and the call has not yet gone past a        *)
(* resolver that knew the name.                                            *)
UnderWay ==
  asking # 0 =>
    /\ asked # <<>>
    /\ \A i \in Resolvers : hosts[i][asked[1]] \subseteq during[i]
    /\ \A i \in Resolvers : before[1][i][asked[1]] # {} => hosts[i][asked[1]] # {}
    /\ \A i \in 1..(Depth - 1) : before[2][i] => parent[i]
    /\ \A i \in Knew : asking <= i /\ (missed => asking < i)

LocalHost == \A i \in Resolvers : hosts[i]["localhost"] = {Loopback}

IInv == TypeOK /\ (missed => asking # 0) /\ LocalHost /\ UnderWay /\ NamesResolve

-----------------------------------------------------------------------------
(* There is at least one router. *)
LEMMA DepthPositive == Depth \in Nat /\ Depth >= 1
<1>1. Depth \in Nat \ {0}
  BY ResolverAssumption
<1> QED
  BY <1>1, SMT

(* NewRouter makes resolvers that know localhost, and nobody has asked.    *)
LEMMA InitHolds == Init => IInv
<1> SUFFICES ASSUME Init PROVE IInv
  OBVIOUS
<1>1. hosts \in Hosts /\ parent \in Parents /\ LocalHost
  BY DEF Init, Hosts, Parents, HostNames, LocalHost
<1>2. before \in Hosts \X Parents /\ during \in [Resolvers -> SUBSET (IPs \cup {Loopback})]
  BY <1>1 DEF Init
<1>3. asking \in 0..Depth
  <2>1. asking = 0
    BY DEF Init
  <2> QED
    BY <2>1, DepthPositive, SMT
<1>4. TypeOK
  BY <1>1, <1>2, <1>3 DEF Init, TypeOK
<1> QED
  BY <1>1, <1>4 DEF Init, IInv, UnderWay, NamesResolve

-----------------------------------------------------------------------------
(* Every step of a resolver, a router or the asking Net keeps IInv. *)
LEMMA StepPreserves == IInv /\ [Next]_vars => IInv'
(* The state stays typed. *)
<1>TypePreserved. IInv /\ [Next]_vars => TypeOK'
  <2> SUFFICES ASSUME IInv, [Next]_vars PROVE TypeOK'
    OBVIOUS
  <2>0. asking \in 0..Depth
    BY DEF IInv, TypeOK
  <2>1. ASSUME NEW i \in Resolvers, NEW name \in Names, NEW ip \in IPs, AddHost(i, name, ip)
        PROVE  TypeOK'
    <3>1. hosts' \in Hosts
      BY <2>1 DEF AddHost, IInv, TypeOK, Hosts, HostNames
    <3>2. during' \in [Resolvers -> SUBSET (IPs \cup {Loopback})]
      BY <2>1 DEF AddHost, IInv, TypeOK
    <3> QED
      BY <2>1, <3>1, <3>2 DEF AddHost, IInv, TypeOK
  <2>2. ASSUME NEW i \in 1..(Depth - 1), SetParent(i) PROVE TypeOK'
    BY <2>2 DEF SetParent, call, IInv, TypeOK, Parents
  <2>3. CASE SetRouter
    BY <2>3 DEF SetRouter, call, IInv, TypeOK
  <2>4. ASSUME NEW name \in HostNames, Resolve(name) PROVE TypeOK'
    <3>1. hosts \in Hosts /\ parent \in Parents
      BY DEF IInv, TypeOK
    <3>2. \A i \in Resolvers : hosts[i][name] \in SUBSET (IPs \cup {Loopback})
      BY <3>1 DEF Hosts
    <3>3. during' \in [Resolvers -> SUBSET (IPs \cup {Loopback})]
      BY <2>4, <3>2 DEF Resolve
    <3>4. asked' \in {<<>>} \cup {<<n>> : n \in HostNames}
      BY <2>4 DEF Resolve
    <3>5. asking' = 1 \/ asking' = 0
      BY <2>4 DEF Resolve
    <3>8. asking' \in 0..Depth
      BY <3>5, DepthPositive, SMT
    <3>6. answer' \in IPs \cup {Loopback, NotFound, NoRouter, ""}
      BY <2>4 DEF Resolve
    <3>7. before' \in Hosts \X Parents
      BY <2>4, <3>1 DEF Resolve
    <3> QED
      BY <2>4, <3>3, <3>4, <3>6, <3>7, <3>8 DEF Resolve, IInv, TypeOK
  <2>5. CASE LookUp
    <3>1. asked \in {<<n>> : n \in HostNames} /\ asking # 0
      BY <2>5 DEF LookUp, IInv, UnderWay, TypeOK
    <3>2. asked[1] \in HostNames /\ asking \in Resolvers
      BY <2>0, <3>1, DepthPositive, SMT DEF Resolvers
    <3>3. hosts[asking][asked[1]] \subseteq IPs \cup {Loopback}
      BY <3>1, <3>2 DEF IInv, TypeOK, Hosts
    <3>6. (asking' = asking \/ asking' = 0) /\ missed' \in BOOLEAN
      BY <2>5 DEF LookUp, IInv, TypeOK
    <3>4. asking' \in 0..Depth
      BY <2>0, <3>6, DepthPositive, SMT
    <3>5. answer' \in IPs \cup {Loopback, NotFound, NoRouter, ""}
      BY <2>5, <3>3 DEF LookUp, IInv, TypeOK
    <3> QED
      BY <2>5, <3>4, <3>5, <3>6 DEF LookUp, IInv, TypeOK
  <2>6. CASE AskParent
    <3>2. asking' = AsksNext(asking)
      BY <2>6 DEF AskParent
    <3>1. asking' \in 0..Depth
      BY <2>0, <3>2, DepthPositive, SMT DEF AsksNext
    <3> QED
      BY <2>6, <3>1 DEF AskParent, IInv, TypeOK
  <2>7. CASE UNCHANGED vars
    BY <2>7 DEF vars, call, IInv, TypeOK
  <2> QED
    BY <2>1, <2>2, <2>3, <2>4, <2>5, <2>6, <2>7 DEF Next
(* Steps that leave the call alone do not change who knew the name. *)
<1>KnewKept. asked' = asked /\ before' = before => Knew' = Knew
  BY DEF Knew, Chain, Resolvers
(* A name that is asked is one of the host names. *)
<1>AskedName. ASSUME IInv, asking # 0
              PROVE  asked = <<asked[1]>> /\ asked[1] \in HostNames /\ asking \in Resolvers
  <2> USE <1>AskedName
  <2>1. asked \in {<<n>> : n \in HostNames} /\ asking \in 0..Depth
    BY DEF IInv, TypeOK, UnderWay
  <2> QED
    BY <2>1, DepthPositive, SMT DEF Resolvers
(* AddHost gives a name an address and takes no name away. *)
<1>AddHostPreserves. ASSUME IInv, NEW i \in Resolvers, NEW name \in Names, NEW ip \in IPs, AddHost(i, name, ip)
                     PROVE  LocalHost' /\ UnderWay' /\ NamesResolve'
  <2> USE <1>AddHostPreserves
  <2>0. /\ hosts \in Hosts /\ during \in [Resolvers -> SUBSET (IPs \cup {Loopback})]
        /\ name \in HostNames /\ name # "localhost"
    BY ResolverAssumption DEF IInv, TypeOK, HostNames
  <2>1. LocalHost'
    BY <2>0 DEF AddHost, LocalHost, IInv, Hosts, HostNames
  <2>2. Knew' = Knew
    BY <1>KnewKept DEF AddHost
  <2>3. UnderWay'
    <3> SUFFICES ASSUME asking # 0 PROVE UnderWay'
      BY DEF UnderWay, AddHost
    <3>1. asked = <<asked[1]>> /\ asked[1] \in HostNames
      BY <1>AskedName
    <3>2. \A j \in Resolvers :
            hosts'[j][asked[1]] = IF j = i /\ asked[1] = name THEN {ip} ELSE hosts[j][asked[1]]
      BY <2>0, <3>1 DEF AddHost, Hosts
    <3>3. \A j \in Resolvers :
            during'[j] = IF j = i /\ asked[1] = name THEN during[j] \cup {ip} ELSE during[j]
      <4>1. asked = <<name>> <=> asked[1] = name
        BY <3>1, SMT
      <4>2. during' = IF asked[1] = name THEN [during EXCEPT ![i] = @ \cup {ip}] ELSE during
        BY <4>1 DEF AddHost
      <4> QED
        BY <2>0, <4>2
    <3>4. \A j \in Resolvers : hosts[j][asked[1]] \subseteq during[j]
      BY DEF IInv, UnderWay
    <3>5. \A j \in Resolvers : hosts'[j][asked[1]] \subseteq during'[j]
      BY <3>2, <3>3, <3>4
    <3>6. \A j \in Resolvers : before[1][j][asked[1]] # {} => hosts'[j][asked[1]] # {}
      BY <3>2 DEF IInv, UnderWay
    <3> QED
      BY <2>2, <3>5, <3>6 DEF AddHost, IInv, UnderWay
  <2>4. NamesResolve'
    <3> SUFFICES ASSUME asking = 0 PROVE NamesResolve'
      BY DEF NamesResolve, AddHost
    <3> QED
      BY <2>2 DEF AddHost, IInv, NamesResolve, HadUpTo
  <2> QED
    BY <2>1, <2>3, <2>4
(* A call begins at the Net's own router, or ends at once. *)
<1>ResolvePreserves. ASSUME IInv, NEW name \in HostNames, Resolve(name)
                     PROVE  UnderWay' /\ NamesResolve' /\ ~missed'
  <2> USE <1>ResolvePreserves
  <2>1. asked' = <<name>> /\ asked'[1] = name /\ before' = <<hosts, parent>>
    BY DEF Resolve
  <2>2. during' = [i \in Resolvers |-> hosts[i][name]] /\ hosts' = hosts /\ parent' = parent
    BY DEF Resolve
  <2>3. ~missed'
    BY DEF Resolve, IInv
  <2>4. \A i \in Knew' : i \in Resolvers
    BY DEF Knew, Chain, Resolvers
  <2>5. UnderWay'
    <3>1. \A i \in Knew' : 1 <= i
      BY <2>4, DepthPositive, SMT DEF Resolvers
    <3>2. asking' # 0 => asking' = 1
      BY DEF Resolve
    <3> QED
      BY <2>1, <2>2, <2>3, <3>1, <3>2 DEF UnderWay, Resolvers
  <2>6. NamesResolve'
    <3> SUFFICES ASSUME asking' = 0, answer' # NoRouter PROVE NamesResolve'
      BY DEF NamesResolve
    <3>1. name = "localhost" /\ answer' = Loopback
      <4>1. name # "localhost" /\ linked => asking' = 1
        BY DEF Resolve
      <4>2. ~(name # "localhost" /\ linked)
        BY <4>1, SMT
      <4> QED
        BY <4>2 DEF Resolve
    <3>2. 1 \in Resolvers /\ \A i \in Resolvers : 1 \in 1..i
      BY DepthPositive, SMT DEF Resolvers
    <3>3. Loopback \in during'[1]
      BY <2>2, <3>1, <3>2 DEF IInv, LocalHost
    <3>4. \A i \in Resolvers : HadUpTo(i, Loopback)'
      BY <3>2, <3>3 DEF HadUpTo
    <3>5. Depth \in Resolvers
      BY DepthPositive, SMT DEF Resolvers
    <3> QED
      BY <2>4, <3>1, <3>4, <3>5 DEF NamesResolve, HadUpTo, Resolvers
  <2> QED
    BY <2>3, <2>5, <2>6
(* A resolver that knew the name still knows it, so the call does not go   *)
(* past it; an address found is one the name had, there, during the call.  *)
<1>LookUpPreserves. ASSUME IInv, LookUp
                    PROVE  UnderWay' /\ NamesResolve' /\ (missed' => asking' # 0)
  <2> USE <1>LookUpPreserves
  <2>0. asking # 0 /\ asked' = asked /\ before' = before /\ hosts' = hosts /\ parent' = parent
        /\ during' = during /\ ~missed
    BY DEF LookUp
  <2>1. asking \in Resolvers /\ Knew' = Knew /\ \A i \in Knew : i \in Resolvers
    BY <2>0, <1>AskedName, <1>KnewKept DEF Knew, Chain
  <2>2. \A i \in Knew : asking <= i
    BY <2>0 DEF IInv, UnderWay
  <2>3. CASE hosts[asking][asked[1]] = {}
    <3>1. missed' /\ asking' = asking
      BY <2>3 DEF LookUp
    <3>2. \A i \in Knew : i # asking
      BY <2>0, <2>1, <2>3 DEF IInv, UnderWay, Knew
    <3>3. \A i \in Knew : asking < i
      BY <2>1, <2>2, <3>2, SMT DEF Resolvers
    <3>4. UnderWay'
      BY <2>0, <2>1, <2>2, <3>1, <3>3 DEF IInv, UnderWay
    <3> QED
      BY <2>0, <3>1, <3>4 DEF NamesResolve
  <2>4. CASE hosts[asking][asked[1]] # {}
    <3>1. answer' \in hosts[asking][asked[1]] /\ asking' = 0 /\ missed' = missed
      BY <2>4 DEF LookUp
    <3>2. answer' \in during[asking]
      BY <2>0, <2>1, <3>1 DEF IInv, UnderWay
    <3>3. asking \in 1..Depth /\ \A i \in Knew : asking \in 1..i
      BY <2>1, <2>2, DepthPositive, SMT DEF Resolvers
    <3>4. /\ \E j \in 1..Depth : answer' \in during[j]
          /\ \A i \in Knew : \E j \in 1..i : answer' \in during[j]
      BY <3>2, <3>3
    <3>5. NamesResolve'
      BY <2>0, <2>1, <3>4 DEF NamesResolve, HadUpTo
    <3> QED
      BY <2>0, <3>1, <3>5 DEF UnderWay
  <2> QED
    BY <2>3, <2>4
(* The parent of a resolver below one that knew the name was there when    *)
(* the call was made, so it is asked.                                      *)
<1>AskParentPreserves. ASSUME IInv, AskParent
                       PROVE  UnderWay' /\ NamesResolve' /\ ~missed'
  <2> USE <1>AskParentPreserves
  <2>0. asked' = asked /\ before' = before /\ hosts' = hosts /\ parent' = parent
        /\ during' = during /\ missed /\ ~missed' /\ asking' = AsksNext(asking)
    BY DEF AskParent
  <2>1. asking # 0 /\ Knew' = Knew
    BY <2>0, <1>KnewKept DEF IInv
  <2>2. asking \in Resolvers /\ \A i \in Knew : i \in Resolvers
    BY <2>1, <1>AskedName DEF Knew, Chain
  <2>3. \A i \in Knew : asking < i
    BY <2>0, <2>1 DEF IInv, UnderWay
  <2>4. ASSUME NEW i \in Knew PROVE asking' = asking + 1 /\ asking' <= i /\ asking' # 0
    <3>1. asking \in 1..(i - 1) /\ asking \in 1..(Depth - 1) /\ asking < Depth
      BY <2>2, <2>3, <2>4, DepthPositive, SMT DEF Resolvers
    <3>2. \A j \in 1..(i - 1) : before[2][j]
      BY <2>4 DEF Knew, Chain
    <3>3. parent[asking]
      BY <2>1, <3>1, <3>2 DEF IInv, UnderWay
    <3>4. asking' = asking + 1
      BY <2>0, <3>1, <3>3 DEF AsksNext
    <3> QED
      BY <2>2, <2>3, <2>4, <3>4, DepthPositive, SMT DEF Resolvers
  <2>5. UnderWay'
    BY <2>0, <2>1, <2>4 DEF IInv, UnderWay
  <2>6. NamesResolve'
    <3> SUFFICES ASSUME asking' = 0 PROVE NamesResolve'
      BY DEF NamesResolve
    <3>1. Knew' = {}
      BY <2>1, <2>4
    <3>2. answer' = NotFound
      BY DEF AskParent
    <3> QED
      BY <3>1, <3>2 DEF NamesResolve
  <2> QED
    BY <2>0, <2>5, <2>6
<1> SUFFICES ASSUME IInv, [Next]_vars PROVE IInv'
  OBVIOUS
<1> DEFINE Others == (missed => asking # 0) /\ LocalHost /\ UnderWay /\ NamesResolve
<1>0. Others
  BY DEF IInv
<1>1. ASSUME NEW i \in Resolvers, NEW name \in Names, NEW ip \in IPs, AddHost(i, name, ip)
      PROVE  Others'
  <2>1. missed' = missed /\ asking' = asking
    BY <1>1 DEF AddHost
  <2> QED
    BY <1>0, <1>1, <2>1, <1>AddHostPreserves
<1>2. ASSUME NEW i \in 1..(Depth - 1), SetParent(i) PROVE Others'
  <2>1. hosts' = hosts /\ asked' = asked /\ asking' = asking /\ missed' = missed
        /\ answer' = answer /\ before' = before /\ during' = during
        /\ parent' = [parent EXCEPT ![i] = TRUE]
    BY <1>2 DEF SetParent, call
  <2>2. Knew' = Knew
    BY <2>1, <1>KnewKept
  <2>3. \A j \in 1..(Depth - 1) : parent[j] => parent'[j]
    BY <2>1 DEF IInv, TypeOK, Parents
  <2>4. UnderWay'
    BY <2>1, <2>2, <2>3 DEF IInv, UnderWay
  <2> QED
    BY <1>0, <2>1, <2>2, <2>4 DEF LocalHost, NamesResolve, HadUpTo
<1>3. ASSUME SetRouter \/ UNCHANGED vars PROVE Others'
  <2>1. hosts' = hosts /\ asked' = asked /\ asking' = asking /\ missed' = missed
        /\ answer' = answer /\ before' = before /\ during' = during /\ parent' = parent
    BY <1>3 DEF SetRouter, vars, call
  <2>2. Knew' = Knew
    BY <2>1, <1>KnewKept
  <2> QED
    BY <1>0, <2>1, <2>2 DEF LocalHost, UnderWay, NamesResolve, HadUpTo
<1>4. ASSUME NEW name \in HostNames, Resolve(name) PROVE Others'
  <2>1. LocalHost'
    BY <1>0, <1>4 DEF Resolve, LocalHost
  <2> QED
    BY <1>4, <2>1, <1>ResolvePreserves
<1>5. ASSUME LookUp PROVE Others'
  <2>1. LocalHost'
    BY <1>0, <1>5 DEF LookUp, LocalHost
  <2> QED
    BY <1>5, <2>1, <1>LookUpPreserves
<1>6. ASSUME AskParent PROVE Others'
  <2>1. LocalHost'
    BY <1>0, <1>6 DEF AskParent, LocalHost
  <2> QED
    BY <1>6, <2>1, <1>AskParentPreserves
<1>7. Others'
  <2> HIDE DEF Others
  <2> QED
    BY <1>1, <1>2, <1>3, <1>4, <1>5, <1>6 DEF Next
<1> QED
  BY <1>7, <1>TypePreserved DEF IInv

-----------------------------------------------------------------------------
(* For any number of routers, names and addresses: lookUp finds a name     *)
(* that a router of the chain knew when Net.ResolveIPAddr was called, with *)
(* an address it had in that router or in a nearer one, although hosts and *)
(* parents are added between the questions it asks.                        *)
THEOREM NamesResolveCorrect == Spec => []NamesResolve
<1>1. IInv => NamesResolve
  BY DEF IInv
<1> QED
  BY <1>1, InitHolds, StepPreserves, PTL DEF Spec
-----------------------------------------------------------------------------
(* The making of a network. *)

(* A set of numbers that is not empty has a least member: LeastOf at the end. *)
HaveLeast == \A T : T \subseteq Nat /\ T # {} => \E x \in T : \A y \in T : x <= y

(* The set-up calls, one by one, keep the invariant, and it says of the    *)
(* network what Reachable asks for.                                        *)
LEMMA NetworkMade ==
  ASSUME HaveLeast
  PROVE  NetworkSpec => []Reachable
(* A NIC with an entry in the table of router r has r as its router, or no *)
(* router yet: then an AddNet that failed half-way has made the entry, and *)
(* no AddNet with another router can succeed.                              *)
<1> DEFINE BelongsTo(n, r) ==
      /\ router[n] \in {r, "none"} /\ (n = "lan" => r = "wan")
      /\ router[n] = "none" /\ n # "lan" =>
           staticIPs[n] # <<>> /\ Making!InSubnet(r, staticIPs[n][1])
<1> DEFINE EntryIs(r, ip) ==
      /\ nics[r][ip] \in Making!NICs /\ Making!InSubnet(r, ip) /\ BelongsTo(nics[r][ip], r)
      /\ Making!HasAddr(nics[r][ip], ip) \/ <<nics[r][ip], ip>> \in unlinked
(* An address of the subnet of r that NIC n has is routed to n, also       *)
(* before n has its router.                                                *)
<1> DEFINE RoutedTo(n, r, ip) ==
      router[n] \in {r, "none"} /\ Making!InSubnet(r, ip) /\ <<n, ip>> \notin unlinked
      /\ ip \notin contested => ip \in DOMAIN nics[r] /\ nics[r][ip] = n
<1> DEFINE TableInv ==
      /\ DOMAIN nics = Making!Routers
      /\ \A r \in Making!Routers : \A ip \in DOMAIN nics[r] : EntryIs(r, ip)
      /\ \A n \in Making!NICs, r \in Making!Routers : \A ip \in Making!ToSet(addrs[n]) : RoutedTo(n, r, ip)
(* The interface of "lan" has addresses of "wan" only, and a NAT in place  *)
(* maps those it has.                                                      *)
<1> DEFINE LanInv ==
      /\ \A ip \in Making!ToSet(addrs["lan"]) : Making!InSubnet("wan", ip)
      /\ \/ nat = <<>>
         \/ /\ nat = <<[mapped |-> addrs["lan"], local |-> Making!LocalOf(addrs["lan"])]>>
            /\ ~Making!NATError(addrs["lan"])
<1> DEFINE SetUpInv ==
      /\ \A n \in Making!NICs : staticIPs[n] \in Seq(Addresses)
      /\ oneToOne \in BOOLEAN
      /\ addrs \in [Making!NICs -> Seq(Addresses)]
      /\ router \in [Making!NICs -> Making!Routers \cup {"none"}] /\ router["lan"] # "lan"
      /\ lastID \in [Making!Routers -> 0..LastID]
      /\ children \in Seq({"lan"}) /\ failed \in BOOLEAN /\ unlinked \subseteq Nets \X Extra
<1> DEFINE TopologyInv == SetUpInv /\ TableInv /\ LanInv /\ Making!NATInPlace
(* NIC n gets the addresses F on its interface and, in the table of r, an  *)
(* entry for each of them; its router, if it changes, becomes r.           *)
<1> DEFINE Listed(n, r, F) ==
      /\ \A ip \in F : Making!InSubnet(r, ip)
      /\ \A ip : Making!HasAddr(n, ip)' <=> Making!HasAddr(n, ip) \/ ip \in F
      /\ \A m \in Making!NICs \ {n} : addrs'[m] = addrs[m]
      /\ DOMAIN nics' = Making!Routers /\ \A q \in Making!Routers \ {r} : nics'[q] = nics[q]
      /\ DOMAIN nics'[r] = F \cup DOMAIN nics[r]
      /\ \A ip \in F : nics'[r][ip] = n
      /\ \A ip \in DOMAIN nics[r] \ F : nics'[r][ip] = nics[r][ip]
      /\ contested' = Making!Claim(n, F) /\ staticIPs' = staticIPs /\ unlinked' = unlinked
<1> DEFINE Attached(n, r, F) ==
      /\ \A m \in Making!NICs \ {n} : router'[m] = router[m]
      /\ router[n] = "none" \/ router'[n] = router[n]
      /\ router'[n] \in {r, "none"} /\ (n = "lan" => r = "wan")
      /\ F # {} /\ n # "lan" /\ router'[n] = "none" =>
           staticIPs[n] # <<>> /\ Making!InSubnet(r, staticIPs[n][1])
      /\ n # "lan" /\ router[n] = "none" /\ router'[n] = r /\ staticIPs[n] # <<>> =>
           Making!InSubnet(r, staticIPs[n][1])
(* n, which has no router but r, is added to r with the addresses ips. *)
<1> DEFINE Joins(n, r, ips) ==
      /\ \A m \in Making!NICs \ {n} : router'[m] = router[m]
      /\ router[n] = "none" \/ router'[n] = router[n]
      /\ router'[n] \in {r, "none"} /\ (n = "lan" => r = "wan")
      /\ n # "lan" /\ router'[n] = "none" => staticIPs[n] # <<>>
      /\ n # "lan" /\ staticIPs[n] # <<>> => ips = staticIPs[n]
      /\ n # "lan" /\ router[n] = "none" /\ router'[n] = r => Making!Within(r, ips) = ips
<1> HIDE DEF BelongsTo, EntryIs, RoutedTo, TableInv, LanInv, SetUpInv, TopologyInv,
             Listed, Attached, Joins
(* The numbers of a list, the list of one, and a list made from another. *)
<1>ListIs. ASSUME NEW S, NEW s \in Seq(S)
           PROVE  /\ Len(s) \in Nat /\ DOMAIN s = 1..Len(s)
                  /\ s # <<>> => 1 \in DOMAIN s /\ Len(s) > 0
  BY SMT
<1>NoneIs. <<>> = [i \in {} |-> {}] /\ DOMAIN <<>> = {} /\ \A S : <<>> \in Seq(S)
  BY SMT
<1>OneIs. ASSUME NEW x
          PROVE  DOMAIN <<x>> = {1} /\ <<x>>[1] = x /\ \A S : x \in S => <<x>> \in Seq(S)
  BY SMT
<1>OneLonger. ASSUME NEW S, NEW s \in Seq(S), NEW x \in S
              PROVE  Append(s, x) = s \o <<x>> /\ Append(s, x) \in Seq(S)
  BY SMT
<1>MadeFrom. ASSUME NEW S, NEW s \in Seq(S), NEW t, DOMAIN t = DOMAIN s, t = [i \in DOMAIN t |-> t[i]]
             PROVE  Len(t) = Len(s) /\ DOMAIN t = 1..Len(s) /\ Len(s) \in Nat
  BY <1>MadeFrom, SMT
<1>CountedUp. ASSUME NEW n \in Nat, NEW x \in 0..n
              PROVE  x + 1 \in Nat /\ (x < n => x + 1 \in 0..n) /\ 0 \in 0..n
  BY SMT
(* FirstAt finds a place of what is in the list. *)
<1>FirstFound. ASSUME HaveLeast, NEW s, NEW len \in Nat, DOMAIN s = 1..len, NEW x \in Making!ToSet(s)
               PROVE  Making!FirstAt(s, x) \in DOMAIN s /\ s[Making!FirstAt(s, x)] = x
  <2> USE <1>FirstFound
  <2> DEFINE T == {i \in DOMAIN s : s[i] = x}
  <2>1. DOMAIN s = 1..len
    OBVIOUS
  <2>2. T \subseteq Nat /\ T # {}
    BY <2>1, SMT DEF Making!ToSet
  <2>3. PICK i \in T : \A j \in T : i <= j
    BY <2>2 DEF HaveLeast
  <2>4. i \in DOMAIN s /\ s[i] = x /\ \A j \in 1..(i - 1) : s[j] # x
    BY <2>1, <2>3, SMT
  <2>5. \E n \in DOMAIN s : s[n] = x /\ \A j \in 1..(n - 1) : s[j] # x
    BY <2>4
  <2> QED BY <2>5 DEF Making!FirstAt
(* addNIC takes addresses of the subnet only, and none if the first one is *)
(* beyond it.                                                              *)
<1>WithinFound. ASSUME HaveLeast, NEW r, NEW ips \in Seq(Addresses)
                PROVE  /\ Making!Within(r, ips) \in Seq(Addresses)
                       /\ \A ip \in Making!ToSet(Making!Within(r, ips)) : Making!InSubnet(r, ip)
                       /\ Making!ToSet(Making!Within(r, ips)) # {} =>
                            ips # <<>> /\ Making!InSubnet(r, ips[1])
                       /\ (\A i \in DOMAIN ips : Making!InSubnet(r, ips[i])) =>
                            Making!Within(r, ips) = ips
  <2> USE <1>WithinFound
  <2> DEFINE fits(n) == \A i \in 1..n : Making!InSubnet(r, ips[i])
             Is(fit) == fits(Len(fit)) /\ (fit = ips \/ ~fits(Len(fit) + 1))
             Prefixes == {SubSeq(ips, 1, n) : n \in 0..Len(ips)}
  <2>1. \E fit \in Prefixes : Is(fit)
    <3> DEFINE T == {i \in 1..Len(ips) : ~Making!InSubnet(r, ips[i])}
    <3>1. CASE T = {}
      <4>1. ips = SubSeq(ips, 1, Len(ips)) /\ Len(ips) \in 0..Len(ips)
        BY SMT
      <4>2. fits(Len(ips))
        BY <3>1
      <4> QED BY <4>1, <4>2
    <3>2. CASE T # {}
      <4>0. T \subseteq Nat
        BY SMT
      <4>1. PICK i \in T : \A j \in T : i <= j
        BY <3>2, <4>0 DEF HaveLeast
      <4>2. i \in 1..Len(ips) /\ i - 1 \in 0..Len(ips) /\ Len(SubSeq(ips, 1, i - 1)) = i - 1
        BY <4>1, SMT
      <4>3. fits(i - 1) /\ ~fits(i)
        BY <4>1, <4>2, SMT
      <4>4. Is(SubSeq(ips, 1, i - 1))
        BY <4>2, <4>3, SMT
      <4> QED BY <4>2, <4>4
    <3> QED BY <3>1, <3>2
  <2>2. Making!Within(r, ips) = CHOOSE fit \in Prefixes : Is(fit)
    BY DEF Making!Within
  <2>3. PICK fit \in Prefixes : fit = Making!Within(r, ips) /\ Is(fit)
    BY <2>1, <2>2
  <2>4. PICK n \in 0..Len(ips) : fit = SubSeq(ips, 1, n)
    BY <2>3
  <2>5. fit \in Seq(Addresses) /\ Len(fit) = n /\ DOMAIN fit = 1..n /\ \A i \in 1..n : fit[i] = ips[i]
    BY <2>4, SMT
  <2>6. \A i \in 1..n : Making!InSubnet(r, ips[i])
    BY <2>3, <2>5
  <2>7. \A ip \in Making!ToSet(fit) : Making!InSubnet(r, ip)
    BY <2>5, <2>6 DEF Making!ToSet
  <2>8. Making!ToSet(fit) # {} => ips # <<>> /\ Making!InSubnet(r, ips[1])
    <3>1. \A i \in 1..n : ips # <<>> /\ 1 \in 1..n
      BY SMT
    <3> QED BY <3>1, <2>5, <2>6 DEF Making!ToSet
  <2>9. (\A i \in DOMAIN ips : Making!InSubnet(r, ips[i])) => fit = ips
    <3>1. n = Len(ips) => fit = ips
      BY <2>4, SMT
    <3>2. n # Len(ips) => 1..(n + 1) \subseteq DOMAIN ips
      BY <2>4, SMT
    <3>3. fit = ips \/ \E i \in 1..(n + 1) : ~Making!InSubnet(r, ips[i])
      BY <2>3, <2>5
    <3> QED BY <3>1, <3>2, <3>3
  <2> QED BY <2>3, <2>5, <2>7, <2>8, <2>9
(* The members of a list after an addition. *)
<1>MembersAdded. ASSUME NEW s \in Seq(Addresses), NEW t \in Seq(Addresses)
                 PROVE  s \o t \in Seq(Addresses) /\ Making!ToSet(s \o t) = Making!ToSet(s) \cup Making!ToSet(t)
  <2>1. /\ s \o t \in Seq(Addresses) /\ DOMAIN (s \o t) = 1..(Len(s) + Len(t))
        /\ DOMAIN s = 1..Len(s) /\ DOMAIN t = 1..Len(t) /\ Len(s) \in Nat /\ Len(t) \in Nat
    BY SMT
  <2>2. \A i \in 1..Len(s) : (s \o t)[i] = s[i] /\ i \in DOMAIN (s \o t)
    BY <2>1, SMT
  <2>3. \A i \in 1..Len(t) : (s \o t)[Len(s) + i] = t[i] /\ Len(s) + i \in DOMAIN (s \o t)
    BY <2>1, SMT
  <2>4. \A i \in DOMAIN (s \o t) : i \in 1..Len(s) \/ (i - Len(s) \in 1..Len(t) /\ (s \o t)[i] = t[i - Len(s)])
    BY <2>1, SMT
  <2>5. \A x \in Making!ToSet(s \o t) : x \in Making!ToSet(s) \cup Making!ToSet(t)
    <3> SUFFICES ASSUME NEW i \in DOMAIN (s \o t)
                 PROVE  (s \o t)[i] \in Making!ToSet(s) \cup Making!ToSet(t)
      BY DEF Making!ToSet
    <3> QED BY <2>1, <2>2, <2>4 DEF Making!ToSet
  <2>6. \A x \in Making!ToSet(s) : x \in Making!ToSet(s \o t)
    BY <2>1, <2>2 DEF Making!ToSet
  <2>7. \A x \in Making!ToSet(t) : x \in Making!ToSet(s \o t)
    BY <2>1, <2>3 DEF Making!ToSet
  <2> QED BY <2>1, <2>5, <2>6, <2>7
(* Taking out the one at i leaves the others in the list. *)
<1>MembersLeft. ASSUME NEW s \in Seq(Addresses), NEW i \in DOMAIN s, NEW t, t = Making!Without(s, i)
                PROVE  /\ t \in Seq(Addresses) /\ Making!ToSet(t) \subseteq Making!ToSet(s)
                       /\ Making!ToSet(s) \subseteq Making!ToSet(t) \cup {s[i]}
  <2> USE <1>MembersLeft
  <2>1. DOMAIN s = 1..Len(s) /\ Len(s) \in Nat /\ i \in 1..Len(s)
    BY SMT
  <2>2. PICK u, v : u = SubSeq(s, 1, i - 1) /\ v = SubSeq(s, i + 1, Len(s))
    OBVIOUS
  <2>3. t = u \o v
    BY <2>2 DEF Making!Without
  <2>4. u \in Seq(Addresses) /\ DOMAIN u = 1..(i - 1) /\ \A j \in 1..(i - 1) : u[j] = s[j]
    BY <2>1, <2>2, SMT
  <2>5. v \in Seq(Addresses) /\ DOMAIN v = 1..(Len(s) - i) /\ \A j \in 1..(Len(s) - i) : v[j] = s[i + j]
    BY <2>1, <2>2, SMT
  <2>6. t \in Seq(Addresses) /\ Making!ToSet(t) = Making!ToSet(u) \cup Making!ToSet(v)
    BY <2>3, <2>4, <2>5, <1>MembersAdded
  <2>7. Making!ToSet(u) \subseteq Making!ToSet(s) /\ Making!ToSet(v) \subseteq Making!ToSet(s)
    <3>1. \A j \in 1..(i - 1) : j \in DOMAIN s
      BY <2>1, SMT
    <3>2. \A j \in 1..(Len(s) - i) : i + j \in DOMAIN s
      BY <2>1, SMT
    <3> QED BY <3>1, <3>2, <2>4, <2>5 DEF Making!ToSet
  <2>8. \A j \in DOMAIN s : s[j] \in Making!ToSet(u) \cup Making!ToSet(v) \cup {s[i]}
    <3> SUFFICES ASSUME NEW j \in DOMAIN s PROVE s[j] \in Making!ToSet(u) \cup Making!ToSet(v) \cup {s[i]}
      OBVIOUS
    <3>1. CASE j < i
      <4>1. j \in DOMAIN u /\ u[j] = s[j]
        BY <3>1, <2>1, <2>4, SMT
      <4> QED BY <4>1 DEF Making!ToSet
    <3>2. CASE j > i
      <4>1. j - i \in DOMAIN v /\ v[j - i] = s[j]
        <5>1. j - i \in 1..(Len(s) - i) /\ i + (j - i) = j
          BY <3>2, <2>1, SMT
        <5> QED BY <5>1, <2>5
      <4> QED BY <4>1 DEF Making!ToSet
    <3>3. CASE j = i
      BY <3>3
    <3> QED BY <3>1, <3>2, <3>3, <2>1, SMT
  <2> QED BY <2>6, <2>7, <2>8 DEF Making!ToSet
(* FirstAt finds a place of what is in a list of addresses. *)
<1>FirstIs. ASSUME NEW s \in Seq(Addresses), NEW x \in Making!ToSet(s)
            PROVE  Making!FirstAt(s, x) \in DOMAIN s /\ s[Making!FirstAt(s, x)] = x
  <2>1. DOMAIN s = 1..Len(s) /\ Len(s) \in Nat
    BY <1>ListIs
  <2> QED BY <2>1, <1>FirstFound
(* addNIC takes addresses of the subnet only, and none if the first one is *)
(* beyond it.                                                              *)
<1>WithinIs. ASSUME NEW r, NEW ips \in Seq(Addresses)
             PROVE  /\ Making!Within(r, ips) \in Seq(Addresses)
                    /\ \A ip \in Making!ToSet(Making!Within(r, ips)) : Making!InSubnet(r, ip)
                    /\ Making!ToSet(Making!Within(r, ips)) # {} =>
                         ips # <<>> /\ Making!InSubnet(r, ips[1])
                    /\ (\A i \in DOMAIN ips : Making!InSubnet(r, ips[i])) =>
                         Making!Within(r, ips) = ips
  BY <1>WithinFound
(* Taking out the first x leaves the others in the list. *)
<1>MembersRemoved. ASSUME NEW s \in Seq(Addresses), NEW x \in Making!ToSet(s),
                          NEW t, t = Making!Without(s, Making!FirstAt(s, x))
                   PROVE  /\ t \in Seq(Addresses) /\ Making!ToSet(t) \subseteq Making!ToSet(s)
                          /\ Making!ToSet(s) \subseteq Making!ToSet(t) \cup {x}
  <2> USE <1>MembersRemoved
  <2>1. Making!FirstAt(s, x) \in DOMAIN s /\ s[Making!FirstAt(s, x)] = x
    BY <1>FirstIs
  <2>2. /\ t \in Seq(Addresses) /\ Making!ToSet(t) \subseteq Making!ToSet(s)
        /\ Making!ToSet(s) \subseteq Making!ToSet(t) \cup {s[Making!FirstAt(s, x)]}
    BY <2>1, <1>MembersLeft
  <2> QED BY <2>1, <2>2
(* Such a step keeps the tables in agreement with the interfaces. *)
<1>TableRegistered. ASSUME TableInv, NEW n \in Making!NICs, NEW r \in Making!Routers, NEW F,
                           Listed(n, r, F), Attached(n, r, F)
                    PROVE  TableInv'
  <2> USE <1>TableRegistered
  <2> USE DEF Listed, Attached
  <2>1. \A q, ip : Making!InSubnet(r, ip) /\ Making!InSubnet(q, ip) => q = r
    BY DEF Making!InSubnet
  <2>2. \A m \in Making!NICs : \A ip : Making!HasAddr(m, ip) => Making!HasAddr(m, ip)'
    BY DEF Making!HasAddr
  <2>3. \A q \in Making!Routers, m \in Making!NICs : BelongsTo(m, q) => BelongsTo(m, q)'
    <3> SUFFICES ASSUME NEW q \in Making!Routers, NEW m \in Making!NICs, BelongsTo(m, q)
                 PROVE  BelongsTo(m, q)'
      OBVIOUS
    <3>1. CASE m # n
      BY <3>1 DEF BelongsTo, Making!InSubnet
    <3>2. CASE m = n /\ q = r
      BY <3>2 DEF BelongsTo, Making!InSubnet
    <3>3. CASE m = n /\ q # r
      <4>1. router[n] \in {q, "none"} /\ n # "lan"
        BY <3>3 DEF BelongsTo
      <4>2. router'[n] = "none" /\ router[n] = "none"
        BY <3>3, <4>1, <2>1 DEF BelongsTo
      <4> QED BY <3>3, <4>1, <4>2 DEF BelongsTo, Making!InSubnet
    <3> QED BY <3>1, <3>2, <3>3
  <2>4. \A q \in Making!Routers : \A ip \in DOMAIN nics'[q] : EntryIs(q, ip)'
    <3> SUFFICES ASSUME NEW q \in Making!Routers, NEW ip \in DOMAIN nics'[q] PROVE EntryIs(q, ip)'
      OBVIOUS
    <3>1. CASE q = r /\ ip \in F
      <4>1. nics'[q][ip] = n /\ Making!InSubnet(q, ip) /\ Making!HasAddr(n, ip)'
        BY <3>1
      <4>2. BelongsTo(n, q)'
        BY <3>1 DEF BelongsTo, Making!InSubnet
      <4> QED BY <4>1, <4>2 DEF EntryIs, Making!InSubnet
    <3>2. CASE ~(q = r /\ ip \in F)
      <4>1. ip \in DOMAIN nics[q] /\ nics'[q][ip] = nics[q][ip]
        BY <3>2
      <4>2. EntryIs(q, ip)
        BY <4>1 DEF TableInv
      <4> QED BY <4>1, <4>2, <2>2, <2>3 DEF EntryIs, Making!InSubnet
    <3> QED BY <3>1, <3>2
  <2>5. \A m \in Making!NICs, q \in Making!Routers : \A ip \in Making!ToSet(addrs'[m]) : RoutedTo(m, q, ip)'
    <3> SUFFICES ASSUME NEW m \in Making!NICs, NEW q \in Making!Routers,
                        NEW ip \in Making!ToSet(addrs'[m])
                 PROVE  RoutedTo(m, q, ip)'
      OBVIOUS
    <3> SUFFICES ASSUME router'[m] \in {q, "none"}, Making!InSubnet(q, ip),
                        <<m, ip>> \notin unlinked', ip \notin contested'
                 PROVE  ip \in DOMAIN nics'[q] /\ nics'[q][ip] = m
      BY DEF RoutedTo, Making!InSubnet
    <3>0. Making!HasAddr(m, ip)'
      BY DEF Making!HasAddr
    <3>1. CASE m = n /\ ip \in F
      <4>1. q = r
        BY <3>1, <2>1
      <4>2. ip \in DOMAIN nics'[r] /\ nics'[r][ip] = n
        BY <3>1
      <4> QED BY <3>1, <4>1, <4>2
    <3>2. CASE ~(m = n /\ ip \in F)
      <4>1. Making!HasAddr(m, ip)
        BY <3>0, <3>2 DEF Making!HasAddr
      <4>2. ip \notin contested /\ router[m] \in {q, "none"}
        BY DEF Making!Claim
      <4>3. ip \in DOMAIN nics[q] /\ nics[q][ip] = m
        <5>1. RoutedTo(m, q, ip)
          BY <4>1 DEF TableInv, Making!HasAddr
        <5>2. <<m, ip>> \notin unlinked
          OBVIOUS
        <5> QED BY <5>1, <5>2, <4>2 DEF RoutedTo
      <4>4. ip \in F => ip \in Making!Claim(n, F)
        BY <3>2, <4>1 DEF Making!Claim
      <4>5. ip \notin F
        BY <4>4
      <4>6. nics'[q] = nics[q] \/ q = r
        OBVIOUS
      <4> QED BY <4>3, <4>5, <4>6
    <3> QED BY <3>1, <3>2
  <2> QED BY <2>4, <2>5 DEF TableInv
(* What addNIC and Net.AddAddress write into the table. *)
<1>RegisterIs. ASSUME DOMAIN nics = Making!Routers, NEW r \in Making!Routers, NEW n, NEW ips,
                      nics' = Making!Register(r, n, ips)
               PROVE  /\ DOMAIN nics' = Making!Routers /\ \A q \in Making!Routers \ {r} : nics'[q] = nics[q]
                      /\ DOMAIN nics'[r] = Making!ToSet(ips) \cup DOMAIN nics[r]
                      /\ \A ip \in Making!ToSet(ips) : nics'[r][ip] = n
                      /\ \A ip \in DOMAIN nics[r] \ Making!ToSet(ips) : nics'[r][ip] = nics[r][ip]
  <2> USE <1>RegisterIs
  <2>1. PICK F : F = Making!ToSet(ips)
    OBVIOUS
  <2>2. PICK t : t = [ip \in F \cup DOMAIN nics[r] |-> IF ip \in F THEN n ELSE nics[r][ip]]
    OBVIOUS
  <2>3. nics' = [nics EXCEPT ![r] = t]
    BY <2>1, <2>2 DEF Making!Register
  <2>4. DOMAIN t = F \cup DOMAIN nics[r] /\ \A ip \in F : t[ip] = n
    BY <2>2
  <2>5. \A ip \in DOMAIN nics[r] \ F : t[ip] = nics[r][ip]
    BY <2>2
  <2>6. DOMAIN nics' = Making!Routers /\ nics'[r] = t /\ \A q \in Making!Routers \ {r} : nics'[q] = nics[q]
    BY <2>3
  <2> QED BY <2>1, <2>4, <2>5, <2>6
(* addNIC keeps the tables in agreement with the interfaces, however many  *)
(* of the addresses it takes.                                              *)
<1>TableAddNIC. ASSUME SetUpInv, TableInv, NEW r \in Making!Routers, NEW n \in Making!NICs,
                       NEW ips \in Seq(Addresses), Making!AddNIC(r, n, ips), staticIPs' = staticIPs, unlinked' = unlinked,
                       Joins(n, r, ips)
                PROVE  /\ TableInv' /\ addrs' \in [Making!NICs -> Seq(Addresses)]
                       /\ addrs' = [addrs EXCEPT ![n] = addrs[n] \o Making!Within(r, ips)]
                       /\ \A ip \in Making!ToSet(addrs'[n]) : ip \in Making!ToSet(addrs[n]) \/ Making!InSubnet(r, ip)
                       /\ \A q \in Making!Routers : \A ip \in DOMAIN nics'[q] : nics'[q][ip] = n \/
                            (ip \in DOMAIN nics[q] /\ nics'[q][ip] = nics[q][ip])
  <2> USE <1>TableAddNIC
  <2>1. PICK fit, F : fit = Making!Within(r, ips) /\ F = Making!ToSet(fit)
    OBVIOUS
  <2>2. /\ fit \in Seq(Addresses) /\ \A ip \in F : Making!InSubnet(r, ip)
        /\ F # {} => ips # <<>> /\ Making!InSubnet(r, ips[1])
    BY <2>1, <1>WithinIs
  <2>3. /\ addrs' = [addrs EXCEPT ![n] = addrs[n] \o fit] /\ nics' = Making!Register(r, n, fit)
        /\ contested' = Making!Claim(n, F)
    BY <2>1 DEF Making!AddNIC
  <2>4. addrs \in [Making!NICs -> Seq(Addresses)] /\ addrs[n] \in Seq(Addresses)
    BY DEF SetUpInv
  <2>5. addrs[n] \o fit \in Seq(Addresses) /\ Making!ToSet(addrs[n] \o fit) = Making!ToSet(addrs[n]) \cup F
    BY <2>1, <2>2, <2>4, <1>MembersAdded
  <2>6. /\ addrs' \in [Making!NICs -> Seq(Addresses)] /\ addrs'[n] = addrs[n] \o fit
        /\ \A m \in Making!NICs \ {n} : addrs'[m] = addrs[m]
    BY <2>3, <2>4, <2>5
  <2>7. \A ip : Making!HasAddr(n, ip)' <=> Making!HasAddr(n, ip) \/ ip \in F
    BY <2>5, <2>6 DEF Making!HasAddr
  <2>8. /\ DOMAIN nics' = Making!Routers /\ \A q \in Making!Routers \ {r} : nics'[q] = nics[q]
        /\ DOMAIN nics'[r] = F \cup DOMAIN nics[r]
        /\ \A ip \in F : nics'[r][ip] = n
        /\ \A ip \in DOMAIN nics[r] \ F : nics'[r][ip] = nics[r][ip]
    <3>1. DOMAIN nics = Making!Routers
      BY DEF TableInv
    <3>2. nics' = Making!Register(r, n, fit)
      BY <2>3
    <3>3. /\ DOMAIN nics' = Making!Routers /\ \A q \in Making!Routers \ {r} : nics'[q] = nics[q]
          /\ DOMAIN nics'[r] = Making!ToSet(fit) \cup DOMAIN nics[r]
          /\ \A ip \in Making!ToSet(fit) : nics'[r][ip] = n
          /\ \A ip \in DOMAIN nics[r] \ Making!ToSet(fit) : nics'[r][ip] = nics[r][ip]
      BY <3>1, <3>2, <1>RegisterIs
    <3> QED BY <2>1, <3>3
  <2>9. F # {} /\ n # "lan" /\ router'[n] = "none" =>
          staticIPs[n] # <<>> /\ Making!InSubnet(r, staticIPs[n][1])
    BY <2>2 DEF Joins
  <2>10. n # "lan" /\ router[n] = "none" /\ router'[n] = r /\ staticIPs[n] # <<>> =>
           Making!InSubnet(r, staticIPs[n][1])
    <3> SUFFICES ASSUME n # "lan", router[n] = "none", router'[n] = r, staticIPs[n] # <<>>
                 PROVE  Making!InSubnet(r, staticIPs[n][1])
      OBVIOUS
    <3>1. fit = ips /\ ips = staticIPs[n] /\ ips # <<>>
      BY <2>1 DEF Joins
    <3>2. 1 \in DOMAIN fit
      BY <3>1, <2>2, <1>ListIs
    <3>3. fit[1] \in Making!ToSet(fit)
      BY <3>2 DEF Making!ToSet
    <3> QED BY <3>1, <3>3, <2>1, <2>2
  <2>11. TableInv'
    <3>1. Listed(n, r, F)
      BY <2>2, <2>3, <2>6, <2>7, <2>8 DEF Listed
    <3>2. Attached(n, r, F)
      BY <2>9, <2>10 DEF Attached, Joins
    <3> QED BY <3>1, <3>2, <1>TableRegistered
  <2>12. \A ip \in Making!ToSet(addrs'[n]) : ip \in Making!ToSet(addrs[n]) \/ Making!InSubnet(r, ip)
    BY <2>2, <2>5, <2>6
  <2>13. \A q \in Making!Routers : \A ip \in DOMAIN nics'[q] : nics'[q][ip] = n \/
           (ip \in DOMAIN nics[q] /\ nics'[q][ip] = nics[q][ip])
    BY <2>8
  <2> QED BY <2>1, <2>3, <2>6, <2>11, <2>12, <2>13
(* The addresses that addNIC is to give a NIC. *)
<1>IPsForIs. ASSUME SetUpInv, NEW r \in Making!Routers, NEW n \in Making!NICs, Making!CountID(r, n)
             PROVE  /\ Making!IPsFor(r, n) \in Seq(Addresses)
                    /\ lastID' \in [Making!Routers -> 0..LastID]
                    /\ staticIPs[n] = <<>> => Making!Within(r, Making!IPsFor(r, n)) = Making!IPsFor(r, n)
                    /\ staticIPs[n] # <<>> => Making!IPsFor(r, n) = staticIPs[n]
  <2> USE <1>IPsForIs
  <2>1. staticIPs[n] \in Seq(Addresses) /\ lastID \in [Making!Routers -> 0..LastID] /\ LastID \in Nat
    BY SetUpAssumption DEF SetUpInv
  <2>2. CASE staticIPs[n] # <<>>
    BY <2>1, <2>2 DEF Making!IPsFor, Making!CountID
  <2>3. CASE staticIPs[n] = <<>>
    <3>1. PICK a : a = Making!AssignIPAddress(r)
      OBVIOUS
    <3>2. Making!IPsFor(r, n) = <<a>>
      BY <2>3, <3>1 DEF Making!IPsFor
    <3>3. a = <<r, lastID[r] + 1>>
      BY <3>1 DEF Making!AssignIPAddress
    <3>4. a \in Addresses /\ a[1] = r
      <4>1. lastID[r] + 1 \in Nat /\ r \in {"wan", "lan", "beyond"}
        BY <2>1, <1>CountedUp DEF Making!Routers
      <4> QED BY <3>3, <4>1 DEF Addresses
    <3>5. <<a>> \in Seq(Addresses) /\ \A i \in DOMAIN <<a>> : Making!InSubnet(r, <<a>>[i])
      BY <3>4, <1>OneIs DEF Making!InSubnet
    <3>6. Making!Within(r, <<a>>) = <<a>>
      BY <3>5, <1>WithinIs
    <3>7. lastID[r] < LastID /\ lastID' = [lastID EXCEPT ![r] = @ + 1]
      BY <2>3 DEF Making!CountID
    <3>8. lastID' \in [Making!Routers -> 0..LastID]
      <4>1. lastID[r] + 1 \in 0..LastID
        BY <2>1, <3>7, <1>CountedUp
      <4> QED BY <2>1, <3>7, <4>1
    <3> QED BY <2>3, <3>2, <3>5, <3>6, <3>8
  <2> QED BY <2>2, <2>3
(* Router.AddNet, whether it succeeds or fails half-way. *)
<1>TopologyAddNet. ASSUME TopologyInv, NEW r \in Making!Routers, NEW n \in Nets, Making!AddNet(r, n)
                   PROVE  TopologyInv'
  <2> USE <1>TopologyAddNet
  <2>1. n \in Making!NICs /\ n # "lan" /\ "lan" \in Making!NICs /\ "wan" \in Making!Routers /\ r # "none"
    BY SetUpAssumption DEF Making!NICs, Making!Routers
  <2>2. SetUpInv /\ TableInv /\ LanInv /\ Making!NATInPlace
    BY DEF TopologyInv
  <2>3. PICK ips : ips = Making!IPsFor(r, n)
    OBVIOUS
  <2>4. /\ router[n] = "none" /\ Making!CountID(r, n) /\ Making!AddNIC(r, n, ips)
        /\ router' = IF Making!Within(r, ips) = ips THEN [router EXCEPT ![n] = r] ELSE router
        /\ UNCHANGED <<staticIPs, localIPs, oneToOne, nat, children, failed, unlinked>>
    BY <2>3 DEF Making!AddNet, Making!config
  <2>5. /\ ips \in Seq(Addresses) /\ lastID' \in [Making!Routers -> 0..LastID]
        /\ staticIPs[n] = <<>> => Making!Within(r, ips) = ips
        /\ staticIPs[n] # <<>> => ips = staticIPs[n]
    BY <2>1, <2>2, <2>3, <2>4, <1>IPsForIs
  <2>6. router \in [Making!NICs -> Making!Routers \cup {"none"}]
    BY <2>2 DEF SetUpInv
  <2>7. /\ router' \in [Making!NICs -> Making!Routers \cup {"none"}]
        /\ \A m \in Making!NICs \ {n} : router'[m] = router[m]
        /\ router'[n] \in {r, "none"}
        /\ router'[n] = r => Making!Within(r, ips) = ips
        /\ router'[n] = "none" => Making!Within(r, ips) # ips
    BY <2>1, <2>4, <2>6
  <2>8. /\ TableInv' /\ addrs' \in [Making!NICs -> Seq(Addresses)]
        /\ addrs' = [addrs EXCEPT ![n] = addrs[n] \o Making!Within(r, ips)]
        /\ \A q \in Making!Routers : \A ip \in DOMAIN nics'[q] : nics'[q][ip] = n \/
             (ip \in DOMAIN nics[q] /\ nics'[q][ip] = nics[q][ip])
    <3>1. staticIPs' = staticIPs /\ unlinked' = unlinked
      BY <2>4
    <3>2. Joins(n, r, ips)
      BY <2>1, <2>4, <2>5, <2>7 DEF Joins
    <3>3. Making!AddNIC(r, n, ips) /\ ips \in Seq(Addresses) /\ n \in Making!NICs /\ SetUpInv /\ TableInv
      BY <2>1, <2>2, <2>4, <2>5
    <3> QED BY <3>1, <3>2, <3>3, <1>TableAddNIC
  <2>9. addrs'["lan"] = addrs["lan"] /\ router'["lan"] = router["lan"]
    BY <2>1, <2>2, <2>7, <2>8 DEF SetUpInv
  <2>10. SetUpInv'
    BY <2>2, <2>4, <2>5, <2>7, <2>8, <2>9 DEF SetUpInv
  <2>11. LanInv'
    BY <2>2, <2>4, <2>9 DEF LanInv, Making!InSubnet, Making!LocalOf, Making!NATError
  <2>12. Making!NATInPlace'
    BY <2>1, <2>2, <2>4, <2>8, <2>9 DEF Making!NATInPlace
  <2> QED BY <2>8, <2>10, <2>11, <2>12 DEF TopologyInv
(* Router.setRouter sets the parent and, unless newNAT refuses, the NAT. *)
<1>SetRouterLan. ASSUME SetUpInv, NEW list, list = addrs'["lan"], UNCHANGED <<localIPs, oneToOne>>,
                        \A ip \in Making!ToSet(list) : Making!InSubnet("wan", ip), Making!SetRouter(list)
                 PROVE  LanInv' /\ Making!NATInPlace' /\ failed' \in BOOLEAN
  <2> USE <1>SetRouterLan
  <2>1. /\ nat' = IF Making!NATError(list) THEN <<>>
                  ELSE <<[mapped |-> list, local |-> Making!LocalOf(list)]>>
        /\ failed' = (failed \/ Making!NATError(list))
    BY DEF Making!SetRouter, Making!NewNAT
  <2>2. (Making!NATError(addrs["lan"]))' <=> Making!NATError(list)
    BY DEF Making!NATError
  <2>3. (Making!LocalOf(addrs["lan"]))' = Making!LocalOf(list)
    BY DEF Making!LocalOf
  <2>4. LanInv'
    BY <2>1, <2>2, <2>3 DEF LanInv, Making!InSubnet
  <2>5. nat' # <<>> \/ failed'
    <3>1. CASE Making!NATError(list)
      BY <3>1, <2>1
    <3>2. CASE ~Making!NATError(list)
      <4>1. nat' = <<[mapped |-> list, local |-> Making!LocalOf(list)]>>
        BY <3>2, <2>1
      <4> QED BY <4>1
    <3> QED BY <3>1, <3>2
  <2>6. failed' \in BOOLEAN
    BY <2>1 DEF SetUpInv
  <2> QED BY <2>4, <2>5, <2>6 DEF Making!NATInPlace
(* AddRouter, or AddNet with a router as the NIC: addNIC may take some of  *)
(* the addresses and fail, and so may setRouter.                           *)
<1>TopologyAddRouter. ASSUME TopologyInv, NEW child \in BOOLEAN, Making!AddRouter(child)
                      PROVE  TopologyInv'
  <2> USE <1>TopologyAddRouter
  <2>1. "lan" \in Making!NICs /\ "wan" \in Making!Routers
    BY DEF Making!NICs, Making!Routers
  <2>2. SetUpInv /\ TableInv /\ LanInv /\ Making!NATInPlace
    BY DEF TopologyInv
  <2>3. PICK ips : ips = Making!IPsFor("wan", "lan")
    OBVIOUS
  <2>4. /\ nat = <<>> /\ Making!CountID("wan", "lan") /\ Making!AddNIC("wan", "lan", ips)
        /\ IF Making!Within("wan", ips) = ips THEN Making!SetRouter(addrs'["lan"])
           ELSE failed' = TRUE /\ UNCHANGED <<router, nat>>
        /\ UNCHANGED <<staticIPs, localIPs, oneToOne, unlinked>>
        /\ children' \in {children, Append(children, "lan")}
    BY <2>3 DEF Making!AddRouter, Making!config
  <2>5. ips \in Seq(Addresses) /\ lastID' \in [Making!Routers -> 0..LastID]
    BY <2>1, <2>2, <2>3, <2>4, <1>IPsForIs
  <2>6. router \in [Making!NICs -> Making!Routers \cup {"none"}] /\ router["lan"] \in {"wan", "none"}
    BY <2>1, <2>2 DEF SetUpInv, Making!Routers
  <2>7. router' = router \/ router' = [router EXCEPT !["lan"] = "wan"]
    BY <2>4 DEF Making!SetRouter
  <2>8. /\ router' \in [Making!NICs -> Making!Routers \cup {"none"}] /\ router'["lan"] \in {"wan", "none"}
        /\ \A m \in Making!NICs \ {"lan"} : router'[m] = router[m]
        /\ router["lan"] = "none" \/ router'["lan"] = router["lan"]
    <3>1. CASE router' = router
      BY <2>6, <3>1
    <3>2. CASE router' = [router EXCEPT !["lan"] = "wan"]
      <4>1. router' \in [Making!NICs -> Making!Routers \cup {"none"}] /\ router'["lan"] = "wan"
        BY <2>1, <2>6, <3>2
      <4>2. \A m \in Making!NICs \ {"lan"} : router'[m] = router[m]
        BY <2>6, <3>2
      <4> QED BY <2>6, <4>1, <4>2
    <3> QED BY <2>7, <3>1, <3>2
  <2>9. /\ TableInv' /\ addrs' \in [Making!NICs -> Seq(Addresses)]
        /\ \A ip \in Making!ToSet(addrs'["lan"]) :
             ip \in Making!ToSet(addrs["lan"]) \/ Making!InSubnet("wan", ip)
    <3>1. staticIPs' = staticIPs /\ unlinked' = unlinked
      BY <2>4
    <3>2. Joins("lan", "wan", ips)
      BY <2>8 DEF Joins
    <3>3. Making!AddNIC("wan", "lan", ips) /\ ips \in Seq(Addresses) /\ SetUpInv /\ TableInv
      BY <2>2, <2>4, <2>5
    <3> QED BY <3>1, <3>2, <3>3, <2>1, <1>TableAddNIC
  <2>10. \A ip \in Making!ToSet(addrs'["lan"]) : Making!InSubnet("wan", ip)
    BY <2>2, <2>9 DEF LanInv
  <2>11. LanInv' /\ Making!NATInPlace' /\ failed' \in BOOLEAN
    <3>1. CASE Making!Within("wan", ips) = ips
      <4>1. Making!SetRouter(addrs'["lan"]) /\ UNCHANGED <<localIPs, oneToOne>>
        BY <3>1, <2>4
      <4> QED BY <4>1, <2>2, <2>10, <1>SetRouterLan
    <3>2. CASE Making!Within("wan", ips) # ips
      <4>1. failed' = TRUE /\ nat' = <<>>
        BY <3>2, <2>4
      <4> QED BY <4>1, <2>10 DEF LanInv, Making!InSubnet, Making!NATInPlace
    <3> QED BY <3>1, <3>2
  <2>12. children' \in Seq({"lan"})
    <3>1. children \in Seq({"lan"})
      BY <2>2 DEF SetUpInv
    <3>2. Append(children, "lan") \in Seq({"lan"})
      BY <3>1, <1>OneLonger
    <3> QED BY <3>1, <3>2, <2>4
  <2>13. router'["lan"] # "lan"
    BY <2>8
  <2>14. SetUpInv'
    BY <2>2, <2>4, <2>5, <2>8, <2>9, <2>11, <2>12, <2>13 DEF SetUpInv
  <2> QED BY <2>9, <2>11, <2>14 DEF TopologyInv
(* AddChildRouter sets the parent of a router that may have addresses or   *)
(* not; the tables stay.                                                   *)
<1>TopologyAddChildRouter. ASSUME TopologyInv, Making!AddChildRouter
                           PROVE  TopologyInv'
  <2> USE <1>TopologyAddChildRouter
  <2>1. "lan" \in Making!NICs /\ "wan" \in Making!Routers
    BY DEF Making!NICs, Making!Routers
  <2>2. SetUpInv /\ TableInv /\ LanInv /\ Making!NATInPlace
    BY DEF TopologyInv
  <2>3. /\ Making!SetRouter(addrs["lan"]) /\ children' \in {children, Append(children, "lan")}
        /\ UNCHANGED <<staticIPs, localIPs, oneToOne, addrs, nics, lastID, unlinked, contested>>
    BY DEF Making!AddChildRouter, Making!config
  <2>4. router \in [Making!NICs -> Making!Routers \cup {"none"}] /\ router["lan"] \in {"wan", "none"}
    BY <2>1, <2>2 DEF SetUpInv, Making!Routers
  <2>5. /\ router' \in [Making!NICs -> Making!Routers \cup {"none"}] /\ router'["lan"] = "wan"
        /\ \A m \in Making!NICs \ {"lan"} : router'[m] = router[m]
    BY <2>1, <2>3, <2>4 DEF Making!SetRouter
  <2>6. TableInv'
    <3>1. Attached("lan", "wan", {})
      BY <2>4, <2>5 DEF Attached
    <3>2. contested' = Making!Claim("lan", {})
      BY <2>3 DEF Making!Claim
    <3>3. \A ip : Making!HasAddr("lan", ip)' <=> Making!HasAddr("lan", ip)
      BY <2>3 DEF Making!HasAddr
    <3>4. DOMAIN nics = Making!Routers /\ DOMAIN nics["wan"] = {} \cup DOMAIN nics["wan"]
      BY <2>2 DEF TableInv
    <3>5. Listed("lan", "wan", {})
      BY <2>3, <3>2, <3>3, <3>4 DEF Listed
    <3> QED BY <2>1, <2>2, <3>1, <3>5, <1>TableRegistered
  <2>7. LanInv' /\ Making!NATInPlace' /\ failed' \in BOOLEAN
    <3>1. \A ip \in Making!ToSet(addrs["lan"]) : Making!InSubnet("wan", ip)
      BY <2>2 DEF LanInv
    <3>2. addrs["lan"] = addrs'["lan"] /\ UNCHANGED <<localIPs, oneToOne>>
      BY <2>3
    <3> QED BY <3>1, <3>2, <2>2, <2>3, <1>SetRouterLan
  <2>8. children' \in Seq({"lan"}) /\ router'["lan"] # "lan"
    <3>1. children \in Seq({"lan"})
      BY <2>2 DEF SetUpInv
    <3>2. Append(children, "lan") \in Seq({"lan"})
      BY <3>1, <1>OneLonger
    <3>3. router'["lan"] # "lan"
      BY <2>5
    <3> QED BY <3>1, <3>2, <3>3, <2>3
  <2>9. SetUpInv'
    BY <2>2, <2>3, <2>5, <2>7, <2>8 DEF SetUpInv
  <2> QED BY <2>6, <2>7, <2>9 DEF TopologyInv
(* Net.AddAddress, before the Net has a router and after. *)
<1>TopologyAddAddress. ASSUME TopologyInv, NEW n \in Nets, NEW ip \in Extra, Making!AddAddress(n, ip)
                       PROVE  TopologyInv'
  <2> USE <1>TopologyAddAddress
  <2>1. n \in Making!NICs /\ n # "lan" /\ "lan" \in Making!NICs /\ ip \in Addresses /\ "wan" \in Making!Routers
    BY SetUpAssumption DEF Making!NICs, Making!Routers
  <2>2. SetUpInv /\ TableInv /\ LanInv /\ Making!NATInPlace
    BY DEF TopologyInv
  <2>3. /\ addrs' = [addrs EXCEPT ![n] = Append(addrs[n], ip)]
        /\ nics' = IF router[n] # "none" /\ Making!InSubnet(router[n], ip)
                   THEN Making!Register(router[n], n, <<ip>>) ELSE nics
        /\ unlinked' = IF router[n] = "none" THEN unlinked \cup {<<n, ip>>} ELSE unlinked
        /\ contested' = Making!Claim(n, {ip})
        /\ UNCHANGED <<staticIPs, localIPs, oneToOne, router, lastID, nat, children, failed>>
    BY DEF Making!AddAddress, Making!config
  <2>4. addrs \in [Making!NICs -> Seq(Addresses)] /\ addrs[n] \in Seq(Addresses) /\ DOMAIN nics = Making!Routers
    BY <2>1, <2>2 DEF SetUpInv, TableInv
  <2>5. <<ip>> \in Seq(Addresses) /\ Making!ToSet(<<ip>>) = {ip} /\ Append(addrs[n], ip) = addrs[n] \o <<ip>>
    <3>1. ip \in Addresses
      BY <2>1
    <3>2. <<ip>> \in Seq(Addresses) /\ DOMAIN <<ip>> = {1} /\ <<ip>>[1] = ip
      BY <3>1, <1>OneIs
    <3>3. Append(addrs[n], ip) = addrs[n] \o <<ip>>
      BY <2>4, <3>1, <1>OneLonger
    <3> QED BY <3>2, <3>3 DEF Making!ToSet
  <2>6. /\ Append(addrs[n], ip) \in Seq(Addresses)
        /\ Making!ToSet(Append(addrs[n], ip)) = Making!ToSet(addrs[n]) \cup {ip}
    BY <2>4, <2>5, <1>MembersAdded
  <2>7. /\ addrs' \in [Making!NICs -> Seq(Addresses)] /\ addrs'[n] = Append(addrs[n], ip)
        /\ \A m \in Making!NICs \ {n} : addrs'[m] = addrs[m]
    BY <2>1, <2>3, <2>4, <2>6
  <2>8. \A i : Making!HasAddr(n, i)' <=> Making!HasAddr(n, i) \/ i \in {ip}
    BY <2>6, <2>7 DEF Making!HasAddr
  <2>9. TableInv' /\ \A q \in Making!Routers : \A i \in DOMAIN nics'[q] : nics'[q][i] = n \/
          (i \in DOMAIN nics[q] /\ nics'[q][i] = nics[q][i])
    <3>1. CASE router[n] # "none" /\ Making!InSubnet(router[n], ip)
      <4>1. PICK r \in Making!Routers : r = router[n]
        BY <2>1, <2>2, <3>1 DEF SetUpInv
      <4>2. nics' = Making!Register(r, n, <<ip>>) /\ r # "none" /\ Making!InSubnet(r, ip)
        BY <2>3, <3>1, <4>1
      <4>3. /\ DOMAIN nics' = Making!Routers /\ \A q \in Making!Routers \ {r} : nics'[q] = nics[q]
            /\ DOMAIN nics'[r] = Making!ToSet(<<ip>>) \cup DOMAIN nics[r]
            /\ \A i \in Making!ToSet(<<ip>>) : nics'[r][i] = n
            /\ \A i \in DOMAIN nics[r] \ Making!ToSet(<<ip>>) : nics'[r][i] = nics[r][i]
        BY <2>4, <4>2, <1>RegisterIs
      <4>4. Listed(n, r, {ip})
        BY <2>3, <2>5, <2>7, <2>8, <4>1, <4>2, <4>3 DEF Listed
      <4>5. Attached(n, r, {ip})
        BY <2>1, <2>3, <4>1, <4>2 DEF Attached
      <4>6. TableInv'
        BY <2>1, <2>2, <4>4, <4>5, <1>TableRegistered
      <4> QED BY <2>5, <4>3, <4>6
    <3>2. CASE ~(router[n] # "none" /\ Making!InSubnet(router[n], ip))
      <4>1. nics' = nics
        BY <2>3, <3>2
      <4>2. \A m \in Making!NICs : \A i : Making!HasAddr(m, i) => Making!HasAddr(m, i)'
        BY <2>7, <2>8 DEF Making!HasAddr
      <4>3. unlinked \subseteq unlinked'
        BY <2>3
      <4>4. \A q \in Making!Routers : \A i \in DOMAIN nics[q] : EntryIs(q, i)'
        <5> SUFFICES ASSUME NEW q \in Making!Routers, NEW i \in DOMAIN nics[q] PROVE EntryIs(q, i)'
          OBVIOUS
        <5>1. EntryIs(q, i)
          BY <2>2 DEF TableInv
        <5>2. BelongsTo(nics[q][i], q)'
          BY <5>1, <2>3, <4>1 DEF EntryIs, BelongsTo, Making!InSubnet
        <5> QED BY <5>1, <5>2, <4>1, <4>2, <4>3 DEF EntryIs, Making!InSubnet
      <4>5. \A m \in Making!NICs, q \in Making!Routers : \A i \in Making!ToSet(addrs'[m]) : RoutedTo(m, q, i)'
        <5> SUFFICES ASSUME NEW m \in Making!NICs, NEW q \in Making!Routers,
                            NEW i \in Making!ToSet(addrs'[m])
                     PROVE  RoutedTo(m, q, i)'
          OBVIOUS
        <5> SUFFICES ASSUME router'[m] \in {q, "none"}, Making!InSubnet(q, i),
                            <<m, i>> \notin unlinked', i \notin contested'
                     PROVE  i \in DOMAIN nics'[q] /\ nics'[q][i] = m
          BY DEF RoutedTo, Making!InSubnet
        <5>1. ~(m = n /\ i = ip)
          <6> SUFFICES ASSUME m = n, i = ip PROVE FALSE
            OBVIOUS
          <6>1. router[n] # "none"
            BY <2>3
          <6>2. router[n] = q
            BY <2>3, <6>1
          <6> QED BY <3>2, <6>1, <6>2
        <5>2. i \in Making!ToSet(addrs[m])
          BY <5>1, <2>6, <2>7
        <5>3. RoutedTo(m, q, i)
          BY <5>2, <2>2 DEF TableInv
        <5>4. i \notin contested
          BY <2>3 DEF Making!Claim
        <5> QED BY <5>3, <5>4, <2>3, <4>1, <4>3 DEF RoutedTo
      <4> QED BY <2>4, <4>1, <4>4, <4>5 DEF TableInv
    <3> QED BY <3>1, <3>2
  <2>10. addrs'["lan"] = addrs["lan"]
    BY <2>1, <2>7
  <2>11. unlinked' \subseteq Nets \X Extra
    <3>1. unlinked \subseteq Nets \X Extra
      BY <2>2 DEF SetUpInv
    <3>2. <<n, ip>> \in Nets \X Extra
      OBVIOUS
    <3>3. unlinked' = unlinked \/ unlinked' = unlinked \cup {<<n, ip>>}
      BY <2>3
    <3> QED BY <3>1, <3>2, <3>3
  <2>12. SetUpInv'
    BY <2>2, <2>3, <2>7, <2>11 DEF SetUpInv
  <2>13. LanInv'
    BY <2>2, <2>3, <2>10 DEF LanInv, Making!InSubnet, Making!LocalOf, Making!NATError
  <2>14. Making!NATInPlace'
    BY <2>1, <2>2, <2>3, <2>9 DEF Making!NATInPlace
  <2> QED BY <2>9, <2>12, <2>13, <2>14 DEF TopologyInv
(* Net.RemoveAddress takes one such address from the interface, and the    *)
(* entry from the table of the router.                                     *)
<1>TopologyRemoveAddress. ASSUME TopologyInv, NEW n \in Nets, NEW ip \in Extra, Making!RemoveAddress(n, ip)
                          PROVE  TopologyInv'
  <2> USE <1>TopologyRemoveAddress
  <2>1. n \in Making!NICs /\ n # "lan" /\ "lan" \in Making!NICs /\ "wan" \in Making!Routers
    BY SetUpAssumption DEF Making!NICs, Making!Routers
  <2>2. SetUpInv /\ TableInv /\ LanInv /\ Making!NATInPlace
    BY DEF TopologyInv
  <2>3. PICK t : t = Making!Without(addrs[n], Making!FirstAt(addrs[n], ip))
    OBVIOUS
  <2>4. /\ addrs' = IF Making!HasAddr(n, ip) THEN [addrs EXCEPT ![n] = t] ELSE addrs
        /\ nics' = Making!Unregister(n, ip)
        /\ unlinked' = IF router[n] = "none" THEN unlinked \cup {<<n, ip>>} ELSE unlinked
        /\ contested' = contested \cup {i \in {ip} : \E m \in Making!NICs : i \in Making!ToSet(addrs'[m])}
        /\ UNCHANGED <<staticIPs, localIPs, oneToOne, router, lastID, nat, children, failed>>
    BY <2>3 DEF Making!RemoveAddress, Making!config
  <2>5. addrs \in [Making!NICs -> Seq(Addresses)] /\ addrs[n] \in Seq(Addresses) /\ DOMAIN nics = Making!Routers
    BY <2>1, <2>2 DEF SetUpInv, TableInv
  <2>6. /\ addrs' \in [Making!NICs -> Seq(Addresses)]
        /\ \A m \in Making!NICs \ {n} : addrs'[m] = addrs[m]
        /\ Making!ToSet(addrs'[n]) \subseteq Making!ToSet(addrs[n])
        /\ Making!ToSet(addrs[n]) \subseteq Making!ToSet(addrs'[n]) \cup {ip}
    <3>1. CASE ~Making!HasAddr(n, ip)
      BY <2>4, <2>5, <3>1
    <3>2. CASE Making!HasAddr(n, ip)
      <4>1. ip \in Making!ToSet(addrs[n])
        BY <3>2 DEF Making!HasAddr
      <4>2. /\ t \in Seq(Addresses) /\ Making!ToSet(t) \subseteq Making!ToSet(addrs[n])
            /\ Making!ToSet(addrs[n]) \subseteq Making!ToSet(t) \cup {ip}
        <5>1. PICK s : s = addrs[n]
          OBVIOUS
        <5>2. s \in Seq(Addresses) /\ ip \in Making!ToSet(s)
          BY <2>5, <4>1, <5>1
        <5>3. t = Making!Without(s, Making!FirstAt(s, ip))
          BY <2>3, <5>1
        <5>4. /\ t \in Seq(Addresses) /\ Making!ToSet(t) \subseteq Making!ToSet(s)
              /\ Making!ToSet(s) \subseteq Making!ToSet(t) \cup {ip}
          BY <5>2, <5>3, <1>MembersRemoved
        <5> QED BY <5>1, <5>4
      <4>3. addrs' = [addrs EXCEPT ![n] = t]
        BY <2>4, <3>2
      <4>4. /\ addrs' \in [Making!NICs -> Seq(Addresses)] /\ addrs'[n] = t
            /\ \A m \in Making!NICs \ {n} : addrs'[m] = addrs[m]
        BY <2>1, <2>5, <4>2, <4>3
      <4> QED BY <4>2, <4>4
    <3> QED BY <3>1, <3>2
  <2>7. \A m \in Making!NICs : \A i :
          /\ i \in Making!ToSet(addrs'[m]) => i \in Making!ToSet(addrs[m])
          /\ i \in Making!ToSet(addrs[m]) => i \in Making!ToSet(addrs'[m]) \/ (m = n /\ i = ip)
    <3> SUFFICES ASSUME NEW m \in Making!NICs, NEW i
                 PROVE  /\ i \in Making!ToSet(addrs'[m]) => i \in Making!ToSet(addrs[m])
                        /\ i \in Making!ToSet(addrs[m]) => i \in Making!ToSet(addrs'[m]) \/ (m = n /\ i = ip)
      OBVIOUS
    <3>1. CASE m = n
      BY <2>6, <3>1
    <3>2. CASE m # n
      <4>1. addrs'[m] = addrs[m]
        BY <2>6, <3>2
      <4> QED BY <4>1
    <3> QED BY <3>1, <3>2
  <2>8. /\ DOMAIN nics' = Making!Routers
        /\ \A q \in Making!Routers : /\ DOMAIN nics[q] \ {ip} \subseteq DOMAIN nics'[q]
                                     /\ DOMAIN nics'[q] \subseteq DOMAIN nics[q]
                                     /\ \A i \in DOMAIN nics'[q] : nics'[q][i] = nics[q][i]
        /\ router[n] # "none" => ip \notin DOMAIN nics'[router[n]]
    <3>1. CASE router[n] = "none"
      BY <2>4, <2>5, <3>1 DEF Making!Unregister
    <3>2. CASE router[n] # "none"
      <4>1. PICK r \in Making!Routers : r = router[n]
        BY <2>1, <2>2, <3>2 DEF SetUpInv
      <4>2. PICK u : u = [i \in DOMAIN nics[r] \ {ip} |-> nics[r][i]]
        OBVIOUS
      <4>3. nics' = [nics EXCEPT ![r] = u]
        BY <2>4, <3>2, <4>1, <4>2 DEF Making!Unregister
      <4>4. DOMAIN u = DOMAIN nics[r] \ {ip} /\ \A i \in DOMAIN u : u[i] = nics[r][i]
        BY <4>2
      <4>5. DOMAIN nics' = Making!Routers /\ nics'[r] = u /\ \A q \in Making!Routers \ {r} : nics'[q] = nics[q]
        BY <2>5, <4>3
      <4> QED BY <4>1, <4>4, <4>5
    <3> QED BY <3>1, <3>2
  <2>9. \A q \in Making!Routers : \A i \in DOMAIN nics'[q] : EntryIs(q, i)'
    <3> SUFFICES ASSUME NEW q \in Making!Routers, NEW i \in DOMAIN nics'[q] PROVE EntryIs(q, i)'
      OBVIOUS
    <3>1. PICK m : m = nics[q][i] /\ m = nics'[q][i]
      BY <2>8
    <3>2. EntryIs(q, i)
      BY <2>2, <2>8 DEF TableInv
    <3>3. m \in Making!NICs /\ Making!InSubnet(q, i) /\ BelongsTo(m, q) /\ (Making!HasAddr(m, i) \/ <<m, i>> \in unlinked)
      BY <3>1, <3>2 DEF EntryIs
    <3>4. BelongsTo(m, q)'
      BY <2>4, <3>3 DEF BelongsTo, Making!InSubnet
    <3>5. unlinked \subseteq unlinked'
      BY <2>4
    <3>6. m = n /\ i = ip => <<m, i>> \in unlinked'
      <4> SUFFICES ASSUME m = n, i = ip PROVE <<m, i>> \in unlinked'
        OBVIOUS
      <4>1. CASE router[n] = "none"
        BY <2>4, <4>1
      <4>2. CASE router[n] # "none"
        BY <2>8, <3>3, <4>2 DEF BelongsTo
      <4> QED BY <4>1, <4>2
    <3>7. Making!HasAddr(m, i)' \/ <<m, i>> \in unlinked'
      BY <2>7, <3>3, <3>5, <3>6 DEF Making!HasAddr
    <3> QED BY <3>1, <3>3, <3>4, <3>7 DEF EntryIs, Making!InSubnet
  <2>10. \A m \in Making!NICs, q \in Making!Routers : \A i \in Making!ToSet(addrs'[m]) : RoutedTo(m, q, i)'
    <3> SUFFICES ASSUME NEW m \in Making!NICs, NEW q \in Making!Routers,
                        NEW i \in Making!ToSet(addrs'[m])
                 PROVE  RoutedTo(m, q, i)'
      OBVIOUS
    <3> SUFFICES ASSUME router'[m] \in {q, "none"}, Making!InSubnet(q, i),
                        <<m, i>> \notin unlinked', i \notin contested'
                 PROVE  i \in DOMAIN nics'[q] /\ nics'[q][i] = m
      BY DEF RoutedTo, Making!InSubnet
    <3>1. i \notin contested /\ i # ip
      BY <2>4
    <3>2. RoutedTo(m, q, i)
      BY <2>2, <2>7 DEF TableInv
    <3>3. router[m] \in {q, "none"} /\ <<m, i>> \notin unlinked
      BY <2>4
    <3>4. i \in DOMAIN nics[q] /\ nics[q][i] = m
      BY <3>1, <3>2, <3>3 DEF RoutedTo
    <3> QED BY <3>1, <3>4, <2>8
  <2>11. TableInv'
    BY <2>8, <2>9, <2>10 DEF TableInv
  <2>12. unlinked' \subseteq Nets \X Extra
    <3>1. unlinked \subseteq Nets \X Extra
      BY <2>2 DEF SetUpInv
    <3>2. <<n, ip>> \in Nets \X Extra
      OBVIOUS
    <3>3. unlinked' = unlinked \/ unlinked' = unlinked \cup {<<n, ip>>}
      BY <2>4
    <3> QED BY <3>1, <3>2, <3>3
  <2>13. SetUpInv'
    BY <2>2, <2>4, <2>6, <2>12 DEF SetUpInv
  <2>14. LanInv'
    <3>1. addrs'["lan"] = addrs["lan"]
      BY <2>1, <2>6
    <3> QED BY <2>2, <2>4, <3>1 DEF LanInv, Making!InSubnet, Making!LocalOf, Making!NATError
  <2>15. Making!NATInPlace'
    BY <2>1, <2>2, <2>4, <2>8 DEF Making!NATInPlace
  <2> QED BY <2>11, <2>13, <2>14, <2>15 DEF TopologyInv
(* NewNet and NewRouter make them without addresses and entries. *)
<1>TopologyInit. ASSUME Making!Init
                 PROVE  TopologyInv
  <2> USE <1>TopologyInit
  <2>1. PICK c \in Configs : staticIPs = c.staticIPs /\ oneToOne = c.oneToOne
    BY DEF Making!Init
  <2>2. /\ addrs = [n \in Making!NICs |-> <<>>] /\ router = [n \in Making!NICs |-> "none"]
        /\ nics = [r \in Making!Routers |-> <<>>] /\ lastID = [r \in Making!Routers |-> 0]
        /\ nat = <<>> /\ children = <<>> /\ failed = FALSE /\ unlinked = {} /\ contested = {}
    BY DEF Making!Init
  <2>3. /\ "lan" \in Making!NICs /\ "wan" \in Making!Routers
        /\ \A n \in Making!NICs : staticIPs[n] \in Seq(Addresses)
        /\ oneToOne \in BOOLEAN
    BY <2>1, SetUpAssumption DEF Making!NICs, Making!Routers
  <2>4. \A n \in Making!NICs : addrs[n] = <<>> /\ router[n] = "none" /\ Making!ToSet(addrs[n]) = {}
    BY <2>2, <1>NoneIs DEF Making!ToSet
  <2>5. DOMAIN nics = Making!Routers /\ \A r \in Making!Routers : DOMAIN nics[r] = {}
    BY <2>2, <1>NoneIs
  <2>6. addrs \in [Making!NICs -> Seq(Addresses)] /\ lastID \in [Making!Routers -> 0..LastID]
    <3>1. 0 \in 0..LastID
      BY SetUpAssumption, SMT
    <3> QED BY <2>2, <3>1, <1>NoneIs
  <2>7. router \in [Making!NICs -> Making!Routers \cup {"none"}] /\ children \in Seq({"lan"})
        /\ unlinked \subseteq Nets \X Extra
    BY <2>2, <1>NoneIs
  <2>8. SetUpInv
    <3>1. router["lan"] # "lan"
      BY <2>3, <2>4
    <3> QED BY <2>2, <2>3, <2>6, <2>7, <3>1 DEF SetUpInv
  <2>9. TableInv
    BY <2>4, <2>5 DEF TableInv
  <2>10. LanInv
    BY <2>2, <2>3, <2>4 DEF LanInv
  <2>11. Making!NATInPlace
    BY <2>3, <2>4, <2>5 DEF Making!NATInPlace
  <2> QED BY <2>8, <2>9, <2>10, <2>11 DEF TopologyInv
(* Each set-up call. *)
<1>TopologyStep. ASSUME TopologyInv, Making!Next
                 PROVE  TopologyInv'
  <2> USE <1>TopologyStep
  <2>1. \/ \E n \in Nets, r \in Making!Routers : Making!AddNet(r, n)
        \/ \E child \in BOOLEAN : Making!AddRouter(child)
        \/ Making!AddChildRouter
        \/ \E n \in Nets, ip \in Extra : Making!AddAddress(n, ip) \/ Making!RemoveAddress(n, ip)
    BY DEF Making!Next
  <2>2. CASE \E n \in Nets, r \in Making!Routers : Making!AddNet(r, n)
    BY <2>2, <1>TopologyAddNet
  <2>3. CASE \E child \in BOOLEAN : Making!AddRouter(child)
    BY <2>3, <1>TopologyAddRouter
  <2>4. CASE Making!AddChildRouter
    BY <2>4, <1>TopologyAddChildRouter
  <2>5. CASE \E n \in Nets, ip \in Extra : Making!AddAddress(n, ip) \/ Making!RemoveAddress(n, ip)
    BY <2>5, <1>TopologyAddAddress, <1>TopologyRemoveAddress
  <2> QED BY <2>1, <2>2, <2>3, <2>4, <2>5
(* A chunk that translateOutbound lets out has an address of "lan" as its  *)
(* source, and translateInbound undoes that for the reply.                 *)
<1>ThereAndBack. ASSUME TopologyInv, nat # <<>>, NEW src, NEW mapped \in Making!TranslateOutbound(src)
                 PROVE  mapped \in Making!ToSet(addrs["lan"]) /\ Making!TranslateInbound(mapped, src) = {src}
  <2> USE <1>ThereAndBack
  <2>1. PICK list, local : list = addrs["lan"] /\ local = Making!LocalOf(list)
    OBVIOUS
  <2>2. nat = <<[mapped |-> list, local |-> local]>> /\ ~Making!NATError(list)
    BY <2>1 DEF TopologyInv, LanInv
  <2>3. nat[1].mapped = list /\ nat[1].local = local
    BY <2>2
  <2>4. list \in Seq(Addresses) /\ list # <<>> /\ oneToOne \in BOOLEAN
    <3>1. "lan" \in Making!NICs
      BY DEF Making!NICs
    <3> QED BY <2>1, <2>2, <3>1 DEF TopologyInv, SetUpInv, Making!NATError
  <2>5. DOMAIN list = 1..Len(list) /\ 1 \in DOMAIN list
    BY <2>4, <1>ListIs
  <2>6. CASE ~oneToOne
    <3>1. mapped = list[1]
      BY <2>3, <2>6 DEF Making!TranslateOutbound
    <3>2. Making!TranslateInbound(mapped, src) = {src}
      BY <2>6 DEF Making!TranslateInbound
    <3> QED BY <2>1, <2>5, <3>1, <3>2 DEF Making!ToSet
  <2>7. CASE oneToOne
    <3>1. local = [i \in DOMAIN list |-> localIPs[list[i]]]
      BY <2>1, <2>7 DEF Making!LocalOf
    <3>2. src \in Making!ToSet(local) /\ mapped = list[Making!FirstAt(local, src)]
      BY <2>3, <2>7 DEF Making!TranslateOutbound, Making!Paired
    <3>3. PICK i : i = Making!FirstAt(local, src)
      OBVIOUS
    <3>4. i \in DOMAIN local /\ local[i] = src
      <4>1. DOMAIN local = 1..Len(list) /\ Len(list) \in Nat
        BY <2>4, <3>1, <1>ListIs
      <4> QED BY <3>2, <3>3, <4>1, <1>FirstFound
    <3>5. i \in DOMAIN list /\ mapped = list[i] /\ localIPs[mapped] = src
      BY <3>1, <3>2, <3>3, <3>4
    <3>6. mapped \in Making!ToSet(list)
      BY <3>5 DEF Making!ToSet
    <3>7. PICK j : j = Making!FirstAt(list, mapped)
      OBVIOUS
    <3>8. j \in DOMAIN list /\ list[j] = mapped
      BY <2>4, <3>6, <3>7, <1>FirstIs
    <3>9. local[j] = src
      BY <3>1, <3>5, <3>8
    <3>10. Making!TranslateInbound(mapped, src) = {local[j]}
      BY <2>3, <2>7, <3>6, <3>7 DEF Making!TranslateInbound, Making!Paired
    <3> QED BY <2>1, <3>6, <3>9, <3>10
  <2> QED BY <2>4, <2>6, <2>7
(* What the invariant says of the network: Reachable. *)
<1>TopologyReachable. ASSUME TopologyInv
                      PROVE  Making!TypeOK /\ Making!TablesAgree /\ Making!ReplyReturns
  <2> USE <1>TopologyReachable
  <2>1. SetUpInv /\ TableInv /\ LanInv
    BY DEF TopologyInv
  <2>2. /\ "lan" \in Making!NICs /\ "wan" \in Making!Routers /\ "lan" \in Making!Routers
        /\ Nets \subseteq Making!NICs /\ "lan" \notin Nets
    BY SetUpAssumption DEF Making!NICs, Making!Routers
  <2>3. Making!TablesAgree
    <3>1. \A r \in Making!Routers : \A ip \in DOMAIN nics[r] :
            Making!HasAddr(nics[r][ip], ip) \/ <<nics[r][ip], ip>> \in unlinked
      BY <2>1 DEF TableInv, EntryIs
    <3>2. \A r \in Making!Routers, n \in Making!NICs : \A ip \in Making!ToSet(addrs[n]) :
            router[n] = r /\ Making!InSubnet(r, ip) /\ <<n, ip>> \notin unlinked /\ ip \notin contested =>
              Making!Lookup(r, ip) = {n}
      BY <2>1 DEF TableInv, RoutedTo, Making!Lookup
    <3> QED BY <3>1, <3>2 DEF Making!TablesAgree
  <2>4. Making!ReplyReturns
    <3> SUFFICES ASSUME NEW n \in Nets, router[n] = "lan", nat # <<>>,
                        NEW src \in Making!DetermineSourceIP(n), NEW mapped \in Making!TranslateOutbound(src),
                        {src, mapped} \cap contested = {}, <<n, src>> \notin unlinked,
                        Making!InSubnet("lan", src)
                 PROVE  Making!ReplyTo(mapped, src) = {n}
      BY DEF Making!ReplyReturns
    <3>1. mapped \in Making!ToSet(addrs["lan"]) /\ Making!TranslateInbound(mapped, src) = {src}
      BY <1>ThereAndBack
    <3>2. Making!InSubnet("wan", mapped) /\ <<"lan", mapped>> \notin unlinked
      BY <2>1, <2>2, <3>1 DEF LanInv, SetUpInv
    <3>3. router["lan"] \in {"wan", "none"}
      BY <2>1, <2>2 DEF SetUpInv, Making!Routers
    <3>4. Making!Lookup("wan", mapped) = {"lan"}
      <4>1. RoutedTo("lan", "wan", mapped)
        BY <2>1, <2>2, <3>1 DEF TableInv
      <4>2. mapped \in DOMAIN nics["wan"] /\ nics["wan"][mapped] = "lan"
        BY <4>1, <3>2, <3>3 DEF RoutedTo
      <4> QED BY <4>2 DEF Making!Lookup
    <3>5. src \in Making!ToSet(addrs[n])
      <4>1. addrs[n] \in Seq(Addresses) /\ addrs[n] # <<>> /\ src = addrs[n][1]
        BY <2>1, <2>2 DEF SetUpInv, Making!DetermineSourceIP
      <4>2. 1 \in DOMAIN addrs[n]
        BY <4>1, <1>ListIs
      <4> QED BY <4>1, <4>2 DEF Making!ToSet
    <3>6. Making!Lookup("lan", src) = {n}
      <4>1. RoutedTo(n, "lan", src)
        BY <2>1, <2>2, <3>5 DEF TableInv
      <4>2. src \in DOMAIN nics["lan"] /\ nics["lan"][src] = n
        BY <4>1 DEF RoutedTo
      <4> QED BY <4>2 DEF Making!Lookup
    <3>7. Making!ReplyTo(mapped, src) = UNION {Making!Lookup("lan", ip) : ip \in {src}}
      BY <3>1, <3>4 DEF Making!ReplyTo
    <3>8. UNION {Making!Lookup("lan", ip) : ip \in {src}} = Making!Lookup("lan", src)
      OBVIOUS
    <3> QED BY <3>6, <3>7, <3>8
  <2>5. Making!TypeOK
    <3>1. \A r \in Making!Routers : \A ip \in DOMAIN nics[r] :
            Making!InSubnet(r, ip) /\ nics[r][ip] \in Making!NICs
      BY <2>1 DEF TableInv, EntryIs
    <3>2. unlinked \subseteq Making!NICs \X Extra
      BY <2>1, <2>2 DEF SetUpInv
    <3>3. \A c \in Making!ToSet(nat) : Len(c.mapped) > 0 /\ (oneToOne => Len(c.local) = Len(c.mapped))
      <4> SUFFICES ASSUME NEW i \in DOMAIN nat
                   PROVE  Len(nat[i].mapped) > 0 /\ (oneToOne => Len(nat[i].local) = Len(nat[i].mapped))
        BY DEF Making!ToSet
      <4>1. PICK list, local : list = addrs["lan"] /\ local = Making!LocalOf(list)
        OBVIOUS
      <4>2. nat = <<>> \/ (nat = <<[mapped |-> list, local |-> local]>> /\ list # <<>>)
        BY <2>1, <4>1 DEF LanInv, Making!NATError
      <4>3. list # <<>> /\ nat[i].mapped = list /\ nat[i].local = local
        <5>1. nat # <<>>
          BY <1>NoneIs
        <5>2. PICK c : c = [mapped |-> list, local |-> local]
          OBVIOUS
        <5>3. nat = <<c>> /\ list # <<>>
          BY <4>2, <5>1, <5>2
        <5>4. nat[i] = c
          BY <5>3, <1>OneIs
        <5>5. c.mapped = list /\ c.local = local
          BY <5>2
        <5> QED BY <5>3, <5>4, <5>5
      <4>4. list \in Seq(Addresses)
        BY <2>1, <2>2, <4>1 DEF SetUpInv
      <4>5. oneToOne => DOMAIN local = DOMAIN list /\ local = [k \in DOMAIN local |-> local[k]]
        BY <4>1 DEF Making!LocalOf
      <4>6. oneToOne => Len(local) = Len(list)
        BY <4>4, <4>5, <1>MadeFrom
      <4>7. Len(list) > 0
        BY <4>3, <4>4, <1>ListIs
      <4> QED BY <4>3, <4>6, <4>7
    <3> QED BY <2>1, <3>1, <3>2, <3>3 DEF Making!TypeOK, SetUpInv
  <2> QED BY <2>3, <2>4, <2>5
(* The invariant holds while the network is made. *)
<1> DEFINE MakingInv == which = "topology" => TopologyInv
<1> HIDE DEF MakingInv
<1>1. NetworkInit => MakingInv
  <2>1. SUFFICES ASSUME NetworkInit, which = "topology" PROVE TopologyInv
    BY DEF MakingInv
  <2>2. Making!Init
    BY <2>1, SizeAssumption DEF NetworkInit
  <2> QED BY <2>2, <1>TopologyInit
<1>2. MakingInv /\ [NetworkNext]_netvars => MakingInv'
  <2>1. SUFFICES ASSUME MakingInv, [NetworkNext]_netvars, which' = "topology" PROVE TopologyInv'
    BY DEF MakingInv
  <2>2. CASE NetworkNext
    <3>1. which = "topology"
      BY <2>1, <2>2 DEF NetworkNext
    <3>2. Making!Next
      BY <2>2, <3>1, SizeAssumption DEF NetworkNext
    <3> QED BY <2>1, <3>1, <3>2, <1>TopologyStep DEF MakingInv
  <2>3. CASE UNCHANGED netvars
    <3>1. which = "topology" /\ UNCHANGED topo
      BY <2>1, <2>3 DEF netvars
    <3>2. TopologyInv
      BY <2>1, <3>1 DEF MakingInv
    <3>3. UNCHANGED <<staticIPs, localIPs, oneToOne, addrs, router, nics, lastID, nat, children,
                      failed, unlinked, contested>>
      BY <3>1 DEF topo
    <3>4. SetUpInv' /\ LanInv'
      BY <3>2, <3>3 DEF TopologyInv, SetUpInv, LanInv, Making!InSubnet, Making!LocalOf, Making!NATError
    <3>5. TableInv'
      <4>1. \A n, r : BelongsTo(n, r) => BelongsTo(n, r)'
        BY <3>3 DEF BelongsTo, Making!InSubnet
      <4>2. \A r, ip : EntryIs(r, ip) => EntryIs(r, ip)'
        BY <3>3, <4>1 DEF EntryIs, Making!InSubnet, Making!HasAddr
      <4>3. \A n, r, ip : RoutedTo(n, r, ip) => RoutedTo(n, r, ip)'
        BY <3>3 DEF RoutedTo, Making!InSubnet
      <4>4. TableInv
        BY <3>2 DEF TopologyInv
      <4> QED BY <3>3, <4>2, <4>3, <4>4 DEF TableInv
    <3>6. Making!NATInPlace'
      BY <3>2, <3>3 DEF TopologyInv, Making!NATInPlace
    <3> QED BY <3>4, <3>5, <3>6 DEF TopologyInv
  <2> QED BY <2>1, <2>2, <2>3
<1>3. MakingInv => Reachable
  BY <1>TopologyReachable DEF MakingInv, TopologyInv, Reachable
<1> QED BY <1>1, <1>2, <1>3, PTL DEF NetworkSpec, netvars

-----------------------------------------------------------------------------
(* Start and Stop. *)

(* What Start and Stop have done.  An application that is stopping has     *)
(* stopped a child, and its root is still to be stopped; two of them have  *)
(* stopped different children, so that at most one comes to the root.      *)
Stopping(k, a) == apc[a] \in {"children", "relock"} /\ todo[a] # Size[k].children
Places == {"none", "process", "body", "forward", "relock", "wait", "sleep", "done"}
ControlInv(k) ==
  /\ stopFunc \in [R(k)!Routers -> 0..Size[k].starts] /\ starts \in [R(k)!Routers -> 0..Size[k].starts]
  /\ cancelled \in SUBSET R(k)!Loops /\ pc \in [R(k)!Loops -> Places]
  /\ apc \in [Size[k].apps -> {"idle", "children", "relock", "failed"}]
  /\ todo \in [Size[k].apps -> SUBSET Size[k].children]
  /\ \A a \in Size[k].apps : apc[a] = "relock" => todo[a] # Size[k].children
  /\ \A a \in Size[k].apps : Stopping(k, a) =>
       stopFunc[wan] # 0 /\ \A c \in Size[k].children \ todo[a] : stopFunc[c] = 0
  /\ \A a, b \in Size[k].apps : Stopping(k, a) /\ Stopping(k, b) /\ a # b =>
       Size[k].children \subseteq todo[a] \cup todo[b]
  /\ stopFunc[wan] = 0 => \A r \in Size[k].children : stopFunc[r] = 0
  /\ \A l \in R(k)!Loops : pc[l] \notin {"none", "done"} /\ l \notin cancelled => stopFunc[l[1]] = l[2]
  /\ \A l \in R(k)!Loops : pc[l] # "none" => l[2] <= starts[l[1]]

(* What is not empty has a first place. *)
LEMMA OneFirst == \A n \in Nat : n >= 1 => 1 \in 1..n
  BY SMT

(* Numbers, and chunks in a list: what the steps below use of them. *)
LEMMA Numbers ==
  /\ \A n \in Nat : 0 \in 0..n /\ n <= n /\ n >= n
  /\ \A n \in Nat : \A x \in 0..n : x \in Nat /\ x <= n
  /\ \A n \in Nat : \A x \in 1..n : x \in 0..n /\ x \in Nat /\ x >= 1 /\ \A y \in 1..(x - 1) : y < x
  BY SMT
LEMMA NoEarlier == ASSUME NEW d \in Nat, NEW e \in Nat, NEW x \in Nat, NEW y \in Nat,
                          d + e <= x, x <= y \/ y >= x
                   PROVE  d + e <= y
  BY SMT
LEMMA EmptyAndOne ==
  /\ DOMAIN <<>> = {} /\ Len(<<>>) <= 1
  /\ \A S : \A c \in S : Len(<<c>>) <= 1
  BY SMT

(* The bounds of a network are numbers, and a goroutine is that of one of   *)
(* the Starts of its router.                                               *)
LEMMA SizeIs == ASSUME NEW k \in DOMAIN Size
                PROVE  /\ Size[k].minDelay \in Nat /\ Size[k].queueSize \in Nat
                       /\ Size[k].starts \in Nat /\ Size[k].chunks \in Nat /\ Size[k].time \in Nat
  BY SizeAssumption
LEMMA LoopIs == ASSUME NEW k \in DOMAIN Size, NEW l \in R(k)!Loops
                PROVE  l[1] \in R(k)!Routers /\ l[2] \in 1..Size[k].starts /\ l = <<l[1], l[2]>>
  BY SMT DEF R!Loops

(* A step, a push or the clock, that leaves the goroutines and the callers *)
(* of Start and Stop where they are.                                       *)
LEMMA ControlStays ==
  ASSUME NEW k \in DOMAIN Size, ControlInv(k), UNCHANGED <<stopFunc, starts, cancelled, apc, todo, pc>>
  PROVE  ControlInv(k)'
  BY DEF ControlInv, Stopping

(* Start: as the root is stopped, so are its children. *)
LEMMA ControlStart ==
  ASSUME NEW k \in DOMAIN Size, ControlInv(k), NEW a \in Size[k].apps, R(k)!Start(a)
  PROVE  ControlInv(k)' /\ \A l \in R(k)!Loops : pc'[l] # pc[l] => pc'[l] = "process" /\ pc[l] = "none"
<1>1. /\ stopFunc[wan] = 0 /\ \A r \in Size[k].children : stopFunc[r] = 0
      /\ R(k)!Routers = {wan} \cup Size[k].children /\ wan \notin Size[k].children
  BY SizeAssumption DEF R!Start, R!NotStarted, ControlInv, R!Routers
<1>2. \A b \in Size[k].apps : ~Stopping(k, b)
  BY <1>1 DEF ControlInv
<1>3. {r \in Size[k].children : stopFunc[r] = 0} = Size[k].children
  BY <1>1
<1>4. /\ starts' = [r \in R(k)!Routers |-> starts[r] + 1]
      /\ stopFunc' = [r \in R(k)!Routers |-> starts'[r]]
      /\ pc' = [l \in R(k)!Loops |-> IF l[2] = starts'[l[1]] THEN "process" ELSE pc[l]]
      /\ \A r \in R(k)!Routers : starts[r] < Size[k].starts
      /\ UNCHANGED <<cancelled, apc, todo>>
  BY <1>1, <1>3, SMT DEF R!Start, R!Loops
<1>5. /\ starts' \in [R(k)!Routers -> 0..Size[k].starts] /\ stopFunc' \in [R(k)!Routers -> 0..Size[k].starts]
      /\ \A r \in R(k)!Routers : stopFunc'[r] = starts[r] + 1 /\ starts'[r] = starts[r] + 1 /\ starts[r] \in Nat
  <2>1. \A r \in R(k)!Routers : starts[r] \in Nat /\ starts[r] + 1 \in 0..Size[k].starts
    BY <1>4, SizeIs, SMT DEF ControlInv
  <2> QED BY <1>4, <2>1
<1>6. ASSUME NEW l \in R(k)!Loops
      PROVE  /\ l[1] \in R(k)!Routers /\ l[2] \in Nat
             /\ pc'[l] = IF l[2] = starts'[l[1]] THEN "process" ELSE pc[l]
             /\ l[2] = starts'[l[1]] => pc[l] = "none"
             /\ pc[l] # "none" => l[2] <= starts[l[1]]
             /\ pc[l] \notin {"none", "done"} => l \in cancelled
  <2>1. l[1] \in R(k)!Routers /\ l[2] \in 1..Size[k].starts
    BY DEF R!Loops
  <2>2. pc[l] # "none" => l[2] <= starts[l[1]]
    BY DEF ControlInv
  <2>3. l[2] \in Nat /\ l[2] # 0
    BY <2>1, SizeIs, SMT
  <2>4. stopFunc[l[1]] = 0
    BY <1>1, <2>1
  <2>5. pc[l] \notin {"none", "done"} => l \in cancelled
    BY <2>3, <2>4 DEF ControlInv
  <2>6. l[2] = starts'[l[1]] => pc[l] = "none"
    BY <1>5, <2>1, <2>2, <2>3, SMT
  <2> QED BY <1>4, <2>1, <2>2, <2>3, <2>5, <2>6
<1>7. pc' \in [R(k)!Loops -> Places]
  BY <1>4 DEF ControlInv, Places
<1>8. \A l \in R(k)!Loops : pc'[l] \notin {"none", "done"} /\ l \notin cancelled' => stopFunc'[l[1]] = l[2]
  BY <1>4, <1>5, <1>6
<1>9. \A l \in R(k)!Loops : pc'[l] # "none" => l[2] <= starts'[l[1]]
  BY <1>5, <1>6, SMT
<1>10. stopFunc'[wan] # 0
  BY <1>1, <1>5, SMT
<1>11. ControlInv(k)'
  BY <1>2, <1>4, <1>5, <1>7, <1>8, <1>9, <1>10 DEF ControlInv, Stopping
<1> QED BY <1>6, <1>11

-----------------------------------------------------------------------------
(* Where chunks are. *)

(* pop of chunkQueue: a queue without its first chunk. *)
LEMMA Rest == ASSUME NEW S, NEW s \in Seq(S), s # <<>>
              PROVE  /\ Head(s) = s[1] /\ Head(s) \in S /\ Tail(s) \in Seq(S) /\ Len(s) \in Nat /\ Len(s) >= 1
                     /\ DOMAIN s = 1..Len(s) /\ DOMAIN Tail(s) = 1..(Len(s) - 1)
                     /\ Len(Tail(s)) = Len(s) - 1 /\ \A i \in 1..(Len(s) - 1) : Tail(s)[i] = s[i + 1]
  BY SMT
(* push of chunkQueue: a queue with another chunk at its end. *)
LEMMA Longer == ASSUME NEW S, NEW s \in Seq(S), NEW x \in S
                PROVE  /\ Append(s, x) \in Seq(S) /\ Len(s) \in Nat /\ Len(Append(s, x)) = Len(s) + 1
                       /\ DOMAIN s = 1..Len(s) /\ DOMAIN Append(s, x) = 1..(Len(s) + 1)
                       /\ Append(s, x)[Len(s) + 1] = x /\ \A i \in 1..Len(s) : Append(s, x)[i] = s[i]
  BY SMT

(* Where chunks are: <<r, 0>> stands for the queue of router r, any other  *)
(* one for what a goroutine has in hand.  Those a chunk has yet to pass    *)
(* are the router it is at, and, if that is not where it goes, the root    *)
(* and the child it goes to.                                               *)
Boxes(k) == R(k)!Routers \X (0..Size[k].starts)
Way(k, r, to) == IF to = r THEN {r} ELSE {r, wan} \cup ({to} \cap Size[k].children)

Put(B, b, s) == [B EXCEPT ![b] = s]

(* Of boxes B and what is past, P: no two chunks have the same id; none is *)
(* past a router it has yet to pass; an id is in no box; an id is used.    *)
Alone(k, B) ==
  \A a, b \in Boxes(k) : \A i \in DOMAIN B[a], j \in DOMAIN B[b] :
    B[a][i].id = B[b][j].id => a = b /\ i = j
Ahead(k, B, P) ==
  \A b \in Boxes(k) : \A i \in DOMAIN B[b] :
    \A s \in Way(k, b[1], B[b][i].to) : B[b][i].id \notin P[s]
InNone(k, B, x) == \A b \in Boxes(k) : \A i \in DOMAIN B[b] : B[b][i].id # x
InUse(k, B, P, x) == ~InNone(k, B, x) \/ \E r \in R(k)!Routers : x \in P[r]

(* Boxes C are B without the chunk with id x. *)
Free(k, B, C, P, x) ==
  /\ C \in [Boxes(k) -> Seq(R(k)!Chunks)] /\ Alone(k, C) /\ Ahead(k, C, P) /\ InNone(k, C, x)
  /\ \A y : InUse(k, B, P, y) <=> InUse(k, C, P, y) \/ y = x

(* A place of chunks is the queue of a router or the hand of a goroutine. *)
LEMMA BoxIs ==
  ASSUME NEW k \in DOMAIN Size
  PROVE  /\ \A b \in Boxes(k) : b[1] \in R(k)!Routers /\ (b[2] # 0 => b \in R(k)!Loops)
         /\ \A l \in R(k)!Loops : l \in Boxes(k) /\ l[1] \in R(k)!Routers /\ l[2] # 0
         /\ \A r \in R(k)!Routers : <<r, 0>> \in Boxes(k) /\ <<r, 0>>[1] = r /\ <<r, 0>>[2] = 0
  BY SizeIs, SMT DEF Boxes, R!Loops

(* P with id x past router r. *)
With(k, P, r, x) == [s \in R(k)!Routers |-> IF s = r THEN P[s] \cup {x} ELSE P[s]]

(* The used ids are numbered as the chunks are sent. *)
Apart(k, B, P) ==
  /\ B \in [Boxes(k) -> Seq(R(k)!Chunks)] /\ Alone(k, B) /\ Ahead(k, B, P)
  /\ \E n \in 0..Size[k].chunks : \A x : InUse(k, B, P, x) <=> x \in 1..n

(* The boxes and what is past, of the state. *)
BoxOf(k, q, h) == [b \in Boxes(k) |-> IF b[2] = 0 THEN q[b[1]] ELSE h[b]]
PastOf(k, s, g) == [r \in R(k)!Routers |-> R(k)!Contents(s[r]) \cup {x[2] : x \in {y \in g : y[1] = r}}]

(* Queues and hands hold chunks. *)
LEMMA BoxTyped ==
  ASSUME NEW k \in DOMAIN Size, NEW q \in [R(k)!Routers -> Seq(R(k)!Chunks)],
         NEW h \in [R(k)!Loops -> Seq(R(k)!Chunks)]
  PROVE  BoxOf(k, q, h) \in [Boxes(k) -> Seq(R(k)!Chunks)]
<1>1. \A b \in Boxes(k) : b[1] \in R(k)!Routers /\ (b[2] # 0 => b \in R(k)!Loops)
  BY BoxIs
<1> QED BY <1>1 DEF BoxOf

-----------------------------------------------------------------------------
(* What holds of the chunks, and the steps. *)

(* Types, and what a goroutine has in hand: a chunk while it forwards one, *)
(* and one that was due.                                                   *)
TimeInv(k) ==
  /\ now \in 0..Size[k].time /\ pushCh \in [R(k)!Routers -> BOOLEAN]
  /\ entered \in [R(k)!Loops -> 0..Size[k].time] /\ wake \in [R(k)!Loops -> 0..Size[k].time]
  /\ mutex \in [R(k)!Routers -> 0..Size[k].starts]
  /\ \A l \in R(k)!Loops : entered[l] <= now
DataInv(k) ==
  /\ queue \in [R(k)!Routers -> Seq(R(k)!Chunks)] /\ hand \in [R(k)!Loops -> Seq(R(k)!Chunks)]
  /\ sent \in [R(k)!Routers -> Seq(1..Size[k].chunks)]
  /\ \A r \in R(k)!Routers : (Size[k].queueSize > 0 => Len(queue[r]) <= Size[k].queueSize)
HandInv(k) ==
  \A l \in R(k)!Loops :
    IF pc[l] # "forward" THEN hand[l] = <<>>
    ELSE \E c \in R(k)!Chunks : /\ hand[l] = <<c>> /\ c.ts + Size[k].minDelay <= now
                                /\ l[1] = wan => c.to # "nowhere"
(* Each chunk is in one place, and ahead of it are routers it did not pass. *)
IdInv(k) == Apart(k, BoxOf(k, queue, hand), PastOf(k, sent, gone))
SentInv(k) ==
  \A r \in R(k)!Routers :
    /\ \A i, j \in DOMAIN sent[r] : sent[r][i] = sent[r][j] => i = j
    /\ \A i \in DOMAIN sent[r] : <<r, sent[r][i]>> \notin gone

(* The ids that Send takes for used are those of the chunks somewhere. *)
LEMMA UsedIsInUse ==
  ASSUME NEW k \in DOMAIN Size, DataInv(k)
  PROVE  \A x : x \in R(k)!Used <=> InUse(k, BoxOf(k, queue, hand), PastOf(k, sent, gone), x)
<1>1. SUFFICES ASSUME NEW x
               PROVE  x \in R(k)!Used <=> InUse(k, BoxOf(k, queue, hand), PastOf(k, sent, gone), x)
  OBVIOUS
<1>b. PICK B : B = BoxOf(k, queue, hand)
  OBVIOUS
<1>p. PICK P : P = PastOf(k, sent, gone)
  OBVIOUS
<1>2. \A b \in Boxes(k) : B[b] = IF b[2] = 0 THEN queue[b[1]] ELSE hand[b]
  BY <1>b DEF BoxOf
<1>3. \A r \in R(k)!Routers : P[r] = R(k)!Past(r)
  BY <1>p DEF PastOf, R!Past
<1>4. /\ \A r \in R(k)!Routers : <<r, 0>> \in Boxes(k) /\ <<r, 0>>[1] = r /\ <<r, 0>>[2] = 0
      /\ \A l \in R(k)!Loops : l \in Boxes(k) /\ l[2] # 0
      /\ \A b \in Boxes(k) : b[1] \in R(k)!Routers /\ (b[2] # 0 => b \in R(k)!Loops)
  BY BoxIs
<1>5. x \in R(k)!Used <=> \/ \E r \in R(k)!Routers : x \in R(k)!Queued(r)
                          \/ \E l \in R(k)!Loops : x \in R(k)!Held(l)
                          \/ \E r \in R(k)!Routers : x \in R(k)!Past(r)
  <2>1. \A y : y \in R(k)!Used <=>
          \/ \E X \in {R(k)!Queued(r) \cup R(k)!Past(r) : r \in R(k)!Routers} : y \in X
          \/ \E X \in {R(k)!Held(l) : l \in R(k)!Loops} : y \in X
    BY DEF R!Used
  <2>2. x \in R(k)!Used => \/ \E r \in R(k)!Routers : x \in R(k)!Queued(r) \/ x \in R(k)!Past(r)
                          \/ \E l \in R(k)!Loops : x \in R(k)!Held(l)
    BY <2>1
  <2>3. ASSUME NEW r \in R(k)!Routers, x \in R(k)!Queued(r) \/ x \in R(k)!Past(r)
        PROVE  x \in R(k)!Used
    BY <2>3, SMT DEF R!Used
  <2>4. ASSUME NEW l \in R(k)!Loops, x \in R(k)!Held(l)
        PROVE  x \in R(k)!Used
    BY <2>4 DEF R!Used
  <2> QED BY <2>2, <2>3, <2>4
<1>6. ASSUME NEW r \in R(k)!Routers
      PROVE  x \in R(k)!Queued(r) <=> \E i \in DOMAIN B[<<r, 0>>] : B[<<r, 0>>][i].id = x
  <2>1. B[<<r, 0>>] = queue[r]
    BY <1>2, <1>4
  <2> QED BY <2>1 DEF R!Queued, R!Contents
<1>7. ASSUME NEW l \in R(k)!Loops
      PROVE  x \in R(k)!Held(l) <=> \E i \in DOMAIN B[l] : B[l][i].id = x
  <2>1. B[l] = hand[l]
    BY <1>2, <1>4
  <2> QED BY <2>1 DEF R!Held, R!Contents
<1>8. ~InNone(k, B, x) <=> \E b \in Boxes(k) : \E i \in DOMAIN B[b] : B[b][i].id = x
  BY DEF InNone
<1>9. ASSUME NEW b \in Boxes(k)
      PROVE  b \in R(k)!Loops \/ \E r \in R(k)!Routers : b = <<r, 0>>
  BY SizeIs, SMT DEF Boxes, R!Loops
<1>10. ~InNone(k, B, x) <=> \/ \E r \in R(k)!Routers : x \in R(k)!Queued(r)
                            \/ \E l \in R(k)!Loops : x \in R(k)!Held(l)
  <2>1. ASSUME NEW r \in R(k)!Routers, x \in R(k)!Queued(r)
        PROVE  ~InNone(k, B, x)
    BY <1>4, <1>6, <1>8, <2>1
  <2>2. ASSUME NEW l \in R(k)!Loops, x \in R(k)!Held(l)
        PROVE  ~InNone(k, B, x)
    BY <1>4, <1>7, <1>8, <2>2
  <2>3. ASSUME NEW b \in Boxes(k), NEW i \in DOMAIN B[b], B[b][i].id = x
        PROVE  \/ \E r \in R(k)!Routers : x \in R(k)!Queued(r)
               \/ \E l \in R(k)!Loops : x \in R(k)!Held(l)
    BY <1>6, <1>7, <1>9, <2>3
  <2> QED BY <1>8, <2>1, <2>2, <2>3
<1>11. InUse(k, B, P, x) <=> ~InNone(k, B, x) \/ \E r \in R(k)!Routers : x \in R(k)!Past(r)
  BY <1>3 DEF InUse
<1> QED BY <1>b, <1>p, <1>5, <1>10, <1>11

(* Send gives a chunk an id that no chunk has or had. *)
LEMMA NextIsNew ==
  ASSUME NEW k \in DOMAIN Size, DataInv(k), IdInv(k), R(k)!NextID <= Size[k].chunks
  PROVE  /\ R(k)!NextID \in 1..Size[k].chunks
         /\ \A y : InUse(k, BoxOf(k, queue, hand), PastOf(k, sent, gone), y) <=> y \in 1..(R(k)!NextID - 1)
<1>1. PICK n \in 0..Size[k].chunks :
        \A x : InUse(k, BoxOf(k, queue, hand), PastOf(k, sent, gone), x) <=> x \in 1..n
  BY DEF IdInv, Apart
<1>2. R(k)!Used = 1..n
  BY <1>1, UsedIsInUse
<1>3. n + 1 \in 1..(Size[k].chunks + 1) /\ 1..((n + 1) - 1) = 1..n
  BY SizeIs, SMT
<1>4. R(k)!NextID \in 1..(Size[k].chunks + 1) /\ R(k)!Used = 1..(R(k)!NextID - 1)
  BY <1>2, <1>3 DEF R!NextID
<1>5. R(k)!NextID \in 1..Size[k].chunks
  BY <1>4, SizeIs, SMT
<1> QED BY <1>4, <1>5, UsedIsInUse

(* Every step keeps what holds of Start, Stop and the goroutines. *)
LEMMA ControlStep ==
  ASSUME NEW k \in DOMAIN Size, ControlInv(k), R(k)!Next
  PROVE  ControlInv(k)'
(* A goroutine of Start moves on in its loop, or ends. *)
<1>LoopMoves. ASSUME ControlInv(k), NEW l \in R(k)!Loops, pc[l] \notin {"none", "done"},
                     NEW to \in Places \ {"none"}, pc' = [pc EXCEPT ![l] = to],
                     UNCHANGED <<stopFunc, starts, cancelled, apc, todo>>
              PROVE  ControlInv(k)'
  <2> USE <1>LoopMoves
  <2>1. pc' \in [R(k)!Loops -> Places]
    BY DEF ControlInv
  <2>2. \A m \in R(k)!Loops :
          /\ pc'[m] # "none" => pc[m] # "none"
          /\ pc'[m] \notin {"none", "done"} => pc[m] \notin {"none", "done"}
    BY DEF ControlInv
  <2> QED BY <2>1, <2>2 DEF ControlInv, Stopping
(* An application is where it was, or is no longer stopping. *)
<1>ControlApps. ASSUME ControlInv(k), UNCHANGED <<stopFunc, starts, cancelled, pc>>,
                       apc' \in [Size[k].apps -> {"idle", "children", "relock", "failed"}],
                       todo' \in [Size[k].apps -> SUBSET Size[k].children],
                       \A b \in Size[k].apps : apc'[b] = "relock" => todo'[b] # Size[k].children,
                       \A b \in Size[k].apps : Stopping(k, b)' => Stopping(k, b) /\ todo'[b] = todo[b]
                PROVE  ControlInv(k)'
  <2> USE <1>ControlApps
  <2>1. \A b \in Size[k].apps : Stopping(k, b)' =>
          stopFunc'[wan] # 0 /\ \A c \in Size[k].children \ todo'[b] : stopFunc'[c] = 0
    BY DEF ControlInv
  <2>2. \A b, c \in Size[k].apps : Stopping(k, b)' /\ Stopping(k, c)' /\ b # c =>
          Size[k].children \subseteq todo'[b] \cup todo'[c]
    BY DEF ControlInv
  <2> QED BY <2>1, <2>2 DEF ControlInv
(* r.stopFunc() cancels the goroutine that runs. *)
<1>ControlCancel. ASSUME ControlInv(k), NEW r \in R(k)!Routers, stopFunc[r] # 0, R(k)!CallStopFunc(r),
                         UNCHANGED <<pc, starts>>
                  PROVE  /\ stopFunc' \in [R(k)!Routers -> 0..Size[k].starts] /\ cancelled' \in SUBSET R(k)!Loops
                         /\ stopFunc'[r] = 0 /\ \A s \in R(k)!Routers \ {r} : stopFunc'[s] = stopFunc[s]
                         /\ \A l \in R(k)!Loops : pc'[l] \notin {"none", "done"} /\ l \notin cancelled' => stopFunc'[l[1]] = l[2]
  <2> USE <1>ControlCancel
  <2>1. /\ stopFunc' = [stopFunc EXCEPT ![r] = 0] /\ cancelled' = cancelled \cup {<<r, stopFunc[r]>>}
        /\ stopFunc \in [R(k)!Routers -> 0..Size[k].starts] /\ cancelled \in SUBSET R(k)!Loops
    BY DEF R!CallStopFunc, ControlInv
  <2>2. <<r, stopFunc[r]>> \in R(k)!Loops
    BY <2>1, SizeIs, SMT DEF R!Loops
  <2>3. stopFunc' \in [R(k)!Routers -> 0..Size[k].starts]
    BY <2>1, SizeIs, Numbers
  <2>4. ASSUME NEW l \in R(k)!Loops, pc'[l] \notin {"none", "done"}, l \notin cancelled'
        PROVE  stopFunc'[l[1]] = l[2]
    <3>1. stopFunc[l[1]] = l[2]
      BY <2>1, <2>4 DEF ControlInv
    <3>2. l[1] \in R(k)!Routers /\ l = <<l[1], l[2]>>
      BY SMT DEF R!Loops
    <3>3. l[1] # r
      BY <2>1, <2>4, <3>1, <3>2
    <3> QED BY <2>1, <3>1, <3>2, <3>3
  <2> QED BY <2>1, <2>2, <2>3, <2>4
(* Stop of the root begins: it stops a root without children, and otherwise *)
(* has all of them to stop.                                                *)
<1>ControlStop. ASSUME ControlInv(k), NEW a \in Size[k].apps, R(k)!Stop(a)
                PROVE  ControlInv(k)'
  <2> USE <1>ControlStop
  <2>1. /\ wan \in R(k)!Routers /\ stopFunc[wan] # 0 /\ UNCHANGED <<pc, starts>>
    BY DEF R!Stop, R!Routers, R!loops
  <2>2. CASE Size[k].children = {}
    <3>1. R(k)!CallStopFunc(wan) /\ apc' = apc /\ todo' = todo
      BY <2>2 DEF R!Stop
    <3>2. \A b \in Size[k].apps : ~Stopping(k, b)
      <4>1. \A b \in Size[k].apps : todo[b] \in SUBSET Size[k].children
        BY DEF ControlInv
      <4> QED BY <2>2, <4>1 DEF Stopping
    <3>3. (\A b \in Size[k].apps : ~Stopping(k, b))'
      BY <3>1, <3>2 DEF Stopping
    <3> QED BY <2>1, <2>2, <3>1, <3>3, <1>ControlCancel DEF ControlInv
  <2>3. CASE Size[k].children # {}
    <3>1. /\ apc' = [apc EXCEPT ![a] = "children"] /\ todo' = [todo EXCEPT ![a] = Size[k].children]
          /\ UNCHANGED <<cancelled, stopFunc>>
      BY <2>3 DEF R!Stop
    <3>2. /\ apc' \in [Size[k].apps -> {"idle", "children", "relock", "failed"}]
          /\ todo' \in [Size[k].apps -> SUBSET Size[k].children]
          /\ apc'[a] = "children" /\ todo'[a] = Size[k].children
          /\ \A b \in Size[k].apps \ {a} : apc'[b] = apc[b] /\ todo'[b] = todo[b]
      BY <3>1 DEF ControlInv
    <3>3. \A b \in Size[k].apps : Stopping(k, b)' => b # a /\ Stopping(k, b) /\ todo'[b] = todo[b]
      BY <3>2 DEF Stopping
    <3>4. \A b \in Size[k].apps : apc'[b] = "relock" => todo'[b] # Size[k].children
      BY <3>2 DEF ControlInv
    <3> QED BY <2>1, <3>1, <3>2, <3>3, <3>4, <1>ControlApps
  <2> QED BY <2>2, <2>3
(* Stop of a child: one that another Stop has stopped fails. *)
<1>ControlStopChild. ASSUME ControlInv(k), NEW a \in Size[k].apps, R(k)!StopChild(a)
                     PROVE  ControlInv(k)'
  <2> USE <1>ControlStopChild
  <2>1. PICK c \in todo[a] : R(k)!StopOne(a, c) /\ todo' = [todo EXCEPT ![a] = @ \ {c}]
    BY DEF R!StopChild
  <2>2. /\ apc[a] = "children" /\ UNCHANGED <<pc, starts>>
    BY DEF R!StopChild, R!loops
  <2>3. /\ c \in Size[k].children /\ c \in R(k)!Routers /\ c # wan /\ todo[a] \subseteq Size[k].children
    BY SizeAssumption, SMT DEF ControlInv, R!Routers
  <2>4. /\ todo' \in [Size[k].apps -> SUBSET Size[k].children] /\ todo'[a] = todo[a] \ {c}
        /\ \A b \in Size[k].apps \ {a} : todo'[b] = todo[b]
    BY <2>1, <2>3 DEF ControlInv
  <2>5. CASE stopFunc[c] # 0
    <3>1. R(k)!CallStopFunc(c) /\ apc' = [apc EXCEPT ![a] = "relock"]
      BY <2>1, <2>5 DEF R!StopOne
    <3>2. /\ stopFunc' \in [R(k)!Routers -> 0..Size[k].starts] /\ cancelled' \in SUBSET R(k)!Loops
          /\ stopFunc'[c] = 0 /\ \A s \in R(k)!Routers \ {c} : stopFunc'[s] = stopFunc[s]
          /\ \A l \in R(k)!Loops : pc'[l] \notin {"none", "done"} /\ l \notin cancelled' => stopFunc'[l[1]] = l[2]
      BY <2>2, <2>3, <2>5, <3>1, <1>ControlCancel
    <3>3. /\ apc' \in [Size[k].apps -> {"idle", "children", "relock", "failed"}] /\ apc'[a] = "relock"
          /\ \A b \in Size[k].apps \ {a} : apc'[b] = apc[b]
      BY <3>1 DEF ControlInv
    <3>4. stopFunc[wan] # 0 /\ stopFunc'[wan] = stopFunc[wan]
      BY <2>3, <2>5, <3>2 DEF ControlInv, R!Routers
    <3>5. \A s \in R(k)!Routers : stopFunc[s] = 0 => stopFunc'[s] = 0
      BY <3>2
    <3>6. \A b \in Size[k].apps \ {a} : Stopping(k, b)' => Stopping(k, b) /\ c \in todo[b]
      BY <2>3, <2>4, <2>5, <3>3 DEF Stopping, ControlInv
    <3>7. \A d \in Size[k].children \ todo'[a] : stopFunc'[d] = 0
      <4>1. \A d \in Size[k].children \ todo[a] : Stopping(k, a)
        BY <2>2 DEF Stopping
      <4>2. \A d \in Size[k].children \ todo[a] : stopFunc[d] = 0
        BY <4>1 DEF ControlInv
      <4> QED BY <2>4, <3>2, <3>5, <4>2 DEF R!Routers
    <3>8. \A b \in Size[k].apps \ {a} : Stopping(k, b)' => Size[k].children \subseteq todo'[a] \cup todo'[b]
      <4>1. SUFFICES ASSUME NEW b \in Size[k].apps \ {a}, Stopping(k, b)', NEW d \in Size[k].children
                     PROVE  d \in todo'[a] \cup todo'[b]
        OBVIOUS
      <4>2. Stopping(k, b) /\ c \in todo[b]
        BY <3>6, <4>1
      <4>3. d \in todo[a] \cup todo[b]
        <5>1. CASE todo[a] = Size[k].children
          BY <5>1
        <5>2. CASE todo[a] # Size[k].children
          <6>1. Stopping(k, a)
            BY <2>2, <5>2 DEF Stopping
          <6> QED BY <6>1, <4>2 DEF ControlInv
        <5> QED BY <5>1, <5>2
      <4> QED BY <2>4, <4>2, <4>3
    <3>9. \A b \in Size[k].apps : apc'[b] = "relock" => todo'[b] # Size[k].children
      BY <2>3, <2>4, <3>3 DEF ControlInv
    <3>10. \A b \in Size[k].apps : Stopping(k, b)' =>
             stopFunc'[wan] # 0 /\ \A d \in Size[k].children \ todo'[b] : stopFunc'[d] = 0
      <4>1. \A b \in Size[k].apps \ {a} : Stopping(k, b)' => \A d \in Size[k].children \ todo'[b] : stopFunc[d] = 0
        BY <2>4, <3>6 DEF ControlInv
      <4>2. \A d \in Size[k].children : d \in R(k)!Routers
        BY DEF R!Routers
      <4> QED BY <3>4, <3>5, <3>7, <4>1, <4>2
    <3>11. \A b, d \in Size[k].apps : Stopping(k, b)' /\ Stopping(k, d)' /\ b # d =>
             Size[k].children \subseteq todo'[b] \cup todo'[d]
      <4>1. \A b, d \in Size[k].apps \ {a} : Stopping(k, b)' /\ Stopping(k, d)' /\ b # d =>
               Size[k].children \subseteq todo'[b] \cup todo'[d]
        BY <2>4, <3>6 DEF ControlInv
      <4> QED BY <3>8, <4>1
    <3> QED BY <2>2, <3>2, <3>3, <2>4, <3>4, <3>9, <3>10, <3>11 DEF ControlInv
  <2>6. CASE stopFunc[c] = 0
    <3>1. UNCHANGED <<cancelled, stopFunc>> /\ apc' = [apc EXCEPT ![a] = "failed"]
      BY <2>1, <2>6 DEF R!StopOne
    <3>2. /\ apc' \in [Size[k].apps -> {"idle", "children", "relock", "failed"}] /\ apc'[a] = "failed"
          /\ \A b \in Size[k].apps \ {a} : apc'[b] = apc[b]
      BY <3>1 DEF ControlInv
    <3>3. \A b \in Size[k].apps : Stopping(k, b)' => b # a /\ Stopping(k, b) /\ todo'[b] = todo[b]
      BY <2>4, <3>2 DEF Stopping
    <3>4. \A b \in Size[k].apps : apc'[b] = "relock" => todo'[b] # Size[k].children
      BY <2>4, <3>2 DEF ControlInv
    <3> QED BY <2>2, <2>4, <3>1, <3>2, <3>3, <3>4, <1>ControlApps
  <2> QED BY <2>5, <2>6
(* The last part of Stop: the root's stopFunc is not nil. *)
<1>ControlStopRelock. ASSUME ControlInv(k), NEW a \in Size[k].apps, R(k)!StopRelock(a)
                      PROVE  ControlInv(k)'
  <2> USE <1>ControlStopRelock
  <2>1. /\ apc[a] \in {"relock", "failed"} /\ UNCHANGED <<pc, starts, todo>> /\ wan \in R(k)!Routers
        /\ apc \in [Size[k].apps -> {"idle", "children", "relock", "failed"}]
    BY DEF R!StopRelock, R!loops, R!Routers, ControlInv
  <2>2. CASE apc[a] = "relock" /\ todo[a] = {}
    <3>1. Stopping(k, a)
      BY <2>2 DEF Stopping, ControlInv
    <3>2. stopFunc[wan] # 0 /\ \A c \in Size[k].children : stopFunc[c] = 0
      BY <2>2, <3>1 DEF ControlInv
    <3>3. R(k)!CallStopFunc(wan) /\ apc' = [apc EXCEPT ![a] = "idle"]
      BY <2>2, <3>2 DEF R!StopRelock
    <3>4. /\ stopFunc' \in [R(k)!Routers -> 0..Size[k].starts] /\ cancelled' \in SUBSET R(k)!Loops
          /\ stopFunc'[wan] = 0 /\ \A s \in R(k)!Routers \ {wan} : stopFunc'[s] = stopFunc[s]
          /\ \A l \in R(k)!Loops : pc'[l] \notin {"none", "done"} /\ l \notin cancelled' => stopFunc'[l[1]] = l[2]
      BY <2>1, <3>2, <3>3, <1>ControlCancel
    <3>5. \A c \in Size[k].children : stopFunc'[c] = 0
      BY <3>2, <3>4, SizeAssumption DEF R!Routers
    <3>6. /\ apc' \in [Size[k].apps -> {"idle", "children", "relock", "failed"}] /\ apc'[a] = "idle"
          /\ \A b \in Size[k].apps \ {a} : apc'[b] = apc[b]
      BY <2>1, <3>3
    <3>7. \A b \in Size[k].apps : ~Stopping(k, b)'
      <4>1. SUFFICES ASSUME NEW b \in Size[k].apps, b # a, Stopping(k, b)
                     PROVE  FALSE
        BY <2>1, <3>6 DEF Stopping
      <4>2. Size[k].children \subseteq todo[b] /\ todo[b] \subseteq Size[k].children
        BY <2>2, <3>1, <4>1 DEF ControlInv
      <4> QED BY <4>1, <4>2 DEF Stopping
    <3>8. \A b \in Size[k].apps : apc'[b] = "relock" => todo'[b] # Size[k].children
      BY <2>1, <3>6 DEF ControlInv
    <3> QED BY <2>1, <3>4, <3>5, <3>6, <3>7, <3>8 DEF ControlInv
  <2>3. CASE apc[a] = "failed" \/ todo[a] # {}
    <3>1. UNCHANGED <<cancelled, stopFunc>>
      BY <2>1, <2>3 DEF R!StopRelock
    <3>2. apc' = [apc EXCEPT ![a] = IF apc[a] = "failed" THEN "idle" ELSE "children"]
      BY <2>1, <2>3 DEF R!StopRelock
    <3>3. /\ apc' \in [Size[k].apps -> {"idle", "children", "relock", "failed"}]
          /\ apc'[a] = IF apc[a] = "failed" THEN "idle" ELSE "children"
          /\ \A b \in Size[k].apps \ {a} : apc'[b] = apc[b]
      BY <2>1, <3>2
    <3>4. \A b \in Size[k].apps : Stopping(k, b)' => Stopping(k, b) /\ todo'[b] = todo[b]
      BY <2>1, <3>3 DEF Stopping
    <3>5. \A b \in Size[k].apps : apc'[b] = "relock" => todo'[b] # Size[k].children
      BY <2>1, <3>3 DEF ControlInv
    <3>6. todo' \in [Size[k].apps -> SUBSET Size[k].children]
      BY <2>1 DEF ControlInv
    <3> QED BY <2>1, <3>1, <3>3, <3>4, <3>5, <3>6, <1>ControlApps
  <2> QED BY <2>1, <2>2, <2>3
<1>1. ASSUME NEW r \in R(k)!Routers, NEW to, R(k)!Send(r, to)
      PROVE  ControlInv(k)'
  BY <1>1, ControlStays DEF R!Send, R!control, R!loops
<1>2. ASSUME NEW l \in R(k)!Loops, R(k)!LoopStep(l)
      PROVE  ControlInv(k)'
  <2>1. CASE R(k)!DropChunk(l)
    BY <2>1, ControlStays DEF R!DropChunk, R!control, R!loops
  <2>2. CASE ~R(k)!DropChunk(l)
    <3>1. UNCHANGED <<stopFunc, starts, cancelled, apc, todo>>
      BY <1>2, <2>2 DEF R!LoopStep, R!Lock, R!Drained, R!NotDue, R!Forward, R!TranslateFails,
         R!Handover, R!Relock, R!Signalled, R!TimerFires, R!Cancelled, R!control
    <3>2. /\ pc[l] \in {"process", "body", "forward", "relock", "wait", "sleep"}
          /\ \E to \in {"process", "body", "forward", "relock", "wait", "sleep", "done"} :
               pc' = [pc EXCEPT ![l] = to]
      BY <1>2, <2>2 DEF R!LoopStep, R!Lock, R!Drained, R!NotDue, R!Forward, R!TranslateFails,
         R!Handover, R!Relock, R!Signalled, R!TimerFires, R!Cancelled, R!InBody, R!DueChunk, R!Leave
    <3>3. /\ pc[l] \notin {"none", "done"}
          /\ \E to \in Places \ {"none"} : pc' = [pc EXCEPT ![l] = to]
      BY <3>2 DEF Places
    <3> QED BY <3>1, <3>3, <1>LoopMoves
  <2> QED BY <2>1, <2>2
<1>3. CASE R(k)!Tick
  BY <1>3, ControlStays DEF R!Tick, R!control, R!loops
<1> QED BY <1>1, <1>2, <1>3, ControlStart, <1>ControlStop, <1>ControlStopChild, <1>ControlStopRelock
       DEF R!Next, R!StopStep

(* Every step keeps the types of clock, timers, mutexes and pushCh, and the *)
(* clock does not go back.                                                 *)
LEMMA TimeStep ==
  ASSUME NEW k \in DOMAIN Size, TimeInv(k), DataInv(k), R(k)!Next
  PROVE  TimeInv(k)' /\ now' >= now
<1>0. wan \in R(k)!Routers /\ now \in Nat /\ Size[k].time \in Nat /\ Size[k].starts \in Nat
  BY SizeIs, Numbers DEF R!Routers, TimeInv
<1>1. CASE UNCHANGED <<now, entered, wake, mutex, pushCh>>
  BY <1>0, <1>1, Numbers DEF TimeInv
<1>2. CASE UNCHANGED <<now, entered, wake, mutex>> /\ pushCh' \in [R(k)!Routers -> BOOLEAN]
  BY <1>0, <1>2, Numbers DEF TimeInv
<1>3. ASSUME NEW r, NEW x, NEW to, R(k)!Push(r, x, to)
      PROVE  pushCh' \in [R(k)!Routers -> BOOLEAN]
  BY <1>3 DEF R!Push, TimeInv, R!Signals
<1>4. ASSUME NEW r \in R(k)!Routers, NEW to, R(k)!Send(r, to)
      PROVE  TimeInv(k)' /\ now' >= now
  BY <1>2, <1>3, <1>4 DEF R!Send, R!loops
<1>5. ASSUME NEW l \in R(k)!Loops, R(k)!LoopStep(l)
      PROVE  TimeInv(k)' /\ now' >= now
  <2>0. l[1] \in R(k)!Routers /\ l[2] \in 0..Size[k].starts
    BY SizeIs, LoopIs, Numbers
  <2>m. ASSUME NEW v \in 0..Size[k].starts, mutex' = [mutex EXCEPT ![l[1]] = v]
        PROVE  mutex' \in [R(k)!Routers -> 0..Size[k].starts]
    BY <2>0, <2>m DEF TimeInv
  <2>z. 0 \in 0..Size[k].starts
    BY <1>0, Numbers
  <2>1. CASE R(k)!Lock(l)
    <3>1. entered' = [entered EXCEPT ![l] = now] /\ now' = now /\ wake' = wake /\ pushCh' = pushCh
      BY <2>1 DEF R!Lock, R!routing
    <3>2. mutex' \in [R(k)!Routers -> 0..Size[k].starts]
      BY <2>1, <2>0, <2>m DEF R!Lock
    <3> QED BY <1>0, <3>1, <3>2, Numbers DEF TimeInv
  <2>2. CASE R(k)!Relock(l)
    <3>1. UNCHANGED <<now, entered, wake, pushCh>> /\ mutex' \in [R(k)!Routers -> 0..Size[k].starts]
      BY <2>2, <2>0, <2>m DEF R!Relock, R!routing
    <3> QED BY <1>0, <3>1, Numbers DEF TimeInv
  <2>3. CASE R(k)!Drained(l) \/ R(k)!Forward(l) \/ R(k)!TranslateFails(l)
    <3>1. UNCHANGED <<now, entered, wake, pushCh>> /\ mutex' \in [R(k)!Routers -> 0..Size[k].starts]
      BY <2>3, <2>m, <2>z DEF R!Drained, R!Forward, R!TranslateFails, R!Leave, R!routing
    <3> QED BY <1>0, <3>1, Numbers DEF TimeInv
  <2>4. CASE R(k)!NotDue(l)
    <3>1. /\ UNCHANGED <<now, entered, pushCh>> /\ mutex' \in [R(k)!Routers -> 0..Size[k].starts]
          /\ queue[l[1]] # <<>> /\ ~R(k)!Due(l)
      BY <2>4, <2>m, <2>z DEF R!NotDue, R!Leave, R!routing
    <3>2. wake' \in [R(k)!Loops -> 0..Size[k].time]
      <4>1. PICK t \in Nat : t = Head(queue[l[1]]).ts
        <5>1. queue[l[1]] \in Seq(R(k)!Chunks)
          BY <2>0 DEF DataInv
        <5>2. Head(queue[l[1]]) \in R(k)!Chunks
          BY <3>1, <5>1, Rest
        <5> QED BY <1>0, <5>2, Numbers DEF R!Chunks
      <4>2. entered[l] \in Nat /\ ~(t + Size[k].minDelay <= entered[l]) /\ Size[k].minDelay \in Nat
        BY <1>0, <3>1, <4>1, SizeIs, Numbers DEF R!Due, TimeInv
      <4>3. PICK d \in Nat : d = (t + Size[k].minDelay) - entered[l]
        BY <4>2, SMT
      <4>4. PICK v : wake' = [wake EXCEPT ![l] = v] /\ v = IF now + d < Size[k].time THEN now + d ELSE Size[k].time
        BY <2>4, <4>1, <4>3 DEF R!NotDue
      <4>5. v \in 0..Size[k].time
        BY <1>0, <4>4, SMT
      <4> QED BY <4>4, <4>5 DEF TimeInv
    <3> QED BY <1>0, <3>1, <3>2, Numbers DEF TimeInv
  <2>5. CASE R(k)!DropChunk(l) \/ R(k)!TimerFires(l) \/ R(k)!Cancelled(l)
    BY <1>1, <2>5 DEF R!DropChunk, R!TimerFires, R!Cancelled, R!routing, R!loops
  <2>6. CASE R(k)!Signalled(l)
    <3>1. UNCHANGED <<now, entered, wake, mutex>> /\ pushCh' = [pushCh EXCEPT ![l[1]] = FALSE]
      BY <2>6 DEF R!Signalled
    <3>2. pushCh' \in [R(k)!Routers -> BOOLEAN]
      BY <3>1 DEF TimeInv
    <3> QED BY <1>2, <3>1, <3>2
  <2>7. CASE R(k)!Handover(l)
    <3>1. UNCHANGED <<now, entered, wake, mutex>>
      BY <2>7 DEF R!Handover
    <3>2. pushCh' = pushCh \/ \E r, x, to : R(k)!Push(r, x, to)
      BY <2>7 DEF R!Handover
    <3> QED BY <1>1, <1>2, <1>3, <3>1, <3>2
  <2> QED BY <1>5, <2>1, <2>2, <2>3, <2>4, <2>5, <2>6, <2>7 DEF R!LoopStep
<1>6. CASE R(k)!Tick
  <2>1. UNCHANGED <<entered, wake, mutex, pushCh>> /\ now' = now + 1 /\ now < Size[k].time
    BY <1>6 DEF R!Tick, R!routing, R!loops
  <2>2. now' \in 0..Size[k].time /\ now' >= now /\ \A l \in R(k)!Loops : entered[l] <= now'
    BY <1>0, <2>1, SMT DEF TimeInv
  <2> QED BY <2>1, <2>2 DEF TimeInv
<1>7. ASSUME NEW a, R(k)!Start(a) \/ R(k)!Stop(a) \/ R(k)!StopStep(a)
      PROVE  TimeInv(k)' /\ now' >= now
  BY <1>1, <1>7 DEF R!Start, R!Stop, R!StopStep, R!StopChild, R!StopRelock, R!routing, R!loops
<1> QED BY <1>4, <1>5, <1>6, <1>7 DEF R!Next

(* A step that moves no chunk, and one in which processChunks drops one. *)
Still(k) ==
  /\ UNCHANGED <<queue, hand, sent, gone>> /\ (starts' = starts \/ starts'[wan] >= starts[wan])
  /\ \A l \in R(k)!Loops : pc'[l] = "forward" <=> pc[l] = "forward"
Dropped(k, l) ==
  /\ R(k)!DueChunk(l) /\ queue' = [queue EXCEPT ![l[1]] = Tail(queue[l[1]])]
  /\ gone' = gone \cup {<<l[1], Head(queue[l[1]]).id>>}
  /\ UNCHANGED <<sent, hand, starts, now>>
  /\ \A m \in R(k)!Loops : pc'[m] = "forward" <=> pc[m] = "forward"
(* A step moves no chunk, or sends, drops, forwards or hands over one. *)
LEMMA Kinds ==
  ASSUME NEW k \in DOMAIN Size, ControlInv(k), R(k)!Next
  PROVE  \/ Still(k)
         \/ \E r \in R(k)!Routers, to \in R(k)!Routers \cup {"nowhere"} : R(k)!Send(r, to)
         \/ \E l \in R(k)!Loops : Dropped(k, l) \/ R(k)!Forward(l) \/ R(k)!Handover(l)
<1>NoFewer. ASSUME NEW x \in Nat, NEW y, y = x + 0 \/ y = x + 1
            PROVE  y >= x
  BY <1>NoFewer, SMT
<1>1. pc \in [R(k)!Loops -> Places]
  BY DEF ControlInv
<1>2. ASSUME NEW l \in R(k)!Loops, pc[l] # "forward", NEW to, to # "forward", pc' = [pc EXCEPT ![l] = to]
      PROVE  \A m \in R(k)!Loops : pc'[m] = "forward" <=> pc[m] = "forward"
  BY <1>1, <1>2
<1>3. ASSUME NEW l \in R(k)!Loops, R(k)!DropChunk(l) \/ R(k)!TranslateFails(l)
      PROVE  Dropped(k, l)
  <2>1. /\ R(k)!DueChunk(l) /\ queue' = [queue EXCEPT ![l[1]] = Tail(queue[l[1]])]
        /\ gone' = gone \cup {<<l[1], Head(queue[l[1]]).id>>}
        /\ UNCHANGED <<sent, hand, starts, now>> /\ (pc' = pc \/ pc' = [pc EXCEPT ![l] = "done"])
    BY <1>3 DEF R!DropChunk, R!TranslateFails, R!Leave, R!Popped, R!control, R!loops
  <2>2. pc[l] = "body"
    BY <2>1 DEF R!DueChunk, R!InBody
  <2>3. \A m \in R(k)!Loops : pc'[m] = "forward" <=> pc[m] = "forward"
    BY <1>2, <2>1, <2>2
  <2> QED BY <2>1, <2>3 DEF Dropped
<1>4. ASSUME NEW l \in R(k)!Loops,
             \/ R(k)!Lock(l) \/ R(k)!Drained(l) \/ R(k)!NotDue(l) \/ R(k)!Relock(l)
             \/ R(k)!Signalled(l) \/ R(k)!TimerFires(l) \/ R(k)!Cancelled(l)
      PROVE  Still(k)
  <2>1. UNCHANGED <<queue, hand, sent, gone, starts>>
    BY <1>4 DEF R!Lock, R!Drained, R!NotDue, R!Relock, R!Signalled, R!TimerFires, R!Cancelled,
       R!routing, R!control
  <2>2. /\ pc[l] \in {"process", "body", "relock", "wait", "sleep"}
        /\ \E to \in {"process", "body", "wait", "sleep", "done"} : pc' = [pc EXCEPT ![l] = to]
    BY <1>4 DEF R!Lock, R!Drained, R!NotDue, R!Relock, R!Signalled, R!TimerFires, R!Cancelled, R!InBody, R!Leave
  <2>3. \A m \in R(k)!Loops : pc'[m] = "forward" <=> pc[m] = "forward"
    BY <1>2, <2>2
  <2> QED BY <2>1, <2>3 DEF Still
<1>5. CASE R(k)!Tick
  BY <1>5 DEF R!Tick, Still, R!routing, R!control, R!loops
<1>6. ASSUME NEW a \in Size[k].apps, R(k)!Stop(a) \/ R(k)!StopStep(a)
      PROVE  Still(k)
  BY <1>6 DEF R!Stop, R!StopStep, R!StopChild, R!StopRelock, Still, R!routing, R!loops
<1>7. ASSUME NEW a \in Size[k].apps, R(k)!Start(a)
      PROVE  Still(k)
  <2>1. \A l \in R(k)!Loops : pc'[l] # pc[l] => pc'[l] = "process" /\ pc[l] = "none"
    BY <1>7, ControlStart
  <2>2. \A l \in R(k)!Loops : pc'[l] = "forward" <=> pc[l] = "forward"
    BY <2>1
  <2>3. starts'[wan] >= starts[wan]
    <3>1. wan \in R(k)!Routers /\ starts[wan] \in Nat
      BY SizeIs, Numbers DEF ControlInv, R!Routers
    <3>2. starts'[wan] = starts[wan] + 0 \/ starts'[wan] = starts[wan] + 1
      BY <1>7, <3>1 DEF R!Start
    <3> QED BY <3>1, <3>2, <1>NoFewer
  <2>4. UNCHANGED <<queue, hand, sent, gone>>
    BY <1>7 DEF R!Start, R!routing
  <2> QED BY <2>2, <2>3, <2>4 DEF Still
<1> QED BY <1>3, <1>4, <1>5, <1>6, <1>7 DEF R!Next, R!LoopStep, R!Nowhere

(* The id of a chunk, where it goes, and when it was pushed. *)
LEMMA ChunkParts ==
  ASSUME NEW k \in DOMAIN Size, NEW c \in R(k)!Chunks
  PROVE  c.id \in 1..Size[k].chunks /\ c.to \in R(k)!Routers \cup {"nowhere"} /\ c.ts \in 0..Size[k].time
  BY DEF R!Chunks, R!Nowhere

(* What push does with the chunk x for to at the router r: it queues it, or it drops it. *)
Pushes(k, r, x, to) ==
  \E c \in R(k)!Chunks : /\ c.id = x /\ c.to = to /\ gone' = gone
                         /\ queue' = [queue EXCEPT ![r] = Append(queue[r], c)]
LosesOne(r, x) == gone' = gone \cup {<<r, x>>} /\ queue' = queue

(* push queues a chunk or drops it. *)
LEMMA PushKinds ==
  ASSUME NEW k \in DOMAIN Size, DataInv(k), TimeInv(k), NEW r \in R(k)!Routers, NEW x \in 1..Size[k].chunks,
         NEW to \in R(k)!Routers \cup {"nowhere"}, R(k)!Push(r, x, to)
  PROVE  /\ Pushes(k, r, x, to) \/ LosesOne(r, x)
         /\ queue' \in [R(k)!Routers -> Seq(R(k)!Chunks)]
         /\ \A s \in R(k)!Routers : (Size[k].queueSize > 0 => Len(queue'[s]) <= Size[k].queueSize)
<1>OneMore. ASSUME NEW n \in Nat, NEW m \in Nat, NEW y, n = 0 \/ m < n, y = m + 1, n > 0
            PROVE  y <= n
  BY <1>OneMore, SMT
<1>1. CASE ~(stopFunc[r] # 0 /\ R(k)!HasRoom(r))
  BY <1>1 DEF R!Push, DataInv, LosesOne
<1>2. CASE stopFunc[r] # 0 /\ R(k)!HasRoom(r)
  <2>1. PICK c \in R(k)!Chunks : c = [id |-> x, to |-> to, ts |-> now]
    BY DEF TimeInv, R!Chunks, R!Nowhere
  <2>2. c.id = x /\ c.to = to
    BY <2>1
  <2>3. /\ gone' = gone /\ queue' = [queue EXCEPT ![r] = Append(queue[r], c)]
        /\ Size[k].queueSize = 0 \/ Len(queue[r]) < Size[k].queueSize
    BY <1>2, <2>1 DEF R!Push, R!Enqueued, R!HasRoom
  <2>4. /\ Append(queue[r], c) \in Seq(R(k)!Chunks) /\ Len(queue[r]) \in Nat
        /\ Len(Append(queue[r], c)) = Len(queue[r]) + 1
    <3>1. queue[r] \in Seq(R(k)!Chunks)
      BY DEF DataInv
    <3> QED BY <3>1, Longer, SMT
  <2>5. Size[k].queueSize > 0 => Len(Append(queue[r], c)) <= Size[k].queueSize
    BY <2>3, <2>4, SizeIs, <1>OneMore
  <2>6. queue' \in [R(k)!Routers -> Seq(R(k)!Chunks)]
    BY <2>3, <2>4 DEF DataInv
  <2>7. \A s \in R(k)!Routers : (Size[k].queueSize > 0 => Len(queue'[s]) <= Size[k].queueSize)
    BY <2>3, <2>5 DEF DataInv
  <2> QED BY <2>2, <2>3, <2>6, <2>7 DEF Pushes
<1> QED BY <1>1, <1>2

(* Chunks are where they may be, and each in one place. *)
ChunkInv(k) == DataInv(k) /\ HandInv(k) /\ IdInv(k) /\ SentInv(k)

(* What holds of queues and hands. *)
LEMMA BoxFacts ==
  ASSUME NEW k \in DOMAIN Size, ChunkInv(k)
  PROVE  /\ queue \in [R(k)!Routers -> Seq(R(k)!Chunks)] /\ hand \in [R(k)!Loops -> Seq(R(k)!Chunks)]
         /\ sent \in [R(k)!Routers -> Seq(1..Size[k].chunks)]
         /\ Apart(k, BoxOf(k, queue, hand), PastOf(k, sent, gone))
         /\ BoxOf(k, queue, hand) \in [Boxes(k) -> Seq(R(k)!Chunks)]
         /\ Alone(k, BoxOf(k, queue, hand)) /\ Ahead(k, BoxOf(k, queue, hand), PastOf(k, sent, gone))
  BY DEF ChunkInv, DataInv, IdInv, Apart

(* Handover pushes the chunk to another router, whose NAT may drop it, or  *)
(* leaves it to a host.                                                    *)
LEMMA HandKinds ==
  ASSUME NEW k \in DOMAIN Size, ChunkInv(k), NEW l \in R(k)!Loops, R(k)!Handover(l)
  PROVE  \E c \in R(k)!Chunks :
           /\ hand[l] = <<c>> /\ pc[l] = "forward" /\ pc' = [pc EXCEPT ![l] = "relock"]
           /\ hand' = Put(hand, l, <<>>) /\ sent' = Put(sent, l[1], Append(sent[l[1]], c.id))
           /\ UNCHANGED <<starts, now>>
           /\ \/ \E s : /\ (l[1] # wan /\ s = wan) \/ (l[1] = wan /\ s = c.to /\ c.to # "nowhere")
                        /\ c.to # l[1]
                        /\ R(k)!Push(s, c.id, c.to) \/ (gone' = gone \cup {<<s, c.id>>} /\ queue' = queue)
              \/ c.to = l[1] /\ UNCHANGED <<queue, gone>>
<1>1. pc[l] = "forward" /\ HandInv(k)
  BY DEF R!Handover, ChunkInv
<1>2. PICK c \in R(k)!Chunks : hand[l] = <<c>> /\ (l[1] = wan => c.to # "nowhere")
  BY <1>1 DEF HandInv
<1>3. hand[l][1] = c
  BY <1>2, SMT
<1>4. /\ pc' = [pc EXCEPT ![l] = "relock"] /\ hand' = Put(hand, l, <<>>)
      /\ sent' = Put(sent, l[1], Append(sent[l[1]], c.id)) /\ UNCHANGED <<starts, now>>
  BY <1>3 DEF R!Handover, R!control, Put
<1>5. \/ l[1] # wan /\ c.to # l[1] /\ R(k)!Push(wan, c.id, c.to)
      \/ l[1] = wan /\ c.to # wan /\ R(k)!Push(c.to, c.id, c.to)
      \/ l[1] = wan /\ c.to # wan /\ gone' = gone \cup {<<c.to, c.id>>} /\ queue' = queue
      \/ c.to = l[1] /\ UNCHANGED <<queue, gone>>
  BY <1>3 DEF R!Handover
<1>6. \/ \E s : /\ (l[1] # wan /\ s = wan) \/ (l[1] = wan /\ s = c.to /\ c.to # "nowhere")
                /\ c.to # l[1]
                /\ R(k)!Push(s, c.id, c.to) \/ (gone' = gone \cup {<<s, c.id>>} /\ queue' = queue)
      \/ c.to = l[1] /\ UNCHANGED <<queue, gone>>
  BY <1>2, <1>5
<1> QED BY <1>1, <1>2, <1>4, <1>6

(* t is what s was and x. *)
More(s, t, x) ==
  \E n \in Nat : /\ DOMAIN s = 1..n /\ DOMAIN t = 1..(n + 1) /\ t[n + 1] = x
                /\ \A i \in 1..n : t[i] = s[i]
(* A router has handed over one more chunk. *)
LEMMA SentMore ==
  ASSUME NEW k \in DOMAIN Size, sent \in [R(k)!Routers -> Seq(1..Size[k].chunks)], NEW r \in R(k)!Routers,
         NEW x \in 1..Size[k].chunks, sent' = Put(sent, r, Append(sent[r], x)), NEW g
  PROVE  /\ sent' \in [R(k)!Routers -> Seq(1..Size[k].chunks)]
         /\ PastOf(k, sent', g) = With(k, PastOf(k, sent, g), r, x)
         /\ \A t \in R(k)!Routers \ {r} : sent'[t] = sent[t]
         /\ More(sent[r], sent'[r], x)
(* A router has handed over another chunk. *)
<1>PastSent. ASSUME NEW s \in [R(k)!Routers -> Seq(1..Size[k].chunks)]
             PROVE  PastOf(k, Put(s, r, Append(s[r], x)), g) = With(k, PastOf(k, s, g), r, x)
  <2>1. R(k)!Contents(Append(s[r], x)) = R(k)!Contents(s[r]) \cup {x}
    <3>1. PICK t \in Seq(1..Size[k].chunks) : t = s[r]
      OBVIOUS
    <3>n. PICK n \in Nat : n = Len(t)
      BY Longer, SMT
    <3>u. PICK u \in Seq(1..Size[k].chunks) : u = Append(t, x)
      BY Longer
    <3>2. /\ u = Append(t, x) /\ DOMAIN t = 1..n /\ DOMAIN u = 1..(n + 1) /\ u[n + 1] = x
          /\ \A i \in 1..n : u[i] = t[i]
      BY <3>n, <3>u, Longer, SMT
    <3>3. {u[i] : i \in DOMAIN u} = {t[i] : i \in DOMAIN t} \cup {x}
      <4>1. /\ \A i \in DOMAIN u : i \in DOMAIN t \/ i = n + 1
            /\ \A i \in DOMAIN t : i \in DOMAIN u
            /\ n + 1 \in DOMAIN u /\ \A i \in DOMAIN t : u[i] = t[i]
        BY <3>2, SMT
      <4> QED BY <3>2, <4>1
    <3>4. R(k)!Contents(u) = R(k)!Contents(t) \cup {x}
      BY <3>3 DEF R!Contents
    <3> QED BY <3>1, <3>2, <3>4
  <2> QED BY <2>1 DEF PastOf, With, Put
<1>1. PastOf(k, Put(sent, r, Append(sent[r], x)), g) = With(k, PastOf(k, sent, g), r, x)
  BY <1>PastSent
<1>2. /\ Append(sent[r], x) \in Seq(1..Size[k].chunks) /\ Len(sent[r]) \in Nat
      /\ DOMAIN sent[r] = 1..Len(sent[r]) /\ DOMAIN Append(sent[r], x) = 1..(Len(sent[r]) + 1)
      /\ Append(sent[r], x)[Len(sent[r]) + 1] = x /\ \A i \in 1..Len(sent[r]) : Append(sent[r], x)[i] = sent[r][i]
  BY Longer, SMT
<1>3. /\ sent' \in [R(k)!Routers -> Seq(1..Size[k].chunks)] /\ sent'[r] = Append(sent[r], x)
      /\ \A t \in R(k)!Routers \ {r} : sent'[t] = sent[t]
  BY <1>2 DEF Put
<1>4. More(sent[r], sent'[r], x)
  BY <1>2, <1>3 DEF More
<1> QED BY <1>1, <1>3, <1>4

(* Every step keeps what holds of chunks. *)
LEMMA ChunkStep ==
  ASSUME NEW k \in DOMAIN Size, ControlInv(k), TimeInv(k), ChunkInv(k), TimeInv(k)', now' >= now, R(k)!Next
  PROVE  ChunkInv(k)'
(* The first chunk of a queue is popped, or the one in hand let go. *)
<1>Taken. ASSUME NEW P, NEW B \in [Boxes(k) -> Seq(R(k)!Chunks)], NEW a \in Boxes(k), B[a] # <<>>,
                 Alone(k, B), Ahead(k, B, P), NEW C, C = Put(B, a, Tail(B[a])),
                 NEW h, h = Head(B[a])
          PROVE  /\ Free(k, B, C, P, h.id) /\ h \in R(k)!Chunks
                 /\ \A s \in Way(k, a[1], h.to) : h.id \notin P[s]
  <2> USE <1>Taken
  <2>1. PICK n \in Nat :
          /\ n >= 1 /\ h = B[a][1] /\ h \in R(k)!Chunks /\ DOMAIN B[a] = 1..n /\ DOMAIN C[a] = 1..(n - 1)
          /\ C[a] \in Seq(R(k)!Chunks) /\ \A i \in 1..(n - 1) : C[a][i] = B[a][i + 1]
    <3>1. C[a] = Tail(B[a]) /\ B[a] \in Seq(R(k)!Chunks)
      BY DEF Put
    <3> QED BY <3>1, Rest
  <2>2. \A b \in Boxes(k) : b # a => C[b] = B[b]
    BY DEF Put
  <2>3. C \in [Boxes(k) -> Seq(R(k)!Chunks)]
    BY <2>1 DEF Put
  <2>4. \A b \in Boxes(k) : \A i \in DOMAIN C[b] : \E j \in DOMAIN B[b] :
          C[b][i] = B[b][j] /\ (b = a => j = i + 1 /\ i \in 1..(n - 1)) /\ (b # a => j = i)
    <3>1. SUFFICES ASSUME NEW b \in Boxes(k), NEW i \in DOMAIN C[b]
                   PROVE  \E j \in DOMAIN B[b] :
                            C[b][i] = B[b][j] /\ (b = a => j = i + 1 /\ i \in 1..(n - 1)) /\ (b # a => j = i)
      OBVIOUS
    <3>2. CASE b = a
      BY <2>1, <3>2, SMT
    <3>3. CASE b # a
      BY <2>2, <3>3
    <3> QED BY <3>2, <3>3
  <2>5. Alone(k, C)
    <3>1. SUFFICES ASSUME NEW b \in Boxes(k), NEW c \in Boxes(k), NEW i \in DOMAIN C[b], NEW j \in DOMAIN C[c],
                          C[b][i].id = C[c][j].id
                   PROVE  b = c /\ i = j
      BY DEF Alone
    <3>2. PICK m \in DOMAIN B[b] :
            C[b][i] = B[b][m] /\ (b = a => m = i + 1 /\ i \in 1..(n - 1)) /\ (b # a => m = i)
      BY <2>4
    <3>3. PICK o \in DOMAIN B[c] :
            C[c][j] = B[c][o] /\ (c = a => o = j + 1 /\ j \in 1..(n - 1)) /\ (c # a => o = j)
      BY <2>4
    <3>4. b = c /\ m = o
      <4>1. B[b][m].id = B[c][o].id
        BY <3>1, <3>2, <3>3
      <4> QED BY <4>1 DEF Alone
    <3>5. CASE b = a
      BY <3>2, <3>3, <3>4, <3>5, SMT
    <3> QED BY <3>2, <3>3, <3>4, <3>5
  <2>6. Ahead(k, C, P)
    <3>1. SUFFICES ASSUME NEW b \in Boxes(k), NEW i \in DOMAIN C[b], NEW s \in Way(k, b[1], C[b][i].to)
                   PROVE  C[b][i].id \notin P[s]
      BY DEF Ahead
    <3>2. PICK m \in DOMAIN B[b] : C[b][i] = B[b][m]
      BY <2>4
    <3>3. s \in Way(k, b[1], B[b][m].to)
      BY <3>2
    <3> QED BY <3>2, <3>3 DEF Ahead
  <2>7. 1 \in DOMAIN B[a]
    BY <2>1, OneFirst
  <2>8. InNone(k, C, h.id)
    <3>1. SUFFICES ASSUME NEW b \in Boxes(k), NEW i \in DOMAIN C[b], C[b][i].id = h.id
                   PROVE  FALSE
      BY DEF InNone
    <3>2. PICK m \in DOMAIN B[b] :
            C[b][i] = B[b][m] /\ (b = a => m = i + 1 /\ i \in 1..(n - 1)) /\ (b # a => m = i)
      BY <2>4
    <3>3. b = a /\ m = 1
      <4>1. B[b][m].id = B[a][1].id
        BY <2>1, <3>1, <3>2
      <4>2. \A j \in DOMAIN B[a] : B[b][m].id = B[a][j].id => b = a /\ m = j
        BY DEF Alone
      <4> QED BY <2>7, <4>1, <4>2
    <3>4. 1 = i + 1 /\ i \in 1..(n - 1)
      BY <3>2, <3>3
    <3> QED BY <3>4, SMT
  <2>9. \A s \in Way(k, a[1], h.to) : h.id \notin P[s]
    BY <2>1, <2>7 DEF Ahead
  <2>10. ASSUME NEW x
         PROVE  ~InNone(k, B, x) <=> ~InNone(k, C, x) \/ x = h.id
    <3>1. ASSUME NEW b \in Boxes(k), NEW i \in DOMAIN B[b], B[b][i].id = x, x # h.id
          PROVE  ~InNone(k, C, x)
      <4>1. CASE b = a
        <5>1. i \in 1..n /\ i # 1
          BY <2>1, <3>1, <4>1
        <5>2. PICK j \in DOMAIN C[a] : C[a][j] = B[a][i]
          <6>1. i - 1 \in 1..(n - 1) /\ (i - 1) + 1 = i
            BY <5>1, SMT
          <6> QED BY <2>1, <6>1
        <5> QED BY <3>1, <4>1, <5>2 DEF InNone
      <4>2. CASE b # a
        BY <2>2, <3>1, <4>2 DEF InNone
      <4> QED BY <4>1, <4>2
    <3>2. ~InNone(k, C, x) => ~InNone(k, B, x)
      <4>1. ASSUME NEW b \in Boxes(k), NEW i \in DOMAIN C[b], C[b][i].id = x
            PROVE  \E j \in DOMAIN B[b] : B[b][j].id = x
        <5>1. PICK j \in DOMAIN B[b] : C[b][i] = B[b][j]
          BY <2>4
        <5> QED BY <4>1, <5>1
      <4> QED BY <4>1 DEF InNone
    <3>3. x = h.id => ~InNone(k, B, x)
      BY <2>1, <2>7 DEF InNone
    <3> QED BY <3>1, <3>2, <3>3 DEF InNone
  <2>11. \A x : InUse(k, B, P, x) <=> InUse(k, C, P, x) \/ x = h.id
    BY <2>10 DEF InUse
  <2>12. Free(k, B, C, P, h.id)
    BY <2>3, <2>5, <2>6, <2>8, <2>11 DEF Free
  <2> QED BY <2>1, <2>9, <2>12
(* A chunk whose id is in no box is pushed, or taken in hand. *)
<1>Placed. ASSUME NEW P, NEW B \in [Boxes(k) -> Seq(R(k)!Chunks)], NEW a \in Boxes(k),
                  Alone(k, B), Ahead(k, B, P), NEW c \in R(k)!Chunks,
                  InNone(k, B, c.id), \A s \in Way(k, a[1], c.to) : c.id \notin P[s],
                  NEW C, C = Put(B, a, Append(B[a], c))
           PROVE  /\ C \in [Boxes(k) -> Seq(R(k)!Chunks)] /\ Alone(k, C) /\ Ahead(k, C, P)
                  /\ \A x : InUse(k, C, P, x) <=> InUse(k, B, P, x) \/ x = c.id
  <2> USE <1>Placed
  <2>1. PICK n \in Nat :
          /\ DOMAIN B[a] = 1..n /\ DOMAIN C[a] = 1..(n + 1) /\ C[a] \in Seq(R(k)!Chunks) /\ C[a][n + 1] = c
          /\ \A i \in 1..n : C[a][i] = B[a][i]
    <3>1. C[a] = Append(B[a], c) /\ B[a] \in Seq(R(k)!Chunks)
      BY DEF Put
    <3> QED BY <3>1, Longer, SMT
  <2>2. \A b \in Boxes(k) : b # a => C[b] = B[b]
    BY DEF Put
  <2>3. C \in [Boxes(k) -> Seq(R(k)!Chunks)]
    BY <2>1 DEF Put
  <2>4. n + 1 \in DOMAIN C[a] /\ n + 1 \notin DOMAIN B[a] /\ DOMAIN B[a] \subseteq DOMAIN C[a]
        /\ \A i \in DOMAIN C[a] : i = n + 1 \/ i \in DOMAIN B[a]
    BY <2>1, SMT
  <2>5. \A b \in Boxes(k) : \A i \in DOMAIN C[b] :
          \/ b = a /\ i = n + 1 /\ C[b][i] = c
          \/ i \in DOMAIN B[b] /\ C[b][i] = B[b][i]
    BY <2>1, <2>2, <2>4
  <2>6. Alone(k, C)
    <3>1. SUFFICES ASSUME NEW b \in Boxes(k), NEW e \in Boxes(k), NEW i \in DOMAIN C[b], NEW j \in DOMAIN C[e],
                          C[b][i].id = C[e][j].id
                   PROVE  b = e /\ i = j
      BY DEF Alone
    <3>2. CASE b = a /\ i = n + 1 /\ C[b][i] = c
      BY <2>5, <3>1, <3>2, SMT DEF InNone
    <3>3. CASE i \in DOMAIN B[b] /\ C[b][i] = B[b][i]
      <4>1. CASE e = a /\ j = n + 1 /\ C[e][j] = c
        BY <3>1, <3>3, <4>1 DEF InNone
      <4>2. CASE j \in DOMAIN B[e] /\ C[e][j] = B[e][j]
        BY <3>1, <3>3, <4>2, SMT DEF Alone
      <4> QED BY <2>5, <4>1, <4>2
    <3> QED BY <2>5, <3>2, <3>3
  <2>7. Ahead(k, C, P)
    <3>1. SUFFICES ASSUME NEW b \in Boxes(k), NEW i \in DOMAIN C[b], NEW s \in Way(k, b[1], C[b][i].to)
                   PROVE  C[b][i].id \notin P[s]
      BY DEF Ahead
    <3>2. CASE b = a /\ i = n + 1 /\ C[b][i] = c
      BY <3>1, <3>2
    <3>3. CASE i \in DOMAIN B[b] /\ C[b][i] = B[b][i]
      <4>1. s \in Way(k, b[1], B[b][i].to)
        BY <3>3
      <4> QED BY <3>3, <4>1 DEF Ahead
    <3> QED BY <2>5, <3>2, <3>3
  <2>8. ASSUME NEW x
        PROVE  ~InNone(k, C, x) <=> ~InNone(k, B, x) \/ x = c.id
    <3>1. ASSUME NEW b \in Boxes(k), NEW i \in DOMAIN B[b], B[b][i].id = x
          PROVE  ~InNone(k, C, x)
      <4>1. i \in DOMAIN C[b] /\ C[b][i] = B[b][i]
        BY <2>1, <2>2, <2>4
      <4> QED BY <3>1, <4>1 DEF InNone
    <3>2. x = c.id => ~InNone(k, C, x)
      BY <2>1, <2>4 DEF InNone
    <3>3. ~InNone(k, C, x) => ~InNone(k, B, x) \/ x = c.id
      <4>1. ASSUME NEW b \in Boxes(k), NEW i \in DOMAIN C[b], C[b][i].id = x, x # c.id
            PROVE  \E j \in DOMAIN B[b] : B[b][j].id = x
        <5>1. C[b][i] # c
          BY <4>1
        <5>2. i \in DOMAIN B[b] /\ C[b][i] = B[b][i]
          BY <2>5, <5>1
        <5> QED BY <4>1, <5>2
      <4> QED BY <4>1 DEF InNone
    <3> QED BY <3>1, <3>2, <3>3 DEF InNone
  <2> QED BY <2>3, <2>6, <2>7, <2>8 DEF InUse
(* A chunk that is in no box was forwarded or dropped by one router more. *)
<1>Passed. ASSUME NEW B, NEW P, NEW r \in R(k)!Routers, NEW x,
                  Ahead(k, B, P), InNone(k, B, x)
           PROVE  /\ Ahead(k, B, With(k, P, r, x))
                  /\ \A y : InUse(k, B, With(k, P, r, x), y) <=> InUse(k, B, P, y) \/ y = x
  <2> USE <1>Passed
  <2>0. PICK Q : /\ Q = With(k, P, r, x) /\ Q[r] = P[r] \cup {x}
                 /\ \A s \in R(k)!Routers \ {r} : Q[s] = P[s]
    BY DEF With
  <2>1. \A b \in Boxes(k) : \A to : \A s \in Way(k, b[1], to) : s \in R(k)!Routers
    BY DEF Boxes, Way, R!Routers
  <2>2. \A s \in R(k)!Routers : \A y : y \in Q[s] => y \in P[s] \/ (s = r /\ y = x)
    BY <2>0
  <2>3. Ahead(k, B, Q)
    <3>1. SUFFICES ASSUME NEW b \in Boxes(k), NEW i \in DOMAIN B[b], NEW s \in Way(k, b[1], B[b][i].to)
                   PROVE  B[b][i].id \notin Q[s]
      BY DEF Ahead
    <3>2. s \in R(k)!Routers
      BY <2>1
    <3>3. B[b][i].id \notin P[s] /\ B[b][i].id # x
      BY DEF Ahead, InNone
    <3> QED BY <2>2, <3>2, <3>3
  <2>4. \A y : InUse(k, B, Q, y) <=> InUse(k, B, P, y) \/ y = x
    BY <2>0, <2>2 DEF InUse
  <2> QED BY <2>0, <2>3, <2>4
(* DropChunk, TranslateFails and Handover: a chunk leaves a router, which  *)
(* has then forwarded or dropped it.                                       *)
<1>Leaves. ASSUME NEW P, NEW B, Apart(k, B, P), NEW C, NEW x, Free(k, B, C, P, x),
                  NEW r \in R(k)!Routers
           PROVE  Apart(k, C, With(k, P, r, x)) /\ InNone(k, C, x) /\ InUse(k, C, With(k, P, r, x), x)
  <2> USE <1>Leaves
  <2>1. C \in [Boxes(k) -> Seq(R(k)!Chunks)] /\ Alone(k, C) /\ Ahead(k, C, P) /\ InNone(k, C, x)
    BY DEF Free
  <2>2. \A y : InUse(k, B, P, y) <=> InUse(k, C, P, y) \/ y = x
    BY DEF Free
  <2>q. PICK Q : Q = With(k, P, r, x)
    OBVIOUS
  <2>3. Ahead(k, C, Q) /\ \A y : InUse(k, C, Q, y) <=> InUse(k, C, P, y) \/ y = x
    BY <2>1, <2>q, <1>Passed
  <2>4. (\A y : InUse(k, C, Q, y) <=> InUse(k, B, P, y)) /\ InUse(k, C, Q, x)
    BY <2>2, <2>3
  <2>5. Apart(k, C, Q)
    BY <2>1, <2>3, <2>4 DEF Apart
  <2> QED BY <2>1, <2>q, <2>4, <2>5
(* Forward: the chunk taken from the queue is in hand. *)
<1>Moves. ASSUME NEW P, NEW B, Apart(k, B, P), NEW C, NEW c \in R(k)!Chunks,
                 Free(k, B, C, P, c.id), NEW b \in Boxes(k), \A s \in Way(k, b[1], c.to) : c.id \notin P[s]
          PROVE  Apart(k, Put(C, b, Append(C[b], c)), P)
  <2>1. C \in [Boxes(k) -> Seq(R(k)!Chunks)] /\ Alone(k, C) /\ Ahead(k, C, P) /\ InNone(k, C, c.id)
    BY <1>Moves DEF Free
  <2>u. \A y : InUse(k, B, P, y) <=> InUse(k, C, P, y) \/ y = c.id
    BY <1>Moves DEF Free
  <2>w. \A s \in Way(k, b[1], c.to) : c.id \notin P[s]
    BY <1>Moves
  <2>2. PICK D : D = Put(C, b, Append(C[b], c))
    OBVIOUS
  <2>3. /\ D \in [Boxes(k) -> Seq(R(k)!Chunks)] /\ Alone(k, D) /\ Ahead(k, D, P)
        /\ \A x : InUse(k, D, P, x) <=> InUse(k, C, P, x) \/ x = c.id
    BY ZenonT(30), <2>1, <2>2, <2>w, <1>Placed
  <2>4. \A y : InUse(k, D, P, y) <=> InUse(k, B, P, y)
    BY <2>u, <2>3
  <2>5. Apart(k, D, P)
    BY <2>3, <2>4, <1>Moves DEF Apart
  <2> QED BY <2>2, <2>5
(* A push that queues a chunk which is in no box, whose id is used, or the *)
(* next one.                                                               *)
<1>Queues. ASSUME NEW P, NEW C, Apart(k, C, P), NEW c \in R(k)!Chunks, InNone(k, C, c.id),
                  InUse(k, C, P, c.id) \/ (\A y : InUse(k, C, P, y) <=> y \in 1..(c.id - 1)),
                  NEW b \in Boxes(k), \A s \in Way(k, b[1], c.to) : c.id \notin P[s],
                  NEW D, D = Put(C, b, Append(C[b], c))
           PROVE  Apart(k, D, P)
  <2> USE <1>Queues
  <2>1. C \in [Boxes(k) -> Seq(R(k)!Chunks)] /\ Alone(k, C) /\ Ahead(k, C, P)
    BY DEF Apart
  <2>2. /\ D \in [Boxes(k) -> Seq(R(k)!Chunks)] /\ Alone(k, D) /\ Ahead(k, D, P)
        /\ \A x : InUse(k, D, P, x) <=> InUse(k, C, P, x) \/ x = c.id
    BY <2>1, <1>Placed
  <2>3. CASE InUse(k, C, P, c.id)
    <3>1. \A x : InUse(k, D, P, x) <=> InUse(k, C, P, x)
      BY <2>2, <2>3
    <3> QED BY <2>2, <3>1 DEF Apart
  <2>4. CASE \A y : InUse(k, C, P, y) <=> y \in 1..(c.id - 1)
    <3>1. c.id \in 1..Size[k].chunks
      BY DEF R!Chunks
    <3>2. \A y : InUse(k, D, P, y) <=> y \in 1..c.id
      <4>1. PICK m \in Nat : m = c.id /\ m >= 1
        BY <3>1, SizeIs, Numbers
      <4>2. \A y : y \in 1..(m - 1) \/ y = m <=> y \in 1..m
        BY <4>1, SMT
      <4> QED BY <2>2, <2>4, <4>1, <4>2
    <3>3. c.id \in 0..Size[k].chunks
      BY <3>1, SizeIs, Numbers
    <3> QED BY <2>2, <3>2, <3>3 DEF Apart
  <2> QED BY <2>3, <2>4
(* A push that drops such a chunk. *)
<1>Drops. ASSUME NEW P, NEW C, Apart(k, C, P), NEW x \in 1..Size[k].chunks, InNone(k, C, x),
                 InUse(k, C, P, x) \/ (\A y : InUse(k, C, P, y) <=> y \in 1..(x - 1)), NEW r \in R(k)!Routers
          PROVE  Apart(k, C, With(k, P, r, x))
  <2> USE <1>Drops
  <2>1. C \in [Boxes(k) -> Seq(R(k)!Chunks)] /\ Alone(k, C) /\ Ahead(k, C, P)
    BY DEF Apart
  <2>2. PICK Q : Q = With(k, P, r, x)
    OBVIOUS
  <2>3. Ahead(k, C, Q) /\ \A y : InUse(k, C, Q, y) <=> InUse(k, C, P, y) \/ y = x
    BY <2>1, <2>2, <1>Passed
  <2>4. CASE InUse(k, C, P, x)
    <3>1. \A y : InUse(k, C, Q, y) <=> InUse(k, C, P, y)
      BY <2>3, <2>4
    <3> QED BY <2>1, <2>2, <2>3, <3>1 DEF Apart
  <2>5. CASE \A y : InUse(k, C, P, y) <=> y \in 1..(x - 1)
    <3>1. x \in Nat /\ x \in 0..Size[k].chunks
      BY SizeIs, Numbers
    <3>2. \A y : InUse(k, C, Q, y) <=> y \in 1..x
      <4>1. \A y : y \in 1..(x - 1) \/ y = x <=> y \in 1..x
        BY <3>1, SMT
      <4> QED BY <2>3, <2>5, <4>1
    <3> QED BY <2>1, <2>2, <2>3, <3>1, <3>2 DEF Apart
  <2> QED BY <2>4, <2>5
(* The queue of a router changes. *)
<1>BoxQueue. ASSUME NEW q \in [R(k)!Routers -> Seq(R(k)!Chunks)],
                    NEW h \in [R(k)!Loops -> Seq(R(k)!Chunks)],
                    NEW r \in R(k)!Routers, NEW v \in Seq(R(k)!Chunks)
             PROVE  /\ BoxOf(k, Put(q, r, v), h) = Put(BoxOf(k, q, h), <<r, 0>>, v)
                    /\ <<r, 0>> \in Boxes(k) /\ <<r, 0>>[1] = r /\ BoxOf(k, q, h)[<<r, 0>>] = q[r]
  <2>1. <<r, 0>> \in Boxes(k) /\ <<r, 0>>[1] = r /\ BoxOf(k, q, h)[<<r, 0>>] = q[r]
    BY SizeIs, Numbers DEF Boxes, BoxOf
  <2>2. \A b \in Boxes(k) : b[1] \in R(k)!Routers /\ (b[2] = 0 /\ b[1] = r => b = <<r, 0>>)
    BY SMT DEF Boxes
  <2>3. \A b \in Boxes(k) : BoxOf(k, Put(q, r, v), h)[b] = Put(BoxOf(k, q, h), <<r, 0>>, v)[b]
    BY <2>1, <2>2 DEF BoxOf, Put
  <2>4. PICK F, G : F = BoxOf(k, Put(q, r, v), h) /\ G = Put(BoxOf(k, q, h), <<r, 0>>, v)
    OBVIOUS
  <2>5. F \in [Boxes(k) -> Seq(R(k)!Chunks)] /\ G \in [Boxes(k) -> Seq(R(k)!Chunks)]
    BY <2>4, BoxTyped DEF Put
  <2>6. \A b \in Boxes(k) : F[b] = G[b]
    BY <2>3, <2>4
  <2>7. F = G
    BY <2>5, <2>6, SMT
  <2> QED BY <2>1, <2>4, <2>7
(* What a goroutine has in hand changes. *)
<1>BoxHand. ASSUME NEW q \in [R(k)!Routers -> Seq(R(k)!Chunks)],
                   NEW h \in [R(k)!Loops -> Seq(R(k)!Chunks)],
                   NEW l \in R(k)!Loops, NEW v \in Seq(R(k)!Chunks)
            PROVE  /\ BoxOf(k, q, Put(h, l, v)) = Put(BoxOf(k, q, h), l, v)
                   /\ l \in Boxes(k) /\ l[1] \in R(k)!Routers /\ BoxOf(k, q, h)[l] = h[l]
  <2>1. l \in Boxes(k) /\ l[1] \in R(k)!Routers /\ l[2] # 0
    BY BoxIs
  <2>2. \A b \in Boxes(k) : b[2] # 0 => b \in R(k)!Loops
    BY BoxIs
  <2>3. \A b \in Boxes(k) : BoxOf(k, q, Put(h, l, v))[b] = Put(BoxOf(k, q, h), l, v)[b]
    BY <2>1, <2>2 DEF BoxOf, Put
  <2>4. PICK F, G : F = BoxOf(k, q, Put(h, l, v)) /\ G = Put(BoxOf(k, q, h), l, v)
    OBVIOUS
  <2>5. F \in [Boxes(k) -> Seq(R(k)!Chunks)] /\ G \in [Boxes(k) -> Seq(R(k)!Chunks)]
    BY <2>4, BoxTyped DEF Put
  <2>6. \A b \in Boxes(k) : F[b] = G[b]
    BY <2>3, <2>4
  <2>7. F = G
    BY <2>5, <2>6, SMT
  <2>8. BoxOf(k, q, h)[l] = h[l]
    BY <2>1 DEF BoxOf
  <2> QED BY <2>1, <2>4, <2>7, <2>8
(* A router has dropped another chunk. *)
<1>PastGone. ASSUME NEW s, NEW g, NEW r \in R(k)!Routers, NEW x
             PROVE  PastOf(k, s, g \cup {<<r, x>>}) = With(k, PastOf(k, s, g), r, x)
  <2>1. ASSUME NEW t \in R(k)!Routers
        PROVE  {z[2] : z \in {y \in g \cup {<<r, x>>} : y[1] = t}} =
                 IF t = r THEN {z[2] : z \in {y \in g : y[1] = t}} \cup {x} ELSE {z[2] : z \in {y \in g : y[1] = t}}
    <3>1. <<r, x>>[1] = r /\ <<r, x>>[2] = x
      OBVIOUS
    <3>2. PICK p : p = <<r, x>> /\ p[1] = r /\ p[2] = x
      BY <3>1
    <3>3. {z[2] : z \in {y \in g \cup {p} : y[1] = t}} =
            IF t = r THEN {z[2] : z \in {y \in g : y[1] = t}} \cup {x} ELSE {z[2] : z \in {y \in g : y[1] = t}}
      BY <3>2
    <3> QED BY <3>2, <3>3
  <2> QED BY <2>1 DEF PastOf, With
(* The queues after a push that queues a chunk. *)
<1>PushedBox. ASSUME DataInv(k), NEW r \in R(k)!Routers, NEW c \in R(k)!Chunks,
                     NEW h \in [R(k)!Loops -> Seq(R(k)!Chunks)], queue' = Put(queue, r, Append(queue[r], c))
              PROVE  /\ BoxOf(k, queue', h) = Put(BoxOf(k, queue, h), <<r, 0>>, Append(BoxOf(k, queue, h)[<<r, 0>>], c))
                     /\ <<r, 0>> \in Boxes(k) /\ <<r, 0>>[1] = r
  <2> USE <1>PushedBox
  <2>1. queue \in [R(k)!Routers -> Seq(R(k)!Chunks)] /\ Append(queue[r], c) \in Seq(R(k)!Chunks)
    BY Longer DEF DataInv
  <2>2. PICK v \in Seq(R(k)!Chunks) : v = Append(queue[r], c)
    BY <2>1
  <2>3. /\ BoxOf(k, Put(queue, r, v), h) = Put(BoxOf(k, queue, h), <<r, 0>>, v)
        /\ <<r, 0>> \in Boxes(k) /\ <<r, 0>>[1] = r /\ BoxOf(k, queue, h)[<<r, 0>>] = queue[r]
    BY <2>1, <1>BoxQueue
  <2> QED BY <2>2, <2>3
(* What a router has dropped after a push that drops a chunk. *)
<1>PushedPast. ASSUME NEW r \in R(k)!Routers, NEW x, NEW s, gone' = gone \cup {<<r, x>>}
               PROVE  PastOf(k, s, gone') = With(k, PastOf(k, s, gone), r, x)
  <2> USE <1>PushedPast
  <2>1. PastOf(k, s, gone \cup {<<r, x>>}) = With(k, PastOf(k, s, gone), r, x)
    BY <1>PastGone, SMT
  <2> QED BY <2>1
(* push keeps chunks apart, whether it queues the chunk or drops it. *)
<1>PushApart. ASSUME DataInv(k), TimeInv(k), NEW r \in R(k)!Routers, NEW x \in 1..Size[k].chunks,
                     NEW to \in R(k)!Routers \cup {"nowhere"}, R(k)!Push(r, x, to),
                     NEW h \in [R(k)!Loops -> Seq(R(k)!Chunks)], NEW s, NEW C, NEW Q, Apart(k, C, Q), InNone(k, C, x),
                     InUse(k, C, Q, x) \/ (\A y : InUse(k, C, Q, y) <=> y \in 1..(x - 1)),
                     \A t \in Way(k, r, to) : x \notin Q[t]
              PROVE  C = BoxOf(k, queue, h) /\ Q = PastOf(k, s, gone) =>
                       Apart(k, BoxOf(k, queue', h), PastOf(k, s, gone'))
  <2> USE <1>PushApart
  <2>1. ASSUME NEW c \in R(k)!Chunks, c.id = x, c.to = to, gone' = gone,
               queue' = [queue EXCEPT ![r] = Append(queue[r], c)]
        PROVE  C = BoxOf(k, queue, h) /\ Q = PastOf(k, s, gone) => Apart(k, BoxOf(k, queue', h), PastOf(k, s, gone'))
    <3>2. /\ C = BoxOf(k, queue, h) => BoxOf(k, queue', h) = Put(C, <<r, 0>>, Append(C[<<r, 0>>], c))
          /\ <<r, 0>> \in Boxes(k) /\ <<r, 0>>[1] = r
      <4>1. queue' = Put(queue, r, Append(queue[r], c))
        BY <2>1 DEF Put
      <4>2. /\ BoxOf(k, queue', h) = Put(BoxOf(k, queue, h), <<r, 0>>, Append(BoxOf(k, queue, h)[<<r, 0>>], c))
            /\ <<r, 0>> \in Boxes(k) /\ <<r, 0>>[1] = r
        BY <4>1, <1>PushedBox
      <4> QED BY <4>2
    <3>3. PICK b \in Boxes(k) : b = <<r, 0>> /\ b[1] = r
      BY <3>2
    <3>4. PICK D : D = Put(C, b, Append(C[b], c))
      OBVIOUS
    <3>5. \A t \in Way(k, b[1], c.to) : c.id \notin Q[t]
      BY <2>1, <3>3
    <3>6. InNone(k, C, c.id) /\ (InUse(k, C, Q, c.id) \/ (\A y : InUse(k, C, Q, y) <=> y \in 1..(c.id - 1)))
      BY <2>1
    <3>7. Apart(k, D, Q)
      BY <3>4, <3>5, <3>6, <1>Queues
    <3> QED BY <2>1, <3>2, <3>3, <3>4, <3>7
  <2>2. CASE gone' = gone \cup {<<r, x>>} /\ queue' = queue
    <3>1. Q = PastOf(k, s, gone) => PastOf(k, s, gone') = With(k, Q, r, x)
      BY <2>2, <1>PushedPast
    <3>2. Apart(k, C, With(k, Q, r, x))
      BY <1>Drops
    <3> QED BY <2>2, <3>1, <3>2
  <2>3. Pushes(k, r, x, to) \/ LosesOne(r, x)
    BY PushKinds
  <2> QED BY <2>1, <2>2, <2>3 DEF Pushes, LosesOne
(* A step in which no chunk moves. *)
<1>ChunksStill. ASSUME TimeInv(k), ChunkInv(k), Still(k), now' >= now, now' \in Nat
                PROVE  ChunkInv(k)'
  <2> USE <1>ChunksStill
  <2>1. UNCHANGED <<queue, hand, sent, gone>>
    BY DEF Still
  <2>2. DataInv(k)' /\ IdInv(k)' /\ SentInv(k)'
    BY <2>1 DEF ChunkInv, DataInv, IdInv, SentInv
  <2>3. HandInv(k)'
    <3>1. SUFFICES ASSUME NEW l \in R(k)!Loops
                   PROVE  IF pc'[l] # "forward" THEN hand'[l] = <<>>
                          ELSE \E c \in R(k)!Chunks : /\ hand'[l] = <<c>> /\ c.ts + Size[k].minDelay <= now'
                                                      /\ l[1] = wan => c.to # "nowhere"
      BY DEF HandInv
    <3>2. pc'[l] = "forward" <=> pc[l] = "forward"
      BY DEF Still
    <3>3. CASE pc[l] # "forward"
      BY <2>1, <3>2, <3>3 DEF ChunkInv, HandInv
    <3>4. CASE pc[l] = "forward"
      <4>1. PICK c \in R(k)!Chunks : /\ hand[l] = <<c>> /\ c.ts + Size[k].minDelay <= now
                                     /\ l[1] = wan => c.to # "nowhere"
        BY <3>4 DEF ChunkInv, HandInv
      <4>2. c.ts \in Nat /\ Size[k].minDelay \in Nat /\ now \in Nat
        BY ChunkParts, SizeIs, Numbers DEF TimeInv
      <4>3. c.ts + Size[k].minDelay <= now'
        BY <4>1, <4>2, NoEarlier
      <4> QED BY <2>1, <3>2, <3>4, <4>1, <4>3
    <3> QED BY <3>3, <3>4
  <2> QED BY <2>2, <2>3 DEF ChunkInv
(* An id that is not past a router was not sent and is not gone there. *)
<1>PastIs. ASSUME NEW s, NEW g, NEW r \in R(k)!Routers, NEW x, x \notin PastOf(k, s, g)[r]
           PROVE  (\A i \in DOMAIN s[r] : s[r][i] # x) /\ <<r, x>> \notin g
  <2> USE <1>PastIs
  <2>1. PastOf(k, s, g)[r] = R(k)!Contents(s[r]) \cup {z[2] : z \in {y \in g : y[1] = r}}
    BY DEF PastOf
  <2>2. (\E i \in DOMAIN s[r] : s[r][i] = x) => x \in R(k)!Contents(s[r])
    BY DEF R!Contents
  <2>3. (\E y \in g : y[1] = r /\ y[2] = x) => x \in {z[2] : z \in {y \in g : y[1] = r}}
    OBVIOUS
  <2>4. <<r, x>>[1] = r /\ <<r, x>>[2] = x
    OBVIOUS
  <2>5. <<r, x>> \in g => \E y \in g : y[1] = r /\ y[2] = x
    BY <2>4
  <2> QED BY <2>1, <2>2, <2>3, <2>5
(* A host sends a chunk. *)
<1>ChunkSent. ASSUME ControlInv(k), TimeInv(k), ChunkInv(k), NEW r \in R(k)!Routers,
                     NEW to \in R(k)!Routers \cup {"nowhere"}, R(k)!Send(r, to)
              PROVE  ChunkInv(k)'
  <2> USE <1>ChunkSent
  <2>1. /\ R(k)!NextID <= Size[k].chunks /\ R(k)!Push(r, R(k)!NextID, to)
        /\ UNCHANGED <<sent, hand, pc, now>>
    BY DEF R!Send, R!loops
  <2>2. DataInv(k) /\ HandInv(k) /\ IdInv(k) /\ SentInv(k)
    BY DEF ChunkInv
  <2>3. PICK x : x = R(k)!NextID
    OBVIOUS
  <2>4. x \in 1..Size[k].chunks /\ R(k)!Push(r, x, to)
    BY <2>1, <2>2, <2>3, NextIsNew
  <2>b. PICK B : B = BoxOf(k, queue, hand)
    OBVIOUS
  <2>p. PICK P : P = PastOf(k, sent, gone)
    OBVIOUS
  <2>5. \A y : InUse(k, B, P, y) <=> y \in 1..(x - 1)
    BY <2>1, <2>2, <2>3, <2>b, <2>p, NextIsNew
  <2>6. x \notin 1..(x - 1)
    BY <2>4, SizeIs, SMT
  <2>7. InNone(k, B, x) /\ \A t \in R(k)!Routers : x \notin P[t]
    BY <2>5, <2>6 DEF InUse
  <2>8. \A t \in Way(k, r, to) : x \notin P[t]
    <3>1. Way(k, r, to) \subseteq R(k)!Routers
      BY DEF Way, R!Routers
    <3> QED BY <2>7, <3>1
  <2>9. Apart(k, B, P) /\ hand \in [R(k)!Loops -> Seq(R(k)!Chunks)]
    BY <2>b, <2>p, BoxFacts
  <2>10. Apart(k, BoxOf(k, queue', hand), PastOf(k, sent, gone'))
    <3>1. PICK h \in [R(k)!Loops -> Seq(R(k)!Chunks)] : h = hand
      BY <2>9
    <3>2. PICK s : s = sent
      OBVIOUS
    <3>3. B = BoxOf(k, queue, h) /\ P = PastOf(k, s, gone) =>
            Apart(k, BoxOf(k, queue', h), PastOf(k, s, gone'))
      BY <2>2, <2>4, <2>5, <2>7, <2>8, <2>9, <1>PushApart
    <3> QED BY <2>b, <2>p, <3>1, <3>2, <3>3
  <2>11. IdInv(k)'
    BY <2>1, <2>10 DEF IdInv
  <2>12. /\ queue' \in [R(k)!Routers -> Seq(R(k)!Chunks)]
         /\ \A s \in R(k)!Routers : (Size[k].queueSize > 0 => Len(queue'[s]) <= Size[k].queueSize)
         /\ gone' = gone \/ gone' = gone \cup {<<r, x>>}
    BY <2>2, <2>4, PushKinds DEF Pushes, LosesOne
  <2>13. DataInv(k)'
    BY <2>1, <2>2, <2>12 DEF DataInv
  <2>14. HandInv(k)'
    BY <2>1, <2>2 DEF HandInv
  <2>15. SentInv(k)'
    <3>1. \A i \in DOMAIN sent[r] : sent[r][i] # x
      <4>1. x \notin PastOf(k, sent, gone)[r]
        BY <2>7, <2>p
      <4> QED BY <4>1, <1>PastIs
    <3>2. \A s \in R(k)!Routers : \A i \in DOMAIN sent[s] : <<s, sent[s][i]>> # <<r, x>>
      BY <3>1
    <3>3. \A s \in R(k)!Routers : \A i \in DOMAIN sent[s] : <<s, sent[s][i]>> \notin gone'
      <4>1. SUFFICES ASSUME NEW s \in R(k)!Routers, NEW i \in DOMAIN sent[s]
                     PROVE  <<s, sent[s][i]>> \notin gone'
        OBVIOUS
      <4>2. PICK g : g = <<s, sent[s][i]>> /\ g \notin gone /\ g # <<r, x>>
        BY <2>2, <3>2 DEF SentInv
      <4> QED BY <2>12, <4>2
    <3> QED BY <2>1, <2>2, <3>3 DEF SentInv
  <2> QED BY <2>11, <2>13, <2>14, <2>15 DEF ChunkInv
(* The queues after a pop. *)
<1>PoppedBox. ASSUME DataInv(k), NEW r \in R(k)!Routers, queue[r] # <<>>,
                     NEW h \in [R(k)!Loops -> Seq(R(k)!Chunks)], queue' = Put(queue, r, Tail(queue[r]))
              PROVE  /\ BoxOf(k, queue', h) = Put(BoxOf(k, queue, h), <<r, 0>>, Tail(BoxOf(k, queue, h)[<<r, 0>>]))
                     /\ <<r, 0>> \in Boxes(k) /\ <<r, 0>>[1] = r /\ BoxOf(k, queue, h)[<<r, 0>>] = queue[r]
                     /\ queue' \in [R(k)!Routers -> Seq(R(k)!Chunks)]
                     /\ \A s \in R(k)!Routers : (Size[k].queueSize > 0 => Len(queue'[s]) <= Size[k].queueSize)
  <2> USE <1>PoppedBox
  <2>1. /\ queue \in [R(k)!Routers -> Seq(R(k)!Chunks)] /\ Tail(queue[r]) \in Seq(R(k)!Chunks)
        /\ Len(queue[r]) \in Nat /\ Len(Tail(queue[r])) = Len(queue[r]) - 1
    BY Rest DEF DataInv
  <2>2. PICK v \in Seq(R(k)!Chunks) : v = Tail(queue[r])
    BY <2>1
  <2>3. /\ BoxOf(k, Put(queue, r, v), h) = Put(BoxOf(k, queue, h), <<r, 0>>, v)
        /\ <<r, 0>> \in Boxes(k) /\ <<r, 0>>[1] = r /\ BoxOf(k, queue, h)[<<r, 0>>] = queue[r]
    BY <2>1, <1>BoxQueue
  <2>4. queue' = Put(queue, r, v)
    BY <2>2
  <2>5. queue' \in [R(k)!Routers -> Seq(R(k)!Chunks)]
    BY <2>1 DEF Put
  <2>6. Size[k].queueSize > 0 => Len(Tail(queue[r])) <= Size[k].queueSize
    BY <2>1, SizeIs, SMT DEF DataInv
  <2>7. \A s \in R(k)!Routers : (Size[k].queueSize > 0 => Len(queue'[s]) <= Size[k].queueSize)
    BY <2>1, <2>6 DEF DataInv, Put
  <2> QED BY <2>2, <2>3, <2>4, <2>5, <2>7
(* processChunks pops a chunk that no router ahead of it has seen. *)
<1>TakenFirst. ASSUME ChunkInv(k), NEW r \in R(k)!Routers, queue[r] # <<>>,
                      queue' = Put(queue, r, Tail(queue[r]))
               PROVE  /\ Free(k, BoxOf(k, queue, hand), BoxOf(k, queue', hand), PastOf(k, sent, gone), Head(queue[r]).id)
                      /\ Head(queue[r]) \in R(k)!Chunks
                      /\ \A s \in Way(k, r, Head(queue[r]).to) : Head(queue[r]).id \notin PastOf(k, sent, gone)[s]
  <2> USE <1>TakenFirst
  <2>1. DataInv(k)
    BY DEF ChunkInv
  <2>h. PICK h \in [R(k)!Loops -> Seq(R(k)!Chunks)] : h = hand
    BY BoxFacts
  <2>b. PICK B : B = BoxOf(k, queue, h)
    OBVIOUS
  <2>c. PICK C : C = BoxOf(k, queue', h)
    OBVIOUS
  <2>p. PICK P : P = PastOf(k, sent, gone)
    OBVIOUS
  <2>2. /\ C = Put(B, <<r, 0>>, Tail(B[<<r, 0>>]))
        /\ <<r, 0>> \in Boxes(k) /\ <<r, 0>>[1] = r /\ B[<<r, 0>>] = queue[r]
    <3>1. /\ BoxOf(k, queue', h) = Put(BoxOf(k, queue, h), <<r, 0>>, Tail(BoxOf(k, queue, h)[<<r, 0>>]))
          /\ <<r, 0>> \in Boxes(k) /\ <<r, 0>>[1] = r /\ BoxOf(k, queue, h)[<<r, 0>>] = queue[r]
      BY <2>1, <1>PoppedBox
    <3> QED BY <2>b, <2>c, <3>1
  <2>3. PICK a \in Boxes(k) : a = <<r, 0>> /\ a[1] = r /\ B[a] = queue[r] /\ C = Put(B, a, Tail(B[a]))
    BY <2>2
  <2>4. B \in [Boxes(k) -> Seq(R(k)!Chunks)] /\ Alone(k, B) /\ Ahead(k, B, P)
    BY <2>b, <2>h, <2>p, BoxFacts
  <2>5. PICK d : d = Head(B[a])
    OBVIOUS
  <2>6. B[a] # <<>> /\ C = Put(B, a, Tail(B[a])) /\ d = Head(queue[r])
    BY <2>3, <2>5
  <2>7. /\ Free(k, B, C, P, d.id) /\ d \in R(k)!Chunks
        /\ \A s \in Way(k, a[1], d.to) : d.id \notin P[s]
    BY <2>4, <2>5, <2>6, <1>Taken
  <2> QED BY <2>b, <2>c, <2>h, <2>p, <2>3, <2>6, <2>7
(* A filter, a missing route or the NAT drops the chunk, or fails. *)
<1>ChunkDropped. ASSUME TimeInv(k), ChunkInv(k), NEW l \in R(k)!Loops, Dropped(k, l)
                 PROVE  ChunkInv(k)'
  <2> USE <1>ChunkDropped
  <2>1. /\ l[1] \in R(k)!Routers /\ queue[l[1]] # <<>> /\ queue' = [queue EXCEPT ![l[1]] = Tail(queue[l[1]])]
        /\ gone' = gone \cup {<<l[1], Head(queue[l[1]]).id>>} /\ UNCHANGED <<sent, hand, now>>
        /\ \A m \in R(k)!Loops : pc'[m] = "forward" <=> pc[m] = "forward"
    BY DEF Dropped, R!DueChunk, R!Loops
  <2>2. DataInv(k) /\ HandInv(k) /\ IdInv(k) /\ SentInv(k)
    BY DEF ChunkInv
  <2>b. PICK B : B = BoxOf(k, queue, hand)
    OBVIOUS
  <2>c. PICK C : C = BoxOf(k, queue', hand)
    OBVIOUS
  <2>p. PICK P : P = PastOf(k, sent, gone)
    OBVIOUS
  <2>d. PICK d : d = Head(queue[l[1]])
    OBVIOUS
  <2>r. PICK r \in R(k)!Routers : r = l[1]
    BY <2>1
  <2>3. /\ Free(k, B, C, P, d.id) /\ d \in R(k)!Chunks
        /\ \A s \in Way(k, r, d.to) : d.id \notin P[s]
    <3>1. queue[r] # <<>> /\ queue' = Put(queue, r, Tail(queue[r])) /\ d = Head(queue[r])
      BY <2>1, <2>d, <2>r DEF Put
    <3> QED BY <2>b, <2>c, <2>p, <3>1, <1>TakenFirst
  <2>4. Apart(k, B, P) /\ hand \in [R(k)!Loops -> Seq(R(k)!Chunks)]
    BY <2>b, <2>p, BoxFacts
  <2>5. Apart(k, C, With(k, P, r, d.id))
    BY <2>3, <2>4, <1>Leaves
  <2>6. PICK x : x = d.id
    OBVIOUS
  <2>7. gone' = gone \cup {<<r, x>>}
    BY <2>1, <2>6, <2>d, <2>r
  <2>8. PastOf(k, sent, gone') = With(k, PastOf(k, sent, gone), r, x)
    BY <2>7, <1>PushedPast
  <2>9. IdInv(k)'
    BY <2>1, <2>5, <2>6, <2>8, <2>c, <2>p DEF IdInv
  <2>10. /\ queue' \in [R(k)!Routers -> Seq(R(k)!Chunks)]
         /\ \A s \in R(k)!Routers : (Size[k].queueSize > 0 => Len(queue'[s]) <= Size[k].queueSize)
    <3>1. PICK h \in [R(k)!Loops -> Seq(R(k)!Chunks)] : h = hand
      BY <2>4
    <3>2. queue' = Put(queue, l[1], Tail(queue[l[1]]))
      BY <2>1 DEF Put
    <3> QED BY <2>1, <2>2, <3>1, <3>2, <1>PoppedBox
  <2>11. DataInv(k)'
    BY <2>1, <2>2, <2>10 DEF DataInv
  <2>12. HandInv(k)'
    BY <2>1, <2>2 DEF HandInv
  <2>13. SentInv(k)'
    <3>1. r \in Way(k, r, d.to)
      BY DEF Way
    <3>2. x \notin PastOf(k, sent, gone)[r]
      BY <2>3, <2>6, <2>p, <3>1
    <3>3. \A i \in DOMAIN sent[r] : sent[r][i] # x
      BY <3>2, <1>PastIs
    <3>4. \A s \in R(k)!Routers : \A i \in DOMAIN sent[s] : <<s, sent[s][i]>> # <<r, x>>
      BY <3>3
    <3>5. \A s \in R(k)!Routers : \A i \in DOMAIN sent[s] : <<s, sent[s][i]>> \notin gone'
      <4>1. SUFFICES ASSUME NEW s \in R(k)!Routers, NEW i \in DOMAIN sent[s]
                     PROVE  <<s, sent[s][i]>> \notin gone'
        OBVIOUS
      <4>2. PICK g : g = <<s, sent[s][i]>> /\ g \notin gone /\ g # <<r, x>>
        BY <2>2, <3>4 DEF SentInv
      <4> QED BY <2>7, <4>2
    <3> QED BY <2>1, <2>2, <3>5 DEF SentInv
  <2> QED BY <2>9, <2>11, <2>12, <2>13 DEF ChunkInv
(* The sequence of the one chunk in hand. *)
<1>One. ASSUME NEW S, NEW x \in S
        PROVE  /\ <<x>> \in Seq(S) /\ Append(<<>>, x) = <<x>>
               /\ Tail(<<x>>) = <<>> /\ Head(<<x>>) = x /\ <<x>> # <<>>
  <2>1. <<x>> \in Seq(S) /\ Head(<<x>>) = x /\ <<x>> # <<>>
    BY SMT
  <2>2. Append(<<>>, x) = <<x>>
    BY SMT
  <2>3. Tail(<<x>>) = <<>>
    BY SMT
  <2> QED BY <2>1, <2>2, <2>3
(* processChunks takes the first chunk of the queue in hand. *)
<1>ChunkForwarded. ASSUME ControlInv(k), TimeInv(k), ChunkInv(k), NEW l \in R(k)!Loops, R(k)!Forward(l)
                   PROVE  ChunkInv(k)'
  <2> USE <1>ChunkForwarded
  <2>1. /\ l[1] \in R(k)!Routers /\ queue[l[1]] # <<>> /\ queue' = [queue EXCEPT ![l[1]] = Tail(queue[l[1]])]
        /\ pc[l] = "body" /\ pc' = [pc EXCEPT ![l] = "forward"] /\ UNCHANGED <<sent, gone, now>>
        /\ hand' = [hand EXCEPT ![l] = <<Head(queue[l[1]])>>] /\ R(k)!Due(l)
        /\ Head(queue[l[1]]).to = "nowhere" => l[1] # wan
    BY DEF R!Forward, R!DueChunk, R!InBody, R!Loops, R!Leave, R!Popped, R!IsOutside, R!Nowhere
  <2>2. DataInv(k) /\ HandInv(k) /\ IdInv(k) /\ SentInv(k)
    BY DEF ChunkInv
  <2>b. PICK B : B = BoxOf(k, queue, hand)
    OBVIOUS
  <2>c. PICK C : C = BoxOf(k, queue', hand)
    OBVIOUS
  <2>p. PICK P : P = PastOf(k, sent, gone)
    OBVIOUS
  <2>r. PICK r \in R(k)!Routers : r = l[1]
    BY <2>1
  <2>q. queue[r] # <<>> /\ queue' = Put(queue, r, Tail(queue[r]))
    BY <2>1, <2>r DEF Put
  <2>d. PICK d \in R(k)!Chunks : d = Head(queue[r])
    <3>1. Head(queue[r]) \in R(k)!Chunks
      BY <2>q, <1>TakenFirst
    <3> QED BY <3>1
  <2>3. Free(k, B, C, P, d.id) /\ \A s \in Way(k, r, d.to) : d.id \notin P[s]
    BY <2>b, <2>c, <2>d, <2>p, <2>q, <1>TakenFirst
  <2>4. Apart(k, B, P) /\ hand \in [R(k)!Loops -> Seq(R(k)!Chunks)]
    BY <2>b, <2>p, BoxFacts
  <2>5. /\ queue' \in [R(k)!Routers -> Seq(R(k)!Chunks)]
        /\ \A s \in R(k)!Routers : (Size[k].queueSize > 0 => Len(queue'[s]) <= Size[k].queueSize)
    <3>1. PICK h \in [R(k)!Loops -> Seq(R(k)!Chunks)] : h = hand
      BY <2>4
    <3> QED BY <2>2, <2>q, <3>1, <1>PoppedBox
  <2>v. PICK v \in Seq(R(k)!Chunks) : v = <<d>> /\ v = Append(<<>>, d)
    BY <1>One
  <2>6. hand' = Put(hand, l, v)
    BY <2>1, <2>d, <2>r, <2>v DEF Put
  <2>7. /\ BoxOf(k, queue', hand') = Put(C, l, v) /\ l \in Boxes(k) /\ C[l] = hand[l]
        /\ hand' \in [R(k)!Loops -> Seq(R(k)!Chunks)]
        /\ hand'[l] = v /\ \A m \in R(k)!Loops \ {l} : hand'[m] = hand[m]
    <3>1. PICK q \in [R(k)!Routers -> Seq(R(k)!Chunks)] : q = queue'
      BY <2>5
    <3>2. /\ BoxOf(k, q, hand') = Put(BoxOf(k, q, hand), l, v)
          /\ l \in Boxes(k) /\ BoxOf(k, q, hand)[l] = hand[l]
          /\ hand' \in [R(k)!Loops -> Seq(R(k)!Chunks)]
          /\ hand'[l] = v /\ \A m \in R(k)!Loops \ {l} : hand'[m] = hand[m]
      <4>1. hand \in [R(k)!Loops -> Seq(R(k)!Chunks)] /\ hand' = Put(hand, l, v)
        BY <2>4, <2>6
      <4>2. /\ BoxOf(k, q, Put(hand, l, v)) = Put(BoxOf(k, q, hand), l, v)
            /\ l \in Boxes(k) /\ BoxOf(k, q, hand)[l] = hand[l]
        BY <2>4, <1>BoxHand
      <4>3. /\ hand' \in [R(k)!Loops -> Seq(R(k)!Chunks)]
            /\ hand'[l] = v /\ \A m \in R(k)!Loops \ {l} : hand'[m] = hand[m]
        BY <4>1 DEF Put
      <4> QED BY <4>1, <4>2, <4>3
    <3> QED BY <2>c, <3>1, <3>2
  <2>8. hand[l] = <<>>
    <3>1. pc[l] # "forward"
      BY <2>1
    <3> QED BY <2>2, <3>1 DEF HandInv
  <2>9. PICK b \in Boxes(k) : b = l /\ b[1] = r
    BY <2>7, <2>r
  <2>10. Apart(k, Put(C, b, Append(C[b], d)), P)
    <3>1. \A s \in Way(k, b[1], d.to) : d.id \notin P[s]
      BY <2>3, <2>9
    <3> QED BY <2>3, <2>4, <3>1, <1>Moves
  <2>11. IdInv(k)'
    <3>1. Append(C[b], d) = v
      BY <2>7, <2>8, <2>9, <2>v
    <3>2. Apart(k, Put(C, l, v), P)
      BY <2>9, <2>10, <3>1
    <3>3. PastOf(k, sent', gone') = P
      BY <2>1, <2>p
    <3> QED BY <2>7, <3>2, <3>3 DEF IdInv
  <2>12. DataInv(k)'
    BY <2>1, <2>2, <2>5, <2>7 DEF DataInv
  <2>13. SentInv(k)'
    BY <2>1, <2>2 DEF SentInv
  <2>14. HandInv(k)'
    <3>1. SUFFICES ASSUME NEW m \in R(k)!Loops
                   PROVE  IF pc'[m] # "forward" THEN hand'[m] = <<>>
                          ELSE \E c \in R(k)!Chunks : /\ hand'[m] = <<c>> /\ c.ts + Size[k].minDelay <= now'
                                                      /\ m[1] = wan => c.to # "nowhere"
      BY DEF HandInv
    <3>2. pc \in [R(k)!Loops -> Places]
      BY DEF ControlInv
    <3>3. CASE m # l
      <4>1. pc'[m] = pc[m] /\ hand'[m] = hand[m] /\ now' = now
        BY <2>1, <2>7, <3>2, <3>3
      <4> QED BY <2>2, <4>1 DEF HandInv
    <3>4. CASE m = l
      <4>1. pc'[l] = "forward" /\ hand'[l] = <<d>> /\ now' = now
        BY <2>1, <2>7, <2>v, <3>2
      <4>2. d.ts + Size[k].minDelay <= entered[l]
        BY <2>1, <2>d, <2>r DEF R!Due
      <4>3. d.ts + Size[k].minDelay <= now
        <5>1. d.ts \in Nat /\ Size[k].minDelay \in Nat /\ now \in Nat /\ entered[l] \in Nat /\ entered[l] <= now
          BY ChunkParts, SizeIs, Numbers DEF TimeInv
        <5> QED BY <4>2, <5>1, NoEarlier
      <4>4. l[1] = wan => d.to # "nowhere"
        BY <2>1, <2>d, <2>r
      <4> QED BY <3>4, <4>1, <4>3, <4>4
    <3> QED BY <3>3, <3>4
  <2> QED BY <2>11, <2>12, <2>13, <2>14 DEF ChunkInv
(* The chunk in hand, which no router ahead of it has seen, is let go. *)
<1>LetGo. ASSUME ChunkInv(k), NEW l \in R(k)!Loops, NEW c \in R(k)!Chunks, hand[l] = <<c>>,
                 hand' = Put(hand, l, <<>>)
          PROVE  /\ Free(k, BoxOf(k, queue, hand), BoxOf(k, queue, hand'), PastOf(k, sent, gone), c.id)
                 /\ \A s \in Way(k, l[1], c.to) : c.id \notin PastOf(k, sent, gone)[s]
                 /\ hand' \in [R(k)!Loops -> Seq(R(k)!Chunks)]
                 /\ hand'[l] = <<>> /\ \A m \in R(k)!Loops \ {l} : hand'[m] = hand[m]
  <2> USE <1>LetGo
  <2>b. PICK B : B = BoxOf(k, queue, hand)
    OBVIOUS
  <2>c. PICK C : C = BoxOf(k, queue, hand')
    OBVIOUS
  <2>p. PICK P : P = PastOf(k, sent, gone)
    OBVIOUS
  <2>1. B \in [Boxes(k) -> Seq(R(k)!Chunks)] /\ Alone(k, B) /\ Ahead(k, B, P)
    BY <2>b, <2>p, BoxFacts
  <2>2. queue \in [R(k)!Routers -> Seq(R(k)!Chunks)] /\ hand \in [R(k)!Loops -> Seq(R(k)!Chunks)]
    BY BoxFacts
  <2>e. <<>> \in Seq(R(k)!Chunks)
    BY SMT
  <2>v. PICK v \in Seq(R(k)!Chunks) : v = <<>>
    BY <2>e
  <2>3. /\ BoxOf(k, queue, Put(hand, l, v)) = Put(BoxOf(k, queue, hand), l, v)
        /\ l \in Boxes(k) /\ BoxOf(k, queue, hand)[l] = hand[l]
    BY <2>2, <1>BoxHand
  <2>4. /\ hand' \in [R(k)!Loops -> Seq(R(k)!Chunks)]
        /\ hand'[l] = <<>> /\ \A m \in R(k)!Loops \ {l} : hand'[m] = hand[m]
    BY <2>2, SMT DEF Put
  <2>5. Tail(<<c>>) = <<>> /\ Head(<<c>>) = c /\ <<c>> # <<>>
    BY <1>One
  <2>6. PICK a \in Boxes(k) : a = l
    BY <2>3
  <2>7. B[a] # <<>> /\ C = Put(B, a, Tail(B[a])) /\ c = Head(B[a])
    BY <2>3, <2>5, <2>6, <2>b, <2>c, <2>v
  <2>8. /\ Free(k, B, C, P, c.id)
        /\ \A s \in Way(k, a[1], c.to) : c.id \notin P[s]
    <3>1. PICK d : d = c
      OBVIOUS
    <3>2. d = Head(B[a])
      BY <2>7, <3>1
    <3>3. /\ Free(k, B, C, P, d.id)
          /\ \A s \in Way(k, a[1], d.to) : d.id \notin P[s]
      BY <2>1, <2>7, <3>2, <1>Taken
    <3> QED BY <3>1, <3>3
  <2> QED BY <2>4, <2>6, <2>8, <2>b, <2>c, <2>p
(* The parent or the child that a chunk is handed over to is ahead of it. *)
<1>NextOnWay. ASSUME NEW r \in R(k)!Routers, NEW to \in R(k)!Routers \cup {"nowhere"}, to # r,
                     NEW s, (r # wan /\ s = wan) \/ (r = wan /\ s = to /\ to # "nowhere")
              PROVE  s \in R(k)!Routers /\ \A t \in Way(k, s, to) : t \in Way(k, r, to) /\ t # r /\ t \in R(k)!Routers
  BY <1>NextOnWay, SizeAssumption DEF Way, R!Routers
(* Handover keeps chunks apart, whatever becomes of the chunk. *)
<1>ChunkHanded. ASSUME ControlInv(k), TimeInv(k), ChunkInv(k), NEW l \in R(k)!Loops, R(k)!Handover(l)
                PROVE  ChunkInv(k)'
  <2> USE <1>ChunkHanded
  <2>1. PICK c \in R(k)!Chunks :
          /\ hand[l] = <<c>> /\ pc[l] = "forward" /\ pc' = [pc EXCEPT ![l] = "relock"]
          /\ hand' = Put(hand, l, <<>>) /\ sent' = Put(sent, l[1], Append(sent[l[1]], c.id))
          /\ UNCHANGED <<starts, now>>
          /\ \/ \E s : /\ (l[1] # wan /\ s = wan) \/ (l[1] = wan /\ s = c.to /\ c.to # "nowhere")
                       /\ c.to # l[1]
                       /\ R(k)!Push(s, c.id, c.to) \/ (gone' = gone \cup {<<s, c.id>>} /\ queue' = queue)
             \/ c.to = l[1] /\ UNCHANGED <<queue, gone>>
    BY HandKinds
  <2>2. DataInv(k) /\ HandInv(k) /\ IdInv(k) /\ SentInv(k)
    BY DEF ChunkInv
  <2>b. PICK B : B = BoxOf(k, queue, hand)
    OBVIOUS
  <2>c. PICK C : C = BoxOf(k, queue, hand')
    OBVIOUS
  <2>p. PICK P : P = PastOf(k, sent, gone)
    OBVIOUS
  <2>r. PICK r \in R(k)!Routers : r = l[1]
    BY DEF R!Loops
  <2>x. PICK x \in 1..Size[k].chunks : x = c.id
    BY ChunkParts
  <2>t. PICK to \in R(k)!Routers \cup {"nowhere"} : to = c.to
    BY ChunkParts
  <2>3. /\ Free(k, B, C, P, x) /\ \A s \in Way(k, r, to) : x \notin P[s]
        /\ hand' \in [R(k)!Loops -> Seq(R(k)!Chunks)]
        /\ hand'[l] = <<>> /\ \A m \in R(k)!Loops \ {l} : hand'[m] = hand[m]
    <3>1. hand[l] = <<c>> /\ hand' = Put(hand, l, <<>>)
      BY <2>1
    <3> QED BY <2>b, <2>c, <2>p, <2>r, <2>t, <2>x, <3>1, <1>LetGo
  <2>4. Apart(k, B, P) /\ sent \in [R(k)!Routers -> Seq(1..Size[k].chunks)]
    BY <2>b, <2>p, BoxFacts
  <2>q. PICK Q : Q = With(k, P, r, x)
    OBVIOUS
  <2>5. Apart(k, C, Q) /\ InNone(k, C, x) /\ InUse(k, C, Q, x)
    BY <2>3, <2>4, <2>q, <1>Leaves
  <2>6. sent' = Put(sent, r, Append(sent[r], x))
    BY <2>1, <2>r, <2>x
  <2>7. /\ sent' \in [R(k)!Routers -> Seq(1..Size[k].chunks)]
        /\ PastOf(k, sent', gone) = Q
        /\ \A t \in R(k)!Routers \ {r} : sent'[t] = sent[t]
        /\ More(sent[r], sent'[r], x)
    <3>1. PICK g : g = gone
      OBVIOUS
    <3>2. /\ sent' \in [R(k)!Routers -> Seq(1..Size[k].chunks)]
          /\ PastOf(k, sent', g) = With(k, PastOf(k, sent, g), r, x)
          /\ \A t \in R(k)!Routers \ {r} : sent'[t] = sent[t]
          /\ More(sent[r], sent'[r], x)
      BY <2>4, <2>6, SentMore
    <3> QED BY <2>p, <2>q, <3>1, <3>2
  <2>8. HandInv(k)'
    <3>1. SUFFICES ASSUME NEW m \in R(k)!Loops
                   PROVE  IF pc'[m] # "forward" THEN hand'[m] = <<>>
                          ELSE \E d \in R(k)!Chunks : /\ hand'[m] = <<d>> /\ d.ts + Size[k].minDelay <= now'
                                                      /\ m[1] = wan => d.to # "nowhere"
      BY DEF HandInv
    <3>2. pc \in [R(k)!Loops -> Places]
      BY DEF ControlInv
    <3>3. CASE m # l
      <4>1. pc'[m] = pc[m] /\ hand'[m] = hand[m] /\ now' = now
        BY <2>1, <2>3, <3>2, <3>3
      <4> QED BY <2>2, <4>1 DEF HandInv
    <3>4. CASE m = l
      <4>1. pc'[l] # "forward"
        BY <2>1, <3>2
      <4> QED BY <2>3, <3>4, <4>1
    <3> QED BY <3>3, <3>4
  <2>9. r \in Way(k, r, to)
    BY DEF Way
  <2>10. (\A i \in DOMAIN sent[r] : sent[r][i] # x) /\ <<r, x>> \notin gone
    <3>1. x \notin PastOf(k, sent, gone)[r]
      BY <2>3, <2>9, <2>p
    <3> QED BY <3>1, <1>PastIs
  (* What was sent by the router stays apart from what is gone there. *)
  <2>11. ASSUME NEW s, s # r, s \in R(k)!Routers => \A i \in DOMAIN sent[s] : sent[s][i] # x,
                gone' = gone \/ gone' = gone \cup {<<s, x>>}
         PROVE  SentInv(k)'
    <3>1. PICK n \in Nat : /\ DOMAIN sent[r] = 1..n /\ DOMAIN sent'[r] = 1..(n + 1) /\ sent'[r][n + 1] = x
                           /\ \A i \in 1..n : sent'[r][i] = sent[r][i]
      BY <2>7 DEF More
    <3>2. \A i \in DOMAIN sent'[r] : \/ i = n + 1 /\ sent'[r][i] = x
                                     \/ i \in DOMAIN sent[r] /\ sent'[r][i] = sent[r][i]
      BY <3>1, SMT
    <3>3. SUFFICES ASSUME NEW u \in R(k)!Routers
                   PROVE  /\ \A i, j \in DOMAIN sent'[u] : sent'[u][i] = sent'[u][j] => i = j
                          /\ \A i \in DOMAIN sent'[u] : <<u, sent'[u][i]>> \notin gone'
      BY DEF SentInv
    <3>4. CASE u = r
      <4>1. \A i, j \in DOMAIN sent[r] : sent[r][i] = sent[r][j] => i = j
        BY <2>2 DEF SentInv
      <4>2. \A i, j \in DOMAIN sent'[r] : sent'[r][i] = sent'[r][j] => i = j
        BY <2>10, <3>2, <4>1
      <4>3. \A i \in DOMAIN sent'[r] : <<r, sent'[r][i]>> \notin gone
        <5>1. SUFFICES ASSUME NEW i \in DOMAIN sent'[r]
                       PROVE  <<r, sent'[r][i]>> \notin gone
          OBVIOUS
        <5>2. CASE sent'[r][i] = x
          BY <2>10, <5>2
        <5>3. CASE i \in DOMAIN sent[r] /\ sent'[r][i] = sent[r][i]
          BY <2>2, <5>3 DEF SentInv
        <5> QED BY <3>2, <5>2, <5>3
      <4>4. \A y : <<r, y>> # <<s, x>>
        BY <2>11
      <4>5. \A i \in DOMAIN sent'[r] : <<r, sent'[r][i]>> \notin gone'
        <5>1. SUFFICES ASSUME NEW i \in DOMAIN sent'[r]
                       PROVE  <<r, sent'[r][i]>> \notin gone'
          OBVIOUS
        <5>2. PICK g : g = <<r, sent'[r][i]>> /\ g \notin gone /\ g # <<s, x>>
          BY <4>3, <4>4
        <5> QED BY <2>11, <5>2
      <4> QED BY <3>4, <4>2, <4>5
    <3>5. CASE u # r
      <4>1. sent'[u] = sent[u]
        BY <2>7, <3>5
      <4>2. \A i \in DOMAIN sent[u] : <<u, sent[u][i]>> # <<s, x>>
        BY <2>11
      <4>3. \A i \in DOMAIN sent[u] : <<u, sent[u][i]>> \notin gone'
        BY <2>2, <2>11, <4>2 DEF SentInv
      <4> QED BY <2>2, <4>1, <4>3 DEF SentInv
    <3> QED BY <3>4, <3>5
  <2>12. CASE to = r /\ UNCHANGED <<queue, gone>>
    <3>1. IdInv(k)'
      BY <2>5, <2>7, <2>12, <2>c DEF IdInv
    <3>2. DataInv(k)'
      BY <2>2, <2>3, <2>7, <2>12 DEF DataInv
    <3>3. PICK s : s \notin R(k)!Routers
      <4>1. "nowhere" \notin R(k)!Routers
        BY SizeAssumption DEF R!Routers
      <4> QED BY <4>1
    <3>4. SentInv(k)'
      BY <2>11, <2>12, <3>3
    <3> QED BY <2>8, <3>1, <3>2, <3>4 DEF ChunkInv
  <2>13. ASSUME NEW s, (r # wan /\ s = wan) \/ (r = wan /\ s = to /\ to # "nowhere"), to # r,
                R(k)!Push(s, x, to) \/ (gone' = gone \cup {<<s, x>>} /\ queue' = queue)
         PROVE  ChunkInv(k)'
    <3>1. s \in R(k)!Routers /\ \A t \in Way(k, s, to) : t \in Way(k, r, to) /\ t # r /\ t \in R(k)!Routers
      BY <2>13, <1>NextOnWay
    <3>2. s \in Way(k, s, to)
      BY DEF Way
    <3>3. \A t \in Way(k, s, to) : x \notin Q[t] /\ x \notin P[t]
      <4>1. \A t \in R(k)!Routers \ {r} : Q[t] = P[t]
        BY <2>q DEF With
      <4> QED BY <2>3, <3>1, <4>1
    <3>4. \A i \in DOMAIN sent[s] : sent[s][i] # x
      <4>1. x \notin PastOf(k, sent, gone)[s]
        BY <2>p, <3>2, <3>3
      <4> QED BY <3>1, <4>1, <1>PastIs
    <3>5. /\ queue' \in [R(k)!Routers -> Seq(R(k)!Chunks)]
          /\ \A t \in R(k)!Routers : (Size[k].queueSize > 0 => Len(queue'[t]) <= Size[k].queueSize)
          /\ gone' = gone \/ gone' = gone \cup {<<s, x>>}
      <4>1. CASE R(k)!Push(s, x, to)
        BY <2>2, <3>1, <4>1, PushKinds DEF Pushes, LosesOne
      <4>2. CASE gone' = gone \cup {<<s, x>>} /\ queue' = queue
        BY <2>2, <4>2 DEF DataInv
      <4> QED BY <2>13, <4>1, <4>2
    <3>6. DataInv(k)'
      BY <2>3, <2>7, <3>5 DEF DataInv
    <3>7. s # r
      BY <2>13
    <3>8. SentInv(k)'
      BY <2>11, <3>4, <3>5, <3>7
    <3>9. IdInv(k)'
      <4>1. PICK h \in [R(k)!Loops -> Seq(R(k)!Chunks)] : h = hand'
        BY <2>3
      <4>2. PICK v : v = sent'
        OBVIOUS
      <4>3. C = BoxOf(k, queue, h) /\ Q = PastOf(k, v, gone)
        BY <2>7, <2>c, <4>1, <4>2
      <4>4. Apart(k, BoxOf(k, queue', h), PastOf(k, v, gone'))
        <5>1. CASE R(k)!Push(s, x, to)
          <6>1. /\ \A t \in Way(k, s, to) : x \notin Q[t]
                /\ InUse(k, C, Q, x) \/ (\A y : InUse(k, C, Q, y) <=> y \in 1..(x - 1))
            BY <2>5, <3>3
          <6>2. C = BoxOf(k, queue, h) /\ Q = PastOf(k, v, gone) =>
                  Apart(k, BoxOf(k, queue', h), PastOf(k, v, gone'))
            BY <2>2, <2>5, <3>1, <5>1, <6>1, <1>PushApart
          <6> QED BY <4>3, <6>2
        <5>2. CASE gone' = gone \cup {<<s, x>>} /\ queue' = queue
          <6>1. PastOf(k, v, gone') = With(k, PastOf(k, v, gone), s, x)
            BY <3>1, <5>2, <1>PushedPast
          <6>2. Apart(k, C, With(k, Q, s, x))
            BY <2>5, <3>1, <1>Drops
          <6> QED BY <4>3, <5>2, <6>1, <6>2
        <5> QED BY <2>13, <5>1, <5>2
      <4> QED BY <4>1, <4>2, <4>4 DEF IdInv
    <3> QED BY <2>8, <3>6, <3>8, <3>9 DEF ChunkInv
  <2> QED BY <2>1, <2>12, <2>13, <2>r, <2>t, <2>x
<1>1. CASE Still(k)
  <2>1. now' \in Nat
    BY SizeIs, Numbers DEF TimeInv
  <2> QED BY <1>1, <2>1, <1>ChunksStill
<1>2. ASSUME NEW l \in R(k)!Loops, Dropped(k, l)
      PROVE  ChunkInv(k)'
  BY <1>2, <1>ChunkDropped
<1> QED BY <1>1, <1>2, Kinds, <1>ChunkSent, <1>ChunkForwarded, <1>ChunkHanded

(* What a router started once has sent, has in hand and has queued is in   *)
(* the order of the ids.                                                   *)
Row(s, h, q) ==
  /\ \A i, j \in DOMAIN s : i < j => s[i] < s[j]
  /\ \A i, j \in DOMAIN q : i < j => q[i].id < q[j].id
  /\ \A i \in DOMAIN s, j \in DOMAIN q : s[i] < q[j].id
  /\ \A m \in DOMAIN h : /\ \A i \in DOMAIN s : s[i] < h[m].id
                         /\ \A j \in DOMAIN q : h[m].id < q[j].id
RowInv(k) ==
  Size[k].children = {} /\ starts[wan] <= 1 =>
    \A l \in R(k)!Loops : Row(sent[wan], hand[l], queue[wan])

(* Every step keeps the order of the chunks of a router started once: its  *)
(* goroutine has the only chunk in hand while the mutex is unlocked.       *)
LEMMA RowStep ==
  ASSUME NEW k \in DOMAIN Size, ControlInv(k), ControlInv(k)', TimeInv(k), ChunkInv(k), ChunkInv(k)',
         RowInv(k), R(k)!Next
  PROVE  RowInv(k)'
(* The order after a pop, whether the chunk is dropped or in hand. *)
<1>RowTail. ASSUME NEW S, NEW s, NEW h, NEW q \in Seq(S), q # <<>>, Row(s, h, q)
            PROVE  Row(s, <<Head(q)>>, Tail(q)) /\ Row(s, h, Tail(q)) /\ Row(s, <<>>, Tail(q))
  <2> USE <1>RowTail
  <2>1. PICK n \in Nat : n >= 1 /\ DOMAIN q = 1..n /\ DOMAIN Tail(q) = 1..(n - 1) /\ Head(q) = q[1]
                         /\ \A i \in 1..(n - 1) : Tail(q)[i] = q[i + 1]
    BY Rest
  <2>t. PICK t : t = Tail(q)
    OBVIOUS
  <2>2. 1 \in DOMAIN q /\ \A j \in DOMAIN t : j \in Nat /\ j + 1 \in DOMAIN q /\ 1 < j + 1 /\ t[j] = q[j + 1]
    BY <2>1, <2>t, SMT
  <2>3. \A i, j \in DOMAIN t : i < j => t[i].id < t[j].id
    <3>1. \A i, j \in DOMAIN t : i < j => i + 1 < j + 1
      BY <2>2, SMT
    <3> QED BY <2>2, <3>1 DEF Row
  <2>4. \A i \in DOMAIN s, j \in DOMAIN t : s[i] < t[j].id
    BY <2>2 DEF Row
  <2>5. \A m \in DOMAIN h, j \in DOMAIN t : h[m].id < t[j].id
    BY <2>2 DEF Row
  <2>6. Row(s, h, t)
    BY <2>3, <2>4, <2>5 DEF Row
  <2>7. Row(s, <<>>, t)
    <3>1. DOMAIN <<>> = {}
      BY SMT
    <3> QED BY <2>3, <2>4, <3>1 DEF Row
  <2>8. Row(s, <<q[1]>>, t)
    <3>1. DOMAIN <<q[1]>> = {1} /\ <<q[1]>>[1] = q[1]
      BY SMT
    <3>2. /\ \A i \in DOMAIN s : s[i] < q[1].id
          /\ \A j \in DOMAIN t : q[1].id < t[j].id
      BY <2>2 DEF Row
    <3>3. PICK g : g = <<q[1]>> /\ \A m \in DOMAIN g : g[m] = q[1]
      BY <3>1
    <3>4. Row(s, g, t)
      BY <2>3, <2>4, <3>2, <3>3 DEF Row
    <3> QED BY <3>3, <3>4
  <2> QED BY <2>1, <2>6, <2>7, <2>8, <2>t
(* The order after the chunk in hand was handed over. *)
<1>RowHanded. ASSUME NEW s, NEW t, NEW c, NEW q, Row(s, <<c>>, q), More(s, t, c.id)
              PROVE  Row(t, <<>>, q)
  <2> USE <1>RowHanded
  <2>1. PICK n \in Nat : /\ DOMAIN s = 1..n /\ DOMAIN t = 1..(n + 1) /\ t[n + 1] = c.id
                         /\ \A i \in 1..n : t[i] = s[i]
    BY DEF More
  <2>2. \A i \in DOMAIN t : \/ i = n + 1 /\ t[i] = c.id
                            \/ i \in DOMAIN s /\ t[i] = s[i]
    BY <2>1, SMT
  <2>3. /\ \A i \in DOMAIN s : s[i] < c.id
        /\ \A j \in DOMAIN q : c.id < q[j].id
    <3>1. PICK g : g = <<c>> /\ 1 \in DOMAIN g /\ g[1] = c
      BY SMT
    <3>2. Row(s, g, q)
      BY <3>1
    <3> QED BY <3>1, <3>2 DEF Row
  <2>4. \A i, j \in DOMAIN t : i < j => t[i] < t[j]
    <3>1. \A i, j \in DOMAIN t : i < j => i \in DOMAIN s
      BY <2>1, SMT
    <3>2. \A i \in DOMAIN s : i < n + 1 /\ ~(n + 1 < i)
      BY <2>1, SMT
    <3>3. \A i, j \in DOMAIN s : i < j => s[i] < s[j]
      BY DEF Row
    <3> QED BY <2>2, <2>3, <3>1, <3>2, <3>3
  <2>5. \A i \in DOMAIN t, j \in DOMAIN q : t[i] < q[j].id
    BY <2>2, <2>3 DEF Row
  <2>6. DOMAIN <<>> = {}
    BY SMT
  <2> QED BY <2>4, <2>5, <2>6 DEF Row
(* The order after a push of a new chunk. *)
<1>RowPushed. ASSUME NEW S, NEW s, NEW h, NEW q \in Seq(S), NEW c \in S, Row(s, h, q),
                     \A i \in DOMAIN s : s[i] < c.id, \A m \in DOMAIN h : h[m].id < c.id, \A j \in DOMAIN q : q[j].id < c.id
              PROVE  Row(s, h, Append(q, c))
  <2> USE <1>RowPushed
  <2>1. PICK n \in Nat : /\ DOMAIN q = 1..n /\ DOMAIN Append(q, c) = 1..(n + 1) /\ Append(q, c)[n + 1] = c
                         /\ \A i \in 1..n : Append(q, c)[i] = q[i]
    BY Longer, SMT
  <2>t. PICK t : t = Append(q, c)
    OBVIOUS
  <2>2. \A j \in DOMAIN t : (j = n + 1 /\ t[j] = c) \/ (j \in DOMAIN q /\ t[j] = q[j])
    BY <2>1, <2>t, SMT
  <2>3. \A i, j \in DOMAIN t : i < j => t[i].id < t[j].id
    <3>1. \A i, j \in DOMAIN t : i < j => i \in DOMAIN q
      BY <2>1, <2>t, SMT
    <3>2. \A i, j \in DOMAIN q : i < j => q[i].id < q[j].id
      BY DEF Row
    <3>3. SUFFICES ASSUME NEW i \in DOMAIN t, NEW j \in DOMAIN t, i < j
                   PROVE  t[i].id < t[j].id
      OBVIOUS
    <3>4. i \in DOMAIN q /\ t[i] = q[i]
      <4>1. i \in DOMAIN q /\ i # n + 1
        BY <2>1, <3>1, <3>3, SMT
      <4> QED BY <2>2, <4>1
    <3> QED BY <2>2, <3>2, <3>3, <3>4
  <2>4. \A i \in DOMAIN s, j \in DOMAIN t : s[i] < t[j].id
    BY <2>2 DEF Row
  <2>5. \A m \in DOMAIN h, j \in DOMAIN t : h[m].id < t[j].id
    BY <2>2 DEF Row
  <2> QED BY <2>3, <2>4, <2>5, <2>t DEF Row
(* A router without children that was started once has one goroutine. *)
<1>OneGoroutine. ASSUME ControlInv(k), HandInv(k), Size[k].children = {}, starts[wan] <= 1,
                        NEW l \in R(k)!Loops, pc[l] # "none"
                 PROVE  l[1] = wan /\ \A m \in R(k)!Loops : m # l => hand[m] = <<>>
  <2> USE <1>OneGoroutine
  <2>0. R(k)!Routers = {wan}
    BY DEF R!Routers
  <2>1. \A m \in R(k)!Loops : m[1] = wan /\ m[2] \in Nat /\ m[2] >= 1 /\ m = <<m[1], m[2]>>
    BY <2>0, LoopIs, SizeIs, Numbers
  <2>2. starts[wan] \in Nat
    BY SizeIs, Numbers DEF ControlInv, R!Routers
  <2>3. ASSUME NEW m \in R(k)!Loops, pc[m] # "none"
        PROVE  m = <<wan, 1>>
    <3>1. m[2] <= starts[m[1]]
      BY <2>3 DEF ControlInv
    <3>2. m[2] <= starts[wan]
      BY <2>1, <3>1
    <3>3. m[2] = 1
      BY <2>1, <2>2, <3>2, SMT
    <3> QED BY <2>1, <3>3
  <2>4. ASSUME NEW m \in R(k)!Loops, m # l
        PROVE  hand[m] = <<>>
    <3>1. pc[m] # "forward"
      BY <2>3, <2>4
    <3> QED BY <3>1 DEF HandInv
  <2> QED BY <2>1, <2>4
(* A router started at most once after a step was so before it. *)
<1>RowBefore. ASSUME ControlInv(k), ControlInv(k)', RowInv(k), Size[k].children = {}, starts'[wan] <= 1,
                     starts' = starts \/ starts'[wan] >= starts[wan]
              PROVE  starts[wan] <= 1 /\ \A l \in R(k)!Loops : Row(sent[wan], hand[l], queue[wan])
  <2> USE <1>RowBefore
  <2>1. starts[wan] \in Nat /\ starts'[wan] \in Nat
    <3>1. starts[wan] \in 0..Size[k].starts /\ starts'[wan] \in 0..Size[k].starts
      BY DEF ControlInv, R!Routers
    <3> QED BY <3>1, SizeIs, Numbers
  <2>2. starts[wan] <= 1
    BY <2>1, SMT
  <2> QED BY <2>2 DEF RowInv
<1>1. SUFFICES ASSUME Size[k].children = {}, starts'[wan] <= 1
               PROVE  \A l \in R(k)!Loops : Row(sent'[wan], hand'[l], queue'[wan])
  BY DEF RowInv
<1>2. wan \in R(k)!Routers /\ R(k)!Routers = {wan}
  BY <1>1 DEF R!Routers
<1>3. DataInv(k) /\ HandInv(k) /\ IdInv(k) /\ DataInv(k)' /\ HandInv(k)'
  BY DEF ChunkInv
<1>4. queue \in [R(k)!Routers -> Seq(R(k)!Chunks)] /\ hand \in [R(k)!Loops -> Seq(R(k)!Chunks)]
      /\ sent \in [R(k)!Routers -> Seq(1..Size[k].chunks)] /\ queue[wan] \in Seq(R(k)!Chunks)
  BY <1>2, <1>3 DEF DataInv
<1>5. CASE Still(k)
  <2>1. UNCHANGED <<queue, hand, sent>> /\ (starts' = starts \/ starts'[wan] >= starts[wan])
    BY <1>5 DEF Still
  <2>2. \A l \in R(k)!Loops : Row(sent[wan], hand[l], queue[wan])
    BY <1>1, <2>1, <1>RowBefore
  <2> QED BY <2>1, <2>2
<1>6. ASSUME NEW r \in R(k)!Routers, NEW to \in R(k)!Routers \cup {"nowhere"}, R(k)!Send(r, to)
      PROVE  \A l \in R(k)!Loops : Row(sent'[wan], hand'[l], queue'[wan])
  <2>1. /\ R(k)!NextID <= Size[k].chunks /\ R(k)!Push(r, R(k)!NextID, to)
        /\ UNCHANGED <<sent, hand, starts>>
    BY <1>6 DEF R!Send, R!loops, R!control
  <2>2. \A l \in R(k)!Loops : Row(sent[wan], hand[l], queue[wan])
    BY <1>1, <2>1, <1>RowBefore
  <2>3. PICK x : x = R(k)!NextID
    OBVIOUS
  <2>4. x \in 1..Size[k].chunks /\ R(k)!Push(r, x, to) /\ r = wan
    BY <1>2, <1>3, <2>1, <2>3, NextIsNew
  <2>5. R(k)!Used = 1..(x - 1)
    <3>1. \A y : InUse(k, BoxOf(k, queue, hand), PastOf(k, sent, gone), y) <=> y \in 1..(x - 1)
      BY <1>3, <2>1, <2>3, NextIsNew
    <3>2. \A y : y \in R(k)!Used <=> InUse(k, BoxOf(k, queue, hand), PastOf(k, sent, gone), y)
      BY <1>3, UsedIsInUse
    <3>3. \A y : y \in R(k)!Used <=> y \in 1..(x - 1)
      BY <3>1, <3>2
    <3> QED BY <3>3
  <2>6. \A y \in R(k)!Used : y < x
    BY <2>4, <2>5, SizeIs, Numbers
  <2>7. /\ \A i \in DOMAIN sent[wan] : sent[wan][i] \in R(k)!Used
        /\ \A j \in DOMAIN queue[wan] : queue[wan][j].id \in R(k)!Used
        /\ \A l \in R(k)!Loops : \A m \in DOMAIN hand[l] : hand[l][m].id \in R(k)!Used
    <3>1. /\ \A y : y \in R(k)!Past(wan) \/ y \in R(k)!Queued(wan) => y \in R(k)!Used
          /\ \A l \in R(k)!Loops : \A y \in R(k)!Held(l) : y \in R(k)!Used
      BY <1>2, SMT DEF R!Used
    <3>2. /\ \A i \in DOMAIN sent[wan] : sent[wan][i] \in R(k)!Past(wan)
          /\ \A j \in DOMAIN queue[wan] : queue[wan][j].id \in R(k)!Queued(wan)
          /\ \A l \in R(k)!Loops : \A m \in DOMAIN hand[l] : hand[l][m].id \in R(k)!Held(l)
      BY DEF R!Past, R!Queued, R!Held, R!Contents
    <3> QED BY <3>1, <3>2
  <2>8. \/ \E c \in R(k)!Chunks : c.id = x /\ queue' = [queue EXCEPT ![r] = Append(queue[r], c)]
        \/ queue' = queue
    <3>1. Pushes(k, r, x, to) \/ LosesOne(r, x)
      BY <1>3, <2>4, PushKinds
    <3> QED BY <3>1 DEF Pushes, LosesOne
  <2>9. ASSUME NEW c \in R(k)!Chunks, c.id = x, queue' = [queue EXCEPT ![r] = Append(queue[r], c)],
               NEW l \in R(k)!Loops
        PROVE  Row(sent'[wan], hand'[l], queue'[wan])
    <3>1. queue'[wan] = Append(queue[wan], c)
      BY <1>4, <2>4, <2>9
    <3>2. /\ \A i \in DOMAIN sent[wan] : sent[wan][i] < c.id
          /\ \A m \in DOMAIN hand[l] : hand[l][m].id < c.id
          /\ \A j \in DOMAIN queue[wan] : queue[wan][j].id < c.id
      BY <2>6, <2>7, <2>9
    <3>3. PICK s, h : s = sent[wan] /\ h = hand[l]
      OBVIOUS
    <3>4. PICK q \in Seq(R(k)!Chunks) : q = queue[wan]
      BY <1>4
    <3>5. /\ Row(s, h, q) /\ \A i \in DOMAIN s : s[i] < c.id
          /\ \A m \in DOMAIN h : h[m].id < c.id /\ \A j \in DOMAIN q : q[j].id < c.id
      BY <2>2, <3>2, <3>3, <3>4
    <3>6. Row(s, h, Append(q, c))
      <4>1. \A j \in DOMAIN q : q[j].id < c.id
        BY <3>2, <3>4
      <4> QED BY <3>5, <4>1, <1>RowPushed
    <3> QED BY <2>1, <3>1, <3>3, <3>4, <3>6
  <2> QED BY <2>1, <2>2, <2>8, <2>9
<1>7. ASSUME NEW l \in R(k)!Loops, Dropped(k, l)
      PROVE  \A m \in R(k)!Loops : Row(sent'[wan], hand'[m], queue'[wan])
  <2>1. /\ l[1] = wan /\ queue[wan] # <<>> /\ queue' = [queue EXCEPT ![wan] = Tail(queue[wan])]
        /\ UNCHANGED <<sent, hand, starts>>
    BY <1>2, <1>7 DEF Dropped, R!DueChunk, R!Loops
  <2>2. \A m \in R(k)!Loops : Row(sent[wan], hand[m], queue[wan])
    BY <1>1, <2>1, <1>RowBefore
  <2>3. queue'[wan] = Tail(queue[wan])
    BY <1>2, <1>4, <2>1
  <2>4. ASSUME NEW m \in R(k)!Loops
        PROVE  Row(sent[wan], hand[m], Tail(queue[wan]))
    <3>1. Row(sent[wan], hand[m], queue[wan])
      BY <2>2
    <3> QED BY <1>4, <2>1, <3>1, <1>RowTail
  <2> QED BY <2>1, <2>3, <2>4
<1>8. ASSUME NEW l \in R(k)!Loops, R(k)!Forward(l)
      PROVE  \A m \in R(k)!Loops : Row(sent'[wan], hand'[m], queue'[wan])
  <2>1. /\ l[1] = wan /\ queue[wan] # <<>> /\ queue' = [queue EXCEPT ![wan] = Tail(queue[wan])]
        /\ hand' = [hand EXCEPT ![l] = <<Head(queue[wan])>>] /\ pc[l] = "body"
        /\ UNCHANGED <<sent, starts>>
    BY <1>2, <1>8 DEF R!Forward, R!DueChunk, R!InBody, R!Loops, R!Popped, R!control
  <2>2. starts[wan] <= 1 /\ \A m \in R(k)!Loops : Row(sent[wan], hand[m], queue[wan])
    BY <1>1, <2>1, <1>RowBefore
  <2>3. queue'[wan] = Tail(queue[wan]) /\ hand'[l] = <<Head(queue[wan])>>
        /\ \A m \in R(k)!Loops : m # l => hand'[m] = hand[m]
    BY <1>2, <1>4, <2>1
  <2>4. \A m \in R(k)!Loops : m # l => hand[m] = <<>>
    <3>1. pc[l] # "none"
      BY <2>1
    <3> QED BY <1>1, <1>3, <2>2, <3>1, <1>OneGoroutine
  <2>5. Row(sent[wan], <<Head(queue[wan])>>, Tail(queue[wan])) /\ Row(sent[wan], <<>>, Tail(queue[wan]))
    <3>1. Row(sent[wan], hand[l], queue[wan])
      BY <2>2
    <3> QED BY <1>4, <2>1, <3>1, <1>RowTail
  <2> QED BY <2>1, <2>3, <2>4, <2>5
<1>9. ASSUME NEW l \in R(k)!Loops, R(k)!Handover(l)
      PROVE  \A m \in R(k)!Loops : Row(sent'[wan], hand'[m], queue'[wan])
  <2>1. PICK c \in R(k)!Chunks :
          /\ hand[l] = <<c>> /\ pc[l] = "forward" /\ pc' = [pc EXCEPT ![l] = "relock"]
          /\ hand' = Put(hand, l, <<>>) /\ sent' = Put(sent, l[1], Append(sent[l[1]], c.id))
          /\ UNCHANGED <<starts, now>>
          /\ \/ \E s : /\ (l[1] # wan /\ s = wan) \/ (l[1] = wan /\ s = c.to /\ c.to # "nowhere")
                       /\ c.to # l[1]
                       /\ R(k)!Push(s, c.id, c.to) \/ (gone' = gone \cup {<<s, c.id>>} /\ queue' = queue)
             \/ c.to = l[1] /\ UNCHANGED <<queue, gone>>
    BY <1>9, HandKinds
  <2>2. starts[wan] <= 1 /\ \A m \in R(k)!Loops : Row(sent[wan], hand[m], queue[wan])
    BY <1>1, <2>1, <1>RowBefore
  <2>3. l[1] = wan /\ \A m \in R(k)!Loops : m # l => hand[m] = <<>>
    <3>1. pc[l] # "none"
      BY <2>1
    <3> QED BY <1>1, <1>3, <2>2, <3>1, <1>OneGoroutine
  <2>4. queue' = queue
    <3>1. c.to \in R(k)!Routers \cup {"nowhere"}
      BY ChunkParts
    <3> QED BY <1>2, <2>1, <2>3, <3>1
  <2>5. \A m \in R(k)!Loops : hand'[m] = <<>>
    BY <1>4, <2>1, <2>3 DEF Put
  <2>6. More(sent[wan], sent'[wan], c.id)
    <3>1. PICK x \in 1..Size[k].chunks : x = c.id
      BY ChunkParts
    <3>2. sent' = Put(sent, wan, Append(sent[wan], x))
      BY <2>1, <2>3, <3>1
    <3>3. More(sent[wan], sent'[wan], x)
      BY <1>2, <1>4, <3>2, SentMore
    <3> QED BY <3>1, <3>3
  <2>7. Row(sent[wan], <<c>>, queue[wan])
    BY <2>1, <2>2
  <2>8. Row(sent'[wan], <<>>, queue[wan])
    BY <2>6, <2>7, <1>RowHanded
  <2> QED BY <2>4, <2>5, <2>8
<1> QED BY <1>5, <1>6, <1>7, <1>8, <1>9, Kinds

(* NewRouter: no router is started and no application is in Stop. *)
LEMMA InitControl == ASSUME NEW k \in DOMAIN Size, R(k)!Init
                     PROVE  ControlInv(k)
<1>1. wan \in R(k)!Routers /\ Size[k].children \subseteq R(k)!Routers
  BY DEF R!Routers
<1> QED BY <1>1, SizeIs, Numbers DEF R!Init, ControlInv, Stopping, Places

(* NewRouter: nothing was sent. *)
LEMMA InitChunks ==
  ASSUME NEW k \in DOMAIN Size, R(k)!Init
  PROVE  TimeInv(k) /\ ChunkInv(k) /\ RowInv(k)
<1>0. Size[k].time \in Nat /\ Size[k].starts \in Nat /\ Size[k].queueSize \in Nat /\ Size[k].chunks \in Nat
  BY SizeAssumption
<1>1. TimeInv(k)
  BY <1>0, Numbers DEF R!Init, TimeInv
<1>2. /\ queue = [r \in R(k)!Routers |-> <<>>] /\ hand = [l \in R(k)!Loops |-> <<>>]
      /\ sent = [r \in R(k)!Routers |-> <<>>] /\ gone = {} /\ pc = [l \in R(k)!Loops |-> "none"]
  BY DEF R!Init
<1>3. DataInv(k)
  <2>1. <<>> \in Seq(R(k)!Chunks) /\ <<>> \in Seq(1..Size[k].chunks) /\ Len(<<>>) = 0
    BY SMT
  <2> QED BY <1>0, <1>2, <2>1, SMT DEF DataInv
<1>4. HandInv(k)
  BY <1>2 DEF HandInv
<1>5. SentInv(k)
  BY <1>2, SMT DEF SentInv
<1>6. IdInv(k)
  <2>b. PICK B : B = BoxOf(k, queue, hand)
    OBVIOUS
  <2>p. PICK P : P = PastOf(k, sent, gone)
    OBVIOUS
  <2>1. B \in [Boxes(k) -> Seq(R(k)!Chunks)]
    <3>1. queue \in [R(k)!Routers -> Seq(R(k)!Chunks)] /\ hand \in [R(k)!Loops -> Seq(R(k)!Chunks)]
      BY <1>3 DEF DataInv
    <3>2. BoxOf(k, queue, hand) \in [Boxes(k) -> Seq(R(k)!Chunks)]
      BY <3>1, BoxTyped
    <3> QED BY <2>b, <3>2
  <2>2. \A b \in Boxes(k) : DOMAIN B[b] = {}
    <3>1. \A b \in Boxes(k) : b[1] \in R(k)!Routers /\ (b[2] # 0 => b \in R(k)!Loops)
      BY BoxIs
    <3>2. \A b \in Boxes(k) : B[b] = <<>>
      BY <1>2, <2>b, <3>1 DEF BoxOf
    <3> QED BY <3>2, EmptyAndOne
  <2>3. \A r \in R(k)!Routers : P[r] = {}
    <3>1. \A r \in R(k)!Routers : P[r] = R(k)!Contents(sent[r]) \cup {x[2] : x \in {y \in gone : y[1] = r}}
      BY <2>p DEF PastOf
    <3>2. \A r \in R(k)!Routers : R(k)!Contents(sent[r]) = {}
      BY <1>2, SMT DEF R!Contents
    <3> QED BY <1>2, <3>1, <3>2
  <2>4. Alone(k, B) /\ Ahead(k, B, P) /\ \A x : ~InUse(k, B, P, x)
    BY <2>2, <2>3 DEF Alone, Ahead, InUse, InNone
  <2>5. 0 \in 0..Size[k].chunks /\ 1..0 = {}
    BY <1>0, SMT
  <2>6. \E n \in 0..Size[k].chunks : \A x : InUse(k, B, P, x) <=> x \in 1..n
    BY <2>4, <2>5
  <2> QED BY <2>b, <2>p, <2>1, <2>4, <2>6 DEF Apart, IdInv
<1>7. RowInv(k)
  <2>1. wan \in R(k)!Routers /\ DOMAIN sent[wan] = {} /\ DOMAIN queue[wan] = {}
        /\ \A l \in R(k)!Loops : DOMAIN hand[l] = {}
    BY <1>2, SMT DEF R!Routers
  <2> QED BY <2>1 DEF RowInv, Row
<1> QED BY <1>1, <1>3, <1>4, <1>5, <1>6, <1>7 DEF ChunkInv

(* Every step of the routers keeps all of it. *)
LEMMA RouterStep ==
  ASSUME NEW k \in DOMAIN Size, ControlInv(k), TimeInv(k), ChunkInv(k), RowInv(k), R(k)!Next
  PROVE  ControlInv(k)' /\ TimeInv(k)' /\ ChunkInv(k)' /\ RowInv(k)'
<1>1. ControlInv(k)'
  BY ControlStep
<1>2. TimeInv(k)' /\ now' >= now
  BY TimeStep DEF ChunkInv
<1>3. ChunkInv(k)'
  BY <1>2, ChunkStep
<1>4. RowInv(k)'
  BY <1>1, <1>3, RowStep
<1> QED BY <1>1, <1>2, <1>3, <1>4

(* The inductive invariant of the routers. *)
RouterInv(k) == ControlInv(k) /\ TimeInv(k) /\ ChunkInv(k) /\ RowInv(k)
RoutersInv == \A k \in DOMAIN Size : which = k => RouterInv(k)

(* It holds of whatever size of routers runs. *)
LEMMA RoutersInvariant == NetworkSpec => []RoutersInv
<1>1. NetworkInit => RoutersInv
  <2>1. SUFFICES ASSUME NetworkInit, NEW k \in DOMAIN Size, which = k
                 PROVE  RouterInv(k)
    BY DEF RoutersInv
  <2>2. R(k)!Init
    BY <2>1, SizeAssumption DEF NetworkInit
  <2> QED BY <2>2, InitControl, InitChunks DEF RouterInv
<1>2. RoutersInv /\ [NetworkNext]_netvars => RoutersInv'
  <2>1. SUFFICES ASSUME RoutersInv, [NetworkNext]_netvars, NEW k \in DOMAIN Size, which' = k
                 PROVE  RouterInv(k)'
    BY DEF RoutersInv
  <2>2. CASE NetworkNext
    <3>1. which = k
      BY <2>1, <2>2 DEF NetworkNext
    <3>2. R(k)!Next
      BY <2>2, <3>1, SizeAssumption DEF NetworkNext
    <3> QED BY <2>1, <3>1, <3>2, RouterStep DEF RoutersInv, RouterInv
  <2>3. CASE UNCHANGED netvars
    <3>1. which = k
      BY <2>1, <2>3 DEF netvars
    <3>2. RouterInv(k)
      BY <2>1, <3>1 DEF RoutersInv
    <3>3. UNCHANGED <<stopFunc, starts, cancelled, pc, entered, wake, hand, mutex, queue, pushCh, now,
                      apc, todo, sent, gone>>
      BY <2>3 DEF netvars, run
    <3>4. ControlInv(k)'
      BY <3>2, <3>3, ControlStays DEF RouterInv
    <3>5. TimeInv(k)'
      BY <3>2, <3>3 DEF RouterInv, TimeInv
    <3>6. ChunkInv(k)' /\ RowInv(k)'
      BY <3>2, <3>3 DEF RouterInv, ChunkInv, DataInv, HandInv, IdInv, SentInv, RowInv
    <3> QED BY <3>4, <3>5, <3>6 DEF RouterInv
  <2> QED BY <2>1, <2>2, <2>3
<1> QED BY <1>1, <1>2, PTL DEF NetworkSpec, netvars

(* Start and Stop of a tree of routers, called by any number of            *)
(* applications: no child runs under a stopped root, every goroutine that  *)
(* runs is cancelled or can be, and no Stop calls a nil stopFunc.          *)
THEOREM RoutersStoppable == NetworkSpec => []Stoppable
<1>1. RoutersInv => Stoppable
  <2>0. SUFFICES ASSUME RoutersInv, NEW k \in DOMAIN Size, which = k
                 PROVE  R(k)!TypeOK /\ R(k)!Stoppable
    BY DEF Stoppable
  <2>1. RouterInv(k)
    BY <2>0 DEF RoutersInv
  <2>2. ControlInv(k) /\ TimeInv(k) /\ DataInv(k) /\ HandInv(k)
    BY <2>1 DEF RouterInv, ChunkInv
  <2>3. R(k)!Stoppable
    <3>1. \A a \in Size[k].apps : apc[a] # "panic"
      <4>1. \A a \in Size[k].apps : apc[a] \in {"idle", "children", "relock", "failed"}
        BY <2>2 DEF ControlInv
      <4> QED BY <4>1
    <3> QED BY <2>2, <3>1 DEF ControlInv, R!Stoppable
  <2>4. \A l \in R(k)!Loops : hand[l] \in Seq(R(k)!Chunks) /\ Len(hand[l]) <= 1
    <3>1. SUFFICES ASSUME NEW l \in R(k)!Loops
                   PROVE  hand[l] \in Seq(R(k)!Chunks) /\ Len(hand[l]) <= 1
      OBVIOUS
    <3>2. hand[l] \in Seq(R(k)!Chunks)
      BY <2>2 DEF DataInv
    <3>3. CASE hand[l] = <<>>
      BY <3>2, <3>3, EmptyAndOne
    <3>4. ASSUME NEW c \in R(k)!Chunks, hand[l] = <<c>>
          PROVE  Len(hand[l]) <= 1
      BY <3>4, EmptyAndOne
    <3> QED BY <2>2, <3>2, <3>3, <3>4 DEF HandInv
  <2>5. \A r \in R(k)!Routers : queue[r] \in Seq(R(k)!Chunks) /\ (Size[k].queueSize > 0 => Len(queue[r]) <= Size[k].queueSize)
    BY <2>2 DEF DataInv
  <2>6. /\ stopFunc \in [R(k)!Routers -> 0..Size[k].starts] /\ starts \in [R(k)!Routers -> 0..Size[k].starts]
        /\ cancelled \in SUBSET R(k)!Loops /\ todo \in [Size[k].apps -> SUBSET Size[k].children]
        /\ pc \in [R(k)!Loops -> {"none", "process", "body", "forward", "relock", "wait", "sleep", "done"}]
    BY <2>2 DEF ControlInv, Places
  <2>7. apc \in [Size[k].apps -> {"idle", "children", "relock", "failed", "panic"}]
    BY <2>2 DEF ControlInv
  <2>8. R(k)!TypeOK
    BY <2>2, <2>4, <2>5, <2>6, <2>7 DEF R!TypeOK, TimeInv
  <2> QED BY <2>3, <2>8
<1> QED BY <1>1, RoutersInvariant, PTL

(* processChunks: no router forwards or drops a chunk twice, however many  *)
(* goroutines process its queue; none is overtaken in a router started     *)
(* once; none leaves before it has spent MinDelay in the router.           *)
THEOREM ChunksInTurn == NetworkSpec => []InTurn
<1>1. RoutersInv => InTurn
  <2>0. SUFFICES ASSUME RoutersInv, NEW k \in DOMAIN Size, which = k
                 PROVE  R(k)!OnceEach /\ R(k)!InOrder /\ R(k)!DelayHonoured
    BY DEF InTurn
  <2>1. RouterInv(k)
    BY <2>0 DEF RoutersInv
  <2>2. ChunkInv(k) /\ DataInv(k) /\ HandInv(k) /\ SentInv(k) /\ RowInv(k) /\ TimeInv(k)
    BY <2>1 DEF RouterInv, ChunkInv
  <2>3. R(k)!DelayHonoured
    <3>1. SUFFICES ASSUME NEW l \in R(k)!Loops, NEW c \in R(k)!Contents(hand[l])
                   PROVE  c.ts + Size[k].minDelay <= now
      BY DEF R!DelayHonoured
    <3>2. PICK i \in DOMAIN hand[l] : c = hand[l][i]
      BY DEF R!Contents
    <3>3. hand[l] # <<>>
      BY <3>2, EmptyAndOne
    <3>4. pc[l] = "forward"
      BY <2>2, <3>3 DEF HandInv
    <3>5. PICK d \in R(k)!Chunks : hand[l] = <<d>> /\ d.ts + Size[k].minDelay <= now
      BY <2>2, <3>4 DEF HandInv
    <3>6. c = d
      BY <3>2, <3>5, SMT
    <3> QED BY <3>5, <3>6
  <2>4. R(k)!InOrder
    <3>1. SUFFICES ASSUME Size[k].children = {}, starts[wan] = 1
                   PROVE  \A i, j \in DOMAIN sent[wan] : i < j => sent[wan][i] < sent[wan][j]
      BY DEF R!InOrder
    <3>2. <<wan, 1>> \in R(k)!Loops
      <4>1. starts \in [R(k)!Routers -> 0..Size[k].starts] /\ wan \in R(k)!Routers
        BY <2>1 DEF RouterInv, ControlInv, R!Routers
      <4>2. 1 \in 1..Size[k].starts
        BY <3>1, <4>1, SizeIs, SMT
      <4> QED BY <4>1, <4>2 DEF R!Loops
    <3>3. starts[wan] <= 1
      BY <3>1, SMT
    <3>4. Row(sent[wan], hand[<<wan, 1>>], queue[wan])
      BY <2>2, <3>1, <3>2, <3>3 DEF RowInv
    <3> QED BY <3>4 DEF Row
  <2>5. R(k)!OnceEach
    <3>1. SUFFICES ASSUME NEW r \in R(k)!Routers
                   PROVE  /\ \A i, j \in DOMAIN queue[r] : queue[r][i].id = queue[r][j].id => i = j
                          /\ R(k)!Queued(r) \cap R(k)!Past(r) = {}
      BY <2>2 DEF R!OnceEach, SentInv
    <3>b. PICK B : B = BoxOf(k, queue, hand)
      OBVIOUS
    <3>p. PICK P : P = PastOf(k, sent, gone)
      OBVIOUS
    <3>2. Alone(k, B) /\ Ahead(k, B, P)
      BY <2>2, <3>b, <3>p, BoxFacts
    <3>3. PICK b \in Boxes(k) : B[b] = queue[r] /\ b[1] = r
      <4>1. <<r, 0>> \in Boxes(k) /\ <<r, 0>>[1] = r /\ BoxOf(k, queue, hand)[<<r, 0>>] = queue[r]
        BY SizeIs, Numbers DEF Boxes, BoxOf
      <4> QED BY <3>b, <4>1
    <3>4. \A i, j \in DOMAIN queue[r] : queue[r][i].id = queue[r][j].id => i = j
      <4>1. \A i, j \in DOMAIN B[b] : B[b][i].id = B[b][j].id => i = j
        BY <3>2 DEF Alone
      <4> QED BY <3>3, <4>1
    <3>5. \A i \in DOMAIN queue[r] : queue[r][i].id \notin P[r]
      <4>1. \A to : r \in Way(k, r, to)
        BY DEF Way
      <4>2. \A i \in DOMAIN B[b] : B[b][i].id \notin P[r]
        BY <3>2, <3>3, <4>1 DEF Ahead
      <4> QED BY <3>3, <4>2
    <3>6. P[r] = R(k)!Past(r)
      BY <3>p DEF PastOf, R!Past
    <3>7. \A x \in R(k)!Queued(r) : x \notin R(k)!Past(r)
      BY <3>5, <3>6 DEF R!Queued, R!Contents
    <3> QED BY <3>4, <3>7
  <2> QED BY <2>3, <2>4, <2>5
<1> QED BY <1>1, RoutersInvariant, PTL

-----------------------------------------------------------------------------
(* The making of a network: what holds of it in every state. *)

INSTANCE WellFoundedInduction

(* A set of numbers that is not empty has a least member. *)
LEMMA LeastOf == HaveLeast
<1>1. ASSUME NEW x \in Nat, NEW y \in Nat, ~(y < x) PROVE x <= y
  BY <1>1, SMT
<1> SUFFICES ASSUME NEW T, T \subseteq Nat, T # {}
             PROVE  \E x \in T : \A y \in T : x <= y
  BY DEF HaveLeast
<1>2. PICK x \in T : \A y \in T : ~(<<y, x>> \in OpToRel(<, Nat))
  BY NatLessThanWellFounded, WFMin
<1>3. \A y \in T : ~(y < x)
  BY <1>2 DEF OpToRel
<1>4. \A y \in T : y \in Nat /\ x \in Nat
  BY <1>2
<1> QED BY <1>1, <1>2, <1>3, <1>4

(* AddNet, AddRouter, AddChildRouter, AddAddress and RemoveAddress in any  *)
(* order, with any addresses and whichever of them fail: the tables of the *)
(* routers agree with the interfaces, a reply finds its way back through   *)
(* tables and NAT to the Net it is for, and a router that takes part has   *)
(* its NAT.                                                                *)
THEOREM NetworkReachable == NetworkSpec => []Reachable
BY NetworkMade, LeastOf
==============================================================================
