------------------------------- MODULE Topology -------------------------------
(***************************************************************************)
(* How a virtual network is put together: Router.AddNet, AddRouter and     *)
(* AddChildRouter, Net.AddAddress and RemoveAddress, and what becomes of a *)
(* chunk and of the reply to it (src/vnet/router.go, net.go, nat.go, and   *)
(* the interface of src/net.go).  There is a router "wan", a router "lan"  *)
(* that can become its child, and Nets that can be added to either.  An    *)
(* address is <<router whose subnet contains it, last byte>>.              *)
(*                                                                         *)
(* A set-up call works on the interface of a NIC without the mutex of the  *)
(* NIC, so it must not overlap another call on the same NIC; every call is *)
(* one step.  Only eth0 is modelled, and only IPv4.  A Net that has its    *)
(* router is not added again: AddNet locks the router and then the Net,    *)
(* AddAddress the Net and then its router.                                 *)
(***************************************************************************)
EXTENDS Naturals, Sequences

CONSTANTS
  Nets,
  Configs,       \* configurations: [staticIPs, localIPs, oneToOne]
  LastID,        \* 0xfe in the code
  Extra,         \* addresses AddAddress and RemoveAddress are called with
  MaxAddrs       \* bound on the addresses of an interface

Routers == {"wan", "lan"}
NICs == Nets \cup {"lan"}
InSubnet(r, ip) == ip[1] = r

(* The members of a list, and the first place of one of them. *)
ToSet(s) == {s[i] : i \in DOMAIN s}
FirstAt(s, x) == CHOOSE i \in DOMAIN s : s[i] = x /\ \A j \in 1..(i - 1) : s[j] # x

VARIABLES
  staticIPs,  \* of each NIC
  localIPs,   \* staticLocalIPs of "lan": static address -> local address
  oneToOne,   \* whether its NAT type is NATModeNAT1To1
  addrs,      \* addresses of eth0
  router,     \* Net.router, or Router.parent
  nics,       \* nics[r]: address -> NIC
  lastID,
  nat,        \* of "lan": <<>> or <<[mapped, local]>>
  children,   \* of "wan"
  failed,     \* history: a set-up call for "lan" returned an error
  unlinked,   \* history: <<n, ip>> added or removed while n had no router
  contested   \* history: addresses that a NIC claimed while another one had
              \* them, or that RemoveAddress left to some NIC

config == <<staticIPs, localIPs, oneToOne>>
vars == <<config, addrs, router, nics, lastID, nat, children, failed, unlinked, contested>>

TypeOK ==
  /\ router \in [NICs -> Routers \cup {"none"}]
  /\ \A r \in Routers : \A ip \in DOMAIN nics[r] : InSubnet(r, ip) /\ nics[r][ip] \in NICs
  /\ unlinked \subseteq NICs \X Extra /\ failed \in BOOLEAN
  /\ lastID \in [Routers -> 0..LastID]
  /\ \A c \in ToSet(nat) : Len(c.mapped) > 0 /\ (oneToOne => Len(c.local) = Len(c.mapped))
  /\ children \in Seq({"lan"})

(* NewNet and NewRouter. *)
Init ==
  /\ \E c \in Configs :
       staticIPs = c.staticIPs /\ localIPs = c.localIPs /\ oneToOne = c.oneToOne
  /\ addrs = [n \in NICs |-> <<>>]
  /\ router = [n \in NICs |-> "none"]
  /\ nics = [r \in Routers |-> <<>>]
  /\ lastID = [r \in Routers |-> 0]
  /\ nat = <<>> /\ children = <<>>
  /\ failed = FALSE /\ unlinked = {} /\ contested = {}

-----------------------------------------------------------------------------
HasAddr(n, ip) == ip \in ToSet(addrs[n])

(* History: n claims the addresses ips. *)
Claim(n, ips) == contested \cup {ip \in ips : \E m \in NICs \ {n} : HasAddr(m, ip)}

(* assignIPAddress counts up and does not look at the addresses in use. *)
AssignIPAddress(r) == <<r, lastID[r] + 1>>

(* addNIC up to setRouter: the addresses before the first one that is      *)
(* beyond the subnet are added to the interface and to the table.          *)
WithinAny(r, ips) == ips
Within(r, ips) ==
  LET fits(n) == \A i \in 1..n : InSubnet(r, ips[i])
  IN  CHOOSE fit \in {SubSeq(ips, 1, n) : n \in 0..Len(ips)} :
        fits(Len(fit)) /\ (fit = ips \/ ~fits(Len(fit) + 1))
Register(r, n, ips) ==
  [nics EXCEPT ![r] = [ip \in ToSet(ips) \cup DOMAIN @ |-> IF ip \in ToSet(ips) THEN n ELSE @[ip]]]
AddNIC(r, n, ips) ==
  LET fit == Within(r, ips)
  IN  /\ Len(addrs[n]) + Len(fit) <= MaxAddrs
      /\ addrs' = [addrs EXCEPT ![n] = @ \o fit]
      /\ nics' = Register(r, n, fit)
      /\ contested' = Claim(n, ToSet(fit))

(* Its addresses, or one that is assigned. *)
IPsFor(r, n) == IF staticIPs[n] = <<>> THEN <<AssignIPAddress(r)>> ELSE staticIPs[n]
CountID(r, n) ==
  IF staticIPs[n] # <<>> THEN UNCHANGED lastID
  ELSE lastID[r] < LastID /\ lastID' = [lastID EXCEPT ![r] = @ + 1]

AddNet(r, n) ==
  /\ router[n] = "none"
  /\ CountID(r, n)
  /\ AddNIC(r, n, IPsFor(r, n))
  /\ router' = IF Within(r, IPsFor(r, n)) = IPsFor(r, n) THEN [router EXCEPT ![n] = r] ELSE router
  /\ UNCHANGED <<config, nat, children, failed, unlinked>>

(* Router.setRouter, when the interface has the addresses list: the parent *)
(* is set whatever happens next.  newNAT in 1:1 mode wants a local address *)
(* for each of them, and a NAT that is refused leaves none; in normal mode *)
(* it does not look at the local addresses.                                *)
LocalOf(list) == IF oneToOne THEN [i \in DOMAIN list |-> localIPs[list[i]]] ELSE <<>>
NATError(list) == list = <<>> \/ (oneToOne /\ \E ip \in ToSet(list) : ip \notin DOMAIN localIPs)
NewNATOfChild(list) ==
  IF NATError(list) \/ children = <<>> THEN <<>> ELSE <<[mapped |-> list, local |-> LocalOf(list)]>>
NewNAT(list) ==
  IF NATError(list) THEN <<>> ELSE <<[mapped |-> list, local |-> LocalOf(list)]>>
SetRouter(list) ==
  /\ router' = [router EXCEPT !["lan"] = "wan"]
  /\ nat' = NewNAT(list)
  /\ failed' = (failed \/ NATError(list))

(* AddRouter, or AddNet with a NIC that wraps the router; only the former  *)
(* makes it a child.                                                       *)
AddRouter(child) ==
  LET ips == IPsFor("wan", "lan")
  IN  /\ nat = <<>>
      /\ CountID("wan", "lan")
      /\ AddNIC("wan", "lan", ips)
      /\ IF Within("wan", ips) = ips THEN SetRouter(addrs'["lan"])
         ELSE failed' = TRUE /\ UNCHANGED <<router, nat>>
      /\ children' = IF child /\ Within("wan", ips) = ips /\ ~NATError(addrs'["lan"])
                     THEN Append(children, "lan") ELSE children
      /\ UNCHANGED <<config, unlinked>>

AddChildRouter ==
  /\ children = <<>>
  /\ SetRouter(addrs["lan"])
  /\ children' = IF NATError(addrs["lan"]) THEN children ELSE Append(children, "lan")
  /\ UNCHANGED <<config, addrs, nics, lastID, unlinked, contested>>

-----------------------------------------------------------------------------
(* Net.AddAddress: the interface first, then the table of its router, if   *)
(* it has one and the address is within the subnet.                        *)
AddAddress(n, ip) ==
  /\ Len(addrs[n]) < MaxAddrs
  /\ addrs' = [addrs EXCEPT ![n] = Append(@, ip)]
  /\ nics' = IF router[n] # "none" /\ InSubnet(router[n], ip)
             THEN Register(router[n], n, <<ip>>) ELSE nics
  /\ unlinked' = IF router[n] = "none" THEN unlinked \cup {<<n, ip>>} ELSE unlinked
  /\ contested' = Claim(n, {ip})
  /\ UNCHANGED <<config, router, lastID, nat, children, failed>>

(* Net.RemoveAddress: Interface.RemoveAddress takes away the first such    *)
(* address; the entry of the table goes, whoever it is for.                *)
UnregisterNothing(n, ip) == nics
Unregister(n, ip) ==
  IF router[n] = "none" THEN nics
  ELSE [nics EXCEPT ![router[n]] = [i \in DOMAIN @ \ {ip} |-> @[i]]]
Without(s, i) == SubSeq(s, 1, i - 1) \o SubSeq(s, i + 1, Len(s))
RemoveAddress(n, ip) ==
  /\ addrs' = IF HasAddr(n, ip) THEN [addrs EXCEPT ![n] = Without(@, FirstAt(@, ip))] ELSE addrs
  /\ nics' = Unregister(n, ip)
  /\ unlinked' = IF router[n] = "none" THEN unlinked \cup {<<n, ip>>} ELSE unlinked
  /\ contested' = contested \cup {i \in {ip} : \E m \in NICs : i \in ToSet(addrs'[m])}
  /\ UNCHANGED <<config, router, lastID, nat, children, failed>>

Next ==
  \/ \E n \in Nets, r \in Routers : AddNet(r, n)
  \/ \E child \in BOOLEAN : AddRouter(child)
  \/ AddChildRouter
  \/ \E n \in Nets, ip \in Extra : AddAddress(n, ip) \/ RemoveAddress(n, ip)

Spec == Init /\ [][Next]_vars

-----------------------------------------------------------------------------
(* A chunk that Net n sends from a wildcard socket has the first address   *)
(* of eth0 as its source; on the way to the WAN the NAT of "lan" replaces  *)
(* it.  ReplyTo is who gets what is sent back to the address the NAT put   *)
(* there.  Each is a set, empty if the chunk is dropped.                   *)
DetermineSourceIP(n) == IF addrs[n] = <<>> THEN {} ELSE {addrs[n][1]}
Lookup(r, ip) == IF ip \in DOMAIN nics[r] THEN {nics[r][ip]} ELSE {}
PairedByLast(from, to, ip) == IF ip \in ToSet(from) THEN {to[Len(from)]} ELSE {}
Paired(from, to, ip) ==
  IF ip \in ToSet(from) THEN {to[FirstAt(from, ip)]} ELSE {}
TranslateOutbound(src) ==
  IF oneToOne THEN Paired(nat[1].local, nat[1].mapped, src) ELSE {nat[1].mapped[1]}
TranslateInbound(mapped, src) ==
  IF oneToOne THEN Paired(nat[1].mapped, nat[1].local, mapped) ELSE {src}
ReplyTo(mapped, src) ==
  IF "lan" \in Lookup("wan", mapped)
  THEN UNION {Lookup("lan", ip) : ip \in TranslateInbound(mapped, src)}
  ELSE Lookup("wan", mapped)

(* The table of a router agrees with the interfaces, whatever was added,   *)
(* removed, refused or claimed twice: an entry is for a NIC that has the   *)
(* address, and an address of the subnet that a NIC has is routed to it.   *)
(* The only exceptions are addresses that a Net got or lost before it had  *)
(* its router, and, for the second part, those that two NICs claimed.      *)
TablesAgree ==
  \A r \in Routers :
    /\ \A ip \in DOMAIN nics[r] : HasAddr(nics[r][ip], ip) \/ <<nics[r][ip], ip>> \in unlinked
    /\ \A n \in NICs : \A ip \in ToSet(addrs[n]) :
         router[n] = r /\ InSubnet(r, ip) /\ <<n, ip>> \notin unlinked /\ ip \notin contested =>
           Lookup(r, ip) = {n}

(* The reply to a chunk that a Net behind "lan" sent to the WAN comes back *)
(* to that Net, through the table of the WAN, the NAT and the table of the *)
(* LAN, in both modes of the NAT and however often the interface of "lan"  *)
(* was set up, unless one of the two addresses is contested.               *)
ReplyReturns ==
  \A n \in Nets : router[n] = "lan" /\ nat # <<>> =>
    \A src \in DetermineSourceIP(n) : \A mapped \in TranslateOutbound(src) :
      {src, mapped} \cap contested = {} /\ <<n, src>> \notin unlinked /\ InSubnet("lan", src) =>
        ReplyTo(mapped, src) = {n}

(* A router that chunks are routed to, or that has a parent to send chunks *)
(* to, has its NAT, unless a call that set it up returned an error.        *)
NATInPlace ==
  router["lan"] # "none" \/ (\E ip \in DOMAIN nics["wan"] : nics["wan"][ip] = "lan") =>
    nat # <<>> \/ failed
=============================================================================
