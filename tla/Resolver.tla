------------------------------- MODULE Resolver -------------------------------
(***************************************************************************)
(* The name resolvers of a chain of routers (src/vnet/resolver.go), asked  *)
(* by Net.ResolveIPAddr while hosts and routers are still being added.     *)
(* Resolver 1 is the one of the Net's router, and resolver i + 1 that of   *)
(* the router above i.  A resolver answers under its own mutex and asks    *)
(* its parent after unlocking it.                                          *)
(***************************************************************************)
EXTENDS Naturals, Sequences

CONSTANTS
  Depth,      \* number of routers
  Names,      \* host names other than "localhost"
  IPs         \* addresses of hosts

ASSUME ResolverAssumption == Depth \in Nat \ {0} /\ "localhost" \notin Names

Resolvers == 1..Depth
HostNames == Names \cup {"localhost"}
Loopback == "127.0.0.1"
NotFound == "host not found"
NoRouter == "no router linked"
Hosts == [Resolvers -> [HostNames -> SUBSET (IPs \cup {Loopback})]]
Parents == [1..(Depth - 1) -> BOOLEAN]

VARIABLES
  hosts,    \* hosts[i]: name -> addresses, at most one
  parent,   \* whether i has its parent
  linked,   \* whether the Net has its router
  asked,    \* <<>> or <<name>>: the call of ResolveIPAddr in progress
  asking,   \* the resolver it is asking, or 0
  missed,   \* whether that one does not know the name
  answer,   \* what it returned, "" before that
  before,   \* history: hosts, and parent, when it was called
  during    \* history: the addresses that the name had in each resolver during it

call == <<asked, asking, missed, answer, before, during>>
vars == <<hosts, parent, linked, call>>

TypeOK ==
  /\ hosts \in Hosts /\ parent \in Parents /\ linked \in BOOLEAN
  /\ asked \in {<<>>} \cup {<<n>> : n \in HostNames}
  /\ asking \in 0..Depth /\ missed \in BOOLEAN
  /\ answer \in IPs \cup {Loopback, NotFound, NoRouter, ""}
  /\ before \in Hosts \X Parents
  /\ during \in [Resolvers -> SUBSET (IPs \cup {Loopback})]

(* newResolver knows "localhost". *)
Init ==
  /\ hosts = [i \in Resolvers |-> [n \in HostNames |-> IF n = "localhost" THEN {Loopback} ELSE {}]]
  /\ parent = [i \in 1..(Depth - 1) |-> FALSE]
  /\ linked = FALSE
  /\ asked = <<>> /\ asking = 0 /\ missed = FALSE /\ answer = ""
  /\ before = <<hosts, parent>> /\ during = [i \in Resolvers |-> {}]

(* Router.AddHost; a name may get another address. *)
AddHost(i, name, ip) ==
  /\ hosts' = [hosts EXCEPT ![i][name] = {ip}]
  /\ during' = IF asked = <<name>> /\ asking # 0 THEN [during EXCEPT ![i] = @ \cup {ip}] ELSE during
  /\ UNCHANGED <<parent, linked, asked, asking, missed, answer, before>>

(* setParent, when i is added to the router above it; setRouter of the Net. *)
SetParent(i) ==
  /\ ~parent[i]
  /\ parent' = [parent EXCEPT ![i] = TRUE]
  /\ UNCHANGED <<hosts, linked, call>>
SetRouter ==
  /\ ~linked
  /\ linked' = TRUE
  /\ UNCHANGED <<hosts, parent, call>>

(* ResolveIPAddr answers for "localhost" itself and asks its router, if it *)
(* has one, for other names.                                               *)
Resolve(name) ==
  /\ asking = 0
  /\ asked' = <<name>>
  /\ before' = <<hosts, parent>>
  /\ during' = [i \in Resolvers |-> hosts[i][name]]
  /\ asking' = IF name # "localhost" /\ linked THEN 1 ELSE 0
  /\ answer' = IF name = "localhost" THEN Loopback ELSE IF linked THEN "" ELSE NoRouter
  /\ UNCHANGED <<hosts, parent, linked, missed>>

(* lookUp of one resolver: its own hosts, under its mutex, and after that  *)
(* its parent, or an error.                                                *)
LookUp ==
  LET known == hosts[asking][asked[1]]
  IN  /\ asking # 0 /\ ~missed
      /\ IF known = {} THEN missed' = TRUE /\ UNCHANGED <<asking, answer>>
         ELSE answer' \in known /\ asking' = 0 /\ UNCHANGED missed
      /\ UNCHANGED <<hosts, parent, linked, asked, before, during>>

AsksNobody(i) == 0
AsksNext(i) == IF i < Depth /\ parent[i] THEN i + 1 ELSE 0
AskParent ==
  /\ missed
  /\ missed' = FALSE
  /\ asking' = AsksNext(asking)
  /\ answer' = IF asking' = 0 THEN NotFound ELSE ""
  /\ UNCHANGED <<hosts, parent, linked, asked, before, during>>

Next ==
  \/ \E i \in Resolvers, name \in Names, ip \in IPs : AddHost(i, name, ip)
  \/ \E i \in 1..(Depth - 1) : SetParent(i)
  \/ SetRouter
  \/ \E name \in HostNames : Resolve(name)
  \/ LookUp \/ AskParent

Spec == Init /\ [][Next]_vars

-----------------------------------------------------------------------------
(* History: the resolvers that were above the Net, and knew the name, when *)
(* the call was made; whether one up to i had an address during the call.  *)
Chain == {i \in Resolvers : \A j \in 1..(i - 1) : before[2][j]}
Knew == {i \in Chain : before[1][i][asked[1]] # {}}
HadUpTo(i, ip) == \E j \in 1..i : ip \in during[j]

(* lookUp, although it unlocks one resolver before it asks the next: a     *)
(* name that a router of the chain knew when the call was made is found,   *)
(* with an address it had, during the call, in that router or in one       *)
(* nearer to the Net, never in one above it.  If no router knew the name,  *)
(* the call fails or finds an address the name was given since.            *)
NamesResolve ==
  asking = 0 /\ asked # <<>> /\ answer # NoRouter =>
    /\ \A i \in Knew : HadUpTo(i, answer)
    /\ answer = NotFound \/ HadUpTo(Depth, answer)
=============================================================================
