------------------------------- MODULE MCRouter -------------------------------
(***************************************************************************)
(* The routers.  Three sizes of module Router: a router started once with  *)
(* chunks to queue; a router started and stopped twice by two              *)
(* applications; a router with a child, started and stopped by two         *)
(* applications while a chunk crosses both.  Beside them the making of a   *)
(* network from two Nets and two routers (Topology), and the resolution of *)
(* names through three routers (Resolver).  The one under test is chosen   *)
(* once; the variables of the others are not used, and the resolvers stay  *)
(* as they were made.                                                      *)
(***************************************************************************)
EXTENDS Resolver, TLC

CONSTANTS
  wan, lan, a1, a2,
  Size,                                    \* sizes of Router
  Nets, Configs, LastID, Extra, MaxAddrs   \* of Topology

(* A router is not among its children, nor is Nowhere a router. *)
ASSUME SizeAssumption ==
  /\ {"topology", "names"} \cap DOMAIN Size = {}
  /\ \A k \in DOMAIN Size :
       /\ wan \notin Size[k].children /\ "nowhere" \notin {wan} \cup Size[k].children
       /\ Size[k].minDelay \in Nat /\ Size[k].queueSize \in Nat
       /\ Size[k].starts \in Nat /\ Size[k].chunks \in Nat /\ Size[k].time \in Nat

(* Router "lan" is not a Net; addresses are IPv4 addresses, within the     *)
(* subnet of a router or beyond both.                                      *)
Addresses == {"wan", "lan", "beyond"} \X Nat
ASSUME SetUpAssumption ==
  /\ "lan" \notin Nets /\ LastID \in Nat /\ Extra \subseteq Addresses
  /\ \A c \in Configs : /\ \A n \in Nets \cup {"lan"} : c.staticIPs[n] \in Seq(Addresses)
                        /\ c.oneToOne \in BOOLEAN

VARIABLES
  which,
  stopFunc, starts, cancelled, pc, entered, wake, hand, mutex, queue, pushCh, now,
  apc, todo, sent, gone,
  staticIPs, localIPs, oneToOne, addrs, router, nics, lastID, nat, children, failed, unlinked,
  contested

R(k) == INSTANCE Router WITH
  Root <- wan, Children <- Size[k].children, Apps <- Size[k].apps, MinDelay <- Size[k].minDelay,
  QueueSize <- Size[k].queueSize, NATMayFail <- Size[k].natMayFail,
  MaxStarts <- Size[k].starts, MaxChunks <- Size[k].chunks, MaxTime <- Size[k].time

(* The sizes TLC checks. *)
Sizes ==
  [single |-> [children |-> {}, apps |-> {a1}, minDelay |-> 1, queueSize |-> 2,
               natMayFail |-> FALSE, starts |-> 1, chunks |-> 4, time |-> 3],
   restarted |-> [children |-> {}, apps |-> {a1, a2}, minDelay |-> 1, queueSize |-> 1,
                  natMayFail |-> FALSE, starts |-> 2, chunks |-> 2, time |-> 2],
   tree |-> [children |-> {lan}, apps |-> {a1, a2}, minDelay |-> 0, queueSize |-> 0,
             natMayFail |-> TRUE, starts |-> 2, chunks |-> 1, time |-> 0]]

(* Addresses assigned or static, some of them claimed twice; a NAT in      *)
(* normal mode, in 1:1 mode, and refused; set-up that fails half-way.      *)
Wan(i) == <<"wan", i>>
Lan(i) == <<"lan", i>>
Config(a, b, c, local, mode) ==
  [staticIPs |-> [a |-> a, b |-> b, lan |-> c], localIPs |-> local, oneToOne |-> mode]
SetUps ==
  {Config(<<>>, <<Lan(1)>>, <<>>, <<>>, FALSE),
   Config(<<>>, <<Lan(1)>>, <<Wan(1), Wan(2)>>, (Wan(1) :> Lan(2)) @@ (Wan(2) :> Lan(1)), TRUE),
   Config(<<Lan(1), Wan(1)>>, <<>>, <<Wan(1), Lan(1)>>, (Wan(1) :> Lan(1)) @@ (Lan(1) :> Lan(2)),
          TRUE),
   Config(<<>>, <<>>, <<>>, <<>>, TRUE)}
Extras == {Lan(1), Lan(2)}
Making == INSTANCE Topology

run == <<stopFunc, starts, cancelled, pc, entered, wake, hand, mutex, queue, pushCh, now,
         apc, todo, sent, gone>>
topo == <<staticIPs, localIPs, oneToOne, addrs, router, nics, lastID, nat, children, failed,
          unlinked, contested>>

Unused == "unused"
NoRun ==
  /\ stopFunc = Unused /\ starts = Unused /\ cancelled = Unused /\ pc = Unused
  /\ entered = Unused /\ wake = Unused /\ hand = Unused /\ mutex = Unused /\ queue = Unused
  /\ pushCh = Unused /\ now = Unused /\ apc = Unused /\ todo = Unused /\ sent = Unused
  /\ gone = Unused
NoTopo ==
  /\ staticIPs = Unused /\ localIPs = Unused /\ oneToOne = Unused /\ addrs = Unused
  /\ router = Unused /\ nics = Unused /\ lastID = Unused /\ nat = Unused
  /\ children = Unused /\ failed = Unused /\ unlinked = Unused /\ contested = Unused

NetworkInit ==
  /\ Init
  /\ \/ \E k \in DOMAIN Size : which = k /\ R(k)!Init /\ NoTopo
     \/ which = "topology" /\ Making!Init /\ NoRun
     \/ which = "names" /\ NoRun /\ NoTopo

NetworkNext ==
  \/ \E k \in DOMAIN Size : which = k /\ R(k)!Next /\ UNCHANGED <<which, topo, vars>>
  \/ which = "topology" /\ Making!Next /\ UNCHANGED <<which, run, vars>>
  \/ which = "names" /\ Next /\ UNCHANGED <<which, run, topo>>

NetworkSpec == NetworkInit /\ [][NetworkNext]_<<which, run, topo, vars>>

-----------------------------------------------------------------------------
(* Router!Stoppable: what Stop must stop, it can stop. *)
Stoppable ==
  \A k \in DOMAIN Size : which = k => R(k)!TypeOK /\ R(k)!Stoppable

(* Router!OnceEach, InOrder and DelayHonoured: no chunk is forwarded       *)
(* twice, overtaken, or before it has spent MinDelay in the router.        *)
InTurn ==
  \A k \in DOMAIN Size : which = k => R(k)!OnceEach /\ R(k)!InOrder /\ R(k)!DelayHonoured

(* Router!NothingStuck: cancelled goroutines end, Stop returns, and no     *)
(* queued chunk is forgotten.                                              *)
NoneStuck ==
  \A k \in DOMAIN Size : which = k => R(k)!NothingStuck

(* Topology!TablesAgree, ReplyReturns and NATInPlace: the tables of the    *)
(* routers agree with the interfaces, a reply finds its way back through   *)
(* tables and NAT to the Net it is for, and a router that takes part has   *)
(* its NAT.                                                                *)
Reachable ==
  which = "topology" =>
    Making!TypeOK /\ Making!TablesAgree /\ Making!ReplyReturns /\ Making!NATInPlace
=============================================================================
