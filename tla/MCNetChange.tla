----------------------------- MODULE MCNetChange -----------------------------
(* A system that starts with its first interface only, which start() may   *)
(* have been too early to see.  A change makes an interface, without       *)
(* addresses, removes one, or changes either its link part or its          *)
(* addresses.                                                              *)
EXTENDS NetChange

CONSTANTS first, eth, up

MCInit ==
  /\ Init
  /\ sys = [Nothing EXCEPT ![first] = <<<<eth, up>>, NoAddrs>>]
  /\ network \in {sys, Nothing}
  /\ undelivered = (network # sys) /\ ~unread
  /\ timeout \/ network = Nothing => source
  /\ ~(timeout /\ network = Nothing)

OneThing(before, after) ==
  IF before = Absent THEN after[2] = NoAddrs
  ELSE after = Absent \/ after[1] = before[1] \/ after[2] = before[2]

MCNext == Next /\ \A i \in Ifaces : sys'[i] # sys[i] => OneThing(sys[i], sys'[i])

MCSpec == MCInit /\ [][MCNext]_vars /\ Fairness
=============================================================================
