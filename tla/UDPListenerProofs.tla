-------------------------- MODULE UDPListenerProofs --------------------------
(***************************************************************************)
(* The UDP listener keeps its books and its socket, for any number of      *)
(* remote addresses, Accepts and connections and any backlog.              *)
(***************************************************************************)
EXTENDS UDPListener, FiniteSetTheorems, TLAPS

Open == {c \in Conns : status[c] = "open"}

(* Conns are numbered in the order getConn makes them. *)
Numbered == \A c \in Conns : status[c] = "none" <=> c > Len(raddr)

(* acceptCh holds each queued Conn once, and nothing else. *)
Queue ==
  /\ \A i \in 1..Len(acceptCh) : status[acceptCh[i]] = "queued"
  /\ \A i, j \in 1..Len(acceptCh) : acceptCh[i] = acceptCh[j] => i = j
  /\ \A c \in Conns : status[c] = "queued" => \E i \in 1..Len(acceptCh) : acceptCh[i] = c

(* Each Accept that has received holds a Conn of its own, not yet open. *)
Hands ==
  \A a \in Acceptors : apc[a] = "taken" =>
    /\ got[a] \in Conns /\ status[got[a]] = "taken"
    /\ \A b \in Acceptors : apc[b] = "taken" /\ got[b] = got[a] => a = b

(* What listener.Close has done by where it is: once it has begun nothing  *)
(* is queued anew, once it has drained nothing is queued.                  *)
Closing ==
  /\ lpc # "idle" => ~accepting
  /\ lpc \in {"drained", "drained0", "wait", "returned"} => acceptCh = <<>>

(* While the count is zero, what an Accept holds was on record when the    *)
(* count reached zero; and from the moment the closer is past its wait,    *)
(* the same goes for every Conn that is or may yet be open.                *)
Records ==
  /\ connWG = 0 => \A c \in Conns : status[c] = "taken" => c \in late
  /\ closer \in {"close", "done", "ended"} \/ ~pConn =>
       /\ lpc \in {"wait", "returned"}
       /\ \A c \in Conns : status[c] \in {"taken", "open"} => c \in late

IInv == Bookkeeping /\ Numbered /\ Queue /\ Hands /\ Closing /\ Records
-----------------------------------------------------------------------------
(* Adding to, removing from and leaving alone the set of open Conns, as    *)
(* Accept, Conn.Close and everything else do.                              *)
LEMMA OpenCount ==
  ASSUME TypeOK
  PROVE  /\ IsFiniteSet(Open) /\ Cardinality(Open) \in Nat
         /\ (Cardinality(Open) = 0 => Open = {})
         /\ \A c \in Conns : /\ Cardinality(Open \cup {c}) =
                                IF c \in Open THEN Cardinality(Open) ELSE Cardinality(Open) + 1
                           /\ Cardinality(Open \ {c}) =
                                IF c \in Open THEN Cardinality(Open) - 1 ELSE Cardinality(Open)
<1>1. IsFiniteSet(Conns)
  BY FS_Interval, ListenerAssumption DEF Conns
<1>2. IsFiniteSet(Open)
  BY <1>1, FS_Subset DEF Open
<1>3. Cardinality(Open) \in Nat
  BY <1>2, FS_CardinalityType
<1>4. Cardinality(Open) = 0 => Open = {}
  BY <1>2, FS_EmptySet
<1>5. ASSUME NEW c \in Conns
      PROVE  /\ Cardinality(Open \cup {c}) =
                   IF c \in Open THEN Cardinality(Open) ELSE Cardinality(Open) + 1
             /\ Cardinality(Open \ {c}) =
                   IF c \in Open THEN Cardinality(Open) - 1 ELSE Cardinality(Open)
  BY Zenon, <1>2, FS_AddElement, FS_RemoveElement
<1>6. QED
  BY <1>2, <1>3, <1>4, <1>5

(* What a Done needs: the listener, or the Conn being closed, is counted. *)
LEMMA DoneCounted ==
  ASSUME IInv,
         lpc \in {"drained", "drained0"} \/ \E c \in Conns : status[c] = "open"
  PROVE  connWG \in Nat \ {0}
<1>1. Cardinality(Open) \in Nat /\ (Cardinality(Open) = 0 => Open = {})
  BY OpenCount DEF IInv, Bookkeeping
<1>2. connWG = (IF lpc \in {"wait", "returned"} THEN 0 ELSE 1) + Cardinality(Open)
  BY DEF IInv, Bookkeeping, ConnWGCount, Open
<1>3. CASE lpc \in {"drained", "drained0"}
  BY <1>1, <1>2, <1>3
<1>4. CASE \E c \in Conns : status[c] = "open"
  BY <1>1, <1>2, <1>4 DEF Open
<1>5. QED
  BY <1>3, <1>4

(* Init. *)
LEMMA InitIInv == Init => IInv
<1> SUFFICES ASSUME Init PROVE IInv
  OBVIOUS
<1>1. TypeOK
  <2>1. raddr \in Seq(Raddrs) /\ Len(raddr) = 0 /\ acceptCh \in Seq(Conns) /\ Len(acceptCh) = 0
    BY DEF Init
  <2>2. /\ conns \in [Raddrs -> Conns \cup {NoConn}]
        /\ status \in [Conns -> {"none", "queued", "taken", "open", "done", "deleted",
                                 "wait", "closed", "dropped"}]
        /\ apc \in [Acceptors -> {"idle", "select", "taken"}]
        /\ got \in [Acceptors -> Conns \cup {NoConn}]
    BY DEF Init
  <2>3. Len(raddr) <= MaxConns /\ Len(acceptCh) <= Backlog /\ connWG \in Nat
    BY <2>1, ListenerAssumption DEF Init
  <2>4. QED
    BY <2>1, <2>2, <2>3, Zenon DEF Init, TypeOK
<1>2. ConnMap /\ Numbered
  BY ListenerAssumption DEF Init, ConnMap, InMap, Numbered, Conns, NoConn
<1>3. Queue /\ Hands /\ Closing /\ Records
  BY DEF Init, Queue, Hands, Closing, Records
<1>4. ConnWGCount
  <2>1. {c \in Conns : status[c] = "open"} = {}
    BY DEF Init
  <2>2. QED
    BY <2>1, FS_EmptySet DEF Init, ConnWGCount
<1>5. QED
  BY <1>1, <1>2, <1>3, <1>4 DEF IInv, Bookkeeping

(* Every step of the listener keeps the types: connWG.Done in particular   *)
(* never takes the counter below zero.                                     *)
LEMMA TypeStep == IInv /\ [Next]_vars => TypeOK'
<1> SUFFICES ASSUME IInv, [Next]_vars PROVE TypeOK'
  OBVIOUS
<1>t. TypeOK
  BY DEF IInv, Bookkeeping
<1>1. ASSUME NEW r \in Raddrs, getConn(r) PROVE TypeOK'
  <2>1. Len(raddr) + 1 \in Conns /\ Len(raddr) < MaxConns
    BY <1>1, <1>t, ListenerAssumption DEF getConn, TypeOK, Conns
  <2>2. raddr' \in Seq(Raddrs) /\ Len(raddr') <= MaxConns
    BY <1>1, <1>t, <2>1, ListenerAssumption DEF getConn, TypeOK
  <2>3. acceptCh' \in Seq(Conns) /\ Len(acceptCh') <= Backlog
    BY <1>1, <1>t, <2>1, ListenerAssumption DEF getConn, TypeOK, QueueHasRoom
  <2>4. /\ conns' \in [Raddrs -> Conns \cup {NoConn}]
        /\ status' \in [Conns -> {"none", "queued", "taken", "open", "done", "deleted",
                                  "wait", "closed", "dropped"}]
    BY <1>1, <1>t, <2>1 DEF getConn, TypeOK
  <2>5. QED
    BY <1>1, <1>t, <2>2, <2>3, <2>4, Zenon DEF getConn, TypeOK
<1>2. ASSUME ReadError \/ LoopEnds \/ CloseStore \/ CloseSignal \/ CloseWaited
      PROVE  TypeOK'
  <2>1. CASE ReadError
    BY <2>1, <1>t DEF ReadError, TypeOK
  <2>2. CASE LoopEnds
    BY <2>2, <1>t DEF LoopEnds, TypeOK
  <2>3. CASE CloseStore
    BY Zenon, <2>3, <1>t DEF CloseStore, TypeOK
  <2>4. CASE CloseSignal
    BY <2>4, <1>t DEF CloseSignal, TypeOK
  <2>5. CASE CloseWaited
    BY <2>5, <1>t DEF CloseWaited, TypeOK
  <2>6. QED
    BY <1>2, <2>1, <2>2, <2>3, <2>4, <2>5
<1>3. ASSUME NEW a \in Acceptors, AcceptCall(a) \/ AcceptFails(a) PROVE TypeOK'
  <2>1. apc' \in [Acceptors -> {"idle", "select", "taken"}]
    BY Zenon, <1>3, <1>t DEF AcceptCall, AcceptFails, TypeOK
  <2>2. QED
    BY <1>3, <1>t, <2>1 DEF AcceptCall, AcceptFails, TypeOK
<1>4. ASSUME NEW a \in Acceptors, AcceptReceive(a) PROVE TypeOK'
  <2>1. Head(acceptCh) \in Conns /\ acceptCh' \in Seq(Conns) /\ Len(acceptCh') <= Backlog
    BY <1>4, <1>t, ListenerAssumption DEF AcceptReceive, TypeOK
  <2>2. /\ apc' \in [Acceptors -> {"idle", "select", "taken"}]
        /\ got' \in [Acceptors -> Conns \cup {NoConn}]
        /\ status' \in [Conns -> {"none", "queued", "taken", "open", "done", "deleted",
                                  "wait", "closed", "dropped"}]
    BY <1>4, <1>t, <2>1 DEF AcceptReceive, TypeOK
  <2>3. QED
    BY <1>4, <1>t, <2>1, <2>2 DEF AcceptReceive, TypeOK
<1>5. ASSUME NEW a \in Acceptors, AcceptAdd(a) PROVE TypeOK'
  <2>1. connWG' \in Nat
    BY <1>5, <1>t DEF AcceptAdd, Added, TypeOK
  <2>2. /\ apc' \in [Acceptors -> {"idle", "select", "taken"}]
        /\ got' \in [Acceptors -> Conns \cup {NoConn}]
        /\ status' \in [Conns -> {"none", "queued", "taken", "open", "done", "deleted",
                                  "wait", "closed", "dropped"}]
    BY Zenon, <1>5, <1>t DEF AcceptAdd, TypeOK
  <2>3. QED
    BY <1>5, <1>t, <2>1, <2>2 DEF AcceptAdd, TypeOK
<1>6. ASSUME CloseDrain PROVE TypeOK'
  <2>1. /\ conns' \in [Raddrs -> Conns \cup {NoConn}]
        /\ status' \in [Conns -> {"none", "queued", "taken", "open", "done", "deleted",
                                  "wait", "closed", "dropped"}]
        /\ lpc' \in {"drained", "drained0"}
    BY <1>6, <1>t DEF CloseDrain, DrainConns, TypeOK
  <2>2. acceptCh' \in Seq(Conns) /\ Len(acceptCh') <= Backlog
    BY <1>6, ListenerAssumption DEF CloseDrain
  <2>3. QED
    BY <1>6, <1>t, <2>1, <2>2, Zenon DEF CloseDrain, TypeOK
<1>7. ASSUME ConnWGDone, connWG \in Nat \ {0}
      PROVE  /\ connWG' \in Nat /\ late' \in SUBSET Conns
             /\ closer' \in {"start", "wait", "woken", "close", "done", "ended"}
  BY <1>7, <1>t DEF ConnWGDone, TypeOK
<1>8. ASSUME CloseDone PROVE TypeOK'
  <2>1. connWG \in Nat \ {0} /\ ConnWGDone
    BY <1>8, DoneCounted DEF CloseDone
  <2>2. lpc' \in {"wait", "returned"}
    BY <1>8 DEF CloseDone
  <2>3. QED
    BY <1>7, <1>8, <1>t, <2>1, <2>2, Zenon DEF CloseDone, TypeOK
<1>9. ASSUME NEW c \in Conns, ConnDone(c) PROVE TypeOK'
  <2>1. connWG \in Nat \ {0} /\ ConnWGDone
    BY <1>9, DoneCounted DEF ConnDone
  <2>2. status' \in [Conns -> {"none", "queued", "taken", "open", "done", "deleted",
                               "wait", "closed", "dropped"}]
    BY <1>9, <1>t DEF ConnDone, TypeOK
  <2>3. QED
    BY <1>7, <1>9, <1>t, <2>1, <2>2, Zenon DEF ConnDone, TypeOK
<1>10. ASSUME NEW c \in Conns, ConnStep(c) PROVE TypeOK'
  <2>1. status' \in [Conns -> {"none", "queued", "taken", "open", "done", "deleted",
                               "wait", "closed", "dropped"}]
    BY <1>10, <1>t DEF ConnStep, ConnDelete, ConnCheck, ConnWaited, TypeOK
  <2>2. /\ conns' \in [Raddrs -> Conns \cup {NoConn}]
        /\ last' \in SUBSET Conns
    BY <1>10, <1>t DEF ConnStep, ConnDelete, ConnCheck, ConnWaited, DeleteEntry, TypeOK
  <2>3. QED
    BY <1>10, <1>t, <2>1, <2>2 DEF ConnStep, ConnDelete, ConnCheck, ConnWaited, TypeOK
<1>11. ASSUME CloserStep PROVE TypeOK'
  <2>1. closer' \in {"start", "wait", "woken", "close", "done", "ended"}
    BY <1>11, <1>t DEF CloserStep, TypeOK
  <2>2. pConn' \in BOOLEAN /\ panicked' \in BOOLEAN
    BY <1>11, <1>t, Zenon DEF CloserStep, TypeOK
  <2>3. QED
    BY <1>11, <1>t, <2>1, <2>2, Zenon DEF CloserStep, TypeOK
<1>12. ASSUME UNCHANGED vars PROVE TypeOK'
  BY <1>12, <1>t DEF vars, TypeOK
<1>13. QED
  BY <1>1, <1>2, <1>3, <1>4, <1>5, <1>6, <1>8, <1>9, <1>10, <1>11, <1>12, Zenon
     DEF Next, AcceptStep, CloseStep

(* The map of connections follows their lives: a step of one Conn's Close, *)
(* of an Accept or of the listener's Close never disturbs the entry of     *)
(* another Conn.                                                           *)
LEMMA MapStep == IInv /\ [Next]_vars => ConnMap' /\ Numbered'
<1> SUFFICES ASSUME IInv, [Next]_vars PROVE ConnMap' /\ Numbered'
  OBVIOUS
<1>t. TypeOK /\ ConnMap /\ Numbered
  BY DEF IInv, Bookkeeping
<1>1. ASSUME NEW r \in Raddrs, getConn(r) PROVE ConnMap' /\ Numbered'
  <2>1. Len(raddr) + 1 \in Conns /\ status[Len(raddr) + 1] = "none"
    BY <1>1, <1>t, ListenerAssumption DEF getConn, TypeOK, Conns, Numbered
  <2>2. /\ Len(raddr') = Len(raddr) + 1 /\ raddr'[Len(raddr) + 1] = r
        /\ \A i \in 1..Len(raddr) : raddr'[i] = raddr[i] /\ raddr[i] \in Raddrs
        /\ Len(raddr) \in Nat
    BY <1>1, <1>t DEF getConn, TypeOK
  <2>3. /\ status' = [status EXCEPT ![Len(raddr) + 1] = "queued"]
        /\ conns' = [conns EXCEPT ![r] = Len(raddr) + 1]
        /\ conns[r] = NoConn
    BY <1>1 DEF getConn
  <2>4. Numbered'
    BY <1>t, <2>1, <2>2, <2>3, ListenerAssumption DEF TypeOK, Numbered, Conns
  <2>5. ASSUME NEW c \in Conns, InMap(c)'
        PROVE  c <= Len(raddr') /\ conns'[raddr'[c]] = c
    <3>1. CASE c = Len(raddr) + 1
      BY <1>t, <2>2, <2>3, <3>1 DEF TypeOK
    <3>2. CASE c # Len(raddr) + 1
      <4>1. InMap(c)
        BY <1>t, <2>1, <2>3, <2>5, <3>2 DEF TypeOK, InMap
      <4>2. c \in 1..Len(raddr) /\ conns[raddr[c]] = c
        BY <1>t, <2>2, <4>1 DEF ConnMap, Conns
      <4>3. raddr[c] \in Raddrs /\ raddr[c] # r
        BY <2>2, <2>3, <4>2 DEF NoConn
      <4>4. QED
        BY <1>t, <2>2, <2>3, <4>2, <4>3 DEF TypeOK
    <3>3. QED
      BY <3>1, <3>2
  <2>6. ASSUME NEW c \in Conns, NEW q \in Raddrs, conns'[q] = c
        PROVE  InMap(c)' /\ raddr'[c] = q
    BY SMTT(30), <1>t, <2>1, <2>2, <2>3, <2>6, ListenerAssumption
       DEF TypeOK, ConnMap, InMap, Conns, NoConn
  <2>7. QED
    BY <2>4, <2>5, <2>6 DEF ConnMap
<1>2. ASSUME NEW a \in Acceptors, AcceptReceive(a) PROVE ConnMap' /\ Numbered'
  <2>1. Head(acceptCh) \in Conns /\ status[Head(acceptCh)] = "queued"
    BY <1>2, <1>t DEF AcceptReceive, TypeOK, IInv, Queue
  <2>2. status' = [status EXCEPT ![Head(acceptCh)] = "taken"] /\ UNCHANGED <<conns, raddr>>
    BY <1>2 DEF AcceptReceive
  <2>3. QED
    BY <1>t, <2>1, <2>2 DEF TypeOK, ConnMap, Numbered, InMap
<1>3. ASSUME NEW a \in Acceptors, AcceptAdd(a) PROVE ConnMap' /\ Numbered'
  <2>1. got[a] \in Conns /\ status[got[a]] = "taken"
    BY <1>3 DEF AcceptAdd, IInv, Hands
  <2>2. status' = [status EXCEPT ![got[a]] = "open"] /\ UNCHANGED <<conns, raddr>>
    BY <1>3 DEF AcceptAdd
  <2>3. QED
    BY <1>t, <2>1, <2>2 DEF TypeOK, ConnMap, Numbered, InMap
<1>4. ASSUME CloseDrain PROVE ConnMap' /\ Numbered'
  <2> DEFINE U == {acceptCh[i] : i \in DOMAIN acceptCh}
  <2>1. \A c \in Conns : c \in U <=> status[c] = "queued"
    BY <1>t, SMTT(30) DEF TypeOK, IInv, Queue
  <2>3. /\ conns' = [r \in Raddrs |-> IF conns[r] \in U THEN NoConn ELSE conns[r]]
        /\ status' = [c \in Conns |-> IF c \in U THEN "dropped" ELSE status[c]]
        /\ raddr' = raddr
    BY <1>4 DEF CloseDrain, DrainConns
  <2> HIDE DEF U
  <2>4. Numbered'
    BY <1>t, <2>1, <2>3 DEF TypeOK, Numbered
  <2>5. ASSUME NEW c \in Conns, InMap(c)'
        PROVE  c <= Len(raddr') /\ conns'[raddr'[c]] = c
    <3>1. InMap(c) /\ c \notin U
      BY <2>1, <2>3, <2>5 DEF InMap
    <3>2. c \in 1..Len(raddr) /\ raddr[c] \in Raddrs /\ conns[raddr[c]] = c
      BY <1>t, <3>1 DEF TypeOK, ConnMap, Conns
    <3>3. QED
      BY <2>3, <3>1, <3>2
  <2>6. ASSUME NEW c \in Conns, NEW r \in Raddrs, conns'[r] = c
        PROVE  InMap(c)' /\ raddr'[c] = r
    <3>1. conns[r] = c /\ c \notin U
      BY <2>3, <2>6 DEF NoConn, Conns
    <3>2. QED
      BY <1>t, <2>3, <3>1 DEF ConnMap, InMap
  <2>7. QED
    BY <2>4, <2>5, <2>6 DEF ConnMap
<1>5. ASSUME NEW c \in Conns, ConnDelete(c) PROVE ConnMap' /\ Numbered'
  <2>1. c \in 1..Len(raddr) /\ raddr[c] \in Raddrs /\ conns[raddr[c]] = c
    BY <1>5, <1>t DEF ConnDelete, TypeOK, ConnMap, InMap, Conns
  <2>2. /\ conns' = [conns EXCEPT ![raddr[c]] = NoConn]
        /\ status' = [status EXCEPT ![c] = "deleted"] /\ status[c] = "done"
        /\ raddr' = raddr
    BY <1>5 DEF ConnDelete, DeleteEntry
  <2>3. Numbered'
    BY <1>t, <2>2 DEF TypeOK, Numbered
  <2>4. ASSUME NEW d \in Conns, InMap(d)'
        PROVE  d <= Len(raddr') /\ conns'[raddr'[d]] = d
    <3>1. d # c /\ InMap(d)
      BY <1>t, <2>2, <2>4 DEF InMap, TypeOK
    <3>2. d \in 1..Len(raddr) /\ raddr[d] \in Raddrs /\ conns[raddr[d]] = d
      BY <1>t, <3>1 DEF TypeOK, ConnMap, Conns
    <3>3. QED
      BY <1>t, <2>1, <2>2, <3>1, <3>2 DEF TypeOK
  <2>5. ASSUME NEW d \in Conns, NEW r \in Raddrs, conns'[r] = d
        PROVE  InMap(d)' /\ raddr'[d] = r
    <3>1. r # raddr[c] /\ conns[r] = d
      BY <1>t, <2>1, <2>2, <2>5 DEF TypeOK, NoConn, Conns
    <3>2. d # c
      BY <1>t, <3>1 DEF ConnMap
    <3>3. QED
      BY <1>t, <2>2, <3>1, <3>2 DEF TypeOK, ConnMap, InMap
  <2>6. QED
    BY <2>3, <2>4, <2>5 DEF ConnMap
<1>6. ASSUME NEW c \in Conns, ConnDone(c) \/ ConnCheck(c) \/ ConnWaited(c)
      PROVE  ConnMap' /\ Numbered'
  <2>1. /\ UNCHANGED <<conns, raddr>>
        /\ \/ status[c] = "open" /\ status' = [status EXCEPT ![c] = "done"]
           \/ status[c] = "deleted" /\ status' = [status EXCEPT ![c] = "wait"]
           \/ status[c] = "deleted" /\ status' = [status EXCEPT ![c] = "closed"]
           \/ status[c] = "wait" /\ status' = [status EXCEPT ![c] = "closed"]
    BY <1>6 DEF ConnDone, ConnCheck, ConnWaited
  <2>2. QED
    BY <1>t, <2>1 DEF TypeOK, ConnMap, Numbered, InMap
<1>7. ASSUME UNCHANGED <<conns, raddr, status>> PROVE ConnMap' /\ Numbered'
  BY <1>t, <1>7 DEF ConnMap, Numbered, InMap
<1>8. QED
  <2>1. ASSUME \/ ReadError \/ LoopEnds \/ CloseStore \/ CloseSignal \/ CloseDone \/ CloseWaited
               \/ CloserStep \/ UNCHANGED vars
               \/ \E a \in Acceptors : AcceptCall(a) \/ AcceptFails(a)
        PROVE  UNCHANGED <<conns, raddr, status>>
    BY <2>1 DEF ReadError, LoopEnds, CloseStore, CloseSignal, CloseDone, CloseWaited, CloserStep,
                vars, AcceptCall, AcceptFails
  <2>2. QED
    BY <1>1, <1>2, <1>3, <1>4, <1>5, <1>6, <1>7, <2>1, Zenon
       DEF Next, AcceptStep, CloseStep, ConnStep

(* acceptCh and the Accepts between them hold each unopened Conn once, and *)
(* nothing is queued once the listener's Close has drained the queue.      *)
LEMMA QueueStep == IInv /\ [Next]_vars => Queue' /\ Hands' /\ Closing'
<1> SUFFICES ASSUME IInv, [Next]_vars PROVE Queue' /\ Hands' /\ Closing'
  OBVIOUS
<1>t. TypeOK /\ Numbered /\ Queue /\ Hands /\ Closing
  BY DEF IInv, Bookkeeping
<1>1. ASSUME NEW r \in Raddrs, getConn(r) PROVE Queue' /\ Hands' /\ Closing'
  <2> DEFINE n == Len(raddr) + 1
  <2>1. n \in Conns /\ status[n] = "none"
    BY <1>1, <1>t, ListenerAssumption DEF getConn, TypeOK, Conns, Numbered
  <2>2. /\ status' = [status EXCEPT ![n] = "queued"]
        /\ acceptCh' = Append(acceptCh, n)
        /\ lpc = "idle" /\ UNCHANGED <<got, apc, lpc, accepting>>
    BY <1>1, <1>t DEF getConn, Closing
  <2> HIDE DEF n
  <2>3. /\ Len(acceptCh') = Len(acceptCh) + 1 /\ acceptCh'[Len(acceptCh) + 1] = n
        /\ \A i \in 1..Len(acceptCh) : acceptCh'[i] = acceptCh[i] /\ acceptCh[i] \in Conns
        /\ Len(acceptCh) \in Nat
    BY <1>t, <2>1, <2>2 DEF TypeOK
  <2>4. \A i \in 1..Len(acceptCh) : acceptCh[i] # n
    BY <1>t, <2>1 DEF Queue
  <2>5. \A i \in 1..Len(acceptCh') : i \in 1..Len(acceptCh) \/ i = Len(acceptCh) + 1
    BY <2>3
  <2>6. \A i \in 1..Len(acceptCh') : status'[acceptCh'[i]] = "queued"
    BY <1>t, <2>1, <2>2, <2>3, <2>4, <2>5 DEF Queue, TypeOK
  <2>7. \A i, j \in 1..Len(acceptCh') : acceptCh'[i] = acceptCh'[j] => i = j
    BY <1>t, <2>3, <2>4, <2>5 DEF Queue
  <2>8. ASSUME NEW c \in Conns, status'[c] = "queued"
        PROVE  \E i \in 1..Len(acceptCh') : acceptCh'[i] = c
    <3>1. CASE c = n
      BY <2>3, <3>1
    <3>2. CASE c # n
      <4>1. PICK i \in 1..Len(acceptCh) : acceptCh[i] = c
        BY <1>t, <2>2, <2>8, <3>2 DEF Queue, TypeOK
      <4>2. QED
        BY <2>3, <4>1
    <3>3. QED
      BY <3>1, <3>2
  <2>9. Hands'
    BY <1>t, <2>1, <2>2 DEF Hands, TypeOK
  <2>10. Closing'
    BY <2>2 DEF Closing
  <2>11. QED
    BY <2>6, <2>7, <2>8, <2>9, <2>10 DEF Queue
<1>2. ASSUME NEW a \in Acceptors, AcceptReceive(a) PROVE Queue' /\ Hands' /\ Closing'
  <2> DEFINE h == Head(acceptCh)
  <2>1. /\ acceptCh # <<>> /\ Len(acceptCh) \in Nat \ {0} /\ h = acceptCh[1] /\ h \in Conns
        /\ Len(acceptCh') = Len(acceptCh) - 1
        /\ \A i \in 1..Len(acceptCh') : acceptCh'[i] = acceptCh[i + 1] /\ i + 1 \in 1..Len(acceptCh)
        /\ \A i \in 1..Len(acceptCh) : acceptCh[i] \in Conns
    BY <1>2, <1>t DEF AcceptReceive, TypeOK
  <2>2. /\ status' = [status EXCEPT ![h] = "taken"]
        /\ apc' = [apc EXCEPT ![a] = "taken"] /\ apc[a] = "select"
        /\ got' = [got EXCEPT ![a] = h]
        /\ UNCHANGED <<lpc, accepting>>
    BY <1>2 DEF AcceptReceive
  <2> HIDE DEF h
  <2>3. status[h] = "queued"
    BY <1>t, <2>1 DEF Queue
  <2>4. ASSUME NEW i \in 1..Len(acceptCh') PROVE status'[acceptCh'[i]] = "queued"
    <3>1. acceptCh'[i] \in Conns /\ acceptCh'[i] # h /\ status[acceptCh'[i]] = "queued"
      BY <1>t, <2>1 DEF Queue
    <3>2. QED
      BY <1>t, <2>2, <3>1 DEF TypeOK
  <2>5. \A i, j \in 1..Len(acceptCh') : acceptCh'[i] = acceptCh'[j] => i = j
    BY <1>t, <2>1 DEF Queue
  <2>6. ASSUME NEW c \in Conns, status'[c] = "queued"
        PROVE  \E i \in 1..Len(acceptCh') : acceptCh'[i] = c
    <3>1. c # h /\ status[c] = "queued"
      BY <1>t, <2>2, <2>6 DEF TypeOK
    <3>2. PICK i \in 1..Len(acceptCh) : acceptCh[i] = c
      BY <1>t, <3>1 DEF Queue
    <3>3. i - 1 \in 1..Len(acceptCh') /\ acceptCh'[i - 1] = c
      BY <2>1, <3>1, <3>2
    <3>4. QED
      BY <3>3
  <2>7. Hands'
    BY <1>t, <2>1, <2>2, <2>3 DEF Hands, TypeOK
  <2>8. Closing'
    BY <1>t, <2>1, <2>2 DEF Closing
  <2>9. QED
    BY <2>4, <2>5, <2>6, <2>7, <2>8 DEF Queue
<1>3. ASSUME NEW a \in Acceptors, AcceptAdd(a) PROVE Queue' /\ Hands' /\ Closing'
  <2>1. got[a] \in Conns /\ status[got[a]] = "taken" /\ apc[a] = "taken"
    BY <1>3, <1>t DEF AcceptAdd, Hands
  <2>2. /\ status' = [status EXCEPT ![got[a]] = "open"]
        /\ apc' = [apc EXCEPT ![a] = "idle"] /\ got' = [got EXCEPT ![a] = NoConn]
        /\ UNCHANGED <<acceptCh, lpc, accepting>>
    BY <1>3 DEF AcceptAdd
  <2>3. Queue'
    BY <1>t, <2>1, <2>2 DEF Queue, TypeOK
  <2>4. Hands'
    BY <1>t, <2>1, <2>2 DEF Hands, TypeOK
  <2>5. QED
    BY <1>t, <2>2, <2>3, <2>4 DEF Closing
<1>4. ASSUME NEW a \in Acceptors, AcceptCall(a) \/ AcceptFails(a)
      PROVE  Queue' /\ Hands' /\ Closing'
  <2>1. /\ apc' = [apc EXCEPT ![a] = "select"] \/ apc' = [apc EXCEPT ![a] = "idle"]
        /\ UNCHANGED <<got, status, acceptCh, lpc, accepting>>
    BY <1>4 DEF AcceptCall, AcceptFails
  <2>2. Hands'
    BY <1>t, <2>1 DEF Hands, TypeOK
  <2>3. QED
    BY <1>t, <2>1, <2>2 DEF Queue, Closing
<1>5. ASSUME CloseDrain PROVE Queue' /\ Hands' /\ Closing'
  <2>1. /\ status' = [c \in Conns |->
                        IF \E i \in 1..Len(acceptCh) : acceptCh[i] = c THEN "dropped" ELSE status[c]]
        /\ acceptCh' = <<>> /\ lpc # "idle"
        /\ UNCHANGED <<got, apc, accepting>>
    BY <1>5, <1>t DEF CloseDrain, TypeOK
  <2>2. Queue'
    BY <1>t, <2>1 DEF Queue, TypeOK
  <2>3. \A c \in Conns : status[c] = "taken" => status'[c] = "taken"
    BY <1>t, <2>1 DEF Queue
  <2>4. Hands'
    BY <1>t, <2>1, <2>3 DEF Hands
  <2>5. QED
    BY <1>t, <2>1, <2>2, <2>4 DEF Closing
<1>6. ASSUME NEW c \in Conns, ConnDone(c) \/ ConnStep(c) PROVE Queue' /\ Hands' /\ Closing'
  <2>1. \E v \in {"done", "deleted", "wait", "closed"} :
          /\ status[c] \in {"open", "done", "deleted", "wait"}
          /\ status' = [status EXCEPT ![c] = v]
    BY <1>6 DEF ConnDone, ConnStep, ConnDelete, ConnCheck, ConnWaited
  <2>2. UNCHANGED <<got, apc, acceptCh, lpc, accepting>>
    BY <1>6 DEF ConnDone, ConnStep, ConnDelete, ConnCheck, ConnWaited
  <2>3. Queue'
    BY <1>t, <2>1, <2>2 DEF Queue, TypeOK
  <2>4. Hands'
    BY <1>t, <2>1, <2>2 DEF Hands, TypeOK
  <2>5. QED
    BY <1>t, <2>2, <2>3, <2>4 DEF Closing
<1>7. ASSUME UNCHANGED <<got, apc, acceptCh, status>>,
             \/ UNCHANGED <<lpc, accepting>>
             \/ CloseStore \/ CloseSignal \/ CloseDone \/ CloseWaited
      PROVE  Queue' /\ Hands' /\ Closing'
  <2>1. Queue' /\ Hands'
    BY <1>t, <1>7 DEF Queue, Hands
  <2>2. Closing'
    BY <1>t, <1>7 DEF Closing, CloseStore, CloseSignal, CloseDone, CloseWaited
  <2>3. QED
    BY <2>1, <2>2
<1>8. QED
  <2>1. ASSUME ReadError \/ LoopEnds \/ CloserStep \/ UNCHANGED vars
        PROVE  UNCHANGED <<got, apc, acceptCh, status, lpc, accepting>>
    BY <2>1 DEF ReadError, LoopEnds, CloserStep, vars
  <2>2. ASSUME CloseStore \/ CloseSignal \/ CloseDone \/ CloseWaited
        PROVE  UNCHANGED <<got, apc, acceptCh, status>>
    BY <2>2 DEF CloseStore, CloseSignal, CloseDone, CloseWaited
  <2>3. QED
    BY <1>1, <1>2, <1>3, <1>4, <1>5, <1>6, <1>7, <2>1, <2>2, Zenon
       DEF Next, AcceptStep, CloseStep

(* connWG counts the open Conns through every Add and Done. *)
LEMMA CountStep == IInv /\ [Next]_vars => ConnWGCount'
<1> SUFFICES ASSUME IInv, [Next]_vars PROVE ConnWGCount'
  OBVIOUS
<1> DEFINE Listening == IF lpc \in {"wait", "returned"} THEN 0 ELSE 1
<1>t. TypeOK /\ connWG = Listening + Cardinality(Open) /\ Cardinality(Open) \in Nat
  BY OpenCount DEF IInv, Bookkeeping, ConnWGCount, Open
<1>g. connWG' = Listening' + Cardinality(Open') => ConnWGCount'
  BY DEF ConnWGCount, Open
<1>1. ASSUME NEW a \in Acceptors, AcceptAdd(a) PROVE ConnWGCount'
  <2>1. got[a] \in Conns /\ status[got[a]] = "taken"
    BY <1>1 DEF AcceptAdd, IInv, Hands
  <2>2. Open' = Open \cup {got[a]} /\ got[a] \notin Open
    BY <1>1, <1>t, <2>1 DEF AcceptAdd, TypeOK, Open
  <2>3. Cardinality(Open') = Cardinality(Open) + 1
    BY <1>t, <2>1, <2>2, OpenCount
  <2>4. connWG' = connWG + 1 /\ lpc' = lpc
    BY <1>1 DEF AcceptAdd, Added
  <2>5. QED
    BY <1>t, <1>g, <2>3, <2>4
<1>2. ASSUME NEW c \in Conns, ConnDone(c) PROVE ConnWGCount'
  <2>1. Open' = Open \ {c} /\ c \in Open
    BY <1>2, <1>t DEF ConnDone, TypeOK, Open
  <2>2. Cardinality(Open') = Cardinality(Open) - 1
    BY <1>t, <2>1, OpenCount
  <2>3. connWG' = connWG - 1 /\ lpc' = lpc
    BY <1>2 DEF ConnDone, ConnWGDone
  <2>4. QED
    BY <1>t, <1>g, <2>2, <2>3
<1>3. ASSUME Open' = Open, connWG' = connWG, Listening' = Listening PROVE ConnWGCount'
  BY <1>3, <1>t, <1>g
<1>4. ASSUME CloseDone PROVE ConnWGCount'
  <2>1. Open' = Open /\ connWG' = connWG - 1 /\ Listening = 1 /\ Listening' = 0
    BY <1>4 DEF CloseDone, ConnWGDone, Open
  <2>2. QED
    BY <1>t, <1>g, <2>1
<1>5. ASSUME NEW r \in Raddrs, getConn(r) PROVE ConnWGCount'
  <2>1. Len(raddr) + 1 \in Conns /\ status[Len(raddr) + 1] = "none"
    BY <1>5, <1>t, ListenerAssumption DEF getConn, TypeOK, Conns, IInv, Numbered
  <2>2. Open' = Open /\ connWG' = connWG /\ lpc' = lpc
    BY <1>5, <1>t, <2>1 DEF getConn, TypeOK, Open
  <2>3. QED
    BY <1>3, <2>2
<1>6. ASSUME NEW a \in Acceptors, AcceptReceive(a) PROVE ConnWGCount'
  <2>1. Head(acceptCh) \in Conns /\ status[Head(acceptCh)] = "queued"
    BY <1>6, <1>t DEF AcceptReceive, TypeOK, IInv, Queue
  <2>2. Open' = Open /\ connWG' = connWG /\ lpc' = lpc
    BY <1>6, <1>t, <2>1 DEF AcceptReceive, TypeOK, Open
  <2>3. QED
    BY <1>3, <2>2
<1>7. ASSUME CloseDrain PROVE ConnWGCount'
  <2>1. status' = [c \in Conns |->
                     IF \E i \in 1..Len(acceptCh) : acceptCh[i] = c THEN "dropped" ELSE status[c]]
    BY <1>7, <1>t DEF CloseDrain, TypeOK
  <2>2. Open' = Open
    BY <2>1 DEF IInv, Queue, Open
  <2>3. connWG' = connWG /\ Listening' = Listening
    BY <1>7 DEF CloseDrain
  <2>4. QED
    BY <1>3, <2>2, <2>3
<1>8. ASSUME NEW c \in Conns, ConnStep(c) PROVE ConnWGCount'
  <2>1. Open' = Open
    BY <1>8, <1>t DEF ConnStep, ConnDelete, ConnCheck, ConnWaited, TypeOK, Open
  <2>2. connWG' = connWG /\ lpc' = lpc
    BY <1>8 DEF ConnStep, ConnDelete, ConnCheck, ConnWaited
  <2>3. QED
    BY <1>3, <2>1, <2>2
<1>9. QED
  <2>1. ASSUME \/ ReadError \/ LoopEnds \/ CloseStore \/ CloseSignal \/ CloseWaited
               \/ CloserStep \/ UNCHANGED vars
               \/ \E a \in Acceptors : AcceptCall(a) \/ AcceptFails(a)
        PROVE  status' = status /\ connWG' = connWG /\ Listening' = Listening
    BY <2>1 DEF ReadError, LoopEnds, CloseStore, CloseSignal, CloseWaited, CloserStep,
                vars, AcceptCall, AcceptFails
  <2>2. status' = status => Open' = Open
    BY DEF Open
  <2>3. QED
    BY <1>1, <1>2, <1>3, <1>4, <1>5, <1>6, <1>7, <1>8, <2>1, <2>2, Zenon
       DEF Next, AcceptStep, CloseStep

(* The socket is closed only after the count was zero, and what an Accept  *)
(* held at that moment is on record.                                       *)
LEMMA RecordStep == IInv /\ [Next]_vars => Records'
<1> SUFFICES ASSUME IInv, [Next]_vars PROVE Records'
  OBVIOUS
<1> DEFINE Past == closer \in {"close", "done", "ended"} \/ ~pConn
<1>t. TypeOK /\ Queue /\ Hands /\ Closing /\ Records
  BY DEF IInv, Bookkeeping
<1>z. connWG = 0 => lpc \in {"wait", "returned"} /\ \A c \in Conns : status[c] # "open"
  <2>1. connWG = (IF lpc \in {"wait", "returned"} THEN 0 ELSE 1) + Cardinality(Open)
    BY DEF IInv, Bookkeeping, ConnWGCount, Open
  <2>2. Cardinality(Open) \in Nat /\ (Cardinality(Open) = 0 => Open = {})
    BY <1>t, OpenCount
  <2>3. QED
    BY <2>1, <2>2 DEF Open
<1>1. ASSUME UNCHANGED <<connWG, late, closer, pConn>>,
             lpc \in {"wait", "returned"} => lpc' \in {"wait", "returned"},
             \A c \in Conns : status'[c] \in {"taken", "open"} => status'[c] = status[c]
      PROVE  Records'
  BY <1>t, <1>1 DEF Records
<1>2. ASSUME NEW r \in Raddrs, getConn(r) PROVE Records'
  <2>1. Len(raddr) + 1 \in Conns
    BY <1>2, <1>t, ListenerAssumption DEF getConn, TypeOK, Conns
  <2>2. \A c \in Conns : status'[c] \in {"taken", "open"} => status'[c] = status[c]
    BY <1>2, <1>t, <2>1 DEF getConn, TypeOK
  <2>3. UNCHANGED <<connWG, late, closer, pConn, lpc>>
    BY <1>2 DEF getConn
  <2>4. QED
    BY <1>1, <2>2, <2>3
<1>3. ASSUME NEW a \in Acceptors, AcceptReceive(a) PROVE Records'
  <2>1. lpc \notin {"wait", "returned"}
    BY <1>3, <1>t DEF AcceptReceive, Closing
  <2>2. connWG # 0 /\ ~Past
    BY <1>t, <1>z, <2>1 DEF Records
  <2>3. UNCHANGED <<connWG, closer, pConn>>
    BY <1>3 DEF AcceptReceive
  <2>4. QED
    BY <2>2, <2>3 DEF Records
<1>4. ASSUME NEW a \in Acceptors, AcceptAdd(a) PROVE Records'
  <2>1. got[a] \in Conns /\ status[got[a]] = "taken"
    BY <1>4, <1>t DEF AcceptAdd, Hands
  <2>2. status' = [status EXCEPT ![got[a]] = "open"] /\ UNCHANGED <<late, closer, pConn, lpc>>
    BY <1>4 DEF AcceptAdd
  <2>3. connWG' # 0
    BY <1>4, <1>t DEF AcceptAdd, Added, TypeOK
  <2>4. \A c \in Conns : status'[c] \in {"taken", "open"} => status[c] \in {"taken", "open"}
    BY <1>t, <2>1, <2>2 DEF TypeOK
  <2>5. QED
    BY <1>t, <2>2, <2>3, <2>4 DEF Records
<1>5. ASSUME ConnWGDone, connWG \in Nat \ {0}, pConn' = pConn,
             lpc \in {"wait", "returned"} => lpc' \in {"wait", "returned"},
             \A c \in Conns : status'[c] \in {"taken", "open"} => status'[c] = status[c]
      PROVE  Records'
  <2>1. connWG' = 0 => connWG = 1
    BY <1>5 DEF ConnWGDone
  <2>2. connWG' = 0 => \A c \in Conns : status'[c] = "taken" => c \in late'
    BY <1>5, <2>1 DEF ConnWGDone
  <2>3. late \subseteq late'
    BY <1>5 DEF ConnWGDone
  <2>4. closer' \in {"close", "done", "ended"} => closer \in {"close", "done", "ended"}
    BY <1>5 DEF ConnWGDone
  <2>5. Past' => Past
    BY <1>5, <2>4
  <2>6. QED
    BY <1>t, <1>5, <2>2, <2>3, <2>5 DEF Records
<1>6. ASSUME CloseDone PROVE Records'
  <2>1. connWG \in Nat \ {0} /\ ConnWGDone /\ pConn' = pConn /\ status' = status
    BY <1>6, DoneCounted DEF CloseDone
  <2>2. lpc' \in {"wait", "returned"}
    BY <1>6 DEF CloseDone
  <2>3. QED
    BY <1>5, <2>1, <2>2
<1>7. ASSUME NEW c \in Conns, ConnDone(c) PROVE Records'
  <2>1. connWG \in Nat \ {0} /\ ConnWGDone /\ pConn' = pConn /\ lpc' = lpc
    BY <1>7, DoneCounted DEF ConnDone
  <2>2. \A d \in Conns : status'[d] \in {"taken", "open"} => status'[d] = status[d]
    BY <1>7, <1>t DEF ConnDone, TypeOK
  <2>3. QED
    BY <1>5, <2>1, <2>2
<1>8. ASSUME NEW c \in Conns, ConnStep(c) PROVE Records'
  <2>1. \A d \in Conns : status'[d] \in {"taken", "open"} => status'[d] = status[d]
    BY <1>8, <1>t DEF ConnStep, ConnDelete, ConnCheck, ConnWaited, TypeOK
  <2>2. UNCHANGED <<connWG, late, closer, pConn, lpc>>
    BY <1>8 DEF ConnStep, ConnDelete, ConnCheck, ConnWaited
  <2>3. QED
    BY <1>1, <2>1, <2>2
<1>9. ASSUME CloserStep PROVE Records'
  <2>1. UNCHANGED <<connWG, late, lpc, status>>
    BY <1>9 DEF CloserStep
  <2>2. Past' => Past \/ connWG = 0
    BY <1>9 DEF CloserStep
  <2>3. QED
    BY <1>t, <1>z, <2>1, <2>2 DEF Records
<1>10. ASSUME CloseDrain PROVE Records'
  <2>1. \A c \in Conns : status'[c] \in {"taken", "open"} => status'[c] = status[c]
    BY SMTT(30), <1>10, <1>t DEF CloseDrain, TypeOK
  <2>2. UNCHANGED <<connWG, late, closer, pConn>> /\ lpc \notin {"wait", "returned"}
    BY <1>10 DEF CloseDrain
  <2>3. QED
    BY <1>1, <2>1, <2>2
<1>11. QED
  <2>1. ASSUME \/ ReadError \/ LoopEnds \/ CloseStore \/ CloseSignal \/ CloseWaited \/ UNCHANGED vars
               \/ \E a \in Acceptors : AcceptCall(a) \/ AcceptFails(a)
        PROVE  /\ UNCHANGED <<connWG, late, closer, pConn, status>>
               /\ lpc \in {"wait", "returned"} => lpc' \in {"wait", "returned"}
    BY <2>1 DEF ReadError, LoopEnds, CloseStore, CloseSignal, CloseWaited,
                vars, AcceptCall, AcceptFails
  <2>2. QED
    BY <1>1, <1>2, <1>3, <1>4, <1>6, <1>7, <1>8, <1>9, <1>10, <2>1, Zenon
       DEF Next, AcceptStep, CloseStep

-----------------------------------------------------------------------------
(* The invariant is inductive. *)
LEMMA Invariance == Spec => []IInv
<1>1. IInv /\ [Next]_vars => IInv'
  BY TypeStep, MapStep, QueueStep, CountStep, RecordStep DEF IInv, Bookkeeping
<1>2. QED
  BY <1>1, InitIInv, PTL DEF Spec

(* The listener's map and its wait group stay in step with the life of     *)
(* every connection, however getConn, Accept, listener.Close and           *)
(* Conn.Close interleave: no Close removes a newer Conn's entry, no open   *)
(* Conn is uncounted and the counter never goes below zero.                *)
THEOREM BookkeepingCorrect == Spec => []Bookkeeping
<1>1. IInv => Bookkeeping
  BY DEF IInv
<1>2. QED
  BY <1>1, Invariance, PTL

(* The goroutine of Listen closes the socket only when the listener is     *)
(* closed and no Conn is open, but for one that an Accept had received and *)
(* not yet counted when connWG reached zero.                               *)
THEOREM SocketOutlivesConnsCorrect == Spec => []SocketOutlivesConns
<1>1. IInv => SocketOutlivesConns
  BY DEF IInv, Records, SocketOutlivesConns
<1>2. QED
  BY <1>1, Invariance, PTL
=============================================================================
