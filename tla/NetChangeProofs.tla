--------------------------- MODULE NetChangeProofs ---------------------------
(***************************************************************************)
(* InStep and NoChangeMissed of NetChange for any number of callers and    *)
(* interfaces.  Neither is inductive: the invariant adds where a report    *)
(* comes from, that what an enumeration has read is current unless an      *)
(* announcement is still to be drained, and that a Check reads the socket  *)
(* in wait only with pending set.                                          *)
(***************************************************************************)
EXTENDS NetChange, TLAPS

(* Only the call that set checking runs, and not on a closed detector. *)
Exclusive ==
  /\ \A c, d \in Callers : pc[c] # "idle" /\ pc[d] # "idle" => c = d
  /\ \A c \in Callers : pc[c] # "idle" => checking /\ ~closed

(* A report is pending only between update and the return, and until the   *)
(* clients have it network is what last was made from.                     *)
Reported ==
  /\ \A c \in Callers : report[c] # {} => pc[c] = "return"
  /\ \A c \in Callers : pc[c] = "update" => network = snap[c]
  /\ ~closed /\ initial =>
       /\ known = Nothing /\ last = normalize(network)
       /\ \A c \in Callers : pc[c] \in {"idle", "loop", "return"} /\ report[c] = {}
  /\ \A c \in Callers : report[c] # {} => last = normalize(network)
  /\ ~closed /\ ~initial /\ (\A c \in Callers : report[c] = {}) => known = last

(* The client that looks names up has, for each name that no pending       *)
(* report contains, every interface of last, and another one exactly for   *)
(* the names in left.                                                      *)
Found(s, n, gone) == ByName(s, n) \subseteq names[n] /\ (gone <=> ~(names[n] \subseteq ByName(s, n)))
Looked ==
  /\ \A i \in Ifaces : last[i] # Absent => NameOf(last[i]) \in Matching
  /\ ~closed /\ initial => left = {} /\ \A n \in Names : names[n] = {}
  /\ \A c \in Callers : Named(report[c]) \subseteq Matching \ left
  /\ ~closed /\ ~initial => \A n \in Names :
       (\A c \in Callers : n \notin Named(report[c])) => Found(last, n, n \in left)

(* What is not yet in last, or not in the snapshot being read, is announced. *)
Announced ==
  source =>
    /\ \A c \in Callers : pc[c] = "waiting" => pending
    /\ \A c \in Callers : pc[c] \in {"addrs", "update"} => undelivered \/ unread \/ snap[c] = sys
    /\ ~closed => undelivered \/ unread \/ pending \/ last = normalize(sys)

IInv == TypeOK /\ Exclusive /\ Reported /\ Looked /\ Announced

-----------------------------------------------------------------------------
(* normalize and Nothing are snapshots. *)
LEMMA NormalizeType == \A s \in Snapshots : normalize(s) \in Snapshots
  BY DEF normalize, Snapshots

(* The snapshot of a closed detector is a snapshot. *)
LEMMA NothingType == Nothing \in Snapshots
  BY DEF Nothing, Snapshots

(* The name of an interface of a snapshot is a name. *)
LEMMA NameType ==
  ASSUME NEW s \in Snapshots, NEW i \in Ifaces, s[i] # Absent
  PROVE  NameOf(s[i]) \in Names /\ s[i] \in Links \X Addrs
  BY DEF Snapshots, NameOf, Links

(* What update reports is a report. *)
LEMMA ChangesType ==
  ASSUME NEW a \in Snapshots, NEW b \in Snapshots
  PROVE  Changes(a, b) \in Reports
<1> SUFFICES ASSUME NEW i \in Ifaces, a[i] # b[i]
             PROVE  ChangeOf(a[i], b[i]) \in Names \X {"Added", "Changed", "Removed"}
  BY DEF Changes, Reports
<1>1. (a[i] # Absent => NameOf(a[i]) \in Names) /\ (b[i] # Absent => NameOf(b[i]) \in Names)
  BY NameType
<1> QED
  BY <1>1 DEF ChangeOf

(* An empty report means that nothing differs. *)
LEMMA NoChanges ==
  ASSUME NEW a \in Snapshots, NEW b \in Snapshots, Changes(a, b) = {}
  PROVE  a = b
<1>1. \A i \in Ifaces : a[i] = b[i]
  BY Zenon DEF Changes
<1> QED
  BY <1>1 DEF Snapshots

(* The names in the report of an interface that differs: the new name, or  *)
(* the old one when it has gone.                                           *)
LEMMA NamedOf ==
  ASSUME NEW a \in Snapshots, NEW b \in Snapshots, NEW n
  PROVE  n \in Named(Changes(a, b)) <=>
           \E i \in Ifaces : a[i] # b[i] /\ n = IF b[i] = Absent THEN NameOf(a[i]) ELSE NameOf(b[i])
<1>1. ASSUME NEW i \in Ifaces, a[i] # b[i]
      PROVE  ChangeOf(a[i], b[i])[1] = IF b[i] = Absent THEN NameOf(a[i]) ELSE NameOf(b[i])
  BY <1>1 DEF ChangeOf
<1> QED
  BY <1>1, Zenon DEF Named, Changes

(* The names update reports are names the filter accepts. *)
LEMMA NamedMatching ==
  ASSUME NEW a \in Snapshots, NEW b \in Snapshots,
         \A i \in Ifaces : (a[i] # Absent => NameOf(a[i]) \in Matching)
                           /\ (b[i] # Absent => NameOf(b[i]) \in Matching)
  PROVE  Named(Changes(a, b)) \subseteq Matching
  BY NamedOf

(* The interfaces in normalize(s) have names the filter accepts, and those *)
(* of such a name are all there.                                           *)
LEMMA NormalizeNames ==
  ASSUME NEW s \in Snapshots
  PROVE  /\ \A i \in Ifaces : normalize(s)[i] # Absent => NameOf(normalize(s)[i]) \in Matching
         /\ \A n \in Matching : ByName(normalize(s), n) = ByName(s, n)
<1>1. \A i \in Ifaces : normalize(s)[i] =
        IF s[i] # Absent /\ NameOf(s[i]) \in Matching THEN s[i] ELSE Absent
  BY DEF normalize
<1>2. ASSUME NEW n \in Matching PROVE ByName(normalize(s), n) = ByName(s, n)
  <2>1. ASSUME NEW i \in Ifaces
        PROVE  normalize(s)[i] # Absent /\ NameOf(normalize(s)[i]) = n
                 <=> s[i] # Absent /\ NameOf(s[i]) = n
    BY <1>1
  <2>2. ASSUME NEW i \in Ifaces, s[i] # Absent, NameOf(s[i]) = n PROVE normalize(s)[i] = s[i]
    BY <1>1, <2>2
  <2> QED
    BY <2>1, <2>2 DEF ByName
<1> QED
  BY <1>1, <1>2, Zenon

(* A name that update does not report has lost the interfaces that were    *)
(* renamed, gained none, and kept the others.                              *)
LEMMA Unnamed ==
  ASSUME NEW a \in Snapshots, NEW b \in Snapshots, NEW n \in Names,
         n \notin Named(Changes(a, b))
  PROVE  /\ ByName(b, n) \subseteq ByName(a, n)
         /\ n \in RenamedFrom(a, b) <=> ByName(a, n) # ByName(b, n)
<1>1. \A i \in Ifaces : a[i] # b[i] =>
        /\ b[i] # Absent => NameOf(b[i]) # n
        /\ b[i] = Absent => NameOf(a[i]) # n
  BY NamedOf
<1>2. ByName(b, n) \subseteq ByName(a, n)
  <2> SUFFICES ASSUME NEW i \in Ifaces, b[i] # Absent, NameOf(b[i]) = n
               PROVE  <<i, b[i]>> \in ByName(a, n)
    BY DEF ByName
  <2>1. a[i] = b[i]
    BY <1>1
  <2> QED
    BY <2>1 DEF ByName
<1>3. ASSUME NEW i \in Ifaces, a[i] # Absent, b[i] # Absent, NameOf(a[i]) = n, NameOf(b[i]) # n
      PROVE  ByName(a, n) # ByName(b, n)
  <2>1. <<i, a[i]>> \in ByName(a, n)
    BY <1>3 DEF ByName
  <2>2. <<i, a[i]>> \notin ByName(b, n)
    <3> SUFFICES ASSUME NEW j \in Ifaces, b[j] # Absent, NameOf(b[j]) = n, <<i, a[i]>> = <<j, b[j]>>
                 PROVE  FALSE
      BY Zenon DEF ByName
    <3> QED
      BY <1>3
  <2> QED
    BY <2>1, <2>2
<1>4. ASSUME NEW i \in Ifaces, a[i] # Absent, NameOf(a[i]) = n, <<i, a[i]>> \notin ByName(b, n)
      PROVE  b[i] # Absent /\ NameOf(b[i]) # n
  <2>1. a[i] # b[i]
    BY <1>4 DEF ByName
  <2> QED
    BY <1>1, <1>4, <2>1
<1>5. n \in RenamedFrom(a, b) => ByName(a, n) # ByName(b, n)
  BY <1>3, Zenon DEF RenamedFrom
<1>6. ASSUME ByName(a, n) # ByName(b, n) PROVE n \in RenamedFrom(a, b)
  <2>1. PICK i \in Ifaces : a[i] # Absent /\ NameOf(a[i]) = n /\ <<i, a[i]>> \notin ByName(b, n)
    <3>1. PICK x \in ByName(a, n) : x \notin ByName(b, n)
      BY <1>2, <1>6
    <3> QED
      BY <3>1, Zenon DEF ByName
  <2> QED
    BY <1>4, <2>1 DEF RenamedFrom
<1> QED
  BY <1>2, <1>5, <1>6

-----------------------------------------------------------------------------
(* start() leaves a detector with nothing reported and nothing missed. *)
LEMMA InitInv == Init => IInv
<1> SUFFICES ASSUME Init
             PROVE  IInv
  OBVIOUS
<1>1. TypeOK
  BY Zenon, NormalizeType, NothingType DEF Init, TypeOK, Reports
<1>2. Exclusive /\ Reported /\ Announced
  BY DEF Init, Exclusive, Reported, Announced
<1>3. Looked
  BY NormalizeNames DEF Init, Looked, Named
<1> QED
  BY <1>1, <1>2, <1>3 DEF IInv

(* One lemma per group of actions; each conjunct of the invariant that the *)
(* action can disturb has a step.                                          *)
LEMMA TypeStep == TypeOK /\ [Next]_vars => TypeOK'
<1> SUFFICES ASSUME TypeOK, [Next]_vars
             PROVE  TypeOK'
  OBVIOUS
<1> USE NormalizeType, NothingType, NetChangeAssumption
<1>1. ASSUME NEW i \in Ifaces, Change(i) PROVE TypeOK'
  BY <1>1 DEF Change, TypeOK, config, client, Snapshots
<1>2. CASE Announce
  BY Zenon, <1>2 DEF Announce, TypeOK, config, client
<1>3. ASSUME NEW c \in Callers, Check(c) \/ Cancel(c) PROVE TypeOK'
  BY Zenon, <1>3 DEF Check, Cancel, Goto, TypeOK, config, sysVars, client
<1>4. ASSUME NEW c \in Callers, CheckLoop(c) PROVE TypeOK'
  <2>1. {} \in Reports /\ Changes(Nothing, last) \in Reports
    BY ChangesType DEF TypeOK, Reports
  <2>2. PICK to \in {"return", "drain"} : pc' = [pc EXCEPT ![c] = to]
    BY <1>4 DEF CheckLoop, Goto, Fail, Succeed
  <2>3. PICK r \in Reports : report' \in {report, [report EXCEPT ![c] = r]}
    BY <1>4, <2>1 DEF CheckLoop, Fail, Succeed
  <2>4. initial' \in {initial, FALSE}
    BY Zenon, <1>4 DEF CheckLoop
  <2> QED
    BY <1>4, <2>2, <2>3, <2>4, ZenonT(60) DEF CheckLoop, TypeOK, config, sysVars, client
<1>5. ASSUME NEW c \in Callers, RefreshDrain(c) PROVE TypeOK'
  BY Zenon, <1>5 DEF RefreshDrain, PendingAfter, Goto, Fail, TypeOK, config, sysVars, client, Reports
<1>6. ASSUME NEW c \in Callers, RefreshList(c) PROVE TypeOK'
  BY <1>6 DEF RefreshList, Goto, Fail, TypeOK, config, sysVars, client, Reports
<1>7. ASSUME NEW c \in Callers, RefreshAddrs(c) PROVE TypeOK'
  <2>1. CASE todo' = todo /\ snap' = snap
    BY <1>7, <2>1 DEF RefreshAddrs, Goto, Fail, TypeOK, config, sysVars, client, Reports
  <2>2. ASSUME NEW i \in todo[c],
               snap' = [snap EXCEPT ![c] = [@ EXCEPT ![i] = <<snap[c][i][1], AddrsOf(i)>>]],
               todo' = [todo EXCEPT ![c] = @ \ {i}],
               UNCHANGED <<pc, report, network>>
        PROVE  TypeOK'
    <3>1. i \in Ifaces /\ <<snap[c][i][1], AddrsOf(i)>> \in Links \X Addrs
      BY NetChangeAssumption DEF TypeOK, Snapshots, AddrsOf
    <3>2. <<snap[c][i][1], AddrsOf(i)>> # Absent
      BY <3>1, NetChangeAssumption
    <3>3. [snap[c] EXCEPT ![i] = <<snap[c][i][1], AddrsOf(i)>>] \in Snapshots
      BY <3>1 DEF TypeOK, Snapshots
    <3>4. snap' \in [Callers -> Snapshots] /\ todo' \in [Callers -> SUBSET Ifaces]
      BY <2>2, <3>3 DEF TypeOK
    <3>5. \A d \in Callers : \A j \in todo'[d] : snap'[d][j] # Absent
      BY <2>2, <3>1, <3>2 DEF TypeOK, Snapshots
    <3> QED
      BY <1>7, <2>2, <3>4, <3>5 DEF RefreshAddrs, TypeOK, config, sysVars, client
  <2> QED
    BY <1>7, <2>1, <2>2 DEF RefreshAddrs
<1>8. ASSUME NEW c \in Callers, RefreshUpdate(c) PROVE TypeOK'
  <2>1. normalize(snap[c]) \in Snapshots
    BY DEF TypeOK
  <2>2. {} \in Reports /\ Changes(last, normalize(snap[c])) \in Reports
    BY <2>1, ChangesType DEF TypeOK, Reports
  <2> DEFINE r == Changes(last, normalize(snap[c]))
  <2>3. /\ pending' \in BOOLEAN /\ last' \in Snapshots
        /\ \E to \in {"wait", "return"} : pc' = [pc EXCEPT ![c] = to]
        /\ \E s \in {{}, r} : report' \in {report, [report EXCEPT ![c] = s]}
    <3> HIDE DEF r
    <3> QED
      BY Zenon, <1>8, <2>1 DEF RefreshUpdate, Goto, Fail, Succeed, TypeOK, r
  <2> HIDE DEF r
  <2>4. pc' \in [Callers -> {"idle", "loop", "drain", "list", "addrs", "update", "wait",
                            "waiting", "return"}]
    BY <2>3 DEF TypeOK
  <2>5. report' \in [Callers -> Reports]
    <3>1. PICK s \in {{}, r} : report' \in {report, [report EXCEPT ![c] = s]}
      BY <2>3, Zenon
    <3>2. s \in Reports
      BY <2>2, <3>1, Zenon DEF r
    <3> QED
      BY <3>1, <3>2, Zenon DEF TypeOK
  <2>6. left' \subseteq Names
    <3>1. RenamedFrom(last, normalize(snap[c])) \subseteq Names
      BY <2>1, NameType DEF RenamedFrom, TypeOK
    <3> QED
      BY <1>8, <3>1, Zenon DEF RefreshUpdate, Leaves, TypeOK
  <2>7. UNCHANGED <<sys, changes, undelivered, unread, source, timeout, closed, checking, initial,
                    network, canceled, snap, todo, known, names>>
    BY <1>8, Zenon DEF RefreshUpdate, config, sysVars
  <2> QED
    BY <2>3, <2>4, <2>5, <2>6, <2>7 DEF TypeOK
<1>9. ASSUME NEW c \in Callers, Wait(c) \/ WaitEnds(c) PROVE TypeOK'
  <2>1. CASE Wait(c)
    <3>1. pending' \in BOOLEAN
      BY <2>1, Zenon DEF Wait, PendingInWait, TypeOK
    <3> QED
      BY <2>1, <3>1 DEF Wait, Goto, TypeOK, config, sysVars, client
  <2>2. CASE WaitEnds(c)
    BY <2>2, ZenonT(60) DEF WaitEnds, SocketWakes, Goto, Fail, TypeOK, config, sysVars, client, Reports
  <2> QED
    BY <1>9, <2>1, <2>2
<1>10. ASSUME NEW c \in Callers, CheckReturn(c) PROVE TypeOK'
  <2>1. known' \in Snapshots
    BY <1>10, Zenon DEF CheckReturn, Learn, TypeOK
  <2>2. \A n : ByName(network, n) \subseteq Ifaces \X (Links \X Addrs)
    BY NameType DEF ByName, TypeOK
  <2>3. names' \in [Names -> SUBSET (Ifaces \X (Links \X Addrs))]
    BY <1>10, <2>2 DEF CheckReturn, Learn, TypeOK
  <2>4. {} \in Reports /\ (\A d \in Callers : \A i \in todo'[d] : snap'[d][i] # Absent)
    BY <1>10, Zenon DEF CheckReturn, TypeOK, Reports
  <2> QED
    BY Zenon, <1>10, <2>1, <2>3, <2>4 DEF CheckReturn, Goto, TypeOK, config, sysVars
<1>11. CASE Close
  BY <1>11 DEF Close, TypeOK, config, sysVars, client
<1>12. CASE UNCHANGED vars
  BY <1>12 DEF vars, TypeOK, config, sysVars, client
<1> QED
  BY <1>1, <1>2, <1>3, <1>4, <1>5, <1>6, <1>7, <1>8, <1>9, <1>10, <1>11, <1>12 DEF Next, Step

(* Only Check enters, and it asks for checking and closed under d.mu. *)
LEMMA ExclusiveStep == TypeOK /\ Exclusive /\ [Next]_vars => Exclusive'
<1> SUFFICES ASSUME TypeOK, Exclusive, [Next]_vars
             PROVE  Exclusive'
  OBVIOUS
<1> USE DEF Exclusive
<1>1. CASE (\E i \in Ifaces : Change(i)) \/ Announce \/ UNCHANGED vars
  BY <1>1 DEF Change, Announce, vars
<1>2. CASE Close
  BY <1>2 DEF Close, Closes
<1>3. ASSUME NEW c \in Callers, Check(c) PROVE Exclusive'
  BY <1>3 DEF Check, Admits, Goto, TypeOK
<1>4. ASSUME NEW c \in Callers, Cancel(c) PROVE Exclusive'
  BY <1>4 DEF Cancel
<1>5. ASSUME NEW c \in Callers, CheckReturn(c) PROVE Exclusive'
  BY <1>5 DEF CheckReturn, Goto, TypeOK
<1>6. ASSUME NEW c \in Callers, Step(c), ~CheckReturn(c) PROVE Exclusive'
  <2>1. pc[c] # "idle" /\ UNCHANGED <<checking, closed>>
    BY Zenon, <1>6 DEF Step, CheckLoop, RefreshDrain, RefreshList, RefreshAddrs, RefreshUpdate, Wait, WaitEnds
  <2>2. \A d \in Callers : d # c => pc'[d] = pc[d]
    BY <1>6, ZenonT(60) DEF Step, CheckLoop, RefreshDrain, RefreshList, RefreshAddrs, RefreshUpdate, Wait,
       WaitEnds, Goto, Fail, Succeed, TypeOK
  <2> QED
    BY <2>1, <2>2
<1> QED
  BY <1>1, <1>2, <1>3, <1>4, <1>5, <1>6 DEF Next

(* While a call runs and has no report yet, nobody has one. *)
LEMMA NoReports ==
  ASSUME TypeOK, Exclusive, Reported, NEW c \in Callers, pc[c] \notin {"idle", "return"}
  PROVE  /\ \A d \in Callers : report[d] = {}
         /\ \A d \in Callers : d # c => pc[d] = "idle"
         /\ ~closed
         /\ initial => pc[c] = "loop"
  BY DEF Exclusive, Reported

(* A step of a call that makes no report and moves neither last nor known. *)
LEMMA QuietStep ==
  ASSUME TypeOK, Exclusive, Reported, NEW c \in Callers, pc[c] \notin {"idle", "return"},
         NEW to \in {"loop", "drain", "list", "addrs", "wait", "waiting", "return"},
         pc' = [pc EXCEPT ![c] = to], initial => to = "return",
         report' \in {report, [report EXCEPT ![c] = {}]},
         UNCHANGED <<closed, initial, known, last>>,
         network' = network
  PROVE  Reported'
<1>1. \A d \in Callers : report'[d] = {} /\ pc'[d] # "update"
  BY NoReports DEF TypeOK
<1>2. initial => \A d \in Callers : pc'[d] \in {"idle", "loop", "return"}
  BY NoReports DEF TypeOK
<1> QED
  BY <1>1, <1>2, NoReports DEF Reported, normalize, Nothing

(* Reported: only CheckLoop and RefreshUpdate make a report, each from the *)
(* known it will be added to, and nothing else moves last.                 *)
LEMMA ReportedStep == TypeOK /\ Exclusive /\ Reported /\ [Next]_vars => Reported'
<1> SUFFICES ASSUME TypeOK, Exclusive, Reported, [Next]_vars
             PROVE  Reported'
  BY SMTT(30)
<1>1. CASE (\E i \in Ifaces : Change(i)) \/ Announce \/ UNCHANGED vars
  BY <1>1, SMTT(30) DEF Change, Announce, vars, client, Reported, normalize, Nothing
<1>2. CASE Close
  BY <1>2 DEF Close, Closes, client, Reported, Exclusive, normalize, Nothing
<1>3. ASSUME NEW c \in Callers, Check(c) \/ Cancel(c) PROVE Reported'
  BY <1>3 DEF Check, Cancel, Goto, client, TypeOK, Reported, normalize, Nothing
<1>4. ASSUME NEW c \in Callers, CheckLoop(c) PROVE Reported'
  <2>1. CASE Fail(c) /\ UNCHANGED initial
    BY Zenon, <1>4, <2>1, QuietStep DEF CheckLoop, Goto, Fail, client
  <2>2. CASE ~initial /\ Goto(c, "drain") /\ UNCHANGED <<report, initial>>
    BY Zenon, <1>4, <2>2, QuietStep DEF CheckLoop, Goto, client
  <2>3. CASE initial /\ Succeed(c, Changes(Nothing, last)) /\ initial' = FALSE
    <3>1. known = Nothing /\ last = normalize(network) /\ ~closed
      BY <1>4, <2>3, NoReports DEF CheckLoop, Reported
    <3>2. \A d \in Callers : report'[d] = IF d = c THEN Changes(known, last) ELSE {}
      BY Zenon, <1>4, <2>3, <3>1, NoReports DEF CheckLoop, Succeed, TypeOK
    <3>3. pc'[c] = "return" /\ \A d \in Callers : d # c => pc'[d] = "idle"
      BY <1>4, <2>3, NoReports DEF CheckLoop, Succeed, Goto, TypeOK
    <3>4. UNCHANGED <<known, last, network>>
      BY <1>4 DEF CheckLoop, client
    <3>5. Changes(known, last) = {} => known = last
      BY <3>1, NoChanges, NothingType DEF TypeOK
    <3> QED
      BY <2>3, <3>1, <3>2, <3>3, <3>4, <3>5 DEF Reported
  <2> QED
    BY Zenon, <1>4, <2>1, <2>2, <2>3 DEF CheckLoop
<1>5. ASSUME NEW c \in Callers, RefreshDrain(c) \/ RefreshList(c) PROVE Reported'
  <2>1. ~initial
    BY Zenon, <1>5, NoReports DEF RefreshDrain, RefreshList
  <2> QED
    BY Zenon, <1>5, <2>1, QuietStep DEF RefreshDrain, RefreshList, Goto, Fail, client
<1>6. ASSUME NEW c \in Callers, RefreshAddrs(c) PROVE Reported'
  BY <1>6 DEF RefreshAddrs, Goto, Fail, client, TypeOK, Reported, Exclusive, normalize, Nothing
<1>7. ASSUME NEW c \in Callers, RefreshUpdate(c) PROVE Reported'
  <2>1. ~initial /\ ~closed /\ known = last /\ network = snap[c]
    BY <1>7, NoReports DEF RefreshUpdate, Reported
  <2>2. CASE Fail(c) /\ UNCHANGED <<pending, last, left>>
    BY Zenon, <1>7, <2>1, <2>2, QuietStep DEF RefreshUpdate, Goto, Fail
  <2> DEFINE r == Changes(last, normalize(snap[c]))
  <2>3. CASE /\ last' = normalize(snap[c])
             /\ (r = {} /\ Goto(c, "wait") /\ UNCHANGED report) \/ (r # {} /\ Succeed(c, r))
    <3>1. UNCHANGED <<known, network, initial, closed>> /\ last' = normalize(network')
      BY <1>7, <2>1, <2>3 DEF RefreshUpdate
    <3>2. r = {} => known' = last'
      BY <2>1, <2>3, <3>1, NoChanges, NormalizeType DEF TypeOK
    <3>3. \A d \in Callers : report'[d] = IF d = c THEN r ELSE {}
      BY Zenon, <1>7, <2>3, NoReports DEF RefreshUpdate, Succeed, TypeOK
    <3>4. \A d \in Callers : pc'[d] = IF d # c THEN "idle" ELSE IF r = {} THEN "wait" ELSE "return"
      BY <1>7, <2>3, NoReports DEF RefreshUpdate, Succeed, Goto, TypeOK
    <3> HIDE DEF r
    <3> QED
      BY <2>1, <3>1, <3>2, <3>3, <3>4 DEF Reported
  <2>4. \/ Fail(c) /\ UNCHANGED <<pending, last, left>>
        \/ /\ last' = normalize(snap[c])
           /\ (r = {} /\ Goto(c, "wait") /\ UNCHANGED report) \/ (r # {} /\ Succeed(c, r))
    BY <1>7, Zenon DEF RefreshUpdate
  <2> HIDE DEF r
  <2> QED
    BY <2>2, <2>3, <2>4
<1>8. ASSUME NEW c \in Callers, Wait(c) \/ WaitEnds(c) PROVE Reported'
  <2>1. ~initial
    BY Zenon, <1>8, NoReports DEF Wait, WaitEnds
  <2>2. PICK to \in {"loop", "waiting", "return"} : pc' = [pc EXCEPT ![c] = to]
    BY Zenon, <1>8 DEF Wait, WaitEnds, Goto, Fail
  <2>3. report' \in {report, [report EXCEPT ![c] = {}]}
    BY Zenon, <1>8 DEF Wait, WaitEnds, Fail
  <2>4. pc[c] \notin {"idle", "return"} /\ UNCHANGED <<closed, initial, known, last, network>>
    BY Zenon, <1>8 DEF Wait, WaitEnds, client
  <2> QED
    BY Zenon, <2>1, <2>2, <2>3, <2>4, QuietStep
<1>9. ASSUME NEW c \in Callers, CheckReturn(c) PROVE Reported'
  <2>1. \A d \in Callers : report'[d] = {} /\ pc'[d] = "idle"
    BY <1>9 DEF CheckReturn, Goto, TypeOK, Reported, Exclusive
  <2>2. \A d \in Callers : d # c => report[d] = {}
    BY <1>9 DEF CheckReturn, TypeOK, Reported, Exclusive
  <2>3. report[c] # {} => known' = last
    BY <1>9, Zenon DEF CheckReturn, Learn, Reported
  <2>4. report[c] = {} => known' = known
    BY <1>9, Zenon DEF CheckReturn, Learn
  <2>5. UNCHANGED <<closed, initial, last, network>>
    BY <1>9 DEF CheckReturn
  <2> QED
    BY <2>1, <2>2, <2>3, <2>4, <2>5 DEF Reported
<1> QED
  BY <1>1, <1>2, <1>3, <1>4, <1>5, <1>6, <1>7, <1>8, <1>9 DEF Next, Step

(* A step that makes no report and moves neither last nor names nor left. *)
LEMMA QuietLooked ==
  ASSUME Looked, UNCHANGED <<last, names, left, closed, initial>>,
         \A d \in Callers : report'[d] = report[d]
  PROVE  Looked'
  BY DEF Looked, Found, Named, ByName, NameOf

(* Looked: update moves last and left together, under the names it         *)
(* reports, and the return of Check names.                                 *)
LEMMA LookedStep == TypeOK /\ Exclusive /\ Reported /\ Looked /\ [Next]_vars => Looked'
<1> SUFFICES ASSUME TypeOK, Exclusive, Reported, Looked, [Next]_vars
             PROVE  Looked'
  OBVIOUS
<1>1. CASE (\E i \in Ifaces : Change(i)) \/ Announce \/ UNCHANGED vars
  BY Zenon, <1>1, QuietLooked DEF Change, Announce, vars, client
<1>2. CASE Close
  BY <1>2 DEF Close, client, Looked, Named, Nothing
<1>3. ASSUME NEW c \in Callers, Check(c) \/ Cancel(c) PROVE Looked'
  BY Zenon, <1>3, QuietLooked DEF Check, Cancel, client
<1>4. ASSUME NEW c \in Callers, pc[c] \notin {"idle", "return"},
             report' \in {report, [report EXCEPT ![c] = {}]},
             UNCHANGED <<last, names, left, closed, initial>>
      PROVE  Looked'
  <2>1. \A d \in Callers : report'[d] = report[d]
    BY ZenonT(30), <1>4, NoReports DEF TypeOK
  <2> QED
    BY <1>4, <2>1, QuietLooked
<1>5. ASSUME NEW c \in Callers, CheckLoop(c) PROVE Looked'
  <2>1. CASE UNCHANGED initial /\ report' \in {report, [report EXCEPT ![c] = {}]}
    BY SMTT(30), <1>4, <1>5, <2>1 DEF CheckLoop, client
  <2>2. CASE initial /\ Succeed(c, Changes(Nothing, last)) /\ initial' = FALSE
    <3>1. ~closed /\ left = {} /\ \A n \in Names : names[n] = {}
      BY <1>5, <2>2, NoReports DEF CheckLoop, Looked
    <3>2. \A d \in Callers : report'[d] = IF d = c THEN Changes(Nothing, last) ELSE {}
      BY Zenon, <1>5, <2>2, NoReports DEF CheckLoop, Succeed, TypeOK
    <3>3. UNCHANGED <<names, left, last, closed>>
      BY <1>5 DEF CheckLoop, client
    <3>4. Named(Changes(Nothing, last)) \subseteq Matching
      BY NamedMatching, NothingType, Zenon DEF TypeOK, Looked, Nothing
    <3>5. ASSUME NEW n \in Names, n \notin Named(Changes(Nothing, last))
          PROVE  Found(last, n, n \in left)'
      <4>1. ByName(last, n) \subseteq ByName(Nothing, n)
        BY <3>5, Unnamed, NothingType DEF TypeOK
      <4>2. ByName(Nothing, n) = {}
        BY DEF ByName, Nothing
      <4> QED
        BY <3>1, <3>3, <4>1, <4>2 DEF Found, ByName
    <3>6. Named({}) = {}
      BY DEF Named
    <3> QED
      BY <2>2, <3>1, <3>2, <3>3, <3>4, <3>5, <3>6 DEF Looked
  <2> QED
    BY Zenon, <1>5, <2>1, <2>2 DEF CheckLoop, Fail
<1>6. ASSUME NEW c \in Callers, RefreshDrain(c) \/ RefreshList(c) \/ RefreshAddrs(c) \/ Wait(c) \/ WaitEnds(c)
      PROVE  Looked'
  <2>1. pc[c] \notin {"idle", "return"}
    BY Zenon, <1>6 DEF RefreshDrain, RefreshList, RefreshAddrs, Wait, WaitEnds
  <2>2. report' \in {report, [report EXCEPT ![c] = {}]}
    BY Zenon, <1>6 DEF RefreshDrain, RefreshList, RefreshAddrs, Wait, WaitEnds, Fail
  <2>3. UNCHANGED <<last, names, left, closed, initial>>
    BY Zenon, <1>6 DEF RefreshDrain, RefreshList, RefreshAddrs, Wait, WaitEnds, client
  <2> QED
    BY <1>4, <2>1, <2>2, <2>3
<1>7. ASSUME NEW c \in Callers, RefreshUpdate(c) PROVE Looked'
  <2> DEFINE next == normalize(snap[c])
             r == Changes(last, next)
  <2>1. ~initial /\ ~closed /\ pc[c] \notin {"idle", "return"} /\ \A d \in Callers : report[d] = {}
    BY <1>7, NoReports DEF RefreshUpdate
  <2>2. CASE Fail(c) /\ UNCHANGED <<pending, last, left>>
    BY ZenonT(30), <1>4, <1>7, <2>1, <2>2 DEF RefreshUpdate, Fail
  <2>3. CASE /\ last' = next /\ Leaves(next)
             /\ (r = {} /\ Goto(c, "wait") /\ UNCHANGED report) \/ (r # {} /\ Succeed(c, r))
    <3>1. next \in Snapshots /\ last \in Snapshots /\ Named({}) = {}
      BY NormalizeType DEF TypeOK, Named
    <3>2. \A i \in Ifaces : next[i] # Absent => NameOf(next[i]) \in Matching
      BY NormalizeNames DEF TypeOK
    <3>3. Named(r) \subseteq Matching
      BY <3>1, <3>2, NamedMatching DEF Looked
    <3>4. \A d \in Callers : report'[d] = IF d = c THEN r ELSE {}
      BY Zenon, <1>7, <2>1, <2>3 DEF RefreshUpdate, Succeed, TypeOK
    <3>5. left' = (left \cup RenamedFrom(last, next)) \ Named(r)
      BY SMTT(30), <2>3 DEF Leaves
    <3>6. UNCHANGED <<names, closed, initial>>
      BY <1>7 DEF RefreshUpdate
    <3>7. ASSUME NEW n \in Names, n \notin Named(r)
          PROVE  Found(next, n, n \in left')
      <4>1. /\ ByName(next, n) \subseteq ByName(last, n)
            /\ n \in RenamedFrom(last, next) <=> ByName(last, n) # ByName(next, n)
        BY <3>1, <3>7, Unnamed
      <4>2. Found(last, n, n \in left)
        BY Zenon, <2>1, <3>1 DEF Looked
      <4>3. n \in left' <=> n \in left \/ n \in RenamedFrom(last, next)
        BY SMTT(30), <3>5, <3>7
      <4> HIDE DEF next, r
      <4> QED
        BY <4>1, <4>2, <4>3 DEF Found
    <3>8. ASSUME NEW n \in Names, n \notin Named(r)
          PROVE  Found(last, n, n \in left)'
      BY <2>3, <3>6, <3>7, <3>8 DEF Found, ByName
    <3> HIDE DEF next, r
    <3> QED
      BY SMTT(30), <2>1, <2>3, <3>1, <3>2, <3>3, <3>4, <3>5, <3>6, <3>8 DEF Looked
  <2> HIDE DEF next, r
  <2>4. \/ Fail(c) /\ UNCHANGED <<pending, last, left>>
        \/ /\ last' = next /\ Leaves(next)
           /\ (r = {} /\ Goto(c, "wait") /\ UNCHANGED report) \/ (r # {} /\ Succeed(c, r))
    BY <1>7, Zenon DEF RefreshUpdate, next, r
  <2> QED
    BY <2>2, <2>3, <2>4
<1>8. ASSUME NEW c \in Callers, CheckReturn(c) PROVE Looked'
  <2>1. \A d \in Callers : report'[d] = {} /\ (d # c => report[d] = {})
    BY SMTT(30), <1>8 DEF CheckReturn, TypeOK, Reported, Exclusive
  <2>2. UNCHANGED <<last, left, closed, initial>> /\ Named({}) = {}
    BY Zenon, <1>8 DEF CheckReturn, Named
  <2>3. \A n \in Names : names'[n] = IF n \in Named(report[c]) THEN ByName(network, n) ELSE names[n]
    BY <1>8, Zenon DEF CheckReturn, Learn
  <2>4. ASSUME NEW n \in Names, n \in Named(report[c])
        PROVE  names'[n] = ByName(last, n) /\ n \notin left
    <3>1. report[c] # {} /\ n \in Matching /\ n \notin left
      BY SMTT(30), <2>2, <2>4 DEF Looked
    <3>2. last = normalize(network)
      BY <3>1 DEF Reported
    <3> QED
      BY SMTT(30), <2>3, <2>4, <3>1, <3>2, NormalizeNames DEF TypeOK
  <2>5. ASSUME NEW n \in Names, ~closed, ~initial PROVE Found(last, n, n \in left)'
    <3>1. CASE n \in Named(report[c])
      BY SMTT(30), <2>2, <2>4, <3>1 DEF Found, ByName
    <3>2. CASE n \notin Named(report[c])
      <4>1. Found(last, n, n \in left)
        BY SMTT(30), <2>1, <2>2, <2>5, <3>2 DEF Looked
      <4> QED
        BY Zenon, <2>2, <2>3, <3>2, <4>1 DEF Found, ByName
    <3> QED
      BY <3>1, <3>2
  <2>6. initial /\ ~closed => \A n \in Names : names'[n] = {}
    BY <2>2, <2>3 DEF Looked, Reported
  <2> QED
    BY Zenon, <2>1, <2>2, <2>5, <2>6 DEF Looked
<1> QED
  BY <1>1, <1>2, <1>3, <1>5, <1>6, <1>7, <1>8 DEF Next, Step

(* Announced: a change is announced after it happened, drain and wait      *)
(* leave pending where they read an announcement, and a snapshot read      *)
(* since then is current unless another announcement is due.               *)
LEMMA AnnouncedStep == TypeOK /\ Exclusive /\ Announced /\ [Next]_vars => Announced'
<1> SUFFICES ASSUME TypeOK, Exclusive, Announced, [Next]_vars, source
             PROVE  Announced'
  BY Zenon DEF Announced, Next, vars, config, Change, Announce, Check, Cancel, Step, CheckLoop,
     RefreshDrain, RefreshList, RefreshAddrs, RefreshUpdate, Wait, WaitEnds, CheckReturn, Close
<1>1. CASE (\E i \in Ifaces : Change(i)) \/ Announce \/ UNCHANGED vars
  BY Zenon, <1>1 DEF Change, Announce, vars, sysVars, config, Announced, normalize
<1>2. CASE Close
  BY <1>2 DEF Close, Announced, sysVars
<1>3. ASSUME NEW c \in Callers, Check(c) \/ Cancel(c) PROVE Announced'
  BY <1>3 DEF Check, Cancel, Goto, TypeOK, Announced, normalize, sysVars
<1>4. ASSUME NEW c \in Callers, CheckLoop(c) \/ CheckReturn(c) PROVE Announced'
  BY <1>4 DEF CheckLoop, CheckReturn, Goto, Fail, Succeed, TypeOK, Announced, normalize, sysVars
<1>5. ASSUME NEW c \in Callers, RefreshDrain(c) PROVE Announced'
  BY <1>5, ZenonT(60)
    DEF RefreshDrain, Drained, PendingAfter, Goto, Fail, TypeOK, Announced, Exclusive, normalize, sysVars
<1>6. ASSUME NEW c \in Callers, RefreshList(c) PROVE Announced'
  BY <1>6 DEF RefreshList, Goto, Fail, TypeOK, Announced, normalize, sysVars
<1>7. ASSUME NEW c \in Callers, RefreshAddrs(c) PROVE Announced'
  BY SMTT(30), <1>7 DEF RefreshAddrs, AddrsOf, Goto, Fail, TypeOK, Announced, normalize, sysVars, Snapshots
<1>8. ASSUME NEW c \in Callers, RefreshUpdate(c) PROVE Announced'
  BY <1>8 DEF RefreshUpdate, Goto, Fail, Succeed, TypeOK, Announced, Exclusive, sysVars
<1>9. ASSUME NEW c \in Callers, Wait(c) PROVE Announced'
  BY Zenon, <1>9 DEF Wait, PendingInWait, Goto, TypeOK, Announced, normalize, sysVars
<1>10. ASSUME NEW c \in Callers, WaitEnds(c) PROVE Announced'
  BY ZenonT(30), <1>10 DEF WaitEnds, SocketWakes, Goto, Fail, TypeOK, Announced, Exclusive, normalize, sysVars
<1> QED
  BY <1>1, <1>2, <1>3, <1>4, <1>5, <1>6, <1>7, <1>8, <1>9, <1>10 DEF Next, Step

(* Every step of callers, kernel and Close keeps the invariant. *)
THEOREM Invariance == Spec => []IInv
<1>1. IInv /\ [Next]_vars => IInv'
  BY TypeStep, ExclusiveStep, ReportedStep, LookedStep, AnnouncedStep DEF IInv
<1> QED
  BY InitInv, <1>1, PTL DEF Spec

(* TypeOK for every number of callers and interfaces. *)
THEOREM TypeCorrect == Spec => []TypeOK
<1>1. IInv => TypeOK
  BY DEF IInv
<1> QED
  BY <1>1, Invariance, PTL

(* The reports of Check add up, whatever happens between them, both for a  *)
(* client that reads all interfaces again and, up to renamed interfaces,   *)
(* for one that looks the reported names up.                               *)
THEOREM ReportsAddUp == Spec => []InStep
<1> SUFFICES ASSUME IInv PROVE InStep
  BY Invariance, PTL
<1>1. (\A c, d \in Active : c = d) /\ (Active # {} => checking /\ ~closed)
  BY DEF IInv, Exclusive, Active
<1>2. ASSUME ~closed, ~initial, ~Delivering
      PROVE  known = last /\ \A n \in Names : names[n] = ByName(last, n) <=> n \notin left
  <2>1. \A c \in Callers : report[c] = {}
    BY <1>2 DEF IInv, Reported, Delivering
  <2>2. known = last
    BY <1>2, <2>1 DEF IInv, Reported
  <2>3. ASSUME NEW n \in Names PROVE names[n] = ByName(last, n) <=> n \notin left
    BY Zenon, <1>2, <2>1 DEF IInv, Looked, Found, Named
  <2> QED
    BY <2>2, <2>3
<1> QED
  BY <1>1, <1>2 DEF InStep

(* While a change has not been reported, the detector will be told of it   *)
(* or has pending set.                                                     *)
THEOREM NoneMissed == Spec => []NoChangeMissed
<1>1. IInv => NoChangeMissed
  BY DEF IInv, Exclusive, Reported, Announced, NoChangeMissed, Delivering
<1> QED
  BY <1>1, Invariance, PTL
=============================================================================
