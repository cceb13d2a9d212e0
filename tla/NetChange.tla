------------------------------ MODULE NetChange ------------------------------
(***************************************************************************)
(* netchange.Detector (src/netchange/detector.go): Check waits until an    *)
(* interface of the system changes and reports what changed since the last *)
(* report.  On Linux and Darwin it is woken by a socket on which the       *)
(* kernel announces changes (src/netchange/socket_unix.go), elsewhere it   *)
(* polls.                                                                  *)
(*                                                                         *)
(* A snapshot gives each interface index its link part (name and flags)    *)
(* and its addresses, or Absent.  The system changes between any two steps *)
(* of a Check, also in the middle of an enumeration, which reads the links *)
(* at once and then the addresses interface by interface.  A change that   *)
(* is reported has a name and a type; the index it was found by is not in  *)
(* it.  Two clients follow the reports: one reads all interfaces again     *)
(* when there is a report, the other looks up the names in it.  Neither    *)
(* depends on the order of a report.                                       *)
(***************************************************************************)
EXTENDS Naturals

CONSTANTS
  Callers,      \* goroutines that call Check
  Ifaces,       \* interface indices
  Names, Flags, \* the names and the flags an interface may have
  Matching,     \* the names that interfaceFilter accepts
  Addrs,        \* the address lists an interface may have
  NoAddrs,      \* the empty one
  Absent,       \* the interface does not exist
  MaxChanges    \* bound on the changes of the system

Links == Names \X Flags

ASSUME NetChangeAssumption ==
  /\ Matching \subseteq Names /\ NoAddrs \in Addrs
  /\ Absent \notin Links \X Addrs
  /\ MaxChanges \in Nat

VARIABLES
  sys,          \* the interfaces of the system
  changes,      \* number of changes of the system so far
  undelivered,  \* the kernel has yet to announce a change
  unread,       \* the socket holds an announcement that drain and wait accept
  source,       \* d.source # nil
  timeout,      \* d.platformTimeout > 0
  closed, checking, pending,   \* fields of d
  initial,      \* d.initial # nil
  last,         \* d.state.last
  network,      \* d.network
  pc,           \* where each Check is
  canceled,     \* the calls whose context is cancelled
  snap,         \* the snapshot each call's enumerate is reading
  todo,         \* the interfaces whose addresses it has yet to read
  report,       \* the changes each call is about to return
  known,        \* history: what a client has read that reads Interfaces at a report
  names,        \* history: what a client has found that looks up reported names
  left          \* history: the names taken from an interface by a rename and not
                \* reported since

sysVars == <<sys, changes, undelivered>>
config == <<source, timeout>>
client == <<known, names, left>>
vars == <<sysVars, unread, config, closed, checking, pending, initial, last, network, pc,
          canceled, snap, todo, report, client>>

Snapshots == [Ifaces -> (Links \X Addrs) \cup {Absent}]
Nothing == [i \in Ifaces |-> Absent]
Reports == SUBSET (Names \X {"Added", "Changed", "Removed"})

TypeOK ==
  /\ sys \in Snapshots /\ last \in Snapshots /\ network \in Snapshots /\ known \in Snapshots
  /\ changes \in Nat
  /\ undelivered \in BOOLEAN /\ unread \in BOOLEAN
  /\ source \in BOOLEAN /\ timeout \in BOOLEAN
  /\ closed \in BOOLEAN /\ checking \in BOOLEAN /\ pending \in BOOLEAN /\ initial \in BOOLEAN
  /\ pc \in [Callers -> {"idle", "loop", "drain", "list", "addrs", "update", "wait",
                         "waiting", "return"}]
  /\ canceled \in SUBSET Callers
  /\ snap \in [Callers -> Snapshots]
  /\ todo \in [Callers -> SUBSET Ifaces]
  /\ \A c \in Callers : \A i \in todo[c] : snap[c][i] # Absent
  /\ report \in [Callers -> Reports]
  /\ names \in [Names -> SUBSET (Ifaces \X (Links \X Addrs))] /\ left \subseteq Names

-----------------------------------------------------------------------------
NameOf(entry) == entry[1][1]

(* normalize: the interfaces whose names the filter accepts. *)
normalize(s) ==
  [i \in Ifaces |-> IF s[i] # Absent /\ NameOf(s[i]) \in Matching THEN s[i] ELSE Absent]

(* update: an interface is compared with the one of the same index, and    *)
(* reported under its name, the old one if it was removed.                 *)
ChangeOf(before, after) ==
  IF before = Absent THEN <<NameOf(after), "Added">>
  ELSE IF after = Absent THEN <<NameOf(before), "Removed">> ELSE <<NameOf(after), "Changed">>
ChangesWithoutRemoved(before, after) ==
  {ChangeOf(before[i], after[i]) : i \in {j \in Ifaces : before[j] # after[j] /\ after[j] # Absent}}
Changes(before, after) ==
  {ChangeOf(before[i], after[i]) : i \in {j \in Ifaces : before[j] # after[j]}}

Named(r) == {change[1] : change \in r}
RenamedFrom(before, after) ==
  {NameOf(before[i]) : i \in {j \in Ifaces : before[j] # Absent /\ after[j] # Absent
                                               /\ NameOf(before[j]) # NameOf(after[j])}}

(* InterfaceByName: the interface of that name, if there is one. *)
ByName(s, n) == {<<i, s[i]>> : i \in {j \in Ifaces : s[j] # Absent /\ NameOf(s[j]) = n}}

DistinctNames(s) == \A n \in Names : \A x, y \in ByName(s, n) : x = y

(* NewDetector: the socket is opened before start() enumerates, so that a  *)
(* change start() did not see has been announced or will be.               *)
Init ==
  /\ sys \in Snapshots /\ network \in Snapshots
  /\ DistinctNames(sys) /\ DistinctNames(network)
  /\ changes = 0
  /\ source \in BOOLEAN /\ timeout \in BOOLEAN
  /\ undelivered \in BOOLEAN /\ unread \in BOOLEAN
  /\ unread => source
  /\ source /\ network # sys => undelivered \/ unread
  /\ closed = FALSE /\ checking = FALSE /\ pending = FALSE
  /\ initial = TRUE
  /\ last = normalize(network)
  /\ pc = [c \in Callers |-> "idle"]
  /\ canceled = {}
  /\ snap = [c \in Callers |-> Nothing]
  /\ todo = [c \in Callers |-> {}]
  /\ report = [c \in Callers |-> {}]
  /\ known = Nothing /\ names = [n \in Names |-> {}] /\ left = {}

-----------------------------------------------------------------------------
(* The system and the socket. *)
Change(i) ==
  /\ changes < MaxChanges
  /\ changes' = changes + 1
  /\ \E v \in (Links \X Addrs) \cup {Absent} : v # sys[i] /\ sys' = [sys EXCEPT ![i] = v]
  /\ DistinctNames(sys')
  /\ undelivered' = TRUE
  /\ UNCHANGED <<unread, config, closed, checking, pending, initial, last, network, pc,
                 canceled, snap, todo, report, client>>

Announce ==
  /\ undelivered
  /\ undelivered' = FALSE
  /\ unread' = source
  /\ UNCHANGED <<sys, changes, config, closed, checking, pending, initial, last, network,
                 pc, canceled, snap, todo, report, client>>

Cancel(c) ==
  /\ pc[c] # "idle"
  /\ canceled' = canceled \cup {c}
  /\ UNCHANGED <<sysVars, unread, config, closed, checking, pending, initial, last, network,
                 pc, snap, todo, report, client>>

-----------------------------------------------------------------------------
Goto(c, to) == pc' = [pc EXCEPT ![c] = to]

(* Return with an error, or with a report. *)
Fail(c) == Goto(c, "return") /\ report' = [report EXCEPT ![c] = {}]
Succeed(c, r) == Goto(c, "return") /\ report' = [report EXCEPT ![c] = r]

(* Check, lines 161-178.  Refused with ErrClosed, ErrBusy or the cause of  *)
(* its context, it changes nothing.                                        *)
AdmitAlways == TRUE
Admits == ~closed /\ ~checking

Check(c) ==
  /\ pc[c] = "idle"
  /\ Admits
  /\ checking' = TRUE
  /\ Goto(c, "loop")
  /\ UNCHANGED <<sysVars, unread, config, closed, pending, initial, last, network, canceled,
                 snap, todo, report, client>>

(* Check, lines 186-194: the context, then the initial report. *)
CheckLoop(c) ==
  /\ pc[c] = "loop"
  /\ \/ c \in canceled /\ Fail(c) /\ UNCHANGED initial
     \/ c \notin canceled /\ initial /\ Succeed(c, Changes(Nothing, last)) /\ initial' = FALSE
     \/ c \notin canceled /\ ~initial /\ Goto(c, "drain") /\ UNCHANGED <<report, initial>>
  /\ UNCHANGED <<sysVars, unread, config, closed, checking, pending, last, network, canceled,
                 snap, todo, client>>

(* drain reads what the socket holds, at most 64 messages: it may read     *)
(* none of the accepted announcements, some of them, or all.               *)
Drained(notified) == (notified => unread) /\ (~notified => unread' = unread) /\ (unread' => unread)

(* refresh, lines 206-215. *)
PendingIfNotified(notified) == notified
PendingAfter(notified) == pending \/ notified

RefreshDrain(c) ==
  /\ pc[c] = "drain"
  /\ \/ ~source /\ Goto(c, "list") /\ UNCHANGED <<unread, pending, report>>
     \/ source /\ \E notified \in BOOLEAN, rest \in BOOLEAN :
          /\ unread' = rest /\ Drained(notified)
          /\ pending' = PendingAfter(notified)
          /\ Goto(c, IF PendingAfter(notified) THEN "list" ELSE "wait")
          /\ UNCHANGED report
     \/ source /\ pending' = TRUE /\ unread' \in {FALSE, unread} /\ Fail(c)
  /\ UNCHANGED <<sysVars, config, closed, checking, initial, last, network, canceled, snap,
                 todo, client>>

(* refresh, lines 216-219, and UpdateInterfaces: the links are listed,     *)
(* then each interface's addresses.  Each may fail; the addresses of an    *)
(* interface that has gone are an error or none.                           *)
RefreshList(c) ==
  /\ pc[c] = "list"
  /\ \/ c \notin canceled
        /\ snap' = [snap EXCEPT ![c] = sys]
        /\ todo' = [todo EXCEPT ![c] = {i \in Ifaces : sys[i] # Absent}]
        /\ Goto(c, "addrs") /\ UNCHANGED report
     \/ Fail(c) /\ UNCHANGED <<snap, todo>>
  /\ UNCHANGED <<sysVars, unread, config, closed, checking, pending, initial, last, network,
                 canceled, client>>

AddrsOf(i) == IF sys[i] = Absent THEN NoAddrs ELSE sys[i][2]

RefreshAddrs(c) ==
  /\ pc[c] = "addrs"
  /\ \/ \E i \in todo[c] :
          /\ snap' = [snap EXCEPT ![c] = [@ EXCEPT ![i] = <<snap[c][i][1], AddrsOf(i)>>]]
          /\ todo' = [todo EXCEPT ![c] = @ \ {i}]
          /\ UNCHANGED <<pc, report, network>>
     \/ todo[c] # {} /\ Fail(c) /\ UNCHANGED <<snap, todo, network>>
     \/ todo[c] = {} /\ network' = snap[c] /\ Goto(c, "update") /\ UNCHANGED <<snap, todo, report>>
  /\ UNCHANGED <<sysVars, unread, config, closed, checking, pending, initial, last, canceled,
                 client>>

(* refresh, lines 220-228, and Check, lines 195-198. *)
Leaves(next) == left' = (left \cup RenamedFrom(last, next)) \ Named(Changes(last, next))

RefreshUpdateFirst(c) ==
  /\ pc[c] = "update"
  /\ pending' = FALSE
  /\ last' = normalize(snap[c])
  /\ Leaves(normalize(snap[c]))
  /\ LET r == Changes(last, normalize(snap[c])) IN
       \/ c \in canceled /\ Fail(c)
       \/ c \notin canceled /\ r = {} /\ Goto(c, "wait") /\ UNCHANGED report
       \/ c \notin canceled /\ r # {} /\ Succeed(c, r)
  /\ UNCHANGED <<sysVars, unread, config, closed, checking, initial, network, canceled, snap,
                 todo, known, names>>
RefreshUpdate(c) ==
  /\ pc[c] = "update"
  /\ \/ c \in canceled /\ Fail(c) /\ UNCHANGED <<pending, last, left>>
     \/ /\ c \notin canceled
        /\ pending' = FALSE
        /\ last' = normalize(snap[c])
        /\ Leaves(normalize(snap[c]))
        /\ LET r == Changes(last, normalize(snap[c])) IN
             \/ r = {} /\ Goto(c, "wait") /\ UNCHANGED report
             \/ r # {} /\ Succeed(c, r)
  /\ UNCHANGED <<sysVars, unread, config, closed, checking, initial, network, canceled, snap,
                 todo, known, names>>

(* wait, line 242: what wait reads from the socket, drain will not see. *)
PendingKept == pending
PendingInWait == source \/ pending

Wait(c) ==
  /\ pc[c] = "wait"
  /\ pending' = PendingInWait
  /\ Goto(c, "waiting")
  /\ UNCHANGED <<sysVars, unread, config, closed, checking, initial, last, network, canceled,
                 snap, todo, report, client>>

(* socket.wait reads until a message is accepted. *)
SocketWakes == source /\ unread /\ unread' \in BOOLEAN

(* wait: an announcement, the poll timer or the platform timeout; the      *)
(* context; an error of the socket.                                        *)
WaitEnds(c) ==
  /\ pc[c] = "waiting"
  /\ \/ SocketWakes /\ Goto(c, "loop") /\ UNCHANGED report
     \/ (~source \/ timeout) /\ unread' \in {FALSE, unread} /\ Goto(c, "loop") /\ UNCHANGED report
     \/ c \in canceled /\ Fail(c) /\ unread' \in {FALSE, unread}
     \/ source /\ Fail(c) /\ UNCHANGED unread
  /\ UNCHANGED <<sysVars, config, closed, checking, pending, initial, last, network, canceled,
                 snap, todo, client>>

(* The clients, when a Check returns the report r. *)
Learn(r) ==
  /\ known' = IF r = {} THEN known ELSE normalize(network)
  /\ names' = [n \in Names |-> IF n \in Named(r) THEN ByName(network, n) ELSE names[n]]

(* Check, lines 179-183: the call returns. *)
CheckReturn(c) ==
  /\ pc[c] = "return"
  /\ checking' = FALSE
  /\ Learn(report[c])
  /\ report' = [report EXCEPT ![c] = {}]
  /\ snap' = [snap EXCEPT ![c] = Nothing] /\ todo' = [todo EXCEPT ![c] = {}]
  /\ canceled' = canceled \ {c}
  /\ Goto(c, "idle")
  /\ UNCHANGED <<sysVars, unread, config, closed, pending, initial, last, network, left>>

(* Close; ErrClosed and ErrBusy change nothing. *)
CloseAlways == TRUE
Closes == ~closed /\ ~checking
Close ==
  /\ Closes
  /\ closed' = TRUE
  /\ last' = Nothing
  /\ UNCHANGED <<sysVars, unread, config, checking, pending, initial, network, pc, canceled,
                 snap, todo, report, client>>

Step(c) ==
  \/ CheckLoop(c) \/ RefreshDrain(c) \/ RefreshList(c) \/ RefreshAddrs(c)
  \/ RefreshUpdate(c) \/ Wait(c) \/ WaitEnds(c) \/ CheckReturn(c)

Next ==
  \/ \E i \in Ifaces : Change(i)
  \/ Announce
  \/ \E c \in Callers : Check(c) \/ Cancel(c) \/ Step(c)
  \/ Close

Spec == Init /\ [][Next]_vars

(* A running Check keeps running and the kernel announces every change;    *)
(* nothing obliges anyone to call Check, to cancel it or to close.         *)
Fairness == WF_vars(Announce) /\ \A c \in Callers : WF_vars(Step(c))

-----------------------------------------------------------------------------
Active == {c \in Callers : pc[c] # "idle"}
Delivering == \E c \in Callers : pc[c] = "return" /\ report[c] # {}

(* The reports add up.  Whoever reads the interfaces again at each report  *)
(* has what the detector compares with: an update is never folded into     *)
(* last by a call that then fails and reports nothing, no two Checks       *)
(* compare against the same snapshot, and the socket is not closed under a *)
(* Check.  Whoever looks up the names that are reported, whatever the type *)
(* (an interface that is made again under another index is both Added and  *)
(* Removed), has them too, but for the names that an interface lost by     *)
(* being renamed: only its new name is reported.                           *)
InStep ==
  /\ \A c, d \in Active : c = d
  /\ Active # {} => checking /\ ~closed
  /\ ~closed /\ ~initial /\ ~Delivering =>
       /\ known = last
       /\ \A n \in Names : names[n] = ByName(last, n) <=> n \notin left

(* No change is missed: while what was read at reports is not what the     *)
(* system has, an announcement is on its way or unread, or pending tells   *)
(* the next refresh to enumerate.  Cancelled Checks, failed enumerations,  *)
(* enumerations torn by a change and announcements read by wait included.  *)
NoChangeMissed ==
  source /\ ~closed /\ ~initial /\ ~Delivering /\ known # normalize(sys) =>
    undelivered \/ unread \/ pending

(* A change is reported: a Check that runs while the system differs from   *)
(* what was read at reports returns, unless the system changes back; and   *)
(* so does a Check whose context is cancelled.                             *)
ChangeReported ==
  \A c \in Callers :
    /\ pc[c] # "idle" /\ known # normalize(sys) ~> pc[c] = "idle" \/ known = normalize(sys)
    /\ c \in canceled ~> pc[c] = "idle"
=============================================================================
