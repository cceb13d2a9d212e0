------------------------------- MODULE JsTimer -------------------------------
(***************************************************************************)
(* jsTimer (src/deadline/timer_js.go), the timer of the builds for js: it  *)
(* makes a new time.AfterFunc timer for every Reset and tells the          *)
(* goroutines of the old ones, which may reach t.mu at any later time,     *)
(* apart by a version.  Every section under t.mu is one action.            *)
(***************************************************************************)
EXTENDS Naturals

CONSTANTS MaxTime, MaxCalls   \* bounds on the clock and on the calls

VARIABLES
  now,        \* the clock
  version,    \* t.version, which also counts the calls
  started,    \* t.started
  setTo,      \* when the last Reset asked to go off
  runtime,    \* when t.timer goes off, or 0 if it will not
  carries,    \* the version its function was given
  late,       \* the versions of the goroutines on their way to t.mu
  callbacks   \* the calls of t.f that have been started and not finished

vars == <<now, version, started, setTo, runtime, carries, late, callbacks>>

TypeOK ==
  /\ now \in Nat \ {0} /\ version \in Nat /\ setTo \in Nat /\ callbacks \in Nat
  /\ started \in BOOLEAN
  /\ runtime \in Nat /\ carries \in Nat
  /\ late \in SUBSET Nat

(* Before the first Reset there is no timer. *)
Init ==
  /\ now = 1 /\ version = 0 /\ setTo = 0 /\ callbacks = 0
  /\ started = FALSE
  /\ runtime = 0 /\ carries = 0
  /\ late = {}

-----------------------------------------------------------------------------
(* Stop returns started. *)
VersionKept == version
StopVersion == version + 1

Stop ==
  /\ version \in 1..MaxCalls-1
  /\ version' = StopVersion
  /\ runtime' = 0
  /\ started' = FALSE
  /\ UNCHANGED <<now, setTo, carries, late, callbacks>>

(* Reset returns started too. *)
Reset(at) ==
  /\ version < MaxCalls
  /\ at > now
  /\ version' = version + 1
  /\ runtime' = at
  /\ carries' = version + 1
  /\ started' = TRUE
  /\ setTo' = at
  /\ UNCHANGED <<now, late, callbacks>>

(* The function Reset gave to time.AfterFunc, under t.mu. *)
CurrentAlways(v) == TRUE
Current(v) == v = version

Callback(v) ==
  /\ v \in late
  /\ late' = late \ {v}
  /\ IF Current(v) THEN started' = FALSE /\ callbacks' = callbacks + 1
                   ELSE UNCHANGED <<started, callbacks>>
  /\ UNCHANGED <<now, version, setTo, runtime, carries>>

(* t.f(), that is Deadline's timeout, ends. *)
Return == callbacks > 0 /\ callbacks' = callbacks - 1
          /\ UNCHANGED <<now, version, started, setTo, runtime, carries, late>>

(* The runtime: the time.AfterFunc timer goes off, and time passes. *)
RuntimeFires ==
  /\ runtime # 0 /\ runtime <= now
  /\ runtime' = 0
  /\ late' = late \cup {carries}
  /\ UNCHANGED <<now, version, started, setTo, carries, callbacks>>

Tick == now < MaxTime /\ now' = now + 1
        /\ UNCHANGED <<version, started, setTo, runtime, carries, late, callbacks>>

Next ==
  \/ Stop
  \/ \E at \in 1..MaxTime : Reset(at)
  \/ \E v \in late : Callback(v)
  \/ Return
  \/ RuntimeFires
  \/ Tick

Spec == Init /\ [][Next]_vars

-----------------------------------------------------------------------------
(* A started timer has a runtime timer or a goroutine of the current       *)
(* version to end it, and is not early: the strengthening the refinement   *)
(* needs.                                                                  *)
StartedIsCarried ==
  /\ started => /\ setTo # 0
                /\ \/ runtime = setTo /\ carries = version /\ version \notin late
                   \/ runtime = 0 /\ version \in late /\ setTo <= now
  /\ ~started => runtime = 0 /\ version \notin late
  /\ \A v \in late : v <= version

(* jsTimer is a Timer that is armed while t.started, which is what Stop    *)
(* and Reset return: however late the goroutines of earlier Resets come,   *)
(* the function is started once per arming, not early, and not at all for  *)
(* an arming that Stop or Reset reported to have ended.                    *)
T == INSTANCE Timer WITH armedAt <- IF started THEN setTo ELSE 0
ImplementsTimer == [T!Next]_(T!vars)
=============================================================================
