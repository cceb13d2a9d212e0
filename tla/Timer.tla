-------------------------------- MODULE Timer --------------------------------
(***************************************************************************)
(* What deadline.go relies on in a timer (src/deadline/timer.go, made by   *)
(* afterFunc): Reset arms it, Stop disarms it, and both report whether it  *)
(* was armed.  An armed timer goes off once it is due, by starting its     *)
(* function in a goroutine; one that was disarmed or armed anew in time    *)
(* never starts it for the old arming.                                     *)
(***************************************************************************)
EXTENDS Naturals

VARIABLES
  now,        \* the clock
  armedAt,    \* when the timer goes off, or NotArmed
  callbacks   \* the calls of its function started and not finished

NotArmed == 0
vars == <<now, armedAt, callbacks>>

Init == now = 1 /\ armedAt = NotArmed /\ callbacks = 0

Reset == armedAt' \in Nat \ {NotArmed} /\ UNCHANGED <<now, callbacks>>
Stop == armedAt' = NotArmed /\ UNCHANGED <<now, callbacks>>

GoesOff ==
  /\ armedAt # NotArmed /\ armedAt <= now
  /\ armedAt' = NotArmed
  /\ callbacks' = callbacks + 1
  /\ UNCHANGED now

Runs == callbacks > 0 /\ callbacks' = callbacks - 1 /\ UNCHANGED <<now, armedAt>>
Tick == now' = now + 1 /\ UNCHANGED <<armedAt, callbacks>>

Next == Reset \/ Stop \/ GoesOff \/ Runs \/ Tick
Spec == Init /\ [][Next]_vars
=============================================================================
