--------------------------- MODULE ReplayDetectors ---------------------------
(***************************************************************************)
(* The package src/replaydetector: the detector without wrapping (module   *)
(* ReplayWindow), the one with wrapping (WrappedWindow) and the mask both  *)
(* use (FixedBigInt).  Objects of these types share no state: the one      *)
(* under test is chosen once, and the others stay in an initial state.     *)
(***************************************************************************)
EXTENDS ReplayWindow

CONSTANTS
  WrapWindowSize, WrapMaxSeq, Callers, MaxPacket,   \* of WrappedWindow
  W, Sizes, MaxShift                                \* of FixedBigInt

(* Half the sequence space has room for a packet ahead, and the window     *)
(* does not reach the packets that diff takes for ones behind.             *)
ASSUME WrapAssumption ==
  /\ WrapWindowSize \in Nat /\ WrapMaxSeq \in Nat /\ MaxPacket \in Nat
  /\ WrapMaxSeq \div 2 > 1
  /\ WrapWindowSize + (WrapMaxSeq \div 2) <= WrapMaxSeq + 1
ASSUME MaskAssumption == W \in Nat \ {0} /\ Sizes \subseteq Nat /\ MaxShift \in Nat

VARIABLES
  which,   \* the object under test
  w_latestSeq, w_mask, init, head, held, w_accepted, w_latest, stale,
  bits, n, ideal

Wrapped == INSTANCE WrappedWindow WITH
  WindowSize <- WrapWindowSize, MaxSeq <- WrapMaxSeq, latestSeq <- w_latestSeq,
  mask <- w_mask, accepted <- w_accepted, latest <- w_latest

Big == INSTANCE FixedBigInt

win == vars
wrap == <<w_latestSeq, w_mask, init, head, held, w_accepted, w_latest, stale>>
big == <<bits, n, ideal>>
detectors == <<which, win, wrap, big>>

DetectorsInit ==
  /\ Init /\ Wrapped!Init /\ Big!Init
  /\ which # "mask" => \A k \in Sizes : n <= k

DetectorsNext ==
  \/ which = "window" /\ Next /\ UNCHANGED <<which, wrap, big>>
  \/ which = "wrapped" /\ Wrapped!Next /\ UNCHANGED <<which, win, big>>
  \/ which = "mask" /\ Big!Next /\ UNCHANGED <<which, win, wrap>>

DetectorsSpec == DetectorsInit /\ [][DetectorsNext]_detectors

-----------------------------------------------------------------------------
(* WrappedWindow!DetectsExactly: across wraps of the counter, a check      *)
(* passes exactly the packets that are not older than the window, not yet  *)
(* accepted and in reach, about half the space ahead, whatever the order   *)
(* of the accepts, until an accept function is used with an outdated       *)
(* distance.                                                               *)
WrapDetectsExactly == TypeOK /\ Wrapped!TypeOK /\ Wrapped!DetectsExactly

(* The multi-word mask answers as one integer of its size would, and holds *)
(* no bit beyond it.                                                       *)
ImplementsBitMask == Big!TypeOK /\ Big!ImplementsBitMask /\ Big!NothingAboveSize
=============================================================================
