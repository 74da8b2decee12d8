------------------------------- MODULE Clock -------------------------------
(***************************************************************************)
(* timestamp() of src/src/util/timestamp.cc: the ms since the program      *)
(* started.  Every part of the emulator reads it, none sets it.            *)
(***************************************************************************)
EXTENDS Naturals

CONSTANTS
  MaxTime,    \* the clock stops here (bound)
  MaxPackets  \* packets that reach the TUN device by then (bound)

ASSUME ClockAssumption == MaxTime \in Nat /\ MaxPackets \in Nat

VARIABLE clock

=============================================================================
