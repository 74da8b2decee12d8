------------------------------ MODULE Packets ------------------------------
(***************************************************************************)
(* What all parts of the emulator know of a packet: its size in bytes.     *)
(***************************************************************************)
EXTENDS Integers

CONSTANTS
  PACKET_SIZE,  \* bytes per delivery opportunity, and the largest packet
  Sizes         \* sizes of the packets offered (bound)

ASSUME PacketAssumption ==
  /\ PACKET_SIZE \in Nat \ {0}
  /\ Sizes \subseteq Nat

=============================================================================
