---------------------------- MODULE FifoChannel ----------------------------
(***************************************************************************)
(* What one direction of the emulated cellular link promises to the        *)
(* applications that use it: packets, numbered in the order in which they  *)
(* were sent, arrive in that order and at most once; only a lossy channel  *)
(* loses any.                                                              *)
(***************************************************************************)
EXTENDS Integers, Sequences

CONSTANT Lossy  \* packets may be dropped on the way

VARIABLES
  sent,       \* number of packets sent; they are numbered from 0
  inflight,   \* numbers of the packets on the way
  received    \* numbers of the packets that arrived, in order

channelVars == <<sent, inflight, received>>

ChannelInit ==
  /\ sent = 0
  /\ inflight = {}
  /\ received = <<>>

Send ==
  /\ sent' = sent + 1
  /\ inflight' = inflight \cup {sent}
  /\ UNCHANGED received

\* The oldest packet on the way arrives.
Receive ==
  /\ \E n \in inflight :
       /\ \A m \in inflight : n <= m
       /\ inflight' = inflight \ {n}
       /\ received' = Append(received, n)
  /\ UNCHANGED sent

Lose ==
  /\ Lossy
  /\ \E n \in inflight : inflight' = inflight \ {n}
  /\ UNCHANGED <<sent, received>>

ChannelNext == Send \/ Receive \/ Lose

ChannelSpec == ChannelInit /\ [][ChannelNext]_channelVars

=============================================================================
