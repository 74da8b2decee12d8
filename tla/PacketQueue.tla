---------------------------- MODULE PacketQueue ----------------------------
(***************************************************************************)
(* The packet queues a cellular link can be given on the command line      *)
(* (src/src/packet): "infinite", "droptail" and "drophead".  All three     *)
(* keep a std::queue of packets and two int counters; the dropping ones    *)
(* also have a limit in packets, in bytes or both.                         *)
(*                                                                         *)
(* A packet is a record with at least a field size, the number of bytes of *)
(* its contents; what the bytes are does not matter here.                  *)
(***************************************************************************)
EXTENDS Packets, Sequences

CONSTANTS
  QueueType,      \* which class implements AbstractPacketQueue
  packet_limit_,  \* 0: no limit in packets
  byte_limit_     \* 0: no limit in bytes

\* A dropping queue must have a limit and an infinite one must have none: the
\* constructors throw otherwise.
ASSUME QueueAssumption ==
  /\ QueueType \in {"infinite", "droptail", "drophead"}
  /\ packet_limit_ \in Nat
  /\ byte_limit_ \in Nat
  /\ QueueType # "infinite" <=> packet_limit_ > 0 \/ byte_limit_ > 0

VARIABLES
  internal_queue_,
  queue_size_in_bytes_,
  queue_size_in_packets_,
  aborted                 \* an assert() of the program has failed

queueVars == <<internal_queue_, queue_size_in_bytes_, queue_size_in_packets_>>

QueueInit ==
  /\ internal_queue_ = <<>>
  /\ queue_size_in_bytes_ = 0
  /\ queue_size_in_packets_ = 0

empty == internal_queue_ = <<>>

good_with(bytes, packets) ==
  /\ byte_limit_ > 0 => bytes <= byte_limit_
  /\ packet_limit_ > 0 => packets <= packet_limit_

good == good_with(queue_size_in_bytes_, queue_size_in_packets_)

accept(p) ==
  /\ internal_queue_' = Append(internal_queue_, p)
  /\ queue_size_in_bytes_' = queue_size_in_bytes_ + p.size
  /\ queue_size_in_packets_' = queue_size_in_packets_ + 1

\* The packet returned is Head(internal_queue_).  DroppingPacketQueue asserts
\* that it is good() afterwards, InfinitePacketQueue has nothing to assert.
dequeue ==
  /\ ~ empty
  /\ internal_queue_' = Tail(internal_queue_)
  /\ queue_size_in_bytes_' = queue_size_in_bytes_ - Head(internal_queue_).size
  /\ queue_size_in_packets_' = queue_size_in_packets_ - 1
  /\ aborted' = (QueueType # "infinite" /\ ~ good')

enqueue_infinite(p) ==
  /\ QueueType = "infinite"
  /\ accept(p)
  /\ UNCHANGED aborted

\* Bug: the limits are tested without the new packet.
FitsWith_without_packet(p) == good

FitsWith(p) ==
  good_with(queue_size_in_bytes_ + p.size, queue_size_in_packets_ + 1)

\* The packet is accepted if it fits and lost otherwise.
enqueue_drop_tail(p) ==
  /\ QueueType = "droptail"
  /\ \/ FitsWith(p) /\ accept(p)
     \/ ~ FitsWith(p) /\ UNCHANGED queueVars
  /\ aborted' = ~ good'

\* The packet is always accepted; then packets are dequeued from the head
\* while the queue is not good().  Every dequeue() asserts good(), so the loop
\* ends after one turn: either the queue is good again or the assert fails.
enqueue_drop_head(p) ==
  /\ QueueType = "drophead"
  /\ \/ /\ FitsWith(p)
        /\ accept(p)
        /\ UNCHANGED aborted
     \/ /\ ~ FitsWith(p)
        /\ LET q == Append(internal_queue_, p)
           IN  /\ internal_queue_' = Tail(q)
               /\ queue_size_in_bytes_' = queue_size_in_bytes_ + p.size - Head(q).size
               /\ queue_size_in_packets_' = queue_size_in_packets_
        /\ aborted' = ~ good'

enqueue(p) ==
  \/ enqueue_infinite(p)
  \/ enqueue_drop_tail(p)
  \/ enqueue_drop_head(p)

QueueNext ==
  /\ ~ aborted
  /\ \/ \E p \in [size : Sizes] : enqueue(p)
     \/ dequeue

QueueSpec ==
  /\ QueueInit
  /\ aborted = FALSE
  /\ [][QueueNext]_<<queueVars, aborted>>

-----------------------------------------------------------------------------
(* Properties *)

\* The bytes that the packets of a queue have together.
BytesOf(q) ==
  LET sum[i \in 0..Len(q)] == IF i = 0 THEN 0 ELSE sum[i - 1] + q[i].size
  IN  sum[Len(q)]

\* The two counters, which are updated separately from the queue on every
\* path through accept() and dequeue(), always say what the queue holds.
CountersMatchContents ==
  /\ queue_size_in_packets_ = Len(internal_queue_)
  /\ queue_size_in_bytes_ = BytesOf(internal_queue_)

\* What the queue holds never exceeds the limits it was configured with, and
\* its counters, which the limits are compared with, say what it holds.
WithinLimits ==
  /\ CountersMatchContents
  /\ byte_limit_ > 0 => BytesOf(internal_queue_) <= byte_limit_
  /\ packet_limit_ > 0 => Len(internal_queue_) <= packet_limit_

\* No assert( good() ) of DroppingPacketQueue::dequeue or of the enqueue
\* functions fails, whatever mix of packet sizes arrives.
QueueAssertsHold == ~ aborted

=============================================================================
