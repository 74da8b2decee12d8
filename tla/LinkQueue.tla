----------------------------- MODULE LinkQueue -----------------------------
(***************************************************************************)
(* The heavy-PDO half of CellularQueue (src/src/frontend/cellular_queue.cc)*)
(* : a byte-granular link that is served one delivery opportunity of       *)
(* PACKET_SIZE bytes at a time, at the times of a looping schedule.        *)
(*                                                                         *)
(* The link is evaluated lazily: nothing happens until somebody calls      *)
(* rationalize(now), which then replays every opportunity up to now.  Its  *)
(* two nested loops are taken one turn at a time; link_pc says where the   *)
(* call is, and "idle" means that no call is under way.  rationalize reads *)
(* no clock, so nothing but its own steps can happen during a call.        *)
(***************************************************************************)
EXTENDS PacketQueue

CONSTANTS
  heavy_pdo_schedule_,  \* times of the opportunities, relative to the base
  repeat_               \* FALSE: --once, the schedule is played one time

\* What the constructor checks before it accepts a schedule.
ASSUME ScheduleAssumption ==
  /\ repeat_ \in BOOLEAN
  /\ heavy_pdo_schedule_ \in Seq(Nat)
  /\ Len(heavy_pdo_schedule_) > 0
  /\ \A i, j \in 1..Len(heavy_pdo_schedule_) :
       i <= j => heavy_pdo_schedule_[i] <= heavy_pdo_schedule_[j]
  /\ heavy_pdo_schedule_[Len(heavy_pdo_schedule_)] # 0

VARIABLES
  next_delivery_,          \* index into the schedule, from 0
  link_base_timestamp_,
  finished_,
  packet_in_transit_,
  packet_in_transit_bytes_left_,
  output_queue_,
  current_link_queue_size_,
  link_pc,                      \* where rationalize is
  rat_now,                      \* its parameter, of the last call
  this_delivery_time,           \* its two locals
  bytes_left_in_this_delivery

linkTrace == <<next_delivery_, link_base_timestamp_, finished_>>
linkTransit == <<packet_in_transit_, packet_in_transit_bytes_left_>>
linkLocals == <<link_pc, rat_now, this_delivery_time, bytes_left_in_this_delivery>>
linkVars == <<queueVars, aborted, linkTrace, linkTransit, output_queue_,
              current_link_queue_size_, linkLocals>>

\* Packets as the link holds them; a packet with no contents is no packet.
QueuedPackets == [sequence_number : Nat, size : 1..PACKET_SIZE,
                  release_time : Nat, arrival_time : Nat]

NoQueuedPacket == [sequence_number |-> 0, size |-> 0,
                   release_time |-> 0, arrival_time |-> 0]

LinkInit ==
  /\ QueueInit
  /\ aborted = FALSE
  /\ next_delivery_ = 0
  /\ link_base_timestamp_ = 0
  /\ finished_ = FALSE
  /\ packet_in_transit_ = NoQueuedPacket
  /\ packet_in_transit_bytes_left_ = 0
  /\ output_queue_ = <<>>
  /\ current_link_queue_size_ = 0
  /\ link_pc = "idle"
  /\ rat_now = 0
  /\ this_delivery_time = 0
  /\ bytes_left_in_this_delivery = 0

-----------------------------------------------------------------------------
(* The schedule *)

Back(s) == s[Len(s)]

\* Meaningful while ~finished_; a finished link answers uint64_t(-1), a time
\* that no clock reaches.
next_delivery_time == heavy_pdo_schedule_[next_delivery_ + 1] + link_base_timestamp_

\* Bug: the opportunities of the last ms are left for the next call.
OpportunityDue_lagging(now) == ~ finished_ /\ next_delivery_time + 1 < now

OpportunityDue(now) == ~ finished_ /\ next_delivery_time <= now

\* Bug: --once is ignored.
use_a_delivery_opportunity_repeats ==
  LET next == (next_delivery_ + 1) % Len(heavy_pdo_schedule_)
  IN  /\ next_delivery_' = next
      /\ link_base_timestamp_' =
           link_base_timestamp_ + (IF next = 0 THEN Back(heavy_pdo_schedule_) ELSE 0)
      /\ UNCHANGED finished_

use_a_delivery_opportunity ==
  LET next == (next_delivery_ + 1) % Len(heavy_pdo_schedule_)
  IN  /\ next_delivery_' = next
      /\ \/ /\ next # 0
            /\ UNCHANGED <<link_base_timestamp_, finished_>>
         \/ /\ next = 0 /\ repeat_
            /\ link_base_timestamp_' = link_base_timestamp_ + Back(heavy_pdo_schedule_)
            /\ UNCHANGED finished_
         \/ /\ next = 0 /\ ~ repeat_
            /\ finished_' = TRUE
            /\ UNCHANGED link_base_timestamp_

-----------------------------------------------------------------------------
(* rationalize( now ) *)

rationalize(now) ==
  /\ link_pc = "idle"
  /\ rat_now' = now
  /\ link_pc' = "burn"
  /\ UNCHANGED <<queueVars, aborted, linkTrace, linkTransit, output_queue_,
                 current_link_queue_size_, this_delivery_time,
                 bytes_left_in_this_delivery>>

burn_opportunity ==
  /\ link_pc = "burn"
  /\ OpportunityDue(rat_now)
  /\ this_delivery_time' = next_delivery_time
  /\ bytes_left_in_this_delivery' = PACKET_SIZE
  /\ use_a_delivery_opportunity
  /\ link_pc' = "deliver"
  /\ UNCHANGED <<queueVars, aborted, linkTransit, output_queue_,
                 current_link_queue_size_, rat_now>>

rationalize_return ==
  /\ link_pc = "burn"
  /\ ~ OpportunityDue(rat_now)
  /\ link_pc' = "idle"
  /\ UNCHANGED <<queueVars, aborted, linkTrace, linkTransit, output_queue_,
                 current_link_queue_size_, rat_now, this_delivery_time,
                 bytes_left_in_this_delivery>>

\* The inner loop is over: the opportunity is used up, or what is left of it
\* is lost because nothing is waiting.
opportunity_done ==
  /\ link_pc = "deliver"
  /\ \/ bytes_left_in_this_delivery = 0
     \/ packet_in_transit_bytes_left_ = 0 /\ empty
  /\ link_pc' = "burn"
  /\ UNCHANGED <<queueVars, aborted, linkTrace, linkTransit, output_queue_,
                 current_link_queue_size_, rat_now, this_delivery_time,
                 bytes_left_in_this_delivery>>

\* A packet to send from: the one in transit, or the next of the queue.
fetch_packet ==
  /\ link_pc = "deliver"
  /\ bytes_left_in_this_delivery > 0
  /\ \/ /\ packet_in_transit_bytes_left_ > 0
        /\ UNCHANGED <<queueVars, aborted, linkTransit>>
     \/ /\ packet_in_transit_bytes_left_ = 0
        /\ dequeue
        /\ packet_in_transit_' = Head(internal_queue_)
        /\ packet_in_transit_bytes_left_' = Head(internal_queue_).size
  /\ link_pc' = "send"
  /\ UNCHANGED <<linkTrace, output_queue_, current_link_queue_size_, rat_now,
                 this_delivery_time, bytes_left_in_this_delivery>>

\* The four asserts of the inner loop.
SendAsserts ==
  /\ packet_in_transit_.arrival_time <= this_delivery_time
  /\ packet_in_transit_bytes_left_ <= PACKET_SIZE
  /\ packet_in_transit_bytes_left_ > 0
  /\ packet_in_transit_bytes_left_ <= packet_in_transit_.size

amount_to_send ==
  IF bytes_left_in_this_delivery < packet_in_transit_bytes_left_
  THEN bytes_left_in_this_delivery
  ELSE packet_in_transit_bytes_left_

\* Bug: an opportunity is charged one packet, whatever the packet's size.
send_bytes_whole_packet ==
  /\ link_pc = "send"
  /\ aborted' = ~ SendAsserts
  /\ packet_in_transit_bytes_left_' = 0
  /\ bytes_left_in_this_delivery' = 0
  /\ output_queue_' = Append(output_queue_, packet_in_transit_)
  /\ link_pc' = "deliver"
  /\ UNCHANGED <<queueVars, linkTrace, packet_in_transit_,
                 current_link_queue_size_, rat_now, this_delivery_time>>

send_bytes ==
  /\ link_pc = "send"
  /\ aborted' = ~ SendAsserts
  /\ packet_in_transit_bytes_left_' = packet_in_transit_bytes_left_ - amount_to_send
  /\ bytes_left_in_this_delivery' = bytes_left_in_this_delivery - amount_to_send
  /\ \/ /\ packet_in_transit_bytes_left_ = amount_to_send
        /\ output_queue_' = Append(output_queue_, packet_in_transit_)
     \/ /\ packet_in_transit_bytes_left_ # amount_to_send
        /\ UNCHANGED output_queue_
  /\ link_pc' = "deliver"
  /\ UNCHANGED <<queueVars, linkTrace, packet_in_transit_,
                 current_link_queue_size_, rat_now, this_delivery_time>>

rationalize_steps ==
  \/ burn_opportunity
  \/ rationalize_return
  \/ opportunity_done
  \/ fetch_packet
  \/ send_bytes

-----------------------------------------------------------------------------
(* The callers' own steps *)

\* The first packet read restarts the link's clock.
start_link_trace(now) ==
  /\ link_pc = "idle"
  /\ link_base_timestamp_' = now
  /\ UNCHANGED <<queueVars, aborted, next_delivery_, finished_, linkTransit,
                 output_queue_, current_link_queue_size_, linkLocals>>

AsQueued(p, now) == [sequence_number |-> p.sequence_number, size |-> p.size,
                     release_time |-> p.release_time, arrival_time |-> now]

\* Bug: the packet is not counted.
put_packet_uncounted(p) ==
  /\ link_pc = "idle"
  /\ enqueue(AsQueued(p, rat_now))
  /\ UNCHANGED <<linkTrace, linkTransit, output_queue_,
                 current_link_queue_size_, linkLocals>>

\* put_packet_to_link_queue after its call of rationalize( now ) has returned:
\* the counter is incremented whether or not the queue kept the packet.
put_packet_to_link_queue(p) ==
  /\ link_pc = "idle"
  /\ enqueue(AsQueued(p, rat_now))
  /\ current_link_queue_size_' = current_link_queue_size_ + 1
  /\ UNCHANGED <<linkTrace, linkTransit, output_queue_, linkLocals>>

\* Bug: the counter is not decremented.
write_one_uncounted ==
  /\ link_pc = "idle"
  /\ output_queue_ # <<>>
  /\ output_queue_' = Tail(output_queue_)
  /\ UNCHANGED <<queueVars, aborted, linkTrace, linkTransit,
                 current_link_queue_size_, linkLocals>>

\* One turn of the loop of write_packets_from_link_queue; the packet written
\* is Head(output_queue_).
write_one_from_link_queue ==
  /\ link_pc = "idle"
  /\ output_queue_ # <<>>
  /\ output_queue_' = Tail(output_queue_)
  /\ aborted' = ~ (current_link_queue_size_ > 0)
  /\ current_link_queue_size_' = current_link_queue_size_ - 1
  /\ UNCHANGED <<queueVars, linkTrace, linkTransit, linkLocals>>

-----------------------------------------------------------------------------
(* Properties of the link *)

\* Packets between the link queue and the link's output.
InTransit ==
  IF packet_in_transit_bytes_left_ > 0 THEN <<packet_in_transit_>> ELSE <<>>

LinkContents == output_queue_ \o InTransit \o internal_queue_

\* Types of the link's state.
LinkTypeOK ==
  /\ internal_queue_ \in Seq(QueuedPackets)
  /\ queue_size_in_bytes_ \in Int
  /\ queue_size_in_packets_ \in Int
  /\ aborted \in BOOLEAN
  /\ next_delivery_ \in 0..(Len(heavy_pdo_schedule_) - 1)
  /\ link_base_timestamp_ \in Nat
  /\ finished_ \in BOOLEAN
  /\ packet_in_transit_ \in QueuedPackets \cup {NoQueuedPacket}
  /\ packet_in_transit_bytes_left_ \in Nat
  /\ output_queue_ \in Seq(QueuedPackets)
  /\ current_link_queue_size_ \in Nat
  /\ link_pc \in {"idle", "burn", "deliver", "send"}
  /\ rat_now \in Nat
  /\ this_delivery_time \in Nat
  /\ bytes_left_in_this_delivery \in 0..PACKET_SIZE

\* No assert of rationalize or of write_packets_from_link_queue fails: in
\* particular no packet is put on an opportunity that lies before its arrival
\* in the link queue, although the opportunities are replayed late.
LinkAssertsHold == ~ aborted

\* current_link_queue_size_ never understates what the link holds, so a light
\* packet that sees 0 overtakes nothing when it skips the link.
LinkSizeCovers == current_link_queue_size_ >= Len(LinkContents)

-----------------------------------------------------------------------------
(* The inductive invariant behind these properties *)

\* All packets that wait for service arrived by time t.
ArrivedBy(t) ==
  /\ \A i \in 1..Len(internal_queue_) : internal_queue_[i].arrival_time <= t
  /\ packet_in_transit_bytes_left_ > 0 => packet_in_transit_.arrival_time <= t

\* Every opportunity up to the time of the last call has been replayed.
Replayed == finished_ \/ next_delivery_time > rat_now

NoPacketAheadOfLink ==
  /\ ~ finished_ => ArrivedBy(next_delivery_time)
  /\ link_pc \in {"deliver", "send"} => ArrivedBy(this_delivery_time)

TransitSound ==
  /\ packet_in_transit_bytes_left_ > 0 =>
       /\ packet_in_transit_ \in QueuedPackets
       /\ packet_in_transit_bytes_left_ <= packet_in_transit_.size
  /\ link_pc = "send" =>
       /\ packet_in_transit_bytes_left_ > 0
       /\ bytes_left_in_this_delivery > 0

QueueGood == QueueType # "infinite" => good

LinkInv ==
  /\ LinkTypeOK
  /\ LinkAssertsHold
  /\ QueueGood
  /\ TransitSound
  /\ NoPacketAheadOfLink
  /\ LinkSizeCovers

\* drophead with a limit in bytes may have to drop more than one packet, which
\* the assert in dequeue does not survive.
DropsOneAtMost == QueueType = "drophead" => byte_limit_ = 0

=============================================================================
