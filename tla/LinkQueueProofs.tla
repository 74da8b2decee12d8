-------------------------- MODULE LinkQueueProofs --------------------------
(***************************************************************************)
(* Every step of LinkQueue preserves LinkInv.  The lemmas speak of single  *)
(* steps, so that each specification that uses the link can cite them.     *)
(***************************************************************************)
EXTENDS LinkQueue, SequenceTheorems, TLAPS

\* The length of LinkContents, part by part: what is out, in transit, waiting.
LEMMA LenOfParts ==
  ASSUME NEW P, NEW out \in Seq(P), NEW x \in P, NEW left, NEW in \in Seq(P)
  PROVE  Len(out \o (IF left > 0 THEN <<x>> ELSE <<>>) \o in)
           = Len(out) + (IF left > 0 THEN 1 ELSE 0) + Len(in)
<1> DEFINE t == IF left > 0 THEN <<x>> ELSE <<>>
<1>1. /\ t \in Seq(P)
      /\ Len(t) = IF left > 0 THEN 1 ELSE 0
  <2>1. CASE left > 0
    BY <2>1
  <2>2. CASE ~ (left > 0)
    BY <2>2, EmptySeq
  <2> QED
    BY <2>1, <2>2
<1> HIDE DEF t
<1>2. /\ out \o t \in Seq(P)
      /\ Len(out \o t) = Len(out) + Len(t)
  BY <1>1, ConcatProperties
<1>3. Len((out \o t) \o in) = Len(out \o t) + Len(in)
  BY <1>2, ConcatProperties
<1>4. Len(out \o t \o in) = Len(out) + (IF left > 0 THEN 1 ELSE 0) + Len(in)
  BY <1>1, <1>2, <1>3
<1> QED
  BY <1>4 DEF t

\* The index after k in a ring of L.
LEMMA RingSuccessor ==
  ASSUME NEW L \in Nat \ {0}, NEW k \in 0..(L - 1)
  PROVE  (k + 1) % L = IF k + 1 = L THEN 0 ELSE k + 1
<1>1. CASE k + 1 = L
  <2>1. L % L = 0
    BY Z3T(30)
  <2> QED
    BY <1>1, <2>1
<1>2. CASE k + 1 # L
  <2>1. k + 1 \in 0..(L - 1)
    BY <1>2
  <2>2. \A j \in 0..(L - 1) : j % L = j
    BY Z3T(30)
  <2> QED
    BY <1>2, <2>1, <2>2
<1> QED
  BY <1>1, <1>2

\* The schedule only moves forward: the next opportunity is never earlier than
\* the one just used, around the end of the schedule too.
LEMMA ScheduleForward ==
  ASSUME next_delivery_ \in 0..(Len(heavy_pdo_schedule_) - 1),
         link_base_timestamp_ \in Nat, finished_ = FALSE,
         use_a_delivery_opportunity
  PROVE  /\ next_delivery_' \in 0..(Len(heavy_pdo_schedule_) - 1)
         /\ link_base_timestamp_' \in Nat
         /\ finished_' \in BOOLEAN
         /\ ~ finished_' => next_delivery_time <= next_delivery_time'
<1> DEFINE L == Len(heavy_pdo_schedule_)
           n == (next_delivery_ + 1) % L
<1>1. /\ L \in Nat \ {0}
      /\ \A i \in 1..L : heavy_pdo_schedule_[i] \in Nat
  BY ScheduleAssumption
<1>2. n = IF next_delivery_ + 1 = L THEN 0 ELSE next_delivery_ + 1
  BY <1>1, RingSuccessor
<1>3. next_delivery_' = n
  BY DEF use_a_delivery_opportunity
<1>4. CASE next_delivery_ + 1 # L
  <2>1. n # 0
    BY <1>1, <1>2, <1>4
  <2>2. link_base_timestamp_' = link_base_timestamp_ /\ finished_' = FALSE
    BY <2>1 DEF use_a_delivery_opportunity
  <2>3. next_delivery_' = next_delivery_ + 1
    BY <1>2, <1>3, <1>4
  <2>4. next_delivery_' + 1 \in 1..L
    BY <1>1, <1>4, <2>3
  <2>5. heavy_pdo_schedule_[next_delivery_ + 1] <= heavy_pdo_schedule_[next_delivery_' + 1]
    BY <1>1, <2>3, <2>4, ScheduleAssumption
  <2>6. next_delivery_time <= next_delivery_time'
    BY <1>1, <2>2, <2>4, <2>5 DEF next_delivery_time
  <2>7. next_delivery_' \in 0..(L - 1) /\ link_base_timestamp_' \in Nat
    BY <1>1, <2>2, <2>3, <2>4
  <2> QED
    BY <2>2, <2>6, <2>7, Zenon
<1>5. CASE next_delivery_ + 1 = L
  <2>1. next_delivery_' = 0 /\ n = 0
    BY <1>2, <1>3, <1>5
  <2>2. CASE ~ repeat_
    <3>1. link_base_timestamp_' = link_base_timestamp_ /\ finished_' = TRUE
      BY <2>1, <2>2 DEF use_a_delivery_opportunity
    <3>2. 0 \in 0..(L - 1)
      BY <1>1
    <3> QED
      BY <2>1, <3>1, <3>2, Zenon
  <2>3. CASE repeat_
    <3>1. /\ link_base_timestamp_' = link_base_timestamp_ + heavy_pdo_schedule_[L]
          /\ finished_' = FALSE
      BY <2>1, <2>3 DEF use_a_delivery_opportunity, Back
    <3>2. 1 \in 1..L /\ L \in 1..L
      BY <1>1
    <3>3. heavy_pdo_schedule_[1] \in Nat /\ heavy_pdo_schedule_[L] \in Nat
      BY <1>1, <3>2
    <3>4. next_delivery_time = heavy_pdo_schedule_[L] + link_base_timestamp_
      BY <1>5 DEF next_delivery_time
    <3>5. next_delivery_time' = heavy_pdo_schedule_[1] + link_base_timestamp_'
      BY <1>1, <2>1 DEF next_delivery_time
    <3>6. link_base_timestamp_' \in Nat /\ next_delivery_time <= next_delivery_time'
      BY <3>1, <3>3, <3>4, <3>5
    <3>7. 0 \in 0..(L - 1)
      BY <1>1
    <3> QED
      BY <2>1, <3>1, <3>6, <3>7, Zenon
  <2> QED
    BY <2>2, <2>3
<1> QED
  BY <1>4, <1>5

\* The time of the next opportunity is a time.
LEMMA NextDeliveryTimeType ==
  ASSUME next_delivery_ \in 0..(Len(heavy_pdo_schedule_) - 1),
         link_base_timestamp_ \in Nat
  PROVE  next_delivery_time \in Nat
BY ScheduleAssumption DEF next_delivery_time

\* What arrived by one time arrived by every later one.
LEMMA ArrivedByLater ==
  ASSUME LinkTypeOK, NEW t \in Nat, NEW u \in Nat, t <= u, ArrivedBy(t)
  PROVE  ArrivedBy(u)
<1>1. ASSUME NEW i \in 1..Len(internal_queue_)
      PROVE  internal_queue_[i].arrival_time <= u
  <2>1. internal_queue_[i] \in QueuedPackets
    BY DEF LinkTypeOK
  <2>2. internal_queue_[i].arrival_time \in Nat
    BY <2>1 DEF QueuedPackets
  <2> QED
    BY <2>2 DEF ArrivedBy
<1>2. packet_in_transit_.arrival_time \in Nat
  BY DEF LinkTypeOK, QueuedPackets, NoQueuedPacket
<1> QED
  BY <1>1, <1>2 DEF ArrivedBy

-----------------------------------------------------------------------------
(* rationalize *)

\* Steps that move no packet keep everything that is said of the packets.
LEMMA PacketsUntouched ==
  ASSUME LinkInv,
         UNCHANGED <<queueVars, aborted, linkTransit, output_queue_,
                     current_link_queue_size_>>
  PROVE  /\ LinkAssertsHold' /\ QueueGood' /\ LinkSizeCovers'
         /\ \A t : ArrivedBy(t)' <=> ArrivedBy(t)
<1>1. LinkAssertsHold'
  BY DEF LinkInv, LinkAssertsHold
<1>2. QueueGood'
  BY DEF LinkInv, QueueGood, good, good_with, queueVars
<1>3. LinkSizeCovers'
  BY DEF LinkInv, LinkSizeCovers, LinkContents, InTransit, queueVars, linkTransit
<1>4. \A t : ArrivedBy(t)' <=> ArrivedBy(t)
  BY DEF ArrivedBy, queueVars, linkTransit
<1> QED
  BY <1>1, <1>2, <1>3, <1>4

\* Calling rationalize keeps the invariant, whatever time it is given.
LEMMA RationalizeKeepsLinkInv ==
  ASSUME LinkInv, NEW now \in Nat, rationalize(now)
  PROVE  LinkInv'
<1>1. LinkTypeOK'
  BY DEF LinkInv, LinkTypeOK, rationalize, queueVars, linkTrace, linkTransit
<1>2. /\ LinkAssertsHold' /\ QueueGood' /\ LinkSizeCovers'
      /\ \A t : ArrivedBy(t)' <=> ArrivedBy(t)
  BY PacketsUntouched DEF rationalize
<1>3. TransitSound'
  BY DEF LinkInv, TransitSound, rationalize, linkTransit
<1>4. NoPacketAheadOfLink'
  <2>1. next_delivery_time' = next_delivery_time /\ finished_' = finished_ /\ link_pc' = "burn"
    BY DEF rationalize, next_delivery_time, linkTrace
  <2> QED
    BY <1>2, <2>1 DEF LinkInv, NoPacketAheadOfLink
<1> QED
  BY <1>1, <1>2, <1>3, <1>4 DEF LinkInv

\* Using an opportunity puts its time between the arrivals and the opportunity
\* that follows.
LEMMA BurnKeepsLinkInv ==
  ASSUME LinkInv, burn_opportunity
  PROVE  LinkInv'
<1>1. /\ next_delivery_ \in 0..(Len(heavy_pdo_schedule_) - 1)
      /\ link_base_timestamp_ \in Nat
      /\ finished_ = FALSE
      /\ use_a_delivery_opportunity
  BY DEF LinkInv, LinkTypeOK, burn_opportunity, OpportunityDue
<1>2. /\ next_delivery_' \in 0..(Len(heavy_pdo_schedule_) - 1)
      /\ link_base_timestamp_' \in Nat
      /\ finished_' \in BOOLEAN
      /\ ~ finished_' => next_delivery_time <= next_delivery_time'
  BY <1>1, ScheduleForward
<1>3. next_delivery_time \in Nat
  BY <1>1, NextDeliveryTimeType
<1>4. LinkTypeOK'
  <2>1. bytes_left_in_this_delivery' \in 0..PACKET_SIZE
    BY PacketAssumption DEF burn_opportunity
  <2> QED
    BY <1>2, <1>3, <2>1
    DEF LinkInv, LinkTypeOK, burn_opportunity, queueVars, linkTransit
<1>5. /\ LinkAssertsHold' /\ QueueGood' /\ LinkSizeCovers'
      /\ \A t : ArrivedBy(t)' <=> ArrivedBy(t)
  BY PacketsUntouched DEF burn_opportunity
<1>6. TransitSound'
  BY DEF LinkInv, TransitSound, burn_opportunity, linkTransit
<1>7. NoPacketAheadOfLink'
  <2>1. ArrivedBy(next_delivery_time)
    BY <1>1 DEF LinkInv, NoPacketAheadOfLink
  <2>2. ArrivedBy(this_delivery_time)'
    BY <1>5, <2>1 DEF burn_opportunity, ArrivedBy
  <2>3. ASSUME ~ finished_' PROVE ArrivedBy(next_delivery_time)'
    <3>1. next_delivery_time' \in Nat /\ next_delivery_time <= next_delivery_time'
      BY <1>2, <2>3, ScheduleAssumption DEF next_delivery_time
    <3>2. ArrivedBy(next_delivery_time')
      BY <1>3, <2>1, <3>1, ArrivedByLater DEF LinkInv
    <3> QED
      BY <3>2 DEF ArrivedBy, burn_opportunity, queueVars, linkTransit
  <2> QED
    BY <2>2, <2>3 DEF NoPacketAheadOfLink
<1> QED
  BY <1>4, <1>5, <1>6, <1>7 DEF LinkInv

\* When rationalize returns, the next opportunity lies after its argument.
LEMMA ReturnKeepsLinkInv ==
  ASSUME LinkInv, rationalize_return
  PROVE  LinkInv' /\ Replayed'
<1>1. LinkTypeOK'
  BY DEF LinkInv, LinkTypeOK, rationalize_return, queueVars, linkTrace, linkTransit
<1>2. /\ LinkAssertsHold' /\ QueueGood' /\ LinkSizeCovers'
      /\ \A t : ArrivedBy(t)' <=> ArrivedBy(t)
  BY PacketsUntouched DEF rationalize_return
<1>3. TransitSound'
  BY DEF LinkInv, TransitSound, rationalize_return, linkTransit
<1>4. /\ next_delivery_time' = next_delivery_time
      /\ finished_' = finished_ /\ link_pc' = "idle" /\ rat_now' = rat_now
  BY DEF rationalize_return, next_delivery_time, linkTrace
<1>5. NoPacketAheadOfLink'
  BY <1>2, <1>4 DEF LinkInv, NoPacketAheadOfLink
<1>6. Replayed'
  <2>1. next_delivery_time \in Nat /\ rat_now \in Nat
    BY NextDeliveryTimeType DEF LinkInv, LinkTypeOK
  <2>2. finished_ \/ next_delivery_time > rat_now
    BY <2>1 DEF rationalize_return, OpportunityDue
  <2> QED
    BY <1>4, <2>2 DEF Replayed
<1> QED
  BY <1>1, <1>2, <1>3, <1>5, <1>6 DEF LinkInv

\* Leaving the inner loop keeps the invariant.
LEMMA DoneKeepsLinkInv ==
  ASSUME LinkInv, opportunity_done
  PROVE  LinkInv'
<1>1. LinkTypeOK'
  BY DEF LinkInv, LinkTypeOK, opportunity_done, queueVars, linkTrace, linkTransit
<1>2. /\ LinkAssertsHold' /\ QueueGood' /\ LinkSizeCovers'
      /\ \A t : ArrivedBy(t)' <=> ArrivedBy(t)
  BY PacketsUntouched DEF opportunity_done
<1>3. TransitSound'
  BY DEF LinkInv, TransitSound, opportunity_done, linkTransit
<1>4. NoPacketAheadOfLink'
  <2>1. next_delivery_time' = next_delivery_time /\ finished_' = finished_ /\ link_pc' = "burn"
    BY DEF opportunity_done, next_delivery_time, linkTrace
  <2> QED
    BY <1>2, <2>1 DEF LinkInv, NoPacketAheadOfLink
<1> QED
  BY <1>1, <1>2, <1>3, <1>4 DEF LinkInv

\* A packet that leaves the queue keeps the queue within its limits.
LEMMA DequeueKeepsGood ==
  ASSUME LinkTypeOK, QueueGood, dequeue
  PROVE  /\ QueueGood' /\ aborted' = FALSE
         /\ internal_queue_' \in Seq(QueuedPackets)
         /\ Head(internal_queue_) \in QueuedPackets
         /\ Len(internal_queue_') = Len(internal_queue_) - 1
         /\ Len(internal_queue_) > 0
         /\ \A i \in 1..Len(internal_queue_') : internal_queue_'[i] = internal_queue_[i + 1]
         /\ queue_size_in_bytes_' \in Int /\ queue_size_in_packets_' \in Int
<1>1. internal_queue_ \in Seq(QueuedPackets) /\ internal_queue_ # <<>>
      /\ internal_queue_' = Tail(internal_queue_)
  BY DEF LinkTypeOK, dequeue, empty
<1> DEFINE S == QueuedPackets
<1>2. /\ internal_queue_' \in Seq(S)
      /\ Head(internal_queue_) \in S
      /\ Len(internal_queue_') = Len(internal_queue_) - 1
      /\ Len(internal_queue_) > 0
      /\ \A i \in 1..Len(internal_queue_') : internal_queue_'[i] = internal_queue_[i + 1]
  <2> HIDE DEF S
  <2>1. internal_queue_ \in Seq(S)
    BY <1>1 DEF S
  <2>2. /\ Tail(internal_queue_) \in Seq(S) /\ Head(internal_queue_) \in S
        /\ Len(Tail(internal_queue_)) = Len(internal_queue_) - 1
        /\ Len(internal_queue_) > 0
        /\ \A i \in 1..Len(Tail(internal_queue_)) :
             Tail(internal_queue_)[i] = internal_queue_[i + 1]
    BY <1>1, <2>1
  <2> QED
    BY <1>1, <2>2
<1>3. Head(internal_queue_).size \in 1..PACKET_SIZE
  BY <1>2 DEF QueuedPackets
<1>4. /\ queue_size_in_bytes_ \in Int /\ queue_size_in_packets_ \in Int
      /\ queue_size_in_bytes_' \in Int /\ queue_size_in_packets_' \in Int
      /\ queue_size_in_bytes_' <= queue_size_in_bytes_
      /\ queue_size_in_packets_' <= queue_size_in_packets_
  BY <1>3, PacketAssumption DEF LinkTypeOK, dequeue
<1>5. QueueGood'
  BY <1>4, QueueAssumption DEF QueueGood, good, good_with
<1>6. aborted' = FALSE
  BY <1>5 DEF QueueGood, dequeue
<1> QED
  BY <1>2, <1>4, <1>5, <1>6

\* LinkSizeCovers in numbers, before and after a step.
LEMMA CoversInNumbers ==
  ASSUME LinkTypeOK
  PROVE  LinkSizeCovers <=>
           current_link_queue_size_ >= Len(output_queue_)
             + (IF packet_in_transit_bytes_left_ > 0 THEN 1 ELSE 0)
             + Len(internal_queue_)
<1> DEFINE P == QueuedPackets \cup {NoQueuedPacket}
<1>1. /\ output_queue_ \in Seq(P) /\ internal_queue_ \in Seq(P)
      /\ packet_in_transit_ \in P
  BY DEF LinkTypeOK
<1> HIDE DEF P
<1> QED
  BY <1>1, LenOfParts DEF LinkSizeCovers, LinkContents, InTransit

\* ... the same for the state after a step.
LEMMA CoversInNumbersPrimed ==
  ASSUME LinkTypeOK'
  PROVE  LinkSizeCovers' <=>
           current_link_queue_size_' >= Len(output_queue_')
             + (IF packet_in_transit_bytes_left_' > 0 THEN 1 ELSE 0)
             + Len(internal_queue_')
<1> DEFINE P == QueuedPackets \cup {NoQueuedPacket}
<1>1. /\ output_queue_' \in Seq(P) /\ internal_queue_' \in Seq(P)
      /\ packet_in_transit_' \in P
  BY SMTT(30) DEF LinkTypeOK
<1> HIDE DEF P
<1> QED
  BY <1>1, LenOfParts DEF LinkSizeCovers, LinkContents, InTransit

\* Taking the next packet into transit keeps the invariant.
LEMMA FetchKeepsLinkInv ==
  ASSUME LinkInv, fetch_packet
  PROVE  LinkInv'
<1>0. /\ LinkTypeOK /\ QueueGood /\ TransitSound /\ NoPacketAheadOfLink
      /\ LinkSizeCovers /\ LinkAssertsHold
  BY DEF LinkInv
<1>1. /\ next_delivery_time' = next_delivery_time /\ finished_' = finished_
      /\ this_delivery_time' = this_delivery_time
      /\ link_pc = "deliver" /\ link_pc' = "send"
  BY DEF fetch_packet, next_delivery_time, linkTrace
<1>2. CASE /\ packet_in_transit_bytes_left_ > 0
           /\ UNCHANGED <<queueVars, aborted, linkTransit>>
  <2>1. LinkTypeOK'
    BY <1>0, <1>2 DEF LinkTypeOK, fetch_packet, queueVars, linkTrace, linkTransit
  <2>2. /\ LinkAssertsHold' /\ QueueGood' /\ LinkSizeCovers'
        /\ \A t : ArrivedBy(t)' <=> ArrivedBy(t)
    BY <1>2, PacketsUntouched DEF fetch_packet
  <2>3. TransitSound'
    BY <1>0, <1>2 DEF TransitSound, fetch_packet, linkTransit
  <2>4. NoPacketAheadOfLink'
    BY <1>0, <1>1, <2>2 DEF NoPacketAheadOfLink
  <2> QED
    BY <2>1, <2>2, <2>3, <2>4 DEF LinkInv
<1>3. CASE /\ packet_in_transit_bytes_left_ = 0
           /\ dequeue
           /\ packet_in_transit_' = Head(internal_queue_)
           /\ packet_in_transit_bytes_left_' = Head(internal_queue_).size
  <2>1. /\ QueueGood' /\ aborted' = FALSE
        /\ internal_queue_' \in Seq(QueuedPackets)
        /\ Head(internal_queue_) \in QueuedPackets
        /\ Len(internal_queue_') = Len(internal_queue_) - 1
        /\ Len(internal_queue_) > 0
        /\ \A i \in 1..Len(internal_queue_') : internal_queue_'[i] = internal_queue_[i + 1]
        /\ queue_size_in_bytes_' \in Int /\ queue_size_in_packets_' \in Int
    BY <1>0, <1>3, DequeueKeepsGood
  <2>2. Head(internal_queue_).size \in 1..PACKET_SIZE
    BY <2>1 DEF QueuedPackets
  <2>3. LinkTypeOK'
    <3>1. packet_in_transit_bytes_left_' \in Nat
      BY <1>3, <2>2, PacketAssumption
    <3> QED
      BY <1>0, <1>3, <2>1, <3>1 DEF LinkTypeOK, fetch_packet, linkTrace
  <2>4. TransitSound'
    BY <1>3, <2>1, <2>2, PacketAssumption DEF TransitSound, fetch_packet
  <2>5. ASSUME NEW t, ArrivedBy(t)
        PROVE  ArrivedBy(t)'
    <3>1. internal_queue_[1] = Head(internal_queue_) /\ Len(internal_queue_) \in Nat
      BY <1>0, <2>1 DEF LinkTypeOK
    <3>2. 1 \in 1..Len(internal_queue_)
      BY <2>1, <3>1
    <3>3. packet_in_transit_'.arrival_time <= t
      BY <1>3, <2>5, <3>1, <3>2 DEF ArrivedBy
    <3>4. ASSUME NEW i \in 1..Len(internal_queue_')
          PROVE  internal_queue_'[i].arrival_time <= t
      <4>1. i + 1 \in 1..Len(internal_queue_)
        BY <2>1, <3>1
      <4> QED
        BY <2>1, <2>5, <4>1 DEF ArrivedBy
    <3> QED
      BY <3>3, <3>4 DEF ArrivedBy
  <2>6. NoPacketAheadOfLink'
    BY <1>0, <1>1, <2>5 DEF NoPacketAheadOfLink, ArrivedBy
  <2>7. LinkSizeCovers'
    <3>1. /\ output_queue_' = output_queue_
          /\ current_link_queue_size_' = current_link_queue_size_
      BY DEF fetch_packet
    <3>2. Len(output_queue_) \in Nat /\ Len(internal_queue_) \in Nat
          /\ current_link_queue_size_ \in Nat
      BY <1>0 DEF LinkTypeOK
    <3> QED
      BY <1>0, <1>3, <2>1, <2>2, <2>3, <3>1, <3>2,
         CoversInNumbers, CoversInNumbersPrimed
  <2>8. LinkAssertsHold'
    BY <2>1 DEF LinkAssertsHold
  <2> QED
    BY <2>1, <2>3, <2>4, <2>6, <2>7, <2>8 DEF LinkInv
<1> QED
  BY <1>2, <1>3 DEF fetch_packet

\* No assert of the inner loop fails, and the bytes sent are accounted for.
LEMMA SendKeepsLinkInv ==
  ASSUME LinkInv, send_bytes
  PROVE  LinkInv'
<1>0. /\ LinkTypeOK /\ QueueGood /\ TransitSound /\ NoPacketAheadOfLink
      /\ LinkSizeCovers /\ LinkAssertsHold
  BY DEF LinkInv
<1>1. /\ next_delivery_time' = next_delivery_time /\ finished_' = finished_
      /\ this_delivery_time' = this_delivery_time
      /\ link_pc = "send" /\ link_pc' = "deliver"
      /\ packet_in_transit_' = packet_in_transit_
      /\ internal_queue_' = internal_queue_
      /\ current_link_queue_size_' = current_link_queue_size_
  BY DEF send_bytes, next_delivery_time, linkTrace, queueVars
<1>2. /\ packet_in_transit_ \in QueuedPackets
      /\ packet_in_transit_bytes_left_ > 0
      /\ bytes_left_in_this_delivery > 0
      /\ packet_in_transit_bytes_left_ <= packet_in_transit_.size
      /\ packet_in_transit_bytes_left_ \in Nat
      /\ bytes_left_in_this_delivery \in Nat
      /\ bytes_left_in_this_delivery <= PACKET_SIZE
  BY <1>0, <1>1, PacketAssumption DEF TransitSound, LinkTypeOK
<1>3. packet_in_transit_.size \in 1..PACKET_SIZE
  BY <1>2 DEF QueuedPackets
<1>4. SendAsserts
  <2>1. packet_in_transit_.arrival_time <= this_delivery_time
    BY <1>0, <1>1, <1>2 DEF NoPacketAheadOfLink, ArrivedBy
  <2>2. packet_in_transit_bytes_left_ <= PACKET_SIZE
    BY <1>2, <1>3, PacketAssumption
  <2> QED
    BY <1>2, <2>1, <2>2 DEF SendAsserts
<1>5. LinkAssertsHold'
  BY <1>4 DEF send_bytes, LinkAssertsHold
<1>6. /\ amount_to_send \in Nat /\ amount_to_send > 0
      /\ amount_to_send <= packet_in_transit_bytes_left_
      /\ amount_to_send <= bytes_left_in_this_delivery
  BY <1>2 DEF amount_to_send
<1>7. /\ packet_in_transit_bytes_left_' = packet_in_transit_bytes_left_ - amount_to_send
      /\ packet_in_transit_bytes_left_' \in Nat
      /\ bytes_left_in_this_delivery' \in 0..PACKET_SIZE
  BY <1>2, <1>6, PacketAssumption DEF send_bytes
<1>8. /\ output_queue_' \in Seq(QueuedPackets)
      /\ Len(output_queue_) \in Nat
      /\ \/ /\ packet_in_transit_bytes_left_' = 0
            /\ Len(output_queue_') = Len(output_queue_) + 1
         \/ /\ packet_in_transit_bytes_left_' > 0
            /\ Len(output_queue_') = Len(output_queue_)
  <2> DEFINE S == QueuedPackets
  <2>1. output_queue_ \in Seq(S) /\ packet_in_transit_ \in S
    BY <1>0, <1>2 DEF LinkTypeOK
  <2> HIDE DEF S
  <2>2. CASE /\ packet_in_transit_bytes_left_ = amount_to_send
             /\ output_queue_' = Append(output_queue_, packet_in_transit_)
    BY <1>6, <1>7, <2>1, <2>2 DEF S
  <2>3. CASE packet_in_transit_bytes_left_ # amount_to_send /\ UNCHANGED output_queue_
    BY <1>2, <1>6, <1>7, <2>1, <2>3 DEF S
  <2> QED
    BY <2>2, <2>3 DEF send_bytes
<1>9. LinkTypeOK'
  BY <1>0, <1>5, <1>7, <1>8
  DEF LinkTypeOK, LinkAssertsHold, send_bytes, queueVars, linkTrace
<1>10. QueueGood'
  BY <1>0 DEF QueueGood, good, good_with, send_bytes, queueVars
<1>11. TransitSound'
  BY <1>1, <1>2, <1>3, <1>6, <1>7, PacketAssumption DEF TransitSound
<1>12. NoPacketAheadOfLink'
  BY <1>0, <1>1, <1>2 DEF NoPacketAheadOfLink, ArrivedBy
<1>13. LinkSizeCovers'
  <2>1. Len(internal_queue_) \in Nat /\ current_link_queue_size_ \in Nat
    BY <1>0 DEF LinkTypeOK
  <2> QED
    BY <1>0, <1>1, <1>2, <1>8, <1>9, <2>1, CoversInNumbers, CoversInNumbersPrimed
<1> QED
  BY <1>5, <1>9, <1>10, <1>11, <1>12, <1>13 DEF LinkInv

\* Every step inside rationalize keeps the invariant.
LEMMA StepsKeepLinkInv ==
  ASSUME LinkInv, rationalize_steps
  PROVE  LinkInv'
BY BurnKeepsLinkInv, ReturnKeepsLinkInv, DoneKeepsLinkInv, FetchKeepsLinkInv,
   SendKeepsLinkInv DEF rationalize_steps

-----------------------------------------------------------------------------
(* The callers' steps *)

\* Restarting the trace is harmless while the link holds nothing.
LEMMA StartKeepsLinkInv ==
  ASSUME LinkInv, NEW now \in Nat, start_link_trace(now),
         internal_queue_ = <<>>, packet_in_transit_bytes_left_ = 0
  PROVE  LinkInv'
<1>1. LinkTypeOK'
  BY DEF LinkInv, LinkTypeOK, start_link_trace, queueVars, linkTransit, linkLocals
<1>2. /\ LinkAssertsHold' /\ QueueGood' /\ LinkSizeCovers'
      /\ \A t : ArrivedBy(t)' <=> ArrivedBy(t)
  BY PacketsUntouched DEF start_link_trace
<1>3. TransitSound'
  BY DEF LinkInv, TransitSound, start_link_trace, linkTransit, linkLocals
<1>4. NoPacketAheadOfLink'
  BY DEF NoPacketAheadOfLink, ArrivedBy, start_link_trace, queueVars, linkTransit,
         linkLocals
<1> QED
  BY <1>1, <1>2, <1>3, <1>4 DEF LinkInv

\* A queue that drops at most one packet at a time stays within its limits,
\* keeps what it holds in order and grows by one packet at most.
LEMMA EnqueueKeepsGood ==
  ASSUME LinkTypeOK, LinkAssertsHold, QueueGood, DropsOneAtMost,
         NEW p \in QueuedPackets, enqueue(p)
  PROVE  /\ QueueGood' /\ aborted' = FALSE
         /\ internal_queue_' \in Seq(QueuedPackets)
         /\ Len(internal_queue_') <= Len(internal_queue_) + 1
         /\ \A i \in 1..Len(internal_queue_') :
              \/ internal_queue_'[i] = p
              \/ \E j \in 1..Len(internal_queue_) : internal_queue_'[i] = internal_queue_[j]
         /\ queue_size_in_bytes_' \in Int /\ queue_size_in_packets_' \in Int
<1> DEFINE S == QueuedPackets
           q == Append(internal_queue_, p)
<1>1. internal_queue_ \in Seq(S) /\ p \in S
  BY DEF LinkTypeOK
<1>2. p.size \in 1..PACKET_SIZE
  BY DEF QueuedPackets
<1>3. queue_size_in_bytes_ \in Int /\ queue_size_in_packets_ \in Int /\ aborted = FALSE
  BY DEF LinkTypeOK, LinkAssertsHold
<1>4. /\ q \in Seq(S) /\ Len(q) = Len(internal_queue_) + 1
      /\ Len(internal_queue_) \in Nat
      /\ \A i \in 1..Len(q) : q[i] = p \/ \E j \in 1..Len(internal_queue_) : q[i] = internal_queue_[j]
  <2> HIDE DEF S
  <2>1. /\ q \in Seq(S) /\ Len(q) = Len(internal_queue_) + 1 /\ Len(internal_queue_) \in Nat
    BY <1>1
  <2>2. ASSUME NEW i \in 1..Len(q)
        PROVE  q[i] = p \/ \E j \in 1..Len(internal_queue_) : q[i] = internal_queue_[j]
    <3>1. CASE i = Len(q)
      BY <1>1, <2>1, <3>1
    <3>2. CASE i # Len(q)
      <4>1. i \in 1..Len(internal_queue_)
        BY <2>1, <3>2
      <4>2. q[i] = internal_queue_[i]
        BY <1>1, <4>1
      <4> QED
        BY <4>1, <4>2
    <3> QED
      BY <3>1, <3>2
  <2> QED
    BY <2>1, <2>2
<1>5. ASSUME accept(p), aborted' = FALSE, QueueType # "infinite" => FitsWith(p)
      PROVE  /\ QueueGood'
             /\ internal_queue_' = q
             /\ queue_size_in_bytes_' \in Int /\ queue_size_in_packets_' \in Int
  <2>1. /\ internal_queue_' = q
        /\ queue_size_in_bytes_' = queue_size_in_bytes_ + p.size
        /\ queue_size_in_packets_' = queue_size_in_packets_ + 1
    BY <1>5 DEF accept
  <2>2. QueueGood'
    BY <1>5, <2>1 DEF QueueGood, good, FitsWith, good_with
  <2> QED
    BY <1>2, <1>3, <2>1, <2>2, PacketAssumption
<1>6. CASE enqueue_infinite(p)
  <2>1. accept(p) /\ aborted' = FALSE /\ QueueType = "infinite"
    BY <1>3, <1>6 DEF enqueue_infinite
  <2>2. /\ QueueGood' /\ internal_queue_' = q
        /\ queue_size_in_bytes_' \in Int /\ queue_size_in_packets_' \in Int
    BY <1>5, <2>1
  <2> QED
    BY <1>4, <2>1, <2>2
<1>7. CASE enqueue_drop_tail(p)
  <2>1. CASE FitsWith(p) /\ accept(p)
    <3>1. good'
      BY <2>1 DEF FitsWith, accept, good, good_with
    <3>2. aborted' = FALSE
      BY <1>7, <3>1 DEF enqueue_drop_tail
    <3>3. /\ QueueGood' /\ internal_queue_' = q
          /\ queue_size_in_bytes_' \in Int /\ queue_size_in_packets_' \in Int
      BY <1>5, <2>1, <3>2
    <3> QED
      BY <1>4, <3>2, <3>3
  <2>2. CASE ~ FitsWith(p) /\ UNCHANGED queueVars
    <3>1. good
      BY <1>7 DEF QueueGood, enqueue_drop_tail
    <3>2. good'
      BY <2>2, <3>1 DEF good, good_with, queueVars
    <3>3. aborted' = FALSE /\ QueueGood'
      BY <1>7, <3>2 DEF enqueue_drop_tail, QueueGood
    <3>4. internal_queue_' = internal_queue_
      BY <2>2 DEF queueVars
    <3> QED
      BY <1>1, <1>3, <1>4, <2>2, <3>3, <3>4 DEF queueVars
  <2> QED
    BY <1>7, <2>1, <2>2 DEF enqueue_drop_tail
<1>8. CASE enqueue_drop_head(p)
  <2>1. CASE FitsWith(p) /\ accept(p) /\ UNCHANGED aborted
    <3>1. /\ QueueGood' /\ internal_queue_' = q
          /\ queue_size_in_bytes_' \in Int /\ queue_size_in_packets_' \in Int
      BY <1>3, <1>5, <2>1
    <3> QED
      BY <1>3, <1>4, <2>1, <3>1
  <2>2. CASE /\ internal_queue_' = Tail(q)
             /\ queue_size_in_bytes_' = queue_size_in_bytes_ + p.size - Head(q).size
             /\ queue_size_in_packets_' = queue_size_in_packets_
             /\ aborted' = ~ good'
    <3>1. byte_limit_ = 0 /\ good
      BY <1>8 DEF DropsOneAtMost, QueueGood, enqueue_drop_head
    <3>2. good'
      BY <2>2, <3>1 DEF good, good_with
    <3>3. QueueGood' /\ aborted' = FALSE
      BY <2>2, <3>2 DEF QueueGood
    <3>4. /\ Tail(q) \in Seq(S) /\ Head(q) \in S
          /\ Len(Tail(q)) = Len(q) - 1
          /\ \A i \in 1..Len(Tail(q)) : Tail(q)[i] = q[i + 1] /\ i + 1 \in 1..Len(q)
      <4> HIDE DEF S, q
      <4>1. Len(q) # 0
        BY <1>4
      <4> QED
        BY <1>4, <4>1
    <3>5. Head(q).size \in 1..PACKET_SIZE
      BY <3>4 DEF QueuedPackets
    <3>6. queue_size_in_bytes_' \in Int /\ queue_size_in_packets_' \in Int
      BY <1>2, <1>3, <2>2, <3>5, PacketAssumption
    <3> HIDE DEF q
    <3>7. Len(internal_queue_') <= Len(internal_queue_) + 1
      BY <1>4, <2>2, <3>4
    <3>8. \A i \in 1..Len(internal_queue_') :
              \/ internal_queue_'[i] = p
              \/ \E j \in 1..Len(internal_queue_) : internal_queue_'[i] = internal_queue_[j]
      BY <1>4, <2>2, <3>4
    <3> QED
      BY <2>2, <3>3, <3>4, <3>6, <3>7, <3>8
  <2> QED
    BY <1>8, <2>1, <2>2 DEF enqueue_drop_head
<1> QED
  BY <1>6, <1>7, <1>8 DEF enqueue

\* A packet put on a link that has been replayed up to its arrival arrives
\* before every opportunity that is left.
LEMMA PutKeepsLinkInv ==
  ASSUME LinkInv, DropsOneAtMost, Replayed, NEW p,
         AsQueued(p, rat_now) \in QueuedPackets, put_packet_to_link_queue(p)
  PROVE  LinkInv'
<1> DEFINE x == AsQueued(p, rat_now)
<1>0. /\ LinkTypeOK /\ QueueGood /\ TransitSound /\ NoPacketAheadOfLink
      /\ LinkSizeCovers /\ LinkAssertsHold
  BY DEF LinkInv
<1>1. x \in QueuedPackets /\ enqueue(x)
  BY DEF put_packet_to_link_queue
<1>2. x.arrival_time = rat_now
  BY DEF AsQueued
<1> HIDE DEF x
<1>3. /\ QueueGood' /\ aborted' = FALSE
      /\ internal_queue_' \in Seq(QueuedPackets)
      /\ Len(internal_queue_') <= Len(internal_queue_) + 1
      /\ \A i \in 1..Len(internal_queue_') :
           \/ internal_queue_'[i] = x
           \/ \E j \in 1..Len(internal_queue_) : internal_queue_'[i] = internal_queue_[j]
      /\ queue_size_in_bytes_' \in Int /\ queue_size_in_packets_' \in Int
  BY <1>0, <1>1, EnqueueKeepsGood
<1>4. LinkTypeOK'
  <2>1. current_link_queue_size_' \in Nat
    BY <1>0 DEF LinkTypeOK, put_packet_to_link_queue
  <2>2. UNCHANGED <<linkTrace, linkTransit, output_queue_, linkLocals>>
    BY DEF put_packet_to_link_queue
  <2> QED
    BY <1>0, <1>3, <2>1, <2>2 DEF LinkTypeOK, linkTrace, linkTransit, linkLocals
<1>5. LinkAssertsHold'
  BY <1>3 DEF LinkAssertsHold
<1>6. TransitSound'
  BY <1>0 DEF TransitSound, put_packet_to_link_queue, linkTransit, linkLocals
<1>7. NoPacketAheadOfLink'
  <2>1. /\ next_delivery_time' = next_delivery_time /\ finished_' = finished_
        /\ link_pc' = "idle"
        /\ packet_in_transit_' = packet_in_transit_
        /\ packet_in_transit_bytes_left_' = packet_in_transit_bytes_left_
    BY DEF put_packet_to_link_queue, next_delivery_time, linkTrace, linkTransit, linkLocals
  <2>2. ASSUME ~ finished_ PROVE ArrivedBy(next_delivery_time)'
    <3>1. next_delivery_time > rat_now /\ ArrivedBy(next_delivery_time)
      BY <1>0, <2>2 DEF Replayed, NoPacketAheadOfLink
    <3>2. next_delivery_time \in Nat /\ rat_now \in Nat
      BY <1>0, NextDeliveryTimeType DEF LinkTypeOK
    <3>3. x.arrival_time <= next_delivery_time
      BY <1>2, <3>1, <3>2
    <3> QED
      BY <1>3, <2>1, <3>1, <3>3 DEF ArrivedBy
  <2> QED
    BY <2>1, <2>2 DEF NoPacketAheadOfLink
<1>8. LinkSizeCovers'
  <2>1. /\ output_queue_' = output_queue_
        /\ packet_in_transit_bytes_left_' = packet_in_transit_bytes_left_
        /\ current_link_queue_size_' = current_link_queue_size_ + 1
    BY DEF put_packet_to_link_queue, linkTransit
  <2>2. Len(output_queue_) \in Nat /\ Len(internal_queue_) \in Nat
        /\ Len(internal_queue_') \in Nat /\ current_link_queue_size_ \in Nat
    BY <1>0, <1>3 DEF LinkTypeOK
  <2> QED
    BY <1>0, <1>3, <1>4, <2>1, <2>2, CoversInNumbers, CoversInNumbersPrimed
<1> QED
  BY <1>3, <1>4, <1>5, <1>6, <1>7, <1>8 DEF LinkInv

\* The counter covers what is in the output queue, so the assert before it is
\* decremented holds.
LEMMA WriteKeepsLinkInv ==
  ASSUME LinkInv, write_one_from_link_queue
  PROVE  LinkInv'
<1>0. /\ LinkTypeOK /\ QueueGood /\ TransitSound /\ NoPacketAheadOfLink
      /\ LinkSizeCovers /\ LinkAssertsHold
  BY DEF LinkInv
<1> DEFINE S == QueuedPackets
<1>1. output_queue_ \in Seq(S) /\ output_queue_ # <<>> /\ output_queue_' = Tail(output_queue_)
  BY <1>0 DEF LinkTypeOK, write_one_from_link_queue
<1> HIDE DEF S
<1>2. /\ output_queue_' \in Seq(S) /\ Len(output_queue_) \in Nat
      /\ Len(output_queue_') = Len(output_queue_) - 1 /\ Len(output_queue_) > 0
  BY <1>1
<1>3. /\ Len(internal_queue_) \in Nat /\ current_link_queue_size_ \in Nat
      /\ current_link_queue_size_ > 0
  <2>1. Len(internal_queue_) \in Nat /\ current_link_queue_size_ \in Nat
    BY <1>0 DEF LinkTypeOK
  <2> QED
    BY <1>0, <1>2, <2>1, CoversInNumbers
<1>4. LinkAssertsHold'
  BY <1>3 DEF LinkAssertsHold, write_one_from_link_queue
<1>5. current_link_queue_size_' = current_link_queue_size_ - 1
      /\ current_link_queue_size_' \in Nat
  BY <1>3 DEF write_one_from_link_queue
<1>6. aborted' \in BOOLEAN
  BY DEF write_one_from_link_queue
<1>7. LinkTypeOK'
  BY <1>0, <1>2, <1>5, <1>6
  DEF S, LinkTypeOK, write_one_from_link_queue, queueVars, linkTrace, linkTransit, linkLocals
<1>8. QueueGood'
  BY <1>0 DEF QueueGood, good, good_with, write_one_from_link_queue, queueVars
<1>9. TransitSound'
  BY <1>0 DEF TransitSound, write_one_from_link_queue, linkTransit, linkLocals
<1>10. NoPacketAheadOfLink'
  BY <1>0 DEF NoPacketAheadOfLink, ArrivedBy, next_delivery_time,
     write_one_from_link_queue, queueVars, linkTrace, linkTransit, linkLocals
<1>11. LinkSizeCovers'
  <2>1. /\ internal_queue_' = internal_queue_
        /\ packet_in_transit_bytes_left_' = packet_in_transit_bytes_left_
    BY DEF write_one_from_link_queue, queueVars, linkTransit
  <2> QED
    BY <1>0, <1>2, <1>3, <1>5, <1>7, <2>1, CoversInNumbers, CoversInNumbersPrimed
<1> QED
  BY <1>4, <1>7, <1>8, <1>9, <1>10, <1>11 DEF LinkInv

\* An empty link satisfies the invariant.
LEMMA LinkInitInv ==
  ASSUME LinkInit
  PROVE  LinkInv
<1>1. LinkTypeOK
  <2>1. 0 \in 0..(Len(heavy_pdo_schedule_) - 1) /\ 0 \in 0..PACKET_SIZE
    BY ScheduleAssumption, PacketAssumption
  <2>2. <<>> \in Seq(QueuedPackets)
    BY EmptySeq, Zenon
  <2>3. 0 \in Int /\ 0 \in Nat
    OBVIOUS
  <2> QED
    BY <2>1, <2>2, <2>3 DEF LinkInit, QueueInit, LinkTypeOK
<1>2. LinkAssertsHold /\ TransitSound
  BY DEF LinkInit, LinkAssertsHold, TransitSound
<1>3. QueueGood
  BY QueueAssumption DEF LinkInit, QueueInit, QueueGood, good, good_with
<1>4. NoPacketAheadOfLink
  BY DEF LinkInit, QueueInit, NoPacketAheadOfLink, ArrivedBy
<1>5. LinkSizeCovers
  <2>1. Len(output_queue_) = 0 /\ Len(internal_queue_) = 0
        /\ ~ (packet_in_transit_bytes_left_ > 0) /\ current_link_queue_size_ = 0
    BY EmptySeq DEF LinkInit, QueueInit
  <2> QED
    BY <1>1, <2>1, CoversInNumbers
<1> QED
  BY <1>1, <1>2, <1>3, <1>4, <1>5 DEF LinkInv

-----------------------------------------------------------------------------
(* What the link holds, in order *)

\* Moving the head of a queue into the gap in front of it changes nothing.
LEMMA ConcatHead ==
  ASSUME NEW P, NEW a \in Seq(P), NEW q \in Seq(P), q # <<>>
  PROVE  a \o <<>> \o q = a \o <<Head(q)>> \o Tail(q)
<1> DEFINE h == <<Head(q)>>
           r == Tail(q)
<1>1. /\ Head(q) \in P /\ r \in Seq(P) /\ Len(r) = Len(q) - 1
      /\ \A i \in 1..Len(r) : r[i] = q[i + 1]
      /\ Head(q) = q[1] /\ Len(q) \in Nat /\ Len(q) > 0
  BY HeadTailProperties, LenProperties, EmptySeq
<1>2. h \in Seq(P) /\ Len(h) = 1 /\ h[1] = Head(q)
  BY <1>1
<1> HIDE DEF h, r
<1>3. /\ h \o r \in Seq(P) /\ Len(h \o r) = Len(q)
      /\ \A i \in 1..Len(q) : (h \o r)[i] = IF i <= 1 THEN h[i] ELSE r[i - 1]
  <2>1. /\ h \o r \in Seq(P) /\ Len(h \o r) = Len(h) + Len(r)
        /\ \A i \in 1..(Len(h) + Len(r)) :
             (h \o r)[i] = IF i <= Len(h) THEN h[i] ELSE r[i - Len(h)]
    <3>1. h \in Seq(P) /\ r \in Seq(P)
      BY <1>1, <1>2
    <3> QED
      BY ONLY <3>1, ConcatProperties
  <2>2. Len(h) + Len(r) = Len(q)
    BY <1>1, <1>2
  <2> QED
    BY <1>2, <2>1, <2>2
<1>4. \A i \in 1..Len(q) : (h \o r)[i] = q[i]
  <2>1. SUFFICES ASSUME NEW i \in 1..Len(q) PROVE (h \o r)[i] = q[i]
    OBVIOUS
  <2>2. CASE i = 1
    BY <1>1, <1>2, <1>3, <2>2
  <2>3. CASE i # 1
    <3>1. i - 1 \in 1..Len(r) /\ (i - 1) + 1 = i /\ ~ (i <= 1)
      BY <1>1, <2>3
    <3> QED
      BY <1>1, <1>3, <3>1
  <2> QED
    BY <2>2, <2>3
<1>5. h \o r = q
  BY <1>3, <1>4, SeqEqual
<1>6. (a \o h) \o r = a \o (h \o r)
  <2>1. a \in Seq(P) /\ h \in Seq(P) /\ r \in Seq(P)
    BY <1>1, <1>2
  <2> QED
    BY <2>1, ConcatAssociative
<1>7. a \o <<>> = a
  BY ConcatEmptySeq
<1>8. a \o <<>> \o q = a \o h \o r
  BY <1>5, <1>6, <1>7
<1> QED
  BY <1>8 DEF h, r

\* Moving what is in the gap behind the queue in front of it changes nothing.
LEMMA ConcatLast ==
  ASSUME NEW P, NEW a \in Seq(P), NEW x \in P, NEW q \in Seq(P)
  PROVE  Append(a, x) \o <<>> \o q = a \o <<x>> \o q
<1>1. Append(a, x) \in Seq(P) /\ Append(a, x) = a \o <<x>>
  BY AppendProperties, AppendIsConcat
<1>2. Append(a, x) \o <<>> = Append(a, x)
  BY <1>1, ConcatEmptySeq
<1> QED
  BY <1>1, <1>2

\* The first of three sequences has the head of all.
LEMMA ConcatTail ==
  ASSUME NEW P, NEW a \in Seq(P), a # <<>>, NEW b \in Seq(P)
  PROVE  Head(a \o b) = Head(a) /\ Tail(a) \o b = Tail(a \o b) /\ a \o b # <<>>
<1> DEFINE s == a \o b
           r == Tail(a)
           t == r \o b
           u == Tail(s)
<1>1. /\ r \in Seq(P) /\ Len(r) = Len(a) - 1 /\ Len(a) \in Nat /\ Len(a) > 0
      /\ \A i \in 1..Len(r) : r[i] = a[i + 1]
      /\ Head(a) = a[1] /\ Len(b) \in Nat
  BY HeadTailProperties, LenProperties, EmptySeq
<1>2. /\ s \in Seq(P) /\ Len(s) = Len(a) + Len(b)
      /\ \A i \in 1..(Len(a) + Len(b)) : s[i] = IF i <= Len(a) THEN a[i] ELSE b[i - Len(a)]
  BY ConcatProperties
<1> HIDE DEF s, r
<1>3. /\ t \in Seq(P) /\ Len(t) = Len(r) + Len(b)
      /\ \A i \in 1..(Len(r) + Len(b)) : t[i] = IF i <= Len(r) THEN r[i] ELSE b[i - Len(r)]
  BY <1>1, ConcatProperties
<1>4. s # <<>>
  BY <1>1, <1>2
<1>5. /\ u \in Seq(P) /\ Len(u) = Len(s) - 1
      /\ \A i \in 1..Len(u) : u[i] = s[i + 1]
      /\ Head(s) = s[1]
  BY <1>2, <1>4, HeadTailProperties
<1> HIDE DEF t, u
<1>6. Head(s) = Head(a)
  BY <1>1, <1>2, <1>5
<1>7. Len(t) = Len(u)
  BY <1>1, <1>2, <1>3, <1>5
<1>8. \A i \in 1..Len(t) : t[i] = u[i]
  <2>1. SUFFICES ASSUME NEW i \in 1..Len(t) PROVE t[i] = u[i]
    OBVIOUS
  <2>2. u[i] = IF i + 1 <= Len(a) THEN a[i + 1] ELSE b[(i + 1) - Len(a)]
    <3>1. i \in 1..Len(u) /\ i + 1 \in 1..(Len(a) + Len(b))
      BY <1>1, <1>2, <1>5, <1>7
    <3>2. u[i] = s[i + 1]
      BY <1>5, <3>1
    <3> QED
      BY <1>2, <3>1, <3>2
  <2>3. CASE i <= Len(r)
    BY <1>1, <1>3, <2>2, <2>3
  <2>4. CASE ~ (i <= Len(r))
    <3>1. i - Len(r) = (i + 1) - Len(a) /\ ~ (i + 1 <= Len(a))
      BY <1>1, <2>4
    <3> QED
      BY <1>3, <2>2, <2>4, <3>1
  <2> QED
    BY <2>3, <2>4
<1>9. t = u
  BY <1>3, <1>5, <1>7, <1>8, SeqEqual
<1> QED
  BY <1>4, <1>6, <1>9 DEF s, t, u, r

\* s without its k-th element.
IsWithout(t, s, k) ==
  /\ Len(t) = Len(s) - 1
  /\ \A i \in 1..Len(t) : t[i] = IF i < k THEN s[i] ELSE s[i + 1]

\* Dropping the head of a queue takes one element out of the middle of what
\* stands in front of it and the queue.
LEMMA ConcatDrop ==
  ASSUME NEW P, NEW a \in Seq(P), NEW q \in Seq(P), q # <<>>
  PROVE  IsWithout(a \o Tail(q), a \o q, Len(a) + 1)
<1>1. /\ Tail(q) \in Seq(P) /\ Len(Tail(q)) = Len(q) - 1 /\ Len(q) \in Nat /\ Len(q) > 0
      /\ \A i \in 1..Len(Tail(q)) : Tail(q)[i] = q[i + 1]
      /\ Len(a) \in Nat
  BY HeadTailProperties, LenProperties, EmptySeq
<1> DEFINE s == a \o q
           t == a \o Tail(q)
<1>2. /\ Len(s) = Len(a) + Len(q)
      /\ \A i \in 1..(Len(a) + Len(q)) : s[i] = IF i <= Len(a) THEN a[i] ELSE q[i - Len(a)]
  BY ConcatProperties
<1>3. /\ Len(t) = Len(a) + Len(Tail(q))
      /\ \A i \in 1..(Len(a) + Len(Tail(q))) :
           t[i] = IF i <= Len(a) THEN a[i] ELSE Tail(q)[i - Len(a)]
  BY <1>1, ConcatProperties
<1> HIDE DEF s, t
<1>4. ASSUME NEW i \in 1..Len(t)
      PROVE  t[i] = IF i < Len(a) + 1 THEN s[i] ELSE s[i + 1]
  <2>1. CASE i <= Len(a)
    BY <1>1, <1>2, <1>3, <2>1
  <2>2. CASE ~ (i <= Len(a))
    <3>1. /\ i - Len(a) \in 1..Len(Tail(q)) /\ (i - Len(a)) + 1 = (i + 1) - Len(a)
          /\ ~ (i + 1 <= Len(a)) /\ i + 1 \in 1..(Len(a) + Len(q)) /\ ~ (i < Len(a) + 1)
      BY <1>1, <1>3, <2>2
    <3>2. t[i] = q[(i + 1) - Len(a)]
      BY <1>1, <1>3, <2>2, <3>1
    <3> QED
      BY <1>2, <3>1, <3>2
  <2> QED
    BY <2>1, <2>2
<1>5. Len(t) = Len(s) - 1
  BY <1>1, <1>2, <1>3
<1> QED
  BY <1>4, <1>5 DEF IsWithout, s, t

\* Appending to a queue appends to what stands in front of it and the queue.
LEMMA ConcatAppend ==
  ASSUME NEW P, NEW a \in Seq(P), NEW q \in Seq(P), NEW x \in P
  PROVE  a \o Append(q, x) = Append(a \o q, x)
<1> DEFINE e == <<x>>
           s == a \o q
<1>1. e \in Seq(P) /\ s \in Seq(P)
  BY ConcatProperties
<1>2. Append(q, x) = q \o e /\ Append(s, x) = s \o e
  <2> HIDE DEF s
  <2> QED
    BY <1>1, AppendIsConcat
<1> HIDE DEF e
<1>3. (a \o q) \o e = a \o (q \o e)
  BY <1>1, ConcatAssociative
<1> QED
  BY <1>2, <1>3

\* What the link holds is a sequence of packets, made of three.
LEMMA ContentsType ==
  ASSUME LinkTypeOK, TransitSound
  PROVE  /\ output_queue_ \in Seq(QueuedPackets) /\ InTransit \in Seq(QueuedPackets)
         /\ internal_queue_ \in Seq(QueuedPackets)
         /\ output_queue_ \o InTransit \in Seq(QueuedPackets)
         /\ LinkContents \in Seq(QueuedPackets)
<1>1. output_queue_ \in Seq(QueuedPackets) /\ internal_queue_ \in Seq(QueuedPackets)
  BY DEF LinkTypeOK
<1>2. InTransit \in Seq(QueuedPackets)
  <2>1. CASE packet_in_transit_bytes_left_ > 0
    <3>1. packet_in_transit_ \in QueuedPackets /\ InTransit = <<packet_in_transit_>>
      BY <2>1 DEF TransitSound, InTransit
    <3> QED
      BY <3>1
  <2>2. CASE ~ (packet_in_transit_bytes_left_ > 0)
    BY <2>2, EmptySeq DEF InTransit
  <2> QED
    BY <2>1, <2>2
<1>3. output_queue_ \o InTransit \in Seq(QueuedPackets)
  BY <1>1, <1>2, ConcatProperties
<1>4. LinkContents \in Seq(QueuedPackets)
  <2> DEFINE a == output_queue_ \o InTransit
  <2>1. a \in Seq(QueuedPackets) /\ LinkContents = a \o internal_queue_
    BY <1>3 DEF LinkContents
  <2> HIDE DEF a
  <2> QED
    BY <1>1, <2>1, ConcatProperties
<1> QED
  BY <1>1, <1>2, <1>3, <1>4

\* The replay moves packets through the link and changes neither what it
\* holds nor the order.
LEMMA StepsKeepContents ==
  ASSUME LinkInv, rationalize_steps
  PROVE  LinkContents' = LinkContents
<1>0. LinkTypeOK /\ TransitSound
  BY DEF LinkInv
<1>1. CASE burn_opportunity \/ rationalize_return \/ opportunity_done
  BY <1>1 DEF burn_opportunity, rationalize_return, opportunity_done, LinkContents,
     InTransit, queueVars, linkTransit
<1>2. CASE fetch_packet
  <2>1. CASE packet_in_transit_bytes_left_ > 0
    <3>1. packet_in_transit_bytes_left_ # 0
      BY <2>1
    <3>2. UNCHANGED <<queueVars, linkTransit, output_queue_>>
      BY <1>2, <3>1, Zenon DEF fetch_packet
    <3> QED
      BY <3>2 DEF LinkContents, InTransit, queueVars, linkTransit
  <2>2. CASE ~ (packet_in_transit_bytes_left_ > 0)
    <3>1. /\ internal_queue_ # <<>> /\ internal_queue_' = Tail(internal_queue_)
          /\ packet_in_transit_' = Head(internal_queue_)
          /\ packet_in_transit_bytes_left_' = Head(internal_queue_).size
          /\ output_queue_' = output_queue_
      BY <1>0, <1>2, <2>2 DEF fetch_packet, dequeue, empty, LinkTypeOK
    <3>2. internal_queue_ \in Seq(QueuedPackets) /\ output_queue_ \in Seq(QueuedPackets)
      BY <1>0 DEF LinkTypeOK
    <3>3. Head(internal_queue_) \in QueuedPackets
      BY <3>1, <3>2, HeadTailProperties
    <3>4. packet_in_transit_bytes_left_' > 0
      BY <3>1, <3>3, PacketAssumption DEF QueuedPackets
    <3>5. LinkContents' = output_queue_ \o <<Head(internal_queue_)>> \o Tail(internal_queue_)
      BY <3>1, <3>4 DEF LinkContents, InTransit
    <3>6. LinkContents = output_queue_ \o <<>> \o internal_queue_
      BY <2>2 DEF LinkContents, InTransit
    <3>7. output_queue_ \o <<>> \o internal_queue_
            = output_queue_ \o <<Head(internal_queue_)>> \o Tail(internal_queue_)
      BY ONLY <3>1, <3>2, ConcatHead, Zenon
    <3> QED
      BY <3>5, <3>6, <3>7, Zenon
  <2> QED
    BY <2>1, <2>2
<1>3. CASE send_bytes
  <2>1. /\ packet_in_transit_ \in QueuedPackets /\ packet_in_transit_bytes_left_ > 0
        /\ packet_in_transit_bytes_left_ \in Nat /\ bytes_left_in_this_delivery \in Nat
        /\ internal_queue_' = internal_queue_ /\ packet_in_transit_' = packet_in_transit_
        /\ packet_in_transit_bytes_left_' = packet_in_transit_bytes_left_ - amount_to_send
    BY <1>0, <1>3 DEF send_bytes, TransitSound, LinkTypeOK, queueVars
  <2>2. LinkContents = output_queue_ \o <<packet_in_transit_>> \o internal_queue_
    BY <2>1 DEF LinkContents, InTransit
  <2>3. CASE packet_in_transit_bytes_left_ = amount_to_send
    <3>1. /\ packet_in_transit_bytes_left_' = 0
          /\ output_queue_' = Append(output_queue_, packet_in_transit_)
      BY <1>3, <2>1, <2>3 DEF send_bytes
    <3>2. LinkContents' = Append(output_queue_, packet_in_transit_) \o <<>> \o internal_queue_
      BY <2>1, <3>1 DEF LinkContents, InTransit
    <3>3. internal_queue_ \in Seq(QueuedPackets) /\ output_queue_ \in Seq(QueuedPackets)
      BY <1>0 DEF LinkTypeOK
    <3> QED
      BY <2>1, <2>2, <3>2, <3>3, ConcatLast
  <2>4. CASE packet_in_transit_bytes_left_ # amount_to_send
    <3>1. packet_in_transit_bytes_left_' > 0 /\ output_queue_' = output_queue_
      BY <1>3, <2>1, <2>4 DEF send_bytes, amount_to_send
    <3> QED
      BY <2>1, <2>2, <3>1 DEF LinkContents, InTransit
  <2> QED
    BY <2>3, <2>4
<1> QED
  BY <1>1, <1>2, <1>3 DEF rationalize_steps

\* The packet written is the first the link holds.
LEMMA WriteTakesFirst ==
  ASSUME LinkInv, write_one_from_link_queue
  PROVE  /\ LinkContents # <<>>
         /\ Head(LinkContents) = Head(output_queue_)
         /\ LinkContents' = Tail(LinkContents)
<1> DEFINE o == output_queue_
           b == InTransit \o internal_queue_
           r == Tail(output_queue_)
<1>1. /\ o \in Seq(QueuedPackets) /\ InTransit \in Seq(QueuedPackets)
      /\ internal_queue_ \in Seq(QueuedPackets) /\ o # <<>>
  BY ContentsType DEF LinkInv, write_one_from_link_queue
<1>2. b \in Seq(QueuedPackets) /\ r \in Seq(QueuedPackets)
  BY <1>1, ConcatProperties, HeadTailProperties
<1>3. (o \o InTransit) \o internal_queue_ = o \o b
  BY <1>1, ConcatAssociative
<1> HIDE DEF r
<1>4. (r \o InTransit) \o internal_queue_ = r \o b
  BY <1>1, <1>2, ConcatAssociative
<1>5. LinkContents = o \o b /\ LinkContents' = r \o b
  BY <1>3, <1>4 DEF LinkContents, InTransit, write_one_from_link_queue, linkTransit,
     queueVars, r
<1> HIDE DEF o, b
<1>6. Head(o \o b) = Head(o) /\ Tail(o) \o b = Tail(o \o b) /\ o \o b # <<>>
  BY ONLY <1>1, <1>2, ConcatTail
<1> QED
  BY <1>5, <1>6 DEF r, o

\* A packet put on the link is the last it holds, or, if the queue may drop
\* packets, one packet is missing: this one or the first of the queue.
LEMMA PutOnContents ==
  ASSUME LinkInv, NEW p, AsQueued(p, rat_now) \in QueuedPackets,
         put_packet_to_link_queue(p)
  PROVE  \/ LinkContents' = Append(LinkContents, AsQueued(p, rat_now))
         \/ /\ QueueType # "infinite"
            /\ \E k \in 1..(Len(LinkContents) + 1) :
                 IsWithout(LinkContents', Append(LinkContents, AsQueued(p, rat_now)), k)
<1> DEFINE x == AsQueued(p, rat_now)
           a == output_queue_ \o InTransit
           q == internal_queue_
           s == LinkContents
<1>1. a \in Seq(QueuedPackets) /\ q \in Seq(QueuedPackets) /\ s \in Seq(QueuedPackets)
      /\ x \in QueuedPackets /\ s = a \o q
  BY ContentsType DEF LinkInv, LinkContents
<1>2. LinkContents' = a \o internal_queue_'
  BY DEF put_packet_to_link_queue, LinkContents, InTransit, linkTransit
<1>3. enqueue(x)
  BY DEF put_packet_to_link_queue
<1> HIDE DEF x, a, q, s
<1>4. a \o Append(q, x) = Append(s, x)
  BY <1>1, ConcatAppend
<1>5. /\ Append(s, x) \in Seq(QueuedPackets) /\ Len(Append(s, x)) = Len(s) + 1
      /\ Append(q, x) \in Seq(QueuedPackets) /\ Append(q, x) # <<>> /\ Len(s) \in Nat
      /\ \A i \in 1..Len(s) : Append(s, x)[i] = s[i]
  BY <1>1, AppendProperties, LenProperties
<1>6. CASE accept(x)
  BY <1>2, <1>4, <1>6 DEF accept, q, s, x
<1>7. CASE QueueType # "infinite" /\ UNCHANGED queueVars
  <2>1. LinkContents' = s
    BY <1>1, <1>2, <1>7 DEF q, queueVars
  <2>2. IsWithout(s, Append(s, x), Len(s) + 1)
    BY <1>5 DEF IsWithout
  <2>3. Len(s) + 1 \in 1..(Len(s) + 1)
    BY <1>5
  <2> QED
    BY <1>7, <2>1, <2>2, <2>3 DEF s, x
<1>8. CASE QueueType # "infinite" /\ internal_queue_' = Tail(Append(q, x))
  <2> DEFINE qx == Append(q, x)
  <2>1. qx \in Seq(QueuedPackets) /\ qx # <<>>
    BY <1>5
  <2> HIDE DEF qx
  <2>2. IsWithout(a \o Tail(qx), a \o qx, Len(a) + 1)
    BY ONLY <1>1, <2>1, ConcatDrop
  <2>3. IsWithout(LinkContents', Append(s, x), Len(a) + 1)
    BY <1>2, <1>4, <1>8, <2>2 DEF qx
  <2>4. Len(a) + 1 \in 1..(Len(s) + 1)
    <3>1. Len(s) = Len(a) + Len(q) /\ Len(a) \in Nat /\ Len(q) \in Nat
      BY <1>1, ConcatProperties, LenProperties
    <3> QED
      BY <3>1
  <2> QED
    BY <1>8, <2>3, <2>4 DEF s, x
<1>9. \/ accept(x)
      \/ QueueType # "infinite" /\ UNCHANGED queueVars
      \/ QueueType # "infinite" /\ internal_queue_' = Tail(Append(q, x))
  BY <1>3 DEF enqueue, enqueue_infinite, enqueue_drop_tail, enqueue_drop_head, q
<1> QED
  BY <1>6, <1>7, <1>8, <1>9

=============================================================================
