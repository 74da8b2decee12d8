---------------------------- MODULE DelayQueue ----------------------------
(***************************************************************************)
(* The base-delay and light-PDO half of CellularQueue                      *)
(* (src/src/frontend/cellular_queue.cc): read_packet gives every packet a  *)
(* release time taken from the packet-train trace and keeps it in a        *)
(* priority queue until then.                                              *)
(*                                                                         *)
(* Lines of the trace, opportunities of a line and their indices count     *)
(* from 0 as in the code: Line(i) and Pdo(i, j).  uint64_t is arithmetic   *)
(* modulo WORD and int ranges over INT_MIN..INT_MAX; both widths are       *)
(* parameters, because the code converts between the two.                  *)
(***************************************************************************)
EXTENDS Packets, Sequences

CONSTANTS
  sizeof_iphdr,           \* bytes of the smallest packet
  delay_pdo_traces_,      \* sequence of [time, delay, pdo]
  psize_latency_offset_,  \* offset in ms for 100, 200, ... bytes, or <<>>
  long_to_short_timer_,
  WORD,                   \* 2^64
  INT_MAX                 \* 2^31 - 1

\* What the constructor checks of a trace, and what the trace processor
\* guarantees of the opportunities of a line: there is one and they are in
\* order.  The constructor does not check that the trace lasts (with a last
\* time of 0 the search for a line would not end).
ASSUME TraceAssumption ==
  /\ sizeof_iphdr \in Nat \ {0}
  /\ delay_pdo_traces_ \in Seq([time : Nat, delay : Nat, pdo : Seq(Nat)])
  /\ Len(delay_pdo_traces_) > 2
  /\ \A i, j \in 1..Len(delay_pdo_traces_) :
       i <= j => delay_pdo_traces_[i].time <= delay_pdo_traces_[j].time
  /\ delay_pdo_traces_[Len(delay_pdo_traces_)].time > 0
  /\ \A i \in 1..Len(delay_pdo_traces_) :
       /\ delay_pdo_traces_[i].pdo # <<>>
       /\ \A j, k \in 1..Len(delay_pdo_traces_[i].pdo) :
            j <= k => delay_pdo_traces_[i].pdo[j] <= delay_pdo_traces_[i].pdo[k]
  /\ psize_latency_offset_ \in Seq(Int)
  /\ long_to_short_timer_ \in Nat
  /\ WORD \in Nat \ {0}
  /\ INT_MAX \in Nat

VARIABLES
  delay_base_timestamp_,
  start_tick_,
  end_release_time_,
  curr_delivery_opportunity_,
  delay_packet_queue_,         \* the priority queue, as the set it orders
  current_delay_pdo_idx_,
  current_pdo_idx_,
  current_pdo_size_,
  pdo_base_timestamp_,
  current_base_delay_,
  bypass_link_pdo_,
  pkt_counter_,
  last_delay_queue_release_time_

lightVars == <<curr_delivery_opportunity_, current_delay_pdo_idx_,
               current_pdo_idx_, current_pdo_size_, pdo_base_timestamp_,
               current_base_delay_, last_delay_queue_release_time_>>
delayVars == <<lightVars, delay_base_timestamp_, start_tick_, end_release_time_,
               delay_packet_queue_, bypass_link_pdo_, pkt_counter_>>

DelayQueuePackets ==
  [sequence_number : Nat, size : 1..PACKET_SIZE, release_time : Nat,
   is_bypass_link_queue : BOOLEAN]

DelayInit ==
  /\ delay_base_timestamp_ = 0
  /\ start_tick_ = FALSE
  /\ end_release_time_ = 0
  /\ curr_delivery_opportunity_ = PACKET_SIZE
  /\ delay_packet_queue_ = {}
  /\ current_delay_pdo_idx_ = 0
  /\ current_pdo_idx_ = 0
  /\ current_pdo_size_ = 1
  /\ pdo_base_timestamp_ = 0
  /\ current_base_delay_ = -1
  /\ bypass_link_pdo_ = TRUE
  /\ pkt_counter_ = 0
  /\ last_delay_queue_release_time_ = 0

INT_MIN == - INT_MAX - 1

U64(n) == n % WORD

NumLines == Len(delay_pdo_traces_)
Line(i) == delay_pdo_traces_[i + 1]
Pdo(i, j) == Line(i).pdo[j + 1]
TraceLength == Line(NumLines - 1).time

-----------------------------------------------------------------------------
(* get_pkt_release_time_from_trace, a new short PDO trace *)

start_new_short_pdo_trace(time) ==
  \/ current_base_delay_ < 0
  \/ U64(time + current_base_delay_)
       > U64(last_delay_queue_release_time_ + long_to_short_timer_)

\* The loop "search for the correct instance" stops at the first line, from
\* the current one on, whose successor lies in the future; when it runs into
\* the last line it moves the base by the length of the trace and starts again
\* from line 0.  base is delay_base_timestamp_ as the caller has set it.
Laps(time, base) == (time - base) \div TraceLength

SearchedBase(time, base) == base + Laps(time, base) * TraceLength

\* Bug: a line takes effect only after its time.
SearchedLine_after(time, base) ==
  LET rel  == time - SearchedBase(time, base)
      from == IF Laps(time, base) = 0 THEN current_delay_pdo_idx_ ELSE 0
  IN  CHOOSE i \in from..(NumLines - 2) :
        /\ Line(i + 1).time >= rel
        /\ \A j \in from..(i - 1) : Line(j + 1).time < rel

SearchedLine(time, base) ==
  LET rel  == time - SearchedBase(time, base)
      from == IF Laps(time, base) = 0 THEN current_delay_pdo_idx_ ELSE 0
  IN  CHOOSE i \in from..(NumLines - 2) :
        /\ Line(i + 1).time > rel
        /\ \A j \in from..(i - 1) : Line(j + 1).time <= rel

\* Bug: the delay of the next line is extrapolated from the wrong end.
InterpolatedDelay_from_next(i, rel) ==
  LET num  == rel - Line(i).time
      den  == Line(i + 1).time - Line(i).time
      diff == Line(i + 1).delay - Line(i).delay
  IN  {(Line(i + 1).delay * den + num * diff) \div den}

\* int( delay + ratio * ( next delay - delay ) ), computed in float.  The
\* exact value lies between the two delays and the conversion truncates it;
\* float rounding can bring a whole number just below itself.  Before the
\* first line of the trace the subtraction wraps around to a huge unsigned
\* ratio, and converting the result to int is undefined unless the two delays
\* are equal: x86 yields INT_MIN, ARM saturates.
InterpolatedDelay(i, rel) ==
  LET num  == rel - Line(i).time
      den  == Line(i + 1).time - Line(i).time
      diff == Line(i + 1).delay - Line(i).delay
      sum  == Line(i).delay * den + num * diff
  IN  IF num >= 0
      THEN {sum \div den} \cup
             (IF diff # 0 /\ num # 0 /\ sum % den = 0 THEN {sum \div den - 1} ELSE {})
      ELSE IF diff = 0 /\ den # 0 THEN {Line(i).delay} ELSE {INT_MIN, INT_MAX}

\* The first packet of a new short PDO trace.
new_short_pdo_trace(time, base, size, delay_ms) ==
  /\ current_base_delay_' = delay_ms
  /\ current_delay_pdo_idx_' = SearchedLine(time, base)
  /\ delay_base_timestamp_' = SearchedBase(time, base)
  /\ current_pdo_size_' = Len(Line(SearchedLine(time, base)).pdo)
  /\ pdo_base_timestamp_' = time - SearchedBase(time, base)
  /\ current_pdo_idx_' = 0
  /\ curr_delivery_opportunity_' = PACKET_SIZE - size

-----------------------------------------------------------------------------
(* get_pkt_release_time_from_trace, the current short PDO trace *)

\* Bug: the opportunities that have passed are not skipped.
DueOpportunity_not_searched(ts) == current_pdo_idx_

\* The loop "find the correct PDO time": the first opportunity, from the
\* current one on, that is not before ts, or the end of the line.
DueOpportunity(ts) ==
  LET i == current_delay_pdo_idx_
  IN  IF current_pdo_idx_ >= current_pdo_size_
      THEN current_pdo_idx_
      ELSE CHOOSE j \in current_pdo_idx_..current_pdo_size_ :
             /\ j < current_pdo_size_ => ts <= Pdo(i, j)
             /\ \A k \in current_pdo_idx_..(j - 1) : ts > Pdo(i, k)

\* Bug: every packet finds a fresh opportunity.
DueBytes_refilled(ts) == PACKET_SIZE

\* Bytes left of the due opportunity, which is a fresh one if the loop moved.
DueBytes(ts) ==
  IF DueOpportunity(ts) = current_pdo_idx_ THEN curr_delivery_opportunity_ ELSE PACKET_SIZE

\* A packet that does not fit takes the next opportunity.
TakenOpportunity(ts, size) ==
  IF DueBytes(ts) < size THEN DueOpportunity(ts) + 1 ELSE DueOpportunity(ts)

TakenBytes(ts, size) ==
  IF DueBytes(ts) < size THEN PACKET_SIZE ELSE DueBytes(ts)

SinceShortTrace(time, base) == (time - base) - pdo_base_timestamp_

StillLight(ts, size) == TakenOpportunity(ts, size) < current_pdo_size_

CurrentRelease(time, ts, size) ==
  LET line         == current_delay_pdo_idx_
      base_release == U64(time + current_base_delay_)
      last_release == U64(time + Pdo(line, current_pdo_size_ - 1))
  IN  IF StillLight(ts, size)
      THEN U64(time + current_base_delay_ + (Pdo(line, TakenOpportunity(ts, size)) - ts))
      ELSE IF base_release < last_release THEN last_release ELSE base_release

current_short_pdo_trace(base, ts, size) ==
  /\ current_pdo_idx_' = TakenOpportunity(ts, size)
  /\ curr_delivery_opportunity_' = TakenBytes(ts, size) - size
  /\ delay_base_timestamp_' = base
  /\ UNCHANGED <<current_base_delay_, current_delay_pdo_idx_,
                 current_pdo_size_, pdo_base_timestamp_>>

-----------------------------------------------------------------------------
(* read_packet *)

\* int( round( get_psize_latency_offset( size ) ) ): linear between the
\* offsets of the neighbouring multiples of 100 bytes, flat outside them;
\* halves are rounded away from zero.
latency_offset(size) ==
  LET n      == Len(psize_latency_offset_)
      idx    == (size \div 100) - 1
      off(i) == psize_latency_offset_[i + 1]
      hundredths == 100 * off(idx) + (size % 100) * (off(idx + 1) - off(idx))
  IN  IF n = 0 THEN 0
      ELSE IF idx < 0 THEN off(0)
      ELSE IF idx >= n - 1 THEN off(n - 1)
      ELSE IF hundredths >= 0 THEN (hundredths + 50) \div 100
                              ELSE - ((50 - hundredths) \div 100)

ValidSize(size) == size \in sizeof_iphdr..PACKET_SIZE

\* The offset is applied only if that does not put the packet before its
\* predecessor.
WithOffset(release, size) ==
  IF U64(release + latency_offset(size)) >= end_release_time_
  THEN U64(release + latency_offset(size))
  ELSE release

\* Bug: the packet is not held back until its predecessor's release time.
store_packet_unclamped(size, release, light) ==
  /\ end_release_time_' = release
  /\ bypass_link_pdo_' = light
  /\ delay_packet_queue_' = delay_packet_queue_ \cup
       {[sequence_number |-> pkt_counter_, size |-> size, release_time |-> release,
         is_bypass_link_queue |-> light]}
  /\ pkt_counter_' = pkt_counter_ + 1

\* A packet whose release time is before its predecessor's is held back until
\* then, and loses its light opportunity.
store_packet(size, release, light) ==
  LET held == release < end_release_time_
      time == IF held THEN end_release_time_ ELSE release
  IN  /\ end_release_time_' = time
      /\ bypass_link_pdo_' = (light /\ ~ held)
      /\ delay_packet_queue_' = delay_packet_queue_ \cup
           {[sequence_number |-> pkt_counter_, size |-> size, release_time |-> time,
             is_bypass_link_queue |-> light /\ ~ held]}
      /\ pkt_counter_' = pkt_counter_ + 1

\* What read_packet does with the release time the trace gives.
finish_read(size, release, light) ==
  /\ last_delay_queue_release_time_' = release
  /\ store_packet(size, WithOffset(release, size), light)

\* A packet of size bytes is read at time now; the first one starts the trace.
read_packet(size, now) ==
  LET base == IF start_tick_ THEN delay_base_timestamp_ ELSE now
      ts   == SinceShortTrace(now, base)
  IN  /\ ValidSize(size)
      /\ start_tick_' = TRUE
      /\ \/ /\ start_new_short_pdo_trace(now)
            /\ \E delay_ms \in InterpolatedDelay(SearchedLine(now, base),
                                                now - SearchedBase(now, base)) :
                 /\ new_short_pdo_trace(now, base, size, delay_ms)
                 /\ finish_read(size, U64(now + delay_ms), TRUE)
         \/ /\ ~ start_new_short_pdo_trace(now)
            /\ current_short_pdo_trace(base, ts, size)
            /\ finish_read(size, CurrentRelease(now, ts, size), StillLight(ts, size))

-----------------------------------------------------------------------------
(* get_next_from_delay_queue *)

\* DelayPktPairCmp: ascending release times, then ascending sequence numbers.
ComesBefore(p, q) ==
  \/ p.release_time < q.release_time
  \/ p.release_time = q.release_time /\ p.sequence_number < q.sequence_number

\* Bug: the queue is ordered by release time only.
top_by_release_time ==
  CHOOSE p \in delay_packet_queue_ :
    \A q \in delay_packet_queue_ :
      \/ p.release_time < q.release_time
      \/ p.release_time = q.release_time /\ p.sequence_number >= q.sequence_number

top ==
  CHOOSE p \in delay_packet_queue_ :
    \A q \in delay_packet_queue_ \ {p} : ComesBefore(p, q)

\* Bug: a packet is released one ms early.
ReleaseDue_early(now) == delay_packet_queue_ # {} /\ top.release_time <= now + 1

ReleaseDue(now) == delay_packet_queue_ # {} /\ top.release_time <= now

\* The packet taken is top.
pop_delay_queue ==
  /\ delay_packet_queue_' = delay_packet_queue_ \ {top}
  /\ UNCHANGED <<lightVars, delay_base_timestamp_, start_tick_,
                 end_release_time_, bypass_link_pdo_, pkt_counter_>>

-----------------------------------------------------------------------------
(* Properties of the delay queue *)

\* Types of the delay queue's state.
DelayTypeOK ==
  /\ delay_base_timestamp_ \in Nat
  /\ start_tick_ \in BOOLEAN
  /\ end_release_time_ \in Nat
  /\ curr_delivery_opportunity_ \in 0..PACKET_SIZE
  /\ delay_packet_queue_ \subseteq DelayQueuePackets
  /\ current_delay_pdo_idx_ \in 0..(NumLines - 2)
  /\ current_pdo_idx_ \in Nat
  /\ current_pdo_size_ \in Nat \ {0}
  /\ pdo_base_timestamp_ \in Nat
  /\ current_base_delay_ \in Int
  /\ bypass_link_pdo_ \in BOOLEAN
  /\ pkt_counter_ \in Nat
  /\ last_delay_queue_release_time_ \in Nat

\* Packets are released in the order in which they were read: whatever the
\* trace, the size offsets and the changes of short PDO trace do, a later
\* packet never has an earlier release time.
ReleaseOrder ==
  /\ \A p, q \in delay_packet_queue_ :
       p.sequence_number < q.sequence_number => p.release_time <= q.release_time
  /\ \A p \in delay_packet_queue_ : p.release_time <= end_release_time_

\* The base delay in use lies between the delays of two neighbouring lines of
\* the trace: comment at cellular_queue.cc:427, "Interpolate the base delay".
BaseDelayInterpolated ==
  start_tick_ =>
    LET a == Line(current_delay_pdo_idx_).delay
        b == Line(current_delay_pdo_idx_ + 1).delay
    IN  current_base_delay_ \in (IF a <= b THEN a..b ELSE b..a)

=============================================================================
