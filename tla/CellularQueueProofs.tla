------------------------ MODULE CellularQueueProofs ------------------------
(***************************************************************************)
(* Properties of one direction of the emulated link, for every trace,      *)
(* every schedule, every pattern of arrivals and every way in which the    *)
(* process may be delayed.  The inductive invariant is built in layers,    *)
(* each proved on top of the ones before it: the control of the loop, the  *)
(* delay queue, the link queue, and the times at which packets move.       *)
(***************************************************************************)
EXTENDS CellularQueue, LinkQueueProofs, DelayQueueProofs

-----------------------------------------------------------------------------
(* Control *)

AtWrite == {"write", "write_now", "write_loop", "put", "write_next", "drain"}

\* Where the loop is, and what it must have done to get there.
ControlInv ==
  /\ link_pc # "idle" => pc \in {"wait_link_end", "put"}
  /\ pc \in {"sleep", "read"} /\ ~ want_write => output_queue_ = <<>>
  /\ pc = "exit" => output_queue_ = <<>>
  /\ pc \in AtWrite => want_write
  /\ pc \notin {"write_now", "write_loop", "put"} => next_packet = NoPacket
  /\ pc = "put" => next_packet # NoPacket

\* Every step of the loop preserves ControlInv.
LEMMA ControlInvStep ==
  ASSUME ControlInv, [Next]_cellVars
  PROVE  ControlInv'
<1> USE DEF ControlInv, AtWrite, Goto
<1>1. CASE WaitDelay
  BY <1>1 DEF WaitDelay, linkVars, linkLocals
<1>2. CASE WaitLink
  BY <1>2 DEF WaitLink, rationalize, loopVars
<1>3. CASE WaitLinkEnd
  BY <1>3 DEF WaitLinkEnd, linkVars, linkLocals
<1>4. CASE Poll
  BY <1>4 DEF Poll, pending_output, linkVars, linkLocals
<1>5. CASE PollReadable
  BY <1>5 DEF PollReadable, linkVars, linkLocals
<1>6. CASE PollReturns
  BY <1>6 DEF PollReturns, AfterRead, linkVars, linkLocals
<1>7. CASE ReadPacket
  <2>1. link_pc' = link_pc /\ output_queue_' = output_queue_
    BY <1>7 DEF ReadPacket, start_link_trace, linkVars, linkLocals
  <2> QED
    BY <1>7, <2>1 DEF ReadPacket, AfterRead, loopVars
<1>8. CASE ReadPacketThrows
  BY <1>8 DEF ReadPacketThrows, linkVars, linkLocals, loopVars
<1>9. CASE WritePackets
  BY <1>9 DEF WritePackets, linkVars, linkLocals
<1>10. CASE WriteNow
  BY <1>10 DEF WriteNow, linkVars, linkLocals
<1>11. CASE WriteDirect
  BY <1>11 DEF WriteDirect, linkVars, linkLocals
<1>12. CASE PutPacket
  BY <1>12 DEF PutPacket, rationalize, loopVars
<1>13. CASE PutPacketEnd
  BY <1>13 DEF PutPacketEnd, put_packet_to_link_queue, linkLocals
<1>14. CASE WriteNext
  BY <1>14 DEF WriteNext, linkVars, linkLocals
<1>15. CASE WriteLoopEnd
  BY <1>15 DEF WriteLoopEnd, linkVars, linkLocals
<1>16. CASE Drain
  BY <1>16 DEF Drain, write_one_from_link_queue, loopVars, linkLocals
<1>17. CASE DrainEnd
  BY <1>17 DEF DrainEnd, linkVars, linkLocals, loopVars
<1>18. CASE RationalizeStep
  <2>1. link_pc # "idle"
    BY <1>18 DEF RationalizeStep, rationalize_steps, burn_opportunity,
       rationalize_return, opportunity_done, fetch_packet, send_bytes
  <2> QED
    BY <1>18, <2>1 DEF RationalizeStep, loopVars
<1>19. CASE Tick
  BY <1>19 DEF Tick, linkVars, linkLocals, loopVars
<1>20. CASE UNCHANGED cellVars
  BY <1>20 DEF cellVars, linkVars, linkLocals, loopVars
<1> QED
  BY <1>1, <1>2, <1>3, <1>4, <1>5, <1>6, <1>7, <1>8, <1>9, <1>10, <1>11, <1>12, <1>13,
     <1>14, <1>15, <1>16, <1>17, <1>18, <1>19, <1>20 DEF Next, LoopStep, Over

\* ControlInv holds throughout.
LEMMA ControlInvHolds == Spec => []ControlInv
<1>1. Init => ControlInv
  BY DEF Init, LinkInit, ControlInv, AtWrite
<1>2. ControlInv /\ [Next]_cellVars => ControlInv'
  BY ControlInvStep
<1> QED
  BY <1>1, <1>2, PTL DEF Spec

\* The process exits (--once) only after every packet that was served has been
\* written: the output action is looked at before the exit action, and poll
\* asked for both at the same time.
THEOREM ExitIsDrained == Spec => []ExitsDrained
<1>1. ControlInv => ExitsDrained
  BY DEF ControlInv, ExitsDrained
<1> QED
  BY <1>1, ControlInvHolds, PTL

-----------------------------------------------------------------------------
(* The delay queue *)

\* The delay queue as the loop finds it.
DelayLoopInv ==
  /\ DelayInv
  /\ clock \in Nat
  /\ TraceStartedBy(clock)
  /\ next_packet \in DelayQueuePackets \cup {NoPacket}

\* Every step of the loop preserves DelayLoopInv, and the interpolation of the
\* base delay if the trace starts at time 0.
LEMMA DelayLoopInvStep ==
  ASSUME DelayLoopInv, [Next]_cellVars
  PROVE  /\ DelayLoopInv'
         /\ FirstLineAtZero /\ BaseDelayInterpolated => BaseDelayInterpolated'
<1>0. DelayInv /\ clock \in Nat /\ TraceStartedBy(clock)
      /\ next_packet \in DelayQueuePackets \cup {NoPacket}
  BY DEF DelayLoopInv
<1>1. ASSUME UNCHANGED <<delayVars, clock>>, next_packet' \in {next_packet, NoPacket}
      PROVE  /\ DelayLoopInv'
             /\ FirstLineAtZero /\ BaseDelayInterpolated => BaseDelayInterpolated'
  <2>1. DelayInv' /\ (BaseDelayInterpolated => BaseDelayInterpolated')
    BY <1>0, <1>1, DelayUntouched
  <2>2. TraceStartedBy(clock)'
    BY <1>0, <1>1 DEF TraceStartedBy, delayVars, lightVars
  <2>3. next_packet' \in DelayQueuePackets \cup {NoPacket}
    BY <1>0, <1>1
  <2> QED
    BY <1>0, <1>1, <2>1, <2>2, <2>3 DEF DelayLoopInv, DelayQueuePackets, NoPacket
<1>2. ASSUME get_next_from_delay_queue, UNCHANGED clock
      PROVE  /\ DelayLoopInv'
             /\ FirstLineAtZero /\ BaseDelayInterpolated => BaseDelayInterpolated'
  <2>1. CASE ~ ReleaseDue(clock)
    BY <1>1, <1>2, <2>1 DEF get_next_from_delay_queue
  <2>2. CASE ReleaseDue(clock)
    <3>1. next_packet' = top /\ pop_delay_queue
      BY <1>2, <2>2 DEF get_next_from_delay_queue
    <3>2. DelayInv'
      BY <1>0, <3>1, PopKeepsDelayInv
    <3>3. top \in DelayQueuePackets
      BY <1>0, <2>2, TopWasReadFirst DEF ReleaseDue
    <3>4. TraceStartedBy(clock)' /\ (BaseDelayInterpolated => BaseDelayInterpolated')
      BY <1>0, <1>2, <3>1
      DEF TraceStartedBy, BaseDelayInterpolated, Line, pop_delay_queue, lightVars
    <3> QED
      BY <1>0, <1>2, <3>1, <3>2, <3>3, <3>4 DEF DelayLoopInv, DelayQueuePackets
  <2> QED
    BY <2>1, <2>2
<1>3. CASE ReadPacket
  <2>1. PICK size \in Sizes : read_packet(size, clock)
    BY <1>3 DEF ReadPacket
  <2>2. /\ DelayInv' /\ TraceStartedBy(clock)'
        /\ FirstLineAtZero /\ BaseDelayInterpolated => BaseDelayInterpolated'
        /\ clock' = clock /\ next_packet' = next_packet
    <3>1. clock' = clock /\ next_packet' = next_packet
      BY <1>3 DEF ReadPacket, loopVars
    <3> QED
      BY <1>0, <2>1, <3>1, ReadKeepsDelayInv DEF TraceStartedBy
  <2> QED
    BY <1>0, <2>2 DEF DelayLoopInv, DelayQueuePackets, NoPacket
<1>4. CASE WritePackets \/ WriteNext
  BY <1>2, <1>4 DEF WritePackets, WriteNext
<1>5. CASE Tick
  <2>1. UNCHANGED <<delayVars, next_packet>> /\ clock' = clock + 1 /\ clock' \in Nat
    BY <1>0, <1>5 DEF Tick, loopVars
  <2>2. DelayInv' /\ (BaseDelayInterpolated => BaseDelayInterpolated')
    BY <1>0, <2>1, DelayUntouched
  <2>3. TraceStartedBy(clock)'
    BY <1>0, <2>1 DEF TraceStartedBy, delayVars, lightVars, DelayInv, DelayTypeOK
  <2> QED
    BY <1>0, <2>1, <2>2, <2>3 DEF DelayLoopInv, DelayQueuePackets, NoPacket
<1>6. CASE WaitDelay \/ WaitLink \/ WaitLinkEnd \/ Poll \/ PollReadable \/ PollReturns
           \/ ReadPacketThrows \/ WriteNow \/ WriteDirect \/ PutPacket \/ PutPacketEnd
           \/ WriteLoopEnd \/ Drain \/ DrainEnd \/ RationalizeStep
  <2>1. UNCHANGED <<delayVars, clock>> /\ next_packet' \in {next_packet, NoPacket}
    BY <1>6 DEF WaitDelay, WaitLink, WaitLinkEnd, Poll, PollReadable, PollReturns,
       ReadPacketThrows, WriteNow, WriteDirect, PutPacket, PutPacketEnd, WriteLoopEnd,
       Drain, DrainEnd, RationalizeStep, loopVars
  <2> QED
    BY <1>1, <2>1
<1>7. CASE UNCHANGED cellVars
  BY <1>1, <1>7 DEF cellVars, loopVars
<1> QED
  BY <1>3, <1>4, <1>5, <1>6, <1>7 DEF Next, LoopStep, Over

\* DelayLoopInv holds throughout.
LEMMA DelayLoopInvHolds == Spec => []DelayLoopInv
<1>1. Init => DelayLoopInv
  BY DelayInitInv DEF Init, DelayLoopInv
<1>2. DelayLoopInv /\ [Next]_cellVars => DelayLoopInv'
  BY DelayLoopInvStep
<1> QED
  BY <1>1, <1>2, PTL DEF Spec

\* Packets are released in the order in which they were read, whatever the
\* trace, the offsets and the changes of short PDO trace do.
THEOREM ReleasedInOrder == Spec => []ReleaseOrder
<1>1. DelayLoopInv => ReleaseOrder
  BY DEF DelayLoopInv, DelayInv
<1> QED
  BY <1>1, DelayLoopInvHolds, PTL

\* The assert of get_pkt_release_time_from_trace does not fail: the search skips
\* the opportunities that have passed, and the one after the due one, for a
\* packet that does not fit, is no earlier.
THEOREM OpportunityNotInThePast == Spec => []PdoAssertHolds
<1>1. DelayLoopInv => PdoAssertHolds
  <2> SUFFICES ASSUME DelayLoopInv, NEW size \in Sizes, ValidSize(size),
                      StillLight(SinceShortTrace(clock, delay_base_timestamp_), size)
               PROVE  Pdo(current_delay_pdo_idx_,
                          TakenOpportunity(SinceShortTrace(clock, delay_base_timestamp_), size))
                        >= SinceShortTrace(clock, delay_base_timestamp_)
    BY DEF PdoAssertHolds
  <2> DEFINE ts == SinceShortTrace(clock, delay_base_timestamp_)
             got == TakenOpportunity(ts, size)
  <2>1. DelayInv /\ ts \in Int
    BY DEF DelayLoopInv, DelayInv, DelayTypeOK, SinceShortTrace
  <2> HIDE DEF ts
  <2>2. /\ got \in 0..(Len(Line(current_delay_pdo_idx_).pdo) - 1)
        /\ ts <= Pdo(current_delay_pdo_idx_, got)
    BY <2>1, OpportunityTaken DEF ts
  <2>3. Pdo(current_delay_pdo_idx_, got) \in Nat
    BY <2>1, CurrentReleaseType DEF ts, DelayLoopInv
  <2> QED
    BY <2>1, <2>2, <2>3 DEF ts
<1> QED
  BY <1>1, DelayLoopInvHolds, PTL

\* With a trace that starts at time 0, the base delay in use always lies
\* between the delays of two neighbouring lines: across the wrap around the end
\* of the trace, after any pause, and in spite of the rounding in float.
THEOREM BaseDelayStaysInterpolated ==
  ASSUME FirstLineAtZero
  PROVE  Spec => []BaseDelayInterpolated
<1>1. Init => BaseDelayInterpolated
  BY DelayInitInv DEF Init
<1>2. DelayLoopInv /\ BaseDelayInterpolated /\ [Next]_cellVars => BaseDelayInterpolated'
  BY DelayLoopInvStep
<1> QED
  BY <1>1, <1>2, DelayLoopInvHolds, PTL DEF Spec

-----------------------------------------------------------------------------
(* The link queue *)

Deliveries == [sequence_number : Nat, release_time : Nat, time : Nat, direct : BOOLEAN]

\* The types of the loop's own variables.
LoopTypeOK ==
  /\ pc \in {"wait_delay", "wait_link", "wait_link_end", "poll", "sleep", "read",
             "write", "write_now", "write_loop", "put", "write_next", "drain",
             "exit", "terminated"}
  /\ write_now \in Nat
  /\ timeout \in Nat
  /\ deadline \in Nat
  /\ want_write \in BOOLEAN
  /\ want_exit \in BOOLEAN
  /\ stall \in Nat
  /\ delivered \in Seq(Deliveries)

\* What the two callers of rationalize rely on: a packet is put on the link at
\* the time the link has just been replayed to, and before the first packet is
\* read the link holds nothing, so that restarting its trace is harmless.
CallsSound ==
  /\ pc = "put" => rat_now = write_now
  /\ link_pc = "idle" /\ pc \in {"wait_link_end", "put"} => Replayed
  /\ ~ start_tick_ =>
       /\ internal_queue_ = <<>> /\ packet_in_transit_bytes_left_ = 0
       /\ delay_packet_queue_ = {} /\ next_packet = NoPacket

\* However the time to the next opportunity is narrowed, the loop does not wait
\* beyond it.
LEMMA WaitForLink ==
  ASSUME rat_now \in Nat, next_delivery_time \in Nat, finished_ \in BOOLEAN
  PROVE  /\ wait_time_link_queue \in Nat
         /\ ~ finished_ /\ rat_now <= next_delivery_time =>
              wait_time_link_queue <= next_delivery_time - rat_now
<1> DEFINE h == INT_MAX + 1
<1>1. \A n \in Int, m \in Nat \ {0} : n % m \in Nat /\ (n >= 0 => n % m <= n)
  OBVIOUS
<1>2. h \in Nat \ {0} /\ 2 * h \in Nat \ {0} /\ WORD \in Nat \ {0}
  BY TraceAssumption
<1>3. \A n \in Int : U64(n) \in Nat /\ (n >= 0 => U64(n) <= n)
  BY <1>1, <1>2 DEF U64
<1>4. \A n \in Nat : Int32(n) \in Int /\ Int32(n) <= n
  <2>1. SUFFICES ASSUME NEW n \in Nat
                 PROVE  Int32(n) \in Int /\ Int32(n) <= n
    OBVIOUS
  <2>2. Int32(n) = ((n + h) % (2 * h)) - h
    BY <1>2, TraceAssumption DEF Int32
  <2> HIDE DEF h
  <2>3. (n + h) % (2 * h) \in Nat /\ (n + h) % (2 * h) <= n + h
    BY <1>1, <1>2
  <2> QED
    BY <1>2, <2>2, <2>3
<1>5. next_or_never \in Int /\ (~ finished_ => next_or_never = next_delivery_time)
  BY <1>3 DEF next_or_never
<1>6. U64(next_or_never - rat_now) \in Nat
      /\ (next_or_never >= rat_now => U64(next_or_never - rat_now) <= next_or_never - rat_now)
  BY <1>3, <1>5
<1> QED
  BY <1>4, <1>5, <1>6 DEF wait_time_link_queue

\* The loop's own types are kept.
LEMMA LoopTypeStep ==
  ASSUME LoopTypeOK, DelayLoopInv, LinkInv, ControlInv, [Next]_cellVars
  PROVE  LoopTypeOK'
<1>0. /\ clock \in Nat /\ next_packet \in DelayQueuePackets \cup {NoPacket}
      /\ DelayInv /\ rat_now \in Nat /\ next_delivery_time \in Nat /\ finished_ \in BOOLEAN
      /\ output_queue_ \in Seq(QueuedPackets)
  BY NextDeliveryTimeType DEF DelayLoopInv, LinkInv, LinkTypeOK
<1> USE DEF LoopTypeOK, Goto
<1>1. CASE WaitDelay
  <2>1. wait_time_delay_queue \in Nat
    <3>1. delay_packet_queue_ # {} => top.release_time \in Nat
      BY <1>0, TopWasReadFirst DEF DelayQueuePackets
    <3> QED
      BY <1>0, <3>1 DEF wait_time_delay_queue, UINT16_MAX
  <2> QED
    BY <1>1, <2>1 DEF WaitDelay
<1>2. CASE WaitLinkEnd
  <2>1. wait_time_link_queue \in Nat
    BY <1>0, WaitForLink
  <2> QED
    BY <1>2, <2>1 DEF WaitLinkEnd
<1>3. CASE Poll
  <2>1. clock + timeout \in Nat /\ pending_output \in BOOLEAN
    BY <1>0 DEF pending_output
  <2> QED
    BY <1>0, <1>3, <2>1 DEF Poll
<1>4. CASE WriteDirect
  <2>1. next_packet \in DelayQueuePackets
    BY <1>0, <1>4 DEF WriteDirect
  <2>2. Delivery(next_packet, TRUE) \in Deliveries
    BY <1>0, <2>1 DEF Delivery, Deliveries, DelayQueuePackets
  <2>3. delivered' \in Seq(Deliveries)
    <3> DEFINE x == Delivery(next_packet, TRUE)
    <3>1. delivered' = Append(delivered, x)
      BY <1>4 DEF WriteDirect
    <3> HIDE DEF x
    <3> QED
      BY <2>2, <3>1, AppendProperties DEF x
  <2> QED
    BY <1>4, <2>3 DEF WriteDirect
<1>5. CASE Drain
  <2>1. output_queue_ # <<>>
    BY <1>5 DEF Drain, write_one_from_link_queue
  <2>2. Head(output_queue_) \in QueuedPackets
    BY <1>0, <2>1, HeadTailProperties
  <2>3. Delivery(Head(output_queue_), FALSE) \in Deliveries
    BY <1>0, <2>2 DEF Delivery, Deliveries, QueuedPackets
  <2>4. delivered' \in Seq(Deliveries)
    <3> DEFINE x == Delivery(Head(output_queue_), FALSE)
    <3>1. delivered' = Append(delivered, x)
      BY <1>5 DEF Drain
    <3> HIDE DEF x
    <3> QED
      BY <2>3, <3>1, AppendProperties DEF x
  <2> QED
    BY <1>5, <2>4 DEF Drain, loopVars
<1>6. CASE Tick
  BY <1>6 DEF Tick, loopVars
<1>7. CASE WaitLink \/ PollReadable \/ PollReturns \/ ReadPacket \/ ReadPacketThrows
           \/ WritePackets \/ WriteNow
  BY <1>0, <1>7 DEF WaitLink, PollReadable, PollReturns, ReadPacket, ReadPacketThrows,
     WritePackets, WriteNow, AfterRead, loopVars
<1>8. CASE PutPacket \/ PutPacketEnd \/ WriteNext \/ WriteLoopEnd \/ DrainEnd
           \/ RationalizeStep
  BY <1>0, <1>8 DEF PutPacket, PutPacketEnd, WriteNext, WriteLoopEnd, DrainEnd,
     RationalizeStep, loopVars
<1>9. CASE UNCHANGED cellVars
  BY <1>9 DEF cellVars, loopVars
<1> QED
  BY <1>1, <1>2, <1>3, <1>4, <1>5, <1>6, <1>7, <1>8, <1>9 DEF Next, LoopStep, Over

\* Steps that leave the link alone keep its invariant.
LEMMA LinkUntouched ==
  ASSUME LinkInv, UNCHANGED linkVars
  PROVE  LinkInv' /\ (Replayed => Replayed')
<1>1. LinkTypeOK'
  BY DEF LinkInv, LinkTypeOK, linkVars, queueVars, linkTrace, linkTransit, linkLocals
<1>2. LinkAssertsHold' /\ QueueGood' /\ LinkSizeCovers'
  BY PacketsUntouched DEF linkVars
<1>3. TransitSound' /\ NoPacketAheadOfLink'
  BY DEF LinkInv, TransitSound, NoPacketAheadOfLink, ArrivedBy, next_delivery_time,
         linkVars, queueVars, linkTrace, linkTransit, linkLocals
<1>4. Replayed => Replayed'
  BY DEF Replayed, next_delivery_time, linkVars, linkTrace, linkLocals
<1> QED
  BY <1>1, <1>2, <1>3, <1>4 DEF LinkInv

\* The link under the loop.
LinkLoopInv ==
  /\ LinkInv
  /\ LoopTypeOK
  /\ CallsSound

\* Every step of the loop preserves LinkLoopInv.
LEMMA LinkLoopInvStep ==
  ASSUME DropsOneAtMost, LinkLoopInv, DelayLoopInv, ControlInv, [Next]_cellVars
  PROVE  LinkLoopInv'
<1>0. /\ LinkInv /\ LoopTypeOK /\ CallsSound
      /\ clock \in Nat /\ write_now \in Nat /\ rat_now \in Nat
      /\ next_packet \in DelayQueuePackets \cup {NoPacket} /\ DelayInv
  BY DEF LinkLoopInv, DelayLoopInv, LoopTypeOK, LinkInv, LinkTypeOK
<1>1. LoopTypeOK'
  BY <1>0, LoopTypeStep
<1>2. SUFFICES LinkInv' /\ CallsSound'
  BY <1>1 DEF LinkLoopInv
<1>3. CASE WaitLink
  <2>1. rationalize(clock) /\ pc' = "wait_link_end"
    BY <1>3 DEF WaitLink, Goto
  <2>2. LinkInv'
    BY <1>0, <2>1, RationalizeKeepsLinkInv
  <2>3. CallsSound'
    BY <1>0, <1>3, <2>1
    DEF WaitLink, CallsSound, rationalize, queueVars, linkTransit, loopVars, delayVars
  <2> QED
    BY <2>2, <2>3
<1>4. CASE PutPacket
  <2>1. rationalize(write_now) /\ pc' = "put"
    BY <1>4 DEF PutPacket, Goto
  <2>2. LinkInv'
    BY <1>0, <2>1, RationalizeKeepsLinkInv
  <2>3. CallsSound'
    BY <1>0, <1>4, <2>1
    DEF PutPacket, CallsSound, rationalize, queueVars, linkTransit, loopVars, delayVars
  <2> QED
    BY <2>2, <2>3
<1>5. CASE ReadPacket
  <2>1. start_tick_' = TRUE /\ pc' \notin {"wait_link_end", "put"}
    BY <1>5 DEF ReadPacket, read_packet, Goto, AfterRead
  <2>2. LinkInv'
    <3>1. CASE UNCHANGED linkVars
      BY <1>0, <3>1, LinkUntouched
    <3>2. CASE ~ start_tick_ /\ start_link_trace(clock)
      BY <1>0, <3>2, StartKeepsLinkInv DEF CallsSound
    <3> QED
      BY <1>5, <3>1, <3>2 DEF ReadPacket
  <2> QED
    BY <2>1, <2>2 DEF CallsSound
<1>6. CASE PutPacketEnd
  <2>1. /\ put_packet_to_link_queue(next_packet) /\ Replayed /\ pc' = "write_next"
        /\ next_packet \in DelayQueuePackets /\ start_tick_ /\ start_tick_' = start_tick_
    BY <1>0, <1>6
    DEF PutPacketEnd, put_packet_to_link_queue, CallsSound, Goto, ControlInv, delayVars
  <2>2. AsQueued(next_packet, rat_now) \in QueuedPackets
    BY <1>0, <2>1 DEF AsQueued, QueuedPackets, DelayQueuePackets
  <2>3. LinkInv'
    BY <1>0, <2>1, <2>2, PutKeepsLinkInv
  <2> QED
    BY <2>1, <2>3 DEF CallsSound
<1>7. CASE Drain
  <2>1. LinkInv'
    BY <1>0, <1>7, WriteKeepsLinkInv DEF Drain
  <2>2. CallsSound'
    BY <1>0, <1>7
    DEF Drain, Goto, CallsSound, write_one_from_link_queue, queueVars, linkTransit,
        delayVars, loopVars
  <2> QED
    BY <2>1, <2>2
<1>8. CASE RationalizeStep
  <2>1. rationalize_steps /\ UNCHANGED <<delayVars, loopVars, pc>>
    BY <1>8 DEF RationalizeStep
  <2>2. LinkInv' /\ rat_now' = rat_now
    BY <1>0, <2>1, StepsKeepLinkInv
    DEF rationalize_steps, burn_opportunity, rationalize_return, opportunity_done,
        fetch_packet, send_bytes
  <2>3. link_pc' = "idle" => Replayed'
    BY <1>0, <2>1, ReturnKeepsLinkInv
    DEF rationalize_steps, burn_opportunity, opportunity_done, fetch_packet, send_bytes
  <2>4. ASSUME ~ start_tick_
        PROVE  internal_queue_' = <<>> /\ packet_in_transit_bytes_left_' = 0
    <3>1. internal_queue_ = <<>> /\ packet_in_transit_bytes_left_ = 0
      BY <1>0, <2>4 DEF CallsSound
    <3>2. ~ send_bytes /\ ~ fetch_packet
      BY <1>0, <3>1 DEF LinkInv, TransitSound, send_bytes, fetch_packet, dequeue, empty
    <3> QED
      BY <2>1, <3>1, <3>2 DEF rationalize_steps, burn_opportunity, rationalize_return,
         opportunity_done, queueVars, linkTransit
  <2>5. CallsSound'
    BY <1>0, <2>1, <2>2, <2>3, <2>4 DEF CallsSound, delayVars, loopVars
  <2> QED
    BY <2>2, <2>5
<1>9. CASE WritePackets \/ WriteNext
  <2>1. UNCHANGED linkVars /\ pc' \in {"write_now", "write_loop"} /\ get_next_from_delay_queue
    BY <1>9 DEF WritePackets, WriteNext, Goto
  <2>2. LinkInv'
    BY <1>0, <2>1, LinkUntouched
  <2>3. start_tick_' = start_tick_
    BY <2>1 DEF get_next_from_delay_queue, pop_delay_queue, delayVars
  <2>4. ~ start_tick_ => ~ ReleaseDue(clock)
    BY <1>0 DEF CallsSound, ReleaseDue
  <2>5. CallsSound'
    BY <1>0, <2>1, <2>3, <2>4
    DEF CallsSound, get_next_from_delay_queue, linkVars, queueVars, linkTransit, delayVars
  <2> QED
    BY <2>2, <2>5
<1>10. CASE \/ WaitDelay \/ WaitLinkEnd \/ Poll \/ PollReadable \/ PollReturns
            \/ ReadPacketThrows \/ WriteNow \/ WriteDirect \/ WriteLoopEnd \/ DrainEnd
            \/ Tick \/ UNCHANGED cellVars
  <2>1. /\ UNCHANGED linkVars
        /\ UNCHANGED delayVars
        /\ next_packet' \in {next_packet, NoPacket}
        /\ pc' \in {"wait_link_end", "put"} => pc' = pc /\ write_now' = write_now
    BY <1>10 DEF WaitDelay, WaitLinkEnd, Poll, PollReadable, PollReturns, ReadPacketThrows,
       WriteNow, WriteDirect, WriteLoopEnd, DrainEnd, Tick, cellVars, loopVars, Goto, AfterRead
  <2>2. LinkInv' /\ (Replayed => Replayed')
    BY <1>0, <2>1, LinkUntouched
  <2>3. CallsSound'
    BY <1>0, <2>1, <2>2
    DEF CallsSound, linkVars, queueVars, linkTransit, linkLocals, delayVars
  <2> QED
    BY <2>2, <2>3
<1> QED
  BY <1>3, <1>4, <1>5, <1>6, <1>7, <1>8, <1>9, <1>10 DEF Next, LoopStep, Over

\* LinkLoopInv holds throughout.
LEMMA LinkLoopInvHolds ==
  ASSUME DropsOneAtMost
  PROVE  Spec => []LinkLoopInv
<1>1. Init => LinkLoopInv
  <2>1. SUFFICES ASSUME Init PROVE LinkLoopInv
    OBVIOUS
  <2>2. LinkInv
    BY <2>1, LinkInitInv DEF Init
  <2>3. LoopTypeOK
    <3>1. <<>> \in Seq(Deliveries)
      BY EmptySeq, Zenon
    <3> QED
      BY <2>1, <3>1 DEF Init, LoopTypeOK
  <2>4. CallsSound
    BY <2>1 DEF Init, LinkInit, QueueInit, DelayInit, CallsSound
  <2> QED
    BY <2>2, <2>3, <2>4 DEF LinkLoopInv
<1>2. LinkLoopInv /\ DelayLoopInv /\ ControlInv /\ [Next]_cellVars => LinkLoopInv'
  BY LinkLoopInvStep
<1> QED
  BY <1>1, <1>2, ControlInvHolds, DelayLoopInvHolds, PTL DEF Spec

\* Type correctness of one direction of the link.
THEOREM CellularTypeCorrect ==
  ASSUME DropsOneAtMost
  PROVE  Spec => []TypeOK
<1>1. LinkLoopInv /\ DelayLoopInv => TypeOK
  BY DEF LinkLoopInv, DelayLoopInv, LinkInv, DelayInv, LoopTypeOK, TypeOK, Deliveries
<1> QED
  BY <1>1, LinkLoopInvHolds, DelayLoopInvHolds, PTL

\* No assert of the link or of its packet queue fails in the process that runs
\* them, although put_packet_to_link_queue is given a time read earlier and the
\* first packet read moves the base of the schedule.
THEOREM CellularNeverAborts ==
  ASSUME DropsOneAtMost
  PROVE  Spec => []LinkAssertsHold
<1>1. LinkLoopInv => LinkAssertsHold
  BY DEF LinkLoopInv, LinkInv
<1> QED
  BY <1>1, LinkLoopInvHolds, PTL

-----------------------------------------------------------------------------
(* The times at which packets move *)

\* A packet the link holds was released, and the time it was put on the link
\* with is stale by no more than the process lost.
Ready(p) ==
  /\ p.release_time <= clock
  /\ p.release_time <= p.arrival_time + MaxStall

ContentsReady == \A i \in 1..Len(LinkContents) : Ready(LinkContents[i])

NothingEarly ==
  \A i \in 1..Len(delivered) : delivered[i].time >= delivered[i].release_time

TimeInv ==
  /\ stall <= MaxStall
  /\ ContentsReady
  /\ next_packet # NoPacket => next_packet.release_time <= clock
  /\ pc \in {"write_loop", "put", "write_next"} => clock <= write_now + stall
  /\ NothingEarly

\* No step turns the clock back, and no step puts more on the account of the
\* process than it may lose.
LEMMA ClockStep ==
  ASSUME clock \in Nat, stall \in Nat, stall <= MaxStall, [Next]_cellVars
  PROVE  /\ clock' \in Nat /\ clock <= clock'
         /\ stall' \in Nat /\ stall' <= MaxStall
         /\ clock' # clock => Tick /\ clock' = clock + 1
<1>1. CASE Tick
  <2>1. clock' = clock + 1
    BY <1>1 DEF Tick
  <2>2. \/ stall' = stall
        \/ stall < MaxStall /\ stall' = stall + 1
    BY <1>1 DEF Tick
  <2> QED
    BY <1>1, <2>1, <2>2, CellularAssumption
<1>2. CASE Poll
  BY <1>2, CellularAssumption DEF Poll
<1>3. CASE WaitDelay \/ WaitLink \/ WaitLinkEnd \/ PollReadable \/ PollReturns
           \/ ReadPacket \/ ReadPacketThrows \/ WritePackets \/ WriteNow \/ WriteDirect
           \/ PutPacket \/ PutPacketEnd \/ WriteNext \/ WriteLoopEnd \/ Drain \/ DrainEnd
           \/ RationalizeStep \/ UNCHANGED cellVars
  <2>1. clock' = clock /\ stall' = stall
    BY <1>3 DEF WaitDelay, WaitLink, WaitLinkEnd, PollReadable, PollReturns, ReadPacket,
       ReadPacketThrows, WritePackets, WriteNow, WriteDirect, PutPacket, PutPacketEnd,
       WriteNext, WriteLoopEnd, Drain, DrainEnd, RationalizeStep, cellVars
  <2> QED
    BY <2>1
<1> QED
  BY <1>1, <1>2, <1>3 DEF Next, LoopStep, Over

\* What the steps of the loop do to what the link holds: they leave it alone,
\* put next_packet behind it, with a loss if the queue has a limit, or take the
\* first packet out.
LEMMA ContentsStep ==
  ASSUME LinkLoopInv, DelayLoopInv, ControlInv, [Next]_cellVars
  PROVE  \/ LinkContents' = LinkContents /\ ~ PutPacketEnd /\ ~ Drain
         \/ PutPacketEnd /\ LinkContents' = Append(LinkContents, AsQueued(next_packet, rat_now))
         \/ /\ PutPacketEnd
            /\ QueueType # "infinite"
            /\ \E k \in 1..(Len(LinkContents) + 1) :
                 IsWithout(LinkContents',
                           Append(LinkContents, AsQueued(next_packet, rat_now)), k)
         \/ /\ Drain
            /\ LinkContents # <<>>
            /\ Head(LinkContents) = Head(output_queue_)
            /\ LinkContents' = Tail(LinkContents)
<1>0. LinkInv
  BY DEF LinkLoopInv
<1>1. CASE PutPacketEnd
  <2>1. put_packet_to_link_queue(next_packet)
    BY <1>1 DEF PutPacketEnd
  <2>2. next_packet \in DelayQueuePackets
    BY <1>1 DEF PutPacketEnd, Goto, ControlInv, DelayLoopInv
  <2>3. AsQueued(next_packet, rat_now) \in QueuedPackets
    BY <1>0, <2>2 DEF AsQueued, QueuedPackets, DelayQueuePackets, LinkInv, LinkTypeOK
  <2>4. \/ LinkContents' = Append(LinkContents, AsQueued(next_packet, rat_now))
        \/ /\ QueueType # "infinite"
           /\ \E k \in 1..(Len(LinkContents) + 1) :
                IsWithout(LinkContents',
                          Append(LinkContents, AsQueued(next_packet, rat_now)), k)
    BY <1>0, <2>1, <2>3, PutOnContents
  <2> QED
    BY <1>1, <2>4
<1>2. CASE Drain
  BY <1>0, <1>2, WriteTakesFirst DEF Drain
<1>3. CASE ~ PutPacketEnd /\ ~ Drain
  <2>1. CASE RationalizeStep
    BY <1>0, <1>3, <2>1, StepsKeepContents DEF RationalizeStep
  <2>2. CASE WaitLink \/ PutPacket
    BY <1>3, <2>2
    DEF WaitLink, PutPacket, rationalize, LinkContents, InTransit, queueVars, linkTransit
  <2>3. CASE ReadPacket
    BY <1>3, <2>3
    DEF ReadPacket, start_link_trace, LinkContents, InTransit, linkVars, queueVars,
        linkTransit
  <2>4. CASE UNCHANGED linkVars
    BY <1>3, <2>4 DEF LinkContents, InTransit, linkVars, queueVars, linkTransit
  <2>5. CASE WaitDelay \/ WaitLinkEnd \/ Poll \/ PollReadable \/ PollReturns
             \/ ReadPacketThrows \/ WritePackets \/ WriteNow \/ WriteDirect \/ WriteNext
             \/ WriteLoopEnd \/ DrainEnd \/ Tick \/ UNCHANGED cellVars
    BY <2>4, <2>5 DEF WaitDelay, WaitLinkEnd, Poll, PollReadable, PollReturns,
       ReadPacketThrows, WritePackets, WriteNow, WriteDirect, WriteNext, WriteLoopEnd,
       DrainEnd, Tick, cellVars
  <2> QED
    BY <1>3, <2>1, <2>2, <2>3, <2>5 DEF Next, LoopStep, Over
<1> QED
  BY <1>1, <1>2, <1>3

\* What a step does to the packets delivered.
LEMMA DeliveredStep ==
  ASSUME LinkLoopInv, DelayLoopInv, ControlInv, [Next]_cellVars
  PROVE  \/ ~ WriteDirect /\ ~ Drain /\ delivered' = delivered
         \/ /\ WriteDirect /\ next_packet \in DelayQueuePackets
            /\ delivered' = Append(delivered, Delivery(next_packet, TRUE))
         \/ Drain /\ delivered' = Append(delivered, Delivery(Head(LinkContents), FALSE))
<1>1. CASE WriteDirect
  BY <1>1 DEF WriteDirect, DelayLoopInv
<1>2. CASE Drain
  BY <1>2, WriteTakesFirst DEF Drain, LinkLoopInv
<1>3. CASE WaitDelay \/ WaitLink \/ WaitLinkEnd \/ Poll \/ PollReadable \/ PollReturns
           \/ ReadPacket \/ ReadPacketThrows \/ WritePackets \/ WriteNow
           \/ PutPacket \/ PutPacketEnd \/ WriteNext \/ WriteLoopEnd \/ DrainEnd
           \/ RationalizeStep \/ Tick \/ UNCHANGED cellVars
  <2>1. delivered' = delivered
    BY <1>3 DEF WaitDelay, WaitLink, WaitLinkEnd, Poll, PollReadable, PollReturns,
       ReadPacket, ReadPacketThrows, WritePackets, WriteNow, PutPacket, PutPacketEnd,
       WriteNext, WriteLoopEnd, DrainEnd, RationalizeStep, Tick, cellVars
  <2> QED
    BY <1>1, <1>2, <2>1
<1> QED
  BY <1>1, <1>2, <1>3 DEF Next, LoopStep, Over

\* Leaving one element out of a sequence leaves elements of the sequence.
LEMMA WithoutElements ==
  ASSUME NEW P, NEW s \in Seq(P), NEW t, NEW k \in 1..Len(s), IsWithout(t, s, k)
  PROVE  \A i \in 1..Len(t) : \E j \in 1..Len(s) : t[i] = s[j] /\ j # k
<1>1. Len(s) \in Nat
  BY LenProperties
<1> SUFFICES ASSUME NEW i \in 1..Len(t) PROVE \E j \in 1..Len(s) : t[i] = s[j] /\ j # k
  OBVIOUS
<1>2. CASE i < k
  <2>1. i \in 1..Len(s) /\ i # k /\ t[i] = s[i]
    BY <1>1, <1>2 DEF IsWithout
  <2> QED
    BY <2>1
<1>3. CASE ~ (i < k)
  <2>1. i + 1 \in 1..Len(s) /\ i + 1 # k /\ t[i] = s[i + 1]
    BY <1>1, <1>3 DEF IsWithout
  <2> QED
    BY <2>1
<1> QED
  BY <1>2, <1>3

\* The elements of a sequence with one more, and of one without its first.
LEMMA AppendElements ==
  ASSUME NEW P, NEW s \in Seq(P), NEW x \in P
  PROVE  /\ Append(s, x) \in Seq(P) /\ Len(Append(s, x)) = Len(s) + 1 /\ Len(s) \in Nat
         /\ \A i \in 1..Len(s) : Append(s, x)[i] = s[i]
         /\ Append(s, x)[Len(s) + 1] = x
BY AppendProperties, LenProperties

\* The elements of a sequence without its first.
LEMMA TailElements ==
  ASSUME NEW P, NEW s \in Seq(P), s # <<>>
  PROVE  /\ Tail(s) \in Seq(P) /\ Len(Tail(s)) = Len(s) - 1 /\ Len(s) \in Nat /\ Len(s) >= 1
         /\ \A i \in 1..(Len(s) - 1) : Tail(s)[i] = s[i + 1]
         /\ Head(s) = s[1] /\ Head(s) \in P
BY HeadTailProperties, LenProperties, EmptySeq

\* What the link holds stays ready.
LEMMA ContentsStayReady ==
  ASSUME LinkLoopInv, DelayLoopInv, ControlInv, TimeInv, [Next]_cellVars
  PROVE  ContentsReady'
<1> DEFINE s == LinkContents
           x == AsQueued(next_packet, rat_now)
<1>0. /\ clock \in Nat /\ stall \in Nat /\ stall <= MaxStall /\ MaxStall \in Nat
      /\ LinkInv /\ CallsSound /\ rat_now \in Nat /\ write_now \in Nat
  BY CellularAssumption
  DEF LinkLoopInv, LoopTypeOK, DelayLoopInv, TimeInv, LinkInv, LinkTypeOK
<1>1. s \in Seq(QueuedPackets)
  BY <1>0, ContentsType DEF LinkInv
<1>2. clock' \in Nat /\ clock <= clock'
  BY <1>0, ClockStep
<1>3. \A i \in 1..Len(s) : s[i] \in QueuedPackets /\ Ready(s[i])
  BY <1>1 DEF TimeInv, ContentsReady
<1>4. ASSUME NEW p \in QueuedPackets, Ready(p) PROVE Ready(p)'
  BY <1>0, <1>2, <1>4 DEF Ready, QueuedPackets
<1>5. CASE LinkContents' = s
  BY <1>3, <1>4, <1>5 DEF ContentsReady
<1>6. CASE PutPacketEnd
  <2>1. /\ next_packet \in DelayQueuePackets /\ next_packet.release_time <= clock
        /\ rat_now = write_now /\ clock <= write_now + stall
    BY <1>0, <1>6 DEF PutPacketEnd, Goto, ControlInv, DelayLoopInv, TimeInv, CallsSound
  <2>2. x \in QueuedPackets /\ Ready(x)
    BY <1>0, <2>1 DEF AsQueued, QueuedPackets, DelayQueuePackets, Ready
  <2> HIDE DEF x, s
  <2> DEFINE u == Append(s, x)
  <2>3. /\ u \in Seq(QueuedPackets) /\ Len(u) = Len(s) + 1 /\ Len(s) \in Nat
        /\ \A i \in 1..Len(s) : u[i] = s[i]
        /\ u[Len(s) + 1] = x
    BY <1>1, <2>2, AppendElements
  <2> HIDE DEF u
  <2>4. \A i \in 1..Len(u) : u[i] \in QueuedPackets /\ Ready(u[i])
    <3>1. SUFFICES ASSUME NEW i \in 1..Len(u) PROVE u[i] \in QueuedPackets /\ Ready(u[i])
      OBVIOUS
    <3>2. i \in 1..Len(s) \/ i = Len(s) + 1
      BY <2>3
    <3> QED
      BY <1>3, <2>2, <2>3, <3>2
  <2>5. CASE LinkContents' = u
    BY <1>4, <2>4, <2>5 DEF ContentsReady
  <2>6. CASE \E k \in 1..(Len(s) + 1) : IsWithout(LinkContents', u, k)
    <3>1. PICK k \in 1..(Len(s) + 1) : IsWithout(LinkContents', u, k)
      BY <2>6
    <3>2. \A i \in 1..Len(LinkContents') : \E j \in 1..Len(u) : LinkContents'[i] = u[j]
      BY <2>3, <3>1, WithoutElements
    <3> QED
      BY <1>4, <2>4, <3>2 DEF ContentsReady
  <2>7. ~ Drain
    BY <1>6 DEF PutPacketEnd, Drain, Goto
  <2> QED
    BY <1>6, <2>5, <2>6, <2>7, ContentsStep DEF s, x, u
<1>7. CASE Drain
  <2>1. s # <<>> /\ LinkContents' = Tail(s)
    BY <1>7, ContentsStep DEF PutPacketEnd, Drain, Goto
  <2> HIDE DEF s
  <2>2. /\ Len(Tail(s)) = Len(s) - 1 /\ Len(s) \in Nat
        /\ \A i \in 1..(Len(s) - 1) : Tail(s)[i] = s[i + 1]
    BY <1>1, <2>1, TailElements
  <2>3. \A i \in 1..Len(Tail(s)) : Tail(s)[i] \in QueuedPackets /\ Ready(Tail(s)[i])
    BY <1>3, <2>2
  <2> QED
    BY <1>4, <2>1, <2>3 DEF ContentsReady
<1> QED
  BY <1>5, <1>6, <1>7, ContentsStep

\* Nothing is delivered early.
LEMMA NothingBecomesEarly ==
  ASSUME LinkLoopInv, DelayLoopInv, ControlInv, TimeInv, [Next]_cellVars
  PROVE  NothingEarly'
<1>0. /\ delivered \in Seq(Deliveries) /\ LinkInv /\ clock \in Nat
      /\ \A i \in 1..Len(delivered) : delivered[i].time >= delivered[i].release_time
  BY DEF LinkLoopInv, LoopTypeOK, TimeInv, NothingEarly, DelayLoopInv
<1>1. ASSUME NEW d \in Deliveries, d.time >= d.release_time,
             delivered' = Append(delivered, d)
      PROVE  NothingEarly'
  <2>1. /\ Len(delivered') = Len(delivered) + 1 /\ Len(delivered) \in Nat
        /\ \A i \in 1..Len(delivered) : delivered'[i] = delivered[i]
        /\ delivered'[Len(delivered) + 1] = d
    BY <1>0, <1>1, AppendElements
  <2>2. SUFFICES ASSUME NEW i \in 1..Len(delivered')
                 PROVE  delivered'[i].time >= delivered'[i].release_time
    BY DEF NothingEarly
  <2>3. i \in 1..Len(delivered) \/ i = Len(delivered) + 1
    BY <2>1
  <2> QED
    BY <1>0, <1>1, <2>1, <2>3
<1>2. CASE delivered' = delivered
  BY <1>0, <1>2 DEF NothingEarly
<1>3. CASE WriteDirect
  <2>1. /\ next_packet \in DelayQueuePackets /\ next_packet.release_time <= clock
        /\ delivered' = Append(delivered, Delivery(next_packet, TRUE))
    BY <1>3 DEF WriteDirect, DelayLoopInv, TimeInv
  <2>2. /\ Delivery(next_packet, TRUE) \in Deliveries
        /\ Delivery(next_packet, TRUE).time >= Delivery(next_packet, TRUE).release_time
    BY <1>0, <2>1 DEF Delivery, Deliveries, DelayQueuePackets
  <2> QED
    BY <1>1, <2>1, <2>2
<1>4. CASE Drain
  <2> DEFINE s == LinkContents
  <2>1. s # <<>> /\ delivered' = Append(delivered, Delivery(Head(s), FALSE))
    BY <1>0, <1>4, WriteTakesFirst DEF Drain
  <2>2. s \in Seq(QueuedPackets) /\ \A i \in 1..Len(s) : Ready(s[i])
    BY <1>0, ContentsType DEF LinkInv, TimeInv, ContentsReady
  <2> HIDE DEF s
  <2>3. Head(s) \in QueuedPackets /\ Ready(Head(s))
    <3>1. Head(s) = s[1] /\ 1 \in 1..Len(s) /\ Head(s) \in QueuedPackets
      BY <2>1, <2>2, TailElements
    <3> QED
      BY <2>2, <3>1
  <2>4. /\ Delivery(Head(s), FALSE) \in Deliveries
        /\ Delivery(Head(s), FALSE).time >= Delivery(Head(s), FALSE).release_time
    BY <1>0, <2>3 DEF Delivery, Deliveries, QueuedPackets, Ready
  <2> QED
    BY <1>1, <2>1, <2>4
<1> QED
  BY <1>2, <1>3, <1>4, DeliveredStep

\* Every step of the loop preserves TimeInv.
LEMMA TimeInvStep ==
  ASSUME LinkLoopInv, DelayLoopInv, ControlInv, TimeInv, [Next]_cellVars
  PROVE  TimeInv'
<1>0. /\ clock \in Nat /\ stall \in Nat /\ stall <= MaxStall /\ write_now \in Nat
      /\ next_packet \in DelayQueuePackets \cup {NoPacket} /\ DelayInv
      /\ next_packet # NoPacket => next_packet.release_time <= clock
      /\ pc \in {"write_loop", "put", "write_next"} => clock <= write_now + stall
  BY DEF LinkLoopInv, LoopTypeOK, DelayLoopInv, TimeInv
<1>1. /\ clock' \in Nat /\ clock <= clock' /\ stall' \in Nat /\ stall' <= MaxStall
      /\ ContentsReady' /\ NothingEarly'
  BY <1>0, ClockStep, ContentsStayReady, NothingBecomesEarly
<1>2. SUFFICES /\ next_packet' # NoPacket => next_packet'.release_time <= clock'
               /\ pc' \in {"write_loop", "put", "write_next"} => clock' <= write_now' + stall'
  BY <1>1 DEF TimeInv, NoPacket
<1> USE DEF Goto
<1>3. CASE WritePackets \/ WriteNext
  <2>1. /\ get_next_from_delay_queue /\ UNCHANGED <<clock, stall, write_now>>
        /\ pc' \in {"write_loop", "put", "write_next"} => pc = "write_next"
    BY <1>3 DEF WritePackets, WriteNext
  <2>2. next_packet' # NoPacket => next_packet'.release_time <= clock'
    BY <2>1 DEF get_next_from_delay_queue, ReleaseDue
  <2> QED
    BY <1>0, <2>1, <2>2
<1>4. CASE WriteNow
  BY <1>0, <1>4 DEF WriteNow
<1>5. CASE Tick
  <2>1. UNCHANGED <<next_packet, write_now, pc>> /\ clock' = clock + 1
    BY <1>5 DEF Tick, loopVars
  <2>2. pc \in {"write_loop", "put", "write_next"} => stall' = stall + 1
    BY <1>5 DEF Tick, Blocked
  <2>3. next_packet # NoPacket => next_packet.release_time <= clock'
    BY <1>0, <2>1 DEF DelayQueuePackets
  <2> QED
    BY <1>0, <2>1, <2>2, <2>3
<1>6. CASE WaitDelay \/ WaitLink \/ WaitLinkEnd \/ Poll \/ PollReadable \/ PollReturns
           \/ ReadPacket \/ ReadPacketThrows \/ WriteDirect \/ PutPacket \/ PutPacketEnd
           \/ WriteLoopEnd \/ Drain \/ DrainEnd \/ RationalizeStep \/ UNCHANGED cellVars
  <2>1. /\ next_packet' \in {next_packet, NoPacket} /\ clock' = clock
        /\ pc' \in {"write_loop", "put", "write_next"} =>
             /\ pc \in {"write_loop", "put", "write_next"}
             /\ write_now' = write_now /\ stall' = stall
    BY <1>6 DEF WaitDelay, WaitLink, WaitLinkEnd, Poll, PollReadable, PollReturns,
       ReadPacket, ReadPacketThrows, WriteDirect, PutPacket, PutPacketEnd, WriteLoopEnd,
       Drain, DrainEnd, RationalizeStep, cellVars, loopVars, AfterRead
  <2> QED
    BY <1>0, <2>1
<1> QED
  BY <1>3, <1>4, <1>5, <1>6 DEF Next, LoopStep, Over

\* TimeInv holds throughout.
LEMMA TimeInvHolds ==
  ASSUME DropsOneAtMost
  PROVE  Spec => []TimeInv
<1>1. Init => TimeInv
  <2>1. SUFFICES ASSUME Init PROVE TimeInv
    OBVIOUS
  <2>2. LinkContents = <<>>
    <3>1. LinkContents = <<>> \o <<>> \o <<>>
      BY <2>1 DEF Init, LinkInit, QueueInit, LinkContents, InTransit
    <3> QED
      BY <3>1
  <2> QED
    BY <2>1, <2>2, CellularAssumption DEF Init, TimeInv, ContentsReady, NothingEarly
<1>2. LinkLoopInv /\ DelayLoopInv /\ ControlInv /\ TimeInv /\ [Next]_cellVars => TimeInv'
  BY TimeInvStep
<1> QED
  BY <1>1, <1>2, ControlInvHolds, DelayLoopInvHolds, LinkLoopInvHolds, PTL DEF Spec

\* A heavy packet is put on the link with a time read before the loop of
\* write_packets; however the process is delayed, that time is before the
\* packet's release by no more than the delay.
THEOREM ArrivalsNotStale ==
  ASSUME DropsOneAtMost
  PROVE  Spec => []LinkArrivalNotStale
<1>1. LinkLoopInv /\ TimeInv => LinkArrivalNotStale
  <2>1. SUFFICES ASSUME LinkLoopInv, TimeInv, NEW i \in 1..Len(internal_queue_)
                 PROVE  internal_queue_[i].arrival_time + MaxStall
                          >= internal_queue_[i].release_time
    BY DEF LinkLoopInv, LinkInv, LinkTypeOK, LinkArrivalNotStale
  <2> DEFINE a == output_queue_ \o InTransit
             q == internal_queue_
  <2>2. a \in Seq(QueuedPackets) /\ q \in Seq(QueuedPackets) /\ LinkContents = a \o q
    BY <2>1, ContentsType DEF LinkLoopInv, LinkInv, LinkContents
  <2> HIDE DEF a, q
  <2>3. /\ Len(LinkContents) = Len(a) + Len(q) /\ Len(a) \in Nat /\ Len(q) \in Nat
        /\ \A j \in 1..(Len(a) + Len(q)) :
             LinkContents[j] = IF j <= Len(a) THEN a[j] ELSE q[j - Len(a)]
    BY <2>2, ConcatProperties, LenProperties
  <2>4. /\ Len(a) + i \in 1..Len(LinkContents) /\ ~ (Len(a) + i <= Len(a))
        /\ (Len(a) + i) - Len(a) = i
    BY <2>1, <2>3 DEF q
  <2>5. LinkContents[Len(a) + i] = q[i]
    BY <2>3, <2>4
  <2>6. Ready(q[i]) /\ q[i] \in QueuedPackets
    BY <2>1, <2>2, <2>4, <2>5 DEF TimeInv, ContentsReady, q
  <2> QED
    BY <2>6, CellularAssumption DEF Ready, QueuedPackets, q
<1> QED
  BY <1>1, TimeInvHolds, LinkLoopInvHolds, PTL

-----------------------------------------------------------------------------
(* How long the process sleeps *)

\* The timeout that is being computed, counted from the time it is used at,
\* overshoots the first release by no more than the process has lost ...
TimeoutCovers(late) ==
  \A p \in delay_packet_queue_ : timeout = 0 \/ clock + timeout <= p.release_time + late

\* ... and so does the deadline of a poll that no output action cuts short.
SleepInv ==
  /\ pc \in {"wait_link_end", "poll"} => clock <= rat_now + stall
  /\ pc \in {"wait_link", "wait_link_end", "poll"} => TimeoutCovers(stall)
  /\ pc = "poll" => finished_ \/ clock + timeout <= next_delivery_time + stall
  /\ pc = "sleep" /\ ~ want_write =>
       /\ \A p \in delay_packet_queue_ : deadline <= p.release_time + MaxStall
       /\ finished_ \/ deadline <= next_delivery_time + MaxStall
  /\ pc = "sleep" => want_exit = finished_

\* If released packets are not pending output, every release is in the future.
LEMMA NothingPending ==
  ASSUME DelayInv, clock \in Nat, ~ pending_output
  PROVE  /\ output_queue_ = <<>>
         /\ \A p \in delay_packet_queue_ : clock < p.release_time
<1>1. output_queue_ = <<>> /\ ~ (wait_time_delay_queue <= 0)
  BY DEF pending_output
<1>2. ASSUME NEW p \in delay_packet_queue_ PROVE clock < p.release_time
  <2>1. /\ top \in DelayQueuePackets /\ top.release_time <= p.release_time
        /\ p \in DelayQueuePackets
    BY <1>2, TopWasReadFirst DEF DelayInv, DelayTypeOK
  <2>2. ~ (top.release_time <= clock)
    BY <1>1, <1>2, <2>1 DEF wait_time_delay_queue
  <2> QED
    BY <2>1, <2>2 DEF DelayQueuePackets
<1> QED
  BY <1>1, <1>2

\* Every step of the loop preserves SleepInv.
LEMMA SleepInvStep ==
  ASSUME LinkLoopInv, DelayLoopInv, ControlInv, TimeInv, SleepInv, [Next]_cellVars
  PROVE  SleepInv'
<1>0. /\ clock \in Nat /\ stall \in Nat /\ stall <= MaxStall /\ MaxStall \in Nat
      /\ rat_now \in Nat /\ timeout \in Nat /\ deadline \in Nat /\ DelayInv /\ CallsSound
      /\ next_delivery_time \in Nat /\ LinkInv /\ finished_ \in BOOLEAN
      /\ want_write \in BOOLEAN
  BY NextDeliveryTimeType, CellularAssumption
  DEF LinkLoopInv, LoopTypeOK, DelayLoopInv, TimeInv, LinkInv, LinkTypeOK
<1>1. \A p \in delay_packet_queue_ : p.release_time \in Nat
  BY <1>0 DEF DelayInv, DelayTypeOK, DelayQueuePackets
<1> USE DEF Goto
<1>2. CASE WaitDelay
  <2>1. /\ pc' = "wait_link" /\ timeout' = wait_time_delay_queue
        /\ UNCHANGED <<delayVars, clock, stall>>
    BY <1>2 DEF WaitDelay
  <2>2. TimeoutCovers(stall)'
    <3>1. SUFFICES ASSUME NEW p \in delay_packet_queue_
                   PROVE  timeout' = 0 \/ clock + timeout' <= p.release_time + stall
      BY <2>1 DEF TimeoutCovers, delayVars
    <3>2. /\ top \in DelayQueuePackets /\ top.release_time <= p.release_time
      BY <1>0, <3>1, TopWasReadFirst
    <3> QED
      BY <1>0, <1>1, <2>1, <3>1, <3>2 DEF wait_time_delay_queue, DelayQueuePackets
  <2> QED
    BY <2>1, <2>2 DEF SleepInv
<1>3. CASE WaitLink
  <2>1. /\ pc' = "wait_link_end" /\ pc = "wait_link" /\ rat_now' = clock
        /\ UNCHANGED <<delayVars, clock, stall, timeout>>
    BY <1>3 DEF WaitLink, rationalize, loopVars
  <2>2. TimeoutCovers(stall)'
    BY <2>1 DEF SleepInv, TimeoutCovers, delayVars
  <2> QED
    BY <1>0, <2>1, <2>2 DEF SleepInv
<1>4. CASE WaitLinkEnd
  <2>1. /\ pc = "wait_link_end" /\ pc' = "poll" /\ UNCHANGED <<linkVars, delayVars, clock, stall>>
        /\ timeout' = IF wait_time_link_queue < timeout THEN wait_time_link_queue ELSE timeout
        /\ link_pc = "idle"
    BY <1>4 DEF WaitLinkEnd
  <2>2. Replayed /\ clock <= rat_now + stall /\ TimeoutCovers(stall)
    BY <1>0, <2>1 DEF CallsSound, SleepInv
  <2>3. timeout' \in Nat /\ timeout' <= timeout
        /\ (finished_ \/ clock + timeout' <= next_delivery_time + stall)
    <3>1. wait_time_link_queue \in Nat
          /\ (finished_ \/ wait_time_link_queue <= next_delivery_time - rat_now)
      BY <1>0, <2>2, WaitForLink DEF Replayed
    <3> QED
      BY <1>0, <2>1, <2>2, <3>1 DEF Replayed
  <2>4. TimeoutCovers(stall)'
    BY <1>0, <1>1, <2>1, <2>2, <2>3 DEF TimeoutCovers, delayVars
  <2>5. rat_now' = rat_now /\ finished_' = finished_ /\ next_delivery_time' = next_delivery_time
    BY <2>1 DEF linkVars, linkTrace, linkLocals, next_delivery_time
  <2> QED
    BY <2>1, <2>2, <2>3, <2>4, <2>5 DEF SleepInv
<1>5. CASE Poll
  <2>1. /\ pc = "poll" /\ pc' = "sleep" /\ want_write' = pending_output
        /\ want_exit' = finished_ /\ deadline' = clock + timeout
        /\ UNCHANGED <<linkVars, delayVars>>
    BY <1>5 DEF Poll
  <2>2. /\ TimeoutCovers(stall)
        /\ finished_ \/ clock + timeout <= next_delivery_time + stall
    BY <2>1 DEF SleepInv
  <2>3. finished_' = finished_ /\ next_delivery_time' = next_delivery_time
        /\ delay_packet_queue_' = delay_packet_queue_
    BY <2>1 DEF linkVars, linkTrace, next_delivery_time, delayVars
  <2>4. ASSUME ~ want_write'
        PROVE  \A p \in delay_packet_queue_ : deadline' <= p.release_time + MaxStall
    <3>1. ~ pending_output
      BY <2>1, <2>4
    <3>2. \A p \in delay_packet_queue_ : clock < p.release_time
      BY <1>0, <3>1, NothingPending
    <3> QED
      BY <1>0, <1>1, <2>1, <2>2, <3>2 DEF TimeoutCovers
  <2>5. finished_ \/ deadline' <= next_delivery_time + MaxStall
    BY <1>0, <2>1, <2>2
  <2> QED
    BY <2>1, <2>3, <2>4, <2>5 DEF SleepInv
<1>6. CASE Tick
  <2>1. /\ UNCHANGED <<linkVars, delayVars, timeout, deadline, want_write, want_exit, pc>>
        /\ clock' = clock + 1 /\ pc # "wait_link_end"
    BY <1>6 DEF Tick, loopVars, ReadsClock
  <2>2. pc # "sleep" => stall' = stall + 1
    BY <1>6 DEF Tick, Blocked
  <2>3. rat_now' = rat_now /\ finished_' = finished_ /\ next_delivery_time' = next_delivery_time
        /\ delay_packet_queue_' = delay_packet_queue_
    BY <2>1 DEF linkVars, linkTrace, linkLocals, next_delivery_time, delayVars
  <2>4. pc \in {"wait_link", "wait_link_end", "poll"} => TimeoutCovers(stall)'
    BY <1>0, <1>1, <2>1, <2>2, <2>3 DEF SleepInv, TimeoutCovers
  <2>5. pc = "poll" => /\ clock' <= rat_now' + stall'
                       /\ finished_' \/ clock' + timeout' <= next_delivery_time' + stall'
    BY <1>0, <2>1, <2>2, <2>3 DEF SleepInv
  <2>6. /\ pc = "sleep" /\ ~ want_write =>
             /\ \A p \in delay_packet_queue_ : deadline <= p.release_time + MaxStall
             /\ finished_ \/ deadline <= next_delivery_time + MaxStall
        /\ pc = "sleep" => want_exit = finished_
    BY DEF SleepInv
  <2> QED
    BY <2>1, <2>3, <2>4, <2>5, <2>6 DEF SleepInv
<1>7. CASE RationalizeStep
  <2>1. /\ link_pc # "idle" /\ rat_now' = rat_now
        /\ UNCHANGED <<delayVars, timeout, clock, stall, pc>>
    BY <1>7 DEF RationalizeStep, rationalize_steps, burn_opportunity, rationalize_return,
       opportunity_done, fetch_packet, send_bytes, loopVars
  <2>2. pc \in {"wait_link_end", "put"}
    BY <2>1 DEF ControlInv
  <2>3. TimeoutCovers(stall) => TimeoutCovers(stall)'
    BY <2>1 DEF TimeoutCovers, delayVars
  <2> QED
    BY <2>1, <2>2, <2>3 DEF SleepInv
<1>8. CASE UNCHANGED cellVars
  BY <1>8 DEF cellVars, loopVars, linkVars, linkTrace, linkLocals, next_delivery_time,
     delayVars, SleepInv, TimeoutCovers
<1>9. CASE PollReadable \/ PollReturns \/ ReadPacket \/ ReadPacketThrows \/ WritePackets
           \/ WriteNow \/ WriteDirect \/ PutPacket \/ PutPacketEnd \/ WriteNext
           \/ WriteLoopEnd \/ Drain \/ DrainEnd
  <2>1. pc' \notin {"wait_link", "wait_link_end", "poll", "sleep"}
    BY <1>9 DEF PollReadable, PollReturns, ReadPacket, ReadPacketThrows, WritePackets,
       WriteNow, WriteDirect, PutPacket, PutPacketEnd, WriteNext, WriteLoopEnd, Drain,
       DrainEnd, AfterRead
  <2> QED
    BY <2>1 DEF SleepInv
<1> QED
  BY <1>2, <1>3, <1>4, <1>5, <1>6, <1>7, <1>8, <1>9 DEF Next, LoopStep, Over

\* SleepInv holds throughout.
LEMMA SleepInvHolds ==
  ASSUME DropsOneAtMost
  PROVE  Spec => []SleepInv
<1>1. Init => SleepInv
  BY DEF Init, SleepInv
<1>2. LinkLoopInv /\ DelayLoopInv /\ ControlInv /\ TimeInv /\ SleepInv /\ [Next]_cellVars
        => SleepInv'
  BY SleepInvStep
<1> QED
  BY <1>1, <1>2, ControlInvHolds, DelayLoopInvHolds, LinkLoopInvHolds, TimeInvHolds, PTL
  DEF Spec

\* The process never sleeps on work: wait_time and pending_output, evaluated at
\* four different times, together make poll wake up for the next release and
\* the next opportunity, late by no more than the process lost on the way.
THEOREM NeverSleepsOnWork ==
  ASSUME DropsOneAtMost
  PROVE  Spec => []NoSleepOnWork
<1>1. LinkLoopInv /\ DelayLoopInv /\ ControlInv /\ SleepInv => NoSleepOnWork
  <2>1. SUFFICES ASSUME LinkLoopInv, DelayLoopInv, ControlInv, SleepInv, Blocked
                 PROVE  /\ output_queue_ = <<>>
                        /\ delay_packet_queue_ # {} => clock < top.release_time + MaxStall
                        /\ finished_ \/ clock < next_delivery_time + MaxStall
    BY DEF NoSleepOnWork
  <2>2. pc = "sleep" /\ ~ want_write /\ clock < deadline
    BY <2>1 DEF Blocked
  <2>3. /\ output_queue_ = <<>>
        /\ \A p \in delay_packet_queue_ : deadline <= p.release_time + MaxStall
        /\ finished_ \/ deadline <= next_delivery_time + MaxStall
    BY <2>1, <2>2 DEF ControlInv, SleepInv
  <2>4. /\ clock \in Nat /\ deadline \in Nat /\ next_delivery_time \in Nat /\ MaxStall \in Nat
        /\ delay_packet_queue_ # {} =>
             top \in delay_packet_queue_ /\ top.release_time \in Nat
    BY <2>1, NextDeliveryTimeType, CellularAssumption, TopWasReadFirst
    DEF LinkLoopInv, LoopTypeOK, DelayLoopInv, LinkInv, LinkTypeOK, DelayQueuePackets
  <2> QED
    BY <2>2, <2>3, <2>4
<1> QED
  BY <1>1, ControlInvHolds, DelayLoopInvHolds, LinkLoopInvHolds, SleepInvHolds, PTL

-----------------------------------------------------------------------------
(* How late a packet that skips the link can be *)

\* A turn of the loop that poll ended early, and that has not drained the delay
\* queue yet, inherits the delays of the turn before.
Woken == {"sleep", "read", "write", "write_now", "write_loop", "put", "write_next"}

Allowed == (IF pc \in Woken /\ want_write THEN 2 * MaxStall ELSE MaxStall) + stall

LateBy(p, d) == clock <= p.release_time + d

\* Once write_packets finds no packet to release, none is waiting that is late
\* by more than the delays since.
LateInv ==
  /\ clock <= MaxTime
  /\ pc \notin {"exit", "terminated"} =>
       /\ \A p \in delay_packet_queue_ : LateBy(p, Allowed)
       /\ next_packet # NoPacket => LateBy(next_packet, Allowed)
  /\ pc \in {"write_now", "write_loop", "drain"} /\ next_packet = NoPacket =>
       \A p \in delay_packet_queue_ : LateBy(p, stall)

DirectOnTime ==
  \A i \in 1..Len(delivered) :
    delivered[i].direct => delivered[i].time <= delivered[i].release_time + 3 * MaxStall

\* Every step of the loop preserves LateInv.
LEMMA LateInvStep ==
  ASSUME FirstLineAtZero, OffsetsOnlyDelay, FarFromWrap(MaxTime),
         LinkLoopInv, DelayLoopInv, ControlInv, TimeInv, SleepInv, BaseDelayInterpolated,
         LateInv, [Next]_cellVars
  PROVE  LateInv'
<1>0. /\ clock \in Nat /\ stall \in Nat /\ stall <= MaxStall /\ MaxStall \in Nat
      /\ MaxTime \in Nat /\ clock <= MaxTime /\ DelayInv /\ deadline \in Nat
      /\ next_packet \in DelayQueuePackets \cup {NoPacket} /\ want_write \in BOOLEAN
      /\ TraceStartedBy(clock)
  BY CellularAssumption, ClockAssumption DEF LinkLoopInv, LoopTypeOK, DelayLoopInv, TimeInv, LateInv
<1>1. /\ delay_packet_queue_ \subseteq DelayQueuePackets
      /\ \A p \in DelayQueuePackets : p.release_time \in Nat
  BY <1>0 DEF DelayInv, DelayTypeOK, DelayQueuePackets
<1>2. Allowed \in Nat /\ stall <= Allowed
  BY <1>0 DEF Allowed
<1> USE DEF Goto
<1>3. CASE Tick
  <2>1. /\ UNCHANGED <<delayVars, next_packet, deadline, want_write, pc>>
        /\ clock' = clock + 1 /\ clock < MaxTime
    BY <1>3 DEF Tick, loopVars
  <2>2. \/ Blocked /\ stall' = stall
        \/ stall' = stall + 1
    BY <1>3 DEF Tick
  <2>3. delay_packet_queue_' = delay_packet_queue_
    BY <2>1 DEF delayVars
  <2>4. CASE Blocked /\ stall' = stall
    <3>1. pc = "sleep" /\ ~ want_write /\ clock < deadline /\ next_packet = NoPacket
      BY <2>4 DEF Blocked, ControlInv
    <3>2. \A p \in delay_packet_queue_ : deadline <= p.release_time + MaxStall
      BY <3>1 DEF SleepInv
    <3>3. Allowed' = MaxStall + stall
      BY <2>1, <2>4, <3>1 DEF Allowed
    <3>4. \A p \in delay_packet_queue_ : clock + 1 <= p.release_time + (MaxStall + stall)
      BY <1>0, <1>1, <3>1, <3>2
    <3>5. clock' <= MaxTime
      BY <1>0, <2>1
    <3> QED
      BY <2>1, <2>3, <3>1, <3>3, <3>4, <3>5 DEF LateInv, LateBy
  <2>5. CASE stall' = stall + 1
    <3>1. Allowed' = Allowed + 1
      BY <1>0, <2>1, <2>5 DEF Allowed
    <3>2. ASSUME NEW p \in DelayQueuePackets
          PROVE  /\ LateBy(p, Allowed) => LateBy(p, Allowed)'
                 /\ LateBy(p, stall) => LateBy(p, stall)'
      BY <1>0, <1>1, <1>2, <2>1, <2>5, <3>1 DEF LateBy
    <3>3. clock' <= MaxTime
      BY <1>0, <2>1
    <3> QED
      BY <1>0, <1>1, <2>1, <2>3, <3>2, <3>3 DEF LateInv
  <2> QED
    BY <2>2, <2>4, <2>5
<1>4. clock' # clock => Tick
  BY <1>0, ClockStep
<1>5. SUFFICES ASSUME clock' = clock PROVE LateInv'
  BY <1>3, <1>4
\* The other steps give the packets that remain at least as much time.
<1>6. ASSUME delay_packet_queue_' \subseteq delay_packet_queue_,
             next_packet' # NoPacket =>
               next_packet' \in delay_packet_queue_ \/ next_packet' = next_packet,
             pc \notin {"exit", "terminated"},
             pc' \in {"exit", "terminated"} \/ Allowed <= Allowed',
             Allowed' \in Int,
             pc' \in {"write_now", "write_loop", "drain"} /\ next_packet' = NoPacket =>
               \A p \in delay_packet_queue_' : LateBy(p, stall)'
      PROVE  LateInv'
  <2>1. ASSUME NEW p \in DelayQueuePackets, LateBy(p, Allowed), Allowed <= Allowed'
        PROVE  LateBy(p, Allowed)'
    BY <1>0, <1>1, <1>2, <1>5, <1>6, <2>1 DEF LateBy
  <2>2. /\ \A p \in delay_packet_queue_ : LateBy(p, Allowed)
        /\ next_packet # NoPacket => LateBy(next_packet, Allowed)
    BY <1>6 DEF LateInv
  <2> QED
    BY <1>0, <1>1, <1>5, <1>6, <2>1, <2>2 DEF LateInv
<1>7. CASE Poll
  <2>1. /\ pc = "poll" /\ pc' = "sleep" /\ want_write' = pending_output /\ stall' = 0
        /\ UNCHANGED <<delayVars, next_packet>>
    BY <1>7 DEF Poll
  <2>2. delay_packet_queue_' = delay_packet_queue_
    BY <2>1 DEF delayVars
  <2>3. CASE want_write'
    <3>1. Allowed' = 2 * MaxStall /\ Allowed = MaxStall + stall
      BY <1>0, <2>1, <2>3 DEF Allowed, Woken
    <3> QED
      BY <1>0, <1>6, <2>1, <2>2, <3>1
  <2>4. CASE ~ want_write'
    <3>1. Allowed' = MaxStall
      BY <1>0, <2>1, <2>4 DEF Allowed, Woken
    <3>2. ~ pending_output
      BY <2>1, <2>4
    <3>3. \A p \in delay_packet_queue_ : clock < p.release_time
      BY <1>0, <3>2, NothingPending
    <3>4. \A p \in delay_packet_queue_ : clock <= p.release_time + MaxStall
      BY <1>0, <1>1, <3>3
    <3>5. next_packet' = NoPacket
      BY <2>1 DEF ControlInv
    <3> QED
      BY <1>0, <1>5, <2>1, <2>2, <3>1, <3>4, <3>5 DEF LateInv, LateBy
  <2> QED
    BY <2>3, <2>4
<1>8. CASE ReadPacket
  <2>1. PICK size \in Sizes : read_packet(size, clock)
    BY <1>8 DEF ReadPacket
  <2>2. FarFromWrap(clock)
    <3>1. SUFFICES ASSUME NEW i \in 0..(NumLines - 1), NEW k \in 0..(NumLines - 1),
                          NEW j \in 0..(Len(Line(i).pdo) - 1),
                          NEW sz \in sizeof_iphdr..PACKET_SIZE
                   PROVE  clock + Line(k).delay + Pdo(i, j) + latency_offset(sz) < WORD
      BY DEF FarFromWrap
    <3>2. MaxTime + Line(k).delay + Pdo(i, j) + latency_offset(sz) < WORD
      BY DEF FarFromWrap
    <3>3. Line(k).delay \in Int /\ Pdo(i, j) \in Int /\ latency_offset(sz) \in Int
          /\ WORD \in Int
      <4>1. sz \in Nat /\ WORD \in Int
        BY TraceAssumption, PacketAssumption
      <4>2. Line(k).delay \in Nat
        BY TraceFacts
      <4>3. Pdo(i, j) \in Nat
        BY PdoFacts
      <4>4. latency_offset(sz) \in Int
        BY <4>1, LatencyOffsetType
      <4> QED
        BY <4>1, <4>2, <4>3, <4>4
    <3> QED
      BY <1>0, <3>2, <3>3
  <2>3. \A p \in delay_packet_queue_' \ delay_packet_queue_ : p.release_time >= clock
    BY <1>0, <2>1, <2>2, ReadNotReleasedEarly
  <2>4. PICK q \in DelayQueuePackets : delay_packet_queue_' = delay_packet_queue_ \cup {q}
    BY <1>0, <2>1, ReadKeepsDelayInv
  <2>5. /\ UNCHANGED <<next_packet, want_write, stall>> /\ pc = "read"
        /\ pc' = AfterRead
    BY <1>8 DEF ReadPacket, loopVars
  <2>6. Allowed' = Allowed \/ pc' = "exit"
    BY <2>5 DEF Allowed, AfterRead, Woken
  <2>7. next_packet' = NoPacket /\ pc' \in {"write", "exit", "wait_delay"}
    BY <2>5 DEF ControlInv, AfterRead
  <2>8. ASSUME NEW p \in delay_packet_queue_' PROVE LateBy(p, Allowed)
    <3>1. CASE p \in delay_packet_queue_
      BY <2>5, <3>1 DEF LateInv
    <3>2. CASE p \notin delay_packet_queue_
      BY <1>0, <1>1, <1>2, <2>3, <2>4, <3>2 DEF LateBy
    <3> QED
      BY <3>1, <3>2
  <2> QED
    BY <1>0, <1>5, <2>6, <2>7, <2>8 DEF LateInv, LateBy
<1>9. CASE WritePackets \/ WriteNext
  <2>1. /\ get_next_from_delay_queue /\ UNCHANGED <<stall, want_write>>
        /\ pc \in {"write", "write_next"} /\ pc' \in {"write_now", "write_loop"}
    BY <1>9 DEF WritePackets, WriteNext
  <2>2. Allowed' = Allowed
    BY <2>1 DEF Allowed, Woken
  <2>3. CASE ReleaseDue(clock)
    <3>1. /\ next_packet' = top /\ top \in delay_packet_queue_
          /\ delay_packet_queue_' \subseteq delay_packet_queue_
      BY <1>0, <2>1, <2>3, TopWasReadFirst
      DEF get_next_from_delay_queue, ReleaseDue, pop_delay_queue
    <3>2. next_packet' # NoPacket
      BY <1>1, <3>1, PacketAssumption DEF NoPacket, DelayQueuePackets
    <3> QED
      BY <1>2, <1>6, <2>1, <2>2, <3>1, <3>2
  <2>4. CASE ~ ReleaseDue(clock)
    <3>1. next_packet' = NoPacket /\ delay_packet_queue_' = delay_packet_queue_
      BY <2>1, <2>4 DEF get_next_from_delay_queue, delayVars
    <3>2. \A p \in delay_packet_queue_ : clock <= p.release_time + stall
      <4>1. SUFFICES ASSUME NEW p \in delay_packet_queue_
                     PROVE  clock <= p.release_time + stall
        OBVIOUS
      <4>2. top \in DelayQueuePackets /\ top.release_time <= p.release_time
        BY <1>0, <4>1, TopWasReadFirst
      <4>3. ~ (top.release_time <= clock)
        BY <2>4, <4>1 DEF ReleaseDue
      <4> QED
        BY <1>0, <1>1, <4>1, <4>2, <4>3
    <3>3. \A p \in delay_packet_queue_' : LateBy(p, stall)'
      BY <1>5, <2>1, <3>1, <3>2 DEF LateBy
    <3> QED
      BY <1>2, <1>6, <2>1, <2>2, <3>1, <3>3
  <2> QED
    BY <2>3, <2>4
<1>10. CASE WriteLoopEnd
  <2>1. /\ pc = "write_loop" /\ pc' = "drain" /\ next_packet = NoPacket
        /\ UNCHANGED <<delayVars, stall, next_packet>>
    BY <1>10 DEF WriteLoopEnd
  <2>2. delay_packet_queue_' = delay_packet_queue_
    BY <2>1 DEF delayVars
  <2>3. Allowed' = MaxStall + stall
    BY <2>1 DEF Allowed, Woken
  <2>4. \A p \in delay_packet_queue_ : LateBy(p, stall)
    BY <2>1 DEF LateInv
  <2>5. \A p \in delay_packet_queue_ : clock <= p.release_time + (MaxStall + stall)
    BY <1>0, <1>1, <2>4 DEF LateBy
  <2> QED
    BY <1>0, <1>5, <2>1, <2>2, <2>3, <2>4, <2>5 DEF LateInv, LateBy
<1>11. CASE UNCHANGED cellVars
  BY <1>11 DEF cellVars, loopVars, delayVars, LateInv, LateBy, Allowed
<1>12. CASE WaitDelay \/ WaitLink \/ WaitLinkEnd \/ PollReadable \/ PollReturns
            \/ ReadPacketThrows \/ WriteNow \/ WriteDirect \/ PutPacket \/ PutPacketEnd
            \/ Drain \/ DrainEnd \/ RationalizeStep
  <2>0. RationalizeStep => pc \in {"wait_link_end", "put"}
    BY DEF ControlInv, RationalizeStep, rationalize_steps, burn_opportunity,
       rationalize_return, opportunity_done, fetch_packet, send_bytes
  <2>1. /\ UNCHANGED <<delayVars, stall, want_write>>
        /\ pc \notin {"exit", "terminated"}
        /\ next_packet' \in {next_packet, NoPacket}
        /\ pc' \in {"write_now", "write_loop", "drain"} =>
             pc \in {"write_now", "write_loop", "drain"} /\ next_packet' = next_packet
    BY <1>12, <2>0 DEF WaitDelay, WaitLink, WaitLinkEnd, PollReadable, PollReturns,
       ReadPacketThrows, WriteNow, WriteDirect, PutPacket, PutPacketEnd, Drain, DrainEnd,
       RationalizeStep, loopVars, AfterRead
  <2>2. pc' \in {"exit", "terminated"} \/ Allowed' = Allowed
    <3>1. pc' \in {"exit", "terminated"} \/ ~ want_write \/ (pc' \in Woken <=> pc \in Woken)
      BY <1>12 DEF WaitDelay, WaitLink, WaitLinkEnd, PollReadable, PollReturns,
         ReadPacketThrows, WriteNow, WriteDirect, PutPacket, PutPacketEnd, Drain, DrainEnd,
         RationalizeStep, Woken, AfterRead
    <3> QED
      BY <2>1, <3>1 DEF Allowed
  <2>3. delay_packet_queue_' = delay_packet_queue_ /\ Allowed' \in Int
    <3>1. delay_packet_queue_' = delay_packet_queue_
      BY <2>1 DEF delayVars
    <3>2. Allowed' \in Int
      BY <1>0, <2>1 DEF Allowed
    <3> QED
      BY <3>1, <3>2
  <2>4. pc' \in {"write_now", "write_loop", "drain"} /\ next_packet' = NoPacket =>
          \A p \in delay_packet_queue_' : LateBy(p, stall)'
    BY <1>5, <2>1, <2>3 DEF LateInv, LateBy
  <2> QED
    BY <1>2, <1>6, <2>1, <2>2, <2>3, <2>4
<1> QED
  BY <1>3, <1>7, <1>8, <1>9, <1>10, <1>11, <1>12 DEF Next, LoopStep, Over

\* Packets that skip the link are on time.
LEMMA DirectStaysOnTime ==
  ASSUME LinkLoopInv, DelayLoopInv, ControlInv, TimeInv, LateInv, DirectOnTime,
         [Next]_cellVars
  PROVE  DirectOnTime'
<1>0. /\ delivered \in Seq(Deliveries) /\ LinkInv /\ clock \in Nat /\ stall \in Nat
      /\ stall <= MaxStall /\ MaxStall \in Nat
  BY CellularAssumption DEF LinkLoopInv, LoopTypeOK, TimeInv, DelayLoopInv
<1>1. ASSUME NEW d, d \in Deliveries,
             d.direct => d.time <= d.release_time + 3 * MaxStall,
             delivered' = Append(delivered, d)
      PROVE  DirectOnTime'
  <2>1. /\ Len(delivered') = Len(delivered) + 1 /\ Len(delivered) \in Nat
        /\ \A i \in 1..Len(delivered) : delivered'[i] = delivered[i]
        /\ delivered'[Len(delivered) + 1] = d
    BY <1>0, <1>1, AppendElements
  <2>2. SUFFICES ASSUME NEW i \in 1..Len(delivered')
                 PROVE  delivered'[i].direct =>
                          delivered'[i].time <= delivered'[i].release_time + 3 * MaxStall
    BY DEF DirectOnTime
  <2>3. i \in 1..Len(delivered) \/ i = Len(delivered) + 1
    BY <2>1
  <2> QED
    BY <1>1, <2>1, <2>3 DEF DirectOnTime
<1>2. CASE delivered' = delivered
  BY <1>2 DEF DirectOnTime
<1>3. CASE WriteDirect
  <2>1. /\ pc = "write_loop" /\ next_packet # NoPacket /\ next_packet \in DelayQueuePackets
        /\ delivered' = Append(delivered, Delivery(next_packet, TRUE))
    BY <1>3 DEF WriteDirect, DelayLoopInv, Goto
  <2>2. LateBy(next_packet, Allowed)
    BY <2>1 DEF LateInv
  <2>3. Allowed = 2 * MaxStall + stall \/ Allowed = MaxStall + stall
    BY DEF Allowed
  <2>4. next_packet.release_time \in Nat
    BY <2>1 DEF DelayQueuePackets
  <2>5. clock <= next_packet.release_time + 3 * MaxStall
    BY <1>0, <2>2, <2>3, <2>4 DEF LateBy
  <2>6. Delivery(next_packet, TRUE) \in Deliveries
    BY <1>0, <2>1 DEF Delivery, Deliveries, DelayQueuePackets
  <2> QED
    BY <1>1, <2>1, <2>5, <2>6 DEF Delivery
<1>4. CASE Drain
  <2>1. /\ delivered' = Append(delivered, Delivery(Head(LinkContents), FALSE))
        /\ Head(LinkContents) \in QueuedPackets
    <3> DEFINE s == LinkContents
    <3>1. s # <<>> /\ delivered' = Append(delivered, Delivery(Head(s), FALSE))
      BY <1>0, <1>4, WriteTakesFirst DEF Drain
    <3>2. s \in Seq(QueuedPackets)
      BY <1>0, ContentsType DEF LinkInv
    <3> HIDE DEF s
    <3>3. Head(s) \in QueuedPackets
      BY <3>1, <3>2, TailElements
    <3> QED
      BY <3>1, <3>3 DEF s
  <2>2. Delivery(Head(LinkContents), FALSE) \in Deliveries
    BY <1>0, <2>1 DEF Delivery, Deliveries, QueuedPackets
  <2> QED
    BY <1>1, <2>1, <2>2 DEF Delivery
<1> QED
  BY <1>2, <1>3, <1>4, DeliveredStep

\* No packet is delivered before its release time; and one that skips the link
\* queue is late by no more than the time the process lost in three turns of
\* its loop, if the trace starts at time 0, the offsets only delay, and no sum
\* of times comes near the end of the range of uint64_t.
THEOREM PacketsDeliveredOnTime ==
  ASSUME DropsOneAtMost, FirstLineAtZero, OffsetsOnlyDelay, FarFromWrap(MaxTime)
  PROVE  Spec => []DeliveredOnTime
<1> DEFINE Inv == LateInv /\ DirectOnTime
           Base == /\ LinkLoopInv /\ DelayLoopInv /\ ControlInv /\ TimeInv /\ SleepInv
                   /\ BaseDelayInterpolated
<1>1. Init => Inv
  <2>1. Init => LateInv
    BY CellularAssumption, ClockAssumption DEF Init, DelayInit, LateInv
  <2>2. Init => DirectOnTime
    BY DEF Init, DirectOnTime
  <2> QED
    BY <2>1, <2>2
<1>2. Base /\ Inv /\ [Next]_cellVars => Inv'
  BY LateInvStep, DirectStaysOnTime
<1>3. Base /\ Inv => DeliveredOnTime
  BY DEF DirectOnTime, TimeInv, NothingEarly, DeliveredOnTime, LinkLoopInv, LoopTypeOK
<1> HIDE DEF Inv
<1> QED
  BY <1>1, <1>2, <1>3, ControlInvHolds, DelayLoopInvHolds, LinkLoopInvHolds, TimeInvHolds,
     SleepInvHolds, BaseDelayStaysInterpolated, PTL DEF Spec

\* No packet is delivered before its release time, whatever the trace and the
\* offsets are.
THEOREM NothingDeliveredEarly ==
  ASSUME DropsOneAtMost
  PROVE  Spec => []NothingEarly
<1>1. TimeInv => NothingEarly
  BY DEF TimeInv
<1> QED
  BY <1>1, TimeInvHolds, PTL

-----------------------------------------------------------------------------
(* The counter of a queue that drops nothing *)

\* With an infinite queue current_link_queue_size_ is what its name says.
SizeExact == current_link_queue_size_ = Len(LinkContents)

\* Only putting a packet on the link and writing one from it move the counter.
LEMMA CounterStep ==
  ASSUME [Next]_cellVars, ~ PutPacketEnd, ~ Drain
  PROVE  current_link_queue_size_' = current_link_queue_size_
<1>1. CASE RationalizeStep
  BY <1>1 DEF RationalizeStep, rationalize_steps, burn_opportunity, rationalize_return,
     opportunity_done, fetch_packet, send_bytes
<1>2. CASE WaitLink \/ PutPacket \/ ReadPacket
  BY <1>2 DEF WaitLink, PutPacket, ReadPacket, rationalize, start_link_trace, linkVars
<1>3. CASE WaitDelay \/ WaitLinkEnd \/ Poll \/ PollReadable \/ PollReturns
           \/ ReadPacketThrows \/ WritePackets \/ WriteNow \/ WriteDirect \/ WriteNext
           \/ WriteLoopEnd \/ DrainEnd \/ Tick \/ UNCHANGED cellVars
  BY <1>3 DEF WaitDelay, WaitLinkEnd, Poll, PollReadable, PollReturns, ReadPacketThrows,
     WritePackets, WriteNow, WriteDirect, WriteNext, WriteLoopEnd, DrainEnd, Tick,
     cellVars, linkVars
<1> QED
  BY <1>1, <1>2, <1>3 DEF Next, LoopStep, Over

\* Nothing is dropped, so the counter and the contents move together.
LEMMA SizeExactStep ==
  ASSUME QueueType = "infinite", LinkLoopInv, DelayLoopInv, ControlInv, SizeExact,
         [Next]_cellVars
  PROVE  SizeExact'
<1> DEFINE s == LinkContents
           x == AsQueued(next_packet, rat_now)
<1>1. LinkInv /\ s \in Seq(QueuedPackets)
  BY ContentsType DEF LinkLoopInv, LinkInv
<1>2. CASE LinkContents' = s /\ ~ PutPacketEnd /\ ~ Drain
  BY <1>2, CounterStep DEF SizeExact
<1>3. CASE PutPacketEnd /\ LinkContents' = Append(s, x)
  <2>1. x \in QueuedPackets
    BY <1>1, <1>3 DEF PutPacketEnd, Goto, ControlInv, DelayLoopInv, AsQueued, QueuedPackets,
       DelayQueuePackets, LinkInv, LinkTypeOK
  <2>2. current_link_queue_size_' = current_link_queue_size_ + 1
    BY <1>3 DEF PutPacketEnd, put_packet_to_link_queue
  <2> HIDE DEF s, x
  <2>3. Len(LinkContents') = Len(s) + 1
    BY <1>1, <1>3, <2>1, AppendElements
  <2> QED
    BY <2>2, <2>3 DEF SizeExact, s
<1>4. CASE Drain /\ s # <<>> /\ LinkContents' = Tail(s)
  <2>1. current_link_queue_size_' = current_link_queue_size_ - 1
    BY <1>4 DEF Drain, write_one_from_link_queue
  <2> HIDE DEF s
  <2>2. Len(LinkContents') = Len(s) - 1
    BY <1>1, <1>4, TailElements
  <2> QED
    BY <2>1, <2>2 DEF SizeExact, s
<1> QED
  BY <1>2, <1>3, <1>4, ContentsStep

\* With an infinite queue a light packet is put on the link only behind packets
\* that are there: the counter that decides comes back to 0 whenever the link
\* is empty.  (With a queue that drops packets it does not.)
THEOREM LightSkipsIdleLink ==
  ASSUME QueueType = "infinite"
  PROVE  Spec => LightPacketsSkipIdleLink
<1>1. DropsOneAtMost
  BY DEF DropsOneAtMost
<1>2. Init => SizeExact
  <2>1. SUFFICES ASSUME Init PROVE SizeExact
    OBVIOUS
  <2>2. LinkContents = <<>> \o <<>> \o <<>> /\ current_link_queue_size_ = 0
    BY <2>1 DEF Init, LinkInit, QueueInit, LinkContents, InTransit
  <2> QED
    BY <2>2 DEF SizeExact
<1>3. LinkLoopInv /\ DelayLoopInv /\ ControlInv /\ SizeExact /\ [Next]_cellVars => SizeExact'
  BY SizeExactStep
<1>4. ControlInv /\ SizeExact /\ [Next]_cellVars =>
        [pc = "write_loop" /\ pc' = "put" /\ next_packet.is_bypass_link_queue =>
           LinkContents # <<>>]_cellVars
  <2> SUFFICES ASSUME SizeExact, Next, pc = "write_loop", pc' = "put",
                      next_packet.is_bypass_link_queue
               PROVE  LinkContents # <<>>
    OBVIOUS
  <2>1. ~ SkipsLink(next_packet)
    BY DEF Next, LoopStep, WaitDelay, WaitLink, WaitLinkEnd, Poll, PollReadable, PollReturns,
       ReadPacket, ReadPacketThrows, WritePackets, WriteNow, WriteDirect, PutPacket,
       PutPacketEnd, WriteNext, WriteLoopEnd, Drain, DrainEnd, RationalizeStep, Tick, Over,
       Goto, cellVars, loopVars
  <2>2. current_link_queue_size_ # 0
    BY <2>1 DEF SkipsLink
  <2> QED
    BY <2>2 DEF SizeExact
<1>5. Spec => []LinkLoopInv
  BY <1>1, LinkLoopInvHolds
<1> QED
  BY <1>2, <1>3, <1>4, <1>5, ControlInvHolds, DelayLoopInvHolds, PTL
  DEF Spec, LightPacketsSkipIdleLink

-----------------------------------------------------------------------------
(***************************************************************************)
(* One direction of the emulated link implements FifoChannel: packets are  *)
(* delivered in the order in which they were read and at most once, and    *)
(* only a packet queue with a limit loses any.  A packet is in one of      *)
(* three places, and the numbers of the packets grow from the front of the *)
(* link, over the packet that write_packets is holding, to the delay       *)
(* queue.                                                                  *)
(***************************************************************************)

(* Sequences of numbered packets *)

Numbers(s) == {s[i].sequence_number : i \in 1..Len(s)}

Sorted(s) ==
  \A i, j \in 1..Len(s) : i < j => s[i].sequence_number < s[j].sequence_number

Below(s, n) == \A i \in 1..Len(s) : s[i].sequence_number < n

\* Putting a packet with a higher number at the end.
LEMMA SortedAppend ==
  ASSUME NEW P, NEW s \in Seq(P), NEW x \in P, Sorted(s), Below(s, x.sequence_number)
  PROVE  /\ Sorted(Append(s, x))
         /\ Numbers(Append(s, x)) = Numbers(s) \cup {x.sequence_number}
         /\ \A n : Below(s, n) /\ x.sequence_number < n => Below(Append(s, x), n)
<1> DEFINE u == Append(s, x)
<1>1. /\ u \in Seq(P) /\ Len(u) = Len(s) + 1 /\ Len(s) \in Nat
      /\ \A i \in 1..Len(s) : u[i] = s[i]
      /\ u[Len(s) + 1] = x
  BY AppendElements
<1> HIDE DEF u
<1>2. \A i \in 1..Len(u) : i \in 1..Len(s) \/ i = Len(s) + 1
  BY <1>1
<1>3. Sorted(u)
  <2>1. SUFFICES ASSUME NEW i \in 1..Len(u), NEW j \in 1..Len(u), i < j
                 PROVE  u[i].sequence_number < u[j].sequence_number
    BY DEF Sorted
  <2>2. i \in 1..Len(s)
    BY <1>1, <2>1
  <2>3. CASE j \in 1..Len(s)
    BY <1>1, <2>1, <2>2, <2>3 DEF Sorted
  <2>4. CASE j = Len(s) + 1
    BY <1>1, <2>2, <2>4 DEF Below
  <2> QED
    BY <1>2, <2>3, <2>4
<1>4. Numbers(u) = Numbers(s) \cup {x.sequence_number}
  <2>1. ASSUME NEW n \in Numbers(u) PROVE n \in Numbers(s) \cup {x.sequence_number}
    BY <1>1, <1>2 DEF Numbers
  <2>2. ASSUME NEW n \in Numbers(s) PROVE n \in Numbers(u)
    <3>1. PICK i \in 1..Len(s) : n = s[i].sequence_number
      BY DEF Numbers
    <3>2. i \in 1..Len(u) /\ u[i] = s[i]
      BY <1>1
    <3> QED
      BY <3>1, <3>2 DEF Numbers
  <2>3. x.sequence_number \in Numbers(u)
    <3>1. Len(s) + 1 \in 1..Len(u)
      BY <1>1
    <3> QED
      BY <1>1, <3>1 DEF Numbers
  <2> QED
    BY <2>1, <2>2, <2>3
<1>5. ASSUME NEW n, Below(s, n), x.sequence_number < n PROVE Below(u, n)
  BY <1>1, <1>2, <1>5 DEF Below
<1> QED
  BY <1>3, <1>4, <1>5 DEF u

\* Taking the packet at k out.
LEMMA SortedWithout ==
  ASSUME NEW P, NEW s \in Seq(P), \A p \in P : p.sequence_number \in Nat,
         NEW t, NEW k \in 1..Len(s), IsWithout(t, s, k), Sorted(s)
  PROVE  /\ Sorted(t)
         /\ Numbers(t) = Numbers(s) \ {s[k].sequence_number}
         /\ \A n : Below(s, n) => Below(t, n)
<1>1. /\ Len(s) \in Nat /\ Len(t) = Len(s) - 1
      /\ \A i \in 1..Len(t) : t[i] = IF i < k THEN s[i] ELSE s[i + 1]
      /\ \A i \in 1..Len(s) : s[i].sequence_number \in Nat
  BY LenProperties DEF IsWithout
<1>2. \A i, j \in 1..Len(s) :
        i # j => s[i].sequence_number # s[j].sequence_number
  <2>1. SUFFICES ASSUME NEW i \in 1..Len(s), NEW j \in 1..Len(s), i # j
                 PROVE  s[i].sequence_number # s[j].sequence_number
    OBVIOUS
  <2>2. i < j \/ j < i
    BY <1>1, <2>1
  <2>3. \/ s[i].sequence_number < s[j].sequence_number
        \/ s[j].sequence_number < s[i].sequence_number
    BY <2>2 DEF Sorted
  <2> QED
    BY <1>1, <2>3
<1>3. Sorted(t)
  <2>1. SUFFICES ASSUME NEW i \in 1..Len(t), NEW j \in 1..Len(t), i < j
                 PROVE  t[i].sequence_number < t[j].sequence_number
    BY DEF Sorted
  <2>2. /\ i \in 1..Len(s) /\ j \in 1..Len(s) /\ i + 1 \in 1..Len(s) /\ j + 1 \in 1..Len(s)
        /\ i < j + 1 /\ i + 1 < j + 1 /\ (j < k => i < k)
    BY <1>1, <2>1
  <2>3. t[i] = (IF i < k THEN s[i] ELSE s[i + 1]) /\ t[j] = (IF j < k THEN s[j] ELSE s[j + 1])
    BY <1>1
  <2> QED
    BY <2>1, <2>2, <2>3 DEF Sorted
<1>4. \A i \in 1..Len(t) : \E j \in 1..Len(s) : t[i] = s[j] /\ j # k
  BY WithoutElements
<1>5. \A j \in 1..Len(s) : j # k => \E i \in 1..Len(t) : t[i] = s[j]
  <2>1. SUFFICES ASSUME NEW j \in 1..Len(s), j # k PROVE \E i \in 1..Len(t) : t[i] = s[j]
    OBVIOUS
  <2>2. CASE j < k
    <3>1. j \in 1..Len(t) /\ t[j] = s[j]
      BY <1>1, <2>2
    <3> QED
      BY <3>1
  <2>3. CASE ~ (j < k)
    <3>1. j - 1 \in 1..Len(t) /\ ~ (j - 1 < k) /\ (j - 1) + 1 = j
      BY <1>1, <2>1, <2>3
    <3>2. t[j - 1] = s[j]
      BY <1>1, <3>1
    <3> QED
      BY <3>1, <3>2
  <2> QED
    BY <2>2, <2>3
<1>6. Numbers(t) = Numbers(s) \ {s[k].sequence_number}
  <2>1. ASSUME NEW n \in Numbers(t) PROVE n \in Numbers(s) \ {s[k].sequence_number}
    <3>1. PICK i \in 1..Len(t) : n = t[i].sequence_number
      BY DEF Numbers
    <3>2. PICK j \in 1..Len(s) : t[i] = s[j] /\ j # k
      BY <1>4
    <3> QED
      BY <1>2, <3>1, <3>2 DEF Numbers
  <2>2. ASSUME NEW n \in Numbers(s) \ {s[k].sequence_number} PROVE n \in Numbers(t)
    <3>1. PICK j \in 1..Len(s) : n = s[j].sequence_number
      BY DEF Numbers
    <3>2. j # k
      BY <3>1
    <3>3. PICK i \in 1..Len(t) : t[i] = s[j]
      BY <1>5, <3>2
    <3> QED
      BY <3>1, <3>3 DEF Numbers
  <2> QED
    BY <2>1, <2>2
<1>7. \A n : Below(s, n) => Below(t, n)
  BY <1>4 DEF Below
<1> QED
  BY <1>3, <1>6, <1>7

\* Taking the first packet out: the lowest number.
LEMMA SortedTail ==
  ASSUME NEW P, NEW s \in Seq(P), \A p \in P : p.sequence_number \in Nat,
         s # <<>>, Sorted(s)
  PROVE  /\ Sorted(Tail(s))
         /\ Numbers(Tail(s)) = Numbers(s) \ {Head(s).sequence_number}
         /\ \A n : Below(s, n) => Below(Tail(s), n)
         /\ Head(s).sequence_number \in Numbers(s)
         /\ \A n \in Numbers(s) : Head(s).sequence_number <= n
<1> DEFINE t == Tail(s)
<1>1. /\ Len(t) = Len(s) - 1 /\ Len(s) \in Nat /\ Len(s) >= 1
      /\ \A i \in 1..(Len(s) - 1) : t[i] = s[i + 1]
      /\ Head(s) = s[1]
  BY TailElements
<1> HIDE DEF t
<1>2. IsWithout(t, s, 1) /\ 1 \in 1..Len(s)
  BY <1>1 DEF IsWithout
<1>3. /\ Sorted(t) /\ Numbers(t) = Numbers(s) \ {s[1].sequence_number}
      /\ \A n : Below(s, n) => Below(t, n)
  BY <1>2, SortedWithout
<1>4. s[1].sequence_number \in Numbers(s)
  BY <1>2 DEF Numbers
<1>5. ASSUME NEW n \in Numbers(s) PROVE s[1].sequence_number <= n
  <2>1. PICK i \in 1..Len(s) : n = s[i].sequence_number
    BY DEF Numbers
  <2>2. i = 1 \/ 1 < i
    BY <1>1
  <2>3. s[1].sequence_number \in Nat /\ s[i].sequence_number \in Nat
    BY <1>2
  <2> QED
    BY <1>2, <2>1, <2>2, <2>3 DEF Sorted
<1> QED
  BY <1>1, <1>3, <1>4, <1>5 DEF t

-----------------------------------------------------------------------------
(* The order of the packets on their way *)

\* Where packets are, the numbers grow from the link to the delay queue.
OrderInv ==
  /\ Sorted(LinkContents)
  /\ Below(LinkContents, pkt_counter_)
  /\ \A p \in delay_packet_queue_ : Below(LinkContents, p.sequence_number)
  /\ next_packet # NoPacket =>
       /\ next_packet.sequence_number < pkt_counter_
       /\ Below(LinkContents, next_packet.sequence_number)
       /\ \A p \in delay_packet_queue_ : next_packet.sequence_number < p.sequence_number

\* The numbers on their way, by place.
LEMMA InFlightParts ==
  ASSUME NEW D, NEW c \in Seq(QueuedPackets), NEW n
  PROVE  SequenceNumbers(D \cup Range(c) \cup ({n} \ {NoPacket}))
           = SequenceNumbers(D) \cup Numbers(c)
               \cup (IF n = NoPacket THEN {} ELSE {n.sequence_number})
<1>1. Range(c) = {c[i] : i \in 1..Len(c)}
  BY DEF Range
<1> QED
  BY <1>1 DEF SequenceNumbers, Numbers

\* What the proofs below use of the other invariants.
Sound == LinkLoopInv /\ DelayLoopInv /\ ControlInv

\* The packets have numbers.
LEMMA SoundFacts ==
  ASSUME Sound
  PROVE  /\ LinkContents \in Seq(QueuedPackets)
         /\ \A p \in QueuedPackets : p.sequence_number \in Nat
         /\ \A p \in DelayQueuePackets : p.sequence_number \in Nat
         /\ delay_packet_queue_ \subseteq DelayQueuePackets
         /\ pkt_counter_ \in Nat /\ DelayInv /\ LinkInv /\ clock \in Nat
         /\ TraceStartedBy(clock) /\ delivered \in Seq(Deliveries)
         /\ next_packet # NoPacket => next_packet \in DelayQueuePackets
         /\ InFlight = SequenceNumbers(delay_packet_queue_) \cup Numbers(LinkContents)
                         \cup (IF next_packet = NoPacket THEN {}
                               ELSE {next_packet.sequence_number})
<1>1. LinkInv /\ DelayInv
  BY DEF Sound, LinkLoopInv, DelayLoopInv
<1>2. LinkContents \in Seq(QueuedPackets)
  BY <1>1, ContentsType DEF LinkInv
<1>3. /\ \A p \in QueuedPackets : p.sequence_number \in Nat
      /\ \A p \in DelayQueuePackets : p.sequence_number \in Nat
  BY DEF QueuedPackets, DelayQueuePackets
<1>4. /\ delay_packet_queue_ \subseteq DelayQueuePackets
      /\ pkt_counter_ \in Nat /\ clock \in Nat
      /\ TraceStartedBy(clock) /\ delivered \in Seq(Deliveries)
      /\ next_packet # NoPacket => next_packet \in DelayQueuePackets
  BY <1>1 DEF Sound, DelayLoopInv, DelayInv, DelayTypeOK, LinkLoopInv, LoopTypeOK
<1>5. InFlight = SequenceNumbers(delay_packet_queue_) \cup Numbers(LinkContents)
                   \cup (IF next_packet = NoPacket THEN {}
                         ELSE {next_packet.sequence_number})
  BY <1>2, InFlightParts DEF InFlight
<1> QED
  BY <1>1, <1>2, <1>3, <1>4, <1>5

\* What the link holds is a sequence of packets.
LEMMA SoundTyped == Sound => LinkContents \in Seq(QueuedPackets)
BY SoundFacts

\* The same after a step.
LEMMA SoundFactsPrimed ==
  ASSUME Sound'
  PROVE  /\ LinkContents' \in Seq(QueuedPackets)
         /\ InFlight' = SequenceNumbers(delay_packet_queue_') \cup Numbers(LinkContents')
                          \cup (IF next_packet' = NoPacket THEN {}
                                ELSE {next_packet'.sequence_number})
<1>1. (LinkContents \in Seq(QueuedPackets))'
  BY SoundTyped, PTL
<1>2. LinkContents' \in Seq(QueuedPackets)
  BY <1>1 DEF QueuedPackets
<1>3. InFlight' = SequenceNumbers(delay_packet_queue_' \cup Range(LinkContents')
                                    \cup ({next_packet'} \ {NoPacket}))
  BY DEF InFlight, SequenceNumbers, NoPacket
<1> QED
  BY <1>2, <1>3, InFlightParts

\* Steps that neither read, release, put nor write leave the packets where they
\* are; WriteDirect only takes the one it holds.
LEMMA QuietStep ==
  ASSUME Sound, [Next]_cellVars,
         ~ ReadPacket, ~ WritePackets, ~ WriteNext, ~ PutPacketEnd, ~ Drain
  PROVE  /\ LinkContents' = LinkContents
         /\ delay_packet_queue_' = delay_packet_queue_ /\ pkt_counter_' = pkt_counter_
         /\ WriteDirect \/ (next_packet' = next_packet /\ delivered' = delivered)
         /\ WriteDirect => next_packet' = NoPacket
<1>1. LinkContents' = LinkContents
  BY ContentsStep DEF Sound
<1>2. UNCHANGED delayVars
  BY DEF Next, LoopStep, WaitDelay, WaitLink, WaitLinkEnd, Poll, PollReadable, PollReturns,
     ReadPacketThrows, WriteNow, WriteDirect, PutPacket, WriteLoopEnd, DrainEnd,
     RationalizeStep, Tick, Over, cellVars
<1>3. WriteDirect \/ (next_packet' = next_packet /\ delivered' = delivered)
  BY DEF Next, LoopStep, WaitDelay, WaitLink, WaitLinkEnd, Poll, PollReadable, PollReturns,
     ReadPacketThrows, WriteNow, PutPacket, WriteLoopEnd, DrainEnd,
     RationalizeStep, Tick, Over, cellVars, loopVars
<1>4. WriteDirect => next_packet' = NoPacket
  BY DEF WriteDirect
<1> QED
  BY <1>1, <1>2, <1>3, <1>4 DEF delayVars

\* Reading adds the next number behind all others.
LEMMA ReadStep ==
  ASSUME Sound, [Next]_cellVars, ReadPacket
  PROVE  /\ LinkContents' = LinkContents /\ delivered' = delivered
         /\ next_packet = NoPacket /\ next_packet' = NoPacket
         /\ pkt_counter_' = pkt_counter_ + 1
         /\ \E p \in DelayQueuePackets :
              /\ delay_packet_queue_' = delay_packet_queue_ \cup {p}
              /\ p.sequence_number = pkt_counter_
<1>1. PICK size \in Sizes : read_packet(size, clock)
  BY DEF ReadPacket
<1>2. /\ pkt_counter_' = pkt_counter_ + 1
      /\ \E p \in DelayQueuePackets :
           /\ delay_packet_queue_' = delay_packet_queue_ \cup {p}
           /\ p.sequence_number = pkt_counter_
  BY <1>1, SoundFacts, ReadKeepsDelayInv
<1>3. next_packet = NoPacket /\ next_packet' = NoPacket /\ delivered' = delivered
  BY DEF ReadPacket, Goto, Sound, ControlInv, loopVars
<1>4. LinkContents' = LinkContents
  BY ContentsStep DEF Sound, ReadPacket, PutPacketEnd, Drain, Goto
<1> QED
  BY <1>2, <1>3, <1>4

\* Releasing moves the packet that was read first out of the delay queue, or
\* nothing.
LEMMA ReleaseStep ==
  ASSUME Sound, [Next]_cellVars, WritePackets \/ WriteNext
  PROVE  /\ LinkContents' = LinkContents /\ delivered' = delivered
         /\ next_packet = NoPacket /\ pkt_counter_' = pkt_counter_
         /\ \/ next_packet' = NoPacket /\ delay_packet_queue_' = delay_packet_queue_
            \/ \E p \in delay_packet_queue_ :
                 /\ next_packet' = p /\ p # NoPacket
                 /\ delay_packet_queue_' = delay_packet_queue_ \ {p}
                 /\ \A q \in delay_packet_queue_ :
                      q # p => p.sequence_number < q.sequence_number
<1>1. /\ get_next_from_delay_queue /\ delivered' = delivered /\ next_packet = NoPacket
  BY DEF WritePackets, WriteNext, Goto, Sound, ControlInv
<1>2. LinkContents' = LinkContents
  BY ContentsStep DEF Sound, WritePackets, WriteNext, PutPacketEnd, Drain, Goto
<1>3. pkt_counter_' = pkt_counter_
  BY <1>1 DEF get_next_from_delay_queue, pop_delay_queue, delayVars
<1>4. CASE ReleaseDue(clock)
  <2>1. next_packet' = top /\ delay_packet_queue_' = delay_packet_queue_ \ {top}
    BY <1>1, <1>4 DEF get_next_from_delay_queue, pop_delay_queue
  <2>2. /\ top \in delay_packet_queue_ /\ top \in DelayQueuePackets
        /\ \A q \in delay_packet_queue_ : q # top => top.sequence_number < q.sequence_number
    BY <1>4, SoundFacts, TopWasReadFirst DEF ReleaseDue
  <2>3. top # NoPacket
    BY <2>2, PacketAssumption DEF NoPacket, DelayQueuePackets
  <2> QED
    BY <1>1, <1>2, <1>3, <2>1, <2>2, <2>3
<1>5. CASE ~ ReleaseDue(clock)
  <2>1. next_packet' = NoPacket /\ delay_packet_queue_' = delay_packet_queue_
    BY <1>1, <1>5 DEF get_next_from_delay_queue, delayVars
  <2> QED
    BY <1>1, <1>2, <1>3, <2>1
<1> QED
  BY <1>4, <1>5

\* Putting a packet on the link moves it, and may lose one.
LEMMA PutStep ==
  ASSUME Sound, OrderInv, [Next]_cellVars, PutPacketEnd
  PROVE  /\ delivered' = delivered /\ pkt_counter_' = pkt_counter_
         /\ delay_packet_queue_' = delay_packet_queue_
         /\ next_packet \in DelayQueuePackets /\ next_packet # NoPacket
         /\ next_packet' = NoPacket
         /\ Sorted(LinkContents')
         /\ \A n : /\ Below(LinkContents, n) /\ next_packet.sequence_number < n
                   => Below(LinkContents', n)
         /\ LET N == Numbers(LinkContents) \cup {next_packet.sequence_number}
            IN  \/ Numbers(LinkContents') = N
                \/ QueueType # "infinite" /\ \E n \in N : Numbers(LinkContents') = N \ {n}
<1> DEFINE s == LinkContents
           x == AsQueued(next_packet, rat_now)
           u == Append(s, x)
<1>1. /\ delivered' = delivered /\ pkt_counter_' = pkt_counter_
      /\ delay_packet_queue_' = delay_packet_queue_ /\ next_packet' = NoPacket
  BY DEF PutPacketEnd, delayVars
<1>2. next_packet # NoPacket /\ next_packet \in DelayQueuePackets
  BY SoundFacts DEF PutPacketEnd, Goto, Sound, ControlInv
<1>3. x \in QueuedPackets /\ x.sequence_number = next_packet.sequence_number
  BY <1>2 DEF AsQueued, QueuedPackets, DelayQueuePackets, Sound, LinkLoopInv, LinkInv,
     LinkTypeOK
<1>4. s \in Seq(QueuedPackets) /\ \A p \in QueuedPackets : p.sequence_number \in Nat
  BY SoundFacts
<1>5. Sorted(s) /\ Below(s, x.sequence_number)
  BY <1>2, <1>3 DEF OrderInv
<1>6. \/ LinkContents' = u
      \/ QueueType # "infinite" /\ \E k \in 1..(Len(s) + 1) : IsWithout(LinkContents', u, k)
  BY ContentsStep DEF Sound, PutPacketEnd, Drain, Goto
<1> HIDE DEF s, x
<1>7. /\ Sorted(u) /\ Numbers(u) = Numbers(s) \cup {x.sequence_number}
      /\ \A n : Below(s, n) /\ x.sequence_number < n => Below(u, n)
  BY <1>3, <1>4, <1>5, SortedAppend
<1>8. u \in Seq(QueuedPackets) /\ Len(u) = Len(s) + 1
  BY <1>3, <1>4, AppendElements
<1> HIDE DEF u
<1>9. CASE LinkContents' = u
  BY <1>1, <1>2, <1>3, <1>7, <1>9 DEF s
<1>10. CASE QueueType # "infinite" /\ \E k \in 1..(Len(s) + 1) : IsWithout(LinkContents', u, k)
  <2>1. PICK k \in 1..Len(u) : IsWithout(LinkContents', u, k)
    BY <1>8, <1>10
  <2> DEFINE t == LinkContents'
  <2>2. IsWithout(t, u, k)
    BY <2>1
  <2> HIDE DEF t
  <2>3. /\ Sorted(t) /\ Numbers(t) = Numbers(u) \ {u[k].sequence_number}
        /\ \A n : Below(u, n) => Below(t, n)
    BY <1>4, <1>7, <1>8, <2>2, SortedWithout
  <2>4. u[k].sequence_number \in Numbers(u)
    BY DEF Numbers
  <2> QED
    BY <1>1, <1>2, <1>3, <1>7, <1>10, <2>3, <2>4 DEF s, t
<1> QED
  BY <1>6, <1>9, <1>10

\* Writing from the link takes the lowest of all numbers.
LEMMA DrainStep ==
  ASSUME Sound, OrderInv, [Next]_cellVars, Drain
  PROVE  /\ pkt_counter_' = pkt_counter_ /\ next_packet' = next_packet
         /\ delay_packet_queue_' = delay_packet_queue_
         /\ next_packet = NoPacket
         /\ Sorted(LinkContents')
         /\ \A n : Below(LinkContents, n) => Below(LinkContents', n)
         /\ LET h == Head(LinkContents)
            IN  /\ h \in QueuedPackets
                /\ delivered' = Append(delivered, Delivery(h, FALSE))
                /\ h.sequence_number \in Numbers(LinkContents)
                /\ \A n \in Numbers(LinkContents) : h.sequence_number <= n
                /\ \A p \in delay_packet_queue_ : h.sequence_number < p.sequence_number
                /\ Numbers(LinkContents') = Numbers(LinkContents) \ {h.sequence_number}
<1> DEFINE s == LinkContents
<1>1. /\ pkt_counter_' = pkt_counter_ /\ next_packet' = next_packet
      /\ delay_packet_queue_' = delay_packet_queue_ /\ next_packet = NoPacket
  BY DEF Drain, Goto, Sound, ControlInv, delayVars, loopVars
<1>2. s # <<>> /\ LinkContents' = Tail(s)
      /\ delivered' = Append(delivered, Delivery(Head(s), FALSE))
  BY ContentsStep, DeliveredStep DEF Sound, PutPacketEnd, WriteDirect, Drain, Goto
<1>3. s \in Seq(QueuedPackets) /\ \A p \in QueuedPackets : p.sequence_number \in Nat
  BY SoundFacts
<1>4. Sorted(s) /\ \A p \in delay_packet_queue_ : Below(s, p.sequence_number)
  BY DEF OrderInv
<1> HIDE DEF s
<1>5. /\ Sorted(Tail(s))
      /\ Numbers(Tail(s)) = Numbers(s) \ {Head(s).sequence_number}
      /\ \A n : Below(s, n) => Below(Tail(s), n)
      /\ Head(s).sequence_number \in Numbers(s)
      /\ \A n \in Numbers(s) : Head(s).sequence_number <= n
  BY <1>2, <1>3, <1>4, SortedTail
<1>6. Head(s) = s[1] /\ 1 \in 1..Len(s) /\ Head(s) \in QueuedPackets
  BY <1>2, <1>3, TailElements
<1>7. \A p \in delay_packet_queue_ : Head(s).sequence_number < p.sequence_number
  BY <1>4, <1>6 DEF Below
<1> QED
  BY <1>1, <1>2, <1>5, <1>6, <1>7 DEF s

\* Every step of the loop preserves OrderInv.
LEMMA OrderInvStep ==
  ASSUME Sound, OrderInv, [Next]_cellVars
  PROVE  OrderInv'
<1>0. /\ LinkContents \in Seq(QueuedPackets) /\ pkt_counter_ \in Nat
      /\ \A p \in QueuedPackets : p.sequence_number \in Nat
      /\ \A p \in DelayQueuePackets : p.sequence_number \in Nat
      /\ delay_packet_queue_ \subseteq DelayQueuePackets
      /\ DelayInv /\ QueueNumbered
  BY SoundFacts DEF DelayInv
<1>1. CASE ReadPacket
  <2>1. PICK p \in DelayQueuePackets :
          /\ delay_packet_queue_' = delay_packet_queue_ \cup {p}
          /\ p.sequence_number = pkt_counter_
    BY <1>1, ReadStep
  <2>2. /\ LinkContents' = LinkContents /\ next_packet' = NoPacket
        /\ pkt_counter_' = pkt_counter_ + 1
    BY <1>1, ReadStep
  <2>3. Below(LinkContents, pkt_counter_ + 1)
    <3>1. SUFFICES ASSUME NEW i \in 1..Len(LinkContents)
                   PROVE  LinkContents[i].sequence_number < pkt_counter_ + 1
      BY DEF Below
    <3>2. LinkContents[i].sequence_number \in Nat
          /\ LinkContents[i].sequence_number < pkt_counter_
      BY <1>0 DEF OrderInv, Below
    <3> QED
      BY <1>0, <3>2
  <2> QED
    BY <2>1, <2>2, <2>3 DEF OrderInv, Sorted, Below, NoPacket
<1>2. CASE WritePackets \/ WriteNext
  <2>1. LinkContents' = LinkContents /\ pkt_counter_' = pkt_counter_
    BY <1>2, ReleaseStep
  <2>2. CASE next_packet' = NoPacket /\ delay_packet_queue_' = delay_packet_queue_
    BY <2>1, <2>2 DEF OrderInv, Sorted, Below, NoPacket
  <2>3. CASE \E p \in delay_packet_queue_ :
                 /\ next_packet' = p /\ p # NoPacket
                 /\ delay_packet_queue_' = delay_packet_queue_ \ {p}
                 /\ \A q \in delay_packet_queue_ :
                      q # p => p.sequence_number < q.sequence_number
    <3>1. PICK p \in delay_packet_queue_ :
                 /\ next_packet' = p
                 /\ delay_packet_queue_' = delay_packet_queue_ \ {p}
                 /\ \A q \in delay_packet_queue_ :
                      q # p => p.sequence_number < q.sequence_number
      BY <2>3
    <3>2. p.sequence_number < pkt_counter_
      BY <1>0 DEF QueueNumbered
    <3>3. Sorted(LinkContents)' /\ Below(LinkContents, pkt_counter_)'
          /\ \A q \in delay_packet_queue_' : Below(LinkContents, q.sequence_number)'
      BY <2>1, <3>1 DEF OrderInv, Sorted, Below
    <3>4. /\ next_packet'.sequence_number < pkt_counter_'
          /\ Below(LinkContents', next_packet'.sequence_number)
          /\ \A q \in delay_packet_queue_' : next_packet'.sequence_number < q.sequence_number
      BY <2>1, <3>1, <3>2 DEF OrderInv, Below
    <3> QED
      BY <3>3, <3>4 DEF OrderInv, Below, NoPacket
  <2> QED
    BY <1>2, <2>2, <2>3, ReleaseStep
<1>3. CASE PutPacketEnd
  <2>1. /\ pkt_counter_' = pkt_counter_
        /\ delay_packet_queue_' = delay_packet_queue_
        /\ next_packet # NoPacket /\ next_packet' = NoPacket
        /\ Sorted(LinkContents')
        /\ \A n : /\ Below(LinkContents, n) /\ next_packet.sequence_number < n
                  => Below(LinkContents', n)
    BY <1>3, PutStep
  <2>2. Below(LinkContents', pkt_counter_)
    BY <2>1 DEF OrderInv
  <2>3. \A p \in delay_packet_queue_ : Below(LinkContents', p.sequence_number)
    BY <2>1 DEF OrderInv
  <2> QED
    BY <2>1, <2>2, <2>3 DEF OrderInv, Sorted, Below, NoPacket
<1>4. CASE Drain
  <2>1. /\ pkt_counter_' = pkt_counter_ /\ next_packet' = NoPacket
        /\ delay_packet_queue_' = delay_packet_queue_
        /\ Sorted(LinkContents')
        /\ \A n : Below(LinkContents, n) => Below(LinkContents', n)
    BY <1>4, DrainStep
  <2>2. /\ Below(LinkContents', pkt_counter_)
        /\ \A p \in delay_packet_queue_ : Below(LinkContents', p.sequence_number)
    BY <2>1 DEF OrderInv
  <2> QED
    BY <2>1, <2>2 DEF OrderInv, Sorted, Below, NoPacket
<1>5. CASE ~ ReadPacket /\ ~ WritePackets /\ ~ WriteNext /\ ~ PutPacketEnd /\ ~ Drain
  <2>1. /\ LinkContents' = LinkContents
        /\ delay_packet_queue_' = delay_packet_queue_ /\ pkt_counter_' = pkt_counter_
        /\ next_packet' = next_packet \/ next_packet' = NoPacket
    BY <1>5, QuietStep
  <2> QED
    BY <2>1 DEF OrderInv, Sorted, Below, NoPacket
<1> QED
  BY <1>1, <1>2, <1>3, <1>4, <1>5

-----------------------------------------------------------------------------
(* The refinement *)

\* Delivering one more packet appends its number to the numbers delivered.
LEMMA ReceivedAppend ==
  ASSUME NEW S, NEW s \in Seq(S), NEW d \in S
  PROVE  [i \in DOMAIN Append(s, d) |-> Append(s, d)[i].sequence_number]
           = Append([i \in DOMAIN s |-> s[i].sequence_number], d.sequence_number)
<1> DEFINE t == Append(s, d)
           N == {e.sequence_number : e \in S}
           r == [i \in DOMAIN s |-> s[i].sequence_number]
           v == [i \in DOMAIN t |-> t[i].sequence_number]
<1>1. /\ t \in Seq(S) /\ Len(t) = Len(s) + 1 /\ Len(s) \in Nat
      /\ \A i \in 1..Len(s) : t[i] = s[i]
      /\ t[Len(s) + 1] = d
  BY AppendElements
<1> HIDE DEF t
<1>2. DOMAIN s = 1..Len(s) /\ DOMAIN t = 1..Len(t)
  BY <1>1
<1>3. /\ \A i \in 1..Len(s) : s[i].sequence_number \in N
      /\ \A i \in 1..Len(t) : t[i].sequence_number \in N
      /\ d.sequence_number \in N
  BY <1>1, <1>2
<1>4. r \in Seq(N) /\ Len(r) = Len(s) /\ v \in Seq(N) /\ Len(v) = Len(t)
  <2>1. r \in [1..Len(s) -> N] /\ v \in [1..Len(t) -> N]
    BY <1>2, <1>3
  <2> HIDE DEF r, v
  <2>2. Len(t) \in Nat
    BY <1>1
  <2>3. r \in Seq(N) /\ v \in Seq(N)
    BY <1>1, <2>1, <2>2, SeqDef
  <2> QED
    BY <1>1, <2>1, <2>2, <2>3, LenProperties
<1>5. /\ \A i \in 1..Len(s) : r[i] = s[i].sequence_number
      /\ \A i \in 1..Len(t) : v[i] = t[i].sequence_number
  BY <1>2
<1> HIDE DEF r, v, N
<1> DEFINE w == Append(r, d.sequence_number)
<1>6. /\ w \in Seq(N) /\ Len(w) = Len(r) + 1
      /\ \A i \in 1..Len(r) : w[i] = r[i]
      /\ w[Len(r) + 1] = d.sequence_number
  BY <1>3, <1>4, AppendElements
<1> HIDE DEF w
<1>7. \A i \in 1..Len(v) : v[i] = w[i]
  <2>1. SUFFICES ASSUME NEW i \in 1..Len(v) PROVE v[i] = w[i]
    OBVIOUS
  <2>2. i \in 1..Len(s) \/ i = Len(s) + 1
    BY <1>1, <1>4
  <2>3. CASE i \in 1..Len(s)
    BY <1>1, <1>4, <1>5, <1>6, <2>3
  <2>4. CASE i = Len(s) + 1
    BY <1>1, <1>4, <1>5, <1>6, <2>4
  <2> QED
    BY <2>2, <2>3, <2>4
<1>8. v = w
  BY <1>1, <1>4, <1>6, <1>7, SeqEqual
<1> QED
  BY <1>8 DEF v, w, r, t

\* Every step of the loop is a step of the channel, or leaves it alone.
LEMMA ChannelStep ==
  ASSUME Sound, Sound', OrderInv, [Next]_cellVars
  PROVE  [Channel!ChannelNext]_(Channel!channelVars)
<1> DEFINE D == delay_packet_queue_
           W == SequenceNumbers(D)
           L == Numbers(LinkContents)
           recv == [i \in DOMAIN delivered |-> delivered[i].sequence_number]
<1>0. /\ LinkContents \in Seq(QueuedPackets) /\ pkt_counter_ \in Nat
      /\ \A p \in QueuedPackets : p.sequence_number \in Nat
      /\ \A p \in DelayQueuePackets : p.sequence_number \in Nat
      /\ D \subseteq DelayQueuePackets /\ LinkInv /\ clock \in Nat
      /\ DelayInv /\ QueueNumbered /\ delivered \in Seq(Deliveries)
      /\ InFlight = W \cup L \cup (IF next_packet = NoPacket THEN {}
                                   ELSE {next_packet.sequence_number})
  BY SoundFacts DEF DelayInv
<1>1. InFlight' = SequenceNumbers(delay_packet_queue_') \cup Numbers(LinkContents')
                    \cup (IF next_packet' = NoPacket THEN {}
                          ELSE {next_packet'.sequence_number})
  BY SoundFactsPrimed
<1>2. ASSUME InFlight' = InFlight, pkt_counter_' = pkt_counter_, delivered' = delivered
      PROVE  UNCHANGED Channel!channelVars
  BY <1>2 DEF Channel!channelVars
<1>3. ASSUME pkt_counter_' = pkt_counter_ + 1, InFlight' = InFlight \cup {pkt_counter_},
             delivered' = delivered
      PROVE  Channel!Send
  BY <1>3 DEF Channel!Send
<1>4. ASSUME NEW d \in Deliveries, NEW n, n = d.sequence_number, n \in InFlight,
             \A m \in InFlight : n <= m, InFlight' = InFlight \ {n},
             delivered' = Append(delivered, d), pkt_counter_' = pkt_counter_
      PROVE  Channel!Receive
  <2>1. recv' = Append(recv, n)
    <3>1. [i \in DOMAIN Append(delivered, d) |-> Append(delivered, d)[i].sequence_number]
            = Append(recv, n)
      BY <1>0, <1>4, ReceivedAppend
    <3> QED
      BY <1>4, <3>1
  <2> QED
    BY <1>4, <2>1 DEF Channel!Receive
<1>5. ASSUME QueueType # "infinite", NEW n \in InFlight, InFlight' = InFlight \ {n},
             delivered' = delivered, pkt_counter_' = pkt_counter_
      PROVE  Channel!Lose
  BY <1>5 DEF Channel!Lose
<1>6. CASE ReadPacket
  <2>1. PICK p \in DelayQueuePackets : delay_packet_queue_' = D \cup {p}
                                       /\ p.sequence_number = pkt_counter_
    BY <1>6, ReadStep
  <2>2. /\ LinkContents' = LinkContents /\ delivered' = delivered
        /\ next_packet = NoPacket /\ next_packet' = NoPacket
        /\ pkt_counter_' = pkt_counter_ + 1
    BY <1>6, ReadStep
  <2>3. SequenceNumbers(D \cup {p}) = W \cup {pkt_counter_}
    BY <2>1 DEF SequenceNumbers
  <2>4. InFlight' = InFlight \cup {pkt_counter_}
    BY <1>0, <1>1, <2>1, <2>2, <2>3
  <2> QED
    BY <1>3, <2>2, <2>4 DEF Channel!ChannelNext
<1>7. CASE WritePackets \/ WriteNext
  <2>1. /\ LinkContents' = LinkContents /\ delivered' = delivered
        /\ next_packet = NoPacket /\ pkt_counter_' = pkt_counter_
    BY <1>7, ReleaseStep
  <2>2. CASE next_packet' = NoPacket /\ delay_packet_queue_' = delay_packet_queue_
    <3>1. InFlight' = InFlight
      BY <1>0, <1>1, <2>1, <2>2
    <3> QED
      BY <1>2, <2>1, <3>1
  <2>3. CASE \E p \in D : /\ next_packet' = p /\ p # NoPacket
                          /\ delay_packet_queue_' = D \ {p}
    <3>1. PICK p \in D : next_packet' = p /\ p # NoPacket /\ delay_packet_queue_' = D \ {p}
      BY <2>3
    <3>2. SequenceNumbers(D \ {p}) \cup {p.sequence_number} = W
      BY DEF SequenceNumbers
    <3>3. InFlight' = InFlight
      BY <1>0, <1>1, <2>1, <3>1, <3>2
    <3> QED
      BY <1>2, <2>1, <3>3
  <2> QED
    BY <1>7, <2>2, <2>3, ReleaseStep
<1>8. CASE PutPacketEnd
  <2> DEFINE N == L \cup {next_packet.sequence_number}
  <2>1. /\ delivered' = delivered /\ pkt_counter_' = pkt_counter_
        /\ delay_packet_queue_' = delay_packet_queue_
        /\ next_packet # NoPacket /\ next_packet' = NoPacket
        /\ \/ Numbers(LinkContents') = N
           \/ QueueType # "infinite" /\ \E n \in N : Numbers(LinkContents') = N \ {n}
    BY <1>8, PutStep
  <2>2. InFlight = W \cup N
    BY <1>0, <2>1
  <2>3. CASE Numbers(LinkContents') = N
    <3>1. InFlight' = InFlight
      BY <1>1, <2>1, <2>2, <2>3
    <3> QED
      BY <1>2, <2>1, <3>1
  <2>4. CASE QueueType # "infinite" /\ \E n \in N : Numbers(LinkContents') = N \ {n}
    <3>1. PICK n \in N : Numbers(LinkContents') = N \ {n}
      BY <2>4
    <3>2. n \notin W
      <4>1. SUFFICES ASSUME NEW p \in D, n = p.sequence_number PROVE FALSE
        BY DEF SequenceNumbers
      <4>2. p.sequence_number \in Nat /\ Below(LinkContents, p.sequence_number)
            /\ next_packet.sequence_number < p.sequence_number
        BY <1>0, <2>1 DEF OrderInv
      <4>3. CASE n = next_packet.sequence_number
        BY <4>1, <4>2, <4>3
      <4>4. CASE n \in L
        <5>1. PICK i \in 1..Len(LinkContents) : n = LinkContents[i].sequence_number
          BY <4>4 DEF Numbers
        <5>2. LinkContents[i].sequence_number < p.sequence_number
          BY <4>2 DEF Below
        <5> QED
          BY <4>1, <4>2, <5>1, <5>2
      <4> QED
        BY <3>1, <4>3, <4>4
    <3>3. InFlight' = InFlight \ {n} /\ n \in InFlight
      BY <1>1, <2>1, <2>2, <3>1, <3>2
    <3> QED
      BY <1>5, <2>1, <2>4, <3>3 DEF Channel!ChannelNext
  <2> QED
    BY <2>1, <2>3, <2>4
<1>9. CASE Drain
  <2> DEFINE h == Head(LinkContents)
  <2>1. /\ pkt_counter_' = pkt_counter_ /\ next_packet' = NoPacket
        /\ delay_packet_queue_' = delay_packet_queue_ /\ next_packet = NoPacket
        /\ h \in QueuedPackets
        /\ delivered' = Append(delivered, Delivery(h, FALSE))
        /\ h.sequence_number \in L
        /\ \A n \in L : h.sequence_number <= n
        /\ \A p \in D : h.sequence_number < p.sequence_number
        /\ Numbers(LinkContents') = L \ {h.sequence_number}
    BY <1>9, DrainStep
  <2> HIDE DEF h
  <2>2. InFlight = W \cup L
    BY <1>0, <2>1
  <2>3. h.sequence_number \in Nat /\ \A n \in W : n \in Nat /\ h.sequence_number < n
    BY <1>0, <2>1 DEF SequenceNumbers
  <2>4. InFlight' = InFlight \ {h.sequence_number} /\ h.sequence_number \in InFlight
    <3>1. h.sequence_number \notin W
      BY <2>3
    <3> QED
      BY <1>1, <2>1, <2>2, <3>1
  <2>5. \A m \in InFlight : h.sequence_number <= m
    BY <2>1, <2>2, <2>3
  <2>6. /\ Delivery(h, FALSE) \in Deliveries
        /\ Delivery(h, FALSE).sequence_number = h.sequence_number
    BY <1>0, <2>1 DEF Delivery, Deliveries, QueuedPackets
  <2> QED
    BY <1>4, <2>1, <2>4, <2>5, <2>6 DEF Channel!ChannelNext
<1>10. CASE WriteDirect
  <2> DEFINE n == next_packet.sequence_number
  <2>1. /\ pc = "write_loop" /\ next_packet # NoPacket /\ current_link_queue_size_ = 0
        /\ delivered' = Append(delivered, Delivery(next_packet, TRUE))
        /\ next_packet' = NoPacket /\ delay_packet_queue_' = D
        /\ pkt_counter_' = pkt_counter_
    BY <1>10 DEF WriteDirect, SkipsLink, Goto, delayVars
  <2>2. LinkContents' = LinkContents
    BY <1>10, ContentsStep DEF Sound, WriteDirect, PutPacketEnd, Drain, Goto
  <2>3. L = {}
    <3>1. 0 >= Len(LinkContents) /\ Len(LinkContents) \in Nat
      BY <1>0, <2>1, LenProperties DEF LinkInv, LinkSizeCovers
    <3> QED
      BY <3>1 DEF Numbers
  <2>4. next_packet \in DelayQueuePackets /\ n \in Nat
        /\ \A m \in W : m \in Nat /\ n < m
    BY <1>0, <2>1, SoundFacts DEF OrderInv, SequenceNumbers
  <2>5. InFlight = W \cup {n} /\ InFlight' = W
    BY <1>0, <1>1, <2>1, <2>2, <2>3
  <2>6. n \in InFlight /\ InFlight' = InFlight \ {n} /\ \A m \in InFlight : n <= m
    <3>1. n \notin W
      BY <2>4
    <3> QED
      BY <2>4, <2>5, <3>1
  <2>7. /\ Delivery(next_packet, TRUE) \in Deliveries
        /\ Delivery(next_packet, TRUE).sequence_number = n
    BY <1>0, <2>4 DEF Delivery, Deliveries, DelayQueuePackets
  <2> QED
    BY <1>4, <2>1, <2>6, <2>7 DEF Channel!ChannelNext
<1>11. CASE /\ ~ ReadPacket /\ ~ WritePackets /\ ~ WriteNext /\ ~ PutPacketEnd /\ ~ Drain
            /\ ~ WriteDirect
  <2>1. /\ LinkContents' = LinkContents
        /\ delay_packet_queue_' = delay_packet_queue_ /\ pkt_counter_' = pkt_counter_
        /\ next_packet' = next_packet /\ delivered' = delivered
    BY <1>11, QuietStep
  <2>2. InFlight' = InFlight
    BY <1>0, <1>1, <2>1
  <2> QED
    BY <1>2, <2>1, <2>2
<1> QED
  BY <1>6, <1>7, <1>8, <1>9, <1>10, <1>11

\* One direction of the emulated link is a FIFO channel, whatever the traces,
\* the offsets, the arrivals and the delays of the process are: no packet is
\* reordered or duplicated, not even where light packets skip the link queue,
\* and one is lost only by a packet queue that has a limit.
THEOREM LinkIsFifoChannel ==
  ASSUME DropsOneAtMost
  PROVE  Spec => ImplementsFifoChannel
<1>1. Init => OrderInv /\ Channel!ChannelInit
  <2>1. SUFFICES ASSUME Init PROVE OrderInv /\ Channel!ChannelInit
    OBVIOUS
  <2>2. LinkContents = <<>>
    <3>1. LinkContents = <<>> \o <<>> \o <<>>
      BY <2>1 DEF Init, LinkInit, QueueInit, LinkContents, InTransit
    <3> QED
      BY <3>1
  <2>3. /\ pkt_counter_ = 0 /\ delay_packet_queue_ = {} /\ next_packet = NoPacket
        /\ delivered = <<>>
    BY <2>1 DEF Init, DelayInit
  <2>4. OrderInv
    BY <2>2, <2>3 DEF OrderInv, Sorted, Below
  <2>5. InFlight = {}
    <3>1. Range(LinkContents) = {}
      BY <2>2 DEF Range
    <3> QED
      BY <2>3, <3>1 DEF InFlight, SequenceNumbers
  <2>6. [i \in DOMAIN delivered |-> delivered[i].sequence_number] = <<>>
    BY <2>3
  <2> QED
    BY <2>3, <2>4, <2>5, <2>6 DEF Channel!ChannelInit
<1>2. Sound /\ OrderInv /\ [Next]_cellVars => OrderInv'
  BY OrderInvStep
<1>3. Sound /\ Sound' /\ OrderInv /\ [Next]_cellVars
        => [Channel!ChannelNext]_(Channel!channelVars)
  BY ChannelStep
<1>4. Spec => []Sound
  BY ControlInvHolds, DelayLoopInvHolds, LinkLoopInvHolds, PTL DEF Sound
<1> QED
  BY <1>1, <1>2, <1>3, <1>4, PTL DEF Spec, ImplementsFifoChannel, Channel!ChannelSpec

=============================================================================
