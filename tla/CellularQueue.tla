--------------------------- MODULE CellularQueue ---------------------------
(***************************************************************************)
(* One direction of the emulated link: a process that runs Ferry::loop     *)
(* (src/src/packet/packetshell.cc) on a CellularQueue                      *)
(* (src/src/frontend/cellular_queue.cc).  Each turn of the loop computes   *)
(* the time to wait, polls, and runs the callbacks of the descriptors that *)
(* are ready, in the order in which they were registered: read a packet    *)
(* from the TUN device, write packets to the sibling's, exit.              *)
(*                                                                         *)
(* pc is the point the process has reached.  Time passes between any two   *)
(* reads of the clock: freely while the process is blocked in poll, and at *)
(* most MaxStall ms per turn of the loop while it is running.              *)
(***************************************************************************)
EXTENDS LinkQueue, DelayQueue, Clock, Functions

CONSTANTS
  ArrivalEnd,   \* no packet is read after this time (bound)
  MaxStall      \* ms the process may lose in one turn of its loop

ASSUME CellularAssumption ==
  /\ ArrivalEnd \in Nat
  /\ MaxStall \in Nat

VARIABLES
  pc,
  next_packet,  \* locals of write_packets
  write_now,
  timeout,      \* the value of wait_time()
  deadline,     \* when poll gives up
  want_write,   \* poll was asked for: pending_output()
  want_exit,    \* poll was asked for: finished()
  stall,
  delivered     \* history: the packets written to the sibling's TUN device

loopVars == <<next_packet, write_now, timeout, deadline, want_write, want_exit>>
cellVars == <<linkVars, delayVars, loopVars, clock, pc, stall, delivered>>

UINT16_MAX == 65535

\* DelayQueuePacket( "", 0 ), an empty packet.
NoPacket == [sequence_number |-> 0, size |-> 0, release_time |-> 0,
             is_bypass_link_queue |-> TRUE]

Init ==
  /\ LinkInit
  /\ DelayInit
  /\ clock = 0
  /\ pc = "wait_delay"
  /\ next_packet = NoPacket
  /\ write_now = 0
  /\ timeout = 0
  /\ deadline = 0
  /\ want_write = FALSE
  /\ want_exit = FALSE
  /\ stall = 0
  /\ delivered = <<>>

Goto(from, to) ==
  /\ ~ aborted
  /\ link_pc = "idle"
  /\ pc = from
  /\ pc' = to

-----------------------------------------------------------------------------
(* wait_time *)

\* Bug: the wait is taken from the last packet read, not from the first due.
wait_time_delay_queue_last ==
  IF delay_packet_queue_ = {} THEN UINT16_MAX
  ELSE IF end_release_time_ <= clock THEN 0
  ELSE end_release_time_ - clock

wait_time_delay_queue ==
  IF delay_packet_queue_ = {} THEN UINT16_MAX
  ELSE IF top.release_time <= clock THEN 0
  ELSE top.release_time - clock

WaitDelay ==
  /\ Goto("wait_delay", "wait_link")
  /\ timeout' = wait_time_delay_queue
  /\ UNCHANGED <<linkVars, delayVars, next_packet, write_now, deadline,
                 want_write, want_exit, clock, stall, delivered>>

\* wait_time_link_queue starts with a call of rationalize( timestamp() ) ...
WaitLink ==
  /\ Goto("wait_link", "wait_link_end")
  /\ rationalize(clock)
  /\ UNCHANGED <<delayVars, loopVars, clock, stall, delivered>>

Int32(n) == ((n + INT_MAX + 1) % (2 * (INT_MAX + 1))) - (INT_MAX + 1)

\* A link that is finished has no next opportunity, and answers uint64_t(-1).
next_or_never == IF finished_ THEN U64(-1) ELSE next_delivery_time

\* ... and then waits for the next opportunity; the difference is stored in an
\* int.
wait_time_link_queue ==
  LET wait_time == Int32(U64(next_or_never - rat_now))
  IN  IF wait_time < 0 THEN 0 ELSE wait_time

WaitLinkEnd ==
  /\ Goto("wait_link_end", "poll")
  /\ timeout' = IF wait_time_link_queue < timeout THEN wait_time_link_queue ELSE timeout
  /\ UNCHANGED <<linkVars, delayVars, next_packet, write_now, deadline,
                 want_write, want_exit, clock, stall, delivered>>

-----------------------------------------------------------------------------
(* Poller::poll *)

\* Bug: released packets do not count as pending output.
pending_output_link_only == output_queue_ # <<>>

pending_output == output_queue_ # <<>> \/ wait_time_delay_queue <= 0

\* The poller asks every action whether it is interested, then blocks.  A turn
\* of the loop starts here for the purpose of counting lost time.
Poll ==
  /\ Goto("poll", "sleep")
  /\ want_write' = pending_output
  /\ want_exit' = finished_
  /\ deadline' = clock + timeout
  /\ timeout' = 0
  /\ stall' = 0
  /\ UNCHANGED <<linkVars, delayVars, next_packet, write_now, clock, delivered>>

\* A TUN device can always be written to, so poll returns at once if one of
\* the two output actions is interested.
Blocked == pc = "sleep" /\ ~ want_write /\ ~ want_exit /\ clock < deadline

\* Bug: the exit action is looked at before the output action.
AfterRead_exit_first ==
  IF want_exit THEN "exit" ELSE IF want_write THEN "write" ELSE "wait_delay"

AfterRead == IF want_write THEN "write" ELSE IF want_exit THEN "exit" ELSE "wait_delay"

MayArrive == pkt_counter_ < MaxPackets /\ clock <= ArrivalEnd

\* poll returns because a packet has arrived ...
PollReadable ==
  /\ MayArrive
  /\ Goto("sleep", "read")
  /\ deadline' = 0
  /\ UNCHANGED <<linkVars, delayVars, next_packet, write_now, timeout,
                 want_write, want_exit, clock, stall, delivered>>

\* ... or without one, because of an output action or of the timeout.
PollReturns ==
  /\ ~ Blocked
  /\ Goto("sleep", AfterRead)
  /\ deadline' = 0
  /\ UNCHANGED <<linkVars, delayVars, next_packet, write_now, timeout,
                 want_write, want_exit, clock, stall, delivered>>

-----------------------------------------------------------------------------
(* The callbacks *)

\* tun.read() and read_packet; the first packet starts both traces.
ReadPacket ==
  /\ Goto("read", AfterRead)
  /\ \E size \in Sizes : read_packet(size, clock)
  /\ \/ start_tick_ /\ UNCHANGED linkVars
     \/ ~ start_tick_ /\ start_link_trace(clock)
  /\ UNCHANGED <<loopVars, clock, stall, delivered>>

\* read_packet throws a pointer, which nothing catches: the process ends.
ReadPacketThrows ==
  /\ Goto("read", "terminated")
  /\ \E size \in Sizes : ~ ValidSize(size)
  /\ UNCHANGED <<linkVars, delayVars, loopVars, clock, stall, delivered>>

\* get_next_from_delay_queue, in front of the loop of write_packets and at the
\* end of its body.
get_next_from_delay_queue ==
  \/ /\ ReleaseDue(clock)
     /\ next_packet' = top
     /\ pop_delay_queue
  \/ /\ ~ ReleaseDue(clock)
     /\ next_packet' = NoPacket
     /\ UNCHANGED delayVars

WritePackets ==
  /\ Goto("write", "write_now")
  /\ get_next_from_delay_queue
  /\ UNCHANGED <<linkVars, write_now, timeout, deadline, want_write, want_exit,
                 clock, stall, delivered>>

WriteNow ==
  /\ Goto("write_now", "write_loop")
  /\ write_now' = clock
  /\ UNCHANGED <<linkVars, delayVars, next_packet, timeout, deadline,
                 want_write, want_exit, clock, stall, delivered>>

Delivery(p, direct) ==
  [sequence_number |-> p.sequence_number, release_time |-> p.release_time,
   time |-> clock, direct |-> direct]

\* Bug: a light packet skips the link queue even when packets wait there.
SkipsLink_always(p) == p.is_bypass_link_queue

SkipsLink(p) == p.is_bypass_link_queue /\ current_link_queue_size_ = 0

WriteDirect ==
  /\ Goto("write_loop", "write_next")
  /\ next_packet # NoPacket
  /\ SkipsLink(next_packet)
  /\ delivered' = Append(delivered, Delivery(next_packet, TRUE))
  /\ next_packet' = NoPacket
  /\ UNCHANGED <<linkVars, delayVars, write_now, timeout, deadline,
                 want_write, want_exit, clock, stall>>

\* Bug: the link is replayed up to the time wait_time last saw.
PutPacket_cached_time ==
  /\ Goto("write_loop", "put")
  /\ next_packet # NoPacket
  /\ ~ SkipsLink(next_packet)
  /\ rationalize(rat_now)
  /\ UNCHANGED <<delayVars, loopVars, clock, stall, delivered>>

\* put_packet_to_link_queue( now, next_packet ): now is the time read before
\* the loop, however long the loop has been running.
PutPacket ==
  /\ Goto("write_loop", "put")
  /\ next_packet # NoPacket
  /\ ~ SkipsLink(next_packet)
  /\ rationalize(write_now)
  /\ UNCHANGED <<delayVars, loopVars, clock, stall, delivered>>

PutPacketEnd ==
  /\ Goto("put", "write_next")
  /\ put_packet_to_link_queue(next_packet)
  /\ next_packet' = NoPacket
  /\ UNCHANGED <<delayVars, write_now, timeout, deadline, want_write, want_exit,
                 clock, stall, delivered>>

WriteNext ==
  /\ Goto("write_next", "write_loop")
  /\ get_next_from_delay_queue
  /\ UNCHANGED <<linkVars, write_now, timeout, deadline, want_write, want_exit,
                 clock, stall, delivered>>

WriteLoopEnd ==
  /\ Goto("write_loop", "drain")
  /\ next_packet = NoPacket
  /\ write_now' = 0
  /\ UNCHANGED <<linkVars, delayVars, next_packet, timeout, deadline,
                 want_write, want_exit, clock, stall, delivered>>

\* write_packets_from_link_queue, one packet at a time.
Drain ==
  /\ Goto("drain", "drain")
  /\ write_one_from_link_queue
  /\ delivered' = Append(delivered, Delivery(Head(output_queue_), FALSE))
  /\ UNCHANGED <<delayVars, loopVars, clock, stall>>

DrainEnd ==
  /\ Goto("drain", IF want_exit THEN "exit" ELSE "wait_delay")
  /\ output_queue_ = <<>>
  /\ UNCHANGED <<linkVars, delayVars, loopVars, clock, stall, delivered>>

\* A step of rationalize on behalf of WaitLink or PutPacket.
RationalizeStep ==
  /\ ~ aborted
  /\ rationalize_steps
  /\ UNCHANGED <<delayVars, loopVars, clock, pc, stall, delivered>>

LoopStep ==
  \/ WaitDelay \/ WaitLink \/ WaitLinkEnd
  \/ Poll \/ PollReadable \/ PollReturns
  \/ ReadPacket \/ ReadPacketThrows
  \/ WritePackets \/ WriteNow \/ WriteDirect \/ PutPacket \/ PutPacketEnd
  \/ WriteNext \/ WriteLoopEnd \/ Drain \/ DrainEnd
  \/ RationalizeStep

-----------------------------------------------------------------------------
(* Time *)

\* The points at which the process is about to read the clock, or to write a
\* packet; time that passes elsewhere makes no difference to it.
ReadsClock ==
  pc \in {"wait_delay", "wait_link", "poll", "sleep", "read", "write",
          "write_now", "write_next", "drain"}

Tick ==
  /\ ~ aborted
  /\ ReadsClock
  /\ clock < MaxTime
  /\ clock' = clock + 1
  /\ \/ Blocked /\ UNCHANGED stall
     \/ ~ Blocked /\ stall < MaxStall /\ stall' = stall + 1
  /\ UNCHANGED <<linkVars, delayVars, loopVars, pc, delivered>>

\* The process has ended, or sleeps beyond the bound on time.
Over ==
  /\ \/ aborted
     \/ pc \in {"exit", "terminated"}
     \/ Blocked /\ clock = MaxTime /\ ~ MayArrive
  /\ UNCHANGED cellVars

Next == LoopStep \/ Tick \/ Over

Spec == Init /\ [][Next]_cellVars

\* The kernel schedules the process again and again, and time passes.
FairSpec == Spec /\ WF_cellVars(LoopStep) /\ WF_cellVars(Tick)

-----------------------------------------------------------------------------
(* Properties *)

\* Types of the state of the loop.
TypeOK ==
  /\ LinkTypeOK
  /\ DelayTypeOK
  /\ clock \in Nat
  /\ pc \in {"wait_delay", "wait_link", "wait_link_end", "poll", "sleep", "read",
             "write", "write_now", "write_loop", "put", "write_next", "drain",
             "exit", "terminated"}
  /\ next_packet \in DelayQueuePackets \cup {NoPacket}
  /\ write_now \in Nat
  /\ timeout \in Nat
  /\ deadline \in Nat
  /\ want_write \in BOOLEAN
  /\ want_exit \in BOOLEAN
  /\ stall \in Nat
  /\ delivered \in Seq([sequence_number : Nat, release_time : Nat, time : Nat,
                        direct : BOOLEAN])

\* No packet is delivered before its release time, and one that skips the link
\* queue is late only by the time the process itself lost: in the turn that
\* computed the timeout, in the one that woke up, and in the one that wrote.
DeliveredOnTime ==
  \A i \in DOMAIN delivered :
    /\ delivered[i].time >= delivered[i].release_time
    /\ delivered[i].direct => delivered[i].time <= delivered[i].release_time + 3 * MaxStall

\* The process never sleeps on work: while it is blocked no packet is waiting
\* to be written, and, but for the time lost between computing the timeout and
\* calling poll, it wakes up for the next release and the next opportunity.
NoSleepOnWork ==
  Blocked =>
    /\ output_queue_ = <<>>
    /\ delay_packet_queue_ # {} => clock < top.release_time + MaxStall
    /\ finished_ \/ clock < next_delivery_time + MaxStall

\* A heavy packet enters the link queue with a time read before the loop of
\* write_packets; it is earlier than its release time by no more than the time
\* the process lost in that loop.
LinkArrivalNotStale ==
  \A i \in DOMAIN internal_queue_ :
    internal_queue_[i].arrival_time + MaxStall >= internal_queue_[i].release_time

\* The assert of get_pkt_release_time_from_trace (cellular_queue.cc:464): the
\* light opportunity a packet is given is not in the past, for every packet
\* that could be read now, however late the process comes to read it.
PdoAssertHolds ==
  \A size \in Sizes :
    LET ts == SinceShortTrace(clock, delay_base_timestamp_)
    IN  /\ start_tick_ /\ ~ start_new_short_pdo_trace(clock)
        /\ ValidSize(size) /\ StillLight(ts, size)
        => Pdo(current_delay_pdo_idx_, TakenOpportunity(ts, size)) >= ts

\* When the link exits because its trace is over (--once), every packet that
\* has been served has been written.
ExitsDrained == pc = "exit" => output_queue_ = <<>>

\* A light packet is put on the link queue only behind packets that are there:
\* comment at cellular_queue.cc:397, "A packet should skip heavy PDO queue if
\* it still belongs to the light PDO."
LightPacketsSkipIdleLink ==
  [][pc = "write_loop" /\ pc' = "put" /\ next_packet.is_bypass_link_queue =>
       LinkContents # <<>>]_cellVars

\* Every packet read is eventually delivered.
EventuallyDelivered ==
  \A n \in 0..(MaxPackets - 1) :
    pkt_counter_ > n ~>
      \E i \in DOMAIN delivered : delivered[i].sequence_number = n

\* A trace that is played once comes to an end, and the process with it, if a
\* packet that read_packet throws at has not ended it before.
EventuallyEnds == <>(pc \in {"exit", "terminated"})

-----------------------------------------------------------------------------
(* The channel this implements *)

SequenceNumbers(S) == {p.sequence_number : p \in S}

InFlight ==
  SequenceNumbers(delay_packet_queue_ \cup Range(LinkContents)
                  \cup ({next_packet} \ {NoPacket}))

Channel == INSTANCE FifoChannel WITH
  Lossy    <- (QueueType # "infinite"),
  sent     <- pkt_counter_,
  inflight <- InFlight,
  received <- [i \in DOMAIN delivered |-> delivered[i].sequence_number]

\* One direction of the link is a FIFO channel, lossy only if its packet queue
\* may drop packets.
ImplementsFifoChannel == Channel!ChannelSpec

=============================================================================
