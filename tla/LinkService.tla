---------------------------- MODULE LinkService ----------------------------
(***************************************************************************)
(* LinkQueue closed by the calls CellularQueue makes of it, in any order   *)
(* and at any time, and compared with an ideal link.  History variables    *)
(* record what the link was given and what it did:                         *)
(*                                                                         *)
(*   arrivals       when each packet was put on the link, its size, how    *)
(*                  many opportunities had been replayed by then, and      *)
(*                  whether the queue kept it                              *)
(*   opportunities  the times of the opportunities replayed since the      *)
(*                  trace was started                                      *)
(*   departures     which packet left the link when, by the schedule       *)
(*   written        the packets written to the TUN device, in order        *)
(***************************************************************************)
EXTENDS LinkQueue

CONSTANTS
  Times,            \* clock values passed to the link (bound)
  MaxPackets,       \* packets put on the link (bound)
  ClockMayStepBack  \* timestamp() is CLOCK_REALTIME, which can be set back

ASSUME ServiceAssumption ==
  /\ Times \subseteq Nat
  /\ MaxPackets \in Nat
  /\ ClockMayStepBack \in BOOLEAN
  /\ Sizes \subseteq 1..PACKET_SIZE

VARIABLES start_tick_, pending, arrivals, opportunities, departures, written

historyVars == <<arrivals, opportunities, departures, written>>
serviceVars == <<linkVars, start_tick_, pending, historyVars>>

ServiceInit ==
  /\ LinkInit
  /\ start_tick_ = FALSE
  /\ pending = NoQueuedPacket
  /\ arrivals = <<>>
  /\ opportunities = <<>>
  /\ departures = {}
  /\ written = <<>>

CanCall == ~ aborted /\ link_pc = "idle" /\ pending = NoQueuedPacket

\* The values timestamp() may return after the call that read rat_now.
Now == {t \in Times : ClockMayStepBack \/ t >= rat_now}

\* wait_time_link_queue, called before every poll.
CallWaitTime ==
  /\ CanCall
  /\ \E now \in Now : rationalize(now)
  /\ UNCHANGED <<start_tick_, pending, historyVars>>

\* read_packet, for the first packet.
CallStart ==
  /\ CanCall
  /\ ~ start_tick_
  /\ \E now \in Now : start_link_trace(now)
  /\ start_tick_' = TRUE
  /\ opportunities' = <<>>
  /\ UNCHANGED <<pending, arrivals, departures, written>>

\* put_packet_to_link_queue: rationalize first, enqueue when it has returned.
CallPut ==
  /\ CanCall
  /\ start_tick_
  /\ Len(arrivals) < MaxPackets
  /\ \E now \in Now : rationalize(now)
  /\ \E size \in Sizes :
       pending' = [sequence_number |-> Len(arrivals), size |-> size,
                   release_time |-> 0, arrival_time |-> 0]
  /\ UNCHANGED <<start_tick_, historyVars>>

FinishPut ==
  /\ ~ aborted
  /\ pending # NoQueuedPacket
  /\ put_packet_to_link_queue(pending)
  /\ pending' = NoQueuedPacket
  /\ arrivals' = Append(arrivals,
       [time |-> rat_now, size |-> pending.size, seen |-> Len(opportunities),
        kept |-> Len(internal_queue_') > Len(internal_queue_)])
  /\ UNCHANGED <<start_tick_, opportunities, departures, written>>

CallWrite ==
  /\ CanCall
  /\ write_one_from_link_queue
  /\ written' = Append(written, Head(output_queue_).sequence_number)
  /\ UNCHANGED <<start_tick_, pending, arrivals, opportunities, departures>>

\* The packets are numbered from 1 in the order in which they were put.
NumberOf(p) == p.sequence_number + 1

\* A step of a call under way, and what it adds to the history.
LinkStep ==
  /\ ~ aborted
  /\ rationalize_steps
  /\ opportunities' = IF link_pc = "burn" /\ link_pc' = "deliver"
                      THEN Append(opportunities, this_delivery_time')
                      ELSE opportunities
  /\ departures' = IF Len(output_queue_') > Len(output_queue_)
                   THEN departures \cup {<<NumberOf(packet_in_transit_), this_delivery_time>>}
                   ELSE departures
  /\ UNCHANGED <<start_tick_, pending, arrivals, written>>

ServiceNext ==
  \/ CallWaitTime
  \/ CallStart
  \/ CallPut
  \/ FinishPut
  \/ CallWrite
  \/ LinkStep

ServiceSpec == ServiceInit /\ [][ServiceNext]_serviceVars

-----------------------------------------------------------------------------
(* The ideal link *)

\* The packets a queue that drops at its tail has kept, and with it the link.
Kept == {n \in DOMAIN arrivals : arrivals[n].kept}

\* The first opportunity a packet can use: the first after its arrival, or, if
\* the clock was set back, the first after those already replayed.
FirstFor(a) ==
  CHOOSE k \in (a.seen + 1)..(Len(opportunities) + 1) :
    /\ \A j \in (a.seen + 1)..(k - 1) : opportunities[j] <= a.time
    /\ k <= Len(opportunities) => opportunities[k] > a.time

\* Where the last of size bytes goes that are sent without a gap from a place
\* on: used bytes of opportunity opp are taken once it has been sent.
Send(place, size) ==
  IF size <= PACKET_SIZE - place.used
  THEN [opp |-> place.opp, used |-> place.used + size]
  ELSE [opp |-> place.opp + 1, used |-> size - (PACKET_SIZE - place.used)]

\* A packet starts where its predecessor ended, or at the first opportunity
\* after its arrival if that is later; one that is lost takes no place.
Follow(place, a, first) ==
  IF ~ a.kept THEN place
  ELSE Send(IF first > place.opp THEN [opp |-> first, used |-> 0] ELSE place, a.size)

IdealFinish ==
  LET finish[n \in 0..Len(arrivals)] ==
        IF n = 0 THEN [opp |-> 0, used |-> PACKET_SIZE]
        ELSE Follow(finish[n - 1], arrivals[n], FirstFor(arrivals[n]))
  IN  finish

\* The packets the queue kept, and no others, are on the link or written, each
\* once and in the order in which they were put.
KeptInOrder ==
  LET held == [i \in DOMAIN LinkContents |-> LinkContents[i].sequence_number]
      all  == written \o held
  IN  /\ \A i, j \in DOMAIN all : i < j => all[i] < all[j]
      /\ {all[i] + 1 : i \in DOMAIN all} = Kept

\* Packets leave the link exactly when they would leave a link that is served
\* at every opportunity as it comes, in order and each once, although
\* rationalize replays the opportunities only when some caller happens to ask.
ServedAsIdealLink ==
  /\ link_pc = "idle" =>
       departures = {<<n, opportunities[IdealFinish[n].opp]>> :
                       n \in {m \in Kept : IdealFinish[m].opp <= Len(opportunities)}}
  /\ KeptInOrder

\* The first packet read starts the trace: comment at cellular_queue.cc:566,
\* "The trace is started".  The link's schedule then begins with its first
\* opportunity.
TraceStartsAtItsBeginning ==
  [][~ start_tick_ /\ start_tick_' => next_delivery_' = 0 /\ ~ finished_']_serviceVars

-----------------------------------------------------------------------------
(* The inductive invariant of the link under these calls *)

LinkHoldsNothing == internal_queue_ = <<>> /\ packet_in_transit_bytes_left_ = 0

\* The callers' part: the trace is started before anything is put on the link,
\* and a packet is put only after the link was replayed up to its arrival.
CallersSound ==
  /\ start_tick_ \in BOOLEAN
  /\ pending \in QueuedPackets \cup {NoQueuedPacket}
  /\ ~ start_tick_ => LinkHoldsNothing /\ pending = NoQueuedPacket
  /\ pending # NoQueuedPacket /\ link_pc = "idle" => Replayed

ServiceInv == LinkInv /\ CallersSound

\* Types of the history.
HistoryTypeOK ==
  /\ arrivals \in Seq([time : Nat, size : 1..PACKET_SIZE, seen : Nat, kept : BOOLEAN])
  /\ opportunities \in Seq(Nat)
  /\ written \in Seq(Nat)

\* The history and the state are in step.  Opportunities are replayed only up
\* to the last call, so all that follow a packet's arrival are later than it.
HistorySound ==
  /\ ~ start_tick_ => arrivals = <<>>
  /\ pending # NoQueuedPacket => NumberOf(pending) = Len(arrivals) + 1
  /\ link_pc \in {"deliver", "send"} =>
       opportunities # <<>> /\ opportunities[Len(opportunities)] = this_delivery_time
  /\ \A n \in DOMAIN arrivals :
       /\ arrivals[n].seen <= Len(opportunities)
       /\ \A k \in (arrivals[n].seen + 1)..Len(opportunities) :
            opportunities[k] > arrivals[n].time
       /\ ~ finished_ => next_delivery_time > arrivals[n].time

\* The packets written come before the packets held, and both are in order.
Numbered ==
  LET w == [i \in DOMAIN written |-> written[i] + 1]
      h == [i \in DOMAIN LinkContents |-> NumberOf(LinkContents[i])]
  IN  /\ \A i, j \in DOMAIN w : i < j => w[i] < w[j]
      /\ \A i, j \in DOMAIN h : i < j => h[i] < h[j]
      /\ \A i \in DOMAIN w, j \in DOMAIN h : w[i] < h[j]
      /\ Kept = {w[i] : i \in DOMAIN w} \cup {h[i] : i \in DOMAIN h}

\* The numbers of the packets that have left the link.
Left ==
  {written[i] + 1 : i \in DOMAIN written} \cup
  {NumberOf(output_queue_[i]) : i \in DOMAIN output_queue_}

\* Those that left did so at the opportunity f gives them.
LeftOnTime(f) ==
  /\ departures = {<<n, opportunities[f[n].opp]>> : n \in Left}
  /\ \A n \in Left : f[n].opp \in 1..Len(opportunities)

\* The place in the schedule that the replay has reached, and what is left to
\* send of the first packet on the link that has not left.
Cursor ==
  [opp  |-> Len(opportunities),
   used |-> IF link_pc \in {"deliver", "send"}
            THEN PACKET_SIZE - bytes_left_in_this_delivery ELSE PACKET_SIZE]

Rest ==
  IF packet_in_transit_bytes_left_ > 0 THEN packet_in_transit_bytes_left_
  ELSE LinkContents[Len(output_queue_) + 1].size

\* Of the packets s of which out have left, the first ends where rest takes the
\* cursor and each other one where it takes the end of the one before; f[m] is
\* where all that was put ends.
Waits(f, s, out, cursor, rest, m) ==
  /\ out < Len(s) => f[NumberOf(s[out + 1])] = Send(cursor, rest)
  /\ out < Len(s) => f[m] = f[NumberOf(s[Len(s)])]
  /\ out = Len(s) => f[m].opp <= cursor.opp
  /\ \A i \in (out + 2)..Len(s) : f[NumberOf(s[i])] = Send(f[NumberOf(s[i - 1])], s[i].size)

WaitingOnTime(f) ==
  Waits(f, LinkContents, Len(output_queue_), Cursor, Rest, Len(arrivals))

=============================================================================
