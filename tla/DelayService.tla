---------------------------- MODULE DelayService ----------------------------
(***************************************************************************)
(* DelayQueue closed by a clock, arriving packets and a reader that takes  *)
(* released packets out, with a log of what was promised to each packet.   *)
(***************************************************************************)
EXTENDS DelayQueue, Clock, FiniteSets

VARIABLE
  log  \* per packet: the short PDO trace it belongs to, and its promise

delayServiceVars == <<delayVars, clock, log>>

DelayServiceInit ==
  /\ DelayInit
  /\ clock = 0
  /\ log = <<>>

ClockTick ==
  /\ clock < MaxTime
  /\ clock' = clock + 1
  /\ UNCHANGED <<delayVars, log>>

Read ==
  /\ pkt_counter_ < MaxPackets
  /\ \E size \in Sizes :
       /\ read_packet(size, clock)
       /\ log' = Append(log, [start   |-> delay_base_timestamp_' + pdo_base_timestamp_',
                              delay   |-> current_base_delay_',
                              line    |-> current_delay_pdo_idx_',
                              release |-> end_release_time_',
                              light   |-> bypass_link_pdo_',
                              size    |-> size])
  /\ UNCHANGED clock

Release ==
  /\ ReleaseDue(clock)
  /\ pop_delay_queue
  /\ UNCHANGED <<clock, log>>

\* Nothing more happens within the bounds.
AtBound ==
  /\ clock = MaxTime
  /\ pkt_counter_ = MaxPackets \/ \A size \in Sizes : ~ ValidSize(size)
  /\ ~ ReleaseDue(clock)
  /\ UNCHANGED delayServiceVars

DelayServiceNext == ClockTick \/ Read \/ Release \/ AtBound

DelayServiceSpec == DelayServiceInit /\ [][DelayServiceNext]_delayServiceVars

-----------------------------------------------------------------------------
(* Properties *)

\* What a logged packet takes of the opportunities of e's short PDO trace (the
\* one with e's start, base delay and line) at e's release time.
LightBytes(logged, e) ==
  IF /\ logged.light /\ logged.start = e.start /\ logged.delay = e.delay
     /\ logged.line = e.line /\ logged.release = e.release
  THEN logged.size ELSE 0

TotalLightBytes(entries, e) ==
  LET sum[n \in 0..Len(entries)] == IF n = 0 THEN 0 ELSE sum[n - 1] + LightBytes(entries[n], e)
  IN  sum[Len(entries)]

\* The opportunities at that time.
Slots(e) ==
  {j \in 0..(Len(Line(e.line).pdo) - 1) : e.start + e.delay + Pdo(e.line, j) = e.release}

\* A light opportunity carries at most PACKET_SIZE bytes: of one short PDO
\* trace, the light packets released at one time fit into the opportunities the
\* line has at that time.  (For traces whose lines begin with an opportunity at
\* 0, and without size offsets, which move packets off their opportunity.)
LightRateRespected ==
  \A n \in DOMAIN log :
    log[n].light => TotalLightBytes(log, log[n]) <= PACKET_SIZE * Cardinality(Slots(log[n]))

-----------------------------------------------------------------------------
(* The two search loops as they are written in the code *)

\* while ( trace[idx + 1].time <= relative_timestamp_ms ) { ... }
SearchLoop(time) ==
  LET loop[s \in [line : 0..(NumLines - 2), base : 0..time]] ==
        IF Line(s.line + 1).time > time - s.base THEN s
        ELSE IF s.line + 1 >= NumLines - 1
             THEN loop[[line |-> 0, base |-> s.base + Line(s.line + 1).time]]
             ELSE loop[[line |-> s.line + 1, base |-> s.base]]
  IN  loop

\* while ( current_pdo_idx_ < current_pdo_size_ && ts > pdo[...] ) { ... }
PdoLoop(ts) ==
  LET loop[s \in [opp : Nat, bytes : 0..PACKET_SIZE]] ==
        IF s.opp < current_pdo_size_ /\ ts > Pdo(current_delay_pdo_idx_, s.opp)
        THEN loop[[opp |-> s.opp + 1, bytes |-> PACKET_SIZE]]
        ELSE s
  IN  loop

\* The closed forms SearchedLine, SearchedBase, DueOpportunity and DueBytes
\* are what the loops of get_pkt_release_time_from_trace compute.
SearchesMatchLoops ==
  /\ SearchLoop(clock)[[line |-> current_delay_pdo_idx_, base |-> delay_base_timestamp_]] =
       [line |-> SearchedLine(clock, delay_base_timestamp_),
        base |-> SearchedBase(clock, delay_base_timestamp_)]
  /\ LET ts == SinceShortTrace(clock, delay_base_timestamp_)
     IN  PdoLoop(ts)[[opp |-> current_pdo_idx_, bytes |-> curr_delivery_opportunity_]] =
           [opp |-> DueOpportunity(ts), bytes |-> DueBytes(ts)]

=============================================================================
