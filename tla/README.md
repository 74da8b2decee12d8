# A TLA+ model of CellReplay

CellReplay (`src/`) records a cellular network with packet trains and a
saturator (`src/record`) and replays the recording: `mm-cellular` (`src/src`)
opens a shell whose traffic passes through an emulated cellular link.  This
directory holds TLA+ modules that model the emulator, the processes, DNS relay
and start-up around it and the packet-train recorder, TLC configurations that
check them on small instances, and TLAPS proofs about one direction of the
emulated link, the process tree, the DNS relay, start-up and the recorder, for
every size.

The repository is `src/`, beside this directory, and paths start there: `cellular_queue.cc` is
`src/src/frontend/cellular_queue.cc`.

## 1. The system

### Components

| Component | State | Operations | Talks to |
|---|---|---|---|
| Packet queues (`src/src/packet/*_packet_queue.*`) | queue, byte and packet counters, limits | `enqueue`, `dequeue`, `empty` | called by the link |
| Heavy-PDO link (`cellular_queue.cc:211-322`) | position in the schedule, base time, packet in transit, output queue, size counter | `rationalize`, `put_packet_to_link_queue`, `write_packets_from_link_queue`, `wait_time_link_queue` | packet queue; ferry loop |
| Base delay and light PDOs (`cellular_queue.cc:278-288, 394-598`) | position in the packet-train trace, current line and opportunity, last release time, priority queue | `read_packet`, `get_next_from_delay_queue`, `wait_time_delay_queue` | ferry loop |
| Ferry loop (`packetshell.cc:300-332`, `poller.cc`, `event_loop.cc`) | what poll was asked for, its timeout | wait, poll, read, write, exit | two TUN devices, clock, kernel |
| Trace loading (`cellular_queue.cc:37-210`) | traces, offsets | constructor | files |
| Command line (`cellularshell.cc`) | options | `main`, `get_packet_queue` | everything |
| Process tree (`packetshell.cc`, `event_loop.cc`, `child_process.cc`, `signalfd.cc`) | children, what is believed of them, signal masks, NAT rules, privileges | start uplink/downlink, SIGCHLD, SIGCONT, termination, destructors | kernel, iptables, dnsmasq, the command |
| ByteStreamQueue, DNS proxy (`bytestream_queue.cc`, `dns_proxy.cc`, `dns_server.cc`) | ring buffers, relay threads | push, pop, relay until both sides are done; a thread per UDP request | sockets |
| Address allocation (`interfaces.cc`) | interface addresses | two unused addresses, MAHIMAHI_BASE | kernel, other shells |
| CoDel, PIE (`codel_packet_queue.cc`, `pie_packet_queue.cc`) | control law state | `enqueue`, `dequeue` | not selectable |
| Recorder for dynamic packet trains (`PacketTrainEchoDynamic*.java`, `packet_train_echo_dynamic_server.py`) | session, stop flag, sender threads, log | SYN, SYN_ACK, configuration, trains, echoes, FIN | UDP |
| Recorders for plain trains and saturation | session, threads | as above, on one socket | UDP |
| Trace processor (`src/record/trace-processor`) | none | recordings to traces | files |
| Calibration scripts (`src/record/scripts`) | none | statistics, plots | files |

Two processes, one per direction, each own one `CellularQueue` and share
nothing but the TUN devices; one direction is therefore the unit that is
modelled.  A packet that is read gets a *release time* from the packet-train
trace and waits in the priority queue until then.  If it used a light delivery
opportunity, and nothing is on the heavy link, it is written at once.
Otherwise it goes through the link: packet queue, packet in transit, output
queue, TUN device.

### What is hard

* **Lazy evaluation.** `rationalize( now )` replays the opportunities of the
  past, byte by byte, when somebody calls it, possibly long after their time.
  Its asserts say that no packet is put on an opportunity before its own
  arrival.
* **A moving clock.** `wait_time`, `pending_output`, `get_next_from_delay_queue`
  and `write_packets` each read the clock again; the process may be preempted
  between any two of them, and the clock is `CLOCK_REALTIME`.
* **Two paths for packets.** A light packet skips three queues; one counter,
  kept apart from those queues, decides whether it may.
* **Limits and asserts** of the dropping queues, at their boundaries.
* **Mixed integer types**: `uint64_t` times, `int` delays, float interpolation.
* **Liveness**: packets leave only if poll was told to wake up for them.
* **Signals and process groups**: a stop, a continuation, a death and a
  termination signal can cross each other anywhere in a tree of five processes.
* **Half-closed connections** and blocking writes in a relay of two streams.
* **Lost datagrams** in a recording protocol whose acknowledgements do not say
  what they acknowledge.

The full list, with source lines and the properties that cover each, is
`hazards` in `PROJECT.json`.

### What makes each component correct

* Packet queues: counters agree with contents; limits are respected; no
  assert fails.
* Link: every packet leaves exactly when a link served in real time would let
  it leave; no loss without a dropping queue; the counter that lets light packets skip
  the link never understates its contents.
* Delay queue: release times never go back; base delays are interpolated
  between neighbouring lines; an opportunity carries one packet's worth of bytes.
* Ferry loop: a FIFO channel; nothing early; light packets late only by the
  time the process itself lost; no sleeping on work; `--once` comes to an end.
* Process tree: a process that returns, throws or is told to terminate leaves no
  child behind, and main tries to remove its NAT rules whatever ends it once it has
  blocked the signals; the tree ends when any part of it ends; the exit status has a
  reason; whatever is stopped is resumed.  An uplink that aborts, and an `iptables`
  that fails or is killed, do leave something behind (section 4).
* DNS relay: bytes arrive unchanged, once and in order; the relay ends, and not early.
* Start-up: shells side by side and inside each other have addresses of their own;
  what the constructor accepts is what the queues rely on.
* Recorder: lost datagrams and interrupted runs cost a run at most, never a
  recording with the wrong session; the server survives; every run ends, and every thread that sends trains.

## 2. Modules

| Module | Models | Composes |
|---|---|---|
| `Packets` | packet sizes | |
| `PacketQueue` | the three selectable queues | `Packets` |
| `LinkQueue` | the heavy-PDO link | `PacketQueue` |
| `LinkService` | the link under calls in any order, and an ideal link | `LinkQueue` |
| `LinkQueueProofs`, `LinkServiceProofs` | theorems | `LinkQueue`, `LinkService` |
| `DelayQueue` | base delay, light PDOs, priority queue | `Packets` |
| `Clock` | what `timestamp()` returns, and the bounds of a run | |
| `DelayService` | the delay queue under a clock and arrivals; the search loops as written | `DelayQueue`, `Clock` |
| `DelayQueueProofs` | lemmas for its steps; theorems about searches and light opportunities | `DelayService` |
| `FifoChannel` | what one direction promises | |
| `CellularQueue` | one direction: the ferry loop on both halves | `LinkQueue`, `DelayQueue`, `Clock`, `FifoChannel` |
| `CellularQueueProofs` | theorems, the refinement of `FifoChannel` among them | `CellularQueue`, `LinkQueueProofs`, `DelayQueueProofs` |
| `Signals` | what the kernel promises about signals and children | |
| `EventLoop` | `EventLoop`, `ChildProcess`, `SignalMask` of any process | `Signals` |
| `PacketShell` | the five processes from start-up to the last exit, and the user | `EventLoop` |
| `PacketShellProofs` | theorems | `PacketShell` |
| `ByteStreamQueue` | the ring buffer, as operators | |
| `DnsProxy` | the TCP relay with its poller and its peers; UDP requests | `ByteStreamQueue` |
| `DnsProxyProofs` | theorems | `DnsProxy` |
| `Addresses` | addresses of shells side by side and nested | |
| `TraceLoading` | arguments and the constructor of `CellularQueue` | |
| `Startup` | the start of a shell | `Addresses`, `TraceLoading` |
| `StartupProofs` | theorems | `Startup` |
| `Recorder` | client runs, server and network of the packet-train recorder | |
| `RecorderProofs` | theorems | `Recorder` |
| `MC*` | traces, lines and streams for the TLC runs | |

### Correspondence with the code

Definitions keep the names of the code.  `PROJECT.json` maps each to its lines.

**PacketQueue.**  `internal_queue_`, `queue_size_in_bytes_` and
`queue_size_in_packets_` are the fields of `DroppingPacketQueue`.  An assert
that fails sets `aborted`, after which nothing happens.  `QueueType` is the
class `get_packet_queue` chose.  In `enqueue_drop_head` the loop is one
step, because each `dequeue` asserts `good()`: after one turn the queue is good
or the process is gone.

**LinkQueue.**  `rationalize` runs one turn of its loops per step: `link_pc` is
`"burn"` at the outer loop, `"deliver"` at the inner one, `"send"` after a packet
has been fetched and `"idle"` outside a call.  It reads no clock, so no other
step of the process comes between.  `LinkService` records arrivals, opportunities and departures; its ideal link
gives each kept packet, in the order of arrival, the place after its predecessor's or the first opportunity after its arrival.  A packet is a record of its sequence number, size,
release time and arrival time; its bytes are left out.  `next_delivery_time`
of a finished link is `uint64_t(-1)` in the code; every use of it in this module is
guarded by `finished_`, and `wait_time_link_queue` in `CellularQueue` computes with it.

**DelayQueue.**  Lines and opportunities are numbered from 0 as in the code.
`uint64_t` arithmetic is modulo `WORD`; `int` ends at `INT_MAX`.  The two search
loops are written in closed form (`SearchedLine`, `DueOpportunity`), and the
property `SearchesMatchLoops` compares them with the loops, transcribed turn by turn
as recursive functions of the cursors.  The float interpolation may come out one lower than the exact value
where that is a whole number, and before the first line of the trace its
conversion to int is undefined: `InterpolatedDelay` is a set of outcomes.
The priority queue is the set it orders; `top` is its first element.

**CellularQueue.**  `pc` is a point of the process: `wait_delay`, `wait_link`,
`wait_link_end` (`wait_time`), `poll`, `sleep` (`Poller::poll`), `read`
(`read_packet`), `write`, `write_now`, `write_loop`, `put`, `write_next`, `drain`
(`write_packets`), `exit` and `terminated` (an exception nobody catches).  A
step reads the clock at most once; `Tick` may come between any two that do.  The actions of
the poller run in the order in which `Ferry::loop` registers them; a TUN device
is always writable, so the two output actions are ready as soon as they are
of interest.  The time to the next
opportunity is computed modulo `WORD` and narrowed to an int (`Int32`), for a finished link too; whatever comes
out is no longer than the real time (`WaitForLink`), and a finished link wakes poll up by its exit action.  `delivered` is a history variable.

**Signals, EventLoop, PacketShell.**  The table `proc` has a record per process: what the
kernel knows of it (state, mask, pending signals, the change its parent may wait for), where
it is in its program, and the fields of the `ChildProcess` its parent keeps.  `Change`, `Send` and `Stop`
are the kernel's part; a signal to several processes reaches them in turn.  A turn of `handle_signal` goes over the children one step at a time
(`next`), so that signals arrive in between.  Every step that makes a system call which can fail
may throw (`Does`); the destructors then run as for a return.  `ezexec`, `recv_fd`, privileges and
environment are modelled where the code depends on their order.

NAT has two rules, which its constructors install one after the other (`install_rule`) and its destructors remove, the last one first (`remove_rule`, `pc`
= `"rules"`), after the event loop has been destroyed with the children (`LoopDestroyed`).  A rule is absent, owned by its `NATRule`, left in place by an `iptables` that failed or was killed, or
left because main no longer had root's rights (`denied`).  The `iptables` processes are not in the table: main waits for them in a call, so that one which is stopped only delays it, and one which
is killed is one that fails.  `link_aborts` ends a link with no destructor run, at an assert as the queue is made or in the loop, or at a
packet the downlink throws a pointer for; its `pc` is then `"abort"`.  The children of an uplink that aborted are orphans.  They belong to init,
which is not modelled: they go on, stop and end as before, nobody resumes them, and they are never reaped; nor is the SIGHUP modelled that the kernel sends to the group of
an orphan that is stopped.  SIGKILL from outside is not among the signals: it would leave children and rules behind wherever it hits.

An internal error of
the code (`waitid` finds nothing, no children, a changed signal mask) sets `bug`.

**ByteStreamQueue, DnsProxy.**  A byte is its number in its stream.  `push` and `pop` are pure
functions of a queue; the relay's poller samples interest and readiness once, then runs
the four callbacks in the order of registration (`action`), while the peers send, receive, half-close, close and
reset.  A write blocks: `write_more` puts what fits into the socket's buffer, `write_returns`
moves `next_pop`.

**Addresses, TraceLoading, Startup.**  An address is its last octet.  Choosing and assigning are separate
steps, so two shells can find the same address free; `overlap` remembers who started
at the same time.  A shell may end before those inside it: its device is gone, and its namespace stays
until nobody is in it (`free_namespace`).  A line of a file is the sequence of its words, a number or `NaN`, and
times are `uint64_t` modulo `WORD`; delays, opportunities and sizes are a long that is stored in an int (`int32`, of width `UINT`).  What the constructor has read so far of a file stays in `file`,
so that what it loaded can be compared with it.

**Recorder.**  A client run is a process with a sender id of its own on the same two ports.  The server's `main()` is `"loop"`,
or `"second"` in the nested `recvfrom`, or `"dead"` after an exception.  Sender threads are the
set `senders`; the three seconds of inactivity are the flag `recent`.  A thread whose gaps are all longer than 3 s makes `int(3000 / gap_ms)` = 0
trials and never sends anything or looks at a flag; `Config` may start such a thread instead, and it is not in `senders`.  The network loses datagrams; those that
arrive do so within the client's timeout of 20 s and in order.

## 3. Runs

| Run | Shows |
|---|---|
| `PacketQueue_drophead_bytes` | *violation*, finding 1 |
| `LinkService_droptail` | whatever calls are made and when, even with the clock set back, the packets a droptail queue kept leave the link at the opportunity of an ideal link, each once and in order; limits in packets and bytes hold, counters are right, no assert fails, the size counter covers the contents |
| `LinkService_start` | *violation*, finding 3 |
| `DelayService_light` | base delays are interpolated, light capacity is respected, closed forms agree with the loops |
| `DelayService_late` | *violation*, finding 4 |
| `CellularQueue_fifo` | infinite queue, with preemption: a lossless FIFO channel, every packet eventually delivered, none early, light packets late by lost time only and skipping an idle link, no sleeping on work, arrival times on the link stale by lost time only |
| `CellularQueue_drophead` | `--once`, drophead queue, size-dependent offsets, oversized packets: release times in order, the assert at line 464 holds, a lossy FIFO channel that eventually exits with its output written |
| `CellularQueue_leak` | *violation*, finding 2 |
| `PacketShell` | under any two events (a failure, an abort, an end, a stop, a signal) at any moments: no orphans but those of an uplink that aborted, NAT rules in place while a child is there and afterwards left only by an `iptables` that failed, no internal check fails, the exit status is explained, the tree ends, what is stopped (and no orphan) is resumed |
| `DnsProxy` | bytes once and in order, no assert fails, an exit is complete, other ends have a reason, streams arrive, relay and request threads end and answer who asked |
| `Startup` | addresses are distinct and own, `MAHIMAHI_BASE` is never hidden; whatever lines the files hold, what is loaded is what they say, and usable |
| `Recorder` | server survives, a running client is the one served, failures are explained and do not repeat, runs and threads that send end |

`PacketShell`, `DnsProxy`, `Startup` and `Recorder` really come to a stop (all processes have ended, the
connection and the requests are over, a configuration is loaded or refused, the last run is over)
and are not checked for deadlock; their liveness properties say that they do not stop earlier.  The other runs are checked for deadlock.

Every property of a passing run has a mutant in `PROJECT.json`, a definition
marked "Bug" beside the one it stands in for, under which TLC finds the
property violated.

### Bounds

* `MCLinkService!MCSchedule` is `<<1, 2, 2>>`: two opportunities at one time and
  a wrap-around.  With times up to 4 the schedule is replayed twice and may be replayed late; packets of
  400 and 1400 bytes fill an opportunity, share one, or straddle two.
  Three packets are enough for one to be in each of internal queue, transit and
  output; the limits of 2 packets and 1800 bytes both bind.
* `MCDelayService!MCTrace` has lines whose delay rises and falls, repeated
  opportunities and a length of 5 in a run of 8 ms, so it is repeated.
* `MCCellularQueue`: the heavy schedule has gaps longer than the light
  opportunities, and the light opportunities are few, so three packets take both
  paths and meet; `MCOnceSchedule` is long enough for heavy packets to be served
  by its last opportunities.  Arrivals end at `ArrivalEnd`, early enough for everything to drain before `MaxTime`.
* `MaxStall` is the time the process can lose per turn of its loop: 1 ms is enough to
  separate any two reads of the clock.  `CellularQueue_drophead` has packets of 150, 300 and 400
  bytes with a `PACKET_SIZE` of 300: one is too large, and the others have different offsets.
* `WORD` = 100000 and `INT_MAX` = 999 keep the shape of 2^64 and 2^31-1 (a sum of times
  and `INT_MIN` wraps around) within TLC's integers.
* `PacketShell`: all five processes, `MaxEvents` = 2 failures, ends, stops or signals
  from outside (continuations are not counted): the second can fall into the handling of the first, in any step.  The user
  sends SIGTERM, which the code treats like the other three, to main or to all, and stops the command.
* `DnsProxy`: a ring buffer of 3 bytes (2 usable), socket buffers of 2 and streams of 4 and 1 bytes: the stream goes
  around the ring, fills it, and blocks a write halfway, while the other direction is active.  Two UDP
  requests can cross.
* `Startup`: three shells (two side by side and one inside, or three deep) under symmetry; octets up to 6 with one
  taken by the host, so that the search runs out; files of up to 3 lines from sets with
  every kind of bad line; `WORD` = 4096 makes -1 a large time, and `UINT` = 1024 makes
  1023 a negative delay and 1124 the size 100.
* `Recorder`: three runs, so that a run can spoil the next and one can show recovery; two losses, enough to lose a
  datagram and its repetition; socket buffers of 2 data datagrams.

### Fairness

All fairness is weak.

* `CellularQueue!FairSpec`: the process's own steps (the kernel
  schedules a runnable process again and again, and poll returns when its timeout is
  over or a descriptor is ready) and `Tick` (time passes).  None of arrivals.
* `PacketShell!FairSpec`: the kernel schedules every process; dnsmasq and the command end when told to terminate; a
  user continues a main that has stopped.  A command that ignores SIGHUP does keep the shell waiting (`child_process.cc:153`).
* `DnsProxy!FairSpec`: threads are scheduled, and a peer reads what comes until it closes: a peer that
  never reads does block its relay thread, and with it the other direction.
* `Recorder!Fairness`: hosts schedule their threads, time passes, datagrams arrive.  Nothing is
  lost, started or killed by fairness.

## 4. Findings

1. A drophead queue with a byte limit fails `assert( good() )` in `dequeue`
   (`dropping_packet_queue.cc:30`) when one large packet displaces several small ones,
   although its loop (`drop_head_packet_queue.hh:26`) expects that.
2. `current_link_queue_size_` counts packets that the queue dropped
   (`cellular_queue.cc:298`); after one drop it never returns to 0, and light packets
   are put on the heavy link for the rest of the run, against the comment at line 397.
3. The first packet moves the base of the heavy schedule (`cellular_queue.cc:568`)
   but not the position in it, which has been advancing since start-up: "The trace is
   started" somewhere in its middle.
4. If the trace's first line is later than the packet, as `--start-timestamp` can leave
   it, the interpolation (`cellular_queue.cc:428`) wraps around.

Seen while modelling, with no document to contradict:

* A recorder run that is started while acknowledgements for its predecessor are on their way
  takes them, or those that requests still on their way will bring, for its own (`PacketTrainEchoDynamicSending.java:109` does not compare the sender id); if its configuration is then
  lost, its trains reach a server whose log is closed, and the server ends with an exception
  (`packet_train_echo_dynamic_server.py:422`).  `ServerSurvives` excepts such runs (`hasty`), `RunningIsServed` those that begin with anything of another run on its way.
* A retransmitted SYN is taken for the second connection; the configuration is then swallowed and the run fails.
  The next one works (`FailuresExplained`).
* Two sender threads can live at once, because `stop_sending` is cleared for the new one (`:410`); both end (`SendersEnd`).
* A sender thread whose gaps are all longer than 3 s computes no trials (`packet_train_echo_dynamic_server.py:215`): it sends nothing and,
  as it looks at no flag, lives as long as the server.  `SendersEnd` is about the other threads.
* Two shells started at the same time in one namespace can choose the same addresses (`OwnAddresses` excepts them).
* The constructor does not check that the packet-train trace has opportunities or lasts longer than 0 ms (`AcceptedUsable` says what it does
  check); a trace that does not last makes the search at `cellular_queue.cc:413` endless.
* A SIGTERM before main has blocked the signals leaves the NAT rules in place (`RulesRemoved` begins there).
* An uplink that aborts, at the assert on a negative delay (`cellular_queue.cc:144`) as it makes its queue or by finding 1
  (`dropping_packet_queue.cc:30`), runs no destructor: dnsmasq and the user's command, which were forked before, are
  left running (`NoOrphans` and `TreeEnds` except them), while main and the downlink end.
* `~NATRule` runs `iptables` in the shell's process group with all signals unblocked (`child_process.cc:53`): a signal to the group
  during the cleanup can kill it, the exception is only printed (`nat.cc:35`), and the rule stays.

## 5. Proofs

`LinkServiceProofs` proves, for every schedule the constructor accepts, every limit, set of
packet sizes, set of clock values and number of packets:

* `LinkTypeCorrect`: `ServiceSpec => []LinkTypeOK`;
* `LinkNeverAborts`: `ServiceSpec => []LinkAssertsHold`;
* `LinkSizeAlwaysCovers`: `ServiceSpec => []LinkSizeCovers`;
* `QueueStaysWithinLimits`: `ServiceSpec => []WithinLimits`;

all under `DropsOneAtMost` (a drophead queue has no limit in bytes), without which finding 1
refutes the second; and

* `LinkIsIdeal`: `ServiceSpec => []ServedAsIdealLink`, for queues other than drophead (the history says of a packet whether it was kept when it
  came, which is the last word only if the queue drops at its tail).

The other assumptions are those named in the modules: a nonempty,
sorted schedule that lasts (`ScheduleAssumption`, checked by the constructor), a dropping
queue with a limit (`QueueAssumption`, checked by its constructor), packets of at most
`PACKET_SIZE` bytes (`ServiceAssumption`, checked by `read_packet`).

**The argument.**  None of them is inductive.  The asserts of `rationalize` hold
because of `NoPacketAheadOfLink`: every packet that waits for service arrived no later than
the next opportunity and, inside the loops, than the one being used.  An opportunity that is burned preserves it because the schedule only moves
forward, its wrap-around included (`ScheduleForward`).  A packet that is put preserves it because the call of
`rationalize` before it has replayed everything up to its arrival (`Replayed`), so that the next
opportunity is later; this holds even if the clock was set back.
Restarting the base time at the first packet
preserves it because nothing can be on the link by then (`CallersSound`).  `TransitSound`
bounds the bytes in transit, `QueueGood` carries the packet queue's asserts, and
`LinkSizeCovers` in turn keeps the assert of `write_packets_from_link_queue`.  Their conjunction
is `LinkInv`; `ServiceInv` adds `CallersSound`.  `LinkQueueProofs` has one lemma per step of
the link, `LinkServiceProofs` one step per action of its callers.

`WithinLimits` compares the byte counter with a recursive sum over the queue.  `Sums` says that a function lists the partial sums of a
sequence; there is one for every sequence, and a least counterexample shows that the recursive definition is it.  A packet that comes, leaves or is displaced
changes the sums by its size, as it changes the counter.

For `ServedAsIdealLink`, `IdealInv` says that some function `f` gives every packet its place in the ideal link's service (`Finishes`), that those which left did so at the
opportunity of their place (`LeftOnTime`), and that those on the link will: the first one ends where its remaining bytes (`Rest`) take the replay's position (`Cursor`), and each other
one where its size takes the end of the one before (`WaitingOnTime`).  A turn of the loops sends what the ideal link sends at that opportunity or wastes what it wastes.
`FirstFor` does not change once a packet has arrived, because the opportunities that are replayed later are later than every arrival before them (`HistorySound`); so the
place of a packet is fixed when it arrives.

`DnsProxyProofs` proves, for every `Size` > 1 of the ring buffers, every size of the socket buffers and streams of every length
(`SizeAssumption` and `RelayAssumption`):

* `RelayTypeCorrect`: `Spec => []RelayTypeOK`;
* `RelayKeepsOrder`: `Spec => []BytesInOrder`;
* `RelayNeverAborts`: `Spec => []RelayAssertsHold`;
* `RelayExitsComplete`: `Spec => []ExitsComplete`;
* `RelayEndsExplained`: `Spec => []EndsExplained`.

**The argument.**  `BytesInOrder` says only what was written; to keep it one must know what the ring buffers hold.  `StreamsSound` says that
a queue `Holds` the bytes of its stream between the number that left it and the number read from the socket, each at its place
(`Placed`), in one piece or two.  `PushHolds` and `PopHolds` show that `push` and `pop` keep this across the wrap, from
arithmetic on positions (`PopRoom`, `PushRoom`).  A write that is under way has put bytes into the
socket but has not moved `next_pop`: `Popped` and `WriteSound` account for it.  The asserts hold because a callback that poll found
ready still finds its space or data when its turn comes (`ReadySound`): only the push into a queue takes its
space and only the pop from it takes its data, each at most once per poll.  `ExitsComplete` needs `PeersSound`
(end of file was read only after all bytes) and that nothing of interest means both queues empty.  `RelayInv` is the conjunction,
and has one proof step per action.

`EndsExplained` has an invariant of its own, `ExplainInv`: a side that poll found readable stays so until its callback runs
(`StaysReadable`), so that a read with room in its queue finds bytes or the end of the stream; a side that poll found in
error was reset, and a reset is never taken back (`HangupSound`).

`CellularQueueProofs` proves, for every pair of traces the constructor accepts, every set of packet sizes and offsets, any arrivals and any
preemption of at most `MaxStall` per turn:

| Theorem | Property | Under |
|---|---|---|
| `ExitIsDrained` | `ExitsDrained` | |
| `ReleasedInOrder` | `ReleaseOrder` | |
| `OpportunityNotInThePast` | `PdoAssertHolds` | |
| `BaseDelayStaysInterpolated` | `BaseDelayInterpolated` | `FirstLineAtZero` |
| `CellularTypeCorrect` | `TypeOK` | `DropsOneAtMost` |
| `CellularNeverAborts` | `LinkAssertsHold` | `DropsOneAtMost` |
| `ArrivalsNotStale` | `LinkArrivalNotStale` | `DropsOneAtMost` |
| `NeverSleepsOnWork` | `NoSleepOnWork` | `DropsOneAtMost` |
| `NothingDeliveredEarly` | the first half of `DeliveredOnTime` | `DropsOneAtMost` |
| `PacketsDeliveredOnTime` | `DeliveredOnTime` | all four below |
| `LightSkipsIdleLink` | `LightPacketsSkipIdleLink` | an infinite queue |

and the refinement `LinkIsFifoChannel`: `Spec => ImplementsFifoChannel`, under `DropsOneAtMost`.

* `DropsOneAtMost`: as above; finding 1 without it.
* `FirstLineAtZero`: the packet-train trace starts with a line of time 0, as those of the trace processor do; finding 4 without it.
* `OffsetsOnlyDelay`: no size offset is negative.  One that is moves a release time before the moment at which the packet is read,
  which makes the packet late before the process could do anything.
* `FarFromWrap(MaxTime)`: no sum of a time of the run, a delay, an opportunity and an offset reaches 2^64.

**The argument.**  The invariants are layers, each of which is inductive given those before.  `ControlInv`: where the loop is and what it must have done to get there.
`DelayLoopInv`: the delay queue (`DelayInv` of `DelayQueueProofs`: the current line and opportunity exist, numbers differ and were given out, release times
follow the numbers).  The hold-back in `read_packet` keeps the order, whatever the arithmetic before it came to.  The closed form of the search is
shown to stop at a line whose successor is later than the packet, from which interpolation follows, rounding included.  `LinkLoopInv`: `LinkInv` of the link,
with the times at which the loop calls it.  `TimeInv`: whatever has left the delay queue was released by then, and its arrival
time on the link is stale by `stall` at most.  `SleepInv`: the timeout, computed at one reading of the clock and used at another, overshoots the next release and the next
opportunity by no more than the time lost between.  `LateInv`: after `write_packets` found nothing more to release, nothing that waits is late by more than
was lost since; with `SleepInv` this bounds the lateness of light packets by three turns.
`SizeExact`: with a queue that drops nothing, `current_link_queue_size_` is the number of packets on the link, so it is 0 again whenever the link is empty; with a dropping queue only
`LinkSizeCovers` holds, and finding 2 refutes `LightPacketsSkipIdleLink`.

For the refinement, `OrderInv` says that sequence numbers grow from the output queue through the packet in transit and the packet queue to the packet in hand and the delay queue,
and that every one was given out.  The channel's queue is the set of the numbers on their way.  Light packets skip the link only
when `current_link_queue_size_` is 0; `LinkSizeCovers` then makes the link empty, so the packet in hand is the oldest: this
is where the counter matters.  Each step of the loop maps to a send, a receive, a loss (a step of `put_packet_to_link_queue` of a
dropping queue only) or a stutter (`ChannelStep`).

`StartupProofs` proves, for any number of shells, any nesting, any addresses of the host, any lines of the files and any arguments:

* `AddressesAreOwn`: `Spec => []OwnAddresses`; `BaseStaysReachable`: `Spec => []BaseReachable`;
* `AcceptedIsUsable`: `Spec => []AcceptedUsable`.

**The argument.**  `OwnAddresses` is about shells that have a device; `ApartSound` says why it holds: of two shells in a namespace that were not starting at the same time one was up
when the other looked at the interfaces, so its egress address was seen, and still is up when the other reads the routes, so its
ingress address is found there.  `NestedSound`: the namespace around a shell is there as long as that one is, whether or not the outer shell has ended, and both have the same base address.  For
`AcceptedUsable`, `HeavySound` and `TrainSound` say what holds of what was read so far, file by file; each line that is kept is in
order with the last one, therefore with all.

`PacketShellProofs` proves, for every set of signals the user may send, every set of targets to signal and to stop and every number of events
(`ShellAssumption` says only that these are signals, processes and a number), aborts of the links and failures of `iptables` included:

* `NoProcessIsOrphaned`: `Spec => []NoOrphans`;
* `NatRulesAreRemoved`: `Spec => []RulesRemoved`;
* `ChecksNeverFail`: `Spec => []InternalChecksHold`;
* `StatusHasReason`: `Spec => []ExitStatusExplained`;
* `ShellTypeCorrect`: `Spec => []ShellTypeOK`.

**The argument.**  An action changes the table of processes several times over: a signal to a group, or a death with its SIGCHLD, passes through
tables that no behaviour stops at.  The invariant `TreeInv(t, e, n)` is therefore about any table `t`, any set `e` of events from outside and any
state `n` of the rules, and there is a lemma for each operator that makes one table from another (`ChangeKeeps`, `DieKeeps`, `SendKeeps`, `waitKeeps`, `ForkKeeps`, ...).

* `FamilySound` is about a parent and its two children.  `NoOrphans` is not inductive: the parent must not be able to end, except by an abort, while a child is left.  It can die of a signal only before its loop has blocked
  the signals, and it has no children until then; afterwards it ends through the destructors, and those have come to a child only when the ones before it are gone.
* `MaskSound` says where the signals are blocked.  A child inherits the mask and unblocks the signals when it starts, so it may die there of a
  signal that was pending; it has no children yet.
* `LifeSound` and `BeliefSound` relate a child to the `ChildProcess` object: a report that was not waited for is the last change of the child's state, and without one the object is up
  to date.  From this `wait` always finds what `waitable` promised, and SIGCHLD comes to parents only.
* `RightsSound` keeps root's rights with who needs them: main has them back in its destructors, so that no removal is denied, and its rules are in place from the time its signals are blocked until it destroys them (`RulesSound`); and neither a trace is read nor the command run with them.
* `Explained` is the strengthening of `ExitStatusExplained`: every pending termination signal, every return and every end of every process has a reason outside, unless its parent is
  leaving.  A parent that leaves terminates its own children, and the exception is needed for them; their status no longer counts.

An action of one process that touches no other is a case of `MayMove`, a fork of `MayFork`, an end of `MayEnd`; `Apart` says what the others notice of it.

`DelayQueueProofs` proves, for every trace the constructor accepts that lasts (`TraceAssumption`) and any arrivals:

* `SearchesAreTheLoops`: `DelayServiceSpec => []SearchesMatchLoops`;
* `LightOpportunitiesHold`: `DelayServiceSpec => []LightRateRespected`, under `FirstLineAtZero`, `LinesBeginAtZero` (each line begins with an opportunity at 0,
  as those of the trace processor do), `NoSizeOffsets` (an offset moves a packet off its opportunity) and `FarFromWrap(MaxTime + long_to_short_timer_)`.  The run
  `DelayService_light` satisfies all four.

**The argument.**  The closed form of a search satisfies the equation of its loop, turn by turn (`SearchTurn`, `PdoTurn`); the loop's recursive function therefore exists, and it is the closed form because the cursors that would be a least
counterexample have a successor that is nearer to the end (`SearchLoopEnds`, `PdoLoopEnds`).  Passing the end of the trace takes one lap off the quotient (`LapsCount`).

A light packet's bytes stay within its opportunity because `curr_delivery_opportunity_` is what is left of it, and that is not visible in what was promised.
`CurrentFits` therefore says, for every release time of the trace in use, that the bytes promised so far *and* the rest of the current opportunity, if it belongs to that time, fit into the
opportunities of that time up to the current one.  A packet takes from the rest or moves on to a fresh opportunity, which the count then includes (`RateStep`).
When a new short PDO trace begins, its bytes are 0 (`FutureFree`) and those of the one before are settled (`EndedFit`); that two traces never begin in the same ms, where their
packets could not be told apart, follows from the timer (`NewTraceLater`), which needs that no sum wraps around (`Promised`).

`TracesLoadedAsFiled` (`StartupProofs`): `Spec => []LoadedAsFiled`, for files of any length.  A line that is kept is the entry at its *position* among
the lines that count (those at or after the start timestamp; those with a size); a new line comes behind all others, so it gets the next position and moves none.

`RecorderProofs` proves, for any number of runs and losses and socket buffers of every size (`RecorderAssumption`):

* `RecorderTypeCorrect`: `RecorderSpec => []RecorderTypeOK`;
* `ServerNeverDies`: `RecorderSpec => []ServerSurvives`;
* `RunningClientIsServed`: `RecorderSpec => []RunningIsServed`;
* `RunsFailForAReason`: `RecorderSpec => []FailuresExplained`.

**The argument.**  Each of the last three has an invariant of its own, under its own condition.  `SurvivalInv`, as long as no run was started hastily: a train, a FIN or a CONFIG_ACK on its way, or a connected client,
means that the server is ready to log, and no SYN or configuration is ahead of it that would change that (`InOrder`: what may be ahead of what on the way to the server).
`HandshakeInv`, if nothing was on its way when the run began: what can be on its way in each phase of the handshake.  At most one SYN of the second socket is, behind all others, so the
answer to it means that the server has handled the SYNs that were sent again.  `UndisturbedInv`, if moreover nothing was lost: the dialogue has exactly one datagram at a time, and its two variants depend on where the server was when the run began.

**Only model-checked**: the liveness properties (`EventuallyDelivered`, `EventuallyEnds`, `TreeEnds`, `StoppedResumes`, `StreamsArrive`, `RelayEnds`, `RequestsServed`, `RunsEnd`, `SendersEnd`), because the prover does not
reason about fairness.  Every invariant of a passing run, the action property `LightPacketsSkipIdleLink` and the refinement `ImplementsFifoChannel` are proved.
Each module also states the types of its variables; those of the link, one direction, the relay, the process tree and the recorder are proved (and the addresses',
as part of `AddressInv`), the others document the state and can be added to the configuration of their module's run.

## 6. Not modelled, and the plan

Left out of the modules above: the packet log, the text of the meter graphs, `get_pkt_header_info`,
getopt.  `--loss-rate` is parsed and used nowhere.  System call wrappers are modelled where they
carry state of the shell (NAT rules, privileges, descriptors, addresses, partial reads and writes) and nowhere else.

* CoDel and PIE: compiled, but `get_packet_queue` never makes one; PIE is driven by a random number generator.
* `tun_packetshell.cc`: no program instantiates it; it repeats the process tree of `packetshell.cc`.
* The saturator and the recorder for plain trains: variants of the protocol in `Recorder`; the saturator's window depends on measured delays.
* Trace processor and calibration scripts: offline computations with numpy, no state.

What could follow: the saturator's session; the trace processor as operators, checked against what `TraceLoading` accepts.
