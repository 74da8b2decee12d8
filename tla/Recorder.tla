------------------------------ MODULE Recorder ------------------------------
(***************************************************************************)
(* The session protocol of the dynamic packet-train recorder: successive   *)
(* runs of the Java client (PacketTrainEchoDynamicExperiment, one process  *)
(* per run, on the same two UDP ports) against one Python server           *)
(* (packet_train_echo_dynamic_server), over a network that loses           *)
(* datagrams.  A datagram that is not lost arrives within the client's     *)
(* socket timeout of 20 s, in the order of sending, and a user may start   *)
(* the next run while datagrams of the last one are still on their way.    *)
(*                                                                         *)
(* A packet train is one "data" datagram: its first or last packet, the    *)
(* ones that are echoed.                                                   *)
(***************************************************************************)
EXTENDS Naturals, Sequences, SequencesExt

CONSTANTS Runs,         \* how often the client is started
          MaxLoss,      \* how many datagrams the network loses
          Buffer        \* how many datagrams a socket holds before it drops data

ASSUME RecorderAssumption == Runs \in Nat /\ MaxLoss \in Nat /\ Buffer \in Nat

VARIABLES
  server,           \* where main() of the server is: "loop", "second" or "dead"
  address2,         \* the socket echoes go to, 0 for None
  curr_sender_id,   \* the run whose handshake was completed, 0 for none
  curr_upload,
  log_file,         \* "None", "open" or "closed"
  stop_sending,     \* the flag shared with the sender threads
  send_thread,      \* whether a sender thread was ever made
  senders,          \* the runs for which a thread lives that sends trains
  recent,           \* last_recv_client_packet is less than 3 s ago
  upstream,         \* datagrams on their way to the server
  downstream,       \* per client socket, datagrams not yet received
  run,              \* number, and sender id, of the current run; 0 before the first
  client,           \* where the current run is
  upload,           \* direction of the current run, once it sent its configuration
  receiving,        \* its receiving thread lives
  losses,           \* datagrams lost so far
  lost,             \* one of them was of the current run
  began,            \* "busy" if the run began with something on its way or a sender
                    \* alive, else where the server was then
  spoiled,          \* the run before failed though it was not "busy" and lost nothing
  hasty             \* some run began with acknowledgements for another, or something
                    \* to be acknowledged, on their way

session == <<address2, curr_sender_id, curr_upload, log_file>>
threads == <<stop_sending, send_thread, senders, recent>>
network == <<upstream, downstream, losses, lost>>
client_vars == <<run, client, upload, receiving>>
history == <<began, spoiled, hasty>>
vars == <<server, session, threads, network, client_vars, history>>

Sockets == {1, 2}
Ended == {"idle", "failed", "over"}
Connected == {"running", "terminating"}

Datagram(kind, id, socket) == [kind |-> kind, id |-> id, socket |-> socket, upload |-> 0]

\* UDP into a socket's buffer: data that does not fit is dropped.
Sent(queue, m) == IF m.kind = "data" /\ Len(queue) >= Buffer THEN queue ELSE Append(queue, m)
SendUp(m) == upstream' = Sent(upstream, m)
SendDown(socket, m) == downstream' = [downstream EXCEPT ![socket] = Sent(@, m)]

-----------------------------------------------------------------------------
(***************************************************************************)
(* Server                                                                  *)
(***************************************************************************)
ServerInit ==
  /\ server = "loop" /\ address2 = 0
  /\ curr_sender_id = 0 /\ curr_upload = 1 /\ log_file = "None"
  /\ stop_sending = FALSE /\ send_thread = FALSE /\ senders = {} /\ recent = FALSE

Arrived(m) == upstream # <<>> /\ m = Head(upstream) /\ upstream' = Tail(upstream)

\* The first SYN is answered; the server then blocks for the second connection.
FirstSyn(m) ==
  /\ server = "loop" /\ m.kind = "SYN"
  /\ server' = "second"
  /\ SendDown(m.socket, Datagram("SYN_ACK", m.id, m.socket))
  /\ UNCHANGED <<address2, curr_sender_id, curr_upload, log_file, threads>>

SecondSyn(m) ==
  /\ server = "second" /\ m.kind = "SYN"
  /\ server' = "loop" /\ address2' = m.socket
  /\ SendDown(m.socket, Datagram("SYN_ACK", m.id, m.socket))
  /\ curr_sender_id' = m.id /\ curr_upload' = 1
  /\ log_file' = IF log_file = "None" THEN "None" ELSE "closed"
  /\ stop_sending' = send_thread
  /\ UNCHANGED <<send_thread, senders, recent>>

\* Bug: the server goes on waiting for the second connection.
SecondOther_waits(m) ==
  /\ server = "second" /\ m.kind # "SYN"
  /\ UNCHANGED <<server, session, threads, downstream>>

\* Bug: a configuration that comes instead of the second SYN is accepted.
SecondOther_accepted(m) ==
  /\ server = "second" /\ m.kind # "SYN"
  /\ server' = "loop"
  /\ log_file' = IF m.kind = "config" /\ m.id = curr_sender_id THEN "open" ELSE log_file
  /\ IF m.kind = "config" /\ m.id = curr_sender_id
       THEN SendDown(m.socket, Datagram("CONFIG_ACK", m.id, m.socket))
       ELSE UNCHANGED downstream
  /\ UNCHANGED <<address2, curr_sender_id, curr_upload, threads>>

\* Anything else that arrives in its place is swallowed.
SecondOther(m) ==
  /\ server = "second" /\ m.kind # "SYN"
  /\ server' = "loop" /\ address2' = 0
  /\ UNCHANGED <<curr_sender_id, curr_upload, log_file, threads, downstream>>

\* Bug: the log is closed with the session.
Fin_closes_log(m) ==
  /\ server = "loop" /\ m.kind = "FIN"
  /\ stop_sending' = TRUE
  /\ curr_sender_id' = 0 /\ curr_upload' = 1
  /\ log_file' = IF log_file = "None" THEN "None" ELSE "closed"
  /\ UNCHANGED <<server, address2, send_thread, senders, recent, downstream>>

Fin(m) ==
  /\ server = "loop" /\ m.kind = "FIN"
  /\ stop_sending' = TRUE
  /\ curr_sender_id' = 0 /\ curr_upload' = 1
  /\ UNCHANGED <<server, address2, log_file, send_thread, senders, recent, downstream>>

\* A download gets a sender thread.  If all of its gaps are longer than 3 s the
\* thread makes no trial: it sends nothing, looks at no flag and never ends.  It
\* is not one of the senders.
Config(m) ==
  /\ server = "loop" /\ m.kind = "config"
  /\ IF m.id # curr_sender_id
       THEN UNCHANGED <<curr_upload, log_file, threads, downstream>>
       ELSE /\ curr_upload' = m.upload /\ log_file' = "open" /\ recent' = TRUE
            /\ SendDown(m.socket, Datagram("CONFIG_ACK", m.id, m.socket))
            /\ IF m.upload = 0
                 THEN /\ stop_sending' = FALSE /\ send_thread' = TRUE
                      /\ senders' \in {senders, senders \union {m.id}}
                 ELSE UNCHANGED <<stop_sending, send_thread, senders>>
  /\ UNCHANGED <<server, address2, curr_sender_id>>

\* Every train is logged, whoever sent it; those of the current run are
\* echoed.  Writing to no file, or to a closed one, and sending to None
\* raise exceptions that nobody catches.
Data(m) ==
  LET echoes == m.id = curr_sender_id /\ curr_upload = 1
      raises == log_file # "open" \/ (echoes /\ address2 = 0)
  IN /\ server = "loop" /\ m.kind = "data"
     /\ server' = IF raises THEN "dead" ELSE "loop"
     /\ recent' = IF raises THEN recent ELSE TRUE
     /\ IF echoes /\ ~raises THEN SendDown(address2, Datagram("data", m.id, address2))
                             ELSE UNCHANGED downstream
     /\ UNCHANGED <<address2, curr_sender_id, curr_upload, log_file,
                    stop_sending, send_thread, senders>>

ServerReceives ==
  /\ \E m \in Range(upstream) :
       /\ Arrived(m)
       /\ FirstSyn(m) \/ SecondSyn(m) \/ SecondOther(m) \/ Fin(m) \/ Config(m) \/ Data(m)
  /\ UNCHANGED <<losses, lost, client_vars, history>>

\* Bug: a sender looks at the flag only.
send_packet_train_thread_flag_only(id) ==
  /\ id \in senders
  /\ IF stop_sending
       THEN senders' = senders \ {id} /\ UNCHANGED downstream
       ELSE SendDown(1, Datagram("data", id, 1)) /\ UNCHANGED senders
  /\ UNCHANGED <<server, session, stop_sending, send_thread, recent,
                 upstream, losses, lost, client_vars, history>>

\* One turn of a sender thread: it ends, or sends a train and sleeps.  The
\* address it was given is the client's first socket, which sends all
\* configurations.
send_packet_train_thread(id) ==
  /\ id \in senders
  /\ IF ~recent \/ stop_sending
       THEN senders' = senders \ {id} /\ UNCHANGED downstream
       ELSE SendDown(1, Datagram("data", id, 1)) /\ UNCHANGED senders
  /\ UNCHANGED <<server, session, stop_sending, send_thread, recent,
                 upstream, losses, lost, client_vars, history>>

\* Three seconds pass since last_recv_client_packet, which only senders look at.
Inactivity ==
  /\ senders # {} /\ recent /\ recent' = FALSE
  /\ UNCHANGED <<server, session, stop_sending, send_thread, senders, network, client_vars, history>>

-----------------------------------------------------------------------------
(***************************************************************************)
(* Client                                                                  *)
(***************************************************************************)
ClientInit == run = 0 /\ client = "idle" /\ upload = 1 /\ receiving = FALSE

Failing == client = "failed" /\ began # "busy" /\ ~lost
NothingOnItsWay == upstream = <<>> /\ \A s \in Sockets : downstream[s] = <<>>

\* An acknowledgement is on its way, or will be.
AcksPending ==
  \/ \E m \in Range(upstream) : m.kind \in {"SYN", "config"}
  \/ \E s \in Sockets : \E m \in Range(downstream[s]) : m.kind # "data"

\* A new process on the same ports, with a sender id of its own.
StartRun ==
  /\ client \in Ended /\ run < Runs
  /\ run' = run + 1 /\ client' = "syn" /\ upload' = 1 /\ receiving' = FALSE
  /\ lost' = FALSE
  /\ began' = IF NothingOnItsWay /\ senders = {} THEN server ELSE "busy"
  /\ spoiled' = Failing
  /\ hasty' = (hasty \/ AcksPending)
  /\ UNCHANGED <<server, session, threads, upstream, downstream, losses>>

\* start_connection sends a SYN from the first socket, again after each timeout.
SendSyn ==
  /\ client = "syn" /\ client' = "ack1"
  /\ SendUp(Datagram("SYN", run, 1))
  /\ UNCHANGED <<server, session, threads, downstream, losses, lost, run, upload, receiving, history>>

\* Datagrams are taken from a socket's buffer in order.
Receive(socket, m) ==
  /\ downstream[socket] # <<>> /\ m = Head(downstream[socket])
  /\ downstream' = [downstream EXCEPT ![socket] = Tail(@)]

\* The answer on the first socket: a SYN_ACK of whatever run, or failure.
FirstAck ==
  /\ client = "ack1"
  /\ \E m \in Range(downstream[1]) :
       /\ Receive(1, m)
       /\ IF m.kind = "SYN_ACK"
            THEN client' = "ack2" /\ SendUp(Datagram("SYN", run, 2))
            ELSE client' = "failed" /\ UNCHANGED upstream
  /\ UNCHANGED <<server, session, threads, losses, lost, run, upload, receiving, history>>

\* The configuration, with the direction given on the command line.
sendConfig ==
  /\ upload' \in {0, 1}
  /\ SendUp([Datagram("config", run, 1) EXCEPT !.upload = upload'])

\* The answer on the second socket.
SecondAck ==
  /\ client = "ack2"
  /\ \E m \in Range(downstream[2]) :
       /\ Receive(2, m)
       /\ IF m.kind = "SYN_ACK"
            THEN client' = "config_ack" /\ sendConfig
            ELSE client' = "failed" /\ UNCHANGED <<upstream, upload>>
  /\ UNCHANGED <<server, session, threads, losses, lost, run, receiving, history>>

ConfigAck ==
  /\ client = "config_ack"
  /\ \E m \in Range(downstream[1]) :
       /\ Receive(1, m)
       /\ client' = IF m.kind = "CONFIG_ACK" THEN "running" ELSE "failed"
       /\ receiving' = (m.kind = "CONFIG_ACK")
  /\ UNCHANGED <<server, session, threads, upstream, losses, lost, run, upload, history>>

\* Which socket the main thread is waiting on.
WaitsOn == IF client = "ack2" THEN 2 ELSE 1

\* Bug: the sockets have no timeout.
SocketTimeout_none ==
  /\ FALSE /\ UNCHANGED vars

\* Nothing came for 20 s: the handshake begins again, sendConfig gives up.
SocketTimeout ==
  /\ client \in {"ack1", "ack2", "config_ack"}
  /\ upstream = <<>> \/ server = "dead"
  /\ downstream[WaitsOn] = <<>>
  /\ client' = IF client = "config_ack" THEN "failed" ELSE "syn"
  /\ UNCHANGED <<server, session, threads, network, run, upload, receiving, history>>

\* The sending thread of an upload, which is stopped only after the FIN.
sendDataTrain ==
  /\ client \in Connected /\ upload = 1
  /\ Len(upstream) < Buffer
  /\ SendUp(Datagram("data", run, 1))
  /\ UNCHANGED <<server, session, threads, downstream, losses, lost, client_vars, history>>

\* The receiving thread: echoes of an upload are logged; a train of a
\* download is echoed from the second socket, even if its sender id is foreign.
RunReceives ==
  /\ client \in Connected /\ receiving
  /\ \E m \in Range(downstream[IF upload = 1 THEN 2 ELSE 1]) :
       /\ Receive(IF upload = 1 THEN 2 ELSE 1, m)
       /\ IF upload = 0 /\ m.kind = "data"
            THEN SendUp(Datagram("data", m.id, 2))
            ELSE UNCHANGED upstream
  /\ UNCHANGED <<server, session, threads, losses, lost, client_vars, history>>

\* Its socket times out: the thread ends with an exception.
ReceiverTimeout ==
  /\ client \in Connected /\ receiving
  /\ downstream[IF upload = 1 THEN 2 ELSE 1] = <<>>
  /\ receiving' = FALSE
  /\ UNCHANGED <<server, session, threads, network, run, client, upload, history>>

\* The experiment is over: one FIN, then threads and sockets are closed.
terminateConnection ==
  /\ client = "running" /\ client' = "terminating"
  /\ SendUp(Datagram("FIN", run, 1))
  /\ UNCHANGED <<server, session, threads, downstream, losses, lost, run, upload, receiving, history>>

closeSocket ==
  /\ client = "terminating" /\ client' = "over"
  /\ receiving' = FALSE
  /\ UNCHANGED <<server, session, threads, network, run, upload, history>>

\* The user interrupts a run.
Kill ==
  /\ client \notin Ended /\ client' = "over"
  /\ receiving' = FALSE
  /\ UNCHANGED <<server, session, threads, network, run, upload, history>>

-----------------------------------------------------------------------------
(***************************************************************************)
(* Network                                                                 *)
(***************************************************************************)
NetworkInit ==
  upstream = <<>> /\ downstream = [s \in Sockets |-> <<>>] /\ losses = 0 /\ lost = FALSE

Lose ==
  /\ losses < MaxLoss /\ losses' = losses + 1
  /\ \/ \E i \in DOMAIN upstream :
          /\ upstream' = RemoveAt(upstream, i) /\ UNCHANGED downstream
          /\ lost' = (lost \/ upstream[i].id = run)
     \/ \E s \in Sockets : \E i \in DOMAIN downstream[s] :
          /\ downstream' = [downstream EXCEPT ![s] = RemoveAt(@, i)] /\ UNCHANGED upstream
          /\ lost' = (lost \/ downstream[s][i].id = run)
  /\ UNCHANGED <<server, session, threads, client_vars, history>>

\* A datagram reaches a port that no process has open.
PortClosed ==
  /\ client \in Ended
  /\ \E s \in Sockets :
       /\ downstream[s] # <<>>
       /\ downstream' = [downstream EXCEPT ![s] = Tail(@)]
  /\ UNCHANGED <<server, session, threads, upstream, losses, lost, client_vars, history>>

Init ==
  /\ ServerInit /\ ClientInit /\ NetworkInit
  /\ began = "loop" /\ spoiled = FALSE /\ hasty = FALSE

MainThread ==
  \/ SendSyn \/ FirstAck \/ SecondAck \/ ConfigAck \/ SocketTimeout
  \/ terminateConnection \/ closeSocket

Senders == \E id \in 1..Runs : send_packet_train_thread(id)

Next ==
  \/ ServerReceives \/ Inactivity \/ Senders
  \/ StartRun \/ MainThread \/ sendDataTrain \/ RunReceives \/ ReceiverTimeout \/ Kill
  \/ Lose \/ PortClosed

\* Both hosts schedule their processes and threads, time passes, and datagrams
\* arrive.  Nothing is lost, killed or started by fairness.
Fairness ==
  WF_vars(ServerReceives) /\ WF_vars(Inactivity) /\ WF_vars(Senders) /\ WF_vars(MainThread)

RecorderSpec == Init /\ [][Next]_vars /\ Fairness

-----------------------------------------------------------------------------
(***************************************************************************)
(* Properties                                                              *)
(***************************************************************************)
Messages ==
  [kind : {"SYN", "SYN_ACK", "config", "CONFIG_ACK", "FIN", "data"},
   id : 1..Runs, socket : Sockets, upload : {0, 1}]

\* The state of the server, the client and the network is well formed.
RecorderTypeOK ==
  /\ server \in {"loop", "second", "dead"}
  /\ address2 \in {0} \union Sockets
  /\ curr_sender_id \in 0..Runs /\ curr_upload \in {0, 1}
  /\ log_file \in {"None", "open", "closed"}
  /\ stop_sending \in BOOLEAN /\ send_thread \in BOOLEAN /\ recent \in BOOLEAN
  /\ senders \subseteq 1..Runs /\ (senders # {} => send_thread)
  /\ upstream \in Seq(Messages) /\ downstream \in [Sockets -> Seq(Messages)]
  /\ run \in 0..Runs /\ client \in Ended \union Connected \union {"syn", "ack1", "ack2", "config_ack"}
  /\ upload \in {0, 1} /\ receiving \in BOOLEAN
  /\ losses \in 0..MaxLoss /\ lost \in BOOLEAN
  /\ began \in {"loop", "second", "dead", "busy"}
  /\ spoiled \in BOOLEAN /\ hasty \in BOOLEAN

\* Whatever is lost and however runs are interrupted, the server never writes
\* to a log that is not open and never sends to an address that is None: a
\* train reaches its main loop only between a configuration and the next
\* completed handshake.  The exception: a run that was started while
\* acknowledgements for its predecessors were on their way, or requests of
\* theirs that will be acknowledged, may take these for its own, and send
\* trains without ever having been configured.
ServerSurvives == server = "dead" => hasty

\* A client that was told CONFIG_ACK is the server's current sender, its log
\* is open and echoes go to its second socket, where it listens, although a
\* SYN that is sent again can be taken for the second connection: such a
\* handshake never gets as far as CONFIG_ACK.  (A run that begins while
\* datagrams for its predecessor are still on their way can take one of their
\* SYN_ACKs for its own.)
RunningIsServed ==
  client = "running" /\ began # "busy" /\ server # "dead" =>
    /\ curr_sender_id = run /\ curr_upload = upload
    /\ log_file = "open" /\ address2 = 2

\* A run fails only if one of its datagrams was lost, or if an earlier run
\* left the server waiting for a second connection, a datagram on its way or
\* a sender thread alive.  A server left waiting spoils at most one run that
\* loses nothing: the configuration of that run brings it back to its loop.
FailuresExplained == Failing => began # "loop" /\ ~spoiled

\* As long as there is a server every run comes to an end, also when
\* datagrams are lost.
RunsEnd == []<>(client \in Ended \/ server = "dead")

\* When the last run is over, every thread that sends trains ends, even if its
\* FIN was lost, the run was interrupted, or the stop flag was cleared for a later
\* run before an older thread looked at it.  (One whose gaps are all longer than
\* TRAIN_SENDING_DURATION never looks at it.)
SendersEnd == (run = Runs /\ client \in Ended) ~> (senders = {})
=============================================================================
