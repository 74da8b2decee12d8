------------------------------ MODULE DnsProxy ------------------------------
(***************************************************************************)
(* The DNS proxy of the downlink (src/src/util/dns_proxy.cc): a thread for *)
(* each UDP request, and for each TCP connection a thread that relays      *)
(* between client and nameserver with a Poller (src/src/util/poller.cc)    *)
(* and two ring buffers.                                                   *)
(*                                                                         *)
(* poll samples the descriptors once; the callbacks run one after the      *)
(* other, while the peers go on.  The sockets block: a write returns when  *)
(* all of it is in the socket's buffer, or the connection is reset.        *)
(***************************************************************************)
EXTENDS ByteStreamQueue

CONSTANTS
  StreamLength,  \* bytes a side sends at most (bound)
  SocketBuffer,  \* bytes of a socket's buffer, in each direction
  Queries        \* UDP requests, each from an address of its own

Sides == {"client", "server"}

ASSUME RelayAssumption ==
  /\ StreamLength \in [Sides -> Nat]
  /\ SocketBuffer \in Nat \ {0}

VARIABLES
  pc,        \* of the TCP thread
  action,    \* index of the action whose callback is next
  ready,     \* actions whose event poll has reported
  hangup,    \* sides for which it has reported POLLERR or POLLHUP
  wrote,     \* bytes that the current write has put into the socket
  queue,     \* from_client and from_server
  eof,       \* end of file was read: eof_ is set, the action cancelled
  taken,     \* bytes read from a side
  out,       \* bytes written to a side
  ended,     \* how the thread ended
  asserted,  \* all asserts have held
  sent, received, fin, closed, reset,  \* the peers and their connections
  udp,       \* the UDP request: on its way, and the state of its thread
  replies    \* datagrams sent to clients: <<address, answer>>

relay == <<pc, action, ready, hangup, wrote, queue, eof, taken, out, ended, asserted>>
peers == <<sent, received, fin, closed, reset>>
dns == <<udp, replies>>
vars == <<relay, peers, dns>>

Other(s) == IF s = "client" THEN "server" ELSE "client"

Init ==
  /\ pc = "idle"
  /\ action = 1
  /\ ready = {}
  /\ hangup = {}
  /\ wrote = 0
  /\ queue = [s \in Sides |-> EmptyQueue]
  /\ eof = [s \in Sides |-> FALSE]
  /\ taken = [s \in Sides |-> 0]
  /\ out = [s \in Sides |-> <<>>]
  /\ ended = "no"
  /\ asserted = TRUE
  /\ sent = [s \in Sides |-> 0]
  /\ received = [s \in Sides |-> 0]
  /\ fin = [s \in Sides |-> FALSE]
  /\ closed = [s \in Sides |-> FALSE]
  /\ reset = [s \in Sides |-> FALSE]
  /\ udp = [q \in Queries |-> "idle"]
  /\ replies = {}

-----------------------------------------------------------------------------
(* The connections, as the relay's kernel sees them *)

Readable(s) == sent[s] > taken[s] \/ fin[s]

Space(s) == SocketBuffer - (Len(out[s]) - received[s])

peer_sends(s) ==
  /\ ~ fin[s] /\ ~ reset[s]
  /\ sent[s] < StreamLength[s]
  /\ sent[s] - taken[s] < SocketBuffer
  /\ sent' = [sent EXCEPT ![s] = @ + 1]
  /\ UNCHANGED <<received, fin, closed, reset>>

peer_receives(s) ==
  /\ ~ closed[s] /\ ~ reset[s]
  /\ received[s] < Len(out[s])
  /\ received' = [received EXCEPT ![s] = @ + 1]
  /\ UNCHANGED <<sent, fin, closed, reset>>

\* shutdown of one direction, or close, which ends the stream too.
peer_finishes(s) ==
  /\ ~ closed[s] /\ ~ reset[s]
  /\ fin' = [fin EXCEPT ![s] = TRUE]
  /\ \E c \in (IF fin[s] THEN {TRUE} ELSE BOOLEAN) : closed' = [closed EXCEPT ![s] = c]
  /\ UNCHANGED <<sent, received, reset>>

\* Data for a peer that has closed its socket is answered with a reset.
peer_refuses(s) ==
  /\ closed[s] /\ ~ reset[s]
  /\ received[s] < Len(out[s])
  /\ reset' = [reset EXCEPT ![s] = TRUE]
  /\ UNCHANGED <<sent, received, fin, closed>>

\* The peer dies, or closes with data unread.
peer_aborts(s) ==
  /\ ~ closed[s] /\ ~ reset[s]
  /\ reset' = [reset EXCEPT ![s] = TRUE]
  /\ UNCHANGED <<sent, received, fin, closed>>

\* What was written is delivered even when the relay has closed its sockets.
PeerReceives(s) == (peer_receives(s) \/ peer_refuses(s)) /\ UNCHANGED <<relay, dns>>

PeerActs(s) ==
  /\ pc \in {"poll", "callbacks", "write"}
  /\ peer_sends(s) \/ peer_finishes(s) \/ peer_aborts(s)
  /\ UNCHANGED <<relay, dns>>

-----------------------------------------------------------------------------
(* handle_tcp *)

Ends(how) == pc' = "done" /\ ended' = how

\* The connection is accepted in the event loop, and given to a new thread.
\* Threads share nothing but the listening sockets: those for UDP and TCP are
\* looked at in different behaviours.
handle_tcp ==
  /\ pc = "idle"
  /\ \A q \in Queries : udp[q] = "idle"
  /\ pc' = "connect"
  /\ UNCHANGED <<action, ready, hangup, wrote, queue, eof, taken, out, ended, asserted>>

connect ==
  /\ pc = "connect"
  /\ \/ pc' = "poll" /\ UNCHANGED ended
     \/ Ends("exception")
  /\ UNCHANGED <<action, ready, hangup, wrote, queue, eof, taken, out, asserted>>

\* The actions in the order in which they were added.
Actions == << [fd |-> "server", direction |-> "In"],  [fd |-> "client", direction |-> "In"],
              [fd |-> "server", direction |-> "Out"], [fd |-> "client", direction |-> "Out"] >>

\* Bug: the side is still asked for bytes when its queue is full.
Interested_always(a) ==
  IF a.direction = "In" THEN ~ eof[a.fd] ELSE non_empty(queue[Other(a.fd)])

\* Bug: the side's end of file ends the interest in its queue.
Interested_until_eof(a) ==
  IF a.direction = "In" THEN ~ eof[a.fd] /\ space_available(queue[a.fd])
  ELSE ~ eof[Other(a.fd)] /\ non_empty(queue[Other(a.fd)])

\* Bug: the end of file is not remembered.
Interested_after_eof(a) ==
  IF a.direction = "In" THEN space_available(queue[a.fd])
  ELSE non_empty(queue[Other(a.fd)])

Interested(a) ==
  IF a.direction = "In" THEN ~ eof[a.fd] /\ space_available(queue[a.fd])
  ELSE non_empty(queue[Other(a.fd)])

Reported(a) ==
  Interested(a) /\ IF a.direction = "In" THEN Readable(a.fd) ELSE Space(a.fd) > 0

\* Poller::poll up to the callbacks.  When it times out the thread polls again.
poll ==
  /\ pc = "poll"
  /\ IF \A i \in 1..4 : ~ Interested(Actions[i])
     THEN Ends("exit") /\ UNCHANGED <<action, ready, hangup>>
     ELSE /\ ready' = {i \in 1..4 : Reported(Actions[i])}
          /\ hangup' = {s \in Sides : reset[s]}
          /\ ready' # {} \/ hangup' # {}
          /\ pc' = "callbacks"
          /\ action' = 1
          /\ UNCHANGED ended
  /\ UNCHANGED <<wrote, queue, eof, taken, out, asserted>>

At(direction) ==
  /\ pc = "callbacks"
  /\ action <= 4
  /\ Actions[action].fd \notin hangup
  /\ action \in ready
  /\ Actions[action].direction = direction

\* The loop over the actions: none left, a descriptor with an error, or an
\* action without its event.
skip ==
  /\ pc = "callbacks"
  /\ \/ action > 4 /\ pc' = "poll" /\ UNCHANGED <<action, ended>>
     \/ action <= 4 /\ Actions[action].fd \in hangup /\ Ends("hangup") /\ UNCHANGED action
     \/ /\ action <= 4 /\ Actions[action].fd \notin hangup /\ action \notin ready
        /\ action' = action + 1 /\ UNCHANGED <<pc, ended>>
  /\ UNCHANGED <<ready, hangup, wrote, queue, eof, taken, out, asserted>>

\* Bug: the end of the stream is not noticed.
EndOfFile_missed(s) == FALSE

\* A read with no data left returns nothing at the end of the stream; after a
\* reset it throws.
EndOfFile(s) == fin[s]

\* ByteStreamQueue::push: data, end of file, or an exception.
push_callback ==
  /\ At("In")
  /\ LET s    == Actions[action].fd
         room == contiguous_space_to_push(queue[s])
         left == sent[s] - taken[s]
         n    == IF left < room THEN left ELSE room
     IN  /\ asserted' = (asserted /\ PushAsserts(queue[s], n))
         /\ \/ /\ n > 0
               /\ queue' = [queue EXCEPT ![s] = push(@, taken[s], n)]
               /\ taken' = [taken EXCEPT ![s] = @ + n]
               /\ UNCHANGED <<eof, pc, ended>>
            \/ /\ n <= 0 /\ EndOfFile(s)
               /\ eof' = [eof EXCEPT ![s] = TRUE]
               /\ UNCHANGED <<queue, taken, pc, ended>>
            \/ /\ n <= 0 /\ ~ EndOfFile(s)
               /\ Ends("exception")
               /\ UNCHANGED <<queue, taken, eof>>
  /\ action' = action + 1
  /\ UNCHANGED <<ready, hangup, wrote, out>>

\* The kernel takes n more bytes of the queue of the other side.
Takes(s, n) ==
  /\ out' = [out EXCEPT ![s] = @ \o Bytes(queue[Other(s)], wrote, n)]
  /\ wrote' = wrote + n

\* ByteStreamQueue::pop: the write has an error, or starts.  A connection that
\* was reset after the end of its stream gives EPIPE, and SIGPIPE, which nobody
\* blocks or ignores: it ends the process.
pop_callback ==
  /\ At("Out")
  /\ LET s     == Actions[action].fd
         q     == queue[Other(s)]
         chunk == contiguous_space_to_pop(q)
     IN  /\ asserted' = (asserted /\ PopAsserts(q, chunk))
         /\ \/ /\ reset[s]
               /\ Ends(IF fin[s] THEN "SIGPIPE" ELSE "exception")
               /\ UNCHANGED <<out, wrote>>
            \/ /\ ~ reset[s]
               /\ Takes(s, IF chunk < Space(s) THEN chunk ELSE Space(s))
               /\ pc' = "write"
               /\ UNCHANGED ended
  /\ UNCHANGED <<action, ready, hangup, queue, eof, taken>>

\* The write goes on as the peer receives ...
write_more ==
  /\ pc = "write"
  /\ LET s    == Actions[action].fd
         left == contiguous_space_to_pop(queue[Other(s)]) - wrote
     IN  /\ ~ reset[s]
         /\ left > 0
         /\ Space(s) > 0
         /\ Takes(s, IF left < Space(s) THEN left ELSE Space(s))
  /\ UNCHANGED <<pc, action, ready, hangup, queue, eof, taken, ended, asserted>>

\* Bug: all the bytes are taken for written.
write_returns_all ==
  /\ pc = "write"
  /\ LET s     == Actions[action].fd
         chunk == contiguous_space_to_pop(queue[Other(s)])
     IN  queue' = [queue EXCEPT ![Other(s)] = pop(@, chunk)]
  /\ wrote' = 0
  /\ pc' = "callbacks"
  /\ action' = action + 1
  /\ UNCHANGED <<ready, hangup, eof, taken, out, ended, asserted>>

\* ... and returns when it is done, or with what was written before a reset.
write_returns ==
  /\ pc = "write"
  /\ LET s == Actions[action].fd
     IN  /\ wrote = contiguous_space_to_pop(queue[Other(s)]) \/ reset[s]
         /\ queue' = [queue EXCEPT ![Other(s)] = pop(@, wrote)]
  /\ wrote' = 0
  /\ pc' = "callbacks"
  /\ action' = action + 1
  /\ UNCHANGED <<ready, hangup, eof, taken, out, ended, asserted>>

RelayStep ==
  /\ \/ handle_tcp \/ connect \/ poll \/ skip
     \/ push_callback \/ pop_callback \/ write_more \/ write_returns
  /\ UNCHANGED <<peers, dns>>

-----------------------------------------------------------------------------
(* handle_udp *)

\* A client asks.  The datagram of a reply that never comes, or that comes late,
\* is a client's affair.
client_asks(q) ==
  /\ pc = "idle"
  /\ udp[q] = "idle"
  /\ udp' = [udp EXCEPT ![q] = "queued"]
  /\ UNCHANGED replies

recvfrom(q) == udp[q] = "queued"

handle_udp(q) ==
  /\ recvfrom(q)
  /\ udp' = [udp EXCEPT ![q] = "thread"]
  /\ UNCHANGED replies

\* The thread connects a socket of its own and sends the request on; either
\* may throw.
forward(q) ==
  /\ udp[q] = "thread"
  /\ \E next \in {"asked", "ended"} : udp' = [udp EXCEPT ![q] = next]
  /\ UNCHANGED replies

nameserver_answers(q) ==
  /\ udp[q] = "asked"
  /\ udp' = [udp EXCEPT ![q] = "answered"]
  /\ UNCHANGED replies

\* 60 seconds have passed, or an ICMP message makes poll report an error.
poll_fails(q) ==
  /\ udp[q] = "asked"
  /\ udp' = [udp EXCEPT ![q] = "ended"]
  /\ UNCHANGED replies

\* Bug: the threads share one variable for the request.
Requester_by_reference(q) == CHOOSE r \in Queries : udp[r] \notin {"idle", "queued"}

\* The thread has its own copy of the request.
Requester(q) == q

sendto(address, answer) == replies' = replies \cup {<<address, answer>>}

reply(q) ==
  /\ udp[q] = "answered"
  /\ sendto(Requester(q), q)
  /\ udp' = [udp EXCEPT ![q] = "replied"]

UdpThread(q) == (handle_udp(q) \/ forward(q) \/ poll_fails(q) \/ reply(q)) /\ UNCHANGED <<relay, peers>>

UdpStep ==
  \E q \in Queries :
    \/ UdpThread(q)
    \/ (client_asks(q) \/ nameserver_answers(q)) /\ UNCHANGED <<relay, peers>>

-----------------------------------------------------------------------------

Next == RelayStep \/ UdpStep \/ \E s \in Sides : PeerActs(s) \/ PeerReceives(s)

Spec == Init /\ [][Next]_vars

\* The threads are scheduled, a peer that has not closed its socket reads what
\* comes, and what comes after that is refused.
FairSpec ==
  /\ Spec
  /\ WF_vars(RelayStep)
  /\ \A s \in Sides : WF_vars(PeerReceives(s))
  /\ \A q \in Queries : WF_vars(UdpThread(q))

-----------------------------------------------------------------------------
(* Properties *)

\* Types of the state.
RelayTypeOK ==
  /\ pc \in {"idle", "connect", "poll", "callbacks", "write", "done"}
  /\ action \in 1..5
  /\ ready \subseteq 1..4
  /\ hangup \subseteq Sides
  /\ queue \in [Sides -> ByteStreamQueues]
  /\ taken \in [Sides -> Nat]
  /\ out \in [Sides -> Seq(Nat)]
  /\ wrote \in Nat

\* What is written to a side is what the other side sent: every byte once and
\* in order, across the wrap of the ring buffer and writes that are cut short.
BytesInOrder ==
  \A s \in Sides : \A i \in DOMAIN out[s] : out[s][i] = i - 1

\* No assert of push and pop fails: the callbacks find the space, or the data,
\* that the interest was sampled for.
RelayAssertsHold == asserted

\* A thread that ends because nothing is of interest has read both streams to
\* their ends and written all of both.
ExitsComplete ==
  ended = "exit" =>
    \A s \in Sides : fin[s] /\ Len(out[Other(s)]) = sent[s]

\* The thread ends without losing a byte, unless a peer reset its connection or
\* the nameserver could not be reached.
EndsExplained ==
  ended \in {"hangup", "SIGPIPE", "exception"} =>
    \/ \E s \in Sides : reset[s]
    \/ taken = [s \in Sides |-> 0] /\ out = [s \in Sides |-> <<>>]

\* A stream that has ended is received as a whole by the other side, unless
\* that side has closed its socket or a connection was reset.
StreamsArrive ==
  \A s \in Sides :
    fin[s] ~> \/ received[Other(s)] = sent[s]
              \/ closed[Other(s)] \/ \E t \in Sides : reset[t]

\* The thread ends when both streams have ended, or a connection was reset:
\* no thread is left behind, not even in a write to a peer that is gone.
RelayEnds ==
  (\A s \in Sides : fin[s]) \/ (\E s \in Sides : reset[s]) ~> pc = "done"

\* Every request has its thread, and every thread ends: without an answer, or
\* with the answer to its own request sent to the client that asked, although
\* threads run side by side.
RequestsServed ==
  \A q \in Queries :
    udp[q] = "queued" ~>
      udp[q] = "ended" \/ (udp[q] = "replied" /\ <<q, q>> \in replies)

=============================================================================
