--------------------------- MODULE RecorderProofs ---------------------------
(***************************************************************************)
(* The packet-train recorder, for any number of runs, any number of losses *)
(* and socket buffers of every size.  Three invariants, each under the     *)
(* condition of one of the properties: no run was started hastily; the     *)
(* current run began with nothing on its way; and it also lost nothing.    *)
(***************************************************************************)
EXTENDS Recorder, SequenceTheorems, TLAPS

-----------------------------------------------------------------------------
(* Queues of datagrams *)

LEMMA RangeTyped ==
  ASSUME NEW S, NEW q \in Seq(S)
  PROVE  Range(q) \subseteq S
BY DEF Range

\* A datagram is put at the end of a queue.
LEMMA AppendFacts ==
  ASSUME NEW S, NEW q \in Seq(S), NEW m \in S
  PROVE  /\ Append(q, m) \in Seq(S) /\ Append(q, m) # <<>>
         /\ Len(Append(q, m)) = Len(q) + 1 /\ Len(q) \in Nat
         /\ \A i \in 1..Len(q) : Append(q, m)[i] = q[i]
         /\ Append(q, m)[Len(q) + 1] = m
         /\ Range(Append(q, m)) = Range(q) \cup {m}
<1>1. /\ Append(q, m) \in Seq(S) /\ Append(q, m) # <<>>
      /\ Len(Append(q, m)) = Len(q) + 1 /\ Len(q) \in Nat
      /\ \A i \in 1..Len(q) : Append(q, m)[i] = q[i]
      /\ Append(q, m)[Len(q) + 1] = m
      /\ DOMAIN q = 1..Len(q) /\ DOMAIN Append(q, m) = 1..(Len(q) + 1)
  OBVIOUS
<1>2. Range(Append(q, m)) \subseteq Range(q) \cup {m}
  BY <1>1 DEF Range
<1>3. Range(q) \subseteq Range(Append(q, m))
  BY <1>1 DEF Range
<1>4. m \in Range(Append(q, m))
  <2>1. Len(q) + 1 \in DOMAIN Append(q, m)
    BY <1>1
  <2> QED
    BY <1>1, <2>1 DEF Range
<1> QED
  BY <1>1, <1>2, <1>3, <1>4

\* The first datagram of a queue is taken.
LEMMA TailFacts ==
  ASSUME NEW S, NEW q \in Seq(S), q # <<>>
  PROVE  /\ Tail(q) \in Seq(S) /\ Len(Tail(q)) = Len(q) - 1
         /\ Len(q) \in Nat \ {0}
         /\ \A i \in 1..Len(Tail(q)) : Tail(q)[i] = q[i + 1]
         /\ Head(q) = q[1] /\ Head(q) \in S /\ Head(q) \in Range(q)
         /\ Range(Tail(q)) \subseteq Range(q)
<1>1. /\ Tail(q) \in Seq(S) /\ Len(Tail(q)) = Len(q) - 1
      /\ Len(q) \in Nat \ {0}
      /\ \A i \in 1..Len(Tail(q)) : Tail(q)[i] = q[i + 1]
      /\ Head(q) = q[1] /\ Head(q) \in S
      /\ DOMAIN q = 1..Len(q) /\ DOMAIN Tail(q) = 1..(Len(q) - 1)
  OBVIOUS
<1>2. Head(q) \in Range(q)
  BY <1>1 DEF Range
<1>3. Range(Tail(q)) \subseteq Range(q)
  BY <1>1 DEF Range
<1> QED
  BY <1>1, <1>2, <1>3

\* A datagram of a queue is lost.
LEMMA RemoveFacts ==
  ASSUME NEW S, NEW q \in Seq(S), NEW k \in DOMAIN q
  PROVE  /\ RemoveAt(q, k) \in Seq(S) /\ Len(RemoveAt(q, k)) = Len(q) - 1
         /\ Len(q) \in Nat \ {0} /\ k \in 1..Len(q)
         /\ \A i \in 1..Len(RemoveAt(q, k)) :
              RemoveAt(q, k)[i] = IF i < k THEN q[i] ELSE q[i + 1]
         /\ Range(RemoveAt(q, k)) \subseteq Range(q) /\ q[k] \in Range(q)
<1> DEFINE a == SubSeq(q, 1, k - 1)
           b == SubSeq(q, k + 1, Len(q))
           r == a \o b
<1>1. Len(q) \in Nat \ {0} /\ k \in 1..Len(q) /\ DOMAIN q = 1..Len(q)
  OBVIOUS
<1>2. /\ a \in Seq(S) /\ Len(a) = k - 1
      /\ \A i \in 1..(k - 1) : a[i] = q[i]
  BY <1>1
<1>3. /\ b \in Seq(S) /\ Len(b) = Len(q) - k
      /\ \A i \in 1..(Len(q) - k) : b[i] = q[i + k]
  BY <1>1
<1> HIDE DEF a, b
<1>4. /\ r \in Seq(S) /\ Len(r) = Len(q) - 1 /\ DOMAIN r = 1..(Len(q) - 1)
      /\ \A i \in 1..(Len(q) - 1) : r[i] = IF i < k THEN q[i] ELSE q[i + 1]
  <2>1. /\ r \in Seq(S) /\ Len(r) = Len(a) + Len(b)
        /\ \A i \in 1..(Len(a) + Len(b)) :
             r[i] = IF i <= Len(a) THEN a[i] ELSE b[i - Len(a)]
    BY <1>2, <1>3, ConcatProperties
  <2> HIDE DEF r
  <2>2. ASSUME NEW i \in 1..(Len(q) - 1)
        PROVE  r[i] = IF i < k THEN q[i] ELSE q[i + 1]
    <3>1. CASE i < k
      BY <1>1, <1>2, <1>3, <2>1, <3>1
    <3>2. CASE ~ (i < k)
      <4>1. i - (k - 1) \in 1..(Len(q) - k) /\ i - (k - 1) + k = i + 1
        BY <1>1, <3>2
      <4>2. b[i - (k - 1)] = q[i + 1]
        BY <1>3, <4>1
      <4>3. i \in 1..(Len(a) + Len(b)) /\ ~ (i <= Len(a)) /\ Len(a) = k - 1
        BY <1>1, <1>2, <1>3, <3>2
      <4>4. r[i] = b[i - (k - 1)]
        BY <2>1, <4>3
      <4> QED
        BY <3>2, <4>2, <4>4
    <3> QED
      BY <3>1, <3>2
  <2>3. Len(a) + Len(b) = Len(q) - 1
    BY <1>1, <1>2, <1>3
  <2>4. r \in Seq(S) /\ Len(r) = Len(q) - 1
    BY <2>1, <2>3, Zenon
  <2>5. DOMAIN r = 1..(Len(q) - 1)
    BY <2>4, LenProperties, Zenon
  <2> QED
    BY <2>2, <2>4, <2>5, Zenon
<1>5. r = RemoveAt(q, k)
  BY DEF r, a, b, RemoveAt
<1> HIDE DEF r
<1>6. q[k] \in Range(q)
  BY DEF Range
<1>7. ASSUME NEW m \in Range(r)
      PROVE  m \in Range(q)
  <2>1. PICK i \in 1..(Len(q) - 1) : m = r[i]
    BY <1>4 DEF Range
  <2>2. i \in DOMAIN q /\ i + 1 \in DOMAIN q
    BY <1>1
  <2>3. m = q[i] \/ m = q[i + 1]
    BY <1>4, <2>1
  <2> QED
    BY <2>2, <2>3 DEF Range
<1> QED
  BY <1>1, <1>4, <1>5, <1>6, <1>7

\* What a socket's buffer holds after a datagram was sent to it.
LEMMA SentFacts ==
  ASSUME NEW q \in Seq(Messages), NEW m \in Messages
  PROVE  /\ Sent(q, m) \in Seq(Messages)
         /\ Range(Sent(q, m)) \subseteq Range(q) \cup {m}
         /\ Sent(q, m) = q \/ Sent(q, m) = Append(q, m)
         /\ m.kind # "data" => Sent(q, m) = Append(q, m)
BY AppendFacts DEF Sent

LEMMA DatagramFacts ==
  ASSUME NEW kind, NEW id, NEW socket
  PROVE  /\ Datagram(kind, id, socket).kind = kind
         /\ Datagram(kind, id, socket).id = id
         /\ Datagram(kind, id, socket).socket = socket
         /\ /\ kind \in {"SYN", "SYN_ACK", "config", "CONFIG_ACK", "FIN", "data"}
            /\ id \in 1..Runs /\ socket \in Sockets
            => Datagram(kind, id, socket) \in Messages
BY DEF Datagram, Messages

\* The queues towards the client after a datagram was sent to one of its sockets.
LEMMA SendDownFacts ==
  ASSUME downstream \in [Sockets -> Seq(Messages)],
         NEW socket \in Sockets, NEW m \in Messages, SendDown(socket, m)
  PROVE  /\ downstream' \in [Sockets -> Seq(Messages)]
         /\ downstream'[socket] = Sent(downstream[socket], m)
         /\ \A s \in Sockets : s # socket => downstream'[s] = downstream[s]
         /\ \A s \in Sockets : Range(downstream'[s]) \subseteq Range(downstream[s]) \cup {m}
<1>1. Sent(downstream[socket], m) \in Seq(Messages)
  BY SentFacts
<1>2. /\ downstream' \in [Sockets -> Seq(Messages)]
      /\ downstream'[socket] = Sent(downstream[socket], m)
      /\ \A s \in Sockets : s # socket => downstream'[s] = downstream[s]
  BY <1>1 DEF SendDown
<1>3. Range(Sent(downstream[socket], m)) \subseteq Range(downstream[socket]) \cup {m}
  BY SentFacts
<1> QED
  BY <1>2, <1>3

\* The queues after a socket's first datagram was taken.
LEMMA TakeDownFacts ==
  ASSUME downstream \in [Sockets -> Seq(Messages)],
         NEW socket \in Sockets, downstream[socket] # <<>>,
         downstream' = [downstream EXCEPT ![socket] = Tail(@)]
  PROVE  /\ downstream' \in [Sockets -> Seq(Messages)]
         /\ downstream'[socket] = Tail(downstream[socket])
         /\ \A s \in Sockets : s # socket => downstream'[s] = downstream[s]
         /\ \A s \in Sockets : Range(downstream'[s]) \subseteq Range(downstream[s])
         /\ Head(downstream[socket]) \in Range(downstream[socket])
         /\ Head(downstream[socket]) \in Messages
<1>1. /\ Tail(downstream[socket]) \in Seq(Messages)
      /\ Range(Tail(downstream[socket])) \subseteq Range(downstream[socket])
      /\ Head(downstream[socket]) \in Range(downstream[socket])
      /\ Head(downstream[socket]) \in Messages
  BY TailFacts
<1>2. /\ downstream' \in [Sockets -> Seq(Messages)]
      /\ downstream'[socket] = Tail(downstream[socket])
      /\ \A s \in Sockets : s # socket => downstream'[s] = downstream[s]
  BY <1>1
<1> QED
  BY <1>1, <1>2

\* The queues after a datagram to the client was lost.
LEMMA LoseDownFacts ==
  ASSUME downstream \in [Sockets -> Seq(Messages)],
         NEW socket \in Sockets, NEW i \in DOMAIN downstream[socket],
         downstream' = [downstream EXCEPT ![socket] = RemoveAt(@, i)]
  PROVE  /\ downstream' \in [Sockets -> Seq(Messages)]
         /\ downstream'[socket] = RemoveAt(downstream[socket], i)
         /\ \A s \in Sockets : s # socket => downstream'[s] = downstream[s]
         /\ \A s \in Sockets : Range(downstream'[s]) \subseteq Range(downstream[s])
<1>1. /\ RemoveAt(downstream[socket], i) \in Seq(Messages)
      /\ Range(RemoveAt(downstream[socket], i)) \subseteq Range(downstream[socket])
  BY RemoveFacts
<1>2. /\ downstream' \in [Sockets -> Seq(Messages)]
      /\ downstream'[socket] = RemoveAt(downstream[socket], i)
      /\ \A s \in Sockets : s # socket => downstream'[s] = downstream[s]
  BY <1>1
<1> QED
  BY <1>1, <1>2

\* The first datagram to the server is taken.
LEMMA ArrivedFacts ==
  ASSUME upstream \in Seq(Messages), NEW m, Arrived(m)
  PROVE  /\ m \in Messages /\ m \in Range(upstream) /\ m = upstream[1]
         /\ upstream' \in Seq(Messages) /\ Range(upstream') \subseteq Range(upstream)
         /\ Len(upstream) \in Nat \ {0} /\ Len(upstream') = Len(upstream) - 1
         /\ \A i \in 1..Len(upstream') : upstream'[i] = upstream[i + 1]
BY TailFacts DEF Arrived

\* The queue to the server after a datagram was sent.
LEMMA SendUpFacts ==
  ASSUME upstream \in Seq(Messages), NEW m \in Messages, SendUp(m)
  PROVE  /\ upstream' \in Seq(Messages)
         /\ Range(upstream') \subseteq Range(upstream) \cup {m}
         /\ upstream' = upstream \/ upstream' = Append(upstream, m)
         /\ m.kind # "data" => upstream' = Append(upstream, m)
BY SentFacts DEF SendUp

-----------------------------------------------------------------------------
(* Types *)

TypeInv ==
  /\ RecorderTypeOK
  /\ client = "idle" <=> run = 0
  /\ \A m \in Range(upstream) : m.kind \in {"SYN", "config", "FIN", "data"}

LEMMA TypeInit == Init => TypeInv
<1> SUFFICES ASSUME Init PROVE TypeInv
  OBVIOUS
<1>1. upstream \in Seq(Messages) /\ downstream \in [Sockets -> Seq(Messages)]
  BY DEF Init, NetworkInit
<1>2. Range(upstream) = {}
  BY DEF Init, NetworkInit, Range
<1>3. /\ curr_sender_id \in 0..Runs /\ curr_upload \in {0, 1} /\ address2 \in {0} \cup Sockets
      /\ senders \subseteq 1..Runs /\ senders = {}
      /\ run \in 0..Runs /\ run = 0 /\ losses \in 0..MaxLoss /\ upload \in {0, 1}
  BY RecorderAssumption DEF Init, ServerInit, ClientInit, NetworkInit
<1>4. /\ server \in {"loop", "second", "dead"} /\ log_file \in {"None", "open", "closed"}
      /\ client \in Ended \union Connected \union {"syn", "ack1", "ack2", "config_ack"}
      /\ client = "idle" /\ began \in {"loop", "second", "dead", "busy"}
  BY DEF Init, ServerInit, ClientInit, Ended
<1>5. /\ stop_sending \in BOOLEAN /\ send_thread \in BOOLEAN /\ recent \in BOOLEAN
      /\ receiving \in BOOLEAN /\ lost \in BOOLEAN /\ spoiled \in BOOLEAN /\ hasty \in BOOLEAN
  BY Zenon DEF Init, ServerInit, ClientInit, NetworkInit
<1> QED
  BY <1>1, <1>2, <1>3, <1>4, <1>5 DEF TypeInv, RecorderTypeOK

QueuesTyped == upstream \in Seq(Messages) /\ downstream \in [Sockets -> Seq(Messages)]

ValuesTyped ==
  /\ server \in {"loop", "second", "dead"} /\ address2 \in {0} \cup Sockets
  /\ curr_sender_id \in 0..Runs /\ curr_upload \in {0, 1}
  /\ log_file \in {"None", "open", "closed"} /\ senders \subseteq 1..Runs
  /\ run \in 0..Runs
  /\ client \in Ended \cup Connected \cup {"syn", "ack1", "ack2", "config_ack"}
  /\ upload \in {0, 1} /\ losses \in 0..MaxLoss
  /\ began \in {"loop", "second", "dead", "busy"}

FlagsTyped ==
  /\ stop_sending \in BOOLEAN /\ send_thread \in BOOLEAN /\ recent \in BOOLEAN
  /\ receiving \in BOOLEAN /\ lost \in BOOLEAN /\ spoiled \in BOOLEAN /\ hasty \in BOOLEAN
  /\ senders # {} => send_thread

LEMMA TypeParts == RecorderTypeOK <=> QueuesTyped /\ ValuesTyped /\ FlagsTyped
BY DEF RecorderTypeOK, QueuesTyped, ValuesTyped, FlagsTyped

\* A step of the server is the handling of the first datagram on its way to it.
LEMMA ServerCases ==
  ASSUME ServerReceives
  PROVE  /\ UNCHANGED <<losses, lost, client_vars, history>>
         /\ \E m \in Range(upstream) :
              /\ Arrived(m)
              /\ \/ FirstSyn(m) \/ SecondSyn(m) \/ SecondOther(m)
                 \/ Fin(m) \/ Config(m) \/ Data(m)
BY Zenon DEF ServerReceives

\* The flags stay Boolean, and where there is a sender there was a thread.
LEMMA FlagsStep ==
  ASSUME FlagsTyped, [Next]_vars
  PROVE  FlagsTyped'
<1> USE DEF session, threads, network, client_vars, history
<1>1. CASE ServerReceives
  <2>1. PICK m \in Range(upstream) :
          \/ FirstSyn(m) \/ SecondSyn(m) \/ SecondOther(m) \/ Fin(m) \/ Config(m) \/ Data(m)
    BY <1>1, ServerCases, Zenon
  <2>2. UNCHANGED <<lost, receiving, spoiled, hasty>>
    BY <1>1, ServerCases, Zenon
  <2>3. CASE FirstSyn(m)
    BY <2>2, <2>3, Zenon DEF FirstSyn, FlagsTyped
  <2>4. CASE SecondSyn(m)
    BY <2>2, <2>4, Zenon DEF SecondSyn, FlagsTyped
  <2>5. CASE SecondOther(m)
    BY <2>2, <2>5, Zenon DEF SecondOther, FlagsTyped
  <2>6. CASE Fin(m)
    BY <2>2, <2>6, Zenon DEF Fin, FlagsTyped
  <2>7. CASE Config(m)
    BY <2>2, <2>7, Zenon DEF Config, FlagsTyped
  <2>8. CASE Data(m)
    BY <2>2, <2>8, Zenon DEF Data, FlagsTyped
  <2> QED
    BY <2>1, <2>3, <2>4, <2>5, <2>6, <2>7, <2>8, Zenon
<1>2. ASSUME NEW id \in 1..Runs, send_packet_train_thread(id)
      PROVE  FlagsTyped'
  BY <1>2, Zenon DEF send_packet_train_thread, FlagsTyped
<1>3. CASE Inactivity
  BY <1>3, Zenon DEF Inactivity, FlagsTyped
<1>4. CASE StartRun
  BY <1>4, Zenon DEF StartRun, Failing, FlagsTyped
<1>5. CASE SendSyn
  BY <1>5, Zenon DEF SendSyn, FlagsTyped
<1>6. CASE FirstAck
  BY <1>6, Zenon DEF FirstAck, FlagsTyped
<1>7. CASE SecondAck
  BY <1>7, Zenon DEF SecondAck, FlagsTyped
<1>8. CASE ConfigAck
  BY <1>8, Zenon DEF ConfigAck, FlagsTyped
<1>9. CASE SocketTimeout
  BY <1>9, Zenon DEF SocketTimeout, FlagsTyped
<1>10. CASE terminateConnection
  BY <1>10, Zenon DEF terminateConnection, FlagsTyped
<1>11. CASE closeSocket
  BY <1>11, Zenon DEF closeSocket, FlagsTyped
<1>12. CASE sendDataTrain
  BY <1>12, Zenon DEF sendDataTrain, FlagsTyped
<1>13. CASE RunReceives
  BY <1>13, Zenon DEF RunReceives, FlagsTyped
<1>14. CASE ReceiverTimeout
  BY <1>14, Zenon DEF ReceiverTimeout, FlagsTyped
<1>15. CASE Kill
  BY <1>15, Zenon DEF Kill, FlagsTyped
<1>16. CASE Lose
  BY <1>16, Zenon DEF Lose, FlagsTyped
<1>17. CASE PortClosed
  BY <1>17, Zenon DEF PortClosed, FlagsTyped
<1>18. CASE UNCHANGED vars
  BY <1>18, Zenon DEF vars, FlagsTyped
<1> QED
  BY <1>1, <1>2, <1>3, <1>4, <1>5, <1>6, <1>7, <1>8, <1>9, <1>10, <1>11, <1>12, <1>13,
     <1>14, <1>15, <1>16, <1>17, <1>18, Zenon
  DEF Next, MainThread, Senders

UpKinds == {"SYN", "config", "FIN", "data"}

LEMMA TypeStep ==
  ASSUME TypeInv, [Next]_vars
  PROVE  TypeInv'
<1> USE DEF session, threads, network, client_vars, history, TypeInv
<1>1. QueuesTyped /\ ValuesTyped /\ FlagsTyped
  BY TypeParts
<1>2. FlagsTyped'
  BY <1>1, FlagsStep
<1> SUFFICES /\ ValuesTyped' /\ QueuesTyped' /\ (client = "idle" <=> run = 0)'
             /\ \A m \in Range(upstream') : m.kind \in UpKinds
  <2>1. ASSUME ValuesTyped', QueuesTyped'
        PROVE  RecorderTypeOK'
    BY <1>2, <2>1 DEF RecorderTypeOK, ValuesTyped, QueuesTyped, FlagsTyped
  <2> QED
    BY <2>1 DEF UpKinds
<1> USE DEF QueuesTyped
<1>3. \A m \in Range(upstream) : m.kind \in UpKinds
  BY DEF UpKinds
<1>4. ASSUME Range(upstream') \subseteq Range(upstream)
      PROVE  \A m \in Range(upstream') : m.kind \in UpKinds
  BY <1>3, <1>4
<1>5. ASSUME NEW x \in Messages, x.kind \in UpKinds, SendUp(x)
      PROVE  /\ \A m \in Range(upstream') : m.kind \in UpKinds
             /\ upstream' \in Seq(Messages)
  BY <1>1, <1>3, <1>5, SendUpFacts
<1>6. \A kind \in UpKinds \cup {"SYN_ACK", "CONFIG_ACK"}, socket \in Sockets : run > 0 =>
        Datagram(kind, run, socket) \in Messages /\ Datagram(kind, run, socket).kind = kind
  BY <1>1, DatagramFacts DEF ValuesTyped, UpKinds
<1>7. 1 \in Sockets /\ 2 \in Sockets
  BY DEF Sockets
<1>8. CASE ServerReceives
  <2>1. PICK m \in Range(upstream) :
          /\ Arrived(m)
          /\ \/ FirstSyn(m) \/ SecondSyn(m) \/ SecondOther(m) \/ Fin(m) \/ Config(m) \/ Data(m)
    BY <1>8, ServerCases, Zenon
  <2>2. UNCHANGED <<losses, client_vars, history>>
    BY <1>8, ServerCases, Zenon
  <2>3. /\ m \in Messages /\ upstream' \in Seq(Messages)
        /\ \A x \in Range(upstream') : x.kind \in UpKinds
    BY <1>1, <1>4, <2>1, ArrivedFacts
  <2>4. /\ m.id \in 1..Runs /\ m.socket \in Sockets /\ m.upload \in {0, 1}
        /\ \A kind \in {"SYN_ACK", "CONFIG_ACK", "data"} :
             /\ Datagram(kind, m.id, m.socket) \in Messages
             /\ address2 \in Sockets => Datagram(kind, m.id, address2) \in Messages
    BY <2>3, DatagramFacts DEF Messages
  <2>5. CASE FirstSyn(m)
    <3>1. downstream' \in [Sockets -> Seq(Messages)]
      BY <1>1, <2>4, <2>5, SendDownFacts DEF FirstSyn
    <3>2. ValuesTyped'
      BY <1>1, <2>2, <2>4, <2>5, RecorderAssumption DEF FirstSyn, ValuesTyped
    <3> QED
      BY <2>2, <2>3, <3>1, <3>2
  <2>6. CASE SecondSyn(m)
    <3>1. downstream' \in [Sockets -> Seq(Messages)]
      BY <1>1, <2>4, <2>6, SendDownFacts DEF SecondSyn
    <3>2. ValuesTyped'
      BY <1>1, <2>2, <2>4, <2>6, RecorderAssumption DEF SecondSyn, ValuesTyped
    <3> QED
      BY <2>2, <2>3, <3>1, <3>2
  <2>7. CASE SecondOther(m)
    <3>1. downstream' \in [Sockets -> Seq(Messages)]
      BY <1>1, <2>7 DEF SecondOther
    <3>2. ValuesTyped'
      BY <1>1, <2>2, <2>4, <2>7, RecorderAssumption DEF SecondOther, ValuesTyped
    <3> QED
      BY <2>2, <2>3, <3>1, <3>2
  <2>8. CASE Fin(m)
    <3>1. downstream' \in [Sockets -> Seq(Messages)]
      BY <1>1, <2>8 DEF Fin
    <3>2. ValuesTyped'
      BY <1>1, <2>2, <2>4, <2>8, RecorderAssumption DEF Fin, ValuesTyped
    <3> QED
      BY <2>2, <2>3, <3>1, <3>2
  <2>9. CASE Config(m)
    <3>1. downstream' \in [Sockets -> Seq(Messages)]
      BY <1>1, <2>4, <2>9, SendDownFacts DEF Config
    <3>2. ValuesTyped'
      BY <1>1, <2>2, <2>4, <2>9, RecorderAssumption DEF Config, ValuesTyped
    <3> QED
      BY <2>2, <2>3, <3>1, <3>2
  <2>10. CASE Data(m)
    <3>1. downstream' \in [Sockets -> Seq(Messages)]
      BY <1>1, <2>4, <2>10, SendDownFacts DEF Data, ValuesTyped
    <3>2. ValuesTyped'
      BY <1>1, <2>2, <2>4, <2>10, RecorderAssumption DEF Data, ValuesTyped
    <3> QED
      BY <2>2, <2>3, <3>1, <3>2
  <2> QED
    BY <2>1, <2>5, <2>6, <2>7, <2>8, <2>9, <2>10
<1>9. ASSUME NEW id \in 1..Runs, send_packet_train_thread(id)
      PROVE  /\ ValuesTyped' /\ QueuesTyped' /\ (client = "idle" <=> run = 0)'
             /\ \A m \in Range(upstream') : m.kind \in UpKinds
  <2>1. Datagram("data", id, 1) \in Messages
    BY <1>7, DatagramFacts
  <2>2. downstream' \in [Sockets -> Seq(Messages)]
    BY <1>1, <1>7, <1>9, <2>1, SendDownFacts DEF send_packet_train_thread
  <2> QED
    BY <1>1, <1>3, <1>9, <2>2 DEF send_packet_train_thread, ValuesTyped
<1>10. CASE Inactivity
  BY <1>1, <1>3, <1>10 DEF Inactivity, ValuesTyped
<1>11. CASE StartRun
  <2>1. run + 1 \in 0..Runs /\ run + 1 # 0
    BY <1>1, <1>11, RecorderAssumption DEF StartRun, ValuesTyped
  <2> QED
    BY <1>1, <1>3, <1>11, <2>1 DEF StartRun, ValuesTyped
<1>12. run > 0 <=> client # "idle"
  BY <1>1 DEF ValuesTyped
<1>13. CASE SendSyn
  <2>1. run > 0
    BY <1>12, <1>13 DEF SendSyn, Connected
  <2>2. Datagram("SYN", run, 1) \in Messages /\ Datagram("SYN", run, 1).kind = "SYN"
    BY <1>6, <1>7, <2>1 DEF UpKinds
  <2>3. /\ \A m \in Range(upstream') : m.kind \in UpKinds
        /\ upstream' \in Seq(Messages)
    BY <1>5, <1>13, <2>2 DEF SendSyn, UpKinds
  <2> QED
    BY <1>1, <1>13, <2>3 DEF SendSyn, ValuesTyped, Connected
<1>14. CASE FirstAck
  <2>1. run > 0
    BY <1>12, <1>14 DEF FirstAck, Connected
  <2>2. PICK m \in Range(downstream[1]) : Receive(1, m)
    BY <1>14 DEF FirstAck
  <2>3. downstream' \in [Sockets -> Seq(Messages)]
    BY <1>1, <1>7, <2>2, TakeDownFacts DEF Receive
  <2>4. Datagram("SYN", run, 2) \in Messages /\ Datagram("SYN", run, 2).kind \in UpKinds
    BY <1>6, <1>7, <2>1 DEF UpKinds
  <2>5. /\ \A x \in Range(upstream') : x.kind \in UpKinds
        /\ upstream' \in Seq(Messages)
    BY <1>1, <1>3, <1>5, <1>14, <2>4 DEF FirstAck
  <2> QED
    BY <1>1, <1>14, <2>3, <2>5 DEF FirstAck, ValuesTyped, Ended
<1>15. CASE SecondAck
  <2>1. run > 0
    BY <1>12, <1>15 DEF SecondAck, Connected
  <2>2. PICK m \in Range(downstream[2]) : Receive(2, m)
    BY <1>15 DEF SecondAck
  <2>3. downstream' \in [Sockets -> Seq(Messages)]
    BY <1>1, <1>7, <2>2, TakeDownFacts DEF Receive
  <2>4. \/ client' = "config_ack" /\ sendConfig
        \/ client' = "failed" /\ UNCHANGED <<upstream, upload>>
    BY <1>15 DEF SecondAck
  <2>5. /\ \A x \in Range(upstream') : x.kind \in UpKinds
        /\ upstream' \in Seq(Messages) /\ upload' \in {0, 1}
    <3>1. CASE sendConfig
      <4> DEFINE c == [Datagram("config", run, 1) EXCEPT !.upload = upload']
      <4>1. upload' \in {0, 1} /\ run \in 1..Runs
        BY <1>1, <2>1, <3>1 DEF sendConfig, ValuesTyped
      <4>2. c = [kind |-> "config", id |-> run, socket |-> 1, upload |-> upload']
        BY DEF Datagram
      <4>3. c \in Messages /\ c.kind \in UpKinds
        BY <1>7, <4>1, <4>2 DEF Messages, UpKinds
      <4>4. SendUp(c)
        BY <3>1 DEF sendConfig
      <4> QED
        BY <1>5, <4>1, <4>3, <4>4
    <3>2. CASE UNCHANGED <<upstream, upload>>
      BY <1>1, <1>3, <3>2 DEF ValuesTyped
    <3> QED
      BY <2>4, <3>1, <3>2
  <2> QED
    BY <1>1, <1>15, <2>3, <2>4, <2>5 DEF SecondAck, ValuesTyped, Ended
<1>16. CASE ConfigAck
  <2>1. run > 0
    BY <1>12, <1>16 DEF ConfigAck, Connected
  <2>2. PICK m \in Range(downstream[1]) : Receive(1, m)
    BY <1>16 DEF ConfigAck
  <2>3. downstream' \in [Sockets -> Seq(Messages)]
    BY <1>1, <1>7, <2>2, TakeDownFacts DEF Receive
  <2> QED
    BY <1>1, <1>3, <1>16, <2>3 DEF ConfigAck, ValuesTyped, Ended, Connected
<1>17. CASE SocketTimeout
  BY <1>1, <1>3, <1>17 DEF SocketTimeout, ValuesTyped, Ended
<1>18. CASE terminateConnection
  <2>1. run > 0
    BY <1>12, <1>18 DEF terminateConnection, Connected
  <2>2. Datagram("FIN", run, 1) \in Messages /\ Datagram("FIN", run, 1).kind = "FIN"
    BY <1>6, <1>7, <2>1 DEF UpKinds
  <2>3. /\ \A m \in Range(upstream') : m.kind \in UpKinds
        /\ upstream' \in Seq(Messages)
    BY <1>5, <1>18, <2>2 DEF terminateConnection, UpKinds
  <2> QED
    BY <1>1, <1>18, <2>3 DEF terminateConnection, ValuesTyped, Connected
<1>19. CASE closeSocket
  BY <1>1, <1>3, <1>19 DEF closeSocket, ValuesTyped, Ended
<1>20. CASE sendDataTrain
  <2>1. run > 0
    BY <1>12, <1>20 DEF sendDataTrain, Connected
  <2>2. Datagram("data", run, 1) \in Messages /\ Datagram("data", run, 1).kind = "data"
    BY <1>6, <1>7, <2>1 DEF UpKinds
  <2>3. /\ \A m \in Range(upstream') : m.kind \in UpKinds
        /\ upstream' \in Seq(Messages)
    BY <1>5, <1>20, <2>2 DEF sendDataTrain, UpKinds
  <2> QED
    BY <1>1, <1>20, <2>3 DEF sendDataTrain, ValuesTyped, Connected
<1>21. CASE RunReceives
  <2> DEFINE socket == IF upload = 1 THEN 2 ELSE 1
  <2>1. PICK m \in Range(downstream[socket]) :
          /\ Receive(socket, m)
          /\ \/ SendUp(Datagram("data", m.id, 2))
             \/ UNCHANGED upstream
    BY <1>21 DEF RunReceives
  <2>2. socket \in Sockets
    BY <1>7
  <2> HIDE DEF socket
  <2>3. downstream' \in [Sockets -> Seq(Messages)] /\ m \in Messages
    BY <1>1, <2>1, <2>2, TakeDownFacts DEF Receive
  <2>4. Datagram("data", m.id, 2) \in Messages /\ Datagram("data", m.id, 2).kind \in UpKinds
    BY <1>7, <2>3, DatagramFacts DEF Messages, UpKinds
  <2>5. /\ \A x \in Range(upstream') : x.kind \in UpKinds
        /\ upstream' \in Seq(Messages)
    BY <1>1, <1>3, <1>5, <2>1, <2>4
  <2> QED
    BY <1>1, <1>21, <2>3, <2>5 DEF RunReceives, ValuesTyped
<1>22. CASE ReceiverTimeout
  BY <1>1, <1>3, <1>22 DEF ReceiverTimeout, ValuesTyped
<1>23. CASE Kill
  BY <1>1, <1>3, <1>23 DEF Kill, ValuesTyped, Ended
<1>24. CASE Lose
  <2>1. losses' \in 0..MaxLoss
    BY <1>1, <1>24, RecorderAssumption DEF Lose, ValuesTyped
  <2>2. /\ \A x \in Range(upstream') : x.kind \in UpKinds
        /\ upstream' \in Seq(Messages) /\ downstream' \in [Sockets -> Seq(Messages)]
    <3>1. CASE /\ UNCHANGED downstream
               /\ \E i \in DOMAIN upstream : upstream' = RemoveAt(upstream, i)
      BY <1>1, <1>3, <3>1, RemoveFacts
    <3>2. CASE /\ UNCHANGED upstream
               /\ \E s \in Sockets : \E i \in DOMAIN downstream[s] :
                    downstream' = [downstream EXCEPT ![s] = RemoveAt(@, i)]
      BY <1>1, <1>3, <3>2, LoseDownFacts
    <3> QED
      BY <1>24, <3>1, <3>2 DEF Lose
  <2> QED
    BY <1>1, <1>24, <2>1, <2>2 DEF Lose, ValuesTyped
<1>25. CASE PortClosed
  <2>1. downstream' \in [Sockets -> Seq(Messages)]
    BY <1>1, <1>25, TakeDownFacts DEF PortClosed
  <2> QED
    BY <1>1, <1>3, <1>25, <2>1 DEF PortClosed, ValuesTyped
<1>26. CASE UNCHANGED vars
  BY <1>1, <1>3, <1>26 DEF vars, ValuesTyped
<1> QED
  BY <1>8, <1>9, <1>10, <1>11, <1>13, <1>14, <1>15, <1>16, <1>17, <1>18, <1>19, <1>20,
     <1>21, <1>22, <1>23, <1>24, <1>25, <1>26, Zenon
  DEF Next, MainThread, Senders

LEMMA TypeHolds == RecorderSpec => []TypeInv
<1>1. TypeInv /\ [Next]_vars => TypeInv'
  BY TypeStep
<1> QED
  BY <1>1, TypeInit, PTL DEF RecorderSpec

\* The state of the server, the clients and the network stays well formed,
\* whatever is lost, for every number of runs and losses.
THEOREM RecorderTypeCorrect == RecorderSpec => []RecorderTypeOK
<1>1. TypeInv => RecorderTypeOK
  BY DEF TypeInv
<1> QED
  BY <1>1, TypeHolds, PTL

-----------------------------------------------------------------------------
(* The server survives *)

\* What may be ahead of what on the way to the server: nothing is behind a
\* configuration, and no train or FIN is behind a SYN.
Precedes(m, n) ==
  m.kind \in {"data", "FIN"} \/ (m.kind = "SYN" /\ n.kind \in {"SYN", "config"})

InOrder(q) == \A i, j \in 1..Len(q) : i < j => Precedes(q[i], q[j])

LEMMA InOrderAppend ==
  ASSUME NEW q \in Seq(Messages), NEW x \in Messages, InOrder(q),
         \A m \in Range(q) : Precedes(m, x)
  PROVE  InOrder(Append(q, x))
<1> SUFFICES ASSUME NEW i \in 1..Len(Append(q, x)), NEW j \in 1..Len(Append(q, x)), i < j
             PROVE  Precedes(Append(q, x)[i], Append(q, x)[j])
  BY DEF InOrder
<1>1. /\ Len(Append(q, x)) = Len(q) + 1 /\ Len(q) \in Nat
      /\ \A k \in 1..Len(q) : Append(q, x)[k] = q[k]
      /\ Append(q, x)[Len(q) + 1] = x
  BY AppendFacts
<1>2. i \in 1..Len(q) /\ Append(q, x)[i] = q[i]
  BY <1>1
<1>3. q[i] \in Range(q)
  BY <1>2 DEF Range
<1>4. CASE j = Len(q) + 1
  BY <1>1, <1>2, <1>3, <1>4
<1>5. CASE j # Len(q) + 1
  BY <1>1, <1>2, <1>5 DEF InOrder
<1> QED
  BY <1>4, <1>5

LEMMA InOrderTail ==
  ASSUME NEW q \in Seq(Messages), q # <<>>, InOrder(q)
  PROVE  InOrder(Tail(q)) /\ \A m \in Range(Tail(q)) : Precedes(Head(q), m)
<1>1. /\ Tail(q) \in Seq(Messages) /\ Len(Tail(q)) = Len(q) - 1 /\ Len(q) \in Nat \ {0}
      /\ \A k \in 1..Len(Tail(q)) : Tail(q)[k] = q[k + 1]
      /\ Head(q) = q[1]
  BY TailFacts
<1>2. ASSUME NEW i \in 1..Len(Tail(q)), NEW j \in 1..Len(Tail(q)), i < j
      PROVE  Precedes(Tail(q)[i], Tail(q)[j])
  <2>1. i + 1 \in 1..Len(q) /\ j + 1 \in 1..Len(q) /\ i + 1 < j + 1
    BY <1>1, <1>2
  <2> QED
    BY <1>1, <2>1 DEF InOrder
<1>3. ASSUME NEW m \in Range(Tail(q))
      PROVE  Precedes(Head(q), m)
  <2>1. PICK k \in 1..Len(Tail(q)) : m = Tail(q)[k]
    BY <1>1 DEF Range
  <2>2. 1 \in 1..Len(q) /\ k + 1 \in 1..Len(q) /\ 1 < k + 1 /\ m = q[k + 1]
    BY <1>1, <2>1
  <2> QED
    BY <1>1, <2>2 DEF InOrder
<1> QED
  BY <1>2, <1>3 DEF InOrder

LEMMA InOrderRemove ==
  ASSUME NEW q \in Seq(Messages), NEW k \in DOMAIN q, InOrder(q)
  PROVE  InOrder(RemoveAt(q, k))
<1> DEFINE r == RemoveAt(q, k)
<1>1. /\ Len(r) = Len(q) - 1 /\ Len(q) \in Nat \ {0} /\ k \in 1..Len(q)
      /\ \A i \in 1..Len(r) : r[i] = IF i < k THEN q[i] ELSE q[i + 1]
  BY RemoveFacts
<1> HIDE DEF r
<1>2. ASSUME NEW i \in 1..Len(r), NEW j \in 1..Len(r), i < j
      PROVE  Precedes(r[i], r[j])
  <2> DEFINE a == IF i < k THEN i ELSE i + 1
             b == IF j < k THEN j ELSE j + 1
  <2>1. a \in 1..Len(q) /\ b \in 1..Len(q) /\ a < b
    BY <1>1, <1>2
  <2>2. r[i] = q[a] /\ r[j] = q[b]
    BY <1>1
  <2> HIDE DEF a, b
  <2> QED
    BY <2>1, <2>2 DEF InOrder
<1> QED
  BY <1>2 DEF InOrder, r

\* The server logs trains, and echoes those of its current sender.
Ready == server = "loop" /\ log_file = "open" /\ (curr_sender_id # 0 => address2 # 0)

\* A run that has not sent its configuration yet.
Shaking == {"syn", "ack1", "ack2"}

\* As long as no run was started hastily: a train, a FIN or a CONFIG_ACK on its
\* way, or a connected run, means that the server is ready and that no SYN or
\* configuration is ahead that would change that.
SessionSound ==
  /\ server # "dead" /\ curr_sender_id <= run /\ InOrder(upstream)
  /\ \A m \in Range(upstream) :
       /\ m.kind \in {"SYN", "config"} => m.id = run
       /\ m.kind \in {"data", "FIN"} => Ready
       /\ m.kind = "config" =>
            client \notin Shaking \cup Connected /\ (curr_sender_id = run => address2 # 0)
       /\ client \in Connected => m.kind \in {"data", "FIN"}
  /\ client \in Shaking => (curr_sender_id = run => address2 # 0)
  /\ client \in Connected => Ready
  /\ \A s \in Sockets : \A a \in Range(downstream[s]) : a.kind = "CONFIG_ACK" =>
       client \notin Shaking /\ Ready /\ \A m \in Range(upstream) : m.kind \in {"data", "FIN"}

SurvivalInv == ~hasty => SessionSound

LEMMA SurvivalInit == Init => SurvivalInv
<1> SUFFICES ASSUME Init PROVE SessionSound
  BY DEF SurvivalInv
<1>1. /\ Range(upstream) = {} /\ InOrder(upstream)
      /\ \A s \in Sockets : Range(downstream[s]) = {}
  BY DEF Init, NetworkInit, Range, InOrder
<1> QED
  BY <1>1 DEF Init, ServerInit, ClientInit, SessionSound, Shaking, Connected

\* A step of the server.
LEMMA SurvivalServer ==
  ASSUME TypeInv, SessionSound, ServerReceives
  PROVE  SessionSound'
<1> USE DEF session, threads, network, client_vars, history
<1>1. PICK m \in Range(upstream) :
        /\ Arrived(m)
        /\ \/ FirstSyn(m) \/ SecondSyn(m) \/ SecondOther(m) \/ Fin(m) \/ Config(m) \/ Data(m)
  BY ServerCases, Zenon
<1>2. UNCHANGED <<client, run>>
  BY ServerCases, Zenon
<1>3. QueuesTyped /\ ValuesTyped /\ (client = "idle" <=> run = 0) /\ m.kind \in UpKinds
  BY <1>1, TypeParts DEF TypeInv, UpKinds
<1>4. /\ m \in Messages /\ Range(upstream') \subseteq Range(upstream)
      /\ InOrder(upstream') /\ \A n \in Range(upstream') : Precedes(m, n)
  BY <1>1, <1>3, ArrivedFacts, InOrderTail DEF Arrived, QueuesTyped, SessionSound
<1>5. /\ m.id \in 1..Runs /\ m.socket \in Sockets /\ m.upload \in {0, 1}
      /\ \A kind \in {"SYN_ACK", "CONFIG_ACK", "data"} :
           /\ Datagram(kind, m.id, m.socket) \in Messages
           /\ Datagram(kind, m.id, m.socket).kind = kind
           /\ address2 \in Sockets =>
                /\ Datagram(kind, m.id, address2) \in Messages
                /\ Datagram(kind, m.id, address2).kind = kind
  BY <1>4, DatagramFacts DEF Messages
<1>6. ASSUME NEW socket \in Sockets, NEW x \in Messages, SendDown(socket, x)
      PROVE  \A s \in Sockets : Range(downstream'[s]) \subseteq Range(downstream[s]) \cup {x}
  BY <1>3, <1>6, SendDownFacts DEF QueuesTyped
<1>7. CASE FirstSyn(m)
  <2>1. \A s \in Sockets : \A a \in Range(downstream'[s]) :
          a.kind = "CONFIG_ACK" => a \in Range(downstream[s])
    BY <1>5, <1>6, <1>7 DEF FirstSyn
  <2>2. \A n \in Range(upstream') : n.kind \in {"SYN", "config"}
    BY <1>4, <1>7 DEF FirstSyn, Precedes
  <2> QED
    BY <1>1, <1>2, <1>4, <1>7, <2>1, <2>2 DEF FirstSyn, SessionSound, Ready
<1>8. CASE SecondSyn(m)
  <2>1. \A s \in Sockets : \A a \in Range(downstream'[s]) :
          a.kind = "CONFIG_ACK" => a \in Range(downstream[s])
    BY <1>5, <1>6, <1>8 DEF SecondSyn
  <2>2. \A n \in Range(upstream') : n.kind \in {"SYN", "config"}
    BY <1>4, <1>8 DEF SecondSyn, Precedes
  <2>3. m.id = run /\ m.socket # 0
    BY <1>1, <1>5, <1>8 DEF SecondSyn, SessionSound, Sockets
  <2>4. curr_sender_id' <= run' /\ address2' # 0 /\ server' # "dead"
    BY <1>2, <1>3, <1>8, <2>3 DEF SecondSyn, ValuesTyped
  <2> QED
    BY <1>1, <1>2, <1>4, <1>8, <2>1, <2>2, <2>4 DEF SecondSyn, SessionSound, Ready
<1>9. CASE SecondOther(m)
  <2>1. m.kind = "config"
    BY <1>1, <1>3, <1>9 DEF SecondOther, SessionSound, Ready, UpKinds
  <2>2. Range(upstream') = {}
    BY <1>4, <2>1 DEF Precedes
  <2> QED
    BY <1>1, <1>2, <1>4, <1>9, <2>1, <2>2 DEF SecondOther, SessionSound, Ready
<1>10. CASE Fin(m)
  <2>1. Ready /\ Ready'
    BY <1>1, <1>10 DEF Fin, SessionSound, Ready
  <2>2. client \in Shaking => run # 0
    BY <1>3 DEF Shaking
  <2>3. \A n \in Range(upstream') : n.kind = "config" => run # 0
    <3>1. \A n \in Range(upstream') : n \in Messages /\ (n.kind = "config" => n.id = run)
      BY <1>3, <1>4, RangeTyped DEF SessionSound, QueuesTyped
    <3> QED
      BY <3>1 DEF Messages
  <2>4. curr_sender_id' <= run'
    BY <1>2, <1>3, <1>10 DEF Fin, ValuesTyped
  <2> QED
    BY <1>1, <1>2, <1>4, <1>10, <2>1, <2>2, <2>3, <2>4 DEF Fin, SessionSound
<1>11. CASE Config(m)
  <2>1. Range(upstream') = {} /\ m.id = run /\ client \notin Shaking \cup Connected
    BY <1>1, <1>4, <1>11 DEF Config, Precedes, SessionSound
  <2>2. CASE m.id # curr_sender_id
    BY <1>1, <1>2, <1>4, <1>11, <2>1, <2>2 DEF Config, SessionSound, Ready
  <2>3. CASE m.id = curr_sender_id
    <3>1. Ready'
      BY <1>1, <1>11, <2>1, <2>3 DEF Config, SessionSound, Ready
    <3> QED
      BY <1>1, <1>2, <1>4, <1>11, <2>1, <3>1 DEF Config, SessionSound, Ready
  <2> QED
    BY <2>2, <2>3
<1>12. CASE Data(m)
  <2>1. Ready
    BY <1>1, <1>12 DEF Data, SessionSound
  <2>2. /\ server' = "loop"
        /\ \/ UNCHANGED downstream
           \/ address2 \in Sockets /\ SendDown(address2, Datagram("data", m.id, address2))
    BY <1>3, <1>5, <1>12, <2>1 DEF Data, Ready, ValuesTyped
  <2>3. \A s \in Sockets : \A a \in Range(downstream'[s]) :
          a.kind = "CONFIG_ACK" => a \in Range(downstream[s])
    BY <1>5, <1>6, <2>2
  <2>4. UNCHANGED <<address2, curr_sender_id, log_file>>
    BY <1>12 DEF Data
  <2> QED
    BY <1>1, <1>2, <1>4, <2>1, <2>2, <2>3, <2>4 DEF SessionSound, Ready
<1> QED
  BY <1>1, <1>7, <1>8, <1>9, <1>10, <1>11, <1>12

\* A run is started: what would be acknowledged, or was, is not on its way.
LEMMA SurvivalStart ==
  ASSUME TypeInv, SurvivalInv, StartRun, ~hasty'
  PROVE  SessionSound'
<1> USE DEF session, threads, network, client_vars, history
<1>1. SessionSound /\ ~AcksPending
  BY DEF StartRun, SurvivalInv
<1>2. /\ UNCHANGED <<server, address2, curr_sender_id, log_file, upstream, downstream>>
      /\ run' = run + 1 /\ client' = "syn"
  BY DEF StartRun
<1>3. curr_sender_id' < run'
  BY <1>1, <1>2, TypeParts DEF TypeInv, ValuesTyped, SessionSound
<1>4. \A m \in Range(upstream) : m.kind \in {"data", "FIN"}
  BY <1>1 DEF TypeInv, AcksPending
<1>5. \A s \in Sockets : \A a \in Range(downstream[s]) : a.kind # "CONFIG_ACK"
  BY <1>1 DEF AcksPending
<1>6. curr_sender_id' <= run' /\ curr_sender_id' # run'
  BY <1>1, <1>2, <1>3, TypeParts DEF TypeInv, ValuesTyped
<1> QED
  BY <1>1, <1>2, <1>4, <1>5, <1>6 DEF SessionSound, Ready, Shaking, Connected

\* A step of the current run, of the network or of a sender thread.
LEMMA SurvivalOther ==
  ASSUME TypeInv, SessionSound,
         \/ \E id \in 1..Runs : send_packet_train_thread(id)
         \/ Inactivity \/ MainThread \/ sendDataTrain \/ RunReceives \/ ReceiverTimeout
         \/ Kill \/ Lose \/ PortClosed \/ UNCHANGED vars
  PROVE  SessionSound'
<1> USE DEF session, threads, network, client_vars, history
<1>1. QueuesTyped /\ ValuesTyped /\ (client = "idle" <=> run = 0)
  BY TypeParts DEF TypeInv
<1>2. \A m \in Range(upstream) : m.kind \in UpKinds
  BY DEF TypeInv, UpKinds
<1>3. \A kind \in UpKinds, socket \in Sockets : client # "idle" =>
        /\ Datagram(kind, run, socket) \in Messages
        /\ Datagram(kind, run, socket).kind = kind
        /\ Datagram(kind, run, socket).id = run
  BY <1>1, DatagramFacts DEF ValuesTyped, UpKinds
<1>4. 1 \in Sockets /\ 2 \in Sockets
  BY DEF Sockets
<1>5. ASSUME NEW x \in Messages, SendUp(x), \A m \in Range(upstream) : Precedes(m, x)
      PROVE  InOrder(upstream') /\ Range(upstream') \subseteq Range(upstream) \cup {x}
  <2>1. /\ upstream \in Seq(Messages) /\ InOrder(upstream)
        /\ Range(upstream') \subseteq Range(upstream) \cup {x}
        /\ upstream' = upstream \/ upstream' = Append(upstream, x)
    BY <1>1, <1>5, SendUpFacts DEF QueuesTyped, SessionSound
  <2>2. InOrder(Append(upstream, x))
    BY <1>5, <2>1, InOrderAppend
  <2> QED
    BY <2>1, <2>2, Zenon
<1>6. ASSUME NEW socket \in Sockets, downstream[socket] # <<>>,
             downstream' = [downstream EXCEPT ![socket] = Tail(@)]
      PROVE  \A s \in Sockets : Range(downstream'[s]) \subseteq Range(downstream[s])
  BY <1>1, <1>6, TakeDownFacts DEF QueuesTyped
<1>7. ASSUME NEW id \in 1..Runs, send_packet_train_thread(id)
      PROVE  SessionSound'
  <2>1. Datagram("data", id, 1) \in Messages /\ Datagram("data", id, 1).kind = "data"
    BY <1>4, DatagramFacts
  <2>2. \A s \in Sockets : \A a \in Range(downstream'[s]) :
          a.kind = "CONFIG_ACK" => a \in Range(downstream[s])
    BY <1>1, <1>4, <1>7, <2>1, SendDownFacts DEF send_packet_train_thread, QueuesTyped
  <2> QED
    BY <1>7, <2>2 DEF send_packet_train_thread, SessionSound, Ready
<1>8. CASE Inactivity
  BY <1>8 DEF Inactivity, SessionSound, Ready
<1>9. CASE SendSyn
  <2> DEFINE x == Datagram("SYN", run, 1)
  <2>1. x \in Messages /\ x.kind = "SYN" /\ x.id = run
    BY <1>3, <1>4, <1>9 DEF SendSyn, UpKinds
  <2>2. SendUp(x) /\ client \in Shaking /\ client' \in Shaking
    BY <1>9 DEF SendSyn, Shaking
  <2> HIDE DEF x
  <2>3. \A m \in Range(upstream) : Precedes(m, x)
    BY <1>2, <2>1, <2>2 DEF SessionSound, Precedes, UpKinds
  <2>4. InOrder(upstream') /\ Range(upstream') \subseteq Range(upstream) \cup {x}
    BY <1>5, <2>1, <2>2, <2>3
  <2>5. client \notin Connected /\ client' \notin Connected
    BY <2>2 DEF Shaking, Connected
  <2>6. UNCHANGED <<server, address2, curr_sender_id, log_file, downstream, run>>
    BY <1>9 DEF SendSyn
  <2> QED
    BY <2>1, <2>2, <2>4, <2>5, <2>6 DEF SessionSound, Ready
<1>10. CASE FirstAck
  <2> DEFINE x == Datagram("SYN", run, 2)
  <2>1. x \in Messages /\ x.kind = "SYN" /\ x.id = run
    BY <1>3, <1>4, <1>10 DEF FirstAck, UpKinds
  <2>2. client \in Shaking /\ client \notin Connected /\ client' \notin Connected
    BY <1>10 DEF FirstAck, Shaking, Connected
  <2>3. \/ client' = "ack2" /\ SendUp(x)
        \/ client' = "failed" /\ UNCHANGED upstream
    BY <1>10 DEF FirstAck
  <2>4. \A s \in Sockets : Range(downstream'[s]) \subseteq Range(downstream[s])
    BY <1>4, <1>6, <1>10 DEF FirstAck, Receive
  <2>5. UNCHANGED <<server, address2, curr_sender_id, log_file, run>>
    BY <1>10 DEF FirstAck
  <2> HIDE DEF x
  <2>6. \A m \in Range(upstream) : Precedes(m, x)
    BY <1>2, <2>1, <2>2 DEF SessionSound, Precedes, UpKinds
  <2>7. InOrder(upstream') /\ Range(upstream') \subseteq Range(upstream) \cup {x}
    BY <1>5, <2>1, <2>3, <2>6 DEF SessionSound
  <2> QED
    BY <2>1, <2>2, <2>4, <2>5, <2>7 DEF SessionSound, Ready
<1>11. CASE SecondAck
  <2> DEFINE x == [Datagram("config", run, 1) EXCEPT !.upload = upload']
  <2>1. \/ client' = "config_ack" /\ sendConfig
        \/ client' = "failed" /\ UNCHANGED <<upstream, upload>>
    BY <1>11 DEF SecondAck
  <2>2. client \in Shaking /\ client \notin Connected /\ client' \notin Shaking \cup Connected
    BY <1>11, <2>1 DEF SecondAck, Shaking, Connected
  <2>3. \A s \in Sockets : Range(downstream'[s]) \subseteq Range(downstream[s])
    BY <1>4, <1>6, <1>11 DEF SecondAck, Receive
  <2>4. UNCHANGED <<server, address2, curr_sender_id, log_file, run>>
    BY <1>11 DEF SecondAck
  <2>5. \/ x \in Messages /\ x.kind = "config" /\ x.id = run /\ SendUp(x)
        \/ UNCHANGED upstream
    <3>1. CASE sendConfig
      <4>1. upload' \in {0, 1} /\ run \in 1..Runs
        BY <1>1, <1>11, <3>1 DEF SecondAck, sendConfig, ValuesTyped
      <4>2. x = [kind |-> "config", id |-> run, socket |-> 1, upload |-> upload']
        BY DEF Datagram
      <4>3. x \in Messages /\ x.kind = "config" /\ x.id = run
        BY <1>4, <4>1, <4>2 DEF Messages
      <4> QED
        BY <3>1, <4>3 DEF sendConfig
    <3> QED
      BY <2>1, <3>1
  <2> HIDE DEF x
  <2>6. x.kind = "config" => \A m \in Range(upstream) : Precedes(m, x)
    BY <1>2, <2>2 DEF SessionSound, Precedes, UpKinds
  <2>7. /\ InOrder(upstream')
        /\ \A m \in Range(upstream') :
             m \in Range(upstream) \/ (m.kind = "config" /\ m.id = run)
    BY <1>5, <2>5, <2>6 DEF SessionSound
  <2> QED
    BY <2>2, <2>3, <2>4, <2>7 DEF SessionSound, Ready
<1>12. CASE ConfigAck
  <2>1. PICK m \in Range(downstream[1]) :
          /\ Receive(1, m)
          /\ client' = IF m.kind = "CONFIG_ACK" THEN "running" ELSE "failed"
    BY <1>12 DEF ConfigAck
  <2>2. \A s \in Sockets : Range(downstream'[s]) \subseteq Range(downstream[s])
    BY <1>4, <1>6, <2>1 DEF Receive
  <2>3. UNCHANGED <<server, address2, curr_sender_id, log_file, run, upstream>>
    BY <1>12 DEF ConfigAck
  <2>4. client' \notin Shaking
    BY <2>1 DEF Shaking
  <2>5. client' \in Connected => m.kind = "CONFIG_ACK"
    BY <2>1 DEF Connected
  <2> QED
    BY <1>4, <2>1, <2>2, <2>3, <2>4, <2>5 DEF SessionSound, Ready
<1>13. CASE SocketTimeout
  <2>1. /\ client' \notin Connected
        /\ client' \in Shaking <=> client \in Shaking
    BY <1>13 DEF SocketTimeout, Shaking, Connected
  <2> QED
    BY <1>13, <2>1 DEF SocketTimeout, SessionSound, Ready
<1>14. CASE terminateConnection
  <2> DEFINE x == Datagram("FIN", run, 1)
  <2>1. x \in Messages /\ x.kind = "FIN"
    BY <1>3, <1>4, <1>14 DEF terminateConnection, UpKinds
  <2>2. SendUp(x) /\ client \in Connected /\ client' \in Connected /\ client' \notin Shaking
    BY <1>14 DEF terminateConnection, Shaking, Connected
  <2> HIDE DEF x
  <2>3. \A m \in Range(upstream) : Precedes(m, x)
    BY <2>2 DEF SessionSound, Precedes
  <2>4. InOrder(upstream') /\ Range(upstream') \subseteq Range(upstream) \cup {x}
    BY <1>5, <2>1, <2>2, <2>3
  <2>5. UNCHANGED <<server, address2, curr_sender_id, log_file, downstream, run>>
    BY <1>14 DEF terminateConnection
  <2> QED
    BY <2>1, <2>2, <2>4, <2>5 DEF SessionSound, Ready
<1>15. CASE closeSocket
  <2>1. client' \notin Shaking \cup Connected
    BY <1>15 DEF closeSocket, Shaking, Connected
  <2> QED
    BY <1>15, <2>1 DEF closeSocket, SessionSound, Ready
<1>16. CASE sendDataTrain
  <2> DEFINE x == Datagram("data", run, 1)
  <2>1. x \in Messages /\ x.kind = "data"
    BY <1>3, <1>4, <1>16 DEF sendDataTrain, UpKinds, Connected
  <2>2. SendUp(x) /\ client \in Connected
    BY <1>16 DEF sendDataTrain
  <2> HIDE DEF x
  <2>3. \A m \in Range(upstream) : Precedes(m, x)
    BY <2>2 DEF SessionSound, Precedes
  <2>4. InOrder(upstream') /\ Range(upstream') \subseteq Range(upstream) \cup {x}
    BY <1>5, <2>1, <2>2, <2>3
  <2>5. UNCHANGED <<server, address2, curr_sender_id, log_file, downstream, run, client>>
    BY <1>16 DEF sendDataTrain
  <2> QED
    BY <2>1, <2>2, <2>4, <2>5 DEF SessionSound, Ready
<1>17. CASE RunReceives
  <2> DEFINE socket == IF upload = 1 THEN 2 ELSE 1
  <2>1. PICK m \in Range(downstream[socket]) :
          /\ Receive(socket, m)
          /\ \/ SendUp(Datagram("data", m.id, 2))
             \/ UNCHANGED upstream
    BY <1>17 DEF RunReceives
  <2>2. socket \in Sockets
    BY <1>4
  <2> HIDE DEF socket
  <2>3. /\ \A s \in Sockets : Range(downstream'[s]) \subseteq Range(downstream[s])
        /\ m \in Messages
    BY <1>1, <2>1, <2>2, TakeDownFacts DEF Receive, QueuesTyped
  <2> DEFINE x == Datagram("data", m.id, 2)
  <2>4. x \in Messages /\ x.kind = "data"
    BY <1>4, <2>3, DatagramFacts DEF Messages
  <2>5. client \in Connected /\ UNCHANGED <<server, address2, curr_sender_id, log_file, run, client>>
    BY <1>17 DEF RunReceives
  <2>6. SendUp(x) \/ UNCHANGED upstream
    BY <2>1
  <2> HIDE DEF x
  <2>7. \A n \in Range(upstream) : Precedes(n, x)
    BY <2>5 DEF SessionSound, Precedes
  <2>8. InOrder(upstream') /\ Range(upstream') \subseteq Range(upstream) \cup {x}
    BY <1>5, <2>4, <2>6, <2>7 DEF SessionSound
  <2> QED
    BY <2>3, <2>4, <2>5, <2>8 DEF SessionSound, Ready
<1>18. CASE ReceiverTimeout
  BY <1>18 DEF ReceiverTimeout, SessionSound, Ready
<1>19. CASE Kill
  <2>1. client' \notin Shaking \cup Connected
    BY <1>19 DEF Kill, Shaking, Connected
  <2> QED
    BY <1>19, <2>1 DEF Kill, SessionSound, Ready
<1>20. CASE Lose
  <2>1. UNCHANGED <<server, address2, curr_sender_id, log_file, run, client>>
    BY <1>20 DEF Lose
  <2>2. /\ InOrder(upstream') /\ Range(upstream') \subseteq Range(upstream)
        /\ \A s \in Sockets : Range(downstream'[s]) \subseteq Range(downstream[s])
    <3>1. CASE /\ UNCHANGED downstream
               /\ \E i \in DOMAIN upstream : upstream' = RemoveAt(upstream, i)
      BY <1>1, <3>1, RemoveFacts, InOrderRemove DEF QueuesTyped, SessionSound
    <3>2. CASE /\ UNCHANGED upstream
               /\ \E s \in Sockets : \E i \in DOMAIN downstream[s] :
                    downstream' = [downstream EXCEPT ![s] = RemoveAt(@, i)]
      BY <1>1, <3>2, LoseDownFacts DEF QueuesTyped, SessionSound
    <3> QED
      BY <1>20, <3>1, <3>2 DEF Lose
  <2> QED
    BY <2>1, <2>2 DEF SessionSound, Ready
<1>21. CASE PortClosed
  <2>1. \A s \in Sockets : Range(downstream'[s]) \subseteq Range(downstream[s])
    BY <1>6, <1>21 DEF PortClosed
  <2> QED
    BY <1>21, <2>1 DEF PortClosed, SessionSound, Ready
<1>22. CASE UNCHANGED vars
  BY <1>22 DEF vars, SessionSound, Ready
<1> QED
  BY <1>7, <1>8, <1>9, <1>10, <1>11, <1>12, <1>13, <1>14, <1>15, <1>16, <1>17, <1>18,
     <1>19, <1>20, <1>21, <1>22, Zenon
  DEF MainThread

\* What a step leaves alone that is neither the server's nor the start of a run.
LEMMA HistoryUnchanged ==
  ASSUME [Next]_vars, ~StartRun
  PROVE  UNCHANGED <<run, began, spoiled, hasty>>
<1> USE DEF session, threads, network, client_vars, history
<1>1. CASE ServerReceives
  BY <1>1, ServerCases, Zenon
<1>2. CASE ~ServerReceives
  BY <1>2, Zenon DEF Next, MainThread, Senders, vars, send_packet_train_thread, Inactivity,
    SendSyn, FirstAck, SecondAck, ConfigAck, SocketTimeout, terminateConnection, closeSocket,
    sendDataTrain, RunReceives, ReceiverTimeout, Kill, Lose, PortClosed
<1> QED
  BY <1>1, <1>2

\* The server's main loop never ends with an exception, whatever is lost,
\* however often runs are interrupted and started again, and however large the
\* buffers are, unless some run was started hastily.
THEOREM ServerNeverDies == RecorderSpec => []ServerSurvives
<1>1. ASSUME TypeInv, SurvivalInv, [Next]_vars
      PROVE  SurvivalInv'
  <2>1. CASE StartRun
    BY <1>1, <2>1, SurvivalStart DEF SurvivalInv
  <2>2. CASE ~StartRun
    <3>1. UNCHANGED hasty
      BY <1>1, <2>2, HistoryUnchanged, Zenon
    <3>2. SessionSound => SessionSound'
      BY <1>1, <2>2, SurvivalServer, SurvivalOther, Zenon DEF Next, Senders
    <3> QED
      BY <1>1, <3>1, <3>2, Zenon DEF SurvivalInv
  <2> QED
    BY <2>1, <2>2
<1>2. SurvivalInv => ServerSurvives
  BY DEF SurvivalInv, SessionSound, ServerSurvives
<1> QED
  BY <1>1, <1>2, TypeHolds, SurvivalInit, PTL DEF RecorderSpec

-----------------------------------------------------------------------------
(* A running client is the one that is served *)

\* The current run began with nothing on its way, and there is a server.
Fresh == run > 0 /\ began # "busy" /\ server # "dead"

\* The server handled the SYN of the second socket: as the second connection
\* of the current run, or as the first one of a handshake to come.
Second ==
  server = "second" \/ (server = "loop" /\ curr_sender_id = run /\ address2 = 2)

\* The server has the current run's configuration.
Served ==
  /\ server = "loop" /\ curr_sender_id = run /\ curr_upload = upload
  /\ log_file = "open" /\ address2 = 2

Unconfigured == \A a \in Range(downstream[1]) : a.kind # "CONFIG_ACK"

\* What can be on its way in each phase of the handshake.  At most one SYN of
\* the second socket is, and it is the last one; the configuration is sent when
\* the answer to it has come and everything before it was handled.
BeforeFirstAck ==
  /\ \A m \in Range(upstream) : m.kind = "SYN" /\ m.id = run /\ m.socket = 1
  /\ downstream[2] = <<>> /\ Unconfigured

BeforeSecondAck ==
  /\ \A i \in 1..Len(upstream) :
       /\ upstream[i].kind = "SYN" /\ upstream[i].id = run
       /\ upstream[i].socket = 2 => i = Len(upstream)
  /\ downstream[2] # <<>> => upstream = <<>> /\ Second
  /\ Unconfigured

BeforeConfigAck ==
  /\ Len(upstream) <= 1
  /\ \A m \in Range(upstream) :
       /\ m.kind = "config" /\ m.id = run /\ m.upload = upload /\ m.socket = 1
       /\ Second /\ Unconfigured
  /\ ~Unconfigured => Served

Recording == Served /\ \A m \in Range(upstream) : m.kind = "data"

Handshake ==
  /\ client \in {"syn", "ack1"} => BeforeFirstAck
  /\ client = "ack2" => BeforeSecondAck
  /\ client = "config_ack" => BeforeConfigAck
  /\ client = "running" => Recording

HandshakeInv == Fresh => Handshake

LEMMA HandshakeServer ==
  ASSUME TypeInv, HandshakeInv, ServerReceives, Fresh'
  PROVE  Handshake'
<1> USE DEF session, threads, network, client_vars, history
<1>1. PICK m \in Range(upstream) :
        /\ Arrived(m)
        /\ \/ FirstSyn(m) \/ SecondSyn(m) \/ SecondOther(m) \/ Fin(m) \/ Config(m) \/ Data(m)
  BY ServerCases, Zenon
<1>2. UNCHANGED <<client, run, upload, began>>
  BY ServerCases, Zenon
<1>3. QueuesTyped /\ ValuesTyped
  BY TypeParts DEF TypeInv
<1>4. server # "dead"
  BY <1>1 DEF FirstSyn, SecondSyn, SecondOther, Fin, Config, Data
<1>5. Handshake
  BY <1>2, <1>4 DEF Fresh, HandshakeInv
<1>6. /\ m \in Messages /\ m = upstream[1] /\ Range(upstream') \subseteq Range(upstream)
      /\ upstream' \in Seq(Messages)
      /\ Len(upstream) \in Nat \ {0} /\ Len(upstream') = Len(upstream) - 1
      /\ \A i \in 1..Len(upstream') : upstream'[i] = upstream[i + 1]
  BY <1>1, <1>3, ArrivedFacts DEF QueuesTyped
<1>7. 1 \in Sockets /\ 2 \in Sockets /\ m.socket \in Sockets /\ upstream # <<>>
  BY <1>1, <1>6 DEF Sockets, Messages, Arrived
<1>8. ASSUME Len(upstream) = 1
      PROVE  upstream' = <<>> /\ Range(upstream') = {}
  BY <1>6, <1>8 DEF Range
<1>9. ASSUME m.kind = "SYN",
             SendDown(m.socket, Datagram("SYN_ACK", m.id, m.socket)),
             m.socket = 2 /\ m.id = run => Second'
      PROVE  Handshake'
  <2> DEFINE x == Datagram("SYN_ACK", m.id, m.socket)
  <2>1. x \in Messages /\ x.kind # "CONFIG_ACK"
    BY <1>6, DatagramFacts DEF Messages
  <2>2. SendDown(m.socket, x)
    BY <1>9
  <2> HIDE DEF x
  <2>3. /\ \A s \in Sockets : s # m.socket => downstream'[s] = downstream[s]
        /\ \A s \in Sockets : Range(downstream'[s]) \subseteq Range(downstream[s]) \cup {x}
    BY <1>3, <1>7, <2>1, <2>2, SendDownFacts DEF QueuesTyped
  <2>4. Unconfigured => Unconfigured'
    BY <1>7, <2>1, <2>3 DEF Unconfigured
  <2>5. CASE client \in {"syn", "ack1"}
    <3>1. m.socket = 1
      BY <1>1, <1>5, <2>5 DEF Handshake, BeforeFirstAck
    <3>2. BeforeFirstAck'
      BY <1>2, <1>5, <1>6, <1>7, <2>3, <2>4, <2>5, <3>1 DEF Handshake, BeforeFirstAck
    <3> QED
      BY <1>2, <2>5, <3>2 DEF Handshake
  <2>6. CASE client = "ack2"
    <3>1. BeforeSecondAck /\ downstream[2] = <<>>
      BY <1>5, <1>7, <2>6 DEF Handshake, BeforeSecondAck
    <3>2. \A i \in 1..Len(upstream') :
            /\ upstream'[i].kind = "SYN" /\ upstream'[i].id = run'
            /\ upstream'[i].socket = 2 => i = Len(upstream')
      <4> TAKE i \in 1..Len(upstream')
      <4>1. i + 1 \in 1..Len(upstream) /\ (i + 1 = Len(upstream) => i = Len(upstream'))
        BY <1>6
      <4> QED
        BY <1>2, <1>6, <3>1, <4>1 DEF BeforeSecondAck
    <3>3. CASE m.socket = 2
      <4>1. Len(upstream) = 1 /\ m.id = run
        BY <1>6, <3>1, <3>3 DEF BeforeSecondAck
      <4>2. upstream' = <<>> /\ Second'
        BY <1>8, <1>9, <3>3, <4>1
      <4> QED
        BY <1>2, <2>4, <2>6, <3>1, <3>2, <4>2 DEF Handshake, BeforeSecondAck
    <3>4. CASE m.socket # 2
      <4>1. downstream'[2] = <<>>
        BY <1>7, <2>3, <3>1, <3>4
      <4> QED
        BY <1>2, <2>4, <2>6, <3>1, <3>2, <4>1 DEF Handshake, BeforeSecondAck
    <3> QED
      BY <3>3, <3>4
  <2>7. client # "config_ack" /\ client # "running"
    BY <1>1, <1>5, <1>9 DEF Handshake, BeforeConfigAck, Recording
  <2> QED
    BY <1>2, <2>5, <2>6, <2>7 DEF Handshake
<1>10. ASSUME m.kind # "SYN"
       PROVE  client \notin {"syn", "ack1", "ack2"}
  <2>1. 1 \in 1..Len(upstream)
    BY <1>6
  <2> QED
    BY <1>1, <1>5, <1>6, <1>10, <2>1 DEF Handshake, BeforeFirstAck, BeforeSecondAck
<1>11. CASE FirstSyn(m)
  <2>1. Second'
    BY <1>11 DEF FirstSyn, Second
  <2> QED
    BY <1>9, <1>11, <2>1 DEF FirstSyn
<1>12. CASE SecondSyn(m)
  <2>1. m.socket = 2 /\ m.id = run => Second'
    BY <1>2, <1>12 DEF SecondSyn, Second
  <2> QED
    BY <1>9, <1>12, <2>1 DEF SecondSyn
<1>13. CASE SecondOther(m)
  <2>1. client \notin {"syn", "ack1", "ack2", "running"}
    BY <1>5, <1>10, <1>13 DEF SecondOther, Handshake, Recording, Served
  <2>2. ASSUME client = "config_ack"
        PROVE  BeforeConfigAck'
    <3>1. BeforeConfigAck /\ Len(upstream) = 1
      BY <1>5, <1>6, <2>2 DEF Handshake, BeforeConfigAck
    <3>2. upstream' = <<>> /\ Range(upstream') = {} /\ Len(upstream') <= 1
      BY <1>6, <1>8, <3>1
    <3>3. Unconfigured'
      BY <1>1, <1>13, <3>1 DEF SecondOther, BeforeConfigAck, Unconfigured
    <3> QED
      BY <3>2, <3>3 DEF BeforeConfigAck
  <2> QED
    BY <1>2, <2>1, <2>2 DEF Handshake
<1>14. CASE Fin(m)
  <2>1. client \notin {"syn", "ack1", "ack2", "running", "config_ack"}
    BY <1>1, <1>5, <1>10, <1>14 DEF Fin, Handshake, Recording, BeforeConfigAck
  <2> QED
    BY <1>2, <2>1 DEF Handshake
<1>15. CASE Config(m)
  <2>1. client \notin {"syn", "ack1", "ack2", "running"}
    BY <1>1, <1>5, <1>10, <1>15 DEF Config, Handshake, Recording
  <2>2. ASSUME client = "config_ack"
        PROVE  BeforeConfigAck'
    <3>1. BeforeConfigAck /\ Len(upstream) = 1
      BY <1>5, <1>6, <2>2 DEF Handshake, BeforeConfigAck
    <3>2. upstream' = <<>> /\ Range(upstream') = {} /\ Len(upstream') <= 1
      BY <1>6, <1>8, <3>1
    <3>3. curr_sender_id = run /\ address2 = 2 /\ m.id = run /\ m.upload = upload
      BY <1>1, <1>15, <3>1 DEF Config, BeforeConfigAck, Second
    <3>4. Served'
      BY <1>2, <1>15, <3>3 DEF Config, Served
    <3> QED
      BY <3>2, <3>4 DEF BeforeConfigAck
  <2> QED
    BY <1>2, <2>1, <2>2 DEF Handshake
<1>16. CASE Data(m)
  <2>1. client \notin {"syn", "ack1", "ack2", "config_ack"}
    BY <1>1, <1>5, <1>10, <1>16 DEF Data, Handshake, BeforeConfigAck
  <2>2. ASSUME client = "running"
        PROVE  Recording'
    BY <1>2, <1>5, <1>6, <1>16, <2>2 DEF Data, Handshake, Recording, Served
  <2> QED
    BY <1>2, <2>1, <2>2 DEF Handshake
<1> QED
  BY <1>1, <1>11, <1>12, <1>13, <1>14, <1>15, <1>16

\* Nothing is claimed of a run that is over or about to be.
LEMMA HandshakeOver ==
  ASSUME client' \notin {"syn", "ack1", "ack2", "config_ack", "running"}
  PROVE  Handshake'
BY DEF Handshake

LEMMA HandshakeStart ==
  ASSUME StartRun, Fresh'
  PROVE  Handshake'
<1>1. NothingOnItsWay /\ client' = "syn" /\ UNCHANGED <<upstream, downstream>>
  BY DEF StartRun, Fresh
<1>2. Range(upstream') = {} /\ Range(downstream'[1]) = {} /\ downstream'[2] = <<>>
  BY <1>1 DEF NothingOnItsWay, Sockets, Range
<1> QED
  BY <1>1, <1>2 DEF Handshake, BeforeFirstAck, Unconfigured

\* A step of the current run, of the network or of a sender thread.
LEMMA HandshakeOther ==
  ASSUME TypeInv, Handshake, Fresh,
         \/ \E id \in 1..Runs : send_packet_train_thread(id)
         \/ Inactivity \/ MainThread \/ sendDataTrain \/ RunReceives \/ ReceiverTimeout
         \/ Kill \/ Lose \/ PortClosed \/ UNCHANGED vars
  PROVE  Handshake'
<1> USE DEF session, threads, network, client_vars, history
<1>1. QueuesTyped /\ ValuesTyped /\ run \in 1..Runs
  BY TypeParts DEF TypeInv, Fresh, ValuesTyped
<1>2. \A kind \in UpKinds, socket \in Sockets :
        /\ Datagram(kind, run, socket) \in Messages
        /\ Datagram(kind, run, socket).kind = kind
        /\ Datagram(kind, run, socket).id = run
        /\ Datagram(kind, run, socket).socket = socket
  BY <1>1, DatagramFacts DEF UpKinds
<1>3. 1 \in Sockets /\ 2 \in Sockets
  BY DEF Sockets
<1>4. ASSUME UNCHANGED <<server, session, upstream, run, upload, client>>,
             downstream'[2] # <<>> => downstream[2] # <<>>,
             downstream[2] = <<>> => downstream'[2] = <<>>,
             \A a \in Range(downstream'[1]) :
               a.kind = "CONFIG_ACK" => a \in Range(downstream[1])
      PROVE  Handshake'
  <2>1. Unconfigured => Unconfigured'
    BY <1>4 DEF Unconfigured
  <2>2. (Second <=> Second') /\ (Served <=> Served')
    BY <1>4 DEF Second, Served
  <2> QED
    BY <1>4, <2>1, <2>2
    DEF Handshake, BeforeFirstAck, BeforeSecondAck, BeforeConfigAck, Recording
<1>5. ASSUME NEW id \in 1..Runs, send_packet_train_thread(id)
      PROVE  Handshake'
  <2>1. Datagram("data", id, 1) \in Messages /\ Datagram("data", id, 1).kind = "data"
    BY <1>3, DatagramFacts
  <2>2. /\ downstream'[2] = downstream[2]
        /\ \A a \in Range(downstream'[1]) :
             a.kind = "CONFIG_ACK" => a \in Range(downstream[1])
    BY <1>1, <1>3, <1>5, <2>1, SendDownFacts DEF send_packet_train_thread, QueuesTyped
  <2> QED
    BY <1>4, <1>5, <2>2 DEF send_packet_train_thread
<1>6. CASE Inactivity
  BY <1>4, <1>6 DEF Inactivity
<1>7. CASE SendSyn
  <2> DEFINE x == Datagram("SYN", run, 1)
  <2>1. x \in Messages /\ x.kind = "SYN" /\ x.id = run /\ x.socket = 1
    BY <1>2, <1>3 DEF UpKinds
  <2>2. SendUp(x) /\ client = "syn" /\ client' = "ack1" /\ UNCHANGED <<run, downstream>>
    BY <1>7 DEF SendSyn
  <2> HIDE DEF x
  <2>3. Range(upstream') \subseteq Range(upstream) \cup {x}
    BY <1>1, <2>1, <2>2, SendUpFacts DEF QueuesTyped
  <2> QED
    BY <2>1, <2>2, <2>3 DEF Handshake, BeforeFirstAck, Unconfigured
<1>8. CASE FirstAck
  <2> DEFINE x == Datagram("SYN", run, 2)
  <2>1. x \in Messages /\ x.kind = "SYN" /\ x.id = run /\ x.socket = 2
    BY <1>2, <1>3 DEF UpKinds
  <2>2. \/ client' = "ack2" /\ SendUp(x)
        \/ client' = "failed"
    BY <1>8 DEF FirstAck
  <2>3. client = "ack1" /\ UNCHANGED run
    BY <1>8 DEF FirstAck
  <2> HIDE DEF x
  <2>4. /\ Range(downstream'[1]) \subseteq Range(downstream[1])
        /\ downstream'[2] = downstream[2]
    <3>1. downstream[1] # <<>> /\ downstream' = [downstream EXCEPT ![1] = Tail(@)]
      BY <1>8 DEF FirstAck, Receive
    <3>2. downstream \in [Sockets -> Seq(Messages)]
      BY <1>1 DEF QueuesTyped
    <3>3. /\ \A s \in Sockets : s # 1 => downstream'[s] = downstream[s]
          /\ \A s \in Sockets : Range(downstream'[s]) \subseteq Range(downstream[s])
      BY <1>3, <3>1, <3>2, TakeDownFacts
    <3> QED
      BY <1>3, <3>3
  <2>5. CASE client' = "ack2" /\ SendUp(x)
    <3>1. /\ upstream' = Append(upstream, x) /\ upstream \in Seq(Messages)
          /\ DOMAIN upstream = 1..Len(upstream)
      BY <1>1, <2>1, <2>5, SendUpFacts DEF QueuesTyped
    <3>2. /\ Len(upstream') = Len(upstream) + 1 /\ Len(upstream) \in Nat
          /\ \A i \in 1..Len(upstream) : upstream'[i] = upstream[i]
          /\ upstream'[Len(upstream) + 1] = x
      BY <2>1, <3>1, AppendFacts
    <3>3. \A i \in 1..Len(upstream) :
            upstream[i].kind = "SYN" /\ upstream[i].id = run /\ upstream[i].socket = 1
      BY <2>3, <3>1 DEF Handshake, BeforeFirstAck, Range
    <3>4. ASSUME NEW i \in 1..Len(upstream')
          PROVE  /\ upstream'[i].kind = "SYN" /\ upstream'[i].id = run
                 /\ upstream'[i].socket = 2 => i = Len(upstream')
      <4>1. CASE i = Len(upstream) + 1
        BY <2>1, <3>2, <4>1
      <4>2. CASE i # Len(upstream) + 1
        <5>1. i \in 1..Len(upstream)
          BY <3>2, <4>2
        <5> QED
          BY <3>2, <3>3, <5>1
      <4> QED
        BY <4>1, <4>2
    <3>5. BeforeSecondAck'
      BY <2>3, <2>4, <3>4 DEF Handshake, BeforeFirstAck, BeforeSecondAck, Unconfigured
    <3> QED
      BY <2>5, <3>5 DEF Handshake
  <2>6. CASE client' = "failed"
    BY <2>6, HandshakeOver
  <2> QED
    BY <2>2, <2>5, <2>6
<1>9. CASE SecondAck
  <2> DEFINE x == [Datagram("config", run, 1) EXCEPT !.upload = upload']
  <2>1. \/ client' = "config_ack" /\ sendConfig
        \/ client' = "failed"
    BY <1>9 DEF SecondAck
  <2>2. /\ client = "ack2" /\ downstream[2] # <<>>
        /\ UNCHANGED <<server, address2, curr_sender_id, run>>
    BY <1>9 DEF SecondAck, Receive
  <2>3. downstream'[1] = downstream[1]
    BY <1>1, <1>3, <1>9, TakeDownFacts DEF SecondAck, Receive, QueuesTyped
  <2>4. upstream = <<>> /\ Second /\ Unconfigured
    BY <2>2 DEF Handshake, BeforeSecondAck
  <2>5. CASE client' = "config_ack" /\ sendConfig
    <3>1. upload' \in {0, 1} /\ SendUp(x)
      BY <2>5 DEF sendConfig
    <3>2. x = [kind |-> "config", id |-> run, socket |-> 1, upload |-> upload']
      BY DEF Datagram
    <3>3. /\ x \in Messages /\ x.kind = "config" /\ x.id = run /\ x.socket = 1
          /\ x.upload = upload'
      BY <1>1, <1>3, <3>1, <3>2 DEF Messages
    <3> HIDE DEF x
    <3>4. upstream' = Append(upstream, x) /\ upstream \in Seq(Messages)
      BY <1>1, <3>1, <3>3, SendUpFacts DEF QueuesTyped
    <3>5. Len(upstream') = 1 /\ Range(upstream') = {x}
      <4>1. Len(upstream) = 0 /\ Range(upstream) = {}
        BY <2>4 DEF Range
      <4>2. /\ Len(Append(upstream, x)) = Len(upstream) + 1
            /\ Range(Append(upstream, x)) = Range(upstream) \cup {x}
        BY <3>3, <3>4, AppendFacts
      <4> QED
        BY <3>4, <4>1, <4>2
    <3>6. Second' /\ Unconfigured'
      BY <2>2, <2>3, <2>4 DEF Second, Unconfigured
    <3>7. BeforeConfigAck'
      BY <2>2, <3>3, <3>5, <3>6 DEF BeforeConfigAck
    <3> QED
      BY <2>5, <3>7 DEF Handshake
  <2>6. CASE client' = "failed"
    BY <2>6, HandshakeOver
  <2> QED
    BY <2>1, <2>5, <2>6
<1>10. CASE ConfigAck
  <2>1. PICK m \in Range(downstream[1]) :
          client' = IF m.kind = "CONFIG_ACK" THEN "running" ELSE "failed"
    BY <1>10 DEF ConfigAck
  <2>2. CASE m.kind = "CONFIG_ACK"
    <3>1. BeforeConfigAck /\ ~Unconfigured
      BY <1>10, <2>1, <2>2 DEF ConfigAck, Handshake, Unconfigured
    <3>2. Range(upstream) = {} /\ Served
      BY <3>1 DEF BeforeConfigAck
    <3>3. Recording'
      BY <1>10, <3>2 DEF ConfigAck, Recording, Served
    <3> QED
      BY <2>1, <2>2, <3>3 DEF Handshake
  <2>3. CASE m.kind # "CONFIG_ACK"
    BY <2>1, <2>3, HandshakeOver
  <2> QED
    BY <2>2, <2>3
<1>11. CASE SocketTimeout
  <2>1. CASE client = "config_ack"
    BY <1>11, <2>1, HandshakeOver DEF SocketTimeout
  <2>2. CASE client \in {"ack1", "ack2"}
    <3>1. upstream = <<>> /\ client' = "syn" /\ UNCHANGED <<upstream, downstream, run>>
      BY <1>11, <2>2 DEF SocketTimeout, Fresh
    <3>2. downstream[2] = <<>> /\ Unconfigured
      BY <1>11, <2>2 DEF SocketTimeout, WaitsOn, Handshake, BeforeFirstAck, BeforeSecondAck
    <3>3. Range(upstream') = {}
      BY <3>1 DEF Range
    <3> QED
      BY <3>1, <3>2, <3>3 DEF Handshake, BeforeFirstAck, Unconfigured
  <2> QED
    BY <1>11, <2>1, <2>2 DEF SocketTimeout
<1>12. CASE terminateConnection
  BY <1>12, HandshakeOver DEF terminateConnection
<1>13. CASE closeSocket
  BY <1>13, HandshakeOver DEF closeSocket
<1>14. ASSUME NEW x \in Messages, x.kind = "data", SendUp(x) \/ UNCHANGED upstream,
              client \in Connected, UNCHANGED <<server, session, run, client, upload>>
       PROVE  Handshake'
  <2>1. Range(upstream') \subseteq Range(upstream) \cup {x}
    BY <1>1, <1>14, SendUpFacts DEF QueuesTyped
  <2>2. ASSUME client = "running"
        PROVE  Recording'
    BY <1>14, <2>1, <2>2 DEF Handshake, Recording, Served
  <2> QED
    BY <1>14, <2>2 DEF Handshake, Connected
<1>15. CASE sendDataTrain
  <2>1. Datagram("data", run, 1) \in Messages /\ Datagram("data", run, 1).kind = "data"
    BY <1>2, <1>3 DEF UpKinds
  <2> QED
    BY <1>14, <1>15, <2>1 DEF sendDataTrain
<1>16. CASE RunReceives
  <2> DEFINE socket == IF upload = 1 THEN 2 ELSE 1
  <2>1. PICK m \in Range(downstream[socket]) :
          /\ Receive(socket, m)
          /\ \/ SendUp(Datagram("data", m.id, 2))
             \/ UNCHANGED upstream
    BY <1>16 DEF RunReceives
  <2>2. socket \in Sockets
    BY <1>3
  <2> HIDE DEF socket
  <2>3. m \in Messages
    BY <1>1, <2>1, <2>2, TakeDownFacts DEF Receive, QueuesTyped
  <2>4. Datagram("data", m.id, 2) \in Messages /\ Datagram("data", m.id, 2).kind = "data"
    BY <1>3, <2>3, DatagramFacts DEF Messages
  <2> QED
    BY <1>14, <1>16, <2>1, <2>4 DEF RunReceives
<1>17. CASE ReceiverTimeout
  BY <1>4, <1>17 DEF ReceiverTimeout
<1>18. CASE Kill
  BY <1>18, HandshakeOver DEF Kill
<1>19. CASE Lose
  <2>1. CASE /\ UNCHANGED downstream
             /\ \E i \in DOMAIN upstream : upstream' = RemoveAt(upstream, i)
    <3>1. PICK k \in DOMAIN upstream : upstream' = RemoveAt(upstream, k)
      BY <2>1
    <3>2. /\ Len(upstream') = Len(upstream) - 1 /\ Len(upstream) \in Nat \ {0}
          /\ k \in 1..Len(upstream) /\ Range(upstream') \subseteq Range(upstream)
          /\ \A i \in 1..Len(upstream') :
               upstream'[i] = IF i < k THEN upstream[i] ELSE upstream[i + 1]
      BY <1>1, <3>1, RemoveFacts DEF QueuesTyped
    <3>3. /\ (Second <=> Second') /\ (Served <=> Served') /\ (Unconfigured <=> Unconfigured')
          /\ UNCHANGED <<run, client, upload, downstream>>
      BY <1>19, <2>1 DEF Lose, Second, Served, Unconfigured
    <3>4. BeforeFirstAck => BeforeFirstAck'
      BY <3>2, <3>3 DEF BeforeFirstAck
    <3>5. ASSUME BeforeSecondAck
          PROVE  BeforeSecondAck'
      <4>1. ASSUME NEW i \in 1..Len(upstream')
            PROVE  /\ upstream'[i].kind = "SYN" /\ upstream'[i].id = run
                   /\ upstream'[i].socket = 2 => i = Len(upstream')
        <5>1. CASE i < k
          <6>1. i \in 1..Len(upstream) /\ upstream'[i] = upstream[i] /\ i # Len(upstream)
            BY <3>2, <5>1
          <6> QED
            BY <3>5, <6>1 DEF BeforeSecondAck
        <5>2. CASE ~ (i < k)
          <6>1. /\ i + 1 \in 1..Len(upstream) /\ upstream'[i] = upstream[i + 1]
                /\ i + 1 = Len(upstream) => i = Len(upstream')
            BY <3>2, <5>2
          <6> QED
            BY <3>5, <6>1 DEF BeforeSecondAck
        <5> QED
          BY <5>1, <5>2
      <4>2. upstream # <<>>
        BY <3>2
      <4> QED
        BY <3>3, <3>5, <4>1, <4>2 DEF BeforeSecondAck
    <3>6. BeforeConfigAck => BeforeConfigAck'
      BY <3>2, <3>3 DEF BeforeConfigAck
    <3>7. Recording => Recording'
      BY <3>2, <3>3 DEF Recording
    <3> QED
      BY <3>3, <3>4, <3>5, <3>6, <3>7 DEF Handshake
  <2>2. CASE /\ UNCHANGED upstream
             /\ \E s \in Sockets : \E i \in DOMAIN downstream[s] :
                  downstream' = [downstream EXCEPT ![s] = RemoveAt(@, i)]
    <3> PICK s \in Sockets : \E i \in DOMAIN downstream[s] :
            downstream' = [downstream EXCEPT ![s] = RemoveAt(@, i)]
      BY <2>2
    <3>1. PICK i \in DOMAIN downstream[s] :
            downstream' = [downstream EXCEPT ![s] = RemoveAt(@, i)]
      OBVIOUS
    <3>2. /\ Range(downstream'[1]) \subseteq Range(downstream[1])
          /\ s # 2 => downstream'[2] = downstream[2]
      BY <1>1, <1>3, <3>1, LoseDownFacts DEF QueuesTyped
    <3>3. downstream[s] # <<>>
      BY <3>1
    <3>4. s = 2 => downstream[2] # <<>>
      BY <3>3
    <3> QED
      BY <1>4, <1>19, <2>2, <3>2, <3>4 DEF Lose
  <2> QED
    BY <1>19, <2>1, <2>2 DEF Lose
<1>20. CASE PortClosed
  <2>1. client' \in Ended
    BY <1>20 DEF PortClosed
  <2> QED
    BY <2>1, HandshakeOver DEF Ended
<1>21. CASE UNCHANGED vars
  BY <1>4, <1>21 DEF vars
<1> QED
  BY <1>5, <1>6, <1>7, <1>8, <1>9, <1>10, <1>11, <1>12, <1>13, <1>15, <1>16, <1>17, <1>18,
     <1>19, <1>20, <1>21, Zenon
  DEF MainThread

LEMMA DeadStaysDead ==
  ASSUME [Next]_vars, server = "dead"
  PROVE  server' = "dead"
<1> USE DEF session, threads, network, client_vars, history
<1>1. CASE ServerReceives
  BY <1>1, ServerCases DEF FirstSyn, SecondSyn, SecondOther, Fin, Config, Data
<1>2. CASE ~ServerReceives
  BY <1>2, Zenon DEF Next, MainThread, Senders, vars, send_packet_train_thread, Inactivity,
    StartRun, SendSyn, FirstAck, SecondAck, ConfigAck, SocketTimeout, terminateConnection,
    closeSocket, sendDataTrain, RunReceives, ReceiverTimeout, Kill, Lose, PortClosed
<1> QED
  BY <1>1, <1>2

\* A client that was told CONFIG_ACK is the one that the server serves, in its
\* direction and at its second socket, whatever was lost and sent again on the
\* way there and whatever state the server was left in, if nothing of other
\* runs was on its way when this one began.
THEOREM RunningClientIsServed == RecorderSpec => []RunningIsServed
<1>1. ASSUME TypeInv, HandshakeInv, [Next]_vars
      PROVE  HandshakeInv'
  <2>1. CASE StartRun
    BY <2>1, HandshakeStart DEF HandshakeInv
  <2>2. CASE ServerReceives
    BY <1>1, <2>2, HandshakeServer DEF HandshakeInv
  <2>3. CASE ~StartRun /\ ~ServerReceives
    <3>1. Fresh' => Fresh
      BY <1>1, <2>3, HistoryUnchanged, DeadStaysDead DEF Fresh
    <3>2. ASSUME Fresh PROVE Handshake'
      <4>1. Handshake
        BY <1>1, <3>2 DEF HandshakeInv
      <4> QED
        BY <1>1, <2>3, <3>2, <4>1, HandshakeOther, Zenon DEF Next, Senders
    <3> QED
      BY <3>1, <3>2 DEF HandshakeInv
  <2> QED
    BY <2>1, <2>2, <2>3
<1>2. Init => HandshakeInv
  BY DEF Init, ClientInit, HandshakeInv, Fresh
<1>3. TypeInv /\ HandshakeInv => RunningIsServed
  <2> SUFFICES ASSUME TypeInv, HandshakeInv, client = "running", began # "busy", server # "dead"
               PROVE  Served
    BY DEF RunningIsServed, Served
  <2>1. run > 0
    BY TypeParts DEF TypeInv, ValuesTyped
  <2> QED
    BY <2>1 DEF HandshakeInv, Fresh, Handshake, Recording
<1> QED
  BY <1>1, <1>2, <1>3, TypeHolds, PTL DEF RecorderSpec

-----------------------------------------------------------------------------
(* Failures are explained *)

\* The current run began with nothing on its way, and lost nothing.
Quiet == run > 0 /\ began # "busy" /\ ~lost

Opposite == IF began = "loop" THEN "second" ELSE "loop"

NothingDown == \A s \in Sockets : downstream[s] = <<>>

\* One datagram is on its way to the server, or to a socket of the client.
Going(m) == upstream = <<m>> /\ NothingDown
Coming(socket, m) ==
  /\ upstream = <<>> /\ downstream[socket] = <<m>>
  /\ \A s \in Sockets : s # socket => downstream[s] = <<>>

ConfigDatagram == [kind |-> "config", id |-> run, socket |-> 1, upload |-> upload]

\* The dialogue of such a run, step by step.  With a server in its loop every
\* SYN is taken for what it is, with one that is waiting for a second
\* connection each is taken for the other, and the configuration is swallowed.
Dialogue ==
  /\ client \in Shaking => senders = {}
  /\ client = "syn" => upstream = <<>> /\ NothingDown /\ server = began
  /\ client = "ack1" =>
       \/ server = began /\ Going(Datagram("SYN", run, 1))
       \/ server = Opposite /\ Coming(1, Datagram("SYN_ACK", run, 1))
  /\ client = "ack2" =>
       \/ server = Opposite /\ Going(Datagram("SYN", run, 2))
       \/ /\ server = began /\ Coming(2, Datagram("SYN_ACK", run, 2))
          /\ server = "loop" => curr_sender_id = run
  /\ client = "config_ack" =>
       \/ /\ server = began /\ Going(ConfigDatagram) /\ senders = {}
          /\ server = "loop" => curr_sender_id = run
       \/ /\ server = "loop" /\ began = "loop" /\ upstream = <<>>
          /\ downstream[1] # <<>> /\ Head(downstream[1]) = Datagram("CONFIG_ACK", run, 1)
       \/ server = "loop" /\ began = "second" /\ upstream = <<>> /\ senders = {}
  /\ client = "failed" => server = "loop" /\ began = "second" /\ upstream = <<>>

\* Without a server no run gets an answer, and none fails.
Unanswered ==
  server = "dead" /\ client \in {"syn", "ack1", "over"} /\ NothingDown /\ senders = {}

UndisturbedInv ==
  /\ Quiet => IF began = "dead" THEN Unanswered ELSE Dialogue
  /\ spoiled => began \in {"loop", "busy"}

LEMMA SingleArrives ==
  ASSUME NEW x, upstream = <<x>>, NEW m, Arrived(m)
  PROVE  m = x /\ upstream' = <<>>
BY DEF Arrived

LEMMA SentToEmpty ==
  ASSUME NEW x, x.kind # "data"
  PROVE  Sent(<<>>, x) = <<x>>
BY DEF Sent

\* The answer of the server is the only datagram on its way.
LEMMA AnswerComes ==
  ASSUME NothingDown, downstream \in [Sockets -> Seq(Messages)], upstream' = <<>>,
         NEW socket \in Sockets, NEW x, x.kind # "data", SendDown(socket, x)
  PROVE  Coming(socket, x)'
<1>1. downstream' = [downstream EXCEPT ![socket] = Sent(downstream[socket], x)]
  BY DEF SendDown
<1>2. Sent(downstream[socket], x) = <<x>>
  BY SentToEmpty DEF NothingDown
<1>3. downstream'[socket] = <<x>> /\ \A s \in Sockets : s # socket => downstream'[s] = <<>>
  BY <1>1, <1>2 DEF NothingDown
<1> QED
  BY <1>3 DEF Coming

LEMMA DialogueServer ==
  ASSUME TypeInv, Dialogue, run > 0, began \in {"loop", "second"}, ServerReceives
  PROVE  Dialogue'
<1> USE DEF session, threads, network, client_vars, history
<1>1. PICK m \in Range(upstream) :
        /\ Arrived(m)
        /\ \/ FirstSyn(m) \/ SecondSyn(m) \/ SecondOther(m) \/ Fin(m) \/ Config(m) \/ Data(m)
  BY ServerCases, Zenon
<1>2. UNCHANGED <<client, run, upload, began>> /\ Opposite' = Opposite
  BY ServerCases DEF Opposite
<1>3. downstream \in [Sockets -> Seq(Messages)] /\ 1 \in Sockets /\ 2 \in Sockets
  BY TypeParts DEF TypeInv, QueuesTyped, Sockets
<1>4. upstream # <<>>
  BY <1>1 DEF Arrived
<1>5. \A kind, socket :
        /\ Datagram(kind, run, socket).kind = kind
        /\ Datagram(kind, run, socket).id = run
        /\ Datagram(kind, run, socket).socket = socket
  BY DatagramFacts
<1>6. client \notin {"syn", "failed"}
  BY <1>4 DEF Dialogue
<1>7. CASE client = "ack1"
  <2> DEFINE x == Datagram("SYN", run, 1)
  <2>1. server = began /\ upstream = <<x>> /\ NothingDown /\ senders = {}
    BY <1>4, <1>7 DEF Dialogue, Going, Coming, Shaking
  <2>2. m = x /\ upstream' = <<>>
    BY <1>1, <2>1, SingleArrives
  <2>3. m.kind = "SYN" /\ m.id = run /\ m.socket = 1
    BY <1>5, <2>2
  <2>4. /\ server' = Opposite /\ senders' = {}
        /\ SendDown(1, Datagram("SYN_ACK", run, 1))
    BY <1>1, <2>1, <2>3
    DEF FirstSyn, SecondSyn, SecondOther, Fin, Config, Data, Opposite
  <2>5. Coming(1, Datagram("SYN_ACK", run, 1))'
    <3> DEFINE y == Datagram("SYN_ACK", run, 1)
    <3>1. y.kind # "data" /\ SendDown(1, y)
      BY <1>5, <2>4
    <3>2. y' = y
      BY <1>2 DEF Datagram
    <3> HIDE DEF y
    <3>3. /\ upstream' = <<>> /\ downstream'[1] = <<y>>
          /\ \A s \in Sockets : s # 1 => downstream'[s] = <<>>
      BY <1>3, <2>1, <2>2, <3>1, AnswerComes DEF Coming
    <3> QED
      BY <3>2, <3>3 DEF Coming, y
  <2> QED
    BY <1>2, <1>7, <2>4, <2>5 DEF Dialogue
<1>8. CASE client = "ack2"
  <2> DEFINE x == Datagram("SYN", run, 2)
  <2>1. server = Opposite /\ upstream = <<x>> /\ NothingDown /\ senders = {}
    BY <1>4, <1>8 DEF Dialogue, Going, Coming, Shaking
  <2>2. m = x /\ upstream' = <<>>
    BY <1>1, <2>1, SingleArrives
  <2>3. m.kind = "SYN" /\ m.id = run /\ m.socket = 2
    BY <1>5, <2>2
  <2>4. /\ server' = began /\ senders' = {} /\ (server' = "loop" => curr_sender_id' = run)
        /\ SendDown(2, Datagram("SYN_ACK", run, 2))
    BY <1>1, <2>1, <2>3
    DEF FirstSyn, SecondSyn, SecondOther, Fin, Config, Data, Opposite
  <2>5. Coming(2, Datagram("SYN_ACK", run, 2))'
    <3> DEFINE y == Datagram("SYN_ACK", run, 2)
    <3>1. y.kind # "data" /\ SendDown(2, y)
      BY <1>5, <2>4
    <3>2. y' = y
      BY <1>2 DEF Datagram
    <3> HIDE DEF y
    <3>3. /\ upstream' = <<>> /\ downstream'[2] = <<y>>
          /\ \A s \in Sockets : s # 2 => downstream'[s] = <<>>
      BY <1>3, <2>1, <2>2, <3>1, AnswerComes DEF Coming
    <3> QED
      BY <3>2, <3>3 DEF Coming, y
  <2> QED
    BY <1>2, <1>8, <2>4, <2>5 DEF Dialogue
<1>9. CASE client = "config_ack"
  <2>1. /\ server = began /\ upstream = <<ConfigDatagram>> /\ NothingDown /\ senders = {}
        /\ server = "loop" => curr_sender_id = run
    BY <1>4, <1>9 DEF Dialogue, Going
  <2>2. m = ConfigDatagram /\ upstream' = <<>>
    BY <1>1, <2>1, SingleArrives
  <2>3. m.kind = "config" /\ m.id = run /\ m.socket = 1
    BY <2>2 DEF ConfigDatagram
  <2>4. CASE began = "loop"
    <3> DEFINE y == Datagram("CONFIG_ACK", run, 1)
    <3>1. server' = "loop" /\ SendDown(1, y)
      BY <1>1, <2>1, <2>3, <2>4 DEF FirstSyn, SecondSyn, SecondOther, Fin, Config, Data
    <3>2. y' = y /\ y.kind # "data"
      BY <1>2, <1>5 DEF Datagram
    <3>3. downstream'[1] = <<y>>
      BY <1>3, <2>1, <2>2, <3>1, <3>2, AnswerComes DEF Coming
    <3> HIDE DEF y
    <3>4. downstream'[1] # <<>> /\ Head(downstream'[1]) = y'
      BY <3>2, <3>3
    <3> QED
      BY <1>2, <1>9, <2>2, <2>4, <3>1, <3>4 DEF Dialogue, Shaking, y
  <2>5. CASE began = "second"
    <3>1. server' = "loop" /\ senders' = {}
      BY <1>1, <2>1, <2>3, <2>5 DEF FirstSyn, SecondSyn, SecondOther, Fin, Config, Data
    <3> QED
      BY <1>2, <1>9, <2>2, <2>5, <3>1 DEF Dialogue, Shaking
  <2> QED
    BY <2>4, <2>5
<1>10. CASE client \notin {"syn", "ack1", "ack2", "config_ack", "failed"}
  BY <1>2, <1>10 DEF Dialogue, Shaking
<1> QED
  BY <1>6, <1>7, <1>8, <1>9, <1>10

LEMMA UndisturbedStart ==
  ASSUME TypeInv, UndisturbedInv, StartRun
  PROVE  UndisturbedInv'
<1> USE DEF session, threads, network, client_vars, history
<1>1. /\ client' = "syn" /\ UNCHANGED <<server, senders, upstream, downstream>>
      /\ began' = IF NothingOnItsWay /\ senders = {} THEN server ELSE "busy"
  BY DEF StartRun
<1>2. server \in {"loop", "second", "dead"}
  BY TypeParts DEF TypeInv, ValuesTyped
<1>3. ASSUME began' # "busy"
      PROVE  IF began' = "dead" THEN Unanswered' ELSE Dialogue'
  <2>1. /\ upstream' = <<>> /\ NothingDown' /\ senders' = {} /\ server' = began'
    BY <1>1, <1>3 DEF NothingOnItsWay, NothingDown
  <2> QED
    BY <1>1, <2>1 DEF Unanswered, Dialogue
<1>4. ASSUME spoiled'
      PROVE  began' \in {"loop", "busy"}
  <2>1. client = "failed" /\ began # "busy" /\ ~lost
    BY <1>4, Zenon DEF StartRun, Failing
  <2>2. run > 0
    BY <2>1, TypeParts DEF TypeInv, ValuesTyped
  <2>3. Quiet
    BY <2>1, <2>2, Zenon DEF Quiet
  <2>4. server = "loop"
    BY <2>1, <2>3 DEF UndisturbedInv, Unanswered, Dialogue
  <2> QED
    BY <1>1, <2>4
<1> QED
  BY <1>3, <1>4, Zenon DEF UndisturbedInv, Quiet

\* Without a server.
LEMMA UnansweredStep ==
  ASSUME TypeInv, Unanswered, [Next]_vars, ~StartRun
  PROVE  Unanswered'
<1> USE DEF session, threads, network, client_vars, history, Unanswered
<1>1. downstream \in [Sockets -> Seq(Messages)] /\ 1 \in Sockets /\ 2 \in Sockets
  BY TypeParts DEF TypeInv, QueuesTyped, Sockets
<1>2. ~ServerReceives
  BY ServerCases DEF FirstSyn, SecondSyn, SecondOther, Fin, Config, Data
<1>3. ~Senders /\ ~Inactivity
  BY DEF Senders, send_packet_train_thread, Inactivity
<1>4. CASE MainThread
  BY <1>1, <1>4
  DEF MainThread, SendSyn, FirstAck, SecondAck, ConfigAck, SocketTimeout, Receive,
      terminateConnection, closeSocket, NothingDown
<1>5. ~sendDataTrain /\ ~RunReceives /\ ~ReceiverTimeout
  BY DEF sendDataTrain, RunReceives, ReceiverTimeout, Connected
<1>6. CASE Kill
  BY <1>6 DEF Kill, NothingDown
<1>7. CASE Lose
  <2>1. \A s \in Sockets : DOMAIN downstream[s] = {}
    BY DEF NothingDown
  <2> QED
    BY <1>7, <2>1 DEF Lose, NothingDown
<1>8. ~PortClosed
  BY DEF PortClosed, NothingDown
<1>9. CASE UNCHANGED vars
  BY <1>9 DEF vars, NothingDown
<1> QED
  BY <1>2, <1>3, <1>4, <1>5, <1>6, <1>7, <1>8, <1>9 DEF Next

\* A step of the current run, of the network or of a sender thread.
LEMMA DialogueOther ==
  ASSUME TypeInv, Dialogue, run > 0, began \in {"loop", "second"}, ~lost',
         \/ \E id \in 1..Runs : send_packet_train_thread(id)
         \/ Inactivity \/ MainThread \/ sendDataTrain \/ RunReceives \/ ReceiverTimeout
         \/ Kill \/ Lose \/ PortClosed \/ UNCHANGED vars,
         UNCHANGED <<run, began>>
  PROVE  Dialogue'
<1> USE DEF session, threads, network, client_vars, history
<1>1. /\ upstream \in Seq(Messages) /\ downstream \in [Sockets -> Seq(Messages)]
      /\ 1 \in Sockets /\ 2 \in Sockets
  BY TypeParts DEF TypeInv, QueuesTyped, Sockets
<1>2. \A kind, socket :
        /\ Datagram(kind, run, socket).kind = kind
        /\ Datagram(kind, run, socket).id = run
        /\ Datagram(kind, run, socket)' = Datagram(kind, run, socket)
  BY DatagramFacts DEF Datagram
<1>3. Opposite' = Opposite /\ Opposite # "dead"
  BY DEF Opposite
<1>4. ASSUME UNCHANGED <<server, curr_sender_id, upstream, downstream, client, upload, senders>>
      PROVE  Dialogue'
  BY <1>2, <1>3, <1>4 DEF Dialogue, Going, Coming, NothingDown, ConfigDatagram
<1>5. ASSUME client' \notin {"syn", "ack1", "ack2", "config_ack", "failed"}
      PROVE  Dialogue'
  BY <1>5 DEF Dialogue, Shaking
<1>6. ASSUME client = "failed", UNCHANGED <<server, upstream, client>>
      PROVE  Dialogue'
  BY <1>6 DEF Dialogue, Shaking
<1>7. ASSUME NEW id \in 1..Runs, send_packet_train_thread(id)
      PROVE  Dialogue'
  <2>1. id \in senders /\ UNCHANGED <<server, curr_sender_id, upstream, client, upload>>
    BY <1>7 DEF send_packet_train_thread
  <2>2. client \notin {"syn", "ack1", "ack2"}
    BY <2>1 DEF Dialogue, Shaking
  <2>3. CASE client = "config_ack"
    <3>1. /\ server = "loop" /\ began = "loop" /\ upstream = <<>>
          /\ downstream[1] # <<>> /\ Head(downstream[1]) = Datagram("CONFIG_ACK", run, 1)
      BY <2>1, <2>3 DEF Dialogue
    <3>2. /\ Datagram("data", id, 1) \in Messages
          /\ downstream[1] \in Seq(Messages)
      BY <1>1, DatagramFacts
    <3>3. \/ downstream'[1] = downstream[1]
          \/ downstream'[1] = Append(downstream[1], Datagram("data", id, 1))
      <4>1. CASE UNCHANGED downstream
        BY <4>1
      <4>2. CASE SendDown(1, Datagram("data", id, 1))
        <5>1. downstream'[1] = Sent(downstream[1], Datagram("data", id, 1))
          BY <1>1, <3>2, <4>2, SendDownFacts
        <5> QED
          BY <3>2, <5>1, SentFacts
      <4> QED
        BY <1>7, <4>1, <4>2 DEF send_packet_train_thread
    <3>4. downstream'[1] # <<>> /\ Head(downstream'[1]) = Head(downstream[1])
      <4> DEFINE q == downstream[1]
                 x == Datagram("data", id, 1)
      <4>1. q \in Seq(Messages) /\ x \in Messages /\ q # <<>>
        BY <3>1, <3>2
      <4> HIDE DEF q, x
      <4>2. Append(q, x) # <<>> /\ Head(Append(q, x)) = Head(q)
        BY <4>1
      <4> QED
        BY <3>1, <3>3, <4>2 DEF q, x
    <3> QED
      BY <1>2, <2>1, <2>3, <3>1, <3>4 DEF Dialogue, Shaking
  <2>4. CASE client # "config_ack"
    BY <1>5, <1>6, <2>1, <2>2, <2>4
  <2> QED
    BY <2>3, <2>4
<1>8. CASE Inactivity
  BY <1>4, <1>8 DEF Inactivity
<1>9. CASE SendSyn
  <2> DEFINE x == Datagram("SYN", run, 1)
  <2>1. /\ upstream = <<>> /\ NothingDown /\ server = began /\ senders = {}
    BY <1>9 DEF SendSyn, Dialogue, Shaking
  <2>2. /\ client' = "ack1" /\ SendUp(x) /\ UNCHANGED <<server, senders, downstream>>
    BY <1>9 DEF SendSyn
  <2>3. x.kind # "data" /\ x' = x
    BY <1>2
  <2> HIDE DEF x
  <2>4. upstream' = <<x>> /\ NothingDown'
    BY <2>1, <2>2, <2>3, SentToEmpty DEF SendUp, NothingDown
  <2> QED
    BY <2>1, <2>2, <2>3, <2>4 DEF Dialogue, Shaking, Going, x
<1>10. CASE FirstAck
  <2> DEFINE x == Datagram("SYN", run, 2)
             y == Datagram("SYN_ACK", run, 1)
  <2>1. PICK m \in Range(downstream[1]) :
          /\ Receive(1, m)
          /\ IF m.kind = "SYN_ACK" THEN client' = "ack2" /\ SendUp(x)
             ELSE client' = "failed" /\ UNCHANGED upstream
    BY <1>10 DEF FirstAck
  <2>2. UNCHANGED <<server, senders>> /\ client = "ack1"
    BY <1>10 DEF FirstAck
  <2>3. /\ server = Opposite /\ upstream = <<>> /\ downstream[1] = <<y>> /\ senders = {}
        /\ \A s \in Sockets : s # 1 => downstream[s] = <<>>
    BY <1>1, <2>1, <2>2 DEF Receive, Dialogue, Going, Coming, NothingDown, Shaking
  <2>4. x.kind # "data" /\ x' = x /\ y.kind = "SYN_ACK"
    BY <1>2
  <2> HIDE DEF x, y
  <2>5. m = y /\ NothingDown'
    BY <1>1, <2>1, <2>3 DEF Receive, NothingDown
  <2>6. upstream' = <<x>> /\ client' = "ack2"
    BY <2>1, <2>3, <2>4, <2>5, SentToEmpty DEF SendUp
  <2> QED
    BY <1>3, <2>2, <2>3, <2>4, <2>5, <2>6 DEF Dialogue, Shaking, Going, x
<1>11. CASE SecondAck
  <2> DEFINE x == [Datagram("config", run, 1) EXCEPT !.upload = upload']
             y == Datagram("SYN_ACK", run, 2)
  <2>1. PICK m \in Range(downstream[2]) :
          /\ Receive(2, m)
          /\ IF m.kind = "SYN_ACK" THEN client' = "config_ack" /\ sendConfig
             ELSE client' = "failed" /\ UNCHANGED <<upstream, upload>>
    BY <1>11 DEF SecondAck
  <2>2. UNCHANGED <<server, senders, curr_sender_id>> /\ client = "ack2"
    BY <1>11 DEF SecondAck
  <2>3. /\ server = began /\ upstream = <<>> /\ downstream[2] = <<y>> /\ senders = {}
        /\ \A s \in Sockets : s # 2 => downstream[s] = <<>>
        /\ server = "loop" => curr_sender_id = run
    BY <1>1, <2>1, <2>2 DEF Receive, Dialogue, Going, Coming, NothingDown, Shaking
  <2>4. y.kind = "SYN_ACK"
    BY <1>2
  <2> HIDE DEF y
  <2>5. m = y /\ NothingDown'
    BY <1>1, <2>1, <2>3 DEF Receive, NothingDown
  <2>6. client' = "config_ack" /\ SendUp(x)
    BY <2>1, <2>4, <2>5 DEF sendConfig
  <2>7. x = ConfigDatagram' /\ x.kind # "data"
    BY DEF ConfigDatagram, Datagram
  <2> HIDE DEF x
  <2>8. upstream' = <<ConfigDatagram'>>
    BY <2>3, <2>6, <2>7, SentToEmpty DEF SendUp
  <2> QED
    BY <2>2, <2>3, <2>5, <2>6, <2>8 DEF Dialogue, Shaking, Going
<1>12. CASE ConfigAck
  <2>1. PICK m \in Range(downstream[1]) :
          /\ Receive(1, m)
          /\ client' = IF m.kind = "CONFIG_ACK" THEN "running" ELSE "failed"
    BY <1>12 DEF ConfigAck
  <2>2. client = "config_ack" /\ UNCHANGED <<server, upstream>>
    BY <1>12 DEF ConfigAck
  <2>3. CASE m.kind = "CONFIG_ACK"
    BY <1>5, <2>1, <2>3
  <2>4. CASE m.kind # "CONFIG_ACK"
    <3>1. server = "loop" /\ began = "second" /\ upstream = <<>>
      BY <1>1, <1>2, <2>1, <2>2, <2>4 DEF Receive, Dialogue, Going, NothingDown
    <3> QED
      BY <2>1, <2>2, <2>4, <3>1 DEF Dialogue, Shaking
  <2> QED
    BY <2>3, <2>4
<1>13. CASE SocketTimeout
  <2>1. client = "config_ack" /\ server = "loop" /\ began = "second" /\ upstream = <<>>
    <3>1. /\ client \in {"ack1", "ack2", "config_ack"} /\ downstream[WaitsOn] = <<>>
          /\ upstream = <<>> \/ server = "dead"
      BY <1>13 DEF SocketTimeout
    <3>2. \A x : ~Going(x)
      <4>1. server # "dead"
        BY <1>3, <3>1 DEF Dialogue
      <4>2. \A x : upstream # <<x>>
        <5> TAKE x
        <5>1. Len(<<x>>) = 1 /\ Len(upstream) = 0
          BY <3>1, <4>1
        <5> QED
          BY <5>1
      <4> QED
        BY <4>2 DEF Going
    <3>3. client # "ack1"
      BY <3>1, <3>2 DEF Dialogue, Coming, WaitsOn
    <3>4. client # "ack2"
      BY <3>1, <3>2 DEF Dialogue, Coming, WaitsOn
    <3> QED
      BY <3>1, <3>2, <3>3, <3>4 DEF Dialogue, WaitsOn
  <2>2. client' = "failed" /\ UNCHANGED <<server, upstream>>
    BY <1>13, <2>1 DEF SocketTimeout
  <2> QED
    BY <2>1, <2>2 DEF Dialogue, Shaking
<1>14. CASE terminateConnection
  BY <1>5, <1>14 DEF terminateConnection
<1>15. CASE closeSocket
  BY <1>5, <1>15 DEF closeSocket
<1>16. CASE sendDataTrain \/ RunReceives \/ ReceiverTimeout
  BY <1>5, <1>16 DEF sendDataTrain, RunReceives, ReceiverTimeout, Connected
<1>17. CASE Kill
  BY <1>5, <1>17 DEF Kill
<1>18. CASE Lose
  <2>1. UNCHANGED <<server, curr_sender_id, client, upload, senders>>
    BY <1>18 DEF Lose
  <2>2. CASE /\ UNCHANGED downstream
             /\ \E i \in DOMAIN upstream :
                  /\ upstream' = RemoveAt(upstream, i)
                  /\ lost' = (lost \/ upstream[i].id = run)
    <3>1. PICK i \in DOMAIN upstream : lost' = (lost \/ upstream[i].id = run)
      BY <2>2
    <3>2. upstream[i].id # run
      BY <3>1
    <3>3. upstream # <<>> /\ \A x : x.id = run => upstream # <<x>>
      BY <3>2
    <3>4. ConfigDatagram.id = run
      BY DEF ConfigDatagram
    <3>5. client \notin {"syn", "ack1", "ack2", "config_ack", "failed"}
      BY <1>2, <3>3, <3>4 DEF Dialogue, Going, Coming
    <3> QED
      BY <1>5, <2>1, <3>5
  <2>3. CASE /\ UNCHANGED upstream
             /\ \E s \in Sockets : \E i \in DOMAIN downstream[s] :
                  /\ downstream' = [downstream EXCEPT ![s] = RemoveAt(@, i)]
                  /\ lost' = (lost \/ downstream[s][i].id = run)
    <3> PICK s \in Sockets : \E i \in DOMAIN downstream[s] :
               /\ downstream' = [downstream EXCEPT ![s] = RemoveAt(@, i)]
               /\ lost' = (lost \/ downstream[s][i].id = run)
      BY <2>3
    <3>1. PICK i \in DOMAIN downstream[s] :
            /\ downstream' = [downstream EXCEPT ![s] = RemoveAt(@, i)]
            /\ lost' = (lost \/ downstream[s][i].id = run)
      OBVIOUS
    <3>2. downstream[s][i].id # run
      BY <3>1
    <3>3. downstream[s] # <<>> /\ \A x : x.id = run => downstream[s] # <<x>>
      BY <3>2
    <3>4. client \notin {"syn", "ack1", "ack2"}
      BY <1>2, <3>3 DEF Dialogue, Going, Coming, NothingDown
    <3>5. CASE client = "config_ack"
      <4>1. ~NothingDown
        BY <3>3 DEF NothingDown
      <4>2. CASE server = "loop" /\ began = "second" /\ upstream = <<>> /\ senders = {}
        BY <2>1, <2>3, <3>5, <4>2 DEF Dialogue, Shaking
      <4>3. CASE /\ server = "loop" /\ began = "loop" /\ upstream = <<>>
                 /\ downstream[1] # <<>> /\ Head(downstream[1]) = Datagram("CONFIG_ACK", run, 1)
        <5>1. downstream'[1] # <<>> /\ Head(downstream'[1]) = Head(downstream[1])
          <6>1. CASE s # 1
            BY <1>1, <3>1, <4>3, <6>1
          <6>2. CASE s = 1
            <7> DEFINE q == downstream[1]
            <7>1. q \in Seq(Messages) /\ q # <<>> /\ i \in DOMAIN q /\ q[i].id # run
                  /\ Head(q).id = run /\ downstream'[1] = RemoveAt(q, i)
              BY <1>1, <1>2, <3>1, <3>2, <4>3, <6>2
            <7> HIDE DEF q
            <7>2. i \in 1..Len(q) /\ i # 1 /\ Len(q) \in Nat /\ Head(q) = q[1]
              BY <7>1
            <7>3. /\ RemoveAt(q, i) \in Seq(Messages) /\ Len(RemoveAt(q, i)) = Len(q) - 1
                  /\ \A j \in 1..Len(RemoveAt(q, i)) :
                       RemoveAt(q, i)[j] = IF j < i THEN q[j] ELSE q[j + 1]
              BY <7>1, RemoveFacts
            <7> DEFINE r == RemoveAt(q, i)
            <7> HIDE DEF r
            <7>4. r \in Seq(Messages) /\ Len(r) >= 1 /\ r[1] = q[1]
              BY <7>2, <7>3 DEF r
            <7>5. r # <<>> /\ Head(r) = r[1]
              BY <7>4
            <7> QED
              BY <7>1, <7>2, <7>4, <7>5 DEF q, r
          <6> QED
            BY <6>1, <6>2
        <5> QED
          BY <1>2, <2>1, <2>3, <3>5, <4>3, <5>1 DEF Dialogue, Shaking
      <4> QED
        BY <3>5, <4>1, <4>2, <4>3 DEF Dialogue, Going
    <3>6. CASE client # "config_ack"
      BY <1>5, <1>6, <2>1, <2>3, <3>4, <3>6
    <3> QED
      BY <3>5, <3>6
  <2> QED
    BY <1>18, <2>2, <2>3 DEF Lose
<1>19. CASE PortClosed
  <2>1. client \in Ended /\ UNCHANGED <<server, upstream, client>>
    BY <1>19 DEF PortClosed
  <2> QED
    BY <1>5, <1>6, <2>1 DEF Ended
<1>20. CASE UNCHANGED vars
  BY <1>4, <1>20 DEF vars
<1> QED
  BY <1>7, <1>8, <1>9, <1>10, <1>11, <1>12, <1>13, <1>14, <1>15, <1>16, <1>17, <1>18,
     <1>19, <1>20, Zenon
  DEF MainThread

LEMMA LostStays ==
  ASSUME TypeInv, [Next]_vars, ~StartRun, lost
  PROVE  lost'
<1> USE DEF session, threads, network, client_vars, history
<1>1. CASE ServerReceives
  BY <1>1, ServerCases, Zenon
<1>2. CASE ~ServerReceives
  BY <1>2, Zenon DEF Next, MainThread, Senders, vars, send_packet_train_thread, Inactivity,
    SendSyn, FirstAck, SecondAck, ConfigAck, SocketTimeout, terminateConnection, closeSocket,
    sendDataTrain, RunReceives, ReceiverTimeout, Kill, Lose, PortClosed
<1> QED
  BY <1>1, <1>2

\* A run that began with nothing on its way and lost nothing fails only if the
\* server was left waiting for a second connection; the run that follows such
\* a one does not fail again.
THEOREM RunsFailForAReason == RecorderSpec => []FailuresExplained
<1>1. ASSUME TypeInv, UndisturbedInv, [Next]_vars
      PROVE  UndisturbedInv'
  <2>1. CASE StartRun
    BY <1>1, <2>1, UndisturbedStart
  <2>2. CASE ~StartRun
    <3>1. UNCHANGED <<run, began, spoiled>>
      BY <1>1, <2>2, HistoryUnchanged
    <3>2. Quiet' => Quiet
      BY <1>1, <2>2, <3>1, LostStays, Zenon DEF Quiet
    <3>3. ASSUME Quiet', began = "dead"
          PROVE  Unanswered'
      BY <1>1, <2>2, <3>2, <3>3, UnansweredStep DEF UndisturbedInv
    <3>4. ASSUME Quiet', began # "dead"
          PROVE  Dialogue'
      <4>1. Dialogue /\ Quiet
        BY <1>1, <3>2, <3>4, Zenon DEF UndisturbedInv
      <4>2. run > 0 /\ began \in {"loop", "second"}
        BY <1>1, <3>4, <4>1, TypeParts DEF Quiet, TypeInv, ValuesTyped
      <4>3. ~lost'
        BY <3>4, Zenon DEF Quiet
      <4>4. CASE ServerReceives
        BY <1>1, <4>1, <4>2, <4>4, DialogueServer
      <4>5. CASE ~ServerReceives
        BY <1>1, <2>2, <3>1, <4>1, <4>2, <4>3, <4>5, DialogueOther, Zenon DEF Next, Senders
      <4> QED
        BY <4>4, <4>5
    <3> QED
      BY <1>1, <3>1, <3>3, <3>4, Zenon DEF UndisturbedInv
  <2> QED
    BY <2>1, <2>2
<1>2. Init => UndisturbedInv
  BY DEF Init, ClientInit, UndisturbedInv, Quiet
<1>3. TypeInv /\ UndisturbedInv => FailuresExplained
  <2> SUFFICES ASSUME TypeInv, UndisturbedInv, Failing
               PROVE  began # "loop" /\ ~spoiled
    BY DEF FailuresExplained
  <2>1. client = "failed" /\ began # "busy" /\ ~lost
    BY Zenon DEF Failing
  <2>2. run > 0
    BY <2>1, TypeParts DEF TypeInv, ValuesTyped
  <2>3. Quiet
    BY <2>1, <2>2, Zenon DEF Quiet
  <2>4. began = "second"
    BY <2>1, <2>3 DEF UndisturbedInv, Unanswered, Dialogue
  <2> QED
    BY <2>4 DEF UndisturbedInv
<1> QED
  BY <1>1, <1>2, <1>3, TypeHolds, PTL DEF RecorderSpec

=============================================================================
