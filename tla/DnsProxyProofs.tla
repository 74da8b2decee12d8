--------------------------- MODULE DnsProxyProofs ---------------------------
(***************************************************************************)
(* The relay hands on every byte once and in order, and none of its        *)
(* asserts fails, for every size of the ring buffers and of the sockets'   *)
(* buffers and for streams of every length.                                *)
(***************************************************************************)
EXTENDS DnsProxy, SequenceTheorems, TLAPS

\* How many bytes there are from position b to position a of the ring.
Span(a, b) == IF b > a THEN a - b + Size ELSE a - b

\* If position i is between b and a, in a ring that begins with byte first at
\* b, it has the byte that belongs there.
Placed(f, a, b, first, i) ==
  /\ b <= i /\ (i < a \/ a < b) => f[i] = first + i - b
  /\ i < a /\ a < b => f[i] = first + Size - b + i

\* The queue holds the bytes of its stream from the first up to another: in
\* one piece, or in two when they go around the end of the buffer.
Holds(q, first, upto) ==
  /\ upto = first + Span(q.next_push, q.next_pop)
  /\ \A i \in 0..Size-1 : Placed(q.buffer, q.next_push, q.next_pop, first, i)

\* The side that is being written to.
Target == Actions[action].fd

\* Bytes of a stream that have left its queue: a write that is under way has
\* not moved next_pop yet.
Popped(s) == Len(out[Other(s)]) - (IF pc = "write" /\ Target = Other(s) THEN wrote ELSE 0)

PeersSound ==
  /\ sent \in [Sides -> Nat] /\ received \in [Sides -> Nat]
  /\ fin \in [Sides -> BOOLEAN] /\ eof \in [Sides -> BOOLEAN]
  /\ \A s \in Sides :
       /\ taken[s] <= sent[s]
       /\ received[s] <= Len(out[s])
       /\ Len(out[s]) - received[s] <= SocketBuffer
       /\ eof[s] => fin[s] /\ taken[s] = sent[s]

StreamsSound == \A s \in Sides : Popped(s) \in Nat /\ Holds(queue[s], Popped(s), taken[s])

WriteSound ==
  IF pc = "write" THEN /\ action \in {3, 4}
                       /\ wrote <= contiguous_space_to_pop(queue[Other(Target)])
                  ELSE wrote = 0

\* The callbacks find what poll was asked for.
ReadySound ==
  pc \in {"callbacks", "write"} =>
    \A i \in ready : i >= action =>
      IF i \in {1, 2} THEN space_available(queue[Actions[i].fd])
                      ELSE non_empty(queue[Other(Actions[i].fd)])

EndSound == ended # "no" => pc = "done"

RelayInv ==
  /\ RelayTypeOK /\ PeersSound /\ StreamsSound /\ WriteSound /\ ReadySound /\ EndSound
  /\ BytesInOrder /\ RelayAssertsHold /\ ExitsComplete

-----------------------------------------------------------------------------
(* The ring buffer *)

\* A read of n bytes that goes neither past the end of the buffer nor up to
\* next_pop puts them where they belong and leaves the others.
LEMMA PushPlaced ==
  ASSUME NEW a \in 0..Size-1, NEW b \in 0..Size-1, NEW n \in Nat, NEW c,
         a + n <= Size, a < b => a + n < b, b = 0 => a + n < Size,
         c = IF a + n = Size THEN 0 ELSE a + n,
         NEW first \in Nat, NEW f \in [0..Size-1 -> Nat], NEW g \in [0..Size-1 -> Nat],
         NEW i \in 0..Size-1, Placed(f, a, b, first, i),
         g[i] = IF a <= i /\ i < a + n THEN first + Span(a, b) + i - a ELSE f[i]
  PROVE  Placed(g, c, b, first, i)
BY SizeAssumption DEF Span, Placed

\* A write of n bytes that goes neither past the end of the buffer nor past
\* next_push leaves the others where they belong.
LEMMA PopPlaced ==
  ASSUME NEW a \in 0..Size-1, NEW b \in 0..Size-1, NEW n \in Nat, NEW c,
         b + n <= Size, b <= a => b + n <= a,
         c = IF b + n = Size THEN 0 ELSE b + n,
         NEW first \in Nat, NEW f \in [0..Size-1 -> Nat],
         NEW i \in 0..Size-1, Placed(f, a, b, first, i)
  PROVE  Placed(f, a, c, first + n, i)
BY SizeAssumption DEF Placed

\* available_to_pop and the contiguous part of it.
LEMMA PopRoom ==
  ASSUME NEW q \in ByteStreamQueues
  PROVE  /\ available_to_pop(q) = Span(q.next_push, q.next_pop)
         /\ available_to_pop(q) \in Nat
         /\ contiguous_space_to_pop(q) \in Nat
         /\ q.next_pop + contiguous_space_to_pop(q) <= Size
         /\ q.next_pop <= q.next_push
              => q.next_pop + contiguous_space_to_pop(q) <= q.next_push
<1>1. /\ q.next_push \in 0..Size-1 /\ q.next_pop \in 0..Size-1
      /\ Size \in Nat /\ Size > 1
  BY SizeAssumption DEF ByteStreamQueues
<1>2. available_to_pop(q) = Span(q.next_push, q.next_pop) /\ available_to_pop(q) \in Nat
  BY <1>1 DEF available_to_pop, Span
<1>3. contiguous_space_to_pop(q) = IF q.next_pop + available_to_pop(q) >= Size
                                   THEN Size - q.next_pop ELSE available_to_pop(q)
  BY DEF contiguous_space_to_pop, Contiguous
<1> QED
  BY <1>1, <1>2, <1>3 DEF Span

\* The contiguous part of available_to_push.
LEMMA PushRoom ==
  ASSUME NEW q \in ByteStreamQueues, space_available(q)
  PROVE  /\ contiguous_space_to_push(q) \in Nat \ {0}
         /\ q.next_push + contiguous_space_to_push(q) <= Size
         /\ q.next_push < q.next_pop
              => q.next_push + contiguous_space_to_push(q) < q.next_pop
         /\ q.next_pop = 0 => q.next_push + contiguous_space_to_push(q) < Size
<1>1. /\ q.next_push \in 0..Size-1 /\ q.next_pop \in 0..Size-1
      /\ Size \in Nat /\ Size > 1
  BY SizeAssumption DEF ByteStreamQueues
<1>2. available_to_push(q) \in Int /\ available_to_push(q) > 0
  BY <1>1 DEF available_to_push, space_available
<1>3. contiguous_space_to_push(q) = IF q.next_push + available_to_push(q) >= Size
                                    THEN Size - q.next_push ELSE available_to_push(q)
  BY DEF contiguous_space_to_push, Contiguous
<1> QED
  BY <1>1, <1>2, <1>3 DEF available_to_push

\* ByteStreamQueue::push appends to what the queue holds, and its asserts hold.
LEMMA PushHolds ==
  ASSUME NEW q \in ByteStreamQueues, NEW first \in Nat, NEW upto \in Nat, NEW n \in Nat,
         Holds(q, first, upto), space_available(q), n <= contiguous_space_to_push(q)
  PROVE  /\ push(q, upto, n) \in ByteStreamQueues
         /\ Holds(push(q, upto, n), first, upto + n)
         /\ PushAsserts(q, n)
<1> DEFINE a == q.next_push
           b == q.next_pop
           c == Wrapped(a + n)
           g == push(q, upto, n).buffer
<1>1. /\ a \in 0..Size-1 /\ b \in 0..Size-1
      /\ q.buffer \in [0..Size-1 -> Nat]
      /\ Size \in Nat /\ Size > 1
  BY SizeAssumption DEF ByteStreamQueues
<1>2. /\ a + n <= Size
      /\ a < b => a + n < b
      /\ b = 0 => a + n < Size
      /\ contiguous_space_to_push(q) > 0
  BY <1>1, PushRoom
<1>3. c = IF a + n = Size THEN 0 ELSE a + n
  BY DEF Wrapped
<1>4. c \in 0..Size-1 /\ Span(c, b) = Span(a, b) + n
  <2> HIDE DEF a, b, c
  <2> QED
    BY <1>1, <1>2, <1>3 DEF Span
<1>5. upto = first + Span(a, b) /\ Span(a, b) \in Nat
  BY <1>1 DEF Holds, Span
<1>6. g = [i \in 0..Size-1 |-> IF a <= i /\ i < a + n THEN upto + i - a ELSE q.buffer[i]]
  BY DEF push
<1>7. g \in [0..Size-1 -> Nat]
  BY <1>1, <1>6
<1>8. push(q, upto, n) = [buffer |-> g, next_push |-> c, next_pop |-> b]
  BY DEF push
<1>9. \A i \in 0..Size-1 : Placed(g, c, b, first, i)
  <2> SUFFICES ASSUME NEW i \in 0..Size-1
               PROVE  Placed(g, c, b, first, i)
    OBVIOUS
  <2>1. Placed(q.buffer, a, b, first, i)
    BY DEF Holds
  <2>2. g[i] = IF a <= i /\ i < a + n THEN first + Span(a, b) + i - a ELSE q.buffer[i]
    BY <1>5, <1>6
  <2> HIDE DEF a, b, c, g
  <2> QED
    BY <1>1, <1>2, <1>3, <1>7, <2>1, <2>2, PushPlaced
<1>10. push(q, upto, n) \in ByteStreamQueues
  BY <1>1, <1>4, <1>7, <1>8 DEF ByteStreamQueues
<1>11. Holds(push(q, upto, n), first, upto + n)
  BY <1>1, <1>4, <1>5, <1>8, <1>9 DEF Holds
<1>12. n > 0 => non_empty(push(q, 0, n))
  <2>1. push(q, 0, n).next_push = c /\ push(q, 0, n).next_pop = b
    BY DEF push
  <2>2. available_to_pop(push(q, 0, n)) = c - b + (IF b > c THEN Size ELSE 0)
    BY <2>1 DEF available_to_pop
  <2> HIDE DEF a, b, c
  <2>3. c - b + (IF b > c THEN Size ELSE 0) = Span(c, b)
    BY <1>1, <1>4 DEF Span
  <2> QED
    BY <1>4, <1>5, <2>2, <2>3 DEF non_empty
<1> QED
  BY <1>1, <1>2, <1>10, <1>11, <1>12 DEF PushAsserts

\* ByteStreamQueue::pop removes from the beginning of what the queue holds.
LEMMA PopHolds ==
  ASSUME NEW q \in ByteStreamQueues, NEW first \in Nat, NEW upto \in Nat, NEW n \in Nat,
         Holds(q, first, upto), n <= contiguous_space_to_pop(q)
  PROVE  /\ pop(q, n) \in ByteStreamQueues
         /\ Holds(pop(q, n), first + n, upto)
<1> DEFINE a == q.next_push
           b == q.next_pop
           c == Wrapped(b + n)
<1>1. /\ a \in 0..Size-1 /\ b \in 0..Size-1
      /\ q.buffer \in [0..Size-1 -> Nat]
      /\ Size \in Nat /\ Size > 1
  BY SizeAssumption DEF ByteStreamQueues
<1>2. b + n <= Size /\ (b <= a => b + n <= a)
  BY <1>1, PopRoom
<1>3. c = IF b + n = Size THEN 0 ELSE b + n
  BY DEF Wrapped
<1>4. c \in 0..Size-1 /\ Span(a, c) + n = Span(a, b)
  <2> HIDE DEF a, b, c
  <2> QED
    BY <1>1, <1>2, <1>3 DEF Span
<1>5. upto = first + Span(a, b) /\ Span(a, c) \in Int
  BY <1>1, <1>4 DEF Holds, Span
<1>6. pop(q, n) = [buffer |-> q.buffer, next_push |-> a, next_pop |-> c]
  BY DEF pop, ByteStreamQueues
<1>7. \A i \in 0..Size-1 : Placed(q.buffer, a, c, first + n, i)
  <2> SUFFICES ASSUME NEW i \in 0..Size-1
               PROVE  Placed(q.buffer, a, c, first + n, i)
    OBVIOUS
  <2>1. Placed(q.buffer, a, b, first, i)
    BY DEF Holds
  <2> HIDE DEF a, b, c
  <2> QED
    BY <1>1, <1>2, <1>3, <2>1, PopPlaced
<1>8. pop(q, n) \in ByteStreamQueues
  BY <1>1, <1>4, <1>6 DEF ByteStreamQueues
<1>9. Holds(pop(q, n), first + n, upto)
  BY <1>4, <1>5, <1>6, <1>7 DEF Holds
<1> QED
  BY <1>8, <1>9

\* What a write takes after the first k bytes continues the stream.
LEMMA BytesHeld ==
  ASSUME NEW q \in ByteStreamQueues, NEW first \in Nat, NEW upto \in Nat,
         NEW k \in Nat, NEW n \in Nat,
         Holds(q, first, upto), k + n <= contiguous_space_to_pop(q)
  PROVE  /\ Bytes(q, k, n) \in Seq(Nat)
         /\ Len(Bytes(q, k, n)) = n
         /\ \A i \in 1..n : Bytes(q, k, n)[i] = first + k + i - 1
<1> DEFINE a == q.next_push
           b == q.next_pop
<1>1. /\ a \in 0..Size-1 /\ b \in 0..Size-1
      /\ Size \in Nat /\ Size > 1
  BY SizeAssumption DEF ByteStreamQueues
<1>2. b + k + n <= Size /\ (b <= a => b + k + n <= a)
  BY <1>1, PopRoom
<1>3. ASSUME NEW i \in 1..n
      PROVE  q.buffer[b + k + i - 1] = first + k + i - 1
  <2> DEFINE j == b + k + i - 1
  <2>1. Placed(q.buffer, a, b, first, j) \/ j \notin 0..Size-1
    BY DEF Holds
  <2> HIDE DEF a, b
  <2>2. j \in 0..Size-1 /\ b <= j /\ (j < a \/ a < b)
    BY <1>1, <1>2
  <2>3. q.buffer[j] = first + j - b
    BY <2>1, <2>2 DEF Placed
  <2> QED
    BY <1>1, <2>3
<1>4. Bytes(q, k, n) = [i \in 1..n |-> q.buffer[b + k + i - 1]]
  BY DEF Bytes
<1>5. \A i \in 1..n : Bytes(q, k, n)[i] = first + k + i - 1 /\ Bytes(q, k, n)[i] \in Nat
  BY <1>3, <1>4
<1>6. Bytes(q, k, n) \in [1..n -> Nat]
  BY <1>4, <1>5
<1> QED
  BY <1>5, <1>6, SeqDef, LenProperties

\* An empty queue has room.
LEMMA EmptyHasSpace ==
  ASSUME NEW q \in ByteStreamQueues, ~ non_empty(q)
  PROVE  Span(q.next_push, q.next_pop) = 0 /\ space_available(q)
<1>1. /\ q.next_push \in 0..Size-1 /\ q.next_pop \in 0..Size-1
      /\ Size \in Nat /\ Size > 1
  BY SizeAssumption DEF ByteStreamQueues
<1>2. Span(q.next_push, q.next_pop) = 0
  BY PopRoom DEF non_empty
<1>3. q.next_push = q.next_pop
  BY <1>1, <1>2 DEF Span
<1> QED
  BY <1>1, <1>2, <1>3 DEF space_available, available_to_push

-----------------------------------------------------------------------------
(* Steps of the relay *)

\* The four actions of the poller.
LEMMA ActionFacts ==
  /\ \A i \in 1..4 : /\ Actions[i].fd \in Sides
                     /\ Actions[i].direction = "In" <=> i \in {1, 2}
                     /\ Actions[i].direction = "Out" <=> i \in {3, 4}
  /\ Actions[1].fd = "server" /\ Actions[2].fd = "client"
  /\ Actions[3].fd = "server" /\ Actions[4].fd = "client"
<1>1. /\ Actions[1] = [fd |-> "server", direction |-> "In"]
      /\ Actions[2] = [fd |-> "client", direction |-> "In"]
      /\ Actions[3] = [fd |-> "server", direction |-> "Out"]
      /\ Actions[4] = [fd |-> "client", direction |-> "Out"]
  BY DEF Actions
<1>2. \A i \in 1..4 : i = 1 \/ i = 2 \/ i = 3 \/ i = 4
  OBVIOUS
<1> QED
  BY <1>1, <1>2 DEF Sides

\* The other side of the other side.
LEMMA OtherFacts ==
  /\ Other("client") = "server" /\ Other("server") = "client"
  /\ \A s \in Sides : Other(s) \in Sides /\ Other(Other(s)) = s /\ Other(s) # s
  /\ \A s, t \in Sides : Other(s) = Other(t) => s = t
  /\ \A s, t \in Sides : s # t => s = Other(t)
BY DEF Other, Sides

\* A step between writes that moves no byte.
LEMMA StreamsUnmoved ==
  ASSUME StreamsSound, BytesInOrder, pc # "write", pc' # "write",
         UNCHANGED <<queue, taken, out>>
  PROVE  StreamsSound' /\ BytesInOrder'
BY DEF StreamsSound, BytesInOrder, Popped, Holds

\* The position in a stream of the queue that is being written.
LEMMA PoppedTarget ==
  ASSUME RelayInv, pc \in {"callbacks", "write"}, action \in {3, 4}
  PROVE  /\ Target \in Sides /\ Other(Target) \in Sides
         /\ Len(out[Target]) \in Nat /\ wrote \in Nat
         /\ Popped(Other(Target)) = Len(out[Target]) - wrote
         /\ Popped(Other(Target)) \in Nat
         /\ Holds(queue[Other(Target)], Popped(Other(Target)), taken[Other(Target)])
         /\ queue[Other(Target)] \in ByteStreamQueues
         /\ taken[Other(Target)] \in Nat
         /\ Space(Target) \in Nat
<1>1. Target \in Sides /\ Other(Target) \in Sides /\ Other(Other(Target)) = Target
  <2>1. action = 3 \/ action = 4
    OBVIOUS
  <2>2. Target \in Sides
    BY <2>1, ActionFacts DEF Target, Sides
  <2> QED
    BY <2>2, OtherFacts
<1>2. out \in [Sides -> Seq(Nat)] /\ wrote \in Nat
  BY DEF RelayInv, RelayTypeOK
<1>3. Len(out[Target]) \in Nat
  BY <1>1, <1>2, LenProperties
<1>4. Popped(Other(Target)) = Len(out[Target]) - wrote
  <2>1. CASE pc = "write"
    BY <1>1, <2>1 DEF Popped
  <2>2. CASE pc # "write"
    <3>1. wrote = 0
      BY <2>2 DEF RelayInv, WriteSound
    <3> QED
      BY <1>1, <1>3, <2>2, <3>1 DEF Popped
  <2> QED
    BY <2>1, <2>2
<1>5. Space(Target) \in Nat
  <2>1. received[Target] \in Nat /\ Len(out[Target]) - received[Target] <= SocketBuffer
    BY <1>1 DEF RelayInv, PeersSound
  <2> QED
    BY <1>3, <2>1, RelayAssumption DEF Space
<1> QED
  BY <1>1, <1>2, <1>3, <1>4, <1>5 DEF RelayInv, RelayTypeOK, StreamsSound

\* The bytes that the kernel takes continue the stream.
LEMMA TakesSound ==
  ASSUME RelayInv, pc \in {"callbacks", "write"}, action \in {3, 4},
         NEW n \in Nat, n <= Space(Target),
         wrote + n <= contiguous_space_to_pop(queue[Other(Target)]),
         Takes(Target, n), pc' = "write", UNCHANGED <<action, queue, taken>>, UNCHANGED peers
  PROVE  /\ out' \in [Sides -> Seq(Nat)] /\ wrote' \in Nat
         /\ \A t \in Sides : received[t] <= Len(out'[t]) /\ Len(out'[t]) - received[t] <= SocketBuffer
         /\ StreamsSound' /\ BytesInOrder' /\ WriteSound'
<1> DEFINE s == Target
           q == queue[Other(s)]
           b == Bytes(q, wrote, n)
           first == Popped(Other(s))
<1>1. /\ s \in Sides /\ Other(s) \in Sides
      /\ Len(out[s]) \in Nat /\ wrote \in Nat
      /\ first = Len(out[s]) - wrote /\ first \in Nat
      /\ Holds(q, first, taken[Other(s)]) /\ q \in ByteStreamQueues
      /\ taken[Other(s)] \in Nat /\ Space(s) \in Nat
  BY PoppedTarget
<1>2. /\ b \in Seq(Nat) /\ Len(b) = n
      /\ \A i \in 1..n : b[i] = first + wrote + i - 1
  <2>1. wrote + n <= contiguous_space_to_pop(q)
    OBVIOUS
  <2> HIDE DEF q, first, s
  <2> QED
    BY <1>1, <2>1, BytesHeld
<1>3. out \in [Sides -> Seq(Nat)]
  BY DEF RelayInv, RelayTypeOK
<1>4. out' = [out EXCEPT ![s] = out[s] \o b] /\ wrote' = wrote + n
  BY DEF Takes
<1>5. out[s] \o b \in Seq(Nat) /\ Len(out[s] \o b) = Len(out[s]) + n
  <2>1. out[s] \in Seq(Nat)
    BY <1>1, <1>3
  <2> HIDE DEF b, s
  <2> QED
    BY <1>2, <2>1, ConcatProperties
<1>6. out' \in [Sides -> Seq(Nat)]
  BY <1>1, <1>3, <1>4, <1>5
<1>7. \A t \in Sides : out'[t] = IF t = s THEN out[s] \o b ELSE out[t]
  BY <1>3, <1>4
<1>8. Target' = s
  BY DEF Target
<1> HIDE DEF b
<1>9. StreamsSound'
  <2> SUFFICES ASSUME NEW t \in Sides
               PROVE  Popped(t)' = Popped(t)
    BY DEF StreamsSound, RelayInv, Holds
  <2>1. CASE Other(t) = s
    <3>1. t = Other(s)
      BY <2>1, OtherFacts
    <3>2. Popped(t)' = Len(out[s] \o b) - (wrote + n)
      BY <1>1, <1>4, <1>7, <1>8, <2>1 DEF Popped
    <3> QED
      BY <1>1, <1>5, <3>1, <3>2
  <2>2. CASE Other(t) # s
    <3>1. Other(t) \in Sides /\ Len(out'[Other(t)]) = Len(out[Other(t)])
      BY <1>7, <2>2, OtherFacts
    <3> QED
      BY <1>8, <2>2, <3>1 DEF Popped
  <2> QED
    BY <2>1, <2>2
<1>10. BytesInOrder'
  <2> SUFFICES ASSUME NEW t \in Sides, NEW i \in DOMAIN (out'[t])
               PROVE  out'[t][i] = i - 1
    BY DEF BytesInOrder
  <2>1. CASE t # s
    BY <1>7, <2>1 DEF RelayInv, BytesInOrder
  <2>2. CASE t = s
    <3>1. i \in 1..(Len(out[s]) + n)
      BY <1>5, <1>7, <2>2, LenProperties
    <3>2. CASE i <= Len(out[s])
      <4>1. i \in 1..Len(out[s]) /\ i \in DOMAIN out[s]
        BY <1>1, <1>3, <3>1, <3>2, LenProperties
      <4>2. (out[s] \o b)[i] = out[s][i]
        BY <1>1, <1>2, <1>3, <3>1, <3>2, ConcatProperties
      <4> QED
        BY <1>1, <1>7, <2>2, <4>1, <4>2 DEF RelayInv, BytesInOrder
    <3>3. CASE ~ (i <= Len(out[s]))
      <4>1. (out[s] \o b)[i] = b[i - Len(out[s])]
        BY <1>1, <1>2, <1>3, <3>1, <3>3, ConcatProperties, SMTT(30)
      <4>2. i - Len(out[s]) \in 1..n
        BY <1>1, <3>1, <3>3
      <4>3. b[i - Len(out[s])] = first + wrote + (i - Len(out[s])) - 1
        BY <1>2, <4>2
      <4>4. out'[t][i] = b[i - Len(out[s])]
        BY <1>7, <2>2, <4>1
      <4> HIDE DEF first, s
      <4>5. first + wrote + (i - Len(out[s])) - 1 = i - 1
        BY <1>1, <3>1
      <4> QED
        BY <4>3, <4>4, <4>5
    <3> QED
      BY <3>2, <3>3
  <2> QED
    BY <2>1, <2>2
<1>11. WriteSound'
  BY <1>4, <1>8 DEF WriteSound
<1>12. \A t \in Sides : received[t] <= Len(out'[t]) /\ Len(out'[t]) - received[t] <= SocketBuffer
  <2> SUFFICES ASSUME NEW t \in Sides
               PROVE  received[t] <= Len(out'[t]) /\ Len(out'[t]) - received[t] <= SocketBuffer
    OBVIOUS
  <2>1. /\ received[t] \in Nat /\ received[t] <= Len(out[t])
        /\ Len(out[t]) - received[t] <= SocketBuffer
    BY DEF RelayInv, PeersSound
  <2>2. CASE t # s
    BY <1>7, <2>1, <2>2
  <2>3. CASE t = s
    <3>1. Len(out'[t]) = Len(out[s]) + n
      BY <1>5, <1>7, <2>3
    <3>2. Space(s) = SocketBuffer - (Len(out[s]) - received[s]) /\ n <= Space(s)
      BY DEF Space
    <3> QED
      BY <1>1, <2>1, <2>3, <3>1, <3>2, RelayAssumption, SMTT(30)
  <2> QED
    BY <2>2, <2>3
<1> QED
  BY <1>1, <1>4, <1>6, <1>9, <1>10, <1>11, <1>12

\* Steps between the callbacks, which move no byte, have to keep three parts.
LEMMA QuietStep ==
  ASSUME RelayInv, pc # "write", UNCHANGED <<wrote, queue, eof, taken, out, asserted>>,
         UNCHANGED peers, pc' \in {"idle", "connect", "poll", "callbacks", "done"},
         action' \in 1..5, ready' \subseteq 1..4, hangup' \subseteq Sides,
         ReadySound', EndSound', ExitsComplete'
  PROVE  RelayInv'
<1>1. RelayTypeOK'
  BY DEF RelayInv, RelayTypeOK
<1>2. PeersSound'
  BY DEF RelayInv, PeersSound, peers
<1>3. StreamsSound' /\ BytesInOrder'
  BY StreamsUnmoved DEF RelayInv
<1>4. WriteSound'
  BY DEF RelayInv, WriteSound
<1> QED
  BY <1>1, <1>2, <1>3, <1>4 DEF RelayInv, RelayAssertsHold

\* Before it is done the thread has not ended.
LEMMA NotEnded ==
  ASSUME RelayInv, pc # "done"
  PROVE  ended = "no"
BY DEF RelayInv, EndSound

\* The thread starts and connects to the nameserver, or fails to.
LEMMA StartSound ==
  ASSUME RelayInv, handle_tcp \/ connect, UNCHANGED peers
  PROVE  RelayInv'
<1>1. ended = "no" /\ ended' # "exit"
  BY NotEnded DEF handle_tcp, connect, Ends
<1>2. /\ pc # "write" /\ pc' \in {"connect", "poll", "done"}
      /\ UNCHANGED <<action, ready, hangup, wrote, queue, eof, taken, out, asserted>>
      /\ ended' # "no" => pc' = "done"
  BY <1>1 DEF handle_tcp, connect, Ends
<1> QED
  BY <1>1, <1>2, QuietStep DEF RelayInv, RelayTypeOK, ReadySound, EndSound, ExitsComplete

\* poll: it leaves only if both streams are at their ends and both queues empty.
LEMMA PollSound ==
  ASSUME RelayInv, poll, UNCHANGED peers
  PROVE  RelayInv'
<1>1. /\ pc = "poll" /\ ended = "no"
      /\ UNCHANGED <<wrote, queue, eof, taken, out, asserted>>
  BY NotEnded DEF poll
<1>2. CASE \A i \in 1..4 : ~ Interested(Actions[i])
  <2>1. pc' = "done" /\ ended' = "exit" /\ UNCHANGED <<action, ready, hangup>>
    BY <1>2 DEF poll, Ends
  <2>2. ASSUME NEW s \in Sides
        PROVE  fin[s] /\ Len(out[Other(s)]) = sent[s]
    <3>1. queue[s] \in ByteStreamQueues /\ taken[s] \in Nat
      BY DEF RelayInv, RelayTypeOK
    <3>2. ~ non_empty(queue[s]) /\ (eof[s] \/ ~ space_available(queue[s]))
      <4>1. CASE s = "client"
        <5>1. ~ Interested(Actions[2]) /\ ~ Interested(Actions[3])
          BY <1>2
        <5> QED
          BY <4>1, <5>1, ActionFacts, OtherFacts DEF Interested
      <4>2. CASE s = "server"
        <5>1. ~ Interested(Actions[1]) /\ ~ Interested(Actions[4])
          BY <1>2
        <5> QED
          BY <4>2, <5>1, ActionFacts, OtherFacts DEF Interested
      <4> QED
        BY <4>1, <4>2 DEF Sides
    <3>3. eof[s] /\ Span(queue[s].next_push, queue[s].next_pop) = 0
      BY <3>1, <3>2, EmptyHasSpace
    <3>4. Popped(s) \in Nat /\ taken[s] = Popped(s)
      BY <3>3 DEF RelayInv, StreamsSound, Holds
    <3>5. Popped(s) = Len(out[Other(s)])
      <4>1. out[Other(s)] \in Seq(Nat)
        BY OtherFacts DEF RelayInv, RelayTypeOK
      <4>2. Len(out[Other(s)]) \in Nat
        BY <4>1, LenProperties
      <4> QED
        BY <1>1, <4>2 DEF Popped
    <3> QED
      BY <3>3, <3>4, <3>5 DEF RelayInv, PeersSound
  <2>3. ExitsComplete'
    BY <1>1, <2>2 DEF ExitsComplete, peers
  <2> QED
    BY <1>1, <2>1, <2>3, QuietStep DEF RelayInv, RelayTypeOK, ReadySound, EndSound
<1>3. CASE ~ (\A i \in 1..4 : ~ Interested(Actions[i]))
  <2>1. /\ ready' = {i \in 1..4 : Reported(Actions[i])}
        /\ hangup' = {s \in Sides : reset[s]}
        /\ pc' = "callbacks" /\ action' = 1 /\ ended' = "no"
    BY <1>1, <1>3 DEF poll
  <2>2. ReadySound'
    <3> SUFFICES ASSUME NEW i \in 1..4, Interested(Actions[i])
                 PROVE  IF i \in {1, 2} THEN space_available(queue[Actions[i].fd])
                                         ELSE non_empty(queue[Other(Actions[i].fd)])
      BY <1>1, <2>1 DEF ReadySound, Reported
    <3> QED
      BY ActionFacts DEF Interested
  <2> QED
    BY <1>1, <2>1, <2>2, QuietStep DEF EndSound, ExitsComplete
<1> QED
  BY <1>2, <1>3

\* Going over the actions.
LEMMA SkipSound ==
  ASSUME RelayInv, skip, UNCHANGED peers
  PROVE  RelayInv'
<1>1. /\ pc = "callbacks" /\ ended = "no"
      /\ UNCHANGED <<ready, hangup, wrote, queue, eof, taken, out, asserted>>
  BY NotEnded DEF skip
<1>2. /\ action' \in 1..5 /\ action' >= action
      /\ pc' \in {"poll", "callbacks", "done"}
      /\ ended' \in {"no", "hangup"} /\ (ended' # "no" => pc' = "done")
  <2>1. action \in 1..5
    BY DEF RelayInv, RelayTypeOK
  <2> QED
    BY <1>1, <2>1 DEF skip, Ends
<1>3. ReadySound'
  <2>1. action \in 1..5 /\ ready \subseteq 1..4
    BY DEF RelayInv, RelayTypeOK
  <2> QED
    BY <1>1, <1>2, <2>1 DEF RelayInv, ReadySound
<1> QED
  BY <1>1, <1>2, <1>3, QuietStep DEF RelayInv, RelayTypeOK, EndSound, ExitsComplete

\* A read: it finds the space that poll was asked with, and appends.
LEMMA PushSound ==
  ASSUME RelayInv, push_callback, UNCHANGED peers
  PROVE  RelayInv'
<1> DEFINE s    == Actions[action].fd
           room == contiguous_space_to_push(queue[s])
           left == sent[s] - taken[s]
           n    == IF left < room THEN left ELSE room
<1>1. /\ pc = "callbacks" /\ action \in ready /\ action \in 1..4
      /\ Actions[action].direction = "In"
      /\ action' = action + 1 /\ UNCHANGED <<ready, hangup, wrote, out>>
      /\ ended = "no" /\ wrote = 0
  <2>1. pc = "callbacks" /\ action \in ready /\ action <= 4 /\ action \in 1..5
    BY DEF push_callback, At, RelayInv, RelayTypeOK
  <2> QED
    BY <2>1, NotEnded DEF push_callback, At, RelayInv, WriteSound
<1>2. s \in Sides /\ action \in {1, 2}
  BY <1>1, ActionFacts
<1>3. /\ queue[s] \in ByteStreamQueues /\ queue \in [Sides -> ByteStreamQueues]
      /\ taken \in [Sides -> Nat] /\ taken[s] \in Nat /\ ready \subseteq 1..4
  BY <1>2 DEF RelayInv, RelayTypeOK
<1>4. space_available(queue[s])
  BY <1>1, <1>2 DEF RelayInv, ReadySound
<1>5. sent[s] \in Nat /\ taken[s] <= sent[s]
  BY <1>2 DEF RelayInv, PeersSound
<1>6. room \in Nat \ {0} /\ n \in Nat /\ n <= room /\ taken[s] + n <= sent[s]
      /\ (n <= 0 => taken[s] = sent[s])
  <2>1. room \in Nat \ {0}
    BY <1>3, <1>4, PushRoom
  <2> HIDE DEF room, s
  <2> QED
    BY <1>3, <1>5, <2>1
<1>7. Popped(s) \in Nat /\ Holds(queue[s], Popped(s), taken[s])
  BY <1>2 DEF RelayInv, StreamsSound
<1>8. /\ push(queue[s], taken[s], n) \in ByteStreamQueues
      /\ Holds(push(queue[s], taken[s], n), Popped(s), taken[s] + n)
      /\ PushAsserts(queue[s], n)
  <2>1. n <= contiguous_space_to_push(queue[s])
    BY <1>6
  <2> HIDE DEF n, s
  <2> QED
    BY <1>3, <1>4, <1>6, <1>7, <2>1, PushHolds
<1>9. asserted'
  BY <1>8 DEF push_callback, RelayInv, RelayAssertsHold
<1>10. \A t \in Sides : pc' # "write" => Popped(t)' = Popped(t)
  BY <1>1 DEF Popped
<1>11. BytesInOrder'
  BY <1>1 DEF RelayInv, BytesInOrder
<1>12. CASE /\ n > 0
            /\ queue' = [queue EXCEPT ![s] = push(queue[s], taken[s], n)]
            /\ taken' = [taken EXCEPT ![s] = taken[s] + n]
            /\ UNCHANGED <<eof, pc, ended>>
  <2> DEFINE r == push(queue[s], taken[s], n)
  <2> HIDE DEF r, n, room, left
  <2>1. /\ queue' \in [Sides -> ByteStreamQueues] /\ taken' \in [Sides -> Nat]
        /\ \A t \in Sides : queue'[t] = IF t = s THEN r ELSE queue[t]
        /\ \A t \in Sides : taken'[t] = IF t = s THEN taken[s] + n ELSE taken[t]
    BY <1>2, <1>3, <1>6, <1>8, <1>12 DEF r
  <2>2. RelayTypeOK'
    BY <1>1, <1>12, <2>1 DEF RelayInv, RelayTypeOK
  <2>3. PeersSound'
    <3>1. \A t \in Sides : taken'[t] <= sent[t]
      BY <1>2, <1>6, <2>1 DEF RelayInv, PeersSound
    <3>2. ~ eof[s]
      BY <1>2, <1>3, <1>5, <1>6, <1>12 DEF RelayInv, PeersSound
    <3> QED
      BY <1>1, <1>12, <2>1, <3>1, <3>2 DEF RelayInv, PeersSound, peers
  <2>4. StreamsSound'
    <3> SUFFICES ASSUME NEW t \in Sides
                 PROVE  Popped(t) \in Nat /\ Holds(queue'[t], Popped(t), taken'[t])
      BY <1>1, <1>10, <1>12 DEF StreamsSound, Holds
    <3>1. CASE t = s
      BY <1>7, <1>8, <2>1, <3>1 DEF r
    <3>2. CASE t # s
      BY <2>1, <3>2 DEF RelayInv, StreamsSound
    <3> QED
      BY <3>1, <3>2
  <2>5. non_empty(r)
    <3>1. Holds(r, Popped(s), taken[s] + n) /\ r \in ByteStreamQueues
      BY <1>8 DEF r
    <3>2. taken[s] = Popped(s) + Span(queue[s].next_push, queue[s].next_pop)
          /\ taken[s] + n = Popped(s) + Span(r.next_push, r.next_pop)
      BY <1>7, <3>1 DEF Holds
    <3>3. available_to_pop(r) = Span(r.next_push, r.next_pop) /\ available_to_pop(r) \in Nat
      BY <3>1, PopRoom
    <3>4. Span(queue[s].next_push, queue[s].next_pop) \in Nat
      BY <1>3, PopRoom
    <3> QED
      BY <1>3, <1>6, <1>7, <1>12, <3>2, <3>3, <3>4 DEF non_empty
  <2>6. ReadySound'
    <3> SUFFICES ASSUME NEW i \in ready, i >= action + 1
                 PROVE  IF i \in {1, 2} THEN space_available(queue'[Actions[i].fd])
                                         ELSE non_empty(queue'[Other(Actions[i].fd)])
      BY <1>1 DEF ReadySound
    <3>1. /\ i \in 1..4 /\ i >= action
          /\ IF i \in {1, 2} THEN space_available(queue[Actions[i].fd])
                              ELSE non_empty(queue[Other(Actions[i].fd)])
      BY <1>1, <1>3 DEF RelayInv, ReadySound
    <3>2. CASE i \in {1, 2}
      <4>1. action = 1 /\ i = 2
        BY <1>2, <3>1, <3>2
      <4>2. Actions[i].fd \in Sides /\ Actions[i].fd # s
        BY <4>1, ActionFacts
      <4> QED
        BY <2>1, <3>1, <3>2, <4>2
    <3>3. CASE i \notin {1, 2}
      <4>1. Other(Actions[i].fd) \in Sides
        BY <3>1, ActionFacts, OtherFacts
      <4> QED
        BY <2>1, <2>5, <3>1, <3>3, <4>1
    <3> QED
      BY <3>2, <3>3
  <2>7. WriteSound' /\ EndSound' /\ ExitsComplete'
    BY <1>1, <1>12 DEF WriteSound, EndSound, ExitsComplete
  <2> QED
    BY <1>9, <1>11, <2>2, <2>3, <2>4, <2>6, <2>7 DEF RelayInv, RelayAssertsHold
<1>13. CASE /\ n <= 0
            /\ \/ /\ EndOfFile(s) /\ eof' = [eof EXCEPT ![s] = TRUE]
                  /\ UNCHANGED <<queue, taken, pc, ended>>
               \/ /\ Ends("exception") /\ UNCHANGED <<queue, taken, eof>>
  <2> HIDE DEF n, room, left
  <2>1. /\ UNCHANGED <<queue, taken>> /\ pc' \in {"callbacks", "done"}
        /\ ended' \in {"no", "exception"} /\ (ended' # "no" => pc' = "done")
    BY <1>1, <1>13 DEF Ends
  <2>2. RelayTypeOK'
    BY <1>1, <2>1 DEF RelayInv, RelayTypeOK
  <2>3. PeersSound'
    <3>1. taken[s] = sent[s]
      BY <1>6, <1>13
    <3>2. eof' \in [Sides -> BOOLEAN] /\ \A t \in Sides : eof'[t] => eof[t] \/ (t = s /\ fin[s])
      BY <1>2, <1>13 DEF RelayInv, PeersSound, EndOfFile
    <3> QED
      BY <1>1, <2>1, <3>1, <3>2 DEF RelayInv, PeersSound, peers
  <2>4. StreamsSound'
    BY <1>1, <2>1, StreamsUnmoved DEF RelayInv
  <2>5. ReadySound'
    BY <1>1, <1>3, <2>1 DEF RelayInv, ReadySound
  <2>6. WriteSound' /\ EndSound' /\ ExitsComplete'
    BY <1>1, <2>1 DEF WriteSound, EndSound, ExitsComplete
  <2> QED
    BY <1>9, <1>11, <2>2, <2>3, <2>4, <2>5, <2>6 DEF RelayInv, RelayAssertsHold
<1> QED
  BY <1>12, <1>13 DEF push_callback

\* A write starts: it finds the bytes that poll was asked with, or fails.
LEMMA PopSound ==
  ASSUME RelayInv, pop_callback, UNCHANGED peers
  PROVE  RelayInv'
<1> DEFINE s     == Target
           q     == queue[Other(s)]
           chunk == contiguous_space_to_pop(q)
           n     == IF chunk < Space(s) THEN chunk ELSE Space(s)
<1>1. /\ pc = "callbacks" /\ action \in ready /\ action \in 1..4
      /\ Actions[action].direction = "Out"
      /\ UNCHANGED <<action, ready, hangup, queue, eof, taken>>
      /\ ended = "no" /\ wrote = 0
  <2>1. pc = "callbacks" /\ action \in ready /\ action <= 4 /\ action \in 1..5
    BY DEF pop_callback, At, RelayInv, RelayTypeOK
  <2> QED
    BY <2>1, NotEnded DEF pop_callback, At, RelayInv, WriteSound
<1>2. action \in {3, 4}
  BY <1>1, ActionFacts
<1>3. s \in Sides /\ q \in ByteStreamQueues /\ Space(s) \in Nat
  BY <1>1, <1>2, PoppedTarget
<1>4. non_empty(q)
  <2>1. action >= action /\ action \notin {1, 2}
    BY <1>2
  <2> QED
    BY <1>1, <2>1 DEF RelayInv, ReadySound, Target
<1>5. chunk \in Nat /\ PopAsserts(q, chunk)
  BY <1>3, <1>4, PopRoom DEF PopAsserts
<1>6. asserted'
  BY <1>5 DEF pop_callback, RelayInv, RelayAssertsHold, Target
<1>7. ReadySound'
  BY <1>1 DEF RelayInv, ReadySound
<1>8. CASE /\ ended' \in {"SIGPIPE", "exception"} /\ pc' = "done"
           /\ UNCHANGED <<out, wrote>>
  <2>1. RelayTypeOK' /\ PeersSound' /\ WriteSound' /\ EndSound' /\ ExitsComplete'
    BY <1>1, <1>8 DEF RelayInv, RelayTypeOK, PeersSound, peers, WriteSound, EndSound, ExitsComplete
  <2>2. StreamsSound' /\ BytesInOrder'
    BY <1>1, <1>8, StreamsUnmoved DEF RelayInv
  <2> QED
    BY <1>6, <1>7, <2>1, <2>2 DEF RelayInv, RelayAssertsHold
<1>9. CASE Takes(s, n) /\ pc' = "write" /\ UNCHANGED ended
  <2>1. n \in Nat /\ n <= Space(s) /\ wrote + n <= chunk
    <3> HIDE DEF chunk, s
    <3> QED
      BY <1>1, <1>3, <1>5
  <2>2. /\ out' \in [Sides -> Seq(Nat)] /\ wrote' \in Nat
        /\ \A t \in Sides : received[t] <= Len(out'[t]) /\ Len(out'[t]) - received[t] <= SocketBuffer
        /\ StreamsSound' /\ BytesInOrder' /\ WriteSound'
    <3> HIDE DEF n
    <3> QED
      BY <1>1, <1>2, <1>9, <2>1, TakesSound
  <2>3. RelayTypeOK'
    BY <1>1, <1>9, <2>2 DEF RelayInv, RelayTypeOK
  <2>4. PeersSound'
    BY <1>1, <2>2 DEF RelayInv, PeersSound, peers
  <2>5. EndSound' /\ ExitsComplete'
    BY <1>1, <1>9 DEF EndSound, ExitsComplete
  <2> QED
    BY <1>6, <1>7, <2>2, <2>3, <2>4, <2>5 DEF RelayInv, RelayAssertsHold
<1> QED
  BY <1>8, <1>9 DEF pop_callback, Ends, Target

\* A write that blocked goes on.
LEMMA WriteMoreSound ==
  ASSUME RelayInv, write_more, UNCHANGED peers
  PROVE  RelayInv'
<1> DEFINE s    == Target
           left == contiguous_space_to_pop(queue[Other(s)]) - wrote
           n    == IF left < Space(s) THEN left ELSE Space(s)
<1>1. /\ pc = "write" /\ pc' = "write" /\ left > 0 /\ Takes(s, n)
      /\ UNCHANGED <<action, ready, hangup, queue, eof, taken, ended, asserted>>
  BY DEF write_more, Target
<1>2. action \in {3, 4} /\ ended = "no"
  BY <1>1, NotEnded DEF RelayInv, WriteSound
<1>3. s \in Sides /\ queue[Other(s)] \in ByteStreamQueues /\ Space(s) \in Nat /\ wrote \in Nat
  BY <1>1, <1>2, PoppedTarget
<1>4. n \in Nat /\ n <= Space(s) /\ wrote + n <= contiguous_space_to_pop(queue[Other(s)])
  <2>1. contiguous_space_to_pop(queue[Other(s)]) \in Nat
    BY <1>3, PopRoom
  <2> HIDE DEF s
  <2> QED
    BY <1>1, <1>3, <2>1
<1>5. /\ out' \in [Sides -> Seq(Nat)] /\ wrote' \in Nat
      /\ \A t \in Sides : received[t] <= Len(out'[t]) /\ Len(out'[t]) - received[t] <= SocketBuffer
      /\ StreamsSound' /\ BytesInOrder' /\ WriteSound'
  <2> HIDE DEF n
  <2> QED
    BY <1>1, <1>2, <1>4, TakesSound
<1>6. RelayTypeOK'
  BY <1>1, <1>5 DEF RelayInv, RelayTypeOK
<1>7. PeersSound'
  BY <1>1, <1>5 DEF RelayInv, PeersSound, peers
<1>8. ReadySound' /\ EndSound' /\ ExitsComplete'
  BY <1>1, <1>2 DEF RelayInv, ReadySound, EndSound, ExitsComplete
<1> QED
  BY <1>1, <1>5, <1>6, <1>7, <1>8 DEF RelayInv, RelayAssertsHold

\* A write returns: next_pop moves by what was written.
LEMMA WriteReturnsSound ==
  ASSUME RelayInv, write_returns, UNCHANGED peers
  PROVE  RelayInv'
<1> DEFINE s == Target
           o == Other(s)
           r == pop(queue[o], wrote)
<1>1. /\ pc = "write" /\ pc' = "callbacks" /\ action' = action + 1 /\ wrote' = 0
      /\ queue' = [queue EXCEPT ![o] = r]
      /\ UNCHANGED <<ready, hangup, eof, taken, out, ended, asserted>>
  BY DEF write_returns, Target
<1>2. /\ action \in {3, 4} /\ ended = "no"
      /\ wrote <= contiguous_space_to_pop(queue[o])
  BY <1>1, NotEnded DEF RelayInv, WriteSound
<1>3. /\ s \in Sides /\ o \in Sides
      /\ Len(out[s]) \in Nat /\ wrote \in Nat
      /\ Popped(o) = Len(out[s]) - wrote /\ Popped(o) \in Nat
      /\ Holds(queue[o], Popped(o), taken[o])
      /\ queue[o] \in ByteStreamQueues /\ taken[o] \in Nat
  BY <1>1, <1>2, PoppedTarget
<1>4. r \in ByteStreamQueues /\ Holds(r, Popped(o) + wrote, taken[o])
  <2> HIDE DEF o
  <2> QED
    BY <1>2, <1>3, PopHolds
<1> HIDE DEF r
<1>5. /\ queue' \in [Sides -> ByteStreamQueues]
      /\ \A t \in Sides : queue'[t] = IF t = o THEN r ELSE queue[t]
  BY <1>1, <1>3, <1>4 DEF RelayInv, RelayTypeOK
<1>6. RelayTypeOK'
  BY <1>1, <1>2, <1>5 DEF RelayInv, RelayTypeOK
<1>7. PeersSound'
  BY <1>1 DEF RelayInv, PeersSound, peers
<1>8. StreamsSound'
  <2> SUFFICES ASSUME NEW t \in Sides
               PROVE  (Popped(t) \in Nat /\ Holds(queue[t], Popped(t), taken[t]))'
    BY DEF StreamsSound
  <2>1. Popped(t)' = Len(out[Other(t)])
    <3>1. out[Other(t)] \in Seq(Nat)
      BY OtherFacts DEF RelayInv, RelayTypeOK
    <3>2. Len(out[Other(t)]) \in Nat
      BY <3>1, LenProperties
    <3> QED
      BY <1>1, <3>2 DEF Popped
  <2>2. CASE t = o
    <3>1. Popped(t)' = Popped(o) + wrote
      BY <1>3, <2>1, <2>2, OtherFacts
    <3> QED
      BY <1>1, <1>3, <1>4, <1>5, <2>2, <3>1 DEF Holds
  <2>3. CASE t # o
    <3>1. Other(t) # s
      BY <1>3, <2>3, OtherFacts
    <3>2. Popped(t) \in Nat /\ Holds(queue[t], Popped(t), taken[t])
      BY DEF RelayInv, StreamsSound
    <3>3. out[Other(t)] \in Seq(Nat)
      BY OtherFacts DEF RelayInv, RelayTypeOK
    <3>4. Popped(t) = Len(out[Other(t)])
      BY <3>1, <3>3, LenProperties DEF Popped
    <3> QED
      BY <1>1, <1>5, <2>1, <2>3, <3>2, <3>4 DEF Holds
  <2> QED
    BY <2>2, <2>3
<1>9. ReadySound'
  <2> SUFFICES ASSUME NEW i \in ready, i >= action + 1
               PROVE  IF i \in {1, 2} THEN space_available(queue'[Actions[i].fd])
                                       ELSE non_empty(queue'[Other(Actions[i].fd)])
    BY <1>1 DEF ReadySound
  <2>1. i \in 1..4
    BY DEF RelayInv, RelayTypeOK
  <2>2. action = 3 /\ i = 4
    BY <1>2, <2>1
  <2>3. Other(Actions[i].fd) \in Sides /\ Other(Actions[i].fd) # o
    BY <2>2, ActionFacts, OtherFacts DEF Target, Sides
  <2>4. non_empty(queue[Other(Actions[i].fd)])
    BY <1>1, <2>2 DEF RelayInv, ReadySound
  <2> QED
    BY <1>5, <2>2, <2>3, <2>4
<1>10. BytesInOrder' /\ RelayAssertsHold' /\ WriteSound' /\ EndSound' /\ ExitsComplete'
  BY <1>1, <1>2 DEF RelayInv, BytesInOrder, RelayAssertsHold, WriteSound, EndSound, ExitsComplete
<1> QED
  BY <1>6, <1>7, <1>8, <1>9, <1>10 DEF RelayInv

-----------------------------------------------------------------------------
(* Steps of the peers and of the UDP threads *)

\* Steps of the others leave the relay's own parts alone.
LEMMA RelayUnchanged ==
  ASSUME RelayInv, UNCHANGED relay, PeersSound', ExitsComplete'
  PROVE  RelayInv'
<1>1. RelayTypeOK'
  BY DEF relay, RelayInv, RelayTypeOK
<1>2. StreamsSound' /\ WriteSound'
  BY DEF relay, RelayInv, StreamsSound, Popped, Target, Holds, WriteSound
<1>3. ReadySound' /\ EndSound' /\ BytesInOrder' /\ RelayAssertsHold'
  BY DEF relay, RelayInv, ReadySound, EndSound, BytesInOrder, RelayAssertsHold
<1> QED
  BY <1>1, <1>2, <1>3 DEF RelayInv

\* A stream that was read to its end does not grow.
LEMMA PeerActsSound ==
  ASSUME RelayInv, NEW s \in Sides, PeerActs(s)
  PROVE  RelayInv'
<1>1. UNCHANGED relay /\ pc # "done"
  BY DEF PeerActs
<1>2. /\ sent \in [Sides -> Nat] /\ fin \in [Sides -> BOOLEAN]
      /\ \A t \in Sides : taken[t] <= sent[t] /\ taken[t] \in Nat
  BY DEF RelayInv, PeersSound, RelayTypeOK
<1>3. /\ sent' \in [Sides -> Nat] /\ fin' \in [Sides -> BOOLEAN] /\ received' = received
      /\ \A t \in Sides : sent[t] <= sent'[t] /\ (fin[t] => fin'[t] /\ sent'[t] = sent[t])
  <2>1. CASE peer_sends(s)
    BY <1>2, <2>1 DEF peer_sends
  <2>2. CASE peer_finishes(s) \/ peer_aborts(s)
    <3>1. sent' = sent /\ received' = received
      BY <2>2 DEF peer_finishes, peer_aborts
    <3>2. fin' = [fin EXCEPT ![s] = TRUE] \/ fin' = fin
      BY <2>2 DEF peer_finishes, peer_aborts
    <3>3. fin' \in [Sides -> BOOLEAN] /\ \A t \in Sides : fin[t] => fin'[t]
      BY <1>2, <3>2
    <3> QED
      BY <1>2, <3>1, <3>3
  <2> QED
    BY <2>1, <2>2 DEF PeerActs
<1>4. PeersSound'
  <2>1. \A t \in Sides : taken[t] <= sent'[t]
    BY <1>2, <1>3
  <2> QED
    BY <1>1, <1>3, <2>1 DEF RelayInv, PeersSound, relay
<1>5. ExitsComplete'
  BY <1>1, NotEnded DEF ExitsComplete, relay
<1> QED
  BY <1>1, <1>4, <1>5, RelayUnchanged

\* A peer receives no more than was written to it.
LEMMA PeerReceivesSound ==
  ASSUME RelayInv, NEW s \in Sides, PeerReceives(s)
  PROVE  RelayInv'
<1>1. UNCHANGED relay /\ UNCHANGED <<sent, fin>>
  BY DEF PeerReceives, peer_receives, peer_refuses
<1>2. \/ received' = received
      \/ /\ received[s] < Len(out[s])
         /\ received' = [received EXCEPT ![s] = received[s] + 1]
  BY DEF PeerReceives, peer_receives, peer_refuses
<1>3. out[s] \in Seq(Nat) /\ received \in [Sides -> Nat]
  BY DEF RelayInv, RelayTypeOK, PeersSound
<1>4. received' \in [Sides -> Nat] /\ \A t \in Sides :
        received'[t] <= Len(out[t]) /\ Len(out[t]) - received'[t] <= SocketBuffer
  <2>1. Len(out[s]) \in Nat /\ received[s] \in Nat
    BY <1>3, LenProperties
  <2>2. \A t \in Sides : received[t] <= Len(out[t]) /\ Len(out[t]) - received[t] <= SocketBuffer
    BY DEF RelayInv, PeersSound
  <2>3. CASE received' = received
    BY <1>3, <2>2, <2>3
  <2>4. CASE /\ received[s] < Len(out[s])
             /\ received' = [received EXCEPT ![s] = received[s] + 1]
    <3>1. received' \in [Sides -> Nat]
      BY <1>3, <2>1, <2>4
    <3>2. received'[s] = received[s] + 1 /\ \A t \in Sides \ {s} : received'[t] = received[t]
      BY <1>3, <2>4
    <3>3. received'[s] <= Len(out[s]) /\ Len(out[s]) - received'[s] <= SocketBuffer
      BY <2>1, <2>2, <2>4, <3>2, RelayAssumption
    <3> QED
      BY <2>2, <3>1, <3>2, <3>3
  <2> QED
    BY <1>2, <2>3, <2>4
<1>5. PeersSound'
  BY <1>1, <1>4 DEF RelayInv, PeersSound, relay
<1>6. ExitsComplete'
  BY <1>1 DEF RelayInv, ExitsComplete, relay
<1> QED
  BY <1>1, <1>5, <1>6, RelayUnchanged

-----------------------------------------------------------------------------
(* The theorems *)

\* RelayInv holds at the beginning ...
LEMMA RelayInvInit ==
  ASSUME Init
  PROVE  RelayInv
<1>1. EmptyQueue \in ByteStreamQueues /\ Holds(EmptyQueue, 0, 0)
  BY SizeAssumption DEF EmptyQueue, ByteStreamQueues, Holds, Span, Placed
<1>2. RelayTypeOK
  BY <1>1, EmptySeq DEF Init, RelayTypeOK
<1>3. \A s \in Sides : Len(out[s]) = 0 /\ out[s] = <<>>
  BY DEF Init
<1>4. PeersSound
  BY <1>3, RelayAssumption DEF Init, PeersSound
<1>5. StreamsSound
  BY <1>1, <1>3, OtherFacts DEF Init, StreamsSound, Popped
<1>6. WriteSound /\ ReadySound /\ EndSound /\ BytesInOrder /\ RelayAssertsHold /\ ExitsComplete
  BY <1>3 DEF Init, WriteSound, ReadySound, EndSound, BytesInOrder, RelayAssertsHold, ExitsComplete
<1> QED
  BY <1>2, <1>4, <1>5, <1>6 DEF RelayInv

\* ... and is preserved by every step.
LEMMA RelayInvNext ==
  ASSUME RelayInv, [Next]_vars
  PROVE  RelayInv'
<1>1. CASE RelayStep
  BY <1>1, StartSound, PollSound, SkipSound, PushSound, PopSound, WriteMoreSound, WriteReturnsSound
  DEF RelayStep
<1>2. CASE UNCHANGED <<relay, peers>>
  BY <1>2, RelayUnchanged DEF RelayInv, PeersSound, ExitsComplete, relay, peers
<1>3. CASE UdpStep
  BY <1>2, <1>3 DEF UdpStep, UdpThread
<1>4. CASE \E s \in Sides : PeerActs(s) \/ PeerReceives(s)
  BY <1>4, PeerActsSound, PeerReceivesSound
<1>5. CASE UNCHANGED vars
  BY <1>2, <1>5 DEF vars
<1> QED
  BY <1>1, <1>3, <1>4, <1>5 DEF Next

\* RelayInv is an invariant: all the theorems rest on it.
LEMMA RelayInvariant == Spec => []RelayInv
BY RelayInvInit, RelayInvNext, PTL DEF Spec

\* The relay's state is well typed: the positions in both ring buffers stay
\* within them, whatever their size.
THEOREM RelayTypeCorrect == Spec => []RelayTypeOK
<1>1. RelayInv => RelayTypeOK
  BY DEF RelayInv
<1> QED
  BY <1>1, RelayInvariant, PTL

\* Both streams are handed on byte for byte: for every size of the ring
\* buffer, every socket buffer and streams of every length, also when a write
\* is interrupted by a reset (ByteStreamQueue::push and pop).
THEOREM RelayKeepsOrder == Spec => []BytesInOrder
<1>1. RelayInv => BytesInOrder
  BY DEF RelayInv
<1> QED
  BY <1>1, RelayInvariant, PTL

\* No assert of ByteStreamQueue::push or pop fails when the Poller calls them.
THEOREM RelayNeverAborts == Spec => []RelayAssertsHold
<1>1. RelayInv => RelayAssertsHold
  BY DEF RelayInv
<1> QED
  BY <1>1, RelayInvariant, PTL

\* The TCP thread leaves its loop only when both streams were read to their
\* ends and handed on completely.
THEOREM RelayExitsComplete == Spec => []ExitsComplete
<1>1. RelayInv => ExitsComplete
  BY DEF RelayInv
<1> QED
  BY <1>1, RelayInvariant, PTL

-----------------------------------------------------------------------------
(* How the thread ends *)

\* No byte has been read or written.
Untouched == taken = [s \in Sides |-> 0] /\ out = [s \in Sides |-> <<>>]

\* A side that poll found readable stays so until its callback runs.
StaysReadable ==
  pc \in {"callbacks", "write"} =>
    \A i \in ready : i \in {1, 2} /\ i >= action => Readable(Actions[i].fd)

\* A side that poll found in error was reset.
HangupSound == reset \in [Sides -> BOOLEAN] /\ \A s \in hangup : reset[s]

BeginSound == pc \in {"idle", "connect"} => Untouched

ExplainInv == StaysReadable /\ HangupSound /\ BeginSound /\ EndsExplained

\* Only a reset, or the connection that failed before the first byte, ends the
\* thread otherwise than by its loop's exit.  In push_callback the exception
\* is for a read that returns an error: the queue has room and the side is
\* readable, so there is data or the end of the stream.
LEMMA ExplainRelay ==
  ASSUME RelayInv, ExplainInv, RelayStep
  PROVE  ExplainInv'
<1> DEFINE s == Actions[action].fd
<1>1. UNCHANGED <<sent, received, fin, closed, reset>>
  BY DEF RelayStep, peers
<1>2. /\ taken \in [Sides -> Nat] /\ sent \in [Sides -> Nat]
      /\ queue \in [Sides -> ByteStreamQueues]
      /\ action \in 1..5 /\ ready \subseteq 1..4 /\ hangup \subseteq Sides
  BY DEF RelayInv, RelayTypeOK, PeersSound
<1>3. ended = "no" \/ pc = "done"
  BY DEF RelayInv, EndSound
<1>4. CASE handle_tcp
  BY <1>1, <1>4, NotEnded
  DEF handle_tcp, ExplainInv, StaysReadable, HangupSound, BeginSound, Untouched, EndsExplained
<1>5. CASE connect
  BY <1>1, <1>3, <1>5
  DEF connect, Ends, ExplainInv, StaysReadable, HangupSound, BeginSound, Untouched, EndsExplained
<1>6. CASE poll
  <2>1. HangupSound'
    BY <1>1, <1>6 DEF poll, Ends, ExplainInv, HangupSound
  <2>2. BeginSound' /\ EndsExplained'
    BY <1>3, <1>6 DEF poll, Ends, BeginSound, EndsExplained
  <2>3. ASSUME pc' # "done", NEW i \in ready', i \in {1, 2}
        PROVE  Readable(Actions[i].fd)'
    <3>1. Reported(Actions[i])
      BY <1>6, <2>3 DEF poll, Ends
    <3>2. Actions[i].direction = "In"
      BY <2>3, ActionFacts
    <3>3. taken' = taken
      BY <1>6 DEF poll
    <3> QED
      BY <1>1, <3>1, <3>2, <3>3 DEF Reported, Readable
  <2> QED
    BY <2>1, <2>2, <2>3 DEF ExplainInv, StaysReadable
<1>7. CASE skip
  <2>1. UNCHANGED <<ready, hangup, taken, out>> /\ pc = "callbacks" /\ ended = "no"
    BY <1>3, <1>7 DEF skip
  <2>2. HangupSound' /\ BeginSound'
    BY <1>1, <1>7, <2>1 DEF skip, Ends, ExplainInv, HangupSound, BeginSound
  <2>3. StaysReadable'
    BY <1>1, <1>2, <1>7, <2>1 DEF skip, Ends, ExplainInv, StaysReadable, Readable
  <2>4. EndsExplained'
    BY <1>1, <1>2, <1>7, <2>1 DEF skip, Ends, ExplainInv, HangupSound, EndsExplained
  <2> QED
    BY <2>2, <2>3, <2>4 DEF ExplainInv
<1>8. CASE push_callback
  <2>1. /\ pc = "callbacks" /\ action \in {1, 2} /\ action \in ready
        /\ UNCHANGED <<ready, hangup, out>> /\ action' = action + 1
    BY <1>2, <1>8, ActionFacts DEF push_callback, At
  <2>2. s \in Sides /\ space_available(queue[s]) /\ Readable(s)
    BY <1>2, <2>1, ActionFacts DEF RelayInv, ReadySound, ExplainInv, StaysReadable
  <2> DEFINE room == contiguous_space_to_push(queue[s])
             left == sent[s] - taken[s]
             n    == IF left < room THEN left ELSE room
  <2>3. room \in Nat \ {0} /\ left \in Int
    BY <1>2, <2>2, PushRoom
  <2>4. n > 0 \/ fin[s]
    <3> HIDE DEF room
    <3> QED
      BY <1>2, <2>2, <2>3 DEF Readable
  <2>5. /\ \/ taken' = taken
           \/ taken' = [taken EXCEPT ![s] = taken[s] + n]
        /\ UNCHANGED <<pc, ended>>
    <3> HIDE DEF n
    <3>1. \/ n > 0 /\ taken' = [taken EXCEPT ![s] = taken[s] + n] /\ UNCHANGED <<pc, ended>>
          \/ n <= 0 /\ fin[s] /\ UNCHANGED <<taken, pc, ended>>
          \/ n <= 0 /\ ~ fin[s]
      BY <1>8 DEF push_callback, EndOfFile, n
    <3>2. n \in Int
      BY <2>3 DEF n
    <3> QED
      BY <2>4, <3>1, <3>2
  <2>6. StaysReadable'
    <3> SUFFICES ASSUME NEW i \in ready, i \in {1, 2}, i >= action + 1
                 PROVE  Readable(Actions[i].fd)'
      BY <2>1, <2>5 DEF StaysReadable
    <3>1. action = 1 /\ i = 2
      BY <2>1
    <3>2. Actions[i].fd # s /\ Actions[i].fd \in Sides
      BY <3>1, ActionFacts
    <3>3. taken'[Actions[i].fd] = taken[Actions[i].fd]
      BY <1>2, <2>5, <3>2
    <3> QED
      BY <1>1, <2>1, <3>1, <3>3 DEF ExplainInv, StaysReadable, Readable
  <2>7. HangupSound' /\ BeginSound' /\ EndsExplained'
    BY <1>1, <1>3, <2>1, <2>5 DEF ExplainInv, HangupSound, BeginSound, EndsExplained
  <2> QED
    BY <2>6, <2>7 DEF ExplainInv
<1>9. CASE pop_callback
  <2>1. /\ pc = "callbacks" /\ action \in 1..4
        /\ UNCHANGED <<action, ready, hangup, taken>> /\ ended = "no"
    BY <1>2, <1>3, <1>9 DEF pop_callback, At
  <2>2. s \in Sides
    BY <2>1, ActionFacts
  <2>3. \/ reset[s] /\ pc' = "done"
        \/ pc' = "write" /\ UNCHANGED ended
    BY <1>9 DEF pop_callback, Ends
  <2>4. EndsExplained'
    BY <1>1, <2>1, <2>2, <2>3 DEF EndsExplained
  <2>5. StaysReadable' /\ HangupSound' /\ BeginSound'
    BY <1>1, <2>1, <2>3 DEF ExplainInv, StaysReadable, Readable, HangupSound, BeginSound
  <2> QED
    BY <2>4, <2>5 DEF ExplainInv
<1>10. CASE write_more \/ write_returns
  <2>1. /\ pc = "write" /\ pc' \in {"callbacks", "write"} /\ action' \in {action, action + 1}
        /\ UNCHANGED <<ready, hangup, taken, ended>>
    BY <1>10 DEF write_more, write_returns
  <2>2. StaysReadable'
    BY <1>1, <1>2, <2>1 DEF ExplainInv, StaysReadable, Readable
  <2> QED
    BY <1>1, <1>3, <2>1, <2>2 DEF ExplainInv, HangupSound, BeginSound, EndsExplained
<1> QED
  BY <1>4, <1>5, <1>6, <1>7, <1>8, <1>9, <1>10 DEF RelayStep

\* The peers send more, finish or reset: nothing that was found is taken back.
LEMMA ExplainPeers ==
  ASSUME RelayInv, ExplainInv, NEW s \in Sides, PeerActs(s) \/ PeerReceives(s)
  PROVE  ExplainInv'
<1>1. UNCHANGED relay
  BY DEF PeerActs, PeerReceives
<1>2. /\ sent \in [Sides -> Nat] /\ fin \in [Sides -> BOOLEAN] /\ taken \in [Sides -> Nat]
      /\ reset \in [Sides -> BOOLEAN] /\ hangup \subseteq Sides
  BY DEF RelayInv, RelayTypeOK, PeersSound, ExplainInv, HangupSound
<1>3. reset' = reset \/ reset' = [reset EXCEPT ![s] = TRUE]
  BY DEF PeerActs, PeerReceives, peer_sends, peer_receives, peer_finishes, peer_refuses, peer_aborts
<1>4. fin' = fin \/ fin' = [fin EXCEPT ![s] = TRUE]
  BY DEF PeerActs, PeerReceives, peer_sends, peer_receives, peer_finishes, peer_refuses, peer_aborts
<1>5. sent' = sent \/ sent' = [sent EXCEPT ![s] = sent[s] + 1]
  BY DEF PeerActs, PeerReceives, peer_sends, peer_receives, peer_finishes, peer_refuses, peer_aborts
<1>6. reset' \in [Sides -> BOOLEAN] /\ \A t \in Sides : reset[t] => reset'[t]
  BY <1>2, <1>3
<1>7. \A t \in Sides : (fin[t] => fin'[t]) /\ sent'[t] >= sent[t] /\ sent'[t] \in Nat
  BY <1>2, <1>4, <1>5
<1>8. \A t \in Sides : Readable(t) => Readable(t)'
  BY <1>1, <1>2, <1>7 DEF Readable, relay
<1>9. StaysReadable'
  <2>1. \A i \in ready : i \in {1, 2} => Actions[i].fd \in Sides
    BY ActionFacts
  <2> QED
    BY <1>1, <1>8, <2>1 DEF ExplainInv, StaysReadable, relay
<1>10. HangupSound' /\ BeginSound' /\ EndsExplained'
  BY <1>1, <1>2, <1>6 DEF ExplainInv, HangupSound, BeginSound, Untouched, EndsExplained, relay
<1> QED
  BY <1>9, <1>10 DEF ExplainInv

\* The relay's thread loses bytes only if a peer reset its connection, or the
\* nameserver could not be reached and none had been read: no exception comes
\* from a read or a write that the Poller called too early or too late.
THEOREM RelayEndsExplained == Spec => []EndsExplained
<1>1. Init => ExplainInv
  BY DEF Init, ExplainInv, StaysReadable, HangupSound, BeginSound, Untouched, EndsExplained
<1>2. RelayInv /\ ExplainInv /\ [Next]_vars => ExplainInv'
  <2> SUFFICES ASSUME RelayInv, ExplainInv, [Next]_vars
               PROVE  ExplainInv'
    OBVIOUS
  <2>1. CASE RelayStep
    BY <2>1, ExplainRelay
  <2>2. CASE UNCHANGED <<relay, peers>>
    BY <2>2 DEF ExplainInv, StaysReadable, Readable, HangupSound, BeginSound, Untouched,
                EndsExplained, relay, peers
  <2>3. CASE UdpStep
    BY <2>2, <2>3 DEF UdpStep, UdpThread
  <2>4. CASE \E s \in Sides : PeerActs(s) \/ PeerReceives(s)
    BY <2>4, ExplainPeers
  <2>5. CASE UNCHANGED vars
    BY <2>2, <2>5 DEF vars
  <2> QED
    BY <2>1, <2>3, <2>4, <2>5 DEF Next
<1>3. ExplainInv => EndsExplained
  BY DEF ExplainInv
<1> QED
  BY <1>1, <1>2, <1>3, RelayInvariant, PTL DEF Spec

=============================================================================
