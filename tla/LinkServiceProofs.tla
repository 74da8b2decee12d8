------------------------- MODULE LinkServiceProofs -------------------------
(***************************************************************************)
(* For every schedule, every queue that drops one packet at a time at most *)
(* and every order of calls, at times that may go backwards, no assert of  *)
(* the link fails, its size counter covers its contents and the queue      *)
(* stays within its limits.  With a queue that drops at its tail or        *)
(* nowhere the link is the ideal link: each opportunity, whenever it is    *)
(* replayed, carries the bytes it carries there.                           *)
(***************************************************************************)
EXTENDS LinkService, LinkQueueProofs, WellFoundedInduction

\* A link that holds nothing still holds nothing after a step of rationalize.
LEMMA StepsMoveNothing ==
  ASSUME LinkHoldsNothing, rationalize_steps, LinkInv
  PROVE  LinkHoldsNothing'
<1>1. link_pc # "send"
  BY DEF LinkInv, TransitSound, LinkHoldsNothing
<1>2. ~ fetch_packet
  BY DEF fetch_packet, dequeue, empty, LinkHoldsNothing
<1> QED
  BY <1>1, <1>2 DEF rationalize_steps, LinkHoldsNothing, burn_opportunity,
     rationalize_return, opportunity_done, send_bytes, queueVars, linkTransit

\* Every call, and every step of a call, preserves ServiceInv.
LEMMA ServiceInvStep ==
  ASSUME DropsOneAtMost, ServiceInv, [ServiceNext]_serviceVars
  PROVE  ServiceInv'
<1>0. LinkInv /\ CallersSound
  BY DEF ServiceInv
<1>1. CASE CallWaitTime
  <2>1. PICK now \in Now : rationalize(now)
    BY <1>1 DEF CallWaitTime
  <2>2. LinkInv'
    BY <1>0, <2>1, ServiceAssumption, RationalizeKeepsLinkInv DEF Now
  <2>3. CallersSound'
    BY <1>0, <1>1, <2>1
    DEF CallersSound, CallWaitTime, CanCall, LinkHoldsNothing, rationalize,
        queueVars, linkTransit
  <2> QED
    BY <2>2, <2>3 DEF ServiceInv
<1>2. CASE CallStart
  <2>1. PICK now \in Now : start_link_trace(now)
    BY <1>2 DEF CallStart
  <2>2. LinkHoldsNothing
    BY <1>0, <1>2 DEF CallersSound, CallStart
  <2>3. LinkInv'
    BY <1>0, <2>1, <2>2, ServiceAssumption, StartKeepsLinkInv
    DEF Now, LinkHoldsNothing
  <2>4. CallersSound'
    BY <1>0, <1>2 DEF CallersSound, CallStart, CanCall
  <2> QED
    BY <2>3, <2>4 DEF ServiceInv
<1>3. CASE CallPut
  <2>1. PICK now \in Now : rationalize(now)
    BY <1>3 DEF CallPut
  <2>2. LinkInv'
    BY <1>0, <2>1, ServiceAssumption, RationalizeKeepsLinkInv DEF Now
  <2>3. PICK size \in Sizes :
          pending' = [sequence_number |-> Len(arrivals), size |-> size,
                      release_time |-> 0, arrival_time |-> 0]
    BY <1>3 DEF CallPut
  <2>4. pending' \in QueuedPackets
    BY <2>3, ServiceAssumption DEF QueuedPackets
  <2>5. link_pc' = "burn" /\ start_tick_' = TRUE
    BY <1>0, <1>3, <2>1 DEF CallersSound, CallPut, rationalize
  <2>6. CallersSound'
    BY <2>4, <2>5 DEF CallersSound
  <2> QED
    BY <2>2, <2>6 DEF ServiceInv
<1>4. CASE FinishPut
  <2>1. /\ pending \in QueuedPackets /\ Replayed /\ start_tick_ = TRUE
        /\ put_packet_to_link_queue(pending)
    BY <1>0, <1>4 DEF CallersSound, FinishPut, put_packet_to_link_queue
  <2>2. AsQueued(pending, rat_now) \in QueuedPackets
    BY <1>0, <2>1 DEF LinkInv, LinkTypeOK, AsQueued, QueuedPackets
  <2>3. LinkInv'
    BY <1>0, <2>1, <2>2, PutKeepsLinkInv
  <2>4. CallersSound'
    BY <1>4, <2>1 DEF CallersSound, FinishPut
  <2> QED
    BY <2>3, <2>4 DEF ServiceInv
<1>5. CASE CallWrite
  <2>1. LinkInv'
    BY <1>0, <1>5, WriteKeepsLinkInv DEF CallWrite
  <2>2. CallersSound'
    BY <1>0, <1>5
    DEF CallersSound, CallWrite, CanCall, LinkHoldsNothing,
        write_one_from_link_queue, queueVars, linkTransit
  <2> QED
    BY <2>1, <2>2 DEF ServiceInv
<1>6. CASE LinkStep
  <2>1. LinkInv'
    BY <1>0, <1>6, StepsKeepLinkInv DEF LinkStep
  <2>2. ~ start_tick_ => LinkHoldsNothing'
    BY <1>0, <1>6, StepsMoveNothing DEF LinkStep, CallersSound
  <2>3. link_pc' = "idle" => Replayed'
    BY <1>0, <1>6, ReturnKeepsLinkInv
    DEF LinkStep, rationalize_steps, burn_opportunity, opportunity_done,
        fetch_packet, send_bytes
  <2>4. CallersSound'
    BY <1>0, <1>6, <2>2, <2>3 DEF CallersSound, LinkStep
  <2> QED
    BY <2>1, <2>4 DEF ServiceInv
<1>7. CASE UNCHANGED serviceVars
  <2>1. UNCHANGED <<linkVars, start_tick_, pending>>
    BY <1>7 DEF serviceVars
  <2>2. LinkTypeOK'
    BY <1>0, <2>1
    DEF LinkInv, LinkTypeOK, linkVars, queueVars, linkTrace, linkTransit, linkLocals
  <2>3. /\ LinkAssertsHold' /\ QueueGood' /\ LinkSizeCovers'
        /\ \A t : ArrivedBy(t)' <=> ArrivedBy(t)
    BY <1>0, <2>1, PacketsUntouched DEF linkVars
  <2>4. TransitSound' /\ NoPacketAheadOfLink'
    BY <1>0, <2>1
    DEF LinkInv, TransitSound, NoPacketAheadOfLink, ArrivedBy, next_delivery_time,
        linkVars, queueVars, linkTrace, linkTransit, linkLocals
  <2>5. CallersSound'
    BY <1>0, <2>1
    DEF CallersSound, LinkHoldsNothing, Replayed, next_delivery_time,
        linkVars, queueVars, linkTrace, linkTransit, linkLocals
  <2> QED
    BY <2>2, <2>3, <2>4, <2>5 DEF ServiceInv, LinkInv
<1> QED
  BY <1>1, <1>2, <1>3, <1>4, <1>5, <1>6, <1>7 DEF ServiceNext

\* ServiceInv holds throughout.
LEMMA ServiceInvHolds ==
  ASSUME DropsOneAtMost
  PROVE  ServiceSpec => []ServiceInv
<1>1. ServiceInit => ServiceInv
  <2>1. SUFFICES ASSUME ServiceInit PROVE ServiceInv
    OBVIOUS
  <2>2. LinkInv
    BY <2>1, LinkInitInv DEF ServiceInit
  <2>3. CallersSound
    BY <2>1 DEF ServiceInit, LinkInit, QueueInit, CallersSound, LinkHoldsNothing
  <2> QED
    BY <2>2, <2>3 DEF ServiceInv
<1>2. ServiceInv /\ [ServiceNext]_serviceVars => ServiceInv'
  BY ServiceInvStep
<1> QED
  BY <1>1, <1>2, PTL DEF ServiceSpec

\* Type correctness of the link under all callers.
THEOREM LinkTypeCorrect ==
  ASSUME DropsOneAtMost
  PROVE  ServiceSpec => []LinkTypeOK
<1>1. ServiceInv => LinkTypeOK
  BY DEF ServiceInv, LinkInv
<1> QED
  BY <1>1, ServiceInvHolds, PTL

\* No assert of rationalize, of write_packets_from_link_queue or of the packet
\* queues fails: the opportunities may be replayed as late as one likes and the
\* clock may be set back, but no packet is served before it arrived.
THEOREM LinkNeverAborts ==
  ASSUME DropsOneAtMost
  PROVE  ServiceSpec => []LinkAssertsHold
<1>1. ServiceInv => LinkAssertsHold
  BY DEF ServiceInv, LinkInv
<1> QED
  BY <1>1, ServiceInvHolds, PTL

\* current_link_queue_size_ never understates the packets the link holds.
THEOREM LinkSizeAlwaysCovers ==
  ASSUME DropsOneAtMost
  PROVE  ServiceSpec => []LinkSizeCovers
<1>1. ServiceInv => LinkSizeCovers
  BY DEF ServiceInv, LinkInv
<1> QED
  BY <1>1, ServiceInvHolds, PTL

-----------------------------------------------------------------------------
(* The limits of the packet queue *)

\* A set of naturals has a least element.
LEMMA LeastIndex ==
  ASSUME NEW T, T \subseteq Nat, T # {}
  PROVE  \E x \in T : \A y \in T : x <= y
<1> DEFINE R == OpToRel(<, Nat)
<1>1. IsWellFoundedOn(R, Nat)
  BY NatLessThanWellFounded, Zenon
<1>2. \A x, y \in Nat : <<y, x>> \in R <=> y < x
  BY DEF OpToRel
<1> HIDE DEF R
<1>3. PICK x \in T : \A y \in T : ~ (<<y, x>> \in R)
  BY <1>1, WFMin
<1>4. ASSUME NEW y \in T
      PROVE  x <= y
  <2>1. x \in Nat /\ y \in Nat
    OBVIOUS
  <2>2. ~ (y < x)
    BY <1>2, <1>3, <2>1, Zenon
  <2> QED
    BY <2>1, <2>2
<1> QED
  BY <1>4

LEMMA SizesAreNumbers ==
  /\ \A p \in QueuedPackets : p.size \in Int
  /\ \A q \in Seq(QueuedPackets) : Len(q) \in Nat /\ \A i \in 1..Len(q) : q[i].size \in Int
<1>1. \A p \in QueuedPackets : p.size \in Int
  BY PacketAssumption DEF QueuedPackets
<1>2. \A q \in Seq(QueuedPackets) : Len(q) \in Nat /\ \A i \in 1..Len(q) : q[i] \in QueuedPackets
  OBVIOUS
<1> QED
  BY <1>1, <1>2

\* f[i] is the number of bytes of the first i packets of the queue.
Sums(f, q) ==
  /\ f \in [0..Len(q) -> Int] /\ f[0] = 0
  /\ \A i \in 1..Len(q) : f[i] = f[i - 1] + q[i].size

\* There is one such function, and its last value is what BytesOf computes.
LEMMA BytesAreLastSum ==
  ASSUME NEW q \in Seq(QueuedPackets), NEW f, Sums(f, q)
  PROVE  BytesOf(q) = f[Len(q)]
<1> DEFINE n == Len(q)
           Rec(g) == [i \in 0..n |-> IF i = 0 THEN 0 ELSE g[i - 1] + q[i].size]
           h == CHOOSE g : g = Rec(g)
<1>1. n \in Nat /\ \A i \in 1..n : q[i].size \in Int
  BY SizesAreNumbers
<1>2. f = Rec(f)
  <2>1. f = [i \in 0..n |-> f[i]]
    BY DEF Sums
  <2>2. \A i \in 0..n : f[i] = IF i = 0 THEN 0 ELSE f[i - 1] + q[i].size
    BY <1>1 DEF Sums
  <2> QED
    BY <2>1, <2>2
<1>3. h = Rec(h)
  BY <1>2
<1>4. BytesOf(q) = h[n]
  BY DEF BytesOf
<1> HIDE DEF h
<1>5. h[0] = 0 /\ \A i \in 1..n : h[i] = h[i - 1] + q[i].size
  BY <1>1, <1>3
<1> DEFINE T == {i \in 0..n : h[i] # f[i]}
<1>6. T = {}
  <2> SUFFICES ASSUME T # {} PROVE FALSE
    OBVIOUS
  <2>1. PICK x \in T : \A y \in T : x <= y
    <3>1. T \subseteq Nat
      BY <1>1
    <3> HIDE DEF T
    <3> QED
      BY <3>1, LeastIndex
  <2>2. x \in 1..n
    BY <1>1, <1>5 DEF Sums
  <2>3. x - 1 \notin T /\ x - 1 \in 0..n
    BY <1>1, <2>1, <2>2
  <2>4. h[x - 1] = f[x - 1]
    BY <2>3
  <2>5. h[x] = f[x]
    BY <1>5, <2>2, <2>4 DEF Sums
  <2> QED
    BY <2>5
<1> QED
  BY <1>1, <1>4, <1>6

LEMMA SumsAppend ==
  ASSUME NEW q \in Seq(QueuedPackets), NEW p \in QueuedPackets, NEW f, Sums(f, q)
  PROVE  \E g : Sums(g, Append(q, p)) /\ g[Len(q) + 1] = f[Len(q)] + p.size
<1> DEFINE n == Len(q)
           g == [i \in 0..(n + 1) |-> IF i = n + 1 THEN f[n] + p.size ELSE f[i]]
           u == Append(q, p)
<1>1. /\ n \in Nat /\ p.size \in Int /\ Len(u) = n + 1
      /\ \A i \in 1..n : u[i] = q[i]
      /\ u[n + 1] = p
  BY SizesAreNumbers
<1> HIDE DEF u
<1>2. g \in [0..(n + 1) -> Int] /\ g[0] = 0 /\ g[n + 1] = f[n] + p.size
  BY <1>1 DEF Sums
<1>3. ASSUME NEW i \in 1..(n + 1)
      PROVE  g[i] = g[i - 1] + u[i].size
  <2>1. CASE i = n + 1
    BY <1>1, <2>1
  <2>2. CASE i # n + 1
    BY <1>1, <2>2, SMTT(30) DEF Sums
  <2> QED
    BY <2>1, <2>2
<1>4. Sums(g, u)
  BY <1>1, <1>2, <1>3 DEF Sums
<1> QED
  BY <1>2, <1>4 DEF u

LEMMA SumsTail ==
  ASSUME NEW q \in Seq(QueuedPackets), q # <<>>, NEW f, Sums(f, q)
  PROVE  \E g : Sums(g, Tail(q)) /\ g[Len(q) - 1] = f[Len(q)] - Head(q).size
<1> DEFINE n == Len(q)
           u == Tail(q)
           g == [i \in 0..(n - 1) |-> f[i + 1] - q[1].size]
<1>1. /\ n \in Nat \ {0} /\ Len(u) = n - 1 /\ Head(q) = q[1]
      /\ \A i \in 1..(n - 1) : u[i] = q[i + 1]
      /\ \A i \in 1..n : q[i].size \in Int
  <2>1. /\ n \in Nat \ {0} /\ Len(u) = n - 1 /\ Head(q) = q[1]
        /\ \A i \in 1..(n - 1) : u[i] = q[i + 1]
    OBVIOUS
  <2> QED
    BY <2>1, SizesAreNumbers
<1> HIDE DEF u
<1>2. f[1] = q[1].size /\ \A i \in 0..(n - 1) : f[i + 1] \in Int
  BY <1>1 DEF Sums
<1>3. g \in [0..(n - 1) -> Int] /\ g[0] = 0 /\ g[n - 1] = f[n] - q[1].size
  <2>1. /\ 0 \in 0..(n - 1) /\ n - 1 \in 0..(n - 1) /\ (n - 1) + 1 = n /\ 0 + 1 = 1
        /\ q[1].size \in Int
    BY <1>1
  <2>2. \A i \in 0..(n - 1) : f[i + 1] - q[1].size \in Int
    BY <1>2, <2>1
  <2>3. g[0] = f[0 + 1] - q[1].size /\ g[n - 1] = f[(n - 1) + 1] - q[1].size
    BY <2>1
  <2> QED
    BY <1>2, <2>1, <2>2, <2>3
<1>4. ASSUME NEW i \in 1..(n - 1)
      PROVE  g[i] = g[i - 1] + u[i].size
  <2>1. i + 1 \in 1..n /\ i \in 1..n /\ i - 1 \in 0..(n - 1) /\ i \in 0..(n - 1)
    BY <1>1
  <2>2. f[i + 1] = f[i] + q[i + 1].size
    BY <1>1, <2>1 DEF Sums
  <2>3. g[i] = f[i + 1] - q[1].size /\ g[i - 1] = f[i] - q[1].size
    <3>1. (i - 1) + 1 = i
      OBVIOUS
    <3>2. g[i] = f[i + 1] - q[1].size /\ g[i - 1] = f[(i - 1) + 1] - q[1].size
      BY <2>1
    <3> QED
      BY <3>1, <3>2
  <2>4. f[i] \in Int /\ f[i + 1] \in Int /\ q[i + 1].size \in Int /\ q[1].size \in Int
    BY <1>1, <2>1 DEF Sums
  <2>5. u[i] = q[i + 1]
    BY <1>1
  <2> HIDE DEF g
  <2> QED
    BY <2>2, <2>3, <2>4, <2>5
<1>5. Sums(g, u)
  BY <1>1, <1>3, <1>4 DEF Sums
<1> QED
  BY <1>1, <1>3, <1>5 DEF u

\* The counters say what the queue holds.
Counted ==
  /\ queue_size_in_packets_ = Len(internal_queue_)
  /\ \E f : Sums(f, internal_queue_) /\ queue_size_in_bytes_ = f[Len(internal_queue_)]

LEMMA AcceptCounts ==
  ASSUME internal_queue_ \in Seq(QueuedPackets), Counted, NEW p \in QueuedPackets, accept(p)
  PROVE  Counted'
<1>1. PICK f : Sums(f, internal_queue_) /\ queue_size_in_bytes_ = f[Len(internal_queue_)]
  BY DEF Counted
<1>2. PICK g : /\ Sums(g, Append(internal_queue_, p))
               /\ g[Len(internal_queue_) + 1] = f[Len(internal_queue_)] + p.size
  BY <1>1, SumsAppend
<1>3. Len(internal_queue_') = Len(internal_queue_) + 1
  BY DEF accept
<1> QED
  BY <1>1, <1>2, <1>3 DEF accept, Counted

LEMMA DequeueCounts ==
  ASSUME internal_queue_ \in Seq(QueuedPackets), Counted, dequeue
  PROVE  Counted'
<1>1. PICK f : Sums(f, internal_queue_) /\ queue_size_in_bytes_ = f[Len(internal_queue_)]
  BY DEF Counted
<1>2. PICK g : /\ Sums(g, Tail(internal_queue_))
               /\ g[Len(internal_queue_) - 1] = f[Len(internal_queue_)] - Head(internal_queue_).size
  BY <1>1, SumsTail DEF dequeue, empty
<1>3. Len(internal_queue_') = Len(internal_queue_) - 1
  BY DEF dequeue, empty
<1> QED
  BY <1>1, <1>2, <1>3 DEF dequeue, Counted

LEMMA EnqueueCounts ==
  ASSUME internal_queue_ \in Seq(QueuedPackets), Counted, NEW p \in QueuedPackets, enqueue(p)
  PROVE  Counted'
<1>1. CASE accept(p)
  BY <1>1, AcceptCounts
<1>2. CASE UNCHANGED queueVars
  BY <1>2 DEF queueVars, Counted
<1>3. ASSUME enqueue_drop_head(p), ~ FitsWith(p)
      PROVE  Counted'
  <2> DEFINE q == Append(internal_queue_, p)
  <2>1. /\ internal_queue_' = Tail(q)
        /\ queue_size_in_bytes_' = queue_size_in_bytes_ + p.size - Head(q).size
        /\ queue_size_in_packets_' = queue_size_in_packets_
    BY <1>3 DEF enqueue_drop_head
  <2>2. q \in Seq(QueuedPackets) /\ q # <<>> /\ Len(q) = Len(internal_queue_) + 1
    BY AppendProperties
  <2>3. PICK f : Sums(f, internal_queue_) /\ queue_size_in_bytes_ = f[Len(internal_queue_)]
    BY DEF Counted
  <2>4. PICK g : Sums(g, q) /\ g[Len(internal_queue_) + 1] = f[Len(internal_queue_)] + p.size
    BY <2>3, SumsAppend
  <2> HIDE DEF q
  <2>5. PICK h : Sums(h, Tail(q)) /\ h[Len(q) - 1] = g[Len(q)] - Head(q).size
    BY <2>2, <2>4, SumsTail
  <2>6. Len(internal_queue_') = Len(internal_queue_) /\ Len(internal_queue_) \in Nat
    BY <2>1, <2>2
  <2>7. queue_size_in_bytes_' = h[Len(internal_queue_')]
    <3>1. Len(q) - 1 = Len(internal_queue_') /\ Len(q) = Len(internal_queue_) + 1
      BY <2>2, <2>6
    <3>2. h[Len(internal_queue_')] = g[Len(q)] - Head(q).size
      BY <2>5, <3>1
    <3>3. g[Len(q)] = queue_size_in_bytes_ + p.size
      BY <2>3, <2>4, <3>1
    <3>4. queue_size_in_bytes_ \in Int /\ p.size \in Int /\ Head(q).size \in Int
      <4>1. Len(internal_queue_) \in 0..Len(internal_queue_) /\ Head(q) \in QueuedPackets
        BY <2>2, <2>6
      <4> QED
        BY <2>3, <4>1, SizesAreNumbers DEF Sums
    <3> DEFINE a == queue_size_in_bytes_
               b == p.size
               c == Head(q).size
    <3>5. a \in Int /\ b \in Int /\ c \in Int
      BY <3>4
    <3>6. queue_size_in_bytes_' = a + b - c /\ g[Len(q)] = a + b
      BY <2>1, <3>3
    <3> HIDE DEF a, b, c
    <3> QED
      BY <3>2, <3>5, <3>6 DEF c
  <2>8. queue_size_in_packets_' = Len(internal_queue_')
    BY <2>1, <2>6 DEF Counted
  <2> QED
    BY <2>1, <2>5, <2>7, <2>8 DEF Counted
<1> QED
  BY <1>1, <1>2, <1>3 DEF enqueue, enqueue_infinite, enqueue_drop_tail, enqueue_drop_head

\* What the queue holds never exceeds its limits, in packets and in bytes, and
\* its two counters always say what it holds.
THEOREM QueueStaysWithinLimits ==
  ASSUME DropsOneAtMost
  PROVE  ServiceSpec => []WithinLimits
<1>1. ServiceInit => Counted
  <2> SUFFICES ASSUME ServiceInit PROVE Counted
    OBVIOUS
  <2>1. /\ internal_queue_ = <<>> /\ queue_size_in_bytes_ = 0 /\ queue_size_in_packets_ = 0
        /\ Len(internal_queue_) = 0
    BY DEF ServiceInit, LinkInit, QueueInit
  <2>2. Sums([i \in {0} |-> 0], internal_queue_)
    <3>1. 0..Len(internal_queue_) = {0} /\ 1..Len(internal_queue_) = {}
      BY <2>1
    <3> QED
      BY <3>1 DEF Sums
  <2> QED
    BY <2>1, <2>2 DEF Counted
<1>2. ASSUME ServiceInv, Counted, [ServiceNext]_serviceVars
      PROVE  Counted'
  <2>1. internal_queue_ \in Seq(QueuedPackets)
    BY <1>2 DEF ServiceInv, LinkInv, LinkTypeOK
  <2>2. CASE UNCHANGED queueVars
    BY <1>2, <2>2 DEF queueVars, Counted
  <2>3. CASE FinishPut
    <3>1. AsQueued(pending, rat_now) \in QueuedPackets
      BY <1>2, <2>3
      DEF ServiceInv, CallersSound, LinkInv, LinkTypeOK, FinishPut, AsQueued, QueuedPackets
    <3> QED
      BY <1>2, <2>1, <2>3, <3>1, EnqueueCounts DEF FinishPut, put_packet_to_link_queue
  <2>4. CASE dequeue
    BY <1>2, <2>1, <2>4, DequeueCounts
  <2>5. UNCHANGED queueVars \/ FinishPut \/ dequeue
    BY <1>2
    DEF ServiceNext, serviceVars, CallWaitTime, CallStart, CallPut, CallWrite, LinkStep,
        linkVars, rationalize, start_link_trace, write_one_from_link_queue,
        rationalize_steps, burn_opportunity, rationalize_return, opportunity_done,
        fetch_packet, send_bytes
  <2> QED
    BY <2>2, <2>3, <2>4, <2>5
<1>3. ServiceInv /\ Counted => WithinLimits
  <2> SUFFICES ASSUME ServiceInv, Counted PROVE WithinLimits
    OBVIOUS
  <2>1. internal_queue_ \in Seq(QueuedPackets) /\ QueueGood
    BY DEF ServiceInv, LinkInv, LinkTypeOK
  <2>2. CountersMatchContents
    BY <2>1, BytesAreLastSum DEF Counted, CountersMatchContents
  <2>3. CASE QueueType = "infinite"
    BY <2>2, <2>3, QueueAssumption DEF WithinLimits
  <2>4. CASE QueueType # "infinite"
    BY <2>1, <2>2, <2>4 DEF WithinLimits, CountersMatchContents, QueueGood, good, good_with
  <2> QED
    BY <2>3, <2>4
<1> QED
  BY <1>1, <1>2, <1>3, ServiceInvHolds, PTL DEF ServiceSpec

-----------------------------------------------------------------------------
(* The ideal link: places in the schedule *)

Places == [opp : Nat, used : 0..PACKET_SIZE]

\* Sending moves forward, and fills an opportunity before it takes the next.
LEMMA SendMoves ==
  ASSUME NEW p \in Places, NEW size \in 1..PACKET_SIZE
  PROVE  /\ Send(p, size) \in Places /\ Send(p, size).opp >= p.opp
         /\ p.used = PACKET_SIZE => Send(p, size) = [opp |-> p.opp + 1, used |-> size]
         /\ p.used = 0 => Send(p, size) = [opp |-> p.opp, used |-> size]
<1>1. PACKET_SIZE \in Nat /\ p.opp \in Nat /\ p.used \in 0..PACKET_SIZE
  BY PacketAssumption DEF Places
<1>2. CASE size <= PACKET_SIZE - p.used
  <2>1. Send(p, size) = [opp |-> p.opp, used |-> p.used + size]
    BY <1>2 DEF Send
  <2>2. p.used + size \in 0..PACKET_SIZE /\ p.used # PACKET_SIZE
    BY <1>1, <1>2
  <2> QED
    BY <1>1, <2>1, <2>2 DEF Places
<1>3. CASE ~ (size <= PACKET_SIZE - p.used)
  <2>1. Send(p, size) = [opp |-> p.opp + 1, used |-> size - (PACKET_SIZE - p.used)]
    BY <1>3 DEF Send
  <2>2. size - (PACKET_SIZE - p.used) \in 0..PACKET_SIZE /\ p.used # 0
    BY <1>1, <1>3
  <2>3. p.used = PACKET_SIZE => size - (PACKET_SIZE - p.used) = size
    BY <1>1
  <2> QED
    BY <1>1, <2>1, <2>2, <2>3 DEF Places
<1> QED
  BY <1>2, <1>3

\* An opportunity that is used up is the next one unused.
LEMMA NextOpportunity ==
  ASSUME NEW k \in Nat, NEW size \in 1..PACKET_SIZE
  PROVE  Send([opp |-> k + 1, used |-> 0], size)
           = Send([opp |-> k, used |-> PACKET_SIZE], size)
<1> DEFINE p == [opp |-> k, used |-> PACKET_SIZE]
           q == [opp |-> k + 1, used |-> 0]
<1>1. /\ p \in Places /\ q \in Places
      /\ p.opp = k /\ q.opp = k + 1 /\ p.used = PACKET_SIZE /\ q.used = 0
  BY PacketAssumption DEF Places
<1> HIDE DEF p, q
<1>2. Send(p, size) = [opp |-> k + 1, used |-> size] /\ Send(q, size) = [opp |-> k + 1, used |-> size]
  BY <1>1, SendMoves
<1> QED
  BY <1>2 DEF p, q

\* The cursor moves, and with it what is left to send.
LEMMA WaitsForCursor ==
  ASSUME NEW f, NEW s, NEW out, NEW c, NEW d, NEW rest, NEW left, NEW m,
         Waits(f, s, out, c, rest, m),
         out < Len(s) => Send(d, left) = Send(c, rest),
         out = Len(s) /\ f[m].opp <= c.opp => f[m].opp <= d.opp
  PROVE  Waits(f, s, out, d, left, m)
BY DEF Waits

\* The first packet leaves, at the cursor.
LEMMA WaitsDepart ==
  ASSUME NEW f, NEW P, NEW s \in Seq(P), NEW out \in Nat, out < Len(s),
         NEW c, NEW d, NEW rest, NEW left, NEW m,
         Waits(f, s, out, c, rest, m),
         Send(c, rest) = d, d.opp \in Nat,
         out + 1 < Len(s) => left = s[out + 2].size
  PROVE  Waits(f, s, out + 1, d, left, m)
<1>1. Len(s) \in Nat
  OBVIOUS
<1>2. f[NumberOf(s[out + 1])] = d
  BY DEF Waits
<1>3. out + 1 < Len(s) => f[NumberOf(s[(out + 1) + 1])] = Send(d, left)
  <2> SUFFICES ASSUME out + 1 < Len(s)
               PROVE  f[NumberOf(s[(out + 1) + 1])] = Send(d, left)
    OBVIOUS
  <2>1. out + 2 \in (out + 2)..Len(s) /\ (out + 2) - 1 = out + 1 /\ (out + 1) + 1 = out + 2
    BY <1>1
  <2>2. f[NumberOf(s[out + 2])] = Send(f[NumberOf(s[(out + 2) - 1])], s[out + 2].size)
    BY <2>1 DEF Waits
  <2> QED
    BY <1>2, <2>1, <2>2
<1>4. f[m] = f[NumberOf(s[Len(s)])]
  BY DEF Waits
<1>5. out + 1 = Len(s) => f[m].opp <= d.opp
  BY <1>2, <1>4
<1>6. \A i \in ((out + 1) + 2)..Len(s) : f[NumberOf(s[i])] = Send(f[NumberOf(s[i - 1])], s[i].size)
  BY <1>1 DEF Waits
<1> QED
  BY <1>3, <1>4, <1>5, <1>6 DEF Waits

\* A packet that has left is taken from the front.
LEMMA WaitsTail ==
  ASSUME NEW f, NEW P, NEW s \in Seq(P), s # <<>>, NEW out \in Nat, out > 0, out <= Len(s),
         NEW c, NEW rest, NEW m, Waits(f, s, out, c, rest, m)
  PROVE  Waits(f, Tail(s), out - 1, c, rest, m)
<1> DEFINE t == Tail(s)
<1>1. /\ Len(s) \in Nat /\ Len(t) = Len(s) - 1
      /\ \A i \in 1..(Len(s) - 1) : t[i] = s[i + 1]
  OBVIOUS
<1> HIDE DEF t
<1>2. out - 1 < Len(t) => t[(out - 1) + 1] = s[out + 1] /\ t[Len(t)] = s[Len(s)] /\ out < Len(s)
  <2> SUFFICES ASSUME out - 1 < Len(t)
               PROVE  t[(out - 1) + 1] = s[out + 1] /\ t[Len(t)] = s[Len(s)] /\ out < Len(s)
    OBVIOUS
  <2>1. /\ (out - 1) + 1 = out /\ out \in 1..(Len(s) - 1) /\ out < Len(s)
        /\ Len(s) - 1 \in 1..(Len(s) - 1) /\ (Len(s) - 1) + 1 = Len(s)
    BY <1>1
  <2>2. t[out] = s[out + 1] /\ t[Len(s) - 1] = s[(Len(s) - 1) + 1]
    BY <1>1, <2>1
  <2> QED
    BY <1>1, <2>1, <2>2
<1>3. out - 1 = Len(t) => out = Len(s)
  BY <1>1
<1>4. ASSUME NEW i \in ((out - 1) + 2)..Len(t)
      PROVE  f[NumberOf(t[i])] = Send(f[NumberOf(t[i - 1])], t[i].size)
  <2>1. /\ i \in 1..(Len(s) - 1) /\ i - 1 \in 1..(Len(s) - 1) /\ i + 1 \in (out + 2)..Len(s)
        /\ (i - 1) + 1 = i /\ (i + 1) - 1 = i
    BY <1>1
  <2>2. t[i] = s[i + 1] /\ t[i - 1] = s[(i - 1) + 1]
    BY <1>1, <2>1
  <2>3. f[NumberOf(s[i + 1])] = Send(f[NumberOf(s[(i + 1) - 1])], s[i + 1].size)
    BY <2>1 DEF Waits
  <2> QED
    BY <2>1, <2>2, <2>3
<1> QED
  BY <1>2, <1>3, <1>4 DEF Waits, t

-----------------------------------------------------------------------------
(* The ideal link: where the packets end *)

Arrivals == [time : Nat, size : 1..PACKET_SIZE, seen : Nat, kept : BOOLEAN]

\* f[n] is where the n-th packet of a ends: IdealFinish, with the opportunity
\* after those replayed at its arrival as the first it can use.
Finishes(f, a) ==
  /\ f \in [0..Len(a) -> Places]
  /\ f[0] = [opp |-> 0, used |-> PACKET_SIZE]
  /\ \A n \in 1..Len(a) : f[n] = Follow(f[n - 1], a[n], a[n].seen + 1)
  /\ \A i, j \in 0..Len(a) : i <= j => f[i].opp <= f[j].opp

LEMMA FollowMoves ==
  ASSUME NEW p \in Places, NEW x \in Arrivals
  PROVE  /\ Follow(p, x, x.seen + 1) \in Places
         /\ Follow(p, x, x.seen + 1).opp >= p.opp
<1> DEFINE first == x.seen + 1
           begin == IF first > p.opp THEN [opp |-> first, used |-> 0] ELSE p
<1>1. /\ x.size \in 1..PACKET_SIZE /\ first \in Nat /\ p.opp \in Nat
      /\ PACKET_SIZE \in Nat /\ p.used \in 0..PACKET_SIZE
  BY PacketAssumption DEF Arrivals, Places
<1>2. begin \in Places /\ begin.opp >= p.opp
  BY <1>1 DEF Places
<1>3. Follow(p, x, first) = IF ~ x.kept THEN p ELSE Send(begin, x.size)
  BY DEF Follow
<1> HIDE DEF first, begin
<1>4. Send(begin, x.size) \in Places /\ Send(begin, x.size).opp >= begin.opp
  BY <1>1, <1>2, SendMoves
<1>5. Send(begin, x.size).opp \in Nat /\ begin.opp \in Nat
  BY <1>2, <1>4 DEF Places
<1>6. Send(begin, x.size).opp >= p.opp
  BY <1>1, <1>2, <1>4, <1>5
<1>7. Follow(p, x, first) \in Places /\ Follow(p, x, first).opp >= p.opp
  BY <1>1, <1>3, <1>4, <1>6
<1> QED
  BY <1>7 DEF first

LEMMA FinishesAppend ==
  ASSUME NEW a \in Seq(Arrivals), NEW x \in Arrivals, NEW f, Finishes(f, a)
  PROVE  \E g : /\ Finishes(g, Append(a, x))
                /\ \A i \in 0..Len(a) : g[i] = f[i]
                /\ g[Len(a) + 1] = Follow(f[Len(a)], x, x.seen + 1)
<1> DEFINE m == Len(a)
           e == Follow(f[m], x, x.seen + 1)
           g == [i \in 0..(m + 1) |-> IF i = m + 1 THEN e ELSE f[i]]
           u == Append(a, x)
<1>1. /\ m \in Nat /\ Len(u) = m + 1 /\ u[m + 1] = x
      /\ \A i \in 1..m : u[i] = a[i]
  OBVIOUS
<1>2. /\ f \in [0..m -> Places] /\ f[m] \in Places
      /\ \A i \in 0..m : f[i].opp \in Nat
  <2>1. f \in [0..m -> Places] /\ m \in 0..m
    BY <1>1 DEF Finishes
  <2>2. \A i \in 0..m : f[i] \in Places
    BY <2>1
  <2>3. \A p \in Places : p.opp \in Nat
    BY DEF Places
  <2> QED
    BY <2>1, <2>2, <2>3
<1>3. e \in Places /\ e.opp >= f[m].opp /\ e.opp \in Nat
  <2>1. e \in Places /\ e.opp >= f[m].opp
    BY <1>2, FollowMoves
  <2> QED
    BY <2>1 DEF Places
<1> HIDE DEF u, e
<1>4. g \in [0..(m + 1) -> Places] /\ g[m + 1] = e /\ \A i \in 0..m : g[i] = f[i]
  BY <1>1, <1>2, <1>3
<1> HIDE DEF g
<1>5. ASSUME NEW n \in 1..(m + 1)
      PROVE  g[n] = Follow(g[n - 1], u[n], u[n].seen + 1)
  <2>1. CASE n = m + 1
    <3>1. n - 1 = m /\ m \in 0..m
      BY <1>1, <2>1
    <3> QED
      BY <1>1, <1>4, <2>1, <3>1 DEF e
  <2>2. CASE n # m + 1
    <3>1. n \in 1..m /\ n \in 0..m /\ n - 1 \in 0..m
      BY <1>1, <2>2
    <3>2. f[n] = Follow(f[n - 1], a[n], a[n].seen + 1)
      BY <3>1 DEF Finishes
    <3> QED
      BY <1>1, <1>4, <3>1, <3>2
  <2> QED
    BY <2>1, <2>2
<1>6. ASSUME NEW i \in 0..(m + 1), NEW j \in 0..(m + 1), i <= j
      PROVE  g[i].opp <= g[j].opp
  <2>1. CASE j = m + 1
    <3>1. CASE i = m + 1
      BY <1>3, <1>4, <2>1, <3>1
    <3>2. CASE i # m + 1
      <4>1. i \in 0..m /\ m \in 0..m /\ i <= m
        BY <1>1, <3>2
      <4>2. f[i].opp <= f[m].opp
        BY <4>1 DEF Finishes
      <4> QED
        BY <1>2, <1>3, <1>4, <2>1, <4>1, <4>2
    <3> QED
      BY <3>1, <3>2
  <2>2. CASE j # m + 1
    <3>1. i \in 0..m /\ j \in 0..m
      BY <1>1, <1>6, <2>2
    <3> QED
      BY <1>4, <1>6, <3>1 DEF Finishes
  <2> QED
    BY <2>1, <2>2
<1>7. g[0] = [opp |-> 0, used |-> PACKET_SIZE]
  BY <1>1, <1>4 DEF Finishes
<1>8. Finishes(g, u)
  BY <1>1, <1>4, <1>5, <1>6, <1>7 DEF Finishes
<1> QED
  BY <1>4, <1>8 DEF u, e

\* A packet is put on the link and kept: it ends where it takes what waits
\* before it, or, if nothing does, the cursor.
LEMMA WaitsPut ==
  ASSUME NEW m \in Nat, NEW f \in [0..m -> Places],
         \A i, j \in 0..m : i <= j => f[i].opp <= f[j].opp,
         NEW s \in Seq(QueuedPackets), NEW out \in Nat, out <= Len(s),
         \A i \in 1..Len(s) : NumberOf(s[i]) \in 1..m,
         NEW c \in Places, c.used = PACKET_SIZE, NEW rest, NEW left,
         out < Len(s) => rest \in 1..PACKET_SIZE /\ left = rest,
         Waits(f, s, out, c, rest, m),
         NEW x \in QueuedPackets, NumberOf(x) = m + 1,
         out = Len(s) => left = x.size,
         NEW g, \A i \in 0..m : g[i] = f[i],
         NEW a, a.kept, a.size = x.size, g[m + 1] = Follow(f[m], a, c.opp + 1)
  PROVE  Waits(g, Append(s, x), out, c, left, m + 1)
<1> DEFINE u == Append(s, x)
           L == Len(s)
<1>1. L \in Nat /\ Len(u) = L + 1 /\ u[L + 1] = x /\ \A i \in 1..L : u[i] = s[i]
  OBVIOUS
<1>2. /\ x.size \in 1..PACKET_SIZE /\ c.opp \in Nat /\ f[m] \in Places /\ f[m].opp \in Nat
      /\ \A i \in 1..L : g[NumberOf(s[i])] = f[NumberOf(s[i])]
  <2>1. \A i \in 1..L : NumberOf(s[i]) \in 0..m
    BY <1>1
  <2>2. m \in 0..m
    OBVIOUS
  <2> QED
    BY <2>1, <2>2 DEF QueuedPackets, Places
<1> HIDE DEF u
<1>3. CASE out < L
  <2>1. f[NumberOf(s[out + 1])] = [opp |-> c.opp + 1, used |-> rest]
    BY <1>3, SendMoves DEF Waits
  <2>2. f[NumberOf(s[out + 1])].opp <= f[m].opp
    <3>1. out + 1 \in 1..L
      BY <1>1, <1>3
    <3>2. NumberOf(s[out + 1]) \in 0..m /\ m \in 0..m /\ NumberOf(s[out + 1]) <= m
      BY <3>1
    <3> QED
      BY <3>2
  <2>3. ~ (c.opp + 1 > f[m].opp)
    BY <1>2, <2>1, <2>2
  <2>4. g[m + 1] = Send(f[m], x.size)
    BY <2>3 DEF Follow
  <2>5. f[m] = f[NumberOf(s[L])]
    BY <1>3 DEF Waits
  <2>6. ASSUME NEW i \in (out + 2)..Len(u)
        PROVE  g[NumberOf(u[i])] = Send(g[NumberOf(u[i - 1])], u[i].size)
    <3>1. CASE i = L + 1
      <4>1. i - 1 = L /\ L \in 1..L
        BY <1>1, <1>3, <3>1
      <4> QED
        BY <1>1, <1>2, <2>4, <2>5, <3>1, <4>1
    <3>2. CASE i # L + 1
      <4>1. i \in (out + 2)..L /\ i \in 1..L /\ i - 1 \in 1..L
        BY <1>1, <3>2
      <4>2. f[NumberOf(s[i])] = Send(f[NumberOf(s[i - 1])], s[i].size)
        BY <4>1 DEF Waits
      <4> QED
        BY <1>1, <1>2, <4>1, <4>2
    <3> QED
      BY <3>1, <3>2
  <2>7. g[NumberOf(u[out + 1])] = Send(c, left)
    <3>1. out + 1 \in 1..L
      BY <1>1, <1>3
    <3> QED
      BY <1>1, <1>2, <1>3, <3>1 DEF Waits
  <2>8. g[m + 1] = g[NumberOf(u[Len(u)])]
    BY <1>1
  <2>9. out # Len(u)
    BY <1>1, <1>3
  <2> QED
    BY <2>6, <2>7, <2>8, <2>9 DEF Waits, u
<1>4. CASE out = L
  <2>1. f[m].opp <= c.opp
    BY <1>4 DEF Waits
  <2>2. c.opp + 1 > f[m].opp
    BY <1>2, <2>1
  <2>3. g[m + 1] = Send([opp |-> c.opp + 1, used |-> 0], x.size)
    BY <2>2 DEF Follow
  <2>4. c = [opp |-> c.opp, used |-> PACKET_SIZE]
    BY DEF Places
  <2>5. g[m + 1] = Send(c, x.size)
    BY <1>2, <2>3, <2>4, NextOpportunity
  <2>6. g[NumberOf(u[out + 1])] = Send(c, left) /\ g[m + 1] = g[NumberOf(u[Len(u)])]
    BY <1>1, <1>4, <2>5
  <2>7. out # Len(u) /\ (out + 2)..Len(u) = {}
    BY <1>1, <1>4
  <2> QED
    BY <2>6, <2>7 DEF Waits, u
<1> QED
  BY <1>1, <1>3, <1>4

\* A packet that is lost changes nothing.
LEMMA WaitsLost ==
  ASSUME NEW m \in Nat, NEW f, NEW s \in Seq(QueuedPackets), NEW out \in Nat,
         \A i \in 1..Len(s) : NumberOf(s[i]) \in 1..m,
         NEW c, NEW rest, Waits(f, s, out, c, rest, m),
         NEW g, \A i \in 0..m : g[i] = f[i], g[m + 1] = f[m]
  PROVE  Waits(g, s, out, c, rest, m + 1)
<1>1. Len(s) \in Nat /\ \A i \in 1..Len(s) : g[NumberOf(s[i])] = f[NumberOf(s[i])]
  <2>1. \A i \in 1..Len(s) : NumberOf(s[i]) \in 0..m
    OBVIOUS
  <2> QED
    BY <2>1
<1>2. out < Len(s) => out + 1 \in 1..Len(s) /\ Len(s) \in 1..Len(s)
  BY <1>1
<1>3. \A i \in (out + 2)..Len(s) : i \in 1..Len(s) /\ i - 1 \in 1..Len(s)
  BY <1>1
<1> QED
  BY <1>1, <1>2, <1>3 DEF Waits

\* The replay never leaves an opportunity behind that a packet could have used
\* and did not: the first it can use is the one after those replayed.
LEMMA FirstIsNext ==
  ASSUME HistoryTypeOK, HistorySound, NEW n \in 1..Len(arrivals)
  PROVE  FirstFor(arrivals[n]) = arrivals[n].seen + 1
<1> DEFINE a == arrivals[n]
           O == Len(opportunities)
           P(k) == /\ \A j \in (a.seen + 1)..(k - 1) : opportunities[j] <= a.time
                   /\ k <= O => opportunities[k] > a.time
<1>1. arrivals \in Seq(Arrivals) /\ opportunities \in Seq(Nat)
  BY DEF HistoryTypeOK, Arrivals
<1>2. a \in Arrivals /\ O \in Nat /\ n \in DOMAIN arrivals
  BY <1>1
<1>3. a.seen \in Nat /\ a.time \in Nat
  BY <1>2 DEF Arrivals
<1>4. a.seen <= O /\ \A k \in (a.seen + 1)..O : opportunities[k] > a.time /\ opportunities[k] \in Nat
  BY <1>1, <1>2, <1>3 DEF HistorySound
<1> HIDE DEF a, O
<1>5. a.seen + 1 \in (a.seen + 1)..(O + 1) /\ P(a.seen + 1)
  BY <1>2, <1>3, <1>4
<1>6. ASSUME NEW k \in (a.seen + 1)..(O + 1), P(k)
      PROVE  k = a.seen + 1
  <2> SUFFICES ASSUME k # a.seen + 1 PROVE FALSE
    OBVIOUS
  <2>1. a.seen + 1 \in (a.seen + 1)..(k - 1) /\ a.seen + 1 \in (a.seen + 1)..O
    BY <1>2, <1>3
  <2> QED
    BY <1>3, <1>4, <1>6, <2>1
<1>7. FirstFor(a) = CHOOSE k \in (a.seen + 1)..(O + 1) : P(k)
  BY DEF FirstFor, O
<1> HIDE DEF P
<1>8. FirstFor(a) = a.seen + 1
  BY <1>5, <1>6, <1>7
<1> QED
  BY <1>8 DEF a

\* There is one such function, and it is IdealFinish.
LEMMA FinishesAreIdeal ==
  ASSUME HistoryTypeOK, HistorySound, NEW f, Finishes(f, arrivals)
  PROVE  \A n \in 0..Len(arrivals) : IdealFinish[n] = f[n]
<1> DEFINE m == Len(arrivals)
           start == [opp |-> 0, used |-> PACKET_SIZE]
           Rec(g) == [n \in 0..m |-> IF n = 0 THEN start
                        ELSE Follow(g[n - 1], arrivals[n], FirstFor(arrivals[n]))]
           h == CHOOSE g : g = Rec(g)
<1>1. m \in Nat
  BY DEF HistoryTypeOK
<1>2. \A n \in 1..m : f[n] = Follow(f[n - 1], arrivals[n], FirstFor(arrivals[n]))
  BY FirstIsNext DEF Finishes
<1>3. f = Rec(f)
  <2>1. f = [n \in 0..m |-> f[n]] /\ f[0] = start
    BY DEF Finishes
  <2> HIDE DEF start
  <2>2. \A n \in 0..m : f[n] = IF n = 0 THEN start
                               ELSE Follow(f[n - 1], arrivals[n], FirstFor(arrivals[n]))
    BY <1>1, <1>2, <2>1
  <2> QED
    BY <2>1, <2>2
<1>4. IdealFinish = h
  BY DEF IdealFinish
<1>5. h = Rec(h)
  BY <1>3
<1> HIDE DEF h
<1>6. h[0] = start /\ \A n \in 1..m : h[n] = Follow(h[n - 1], arrivals[n], FirstFor(arrivals[n]))
  <2> HIDE DEF start
  <2>1. ASSUME NEW n \in 0..m
        PROVE  h[n] = IF n = 0 THEN start
                      ELSE Follow(h[n - 1], arrivals[n], FirstFor(arrivals[n]))
    BY <1>5
  <2>2. 0 \in 0..m /\ \A n \in 1..m : n \in 0..m /\ n # 0
    BY <1>1
  <2> QED
    BY <2>1, <2>2
<1> DEFINE T == {n \in 0..m : h[n] # f[n]}
<1>7. T = {}
  <2> SUFFICES ASSUME T # {} PROVE FALSE
    OBVIOUS
  <2>1. PICK x \in T : \A y \in T : x <= y
    <3>1. T \subseteq Nat
      BY <1>1
    <3> HIDE DEF T
    <3> QED
      BY <3>1, LeastIndex
  <2>2. x \in 1..m
    BY <1>1, <1>6 DEF Finishes
  <2>3. x - 1 \notin T /\ x - 1 \in 0..m
    BY <1>1, <2>1, <2>2
  <2>4. h[x - 1] = f[x - 1]
    BY <2>3
  <2>5. h[x] = f[x]
    BY <1>2, <1>6, <2>2, <2>4
  <2> QED
    BY <2>5
<1> QED
  BY <1>4, <1>7

\* What the link holds, by position: those that left it, then the packet in
\* transit, then the queue.
LEMMA ContentsIndexed ==
  ASSUME LinkTypeOK, TransitSound
  PROVE  /\ LinkContents \in Seq(QueuedPackets) /\ Len(LinkContents) \in Nat
         /\ Len(output_queue_) \in Nat /\ Len(output_queue_) <= Len(LinkContents)
         /\ \A i \in 1..Len(output_queue_) : LinkContents[i] = output_queue_[i]
         /\ packet_in_transit_bytes_left_ > 0 =>
              /\ Len(output_queue_) < Len(LinkContents)
              /\ LinkContents[Len(output_queue_) + 1] = packet_in_transit_
         /\ packet_in_transit_bytes_left_ = 0 /\ internal_queue_ # <<>> =>
              /\ Len(output_queue_) < Len(LinkContents)
              /\ LinkContents[Len(output_queue_) + 1] = Head(internal_queue_)
         /\ packet_in_transit_bytes_left_ = 0 /\ internal_queue_ = <<>> =>
              Len(output_queue_) = Len(LinkContents)
<1> DEFINE o == output_queue_
           t == InTransit
           q == internal_queue_
           a == o \o t
           s == LinkContents
<1>1. /\ o \in Seq(QueuedPackets) /\ t \in Seq(QueuedPackets) /\ q \in Seq(QueuedPackets)
      /\ a \in Seq(QueuedPackets) /\ s \in Seq(QueuedPackets) /\ s = a \o q
  BY ContentsType DEF LinkContents
<1>2. Len(o) \in Nat /\ Len(t) \in Nat /\ Len(q) \in Nat /\ Len(s) \in Nat
  BY <1>1
<1>3. /\ Len(a) = Len(o) + Len(t)
      /\ \A i \in 1..(Len(o) + Len(t)) : a[i] = IF i <= Len(o) THEN o[i] ELSE t[i - Len(o)]
  BY <1>1, ConcatProperties
<1> HIDE DEF a, s
<1>4. /\ Len(s) = Len(a) + Len(q)
      /\ \A i \in 1..(Len(a) + Len(q)) : s[i] = IF i <= Len(a) THEN a[i] ELSE q[i - Len(a)]
  BY <1>1, ConcatProperties
<1>5. Len(s) = Len(o) + Len(t) + Len(q) /\ Len(o) <= Len(s)
  BY <1>2, <1>3, <1>4
<1>6. \A i \in 1..Len(o) : s[i] = o[i]
  BY <1>2, <1>3, <1>4
<1>7. packet_in_transit_bytes_left_ > 0 =>
        Len(o) < Len(s) /\ s[Len(o) + 1] = packet_in_transit_
  <2> SUFFICES ASSUME packet_in_transit_bytes_left_ > 0
               PROVE  Len(o) < Len(s) /\ s[Len(o) + 1] = packet_in_transit_
    OBVIOUS
  <2>1. Len(t) = 1 /\ t[1] = packet_in_transit_
    BY DEF InTransit
  <2> HIDE DEF o, t, q
  <2>2. Len(o) + 1 \in 1..(Len(o) + Len(t)) /\ Len(o) + 1 \in 1..(Len(a) + Len(q))
        /\ (Len(o) + 1) - Len(o) = 1 /\ ~ (Len(o) + 1 <= Len(o)) /\ Len(o) + 1 <= Len(a)
    BY <1>2, <1>3, <2>1
  <2>3. s[Len(o) + 1] = a[Len(o) + 1] /\ a[Len(o) + 1] = t[(Len(o) + 1) - Len(o)]
    BY <1>3, <1>4, <2>2
  <2> QED
    BY <1>2, <1>5, <2>1, <2>2, <2>3
<1>8. packet_in_transit_bytes_left_ = 0 => Len(t) = 0
  BY DEF InTransit
<1>9. packet_in_transit_bytes_left_ = 0 /\ q # <<>> =>
        Len(o) < Len(s) /\ s[Len(o) + 1] = Head(q)
  <2> SUFFICES ASSUME packet_in_transit_bytes_left_ = 0, q # <<>>
               PROVE  Len(o) < Len(s) /\ s[Len(o) + 1] = Head(q)
    OBVIOUS
  <2>1. Len(t) = 0 /\ Len(q) > 0 /\ Head(q) = q[1]
    BY <1>1, <1>8
  <2> HIDE DEF o, t, q
  <2>2. Len(o) + 1 \in 1..(Len(a) + Len(q)) /\ (Len(o) + 1) - Len(a) = 1 /\ ~ (Len(o) + 1 <= Len(a))
    BY <1>2, <1>3, <2>1
  <2>3. s[Len(o) + 1] = q[(Len(o) + 1) - Len(a)]
    BY <1>4, <2>2
  <2> QED
    BY <1>2, <1>5, <2>1, <2>2, <2>3
<1>10. packet_in_transit_bytes_left_ = 0 /\ q = <<>> => Len(o) = Len(s)
  <2>1. q = <<>> => Len(q) = 0
    OBVIOUS
  <2> HIDE DEF o, t, q
  <2> QED
    BY <1>2, <1>5, <1>8, <2>1
<1> QED
  BY <1>1, <1>2, <1>5, <1>6, <1>7, <1>9, <1>10 DEF s

-----------------------------------------------------------------------------
(* The ideal link: every step *)

\* The record of a packet put on the link.
Recorded ==
  [time |-> rat_now, size |-> pending.size, seen |-> Len(opportunities),
   kept |-> Len(internal_queue_') > Len(internal_queue_)]

LEMMA RecordedType ==
  ASSUME ServiceInv, HistoryTypeOK, FinishPut
  PROVE  /\ Recorded \in Arrivals /\ arrivals' = Append(arrivals, Recorded)
         /\ pending \in QueuedPackets /\ AsQueued(pending, rat_now) \in QueuedPackets
         /\ start_tick_ /\ Replayed
<1>1. pending \in QueuedPackets /\ rat_now \in Nat /\ start_tick_ /\ Replayed
  BY DEF ServiceInv, CallersSound, FinishPut, LinkInv, LinkTypeOK, put_packet_to_link_queue
<1>2. pending.size \in 1..PACKET_SIZE /\ Len(opportunities) \in Nat
  BY <1>1 DEF QueuedPackets, HistoryTypeOK
<1>3. Recorded \in Arrivals
  BY <1>1, <1>2 DEF Recorded, Arrivals
<1>4. arrivals' = Append(arrivals, Recorded)
  BY DEF FinishPut, Recorded
<1>5. AsQueued(pending, rat_now) \in QueuedPackets
  BY <1>1 DEF AsQueued, QueuedPackets
<1> QED
  BY <1>1, <1>3, <1>4, <1>5

\* A step of the replay adds an opportunity when it takes one, later than all
\* arrivals, and nothing else changes the schedule.
LEMMA ReplayedOpportunity ==
  ASSUME ServiceInv, LinkStep, burn_opportunity
  PROVE  /\ opportunities' = Append(opportunities, next_delivery_time)
         /\ this_delivery_time' = next_delivery_time /\ next_delivery_time \in Nat
         /\ ~ finished_
         /\ ~ finished_' => next_delivery_time' \in Nat /\ next_delivery_time <= next_delivery_time'
<1>1. /\ next_delivery_ \in 0..(Len(heavy_pdo_schedule_) - 1) /\ link_base_timestamp_ \in Nat
      /\ finished_ = FALSE
  BY DEF ServiceInv, LinkInv, LinkTypeOK, burn_opportunity, OpportunityDue
<1>2. use_a_delivery_opportunity
  BY DEF burn_opportunity
<1>3. /\ next_delivery_' \in 0..(Len(heavy_pdo_schedule_) - 1) /\ link_base_timestamp_' \in Nat
      /\ ~ finished_' => next_delivery_time <= next_delivery_time'
  BY <1>1, <1>2, ScheduleForward
<1>4. next_delivery_time \in Nat /\ next_delivery_time' \in Nat
  BY <1>1, <1>3, ScheduleAssumption, SMTT(30) DEF next_delivery_time
<1>5. link_pc = "burn" /\ link_pc' = "deliver" /\ this_delivery_time' = next_delivery_time
  BY DEF burn_opportunity
<1> QED
  BY <1>1, <1>3, <1>4, <1>5 DEF LinkStep

\* The other steps of the replay leave the schedule alone.
LEMMA OtherSteps ==
  ASSUME LinkStep, ~ burn_opportunity
  PROVE  /\ opportunities' = opportunities
         /\ next_delivery_' = next_delivery_ /\ link_base_timestamp_' = link_base_timestamp_
         /\ finished_' = finished_ /\ this_delivery_time' = this_delivery_time
         /\ link_pc' \in {"deliver", "send"} => link_pc \in {"deliver", "send"}
<1>1. rationalize_return \/ opportunity_done \/ fetch_packet \/ send_bytes
  BY DEF LinkStep, rationalize_steps
<1>2. ~ (link_pc = "burn" /\ link_pc' = "deliver")
  BY <1>1 DEF rationalize_return, opportunity_done, fetch_packet, send_bytes
<1>3. UNCHANGED linkTrace /\ UNCHANGED this_delivery_time
  BY <1>1 DEF rationalize_return, opportunity_done, fetch_packet, send_bytes
<1>4. link_pc' \in {"deliver", "send"} => link_pc \in {"deliver", "send"}
  BY <1>1 DEF rationalize_return, opportunity_done, fetch_packet, send_bytes
<1> QED
  BY <1>2, <1>3, <1>4 DEF LinkStep, linkTrace

LEMMA HistoryStep ==
  ASSUME ServiceInv, HistoryTypeOK, HistorySound, [ServiceNext]_serviceVars
  PROVE  HistoryTypeOK' /\ HistorySound'
<1>0. arrivals \in Seq(Arrivals) /\ opportunities \in Seq(Nat) /\ written \in Seq(Nat)
  BY DEF HistoryTypeOK, Arrivals
<1>1. CASE CallWaitTime \/ CallPut
  <2>1. PICK now \in Now : rationalize(now)
    BY <1>1 DEF CallWaitTime, CallPut
  <2>2. /\ UNCHANGED <<linkTrace, historyVars, start_tick_>> /\ link_pc' = "burn"
    BY <1>1, <2>1 DEF rationalize, CallWaitTime, CallPut
  <2>3. pending' # NoQueuedPacket => NumberOf(pending') = Len(arrivals) + 1
    <3>1. CASE CallWaitTime
      BY <3>1 DEF CallWaitTime, CanCall
    <3>2. CASE CallPut
      BY <3>2 DEF CallPut, NumberOf
    <3> QED
      BY <1>1, <3>1, <3>2
  <2> QED
    BY <2>2, <2>3
    DEF HistoryTypeOK, HistorySound, historyVars, linkTrace, next_delivery_time
<1>2. CASE CallStart
  <2>1. /\ arrivals = <<>> /\ arrivals' = arrivals /\ written' = written
        /\ opportunities' = <<>> /\ pending' = NoQueuedPacket /\ link_pc' = "idle"
        /\ start_tick_' = TRUE
    BY <1>2 DEF CallStart, CanCall, HistorySound, start_link_trace, linkLocals
  <2>2. DOMAIN arrivals' = {}
    BY <2>1
  <2> QED
    BY <2>1, <2>2, EmptySeq DEF HistoryTypeOK, HistorySound
<1>3. CASE FinishPut
  <2> DEFINE x == Recorded
  <2>1. x \in Arrivals /\ arrivals' = Append(arrivals, x) /\ start_tick_ /\ Replayed
    BY <1>3, RecordedType
  <2>2. x.time = rat_now /\ x.seen = Len(opportunities)
    BY DEF Recorded
  <2> HIDE DEF x
  <2>3. /\ UNCHANGED <<linkTrace, linkLocals, start_tick_, opportunities, written>>
        /\ pending' = NoQueuedPacket /\ link_pc' = "idle"
    BY <1>3 DEF FinishPut, put_packet_to_link_queue, linkLocals
  <2>4. HistoryTypeOK'
    BY <1>0, <2>1, <2>3, AppendProperties DEF HistoryTypeOK, Arrivals
  <2>5. ASSUME NEW n \in DOMAIN arrivals'
        PROVE  /\ arrivals'[n].seen <= Len(opportunities)
               /\ \A k \in (arrivals'[n].seen + 1)..Len(opportunities) :
                    opportunities[k] > arrivals'[n].time
               /\ ~ finished_ => next_delivery_time > arrivals'[n].time
    <3>1. CASE n \in DOMAIN arrivals
      <4>1. arrivals'[n] = arrivals[n]
        BY <1>0, <2>1, <3>1, AppendProperties
      <4> QED
        BY <3>1, <4>1 DEF HistorySound
    <3>2. CASE n \notin DOMAIN arrivals
      <4>1. n = Len(arrivals) + 1 /\ Len(opportunities) \in Nat
        BY <1>0, <2>1, <3>2
      <4>2. arrivals'[n] = x
        BY <1>0, <2>1, <4>1, AppendProperties
      <4>3. (Len(opportunities) + 1)..Len(opportunities) = {}
        BY <4>1
      <4> QED
        BY <2>1, <2>2, <4>1, <4>2, <4>3 DEF Replayed
    <3> QED
      BY <3>1, <3>2
  <2>6. next_delivery_time' = next_delivery_time /\ finished_' = finished_
    BY <2>3 DEF next_delivery_time, linkTrace
  <2> QED
    BY <2>1, <2>3, <2>4, <2>5, <2>6 DEF HistorySound
<1>4. CASE CallWrite
  <2>1. /\ UNCHANGED <<linkTrace, linkLocals, start_tick_, pending, opportunities, arrivals>>
        /\ written' = Append(written, Head(output_queue_).sequence_number)
        /\ output_queue_ # <<>>
    BY <1>4 DEF CallWrite, write_one_from_link_queue
  <2>2. Head(output_queue_) \in QueuedPackets
    BY <2>1, HeadTailProperties DEF ServiceInv, LinkInv, LinkTypeOK
  <2>3. Head(output_queue_).sequence_number \in Nat
    BY <2>2 DEF QueuedPackets
  <2>4. written' \in Seq(Nat)
    BY <1>0, <2>1, <2>3, AppendProperties
  <2> QED
    BY <2>1, <2>4 DEF HistoryTypeOK, HistorySound, linkTrace, linkLocals, next_delivery_time
<1>5. CASE LinkStep /\ burn_opportunity
  <2> DEFINE t == next_delivery_time
             O == Len(opportunities)
  <2>1. /\ opportunities' = Append(opportunities, t) /\ this_delivery_time' = t /\ t \in Nat
        /\ ~ finished_
        /\ ~ finished_' => next_delivery_time' \in Nat /\ t <= next_delivery_time'
    BY <1>5, ReplayedOpportunity
  <2>2. UNCHANGED <<start_tick_, pending, arrivals, written>>
    BY <1>5 DEF LinkStep
  <2>3. /\ Len(opportunities') = O + 1 /\ O \in Nat /\ opportunities' \in Seq(Nat)
        /\ opportunities'[O + 1] = t
        /\ \A k \in 1..O : opportunities'[k] = opportunities[k]
    BY <1>0, <2>1, AppendProperties
  <2>4. ASSUME NEW n \in DOMAIN arrivals
        PROVE  /\ arrivals[n].seen <= O + 1
               /\ \A k \in (arrivals[n].seen + 1)..(O + 1) :
                    opportunities'[k] > arrivals[n].time
               /\ ~ finished_' => next_delivery_time' > arrivals[n].time
    <3>1. arrivals[n].seen \in Nat /\ arrivals[n].time \in Nat
      <4>1. arrivals[n] \in Arrivals
        BY <1>0
      <4> QED
        BY <4>1 DEF Arrivals
    <3>2. arrivals[n].seen <= O /\ t > arrivals[n].time
      BY <2>1 DEF HistorySound
    <3>3. ASSUME NEW k \in (arrivals[n].seen + 1)..(O + 1)
          PROVE  opportunities'[k] > arrivals[n].time
      <4>1. CASE k = O + 1
        BY <2>3, <3>2, <4>1
      <4>2. CASE k # O + 1
        <5>1. k \in (arrivals[n].seen + 1)..O /\ k \in 1..O
          BY <2>3, <3>1, <4>2
        <5> QED
          BY <2>3, <5>1 DEF HistorySound
      <4> QED
        BY <4>1, <4>2
    <3>4. ~ finished_' => next_delivery_time' > arrivals[n].time
      <4> SUFFICES ASSUME ~ finished_' PROVE next_delivery_time' > arrivals[n].time
        OBVIOUS
      <4> DEFINE z == next_delivery_time'
                 y == next_delivery_time
      <4>1. z \in Nat /\ y \in Nat /\ y <= z /\ y > arrivals[n].time
        BY <2>1, <3>2
      <4> HIDE DEF z, y
      <4>2. z > arrivals[n].time
        BY <3>1, <4>1
      <4> QED
        BY <4>2 DEF z
    <3>5. arrivals[n].seen <= O + 1
      BY <2>3, <3>1, <3>2
    <3> QED
      BY <3>3, <3>4, <3>5, Zenon
  <2>5. opportunities' # <<>>
    BY <2>3
  <2> QED
    BY <1>0, <2>1, <2>2, <2>3, <2>4, <2>5 DEF HistoryTypeOK, HistorySound, Arrivals
<1>6. CASE LinkStep /\ ~ burn_opportunity
  <2>1. /\ opportunities' = opportunities
        /\ next_delivery_' = next_delivery_ /\ link_base_timestamp_' = link_base_timestamp_
        /\ finished_' = finished_ /\ this_delivery_time' = this_delivery_time
        /\ link_pc' \in {"deliver", "send"} => link_pc \in {"deliver", "send"}
    BY <1>6, OtherSteps
  <2>2. UNCHANGED <<start_tick_, pending, arrivals, written>>
    BY <1>6 DEF LinkStep
  <2> QED
    BY <2>1, <2>2 DEF HistoryTypeOK, HistorySound, next_delivery_time
<1>7. CASE UNCHANGED serviceVars
  BY <1>7 DEF HistoryTypeOK, HistorySound, next_delivery_time, serviceVars, historyVars,
     linkVars, linkTrace, linkLocals
<1> QED
  BY <1>1, <1>2, <1>3, <1>4, <1>5, <1>6, <1>7 DEF ServiceNext

\* A packet that is put is kept as the last the link holds, or is lost.
LEMMA PutKeepsOrLoses ==
  ASSUME ServiceInv, HistoryTypeOK, FinishPut, QueueType # "drophead"
  PROVE  /\ \/ Recorded.kept /\ LinkContents' = Append(LinkContents, AsQueued(pending, rat_now))
            \/ ~ Recorded.kept /\ LinkContents' = LinkContents
         /\ UNCHANGED <<output_queue_, linkTransit, linkLocals, opportunities, departures, written>>
<1> DEFINE x == AsQueued(pending, rat_now)
           a == output_queue_ \o InTransit
           q == internal_queue_
<1>0. UNCHANGED <<output_queue_, linkTransit, linkLocals, opportunities, departures, written>>
  BY DEF FinishPut, put_packet_to_link_queue
<1>1. /\ x \in QueuedPackets /\ a \in Seq(QueuedPackets) /\ q \in Seq(QueuedPackets)
      /\ LinkContents = a \o q /\ Len(q) \in Nat
  BY RecordedType, ContentsType DEF ServiceInv, LinkInv, LinkContents
<1>2. LinkContents' = a \o internal_queue_'
  BY DEF FinishPut, put_packet_to_link_queue, LinkContents, InTransit, linkTransit
<1>3. enqueue(x)
  BY DEF FinishPut, put_packet_to_link_queue
<1>4. accept(x) \/ UNCHANGED queueVars
  BY <1>3 DEF enqueue, enqueue_infinite, enqueue_drop_tail, enqueue_drop_head
<1>5. Recorded.kept <=> Len(internal_queue_') > Len(internal_queue_)
  BY DEF Recorded
<1> HIDE DEF x, a
<1>6. CASE accept(x)
  <2>1. internal_queue_' = Append(q, x)
    BY <1>6 DEF accept
  <2>2. Len(internal_queue_') > Len(internal_queue_)
    BY <1>1, <2>1
  <2>3. a \o Append(q, x) = Append(a \o q, x)
    BY <1>1, ConcatAppend
  <2> QED
    BY <1>0, <1>1, <1>2, <1>5, <2>1, <2>2, <2>3 DEF x
<1>7. CASE UNCHANGED queueVars
  <2>1. internal_queue_' = q
    BY <1>7 DEF queueVars
  <2>2. ~ (Len(internal_queue_') > Len(internal_queue_))
    BY <1>1, <2>1
  <2> QED
    BY <1>0, <1>1, <1>2, <1>5, <2>1, <2>2
<1> QED
  BY <1>4, <1>6, <1>7

\* The numbers of a list of packets that were written, then of a list of those
\* still held, and that these are all that were kept.
InOrder(w, s, kept) ==
  /\ \A i, j \in 1..Len(w) : i < j => w[i] < w[j]
  /\ \A i, j \in 1..Len(s) : i < j => NumberOf(s[i]) < NumberOf(s[j])
  /\ \A i \in 1..Len(w), j \in 1..Len(s) : w[i] + 1 < NumberOf(s[j])
  /\ kept = {w[i] + 1 : i \in 1..Len(w)} \cup {NumberOf(s[i]) : i \in 1..Len(s)}

LEMMA NumberedInOrder ==
  ASSUME HistoryTypeOK, LinkContents \in Seq(QueuedPackets)
  PROVE  Numbered <=> InOrder(written, LinkContents, Kept)
<1> DEFINE s == LinkContents
<1>1. /\ DOMAIN written = 1..Len(written) /\ DOMAIN s = 1..Len(s)
      /\ \A i \in 1..Len(written) : written[i] \in Nat
  BY DEF HistoryTypeOK
<1> HIDE DEF s
<1>2. Numbered <=>
        /\ \A i, j \in 1..Len(written) : i < j => written[i] + 1 < written[j] + 1
        /\ \A i, j \in 1..Len(s) : i < j => NumberOf(s[i]) < NumberOf(s[j])
        /\ \A i \in 1..Len(written), j \in 1..Len(s) : written[i] + 1 < NumberOf(s[j])
        /\ Kept = {written[i] + 1 : i \in 1..Len(written)} \cup {NumberOf(s[i]) : i \in 1..Len(s)}
  BY <1>1 DEF Numbered, s
<1>3. \A i, j \in 1..Len(written) : written[i] + 1 < written[j] + 1 <=> written[i] < written[j]
  BY <1>1
<1> QED
  BY <1>2, <1>3 DEF InOrder, s

\* The last packet put is kept.
LEMMA InOrderAppend ==
  ASSUME NEW w \in Seq(Nat), NEW s \in Seq(QueuedPackets), NEW m \in Nat,
         NEW kept \in SUBSET (1..m), NEW x \in QueuedPackets, NumberOf(x) = m + 1,
         InOrder(w, s, kept)
  PROVE  InOrder(w, Append(s, x), kept \cup {m + 1})
<1> DEFINE u == Append(s, x)
           L == Len(s)
<1>1. L \in Nat /\ Len(u) = L + 1 /\ u[L + 1] = x /\ \A i \in 1..L : u[i] = s[i]
  OBVIOUS
<1> HIDE DEF u
<1>2. /\ \A i \in 1..L : NumberOf(s[i]) \in 1..m
      /\ \A i \in 1..Len(w) : w[i] + 1 \in 1..m
  BY DEF InOrder
<1>3. ASSUME NEW i \in 1..(L + 1), NEW j \in 1..(L + 1), i < j
      PROVE  NumberOf(u[i]) < NumberOf(u[j])
  <2>1. i \in 1..L
    BY <1>1, <1>3
  <2>2. CASE j = L + 1
    BY <1>1, <1>2, <2>1, <2>2
  <2>3. CASE j # L + 1
    <3>1. j \in 1..L
      BY <1>1, <2>3
    <3> QED
      BY <1>1, <1>3, <2>1, <3>1 DEF InOrder
  <2> QED
    BY <2>2, <2>3
<1>4. ASSUME NEW i \in 1..Len(w), NEW j \in 1..(L + 1)
      PROVE  w[i] + 1 < NumberOf(u[j])
  <2>1. CASE j = L + 1
    BY <1>1, <1>2, <2>1
  <2>2. CASE j # L + 1
    <3>1. j \in 1..L
      BY <1>1, <2>2
    <3> QED
      BY <1>1, <3>1 DEF InOrder
  <2> QED
    BY <2>1, <2>2
<1>5. {NumberOf(u[i]) : i \in 1..(L + 1)} = {NumberOf(s[i]) : i \in 1..L} \cup {m + 1}
  <2>1. \A i \in 1..(L + 1) : i = L + 1 \/ i \in 1..L
    BY <1>1
  <2>2. L + 1 \in 1..(L + 1) /\ \A i \in 1..L : i \in 1..(L + 1)
    BY <1>1
  <2> QED
    BY <1>1, <2>1, <2>2
<1>6. kept \cup {m + 1} = {w[i] + 1 : i \in 1..Len(w)} \cup {NumberOf(u[i]) : i \in 1..(L + 1)}
  BY <1>5 DEF InOrder
<1>7. \A i, j \in 1..Len(w) : i < j => w[i] < w[j]
  BY DEF InOrder
<1> QED
  BY <1>1, <1>3, <1>4, <1>6, <1>7 DEF InOrder, u

\* The first packet held is written.
LEMMA InOrderWrite ==
  ASSUME NEW w \in Seq(Nat), NEW s \in Seq(QueuedPackets), s # <<>>, NEW kept,
         InOrder(w, s, kept)
  PROVE  InOrder(Append(w, Head(s).sequence_number), Tail(s), kept)
<1> DEFINE n == Head(s).sequence_number
           v == Append(w, n)
           t == Tail(s)
           W == Len(w)
           L == Len(s)
<1>1. /\ L \in Nat \ {0} /\ Len(t) = L - 1 /\ Head(s) = s[1] /\ s[1] \in QueuedPackets
      /\ \A i \in 1..(L - 1) : t[i] = s[i + 1]
  OBVIOUS
<1>2. n \in Nat /\ NumberOf(s[1]) = n + 1
  BY <1>1 DEF QueuedPackets, NumberOf
<1> HIDE DEF n, t
<1>3. W \in Nat /\ Len(v) = W + 1 /\ v[W + 1] = n /\ \A i \in 1..W : v[i] = w[i] /\ w[i] \in Nat
  BY <1>2
<1> HIDE DEF v
<1>4. ASSUME NEW i \in 1..(W + 1), NEW j \in 1..(W + 1), i < j
      PROVE  v[i] < v[j]
  <2>1. i \in 1..W
    BY <1>3, <1>4
  <2>2. CASE j = W + 1
    <3>1. w[i] + 1 < NumberOf(s[1])
      BY <1>1, <2>1 DEF InOrder
    <3> QED
      BY <1>2, <1>3, <2>1, <2>2, <3>1
  <2>3. CASE j # W + 1
    <3>1. j \in 1..W
      BY <1>3, <2>3
    <3> QED
      BY <1>3, <1>4, <2>1, <3>1 DEF InOrder
  <2> QED
    BY <2>2, <2>3
<1>5. ASSUME NEW i \in 1..(L - 1), NEW j \in 1..(L - 1), i < j
      PROVE  NumberOf(t[i]) < NumberOf(t[j])
  <2>1. i + 1 \in 1..L /\ j + 1 \in 1..L /\ i + 1 < j + 1
    BY <1>1, <1>5
  <2> QED
    BY <1>1, <2>1 DEF InOrder
<1>6. ASSUME NEW i \in 1..(W + 1), NEW j \in 1..(L - 1)
      PROVE  v[i] + 1 < NumberOf(t[j])
  <2>1. j + 1 \in 1..L /\ 1 \in 1..L /\ 1 < j + 1 /\ t[j] = s[j + 1]
    BY <1>1
  <2>2. CASE i = W + 1
    <3>1. NumberOf(s[1]) < NumberOf(s[j + 1])
      BY <2>1 DEF InOrder
    <3> QED
      BY <1>2, <1>3, <2>1, <2>2, <3>1
  <2>3. CASE i # W + 1
    <3>1. i \in 1..W
      BY <1>3, <2>3
    <3> QED
      BY <1>3, <2>1, <3>1 DEF InOrder
  <2> QED
    BY <2>2, <2>3
<1>7. {v[i] + 1 : i \in 1..(W + 1)} = {w[i] + 1 : i \in 1..W} \cup {NumberOf(s[1])}
  <2>1. /\ \A i \in 1..(W + 1) : i = W + 1 \/ i \in 1..W
        /\ W + 1 \in 1..(W + 1) /\ \A i \in 1..W : i \in 1..(W + 1)
    BY <1>3
  <2> QED
    BY <1>2, <1>3, <2>1
<1>8. {NumberOf(s[i]) : i \in 1..L} = {NumberOf(s[1])} \cup {NumberOf(t[i]) : i \in 1..(L - 1)}
  <2>1. \A i \in 1..L : i = 1 \/ (i - 1 \in 1..(L - 1) /\ t[i - 1] = s[i])
    <3> SUFFICES ASSUME NEW i \in 1..L, i # 1
                 PROVE  i - 1 \in 1..(L - 1) /\ t[i - 1] = s[i]
      OBVIOUS
    <3>1. i - 1 \in 1..(L - 1) /\ (i - 1) + 1 = i
      BY <1>1
    <3>2. t[i - 1] = s[(i - 1) + 1]
      BY <1>1, <3>1
    <3> QED
      BY <3>1, <3>2
  <2>2. 1 \in 1..L /\ \A i \in 1..(L - 1) : i + 1 \in 1..L
    BY <1>1
  <2>3. ASSUME NEW i \in 1..L
        PROVE  NumberOf(s[i]) \in {NumberOf(s[1])} \cup {NumberOf(t[j]) : j \in 1..(L - 1)}
    BY <2>1
  <2>4. ASSUME NEW i \in 1..(L - 1)
        PROVE  NumberOf(t[i]) \in {NumberOf(s[j]) : j \in 1..L}
    BY <1>1, <2>2
  <2>5. NumberOf(s[1]) \in {NumberOf(s[j]) : j \in 1..L}
    BY <2>2
  <2> QED
    BY <2>3, <2>4, <2>5
<1>9. kept = {v[i] + 1 : i \in 1..(W + 1)} \cup {NumberOf(t[i]) : i \in 1..(L - 1)}
  BY <1>7, <1>8 DEF InOrder
<1> QED
  BY <1>1, <1>3, <1>4, <1>5, <1>6, <1>9 DEF InOrder, v, t, n

LEMMA KeptAppend ==
  ASSUME arrivals \in Seq(Arrivals), NEW x \in Arrivals, arrivals' = Append(arrivals, x)
  PROVE  /\ Kept \in SUBSET (1..Len(arrivals))
         /\ Kept' = Kept \cup (IF x.kept THEN {Len(arrivals) + 1} ELSE {})
<1> DEFINE m == Len(arrivals)
           u == Append(arrivals, x)
<1>1. /\ m \in Nat /\ DOMAIN arrivals = 1..m /\ DOMAIN u = 1..(m + 1) /\ u[m + 1] = x
      /\ \A i \in 1..m : u[i] = arrivals[i]
  OBVIOUS
<1> HIDE DEF u
<1>2. Kept = {n \in 1..m : arrivals[n].kept} /\ Kept' = {n \in 1..(m + 1) : u[n].kept}
  BY <1>1 DEF Kept, u
<1>3. \A n : n \in 1..(m + 1) <=> n \in 1..m \/ n = m + 1
  BY <1>1
<1>4. m + 1 \notin 1..m
  BY <1>1
<1> QED
  BY <1>1, <1>2, <1>3, <1>4

\* The steps that leave the packets of the link where they are, or move them
\* along it.
LEMMA ContentsStay ==
  ASSUME ServiceInv, CallWaitTime \/ CallPut \/ CallStart \/ LinkStep \/ UNCHANGED serviceVars
  PROVE  /\ LinkContents' = LinkContents /\ written' = written /\ arrivals' = arrivals
         /\ LinkStep \/ (/\ UNCHANGED <<output_queue_, linkTransit, internal_queue_>>
                         /\ departures' = departures)
<1>1. CASE LinkStep
  BY <1>1, StepsKeepContents DEF ServiceInv, LinkStep
<1>2. CASE CallWaitTime \/ CallPut
  BY <1>2 DEF CallWaitTime, CallPut, rationalize, queueVars, linkTransit, LinkContents,
     InTransit, historyVars
<1>3. CASE CallStart
  BY <1>3 DEF CallStart, start_link_trace, queueVars, linkTransit, LinkContents, InTransit
<1>4. CASE UNCHANGED serviceVars
  BY <1>4 DEF serviceVars, linkVars, queueVars, linkTransit, LinkContents, InTransit, historyVars
<1> QED
  BY <1>1, <1>2, <1>3, <1>4

LEMMA NumberedStep ==
  ASSUME QueueType # "drophead", ServiceInv, ServiceInv', HistoryTypeOK, HistoryTypeOK',
         HistorySound, Numbered, [ServiceNext]_serviceVars
  PROVE  Numbered'
<1>0. /\ LinkContents \in Seq(QueuedPackets) /\ written \in Seq(Nat)
      /\ arrivals \in Seq(Arrivals) /\ Len(arrivals) \in Nat
  BY ContentsIndexed DEF ServiceInv, LinkInv, HistoryTypeOK, Arrivals
<1>1. InOrder(written, LinkContents, Kept)
  BY <1>0, NumberedInOrder
<1>2. SUFFICES InOrder(written', LinkContents', Kept')
  <2>1. LinkContents' \in Seq(QueuedPackets)
    <3>1. LinkTypeOK' /\ TransitSound'
      BY DEF ServiceInv, LinkInv
    <3>2. (LinkTypeOK /\ TransitSound => LinkContents \in Seq(QueuedPackets))'
      BY ContentsIndexed, PTL
    <3> QED
      BY <3>1, <3>2
  <2>2. (HistoryTypeOK /\ LinkContents \in Seq(QueuedPackets)
           => (Numbered <=> InOrder(written, LinkContents, Kept)))'
    BY NumberedInOrder, PTL
  <2> QED
    BY <2>1, <2>2
<1>3. CASE CallWaitTime \/ CallPut \/ CallStart \/ LinkStep \/ UNCHANGED serviceVars
  <2>1. LinkContents' = LinkContents /\ written' = written /\ arrivals' = arrivals
    BY <1>3, ContentsStay
  <2>2. Kept' = Kept
    BY <2>1 DEF Kept
  <2> QED
    BY <1>1, <2>1, <2>2
<1>4. CASE FinishPut
  <2> DEFINE x == AsQueued(pending, rat_now)
             m == Len(arrivals)
  <2>1. /\ Recorded \in Arrivals /\ arrivals' = Append(arrivals, Recorded)
        /\ x \in QueuedPackets /\ pending \in QueuedPackets
    BY <1>4, RecordedType
  <2>2. NumberOf(x) = m + 1
    BY <1>4 DEF HistorySound, FinishPut, NumberOf, AsQueued
  <2>3. /\ Kept \in SUBSET (1..m)
        /\ Kept' = Kept \cup (IF Recorded.kept THEN {m + 1} ELSE {})
    BY <1>0, <2>1, KeptAppend
  <2>4. /\ \/ Recorded.kept /\ LinkContents' = Append(LinkContents, x)
           \/ ~ Recorded.kept /\ LinkContents' = LinkContents
        /\ written' = written
    BY <1>4, PutKeepsOrLoses
  <2> HIDE DEF x
  <2>5. CASE Recorded.kept
    <3> DEFINE s == LinkContents
               K == Kept
    <3>1. InOrder(written, Append(s, x), K \cup {m + 1})
      <4>1. s \in Seq(QueuedPackets) /\ K \in SUBSET (1..m) /\ InOrder(written, s, K)
        BY <1>0, <1>1, <2>3
      <4> HIDE DEF s, K, m
      <4>2. m \in Nat
        BY <1>0 DEF m
      <4> QED
        BY <1>0, <2>1, <2>2, <4>1, <4>2, InOrderAppend
    <3>2. Kept' = K \cup {m + 1} /\ LinkContents' = Append(s, x) /\ written' = written
      BY <2>3, <2>4, <2>5
    <3> QED
      BY <3>1, <3>2
  <2>6. CASE ~ Recorded.kept
    BY <1>1, <2>3, <2>4, <2>6
  <2> QED
    BY <2>5, <2>6
<1>5. CASE CallWrite
  <2>1. /\ LinkContents # <<>> /\ Head(LinkContents) = Head(output_queue_)
        /\ LinkContents' = Tail(LinkContents)
    BY <1>5, WriteTakesFirst DEF ServiceInv, CallWrite
  <2>2. written' = Append(written, Head(LinkContents).sequence_number) /\ arrivals' = arrivals
    BY <1>5, <2>1 DEF CallWrite
  <2>3. Kept' = Kept
    BY <2>2 DEF Kept
  <2> DEFINE s == LinkContents
  <2>4. InOrder(Append(written, Head(s).sequence_number), Tail(s), Kept)
    BY <1>0, <1>1, <2>1, InOrderWrite
  <2> QED
    BY <2>1, <2>2, <2>3, <2>4
<1> QED
  BY <1>3, <1>4, <1>5 DEF ServiceNext

\* The packets of a set have left at the opportunities f gives them.
Timed(f, gone, left, opps) ==
  /\ gone = {<<n, opps[f[n].opp]>> : n \in left}
  /\ \A n \in left : f[n].opp \in 1..Len(opps)

LEMMA TimedLater ==
  ASSUME NEW f, NEW gone, NEW left, NEW opps \in Seq(Nat), NEW t \in Nat,
         Timed(f, gone, left, opps)
  PROVE  Timed(f, gone, left, Append(opps, t))
<1> DEFINE u == Append(opps, t)
<1>1. /\ Len(opps) \in Nat /\ Len(u) = Len(opps) + 1
      /\ \A k \in 1..Len(opps) : u[k] = opps[k] /\ k \in 1..Len(u)
  OBVIOUS
<1> HIDE DEF u
<1>2. \A n \in left : f[n].opp \in 1..Len(opps)
  BY DEF Timed
<1>3. \A n \in left : u[f[n].opp] = opps[f[n].opp] /\ f[n].opp \in 1..Len(u)
  BY <1>1, <1>2
<1>4. {<<n, u[f[n].opp]>> : n \in left} = {<<n, opps[f[n].opp]>> : n \in left}
  BY <1>3
<1> QED
  BY <1>3, <1>4 DEF Timed, u

LEMMA TimedOneMore ==
  ASSUME NEW f, NEW gone, NEW left, NEW opps, NEW n, Timed(f, gone, left, opps),
         f[n].opp \in 1..Len(opps)
  PROVE  Timed(f, gone \cup {<<n, opps[f[n].opp]>>}, left \cup {n}, opps)
<1>1. {<<i, opps[f[i].opp]>> : i \in left \cup {n}}
        = {<<i, opps[f[i].opp]>> : i \in left} \cup {<<n, opps[f[n].opp]>>}
  OBVIOUS
<1> QED
  BY <1>1 DEF Timed

LEMMA TimedAgain ==
  ASSUME NEW f, NEW g, NEW gone, NEW left, NEW opps, Timed(f, gone, left, opps),
         \A n \in left : g[n] = f[n]
  PROVE  Timed(g, gone, left, opps)
<1>1. {<<n, opps[g[n].opp]>> : n \in left} = {<<n, opps[f[n].opp]>> : n \in left}
  OBVIOUS
<1> QED
  BY <1>1 DEF Timed

\* What is left to send is some bytes and no more than an opportunity has, and
\* the cursor is a place.
LEMMA RestType ==
  ASSUME LinkTypeOK, TransitSound, HistoryTypeOK
  PROVE  /\ Len(output_queue_) < Len(LinkContents) => Rest \in 1..PACKET_SIZE
         /\ Cursor \in Places
<1>1. /\ LinkContents \in Seq(QueuedPackets) /\ Len(output_queue_) \in Nat
      /\ packet_in_transit_bytes_left_ \in Nat /\ bytes_left_in_this_delivery \in 0..PACKET_SIZE
      /\ PACKET_SIZE \in Nat /\ Len(opportunities) \in Nat
  BY ContentsIndexed, PacketAssumption DEF LinkTypeOK, HistoryTypeOK
<1>2. ASSUME Len(output_queue_) < Len(LinkContents)
      PROVE  Rest \in 1..PACKET_SIZE
  <2>1. CASE packet_in_transit_bytes_left_ > 0
    <3>1. packet_in_transit_.size \in 1..PACKET_SIZE
      BY <2>1 DEF TransitSound, QueuedPackets
    <3>2. packet_in_transit_bytes_left_ \in 1..PACKET_SIZE
      BY <1>1, <2>1, <3>1 DEF TransitSound
    <3> QED
      BY <2>1, <3>2 DEF Rest
  <2>2. CASE ~ (packet_in_transit_bytes_left_ > 0)
    <3> DEFINE s == LinkContents
               k == Len(output_queue_) + 1
    <3>1. k \in 1..Len(s) /\ s \in Seq(QueuedPackets)
      BY <1>1, <1>2
    <3> HIDE DEF s, k
    <3>2. s[k] \in QueuedPackets
      BY <3>1
    <3>3. s[k].size \in 1..PACKET_SIZE
      BY <3>2 DEF QueuedPackets
    <3> QED
      BY <2>2, <3>3 DEF Rest, s, k
  <2> QED
    BY <2>1, <2>2
<1>3. Cursor \in Places
  <2>1. PACKET_SIZE - bytes_left_in_this_delivery \in 0..PACKET_SIZE /\ PACKET_SIZE \in 0..PACKET_SIZE
    BY <1>1
  <2> QED
    BY <1>1, <2>1 DEF Cursor, Places
<1> QED
  BY <1>2, <1>3

\* Both parts of the invariant about f, as the operators on values state them.
LEMMA OnTimeInValues ==
  ASSUME NEW f
  PROVE  /\ LeftOnTime(f) <=> Timed(f, departures, Left, opportunities)
         /\ WaitingOnTime(f) <=>
              Waits(f, LinkContents, Len(output_queue_), Cursor, Rest, Len(arrivals))
BY DEF LeftOnTime, Timed, WaitingOnTime

\* The call of rationalize, and no step at all, leave all this alone.
LEMMA CallsOnTime ==
  ASSUME ServiceInv, NEW f, Finishes(f, arrivals), LeftOnTime(f), WaitingOnTime(f),
         CallWaitTime \/ CallPut \/ UNCHANGED serviceVars
  PROVE  Finishes(f, arrivals)' /\ LeftOnTime(f)' /\ WaitingOnTime(f)'
<1>1. /\ LinkContents' = LinkContents /\ written' = written /\ arrivals' = arrivals
      /\ UNCHANGED <<output_queue_, linkTransit>> /\ departures' = departures
      /\ opportunities' = opportunities
  <2>1. ~ LinkStep \/ UNCHANGED serviceVars
    BY DEF CallWaitTime, CallPut, LinkStep, rationalize, rationalize_steps, CanCall,
       burn_opportunity, rationalize_return, opportunity_done, fetch_packet, send_bytes
  <2> QED
    BY <2>1, ContentsStay DEF CallWaitTime, CallPut, serviceVars, linkVars, historyVars
<1>2. Cursor' = Cursor
  <2>1. \/ link_pc' = link_pc /\ bytes_left_in_this_delivery' = bytes_left_in_this_delivery
        \/ link_pc = "idle" /\ link_pc' = "burn"
    BY DEF CallWaitTime, CallPut, rationalize, serviceVars, linkVars, linkLocals
  <2> QED
    BY <1>1, <2>1 DEF Cursor
<1>3. Rest' = Rest /\ Left' = Left
  BY <1>1 DEF Rest, Left, linkTransit
<1> QED
  BY <1>1, <1>2, <1>3 DEF LeftOnTime, WaitingOnTime, Finishes

\* The trace is started before any packet is put on the link.
LEMMA StartOnTime ==
  ASSUME ServiceInv, HistoryTypeOK, HistorySound, Numbered, NEW f, Finishes(f, arrivals),
         LeftOnTime(f), CallStart
  PROVE  Finishes(f, arrivals)' /\ LeftOnTime(f)' /\ WaitingOnTime(f)'
<1>1. arrivals = <<>> /\ opportunities' = <<>>
  BY DEF CallStart, HistorySound
<1>2. LinkContents' = LinkContents /\ written' = written /\ arrivals' = arrivals
      /\ output_queue_' = output_queue_ /\ departures' = departures
  BY ContentsStay DEF CallStart, start_link_trace
<1>3. /\ LinkContents \in Seq(QueuedPackets) /\ Len(LinkContents) \in Nat
      /\ Len(output_queue_) \in Nat /\ Len(output_queue_) <= Len(LinkContents)
      /\ written \in Seq(Nat) /\ Len(written) \in Nat /\ output_queue_ \in Seq(QueuedPackets)
  BY ContentsIndexed DEF ServiceInv, LinkInv, HistoryTypeOK, LinkTypeOK
<1>4. Kept = {}
  BY <1>1 DEF Kept
<1>5. 1..Len(written) = {} /\ 1..Len(LinkContents) = {}
  BY <1>3, <1>4, NumberedInOrder DEF InOrder
<1>6. Len(written) = 0 /\ Len(LinkContents) = 0 /\ Len(output_queue_) = 0
  <2>1. \A k \in Nat : 1..k = {} => k = 0
    <3>1. \A k \in Nat : k # 0 => 1 \in 1..k
      OBVIOUS
    <3> QED
      BY <3>1
  <2> DEFINE s == LinkContents
  <2>2. Len(written) = 0 /\ Len(s) = 0
    <3> HIDE DEF s
    <3> QED
      BY <1>3, <1>5, <2>1 DEF s
  <2> QED
    BY <1>3, <2>2
<1>7. Left = {} /\ Left' = {}
  <2>1. DOMAIN written = {} /\ DOMAIN output_queue_ = {}
    BY <1>3, <1>6
  <2>2. Left = {}
    BY <2>1 DEF Left
  <2> QED
    BY <1>2, <2>2 DEF Left
<1>8. departures = {}
  BY <1>7 DEF LeftOnTime
<1>9. LeftOnTime(f)'
  BY <1>2, <1>7, <1>8 DEF LeftOnTime
<1>10. f[0].opp = 0 /\ Len(arrivals) = 0 /\ Len(opportunities') = 0
  BY <1>1 DEF Finishes
<1>11. WaitingOnTime(f)'
  <2>1. (0 + 2)..0 = {}
    OBVIOUS
  <2>2. Cursor'.opp = 0
    BY <1>10 DEF Cursor
  <2> QED
    BY <1>2, <1>6, <1>10, <2>1, <2>2 DEF WaitingOnTime, Waits
<1> QED
  BY <1>2, <1>9, <1>11 DEF Finishes

\* A packet is put.
LEMMA PutOnTime ==
  ASSUME QueueType # "drophead", ServiceInv, HistoryTypeOK, HistorySound, Numbered, NEW f,
         Finishes(f, arrivals), LeftOnTime(f), WaitingOnTime(f), FinishPut
  PROVE  \E g : Finishes(g, arrivals)' /\ LeftOnTime(g)' /\ WaitingOnTime(g)'
<1> DEFINE m == Len(arrivals)
           s == LinkContents
           out == Len(output_queue_)
           x == AsQueued(pending, rat_now)
           a == Recorded
           c == Cursor
           r == Rest
<1>1. /\ a \in Arrivals /\ arrivals' = Append(arrivals, a)
      /\ x \in QueuedPackets /\ pending \in QueuedPackets /\ arrivals \in Seq(Arrivals)
      /\ m \in Nat
  BY RecordedType DEF HistoryTypeOK, Arrivals
<1>2. PICK g : /\ Finishes(g, Append(arrivals, a))
               /\ \A i \in 0..m : g[i] = f[i]
               /\ g[m + 1] = Follow(f[m], a, a.seen + 1)
  BY <1>1, FinishesAppend
<1>3. /\ s \in Seq(QueuedPackets) /\ Len(s) \in Nat /\ out \in Nat /\ out <= Len(s)
      /\ \A i \in 1..out : s[i] = output_queue_[i]
      /\ output_queue_ \in Seq(QueuedPackets)
      /\ c \in Places /\ (out < Len(s) => r \in 1..PACKET_SIZE)
  BY ContentsIndexed, RestType DEF ServiceInv, LinkInv, LinkTypeOK
<1>4. InOrder(written, s, Kept) /\ Kept \in SUBSET (1..m)
  BY <1>1, <1>3, NumberedInOrder, KeptAppend
<1>5. \A i \in 1..Len(s) : NumberOf(s[i]) \in 1..m
  BY <1>4 DEF InOrder
<1>6. NumberOf(x) = m + 1 /\ x.size = pending.size
  BY <1>1 DEF HistorySound, FinishPut, NumberOf, AsQueued
<1>7. /\ a.size = x.size /\ a.seen = Len(opportunities) /\ c.opp = Len(opportunities)
      /\ c.used = PACKET_SIZE /\ link_pc = "idle"
  BY <1>6 DEF Recorded, Cursor, FinishPut, put_packet_to_link_queue
<1>8. /\ \/ a.kept /\ LinkContents' = Append(s, x)
         \/ ~ a.kept /\ LinkContents' = s
      /\ UNCHANGED <<output_queue_, linkTransit, linkLocals, opportunities, departures, written>>
  BY PutKeepsOrLoses
<1>9. Left \subseteq 0..m /\ Left' = Left
  <2>1. \A i \in 1..Len(written) : written[i] + 1 \in 1..m
    BY <1>4 DEF InOrder
  <2>2. \A i \in 1..out : NumberOf(output_queue_[i]) \in 1..m
    <3>1. \A i \in 1..out : i \in 1..Len(s)
      BY <1>3
    <3> QED
      BY <1>3, <1>5, <3>1
  <2>3. DOMAIN written = 1..Len(written) /\ DOMAIN output_queue_ = 1..out
    BY <1>3 DEF HistoryTypeOK
  <2>4. 1..m \subseteq 0..m
    BY <1>1
  <2> QED
    BY <1>8, <2>1, <2>2, <2>3, <2>4 DEF Left
<1>10. LeftOnTime(g)'
  <2>1. Timed(g, departures, Left, opportunities)
    BY <1>2, <1>9, OnTimeInValues, TimedAgain
  <2> QED
    BY <1>8, <1>9, <2>1 DEF LeftOnTime, Timed
<1>11. Cursor' = c
  BY <1>8 DEF Cursor, linkLocals
<1>12. /\ f \in [0..m -> Places] /\ \A i, j \in 0..m : i <= j => f[i].opp <= f[j].opp
       /\ Waits(f, s, out, c, r, m)
  BY OnTimeInValues DEF Finishes
<1>13. Len(arrivals') = m + 1 /\ Len(output_queue_') = out
  BY <1>1, <1>8
<1>14. WaitingOnTime(g)' <=> Waits(g, LinkContents', out, c, Rest', m + 1)
  BY <1>11, <1>13 DEF WaitingOnTime
<1>15. CASE a.kept
  <2>1. LinkContents' = Append(s, x)
    BY <1>8, <1>15
  <2>2. out < Len(s) => Rest' = r
    <3> SUFFICES ASSUME out < Len(s) PROVE Rest' = r
      OBVIOUS
    <3>1. out + 1 \in 1..Len(s)
      BY <1>3
    <3>2. Append(s, x)[out + 1] = s[out + 1]
      <4> HIDE DEF s, x, out
      <4> QED
        BY <1>1, <1>3, <3>1
    <3> QED
      BY <1>8, <2>1, <3>2 DEF Rest, linkTransit
  <2>3. out = Len(s) => Rest' = x.size
    <3> SUFFICES ASSUME out = Len(s) PROVE Rest' = x.size
      OBVIOUS
    <3>1. packet_in_transit_bytes_left_ \in Nat /\ ~ (packet_in_transit_bytes_left_ > 0)
      BY <1>3, ContentsIndexed DEF ServiceInv, LinkInv, LinkTypeOK
    <3>2. Append(s, x)[out + 1] = x
      <4> HIDE DEF s, x, out
      <4> QED
        BY <1>1, <1>3
    <3> QED
      BY <1>8, <2>1, <3>1, <3>2 DEF Rest, linkTransit
  <2> DEFINE left == Rest'
  <2>4. /\ out < Len(s) => r \in 1..PACKET_SIZE /\ left = r
        /\ out = Len(s) => left = x.size
    BY <1>3, <2>2, <2>3
  <2>5. g[m + 1] = Follow(f[m], a, c.opp + 1)
    BY <1>2, <1>7
  <2> HIDE DEF s, out, c, r, left, a, x, m
  <2>6. Waits(g, Append(s, x), out, c, left, m + 1)
    BY <1>1, <1>2, <1>3, <1>5, <1>6, <1>7, <1>12, <1>15, <2>4, <2>5, WaitsPut
  <2> QED
    BY <1>1, <1>2, <1>10, <1>14, <2>1, <2>6 DEF left
<1>16. CASE ~ a.kept
  <2>1. LinkContents' = s /\ Rest' = r
    BY <1>8, <1>16 DEF Rest, linkTransit
  <2>2. g[m + 1] = f[m]
    BY <1>2, <1>16 DEF Follow
  <2> HIDE DEF s, out, c, r, a, x, m
  <2>3. Waits(g, s, out, c, r, m + 1)
    BY <1>1, <1>2, <1>3, <1>5, <1>12, <2>2, WaitsLost
  <2> QED
    BY <1>1, <1>2, <1>10, <1>14, <2>1, <2>3
<1> QED
  BY <1>15, <1>16

\* A packet that has left the link is written.
LEMMA WriteOnTime ==
  ASSUME ServiceInv, HistoryTypeOK, NEW f, Finishes(f, arrivals), LeftOnTime(f),
         WaitingOnTime(f), CallWrite
  PROVE  Finishes(f, arrivals)' /\ LeftOnTime(f)' /\ WaitingOnTime(f)'
<1> DEFINE s == LinkContents
           o == output_queue_
           out == Len(output_queue_)
           w == written
<1>1. /\ s # <<>> /\ LinkContents' = Tail(s)
  BY WriteTakesFirst DEF ServiceInv, CallWrite
<1>2. /\ output_queue_' = Tail(o) /\ o # <<>> /\ written' = Append(w, Head(o).sequence_number)
      /\ UNCHANGED <<linkTransit, linkLocals, arrivals, opportunities, departures>>
  BY DEF CallWrite, write_one_from_link_queue
<1>3. /\ s \in Seq(QueuedPackets) /\ Len(s) \in Nat /\ out \in Nat /\ out <= Len(s)
      /\ o \in Seq(QueuedPackets) /\ w \in Seq(Nat) /\ out > 0 /\ Len(w) \in Nat
      /\ Head(o) = o[1] /\ o[1] \in QueuedPackets
  <2>1. /\ s \in Seq(QueuedPackets) /\ Len(s) \in Nat /\ out \in Nat /\ out <= Len(s)
        /\ o \in Seq(QueuedPackets) /\ w \in Seq(Nat)
    BY ContentsIndexed DEF ServiceInv, LinkInv, LinkTypeOK, HistoryTypeOK
  <2> HIDE DEF s
  <2> QED
    BY <1>2, <2>1
<1>4. /\ Len(output_queue_') = out - 1 /\ DOMAIN output_queue_' = 1..(out - 1)
      /\ \A i \in 1..(out - 1) : output_queue_'[i] = o[i + 1]
  BY <1>2, <1>3
<1>5. /\ DOMAIN written' = 1..(Len(w) + 1) /\ written'[Len(w) + 1] = o[1].sequence_number
      /\ \A i \in 1..Len(w) : written'[i] = w[i]
  <2>1. o[1].sequence_number \in Nat
    BY <1>3 DEF QueuedPackets
  <2> QED
    BY <1>2, <1>3, <2>1
<1>6. Left' = Left
  <2>1. /\ Left = {w[i] + 1 : i \in 1..Len(w)} \cup {NumberOf(o[i]) : i \in 1..out}
        /\ Left' = {written'[i] + 1 : i \in 1..(Len(w) + 1)}
                     \cup {NumberOf(output_queue_'[i]) : i \in 1..(out - 1)}
    <3>1. DOMAIN written = 1..Len(w) /\ DOMAIN output_queue_ = 1..out
      BY <1>3
    <3>2. Left = {w[i] + 1 : i \in 1..Len(w)} \cup {NumberOf(o[i]) : i \in 1..out}
      BY <3>1, Zenon DEF Left
    <3>3. Left' = {written'[i] + 1 : i \in 1..(Len(w) + 1)}
                    \cup {NumberOf(output_queue_'[i]) : i \in 1..(out - 1)}
      BY <1>4, <1>5, Zenon DEF Left
    <3> QED
      BY <3>2, <3>3
  <2>2. ASSUME NEW i \in 1..(Len(w) + 1)
        PROVE  written'[i] + 1 \in Left
    <3>1. CASE i = Len(w) + 1
      <4>1. 1 \in 1..out /\ written'[i] + 1 = NumberOf(o[1])
        BY <1>3, <1>5, <3>1 DEF NumberOf
      <4> QED
        BY <2>1, <4>1
    <3>2. CASE i # Len(w) + 1
      <4>1. i \in 1..Len(w)
        BY <1>3, <3>2
      <4> QED
        BY <1>5, <2>1, <4>1
    <3> QED
      BY <3>1, <3>2
  <2>3. ASSUME NEW i \in 1..(out - 1)
        PROVE  NumberOf(output_queue_'[i]) \in Left
    <3>1. i + 1 \in 1..out
      BY <1>3
    <3> QED
      BY <1>4, <2>1, <3>1
  <2>4. ASSUME NEW i \in 1..Len(w)
        PROVE  w[i] + 1 \in Left'
    <3>1. i \in 1..(Len(w) + 1) /\ written'[i] = w[i]
      BY <1>3, <1>5
    <3> QED
      BY <2>1, <3>1
  <2>5. ASSUME NEW i \in 1..out
        PROVE  NumberOf(o[i]) \in Left'
    <3>1. CASE i = 1
      <4>1. Len(w) + 1 \in 1..(Len(w) + 1) /\ written'[Len(w) + 1] + 1 = NumberOf(o[1])
        BY <1>3, <1>5 DEF NumberOf
      <4> QED
        BY <2>1, <3>1, <4>1
    <3>2. CASE i # 1
      <4>1. i - 1 \in 1..(out - 1) /\ (i - 1) + 1 = i
        BY <1>3, <3>2
      <4>2. output_queue_'[i - 1] = o[i]
        BY <1>4, <4>1
      <4> QED
        BY <2>1, <4>1, <4>2
    <3> QED
      BY <3>1, <3>2
  <2>6. Left' \subseteq Left
    <3> DEFINE L == Left
    <3>1. /\ \A i \in 1..(Len(w) + 1) : written'[i] + 1 \in L
          /\ \A i \in 1..(out - 1) : NumberOf(output_queue_'[i]) \in L
      BY <2>2, <2>3
    <3> HIDE DEF L
    <3>2. Left' \subseteq L
      BY <2>1, <3>1
    <3> QED
      BY <3>2 DEF L
  <2>7. Left \subseteq Left'
    <3> DEFINE L == Left'
    <3>1. /\ \A i \in 1..Len(w) : w[i] + 1 \in L
          /\ \A i \in 1..out : NumberOf(o[i]) \in L
      BY <2>4, <2>5
    <3> HIDE DEF L
    <3>2. Left \subseteq L
      BY <2>1, <3>1
    <3> QED
      BY <3>2 DEF L
  <2> QED
    BY <2>6, <2>7
<1>7. LeftOnTime(f)' /\ Finishes(f, arrivals)'
  BY <1>2, <1>6 DEF LeftOnTime, Finishes
<1>8. Cursor' = Cursor
  BY <1>2 DEF Cursor, linkLocals
<1> DEFINE c == Cursor
           r == Rest
           m == Len(arrivals)
           left == Rest'
<1>9. Waits(f, s, out, c, r, m)
  BY OnTimeInValues
<1>10. out < Len(s) => left = r
  <2> SUFFICES ASSUME out < Len(s) PROVE left = r
    OBVIOUS
  <2>1. (out - 1) + 1 = out /\ out \in 1..(Len(s) - 1)
    BY <1>3
  <2>2. Tail(s)[out] = s[out + 1]
    <3> HIDE DEF s, out
    <3> QED
      BY <1>1, <1>3, <2>1
  <2>3. LinkContents'[Len(output_queue_') + 1] = s[out + 1]
    BY <1>1, <1>4, <2>1, <2>2
  <2> QED
    BY <1>2, <2>3 DEF Rest, linkTransit
<1>11. Waits(f, s, out, c, left, m)
  <2> HIDE DEF s, out, c, r, m, left
  <2> QED
    BY <1>9, <1>10, WaitsForCursor
<1>12. Waits(f, Tail(s), out - 1, c, left, m)
  <2> HIDE DEF s, out, c, r, m, left
  <2> QED
    BY <1>1, <1>3, <1>11, WaitsTail
<1>13. WaitingOnTime(f)'
  BY <1>1, <1>2, <1>4, <1>8, <1>12 DEF WaitingOnTime
<1> QED
  BY <1>7, <1>13

\* The steps of the replay that send nothing: what has left is the same.
LEMMA ReplayKeepsLeft ==
  ASSUME HistoryTypeOK, LinkTypeOK, NEW f, LeftOnTime(f), LinkStep,
         output_queue_' = output_queue_,
         \/ opportunities' = opportunities
         \/ opportunities' = Append(opportunities, next_delivery_time) /\ next_delivery_time \in Nat
  PROVE  LeftOnTime(f)' /\ Left' = Left /\ departures' = departures
<1>1. Len(output_queue_) \in Nat
  BY DEF LinkTypeOK
<1>2. ~ (Len(output_queue_') > Len(output_queue_))
  BY <1>1
<1>3. departures' = departures /\ Left' = Left
  BY <1>2 DEF LinkStep, Left
<1>4. Timed(f, departures, Left, opportunities)
  BY OnTimeInValues
<1>5. Timed(f, departures, Left, opportunities')
  BY <1>4, TimedLater DEF HistoryTypeOK
<1> QED
  BY <1>3, <1>5 DEF Timed, LeftOnTime

\* The next opportunity begins, or the replay ends, or what is left of an
\* opportunity is lost because nothing waits.
LEMMA TurnOnTime ==
  ASSUME ServiceInv, HistoryTypeOK, NEW f, Finishes(f, arrivals), LeftOnTime(f),
         WaitingOnTime(f), LinkStep,
         burn_opportunity \/ rationalize_return \/ opportunity_done
  PROVE  Finishes(f, arrivals)' /\ LeftOnTime(f)' /\ WaitingOnTime(f)'
<1> DEFINE s == LinkContents
           out == Len(output_queue_)
           O == Len(opportunities)
           c == Cursor
           d == Cursor'
           r == Rest
           m == Len(arrivals)
<1>0. LinkTypeOK /\ TransitSound
  BY DEF ServiceInv, LinkInv
<1>1. /\ UNCHANGED <<output_queue_, linkTransit, internal_queue_>> /\ arrivals' = arrivals
      /\ LinkContents' = s
  <2>1. UNCHANGED <<output_queue_, linkTransit, queueVars>>
    BY DEF burn_opportunity, rationalize_return, opportunity_done
  <2> QED
    BY <2>1, ContentsStay DEF queueVars
<1>2. Rest' = r /\ Len(output_queue_') = out
  BY <1>1 DEF Rest, linkTransit
<1>3. /\ out < Len(s) => r \in 1..PACKET_SIZE
      /\ c \in Places /\ O \in Nat /\ PACKET_SIZE \in Nat /\ out \in Nat /\ Len(s) \in Nat
  BY <1>0, RestType, ContentsIndexed, PacketAssumption DEF HistoryTypeOK
<1>4. Waits(f, s, out, c, r, m)
  BY OnTimeInValues
<1>5. /\ LeftOnTime(f)'
      /\ out < Len(s) => Send(d, r) = Send(c, r)
      /\ c.opp <= d.opp /\ c.opp \in Nat /\ d.opp \in Nat
  <2>1. CASE burn_opportunity
    <3>1. /\ opportunities' = Append(opportunities, next_delivery_time)
          /\ next_delivery_time \in Nat
      BY <2>1, ReplayedOpportunity
    <3>2. LeftOnTime(f)'
      BY <1>0, <1>1, <3>1, ReplayKeepsLeft
    <3>3. Len(opportunities') = O + 1
      BY <3>1 DEF HistoryTypeOK
    <3>4. link_pc = "burn" /\ link_pc' = "deliver" /\ bytes_left_in_this_delivery' = PACKET_SIZE
      BY <2>1 DEF burn_opportunity
    <3>5. c = [opp |-> O, used |-> PACKET_SIZE] /\ d = [opp |-> O + 1, used |-> 0]
      <4>1. PACKET_SIZE - PACKET_SIZE = 0
        BY <1>3
      <4> QED
        BY <3>3, <3>4, <4>1 DEF Cursor
    <3>6. out < Len(s) => Send(d, r) = Send(c, r)
      BY <1>3, <3>5, NextOpportunity
    <3>7. c.opp = O /\ d.opp = O + 1
      BY <3>5
    <3>8. c.opp <= d.opp /\ c.opp \in Nat /\ d.opp \in Nat
      <4> HIDE DEF c, d, O
      <4> QED
        BY <1>3, <3>7
    <3> QED
      BY <3>2, <3>6, <3>8
  <2>2. CASE rationalize_return \/ opportunity_done
    <3>1. opportunities' = opportunities
      <4>1. ~ burn_opportunity
        BY <2>2 DEF burn_opportunity, rationalize_return, opportunity_done
      <4> QED
        BY <4>1, OtherSteps
    <3>2. LeftOnTime(f)'
      BY <1>0, <1>1, <3>1, ReplayKeepsLeft
    <3>3. c.opp = O /\ d.opp = O
      BY <3>1 DEF Cursor
    <3>4. out < Len(s) => d = c
      <4> SUFFICES ASSUME out < Len(s) PROVE d = c
        OBVIOUS
      <4>1. CASE rationalize_return
        BY <3>1, <4>1 DEF rationalize_return, Cursor
      <4>2. CASE opportunity_done
        <5>1. bytes_left_in_this_delivery = 0
          <6>1. ~ (packet_in_transit_bytes_left_ = 0 /\ internal_queue_ = <<>>)
            BY <1>0, <1>3, ContentsIndexed
          <6> QED
            BY <4>2, <6>1 DEF opportunity_done, empty
        <5>2. link_pc = "deliver" /\ link_pc' = "burn" /\ PACKET_SIZE - 0 = PACKET_SIZE
          BY <1>3, <4>2 DEF opportunity_done
        <5> QED
          BY <3>1, <5>1, <5>2 DEF Cursor
      <4> QED
        BY <2>2, <4>1, <4>2
    <3>5. c.opp <= d.opp /\ c.opp \in Nat /\ d.opp \in Nat
      <4> HIDE DEF c, d, O
      <4> QED
        BY <1>3, <3>3
    <3> QED
      BY <3>2, <3>4, <3>5
  <2> QED
    BY <2>1, <2>2
<1>6. f[m].opp \in Nat
  <2>1. m \in 0..m /\ f \in [0..m -> Places]
    BY DEF HistoryTypeOK, Finishes
  <2>2. f[m] \in Places
    BY <2>1
  <2> QED
    BY <2>2 DEF Places
<1>7. Waits(f, s, out, d, r, m)
  <2> HIDE DEF s, out, c, d, r, m
  <2>1. out = Len(s) /\ f[m].opp <= c.opp => f[m].opp <= d.opp
    BY <1>5, <1>6
  <2> QED
    BY <1>4, <1>5, <2>1, WaitsForCursor
<1>8. WaitingOnTime(f)'
  BY <1>1, <1>2, <1>7 DEF WaitingOnTime
<1> QED
  BY <1>1, <1>5, <1>8 DEF Finishes

\* A packet is taken to send from.
LEMMA FetchOnTime ==
  ASSUME ServiceInv, HistoryTypeOK, NEW f, Finishes(f, arrivals), LeftOnTime(f),
         WaitingOnTime(f), LinkStep, fetch_packet
  PROVE  Finishes(f, arrivals)' /\ LeftOnTime(f)' /\ WaitingOnTime(f)'
<1>0. LinkTypeOK /\ TransitSound
  BY DEF ServiceInv, LinkInv
<1>1. /\ output_queue_' = output_queue_ /\ arrivals' = arrivals
      /\ LinkContents' = LinkContents /\ opportunities' = opportunities
      /\ link_pc = "deliver" /\ link_pc' = "send"
      /\ bytes_left_in_this_delivery' = bytes_left_in_this_delivery
  <2>1. ~ burn_opportunity
    BY DEF burn_opportunity, fetch_packet
  <2> QED
    BY <2>1, ContentsStay, OtherSteps DEF fetch_packet
<1>2. LeftOnTime(f)'
  BY <1>0, <1>1, ReplayKeepsLeft
<1>3. Cursor' = Cursor
  BY <1>1 DEF Cursor
<1>4. Rest' = Rest
  <2>1. CASE packet_in_transit_bytes_left_ > 0
    <3>1. packet_in_transit_bytes_left_ # 0
      BY <2>1
    <3>2. packet_in_transit_bytes_left_' = packet_in_transit_bytes_left_
      BY <3>1, Zenon DEF fetch_packet, linkTransit
    <3> QED
      BY <1>1, <3>2 DEF Rest
  <2>2. CASE ~ (packet_in_transit_bytes_left_ > 0)
    <3>1. /\ internal_queue_ # <<>> /\ packet_in_transit_bytes_left_ = 0
          /\ packet_in_transit_bytes_left_' = Head(internal_queue_).size
      BY <1>0, <2>2 DEF fetch_packet, dequeue, empty, LinkTypeOK
    <3>2. LinkContents[Len(output_queue_) + 1] = Head(internal_queue_)
      BY <1>0, <3>1, ContentsIndexed
    <3>3. Head(internal_queue_) \in QueuedPackets
      BY <1>0, <3>1, HeadTailProperties DEF LinkTypeOK
    <3>4. packet_in_transit_bytes_left_' > 0
      BY <3>1, <3>3, PacketAssumption DEF QueuedPackets
    <3> QED
      BY <2>2, <3>1, <3>2, <3>4 DEF Rest
  <2> QED
    BY <2>1, <2>2
<1> QED
  BY <1>1, <1>2, <1>3, <1>4 DEF WaitingOnTime, Finishes

\* Bytes are sent: the cursor moves by as many as the packet has fewer left, and
\* a packet that has none left ends where the cursor is.
LEMMA SendOnTime ==
  ASSUME ServiceInv, HistoryTypeOK, HistorySound, NEW f, Finishes(f, arrivals), LeftOnTime(f),
         WaitingOnTime(f), LinkStep, send_bytes
  PROVE  Finishes(f, arrivals)' /\ LeftOnTime(f)' /\ WaitingOnTime(f)'
<1> DEFINE s == LinkContents
           out == Len(output_queue_)
           O == Len(opportunities)
           b == packet_in_transit_bytes_left_
           y == bytes_left_in_this_delivery
           c == Cursor
           d == Cursor'
           r == Rest
           left == Rest'
           m == Len(arrivals)
<1>0. LinkTypeOK /\ TransitSound
  BY DEF ServiceInv, LinkInv
<1>1. /\ arrivals' = arrivals /\ LinkContents' = s /\ opportunities' = opportunities
      /\ link_pc = "send" /\ link_pc' = "deliver"
  <2>1. ~ burn_opportunity
    BY DEF burn_opportunity, send_bytes
  <2> QED
    BY <2>1, ContentsStay, OtherSteps DEF send_bytes
<1>2. /\ b \in Nat /\ b > 0 /\ y \in 0..PACKET_SIZE /\ y > 0 /\ PACKET_SIZE \in Nat
      /\ packet_in_transit_ \in QueuedPackets /\ b \in 1..PACKET_SIZE
  <2>1. /\ b \in Nat /\ b > 0 /\ y \in 0..PACKET_SIZE /\ y > 0 /\ PACKET_SIZE \in Nat
        /\ packet_in_transit_ \in QueuedPackets /\ b <= packet_in_transit_.size
    BY <1>0, <1>1, PacketAssumption DEF LinkTypeOK, TransitSound
  <2>2. packet_in_transit_.size \in 1..PACKET_SIZE
    BY <2>1 DEF QueuedPackets
  <2>3. b \in 1..PACKET_SIZE
    BY <2>1, <2>2
  <2> QED
    BY <2>1, <2>3
<1>3. /\ s \in Seq(QueuedPackets) /\ Len(s) \in Nat /\ out \in Nat /\ out < Len(s)
      /\ s[out + 1] = packet_in_transit_ /\ O \in Nat
      /\ output_queue_ \in Seq(QueuedPackets)
  BY <1>0, <1>2, ContentsIndexed DEF HistoryTypeOK, LinkTypeOK
<1>4. Waits(f, s, out, c, r, m) /\ r = b
  BY <1>2, OnTimeInValues DEF Rest
<1>5. f[NumberOf(packet_in_transit_)] = Send(c, b)
  BY <1>3, <1>4 DEF Waits
<1>6. c = [opp |-> O, used |-> PACKET_SIZE - y]
  BY <1>1 DEF Cursor
<1>7. /\ packet_in_transit_bytes_left_' = b - amount_to_send
      /\ bytes_left_in_this_delivery' = y - amount_to_send
  BY DEF send_bytes
<1>8. d = [opp |-> O, used |-> PACKET_SIZE - (y - amount_to_send)]
  BY <1>1, <1>7 DEF Cursor
<1>9. PACKET_SIZE - (PACKET_SIZE - y) = y
  BY <1>2
<1>10. CASE b <= y
  <2>1. amount_to_send = b
    BY <1>2, <1>10 DEF amount_to_send
  <2>2. Send(c, b) = d /\ d.opp = O
    <3>1. Send(c, b) = [opp |-> O, used |-> (PACKET_SIZE - y) + b]
      BY <1>6, <1>9, <1>10 DEF Send
    <3>2. (PACKET_SIZE - y) + b = PACKET_SIZE - (y - b)
      BY <1>2
    <3> QED
      BY <1>8, <2>1, <3>1, <3>2
  <2>3. output_queue_' = Append(output_queue_, packet_in_transit_) /\ b - b = 0
    BY <1>2, <2>1 DEF send_bytes
  <2>4. /\ Len(output_queue_') = out + 1 /\ DOMAIN output_queue_' = 1..(out + 1)
        /\ DOMAIN output_queue_ = 1..out
        /\ output_queue_'[out + 1] = packet_in_transit_
        /\ \A i \in 1..out : output_queue_'[i] = output_queue_[i]
    <3> DEFINE o == output_queue_
    <3>1. o \in Seq(QueuedPackets) /\ Len(o) = out /\ output_queue_' = Append(o, packet_in_transit_)
      BY <1>3, <2>3
    <3> HIDE DEF s
    <3> QED
      BY <1>2, <3>1
  <2>5. out + 1 < Len(s) => left = s[out + 2].size
    <3>1. packet_in_transit_bytes_left_' = 0 /\ (out + 1) + 1 = out + 2
      BY <1>3, <1>7, <2>1, <2>3
    <3>2. ~ (packet_in_transit_bytes_left_' > 0)
      BY <3>1
    <3> QED
      BY <1>1, <2>4, <3>1, <3>2 DEF Rest
  <2>6. Waits(f, s, out + 1, d, left, m)
    <3>1. d.opp \in Nat /\ Send(c, r) = d
      BY <1>3, <1>4, <2>2
    <3> HIDE DEF s, out, c, d, r, left, m
    <3> QED
      BY <1>3, <1>4, <2>5, <3>1, WaitsDepart
  <2>7. WaitingOnTime(f)'
    BY <1>1, <2>4, <2>6 DEF WaitingOnTime
  <2> DEFINE n == NumberOf(packet_in_transit_)
  <2>8. Left' = Left \cup {n}
    <3>1. /\ Left = {written[i] + 1 : i \in DOMAIN written}
                      \cup {NumberOf(output_queue_[i]) : i \in 1..out}
          /\ Left' = {written[i] + 1 : i \in DOMAIN written}
                       \cup {NumberOf(output_queue_'[i]) : i \in 1..(out + 1)}
      <4>1. written' = written
        BY DEF LinkStep
      <4> QED
        BY <2>4, <4>1, Zenon DEF Left
    <3>2. \A i : i \in 1..(out + 1) <=> i \in 1..out \/ i = out + 1
      <4> HIDE DEF out
      <4> QED
        BY <1>3
    <3>3. {NumberOf(output_queue_'[i]) : i \in 1..(out + 1)}
            = {NumberOf(output_queue_[i]) : i \in 1..out} \cup {n}
      BY <2>4, <3>2
    <3> QED
      BY <3>1, <3>3
  <2>9. departures' = departures \cup {<<n, this_delivery_time>>}
    <3>1. Len(output_queue_') > Len(output_queue_)
      BY <1>3, <2>4
    <3> QED
      BY <3>1 DEF LinkStep
  <2>10. f[n].opp = O /\ O \in 1..O /\ opportunities[O] = this_delivery_time
    <3>1. opportunities # <<>> /\ opportunities[O] = this_delivery_time
      BY <1>1 DEF HistorySound
    <3>2. O \in 1..O
      BY <3>1 DEF HistoryTypeOK
    <3> QED
      BY <1>5, <2>2, <3>1, <3>2
  <2>11. LeftOnTime(f)'
    <3>1. Timed(f, departures \cup {<<n, opportunities[f[n].opp]>>}, Left \cup {n}, opportunities)
      <4>1. Timed(f, departures, Left, opportunities)
        BY OnTimeInValues
      <4> HIDE DEF n
      <4> QED
        BY <2>10, <4>1, TimedOneMore
    <3> QED
      BY <1>1, <2>8, <2>9, <2>10, <3>1 DEF LeftOnTime, Timed
  <2> QED
    BY <1>1, <2>7, <2>11 DEF Finishes
<1>11. CASE ~ (b <= y)
  <2>1. amount_to_send = y /\ b # amount_to_send /\ y - y = 0 /\ PACKET_SIZE - 0 = PACKET_SIZE
    BY <1>2, <1>11 DEF amount_to_send
  <2>2. output_queue_' = output_queue_
    BY <2>1 DEF send_bytes
  <2>3. left = b - y /\ b - y \in 1..PACKET_SIZE
    <3>1. b - y \in 1..PACKET_SIZE /\ b - y > 0
      BY <1>2, <1>11
    <3>2. packet_in_transit_bytes_left_' = b - y
      BY <1>7, <2>1
    <3> QED
      BY <3>1, <3>2 DEF Rest
  <2>4. d = [opp |-> O, used |-> PACKET_SIZE]
    BY <1>8, <2>1
  <2>5. Send(d, left) = [opp |-> O + 1, used |-> b - y]
    <3>1. d \in Places /\ d.opp = O /\ d.used = PACKET_SIZE
      BY <1>2, <1>3, <2>4 DEF Places
    <3> HIDE DEF d, left, O
    <3> QED
      BY <2>3, <3>1, SendMoves
  <2>6. Send(c, r) = [opp |-> O + 1, used |-> b - y]
    BY <1>4, <1>6, <1>9, <1>11 DEF Send
  <2>7. LeftOnTime(f)'
    BY <1>0, <1>1, <2>2, ReplayKeepsLeft
  <2>8. Waits(f, s, out, d, left, m)
    <3>1. Send(d, left) = Send(c, r) /\ out # Len(s)
      BY <1>3, <2>5, <2>6
    <3> HIDE DEF s, out, c, d, r, left, m
    <3> QED
      BY <1>4, <3>1, WaitsForCursor
  <2>9. WaitingOnTime(f)'
    BY <1>1, <2>2, <2>8 DEF WaitingOnTime
  <2> QED
    BY <1>1, <2>7, <2>9 DEF Finishes
<1> QED
  BY <1>10, <1>11

\* The history is in step with the state, and there is a function that says
\* where the packets end and agrees with what the replay has done so far.
IdealInv ==
  /\ HistoryTypeOK /\ HistorySound /\ Numbered
  /\ \E f : Finishes(f, arrivals) /\ LeftOnTime(f) /\ WaitingOnTime(f)

LEMMA IdealInit ==
  ASSUME ServiceInit
  PROVE  IdealInv
<1>1. /\ arrivals = <<>> /\ opportunities = <<>> /\ departures = {} /\ written = <<>>
      /\ output_queue_ = <<>> /\ link_pc = "idle" /\ pending = NoQueuedPacket
      /\ internal_queue_ = <<>> /\ packet_in_transit_bytes_left_ = 0
  BY DEF ServiceInit, LinkInit, QueueInit
<1>2. HistoryTypeOK
  BY <1>1, EmptySeq DEF HistoryTypeOK
<1>3. HistorySound
  BY <1>1 DEF HistorySound
<1>4. LinkContents = <<>>
  <2>1. InTransit = <<>>
    BY <1>1 DEF InTransit
  <2>2. <<>> \o <<>> = <<>>
    BY EmptySeq, ConcatEmptySeq
  <2> QED
    BY <1>1, <2>1, <2>2 DEF LinkContents
<1>5. Numbered
  BY <1>1, <1>4 DEF Numbered, Kept
<1> DEFINE f == [n \in {0} |-> [opp |-> 0, used |-> PACKET_SIZE]]
<1>6. Finishes(f, arrivals)
  <2>1. Len(arrivals) = 0 /\ 0..0 = {0} /\ 1..0 = {}
    BY <1>1
  <2>2. f[0] = [opp |-> 0, used |-> PACKET_SIZE] /\ f \in [{0} -> Places]
    BY PacketAssumption DEF Places
  <2>3. f[0].opp <= f[0].opp
    BY <2>2
  <2> HIDE DEF f
  <2> QED
    BY <2>1, <2>2, <2>3 DEF Finishes
<1>7. LeftOnTime(f)
  <2>1. Left = {}
    BY <1>1 DEF Left
  <2> QED
    BY <1>1, <2>1 DEF LeftOnTime
<1>8. WaitingOnTime(f)
  <2>1. Len(LinkContents) = 0 /\ Len(output_queue_) = 0 /\ Len(arrivals) = 0 /\ (0 + 2)..0 = {}
    BY <1>1, <1>4
  <2>2. Cursor.opp = 0 /\ f[0].opp = 0
    BY <1>1 DEF Cursor
  <2> HIDE DEF f
  <2> QED
    BY <2>1, <2>2 DEF WaitingOnTime, Waits
<1> QED
  BY <1>2, <1>3, <1>5, <1>6, <1>7, <1>8 DEF IdealInv

LEMMA IdealStep ==
  ASSUME QueueType # "drophead", ServiceInv, ServiceInv', IdealInv, [ServiceNext]_serviceVars
  PROVE  IdealInv'
<1>0. HistoryTypeOK /\ HistorySound /\ Numbered
  BY DEF IdealInv
<1>1. HistoryTypeOK' /\ HistorySound'
  BY <1>0, HistoryStep
<1>2. Numbered'
  BY <1>0, <1>1, NumberedStep
<1>3. PICK f : Finishes(f, arrivals) /\ LeftOnTime(f) /\ WaitingOnTime(f)
  BY DEF IdealInv
<1>4. \E g : Finishes(g, arrivals)' /\ LeftOnTime(g)' /\ WaitingOnTime(g)'
  <2>1. CASE CallWaitTime \/ CallPut \/ UNCHANGED serviceVars
    BY <1>3, <2>1, CallsOnTime
  <2>2. CASE CallStart
    BY <1>0, <1>3, <2>2, StartOnTime
  <2>3. CASE FinishPut
    BY <1>0, <1>3, <2>3, PutOnTime
  <2>4. CASE CallWrite
    BY <1>0, <1>3, <2>4, WriteOnTime
  <2>5. CASE LinkStep
    <3>1. CASE burn_opportunity \/ rationalize_return \/ opportunity_done
      BY <1>0, <1>3, <2>5, <3>1, TurnOnTime
    <3>2. CASE fetch_packet
      BY <1>0, <1>3, <2>5, <3>2, FetchOnTime
    <3>3. CASE send_bytes
      BY <1>0, <1>3, <2>5, <3>3, SendOnTime
    <3> QED
      BY <2>5, <3>1, <3>2, <3>3 DEF LinkStep, rationalize_steps
  <2> QED
    BY <2>1, <2>2, <2>3, <2>4, <2>5 DEF ServiceNext
<1> QED
  BY <1>1, <1>2, <1>4 DEF IdealInv

LEMMA OrderHolds ==
  ASSUME HistoryTypeOK, LinkContents \in Seq(QueuedPackets), Numbered
  PROVE  KeptInOrder
<1> DEFINE s == LinkContents
           w == written
           h == [i \in DOMAIN s |-> s[i].sequence_number]
           all == w \o h
           W == Len(w)
           L == Len(s)
<1>1. /\ s \in Seq(QueuedPackets) /\ L \in Nat /\ DOMAIN s = 1..L
      /\ w \in Seq(Nat) /\ W \in Nat /\ \A i \in 1..W : w[i] \in Nat
  BY DEF HistoryTypeOK
<1>2. InOrder(w, s, Kept)
  BY NumberedInOrder
<1> HIDE DEF s
<1>3. /\ \A i \in 1..L : s[i].sequence_number \in Nat /\ NumberOf(s[i]) = s[i].sequence_number + 1
      /\ h \in Seq(Nat) /\ Len(h) = L /\ \A i \in 1..L : h[i] = s[i].sequence_number
  <2>1. \A i \in 1..L : s[i] \in QueuedPackets
    BY <1>1
  <2>2. \A i \in 1..L : s[i].sequence_number \in Nat /\ NumberOf(s[i]) = s[i].sequence_number + 1
    BY <2>1 DEF QueuedPackets, NumberOf
  <2>3. h = [i \in 1..L |-> s[i].sequence_number]
    BY <1>1
  <2> HIDE DEF h
  <2>4. h \in [1..L -> Nat] /\ \A i \in 1..L : h[i] = s[i].sequence_number
    BY <2>2, <2>3
  <2>5. h \in Seq(Nat) /\ Len(h) = L
    BY <1>1, <2>4
  <2> QED
    BY <2>2, <2>4, <2>5
<1> HIDE DEF h
<1>4. /\ DOMAIN all = 1..(W + L)
      /\ \A i \in 1..(W + L) : all[i] = IF i <= W THEN w[i] ELSE h[i - W]
  <2>1. /\ all \in Seq(Nat) /\ Len(all) = W + L
        /\ \A i \in 1..(W + L) : all[i] = IF i <= W THEN w[i] ELSE h[i - W]
    <3> HIDE DEF w, L
    <3>1. /\ all \in Seq(Nat) /\ Len(all) = Len(w) + Len(h)
          /\ \A i \in 1..(Len(w) + Len(h)) : all[i] = IF i <= Len(w) THEN w[i] ELSE h[i - Len(w)]
      BY <1>1, <1>3, ConcatProperties
    <3> HIDE DEF all
    <3> QED
      BY <1>3, <3>1
  <2> HIDE DEF all
  <2> QED
    BY <1>1, <2>1
<1> HIDE DEF all
<1>5. \A i \in 1..(W + L) : \/ i \in 1..W /\ all[i] = w[i]
                            \/ i - W \in 1..L /\ all[i] = h[i - W]
  BY <1>1, <1>4
<1>6. ASSUME NEW i \in DOMAIN all, NEW j \in DOMAIN all, i < j
      PROVE  all[i] < all[j]
  <2>1. i \in 1..(W + L) /\ j \in 1..(W + L)
    BY <1>4
  <2>2. CASE i \in 1..W /\ all[i] = w[i] /\ j \in 1..W /\ all[j] = w[j]
    BY <1>2, <1>6, <2>2 DEF InOrder
  <2>3. CASE i \in 1..W /\ all[i] = w[i] /\ j - W \in 1..L /\ all[j] = h[j - W]
    <3>1. w[i] + 1 < NumberOf(s[j - W])
      BY <1>2, <2>3 DEF InOrder
    <3>2. /\ NumberOf(s[j - W]) = h[j - W] + 1 /\ h[j - W] \in Nat /\ w[i] \in Nat
      BY <1>1, <1>3, <2>3
    <3>3. w[i] < h[j - W]
      BY <3>1, <3>2
    <3> QED
      BY <2>3, <3>3
  <2>4. CASE i - W \in 1..L /\ all[i] = h[i - W] /\ j - W \in 1..L /\ all[j] = h[j - W]
    <3>1. i - W < j - W
      BY <1>1, <1>6, <2>1
    <3>2. NumberOf(s[i - W]) < NumberOf(s[j - W])
      BY <1>2, <2>4, <3>1 DEF InOrder
    <3>3. /\ NumberOf(s[i - W]) = h[i - W] + 1 /\ h[i - W] \in Nat
          /\ NumberOf(s[j - W]) = h[j - W] + 1 /\ h[j - W] \in Nat
      BY <1>3, <2>4
    <3>4. h[i - W] < h[j - W]
      BY <3>2, <3>3
    <3> QED
      BY <2>4, <3>4
  <2>5. ~ (i - W \in 1..L /\ j \in 1..W)
    BY <1>1, <1>6, <2>1
  <2> QED
    BY <1>5, <2>1, <2>2, <2>3, <2>4, <2>5
<1>7. {all[i] + 1 : i \in DOMAIN all} = Kept
  <2> DEFINE K == Kept
  <2>1. K = {w[i] + 1 : i \in 1..W} \cup {NumberOf(s[i]) : i \in 1..L}
    BY <1>2 DEF InOrder
  <2> HIDE DEF K
  <2>2. ASSUME NEW i \in DOMAIN all
        PROVE  all[i] + 1 \in K
    BY <1>3, <1>4, <1>5, <2>1
  <2>3. ASSUME NEW i \in 1..W
        PROVE  w[i] + 1 \in {all[j] + 1 : j \in DOMAIN all}
    <3>1. i \in 1..(W + L) /\ i <= W
      BY <1>1
    <3> QED
      BY <1>4, <3>1
  <2>4. ASSUME NEW i \in 1..L
        PROVE  NumberOf(s[i]) \in {all[j] + 1 : j \in DOMAIN all}
    <3>1. W + i \in 1..(W + L) /\ ~ (W + i <= W) /\ (W + i) - W = i
      BY <1>1
    <3>2. all[W + i] = h[(W + i) - W]
      BY <1>4, <3>1
    <3>3. all[W + i] + 1 = NumberOf(s[i]) /\ W + i \in DOMAIN all
      BY <1>3, <1>4, <3>1, <3>2
    <3> QED
      BY <3>3
  <2>5. {all[i] + 1 : i \in DOMAIN all} = K
    <3>1. K \subseteq {all[i] + 1 : i \in DOMAIN all}
      BY <2>1, <2>3, <2>4
    <3>2. {all[i] + 1 : i \in DOMAIN all} \subseteq K
      BY <2>2
    <3> QED
      BY <3>1, <3>2
  <2> QED
    BY <2>5 DEF K
<1> QED
  BY <1>6, <1>7 DEF KeptInOrder, all, h, s

LEMMA IdealImplies ==
  ASSUME ServiceInv, IdealInv
  PROVE  ServedAsIdealLink
<1> DEFINE s == LinkContents
           out == Len(output_queue_)
           O == Len(opportunities)
           m == Len(arrivals)
<1>0. HistoryTypeOK /\ HistorySound /\ Numbered /\ LinkTypeOK /\ TransitSound
  BY DEF IdealInv, ServiceInv, LinkInv
<1>1. PICK f : Finishes(f, arrivals) /\ LeftOnTime(f) /\ WaitingOnTime(f)
  BY DEF IdealInv
<1>2. /\ s \in Seq(QueuedPackets) /\ Len(s) \in Nat /\ out \in Nat /\ out <= Len(s)
      /\ \A i \in 1..out : s[i] = output_queue_[i]
      /\ output_queue_ \in Seq(QueuedPackets) /\ O \in Nat /\ m \in Nat
      /\ DOMAIN written = 1..Len(written)
  BY <1>0, ContentsIndexed DEF LinkTypeOK, HistoryTypeOK
<1>3. KeptInOrder
  BY <1>0, <1>2, OrderHolds
<1>4. InOrder(written, s, Kept)
  BY <1>0, <1>2, NumberedInOrder
<1>5. Kept \subseteq 1..m
  <2>1. DOMAIN arrivals = 1..m
    BY <1>0 DEF HistoryTypeOK
  <2> QED
    BY <2>1 DEF Kept
<1>6. \A n \in 1..m : IdealFinish[n] = f[n]
  <2>1. \A n \in 1..m : n \in 0..m
    BY <1>2
  <2> QED
    BY <1>0, <1>1, <2>1, FinishesAreIdeal
<1>7. ASSUME link_pc = "idle"
      PROVE  Left = {n \in Kept : IdealFinish[n].opp <= O}
  <2>1. ASSUME NEW n \in Left
        PROVE  n \in Kept /\ IdealFinish[n].opp <= O
    <3>1. n \in Kept
      <4>1. CASE \E i \in 1..Len(written) : n = written[i] + 1
        BY <1>4, <4>1 DEF InOrder
      <4>2. CASE \E i \in 1..out : n = NumberOf(output_queue_[i])
        <5>1. PICK i \in 1..out : n = NumberOf(output_queue_[i])
          BY <4>2
        <5>2. i \in 1..Len(s) /\ n = NumberOf(s[i])
          BY <1>2, <5>1
        <5> QED
          BY <1>4, <5>2 DEF InOrder
      <4>3. DOMAIN output_queue_ = 1..out
        BY <1>2
      <4> QED
        BY <1>2, <4>1, <4>2, <4>3 DEF Left
    <3>2. f[n].opp \in 1..O
      BY <1>1 DEF LeftOnTime
    <3> QED
      BY <1>2, <1>5, <1>6, <3>1, <3>2
  <2>2. ASSUME NEW n \in Kept, n \notin Left
        PROVE  ~ (IdealFinish[n].opp <= O)
    <3>1. PICK i \in 1..Len(s) : n = NumberOf(s[i])
      <4>1. \A j \in 1..Len(written) : n # written[j] + 1
        BY <1>2, <2>2 DEF Left
      <4> QED
        BY <1>4, <4>1 DEF InOrder
    <3>2. i > out
      <4> SUFFICES ASSUME ~ (i > out) PROVE FALSE
        OBVIOUS
      <4>1. i \in 1..out
        BY <1>2
      <4>2. n = NumberOf(output_queue_[i]) /\ i \in DOMAIN output_queue_
        BY <1>2, <3>1, <4>1
      <4> QED
        BY <2>2, <4>2 DEF Left
    <3>3. out < Len(s) /\ out + 1 \in 1..Len(s) /\ (out + 1 < i \/ out + 1 = i)
      BY <1>2, <3>2
    <3> DEFINE k == NumberOf(s[out + 1])
    <3>4. k \in Kept /\ n \in 0..m /\ k \in 0..m /\ k <= n
      <4>1. k \in Kept
        BY <1>4, <3>3 DEF InOrder
      <4>2. k < n \/ k = n
        BY <1>4, <3>1, <3>3 DEF InOrder
      <4>3. n \in 1..m /\ k \in 1..m
        BY <1>5, <4>1
      <4> HIDE DEF k
      <4> QED
        BY <1>2, <4>1, <4>2, <4>3
    <3>5. f[k] = Send(Cursor, Rest)
      BY <1>1, <3>3 DEF WaitingOnTime, Waits
    <3>6. Cursor \in Places /\ Rest \in 1..PACKET_SIZE /\ Cursor.used = PACKET_SIZE /\ Cursor.opp = O
      BY <1>0, <1>7, <3>3, RestType DEF Cursor
    <3>7. f[k].opp = O + 1
      <4>1. f[k] = [opp |-> O + 1, used |-> Rest]
        BY <3>5, <3>6, SendMoves
      <4> QED
        BY <4>1
    <3>8. f[k].opp <= f[n].opp /\ f[n].opp \in Nat
      <4>1. f[k].opp <= f[n].opp /\ f[n] \in Places
        BY <1>1, <3>4 DEF Finishes
      <4> QED
        BY <4>1 DEF Places
    <3> QED
      BY <1>2, <1>5, <1>6, <3>7, <3>8
  <2> QED
    BY <2>1, <2>2
<1>8. ASSUME link_pc = "idle"
      PROVE  departures = {<<n, opportunities[IdealFinish[n].opp]>> :
                             n \in {k \in Kept : IdealFinish[k].opp <= O}}
  <2>1. Left = {n \in Kept : IdealFinish[n].opp <= O}
    BY <1>7, <1>8
  <2>2. \A n \in Left : IdealFinish[n] = f[n]
    BY <1>5, <1>6, <2>1
  <2>3. {<<n, opportunities[f[n].opp]>> : n \in Left}
          = {<<n, opportunities[IdealFinish[n].opp]>> : n \in Left}
    BY <2>2
  <2>4. departures = {<<n, opportunities[f[n].opp]>> : n \in Left}
    BY <1>1 DEF LeftOnTime
  <2> QED
    BY <2>1, <2>3, <2>4
<1> QED
  BY <1>3, <1>8 DEF ServedAsIdealLink

\* The link is the ideal link: with a queue that drops at its tail or nowhere,
\* for every schedule, every limit, every mix of packets and every sequence of
\* calls, however late, the packets that are kept leave at the opportunities at
\* which a link served at each opportunity as it comes would send their last
\* bytes, each once and in order.
THEOREM LinkIsIdeal ==
  ASSUME QueueType # "drophead"
  PROVE  ServiceSpec => []ServedAsIdealLink
<1>1. ServiceInit => IdealInv
  BY IdealInit
<1>2. ServiceInv /\ ServiceInv' /\ IdealInv /\ [ServiceNext]_serviceVars => IdealInv'
  BY IdealStep
<1>3. ServiceInv /\ IdealInv => ServedAsIdealLink
  BY IdealImplies
<1>4. DropsOneAtMost
  BY DEF DropsOneAtMost
<1>5. ServiceSpec => []ServiceInv
  BY <1>4, ServiceInvHolds
<1> QED
  BY <1>1, <1>2, <1>3, <1>5, PTL DEF ServiceSpec

=============================================================================
