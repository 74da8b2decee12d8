-------------------------- MODULE ByteStreamQueue --------------------------
(***************************************************************************)
(* The ring buffer of bytes between two descriptors                        *)
(* (src/src/util/bytestream_queue.cc).  One byte of it stays unused, so    *)
(* that a full queue differs from an empty one; a read or a write never    *)
(* goes past the end of the buffer.                                        *)
(*                                                                         *)
(* A byte is represented by its position in the stream it belongs to.      *)
(***************************************************************************)
EXTENDS Integers, Sequences

CONSTANT Size  \* bytes of the buffer

ASSUME SizeAssumption == Size \in Nat /\ Size > 1

ByteStreamQueues ==
  [buffer : [0..Size-1 -> Nat], next_push : 0..Size-1, next_pop : 0..Size-1]

EmptyQueue == [buffer |-> [i \in 0..Size-1 |-> 0], next_push |-> 0, next_pop |-> 0]

available_to_pop(q) ==
  q.next_push - q.next_pop + (IF q.next_pop > q.next_push THEN Size ELSE 0)

\* Bug: no byte is left unused.
available_to_push_all(q) ==
  q.next_pop - q.next_push + (IF q.next_pop > q.next_push THEN 0 ELSE Size)

available_to_push(q) ==
  q.next_pop - q.next_push - 1 + (IF q.next_pop > q.next_push THEN 0 ELSE Size)

space_available(q) == available_to_push(q) > 0

non_empty(q) == available_to_pop(q) > 0

\* Of n bytes from a position on, those before the end of the buffer.
Contiguous(from, n) == IF from + n >= Size THEN Size - from ELSE n

contiguous_space_to_push(q) == Contiguous(q.next_push, available_to_push(q))

contiguous_space_to_pop(q) == Contiguous(q.next_pop, available_to_pop(q))

Wrapped(i) == IF i = Size THEN 0 ELSE i

\* The queue after n bytes of the stream, from byte first on, were read into it.
push(q, first, n) ==
  [buffer    |-> [i \in 0..Size-1 |-> IF q.next_push <= i /\ i < q.next_push + n
                                      THEN first + i - q.next_push
                                      ELSE q.buffer[i]],
   next_push |-> Wrapped(q.next_push + n),
   next_pop  |-> q.next_pop]

\* The queue after n bytes of it were written.
pop(q, n) == [q EXCEPT !.next_pop = Wrapped(@ + n)]

\* The bytes that a write takes from it, after the first k.
Bytes(q, k, n) == [i \in 1..n |-> q.buffer[q.next_pop + k + i - 1]]

\* The asserts of push, when n bytes were read, and of pop.
PushAsserts(q, n) ==
  /\ space_available(q)
  /\ contiguous_space_to_push(q) > 0
  /\ n <= Size - q.next_push
  /\ n > 0 => non_empty(push(q, 0, n))

PopAsserts(q, n) == non_empty(q) /\ q.next_pop + n <= Size

=============================================================================
