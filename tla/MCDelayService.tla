--------------------------- MODULE MCDelayService ---------------------------
(* Traces for the TLC runs of DelayService. *)
EXTENDS DelayService

\* Three lines with different delays, repeated opportunities, and a trace that
\* is shorter than the run, so that it is repeated.
MCTrace == <<[time |-> 0, delay |-> 2, pdo |-> <<0, 1, 1>>],
             [time |-> 2, delay |-> 4, pdo |-> <<0, 2>>],
             [time |-> 5, delay |-> 1, pdo |-> <<0>>]>>

\* A trace that does not start at 0, as --start-timestamp leaves it when it
\* falls between two lines.
MCLateTrace == <<[time |-> 1, delay |-> 2, pdo |-> <<0, 1>>],
                 [time |-> 3, delay |-> 4, pdo |-> <<0, 2>>],
                 [time |-> 5, delay |-> 1, pdo |-> <<0>>]>>

\* Offsets for 100, 200 and 300 bytes.
MCOffsets == <<0, 1, 3>>
MCNoOffsets == <<>>

=============================================================================
