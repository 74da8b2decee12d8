--------------------------- MODULE MCCellularQueue ---------------------------
(* Traces for the TLC runs of CellularQueue. *)
EXTENDS CellularQueue

\* The heavy schedule: a gap longer than the spacing of the light PDOs.
MCSchedule == <<2, 3>>

\* A schedule that is played once: long enough for heavy packets to meet its
\* last opportunities.
MCOnceSchedule == <<3, 5, 7>>

\* Few light opportunities, so that packets of one burst overflow into the
\* heavy schedule, and a base delay that falls, so that a new short PDO trace
\* can start before the packets of the old one are released.
MCTrace == <<[time |-> 0, delay |-> 3, pdo |-> <<0, 1>>],
             [time |-> 2, delay |-> 1, pdo |-> <<0>>],
             [time |-> 4, delay |-> 1, pdo |-> <<0>>]>>

\* The same with one light opportunity a line: the second packet of a burst is
\* a heavy one.
MCSparseTrace == [MCTrace EXCEPT ![1].pdo = <<0>>]

MCNoOffsets == <<>>

\* Offsets for 100, 200 and 300 bytes.
MCOffsets == <<0, 1, 3>>

=============================================================================
