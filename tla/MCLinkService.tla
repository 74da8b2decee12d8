--------------------------- MODULE MCLinkService ---------------------------
(* Schedules for the TLC runs of LinkService. *)
EXTENDS LinkService

\* Two opportunities at the same time, and a gap before the schedule repeats.
MCSchedule == <<1, 2, 2>>

MCTimes == 0..4

=============================================================================
