----------------------------- MODULE MCStartup -----------------------------
(* Instances of Startup for TLC. *)
EXTENDS Startup, TLC

CONSTANTS s1, s2, s3

MCShells == {s1, s2, s3}
MCSymmetry == Permutations(MCShells)

\* Times around the start timestamp, a negative one, text, and numbers that do
\* not fit in an int.
MCHeavyLines == {<<>>, <<NaN>>, <<-1>>, <<0>>, <<1>>, <<2>>}
MCTrainLines == {<<>>, <<0>>, <<1, NaN>>, <<0, UINT - 1>>, <<0, 1>>, <<1, UINT, 1 - UINT>>,
                 <<2, 1>>}
MCOffsetLines == {<<>>, <<NaN>>, <<100>>, <<UINT + 100, 0>>, <<200, 1>>, <<200, NaN>>, <<300, 1, 1>>}
MCQueueArgs == {NaN, 1, UINT}

=============================================================================
