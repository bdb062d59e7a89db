------------------------ MODULE MCClockSkewDetector ------------------------
(***************************************************************************)
(* ClockSkewDetector on a small instance: thresholds of two and three      *)
(* samples instead of 8 and 16, and a ring of no slots, of fewer slots     *)
(* than samples are needed to adjust the offset, or of three slots, so     *)
(* that a few records wrap it around more than once.                       *)
(***************************************************************************)
EXTENDS ClockSkewDetector

CONSTANTS t1, t2

MCThreads == {t1, t2}

Sample(offset_, window_) == [offset |-> offset_, window |-> window_]

\* In a window without an edge, at either edge of others, and between the two.
MCSamples == {Sample(0, 0), Sample(-1, 1), Sample(1, 2), Sample(2, 2)}
=============================================================================
