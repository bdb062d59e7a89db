-------------------------- MODULE MCDriftTracking --------------------------
(***************************************************************************)
(* DriftTracking on a small instance: a clock two counters fast, windows   *)
(* that do not reach the drift, that just cover it, and that exceed it.    *)
(***************************************************************************)
EXTENDS DriftTracking, TLC

CONSTANTS t1, t2

MCThreads == {t1, t2}
OneThread == {t1}
MCWindows == {0, 2, 4}
MCSamples == [offset : -4 .. 4, window : MCWindows]
MCDrift   == -2
=============================================================================
