---------------------------- MODULE DriftTracking ----------------------------
(***************************************************************************)
(* TOTP::verify_tracking feeding a ClockSkewDetector, and being corrected  *)
(* by it.  The users' codes are Drift counters away from the server's      *)
(* clock.  A verification loads the detector's offset, searches the window *)
(* around the corrected counter, and records where it matched, that is,    *)
(* relative to the correction it loaded.  Other verifications may change   *)
(* the correction between the load and the record.                         *)
(*                                                                         *)
(* Codes of different counters in reach are taken to be different, and the *)
(* server's counter to be far from both ends of u64.                       *)
(***************************************************************************)
EXTENDS ClockSkewDetector

CONSTANTS
    Drift,      \* the counter of a user's code, minus the server's counter
    Windows     \* the values callers pass as window

ASSUME DriftAssumption ==
    /\ Drift \in Int
    /\ Windows \subseteq Nat
    /\ \A i \in -Abs(Drift) .. Abs(Drift), w \in Windows :
          Abs(i) <= w => [offset |-> i, window |-> w] \in Samples

\* Mutant: the correction is subtracted from the counter.
verify_tracking_subtracting(t, w) == \E i \in -w .. w :
    /\ i - offset = Drift
    /\ record(t, [offset |-> i, window |-> w])

\* The code matches at the one position i for which offset + i = Drift, and the
\* match is recorded.  When the window holds no such position the answer is false
\* and nothing changes, in the detector or elsewhere.
verify_tracking(t, w) == \E i \in -w .. w :
    /\ offset + i = Drift
    /\ record(t, [offset |-> i, window |-> w])

TrackingNext ==
    \E t \in Threads :
      \/ Step(t)
      \/ \E w \in Windows : verify_tracking(t, w)

TrackingSpec == Init /\ [][TrackingNext]_vars

-----------------------------------------------------------------------------
(* Properties *)

\* The correction stays between none and the whole drift: feedback from its own
\* samples, stale ones included, never pushes it beyond or to the other side.  So
\* a window that covers the drift accepts the users' codes under any correction.
OffsetWithinDrift ==
    IF Drift >= 0 THEN offset \in 0 .. Drift ELSE offset \in Drift .. 0

\* What the test of verify_tracking says of a learned drift: once the offset has
\* learned it, a window of zero accepts the user's code; only turning auto adjust
\* off or resetting the detector unlearns it.
LearnedDriftKept ==
    [][ offset = Drift /\ offset' # Drift =>
          \E t \in Threads : DisableOffset(t) \/ reset(t) ]_vars
=============================================================================
