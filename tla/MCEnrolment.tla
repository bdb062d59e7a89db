---------------------------- MODULE MCEnrolment ----------------------------
(***************************************************************************)
(* Enrolment on a small instance: u64 ends at 127, so that both ends of it *)
(* are a few counters of the default period of 30 away from one another.   *)
(***************************************************************************)
EXTENDS Enrolment

MCBase32Of == [k |-> "K", m |-> "M"]

MCRandomSecrets == { <<"k", "m", "k", "m">> }

\* Not enough bits, no whole number of bytes, the default.
MCBits == {120, 129, 160}
MCBuffers == {15, 20}

\* Short, empty, padded.
MCTexts == { <<"M">>, <<>>, <<"M", "=">> }

\* Names that would say something else in a URI if they were not encoded.
MCAccounts ==
    { [label |-> <<"ACME", ":", "alice", "?", "secret", "=", "M", "#">>, issuer |-> <<>>],
      [label |-> <<"50", "%", "26">>, issuer |-> << <<"A", "&", "digits", "=", "8">> >>] }

MCDigits     == {6, 8, 9}
MCPeriods    == {0, 1, 7, 30}
MCAlgorithms == {"SHA1", "SHA256"}

\* Before the epoch, around the ends of periods, and at the end of u64.
MCTimes   == {-1, 0, 29, 30, 62, 120, 126, 127}
MCWindows == {0, 1, 2, 64}
MCOffsets == {-2, 0, 1}

MCContexts == { <<>>, <<"tab">> }
MCCounters == {0, 8}
=============================================================================
