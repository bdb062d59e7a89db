---------------------------- MODULE MCHotpResync ----------------------------
(***************************************************************************)
(* HotpResync for a token of a few counters, whose codes all differ or are *)
(* the same at any two of them.                                            *)
(***************************************************************************)
EXTENDS HotpResync

MCCodes == Counters

\* A secret stands for the codes it generates.
MCSecrets ==
    { [c \in Counters |-> IF c = d THEN e ELSE c] : d \in Counters, e \in Counters }
MCCodeOf  == [s \in MCSecrets |-> s]
=============================================================================
