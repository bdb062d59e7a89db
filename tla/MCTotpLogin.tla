---------------------------- MODULE MCTotpLogin ----------------------------
(***************************************************************************)
(* TotpLogin for three steps of time, two users and two threads.           *)
(***************************************************************************)
EXTENDS TotpLogin, TLC

CONSTANTS t1, t2, alice, bob

MCThreads  == {t1, t2}
MCContexts == {alice, bob}
MCSymmetry == Permutations(MCThreads) \cup Permutations(MCContexts)

MCCodes == {1, 2, 3}

\* The codes of the steps differ, or those of the first and the last are the same, or
\* those of two steps in a row.  A secret stands for the codes it generates.
MCSecrets == { [s \in Steps |-> s + 1],
               [s \in Steps |-> IF s = 2 THEN 1 ELSE s + 1],
               [s \in Steps |-> IF s = 0 THEN 1 ELSE s] }
MCCodeOf  == [s \in MCSecrets |-> s]
=============================================================================
