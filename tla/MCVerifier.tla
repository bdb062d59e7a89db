----------------------------- MODULE MCVerifier -----------------------------
(***************************************************************************)
(* Verifier on a small instance.  Two codes and two contexts give calls    *)
(* with the same key and different verdicts, with the same code and        *)
(* different keys, and with a right code in the wrong context.             *)
(***************************************************************************)
EXTENDS Verifier, TLC

CONSTANTS t1, t2, t3, c1, c2, none, ctx

MCThreads  == {t1, t2, t3}
TwoThreads == {t1, t2}
MCCodes    == {c1, c2}
MCContexts == {none, ctx}

VerifyCall(code, expected, issued, request) ==
    [code |-> code, expected |-> expected, issued |-> issued, request |-> request]

MCCalls == { VerifyCall(c1, c1, none, none),  \* right
             VerifyCall(c2, c2, none, none),  \* right
             VerifyCall(c2, c1, none, none),  \* wrong code, the key of the line above
             VerifyCall(c1, c1, ctx,  ctx ),  \* the first code in another context
             VerifyCall(c1, c1, ctx,  none) } \* right code, wrong context

Symmetry == Permutations(MCThreads)
=============================================================================
