--------------------------- MODULE MCVerifierLive ---------------------------
(***************************************************************************)
(* Verifier with callers that stop after MaxCalls operations each.  The    *)
(* mutexes are not fair, so nothing keeps a stream of other callers from   *)
(* overtaking a waiting thread for ever; with finitely many calls the weak *)
(* fairness of a running thread is enough.                                 *)
(***************************************************************************)
EXTENDS MCVerifier

CONSTANT MaxCalls

VARIABLE callsLeft

liveVars == <<vars, callsLeft>>

LiveInit == Init /\ callsLeft = [t \in Threads |-> MaxCalls]

LiveBegin(t) ==
    /\ callsLeft[t] > 0
    /\ callsLeft' = [callsLeft EXCEPT ![t] = @ - 1]
    /\ Begin(t)

LiveStep(t) == Step(t) /\ UNCHANGED callsLeft

LiveNext == \E t \in Threads : LiveBegin(t) \/ LiveStep(t)

LiveSpec ==
    /\ LiveInit
    /\ [][LiveNext]_liveVars
    /\ \A t \in Threads : WF_liveVars(LiveStep(t))

\* Every operation returns: no order of the two mutexes deadlocks, and a mutex is
\* released on every path out of its critical section.
EveryCallReturns == \A t \in Threads : pc[t] # "idle" ~> pc[t] = "idle"
=============================================================================
