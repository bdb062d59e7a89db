------------------------------- MODULE OtpGate -------------------------------
(***************************************************************************)
(* What genotp's Verifier promises, whatever the interleaving of the       *)
(* threads that share it: a call is decided in at most two atomic points.  *)
(* At the first the call is admitted or turned away by the rate limit, at  *)
(* the second its code is judged against the codes already remembered.     *)
(* Between the two points other calls may be judged, so an admission may   *)
(* be stale; the judgement itself never is.                                *)
(***************************************************************************)
EXTENDS Naturals, FiniteSets

CONSTANTS
    Threads,          \* the threads that share the verifier
    Calls,            \* argument records of a verification call
    NoCall,           \* the arguments of a thread that is in no call
    MaxAttempts,      \* failures after which calls are turned away
    MaxUsed,          \* capacity of the set of remembered codes
    AttemptsModulus   \* the failure counter counts modulo this number

VARIABLES
    remembered,       \* keys accepted and not forgotten since
    failures,         \* failed judgements since the last acceptance or pardon
    phase,            \* where each thread's call is
    request,          \* the arguments of each thread's call
    result            \* what each thread's last call or query answered

gateVars == <<remembered, failures, phase, request, result>>

Phases  == {"idle", "submitted", "admitted"}
Results == {"none", "true", "false"}

\* Mutant of KeyOf: one set of codes for all contexts.
KeyOfCodeAlone(c) == <<c.code>>

\* A code is remembered together with the context it was issued in.
KeyOf(c) == <<c.code, c.issued>>

\* The right code, presented in the context it was issued in.
Matches(c) == c.code = c.expected /\ c.issued = c.request

\* Mutant of Remember: the set is emptied one key too early.
RememberOneLess(keys, k) ==
    IF Cardinality(keys) + 1 >= MaxUsed THEN {k} ELSE keys \cup {k}

\* A full set is emptied before the new key goes in.
Remember(keys, k) ==
    IF Cardinality(keys) >= MaxUsed THEN {k} ELSE keys \cup {k}

GateInit ==
    /\ remembered = {}
    /\ failures = 0
    /\ phase = [t \in Threads |-> "idle"]
    /\ request = [t \in Threads |-> NoCall]
    /\ result = [t \in Threads |-> "none"]

Submit(t, c) ==
    /\ phase[t] = "idle"
    /\ phase' = [phase EXCEPT ![t] = "submitted"]
    /\ request' = [request EXCEPT ![t] = c]
    /\ result' = [result EXCEPT ![t] = "none"]
    /\ UNCHANGED <<remembered, failures>>

Answer(t, from, r) ==
    /\ phase[t] = from
    /\ phase' = [phase EXCEPT ![t] = "idle"]
    /\ request' = [request EXCEPT ![t] = NoCall]
    /\ result' = [result EXCEPT ![t] = r]

TurnAway(t) ==
    /\ failures >= MaxAttempts
    /\ Answer(t, "submitted", "false")
    /\ UNCHANGED <<remembered, failures>>

Admit(t) ==
    /\ failures < MaxAttempts
    /\ phase[t] = "submitted"
    /\ phase' = [phase EXCEPT ![t] = "admitted"]
    /\ UNCHANGED <<remembered, failures, request, result>>

RejectReplay(t) ==
    /\ Answer(t, "admitted", "false")
    /\ KeyOf(request[t]) \in remembered
    /\ UNCHANGED <<remembered, failures>>

RejectMismatch(t) ==
    /\ Answer(t, "admitted", "false")
    /\ KeyOf(request[t]) \notin remembered
    /\ ~Matches(request[t])
    /\ failures' = (failures + 1) % AttemptsModulus
    /\ UNCHANGED remembered

Accept(t) ==
    /\ Answer(t, "admitted", "true")
    /\ KeyOf(request[t]) \notin remembered
    /\ Matches(request[t])
    /\ remembered' = Remember(remembered, KeyOf(request[t]))
    /\ failures' = 0

\* A thread asks whether the limit is reached.
Query(t) ==
    /\ phase[t] = "idle"
    /\ result' = [result EXCEPT ![t] = IF failures >= MaxAttempts THEN "true" ELSE "false"]
    /\ UNCHANGED <<remembered, failures, phase, request>>

\* The owner of the verifier lifts a lockout or forgets the used codes.
Pardon == failures' = 0 /\ UNCHANGED <<remembered, phase, request, result>>
Forget == remembered' = {} /\ UNCHANGED <<failures, phase, request, result>>

GateNext ==
    \/ \E t \in Threads :
          \/ \E c \in Calls : Submit(t, c)
          \/ TurnAway(t) \/ Admit(t)
          \/ RejectReplay(t) \/ RejectMismatch(t) \/ Accept(t)
          \/ Query(t)
    \/ Pardon
    \/ Forget

GateSpec == GateInit /\ [][GateNext]_gateVars
=============================================================================
