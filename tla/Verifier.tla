------------------------------ MODULE Verifier ------------------------------
(***************************************************************************)
(* The Verifier of genotp: replay protection and rate limiting shared by   *)
(* any number of threads through Arc-ed mutexes (clones share both).       *)
(*                                                                         *)
(* verify_inner is three critical sections, not one.  It locks attempts to *)
(* read the limit and unlocks it; then it locks used_codes, judges the     *)
(* code, and, still holding used_codes, locks attempts again to count the  *)
(* failure or to reset the counter.  A step of this model is one lock      *)
(* acquisition, or the body of a critical section with its release.        *)
(***************************************************************************)
EXTENDS Naturals, FiniteSets

CONSTANTS
    Threads,          \* the threads that hold a clone of the verifier
    NoThread,         \* the owner of a free mutex
    Codes,            \* one-time codes
    Contexts,         \* canonical context byte strings, the empty one included
    Calls,            \* the calls callers make: [code, expected, issued, request]
    NoCall,           \* the arguments of a thread that is in no call
    MaxAttempts,      \* max_attempts
    MaxUsed,          \* max_used_codes
    AttemptsModulus   \* 2^32 in the code: attempts is a u32

ASSUME ThreadsAssumption ==
    /\ IsFiniteSet(Threads)
    /\ Threads # {}
    /\ NoThread \notin Threads

ASSUME CallsAssumption ==
    /\ Calls \subseteq [code : Codes, expected : Codes,
                        issued : Contexts, request : Contexts]
    /\ NoCall \notin Calls

ASSUME LimitsAssumption ==
    /\ MaxUsed \in Nat
    /\ AttemptsModulus \in Nat \ {0}
    /\ MaxAttempts \in 0 .. AttemptsModulus - 1

VARIABLES
    used,             \* used_codes, the keys of accepted codes
    attempts,         \* the failure counter
    usedOwner,        \* the thread that holds the used_codes mutex
    attemptsOwner,    \* the thread that holds the attempts mutex
    pc,               \* where each thread is
    call,             \* the arguments of each thread's call
    result,           \* what each thread's last verification or query returned
    published,        \* history: used_codes when its mutex was last released
    accepts,          \* history: acceptances per key since used_codes was last emptied
    lateCalls         \* history: calls begun at the limit, while it has not been lifted

locks   == <<usedOwner, attemptsOwner>>
history == <<published, accepts, lateCalls>>
vars    == <<used, attempts, locks, pc, call, result, history>>

Keys == Codes \X Contexts

\* The bytes of the code, a zero byte, the bytes of the context.  What is stored was
\* equal to an expected code, digits without a zero byte, so the key is as good as
\* the pair.
replay_key(code, context) == <<code, context>>
KeyOf(c) == replay_key(c.code, c.issued)
Matches(c) == /\ c.issued = c.request
              /\ c.code = c.expected

-----------------------------------------------------------------------------
(* A thread at a label of AttemptsOps needs the attempts mutex to go on, one *)
(* at a label of UsedOps needs used_codes; at "failure" and "success" it     *)
(* still holds used_codes.  The owner of the mutex is in its critical        *)
(* section, the others wait.                                                 *)

AttemptsOps == {"limit", "failure", "success", "query", "pardon"}
UsedOps     == {"replay", "clear"}
Labels      == {"idle"} \cup AttemptsOps \cup UsedOps

\* Inside verify_inner, before and after the rate limit admitted the call.
Submitted == {"limit"}
Admitted  == {"replay", "failure", "success"}

Init ==
    /\ used = {}
    /\ attempts = 0
    /\ usedOwner = NoThread
    /\ attemptsOwner = NoThread
    /\ pc = [t \in Threads |-> "idle"]
    /\ call = [t \in Threads |-> NoCall]
    /\ result = [t \in Threads |-> "none"]
    /\ published = {}
    /\ accepts = [k \in Keys |-> 0]
    /\ lateCalls = {}

\* The operation returns to its caller.
Return(t, r) ==
    /\ pc' = [pc EXCEPT ![t] = "idle"]
    /\ call' = [call EXCEPT ![t] = NoCall]
    /\ result' = [result EXCEPT ![t] = r]

-----------------------------------------------------------------------------
(* The two mutexes; neither is fair. *)

AcquireAttempts(t) ==
    /\ pc[t] \in AttemptsOps
    /\ attemptsOwner = NoThread
    /\ attemptsOwner' = t
    /\ UNCHANGED <<used, attempts, usedOwner, pc, call, result, history>>

AcquireUsed(t) ==
    /\ pc[t] \in UsedOps
    /\ usedOwner = NoThread
    /\ usedOwner' = t
    /\ UNCHANGED <<used, attempts, attemptsOwner, pc, call, result, history>>

ReleaseAttempts == attemptsOwner' = NoThread
\* What used_codes holds when its mutex is released is what the others will see.
ReleaseUsed(keys) == usedOwner' = NoThread /\ published' = keys

\* The bodies of the critical sections.
InAttempts(t, label) == pc[t] = label /\ attemptsOwner = t
InUsed(t, label)     == pc[t] = label /\ usedOwner = t

-----------------------------------------------------------------------------
(* verify_inner, called by verify_with_replay_protection (two empty          *)
(* contexts) and by verify_with_context.                                     *)

Verify(t, c) ==
    /\ pc[t] = "idle"
    /\ pc' = [pc EXCEPT ![t] = "limit"]
    /\ call' = [call EXCEPT ![t] = c]
    /\ result' = [result EXCEPT ![t] = "none"]
    /\ lateCalls' = IF attempts >= MaxAttempts THEN lateCalls \cup {t} ELSE lateCalls
    /\ UNCHANGED <<used, attempts, locks, published, accepts>>

\* 1) The rate limit.
TurnAway(t) ==
    /\ InAttempts(t, "limit")
    /\ attempts >= MaxAttempts
    /\ ReleaseAttempts
    /\ Return(t, "false")
    /\ lateCalls' = lateCalls \ {t}
    /\ UNCHANGED <<used, attempts, usedOwner, published, accepts>>

\* Mutant: the limit is compared with > instead of >=.
AdmitAtLimit(t) ==
    /\ InAttempts(t, "limit")
    /\ attempts <= MaxAttempts
    /\ ReleaseAttempts
    /\ pc' = [pc EXCEPT ![t] = "replay"]
    /\ UNCHANGED <<used, attempts, usedOwner, call, result, history>>

Admit(t) ==
    /\ InAttempts(t, "limit")
    /\ attempts < MaxAttempts
    /\ ReleaseAttempts
    /\ pc' = [pc EXCEPT ![t] = "replay"]
    /\ UNCHANGED <<used, attempts, usedOwner, call, result, history>>

\* 2) The replay check.
RejectReplay(t) ==
    /\ InUsed(t, "replay")
    /\ KeyOf(call[t]) \in used
    /\ ReleaseUsed(used)
    /\ Return(t, "false")
    /\ lateCalls' = lateCalls \ {t}
    /\ UNCHANGED <<used, attempts, attemptsOwner, accepts>>

\* 3) A wrong code or context keeps used_codes locked and counts a failure.
Mismatch(t) ==
    /\ InUsed(t, "replay")
    /\ KeyOf(call[t]) \notin used
    /\ ~Matches(call[t])
    /\ pc' = [pc EXCEPT ![t] = "failure"]
    /\ UNCHANGED <<used, attempts, locks, call, result, history>>

\* Mutant: the counter counts the attempts that are left.
CountDown(t) ==
    /\ InAttempts(t, "failure")
    /\ attempts' = attempts - 1
    /\ ReleaseAttempts
    /\ ReleaseUsed(used)
    /\ Return(t, "false")
    /\ lateCalls' = lateCalls \ {t}
    /\ UNCHANGED <<used, accepts>>

CountFailure(t) ==
    /\ InAttempts(t, "failure")
    /\ attempts' = (attempts + 1) % AttemptsModulus
    /\ ReleaseAttempts
    /\ ReleaseUsed(used)
    /\ Return(t, "false")
    /\ lateCalls' = lateCalls \ {t}
    /\ UNCHANGED <<used, accepts>>

\* Mutant: the capacity is compared with > instead of >=.
MarkUsedOverCapacity(t) ==
    /\ InUsed(t, "replay")
    /\ KeyOf(call[t]) \notin used
    /\ Matches(call[t])
    /\ pc' = [pc EXCEPT ![t] = "success"]
    /\ IF Cardinality(used) > MaxUsed
         THEN /\ used' = {KeyOf(call[t])}
              /\ accepts' = [k \in Keys |-> 0]
         ELSE /\ used' = used \cup {KeyOf(call[t])}
              /\ UNCHANGED accepts
    /\ UNCHANGED <<attempts, locks, call, result, published, lateCalls>>

\* Mutant: the set is emptied after the insertion, not before.
MarkUsedThenEmpty(t) ==
    /\ InUsed(t, "replay")
    /\ KeyOf(call[t]) \notin used
    /\ Matches(call[t])
    /\ pc' = [pc EXCEPT ![t] = "success"]
    /\ IF Cardinality(used) >= MaxUsed
         THEN /\ used' = {}
              /\ accepts' = [k \in Keys |-> 0]
         ELSE /\ used' = used \cup {KeyOf(call[t])}
              /\ UNCHANGED accepts
    /\ UNCHANGED <<attempts, locks, call, result, published, lateCalls>>

\* Mutant: the full set is emptied through clear_used_codes, which locks the
\* mutex the thread already holds.
MarkUsedRelocks(t) ==
    /\ InUsed(t, "replay")
    /\ KeyOf(call[t]) \notin used
    /\ Matches(call[t])
    /\ IF Cardinality(used) >= MaxUsed
         THEN /\ pc' = [pc EXCEPT ![t] = "relock"]
              /\ UNCHANGED used
         ELSE /\ pc' = [pc EXCEPT ![t] = "success"]
              /\ used' = used \cup {KeyOf(call[t])}
    /\ UNCHANGED <<attempts, locks, call, result, history>>

\* 4) The key is marked used, in a set that a full capacity empties first.
MarkUsed(t) ==
    /\ InUsed(t, "replay")
    /\ KeyOf(call[t]) \notin used
    /\ Matches(call[t])
    /\ pc' = [pc EXCEPT ![t] = "success"]
    /\ IF Cardinality(used) >= MaxUsed
         THEN /\ used' = {KeyOf(call[t])}
              /\ accepts' = [k \in Keys |-> 0]
         ELSE /\ used' = used \cup {KeyOf(call[t])}
              /\ UNCHANGED accepts
    /\ UNCHANGED <<attempts, locks, call, result, published, lateCalls>>

\* Mutant: a success leaves the failures counted.
AcceptWithoutReset(t) ==
    /\ InAttempts(t, "success")
    /\ ReleaseAttempts
    /\ ReleaseUsed(used)
    /\ Return(t, "true")
    /\ accepts' = [accepts EXCEPT ![KeyOf(call[t])] = @ + 1]
    /\ lateCalls' = {}
    /\ UNCHANGED <<used, attempts>>

Accept(t) ==
    /\ InAttempts(t, "success")
    /\ attempts' = 0
    /\ ReleaseAttempts
    /\ ReleaseUsed(used)
    /\ Return(t, "true")
    /\ accepts' = [accepts EXCEPT ![KeyOf(call[t])] = @ + 1]
    /\ lateCalls' = {}
    /\ UNCHANGED used

-----------------------------------------------------------------------------
(* The other operations, each one critical section. *)

Invoke(t) ==
    /\ pc[t] = "idle"
    /\ \E op \in {"query", "pardon", "clear"} : pc' = [pc EXCEPT ![t] = op]
    /\ UNCHANGED <<used, attempts, locks, call, result, history>>

is_rate_limited(t) ==
    /\ InAttempts(t, "query")
    /\ ReleaseAttempts
    /\ Return(t, IF attempts >= MaxAttempts THEN "true" ELSE "false")
    /\ UNCHANGED <<used, attempts, usedOwner, history>>

reset_attempts(t) ==
    /\ InAttempts(t, "pardon")
    /\ attempts' = 0
    /\ ReleaseAttempts
    /\ Return(t, result[t])
    /\ lateCalls' = {}
    /\ UNCHANGED <<used, usedOwner, published, accepts>>

clear_used_codes(t) ==
    /\ InUsed(t, "clear")
    /\ used' = {}
    /\ ReleaseUsed({})
    /\ Return(t, result[t])
    /\ accepts' = [k \in Keys |-> 0]
    /\ UNCHANGED <<attempts, attemptsOwner, lateCalls>>

-----------------------------------------------------------------------------
\* A step of a call already begun.
Step(t) ==
    \/ AcquireAttempts(t) \/ AcquireUsed(t)
    \/ TurnAway(t) \/ Admit(t)
    \/ RejectReplay(t) \/ Mismatch(t) \/ CountFailure(t)
    \/ MarkUsed(t) \/ Accept(t)
    \/ is_rate_limited(t) \/ reset_attempts(t) \/ clear_used_codes(t)

\* A caller begins an operation.
Begin(t) == (\E c \in Calls : Verify(t, c)) \/ Invoke(t)

Next == \E t \in Threads : Begin(t) \/ Step(t)

Spec == Init /\ [][Next]_vars

-----------------------------------------------------------------------------
(* Properties *)

\* Every variable has its type, and exactly the threads inside verify_inner
\* have arguments.
TypeOK ==
    /\ used \in SUBSET Keys
    /\ attempts \in 0 .. AttemptsModulus - 1
    /\ usedOwner \in Threads \cup {NoThread}
    /\ attemptsOwner \in Threads \cup {NoThread}
    /\ pc \in [Threads -> Labels]
    /\ call \in [Threads -> Calls \cup {NoCall}]
    /\ \A t \in Threads : pc[t] \in Submitted \cup Admitted <=> call[t] \in Calls
    /\ result \in [Threads -> {"none", "true", "false"}]
    /\ published \in SUBSET Keys
    /\ accepts \in [Keys -> Nat]
    /\ lateCalls \in SUBSET Threads

\* However many threads race with the same code in the same context, one of them
\* is told true until used_codes is emptied (by its owner or by a full capacity).
OneTimeUse == \A k \in Keys : accepts[k] <= 1

\* The memory the replay protection takes is bounded; the set is emptied before
\* the insertion, so a capacity of zero still stores one key.
UsedBounded == Cardinality(used) <= IF MaxUsed = 0 THEN 1 ELSE MaxUsed

\* Admitted calls that may still count a failure.
InFlight == {t \in Threads : pc[t] \in {"replay", "failure"}}

\* The limit is read in one critical section and the failure counted in another,
\* so the limit can be overshot, but by at most one guess per other thread.
OvershootBounded ==
    attempts + Cardinality(InFlight) <= MaxAttempts + Cardinality(Threads) - 1

\* A call that begins at the limit is turned away, unless the limit is lifted (by
\* reset_attempts or by the success of a call admitted before) while it waits.
LockoutHolds == \A t \in lateCalls : pc[t] \notin Admitted

\* What design.md says of a lockout: at the limit every verification is rejected,
\* the one with the right code included.
LockedOutRejects == [][\A t \in Threads : Accept(t) => attempts < MaxAttempts]_vars

\* The verifier is the gate of OtpGate: codes are judged one at a time, against
\* all the keys published before, although the insertion of the key and the reset
\* of the counter are two steps here.
phaseOf == [t \in Threads |-> CASE pc[t] \in Submitted -> "submitted"
                                [] pc[t] \in Admitted  -> "admitted"
                                [] OTHER               -> "idle"]
Gate == INSTANCE OtpGate WITH remembered <- published, failures <- attempts,
                              phase <- phaseOf, request <- call
ImplementsGate == Gate!GateSpec
=============================================================================
