--------------------------- MODULE VerifierProofs ---------------------------
(***************************************************************************)
(* Theorems about Verifier, for every number of threads, every set of      *)
(* calls and every limit.                                                  *)
(***************************************************************************)
EXTENDS Verifier, FiniteSetTheorems, TLAPS

\* Every step keeps the types, whatever thread takes it.
LEMMA TypeStep == TypeOK /\ [Next]_vars => TypeOK'
<1> SUFFICES ASSUME TypeOK, [Next]_vars PROVE TypeOK'
  OBVIOUS
<1> USE ThreadsAssumption, CallsAssumption, LimitsAssumption
<1> USE DEF TypeOK, Labels, AttemptsOps, UsedOps, Submitted, Admitted, locks, history
<1>0. \A c \in Calls : KeyOf(c) \in Keys
  BY DEF KeyOf, replay_key, Keys
<1>1. ASSUME NEW t \in Threads, NEW c \in Calls, Verify(t, c) PROVE TypeOK'
  BY <1>1 DEF Verify
<1>2. ASSUME NEW t \in Threads, Invoke(t) PROVE TypeOK'
  BY <1>2 DEF Invoke
<1>3. ASSUME NEW t \in Threads, AcquireAttempts(t) PROVE TypeOK'
  BY <1>3 DEF AcquireAttempts
<1>4. ASSUME NEW t \in Threads, AcquireUsed(t) PROVE TypeOK'
  BY <1>4 DEF AcquireUsed
<1>5. ASSUME NEW t \in Threads, TurnAway(t) PROVE TypeOK'
  BY <1>5 DEF TurnAway, InAttempts, ReleaseAttempts, Return
<1>6. ASSUME NEW t \in Threads, Admit(t) PROVE TypeOK'
  BY <1>6 DEF Admit, InAttempts, ReleaseAttempts
<1>7. ASSUME NEW t \in Threads, RejectReplay(t) PROVE TypeOK'
  BY <1>7 DEF RejectReplay, InUsed, ReleaseUsed, Return
<1>8. ASSUME NEW t \in Threads, Mismatch(t) PROVE TypeOK'
  BY <1>8 DEF Mismatch, InUsed
<1>9. ASSUME NEW t \in Threads, CountFailure(t) PROVE TypeOK'
  BY <1>9 DEF CountFailure, InAttempts, ReleaseAttempts, ReleaseUsed, Return
<1>10. ASSUME NEW t \in Threads, MarkUsed(t) PROVE TypeOK'
  <2>1. KeyOf(call[t]) \in Keys
    BY <1>0, <1>10 DEF MarkUsed, InUsed
  <2> QED
    BY <1>10, <2>1 DEF MarkUsed, InUsed
<1>11. ASSUME NEW t \in Threads, Accept(t) PROVE TypeOK'
  <2>1. KeyOf(call[t]) \in Keys
    BY <1>0, <1>11 DEF Accept, InAttempts
  <2> QED
    BY <1>11, <2>1 DEF Accept, InAttempts, ReleaseAttempts, ReleaseUsed, Return
<1>12. ASSUME NEW t \in Threads, is_rate_limited(t) PROVE TypeOK'
  BY <1>12 DEF is_rate_limited, InAttempts, ReleaseAttempts, Return
<1>13. ASSUME NEW t \in Threads, reset_attempts(t) PROVE TypeOK'
  BY <1>13 DEF reset_attempts, InAttempts, ReleaseAttempts, Return
<1>14. ASSUME NEW t \in Threads, clear_used_codes(t) PROVE TypeOK'
  BY <1>14 DEF clear_used_codes, InUsed, ReleaseUsed, Return
<1>15. CASE UNCHANGED vars
  BY <1>15 DEF vars
<1> QED
  BY <1>1, <1>2, <1>3, <1>4, <1>5, <1>6, <1>7, <1>8, <1>9, <1>10, <1>11, <1>12,
     <1>13, <1>14, <1>15 DEF Next, Begin, Step

\* Type correctness of the verifier, its history variables included.
THEOREM TypeCorrect == Spec => []TypeOK
<1>1. Init => TypeOK
  BY ThreadsAssumption, CallsAssumption, LimitsAssumption
     DEF Init, TypeOK, Labels, AttemptsOps, UsedOps, Submitted, Admitted
<1> QED
  BY <1>1, TypeStep, PTL DEF Spec

-----------------------------------------------------------------------------
(* Who holds which mutex.  A thread at "failure" or "success" owns used_codes *)
(* while it waits for attempts; an owner is always inside an operation that   *)
(* uses its mutex.                                                            *)

LockInv ==
    /\ \A t \in Threads : usedOwner = t => pc[t] \in {"replay", "failure", "success", "clear"}
    /\ \A t \in Threads : pc[t] \in {"failure", "success"} => usedOwner = t
    /\ \A t \in Threads : attemptsOwner = t => pc[t] \in AttemptsOps

\* Every step keeps who may hold which mutex.
LEMMA LockStep == TypeOK /\ LockInv /\ [Next]_vars => LockInv'
<1> SUFFICES ASSUME TypeOK, LockInv, [Next]_vars PROVE LockInv'
  OBVIOUS
<1> USE ThreadsAssumption DEF TypeOK, LockInv, AttemptsOps, locks, history
<1>1. ASSUME NEW t \in Threads, NEW c \in Calls, Verify(t, c) PROVE LockInv'
  BY <1>1 DEF Verify
<1>2. ASSUME NEW t \in Threads, Invoke(t) PROVE LockInv'
  BY <1>2 DEF Invoke
<1>3. ASSUME NEW t \in Threads, AcquireAttempts(t) PROVE LockInv'
  BY <1>3 DEF AcquireAttempts, AttemptsOps
<1>4. ASSUME NEW t \in Threads, AcquireUsed(t) PROVE LockInv'
  BY <1>4 DEF AcquireUsed, UsedOps
<1>5. ASSUME NEW t \in Threads, TurnAway(t) PROVE LockInv'
  BY <1>5 DEF TurnAway, InAttempts, ReleaseAttempts, Return
<1>6. ASSUME NEW t \in Threads, Admit(t) PROVE LockInv'
  BY <1>6 DEF Admit, InAttempts, ReleaseAttempts
<1>7. ASSUME NEW t \in Threads, RejectReplay(t) PROVE LockInv'
  BY <1>7 DEF RejectReplay, InUsed, ReleaseUsed, Return
<1>8. ASSUME NEW t \in Threads, Mismatch(t) PROVE LockInv'
  BY <1>8 DEF Mismatch, InUsed
<1>9. ASSUME NEW t \in Threads, CountFailure(t) PROVE LockInv'
  BY <1>9 DEF CountFailure, InAttempts, ReleaseAttempts, ReleaseUsed, Return
<1>10. ASSUME NEW t \in Threads, MarkUsed(t) PROVE LockInv'
  BY <1>10 DEF MarkUsed, InUsed
<1>11. ASSUME NEW t \in Threads, Accept(t) PROVE LockInv'
  BY <1>11 DEF Accept, InAttempts, ReleaseAttempts, ReleaseUsed, Return
<1>12. ASSUME NEW t \in Threads, is_rate_limited(t) PROVE LockInv'
  BY <1>12 DEF is_rate_limited, InAttempts, ReleaseAttempts, Return
<1>13. ASSUME NEW t \in Threads, reset_attempts(t) PROVE LockInv'
  BY <1>13 DEF reset_attempts, InAttempts, ReleaseAttempts, Return
<1>14. ASSUME NEW t \in Threads, clear_used_codes(t) PROVE LockInv'
  BY <1>14 DEF clear_used_codes, InUsed, ReleaseUsed, Return
<1>15. CASE UNCHANGED vars
  BY <1>15 DEF vars
<1> QED
  BY <1>1, <1>2, <1>3, <1>4, <1>5, <1>6, <1>7, <1>8, <1>9, <1>10, <1>11, <1>12,
     <1>13, <1>14, <1>15 DEF Next, Begin, Step

-----------------------------------------------------------------------------
(* One acceptance per key.  Between the insertion of a key and the return of  *)
(* its acceptance, only the thread that inserted it can be at "success": the  *)
(* key is in used and not yet counted.  LockInv makes that thread unique.     *)

OneTimeInv ==
    /\ \A k \in Keys : accepts[k] = 0 \/ (accepts[k] = 1 /\ k \in used)
    /\ \A t \in Threads :
          pc[t] = "success" => KeyOf(call[t]) \in used /\ accepts[KeyOf(call[t])] = 0

\* Every step keeps the count of acceptances per key at one at most.
LEMMA OneTimeStep == TypeOK /\ LockInv /\ OneTimeInv /\ [Next]_vars => OneTimeInv'
<1> SUFFICES ASSUME TypeOK, LockInv, OneTimeInv, [Next]_vars PROVE OneTimeInv'
  OBVIOUS
<1> USE ThreadsAssumption, CallsAssumption
    DEF TypeOK, LockInv, OneTimeInv, Submitted, Admitted, locks, history
<1>0. \A c \in Calls : KeyOf(c) \in Keys
  BY DEF KeyOf, replay_key, Keys
<1>1. ASSUME NEW t \in Threads, NEW c \in Calls, Verify(t, c) PROVE OneTimeInv'
  BY <1>1 DEF Verify
<1>2. ASSUME NEW t \in Threads, Invoke(t) PROVE OneTimeInv'
  BY <1>2 DEF Invoke
<1>3. ASSUME NEW t \in Threads, AcquireAttempts(t) PROVE OneTimeInv'
  BY <1>3 DEF AcquireAttempts, AttemptsOps
<1>4. ASSUME NEW t \in Threads, AcquireUsed(t) PROVE OneTimeInv'
  BY <1>4 DEF AcquireUsed, UsedOps
<1>5. ASSUME NEW t \in Threads, TurnAway(t) PROVE OneTimeInv'
  BY <1>5 DEF TurnAway, InAttempts, ReleaseAttempts, Return
<1>6. ASSUME NEW t \in Threads, Admit(t) PROVE OneTimeInv'
  BY <1>6 DEF Admit, InAttempts, ReleaseAttempts
<1>7. ASSUME NEW t \in Threads, RejectReplay(t) PROVE OneTimeInv'
  BY <1>7 DEF RejectReplay, InUsed, ReleaseUsed, Return
<1>8. ASSUME NEW t \in Threads, Mismatch(t) PROVE OneTimeInv'
  BY <1>8 DEF Mismatch, InUsed
<1>9. ASSUME NEW t \in Threads, CountFailure(t) PROVE OneTimeInv'
  BY <1>9 DEF CountFailure, InAttempts, ReleaseAttempts, ReleaseUsed, Return
<1>10. ASSUME NEW t \in Threads, MarkUsed(t) PROVE OneTimeInv'
  <2> DEFINE key == KeyOf(call[t])
  <2>1. key \in Keys /\ accepts[key] = 0
    BY <1>0, <1>10 DEF MarkUsed, InUsed
  <2>2. \A u \in Threads : pc'[u] = "success" => u = t
    BY <1>10 DEF MarkUsed, InUsed
  <2>3. key \in used' /\ accepts'[key] = 0
    BY <1>10, <2>1 DEF MarkUsed
  <2>4. \A k \in Keys : accepts'[k] = 0 \/ (accepts'[k] = 1 /\ k \in used')
    BY <1>10 DEF MarkUsed
  <2>5. call' = call
    BY <1>10 DEF MarkUsed
  <2>6. KeyOf(call[t])' = key
    BY <2>5 DEF KeyOf
  <2> QED
    BY <2>2, <2>3, <2>4, <2>5, <2>6
<1>11. ASSUME NEW t \in Threads, Accept(t) PROVE OneTimeInv'
  BY <1>11 DEF Accept, InAttempts, ReleaseAttempts, ReleaseUsed, Return
<1>12. ASSUME NEW t \in Threads, is_rate_limited(t) PROVE OneTimeInv'
  BY <1>12 DEF is_rate_limited, InAttempts, ReleaseAttempts, Return
<1>13. ASSUME NEW t \in Threads, reset_attempts(t) PROVE OneTimeInv'
  BY <1>13 DEF reset_attempts, InAttempts, ReleaseAttempts, Return
<1>14. ASSUME NEW t \in Threads, clear_used_codes(t) PROVE OneTimeInv'
  BY <1>14 DEF clear_used_codes, InUsed, ReleaseUsed, Return
<1>15. CASE UNCHANGED vars
  BY <1>15 DEF vars
<1> QED
  BY <1>1, <1>2, <1>3, <1>4, <1>5, <1>6, <1>7, <1>8, <1>9, <1>10, <1>11, <1>12,
     <1>13, <1>14, <1>15 DEF Next, Begin, Step

-----------------------------------------------------------------------------
(* The memory bound.  Only an acceptance inserts, and only below capacity.    *)

UsedInv == IsFiniteSet(used) /\ UsedBounded

\* Every step keeps used_codes within its capacity.
LEMMA UsedStep == UsedInv /\ [Next]_vars => UsedInv'
<1> SUFFICES ASSUME UsedInv, [Next]_vars PROVE UsedInv'
  OBVIOUS
<1> USE LimitsAssumption DEF UsedInv, UsedBounded
<1>1. \/ used' = used
      \/ used' = {}
      \/ \E t \in Threads : MarkUsed(t)
  BY DEF Next, Begin, Step, vars, Verify, Invoke, AcquireAttempts, AcquireUsed, TurnAway,
         Admit, RejectReplay, Mismatch, CountFailure, Accept, is_rate_limited,
         reset_attempts, clear_used_codes
<1>2. CASE used' = used
  BY <1>2
<1>3. CASE used' = {}
  BY <1>3, FS_EmptySet
<1>4. ASSUME NEW t \in Threads, MarkUsed(t) PROVE UsedInv'
  <2> DEFINE key == KeyOf(call[t])
  <2>1. CASE Cardinality(used) >= MaxUsed
    <3>1. used' = {key}
      BY <1>4, <2>1 DEF MarkUsed
    <3>2. IsFiniteSet({key}) /\ Cardinality({key}) = 1
      BY FS_Singleton
    <3> QED
      BY <3>1, <3>2
  <2>2. CASE ~(Cardinality(used) >= MaxUsed)
    <3>1. used' = used \cup {key} /\ key \notin used
      BY <1>4, <2>2 DEF MarkUsed
    <3>2. IsFiniteSet(used') /\ Cardinality(used') = Cardinality(used) + 1
      BY <3>1, FS_AddElement
    <3>3. Cardinality(used) \in Nat
      BY FS_CardinalityType
    <3> QED
      BY <2>2, <3>2, <3>3
  <2> QED
    BY <2>1, <2>2
<1> QED
  BY <1>1, <1>2, <1>3, <1>4

-----------------------------------------------------------------------------
(* The rate limit.  OvershootBounded counts with every failure the calls      *)
(* that may still fail; that makes it inductive.  A thread joins them only    *)
(* below the limit, and each failure counted takes one of them away.          *)

\* The counter, a u32, never counts more than one up, and exactly one below 2^32.
LEMMA CountWraps ==
    ASSUME TypeOK
    PROVE  /\ (attempts + 1) % AttemptsModulus <= attempts + 1
           /\ attempts + 1 < AttemptsModulus =>
                 (attempts + 1) % AttemptsModulus = attempts + 1
  BY LimitsAssumption DEF TypeOK

\* A step lowers or keeps the counter and takes calls out of flight, or admits a
\* call below the limit, or counts the failure of one call in flight.
LEMMA FlightStep ==
    TypeOK /\ [Next]_vars =>
      \/ attempts' \in Nat /\ attempts' <= attempts /\ InFlight' \subseteq InFlight
      \/ attempts' = attempts /\ attempts < MaxAttempts
      \/ \E t \in InFlight : /\ attempts' = (attempts + 1) % AttemptsModulus
                             /\ InFlight' = InFlight \ {t}
<1> SUFFICES ASSUME TypeOK, [Next]_vars
             PROVE  \/ attempts' \in Nat /\ attempts' <= attempts /\ InFlight' \subseteq InFlight
                    \/ attempts' = attempts /\ attempts < MaxAttempts
                    \/ \E t \in InFlight : /\ attempts' = (attempts + 1) % AttemptsModulus
                                           /\ InFlight' = InFlight \ {t}
  OBVIOUS
<1> USE DEF TypeOK, InFlight, history, locks
<1> DEFINE Lands == attempts' \in Nat /\ attempts' <= attempts /\ InFlight' \subseteq InFlight
<1>1. ASSUME NEW t \in Threads, Begin(t) PROVE Lands
  BY <1>1, LimitsAssumption DEF Begin, Verify, Invoke
<1>2. ASSUME NEW t \in Threads,
             AcquireAttempts(t) \/ AcquireUsed(t) \/ TurnAway(t) \/ is_rate_limited(t)
      PROVE  Lands
  BY <1>2, LimitsAssumption DEF AcquireAttempts, AcquireUsed, TurnAway, is_rate_limited, InAttempts, Return
<1>3. ASSUME NEW t \in Threads,
             RejectReplay(t) \/ Mismatch(t) \/ MarkUsed(t) \/ clear_used_codes(t)
      PROVE  Lands
  BY <1>3, LimitsAssumption DEF RejectReplay, Mismatch, MarkUsed, clear_used_codes, InUsed, Return
<1>4. ASSUME NEW t \in Threads, Accept(t) \/ reset_attempts(t) PROVE Lands
  BY <1>4, LimitsAssumption DEF Accept, reset_attempts, InAttempts, Return
<1>5. ASSUME NEW t \in Threads, Admit(t) PROVE attempts' = attempts /\ attempts < MaxAttempts
  BY <1>5 DEF Admit
<1>6. ASSUME NEW t \in Threads, CountFailure(t)
      PROVE  /\ t \in InFlight
             /\ attempts' = (attempts + 1) % AttemptsModulus
             /\ InFlight' = InFlight \ {t}
  BY <1>6 DEF CountFailure, InAttempts, Return
<1>7. CASE UNCHANGED vars
  BY <1>7, LimitsAssumption DEF vars
<1> QED
  BY <1>1, <1>2, <1>3, <1>4, <1>5, <1>6, <1>7 DEF Next, Step

\* Every step keeps failures counted plus calls in flight within the bound.
LEMMA OvershootStep ==
    TypeOK /\ OvershootBounded /\ [Next]_vars => OvershootBounded'
<1> SUFFICES ASSUME TypeOK, OvershootBounded, [Next]_vars PROVE OvershootBounded'
  OBVIOUS
<1>1. /\ InFlight \subseteq Threads
      /\ InFlight' \subseteq Threads
  BY DEF InFlight
<1>2. /\ IsFiniteSet(InFlight) /\ Cardinality(InFlight) \in Nat
      /\ IsFiniteSet(InFlight') /\ Cardinality(InFlight') \in Nat
      /\ Cardinality(InFlight') <= Cardinality(Threads)
      /\ Cardinality(Threads) \in Nat
  BY <1>1, ThreadsAssumption, FS_Subset, FS_CardinalityType
<1>3. MaxAttempts \in Nat /\ attempts \in Nat
  BY LimitsAssumption DEF TypeOK
<1>4. CASE attempts' \in Nat /\ attempts' <= attempts /\ InFlight' \subseteq InFlight
  <2>1. Cardinality(InFlight') <= Cardinality(InFlight)
    BY <1>2, <1>4, FS_Subset
  <2> QED
    BY <1>2, <1>3, <1>4, <2>1 DEF OvershootBounded
<1>5. CASE attempts' = attempts /\ attempts < MaxAttempts
  BY <1>2, <1>3, <1>5 DEF OvershootBounded
<1>6. ASSUME NEW t \in InFlight,
             attempts' = (attempts + 1) % AttemptsModulus,
             InFlight' = InFlight \ {t}
      PROVE  OvershootBounded'
  <2>1. Cardinality(InFlight') = Cardinality(InFlight) - 1
    BY <1>2, <1>6, FS_RemoveElement
  <2>2. attempts' \in Nat /\ attempts' <= attempts + 1
    BY <1>3, <1>6, CountWraps, LimitsAssumption
  <2> QED
    BY <1>2, <1>3, <2>1, <2>2 DEF OvershootBounded
<1> QED
  BY <1>4, <1>5, <1>6, FlightStep

-----------------------------------------------------------------------------
(* A lockout holds for the calls that begin under it, as long as the counter  *)
(* cannot wrap: it may go max_attempts plus the other threads high.           *)

NoWrap == MaxAttempts + Cardinality(Threads) <= AttemptsModulus

LateInv == \A t \in lateCalls : pc[t] = "limit" /\ attempts >= MaxAttempts

\* While the counter cannot wrap, a failure in flight raises it.
LEMMA CountRises ==
    ASSUME NoWrap, TypeOK, OvershootBounded, NEW t \in InFlight
    PROVE  (attempts + 1) % AttemptsModulus = attempts + 1
<1>1. IsFiniteSet(InFlight) /\ Cardinality(InFlight) \in Nat /\ Cardinality(Threads) \in Nat
  BY ThreadsAssumption, FS_Subset, FS_CardinalityType DEF InFlight
<1>2. Cardinality(InFlight) # 0
  BY <1>1, FS_EmptySet
<1>3. MaxAttempts \in Nat /\ attempts \in Nat /\ AttemptsModulus \in Nat
  BY LimitsAssumption DEF TypeOK
<1>4. attempts + 1 < AttemptsModulus
  BY <1>1, <1>2, <1>3 DEF NoWrap, OvershootBounded
<1> QED
  BY <1>4, CountWraps

\* While the counter cannot wrap, a call begun at the limit waits at the limit.
LEMMA LateStep ==
    ASSUME NoWrap
    PROVE  TypeOK /\ OvershootBounded /\ LateInv /\ [Next]_vars => LateInv'
<1> SUFFICES ASSUME TypeOK, OvershootBounded, LateInv, [Next]_vars PROVE LateInv'
  OBVIOUS
<1> USE DEF TypeOK, LateInv, locks, history
<1>1. ASSUME NEW t \in Threads, NEW c \in Calls, Verify(t, c) PROVE LateInv'
  BY <1>1 DEF Verify
<1>2. ASSUME NEW t \in Threads, Invoke(t) PROVE LateInv'
  BY <1>2 DEF Invoke
<1>3. ASSUME NEW t \in Threads, AcquireAttempts(t) PROVE LateInv'
  BY <1>3 DEF AcquireAttempts, AttemptsOps
<1>4. ASSUME NEW t \in Threads, AcquireUsed(t) PROVE LateInv'
  BY <1>4 DEF AcquireUsed, UsedOps
<1>5. ASSUME NEW t \in Threads, TurnAway(t) PROVE LateInv'
  BY <1>5 DEF TurnAway, InAttempts, ReleaseAttempts, Return
<1>6. ASSUME NEW t \in Threads, Admit(t) PROVE LateInv'
  BY <1>6, LimitsAssumption DEF Admit, InAttempts, ReleaseAttempts
<1>7. ASSUME NEW t \in Threads, RejectReplay(t) PROVE LateInv'
  BY <1>7 DEF RejectReplay, InUsed, ReleaseUsed, Return
<1>8. ASSUME NEW t \in Threads, Mismatch(t) PROVE LateInv'
  BY <1>8 DEF Mismatch, InUsed
<1>9. ASSUME NEW t \in Threads, CountFailure(t) PROVE LateInv'
  <2>1. attempts' = attempts + 1
    BY <1>9, CountRises DEF CountFailure, InAttempts, InFlight
  <2>2. MaxAttempts \in Nat /\ attempts \in Nat
    BY LimitsAssumption
  <2> QED
    BY <1>9, <2>1, <2>2 DEF CountFailure, InAttempts, Return
<1>10. ASSUME NEW t \in Threads, MarkUsed(t) PROVE LateInv'
  BY <1>10 DEF MarkUsed, InUsed
<1>11. ASSUME NEW t \in Threads, Accept(t) PROVE LateInv'
  BY <1>11 DEF Accept, InAttempts, ReleaseAttempts, ReleaseUsed, Return
<1>12. ASSUME NEW t \in Threads, is_rate_limited(t) PROVE LateInv'
  BY <1>12 DEF is_rate_limited, InAttempts, ReleaseAttempts, Return
<1>13. ASSUME NEW t \in Threads, reset_attempts(t) PROVE LateInv'
  BY <1>13 DEF reset_attempts, InAttempts, ReleaseAttempts, Return
<1>14. ASSUME NEW t \in Threads, clear_used_codes(t) PROVE LateInv'
  BY <1>14 DEF clear_used_codes, InUsed, ReleaseUsed, Return
<1>15. CASE UNCHANGED vars
  BY <1>15 DEF vars
<1> QED
  BY <1>1, <1>2, <1>3, <1>4, <1>5, <1>6, <1>7, <1>8, <1>9, <1>10, <1>11, <1>12,
     <1>13, <1>14, <1>15 DEF Next, Begin, Step

-----------------------------------------------------------------------------
(* The verdict of a call and its effects are several steps; while a thread is *)
(* between them it holds used_codes, and what was published before is exactly *)
(* what the gate judged the code against.                                     *)

\* The gate counts the elements of a set as the verifier does.
LEMMA GateRemembers ==
    ASSUME NEW keys, NEW k
    PROVE  Gate!Remember(keys, k) =
             IF Cardinality(keys) >= MaxUsed THEN {k} ELSE keys \cup {k}
<1>1. Gate!Cardinality(keys) = Cardinality(keys)
  BY DEF Gate!Cardinality, Cardinality, Gate!IsFiniteSet, IsFiniteSet
<1> QED
  BY <1>1 DEF Gate!Remember

JudgeInv ==
    /\ \A t \in Threads :
          pc[t] = "failure" => KeyOf(call[t]) \notin used /\ ~Matches(call[t])
    /\ \A t \in Threads :
          pc[t] = "success" => /\ KeyOf(call[t]) \notin published
                               /\ Matches(call[t])
                               /\ used = Gate!Remember(published, KeyOf(call[t]))
    /\ (\A t \in Threads : pc[t] # "success") => published = used

\* Every step keeps the verdict of each call under used_codes valid.
LEMMA JudgeStep == TypeOK /\ LockInv /\ JudgeInv /\ [Next]_vars => JudgeInv'
<1> SUFFICES ASSUME TypeOK, LockInv, JudgeInv, [Next]_vars PROVE JudgeInv'
  OBVIOUS
<1> USE ThreadsAssumption DEF TypeOK, LockInv, JudgeInv, locks, history
<1>1. ASSUME NEW t \in Threads, NEW c \in Calls, Verify(t, c) PROVE JudgeInv'
  BY <1>1 DEF Verify
<1>2. ASSUME NEW t \in Threads, Invoke(t) PROVE JudgeInv'
  BY <1>2 DEF Invoke
<1>3. ASSUME NEW t \in Threads, AcquireAttempts(t) PROVE JudgeInv'
  BY <1>3 DEF AcquireAttempts, AttemptsOps
<1>4. ASSUME NEW t \in Threads, AcquireUsed(t) PROVE JudgeInv'
  BY <1>4 DEF AcquireUsed, UsedOps
<1>5. ASSUME NEW t \in Threads, TurnAway(t) PROVE JudgeInv'
  BY <1>5 DEF TurnAway, InAttempts, ReleaseAttempts, Return
<1>6. ASSUME NEW t \in Threads, Admit(t) PROVE JudgeInv'
  BY <1>6 DEF Admit, InAttempts, ReleaseAttempts
<1>7. ASSUME NEW t \in Threads, RejectReplay(t) PROVE JudgeInv'
  BY <1>7 DEF RejectReplay, InUsed, ReleaseUsed, Return
<1>8. ASSUME NEW t \in Threads, Mismatch(t) PROVE JudgeInv'
  BY <1>8 DEF Mismatch, InUsed
<1>9. ASSUME NEW t \in Threads, CountFailure(t) PROVE JudgeInv'
  BY <1>9 DEF CountFailure, InAttempts, ReleaseAttempts, ReleaseUsed, Return
<1>10. ASSUME NEW t \in Threads, MarkUsed(t) PROVE JudgeInv'
  <2> DEFINE key == KeyOf(call[t])
  <2>1. \A u \in Threads : pc[u] \notin {"failure", "success"}
    BY <1>10 DEF MarkUsed, InUsed
  <2>2. /\ pc' = [pc EXCEPT ![t] = "success"]
        /\ call' = call /\ published' = published
    BY <1>10 DEF MarkUsed
  <2>3. KeyOf(call[t])' = key /\ (Matches(call[t])' <=> Matches(call[t]))
    BY <2>2 DEF KeyOf, Matches
  <2>4. published = used /\ key \notin published /\ Matches(call[t])
    BY <1>10, <2>1 DEF MarkUsed
  <2>5. used' = Gate!Remember(published, key)
    <3>1. used' = Gate!Remember(used, key)
      BY <1>10, GateRemembers DEF MarkUsed
    <3> QED
      BY <2>4, <3>1
  <2>6. \A u \in Threads : pc'[u] = "success" => u = t
    BY <2>1, <2>2
  <2>7. \A u \in Threads : pc'[u] # "failure"
    BY <2>1, <2>2
  <2>8. pc'[t] = "success"
    BY <2>2
  <2> QED
    BY <2>2, <2>3, <2>4, <2>5, <2>6, <2>7, <2>8
<1>11. ASSUME NEW t \in Threads, Accept(t) PROVE JudgeInv'
  BY <1>11 DEF Accept, InAttempts, ReleaseAttempts, ReleaseUsed, Return
<1>12. ASSUME NEW t \in Threads, is_rate_limited(t) PROVE JudgeInv'
  BY <1>12 DEF is_rate_limited, InAttempts, ReleaseAttempts, Return
<1>13. ASSUME NEW t \in Threads, reset_attempts(t) PROVE JudgeInv'
  BY <1>13 DEF reset_attempts, InAttempts, ReleaseAttempts, Return
<1>14. ASSUME NEW t \in Threads, clear_used_codes(t) PROVE JudgeInv'
  BY <1>14 DEF clear_used_codes, InUsed, ReleaseUsed, Return
<1>15. CASE UNCHANGED vars
  BY <1>15 DEF vars
<1> QED
  BY <1>1, <1>2, <1>3, <1>4, <1>5, <1>6, <1>7, <1>8, <1>9, <1>10, <1>11, <1>12,
     <1>13, <1>14, <1>15 DEF Next, Begin, Step

\* Each step of the verifier is a step of the gate or changes nothing the gate has.
LEMMA GateStep ==
    TypeOK /\ LockInv /\ JudgeInv /\ [Next]_vars => [Gate!GateNext]_(Gate!gateVars)
<1> SUFFICES ASSUME TypeOK, LockInv, JudgeInv, [Next]_vars
             PROVE  Gate!GateNext \/ UNCHANGED Gate!gateVars
  OBVIOUS
<1> DEFINE Quiet == UNCHANGED <<published, attempts, phaseOf, call, result>>
           To(t, p) == phaseOf' = [phaseOf EXCEPT ![t] = p]
<1> USE ThreadsAssumption
    DEF TypeOK, LockInv, JudgeInv, locks, history, Submitted, Admitted, phaseOf
<1>0. \A t \in Threads : pc[t] = "replay" /\ usedOwner = t => published = used
  OBVIOUS
<1>1. ASSUME NEW t \in Threads, NEW c \in Calls, Verify(t, c) PROVE Gate!Submit(t, c)
  BY <1>1 DEF Verify, Gate!Submit
<1>2. ASSUME NEW t \in Threads, Invoke(t) PROVE Quiet
  BY <1>2 DEF Invoke
<1>3. ASSUME NEW t \in Threads, AcquireAttempts(t) PROVE Quiet
  BY <1>3 DEF AcquireAttempts
<1>4. ASSUME NEW t \in Threads, AcquireUsed(t) PROVE Quiet
  BY <1>4 DEF AcquireUsed
<1>5. ASSUME NEW t \in Threads, TurnAway(t) PROVE Gate!TurnAway(t)
  BY <1>5 DEF TurnAway, InAttempts, Return, Gate!TurnAway, Gate!Answer
<1>6. ASSUME NEW t \in Threads, Admit(t) PROVE Gate!Admit(t)
  BY <1>6 DEF Admit, InAttempts, Gate!Admit
<1>7. ASSUME NEW t \in Threads, RejectReplay(t) PROVE Gate!RejectReplay(t)
  BY <1>0, <1>7
     DEF RejectReplay, InUsed, ReleaseUsed, Return, KeyOf, replay_key,
         Gate!RejectReplay, Gate!Answer, Gate!KeyOf
<1>8. ASSUME NEW t \in Threads, Mismatch(t) PROVE Quiet
  BY <1>8 DEF Mismatch, InUsed
<1>9. ASSUME NEW t \in Threads, CountFailure(t) PROVE Gate!RejectMismatch(t)
  BY <1>9
     DEF CountFailure, InAttempts, ReleaseUsed, Return, KeyOf, replay_key, Matches,
         Gate!RejectMismatch, Gate!Answer, Gate!KeyOf, Gate!Matches
<1>10. ASSUME NEW t \in Threads, MarkUsed(t) PROVE Quiet
  BY <1>10 DEF MarkUsed, InUsed
<1>11. ASSUME NEW t \in Threads, Accept(t) PROVE Gate!Accept(t)
  BY <1>11
     DEF Accept, InAttempts, ReleaseUsed, Return, KeyOf, replay_key, Matches,
         Gate!Accept, Gate!Answer, Gate!KeyOf, Gate!Matches
<1>12. ASSUME NEW t \in Threads, is_rate_limited(t) PROVE Gate!Query(t)
  BY <1>12 DEF is_rate_limited, InAttempts, Return, Gate!Query
<1>13. ASSUME NEW t \in Threads, reset_attempts(t) PROVE Gate!Pardon
  BY <1>13 DEF reset_attempts, InAttempts, Return, Gate!Pardon
<1>14. ASSUME NEW t \in Threads, clear_used_codes(t) PROVE Gate!Forget
  BY <1>14 DEF clear_used_codes, InUsed, ReleaseUsed, Return, Gate!Forget
<1>15. CASE UNCHANGED vars
  BY <1>15 DEF vars, Gate!gateVars
<1>16. Quiet => UNCHANGED Gate!gateVars
  BY DEF Gate!gateVars
<1> QED
  BY <1>1, <1>2, <1>3, <1>4, <1>5, <1>6, <1>7, <1>8, <1>9, <1>10, <1>11, <1>12,
     <1>13, <1>14, <1>15, <1>16 DEF Next, Begin, Step, Gate!GateNext

-----------------------------------------------------------------------------
(* The invariants together, and what follows from them. *)

IInv == TypeOK /\ LockInv /\ OneTimeInv /\ UsedInv /\ OvershootBounded /\ JudgeInv

\* The conjunction of the invariants is inductive.
LEMMA InvHolds == Spec => []IInv
<1>1. Init => TypeOK
  BY ThreadsAssumption, CallsAssumption, LimitsAssumption
     DEF Init, TypeOK, Labels, AttemptsOps, UsedOps, Submitted, Admitted
<1>2. Init => LockInv /\ OneTimeInv /\ JudgeInv
  BY ThreadsAssumption DEF Init, LockInv, OneTimeInv, JudgeInv
<1>3. Init => UsedInv
  BY FS_EmptySet, LimitsAssumption DEF Init, UsedInv, UsedBounded
<1>4. Init => OvershootBounded
  <2> SUFFICES ASSUME Init PROVE OvershootBounded
    OBVIOUS
  <2>1. InFlight = {} /\ attempts = 0
    BY DEF Init, InFlight
  <2>2. Cardinality(Threads) \in Nat /\ Cardinality(Threads) # 0 /\ Cardinality({}) = 0
    BY ThreadsAssumption, FS_CardinalityType, FS_EmptySet
  <2>3. Cardinality(InFlight) = 0
    BY <2>1, <2>2
  <2> QED
    BY <2>1, <2>2, <2>3, LimitsAssumption DEF OvershootBounded
<1>5. IInv /\ [Next]_vars => IInv'
  BY TypeStep, LockStep, OneTimeStep, UsedStep, OvershootStep, JudgeStep DEF IInv
<1> QED
  BY <1>1, <1>2, <1>3, <1>4, <1>5, PTL DEF Spec, IInv

\* However many threads race with one code in one context, at most one of them is
\* told true until used_codes is emptied.
THEOREM OneTimeUseHolds == Spec => []OneTimeUse
<1>1. IInv => OneTimeUse
  BY DEF IInv, TypeOK, OneTimeInv, OneTimeUse
<1> QED
  BY <1>1, InvHolds, PTL

\* used_codes never grows beyond its capacity (one key, when that is zero).
THEOREM UsedBoundedHolds == Spec => []UsedBounded
<1>1. IInv => UsedBounded
  BY DEF IInv, UsedInv
<1> QED
  BY <1>1, InvHolds, PTL

\* Between two resets the verifier judges at most max_attempts guesses plus one
\* for each of the other threads.
THEOREM OvershootBoundedHolds == Spec => []OvershootBounded
<1>1. IInv => OvershootBounded
  BY DEF IInv
<1> QED
  BY <1>1, InvHolds, PTL

\* A call that begins at the limit is turned away while the limit is not lifted,
\* provided that the overshoot cannot wrap the counter.
THEOREM LockoutHoldsForLateCalls == ASSUME NoWrap PROVE Spec => []LockoutHolds
<1>1. Init => LateInv
  BY DEF Init, LateInv
<1>2. IInv /\ LateInv /\ [Next]_vars => LateInv'
  BY LateStep DEF IInv
<1>3. LateInv => LockoutHolds
  BY DEF LateInv, LockoutHolds, Admitted
<1> QED
  BY <1>1, <1>2, <1>3, InvHolds, PTL DEF Spec

\* The verifier implements the gate: every behaviour of the interleaved critical
\* sections is one in which codes are judged atomically, one after the other.
THEOREM VerifierImplementsGate == Spec => ImplementsGate
<1>1. Init => Gate!GateInit
  BY DEF Init, Gate!GateInit, phaseOf, Submitted, Admitted
<1>2. IInv /\ [Next]_vars => [Gate!GateNext]_(Gate!gateVars)
  BY GateStep DEF IInv
<1> QED
  BY <1>1, <1>2, InvHolds, PTL DEF Spec, ImplementsGate, Gate!GateSpec
=============================================================================
