-------------------------- MODULE TotpLoginProofs --------------------------
(***************************************************************************)
(* Theorems about TotpLogin, for every number of steps, contexts and       *)
(* threads, every limit, and every assignment of codes to steps.           *)
(***************************************************************************)
EXTENDS TotpLogin, FiniteSetTheorems, TLAPS

\* The keys a right code of the present step can have: one for each context.
StepKeys == {Code(opened)} \X Contexts

\* What keeps the codes of the steps apart.  Calls under way are of the step the set was
\* last emptied in, so the set has keys of that step only, and it has those that were
\* accepted: a key of equal digits from another step cannot be there.
LoginInv ==
    /\ \A t \in Threads : phase[t] # "idle" =>
          request[t].step = opened /\ request[t].expected = Code(opened)
    /\ remembered \subseteq StepKeys
    /\ \A x \in Contexts :
          accepted[<<opened, x>>] = IF <<Code(opened), x>> \in remembered THEN 1 ELSE 0
    /\ \A s \in Steps, x \in Contexts : s > opened => accepted[<<s, x>>] = 0
    /\ OncePerStep

\* As long as a key of the step is missing, the set has room for it: it is never emptied
\* by an acceptance.
LEMMA RoomForOneMore ==
    ASSUME TypeOK, LoginInv, NEW k \in StepKeys, k \notin remembered
    PROVE  Remember(remembered, k) = remembered \cup {k}
<1> DEFINE f == [x \in Contexts |-> <<Code(opened), x>>]
<1>1. IsFiniteSet(Contexts) /\ MaxUsed \in Nat /\ Cardinality(Contexts) \in Nat
      /\ Cardinality(Contexts) <= MaxUsed
  BY LoginAssumption, FS_CardinalityType
<1>2. f \in Surjection(Contexts, StepKeys)
  <2>1. ASSUME NEW p \in StepKeys PROVE \E x \in Contexts : f[x] = p
    BY DEF StepKeys
  <2>2. f \in [Contexts -> StepKeys]
    BY DEF StepKeys
  <2> QED
    BY <2>1, <2>2 DEF Surjection
<1>3. IsFiniteSet(StepKeys) /\ Cardinality(StepKeys) <= Cardinality(Contexts)
  BY <1>1, <1>2, FS_Surjection
<1>4. IsFiniteSet(StepKeys \ {k})
      /\ Cardinality(StepKeys \ {k}) = Cardinality(StepKeys) - 1
  BY <1>3, FS_RemoveElement
<1>5. remembered \subseteq StepKeys \ {k}
  BY DEF LoginInv
<1>6. Cardinality(remembered) <= Cardinality(StepKeys \ {k}) /\ IsFiniteSet(remembered)
  BY <1>4, <1>5, FS_Subset
<1>7. Cardinality(remembered) \in Nat /\ Cardinality(StepKeys) \in Nat
  BY <1>3, <1>6, FS_CardinalityType
<1>8. ~(Cardinality(remembered) >= MaxUsed)
  BY <1>1, <1>3, <1>4, <1>6, <1>7
<1> QED
  BY <1>8 DEF Remember

\* What an acceptance does to the keys and to the history.
LEMMA GrantGrows ==
    ASSUME TypeOK, LoginInv, NEW t \in Threads, Grant(t)
    PROVE  \E x \in Contexts :
             /\ <<Code(opened), x>> \notin remembered
             /\ remembered' = remembered \cup {<<Code(opened), x>>}
             /\ accepted' = [accepted EXCEPT ![<<opened, x>>] = @ + 1]
             /\ accepted[<<opened, x>>] = 0
<1> DEFINE x == request[t].issued
<1>1. phase[t] # "idle" /\ x \in Contexts
      /\ request[t].step = opened /\ request[t].expected = Code(opened)
  <2>1. phase[t] # "idle"
    BY DEF Grant, Accept, Answer
  <2> QED
    BY <2>1 DEF TypeOK, LoginInv, Logins
<1>2. KeyOf(request[t]) = <<Code(opened), x>>
  BY <1>1 DEF Grant, Accept, Matches, KeyOf
<1>3. <<Code(opened), x>> \in StepKeys /\ <<Code(opened), x>> \notin remembered
  BY <1>1, <1>2 DEF Grant, Accept, StepKeys
<1>4. remembered' = remembered \cup {<<Code(opened), x>>}
  BY <1>2, <1>3, RoomForOneMore DEF Grant, Accept
<1>5. accepted[<<opened, x>>] = 0
  BY <1>1, <1>3 DEF LoginInv
<1>6. accepted' = [accepted EXCEPT ![<<opened, x>>] = @ + 1]
  BY <1>1 DEF Grant
<1> QED
  BY <1>1, <1>3, <1>4, <1>5, <1>6

\* Every step keeps the types.
LEMMA TypeStep == TypeOK /\ LoginInv /\ [Next]_loginVars => TypeOK'
<1> SUFFICES ASSUME TypeOK, LoginInv, [Next]_loginVars PROVE TypeOK'
  OBVIOUS
<1> USE DEF TypeOK, Phases, Results
<1>0. MaxStep \in Nat /\ now \in Nat /\ opened \in Nat /\ Code(opened) \in Codes
  BY LoginAssumption DEF Steps, Code
<1>1. ASSUME NEW t \in Threads, Login(t) PROVE TypeOK'
  <2>1. PICK step \in 0 .. now, issued \in Contexts, context \in Contexts :
          /\ Submit(t, [code |-> Code(step), expected |-> Code(now),
                        issued |-> issued, request |-> context, step |-> now])
          /\ UNCHANGED <<secret, now, opened, accepted>>
    BY <1>1 DEF Login
  <2>2. step \in Steps /\ now \in Steps
    BY <1>0 DEF Steps
  <2>3. Code(step) \in Codes /\ Code(now) \in Codes
    BY <2>2, LoginAssumption DEF Code
  <2>4. [code |-> Code(step), expected |-> Code(now), issued |-> issued,
         request |-> context, step |-> now] \in Logins
    BY <2>2, <2>3 DEF Logins
  <2> QED
    BY <2>1, <2>4 DEF Submit
<1>2. CASE Tick
  BY <1>2, <1>0 DEF Tick, gateVars, Steps
<1>3. CASE Open
  BY <1>3, <1>0 DEF Open, Forget
<1>4. CASE Reset
  BY <1>4 DEF Reset, Pardon
<1>5. ASSUME NEW t \in Threads, Decline(t) PROVE TypeOK'
  <2>1. CASE Admit(t)
    BY <1>5, <2>1 DEF Decline, Admit
  <2>2. CASE TurnAway(t)
    BY <1>5, <2>2 DEF Decline, TurnAway, Answer
  <2>3. CASE RejectReplay(t)
    BY <1>5, <2>3 DEF Decline, RejectReplay, Answer
  <2>4. CASE RejectMismatch(t)
    <3>1. (failures + 1) % AttemptsModulus \in Nat
      BY LoginAssumption
    <3> QED
      BY <1>5, <2>4, <3>1 DEF Decline, RejectMismatch, Answer
  <2> QED
    BY <1>5, <2>1, <2>2, <2>3, <2>4 DEF Decline
<1>6. ASSUME NEW t \in Threads, Grant(t) PROVE TypeOK'
  <2>1. PICK x \in Contexts :
          /\ remembered' = remembered \cup {<<Code(opened), x>>}
          /\ accepted' = [accepted EXCEPT ![<<opened, x>>] = @ + 1]
          /\ accepted[<<opened, x>>] = 0
    BY <1>6, GrantGrows
  <2>2. remembered' \subseteq Codes \X Contexts
    BY <1>0, <2>1
  <2>3. accepted' \in [Steps \X Contexts -> Nat]
    <3>1. accepted \in [Steps \X Contexts -> Nat] /\ <<opened, x>> \in Steps \X Contexts
      BY <1>0 DEF Steps
    <3>2. accepted' = [accepted EXCEPT ![<<opened, x>>] = accepted[<<opened, x>>] + 1]
      BY <2>1
    <3>3. accepted[<<opened, x>>] + 1 \in Nat
      BY <2>1
    <3> QED
      BY <3>1, <3>2, <3>3
  <2> QED
    BY <1>6, <2>2, <2>3 DEF Grant, Accept, Answer
<1>7. CASE UNCHANGED loginVars
  BY <1>7 DEF loginVars, gateVars
<1> QED
  BY <1>1, <1>2, <1>3, <1>4, <1>5, <1>6, <1>7 DEF Next

\* Every step keeps the invariant.
LEMMA LoginStep == TypeOK /\ LoginInv /\ [Next]_loginVars => LoginInv'
<1> SUFFICES ASSUME TypeOK, LoginInv, [Next]_loginVars PROVE LoginInv'
  OBVIOUS
<1> USE DEF TypeOK, LoginInv, OncePerStep, Code, StepKeys, Phases
<1>0. MaxStep \in Nat /\ now \in Nat /\ opened \in Nat /\ now \in Steps
  BY LoginAssumption DEF Steps
<1>1. ASSUME NEW t \in Threads, Login(t) PROVE LoginInv'
  BY <1>1 DEF Login, Submit
<1>2. CASE Tick
  BY <1>2 DEF Tick, gateVars
<1>3. CASE Open
  <2>1. opened' = now /\ now > opened /\ remembered' = {} /\ UNCHANGED <<accepted, phase, secret>>
    BY <1>0, <1>3 DEF Open, Forget
  <2>2. \A t \in Threads : phase'[t] = "idle"
    BY <1>3, <2>1 DEF Open
  <2>3. \A s \in Steps : s > now => s > opened
    BY <1>0, <2>1 DEF Steps
  <2>4. \A x \in Contexts : accepted[<<now, x>>] = 0
    BY <1>0, <2>1
  <2> QED
    BY <2>1, <2>2, <2>3, <2>4
<1>4. CASE Reset
  BY <1>4 DEF Reset, Pardon
<1>5. ASSUME NEW t \in Threads, Decline(t) PROVE LoginInv'
  BY <1>5 DEF Decline, Admit, TurnAway, RejectReplay, RejectMismatch, Answer
<1>6. ASSUME NEW t \in Threads, Grant(t) PROVE LoginInv'
  <2>1. PICK x \in Contexts :
          /\ <<Code(opened), x>> \notin remembered
          /\ remembered' = remembered \cup {<<Code(opened), x>>}
          /\ accepted' = [accepted EXCEPT ![<<opened, x>>] = @ + 1]
          /\ accepted[<<opened, x>>] = 0
    BY <1>6, GrantGrows
  <2>2. opened' = opened /\ secret' = secret
    BY <1>6 DEF Grant
  <2>3. \A u \in Threads : phase'[u] # "idle" =>
           phase[u] # "idle" /\ request'[u] = request[u]
    BY <1>6 DEF Grant, Accept, Answer
  <2>4. \A p \in Steps \X Contexts :
           accepted'[p] = IF p = <<opened, x>> THEN 1 ELSE accepted[p]
    BY <2>1
  <2>5. opened \in Steps
    BY <1>0 DEF Steps
  <2>6. \A y \in Contexts : accepted'[<<opened, y>>] =
           IF <<Code(opened), y>> \in remembered' THEN 1 ELSE 0
    BY <2>1, <2>4, <2>5
  <2>7. \A s \in Steps, y \in Contexts : s > opened => accepted'[<<s, y>>] = 0
    BY <1>0, <2>4
  <2>8. OncePerStep'
    BY <2>4
  <2> QED
    BY <2>1, <2>2, <2>3, <2>6, <2>7, <2>8
<1>7. CASE UNCHANGED loginVars
  BY <1>7 DEF loginVars, gateVars
<1> QED
  BY <1>1, <1>2, <1>3, <1>4, <1>5, <1>6, <1>7 DEF Next

\* The invariant holds of every state.
LEMMA Invariance == Spec => [](TypeOK /\ LoginInv)
<1>1. Init => TypeOK /\ LoginInv
  <2> SUFFICES ASSUME Init PROVE TypeOK /\ LoginInv
    OBVIOUS
  <2>1. MaxStep \in Nat /\ 0 \in Steps
    BY LoginAssumption DEF Steps
  <2> QED
    BY <2>1 DEF Init, GateInit, TypeOK, LoginInv, OncePerStep, Phases, Results, StepKeys
<1> QED
  BY <1>1, TypeStep, LoginStep, PTL DEF Spec

\* Type correctness.
THEOREM TypeOKHolds == Spec => []TypeOK
  BY Invariance, PTL

\* In each context the code of a step is accepted at most once.
THEOREM OncePerStepHolds == Spec => []OncePerStep
<1>1. LoginInv => OncePerStep
  BY DEF LoginInv
<1> QED
  BY <1>1, Invariance, PTL

\* A right code is refused as a replay only if it was accepted in this step and context.
THEOREM RefusedIfUsedHolds == Spec => RefusedIfUsed
<1> DEFINE Refusals == \A t \in Threads : RejectReplay(t) /\ Matches(request[t]) =>
                          accepted[<<request[t].step, request[t].issued>>] = 1
<1>1. TypeOK /\ LoginInv => Refusals
  <2> SUFFICES ASSUME TypeOK, LoginInv, NEW t \in Threads, RejectReplay(t), Matches(request[t])
               PROVE accepted[<<request[t].step, request[t].issued>>] = 1
    OBVIOUS
  <2>1. phase[t] # "idle" /\ KeyOf(request[t]) \in remembered
    BY DEF RejectReplay, Answer
  <2>2. /\ request[t].issued \in Contexts
        /\ request[t].step = opened
        /\ request[t].code = Code(opened)
    BY <2>1 DEF TypeOK, LoginInv, Logins, Matches
  <2> QED
    BY <2>1, <2>2 DEF LoginInv, KeyOf
<1> HIDE DEF Refusals
<1>2. Spec => [][Refusals]_loginVars
  BY <1>1, Invariance, PTL
<1> QED
  BY <1>2 DEF Refusals, RefusedIfUsed
=============================================================================
