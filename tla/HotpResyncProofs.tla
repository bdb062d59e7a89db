-------------------------- MODULE HotpResyncProofs --------------------------
(***************************************************************************)
(* Theorems about HotpResync, for every counter width, look-ahead and      *)
(* assignment of codes.                                                    *)
(***************************************************************************)
EXTENDS HotpResync, TLAPS

\* What verify_with_resync returns is a counter of the window whose code it is.
LEMMA ResyncReturns ==
    ASSUME NEW code, NEW counter \in Nat, NEW c \in verify_with_resync(code, counter)
    PROVE  /\ c \in Counters
           /\ counter <= c /\ c <= counter + LookAhead
           /\ generate(c) = code
  BY HotpAssumption DEF verify_with_resync, Counters

\* An acceptance, as the log and the stored counter see it.
LEMMA AcceptLogs ==
    ASSUME TypeOK, NEW c \in Callers, Accept(c)
    PROVE  \E n, m \in Counters :
             /\ n \in submitted
             /\ stored <= m /\ generate(m) = generate(n)
             /\ stored' = m + 1
             /\ log' = Append(log, [of |-> n, matched |-> m])
             /\ login' = [login EXCEPT ![c] = Idle]
             /\ UNCHANGED <<secret, token, submitted>>
<1> DEFINE n == login[c].of
<1>1. n \in Counters /\ n \in submitted
  BY DEF Accept, TypeOK
<1>2. PICK m \in verify_with_resync(generate(n), login[c].read) :
        /\ stored = login[c].read
        /\ stored' = m + 1
        /\ log' = Append(log, [of |-> n, matched |-> m])
        /\ login' = [login EXCEPT ![c] = Idle]
        /\ UNCHANGED <<secret, token, submitted>>
  BY DEF Accept, Matched
<1>3. stored \in Nat
  BY HotpAssumption DEF TypeOK
<1>4. m \in Counters /\ stored <= m /\ generate(m) = generate(n)
  BY <1>2, <1>3, ResyncReturns
<1> QED
  BY <1>1, <1>2, <1>4

\* A caller that has read a counter, or is done: its entry keeps its type.
LEMMA LoginTyped ==
    ASSUME TypeOK, NEW c \in Callers, NEW n \in submitted, NEW l,
           l = Idle \/ (~Exhausted /\ l = Verifying(n, stored)),
           login' = [login EXCEPT ![c] = l]
    PROVE  /\ login' \in [Callers -> [state : {"idle", "verifying"}, of : Counters, read : Counters]]
           /\ \A d \in Callers : login'[d] # Idle =>
                  login'[d].of \in submitted /\ login'[d].read <= stored
<1>1. 0 \in Counters /\ n \in Counters /\ stored \in Nat /\ MaxCounter \in Nat
  <2>1. n \in Counters
    BY DEF TypeOK
  <2>2. 0 \in Counters /\ MaxCounter \in Nat
    BY HotpAssumption DEF Counters
  <2>3. stored \in Nat
    BY HotpAssumption DEF TypeOK
  <2> QED
    BY <2>1, <2>2, <2>3
<1>2. ~Exhausted => stored \in Counters
  BY <1>1 DEF Exhausted, Counters
<1>3. l \in [state : {"idle", "verifying"}, of : Counters, read : Counters]
  BY <1>1, <1>2 DEF Idle, Verifying
<1>4. l # Idle => l.of \in submitted /\ l.read <= stored
  BY <1>1 DEF Verifying
<1>5. \A d \in Callers : login'[d] = IF d = c THEN l ELSE login[d]
  BY DEF TypeOK
<1>6. login' \in [Callers -> [state : {"idle", "verifying"}, of : Counters, read : Counters]]
  BY <1>3 DEF TypeOK
<1> QED
  BY <1>4, <1>5, <1>6 DEF TypeOK

\* Types, the order of the log, and what holds while codes differ.
Synced ==
    CodesDiffer => /\ stored <= token
                   /\ \A i \in 1 .. Len(log) : log[i].matched = log[i].of

SubmittedShown == \A n \in submitted : n < token

IInv == TypeOK /\ CounterMatchedOnce /\ SubmittedShown /\ Synced

\* The invariant is inductive: an acceptance appends a counter past all others, and
\* when codes differ that counter is the one the code was made for, so it was shown.
LEMMA InvHolds == Spec => []IInv
<1> USE HotpAssumption
<1>0. \A c : c \in Counters <=> c \in Nat /\ c <= MaxCounter
  BY DEF Counters
<1>1. Init => IInv
  BY <1>0 DEF Init, IInv, TypeOK, CounterMatchedOnce, SubmittedShown, Synced, Idle
<1>2. ASSUME IInv, [Next]_vars PROVE IInv'
  <2> USE <1>2 DEF IInv
  <2>1. CASE Press
    <3>1. token' = token + 1 /\ token \in Counters
      <4>1. token' = token + 1 /\ token <= MaxCounter
        BY <2>1 DEF Press
      <4>2. token \in Nat
        BY DEF TypeOK
      <4> QED
        BY <4>1, <4>2 DEF Counters
    <3>2. UNCHANGED <<secret, stored, login, log>>
      BY <2>1 DEF Press
    <3>3. submitted \subseteq submitted' /\ submitted' \subseteq submitted \cup {token}
      BY <2>1 DEF Press
    <3>4. token' \in 0 .. MaxCounter + 1 /\ submitted' \in SUBSET Counters
      BY <1>0, <3>1, <3>3 DEF TypeOK
    <3>5. /\ \A i \in 1 .. Len(log') : log'[i].of \in submitted' /\ log'[i].matched < stored'
          /\ \A c \in Callers : login'[c] # Idle =>
                 login'[c].of \in submitted' /\ login'[c].read <= stored'
      BY <3>2, <3>3 DEF TypeOK
    <3>6. TypeOK'
      BY <3>2, <3>4, <3>5 DEF TypeOK
    <3>7. CounterMatchedOnce' /\ SubmittedShown'
      <4>1. CounterMatchedOnce'
        BY <3>2 DEF CounterMatchedOnce
      <4>2. \A n \in submitted : n \in Nat
        BY <1>0 DEF TypeOK
      <4>3. SubmittedShown'
        BY <1>0, <3>1, <3>3, <4>2 DEF SubmittedShown
      <4> QED
        BY <4>1, <4>3
    <3>8. CodesDiffer' <=> CodesDiffer
      BY <3>2 DEF CodesDiffer, generate
    <3>9. stored \in Nat /\ (stored <= token => stored' <= token')
      BY <3>1, <3>2 DEF TypeOK
    <3>10. Synced'
      BY <3>2, <3>8, <3>9 DEF Synced
    <3> QED
      BY <3>6, <3>7, <3>10
  <2>2. ASSUME NEW c \in Callers, Accept(c) PROVE IInv'
    <3>1. PICK n, m \in Counters :
            /\ n \in submitted
            /\ stored <= m /\ generate(m) = generate(n)
            /\ stored' = m + 1
            /\ log' = Append(log, [of |-> n, matched |-> m])
            /\ login' = [login EXCEPT ![c] = Idle]
            /\ UNCHANGED <<secret, token, submitted>>
      BY <2>2, AcceptLogs
    <3> DEFINE entry == [of |-> n, matched |-> m]
    <3>2. /\ entry \in [of : Counters, matched : Counters]
          /\ log \in Seq([of : Counters, matched : Counters])
      BY <3>1 DEF TypeOK
    <3>3. /\ log' \in Seq([of : Counters, matched : Counters])
          /\ Len(log') = Len(log) + 1
          /\ Len(log) \in Nat
          /\ \A i \in 1 .. Len(log) : log'[i] = log[i]
          /\ log'[Len(log) + 1] = entry
      BY <3>1, <3>2
    <3>4. \A i \in 1 .. Len(log') : (i \in 1 .. Len(log) /\ log'[i] = log[i])
                                    \/ (i = Len(log) + 1 /\ log'[i] = entry)
      BY <3>3
    <3>5. \A i \in 1 .. Len(log) : log[i].matched \in Nat /\ log[i].matched < stored
      <4> DEFINE Entries == [of : Counters, matched : Counters]
      <4>1. log \in Seq(Entries)
        BY <3>2
      <4>2. \A e \in Entries : e.matched \in Nat
        BY <1>0
      <4>3. \A i \in 1 .. Len(log) : log[i] \in Entries
        <5> HIDE DEF Entries
        <5> QED
          BY <4>1
      <4> HIDE DEF Entries
      <4> QED
        BY <4>2, <4>3 DEF TypeOK
    <3>6. stored \in Nat /\ m \in Nat
      BY <1>0 DEF TypeOK
    <3>7. \A i \in 1 .. Len(log') : log'[i].of \in submitted' /\ log'[i].matched < stored'
      BY <3>1, <3>4, <3>5, <3>6 DEF TypeOK
    <3>8. TypeOK'
      <4>1. stored' \in 0 .. MaxCounter + 1 /\ stored < stored'
        BY <1>0, <3>1, <3>6
      <4>2. /\ login' \in [Callers -> [state : {"idle", "verifying"}, of : Counters, read : Counters]]
            /\ \A d \in Callers : login'[d] # Idle =>
                   login'[d].of \in submitted /\ login'[d].read <= stored
        BY <3>1, LoginTyped
      <4>3. \A d \in Callers : login'[d].read \in Nat
        BY <1>0, <4>2
      <4>4. \A d \in Callers : login'[d] # Idle =>
                   login'[d].of \in submitted' /\ login'[d].read <= stored'
        BY <3>1, <3>6, <4>1, <4>2, <4>3
      <4> QED
        BY <3>1, <3>3, <3>7, <4>1, <4>2, <4>4 DEF TypeOK
    <3>9. CounterMatchedOnce'
      <4> SUFFICES ASSUME NEW i \in 1 .. Len(log'), NEW j \in 1 .. Len(log'), i < j
                   PROVE  log'[i].matched < log'[j].matched
        BY DEF CounterMatchedOnce
      <4>1. i \in 1 .. Len(log) /\ log'[i] = log[i]
        BY <3>3, <3>4
      <4>2. CASE j \in 1 .. Len(log)
        BY <3>3, <4>1, <4>2 DEF CounterMatchedOnce
      <4>3. CASE j = Len(log) + 1
        BY <3>1, <3>3, <3>5, <3>6, <4>1, <4>3
      <4> QED
        BY <3>3, <4>2, <4>3
    <3>10. SubmittedShown'
      BY <3>1 DEF SubmittedShown
    <3>11. CodesDiffer' <=> CodesDiffer
      BY <3>1 DEF CodesDiffer, generate
    <3>12. ASSUME CodesDiffer PROVE m = n /\ m < token
      BY <3>1, <3>12 DEF CodesDiffer, SubmittedShown
    <3>13. Synced'
      <4> SUFFICES ASSUME CodesDiffer
                   PROVE  /\ stored' <= token'
                          /\ \A i \in 1 .. Len(log') : log'[i].matched = log'[i].of
        BY <3>11 DEF Synced
      <4>1. stored' <= token'
        <5>1. token \in Nat
          BY DEF TypeOK
        <5> QED
          BY <3>1, <3>6, <3>12, <5>1
      <4>2. \A i \in 1 .. Len(log') : log'[i].matched = log'[i].of
        BY <3>4, <3>12 DEF Synced
      <4> QED
        BY <4>1, <4>2
    <3> QED
      BY <3>8, <3>9, <3>10, <3>13
  <2>3. ASSUME NEW c \in Callers, NEW n \in submitted, NEW l,
               l = Idle \/ (~Exhausted /\ l = Verifying(n, stored)),
               login' = [login EXCEPT ![c] = l],
               UNCHANGED <<secret, token, submitted, stored, log>>
        PROVE  IInv'
    <3>1. TypeOK'
      BY <2>3, LoginTyped DEF TypeOK
    <3> QED
      BY <2>3, <3>1 DEF CounterMatchedOnce, SubmittedShown, Synced, CodesDiffer, generate
  <2>4. ASSUME NEW c \in Callers, NEW n \in Counters, Receive(c, n) PROVE IInv'
    BY <2>3, <2>4 DEF Receive
  <2>5. ASSUME NEW c \in Callers, Conflict(c) PROVE IInv'
    <3>1. login[c].of \in submitted
      BY <2>5 DEF Conflict, TypeOK
    <3>2. login' = [login EXCEPT ![c] = IF Exhausted THEN Idle ELSE Verifying(login[c].of, stored)]
      BY <2>5 DEF Conflict
    <3> QED
      BY <2>3, <2>5, <3>1, <3>2 DEF Conflict
  <2>6. ASSUME NEW c \in Callers, Reject(c) PROVE IInv'
    <3>1. login[c].of \in submitted
      BY <2>6 DEF Reject, TypeOK
    <3> QED
      BY <2>3, <2>6, <3>1 DEF Reject
  <2>7. CASE UNCHANGED vars
    BY <2>7 DEF vars, TypeOK, CounterMatchedOnce, SubmittedShown, Synced, CodesDiffer, generate
  <2> QED
    BY <2>1, <2>2, <2>4, <2>5, <2>6, <2>7 DEF Next, Decide
<1> QED
  BY <1>1, <1>2, PTL DEF Spec

\* Every variable keeps its type, whatever the number of callers.
THEOREM TypeOKHolds == Spec => []TypeOK
<1>1. IInv => TypeOK
  BY DEF IInv
<1> QED
  BY <1>1, InvHolds, PTL

\* Matches only move forward: no counter is ever matched twice.
THEOREM CounterMatchedOnceHolds == Spec => []CounterMatchedOnce
<1>1. IInv => CounterMatchedOnce
  BY DEF IInv
<1> QED
  BY <1>1, InvHolds, PTL

\* While codes differ the server is never ahead of the token.
THEOREM NeverAheadHolds == Spec => []NeverAhead
<1>1. IInv => NeverAhead
  BY DEF IInv, Synced, NeverAhead
<1> QED
  BY <1>1, InvHolds, PTL

\* While codes differ each submission is accepted for its own counter, at most once.
THEOREM AcceptedAsMadeHolds == Spec => []AcceptedAsMade
<1>1. IInv => AcceptedAsMade
  BY DEF IInv, Synced, AcceptedAsMade
<1> QED
  BY <1>1, InvHolds, PTL
=============================================================================
