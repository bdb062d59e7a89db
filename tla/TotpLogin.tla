----------------------------- MODULE TotpLogin -----------------------------
(***************************************************************************)
(* Logins with TOTP codes and a Verifier, as the usage guide has them: the *)
(* server computes the code it expects for the present step and gives it   *)
(* to the verifier with the code the user has submitted.  The verifier is  *)
(* the one of OtpGate, which module Verifier implements; so time may go on *)
(* while a call is under way, and calls overtake one another.              *)
(*                                                                         *)
(* The owner empties the set of used codes once in every step, between the *)
(* calls of the steps before and those of this one: design.md recommends   *)
(* to do so by a timer, as codes of past steps are refused anyway.  The    *)
(* program of the server, its owner, the clock and the users are external. *)
(***************************************************************************)
EXTENDS OtpGate

CONSTANTS
    MaxStep,      \* the last step of time that is looked at
    Contexts,     \* the contexts, of sessions or of users, in which codes are the same
    Codes,        \* the codes of some number of digits
    Secrets,      \* the secrets a generator may have
    CodeOf        \* CodeOf[secret][step]: what the generator shows

Steps == 0 .. MaxStep

Logins == [code : Codes, expected : Codes, issued : Contexts, request : Contexts, step : Steps]

\* One key for each context fits in the set.
ASSUME LoginAssumption ==
    /\ MaxStep \in Nat
    /\ CodeOf \in [Secrets -> [Steps -> Codes]]
    /\ IsFiniteSet(Contexts)
    /\ MaxUsed \in Nat
    /\ MaxUsed >= Cardinality(Contexts)
    /\ AttemptsModulus \in Nat \ {0}

VARIABLES
    secret,       \* the secret of the generator
    now,          \* the present step
    opened,       \* the last step in which the set of used codes was emptied
    accepted      \* history: how often each step's code was accepted in each context

loginVars == <<gateVars, secret, now, opened, accepted>>

Code(step) == CodeOf[secret][step]

Init ==
    /\ GateInit
    /\ secret \in Secrets
    /\ now = 0
    /\ opened = 0
    /\ accepted = [p \in Steps \X Contexts |-> 0]

\* Users submit codes of this step and of earlier ones, in their own context or another.
\* The server computes the expected code and enters the verifier.
Login(t) == \E step \in 0 .. now, issued, context \in Contexts :
    /\ opened = now
    /\ Submit(t, [code |-> Code(step), expected |-> Code(now),
                  issued |-> issued, request |-> context, step |-> now])
    /\ UNCHANGED <<secret, now, opened, accepted>>

Tick ==
    /\ now < MaxStep
    /\ now' = now + 1
    /\ UNCHANGED <<gateVars, secret, opened, accepted>>

\* clear_used_codes, once the calls of earlier steps have returned.
Open ==
    /\ opened < now
    /\ \A t \in Threads : phase[t] = "idle"
    /\ Forget
    /\ opened' = now
    /\ UNCHANGED <<secret, now, accepted>>

\* A step of the verifier that accepts nothing.
Decline(t) ==
    /\ Admit(t) \/ TurnAway(t) \/ RejectReplay(t) \/ RejectMismatch(t)
    /\ UNCHANGED <<secret, now, opened, accepted>>

Grant(t) ==
    /\ Accept(t)
    /\ accepted' = [accepted EXCEPT ![<<request[t].step, request[t].issued>>] = @ + 1]
    /\ UNCHANGED <<secret, now, opened>>

\* reset_attempts, so that the users are not locked out for good.
Reset == Pardon /\ UNCHANGED <<secret, now, opened, accepted>>

Next == Tick \/ Open \/ Reset \/ \E t \in Threads : Login(t) \/ Decline(t) \/ Grant(t)

Spec == Init /\ [][Next]_loginVars

-----------------------------------------------------------------------------
(* Properties *)

\* Every variable has its type, and a call is one of a step the set was emptied in.
TypeOK ==
    /\ secret \in Secrets
    /\ now \in Steps
    /\ opened \in 0 .. now
    /\ accepted \in [Steps \X Contexts -> Nat]
    /\ remembered \subseteq Codes \X Contexts
    /\ failures \in Nat
    /\ phase \in [Threads -> Phases]
    /\ DOMAIN request = Threads
    /\ \A t \in Threads : phase[t] # "idle" => request[t] \in Logins
    /\ result \in [Threads -> Results]

\* In each context the code of a step is accepted once and never again: not while the
\* step lasts, nor in a later one, nor by a call that was under way when the step ended,
\* nor because codes of two steps are the same or the set has been emptied meanwhile.
OncePerStep == \A p \in Steps \X Contexts : accepted[p] <= 1

\* A right code is refused as a replay only if the code of this very step was accepted in
\* this very context: never because of another user, or of an earlier step whose code had
\* the same digits.
RefusedIfUsed ==
    [][ \A t \in Threads : RejectReplay(t) /\ Matches(request[t]) =>
            accepted[<<request[t].step, request[t].issued>>] = 1 ]_loginVars
=============================================================================
