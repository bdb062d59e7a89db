----------------------------- MODULE HotpResync -----------------------------
(***************************************************************************)
(* HOTP logins with look-ahead resynchronisation.  A token shows the codes *)
(* of its counter one after the other; the user submits some of them; the  *)
(* network loses, repeats and reorders the submissions; the server looks   *)
(* for a submitted code in the window that begins at its stored counter.   *)
(*                                                                         *)
(* HOTP::verify_with_resync keeps no state: its caller stores the counter  *)
(* and must replace it by the matched counter plus one.  The callers here  *)
(* run concurrently and hold no lock while they verify: a caller reads the *)
(* stored counter, verifies from what it read, and stores the new counter  *)
(* only if the old one is still there; otherwise it reads again.           *)
(*                                                                         *)
(* The token, the network and the callers are external.  A code is what    *)
(* truncation leaves of an HMAC: two counters may have the same.           *)
(***************************************************************************)
EXTENDS Naturals, Sequences

CONSTANTS
    Callers,       \* the threads of the server that verify submissions
    Secrets,       \* the secrets a token may have
    Codes,         \* the codes of some number of digits
    CodeOf,        \* CodeOf[secret][counter]: HMAC, truncation and formatting
    MaxCounter,    \* the greatest counter: 2^64 - 1 in the code
    LookAhead      \* look_ahead

Counters == 0 .. MaxCounter

ASSUME HotpAssumption ==
    /\ MaxCounter \in Nat
    /\ LookAhead \in Nat
    /\ CodeOf \in [Secrets -> [Counters -> Codes]]

VARIABLES
    secret,        \* the secret of this token, shared with the server
    token,         \* the counter of the token's next code
    submitted,     \* counters of the codes submitted, each delivered any number of times
    stored,        \* the server's counter
    login,         \* for each caller, the code it verifies and the counter it read
    log            \* accepted submissions: the counter of the code, the counter it matched

vars == <<secret, token, submitted, stored, login, log>>

Idle == [state |-> "idle", of |-> 0, read |-> 0]
Verifying(n, counter) == [state |-> "verifying", of |-> n, read |-> counter]

\* After the greatest counter there is none to store, and none to verify from.
Exhausted == stored > MaxCounter

Init ==
    /\ secret \in Secrets
    /\ token = 0
    /\ submitted = {}
    /\ stored = 0
    /\ login = [c \in Callers |-> Idle]
    /\ log = <<>>

generate(counter) == CodeOf[secret][counter]

\* The token shows its next code, until it has shown its last; the user may submit it.
Press ==
    /\ token <= MaxCounter
    /\ token' = token + 1
    /\ submitted' \in {submitted, submitted \cup {token}}
    /\ UNCHANGED <<secret, stored, login, log>>

\* Mutant: the last counter of the window is not tried.
resync_exclusive(code, counter) ==
    { c \in counter .. counter + LookAhead - 1 :
        /\ c <= MaxCounter
        /\ generate(c) = code
        /\ \A d \in counter .. c - 1 : generate(d) # code }

\* Mutant: the counter after the match is returned, which the caller advances again.
resync_returning_next(code, counter) ==
    { c + 1 : c \in { c \in counter .. counter + LookAhead :
                        /\ c <= MaxCounter
                        /\ generate(c) = code
                        /\ \A d \in counter .. c - 1 : generate(d) # code } }

\* Mutant: beyond the greatest counter the window goes on at zero.
resync_wrapping(code, counter) ==
    { c \in { (counter + i) % (MaxCounter + 1) : i \in 0 .. LookAhead } :
        generate(c) = code }

\* The counters the loop can return, one or none: the first of the window whose code
\* it is.  The window ends with the greatest counter.
verify_with_resync(code, counter) ==
    { c \in counter .. counter + LookAhead :
        /\ c <= MaxCounter
        /\ generate(c) = code
        /\ \A d \in counter .. c - 1 : generate(d) # code }

-----------------------------------------------------------------------------
(* The callers *)

\* The code of counter n is delivered to caller c, which reads the stored counter.
Receive(c, n) ==
    /\ ~Exhausted
    /\ n \in submitted
    /\ login[c] = Idle
    /\ login' = [login EXCEPT ![c] = Verifying(n, stored)]
    /\ UNCHANGED <<secret, token, submitted, stored, log>>

\* What caller c gets from the library.
Matched(c) == verify_with_resync(generate(login[c].of), login[c].read)

\* Mutant: the caller stores the counter after its match whatever is stored by then.
StoreBlindly(c) == \E matched \in Matched(c) :
    /\ login[c] # Idle
    /\ stored' = matched + 1
    /\ log' = Append(log, [of |-> login[c].of, matched |-> matched])
    /\ login' = [login EXCEPT ![c] = Idle]
    /\ UNCHANGED <<secret, token, submitted>>

\* The code matches, and the stored counter is still the one that was read.
Accept(c) == \E matched \in Matched(c) :
    /\ login[c] # Idle
    /\ stored = login[c].read
    /\ stored' = matched + 1
    /\ log' = Append(log, [of |-> login[c].of, matched |-> matched])
    /\ login' = [login EXCEPT ![c] = Idle]
    /\ UNCHANGED <<secret, token, submitted>>

\* The code matches, but another caller stored a counter meanwhile: verify again from
\* that one, if there is one.
Conflict(c) ==
    /\ login[c] # Idle
    /\ Matched(c) # {}
    /\ stored # login[c].read
    /\ login' = [login EXCEPT ![c] = IF Exhausted THEN Idle ELSE Verifying(@.of, stored)]
    /\ UNCHANGED <<secret, token, submitted, stored, log>>

\* The code matches nowhere in the window.
Reject(c) ==
    /\ login[c] # Idle
    /\ Matched(c) = {}
    /\ login' = [login EXCEPT ![c] = Idle]
    /\ UNCHANGED <<secret, token, submitted, stored, log>>

Decide(c) == Accept(c) \/ Conflict(c) \/ Reject(c)

Next ==
    \/ Press
    \/ \E c \in Callers : Decide(c) \/ \E n \in Counters : Receive(c, n)

Spec == Init /\ [][Next]_vars

\* A caller that verifies goes on, and a user submits a code again until it is settled:
\* it is not kept for ever from callers that are free time and again.
FairSpec ==
    /\ Spec
    /\ \A c \in Callers : WF_vars(Decide(c))
    /\ \A n \in Counters : SF_vars(\E c \in Callers : Receive(c, n))

-----------------------------------------------------------------------------
(* Properties *)

\* Every variable has its type; what is verified or logged was submitted; the stored
\* counter is past every counter that matched, and not before one that was read.
TypeOK ==
    /\ secret \in Secrets
    /\ token \in 0 .. MaxCounter + 1
    /\ submitted \in SUBSET Counters
    /\ stored \in 0 .. MaxCounter + 1
    /\ login \in [Callers -> [state : {"idle", "verifying"}, of : Counters, read : Counters]]
    /\ log \in Seq([of : Counters, matched : Counters])
    /\ \A c \in Callers : login[c] # Idle => login[c].of \in submitted /\ login[c].read <= stored
    /\ \A i \in 1 .. Len(log) : log[i].of \in submitted /\ log[i].matched < stored

\* No counter matches twice, whatever is repeated or comes late, whichever callers
\* verify the same code at once, at the end of the counter's range too: matches only
\* ever move forward.
CounterMatchedOnce ==
    \A i, j \in 1 .. Len(log) : i < j => log[i].matched < log[j].matched

\* No two counters have the same code.
CodesDiffer == \A c, d \in Counters : generate(c) = generate(d) => c = d

\* The server never gets ahead of the token, which would lock the user out until the
\* token has caught up, as long as codes differ.
NeverAhead == CodesDiffer => stored <= token

\* As long as codes differ, what is accepted is accepted as the code of the counter
\* it was made for.  So no submission is accepted twice.
AcceptedAsMade == CodesDiffer => \A i \in 1 .. Len(log) : log[i].matched = log[i].of

\* A code whose counter is in the window is not lost to other logins, to conflicts with
\* them or to colliding codes: it is submitted until the server has moved past it, which
\* it does.  The window contains its last counter and, cut off, the greatest.
WindowReached ==
    \A n \in Counters :
        (n \in submitted /\ n \in stored .. stored + LookAhead) ~> (n < stored)
=============================================================================
