# genotp in TLA+

A verification development for genotp, a Rust library for one-time passwords (HOTP, RFC 4226;
TOTP, RFC 6238) with a verifier, a clock-skew detector, context binding and a C API.  Paths below
are relative to the repository; `genotp/src/x.rs` is abbreviated to `x.rs`.

To check a run: `tlc -config MCVerifier.cfg MCVerifier`.  To check the proofs: `tlapm` on each of
`VerifierProofs.tla`, `TotpLoginProofs.tla`, `ClockSkewDetectorProofs.tla`, `HotpResyncProofs.tla`,
`ProvisioningProofs.tla`, `EnrolmentProofs.tla`, `ConstantTimeEqProofs.tla`, `CApiProofs.tla`.

## 1. The system

| Component | State | Operations | What is hard | What makes it correct |
|---|---|---|---|---|
| `Verifier` (verification.rs) | `used_codes` (mutex), `attempts` (mutex), shared by clones through `Arc` | `verify_with_replay_protection`, `verify_with_context` (both `verify_inner`), `is_rate_limited`, `reset_attempts`, `clear_used_codes`, `clone` | threads; the limit is read in one critical section and the failure counted in another; nested locks; a full set is cleared; u32 counter | a code is accepted once per context until it is forgotten; memory bounded; guesses bounded; a lockout holds; every call returns |
| `ClockSkewDetector` (skew.rs) | ring buffer with cached sum and count (mutex); atomics `auto_adjust`, `offset`, `last_window_used` | `record`, `report`, `reset`, `enable_auto_adjust`, `disable_auto_adjust`, `current_offset` | wrap-around with incremental aggregates; atomics stored inside and outside the mutex; poisoning | aggregates equal a recomputation; an offset is backed by samples; the mutex is given back |
| `constant_time_eq_bytes` (constant_time.rs) | none | one loop | padding with zeros, lengths cut to u32 | decides equality; iterations depend on the lengths only |
| `TOTP` (totp.rs) | none (secret, digits, period) | `generate`, `verify`, `verify_bound`, `generate_bound`, `verify_tracking` | window arithmetic at the ends of u64; feedback loop with the detector | accepts exactly the counters in the window; reports the distance of a match; the learned correction stays within the drift; with a `Verifier`, a step's code is accepted once |
| `HOTP` (hotp.rs) | none; the caller stores the counter | `generate`, `verify`, `verify_with_resync`, bound variants | look-ahead, duplicated and reordered submissions, concurrent callers, colliding codes, the end of u64 | a counter is accepted once; the server is never ahead of the token; a code of the window gets settled |
| `OtpContext` and its builder (context.rs) | a sorted map of fields, consumed by `build` | setters, `custom`, `build`, `normalize_origin` | the order of setters; unescaped delimiters | equal fields give equal bytes, different ones different bytes |
| Provisioning (provisioning.rs) | builder fields | setters, `build` | percent-encoding; secrets with padding | an app reads what the server has |
| `Metrics` (metrics.rs) | five relaxed counters | increments, reads, `reset` | `reset` is five stores | no increment is lost except to a reset |
| C API (genotp-ffi/src/lib.rs) | boxed handles; the context builder's `Option` | `*_new`, `*_free`, setters, `build` | handles used after they are consumed or freed | errors leave the handle as it was; no handle is built from twice |
| Builders, config, helpers (builder.rs, config.rs, helpers.rs) | builder and configuration fields | setters, `build`, the default helpers | defaults stated in several places | they all make the same generator |
| Key generation, base32 (key.rs, base32.rs) | none | `generate_secret`, `fill_secret`, `encode`, `decode` | sizes, a failing generator | a secret survives being text |
| Algorithm, errors | none | names | | |

How they interact: a server computes the expected code with `HOTP`/`TOTP` and gives it to a
`Verifier` together with the user's code and, in the context-bound modes, the bytes of two
`OtpContext`s.  `Verifier` compares with `constant_time_eq_bytes`, as do `HOTP` and `TOTP`.
`TOTP::verify_tracking` loads a correction from a `ClockSkewDetector`, searches around it, and calls
`record`, which may change the correction.  The C API wraps each of them.  Concurrency occurs in
`Verifier`, `ClockSkewDetector` and `Metrics` only; nothing is persisted, and there is no I/O.

## 2. The modules

| Module | What it is | Code |
|---|---|---|
| `OtpGate` | abstract specification of `Verifier`: a call is decided at two atomic points, an admission by the rate limit and a judgement of its code | verification.rs |
| `Verifier` | the verifier, one step per lock acquisition and per critical section; `ImplementsGate` states the refinement | verification.rs:8-151 |
| `MCVerifier`, `MCVerifierLive` | instances for TLC; the second bounds the number of calls, for liveness | |
| `VerifierProofs` | its theorems | |
| `ClockSkewDetector` | the ring as operators on a record, the mutex, the atomics | skew.rs:61-247 |
| `DriftTracking` | extends it with `TOTP::verify_tracking` as the only source of samples: the closed feedback loop | totp.rs:188-226 |
| `MCClockSkewDetector`, `MCDriftTracking`, `ClockSkewDetectorProofs` | instances for TLC, and the theorems about both | |
| `Hotp`, `Totp` | pure operators: construction, codes, verification, the integer arithmetic of windows | hotp.rs:37-203, totp.rs:44-323 |
| `Builders` | pure operators: secrets and their text, builders, configurations, helpers | key.rs, base32.rs, builder.rs, config.rs, helpers.rs |
| `Provisioning` | pure operators: the otpauth URI, and how an app reads it | provisioning.rs |
| `Enrolment` | composes `Hotp`, `Totp`, `Builders` and `Provisioning`: a server enrols an app and they meet over codes | |
| `MCEnrolment` | its instance | |
| `ProvisioningProofs`, `EnrolmentProofs` | theorems about `Provisioning`, and about `Totp` and `Enrolment` | |
| `TotpLogin` | composes `OtpGate` with a clock: logins with TOTP codes | verification.rs, totp.rs |
| `MCTotpLogin`, `TotpLoginProofs` | its instance and its theorems | |
| `HotpResync` | HOTP logins: token, network, concurrent callers, and `verify_with_resync` | hotp.rs:111-128 |
| `MCHotpResync`, `HotpResyncProofs` | its instance and its theorems | |
| `ConstantTimeEq` | the comparison loop, one iteration per step | constant_time.rs:34-56 |
| `MCConstantTimeEq`, `ConstantTimeEqProofs` | its instance and its theorems | |
| `OtpContext` | pure operators: the sorted fields of a context, their bytes, the normalisation of an origin | context.rs:50-137 |
| `CApi` | extends it with the heap, the handles and a C program that uses the API as its header asks | genotp-ffi/src/lib.rs |
| `MCCApi`, `CApiProofs` | its instance and its theorems | |

Names follow the code.  Operators whose comment begins with *Mutant* are plausible mistakes in the
operator that follows them; no specification uses them.  They record which mistake each property
detects.

### Verifier

`used`, `attempts` are the two protected values, `usedOwner`, `attemptsOwner` the mutexes, `pc` and
`call` the threads' control and arguments.  A thread at a label first acquires the mutex that the
label needs and then executes the body of its critical section in one step, up to the next lock
operation.  That is as fine as needed: each value is touched only by the owner of its mutex.

| Step | Lines |
|---|---|
| `Verify` begins a call; `TurnAway`, `Admit` read the limit and release `attempts` | 86-99 |
| `RejectReplay`, `Mismatch`, `MarkUsed` are the three outcomes under `used_codes` | 101-130 |
| `CountFailure`, `Accept` lock `attempts` too, and release both | 120-124, 132-134 |
| `is_rate_limited`, `reset_attempts`, `clear_used_codes` | 137-150 |

`attempts` counts modulo `AttemptsModulus`, 2^32 in the code: the release build wraps.  A debug build
panics instead, which is not modelled.  `unpoison` recovers a poisoned mutex, so a mutex has no
poisoned state.  The replay key is the pair of code and context: what is inserted was equal to an
expected code, a string of digits, so its first zero byte is the separator.  Comparisons are
equality, which `ConstantTimeEqProofs` justifies.  `clone` shares both `Arc`s and needs no action:
`Threads` are the users of all clones.

Three history variables serve the properties and influence nothing.  `published` is `used_codes` when
its mutex was last released, `accepts` counts acceptances per key since the set was last emptied, and
`lateCalls` are the calls begun at the limit while it has not been lifted.

### ClockSkewDetector and DriftTracking

`record` takes two steps after acquiring the mutex, because `disable_auto_adjust`, which does not
take it, can come between the load of `auto_adjust` (skew.rs:158) and the store of `offset` (161,
163).  `Push` is everything up to the load, `StoreHint` the store and the release.  The store of
`last_window_used` (154) has no reader outside the mutex and is part of `Push`.
`disable_auto_adjust` is two stores and two steps.  The atomics are relaxed; a thread's stores to
different atomics may be seen in another order by others.  The model has them in program order, so it
has fewer interleavings than a weak memory model allows.  The race it shows is there already.

The mean is compared and rounded in exact integer arithmetic (`2|sum| >= len`, half away from zero);
the code uses f64, which is exact for the sums that windows can produce.  `buffer[i]` of the code is
`buffer[i + 1]` here.  `MinReport` and `MinAdjust` are the literals 8 and 16.  The capacity is a field of
the ring, chosen in `Init`; with capacity 0 the first `record` panics inside the mutex (`PushPanics`).
`recent`, a history variable, is the sequence of the last samples that fit.

In `DriftTracking` the users' codes are `Drift` counters from the server's clock.  `verify_tracking`
loads `offset`, finds the one position that matches and begins `record` with it; other threads may
move `offset` before the sample is pushed.  A verification without a match changes nothing.  Counters
are far from the ends of u64 and codes in reach differ.

### Enrolment, with Hotp, Totp, Builders and Provisioning

A code is the record of what goes into it: key, message, digits.  HMAC and truncation are taken no further
apart, so codes of different origin differ; collisions are the subject of `HotpResync`, `Verifier` and
`TotpLogin`.  `hotp_hmac` and `totp_hmac` are two definitions because the code has two.  u64 ends at
`U64Max` and i64 at half of it.  `verify` tries a set of counters (it has no early exit), `verify_tracking`
stops at the least position that matches.  `None` for a time is the system clock, negative before the
epoch.

A secret is a sequence of chunks of five bytes and its text a sequence of as many pieces, so that both can
be padded, spaced or refused.  A URI is a sequence of pieces: the characters with a meaning are pieces of
their own, so that a label can hold them.  `build_uri` is the code's, `Parsed` is the app's reading after
the Key URI format, and external.

In `Enrolment` a server makes or imports a secret, sets parameters on a builder or a configuration, builds,
states some fields in a URI, at least what it has set, and an app scans it.  Then the app, which computes
codes after RFC 4226 and RFC 6238, and the server, through every function genotp has for it, meet with
two clocks.  `verdict` holds which function answered last, its answer, and the right one, which is stated
by distances of counters and not by the code's arithmetic.

### TotpLogin

The server computes the code it expects for the present step and enters the verifier with it, with the
user's code and with the two contexts, as docs/en/usage.md has it.  The verifier is `OtpGate`; that
`Verifier` implements it is `VerifierImplementsGate`.  A call may be under way while time goes on.

The replay key has no counter (verification.rs:103).  So the set must not carry the keys of one step into
another: the owner empties it once in each step (`Open`), between calls.  docs/en/design.md:456-457 recommends a
timer, as codes of earlier steps are "already rejected by time check" (447-449), and accepts that a code may pass once
more after the set is emptied (452-454).  The model asks when none does.  A call that is under way while the set is
emptied passes the time check, because its expected code was computed before; hence `Open` waits for the calls to
return, and logins for `Open`.  `LoginAssumption` also asks for room for one key per context: with less, a full
set is emptied within the step.  Under these assumptions `OncePerStep` and `RefusedIfUsed` hold whatever codes
collide.  A server that empties the set at other times has the trade-off the document names.

### HotpResync

`verify_with_resync` is an operator: the set of counters the loop can return, which has one element
or none, the first of the window whose code is the one submitted.  The window is cut off at the
greatest counter, as the loop's `break` does.  Everything else is external, modelled from the
contract in the code's comment: the token (`Press`), a network in which a submitted code may be
delivered any number of times, in any order, or never, and callers that run concurrently.  A caller
reads the stored counter (`Receive`), verifies from it, and stores the matched counter plus one if the
counter is still the one it read (`Accept`); otherwise it verifies again (`Conflict`).  The mutant
`StoreBlindly` is the caller that does not look.  A caller that has matched the greatest counter has none
left (`Exhausted`).  HMAC, truncation and formatting are `CodeOf`, an arbitrary assignment of codes to
counters: collisions are part of the model.  Submissions are codes that the token has shown; wrong codes
are rejected without effect unless they collide.

### ConstantTimeEq

`diff` is a u32 whose bits are only ever set; it is modelled by whether it is zero.  Running time is
the number of iterations, `i`.

### OtpContext and CApi

A handle is an address in `heap`; `var` says what each variable of the C program holds; `verdict` is
the answer of the last verification and whether the code was meant for that generator and context.
There is one action per exported function, or per group of functions with one shape (`handle_free`,
the four setters of built-in fields, the five of a URI).  Each is a disjunction of its refusals, in
the order of the code's checks where the order shows, and its success.  A refused call changes
nothing, so which error it returns is not stored.  `copy_to_out` may fail to allocate and stores NULL
for an empty result; `Box::new` cannot fail without aborting the program.  `apply` and `build` are the
two ways in which the builder is taken out of its handle.

The program keeps to the header: an out variable is empty, what is freed is forgotten, and one handle is
not used by two threads at once while one of them changes or frees it.  Double frees and uses after a
free are therefore not behaviours; what is left to go wrong is on the API's side.  `MaxFields` is the
only bound, on the fields the program gives one builder.

A text is a sequence of pieces: words, and the characters the code looks for.  A context carries its
bytes and, as history, what it means: the function from field names to values that the successful
setters described.  A code carries the bytes of the context it was bound to.  HMAC is external; codes
are taken to differ when kind or context bytes do, and to be verified at the moment they are made for
(times and counters are the subject of other modules).  Strings of C have no zero byte.

What a verifier or a detector answers, and what a URI says, is the subject of other modules: here they have
a kind and an owner, and calls on them are refused or change nothing that `CApi` keeps.

## 3. The runs

| Run | Shows | Instance |
|---|---|---|
| `verifier` | `TypeOK`, `OneTimeUse`, `UsedBounded`, `OvershootBounded`, `LockoutHolds`, `ImplementsGate` | 3 threads, 5 calls, limit 2, capacity 2: 298,660 states |
| `verifier_live` | `EveryCallReturns` | 2 threads with 2 operations each, limit 1, capacity 1: 25,565 states |
| `verifier_lockout` | *violated*: `LockedOutRejects` | 2 threads |
| `skew` | `TypeOK`, `RingIsWindow`, `LearnedFromEnough`, `SteadySamplesReported`, `MutexFreed` | 2 threads, rings of 0, 2 and 3, thresholds 2 and 3, 4 samples: 281,659 states |
| `skew_disable_race` | *violated*: `OffsetZeroWhenOff` | as `skew` |
| `drift` | `OffsetWithinDrift` | 2 threads, drift -2, windows 0, 2, 4, ring of 3: 1,038,017 states |
| `drift_learned` | *violated*: `LearnedDriftKept` | 1 thread |
| `enrolment` | `TypeOK`, `AppIsServer`, `AccountShown`, `HotpExact`, `WindowExact`, `HelpersAgree`, `SampleIsDistance` | u64 ends at 127; both modes, 4 periods, 8 times, 4 windows, 3 corrections, 2 contexts, 2 accounts: 24,544 states |
| `totp_login` | `TypeOK`, `OncePerStep`, `RefusedIfUsed` | 3 steps, 2 contexts, 2 threads, limit 1, capacity 2, codes that differ or collide: 55,595 states |
| `hotp` | `TypeOK`, `CounterMatchedOnce`, `NeverAhead`, `AcceptedAsMade`, `WindowReached` | 2 callers, 4 counters, look-ahead 2, codes that differ or collide at any two counters: 73,436 states |
| `consttime` | `TypeOK`, `AnswersEquality`, `WalksAll` | all pairs of strings of up to 3 bytes 0, 1: 1,066 states |
| `c_api` | `TypeOK`, `OwnedOnce`, `ConsumedByDelivery`, `BoundByMeaning` | one variable of each of 9 kinds, 3 addresses, 2 fields per builder: 89,282 states |

Why the bounds are enough.  Verifier: three threads give one that holds both mutexes, one that is
admitted and one at the limit; two is the smallest limit that can be overshot after being half used;
the calls include two with one key and different verdicts, one code in two contexts, and a right code
in the wrong context; capacity 2 is filled and cleared.  The counter's modulus, 8, is above the
overshoot, as 2^32 is for any realistic number of threads.  Detector: a ring of three
is filled, wrapped and wrapped again; one of two never reaches the threshold of adjusting; one of none panics.
The samples have both signs, an edge of their window, an inside, and a window without an edge.  `offset` and
`sum` are bounded by the samples; no counter had to be capped.
HOTP: with four counters and a look-ahead of two, a window lies inside the range, is cut off at its
end, and leaves counters behind it that are still in the network; two callers are enough for a conflict.
`MaxCounter` stands for 2^64 - 1 and bounds the token.
Enrolment: with u64 ending at 127 and periods of 30, 7 and 1, times lie before the epoch, at both sides of the end of
a period and in the last period; windows are empty, ordinary and beyond i64; products saturate; corrections lead out of
u64 at the epoch.  Corrections beyond the last counter that a time can have are left out of `Track`: there several
counters have the last code.
TOTP login: three steps give a collision of neighbours and of steps further apart; the limit of one and the set of
two, one key for each context, are both reached.
C API: three addresses hold a generator, a context and a code, or a builder, its context and a
generator; the heap fills up.  Two fields are enough for order, replacement and for one value to run
into the next field: the strings are chosen to be confused (an IP that reads like another IP and a
session, a custom field named like a built-in one, one origin in three spellings).

Symmetry is used over threads, in `verifier` and, with contexts, `totp_login`, and over addresses, in
`c_api`; no property names one.  Runs with a liveness property use none.

Deadlock is checked in `verifier`, `drift`, `enrolment`, `totp_login` and `c_api`.  It is not where the
system may stop: callers with no calls left (`verifier_live`), threads that have panicked (`skew`), a
finished comparison (`consttime`), a token at its last counter (`hotp`).

### Fairness

`verifier_live` assumes weak fairness of the steps of a call already begun, per thread: the scheduler
runs a runnable thread.  Standard mutexes are not fair, so with callers that never stop a waiting
thread may be overtaken for ever.  Weak fairness gives progress because the number of calls is
finite.  Strong fairness of acquisition would hide that and is not assumed.  `FairSpec` of the detector
assumes the same; `MutexFreed` needs it only for the owner, which waits for nothing.

`hotp` assumes, for `WindowReached`, that a caller goes on with a verification it has begun (weak fairness per
caller) and that the user submits a code again until it is settled: for each counter strong fairness of its being
received, as callers are free time and again and not all the time.  The second is an assumption on users, not on
the code; without it a code is simply lost.

### Where documentation and code differ

* At the limit a right code can be accepted (docs/en/design.md:481), if its call was admitted before.
  What holds is `LockoutHolds`, about calls that begin at the limit.
* `current_offset` is not always 0 with auto-adjust off (skew.rs:168): a racing `record` stores its
  offset after `disable_auto_adjust` has stored 0, and it stays.
* The correction does not last (totp.rs:641): samples taken after it are relative to it, so they are
  zeros and pull the mean down.  With capacity 50 and drift -1, the offset is learned at the 16th and
  dropped at the 33rd verification.  The test stops after 30.

Others have no run of their own:

* The rate limit does not trigger exactly at `max_attempts` under concurrency
  (tests/concurrency_test.rs:160): threads admitted together count their failures together.  The bound
  that holds is `OvershootBounded`, `max_attempts` plus the other threads.
* A detector of capacity 0 panics in its first `record` (skew.rs:96; docs/en/design.md:38 says "no
  panic-by-default").  The step is `PushPanics`; that the mutex is given back is part of `MutexFreed`.
* After the counter is updated a replay can still be accepted (hotp.rs:413, hotp.rs:72): at a later
  counter of the window whose code has the same digits.  Rare with six digits, and it moves the server
  ahead of the token.  What holds is `AcceptedAsMade`, under `CodesDiffer`.
* `verify` tries counter 0 for a counter that overflows u64, too, where its comment speaks of underflow
  (totp.rs:119): near the end of u64 the code of counter 0 is accepted.  `verify_tracking` skips such
  counters.  `WindowExact` and `VerifyExact` state the exception.
* Codes of earlier steps are not all "already rejected by time check" (docs/en/design.md:447-449) when the set of used
  codes is emptied: one whose call is under way is not.  See TotpLogin above.
* `edge_hit_ratio` compares all samples with the window of the last one (skew.rs:224), not their own
  (skew.rs:30).  `NoActionNeeded` is also reported for samples that cancel (skew.rs:233), not only if
  most are zero (skew.rs:42).
* Lengths are cut to u32 before they are compared (constant_time.rs:41), so for lengths congruent modulo
  2^32 the claim of constant_time.rs:26 fails; `AnswersEquality` carries the premise `LengthsFit`.
* context.rs:107-108 says that the delimiters cannot be imitated by a value.  That holds for values
  without a zero byte and for custom keys without "=": key "a" with value "b=c" and key "a=b" with value
  "c" give the same bytes.  `BoundByMeaning` is about such values and keys.
* An origin without "://" keeps its path (context.rs:133), although context.rs:92 says it is removed.

## 4. The proofs

`VerifierProofs` proves, for any finite set of threads, any calls, limit, capacity and modulus (the
assumptions `ThreadsAssumption`, `CallsAssumption`, `LimitsAssumption`; `TLC` evaluates them in the
runs):

* `TypeCorrect`, `OneTimeUseHolds`, `UsedBoundedHolds`, `OvershootBoundedHolds`;
* `LockoutHoldsForLateCalls`, with the premise `NoWrap`: `max_attempts` plus the number of threads is at
  most the modulus.  Without it the overshoot can wrap the counter to zero and end the lockout;
* `VerifierImplementsGate`, the refinement.

The inductive invariant is `IInv`, a conjunction of named parts, each with its own step lemma:

* `LockInv`: a thread about to count a failure or a success owns `used_codes`.  So there is at most one.
* `OneTimeInv`: a key is counted at most once, and only if it is in the set; a thread at "success" has
  its key in the set and not counted yet.  `OneTimeUse` alone is not inductive: it does not see the
  key between its insertion and the return of its call.  `LockInv` makes that thread unique.
* `UsedInv`: the set is finite and within capacity.  Cardinality facts come from `FiniteSetTheorems`.
* `OvershootBounded` is inductive with the types: it counts, with the failures, the calls that may
  still fail.  `FlightStep` says how a step can move both.
* `JudgeInv`: the verdict of a thread that holds `used_codes` stays valid, and what was published before
  its insertion is what the gate judged against.  The refinement maps `remembered` to `published`, so
  that the insertion (`MarkUsed`) is a stutter and `Accept` is the gate's step.
* `LateInv`: calls begun at the limit wait at the limit.  It is proved apart, under `NoWrap`.

`HotpResyncProofs` proves `TypeOKHolds`, `CounterMatchedOnceHolds`, `NeverAheadHolds` and `AcceptedAsMadeHolds`
from `HotpAssumption`, for every set of callers, counter width, look-ahead and assignment of codes.  The invariant adds to
the properties that every matched counter is below the stored one (in `TypeOK`) and that only codes
already shown are submitted (`SubmittedShown`).  The step that matters is an acceptance while codes
differ: it can match only the counter the code was made for, which the token has passed.

`ClockSkewDetectorProofs` proves, from `DetectorAssumption` and for any capacity, the one of 0 included,
`TypeOKHolds`, `LearnedFromEnoughHolds`, `RingIsWindowHolds` and `SteadySamplesReportedHolds`, and from `DriftAssumption`
`OffsetWithinDriftHolds` and `CoveringWindowAccepts`.

* `LearnedFromEnough` is not inductive: it speaks of moments at which nobody is inside.  `SkewInv` adds that a
  thread about to store an offset sees enough samples, which holds until it stores because only the owner of the
  mutex empties the ring, and the shape of the ring (`WellShaped`).
* `RingIsWindow`: where each sample is in a buffer that goes round (`PushKeepsSlots` is its step, `RoundTheRing` the
  arithmetic of the indices), and that the cached sum and count are those of a recomputation (`OffsetSum`,
  `NonZeros`).  The recomputations are recursive functions over the sequence; that dropping the first and appending
  a sample changes them as the incremental update does is an induction (`Induction`, see below).
* `SteadySamplesReported`: n equal samples sum to n times the sample, so the rounded mean is the sample.
* `OffsetWithinDrift` says nothing of the samples that may still move the offset: `DriftInv` adds that those in the ring
  and those being recorded lie between zero and the drift too.  A rounded mean stays between the bounds of what it
  averages, and the drift seen from an offset in between lies in between.  `CoveringWindowAccepts`: so a window as
  wide as the drift accepts the users' codes under every correction that is ever made.

`ProvisioningProofs` proves `EncodingRoundTrip` and `ParsedOfBuilt`: whatever the texts, and in whatever order fields were
set, an app reads from the URI what the server put in it.  Encoding is injective because no escape begins with a
character that needs one (`HexCodes`); a delimiter in a built URI is one that `build_uri` put there (`AddParameter`), so
each name is found where its parameter is, and not within a value.

`EnrolmentProofs` proves from `EnrolmentAssumption`, `TextAssumption`, `TotpAssumption` and
`BuildersAssumption`, for every width of the integers, every period, window, correction, secret and text: `TypeOKHolds`, `AppIsServerHolds`,
`AccountShownHolds`, `HotpExactHolds`, `WindowExactHolds`, `HelpersAgreeHolds`, `SampleIsDistanceHolds`.  The assumptions on
texts are those of the formats: base32 texts and
decimal numbers have no character that is skipped or escaped, and different numbers are written differently.

* The operators first: `VerifyExact` (what `verify` accepts, the exception included), `OtherContextRefused` and
  `TrackingExact`.  A counter that is tried becomes a time, which may saturate, and a counter again
  (`CounterTried`); a counter too great for a time gives the last code a time has, whose own counter is then in
  the window too.
* The invariant is `TypeOK`, `SettingsInv`, `MadeInv`, `UriInv`, `AppInv`, `VerdictRight`: the generator is what the settings say,
  the URI states at least what was set, the app read from it what the generator has (by `ParsedOfBuilt`, in `ReadBack`),
  and the verdict is the right one (`HotpRight`, `TotpRight`, `TrackingRight`).  No property is inductive alone: each
  speaks of a code by an app that has read, several steps before, what a server stated of a generator it had built
  before that.

`TotpLoginProofs` proves `TypeOKHolds`, `OncePerStepHolds` and `RefusedIfUsedHolds` from `LoginAssumption`, for any number
of steps, contexts and threads, any limit and any assignment of codes.  `LoginInv` says that calls under way are of the
step the set was last emptied in, that the set holds keys of that step only, and exactly those accepted in it.
`RoomForOneMore` shows that an acceptance never empties the set.

`ConstantTimeEqProofs` proves `TypeOKHolds`, `AnswersEqualityHolds` and `WalksAllHolds` for all byte strings.  The loop
invariant says that after `i` iterations `diff` tells whether the lengths or the first `i` bytes differ.

`CApiProofs` proves `TypeOKHolds`, `OwnedOnceHolds` and `ConsumedByDeliveryHolds` from `CApiAssumption`,
for any variables, heap, strings and number of fields.  `OwnedOnce` alone is not inductive: it says
nothing of an address that two variables hold while the object is free.  `Unshared` does: no address is in
two variables, and none is on the heap without one.  `TypeOK` adds that what a variable holds is live.
Each effect a call can have (`Box`, `free`, `apply`, `Deliver`, a refusal) has one lemma, from which the
steps of all functions follow.

`CApiProofs` also proves `BoundByMeaningHolds`, for any fields, any strings of any length, any number of setters and any
raw contexts that meet three more assumptions:

* `ContextAssumption`: a key is in `SortedKeys` once and has neither "=" nor a zero byte, and lower case changes no
  delimiter into another character, nor makes one.
* `FieldsAssumption`: strings have no zero byte, and mean the same only if they are the same text.  A raw context is not
  one that `build` could have made: it is neither empty nor ends in a zero byte.  One that does can imitate the builder.
* `OriginAssumption`: an origin is blanks, a scheme, "://", a host with or without a port, and then blanks, or a path, a
  query or a fragment and anything after it; its meaning is the part from scheme to port in lower case.  Of other
  texts (without a host, without a scheme) nothing is said.

The argument has four parts.  `BuildTells`: `build` is injective, because its bytes can be read back line by line.
They have the line "key=value" between zero bytes exactly when the field has that value (`EntriesListed`, by induction on
the keys); "=" and zero bytes are where they can be found since no key has one and no value has the other.
`OriginNormalized`: every spelling of an origin becomes scheme, host and port, in the order of the code's cuts;
`trim`, `split_once` and `trim_end_matches` are characterised first (`TrimIs`, `BeforeIs`, `TrimEndIs`).
`EntriesApart`: two successful setters write the same key exactly when they set the same field, and then the same value
exactly when they mean the same; a custom field is kept apart by its prefix.  The invariant is `Right`: `IInv` with
`HeapRight`, which says of every live object that its bytes are what its meaning says (a context and a code: `Bound`;
a builder not yet consumed: `Written`).  `BoundByMeaning` is not inductive without it: a verdict compares bytes made
many calls before, by two builders that are gone.

Induction.  The library's induction theorems take an operator, which no installed prover can instantiate.
`Induction` has a set instead: a set of numbers that has 0 and with each number the next holds all numbers.  It
is proved from finite cardinalities (the numbers missing below a given one would be as many as those missing
below the next).  A definition by recursion over a number is then unfolded by lemmas that exhibit the function
and show that it is the one `CHOOSE` picks; `SeqInduction` is the form for texts.

Model-checked only: liveness (`EveryCallReturns`, `MutexFreed`, `WindowReached`), which is out of the prover's reach.

## 5. What is not modelled

* `Metrics`: five independent counters that no code of the repository uses; each operation is one
  atomic instruction, `reset` is five, and no document promises more.
* HMAC, truncation and formatting of codes: external.  A code is a value per counter, or the record of what goes
  into it; that formatting keeps leading zeros is left to the tests.
* The random generator and the base32 library: external, with their failures.
* Error messages, serde, and the `no_std` variants (the same logic with the time as an argument).
* Panics on arithmetic overflow, which exist only in debug builds, and on a capacity that exceeds memory
  (skew.rs:72, reached from genotp-ffi/src/lib.rs:1110).

## 6. Plan

Order: the shared mutable state first, then the protocols around stateless functions, then the API's
handles, then construction and provisioning.  All modules of this plan are written.  What is left:

1. Proofs: contexts that the builder has not made (`FieldsAssumption`).  Which bytes may be given to
   `genotp_context_from_bytes` so that codes still tell contexts apart is stated nowhere in code or docs.
2. Models: a drift that changes after it was learned, as a question to the authors first, since neither code nor
   docs say what should happen (totp.rs:205).
