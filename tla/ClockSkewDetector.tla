-------------------------- MODULE ClockSkewDetector --------------------------
(***************************************************************************)
(* The ClockSkewDetector of genotp: a ring buffer of match offsets behind  *)
(* a mutex, with its sum and its number of non-zero offsets cached, and    *)
(* three atomics beside it.  record, reset and report hold the mutex;      *)
(* enable_auto_adjust, disable_auto_adjust and current_offset do not, so   *)
(* their loads and stores fall between any two steps of the others.        *)
(*                                                                         *)
(* Offsets are unbounded integers here and i64 in the code: a sum of       *)
(* window offsets that overflows i64 needs windows no verification can     *)
(* walk through.                                                           *)
(***************************************************************************)
EXTENDS Integers, Sequences, FiniteSets

CONSTANTS
    Threads,      \* the threads that share the detector
    NoThread,     \* the owner of the free mutex
    Samples,      \* what record is called with: [offset, window]
    NoSample,     \* the arguments of a thread that is not in record
    Capacities,   \* the capacities a detector may be made with
    MinReport,    \* samples below which report knows nothing: 8 in the code
    MinAdjust     \* samples below which the offset is not adjusted: 16 in the code

ASSUME DetectorAssumption ==
    /\ NoThread \notin Threads
    /\ Samples \subseteq [offset : Int, window : Nat]
    /\ NoSample \notin [offset : Int, window : Nat]
    /\ Capacities \subseteq Nat
    /\ MinReport \in Nat \ {0}
    /\ MinAdjust \in Nat \ {0}

VARIABLES
    ring,              \* inner: the SkewState
    auto_adjust,       \* atomic: is the offset adjusted
    offset,            \* atomic: the correction, in counters
    last_window_used,  \* atomic: the window of the last sample
    owner,             \* the thread that holds the mutex of inner
    pc,                \* where each thread is
    sample,            \* the arguments of each thread's record
    recent             \* history: the samples since the last reset, the last ones that fit

args       == <<pc, sample>>
detector   == <<ring, auto_adjust, offset, last_window_used>>
vars       == <<detector, owner, args, recent>>

-----------------------------------------------------------------------------
(* SkewState.  Slot i of the code's buffer is buffer[i + 1] here. *)

EmptyRing(capacity) ==
    [capacity |-> capacity, buffer |-> <<>>, write_idx |-> 0, len |-> 0, sum |-> 0,
     non_zero_count |-> 0]

NonZero(value) == IF value = 0 THEN 0 ELSE 1

append(r, value) ==
    [capacity       |-> r.capacity,
     buffer         |-> Append(r.buffer, value),
     write_idx      |-> (r.len + 1) % r.capacity,
     len            |-> r.len + 1,
     sum            |-> r.sum + value,
     non_zero_count |-> r.non_zero_count + NonZero(value)]

\* Mutant: the count forgets to subtract the value that is overwritten.
overwriteKeepingCount(r, value) ==
    LET old == r.buffer[r.write_idx + 1]
    IN  [capacity       |-> r.capacity,
         buffer         |-> [r.buffer EXCEPT ![r.write_idx + 1] = value],
         write_idx      |-> (r.write_idx + 1) % r.capacity,
         len            |-> r.len,
         sum            |-> r.sum - old + value,
         non_zero_count |-> r.non_zero_count + NonZero(value)]

overwrite(r, value) ==
    LET old == r.buffer[r.write_idx + 1]
    IN  [capacity       |-> r.capacity,
         buffer         |-> [r.buffer EXCEPT ![r.write_idx + 1] = value],
         write_idx      |-> (r.write_idx + 1) % r.capacity,
         len            |-> r.len,
         sum            |-> r.sum - old + value,
         non_zero_count |-> r.non_zero_count - NonZero(old) + NonZero(value)]

push(r, value) == IF r.len < r.capacity THEN append(r, value) ELSE overwrite(r, value)

Abs(n) == IF n < 0 THEN -n ELSE n

\* mean.abs() >= 0.5, and mean.round(), which rounds halves away from zero; len > 0.
MeanIsDrift(r) == 2 * Abs(r.sum) >= r.len
RoundedMean(r) ==
    LET magnitude == (2 * Abs(r.sum) + r.len) \div (2 * r.len)
    IN  IF r.sum < 0 THEN -magnitude ELSE magnitude

\* The offset that the samples suggest.
Hint(r) == IF MeanIsDrift(r) THEN RoundedMean(r) ELSE 0

-----------------------------------------------------------------------------
(* What report answers on a state it reads under the mutex. *)

\* Mutant: a window of zero has an edge, too.
edge_hits_of_no_window(r, window) ==
    Cardinality({i \in 1 .. r.len : Abs(r.buffer[i]) = window})

edge_hits(r, window) ==
    IF window > 0 THEN Cardinality({i \in 1 .. r.len : Abs(r.buffer[i]) = window}) ELSE 0

recommendation(r, window) ==
    IF r.len < MinReport THEN "InsufficientData"
    ELSE IF 5 * edge_hits(r, window) >= r.len THEN "WidenWindowOrCheckNtp"
    ELSE IF MeanIsDrift(r) THEN "ConsistentDrift"
    ELSE "NoActionNeeded"

-----------------------------------------------------------------------------
(* A thread waits for the mutex at "push", "reset" and "report" until it owns *)
(* it; at "hint" it has pushed its sample and still owns it.  "disable" is    *)
(* the point between the two stores of disable_auto_adjust, which owns        *)
(* nothing, and "panicked" the end of a thread that unwound.                  *)

LockOps == {"push", "reset", "report"}
Labels  == {"idle", "hint", "disable", "panicked"} \cup LockOps

Init ==
    /\ \E capacity \in Capacities : ring = EmptyRing(capacity)
    /\ auto_adjust = FALSE
    /\ offset = 0
    /\ last_window_used = 0
    /\ owner = NoThread
    /\ pc = [t \in Threads |-> "idle"]
    /\ sample = [t \in Threads |-> NoSample]
    /\ recent = <<>>

Goto(t, from, to) == pc[t] = from /\ pc' = [pc EXCEPT ![t] = to]
Locked(t, label)  == pc[t] = label /\ owner = t
Unlock            == owner' = NoThread

Acquire(t) ==
    /\ pc[t] \in LockOps
    /\ owner = NoThread
    /\ owner' = t
    /\ UNCHANGED <<detector, args, recent>>

\* record begins and waits for the mutex.
record(t, s) ==
    /\ Goto(t, "idle", "push")
    /\ sample' = [sample EXCEPT ![t] = s]
    /\ UNCHANGED <<detector, owner, recent>>

\* The last elements of a sequence that fit in the ring.
Latest(seq) ==
    IF Len(seq) > ring.capacity THEN SubSeq(seq, Len(seq) - ring.capacity + 1, Len(seq)) ELSE seq

\* Mutant: the mutex is released before the offset is stored.
PushUnlockingEarly(t) ==
    /\ Locked(t, "push")
    /\ ring.capacity > 0
    /\ ring' = push(ring, sample[t].offset)
    /\ last_window_used' = sample[t].window
    /\ recent' = Latest(Append(recent, sample[t]))
    /\ sample' = [sample EXCEPT ![t] = NoSample]
    /\ pc' = [pc EXCEPT ![t] = IF auto_adjust /\ ring'.len >= MinAdjust THEN "hint" ELSE "idle"]
    /\ Unlock
    /\ UNCHANGED <<auto_adjust, offset>>

\* The sample goes into the ring; then auto_adjust is loaded, and when the offset
\* has to follow, the mutex stays held for one more store.
Push(t) ==
    /\ Locked(t, "push")
    /\ ring.capacity > 0
    /\ ring' = push(ring, sample[t].offset)
    /\ last_window_used' = sample[t].window
    /\ recent' = Latest(Append(recent, sample[t]))
    /\ sample' = [sample EXCEPT ![t] = NoSample]
    /\ IF auto_adjust /\ ring'.len >= MinAdjust
         THEN /\ pc' = [pc EXCEPT ![t] = "hint"]
              /\ UNCHANGED owner
         ELSE /\ pc' = [pc EXCEPT ![t] = "idle"]
              /\ Unlock
    /\ UNCHANGED <<auto_adjust, offset>>

StoreHint(t) ==
    /\ Goto(t, "hint", "idle")
    /\ offset' = Hint(ring)
    /\ Unlock
    /\ UNCHANGED <<ring, auto_adjust, last_window_used, sample, recent>>

\* Mutant: the unwinding thread leaves the mutex poisoned for ever.
PushPanicsPoisoned(t) ==
    /\ Locked(t, "push")
    /\ ring.capacity = 0
    /\ pc' = [pc EXCEPT ![t] = "panicked"]
    /\ sample' = [sample EXCEPT ![t] = NoSample]
    /\ UNCHANGED <<detector, owner, recent>>

\* With a capacity of zero the overwrite indexes an empty buffer: the thread
\* unwinds, and the mutex it poisons is recovered by the next thread.
PushPanics(t) ==
    /\ Locked(t, "push")
    /\ ring.capacity = 0
    /\ pc' = [pc EXCEPT ![t] = "panicked"]
    /\ sample' = [sample EXCEPT ![t] = NoSample]
    /\ Unlock
    /\ UNCHANGED <<detector, recent>>

-----------------------------------------------------------------------------
(* The other operations. *)

enable_auto_adjust(t) ==
    /\ pc[t] = "idle"
    /\ auto_adjust' = TRUE
    /\ UNCHANGED <<ring, offset, last_window_used, owner, args, recent>>

disable_auto_adjust(t) ==
    /\ Goto(t, "idle", "disable")
    /\ auto_adjust' = FALSE
    /\ UNCHANGED <<ring, offset, last_window_used, owner, sample, recent>>

DisableOffset(t) ==
    /\ Goto(t, "disable", "idle")
    /\ offset' = 0
    /\ UNCHANGED <<ring, auto_adjust, last_window_used, owner, sample, recent>>

\* reset or report begins and waits for the mutex.
Begin(t) ==
    /\ \E op \in {"reset", "report"} : Goto(t, "idle", op)
    /\ UNCHANGED <<detector, owner, sample, recent>>

\* Mutant: the samples are forgotten, the offset learned from them is not.
reset_keeping_offset(t) ==
    /\ Locked(t, "reset")
    /\ pc' = [pc EXCEPT ![t] = "idle"]
    /\ ring' = EmptyRing(ring.capacity)
    /\ recent' = <<>>
    /\ Unlock
    /\ UNCHANGED <<offset, auto_adjust, last_window_used, sample>>

reset(t) ==
    /\ Locked(t, "reset")
    /\ pc' = [pc EXCEPT ![t] = "idle"]
    /\ ring' = EmptyRing(ring.capacity)
    /\ offset' = 0
    /\ recent' = <<>>
    /\ Unlock
    /\ UNCHANGED <<auto_adjust, last_window_used, sample>>

\* report reads the state and returns; its answer is a function of what it reads.
report(t) ==
    /\ Locked(t, "report")
    /\ pc' = [pc EXCEPT ![t] = "idle"]
    /\ Unlock
    /\ UNCHANGED <<detector, sample, recent>>

\* Steps that finish an operation already begun.
Progress(t) ==
    Acquire(t) \/ Push(t) \/ StoreHint(t) \/ PushPanics(t)
      \/ DisableOffset(t) \/ reset(t) \/ report(t)

\* Everything but the beginning of a record.
Step(t) ==
    \/ Progress(t)
    \/ enable_auto_adjust(t) \/ disable_auto_adjust(t) \/ Begin(t)

Next == \E t \in Threads : Step(t) \/ \E s \in Samples : record(t, s)

Spec == Init /\ [][Next]_vars

\* A running thread goes on with the operation it is in.
FairSpec == Spec /\ \A t \in Threads : WF_vars(Progress(t))

-----------------------------------------------------------------------------
(* Properties *)

\* Every variable has its type; a thread that owns the mutex is at a label that
\* takes it, and one that is about to store the offset owns it.
TypeOK ==
    /\ ring \in [capacity : Capacities, buffer : Seq(Int), write_idx : Nat, len : Nat, sum : Int,
                non_zero_count : Int]
    /\ auto_adjust \in BOOLEAN
    /\ offset \in Int
    /\ last_window_used \in Nat
    /\ owner \in Threads \cup {NoThread}
    /\ pc \in [Threads -> Labels]
    /\ sample \in [Threads -> Samples \cup {NoSample}]
    /\ \A t \in Threads : pc[t] = "push" <=> sample[t] \in Samples
    /\ \A t \in Threads : owner = t => pc[t] \in LockOps \cup {"hint"}
    /\ \A t \in Threads : pc[t] = "hint" => owner = t
    /\ recent \in Seq(Samples)

\* Where the i-th oldest sample is in a buffer that wraps around.
Slot(i) == IF ring.len < ring.capacity THEN i ELSE ((ring.write_idx + i - 1) % ring.capacity) + 1

\* The last samples that fit are in the buffer, the oldest where write_idx points.
SlotsHoldRecent ==
    /\ ring.len = Len(recent)
    /\ Len(ring.buffer) = ring.len
    /\ \A i \in 1 .. ring.len : ring.buffer[Slot(i)] = recent[i].offset

\* The sum of the offsets of some samples, and the places of those that are not zero.
OffsetSum(seq) ==
    LET total[i \in 0 .. Len(seq)] == IF i = 0 THEN 0 ELSE total[i - 1] + seq[i].offset
    IN  total[Len(seq)]

NonZeros(seq) == {i \in 1 .. Len(seq) : seq[i].offset # 0}

\* The ring and its cached aggregates say exactly what recomputing them from the
\* last samples that fit would say, before, at and after every wrap-around.
RingIsWindow ==
    /\ SlotsHoldRecent
    /\ ring.sum = OffsetSum(recent)
    /\ ring.non_zero_count = Cardinality(NonZeros(recent))

\* Whenever nobody is inside the mutex, an offset other than zero comes from at
\* least MinAdjust samples that are still there: reset cannot leave behind an
\* offset that a record racing with it computed, and a ring with fewer slots than
\* that is never learned from.
LearnedFromEnough == owner = NoThread /\ offset # 0 => ring.len >= MinAdjust

\* A report on samples that all agree says what skew.rs says of its answers: at the
\* edge of their window, the window is too small; away from zero, the drift is
\* consistent; at zero, there is nothing to do.  The window is an atomic that reset
\* leaves alone and record stores, so it has to be the one the samples were taken in.
SteadySamplesReported ==
    LET first == recent[1] IN
    /\ owner = NoThread
    /\ Len(recent) >= MinReport
    /\ \A i \in 1 .. Len(recent) : recent[i] = first
    => recommendation(ring, last_window_used) =
         CASE first.window > 0 /\ Abs(first.offset) = first.window -> "WidenWindowOrCheckNtp"
           [] first.offset = 0                                     -> "NoActionNeeded"
           [] OTHER                                                -> "ConsistentDrift"

\* The mutex is always given back, by a thread that panics inside it too: a poisoned
\* detector keeps serving the others.
MutexFreed == \A t \in Threads : owner = t ~> owner # t

\* What skew.rs says of current_offset: it is zero while auto adjust is not
\* enabled.  Judged only when no operation is under way.
OffsetZeroWhenOff ==
    (\A t \in Threads : pc[t] = "idle") /\ ~auto_adjust => offset = 0
=============================================================================
