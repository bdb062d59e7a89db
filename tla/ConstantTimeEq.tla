--------------------------- MODULE ConstantTimeEq ---------------------------
(***************************************************************************)
(* The comparison of genotp, constant_time_eq_bytes, as the loop it is: it *)
(* walks over the longer of two byte strings, reads a zero beyond the end  *)
(* of the shorter one, and gathers the differences without branching.      *)
(*                                                                         *)
(* diff is a u32 whose bits only ever get set; the properties tell only    *)
(* whether it is zero, so it is modelled by that.                          *)
(***************************************************************************)
EXTENDS Integers, Sequences

CONSTANTS
    Byte,            \* the values of a byte
    Strings,         \* the byte strings that are compared
    LengthModulus    \* 2^32: lengths are compared as u32

ASSUME ByteAssumption ==
    /\ 0 \in Byte
    /\ Strings \subseteq Seq(Byte)
    /\ LengthModulus \in Nat \ {0}

VARIABLES
    a, b,            \* the arguments
    diff,            \* is diff non-zero
    i,               \* iterations of the loop done
    answer           \* "none" while the loop runs

vars == <<a, b, diff, i, answer>>

max_len == IF Len(a) >= Len(b) THEN Len(a) ELSE Len(b)

\* get(i).unwrap_or(&0), with indices from 0.
ByteAt(s, k) == IF k < Len(s) THEN s[k + 1] ELSE 0

\* Mutant: the lengths are not compared, only the padded bytes.
LengthsIgnored(s, t) == FALSE

\* (len_a as u32) ^ (len_b as u32), is it non-zero?
LengthsDiffer(s, t) == Len(s) % LengthModulus # Len(t) % LengthModulus

Init ==
    /\ a \in Strings
    /\ b \in Strings
    /\ diff = LengthsDiffer(a, b)
    /\ i = 0
    /\ answer = "none"

\* Mutant: one iteration too many.
IterateOnceMore ==
    /\ answer = "none"
    /\ i <= max_len
    /\ diff' = (diff \/ ByteAt(a, i) # ByteAt(b, i))
    /\ i' = i + 1
    /\ UNCHANGED <<a, b, answer>>

Iterate ==
    /\ answer = "none"
    /\ i < max_len
    /\ diff' = (diff \/ ByteAt(a, i) # ByteAt(b, i))
    /\ i' = i + 1
    /\ UNCHANGED <<a, b, answer>>

\* Mutant: the loop returns at the first difference.
FinishEarly ==
    /\ answer = "none"
    /\ i >= max_len \/ diff
    /\ answer' = IF diff THEN "false" ELSE "true"
    /\ UNCHANGED <<a, b, diff, i>>

Finish ==
    /\ answer = "none"
    /\ i >= max_len
    /\ answer' = IF diff THEN "false" ELSE "true"
    /\ UNCHANGED <<a, b, diff, i>>

Next == Iterate \/ Finish

Spec == Init /\ [][Next]_vars

-----------------------------------------------------------------------------
(* Properties *)

\* Every variable has its type, and the loop index never passes the longer string.
TypeOK ==
    /\ a \in Strings
    /\ b \in Strings
    /\ diff \in BOOLEAN
    /\ i \in 0 .. max_len
    /\ answer \in {"none", "true", "false"}

\* Neither string is long enough for its length to be cut off by the cast to u32.
LengthsFit == Len(a) < LengthModulus /\ Len(b) < LengthModulus

\* The comparison answers true for equal strings and for no others, strings that
\* differ only by zero bytes at the end included.
AnswersEquality == LengthsFit /\ answer # "none" => (answer = "true" <=> a = b)

\* What is learned from the running time: the number of iterations is the greater
\* length, whether and wherever the strings differ.
WalksAll == answer # "none" => i = max_len
=============================================================================
