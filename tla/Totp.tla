-------------------------------- MODULE Totp --------------------------------
(***************************************************************************)
(* The TOTP generator as operators, with the u64 and i64 arithmetic of its *)
(* windows.  Codes are those of module Hotp: the code of totp.rs repeats   *)
(* the HMAC and the truncation of hotp.rs.                                 *)
(*                                                                         *)
(* A time is the argument Some(t), or what None stands for, the system     *)
(* clock: before the epoch it is negative here.                            *)
(***************************************************************************)
EXTENDS Hotp

CONSTANT U64Max      \* 2^64 - 1 in the code

ASSUME TotpAssumption == U64Max \in Nat \ {0}

I64Max == U64Max \div 2

\* Mutant: a period of zero, by which no time can be divided, is not refused.
totp_new_with_any_period(secret, algorithm, digits, period) ==
    IF digits \notin Digits THEN Err("InvalidDigits")
    ELSE IF secret = <<>> THEN Err("InvalidSecret")
    ELSE Ok([secret |-> secret, algorithm |-> algorithm, digits |-> digits, period |-> period])

totp_new(secret, algorithm, digits, period) ==
    IF digits \notin Digits THEN Err("InvalidDigits")
    ELSE IF period = 0 THEN Err("InvalidTime")
    ELSE IF secret = <<>> THEN Err("InvalidSecret")
    ELSE Ok([secret |-> secret, algorithm |-> algorithm, digits |-> digits, period |-> period])

totp_hmac(g, counter, context) ==
    [key     |-> <<g.secret, g.algorithm>>,
     message |-> <<counter>> \o IF context = <<>> THEN <<>> ELSE <<"genotp-ctx-v1", context>>]

Truncated(g, hmac) == [hmac |-> hmac, digits |-> g.digits]

current_time(time) == IF time < 0 THEN Err("InvalidTime") ELSE Ok(time)

\* The code of a moment after the epoch: generate, and with a context generate_bound.
CodeAt(g, time, context) == Truncated(g, totp_hmac(g, time \div g.period, context))

totp_generate(g, time, context) ==
    IF IsOk(current_time(time)) THEN Ok(CodeAt(g, time, context)) ELSE current_time(time)

\* u64::checked_add_signed is None outside u64; u64::saturating_mul stops at the greatest.
InU64(n)             == n \in 0 .. U64Max
saturating_mul(a, b) == IF a * b > U64Max THEN U64Max ELSE a * b

\* The code that is generated to try a counter.
Tried(g, counter, context) == CodeAt(g, saturating_mul(counter, g.period), context)

\* A window of more than i64::MAX counters, or a clock before the epoch.
Refused(time, window) == ~IsOk(current_time(time)) \/ window > I64Max

\* Mutant: a counter outside u64 wraps around.
counters_tried_wrapping(counter, window) ==
    { (counter + i) % (U64Max + 1) : i \in -window .. window }

\* verify and verify_bound try 0 in place of a counter outside u64.
counters_tried(counter, window) ==
    { IF InU64(counter + i) THEN counter + i ELSE 0 : i \in -window .. window }

\* The whole window is tried, whether or not a code has matched.
totp_verify(g, code, time, window, context) ==
    IF Refused(time, window) THEN Err("InvalidTime")
    ELSE Ok(\E c \in counters_tried(time \div g.period, window) : code = Tried(g, c, context))

\* A correction that leads out of u64 is not applied.
adjusted_counter(counter, offset) ==
    IF InU64(counter + offset) THEN counter + offset ELSE counter

\* Mutant: what is recorded does not say in which direction the clock is off.
matches_at_distance(g, code, adjusted, window) ==
    { IF i < 0 THEN -i ELSE i : i \in { i \in -window .. window :
        InU64(adjusted + i) /\ code = Tried(g, adjusted + i, <<>>) } }

\* The positions of the window at which the code matches; outside u64 nothing is tried.
matches(g, code, adjusted, window) ==
    { i \in -window .. window : InU64(adjusted + i) /\ code = Tried(g, adjusted + i, <<>>) }

\* The first match ends the search, and is what the detector is told: none or one.
verify_tracking(g, code, time, window, offset) ==
    IF Refused(time, window) THEN Err("InvalidTime")
    ELSE LET found == matches(g, code, adjusted_counter(time \div g.period, offset), window)
         IN  Ok({ i \in found : \A j \in found : i <= j })
=============================================================================
