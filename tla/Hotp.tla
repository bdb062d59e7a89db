-------------------------------- MODULE Hotp --------------------------------
(***************************************************************************)
(* The HOTP generator as operators: construction, codes and their          *)
(* verification, with and without a context.                               *)
(*                                                                         *)
(* A Result is Ok(value) or Err(error).  HMAC and truncation are taken     *)
(* apart no further than what goes into them, so codes of different        *)
(* secrets, algorithms, counters, contexts or lengths differ here;         *)
(* HotpResync and Verifier are about codes that collide.                   *)
(***************************************************************************)
EXTENDS Integers, Sequences

Ok(value)  == [tag |-> "ok", value |-> value]
Err(error) == [tag |-> "err", error |-> error]
IsOk(r)    == r.tag = "ok"

Digits     == 6 .. 8
Algorithms == {"SHA1", "SHA256", "SHA512"}

\* The checks come in this order.
hotp_new(secret, algorithm, digits) ==
    IF digits \notin Digits THEN Err("InvalidDigits")
    ELSE IF secret = <<>> THEN Err("InvalidSecret")
    ELSE Ok([secret |-> secret, algorithm |-> algorithm, digits |-> digits])

\* Mutant: the context is left out of the message.
hotp_hmac_unbound(g, counter, context) ==
    [key     |-> <<g.secret, g.algorithm>>,
     message |-> <<counter>>]

\* The counter takes eight bytes, so a context is never taken for a part of it; the tag
\* is there exactly when a context is.
hotp_hmac(g, counter, context) ==
    [key     |-> <<g.secret, g.algorithm>>,
     message |-> <<counter>> \o IF context = <<>> THEN <<>> ELSE <<"genotp-ctx-v1", context>>]

\* generate and generate_bound: the context is empty for the first.
hotp_generate(g, counter, context) ==
    [hmac |-> hotp_hmac(g, counter, context), digits |-> g.digits]

\* verify and verify_bound.
hotp_verify(g, code, counter, context) == code = hotp_generate(g, counter, context)
=============================================================================
