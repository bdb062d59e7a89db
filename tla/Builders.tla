------------------------------ MODULE Builders ------------------------------
(***************************************************************************)
(* Where secrets and generators come from: KeyGenerator and base32, the    *)
(* builders, the configurations, and the helpers that use neither.  Each   *)
(* of the last three states the default parameters for itself.             *)
(*                                                                         *)
(* A secret is a sequence of chunks of five bytes, which base32 writes as  *)
(* eight characters; so its text is a sequence of as many pieces.          *)
(***************************************************************************)
EXTENDS Totp

CONSTANTS
    RandomSecrets,     \* what the operating system's generator may fill a buffer with
    Base32Of           \* Base32Of[chunk]: its eight characters, as one piece of text

Chunks == DOMAIN Base32Of

ASSUME BuildersAssumption ==
    /\ RandomSecrets \subseteq Seq(Chunks)
    /\ \A a, b \in Chunks : Base32Of[a] = Base32Of[b] => a = b

BytesOf(secret) == 5 * Len(secret)

-----------------------------------------------------------------------------
(* Secrets *)

\* The results of fill for a buffer of some bytes; the generator may fail.
fill(bytes) ==
    {Err("InvalidSecret")} \cup { Ok(secret) : secret \in { s \in RandomSecrets : BytesOf(s) = bytes } }

fill_secret(bytes) == IF bytes < 16 THEN {Err("InvalidSecret")} ELSE fill(bytes)

generate_secret(bits) ==
    IF bits < 128 \/ bits % 8 # 0 THEN {Err("InvalidSecret")} ELSE fill(bits \div 8)

\* generate_default_secret, and the helper create_secret.
generate_default_secret == generate_secret(160)

\* base32 without padding.
encode(secret) == [i \in DOMAIN secret |-> Base32Of[secret[i]]]

decode(text) ==
    IF \A i \in DOMAIN text : \E c \in Chunks : Base32Of[c] = text[i]
      THEN Ok([i \in DOMAIN text |-> CHOOSE c \in Chunks : Base32Of[c] = text[i]])
      ELSE Err("InvalidSecret")

-----------------------------------------------------------------------------
(* Builders.  The secret is an Option: none or one. *)

HotpBuilder_new == [secret |-> <<>>, algorithm |-> "SHA1", digits |-> 6]

\* Mutant: the builder has a default of its own.
TotpBuilder_of_eight_digits == [secret |-> <<>>, algorithm |-> "SHA1", digits |-> 8, period |-> 30]

TotpBuilder_new == [secret |-> <<>>, algorithm |-> "SHA1", digits |-> 6, period |-> 30]

\* The setters of builders and configurations.
with_secret(b, secret)       == [b EXCEPT !.secret = <<secret>>]
with_algorithm(b, algorithm) == [b EXCEPT !.algorithm = algorithm]
with_digits(b, digits)       == [b EXCEPT !.digits = digits]
with_period(b, period)       == [b EXCEPT !.period = period]

HotpBuilder_build(b) ==
    IF b.secret = <<>> THEN Err("InvalidSecret")
    ELSE hotp_new(b.secret[1], b.algorithm, b.digits)

TotpBuilder_build(b) ==
    IF b.secret = <<>> THEN Err("InvalidSecret")
    ELSE totp_new(b.secret[1], b.algorithm, b.digits, b.period)

\* Default of the configurations, which have no secret.
HotpConfig_new == [algorithm |-> "SHA1", digits |-> 6]
TotpConfig_new == [algorithm |-> "SHA1", digits |-> 6, period |-> 30]

-----------------------------------------------------------------------------
(* Helpers *)

generate_hotp_default(secret, counter) ==
    LET g == hotp_new(secret, "SHA1", 6)
    IN  IF IsOk(g) THEN Ok(hotp_generate(g.value, counter, <<>>)) ELSE g

verify_hotp_default(secret, code, counter) ==
    LET g == hotp_new(secret, "SHA1", 6)
    IN  IF IsOk(g) THEN Ok(hotp_verify(g.value, code, counter, <<>>)) ELSE g

generate_totp_default(secret, clock) ==
    LET g == totp_new(secret, "SHA1", 6, 30)
    IN  IF IsOk(g) THEN totp_generate(g.value, clock, <<>>) ELSE g

\* Mutant: the helper's period is not the builders'.
verify_totp_by_the_minute(secret, code, clock) ==
    LET g == totp_new(secret, "SHA1", 6, 60)
    IN  IF IsOk(g) THEN totp_verify(g.value, code, clock, 1, <<>>) ELSE g

verify_totp_default(secret, code, clock) ==
    LET g == totp_new(secret, "SHA1", 6, 30)
    IN  IF IsOk(g) THEN totp_verify(g.value, code, clock, 1, <<>>) ELSE g
=============================================================================
