---------------------------- MODULE Provisioning ----------------------------
(***************************************************************************)
(* OtpAuthUri: the fields of an otpauth URI and the text that build makes  *)
(* of them.  A text is a sequence of pieces: the characters with a meaning *)
(* in a URI are pieces of their own, anything else is a word.  Parsed is   *)
(* how an authenticator app reads the text, after the Key URI format.      *)
(***************************************************************************)
EXTENDS Integers, SequencesExt

\* OTPAUTH_ENCODE_SET, without the control characters.
OTPAUTH_ENCODE_SET ==
    {" ", "\"", "#", "%", "&", "+", ",", "/", ":", ";", "<", "=", ">", "?", "@", "[", "\\", "]", "^",
     "backtick", "{", "|", "}"}

\* The code of each of its members.
Hex == [c \in OTPAUTH_ENCODE_SET |->
    CASE c = " " -> "20" [] c = "\"" -> "22" [] c = "#" -> "23" [] c = "%" -> "25" [] c = "&" -> "26"
      [] c = "+" -> "2B" [] c = "," -> "2C" [] c = "/" -> "2F" [] c = ":" -> "3A" [] c = ";" -> "3B"
      [] c = "<" -> "3C" [] c = "=" -> "3D" [] c = ">" -> "3E" [] c = "?" -> "3F" [] c = "@" -> "40"
      [] c = "[" -> "5B" [] c = "\\" -> "5C" [] c = "]" -> "5D" [] c = "^" -> "5E"
      [] c = "backtick" -> "60" [] c = "{" -> "7B" [] c = "|" -> "7C" [] c = "}" -> "7D"]

\* Mutant: the percent sign is not encoded.
encode_leaving_percent(text) ==
    FlattenSeq([i \in DOMAIN text |->
        IF text[i] \in DOMAIN Hex \ {"%"} THEN <<"%", Hex[text[i]]>> ELSE <<text[i]>>])

percent_encode(text) ==
    FlattenSeq([i \in DOMAIN text |->
        IF text[i] \in DOMAIN Hex THEN <<"%", Hex[text[i]]>> ELSE <<text[i]>>])

\* Mutant: padding is left in.
normalize_keeping_padding(text) ==
    FlattenSeq([i \in DOMAIN text |-> IF text[i] \in {" ", "\t", "\n"} THEN <<>> ELSE <<text[i]>>])

normalize_base32_secret(text) ==
    FlattenSeq([i \in DOMAIN text |->
        IF text[i] \in {"=", " ", "\t", "\n"} THEN <<>> ELSE <<text[i]>>])

-----------------------------------------------------------------------------
(* OtpAuthUri.  Option<T> is a sequence of none or one. *)

OtpAuthUri_new(typ, label, secret) ==
    [typ |-> typ, label |-> label, secret |-> secret, issuer |-> <<>>,
     algorithm |-> <<>>, digits |-> <<>>, period |-> <<>>, counter |-> <<>>]

set_issuer(uri, issuer)       == [uri EXCEPT !.issuer = <<issuer>>]
set_algorithm(uri, algorithm) == [uri EXCEPT !.algorithm = <<algorithm>>]
set_digits(uri, digits)       == [uri EXCEPT !.digits = <<digits>>]
set_period(uri, period)       == [uri EXCEPT !.period = <<period>>]
set_counter(uri, counter)     == [uri EXCEPT !.counter = <<counter>>]

\* A parameter that is there only if its field is, and the field's text.
Parameter(name, option, text) ==
    IF option = <<>> THEN <<>> ELSE <<"&", name, "=">> \o text

Number(n) == <<ToString(n)>>

build_uri(uri) ==
    <<"otpauth://", uri.typ, "/">> \o percent_encode(uri.label)
    \o <<"?", "secret", "=">> \o percent_encode(normalize_base32_secret(uri.secret))
    \o Parameter("issuer", uri.issuer, percent_encode(uri.issuer[1]))
    \o Parameter("algorithm", uri.algorithm, <<uri.algorithm[1]>>)
    \o Parameter("digits", uri.digits, Number(uri.digits[1]))
    \o Parameter("period", uri.period, Number(uri.period[1]))
    \o Parameter("counter", uri.counter, Number(uri.counter[1]))

-----------------------------------------------------------------------------
(* The app, which is external. *)

\* A percent sign and a code stand for the character that has it.
percent_decode(text) ==
    LET Code(i) == i > 1 /\ text[i - 1] = "%"
        Char(i) == IF text[i] = "%" THEN CHOOSE c \in DOMAIN Hex : Hex[c] = text[i + 1]
                                    ELSE text[i]
    IN  FlattenSeq([i \in DOMAIN text |-> IF Code(i) THEN <<>> ELSE <<Char(i)>>])

\* The end of a part of the URI that begins at position i: the next character of ends.
End(text, i, ends) ==
    CHOOSE j \in i .. Len(text) + 1 :
        /\ j = Len(text) + 1 \/ text[j] \in ends
        /\ \A k \in i .. j - 1 : text[k] \notin ends

Part(text, i, ends) == percent_decode(SubSeq(text, i, End(text, i, ends) - 1))

\* The values a URI gives a parameter: none, or the first one, up to the next parameter
\* or a fragment.
Values(text, name) ==
    LET At == { i \in 1 .. Len(text) - 2 :
                  /\ text[i] \in {"?", "&"} /\ text[i + 1] = name /\ text[i + 2] = "="
                  /\ i \in End(text, 1, {"?"}) .. End(text, 1, {"#"}) }
    IN  IF At = {} THEN <<>>
        ELSE << Part(text, (CHOOSE i \in At : \A j \in At : i <= j) + 3, {"&", "#"}) >>

\* The text of a parameter, or of what the app takes in its place.
ValueOr(values, default) == IF values = <<>> THEN default ELSE values[1]

\* A number that some parameter may have.
NumberIn(numbers, text) == CHOOSE n \in numbers : Number(n) = text

\* What the app keeps of a URI; numbers are the numbers it understands.
Parsed(text, numbers) ==
    [typ       |-> text[2],
     label     |-> Part(text, 4, {"?", "#"}),
     secret    |-> ValueOr(Values(text, "secret"), <<>>),
     issuer    |-> Values(text, "issuer"),
     algorithm |-> ValueOr(Values(text, "algorithm"), <<"SHA1">>)[1],
     digits    |-> NumberIn(numbers, ValueOr(Values(text, "digits"), Number(6))),
     period    |-> NumberIn(numbers, ValueOr(Values(text, "period"), Number(30))),
     counter   |-> NumberIn(numbers, ValueOr(Values(text, "counter"), Number(0)))]
=============================================================================
