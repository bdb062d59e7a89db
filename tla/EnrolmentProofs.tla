--------------------------- MODULE EnrolmentProofs ---------------------------
(***************************************************************************)
(* Theorems about Enrolment: for every width of the integers, every        *)
(* account, whatever is in its names, every secret and every way to write  *)
(* it, every choice of parameters, and all times, windows and contexts,    *)
(* the app and the server agree, and the server accepts exactly the codes  *)
(* it should.                                                              *)
(***************************************************************************)
EXTENDS Enrolment, ProvisioningProofs

-----------------------------------------------------------------------------
(* Windows *)

Periods == Nat \ {0}

\* The counter of a moment, for a generator with a period.
CounterOf(g, time) == time \div g.period

\* Two counters are at most so far apart.
Within(a, b, window) == a - b \in -window .. window

LEMMA CounterIsNat == ASSUME NEW a \in Nat, NEW p \in Periods PROVE a \div p \in Nat
  BY SMT DEF Periods

LEMMA QuotientBounds ==
    ASSUME NEW a \in Nat, NEW p \in Periods
    PROVE  p * (a \div p) <= a /\ a < p * (a \div p) + p
  BY SMT DEF Periods

LEMMA QuotientOfProduct == ASSUME NEW c \in Nat, NEW p \in Periods PROVE (c * p) \div p = c
  BY SMT DEF Periods

LEMMA QuotientMonotone ==
    ASSUME NEW a \in Nat, NEW b \in Nat, a <= b, NEW p \in Periods
    PROVE  a \div p <= b \div p
  BY SMT DEF Periods

LEMMA ProductMonotone ==
    ASSUME NEW a \in Nat, NEW b \in Nat, a <= b, NEW p \in Periods
    PROVE  a * p <= b * p
  BY SMT DEF Periods

\* A counter that is tried becomes a time and a counter again.  One too great for a time
\* becomes the last counter a time has.
LEMMA CounterTried ==
    ASSUME NEW c \in 0 .. U64Max, NEW p \in Periods
    PROVE  saturating_mul(c, p) \in 0 .. U64Max
           /\ saturating_mul(c, p) \div p = IF c <= U64Max \div p THEN c ELSE U64Max \div p
<1> USE TotpAssumption DEF Periods
<1> DEFINE last == U64Max \div p
<1>1. last \in Nat /\ p * last <= U64Max /\ U64Max < p * last + p
  BY CounterIsNat, QuotientBounds
<1> HIDE DEF last
<1>2. CASE c * p > U64Max
  <2>1. ~(c <= last)
    <3> SUFFICES ASSUME c <= last PROVE FALSE
      OBVIOUS
    <3>1. c * p <= last * p
      BY <1>1, ProductMonotone
    <3>2. last * p = p * last
      BY <1>1
    <3>3. c * p \in Nat /\ p * last \in Nat
      BY <1>1
    <3> QED
      BY <1>1, <1>2, <3>1, <3>2, <3>3
  <2> QED
    BY <1>2, <2>1 DEF saturating_mul, last
<1>3. CASE ~(c * p > U64Max)
  <2>1. c * p \in 0 .. U64Max
    BY <1>3
  <2>2. (c * p) \div p = c
    BY QuotientOfProduct
  <2>3. c <= last
    BY <2>1, <2>2, QuotientMonotone DEF last
  <2> QED
    BY <1>3, <2>1, <2>2, <2>3 DEF saturating_mul, last
<1> QED
  BY <1>2, <1>3

\* Codes of one generator tell moments apart exactly as their counters do.
LEMMA CodesTellCounters ==
    ASSUME NEW g, NEW t, NEW u, NEW x
    PROVE  CodeAt(g, t, x) = CodeAt(g, u, x) <=> CounterOf(g, t) = CounterOf(g, u)
<1> DEFINE Rest == IF x = <<>> THEN <<>> ELSE <<"genotp-ctx-v1", x>>
           Message(c) == <<c>> \o Rest
<1>1. ASSUME NEW c PROVE Message(c)[1] = c
  BY <1>1
<1> HIDE DEF Message
<1>2. ASSUME NEW c, NEW d, totp_hmac(g, c, x) = totp_hmac(g, d, x) PROVE c = d
  <2>1. totp_hmac(g, c, x).message = Message(c) /\ totp_hmac(g, d, x).message = Message(d)
    BY DEF totp_hmac, Message
  <2> QED
    BY <1>1, <1>2, <2>1
<1>3. ASSUME CodeAt(g, t, x) = CodeAt(g, u, x)
      PROVE  CounterOf(g, t) = CounterOf(g, u)
  <2>1. totp_hmac(g, CounterOf(g, t), x) = totp_hmac(g, CounterOf(g, u), x)
    BY <1>3 DEF CodeAt, Truncated, CounterOf
  <2> QED
    BY <1>2, <2>1
<1> QED
  BY <1>3 DEF CodeAt, CounterOf

\* Codes of different contexts differ, whatever the moments.
LEMMA CodesTellContexts ==
    ASSUME NEW g, NEW t, NEW u, NEW x, NEW y, x # y
    PROVE  CodeAt(g, t, x) # CodeAt(g, u, y)
<1> DEFINE Rest(z) == IF z = <<>> THEN <<>> ELSE <<"genotp-ctx-v1", z>>
           Message(c, z) == <<c>> \o Rest(z)
<1>1. ASSUME NEW c, NEW z, z # <<>> PROVE Len(Message(c, z)) = 3 /\ Message(c, z)[3] = z
  BY <1>1
<1>2. ASSUME NEW c PROVE Len(Message(c, <<>>)) = 1
  BY <1>2
<1> HIDE DEF Message
<1>3. ASSUME NEW c, NEW d PROVE Message(c, x) # Message(d, y)
  <2>1. CASE x = <<>>
    BY <1>1, <1>2, <2>1
  <2>2. CASE y = <<>>
    BY <1>1, <1>2, <2>2
  <2>3. CASE x # <<>> /\ y # <<>>
    BY <1>1, <2>3
  <2> QED
    BY <2>1, <2>2, <2>3
<1>4. ASSUME NEW c, NEW z PROVE totp_hmac(g, c, z).message = Message(c, z)
  BY DEF totp_hmac, Message
<1> QED
  BY <1>3, <1>4 DEF CodeAt, Truncated

\* A time that is given, or a clock past the epoch, and a window that is an i64.
LEMMA NotRefused ==
    ASSUME NEW u \in Nat, NEW window \in 0 .. I64Max
    PROVE  ~Refused(u, window)
  BY TotpAssumption DEF Refused, current_time, IsOk, Ok, I64Max

-----------------------------------------------------------------------------

\* verify and verify_bound accept the codes of the window and no others, wherever in u64
\* the time is and however many counters saturate; but where the window reaches beyond
\* the greatest counter, the code of counter 0 is accepted too.
THEOREM VerifyExact ==
    ASSUME NEW g, g.period \in Periods, NEW x,
           NEW t \in 0 .. U64Max, NEW u \in 0 .. U64Max, NEW window \in 0 .. I64Max
    PROVE  totp_verify(g, CodeAt(g, t, x), u, window, x) =
               Ok(\/ Within(CounterOf(g, t), CounterOf(g, u), window)
                  \/ CounterOf(g, t) = 0 /\ CounterOf(g, u) + window > U64Max)
<1> USE TotpAssumption
<1> DEFINE p    == g.period
           last == U64Max \div p
           ct   == CounterOf(g, t)
           cu   == CounterOf(g, u)
           Hits(c) == CodeAt(g, t, x) = Tried(g, c, x)
           Right == Within(ct, cu, window) \/ (ct = 0 /\ cu + window > U64Max)
<1>1. /\ ct \in 0 .. last /\ cu \in 0 .. last
      /\ last \in 0 .. U64Max /\ window \in Nat
  <2>1. U64Max \in Nat /\ t \in Nat /\ u \in Nat /\ t <= U64Max /\ u <= U64Max /\ window \in Nat
    BY DEF I64Max
  <2>2. last \in Nat /\ ct \in Nat /\ cu \in Nat
    BY <2>1, CounterIsNat DEF CounterOf
  <2>3. ct <= last /\ cu <= last
    BY <2>1, QuotientMonotone DEF CounterOf
  <2>4. last <= U64Max
    <3>1. p * last <= U64Max /\ p \in Nat /\ p >= 1
      BY <2>1, QuotientBounds DEF Periods
    <3>2. last <= p * last
      BY <2>2, <3>1
    <3>3. p * last \in Nat
      BY <2>2, <3>1
    <3> QED
      BY <2>1, <2>2, <3>1, <3>2, <3>3
  <2> QED
    BY <2>1, <2>2, <2>3, <2>4
<1>2. ASSUME NEW c \in 0 .. U64Max
      PROVE  Hits(c) <=> ct = IF c <= last THEN c ELSE last
  <2>1. Hits(c) <=> ct = CounterOf(g, saturating_mul(c, p))
    BY CodesTellCounters DEF Tried
  <2>2. CounterOf(g, saturating_mul(c, p)) = IF c <= last THEN c ELSE last
    BY CounterTried DEF CounterOf
  <2> QED
    BY <2>1, <2>2
<1>3. ~Refused(u, window)
  BY NotRefused
<1>4. totp_verify(g, CodeAt(g, t, x), u, window, x) =
        Ok(\E c \in counters_tried(cu, window) : Hits(c))
  BY <1>3 DEF totp_verify, CounterOf
<1> HIDE DEF last, ct, cu, Hits
<1>5. ASSUME NEW c \in counters_tried(cu, window), Hits(c) PROVE Right
  <2>1. PICK i \in -window .. window : c = IF InU64(cu + i) THEN cu + i ELSE 0
    BY <1>5 DEF counters_tried
  <2>2. c \in 0 .. U64Max
    BY <1>1, <2>1 DEF InU64
  <2>3. ct = IF c <= last THEN c ELSE last
    BY <1>2, <1>5, <2>2
  <2>4. CASE InU64(cu + i)
    BY <1>1, <2>1, <2>3, <2>4 DEF Within
  <2>5. CASE ~InU64(cu + i)
    BY <1>1, <2>1, <2>3, <2>5 DEF Within, InU64
  <2> QED
    BY <2>4, <2>5
<1>6. ASSUME Right PROVE \E c \in counters_tried(cu, window) : Hits(c)
  <2>1. CASE Within(ct, cu, window)
    <3>1. ct = cu + (ct - cu) /\ ct - cu \in -window .. window /\ InU64(cu + (ct - cu))
      BY <1>1, <2>1 DEF Within, InU64
    <3>2. ct \in counters_tried(cu, window)
      BY <3>1 DEF counters_tried
    <3>3. Hits(ct)
      BY <1>1, <1>2
    <3> QED
      BY <3>2, <3>3
  <2>2. CASE ct = 0 /\ cu + window > U64Max
    <3>1. window \in -window .. window /\ ~InU64(cu + window)
      BY <1>1, <2>2 DEF InU64
    <3>2. 0 \in counters_tried(cu, window)
      BY <3>1 DEF counters_tried
    <3>3. Hits(0)
      BY <1>1, <1>2, <2>2
    <3> QED
      BY <3>2, <3>3
  <2> QED
    BY <1>6, <2>1, <2>2
<1>7. (\E c \in counters_tried(cu, window) : Hits(c)) = Right
  BY <1>5, <1>6
<1> QED
  BY <1>4, <1>7 DEF ct, cu

\* A code of another context is never accepted.
THEOREM OtherContextRefused ==
    ASSUME NEW g, NEW x, NEW y, x # y,
           NEW t \in Nat, NEW u \in Nat, NEW window \in 0 .. I64Max
    PROVE  totp_verify(g, CodeAt(g, t, x), u, window, y) = Ok(FALSE)
<1>1. ~Refused(u, window)
  BY NotRefused
<1>2. \A c : CodeAt(g, t, x) # Tried(g, c, y)
  BY CodesTellContexts DEF Tried
<1> QED
  BY <1>1, <1>2 DEF totp_verify

\* verify_tracking reports the distance of the code from the corrected counter when that
\* is in the window, and otherwise nothing: at no end of u64 is another one reported.
THEOREM TrackingExact ==
    ASSUME NEW g, g.period \in Periods, NEW offset \in Int,
           NEW t \in 0 .. U64Max, NEW u \in 0 .. U64Max, NEW window \in 0 .. I64Max,
           NEW a \in 0 .. CounterOf(g, U64Max), a = adjusted_counter(CounterOf(g, u), offset)
    PROVE  verify_tracking(g, CodeAt(g, t, <<>>), u, window, offset) =
               Ok(IF Within(CounterOf(g, t), a, window) THEN {CounterOf(g, t) - a} ELSE {})
<1> USE TotpAssumption
<1> DEFINE p    == g.period
           last == U64Max \div p
           ct   == CounterOf(g, t)
           d    == ct - a
           found == matches(g, CodeAt(g, t, <<>>), a, window)
<1>1. ct \in 0 .. last /\ last \in Nat /\ window \in Nat /\ a \in 0 .. last
  <2>1. U64Max \in Nat /\ t \in Nat /\ t <= U64Max /\ window \in Nat
    BY DEF I64Max
  <2>2. last \in Nat /\ ct \in Nat
    BY <2>1, CounterIsNat DEF CounterOf
  <2>3. ct <= last
    BY <2>1, QuotientMonotone DEF CounterOf
  <2> QED
    BY <2>1, <2>2, <2>3 DEF CounterOf
<1>2. ASSUME NEW c \in 0 .. U64Max
      PROVE  CodeAt(g, t, <<>>) = Tried(g, c, <<>>) <=> ct = IF c <= last THEN c ELSE last
  <2>1. CodeAt(g, t, <<>>) = Tried(g, c, <<>>) <=> ct = CounterOf(g, saturating_mul(c, p))
    BY CodesTellCounters DEF Tried
  <2>2. CounterOf(g, saturating_mul(c, p)) = IF c <= last THEN c ELSE last
    BY CounterTried DEF CounterOf
  <2> QED
    BY <2>1, <2>2
<1>3. ~Refused(u, window)
  BY NotRefused
<1>4. verify_tracking(g, CodeAt(g, t, <<>>), u, window, offset) =
        Ok({ i \in found : \A j \in found : i <= j })
  BY <1>3 DEF verify_tracking, CounterOf
<1>5. \A i \in found : i \in -window .. window /\ InU64(a + i)
                       /\ ct = IF a + i <= last THEN a + i ELSE last
  <2> SUFFICES ASSUME NEW i \in found
               PROVE  i \in -window .. window /\ InU64(a + i)
                      /\ ct = IF a + i <= last THEN a + i ELSE last
    OBVIOUS
  <2>1. i \in -window .. window /\ InU64(a + i)
        /\ CodeAt(g, t, <<>>) = Tried(g, a + i, <<>>)
    BY DEF matches
  <2>2. a + i \in 0 .. U64Max
    BY <2>1 DEF InU64
  <2> QED
    BY <1>2, <2>1, <2>2
<1>6. Within(ct, a, window) => d \in found
  <2> SUFFICES ASSUME Within(ct, a, window) PROVE d \in found
    OBVIOUS
  <2>1. a + d = ct /\ d \in -window .. window
    BY <1>1 DEF Within
  <2>2. ct \in 0 .. U64Max /\ ct <= last
    <3>1. last \in 0 .. U64Max
      <4>1. p * last <= U64Max
        BY QuotientBounds
      <4>2. p \in Nat /\ p >= 1
        BY DEF Periods
      <4>3. last <= p * last /\ p * last \in Nat
        BY <1>1, <4>2
      <4> QED
        BY <1>1, <4>1, <4>3
    <3> QED
      BY <1>1, <3>1
  <2>3. InU64(a + d) /\ CodeAt(g, t, <<>>) = Tried(g, a + d, <<>>)
    BY <1>2, <2>1, <2>2 DEF InU64
  <2> QED
    BY <2>1, <2>3 DEF matches
<1> HIDE DEF last, ct, found
<1>7. \A i \in found : i >= d /\ Within(ct, a, window)
  BY <1>1, <1>5 DEF Within, InU64
<1>8. { i \in found : \A j \in found : i <= j } =
        IF Within(ct, a, window) THEN {d} ELSE {}
  <2>1. CASE Within(ct, a, window)
    <3>1. d \in Int /\ found \subseteq Int
      BY <1>1, <1>5
    <3>2. d \in found /\ \A j \in found : d <= j
      BY <1>6, <1>7, <2>1, <3>1
    <3>3. ASSUME NEW i \in found, \A j \in found : i <= j PROVE i = d
      BY <3>1, <3>2, <3>3
    <3> QED
      BY <2>1, <3>2, <3>3
  <2>2. CASE ~Within(ct, a, window)
    BY <1>7, <2>2
  <2> QED
    BY <2>1, <2>2
<1> QED
  BY <1>4, <1>8 DEF ct

\* Codes of one HOTP generator tell counters apart, and contexts.
LEMMA HotpCodes ==
    ASSUME NEW g, NEW a, NEW b, NEW x, NEW y
    PROVE  hotp_generate(g, a, x) = hotp_generate(g, b, y) <=> a = b /\ x = y
<1> DEFINE Rest(z) == IF z = <<>> THEN <<>> ELSE <<"genotp-ctx-v1", z>>
           Message(c, z) == <<c>> \o Rest(z)
<1>1. ASSUME NEW c, NEW z, z # <<>>
      PROVE  Len(Message(c, z)) = 3 /\ Message(c, z)[1] = c /\ Message(c, z)[3] = z
  BY <1>1
<1>2. ASSUME NEW c PROVE Len(Message(c, <<>>)) = 1 /\ Message(c, <<>>)[1] = c
  BY <1>2
<1> HIDE DEF Message
<1>3. Message(a, x) = Message(b, y) => a = b /\ x = y
  <2>1. CASE x = <<>> /\ y = <<>>
    BY <1>2, <2>1
  <2>2. CASE x # <<>> /\ y = <<>>
    BY <1>1, <1>2, <2>2
  <2>3. CASE x = <<>> /\ y # <<>>
    BY <1>1, <1>2, <2>3
  <2>4. CASE x # <<>> /\ y # <<>>
    BY <1>1, <2>4
  <2> QED
    BY <2>1, <2>2, <2>3, <2>4
<1>4. ASSUME NEW c, NEW z PROVE hotp_hmac(g, c, z).message = Message(c, z)
  BY DEF hotp_hmac, Message
<1>5. hotp_generate(g, a, x) = hotp_generate(g, b, y) => hotp_hmac(g, a, x) = hotp_hmac(g, b, y)
  BY DEF hotp_generate
<1> QED
  BY <1>3, <1>4, <1>5

-----------------------------------------------------------------------------
(* Secrets *)

\* decode undoes encode.
LEMMA DecodeOfEncode ==
    ASSUME NEW s \in Seq(Chunks)
    PROVE  encode(s) \in Seq({Base32Of[c] : c \in Chunks}) /\ Len(encode(s)) = Len(s)
           /\ decode(encode(s)) = Ok(s)
<1> DEFINE t == encode(s)
<1>1. /\ DOMAIN t = 1 .. Len(s) /\ DOMAIN s = 1 .. Len(s)
      /\ \A i \in 1 .. Len(s) : s[i] \in Chunks /\ t[i] = Base32Of[s[i]]
      /\ t = [i \in 1 .. Len(s) |-> Base32Of[s[i]]]
  BY DEF encode
<1>2. t \in Seq({Base32Of[c] : c \in Chunks}) /\ Len(t) = Len(s)
  BY <1>1
<1> HIDE DEF t
<1>3. \A i \in DOMAIN t : \E c \in Chunks : Base32Of[c] = t[i]
  BY <1>1
<1>4. \A i \in 1 .. Len(s) : (CHOOSE c \in Chunks : Base32Of[c] = t[i]) = s[i]
  BY <1>1, BuildersAssumption
<1>5. [i \in DOMAIN t |-> CHOOSE c \in Chunks : Base32Of[c] = t[i]] = s
  <2>1. [i \in 1 .. Len(s) |-> CHOOSE c \in Chunks : Base32Of[c] = t[i]]
          = [i \in 1 .. Len(s) |-> s[i]]
    BY <1>4
  <2>2. [i \in 1 .. Len(s) |-> s[i]] = s
    BY <1>1
  <2> QED
    BY <1>1, <2>1, <2>2
<1>6. decode(t) = Ok([i \in DOMAIN t |-> CHOOSE c \in Chunks : Base32Of[c] = t[i]])
  BY <1>3, Zenon DEF decode
<1> QED
  BY <1>2, <1>5, <1>6 DEF t

\* Whatever decode accepts is a secret.
LEMMA DecodeTyped ==
    ASSUME NEW t, IsText(t), IsOk(decode(t))
    PROVE  decode(t).value \in Seq(Chunks)
<1> DEFINE s == [i \in DOMAIN t |-> CHOOSE c \in Chunks : Base32Of[c] = t[i]]
<1>1. \A i \in DOMAIN t : \E c \in Chunks : Base32Of[c] = t[i]
  BY DEF decode, IsOk, Err
<1>2. decode(t) = Ok(s)
  BY <1>1, Zenon DEF decode
<1>3. \A i \in DOMAIN t : s[i] \in Chunks
  BY <1>1
<1>4. DOMAIN t = 1 .. Len(t) /\ Len(t) \in Nat
  BY DEF IsText
<1>5. s \in Seq(Chunks)
  BY <1>3, <1>4
<1> HIDE DEF s
<1> QED
  BY <1>2, <1>5 DEF Ok

\* However a secret is written, normalize_base32_secret leaves what encode returns.
LEMMA NormalizeOfText ==
    ASSUME NEW s \in Seq(Chunks), s # <<>>, NEW text \in TextsOf(s)
    PROVE  normalize_base32_secret(text) = encode(s)
<1> DEFINE e == encode(s)
           A == {Base32Of[c] : c \in Chunks}
           S == A \cup Skipped
<1>1. A \subseteq S \ Skipped
  BY TextAssumption DEF Skipped
<1>2. e \in Seq(A) /\ Len(e) = Len(s)
  BY DecodeOfEncode
<1> HIDE DEF A
<1>3. e \in Seq(S \ Skipped) /\ e # <<>>
  <2>1. Len(s) # 0
    OBVIOUS
  <2> HIDE DEF e, S
  <2>2. e \in Seq(S \ Skipped)
    BY <1>1, <1>2, SeqMonotonic
  <2> QED
    BY <1>2, <2>1, <2>2
<1>4. " " \in S \cap Skipped /\ "=" \in S \cap Skipped
  BY DEF Skipped
<1>5. text = e \/ text = <<" ", e[1], " ">> \o Tail(e) \o <<"=", "=">>
  BY Zenon DEF TextsOf
<1> HIDE DEF S, e
<1>6. /\ normalize_base32_secret(e) = e
      /\ normalize_base32_secret(<<" ", e[1], " ">> \o Tail(e) \o <<"=", "=">>) = e
  BY <1>3, <1>4, NormalizeSpacedAndPadded, Zenon
<1> QED
  BY <1>5, <1>6, Zenon DEF e

-----------------------------------------------------------------------------
(* The invariant *)

\* What a builder or a configuration may be, before and after its setters: a builder has
\* no secret, or an empty one that was not made yet, or the server's.
HotpForms ==
    [secret : {<<>>, << <<>> >>, <<secret>>}, algorithm : Algorithms, digits : DigitsGiven \cup {6}]
    \cup [algorithm : Algorithms, digits : DigitsGiven \cup {6}]

TotpForms ==
    [secret : {<<>>, << <<>> >>, <<secret>>}, algorithm : Algorithms, digits : DigitsGiven \cup {6},
     period : PeriodsGiven \cup {30}]
    \cup [algorithm : Algorithms, digits : DigitsGiven \cup {6}, period : PeriodsGiven \cup {30}]

\* What was not given is the default.
SettingsInv ==
    /\ typ = "hotp" => settings \in HotpForms
    /\ typ = "totp" => settings \in TotpForms
    /\ "algorithm" \notin given => settings.algorithm = "SHA1"
    /\ "digits" \notin given => settings.digits = 6
    /\ typ = "totp" /\ "period" \notin given => settings.period = 30
    /\ "period" \in given => typ = "totp"
    /\ counter \in Counters

\* The generator is what the settings say, with the server's secret, and can make codes.
MadeInv ==
    generator # <<>> =>
      /\ secret # <<>>
      /\ typ = "hotp" => generator = << [secret |-> secret, algorithm |-> settings.algorithm,
                                         digits |-> settings.digits] >>
      /\ typ = "totp" => generator = << [secret |-> secret, algorithm |-> settings.algorithm,
                                         digits |-> settings.digits, period |-> settings.period] >>
      /\ settings.digits \in Digits
      /\ typ = "totp" => settings.period \in Periods

\* The fields of the URI that is being written: the server's, or none.
Descriptions ==
    [typ : {typ}, label : {account.label}, secret : TextsOf(secret),
     issuer : {<<>>, account.issuer},
     algorithm : {<<>>, <<settings.algorithm>>},
     digits : {<<>>, <<settings.digits>>},
     period : IF typ = "totp" THEN {<<>>, <<settings.period>>} ELSE {<<>>},
     counter : IF typ = "hotp" THEN {<<>>, <<counter>>} ELSE {<<>>}]

UriInv == uri # <<>> => generator # <<>> /\ uri[1] \in Descriptions /\ uri = <<uri[1]>>

AppInv ==
    app # <<>> => generator # <<>> /\ app = <<app[1]>> /\ AppIsServer /\ AccountShown

\* Whoever answered last, the answer was right.
VerdictRight == verdict.answer = verdict.right

IInv == TypeOK /\ SettingsInv /\ MadeInv /\ UriInv /\ AppInv /\ VerdictRight

-----------------------------------------------------------------------------
(* The app has what the server has *)

\* The pieces of all texts about an account.
Pieces(a) ==
    OTPAUTH_ENCODE_SET \cup {Hex[c] : c \in OTPAUTH_ENCODE_SET}
    \cup Names \cup {"otpauth://", "hotp", "totp"} \cup Algorithms
    \cup {Base32Of[c] : c \in Chunks} \cup {ToString(n) : n \in Numbers}
    \cup {a.label[i] : i \in DOMAIN a.label} \cup {a.issuer[1][i] : i \in DOMAIN a.issuer[1]}

LEMMA PiecesOfAccount ==
    ASSUME NEW a \in Accounts
    PROVE  /\ Alphabet(Pieces(a)) /\ Names \subseteq Pieces(a) /\ "otpauth://" \in Pieces(a)
           /\ a.label \in Seq(Pieces(a))
           /\ a.issuer # <<>> => a.issuer = <<a.issuer[1]>> /\ a.issuer[1] \in Seq(Pieces(a))
           /\ {"hotp", "totp"} \cup Algorithms \subseteq Pieces(a) \ OTPAUTH_ENCODE_SET
           /\ {Base32Of[c] : c \in Chunks} \subseteq Pieces(a)
           /\ \A n \in Numbers : ToString(n) \in Pieces(a) \ OTPAUTH_ENCODE_SET
<1> DEFINE S == Pieces(a)
<1>1. Alphabet(S) /\ Names \subseteq S /\ "otpauth://" \in S
  BY DEF Alphabet, Pieces
<1>2. /\ {a.label[i] : i \in DOMAIN a.label} \subseteq S
      /\ {a.issuer[1][i] : i \in DOMAIN a.issuer[1]} \subseteq S
      /\ {Base32Of[c] : c \in Chunks} \subseteq S
      /\ \A n \in Numbers : ToString(n) \in S
  BY DEF Pieces
<1>3. {"hotp", "totp"} \cup Algorithms \subseteq S \ OTPAUTH_ENCODE_SET
  BY DEF Pieces, OTPAUTH_ENCODE_SET, Algorithms
<1> HIDE DEF S
<1>4. a.label \in Seq(S)
  <2>1. a.label \in Seq({a.label[i] : i \in DOMAIN a.label})
    BY EnrolmentAssumption DEF IsText
  <2> QED
    BY <1>2, <2>1, SeqMonotonic
<1>5. a.issuer # <<>> => a.issuer = <<a.issuer[1]>> /\ a.issuer[1] \in Seq(S)
  <2> SUFFICES ASSUME a.issuer # <<>>
               PROVE  a.issuer = <<a.issuer[1]>> /\ a.issuer[1] \in Seq(S)
    OBVIOUS
  <2>1. a.issuer = <<a.issuer[1]>>
        /\ a.issuer[1] \in Seq({a.issuer[1][i] : i \in DOMAIN a.issuer[1]})
    BY EnrolmentAssumption DEF IsText
  <2> QED
    BY <1>2, <2>1, SeqMonotonic
<1>6. \A n \in Numbers : ToString(n) \in S \ OTPAUTH_ENCODE_SET
  BY <1>2, TextAssumption
<1> QED
  BY <1>1, <1>2, <1>3, <1>4, <1>5, <1>6 DEF S

\* What the server left out of the URI it had not set, and the app takes the same default.
LEMMA ReadBack ==
    ASSUME TypeOK, SettingsInv, MadeInv, UriInv, uri # <<>>, MustState \subseteq Stated(uri[1]),
           NEW phone, phone = Parsed(build_uri(uri[1]), Numbers)
    PROVE  /\ phone.typ = typ
           /\ decode(phone.secret) = Ok(Gen.secret)
           /\ phone.algorithm = Gen.algorithm
           /\ phone.digits = Gen.digits
           /\ IF typ = "totp" THEN phone.period = Gen.period ELSE phone.counter = counter
           /\ phone.label = account.label /\ phone.issuer = account.issuer
<1> DEFINE u == uri[1]
           S == Pieces(account)
<1>1. /\ u.typ = typ /\ u.label = account.label /\ u.secret \in TextsOf(secret)
      /\ u.issuer \in {<<>>, account.issuer}
      /\ u.algorithm \in {<<>>, <<settings.algorithm>>}
      /\ u.digits \in {<<>>, <<settings.digits>>}
      /\ u.period \in {<<>>, <<settings.period>>} /\ (typ = "hotp" => u.period = <<>>)
      /\ u.counter \in {<<>>, <<counter>>} /\ (typ = "totp" => u.counter = <<>>)
  BY DEF UriInv, Descriptions, TypeOK
<1>2. /\ typ \in {"hotp", "totp"} /\ account \in Accounts
      /\ secret \in Seq(Chunks) /\ secret # <<>> /\ generator # <<>>
      /\ Gen.secret = secret /\ Gen.algorithm = settings.algorithm /\ Gen.digits = settings.digits
      /\ typ = "totp" => Gen.period = settings.period
  BY DEF UriInv, MadeInv, TypeOK, Gen
<1>3. /\ settings.algorithm \in Algorithms
      /\ settings.digits \in Numbers /\ counter \in Numbers
      /\ typ = "totp" => settings.period \in Numbers
      /\ {0, 30} \subseteq Numbers /\ 6 \in Numbers
  BY <1>2 DEF SettingsInv, MadeInv, HotpForms, TotpForms, Numbers, Digits
<1>4. /\ account.issuer # <<>> => u.issuer # <<>>
      /\ typ = "hotp" => u.counter # <<>>
      /\ u.algorithm = <<>> => settings.algorithm = "SHA1"
      /\ u.digits = <<>> => settings.digits = 6
      /\ typ = "totp" /\ u.period = <<>> => settings.period = 30
  BY DEF MustState, Stated, SettingsInv
<1>5. normalize_base32_secret(u.secret) = encode(secret) /\ decode(encode(secret)) = Ok(secret)
      /\ encode(secret) \in Seq({Base32Of[c] : c \in Chunks})
  BY <1>1, <1>2, NormalizeOfText, DecodeOfEncode
<1>6. /\ Alphabet(S) /\ Names \subseteq S /\ "otpauth://" \in S
      /\ account.label \in Seq(S)
      /\ account.issuer # <<>> => account.issuer = <<account.issuer[1]>>
                                  /\ account.issuer[1] \in Seq(S)
      /\ {"hotp", "totp"} \cup Algorithms \subseteq S \ OTPAUTH_ENCODE_SET
      /\ {Base32Of[c] : c \in Chunks} \subseteq S
      /\ \A n \in Numbers : ToString(n) \in S \ OTPAUTH_ENCODE_SET
  BY <1>2, PiecesOfAccount
<1> HIDE DEF u, S
<1>7. IsDescription(u, S)
  <2>1. u.typ \in S \ OTPAUTH_ENCODE_SET /\ u.label \in Seq(S)
    BY <1>1, <1>2, <1>6
  <2>2. normalize_base32_secret(u.secret) \in Seq(S)
    BY <1>5, <1>6, SeqMonotonic
  <2>3. u.issuer # <<>> => u.issuer = <<u.issuer[1]>> /\ u.issuer[1] \in Seq(S)
    BY <1>1, <1>6
  <2>4. u.algorithm # <<>> => u.algorithm[1] \in S \ OTPAUTH_ENCODE_SET
    BY <1>1, <1>3, <1>6
  <2>5. /\ u.digits # <<>> => ToString(u.digits[1]) \in S \ OTPAUTH_ENCODE_SET
        /\ u.period # <<>> => ToString(u.period[1]) \in S \ OTPAUTH_ENCODE_SET
        /\ u.counter # <<>> => ToString(u.counter[1]) \in S \ OTPAUTH_ENCODE_SET
    BY <1>1, <1>2, <1>3, <1>6
  <2> QED
    BY <2>1, <2>2, <2>3, <2>4, <2>5 DEF IsDescription
<1>8. Tells(Numbers)
  BY TextAssumption DEF Tells
<1>9. /\ phone.typ = u.typ /\ phone.label = u.label /\ phone.issuer = u.issuer
      /\ phone.secret = normalize_base32_secret(u.secret)
      /\ phone.algorithm = StatedOr(u.algorithm, "SHA1")
      /\ StatedOr(u.digits, 6) \in Numbers => phone.digits = StatedOr(u.digits, 6)
      /\ StatedOr(u.period, 30) \in Numbers => phone.period = StatedOr(u.period, 30)
      /\ StatedOr(u.counter, 0) \in Numbers => phone.counter = StatedOr(u.counter, 0)
  <2>1. phone = Parsed(build_uri(u), Numbers)
    BY DEF u
  <2> QED
    BY <1>6, <1>7, <1>8, <2>1, ParsedOfBuilt
<1>10. /\ StatedOr(u.algorithm, "SHA1") = settings.algorithm
       /\ StatedOr(u.digits, 6) = settings.digits
       /\ typ = "totp" => StatedOr(u.period, 30) = settings.period
       /\ typ = "hotp" => StatedOr(u.counter, 0) = counter
  BY <1>1, <1>4 DEF StatedOr
<1>11. u.issuer = account.issuer
  BY <1>1, <1>4
<1> QED
  BY <1>1, <1>2, <1>3, <1>5, <1>9, <1>10, <1>11

-----------------------------------------------------------------------------
(* Codes *)

LEMMA TupleAfterOne == ASSUME NEW a, NEW b, NEW c PROVE <<a>> \o <<b, c>> = <<a, b, c>>
<1> DEFINE S == {a, b, c}
<1>1. <<a>> \in Seq(S) /\ <<b, c>> \in Seq(S) /\ <<a, b, c>> \in Seq(S)
  OBVIOUS
<1> HIDE DEF S
<1>2. Len(<<a>> \o <<b, c>>) = 3 /\ Len(<<a, b, c>>) = 3
  BY <1>1
<1>3. ASSUME NEW i \in 1 .. 3 PROVE (<<a>> \o <<b, c>>)[i] = <<a, b, c>>[i]
  <2>1. i = 1 \/ i = 2 \/ i = 3
    OBVIOUS
  <2> QED
    BY <1>1, <2>1
<1>4. <<a>> \o <<b, c>> \in Seq(S)
  BY <1>1
<1> QED
  BY <1>1, <1>2, <1>3, <1>4, SeqEqual

\* The code of the app is the generator's.
LEMMA AppCodes ==
    ASSUME AppIsServer, app # <<>>, NEW n, NEW x
    PROVE  /\ AppCode(n, x) = hotp_generate(Gen, n, x)
           /\ AppCode(n, x) = Truncated(Gen, totp_hmac(Gen, n, x))
<1>1. /\ AppKey = Gen.secret /\ Phone.algorithm = Gen.algorithm /\ Phone.digits = Gen.digits
  BY DEF AppIsServer, AppKey, Ok
<1>2. <<n>> \o (IF x = <<>> THEN <<>> ELSE <<"genotp-ctx-v1", x>>)
        = IF x = <<>> THEN <<n>> ELSE <<n, "genotp-ctx-v1", x>>
  <2>1. CASE x = <<>>
    BY <2>1
  <2>2. CASE x # <<>>
    <3>1. <<n>> \o <<"genotp-ctx-v1", x>> = <<n, "genotp-ctx-v1", x>>
      BY TupleAfterOne, Zenon
    <3> QED
      BY <2>2, <3>1
  <2> QED
    BY <2>1, <2>2
<1>3. /\ AppCode(n, x).hmac = hotp_hmac(Gen, n, x)
      /\ hotp_hmac(Gen, n, x) = totp_hmac(Gen, n, x)
  BY <1>1, <1>2 DEF AppCode, hotp_hmac, totp_hmac
<1> QED
  BY <1>1, <1>3 DEF AppCode, hotp_generate, Truncated

\* The generator of settings that nobody touched is the helpers'.
LEMMA DefaultsBuilt ==
    ASSUME SettingsInv, MadeInv, generator # <<>>, Untouched
    PROVE  /\ typ = "hotp" => hotp_new(secret, "SHA1", 6) = Ok(Gen)
           /\ typ = "totp" => totp_new(secret, "SHA1", 6, 30) = Ok(Gen)
<1>1. settings.algorithm = "SHA1" /\ settings.digits = 6
      /\ (typ = "totp" => settings.period = 30)
  BY DEF SettingsInv, Untouched
<1>2. secret # <<>> /\ 6 \in Digits
  BY DEF MadeInv, Digits
<1> QED
  BY <1>1, <1>2 DEF MadeInv, Gen, hotp_new, totp_new

\* A state in which a code can be verified or shown.
Ready == /\ TypeOK /\ SettingsInv /\ MadeInv /\ AppInv
         /\ app # <<>>

LEMMA ReadyFacts ==
    ASSUME Ready
    PROVE  /\ AppIsServer /\ generator # <<>>
           /\ typ = "totp" => Gen.period \in Periods /\ Phone.period = Gen.period
           /\ typ = "hotp" => Phone.counter = counter
           /\ counter \in Nat /\ typ \in {"hotp", "totp"}
<1>1. typ = "totp" => Gen.period \in Periods
  BY DEF Ready, AppInv, MadeInv, Gen
<1> QED
  BY <1>1 DEF Ready, AppInv, AppIsServer, TypeOK

LEMMA HotpRight ==
    ASSUME Ready, typ = "hotp", NEW n \in 0 .. 1, NEW m \in 0 .. 1, NEW c, NEW d
    PROVE  hotp_verify(Gen, AppCode(Phone.counter + n, c), counter + m, d) <=> n = m /\ c = d
<1>1. Phone.counter = counter /\ counter \in Nat /\ AppIsServer /\ app # <<>>
  BY ReadyFacts DEF Ready
<1>2. hotp_verify(Gen, AppCode(Phone.counter + n, c), counter + m, d)
        <=> counter + n = counter + m /\ c = d
  BY <1>1, AppCodes, HotpCodes DEF hotp_verify
<1> QED
  BY <1>1, <1>2

\* A moment the clock of the server or the app may show.
LEMMA TimeFacts ==
    ASSUME Ready, typ = "totp", NEW t \in Times
    PROVE  /\ t \in Int /\ t <= U64Max /\ U64Max \in Nat \ {0}
           /\ CounterAt(t) = CounterOf(Gen, t)
           /\ \A x : AppCode(CounterAt(t), x) = CodeAt(Gen, t, x)
           /\ t >= 0 => CounterAt(t) \in Nat
<1>1. t \in Int /\ t <= U64Max /\ U64Max \in Nat \ {0}
  BY EnrolmentAssumption, TotpAssumption
<1>2. Gen.period \in Periods /\ Phone.period = Gen.period /\ AppIsServer /\ app # <<>>
  BY ReadyFacts DEF Ready
<1>3. CounterAt(t) = CounterOf(Gen, t)
  BY <1>2 DEF CounterAt, CounterOf
<1>4. \A x : AppCode(CounterAt(t), x) = CodeAt(Gen, t, x)
  <2>1. CounterAt(t) = t \div Gen.period
    BY <1>3 DEF CounterOf
  <2> QED
    BY <1>2, <2>1, AppCodes DEF CodeAt
<1>5. t >= 0 => CounterAt(t) \in Nat
  <2> SUFFICES ASSUME t \in Nat PROVE CounterAt(t) \in Nat
    BY <1>1
  <2> QED
    BY <1>2, <1>3, CounterIsNat DEF CounterOf
<1> QED
  BY <1>1, <1>3, <1>4, <1>5

\* verify and verify_bound, on all sides: also before the epoch, and with a window that is
\* no i64.
LEMMA TotpRight ==
    ASSUME Ready, typ = "totp", NEW t \in Times \cap Nat, NEW u \in Times, NEW window \in Windows,
           NEW c, NEW d
    PROVE  Yes(totp_verify(Gen, AppCode(CounterAt(t), c), u, window, d))
             <=> InWindow(t, u, window) /\ c = d
<1> DEFINE code == AppCode(CounterAt(t), c)
<1>1. /\ t \in Nat /\ u \in Int /\ t <= U64Max /\ u <= U64Max /\ U64Max \in Nat \ {0}
      /\ window \in Nat
      /\ CounterAt(t) = CounterOf(Gen, t) /\ CounterAt(u) = CounterOf(Gen, u)
      /\ CounterAt(t) \in Nat /\ (u >= 0 => CounterAt(u) \in Nat)
      /\ code = CodeAt(Gen, t, c)
      /\ Gen.period \in Periods
  BY TimeFacts, ReadyFacts, EnrolmentAssumption
<1>2. CASE ~(u >= 0 /\ window <= I64Max)
  <2>1. Refused(u, window)
    BY <1>1, <1>2, TotpAssumption DEF Refused, current_time, IsOk, Ok, Err, I64Max
  <2>2. totp_verify(Gen, code, u, window, d) = Err("InvalidTime")
    BY <2>1, Zenon DEF totp_verify
  <2>3. ~Yes(totp_verify(Gen, code, u, window, d))
    BY <2>2 DEF Yes, IsOk, Err
  <2> QED
    BY <1>2, <2>3 DEF InWindow
<1>3. CASE u >= 0 /\ window <= I64Max
  <2>1. t \in 0 .. U64Max /\ u \in 0 .. U64Max /\ window \in 0 .. I64Max /\ u \in Nat
    BY <1>1, <1>3, TotpAssumption DEF I64Max
  <2>2. CASE c # d
    <3>1. totp_verify(Gen, CodeAt(Gen, t, c), u, window, d) = Ok(FALSE)
      BY <1>1, <2>1, <2>2, OtherContextRefused, Zenon
    <3>2. totp_verify(Gen, code, u, window, d) = Ok(FALSE)
      BY <1>1, <3>1
    <3> QED
      BY <2>2, <3>2 DEF Yes, Ok
  <2>3. CASE c = d
    <3> DEFINE Right == \/ Within(CounterOf(Gen, t), CounterOf(Gen, u), window)
                        \/ CounterOf(Gen, t) = 0 /\ CounterOf(Gen, u) + window > U64Max
    <3>1. totp_verify(Gen, code, u, window, d) = Ok(Right)
      <4>1. totp_verify(Gen, CodeAt(Gen, t, c), u, window, c) = Ok(Right)
        BY <1>1, <2>1, VerifyExact, Zenon
      <4> QED
        BY <1>1, <2>3, <4>1
    <3>2. InWindow(t, u, window) <=> Right
      BY <1>1, <1>3 DEF InWindow, Distance, InU64, Within
    <3> HIDE DEF Right
    <3>3. Yes(Ok(Right)) <=> Right = TRUE
      BY DEF Yes, IsOk, Ok
    <3>4. Right \in BOOLEAN
      BY DEF Right
    <3> QED
      BY <2>3, <3>1, <3>2, <3>3, <3>4
  <2> QED
    BY <2>2, <2>3
<1> QED
  BY <1>2, <1>3

\* What is reported to a detector.
LEMMA TrackingRight ==
    ASSUME Ready, typ = "totp", NEW t \in Times \cap Nat, NEW u \in Times, NEW window \in Windows,
           NEW offset \in Offsets, Corrected(u, offset) <= CounterAt(U64Max),
           NEW r, r = verify_tracking(Gen, AppCode(CounterAt(t), <<>>), u, window, offset),
           NEW i, i = CounterAt(t) - Corrected(u, offset)
    PROVE  (IsOk(r) /\ r.value = {i}) <=> (u >= 0 /\ window <= I64Max /\ i \in -window .. window)
<1> DEFINE code == AppCode(CounterAt(t), <<>>)
           a == Corrected(u, offset)
<1>1. /\ t \in Nat /\ u \in Int /\ t <= U64Max /\ u <= U64Max /\ U64Max \in Nat \ {0}
      /\ window \in Nat /\ offset \in Int
      /\ CounterAt(t) = CounterOf(Gen, t) /\ CounterAt(u) = CounterOf(Gen, u)
      /\ CounterAt(t) \in Nat /\ (u >= 0 => CounterAt(u) \in Nat)
      /\ code = CodeAt(Gen, t, <<>>)
      /\ Gen.period \in Periods
  BY TimeFacts, ReadyFacts, EnrolmentAssumption
<1>2. CASE ~(u >= 0 /\ window <= I64Max)
  <2>1. Refused(u, window)
    BY <1>1, <1>2, TotpAssumption DEF Refused, current_time, IsOk, Ok, Err, I64Max
  <2>2. r = Err("InvalidTime")
    BY <2>1, Zenon DEF verify_tracking
  <2> QED
    BY <1>2, <2>2 DEF IsOk, Err
<1>3. CASE u >= 0 /\ window <= I64Max
  <2>1. t \in 0 .. U64Max /\ u \in 0 .. U64Max /\ window \in 0 .. I64Max
    BY <1>1, <1>3, TotpAssumption DEF I64Max
  <2>2. a = adjusted_counter(CounterOf(Gen, u), offset)
    BY <1>1 DEF Corrected
  <2>3. a \in 0 .. CounterOf(Gen, U64Max)
    <3>1. a \in Nat
      BY <1>1, <1>3, <2>2 DEF adjusted_counter, InU64
    <3>2. CounterAt(U64Max) = CounterOf(Gen, U64Max)
      BY ReadyFacts DEF CounterAt, CounterOf
    <3>3. CounterOf(Gen, U64Max) \in Nat
      BY <1>1, CounterIsNat DEF CounterOf
    <3> QED
      BY <3>1, <3>2, <3>3
  <2>4. verify_tracking(Gen, code, u, window, offset) =
          Ok(IF Within(CounterOf(Gen, t), a, window) THEN {CounterOf(Gen, t) - a} ELSE {})
    <3>1. verify_tracking(Gen, CodeAt(Gen, t, <<>>), u, window, offset) =
            Ok(IF Within(CounterOf(Gen, t), a, window) THEN {CounterOf(Gen, t) - a} ELSE {})
      BY <1>1, <2>1, <2>2, <2>3, TrackingExact, Zenon
    <3> QED
      BY <1>1, <3>1
  <2>5. i = CounterOf(Gen, t) - a
    BY <1>1
  <2>6. r = Ok(IF i \in -window .. window THEN {i} ELSE {})
    BY <2>4, <2>5 DEF Within
  <2>7. IsOk(r) /\ r.value = IF i \in -window .. window THEN {i} ELSE {}
    <3>1. \A v : IsOk(Ok(v)) /\ Ok(v).value = v
      BY DEF IsOk, Ok
    <3> QED
      BY <2>6, <3>1, Zenon
  <2>8. (IF i \in -window .. window THEN {i} ELSE {}) = {i} <=> i \in -window .. window
    OBVIOUS
  <2> QED
    BY <1>3, <2>7, <2>8
<1> QED
  BY <1>2, <1>3

-----------------------------------------------------------------------------
(* The steps *)

\* An answer that is right leaves everything else as it was.
LEMMA JudgedRight ==
    ASSUME IInv, NEW by \in {"hotp", "totp", "helper", "tracking"}, NEW answer \in BOOLEAN,
           NEW right \in BOOLEAN, Judge(by, answer, right), answer <=> right
    PROVE  IInv'
<1>1. /\ UNCHANGED <<typ, account, secret, settings, given, generator, counter, uri, app>>
      /\ verdict' = [by |-> by, answer |-> answer, right |-> right]
  BY DEF Judge, server
<1>2. TypeOK'
  BY <1>1 DEF IInv, TypeOK, Gen
<1>3. SettingsInv'
  BY <1>1 DEF IInv, SettingsInv, HotpForms, TotpForms
<1>4. MadeInv'
  BY <1>1 DEF IInv, MadeInv
<1>5. UriInv'
  BY <1>1 DEF IInv, UriInv, Descriptions
<1>6. AppInv'
  BY <1>1 DEF IInv, AppInv, AppIsServer, AccountShown, Phone, Gen
<1>7. VerdictRight'
  BY <1>1 DEF VerdictRight
<1> QED
  BY <1>2, <1>3, <1>4, <1>5, <1>6, <1>7 DEF IInv

LEMMA InitInv == Init => IInv
<1> SUFFICES ASSUME Init PROVE IInv
  OBVIOUS
<1>1. TypeOK
  BY EnrolmentAssumption DEF Init, TypeOK, NoVerdict
<1>2. SettingsInv
  BY DEF Init, SettingsInv, New, HotpForms, TotpForms, HotpBuilder_new, HotpConfig_new,
         TotpBuilder_new, TotpConfig_new, Algorithms
<1>3. MadeInv /\ UriInv /\ AppInv /\ VerdictRight
  BY DEF Init, MadeInv, UriInv, AppInv, VerdictRight, NoVerdict
<1> QED
  BY <1>1, <1>2, <1>3 DEF IInv

\* What makes or imports a secret returns a secret.
LEMMA SecretsTyped == ASSUME NEW r \in Secrets, IsOk(r) PROVE r.value \in Seq(Chunks)
<1>1. ASSUME NEW bytes, r \in fill(bytes) PROVE r.value \in Seq(Chunks)
  BY <1>1, BuildersAssumption DEF fill, IsOk, Err, Ok
<1>2. ASSUME NEW bits, r \in generate_secret(bits) PROVE r.value \in Seq(Chunks)
  BY <1>1, <1>2 DEF generate_secret, IsOk, Err
<1>3. ASSUME NEW bytes, r \in fill_secret(bytes) PROVE r.value \in Seq(Chunks)
  BY <1>1, <1>3 DEF fill_secret, IsOk, Err
<1>4. ASSUME NEW text \in Texts, r = decode(text) PROVE r.value \in Seq(Chunks)
  BY <1>4, EnrolmentAssumption, DecodeTyped
<1>5. \/ r \in generate_secret(160)
      \/ \E bits \in Bits : r \in generate_secret(bits)
      \/ \E bytes \in Buffers : r \in fill_secret(bytes)
      \/ \E text \in Texts : r = decode(text)
  BY Zenon DEF Secrets, generate_default_secret
<1> QED
  BY <1>2, <1>3, <1>4, <1>5

LEMMA ObtainSecretKeeps == IInv /\ ObtainSecret => IInv'
<1> SUFFICES ASSUME IInv, ObtainSecret PROVE IInv'
  OBVIOUS
<1>1. /\ secret = <<>> /\ secret' \in Seq(Chunks)
      /\ UNCHANGED <<typ, account, settings, given, generator, counter, uri, app, verdict>>
  BY SecretsTyped DEF ObtainSecret
<1>2. generator = <<>> /\ uri = <<>> /\ app = <<>>
  BY <1>1 DEF IInv, MadeInv, UriInv, AppInv
<1>3. TypeOK'
  BY <1>1, <1>2 DEF IInv, TypeOK
<1>4. SettingsInv'
  BY <1>1 DEF IInv, SettingsInv, HotpForms, TotpForms
<1>5. MadeInv' /\ UriInv' /\ AppInv' /\ VerdictRight'
  BY <1>1, <1>2 DEF IInv, MadeInv, UriInv, AppInv, VerdictRight
<1> QED
  BY <1>3, <1>4, <1>5 DEF IInv

\* A setter changes its own field.
LEMMA SettersKeepForms ==
    ASSUME SettingsInv, typ \in {"hotp", "totp"}
    PROVE  /\ \A a \in Algorithms :
                /\ typ = "hotp" => with_algorithm(settings, a) \in HotpForms
                /\ typ = "totp" => with_algorithm(settings, a) \in TotpForms
                /\ with_algorithm(settings, a).digits = settings.digits
                /\ typ = "totp" => with_algorithm(settings, a).period = settings.period
           /\ \A d \in DigitsGiven :
                /\ typ = "hotp" => with_digits(settings, d) \in HotpForms
                /\ typ = "totp" => with_digits(settings, d) \in TotpForms
                /\ with_digits(settings, d).algorithm = settings.algorithm
                /\ typ = "totp" => with_digits(settings, d).period = settings.period
           /\ typ = "totp" => \A p \in PeriodsGiven :
                /\ with_period(settings, p) \in TotpForms
                /\ with_period(settings, p).algorithm = settings.algorithm
                /\ with_period(settings, p).digits = settings.digits
           /\ IsBuilder =>
                /\ typ = "hotp" => with_secret(settings, secret) \in HotpForms
                /\ typ = "totp" => with_secret(settings, secret) \in TotpForms
                /\ with_secret(settings, secret).algorithm = settings.algorithm
                /\ with_secret(settings, secret).digits = settings.digits
                /\ typ = "totp" => with_secret(settings, secret).period = settings.period
<1>1. /\ typ = "hotp" => settings \in HotpForms
      /\ typ = "totp" => settings \in TotpForms
  BY DEF SettingsInv
<1>2. ASSUME NEW a \in Algorithms
      PROVE  /\ typ = "hotp" => with_algorithm(settings, a) \in HotpForms
             /\ typ = "totp" => with_algorithm(settings, a) \in TotpForms
             /\ with_algorithm(settings, a).digits = settings.digits
             /\ typ = "totp" => with_algorithm(settings, a).period = settings.period
  BY <1>1 DEF with_algorithm, HotpForms, TotpForms
<1>3. ASSUME NEW d \in DigitsGiven
      PROVE  /\ typ = "hotp" => with_digits(settings, d) \in HotpForms
             /\ typ = "totp" => with_digits(settings, d) \in TotpForms
             /\ with_digits(settings, d).algorithm = settings.algorithm
             /\ typ = "totp" => with_digits(settings, d).period = settings.period
  BY <1>1 DEF with_digits, HotpForms, TotpForms
<1>4. ASSUME typ = "totp", NEW p \in PeriodsGiven
      PROVE  /\ with_period(settings, p) \in TotpForms
             /\ with_period(settings, p).algorithm = settings.algorithm
             /\ with_period(settings, p).digits = settings.digits
  BY <1>1, <1>4 DEF with_period, TotpForms
<1>5. ASSUME IsBuilder
      PROVE  /\ typ = "hotp" => with_secret(settings, secret) \in HotpForms
             /\ typ = "totp" => with_secret(settings, secret) \in TotpForms
             /\ with_secret(settings, secret).algorithm = settings.algorithm
             /\ with_secret(settings, secret).digits = settings.digits
             /\ typ = "totp" => with_secret(settings, secret).period = settings.period
  BY <1>1, <1>5 DEF with_secret, IsBuilder, HotpForms, TotpForms
<1> QED
  BY <1>2, <1>3, <1>4, <1>5

LEMMA SetKeeps == IInv /\ Set => IInv'
<1> SUFFICES ASSUME IInv, Set PROVE IInv'
  OBVIOUS
<1>1. /\ generator = <<>>
      /\ UNCHANGED <<typ, account, secret, generator, counter, uri, app, verdict>>
  BY DEF Set
<1>2. uri = <<>> /\ app = <<>>
  BY <1>1 DEF IInv, UriInv, AppInv
<1>3. SettingsInv /\ typ \in {"hotp", "totp"} /\ given \subseteq {"algorithm", "digits", "period"}
  BY DEF IInv, TypeOK
<1>4. given' \subseteq {"algorithm", "digits", "period"}
  BY <1>3 DEF Set
<1>5. TypeOK'
  BY <1>1, <1>2, <1>4 DEF IInv, TypeOK
<1>6. SettingsInv'
  <2>1. HotpForms' = HotpForms /\ TotpForms' = TotpForms
    BY <1>1 DEF HotpForms, TotpForms
  <2>2. CASE \E a \in AlgorithmsGiven :
               settings' = with_algorithm(settings, a) /\ given' = given \cup {"algorithm"}
    <3>1. PICK a \in Algorithms :
            settings' = with_algorithm(settings, a) /\ given' = given \cup {"algorithm"}
      BY <2>2, EnrolmentAssumption
    <3> QED
      BY <1>1, <1>3, <2>1, <3>1, SettersKeepForms DEF SettingsInv
  <2>3. CASE \E d \in DigitsGiven :
               settings' = with_digits(settings, d) /\ given' = given \cup {"digits"}
    <3>1. PICK d \in DigitsGiven :
            settings' = with_digits(settings, d) /\ given' = given \cup {"digits"}
      BY <2>3
    <3> QED
      BY <1>1, <1>3, <2>1, <3>1, SettersKeepForms DEF SettingsInv
  <2>4. CASE \E p \in PeriodsGiven :
               /\ typ = "totp"
               /\ settings' = with_period(settings, p)
               /\ given' = given \cup {"period"}
    <3>1. PICK p \in PeriodsGiven :
            typ = "totp" /\ settings' = with_period(settings, p) /\ given' = given \cup {"period"}
      BY <2>4
    <3> QED
      BY <1>1, <1>3, <2>1, <3>1, SettersKeepForms DEF SettingsInv
  <2>5. CASE IsBuilder /\ settings' = with_secret(settings, secret) /\ UNCHANGED given
    BY <1>1, <1>3, <2>1, <2>5, SettersKeepForms DEF SettingsInv
  <2> QED
    BY <2>2, <2>3, <2>4, <2>5 DEF Set
<1>7. MadeInv' /\ UriInv' /\ AppInv' /\ VerdictRight'
  BY <1>1, <1>2 DEF IInv, MadeInv, UriInv, AppInv, VerdictRight
<1> QED
  BY <1>5, <1>6, <1>7 DEF IInv

\* What a builder or a configuration builds has the server's secret, and can make codes.
LEMMA BuiltRight ==
    ASSUME TypeOK, SettingsInv, IsOk(Built)
    PROVE  /\ secret # <<>> /\ settings.digits \in Digits /\ settings.algorithm \in Algorithms
           /\ typ = "hotp" => Built = Ok([secret |-> secret, algorithm |-> settings.algorithm,
                                          digits |-> settings.digits])
           /\ typ = "totp" =>
                /\ settings.period \in Periods
                /\ Built = Ok([secret |-> secret, algorithm |-> settings.algorithm,
                               digits |-> settings.digits, period |-> settings.period])
<1> DEFINE algorithm == settings.algorithm
           digits    == settings.digits
           period    == settings.period
<1>1. \A e : ~IsOk(Err(e))
  BY DEF IsOk, Err
<1>2. ASSUME NEW key, IsOk(hotp_new(key, algorithm, digits))
      PROVE  /\ key # <<>> /\ digits \in Digits
             /\ hotp_new(key, algorithm, digits) =
                  Ok([secret |-> key, algorithm |-> algorithm, digits |-> digits])
  BY <1>1, <1>2 DEF hotp_new
<1>3. ASSUME NEW key, IsOk(totp_new(key, algorithm, digits, period))
      PROVE  /\ key # <<>> /\ digits \in Digits /\ period # 0
             /\ totp_new(key, algorithm, digits, period) =
                  Ok([secret |-> key, algorithm |-> algorithm, digits |-> digits,
                      period |-> period])
  BY <1>1, <1>3 DEF totp_new
<1>4. algorithm \in Algorithms
  BY DEF SettingsInv, HotpForms, TotpForms, TypeOK
<1>5. IsBuilder => settings.secret \in {<<>>, << <<>> >>, <<secret>>}
  <2>1. CASE typ = "hotp"
    BY <2>1 DEF SettingsInv, HotpForms, IsBuilder
  <2>2. CASE typ = "totp"
    BY <2>2 DEF SettingsInv, TotpForms, IsBuilder
  <2> QED
    BY <2>1, <2>2 DEF TypeOK
<1>6. typ = "totp" => period \in Nat
  BY EnrolmentAssumption DEF SettingsInv, TotpForms
<1>7. IsBuilder /\ settings.secret[1] # <<>> /\ settings.secret # <<>> => settings.secret[1] = secret
  BY <1>5
<1>8. CASE typ = "hotp"
  <2>1. CASE IsBuilder
    <3>1. Built = HotpBuilder_build(settings)
      BY <1>8, <2>1 DEF Built
    <3>2. settings.secret # <<>> /\ Built = hotp_new(settings.secret[1], algorithm, digits)
      BY <1>1, <3>1 DEF HotpBuilder_build
    <3> QED
      BY <1>2, <1>4, <1>7, <1>8, <2>1, <3>2
  <2>2. CASE ~IsBuilder
    <3>1. Built = hotp_new(secret, algorithm, digits)
      BY <1>8, <2>2 DEF Built
    <3> QED
      BY <1>2, <1>4, <1>8, <3>1
  <2> QED
    BY <2>1, <2>2
<1>9. CASE typ = "totp"
  <2>1. CASE IsBuilder
    <3>1. Built = TotpBuilder_build(settings)
      BY <1>9, <2>1 DEF Built
    <3>2. settings.secret # <<>> /\ Built = totp_new(settings.secret[1], algorithm, digits, period)
      BY <1>1, <3>1 DEF TotpBuilder_build
    <3> QED
      BY <1>3, <1>4, <1>6, <1>7, <1>9, <2>1, <3>2 DEF Periods
  <2>2. CASE ~IsBuilder
    <3>1. Built = totp_new(secret, algorithm, digits, period)
      BY <1>9, <2>2 DEF Built
    <3> QED
      BY <1>3, <1>4, <1>6, <1>9, <3>1 DEF Periods
  <2> QED
    BY <2>1, <2>2
<1> QED
  BY <1>8, <1>9 DEF TypeOK

LEMMA BuildKeeps == IInv /\ Build => IInv'
<1> SUFFICES ASSUME IInv, Build PROVE IInv'
  OBVIOUS
<1>1. /\ generator = <<>>
      /\ UNCHANGED <<typ, account, secret, counter, uri, app, verdict>>
  BY DEF Build
<1>2. uri = <<>> /\ app = <<>> /\ uri' = <<>> /\ app' = <<>>
  BY <1>1 DEF IInv, UriInv, AppInv
<1>3. UriInv' /\ AppInv' /\ VerdictRight'
  BY <1>1, <1>2 DEF IInv, UriInv, AppInv, VerdictRight
<1>4. HotpForms' = HotpForms /\ TotpForms' = TotpForms
  BY <1>1 DEF HotpForms, TotpForms
<1>5. CASE IsOk(Built)
  <2>1. generator' = <<Built.value>> /\ UNCHANGED <<settings, given>>
    BY <1>5 DEF Build
  <2>2. Len(generator') = 1 /\ Gen' = Built.value
    BY <2>1 DEF Gen
  <2>3. \A v : Ok(v).value = v
    BY DEF Ok
  <2>4. /\ secret # <<>> /\ settings.digits \in Digits /\ settings.algorithm \in Algorithms
        /\ typ = "hotp" => Built.value = [secret |-> secret, algorithm |-> settings.algorithm,
                                          digits |-> settings.digits]
        /\ typ = "totp" =>
             /\ settings.period \in Periods
             /\ Built.value = [secret |-> secret, algorithm |-> settings.algorithm,
                               digits |-> settings.digits, period |-> settings.period]
    BY <1>5, <2>3, BuiltRight DEF IInv
  <2>5. /\ Gen'.secret = secret /\ Gen'.algorithm = settings.algorithm
        /\ Gen'.digits = settings.digits
        /\ typ = "totp" => Gen'.period \in Periods
    BY <2>2, <2>4 DEF IInv, TypeOK
  <2>6. TypeOK'
    BY <1>1, <1>2, <2>1, <2>2, <2>4, <2>5 DEF IInv, TypeOK, Periods
  <2>7. SettingsInv'
    BY <1>1, <1>4, <2>1 DEF IInv, SettingsInv
  <2>8. MadeInv'
    BY <1>1, <2>1, <2>4 DEF MadeInv
  <2> QED
    BY <1>3, <2>6, <2>7, <2>8 DEF IInv
<1>6. CASE ~IsOk(Built)
  <2>1. settings' \in New(typ) /\ given' = {} /\ UNCHANGED generator
    BY <1>6 DEF Build
  <2>2. TypeOK'
    BY <1>1, <1>2, <2>1 DEF IInv, TypeOK
  <2>3. SettingsInv'
    <3>1. typ \in {"hotp", "totp"} /\ typ' = typ /\ counter' \in Counters
      BY <1>1 DEF IInv, TypeOK, SettingsInv
    <3> QED
      BY <1>4, <2>1, <3>1 DEF SettingsInv, New, HotpForms, TotpForms, HotpBuilder_new,
         HotpConfig_new, TotpBuilder_new, TotpConfig_new, Algorithms
  <2>4. MadeInv'
    BY <1>1, <2>1 DEF MadeInv
  <2> QED
    BY <1>3, <2>2, <2>3, <2>4 DEF IInv
<1> QED
  BY <1>5, <1>6

\* What the steps of the URI and of the app leave of the invariant to be shown.
LEMMA ServerKept ==
    ASSUME IInv, UNCHANGED <<server, verdict>>, Len(uri') <= 1, Len(app') <= 1,
           UriInv', AppInv'
    PROVE  IInv'
<1>1. UNCHANGED <<typ, account, secret, settings, given, generator, counter, verdict>>
  BY DEF server
<1>2. TypeOK'
  BY <1>1 DEF IInv, TypeOK, Gen
<1>3. SettingsInv'
  BY <1>1 DEF IInv, SettingsInv, HotpForms, TotpForms
<1>4. MadeInv' /\ VerdictRight'
  BY <1>1 DEF IInv, MadeInv, VerdictRight
<1> QED
  BY <1>2, <1>3, <1>4 DEF IInv

\* The setters of the URI keep what it says the server's.
LEMMA SettersKeepDescriptions ==
    ASSUME NEW u \in Descriptions
    PROVE  /\ account.issuer # <<>> /\ account.issuer = <<account.issuer[1]>> =>
                set_issuer(u, account.issuer[1]) \in Descriptions
           /\ set_algorithm(u, settings.algorithm) \in Descriptions
           /\ set_digits(u, settings.digits) \in Descriptions
           /\ typ = "totp" => set_period(u, settings.period) \in Descriptions
           /\ typ = "hotp" => set_counter(u, counter) \in Descriptions
<1>1. account.issuer # <<>> /\ account.issuer = <<account.issuer[1]>> =>
        set_issuer(u, account.issuer[1]) \in Descriptions
  BY DEF Descriptions, set_issuer
<1>2. set_algorithm(u, settings.algorithm) \in Descriptions
  BY DEF Descriptions, set_algorithm
<1>3. set_digits(u, settings.digits) \in Descriptions
  BY DEF Descriptions, set_digits
<1>4. typ = "totp" => set_period(u, settings.period) \in Descriptions
  BY DEF Descriptions, set_period
<1>5. typ = "hotp" => set_counter(u, counter) \in Descriptions
  BY DEF Descriptions, set_counter
<1> QED
  BY <1>1, <1>2, <1>3, <1>4, <1>5

LEMMA BeginUriKeeps == IInv /\ BeginUri => IInv'
<1> SUFFICES ASSUME IInv, BeginUri PROVE IInv'
  OBVIOUS
<1>1. generator # <<>> /\ app = <<>> /\ UNCHANGED <<server, app, verdict>>
  BY DEF BeginUri
<1>2. PICK text \in TextsOf(secret) : uri' = <<OtpAuthUri_new(typ, account.label, text)>>
  BY DEF BeginUri
<1>3. OtpAuthUri_new(typ, account.label, text) \in Descriptions
  BY DEF OtpAuthUri_new, Descriptions
<1>4. Descriptions' = Descriptions /\ generator' = generator
  BY <1>1 DEF Descriptions, server
<1>5. Len(uri') = 1 /\ uri'[1] = OtpAuthUri_new(typ, account.label, text) /\ uri' = <<uri'[1]>>
  BY <1>2
<1>6. UriInv'
  BY <1>1, <1>3, <1>4, <1>5 DEF UriInv
<1>7. app' = <<>> /\ AppInv'
  BY <1>1 DEF AppInv
<1> QED
  BY <1>1, <1>5, <1>6, <1>7, ServerKept

LEMMA DescribeKeeps == IInv /\ Describe => IInv'
<1> SUFFICES ASSUME IInv, Describe PROVE IInv'
  OBVIOUS
<1>1. uri # <<>> /\ UNCHANGED <<server, app, verdict>>
  BY DEF Describe
<1>2. uri[1] \in Descriptions /\ generator # <<>> /\ typ \in {"hotp", "totp"}
  BY <1>1 DEF IInv, UriInv, TypeOK
<1>3. account.issuer # <<>> => account.issuer = <<account.issuer[1]>>
  BY EnrolmentAssumption DEF IInv, TypeOK
<1>4. /\ Gen.algorithm = settings.algorithm /\ Gen.digits = settings.digits
      /\ typ = "totp" => Gen.period = settings.period
  BY <1>2 DEF IInv, MadeInv, Gen
<1>5. \E u \in Descriptions : uri' = <<u>>
  BY <1>2, <1>3, <1>4, SettersKeepDescriptions DEF Describe
<1>6. Descriptions' = Descriptions /\ generator' = generator
  BY <1>1 DEF Descriptions, server
<1>7. Len(uri') = 1 /\ UriInv'
  <2>1. PICK u \in Descriptions : uri' = <<u>>
    BY <1>5
  <2>2. Len(uri') = 1 /\ uri'[1] = u
    BY <2>1
  <2> QED
    BY <1>2, <1>6, <2>1, <2>2 DEF UriInv
<1>8. Len(app') <= 1 /\ AppInv'
  BY <1>1 DEF IInv, TypeOK, AppInv, AppIsServer, AccountShown, Phone, Gen, server
<1> QED
  BY <1>1, <1>7, <1>8, ServerKept

LEMMA ScanKeeps == IInv /\ Scan => IInv'
<1> SUFFICES ASSUME IInv, Scan PROVE IInv'
  OBVIOUS
<1> DEFINE phone == Parsed(build_uri(uri[1]), Numbers)
<1>1. /\ uri # <<>> /\ MustState \subseteq Stated(uri[1])
      /\ app' = <<phone>> /\ uri' = <<>> /\ UNCHANGED <<server, verdict>>
  BY DEF Scan
<1>2. /\ phone.typ = typ
      /\ decode(phone.secret) = Ok(Gen.secret)
      /\ phone.algorithm = Gen.algorithm
      /\ phone.digits = Gen.digits
      /\ IF typ = "totp" THEN phone.period = Gen.period ELSE phone.counter = counter
      /\ phone.label = account.label /\ phone.issuer = account.issuer
  BY <1>1, ReadBack DEF IInv
<1>3. generator # <<>>
  BY <1>1 DEF IInv, UriInv
<1> HIDE DEF phone
<1>4. Len(app') = 1 /\ app'[1] = phone /\ app' = <<app'[1]>>
  BY <1>1
<1>5. typ' = typ /\ account' = account /\ generator' = generator /\ counter' = counter
      /\ Gen' = Gen
  BY <1>1 DEF server, Gen
<1>6. AppIsServer' /\ AccountShown'
  BY <1>2, <1>4, <1>5 DEF AppIsServer, AccountShown, Phone
<1>7. AppInv'
  BY <1>3, <1>4, <1>5, <1>6 DEF AppInv
<1>8. UriInv' /\ Len(uri') = 0
  BY <1>1 DEF UriInv
<1> QED
  BY <1>1, <1>4, <1>7, <1>8, ServerKept

\* A HOTP code, verified or shown.
LEMMA VerifyHotpKeeps == IInv /\ VerifyHotp => IInv'
<1> SUFFICES ASSUME IInv, VerifyHotp PROVE IInv'
  OBVIOUS
<1>1. Ready /\ typ = "hotp"
  BY DEF VerifyHotp, Enrolled, IInv, Ready
<1>2. PICK n \in 0 .. 1, m \in 0 .. 1, c \in Contexts, d \in Contexts :
        LET code  == AppCode(Phone.counter + n, c)
            right == n = m /\ c = d
        IN  \/ Judge("hotp", hotp_verify(Gen, code, counter + m, d), right)
            \/ /\ Untouched /\ d = <<>>
               /\ Judge("helper", Yes(verify_hotp_default(secret, code, counter + m)), right)
  BY DEF VerifyHotp
<1> DEFINE code  == AppCode(Phone.counter + n, c)
           right == n = m /\ c = d
<1>3. hotp_verify(Gen, code, counter + m, d) <=> right
  BY <1>1, HotpRight
<1>4. hotp_verify(Gen, code, counter + m, d) \in BOOLEAN /\ right \in BOOLEAN
  BY DEF hotp_verify
<1>5. Untouched /\ d = <<>> =>
        (Yes(verify_hotp_default(secret, code, counter + m)) <=> right)
  <2> SUFFICES ASSUME Untouched, d = <<>>
               PROVE  Yes(verify_hotp_default(secret, code, counter + m)) <=> right
    OBVIOUS
  <2>1. hotp_new(secret, "SHA1", 6) = Ok(Gen)
    BY <1>1, ReadyFacts, DefaultsBuilt DEF Ready
  <2>2. verify_hotp_default(secret, code, counter + m)
          = Ok(hotp_verify(Gen, code, counter + m, d))
    <3> HIDE DEF code
    <3>1. IsOk(Ok(Gen)) /\ Ok(Gen).value = Gen
      BY DEF IsOk, Ok
    <3> QED
      BY <2>1, <3>1, Zenon DEF verify_hotp_default
  <2> HIDE DEF code, right
  <2>3. \A b \in BOOLEAN : Yes(Ok(b)) <=> b
    BY DEF Yes, IsOk, Ok
  <2> QED
    BY <1>3, <1>4, <2>2, <2>3
<1>6. Yes(verify_hotp_default(secret, code, counter + m)) \in BOOLEAN
  BY DEF Yes
<1>7. \/ Judge("hotp", hotp_verify(Gen, code, counter + m, d), right)
      \/ /\ Untouched /\ d = <<>>
         /\ Judge("helper", Yes(verify_hotp_default(secret, code, counter + m)), right)
  BY <1>2
<1> HIDE DEF code, right
<1> QED
  BY <1>3, <1>4, <1>5, <1>6, <1>7, JudgedRight

\* A TOTP code, verified by a function of the generator or by the helper.
LEMMA VerifyTotpKeeps == IInv /\ VerifyTotp => IInv'
<1> SUFFICES ASSUME IInv, VerifyTotp PROVE IInv'
  OBVIOUS
<1>1. Ready /\ typ = "totp"
  BY DEF VerifyTotp, Enrolled, IInv, Ready
<1>2. PICK t \in Times \cap Nat, u \in Times, window \in Windows, c \in Contexts, d \in Contexts :
        LET code  == AppCode(CounterAt(t), c)
            right == InWindow(t, u, window) /\ c = d
        IN  \/ Judge("totp", Yes(totp_verify(Gen, code, u, window, d)), right)
            \/ /\ Untouched /\ d = <<>> /\ window = 1
               /\ Judge("helper", Yes(verify_totp_default(secret, code, u)), right)
  BY DEF VerifyTotp
<1> DEFINE code  == AppCode(CounterAt(t), c)
           right == InWindow(t, u, window) /\ c = d
<1>3. Yes(totp_verify(Gen, code, u, window, d)) <=> right
  BY <1>1, TotpRight
<1>4. right \in BOOLEAN
  OBVIOUS
<1>5. \A r : Yes(r) \in BOOLEAN
  BY DEF Yes
<1>6. \/ Judge("totp", Yes(totp_verify(Gen, code, u, window, d)), right)
      \/ /\ Untouched /\ d = <<>> /\ window = 1
         /\ Judge("helper", Yes(verify_totp_default(secret, code, u)), right)
  BY <1>2
<1> HIDE DEF code, right
<1>7. Untouched /\ d = <<>> /\ window = 1 =>
        verify_totp_default(secret, code, u) = totp_verify(Gen, code, u, window, d)
  <2> SUFFICES ASSUME Untouched, d = <<>>, window = 1
               PROVE  verify_totp_default(secret, code, u) = totp_verify(Gen, code, u, 1, <<>>)
    OBVIOUS
  <2>1. totp_new(secret, "SHA1", 6, 30) = Ok(Gen)
    BY <1>1, ReadyFacts, DefaultsBuilt DEF Ready
  <2>2. IsOk(Ok(Gen)) /\ Ok(Gen).value = Gen
    BY DEF IsOk, Ok
  <2> QED
    BY <2>1, <2>2, Zenon DEF verify_totp_default
<1> QED
  BY <1>3, <1>4, <1>5, <1>6, <1>7, JudgedRight

LEMMA TrackKeeps == IInv /\ Track => IInv'
<1> SUFFICES ASSUME IInv, Track PROVE IInv'
  OBVIOUS
<1>1. Ready /\ typ = "totp"
  BY DEF Track, Enrolled, IInv, Ready
<1>2. PICK t \in Times \cap Nat, u \in Times, window \in Windows, offset \in Offsets :
        LET r    == verify_tracking(Gen, AppCode(CounterAt(t), <<>>), u, window, offset)
            i    == CounterAt(t) - Corrected(u, offset)
            near == u >= 0 /\ window <= I64Max /\ i \in -window .. window
        IN  /\ Corrected(u, offset) <= CounterAt(U64Max)
            /\ Judge("tracking", IsOk(r) /\ r.value = {i}, near)
  BY DEF Track
<1> DEFINE r    == verify_tracking(Gen, AppCode(CounterAt(t), <<>>), u, window, offset)
           i    == CounterAt(t) - Corrected(u, offset)
           near == u >= 0 /\ window <= I64Max /\ i \in -window .. window
           told == IsOk(r) /\ r.value = {i}
<1>3. Corrected(u, offset) <= CounterAt(U64Max)
  BY <1>2
<1>4. told <=> near
  BY <1>1, <1>3, TrackingRight
<1>5. told \in BOOLEAN /\ near \in BOOLEAN
  OBVIOUS
<1>6. Judge("tracking", told, near)
  BY <1>2
<1> HIDE DEF told, near
<1> QED
  BY <1>4, <1>5, <1>6, JudgedRight

\* Codes that are generated are the app's.
LEMMA GenerateKeeps == IInv /\ Generate => IInv'
<1> SUFFICES ASSUME IInv, Generate PROVE IInv'
  OBVIOUS
<1>1. Ready /\ typ \in {"hotp", "totp"}
  BY DEF Generate, Enrolled, IInv, Ready, TypeOK
<1>2. IsOk(Ok(Gen)) /\ Ok(Gen).value = Gen
  BY DEF IsOk, Ok
<1>3. ASSUME NEW by \in {"hotp", "totp", "helper"}, NEW right, right = TRUE,
             Judge(by, TRUE, right)
      PROVE  IInv'
  BY <1>3, JudgedRight
<1>4. CASE typ = "hotp"
  <2>1. PICK c \in Contexts :
          LET code == AppCode(Phone.counter, c)
          IN  \/ Judge("hotp", TRUE, hotp_generate(Gen, counter, c) = code)
              \/ /\ Untouched /\ c = <<>>
                 /\ Judge("helper", TRUE, generate_hotp_default(secret, counter) = Ok(code))
    BY <1>4 DEF Generate, Enrolled
  <2> DEFINE code == AppCode(Phone.counter, c)
  <2>2. hotp_generate(Gen, counter, c) = code
    BY <1>1, <1>4, ReadyFacts, AppCodes DEF Ready
  <2>3. \/ Judge("hotp", TRUE, hotp_generate(Gen, counter, c) = code)
        \/ /\ Untouched /\ c = <<>>
           /\ Judge("helper", TRUE, generate_hotp_default(secret, counter) = Ok(code))
    BY <2>1
  <2> HIDE DEF code
  <2>4. Untouched /\ c = <<>> => generate_hotp_default(secret, counter) = Ok(code)
    <3> SUFFICES ASSUME Untouched, c = <<>>
                 PROVE  generate_hotp_default(secret, counter) = Ok(code)
      OBVIOUS
    <3>1. hotp_new(secret, "SHA1", 6) = Ok(Gen)
      BY <1>1, <1>4, ReadyFacts, DefaultsBuilt DEF Ready
    <3>2. generate_hotp_default(secret, counter) = Ok(hotp_generate(Gen, counter, <<>>))
      BY <1>2, <3>1, Zenon DEF generate_hotp_default
    <3> QED
      BY <2>2, <3>2
  <2> QED
    BY <1>3, <2>2, <2>3, <2>4
<1>5. CASE typ = "totp"
  <2>1. PICK t \in Times, c \in Contexts :
          LET Right(r) == IF t < 0 THEN ~IsOk(r) ELSE r = Ok(AppCode(CounterAt(t), c))
          IN  \/ Judge("totp", TRUE, Right(totp_generate(Gen, t, c)))
              \/ /\ Untouched /\ c = <<>>
                 /\ Judge("helper", TRUE, Right(generate_totp_default(secret, t)))
    BY <1>5 DEF Generate, Enrolled
  <2> DEFINE Right(r) == IF t < 0 THEN ~IsOk(r) ELSE r = Ok(AppCode(CounterAt(t), c))
  <2>2. Right(totp_generate(Gen, t, c)) = TRUE
    <3>1. t \in Int /\ AppCode(CounterAt(t), c) = CodeAt(Gen, t, c)
      BY <1>1, <1>5, TimeFacts
    <3>2. CASE t < 0
      BY <3>1, <3>2 DEF totp_generate, current_time, IsOk, Ok, Err
    <3>3. CASE ~(t < 0)
      <4>1. totp_generate(Gen, t, c) = Ok(CodeAt(Gen, t, c))
        BY <3>3 DEF totp_generate, current_time, IsOk, Ok
      <4> QED
        BY <3>1, <3>3, <4>1
    <3> QED
      BY <3>2, <3>3
  <2>3. \/ Judge("totp", TRUE, Right(totp_generate(Gen, t, c)))
        \/ /\ Untouched /\ c = <<>>
           /\ Judge("helper", TRUE, Right(generate_totp_default(secret, t)))
    BY <2>1
  <2> HIDE DEF Right
  <2>4. Untouched /\ c = <<>> => generate_totp_default(secret, t) = totp_generate(Gen, t, c)
    <3> SUFFICES ASSUME Untouched, c = <<>>
                 PROVE  generate_totp_default(secret, t) = totp_generate(Gen, t, <<>>)
      OBVIOUS
    <3>1. totp_new(secret, "SHA1", 6, 30) = Ok(Gen)
      BY <1>1, <1>5, ReadyFacts, DefaultsBuilt DEF Ready
    <3> QED
      BY <1>2, <3>1, Zenon DEF generate_totp_default
  <2> QED
    BY <1>3, <2>2, <2>3, <2>4
<1> QED
  BY <1>1, <1>4, <1>5

-----------------------------------------------------------------------------
(* What is always so *)

LEMMA StepInv == IInv /\ [Next]_vars => IInv'
<1> SUFFICES ASSUME IInv, [Next]_vars PROVE IInv'
  OBVIOUS
<1>1. CASE UNCHANGED vars
  <2>1. /\ UNCHANGED <<server, verdict>> /\ uri' = uri /\ app' = app
        /\ UNCHANGED <<typ, account, secret, settings, given, generator, counter>>
    BY <1>1 DEF vars, server
  <2>2. UriInv' /\ AppInv' /\ Len(uri') <= 1 /\ Len(app') <= 1
    BY <2>1 DEF IInv, TypeOK, UriInv, Descriptions, AppInv, AppIsServer, AccountShown, Phone, Gen
  <2> QED
    BY <2>1, <2>2, ServerKept
<1> QED
  BY <1>1, ObtainSecretKeeps, SetKeeps, BuildKeeps, BeginUriKeeps, DescribeKeeps, ScanKeeps,
     VerifyHotpKeeps, VerifyTotpKeeps, GenerateKeeps, TrackKeeps DEF Next

LEMMA Invariance == Spec => []IInv
  BY InitInv, StepInv, PTL DEF Spec

\* Every variable has its type, and a generator can compute codes.
THEOREM TypeOKHolds == Spec => []TypeOK
<1>1. IInv => TypeOK
  BY DEF IInv
<1> QED
  BY <1>1, Invariance, PTL

\* What the app has read is what the server computes with, whatever the server set or left
\* out, however it had its secret written, and whatever the account is called.
THEOREM AppIsServerHolds == Spec => []AppIsServer
<1>1. IInv => AppIsServer
  BY DEF IInv, AppInv, AppIsServer
<1> QED
  BY <1>1, Invariance, PTL

\* The app shows the label and the issuer of the account, whatever characters they have.
THEOREM AccountShownHolds == Spec => []AccountShown
<1>1. IInv => AccountShown
  BY DEF IInv, AppInv, AccountShown
<1> QED
  BY <1>1, Invariance, PTL

\* hotp: verify, verify_bound and what is generated are right at exactly the code's counter
\* and in exactly its context.
THEOREM HotpExactHolds == Spec => []HotpExact
<1>1. IInv => HotpExact
  BY DEF IInv, VerdictRight, HotpExact, RightBy
<1> QED
  BY <1>1, Invariance, PTL

\* totp: verify and verify_bound accept exactly the codes of the window, for every width of
\* integers, every period, and times before the epoch and at the end of u64.
THEOREM WindowExactHolds == Spec => []WindowExact
<1>1. IInv => WindowExact
  BY DEF IInv, VerdictRight, WindowExact, RightBy
<1> QED
  BY <1>1, Invariance, PTL

\* The helpers do what a generator of untouched settings does.
THEOREM HelpersAgreeHolds == Spec => []HelpersAgree
<1>1. IInv => HelpersAgree
  BY DEF IInv, VerdictRight, HelpersAgree, RightBy
<1> QED
  BY <1>1, Invariance, PTL

\* verify_tracking reports the distance from the corrected counter, whenever that is in the
\* window, and nothing else.
THEOREM SampleIsDistanceHolds == Spec => []SampleIsDistance
<1>1. IInv => SampleIsDistance
  BY DEF IInv, VerdictRight, SampleIsDistance, RightBy
<1> QED
  BY <1>1, Invariance, PTL
=============================================================================
