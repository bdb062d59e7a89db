----------------------------- MODULE Enrolment -----------------------------
(***************************************************************************)
(* A server enrols a user's authenticator app, and they then meet over     *)
(* codes.  The server makes or imports a secret, sets some parameters on a *)
(* builder or a configuration, builds its generator, and puts what it set, *)
(* and maybe more, on an otpauth URI; what it leaves out it trusts to be a *)
(* default.  The app reads the URI.  From then on the app shows codes and  *)
(* the server verifies them by each of the functions genotp has for it,    *)
(* with two clocks that need not agree.                                    *)
(*                                                                         *)
(* The program of the server, the app and the clocks are external.         *)
(***************************************************************************)
EXTENDS Builders, Provisioning

CONSTANTS
    Accounts,       \* the accounts: a label and an optional issuer
    Bits,           \* arguments of generate_secret
    Buffers,        \* lengths of the buffers given to fill_secret
    Texts,          \* texts given to decode
    DigitsGiven, PeriodsGiven, AlgorithmsGiven,    \* arguments of the setters
    Times,          \* readings of the clocks
    Windows,        \* arguments for window
    Offsets,        \* corrections a skew detector may hold
    Contexts,       \* contexts, the empty one included
    Counters        \* counters a HOTP token may be enrolled at

\* Every number a URI may give, and the defaults of those it leaves out.
Numbers == Digits \cup PeriodsGiven \cup Counters \cup {0, 30}

IsText(t) == t \in Seq({ t[i] : i \in DOMAIN t })

ASSUME EnrolmentAssumption ==
    /\ \A a \in Accounts :
          /\ IsText(a.label)
          /\ a.issuer # <<>> => a.issuer = <<a.issuer[1]>> /\ IsText(a.issuer[1])
    /\ \A t \in Texts : IsText(t)
    /\ AlgorithmsGiven \subseteq Algorithms
    /\ PeriodsGiven \cup Counters \cup Windows \subseteq Nat
    /\ Times \subseteq {n \in Int : n <= U64Max}
    /\ Offsets \subseteq Int

\* Base32 and decimal numbers are letters and digits, and numbers are written apart.
ASSUME TextAssumption ==
    /\ \A c \in Chunks : Base32Of[c] \notin {"=", " ", "\t", "\n"}
    /\ \A n \in Numbers : ToString(n) \notin OTPAUTH_ENCODE_SET
    /\ \A m, n \in Numbers : ToString(m) = ToString(n) => m = n

VARIABLES
    typ,         \* "hotp" or "totp"
    account,     \* whom the server enrols
    secret,      \* the server's copy of the secret, or <<>>
    settings,    \* its builder or configuration
    given,       \* the parameters it has set
    generator,   \* its generator: none or one
    counter,     \* its counter of this user, for HOTP
    uri,         \* the URI it is writing: none or one
    app,         \* what the app keeps: none or one
    verdict      \* which function answered last, its answer, and the right one

server == <<typ, account, secret, settings, given, generator, counter>>
vars   == <<server, uri, app, verdict>>

IsBuilder == "secret" \in DOMAIN settings

\* A program begins with a builder, or with a configuration.
New(t) == IF t = "hotp" THEN {HotpBuilder_new, HotpConfig_new}
                        ELSE {TotpBuilder_new, TotpConfig_new}

NoVerdict == [by |-> "none", answer |-> FALSE, right |-> FALSE]

Init ==
    /\ typ \in {"hotp", "totp"}
    /\ account \in Accounts
    /\ counter \in Counters
    /\ settings \in New(typ)
    /\ secret = <<>>
    /\ given = {}
    /\ generator = <<>>
    /\ uri = <<>>
    /\ app = <<>>
    /\ verdict = NoVerdict

-----------------------------------------------------------------------------
(* The secret and the generator *)

\* What the functions that make or import a secret may return.
Secrets ==
    generate_default_secret
    \cup (UNION { generate_secret(bits) : bits \in Bits })
    \cup (UNION { fill_secret(bytes) : bytes \in Buffers })
    \cup { decode(text) : text \in Texts }

ObtainSecret ==
    /\ secret = <<>>
    /\ \E r \in Secrets : IsOk(r) /\ secret' = r.value
    /\ UNCHANGED <<typ, account, settings, given, generator, counter, uri, app, verdict>>

\* A setter of the builder or of the configuration.
Set ==
    /\ generator = <<>>
    /\ \/ \E a \in AlgorithmsGiven :
            settings' = with_algorithm(settings, a) /\ given' = given \cup {"algorithm"}
       \/ \E d \in DigitsGiven :
            settings' = with_digits(settings, d) /\ given' = given \cup {"digits"}
       \/ \E p \in PeriodsGiven :
            /\ typ = "totp"
            /\ settings' = with_period(settings, p)
            /\ given' = given \cup {"period"}
       \/ /\ IsBuilder
          /\ settings' = with_secret(settings, secret)
          /\ UNCHANGED given
    /\ UNCHANGED <<typ, account, secret, generator, counter, uri, app, verdict>>

Built ==
    IF IsBuilder
      THEN IF typ = "hotp" THEN HotpBuilder_build(settings) ELSE TotpBuilder_build(settings)
    ELSE IF typ = "hotp" THEN hotp_new(secret, settings.algorithm, settings.digits)
    ELSE totp_new(secret, settings.algorithm, settings.digits, settings.period)

\* Building consumes a builder: when it fails, the server begins again.
Build ==
    /\ generator = <<>>
    /\ IF IsOk(Built)
         THEN generator' = <<Built.value>> /\ UNCHANGED <<settings, given>>
         ELSE settings' \in New(typ) /\ given' = {} /\ UNCHANGED generator
    /\ UNCHANGED <<typ, account, secret, counter, uri, app, verdict>>

-----------------------------------------------------------------------------
(* The URI *)

Gen == generator[1]

\* The text of a secret as the server may have it: as encode returns it, or spaced and
\* padded as other encoders do it.
TextsOf(s) == { encode(s), <<" ", encode(s)[1], " ">> \o Tail(encode(s)) \o <<"=", "=">> }

BeginUri ==
    /\ generator # <<>> /\ uri = <<>> /\ app = <<>>
    /\ \E text \in TextsOf(secret) : uri' = <<OtpAuthUri_new(typ, account.label, text)>>
    /\ UNCHANGED <<server, app, verdict>>

\* One more setter of the URI.
Describe ==
    /\ uri # <<>>
    /\ \/ account.issuer # <<>> /\ uri' = <<set_issuer(uri[1], account.issuer[1])>>
       \/ uri' = <<set_algorithm(uri[1], Gen.algorithm)>>
       \/ uri' = <<set_digits(uri[1], Gen.digits)>>
       \/ typ = "totp" /\ uri' = <<set_period(uri[1], Gen.period)>>
       \/ typ = "hotp" /\ uri' = <<set_counter(uri[1], counter)>>
    /\ UNCHANGED <<server, app, verdict>>

\* The parameters a URI states.
Stated(u) == { f \in {"issuer", "algorithm", "digits", "period", "counter"} : u[f] # <<>> }

\* The URI must state whatever the server set, and the Key URI format wants the issuer
\* of an account that has one and the counter of a HOTP token.
MustState ==
    given \cup (IF account.issuer # <<>> THEN {"issuer"} ELSE {})
          \cup (IF typ = "hotp" THEN {"counter"} ELSE {})

\* The app scans the URI when it says enough.
Scan ==
    /\ uri # <<>>
    /\ MustState \subseteq Stated(uri[1])
    /\ app' = <<Parsed(build_uri(uri[1]), Numbers)>>
    /\ uri' = <<>>
    /\ UNCHANGED <<server, verdict>>

-----------------------------------------------------------------------------
(* Codes.  The app computes them as RFC 4226 and RFC 6238 say, from what it   *)
(* has read; the context of a code is empty unless the server has made it.    *)

Judge(by, answer, right) ==
    /\ verdict' = [by |-> by, answer |-> answer, right |-> right]
    /\ UNCHANGED <<server, uri, app>>

Yes(r) == IsOk(r) /\ r.value = TRUE

Phone == app[1]
AppKey == decode(Phone.secret).value
AppCode(n, context) ==
    [hmac   |-> [key     |-> <<AppKey, Phone.algorithm>>,
                 message |-> IF context = <<>> THEN <<n>> ELSE <<n, "genotp-ctx-v1", context>>],
     digits |-> Phone.digits]

Enrolled(t) == app # <<>> /\ typ = t

\* Helpers know the default parameters only.
Untouched == given = {}

\* A HOTP code, n presses after enrolment, is verified m counters after it.
VerifyHotp ==
    /\ Enrolled("hotp")
    /\ \E n, m \in 0 .. 1, c, d \in Contexts :
          LET code  == AppCode(Phone.counter + n, c)
              right == n = m /\ c = d
          IN  \/ Judge("hotp", hotp_verify(Gen, code, counter + m, d), right)
              \/ /\ Untouched /\ d = <<>>
                 /\ Judge("helper", Yes(verify_hotp_default(secret, code, counter + m)), right)

\* The counter of a moment, and how far two moments are apart in counters.
CounterAt(time) == time \div Phone.period
Distance(t, u)  == IF CounterAt(t) < CounterAt(u) THEN CounterAt(u) - CounterAt(t)
                                                  ELSE CounterAt(t) - CounterAt(u)

\* Whether a code of time t is one of the window around time u, as verify has it: where
\* the window reaches beyond u64, the code of counter 0 is in it too.
InWindow(t, u, window) ==
    /\ u >= 0 /\ window <= I64Max
    /\ \/ Distance(t, u) <= window
       \/ CounterAt(t) = 0 /\ ~InU64(CounterAt(u) + window)

\* A TOTP code of time t is verified at time u.
VerifyTotp ==
    /\ Enrolled("totp")
    /\ \E t \in Times \cap Nat, u \in Times, window \in Windows, c, d \in Contexts :
          LET code  == AppCode(CounterAt(t), c)
              right == InWindow(t, u, window) /\ c = d
          IN  \/ Judge("totp", Yes(totp_verify(Gen, code, u, window, d)), right)
              \/ /\ Untouched /\ d = <<>> /\ window = 1
                 /\ Judge("helper", Yes(verify_totp_default(secret, code, u)), right)

\* The server shows a code itself, which should be the app's; before the epoch it has none.
Generate ==
    \/ /\ Enrolled("hotp")
       /\ \E c \in Contexts :
             LET code == AppCode(Phone.counter, c)
             IN  \/ Judge("hotp", TRUE, hotp_generate(Gen, counter, c) = code)
                 \/ /\ Untouched /\ c = <<>>
                    /\ Judge("helper", TRUE, generate_hotp_default(secret, counter) = Ok(code))
    \/ /\ Enrolled("totp")
       /\ \E t \in Times, c \in Contexts :
             LET Right(r) == IF t < 0 THEN ~IsOk(r) ELSE r = Ok(AppCode(CounterAt(t), c))
             IN  \/ Judge("totp", TRUE, Right(totp_generate(Gen, t, c)))
                 \/ /\ Untouched /\ c = <<>>
                    /\ Judge("helper", TRUE, Right(generate_totp_default(secret, t)))

\* The corrected counter of a verification that feeds a detector.
Corrected(u, offset) == adjusted_counter(CounterAt(u), offset)

\* A code of time t is verified at time u under a correction, and its position recorded.
\* Corrections beyond the last counter that a time can have are left out.
Track ==
    /\ Enrolled("totp")
    /\ \E t \in Times \cap Nat, u \in Times, window \in Windows, offset \in Offsets :
          LET r    == verify_tracking(Gen, AppCode(CounterAt(t), <<>>), u, window, offset)
              i    == CounterAt(t) - Corrected(u, offset)
              near == u >= 0 /\ window <= I64Max /\ i \in -window .. window
          IN  /\ Corrected(u, offset) <= CounterAt(U64Max)
              /\ Judge("tracking", IsOk(r) /\ r.value = {i}, near)

Next ==
    \/ ObtainSecret \/ Set \/ Build
    \/ BeginUri \/ Describe \/ Scan
    \/ VerifyHotp \/ VerifyTotp \/ Generate \/ Track

Spec == Init /\ [][Next]_vars
-----------------------------------------------------------------------------
(* Properties *)

\* Every variable has its type; a generator has a secret, a number of digits and a period
\* with which codes can be computed.
TypeOK ==
    /\ typ \in {"hotp", "totp"}
    /\ account \in Accounts
    /\ secret \in Seq(Chunks)
    /\ given \subseteq {"algorithm", "digits", "period"}
    /\ Len(generator) <= 1 /\ Len(uri) <= 1 /\ Len(app) <= 1
    /\ generator # <<>> =>
          /\ Gen.secret \in Seq(Chunks) \ {<<>>}
          /\ Gen.algorithm \in Algorithms
          /\ Gen.digits \in Digits
          /\ typ = "totp" => Gen.period \in Nat \ {0}
    /\ counter \in Nat
    /\ verdict.by \in {"none", "hotp", "totp", "helper", "tracking"}
    /\ verdict.answer \in BOOLEAN /\ verdict.right \in BOOLEAN

\* What the app has read is what the server computes with: the same secret, however the
\* server had it written, and the same parameters, whichever the server set, in whatever
\* order, and whichever it left out of the URI because it had not set them.
AppIsServer ==
    app # <<>> =>
      /\ Phone.typ = typ
      /\ decode(Phone.secret) = Ok(Gen.secret)
      /\ Phone.algorithm = Gen.algorithm
      /\ Phone.digits = Gen.digits
      /\ IF typ = "totp" THEN Phone.period = Gen.period ELSE Phone.counter = counter

\* The app shows the account as the server names it, whatever characters are in its label
\* and issuer.
AccountShown ==
    app # <<>> => Phone.label = account.label /\ Phone.issuer = account.issuer

\* The right answers are given by the function named.
RightBy(by) == verdict.by = by => verdict.answer = verdict.right

\* A code is right at exactly its counter, and in exactly its context.
HotpExact == RightBy("hotp")

\* verify and verify_bound accept exactly the codes of the window, from the epoch to the
\* end of u64, in exactly their context; a window that is no i64 is refused.
WindowExact == RightBy("totp")

\* What helpers generate and verify is what a builder or configuration nobody touched
\* does, and what an app does that was told no parameters.
HelpersAgree == RightBy("helper")

\* What verify_tracking reports to the detector is how far the code is from the corrected
\* counter, at most the window, whichever end of u64 is near; and it reports whenever
\* that is so.
SampleIsDistance == RightBy("tracking")
=============================================================================
