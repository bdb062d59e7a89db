-------------------------------- MODULE CApi --------------------------------
(***************************************************************************)
(* The C API and a program that uses it as its header asks: a variable is  *)
(* empty before a function stores a handle or a buffer in it, what it      *)
(* holds is freed once and the variable emptied, and no handle is used by  *)
(* two calls of which one changes or frees it.  Calls are then atomic.     *)
(*                                                                         *)
(* A handle is an address on the heap, what it points to is an object.     *)
(* The API refuses a call by returning an error code and changing nothing. *)
(* An object's state is modelled where the API adds to it (the context     *)
(* builder).  What a verifier or a skew detector keeps, behind its mutex,   *)
(* is in modules Verifier and ClockSkewDetector; here it has an owner.     *)
(***************************************************************************)
EXTENDS OtpContext, FiniteSets

CONSTANTS
    Addresses,     \* heap addresses; their number bounds the live objects
    Variables,     \* the program's variables for handles and buffers
    KindOf,        \* KindOf[v]: the kind of object that v is declared for
    Arguments,     \* Arguments[f]: the strings given for field f, as text and meaning
    CustomKeys,    \* the keys given for custom fields, as text and meaning
    CustomValues,  \* the values given for custom fields, as text and meaning
    RawContexts,   \* bytes given to genotp_context_from_bytes
    MaxFields,     \* the number of fields the program gives one builder
    NULL

Kinds == {"hotp", "totp", "context", "builder", "uri", "verifier", "skew", "string",
          "bytes"}
ErrorCodes == {"InvalidSecret", "InvalidDigits", "InvalidTime", "NullPointer", "InvalidUtf8",
               "AllocationFailed"}

ASSUME CApiAssumption ==
    /\ NULL \notin Addresses \cup Variables
    /\ KindOf \in [Variables -> Kinds]
    /\ MaxFields \in Nat

\* A string of C, as text and meaning: the meaning is what the text is, no more and no less.
Meant(strings) ==
    /\ \A s \in strings : IsText(s.text) /\ "0" \notin Range(s.text)
    /\ \A s, r \in strings : s.text = r.text <=> s.means = r.means

\* A spelling of an origin: b blanks; a scheme; "://" at position c; a host, and maybe a
\* port, up to position h; then blanks, or a path, a query or a fragment.
IsOrigin(text, b, c, h) ==
    /\ b < c /\ c + 2 < h
    /\ \A i \in 1 .. b : text[i] = " "
    /\ \A i \in b + 1 .. c - 1 : text[i] \notin Marks
    /\ text[c] = ":" /\ text[c + 1] = "/" /\ text[c + 2] = "/"
    /\ \A i \in c + 3 .. h : text[i] \notin Marks \ {":"}
    /\ \/ \A i \in h + 1 .. Len(text) : text[i] = " "
       \/ text[h + 1] \in {"/", "?", "#"}

\* What it means: scheme, host and port, whatever their case.
ASSUME OriginAssumption ==
    "origin" \in DOMAIN Arguments =>
        \A a \in Arguments["origin"] :
            /\ IsText(a.text) /\ Range(a.text) \subseteq DOMAIN Lowercase \ {"0"}
            /\ \E b, c, h \in 0 .. Len(a.text) :
                  /\ IsOrigin(a.text, b, c, h)
                  /\ a.means = [i \in 1 .. h - b |-> Lowercase[a.text[b + i]]]

\* Raw contexts are not in the format of build, which is empty or ends in a zero byte.
ASSUME FieldsAssumption ==
    /\ DOMAIN Arguments \subseteq {"ip", "device", "session", "origin"}
    /\ \A f \in DOMAIN Arguments : f # "origin" => Meant(Arguments[f])
    /\ Meant(CustomKeys) /\ Meant(CustomValues)
    /\ \A f \in DOMAIN Arguments : <<f>> \in Range(SortedKeys)
    /\ \A k \in CustomKeys : custom_key(k.text) \in Range(SortedKeys)
    /\ \A bytes \in RawContexts :
          IsText(bytes) /\ bytes # <<>> /\ bytes[Len(bytes)] # "0"

VARIABLES
    heap,          \* the object at each address
    var,           \* the address in each variable of the program, or NULL
    verdict        \* the last out_valid, and whether the code was meant for this

vars == <<heap, var, verdict>>

Free == [kind |-> "free"]

\* Option<OtpContextBuilder>
None    == <<>>
Some(x) == <<x>>

\* What a code is for: a generator, and what a context means.
Purpose(kind, means) == [kind |-> kind, means |-> means]

OfKind(kind) == { v \in Variables : KindOf[v] = kind }
At(v) == heap[var[v]]

Init ==
    /\ heap = [a \in Addresses |-> Free]
    /\ var = [v \in Variables |-> NULL]
    /\ verdict = [valid |-> FALSE, meant |-> FALSE]

-----------------------------------------------------------------------------
(* What the calls are made of *)

\* The program learns that the call failed, and why; nothing else happens.
Refuse(error) == error \in ErrorCodes /\ UNCHANGED vars

\* Box::into_raw: the object moves to the heap, its address to the out parameter.
Box(out, object) == \E a \in Addresses :
    /\ heap[a] = Free
    /\ var[out] = NULL
    /\ heap' = [heap EXCEPT ![a] = object]
    /\ var' = [var EXCEPT ![out] = a]
    /\ UNCHANGED verdict

\* The object v points to is changed in place.
Update(v, object) ==
    /\ heap' = [heap EXCEPT ![var[v]] = object]
    /\ UNCHANGED <<var, verdict>>

\* A call that changes nothing the API keeps, here.
Succeed == UNCHANGED vars

\* An empty result is NULL and length 0; otherwise a buffer is allocated, if it can be.
copy_to_out(out, object, empty) ==
    \/ ~empty /\ Box(out, object)
    \/ ~empty /\ Refuse("AllocationFailed")
    \/ empty /\ var[out] = NULL /\ Succeed

\* safe_dealloc and Box::from_raw: nothing is done for NULL.
free(v) ==
    /\ heap' = [a \in Addresses |-> IF a = var[v] THEN Free ELSE heap[a]]
    /\ var' = [var EXCEPT ![v] = NULL]
    /\ UNCHANGED verdict

\* A string argument that is not a string.
BadString == \E error \in {"NullPointer", "InvalidUtf8"} : Refuse(error)

\* NULL for a handle or an out parameter.
NullPointer == Refuse("NullPointer")

\* The system clock is asked and is before the epoch, or the window exceeds an i64.
BadTime == Refuse("InvalidTime")

Holds(v) == var[v] # NULL

\* A text without a code in it.
Text == [kind |-> "string", of |-> Purpose("text", NoFields), bytes |-> <<>>]

EmptyContext == [kind |-> "context", bytes |-> <<>>, means |-> NoFields]

\* HOTP and TOTP, generate and generate_bound, of one secret at one moment: codes
\* differ when the context's bytes do.
Generate(g, context, out) ==
    copy_to_out(out,
        [kind |-> "string", of |-> Purpose(KindOf[g], context.means), bytes |-> context.bytes],
        FALSE)

\* verify and verify_bound, at the moment the code was generated.
Verify(g, string, context) ==
    /\ verdict' = [valid |-> string.of.kind = KindOf[g] /\ string.bytes = context.bytes,
                   meant |-> string.of = Purpose(KindOf[g], context.means)]
    /\ UNCHANGED <<heap, var>>

-----------------------------------------------------------------------------
(* Handles *)

genotp_hotp_new(out) ==
    \/ \E error \in {"NullPointer", "InvalidDigits", "InvalidSecret"} : Refuse(error)
    \/ Box(out, [kind |-> "hotp"])

\* Mutant: the wrong object is boxed; the cast to the handle's type hides it.
totp_new_boxing_hotp(out) ==
    \/ \E error \in {"NullPointer", "InvalidDigits", "InvalidTime", "InvalidSecret"} : Refuse(error)
    \/ Box(out, [kind |-> "hotp"])

genotp_totp_new(out) ==
    \/ \E error \in {"NullPointer", "InvalidDigits", "InvalidTime", "InvalidSecret"} : Refuse(error)
    \/ Box(out, [kind |-> "totp"])

genotp_context_from_bytes(bytes, out) ==
    \/ NullPointer
    \/ Box(out, [EmptyContext EXCEPT !.bytes = bytes,
                                     !.means = insert(NoFields, <<"raw">>, bytes)])

genotp_context_empty(out) == NullPointer \/ Box(out, EmptyContext)

\* The program may free what it holds, and free NULL.  A consumed builder is freed too.
handle_free(v) == KindOf[v] \notin {"string", "bytes"} /\ free(v)

buffer_free(v) == KindOf[v] \in {"string", "bytes"} /\ free(v)

-----------------------------------------------------------------------------
(* The context builder *)

\* The object of a builder: the Rust builder, and as history what its successful
\* setters meant and how many contexts it has delivered.
Builder(inner, means, delivered) ==
    [kind |-> "builder", inner |-> inner, means |-> means, delivered |-> delivered]

genotp_context_builder_new(out) ==
    NullPointer \/ Box(out, Builder(Some(NoFields), NoFields, 0))

\* The builder is taken out, given the field and put back; a consumed one is left alone.
apply(b, key, value, name, meaning) ==
    \/ At(b).inner = None /\ Refuse("InvalidSecret")
    \/ /\ At(b).inner # None
       /\ Update(b, Builder(Some(insert(At(b).inner[1], key, value)),
                            insert(At(b).means, name, meaning),
                            At(b).delivered))

\* set_ip, set_device, set_session, set_origin.
genotp_context_builder_set(b, field, argument) ==
    \/ NullPointer
    \/ Holds(b) /\ BadString
    \/ /\ Holds(b)
       /\ apply(b, <<field>>,
                IF field = "origin" THEN normalize_origin(argument.text) ELSE argument.text,
                <<"field", field>>, argument.means)

genotp_context_builder_set_custom(b, key, value) ==
    \/ NullPointer
    \/ Holds(b) /\ BadString
    \/ /\ Holds(b)
       /\ apply(b, custom_key(key.text), value.text, <<"custom", key.means>>, value.means)

\* The builder gives up its fields, and the program gets a context.
Deliver(b, out) == \E a \in Addresses :
    /\ heap[a] = Free
    /\ var[out] = NULL
    /\ heap' = [heap EXCEPT
           ![var[b]] = Builder(None, At(b).means, At(b).delivered + 1),
           ![a] = [kind |-> "context", bytes |-> build(At(b).inner[1]), means |-> At(b).means]]
    /\ var' = [var EXCEPT ![out] = a]
    /\ UNCHANGED verdict

\* Mutant: the builder is consumed before the out parameter is looked at.
build_taking_first(b, out) ==
    \/ ~Holds(b) /\ NullPointer
    \/ /\ Holds(b)
       /\ At(b).inner = None
       /\ Refuse("InvalidSecret")
    \/ /\ Holds(b)
       /\ At(b).inner # None
       /\ \/ out = NULL /\ Update(b, Builder(None, At(b).means, 0))
          \/ out # NULL /\ Deliver(b, out)

\* A NULL out parameter is refused before the builder is consumed.
genotp_context_builder_build(b, out) ==
    \/ (~Holds(b) \/ out = NULL) /\ NullPointer
    \/ /\ Holds(b) /\ out # NULL
       /\ \/ At(b).inner = None /\ Refuse("InvalidSecret")
          \/ At(b).inner # None /\ Deliver(b, out)

-----------------------------------------------------------------------------
(* Codes.  The checks of handles and out parameters come first. *)

genotp_hotp_generate(g, out) ==
    \/ NullPointer
    \/ Holds(g) /\ Generate(g, EmptyContext, out)

genotp_totp_generate(g, out) ==
    \/ NullPointer
    \/ Holds(g) /\ (BadTime \/ Generate(g, EmptyContext, out))

genotp_hotp_generate_bound(g, c, out) ==
    \/ NullPointer
    \/ Holds(g) /\ Holds(c) /\ Generate(g, At(c), out)

genotp_totp_generate_bound(g, c, out) ==
    \/ NullPointer
    \/ Holds(g) /\ Holds(c) /\ (BadTime \/ Generate(g, At(c), out))

genotp_hotp_verify(g, s) ==
    \/ NullPointer
    \/ Holds(g) /\ (BadString \/ (Holds(s) /\ Verify(g, At(s), EmptyContext)))

genotp_totp_verify(g, s) ==
    \/ NullPointer
    \/ Holds(g) /\ (BadString \/ BadTime \/ (Holds(s) /\ Verify(g, At(s), EmptyContext)))

genotp_hotp_verify_bound(g, c, s) ==
    \/ NullPointer
    \/ Holds(g) /\ Holds(c) /\ (BadString \/ (Holds(s) /\ Verify(g, At(s), At(c))))

genotp_totp_verify_bound(g, c, s) ==
    \/ NullPointer
    \/ Holds(g) /\ Holds(c) /\ (BadString \/ BadTime \/ (Holds(s) /\ Verify(g, At(s), At(c))))

\* For a code whose counter is in the window; which counter matches is in HotpResync.
genotp_hotp_verify_with_resync(g, s) == genotp_hotp_verify(g, s)

-----------------------------------------------------------------------------
(* Verifiers and skew detectors.  What they answer is in modules of their own. *)

genotp_verifier_new(out) == NullPointer \/ Box(out, [kind |-> "verifier"])

\* Two strings: the code submitted and the code expected.
genotp_verifier_verify(v) ==
    \/ NullPointer
    \/ Holds(v) /\ (BadString \/ Succeed)

genotp_verifier_verify_with_context(v, issued, request) ==
    \/ NullPointer
    \/ Holds(v) /\ Holds(issued) /\ Holds(request) /\ (BadString \/ Succeed)

genotp_verifier_is_rate_limited(v) == NullPointer \/ (Holds(v) /\ Succeed)

genotp_verifier_reset_attempts(v) == NullPointer \/ (Holds(v) /\ Succeed)

\* The capacity is not looked at.
genotp_skew_detector_new(out) == NullPointer \/ Box(out, [kind |-> "skew"])

genotp_skew_detector_enable_auto_adjust(d) == NullPointer \/ (Holds(d) /\ Succeed)

genotp_skew_detector_current_offset(d) == NullPointer \/ (Holds(d) /\ Succeed)

-----------------------------------------------------------------------------
(* Provisioning, and functions that only fill a buffer *)

\* Mutant: the handle is boxed before the strings are checked.
uri_new_boxing_first(out) ==
    \/ NullPointer
    \/ Box(out, [kind |-> "uri"])
    \/ \E a \in Addresses :
           /\ heap[a] = Free
           /\ heap' = [heap EXCEPT ![a] = [kind |-> "uri"]]
           /\ UNCHANGED <<var, verdict>>

genotp_otpauth_uri_new(out) ==
    \/ NullPointer \/ BadString
    \/ Box(out, [kind |-> "uri"])

\* set_issuer, set_algorithm, set_digits, set_period, set_counter; only the first can
\* be given a bad string.  What is set is not modelled.
genotp_otpauth_uri_set(u) ==
    \/ NullPointer
    \/ Holds(u) /\ (BadString \/ Succeed)

\* The handle is not consumed: it can be set and built again.
genotp_otpauth_uri_build(u, out) ==
    \/ NullPointer
    \/ Holds(u) /\ copy_to_out(out, Text, FALSE)

genotp_generate_secret(out) ==
    \/ \E error \in {"NullPointer", "InvalidSecret"} : Refuse(error)
    \/ copy_to_out(out, [kind |-> "bytes"], FALSE)

\* Random bytes for a buffer of the program's own, which the API does not keep.
genotp_fill_secret == NullPointer \/ Refuse("InvalidSecret") \/ Succeed

genotp_base32_encode(out, empty) ==
    NullPointer \/ copy_to_out(out, Text, empty)

genotp_base32_decode(out, empty) ==
    \/ BadString
    \/ Refuse("InvalidSecret")
    \/ copy_to_out(out, [kind |-> "bytes"], empty)

genotp_error_message(out) == NullPointer \/ copy_to_out(out, Text, FALSE)

-----------------------------------------------------------------------------

Handle ==
    \/ \E out \in OfKind("hotp") : genotp_hotp_new(out)
    \/ \E out \in OfKind("totp") : genotp_totp_new(out)
    \/ \E out \in OfKind("context"), bytes \in RawContexts : genotp_context_from_bytes(bytes, out)
    \/ \E out \in OfKind("context") : genotp_context_empty(out)
    \/ \E v \in Variables : handle_free(v) \/ buffer_free(v)

\* The program sets at most MaxFields fields of one builder.
MaySet(b, name) == Holds(b) => Cardinality(DOMAIN At(b).means \cup {name}) <= MaxFields

ContextBuilder ==
    \/ \E out \in OfKind("builder") : genotp_context_builder_new(out)
    \/ \E b \in OfKind("builder"), f \in DOMAIN Arguments : \E argument \in Arguments[f] :
           MaySet(b, <<"field", f>>) /\ genotp_context_builder_set(b, f, argument)
    \/ \E b \in OfKind("builder"), key \in CustomKeys, value \in CustomValues :
           MaySet(b, <<"custom", key.means>>) /\ genotp_context_builder_set_custom(b, key, value)
    \/ \E b \in OfKind("builder"), out \in OfKind("context") \cup {NULL} :
           genotp_context_builder_build(b, out)

Codes ==
    \/ \E g \in OfKind("hotp"), s \in OfKind("string") :
           \/ genotp_hotp_generate(g, s)
           \/ genotp_hotp_verify(g, s) \/ genotp_hotp_verify_with_resync(g, s)
    \/ \E g \in OfKind("totp"), s \in OfKind("string") :
           genotp_totp_generate(g, s) \/ genotp_totp_verify(g, s)
    \/ \E g \in OfKind("hotp"), c \in OfKind("context"), s \in OfKind("string") :
           genotp_hotp_generate_bound(g, c, s) \/ genotp_hotp_verify_bound(g, c, s)
    \/ \E g \in OfKind("totp"), c \in OfKind("context"), s \in OfKind("string") :
           genotp_totp_generate_bound(g, c, s) \/ genotp_totp_verify_bound(g, c, s)

Shared ==
    \/ \E out \in OfKind("verifier") : genotp_verifier_new(out)
    \/ \E v \in OfKind("verifier") :
           \/ genotp_verifier_verify(v)
           \/ genotp_verifier_is_rate_limited(v) \/ genotp_verifier_reset_attempts(v)
    \/ \E v \in OfKind("verifier"), issued, request \in OfKind("context") :
           genotp_verifier_verify_with_context(v, issued, request)
    \/ \E out \in OfKind("skew") : genotp_skew_detector_new(out)
    \/ \E d \in OfKind("skew") :
           \/ genotp_skew_detector_enable_auto_adjust(d)
           \/ genotp_skew_detector_current_offset(d)

Buffers ==
    \/ \E out \in OfKind("uri") : genotp_otpauth_uri_new(out) \/ genotp_otpauth_uri_set(out)
    \/ \E u \in OfKind("uri"), s \in OfKind("string") : genotp_otpauth_uri_build(u, s)
    \/ \E out \in OfKind("bytes") : genotp_generate_secret(out)
    \/ genotp_fill_secret
    \/ \E out \in OfKind("bytes"), empty \in BOOLEAN : genotp_base32_decode(out, empty)
    \/ \E out \in OfKind("string"), empty \in BOOLEAN : genotp_base32_encode(out, empty)
    \/ \E out \in OfKind("string") : genotp_error_message(out)

Next == Handle \/ ContextBuilder \/ Codes \/ Shared \/ Buffers

Spec == Init /\ [][Next]_vars

-----------------------------------------------------------------------------
(* Properties *)

\* Every variable has its type, and a variable of the program holds an object of the
\* kind it is declared for.
TypeOK ==
    /\ heap = [a \in Addresses |-> heap[a]]
    /\ \A a \in Addresses : heap[a].kind \in Kinds \cup {"free"}
    /\ var \in [Variables -> Addresses \cup {NULL}]
    /\ \A v \in Variables : Holds(v) => At(v).kind = KindOf[v]
    /\ verdict \in [valid : BOOLEAN, meant : BOOLEAN]

\* The program owns every live object through exactly one variable, whichever calls
\* failed and at which check: nothing leaks, and nothing is there to be freed twice.
OwnedOnce ==
    \A a \in Addresses : heap[a] # Free =>
        \E v \in Variables : var[v] = a /\ \A w \in Variables : var[w] = a => w = v

\* A builder is consumed by delivering its one context, and by nothing else: no
\* refused call loses what was set, and no builder is built from twice.
ConsumedByDelivery ==
    \A a \in Addresses : heap[a].kind = "builder" =>
        /\ heap[a].delivered \in 0 .. 1
        /\ heap[a].inner = None <=> heap[a].delivered = 1

\* A code verifies exactly when it comes from the same generator and was bound to a
\* context that means the same: the same fields with the same values, set in any order,
\* any number of times, and between refused calls; the origin spelt in any way; a custom
\* field not taken for a built-in one; no value taken for another field.  It is about
\* strings of C, which have no zero byte, about custom keys without "=", and about raw
\* contexts that do not imitate the format of build.
BoundByMeaning == verdict.valid = verdict.meant
=============================================================================
