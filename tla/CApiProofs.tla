----------------------------- MODULE CApiProofs -----------------------------
(***************************************************************************)
(* What CApi states about ownership, about builders and about the contexts *)
(* that codes are bound to, for every program that keeps to the header.    *)
(* The facts about texts and about induction on their length that          *)
(* ProvisioningProofs proves are used here too.                            *)
(***************************************************************************)
EXTENDS CApi, ProvisioningProofs

\* No address is in two variables, and none in a variable is free.
Unshared ==
    /\ \A v, w \in Variables : Holds(v) /\ var[v] = var[w] => v = w
    /\ \A a \in Addresses : heap[a] # Free => \E v \in Variables : var[v] = a

IInv == TypeOK /\ Unshared /\ ConsumedByDelivery

\* An object as a constructor boxes it for a variable of that kind.
Fresh(out, object) ==
    /\ object.kind = KindOf[out]
    /\ KindOf[out] = "builder" => object.inner # None /\ object.delivered = 0

LEMMA SomeIsNotNone == \A x : Some(x) # None
    BY DEF Some, None

LEMMA InvInit == Init => IInv
<1> SUFFICES ASSUME Init PROVE IInv
    OBVIOUS
<1> USE CApiAssumption DEF Init, Free, Holds, At
<1>1. TypeOK
    BY DEF TypeOK, Kinds
<1>2. Unshared
    BY DEF Unshared
<1>3. ConsumedByDelivery
    BY DEF ConsumedByDelivery
<1> QED
    BY <1>1, <1>2, <1>3 DEF IInv

\* A fresh object at a free address, and the address in an empty variable.
LEMMA BoxStep ==
    ASSUME IInv, NEW out \in Variables, NEW object, Fresh(out, object), Box(out, object)
    PROVE  IInv'
<1> USE CApiAssumption DEF Holds, At
<1>1. PICK a \in Addresses :
          /\ heap[a] = Free
          /\ var[out] = NULL
          /\ heap' = [heap EXCEPT ![a] = object]
          /\ var' = [var EXCEPT ![out] = a]
          /\ UNCHANGED verdict
    BY DEF Box
<1>2. object.kind \in Kinds /\ object.kind = KindOf[out]
    BY DEF Fresh
<1>3. \A v \in Variables : var[v] # a
    <2> SUFFICES ASSUME NEW v \in Variables, var[v] = a PROVE FALSE
        OBVIOUS
    <2>1. heap[a].kind = KindOf[v]
        BY DEF IInv, TypeOK
    <2> QED
        BY <1>1, <2>1 DEF Free, Kinds
<1>4. \A b \in Addresses : heap'[b] = IF b = a THEN object ELSE heap[b]
    BY <1>1 DEF IInv, TypeOK
<1>5. \A v \in Variables : var'[v] = IF v = out THEN a ELSE var[v]
    BY <1>1 DEF IInv, TypeOK
<1>6. TypeOK'
    <2>1. heap' = [b \in Addresses |-> heap'[b]]
        BY <1>1 DEF IInv, TypeOK
    <2>2. \A b \in Addresses : heap'[b].kind \in Kinds \cup {"free"}
        BY <1>2, <1>4 DEF IInv, TypeOK
    <2>3. var' \in [Variables -> Addresses \cup {NULL}]
        BY <1>1 DEF IInv, TypeOK
    <2>4. \A v \in Variables : Holds(v)' => At(v)'.kind = KindOf[v]
        BY <1>2, <1>3, <1>4, <1>5 DEF IInv, TypeOK
    <2> QED
        BY <1>1, <2>1, <2>2, <2>3, <2>4 DEF IInv, TypeOK
<1>7. Unshared'
    BY <1>1, <1>3, <1>4, <1>5 DEF IInv, TypeOK, Unshared
<1>8. ConsumedByDelivery'
    BY <1>2, <1>4 DEF IInv, ConsumedByDelivery, Fresh
<1> QED
    BY <1>6, <1>7, <1>8 DEF IInv

\* The object goes, and the address from its only variable.
LEMMA FreeStep ==
    ASSUME IInv, NEW u \in Variables, free(u)
    PROVE  IInv'
<1> USE CApiAssumption DEF Holds, At
<1>1. \A b \in Addresses : heap'[b] = IF b = var[u] THEN Free ELSE heap[b]
    BY DEF free
<1>2. \A v \in Variables : var'[v] = IF v = u THEN NULL ELSE var[v]
    BY DEF free, IInv, TypeOK
<1>3. TypeOK'
    <2>1. heap' = [b \in Addresses |-> heap'[b]]
        BY DEF free
    <2>2. \A b \in Addresses : heap'[b].kind \in Kinds \cup {"free"}
        BY <1>1 DEF IInv, TypeOK, Free
    <2>3. var' \in [Variables -> Addresses \cup {NULL}]
        BY DEF free, IInv, TypeOK
    <2>4. ASSUME NEW v \in Variables, Holds(v)' PROVE At(v)'.kind = KindOf[v]
        <3>1. v # u /\ var'[v] = var[v] /\ Holds(v)
            BY <1>2, <2>4
        <3>2. var[v] # var[u]
            BY <3>1 DEF IInv, Unshared
        <3>3. At(v)' = At(v)
            BY <1>1, <3>1, <3>2 DEF IInv, TypeOK
        <3> QED
            BY <3>1, <3>3 DEF IInv, TypeOK
    <2> QED
        BY <2>1, <2>2, <2>3, <2>4 DEF free, IInv, TypeOK
<1>4. Unshared'
    BY <1>1, <1>2 DEF IInv, TypeOK, Unshared
<1>5. ConsumedByDelivery'
    BY <1>1 DEF IInv, ConsumedByDelivery, Free
<1> QED
    BY <1>3, <1>4, <1>5 DEF IInv

\* A builder that is not consumed is given a field.
LEMMA ApplyStep ==
    ASSUME IInv, NEW b \in OfKind("builder"), Holds(b),
           NEW key, NEW value, NEW name, NEW meaning, apply(b, key, value, name, meaning)
    PROVE  IInv'
<1> USE CApiAssumption
<1>1. CASE At(b).inner = None /\ Refuse("InvalidSecret")
    BY <1>1 DEF Refuse, vars, IInv, TypeOK, Unshared, ConsumedByDelivery, Holds, At
<1>2. CASE At(b).inner # None
    <2> DEFINE object == Builder(Some(insert(At(b).inner[1], key, value)),
                                 insert(At(b).means, name, meaning), At(b).delivered)
    <2>1. b \in Variables /\ var[b] \in Addresses /\ At(b) = heap[var[b]]
        BY DEF OfKind, Holds, At, IInv, TypeOK
    <2>2. At(b).kind = "builder"
        BY DEF OfKind, IInv, TypeOK
    <2>3. At(b).delivered = 0
        BY <1>2, <2>1, <2>2 DEF IInv, ConsumedByDelivery
    <2>4. object.kind = "builder" /\ object.inner # None /\ object.delivered = 0
        BY <2>3, SomeIsNotNone DEF Builder
    <2>5. heap' = [heap EXCEPT ![var[b]] = object] /\ UNCHANGED <<var, verdict>>
        BY <1>2 DEF apply, Update
    <2> HIDE DEF object
    <2>6. \A a \in Addresses : heap'[a] = IF a = var[b] THEN object ELSE heap[a]
        BY <2>5 DEF IInv, TypeOK
    <2>7. TypeOK'
        BY <2>1, <2>2, <2>4, <2>5, <2>6 DEF IInv, TypeOK, Holds, At, Kinds
    <2>8. Unshared'
        BY <2>1, <2>2, <2>4, <2>5, <2>6 DEF IInv, Unshared, Holds, Free
    <2>9. ConsumedByDelivery'
        BY <2>4, <2>6 DEF IInv, ConsumedByDelivery
    <2> QED
        BY <2>7, <2>8, <2>9 DEF IInv
<1> QED
    BY <1>1, <1>2 DEF apply

\* A builder that is not consumed delivers a context.
LEMMA DeliverStep ==
    ASSUME IInv, NEW b \in OfKind("builder"), Holds(b), At(b).inner # None,
           NEW out \in OfKind("context"), Deliver(b, out)
    PROVE  IInv'
<1> USE CApiAssumption
<1> DEFINE spent == Builder(None, At(b).means, At(b).delivered + 1)
           context == [kind |-> "context", bytes |-> build(At(b).inner[1]), means |-> At(b).means]
<1>1. PICK a \in Addresses :
          /\ heap[a] = Free
          /\ var[out] = NULL
          /\ heap' = [heap EXCEPT ![var[b]] = spent, ![a] = context]
          /\ var' = [var EXCEPT ![out] = a]
          /\ UNCHANGED verdict
    BY DEF Deliver
<1>2. /\ b \in Variables /\ var[b] \in Addresses /\ At(b) = heap[var[b]]
      /\ out \in Variables /\ KindOf[out] = "context"
    BY DEF OfKind, Holds, At, IInv, TypeOK
<1>3. At(b).kind = "builder"
    BY DEF OfKind, IInv, TypeOK
<1>4. At(b).delivered = 0
    BY <1>2, <1>3 DEF IInv, ConsumedByDelivery
<1>5. spent.kind = "builder" /\ spent.inner = None /\ spent.delivered = 1
    BY <1>4 DEF Builder
<1>6. context.kind = "context"
    OBVIOUS
<1>7. var[b] # a
    BY <1>1, <1>2, <1>3 DEF Free
<1>8. \A v \in Variables : var[v] # a
    <2> SUFFICES ASSUME NEW v \in Variables, var[v] = a PROVE FALSE
        OBVIOUS
    <2>1. heap[a].kind = KindOf[v]
        BY DEF IInv, TypeOK, Holds, At
    <2> QED
        BY <1>1, <2>1 DEF Free, Kinds
<1> HIDE DEF spent, context
<1>9. \A c \in Addresses :
           heap'[c] = IF c = a THEN context ELSE IF c = var[b] THEN spent ELSE heap[c]
    BY <1>1, <1>2, <1>7 DEF IInv, TypeOK
<1>10. \A v \in Variables : var'[v] = IF v = out THEN a ELSE var[v]
    BY <1>1 DEF IInv, TypeOK
<1>11. TypeOK'
    <2>1. heap' = [c \in Addresses |-> heap'[c]]
        BY <1>1 DEF IInv, TypeOK
    <2>2. \A c \in Addresses : heap'[c].kind \in Kinds \cup {"free"}
        BY <1>6, <1>9, <1>5 DEF IInv, TypeOK, Kinds
    <2>3. var' \in [Variables -> Addresses \cup {NULL}]
        BY <1>1 DEF IInv, TypeOK
    <2>4. ASSUME NEW v \in Variables, Holds(v)' PROVE At(v)'.kind = KindOf[v]
        <3>1. CASE v = out
            BY <1>2, <1>6, <1>9, <1>10, <3>1 DEF At
        <3>2. CASE v # out
            <4>1. var'[v] = var[v] /\ var[v] # NULL /\ var[v] \in Addresses
                BY <1>10, <2>4, <3>2 DEF Holds, IInv, TypeOK
            <4>2. heap'[var[v]].kind = heap[var[v]].kind
                BY <1>2, <1>3, <1>8, <1>9, <1>5, <4>1
            <4> QED
                BY <4>1, <4>2 DEF At, Holds, IInv, TypeOK
        <3> QED
            BY <3>1, <3>2
    <2> QED
        BY <1>1, <2>1, <2>2, <2>3, <2>4 DEF IInv, TypeOK
<1>12. Unshared'
    <2>1. \A c \in Addresses : heap'[c] # Free => c = a \/ heap[c] # Free
        BY <1>2, <1>3, <1>9 DEF Free
    <2>2. ASSUME NEW v \in Variables, NEW w \in Variables, Holds(v)', var'[v] = var'[w]
          PROVE  v = w
        BY <1>8, <1>10, <2>2 DEF IInv, Unshared, Holds
    <2>3. ASSUME NEW c \in Addresses, heap'[c] # Free
          PROVE  \E v \in Variables : var'[v] = c
        <3>1. CASE c = a
            BY <1>2, <1>10, <3>1
        <3>2. CASE c # a
            <4>1. PICK v \in Variables : var[v] = c
                BY <2>1, <2>3, <3>2 DEF IInv, Unshared
            <4>2. v # out
                BY <1>1, <4>1
            <4> QED
                BY <1>10, <4>1, <4>2
        <3> QED
            BY <3>1, <3>2
    <2> QED
        BY <2>2, <2>3 DEF Unshared
<1>13. ConsumedByDelivery'
    BY <1>6, <1>9, <1>5 DEF IInv, ConsumedByDelivery
<1> QED
    BY <1>11, <1>12, <1>13 DEF IInv

\* A step that touches neither the heap nor the variables.
LEMMA IdleStep ==
    ASSUME IInv, UNCHANGED <<heap, var>>, verdict' \in [valid : BOOLEAN, meant : BOOLEAN]
    PROVE  IInv'
BY DEF IInv, TypeOK, Unshared, ConsumedByDelivery, Holds, At

LEMMA RefuseStep == ASSUME IInv, NEW error, Refuse(error) PROVE IInv'
BY IdleStep DEF Refuse, vars, IInv, TypeOK

LEMMA VerifyStep ==
    ASSUME IInv, NEW g, NEW string, NEW context, Verify(g, string, context) PROVE IInv'
BY IdleStep DEF Verify

LEMMA CopyStep ==
    ASSUME IInv, NEW out \in Variables, NEW object, NEW empty, Fresh(out, object),
           copy_to_out(out, object, empty)
    PROVE  IInv'
<1>1. CASE Box(out, object)
    BY <1>1, BoxStep
<1>2. CASE Refuse("AllocationFailed")
    BY <1>2, RefuseStep
<1>3. CASE Succeed
    BY <1>3, IdleStep DEF Succeed, vars, IInv, TypeOK
<1> QED
    BY <1>1, <1>2, <1>3 DEF copy_to_out

-----------------------------------------------------------------------------
(* One lemma for each part of the program's next step *)

LEMMA HandleStep == ASSUME IInv, Handle PROVE IInv'
<1> USE DEF OfKind, Fresh
<1>1. CASE \E out \in OfKind("hotp") : genotp_hotp_new(out)
    BY <1>1, BoxStep, RefuseStep DEF genotp_hotp_new
<1>2. CASE \E out \in OfKind("totp") : genotp_totp_new(out)
    BY <1>2, BoxStep, RefuseStep DEF genotp_totp_new
<1>3. CASE \E out \in OfKind("context"), bytes \in RawContexts :
               genotp_context_from_bytes(bytes, out)
    BY <1>3, BoxStep, RefuseStep DEF genotp_context_from_bytes, NullPointer, EmptyContext
<1>4. CASE \E out \in OfKind("context") : genotp_context_empty(out)
    BY <1>4, BoxStep, RefuseStep DEF genotp_context_empty, NullPointer, EmptyContext
<1>5. CASE \E v \in Variables : handle_free(v) \/ buffer_free(v)
    BY <1>5, FreeStep DEF handle_free, buffer_free
<1> QED
    BY <1>1, <1>2, <1>3, <1>4, <1>5 DEF Handle

LEMMA ContextBuilderStep == ASSUME IInv, ContextBuilder PROVE IInv'
<1>1. CASE \E out \in OfKind("builder") : genotp_context_builder_new(out)
    <2>1. PICK out \in OfKind("builder") : genotp_context_builder_new(out)
        BY <1>1
    <2>2. Fresh(out, Builder(Some(NoFields), NoFields, 0))
        BY SomeIsNotNone DEF OfKind, Fresh, Builder
    <2> QED
        BY <2>1, <2>2, BoxStep, RefuseStep DEF genotp_context_builder_new, NullPointer, OfKind
<1>2. ASSUME NEW b \in OfKind("builder"), NEW field, NEW argument,
             genotp_context_builder_set(b, field, argument)
      PROVE  IInv'
    BY <1>2, ApplyStep, RefuseStep DEF genotp_context_builder_set, NullPointer, BadString
<1>3. ASSUME NEW b \in OfKind("builder"), NEW key, NEW value,
             genotp_context_builder_set_custom(b, key, value)
      PROVE  IInv'
    BY <1>3, ApplyStep, RefuseStep DEF genotp_context_builder_set_custom, NullPointer, BadString
<1>4. ASSUME NEW b \in OfKind("builder"), NEW out \in OfKind("context") \cup {NULL},
             genotp_context_builder_build(b, out)
      PROVE  IInv'
    BY <1>4, DeliverStep, RefuseStep DEF genotp_context_builder_build, NullPointer
<1> QED
    BY <1>1, <1>2, <1>3, <1>4 DEF ContextBuilder

LEMMA GenerateStep ==
    ASSUME IInv, NEW g, NEW context, NEW out \in OfKind("string"), Generate(g, context, out)
    PROVE  IInv'
BY CopyStep DEF Generate, Fresh, OfKind

LEMMA CodesStep == ASSUME IInv, Codes PROVE IInv'
<1> USE GenerateStep, VerifyStep, RefuseStep DEF NullPointer, BadString, BadTime
<1>1. ASSUME NEW g, NEW s \in OfKind("string"),
             \/ genotp_hotp_generate(g, s) \/ genotp_hotp_verify(g, s)
             \/ genotp_totp_generate(g, s) \/ genotp_totp_verify(g, s)
             \/ genotp_hotp_verify_with_resync(g, s)
      PROVE  IInv'
    BY <1>1 DEF genotp_hotp_generate, genotp_hotp_verify, genotp_totp_generate, genotp_totp_verify,
                genotp_hotp_verify_with_resync
<1>2. ASSUME NEW g, NEW c, NEW s \in OfKind("string"),
             \/ genotp_hotp_generate_bound(g, c, s) \/ genotp_hotp_verify_bound(g, c, s)
             \/ genotp_totp_generate_bound(g, c, s) \/ genotp_totp_verify_bound(g, c, s)
      PROVE  IInv'
    BY <1>2 DEF genotp_hotp_generate_bound, genotp_hotp_verify_bound,
                genotp_totp_generate_bound, genotp_totp_verify_bound
<1> QED
    BY <1>1, <1>2 DEF Codes

LEMMA SucceedStep == ASSUME IInv, Succeed PROVE IInv'
BY IdleStep DEF Succeed, vars, IInv, TypeOK

LEMMA SharedStep == ASSUME IInv, Shared PROVE IInv'
<1> USE BoxStep, RefuseStep, SucceedStep DEF NullPointer, BadString
<1>1. ASSUME NEW out \in OfKind("verifier"), genotp_verifier_new(out) PROVE IInv'
    BY <1>1 DEF genotp_verifier_new, OfKind, Fresh
<1>2. ASSUME NEW v, \/ genotp_verifier_verify(v)
                    \/ genotp_verifier_is_rate_limited(v) \/ genotp_verifier_reset_attempts(v)
      PROVE  IInv'
    BY <1>2 DEF genotp_verifier_verify, genotp_verifier_is_rate_limited,
                genotp_verifier_reset_attempts
<1>3. ASSUME NEW v, NEW issued, NEW request,
             genotp_verifier_verify_with_context(v, issued, request)
      PROVE  IInv'
    BY <1>3 DEF genotp_verifier_verify_with_context
<1>4. ASSUME NEW out \in OfKind("skew"), genotp_skew_detector_new(out) PROVE IInv'
    BY <1>4 DEF genotp_skew_detector_new, OfKind, Fresh
<1>5. ASSUME NEW d, \/ genotp_skew_detector_enable_auto_adjust(d)
                    \/ genotp_skew_detector_current_offset(d)
      PROVE  IInv'
    BY <1>5 DEF genotp_skew_detector_enable_auto_adjust, genotp_skew_detector_current_offset
<1> QED
    BY <1>1, <1>2, <1>3, <1>4, <1>5 DEF Shared

LEMMA BuffersStep == ASSUME IInv, Buffers PROVE IInv'
<1> USE BoxStep, CopyStep, RefuseStep, SucceedStep DEF OfKind, Fresh, NullPointer, BadString, Text
<1>1. CASE \E u \in OfKind("uri") : genotp_otpauth_uri_new(u)
    BY <1>1 DEF genotp_otpauth_uri_new
<1>2. CASE \E u \in OfKind("uri") : genotp_otpauth_uri_set(u)
    BY <1>2, IdleStep DEF genotp_otpauth_uri_set, Succeed, vars, IInv, TypeOK
<1>3. CASE \E u \in OfKind("uri"), s \in OfKind("string") : genotp_otpauth_uri_build(u, s)
    BY <1>3 DEF genotp_otpauth_uri_build
<1>4. CASE \E out \in OfKind("bytes") : genotp_generate_secret(out)
    BY <1>4 DEF genotp_generate_secret
<1>5. CASE \E out \in OfKind("bytes"), empty \in BOOLEAN : genotp_base32_decode(out, empty)
    BY <1>5 DEF genotp_base32_decode
<1>6. CASE \E out \in OfKind("string"), empty \in BOOLEAN : genotp_base32_encode(out, empty)
    BY <1>6 DEF genotp_base32_encode
<1>7. CASE \E out \in OfKind("string") : genotp_error_message(out)
    BY <1>7 DEF genotp_error_message
<1>8. CASE genotp_fill_secret
    BY <1>8 DEF genotp_fill_secret
<1> QED
    BY <1>1, <1>2, <1>3, <1>4, <1>5, <1>6, <1>7, <1>8 DEF Buffers

LEMMA InvHolds == Spec => []IInv
<1>1. IInv /\ [Next]_vars => IInv'
    <2> SUFFICES ASSUME IInv, [Next]_vars PROVE IInv'
        OBVIOUS
    <2>1. CASE UNCHANGED vars
        BY <2>1, IdleStep DEF vars, IInv, TypeOK
    <2> QED
        BY <2>1, HandleStep, ContextBuilderStep, CodesStep, SharedStep, BuffersStep DEF Next
<1> QED
    BY <1>1, InvInit, PTL DEF Spec

-----------------------------------------------------------------------------

\* Whatever the program calls, and whichever calls fail, a variable of the program
\* holds an object of the kind it is declared for: no function boxes another's object.
THEOREM TypeOKHolds == Spec => []TypeOK
<1>1. IInv => TypeOK
    BY DEF IInv
<1> QED
    BY <1>1, InvHolds, PTL

\* The program owns every live object through exactly one variable: no call, failing
\* at whichever check, leaves an object that nothing can free or two can.
THEOREM OwnedOnceHolds == Spec => []OwnedOnce
<1>1. IInv => OwnedOnce
    <2> SUFFICES ASSUME IInv, NEW a \in Addresses, heap[a] # Free
                 PROVE  \E v \in Variables : var[v] = a /\ \A w \in Variables : var[w] = a => w = v
        BY DEF OwnedOnce
    <2>1. PICK v \in Variables : var[v] = a
        BY DEF IInv, Unshared
    <2>2. Holds(v)
        BY <2>1, CApiAssumption DEF Holds
    <2> QED
        BY <2>1, <2>2 DEF IInv, Unshared
<1> QED
    BY <1>1, InvHolds, PTL

\* A builder is consumed by delivering its one context, and only by that.
THEOREM ConsumedByDeliveryHolds == Spec => []ConsumedByDelivery
<1>1. IInv => ConsumedByDelivery
    BY DEF IInv
<1> QED
    BY <1>1, InvHolds, PTL


-----------------------------------------------------------------------------
(* The bytes of a context say which fields it has *)

\* The text t has the line l: it begins where t does or after a zero byte, and ends before one.
HasLine(t, l, zero) ==
    \E i \in 0 .. Len(t) :
        /\ i = 0 \/ t[i] = zero
        /\ i + Len(l) + 1 <= Len(t) /\ t[i + Len(l) + 1] = zero
        /\ \A x \in 1 .. Len(l) : t[i + x] = l[x]

\* It is empty, or its last line is terminated.
Terminated(t, zero) == t = <<>> \/ t[Len(t)] = zero

\* What is where when two texts are joined.
IsJoined(w, a, b, S) ==
    /\ w \in Seq(S) /\ Len(w) = Len(a) + Len(b)
    /\ Len(a) \in Nat /\ Len(b) \in Nat
    /\ \A i \in 1 .. Len(a) : w[i] = a[i]
    /\ \A i \in 1 .. Len(b) : w[Len(a) + i] = b[i]

LEMMA Joined ==
    ASSUME NEW S, NEW a \in Seq(S), NEW b \in Seq(S)
    PROVE  IsJoined(a \o b, a, b, S)
<1> DEFINE w == a \o b
<1>1. /\ w \in Seq(S) /\ Len(w) = Len(a) + Len(b)
      /\ \A i \in 1 .. Len(a) + Len(b) : w[i] = IF i <= Len(a) THEN a[i] ELSE b[i - Len(a)]
  BY ConcatProperties, Zenon
<1>2. Len(a) \in Nat /\ Len(b) \in Nat
  OBVIOUS
<1> HIDE DEF w
<1>3. ASSUME NEW i \in 1 .. Len(a) PROVE w[i] = a[i]
  BY <1>1, <1>2
<1>4. ASSUME NEW i \in 1 .. Len(b) PROVE w[Len(a) + i] = b[i]
  <2>1. Len(a) + i \in 1 .. Len(a) + Len(b) /\ ~(Len(a) + i <= Len(a)) /\ Len(a) + i - Len(a) = i
    BY <1>2
  <2> QED
    BY <1>1, <2>1
<1> QED
  BY <1>1, <1>2, <1>3, <1>4 DEF w, IsJoined

\* A key and its value.
Line(key, value, eq) == key \o <<eq>> \o value

\* The same texts, apart by a piece the first of them does not have.
LEMMA JoinedApart ==
    ASSUME NEW S, NEW eq \in S, NEW k \in Seq(S \ {eq}), NEW l \in Seq(S \ {eq}),
           NEW v \in Seq(S), NEW w \in Seq(S), Line(k, v, eq) = Line(l, w, eq)
    PROVE  k = l /\ v = w
<1> DEFINE ke == k \o <<eq>>
           le == l \o <<eq>>
           a == ke \o v
           b == le \o w
<1>1. k \in Seq(S) /\ l \in Seq(S) /\ <<eq>> \in Seq(S) /\ Len(<<eq>>) = 1 /\ <<eq>>[1] = eq
  OBVIOUS
<1>2. /\ ke \in Seq(S) /\ Len(ke) = Len(k) + 1 /\ Len(k) \in Nat
      /\ \A i \in 1 .. Len(k) : ke[i] = k[i]
      /\ ke[Len(k) + 1] = eq
  BY <1>1, Joined DEF IsJoined
<1>3. /\ le \in Seq(S) /\ Len(le) = Len(l) + 1 /\ Len(l) \in Nat
      /\ \A i \in 1 .. Len(l) : le[i] = l[i]
      /\ le[Len(l) + 1] = eq
  BY <1>1, Joined DEF IsJoined
<1> HIDE DEF ke, le
<1>4. /\ Len(a) = Len(ke) + Len(v) /\ Len(v) \in Nat
      /\ \A i \in 1 .. Len(ke) : a[i] = ke[i]
      /\ \A i \in 1 .. Len(v) : a[Len(ke) + i] = v[i]
  <2>1. IsJoined(a, ke, v, S)
    BY <1>2, Joined
  <2> QED
    BY <2>1 DEF IsJoined
<1>5. /\ Len(b) = Len(le) + Len(w) /\ Len(w) \in Nat
      /\ \A i \in 1 .. Len(le) : b[i] = le[i]
      /\ \A i \in 1 .. Len(w) : b[Len(le) + i] = w[i]
  <2>1. IsJoined(b, le, w, S)
    BY <1>3, Joined
  <2> QED
    BY <2>1 DEF IsJoined
<1>6. a = b
  BY DEF ke, le, Line
<1> HIDE DEF a, b
<1>7. /\ \A i \in 1 .. Len(k) : k[i] # eq
      /\ \A i \in 1 .. Len(l) : l[i] # eq
  OBVIOUS
<1>8. ~(Len(k) < Len(l))
  <2> SUFFICES ASSUME Len(k) < Len(l) PROVE FALSE
    OBVIOUS
  <2>1. Len(k) + 1 \in 1 .. Len(l) /\ Len(k) + 1 \in 1 .. Len(le) /\ Len(k) + 1 \in 1 .. Len(ke)
    BY <1>2, <1>3
  <2>2. a[Len(k) + 1] = eq
    BY <1>2, <1>4, <2>1
  <2>3. b[Len(k) + 1] = l[Len(k) + 1]
    BY <1>3, <1>5, <2>1
  <2> QED
    BY <1>6, <1>7, <2>1, <2>2, <2>3
<1>9. ~(Len(l) < Len(k))
  <2> SUFFICES ASSUME Len(l) < Len(k) PROVE FALSE
    OBVIOUS
  <2>1. Len(l) + 1 \in 1 .. Len(k) /\ Len(l) + 1 \in 1 .. Len(ke) /\ Len(l) + 1 \in 1 .. Len(le)
    BY <1>2, <1>3
  <2>2. b[Len(l) + 1] = eq
    BY <1>3, <1>5, <2>1
  <2>3. a[Len(l) + 1] = k[Len(l) + 1]
    BY <1>2, <1>4, <2>1
  <2> QED
    BY <1>6, <1>7, <2>1, <2>2, <2>3
<1>10. Len(k) = Len(l) /\ Len(v) = Len(w)
  BY <1>2, <1>3, <1>4, <1>5, <1>6, <1>8, <1>9
<1>11. \A i \in 1 .. Len(k) : k[i] = l[i]
  BY <1>2, <1>3, <1>4, <1>5, <1>6, <1>10
<1>12. \A i \in 1 .. Len(v) : v[i] = w[i]
  BY <1>2, <1>3, <1>4, <1>5, <1>6, <1>10
<1>13. k = l
  BY <1>1, <1>10, <1>11, SeqEqual, Zenon
<1>14. v = w
  BY <1>10, <1>12, SeqEqual, Zenon
<1> QED
  BY <1>13, <1>14

\* A line more.
LEMMA LineAppended ==
    ASSUME NEW S, NEW zero \in S, NEW t \in Seq(S), Terminated(t, zero),
           NEW e \in Seq(S \ {zero})
    PROVE  /\ t \o (e \o <<zero>>) \in Seq(S) /\ t \o (e \o <<zero>>) # <<>>
           /\ Terminated(t \o (e \o <<zero>>), zero)
           /\ \A l \in Seq(S \ {zero}) :
                 HasLine(t \o (e \o <<zero>>), l, zero) <=> HasLine(t, l, zero) \/ l = e
<1> DEFINE ez == e \o <<zero>>
           u == t \o ez
           n == Len(t)
           m == Len(e)
<1>1. e \in Seq(S) /\ <<zero>> \in Seq(S) /\ Len(<<zero>>) = 1 /\ <<zero>>[1] = zero
  OBVIOUS
<1>2. /\ ez \in Seq(S) /\ Len(ez) = m + 1 /\ m \in Nat
      /\ \A i \in 1 .. m : ez[i] = e[i]
      /\ ez[m + 1] = zero
  BY <1>1, Joined DEF IsJoined
<1> HIDE DEF ez
<1>3. /\ u \in Seq(S) /\ Len(u) = n + m + 1 /\ n \in Nat
      /\ \A i \in 1 .. n : u[i] = t[i]
      /\ \A i \in 1 .. m : u[n + i] = e[i]
      /\ u[n + m + 1] = zero
  <2>1. /\ u \in Seq(S) /\ Len(u) = n + Len(ez) /\ n \in Nat
        /\ \A i \in 1 .. n : u[i] = t[i]
        /\ \A i \in 1 .. Len(ez) : u[n + i] = ez[i]
    <3>1. IsJoined(u, t, ez, S)
      BY <1>2, Joined
    <3> QED
      BY <3>1 DEF IsJoined
  <2> HIDE DEF u, n, m
  <2> QED
    BY <1>2, <2>1
<1>4. \A i \in 1 .. m : e[i] # zero
  OBVIOUS
<1>5. n = 0 \/ t[n] = zero
  BY DEF Terminated
<1> HIDE DEF u, n, m
<1>6. u # <<>> /\ Terminated(u, zero)
  BY <1>2, <1>3 DEF Terminated
<1>7. ASSUME NEW l \in Seq(S \ {zero}) PROVE HasLine(u, l, zero) <=> HasLine(t, l, zero) \/ l = e
  <2> DEFINE k == Len(l)
  <2>1. k \in Nat /\ \A x \in 1 .. k : l[x] # zero
    OBVIOUS
  <2>2. ASSUME l = e PROVE HasLine(u, l, zero)
    <3>1. k = m
      BY <2>2 DEF m
    <3> HIDE DEF k
    <3>2. /\ n \in 0 .. Len(u) /\ (n = 0 \/ u[n] = zero)
          /\ n + k + 1 <= Len(u) /\ u[n + k + 1] = zero
      <4>1. n = 0 \/ n \in 1 .. n
        BY <1>3
      <4> QED
        BY <1>2, <1>3, <1>5, <3>1, <4>1
    <3>3. \A x \in 1 .. k : u[n + x] = l[x]
      BY <1>3, <2>2, <3>1
    <3> QED
      BY <3>2, <3>3 DEF HasLine, k
  <2>3. ASSUME HasLine(t, l, zero) PROVE HasLine(u, l, zero)
    <3>1. PICK i \in 0 .. n : /\ i = 0 \/ t[i] = zero
                              /\ i + k + 1 <= n /\ t[i + k + 1] = zero
                              /\ \A x \in 1 .. k : t[i + x] = l[x]
      BY <2>3 DEF HasLine, n
    <3> HIDE DEF k
    <3>2. /\ i \in 0 .. Len(u) /\ (i = 0 \/ u[i] = zero)
          /\ i + k + 1 <= Len(u) /\ u[i + k + 1] = zero
      BY <1>2, <1>3, <2>1, <3>1
    <3>3. ASSUME NEW x \in 1 .. k PROVE u[i + x] = l[x]
      <4>1. i + x \in 1 .. n
        BY <1>3, <2>1, <3>1
      <4> QED
        BY <1>3, <3>1, <4>1
    <3> QED
      BY <3>2, <3>3 DEF HasLine, k
  <2>4. ASSUME HasLine(u, l, zero) PROVE HasLine(t, l, zero) \/ l = e
    <3>1. PICK i \in 0 .. Len(u) : /\ i = 0 \/ u[i] = zero
                                   /\ i + k + 1 <= Len(u) /\ u[i + k + 1] = zero
                                   /\ \A x \in 1 .. k : u[i + x] = l[x]
      BY <2>4 DEF HasLine
    <3> HIDE DEF k
    <3>2. CASE i + k + 1 <= n
      <4>1. /\ i \in 0 .. n /\ (i = 0 \/ t[i] = zero)
            /\ i + k + 1 <= n /\ t[i + k + 1] = zero
        BY <1>3, <2>1, <3>1, <3>2
      <4>2. ASSUME NEW x \in 1 .. k PROVE t[i + x] = l[x]
        <5>1. i + x \in 1 .. n
          BY <1>3, <2>1, <3>1, <3>2
        <5> QED
          BY <1>3, <3>1, <5>1
      <4> QED
        BY <4>1, <4>2 DEF HasLine, k, n
    <3>3. CASE n < i + k + 1
      <4>1. ~(i < n)
        <5> SUFFICES ASSUME i < n PROVE FALSE
          OBVIOUS
        <5>1. n - i \in 1 .. k /\ i + (n - i) = n /\ n \in 1 .. n
          BY <1>3, <2>1, <3>1, <3>3
        <5>2. u[n] = l[n - i]
          BY <3>1, <5>1
        <5> QED
          BY <1>3, <1>5, <2>1, <5>1, <5>2
      <4>2. ~(i > n)
        <5> SUFFICES ASSUME i > n PROVE FALSE
          OBVIOUS
        <5>1. i - n \in 1 .. m /\ n + (i - n) = i /\ u[i] = zero
          BY <1>2, <1>3, <2>1, <3>1
        <5> QED
          BY <1>3, <1>4, <5>1
      <4>3. i = n
        BY <1>3, <3>1, <4>1, <4>2
      <4>4. k = m
        <5>1. k <= m
          BY <1>2, <1>3, <2>1, <3>1, <4>3
        <5>2. ~(k < m)
          <6> SUFFICES ASSUME k < m PROVE FALSE
            OBVIOUS
          <6>1. k + 1 \in 1 .. m /\ n + (k + 1) = i + k + 1
            BY <1>2, <1>3, <2>1, <4>3
          <6> QED
            BY <1>3, <1>4, <3>1, <6>1
        <5> QED
          BY <1>2, <2>1, <5>1, <5>2
      <4>5. \A x \in 1 .. k : l[x] = e[x]
        BY <1>3, <3>1, <4>3, <4>4
      <4>6. Len(l) = Len(e) /\ \A x \in 1 .. Len(l) : l[x] = e[x]
        BY <4>4, <4>5 DEF k, m
      <4> QED
        BY <1>1, <4>6
    <3> QED
      BY <1>3, <2>1, <3>1, <3>2, <3>3
  <2> QED
    BY <2>2, <2>3, <2>4
<1> QED
  BY <1>3, <1>6, <1>7 DEF u, ez

\* The first n entries that build writes.
Entries(keys, f, n, eq, zero) ==
    [i \in 1 .. n |->
        IF keys[i] \in DOMAIN f THEN Line(keys[i], f[keys[i]], eq) \o <<zero>> ELSE <<>>]

\* A text with a line for each field, and no other line.
Lists(t, keys, f, n, eq, zero, S) ==
    /\ t \in Seq(S) /\ Terminated(t, zero)
    /\ (\A i \in 1 .. n : keys[i] \notin DOMAIN f) => t = <<>>
    /\ \A l \in Seq(S \ {zero}) :
          HasLine(t, l, zero) <=>
            \E i \in 1 .. n : keys[i] \in DOMAIN f /\ l = Line(keys[i], f[keys[i]], eq)

LEMMA LineIsText ==
    ASSUME NEW S, NEW eq \in S, NEW zero \in S, eq # zero,
           NEW k \in Seq(S \ {eq, zero}), NEW v \in Seq(S \ {zero})
    PROVE  Line(k, v, eq) \in Seq(S \ {zero})
<1> DEFINE R == S \ {zero}
<1>1. k \in Seq(R) /\ <<eq>> \in Seq(R)
  OBVIOUS
<1>2. v \in Seq(R)
  OBVIOUS
<1> HIDE DEF R
<1>3. k \o <<eq>> \in Seq(R)
  BY <1>1
<1>4. k \o <<eq>> \o v \in Seq(R)
  BY <1>2, <1>3
<1> QED
  BY <1>4 DEF R, Line

LEMMA EntriesListed ==
    ASSUME NEW S, NEW eq \in S, NEW zero \in S, eq # zero, NEW n \in Nat, NEW keys, NEW f,
           \A i \in 1 .. n : keys[i] \in Seq(S \ {eq, zero}),
           \A i \in 1 .. n : keys[i] \in DOMAIN f => f[keys[i]] \in Seq(S \ {zero})
    PROVE  Lists(FlattenSeq(Entries(keys, f, n, eq, zero)), keys, f, n, eq, zero, S)
<1> DEFINE L(i) == Line(keys[i], f[keys[i]], eq)
           E(m) == Entries(keys, f, m, eq, zero)
           Good(m) == /\ E(m) \in Seq(Seq(S))
                      /\ Lists(FlattenSeq(E(m)), keys, f, m, eq, zero, S)
           T == {m \in Nat : m <= n => Good(m)}
<1>1. Good(0)
  <2>1. E(0) = <<>>
    BY DEF Entries
  <2>2. E(0) \in Seq(Seq(S))
    <3>1. \A A : <<>> \in Seq(A)
      OBVIOUS
    <3> QED
      BY <2>1, <3>1, Zenon
  <2>3. FlattenSeq(E(0)) = <<>>
    BY <2>1, FlattenEmpty
  <2>4. <<>> \in Seq(S) /\ Terminated(<<>>, zero)
    BY DEF Terminated
  <2>5. ASSUME NEW l \in Seq(S \ {zero}) PROVE ~HasLine(<<>>, l, zero)
    <3>1. Len(l) \in Nat /\ Len(<<>>) = 0
      OBVIOUS
    <3>2. \A i \in 0 .. 0 : ~(i + Len(l) + 1 <= 0)
      BY <3>1
    <3> QED
      BY <3>1, <3>2 DEF HasLine
  <2>6. Lists(<<>>, keys, f, 0, eq, zero, S)
    BY <2>4, <2>5 DEF Lists
  <2> QED
    BY <2>2, <2>3, <2>6
<1>2. ASSUME NEW m \in Nat, m \in T PROVE m + 1 \in T
  <2> SUFFICES ASSUME m + 1 <= n PROVE Good(m + 1)
    OBVIOUS
  <2>1. Good(m) /\ m + 1 \in 1 .. n
    BY <1>2
  <2> DEFINE entry == IF keys[m + 1] \in DOMAIN f THEN L(m + 1) \o <<zero>> ELSE <<>>
             t == FlattenSeq(E(m))
             u == FlattenSeq(E(m + 1))
  <2>2. E(m + 1) = Append(E(m), entry)
    BY DEF Entries
  <2>3. keys[m + 1] \in DOMAIN f => L(m + 1) \in Seq(S \ {zero})
    BY <2>1, LineIsText
  <2> HIDE DEF L
  <2>4. entry \in Seq(S)
    <3>1. <<zero>> \in Seq(S) /\ <<>> \in Seq(S)
      OBVIOUS
    <3>2. \A l \in Seq(S \ {zero}) : l \o <<zero>> \in Seq(S)
      BY <3>1
    <3> QED
      BY <2>3, <3>1, <3>2
  <2>5. E(m + 1) \in Seq(Seq(S)) /\ u = t \o entry
    <3> HIDE DEF E, entry
    <3>1. E(m) \in Seq(Seq(S))
      BY <2>1
    <3>2. E(m + 1) \in Seq(Seq(S))
      <4>1. \A A : \A s \in Seq(A) : \A e \in A : Append(s, e) \in Seq(A)
        OBVIOUS
      <4> QED
        BY <2>2, <2>4, <3>1, <4>1, Zenon
    <3> QED
      BY <2>2, <2>4, <3>1, <3>2, FlattenAppend
  <2>6. Lists(t, keys, f, m, eq, zero, S)
    BY <2>1
  <2> HIDE DEF E, t, u
  <2>7. \A i : i \in 1 .. m + 1 <=> i \in 1 .. m \/ i = m + 1
    OBVIOUS
  <2>8. CASE keys[m + 1] \in DOMAIN f
    <3>1. u = t \o (L(m + 1) \o <<zero>>)
      BY <2>5, <2>8 DEF entry
    <3>2. t \in Seq(S) /\ Terminated(t, zero)
      BY <2>6 DEF Lists
    <3>3. /\ u \in Seq(S) /\ Terminated(u, zero)
          /\ \A l \in Seq(S \ {zero}) : HasLine(u, l, zero) <=> HasLine(t, l, zero) \/ l = L(m + 1)
      BY <2>3, <2>8, <3>1, <3>2, LineAppended
    <3>4. ASSUME NEW l \in Seq(S \ {zero})
          PROVE  HasLine(u, l, zero) <=>
                   \E i \in 1 .. m + 1 : keys[i] \in DOMAIN f /\ l = L(i)
      <4>1. HasLine(t, l, zero) <=> \E i \in 1 .. m : keys[i] \in DOMAIN f /\ l = L(i)
        BY <2>6 DEF Lists, L
      <4> QED
        BY <2>7, <2>8, <3>3, <4>1
    <3>5. Lists(u, keys, f, m + 1, eq, zero, S)
      BY <2>7, <2>8, <3>3, <3>4 DEF Lists, L
    <3> QED
      BY <2>5, <3>5 DEF u
  <2>9. CASE keys[m + 1] \notin DOMAIN f
    <3>1. u = t
      <4>1. entry = <<>> /\ t \in Seq(S)
        BY <2>6, <2>9 DEF Lists
      <4> QED
        BY <2>5, <4>1
    <3>2. Lists(u, keys, f, m + 1, eq, zero, S)
      BY <2>6, <2>7, <2>9, <3>1 DEF Lists
    <3> QED
      BY <2>5, <3>2 DEF u
  <2> QED
    BY <2>8, <2>9
<1> HIDE DEF Good
<1>3. Nat \subseteq T
  <2>1. 0 \in T
    BY <1>1
  <2> HIDE DEF T
  <2> QED
    BY <1>2, <2>1, Induction
<1> QED
  BY <1>3 DEF Good

Keeps(f, g, key) == key \in DOMAIN g /\ g[key] = f[key]

\* Whoever reads the lines knows the fields.
LEMMA ListedOnce ==
    ASSUME NEW S, NEW eq \in S, NEW zero \in S, eq # zero, NEW n \in Nat, NEW keys, NEW f, NEW g,
           \A i \in 1 .. n : keys[i] \in Seq(S \ {eq, zero}),
           \A i \in 1 .. n : keys[i] \in DOMAIN f => f[keys[i]] \in Seq(S \ {zero}),
           \A i \in 1 .. n : keys[i] \in DOMAIN g => g[keys[i]] \in Seq(S \ {zero}),
           NEW t, Lists(t, keys, f, n, eq, zero, S), Lists(t, keys, g, n, eq, zero, S),
           NEW i \in 1 .. n, keys[i] \in DOMAIN f
    PROVE  Keeps(f, g, keys[i])
<1> DEFINE l == Line(keys[i], f[keys[i]], eq)
<1>1. l \in Seq(S \ {zero})
  BY LineIsText
<1>2. HasLine(t, l, zero)
  BY <1>1 DEF Lists
<1>3. PICK j \in 1 .. n : keys[j] \in DOMAIN g /\ l = Line(keys[j], g[keys[j]], eq)
  BY <1>1, <1>2 DEF Lists
<1>4. /\ keys[i] \in Seq(S \ {eq}) /\ keys[j] \in Seq(S \ {eq})
      /\ f[keys[i]] \in Seq(S) /\ g[keys[j]] \in Seq(S)
  <2>1. \A A : \A s \in Seq(A \ {eq, zero}) : s \in Seq(A \ {eq})
    OBVIOUS
  <2>2. \A A : \A s \in Seq(A \ {zero}) : s \in Seq(A)
    OBVIOUS
  <2> QED
    BY <1>3, <2>1, <2>2
<1>5. keys[i] = keys[j] /\ f[keys[i]] = g[keys[j]]
  BY <1>3, <1>4, JoinedApart, Zenon
<1> QED
  BY <1>3, <1>5 DEF Keeps

\* The values that the setters can write.
Writable ==
    { a.text : a \in UNION {Arguments[f] : f \in DOMAIN Arguments \ {"origin"}} }
    \cup { a.means : a \in UNION {Arguments[f] : f \in DOMAIN Arguments \cap {"origin"}} }
    \cup { v.text : v \in CustomValues }

Pieces ==
    {"=", "0"}
    \cup (UNION {Range(key) : key \in Range(SortedKeys)})
    \cup (UNION {Range(v) : v \in Writable})

\* A map from keys to values, as the builder keeps it.
IsMap(f) ==
    /\ f = [key \in DOMAIN f |-> f[key]] /\ DOMAIN f \subseteq Range(SortedKeys)
    /\ \A key \in DOMAIN f : f[key] \in Seq(Pieces \ {"0"})

LEMMA KeysAreTexts ==
    /\ Len(SortedKeys) \in Nat /\ DOMAIN SortedKeys = 1 .. Len(SortedKeys)
    /\ \A i \in 1 .. Len(SortedKeys) : SortedKeys[i] \in Seq(Pieces \ {"=", "0"})
    /\ \A key \in Range(SortedKeys) : \E i \in 1 .. Len(SortedKeys) : key = SortedKeys[i]
<1>1. /\ SortedKeys \in Seq(Range(SortedKeys))
      /\ \A key \in Range(SortedKeys) : key \in Seq(Range(key)) /\ Range(key) \cap {"=", "0"} = {}
  BY ContextAssumption DEF IsText
<1>2. Len(SortedKeys) \in Nat /\ DOMAIN SortedKeys = 1 .. Len(SortedKeys)
  <2>1. \A A : \A s \in Seq(A) : Len(s) \in Nat /\ DOMAIN s = 1 .. Len(s)
    OBVIOUS
  <2> QED
    BY <1>1, <2>1, Zenon
<1>3. ASSUME NEW key \in Range(SortedKeys) PROVE key \in Seq(Pieces \ {"=", "0"})
  <2>1. Range(key) \subseteq Pieces \ {"=", "0"}
    BY <1>1, <1>3 DEF Pieces
  <2>2. \A A, B : A \subseteq B => \A s \in Seq(A) : s \in Seq(B)
    OBVIOUS
  <2> QED
    BY <1>1, <1>3, <2>1, <2>2, Zenon
<1> QED
  BY <1>2, <1>3 DEF Range

LEMMA BuildListed ==
    ASSUME NEW f, IsMap(f)
    PROVE  Lists(build(f), SortedKeys, f, Len(SortedKeys), "=", "0", Pieces)
<1> DEFINE n == Len(SortedKeys)
<1>1. build(f) = FlattenSeq(Entries(SortedKeys, f, n, "=", "0"))
  BY KeysAreTexts, Zenon DEF build, Entries, Line
<1>2. "=" \in Pieces /\ "0" \in Pieces /\ "=" # "0"
  BY DEF Pieces
<1>3. \A i \in 1 .. n : SortedKeys[i] \in DOMAIN f => f[SortedKeys[i]] \in Seq(Pieces \ {"0"})
  BY Zenon DEF IsMap
<1> QED
  BY <1>1, <1>2, <1>3, KeysAreTexts, EntriesListed, Zenon

\* The bytes tell what the fields are.
LEMMA BuildTells ==
    ASSUME NEW f, NEW g, IsMap(f), IsMap(g), build(f) = build(g)
    PROVE  f = g
<1> DEFINE n == Len(SortedKeys)
<1>1. "=" \in Pieces /\ "0" \in Pieces /\ "=" # "0"
  BY DEF Pieces
<1>2. \A i \in 1 .. n : SortedKeys[i] \in DOMAIN f => f[SortedKeys[i]] \in Seq(Pieces \ {"0"})
  BY Zenon DEF IsMap
<1>3. \A i \in 1 .. n : SortedKeys[i] \in DOMAIN g => g[SortedKeys[i]] \in Seq(Pieces \ {"0"})
  BY Zenon DEF IsMap
<1>4. /\ Lists(build(f), SortedKeys, f, n, "=", "0", Pieces)
      /\ Lists(build(f), SortedKeys, g, n, "=", "0", Pieces)
  BY BuildListed
<1>5. ASSUME NEW i \in 1 .. n, SortedKeys[i] \in DOMAIN f
      PROVE  Keeps(f, g, SortedKeys[i])
  BY <1>1, <1>2, <1>3, <1>4, <1>5, KeysAreTexts, ListedOnce, Zenon
<1>6. ASSUME NEW i \in 1 .. n, SortedKeys[i] \in DOMAIN g
      PROVE  Keeps(g, f, SortedKeys[i])
  BY <1>1, <1>2, <1>3, <1>4, <1>6, KeysAreTexts, ListedOnce, Zenon
<1>7. DOMAIN f = DOMAIN g /\ \A key \in DOMAIN f : g[key] = f[key]
  <2>1. \A key \in DOMAIN f \cup DOMAIN g : \E i \in 1 .. n : key = SortedKeys[i]
    BY KeysAreTexts DEF IsMap
  <2> QED
    BY <1>5, <1>6, <2>1 DEF Keeps
<1> QED
  BY <1>7, Zenon DEF IsMap

-----------------------------------------------------------------------------
(* Spellings of an origin *)

\* The text u is t from position b + 1 to e.
IsPart(u, t, b, e, S) ==
    /\ u \in Seq(S) /\ Len(u) = e - b
    /\ \A i \in 1 .. e - b : u[i] = t[b + i]

LEMMA PartExists ==
    ASSUME NEW S, NEW t \in Seq(S), NEW b \in Nat, NEW e \in b .. Len(t)
    PROVE  IsPart(SubSeq(t, b + 1, e), t, b, e, S)
<1> DEFINE u == SubSeq(t, b + 1, e)
<1>1. b + 1 \in 1 .. Len(t) + 1 /\ e \in (b + 1) - 1 .. Len(t) /\ Len(t) \in Nat
  OBVIOUS
<1>2. /\ u \in Seq(S) /\ Len(u) = e - (b + 1) + 1
      /\ \A i \in 1 .. e - (b + 1) + 1 : u[i] = t[b + 1 + i - 1]
  <2>1. u = [i \in 1 .. e - b |-> t[b + i]]
    BY <1>1
  <2>2. \A i \in 1 .. e - b : t[b + i] \in S
    BY <1>1
  <2> HIDE DEF u
  <2>3. u \in [1 .. e - b -> S] /\ e - b \in Nat
    BY <1>1, <2>1, <2>2
  <2>4. u \in Seq(S) /\ Len(u) = e - b
    BY <2>3
  <2> QED
    BY <1>1, <2>1, <2>4
<1> HIDE DEF u
<1>3. e - (b + 1) + 1 = e - b /\ \A i \in 1 .. e - b : b + 1 + i - 1 = b + i
  BY <1>1
<1>4. IsPart(u, t, b, e, S)
  BY <1>2, <1>3 DEF IsPart
<1> QED
  BY <1>4 DEF u

LEMMA TrimEndIs ==
    ASSUME NEW S, NEW t \in Seq(S), NEW p, NEW e \in 0 .. Len(t), e = 0 \/ t[e] # p,
           \A i \in e + 1 .. Len(t) : t[i] = p
    PROVE  IsPart(trim_end_matches(t, p), t, 0, e, S)
<1> DEFINE A == {0} \cup {i \in DOMAIN t : t[i] # p}
<1>1. DOMAIN t = 1 .. Len(t) /\ Len(t) \in Nat
  OBVIOUS
<1>2. e \in A
  BY <1>1
<1>3. \A i \in A : i \in Int /\ e >= i
  BY <1>1
<1> HIDE DEF A
<1>4. Max(A) = e
  <2>1. Max(A) \in A /\ \A i \in A : Max(A) >= i
    BY <1>2, <1>3 DEF Max
  <2>2. Max(A) \in Int /\ e \in Int /\ e >= Max(A) /\ Max(A) >= e
    BY <1>2, <1>3, <2>1
  <2> QED
    BY <2>2
<1>5. trim_end_matches(t, p) = SubSeq(t, 1, e)
  BY <1>4, Zenon DEF A, trim_end_matches
<1>6. 0 + 1 = 1 /\ 0 \in Nat /\ e \in 0 .. Len(t)
  OBVIOUS
<1> QED
  BY <1>5, <1>6, PartExists

IsReversed(r, t, S) ==
    /\ r \in Seq(S) /\ Len(r) = Len(t)
    /\ \A i \in 1 .. Len(t) : r[i] = t[Len(t) - i + 1]

LEMMA ReverseIs ==
    ASSUME NEW S, NEW t \in Seq(S)
    PROVE  IsReversed(Reverse(t), t, S)
<1>1. Len(t) \in Nat /\ \A i \in 1 .. Len(t) : t[Len(t) - i + 1] \in S
  OBVIOUS
<1>2. Reverse(t) = [i \in 1 .. Len(t) |-> t[Len(t) - i + 1]]
  BY DEF Reverse
<1>3. Reverse(t) \in [1 .. Len(t) -> S]
  BY <1>1, <1>2
<1>4. Reverse(t) \in Seq(S) /\ Len(Reverse(t)) = Len(t)
  BY <1>1, <1>3
<1> QED
  BY <1>2, <1>4 DEF IsReversed

\* Without the pieces p at both ends.
LEMMA TrimIs ==
    ASSUME NEW S, NEW t \in Seq(S), NEW p, NEW b \in 0 .. Len(t), NEW e \in b + 1 .. Len(t),
           t[b + 1] # p, t[e] # p,
           \A i \in 1 .. b : t[i] = p, \A i \in e + 1 .. Len(t) : t[i] = p
    PROVE  IsPart(Reverse(trim_end_matches(Reverse(trim_end_matches(t, p)), p)), t, b, e, S)
<1> DEFINE u == trim_end_matches(t, p)
           r == Reverse(u)
           v == trim_end_matches(r, p)
           w == Reverse(v)
           k == e - b
<1>1. Len(t) \in Nat /\ e \in 0 .. Len(t) /\ k \in Nat /\ k >= 1 /\ k <= e
  OBVIOUS
<1>2. u \in Seq(S) /\ Len(u) = e /\ \A i \in 1 .. e : u[i] = t[i]
  <2>1. IsPart(u, t, 0, e, S)
    BY <1>1, TrimEndIs
  <2> HIDE DEF u
  <2> QED
    BY <1>1, <2>1 DEF IsPart
<1>3. r \in Seq(S) /\ Len(r) = e /\ \A i \in 1 .. e : r[i] = t[e - i + 1]
  <2> HIDE DEF u
  <2>1. r \in Seq(S) /\ Len(r) = e /\ \A i \in 1 .. e : r[i] = u[e - i + 1]
    <3>1. IsReversed(r, u, S)
      BY <1>2, ReverseIs
    <3> HIDE DEF r
    <3> QED
      BY <1>2, <3>1 DEF IsReversed
  <2> HIDE DEF r
  <2> QED
    BY <1>1, <1>2, <2>1
<1> HIDE DEF u, r
<1>4. v \in Seq(S) /\ Len(v) = k /\ \A i \in 1 .. k : v[i] = r[i]
  <2>1. k \in 0 .. Len(r) /\ r[k] # p
    <3>1. r[k] = t[b + 1]
      <4>1. k \in 1 .. e /\ e - k + 1 = b + 1
        BY <1>1
      <4> QED
        BY <1>3, <4>1
    <3> QED
      BY <1>1, <1>3, <3>1
  <2>2. ASSUME NEW i \in k + 1 .. Len(r) PROVE r[i] = p
    <3>1. i \in 1 .. e /\ e - i + 1 \in 1 .. b
      BY <1>1, <1>3
    <3> QED
      BY <1>3, <3>1
  <2>3. IsPart(v, r, 0, k, S)
    BY <1>3, <2>1, <2>2, TrimEndIs
  <2> HIDE DEF v
  <2> QED
    BY <1>1, <2>3 DEF IsPart
<1>5. w \in Seq(S) /\ Len(w) = k /\ \A i \in 1 .. k : w[i] = v[k - i + 1]
  <2> HIDE DEF v
  <2>1. IsReversed(w, v, S)
    BY <1>4, ReverseIs
  <2> HIDE DEF w, k
  <2> QED
    BY <1>4, <2>1 DEF IsReversed
<1> HIDE DEF v, w
<1>6. ASSUME NEW i \in 1 .. k PROVE w[i] = t[b + i]
  <2>1. k - i + 1 \in 1 .. k /\ k - i + 1 \in 1 .. e /\ e - (k - i + 1) + 1 = b + i
    BY <1>1
  <2> QED
    BY <1>3, <1>4, <1>5, <2>1
<1>7. IsPart(w, t, b, e, S)
  BY <1>5, <1>6 DEF IsPart
<1> QED
  BY <1>7 DEF w, v, r, u

IsCut(u, t, p, n, S) ==
    \E m \in n .. Len(t) : IsPart(u, t, 0, m, S) /\ (m > n => t[n + 1] # p)

\* What precedes the first piece p is all that does not have it, at least.
LEMMA BeforeIs ==
    ASSUME NEW S, NEW t \in Seq(S), NEW p, NEW n \in 0 .. Len(t), \A i \in 1 .. n : t[i] # p
    PROVE  IsCut(Before(t, p), t, p, n, S)
<1> DEFINE A == {i \in 1 .. Len(t) : t[i] = p}
           at == SelectInSeq(t, LAMBDA q : q = p)
<1>0. Len(t) \in Nat
  OBVIOUS
<1>1. at = IF A # {} THEN Min(A) ELSE 0
  BY DEF SelectInSeq
<1>2. Before(t, p) = IF at = 0 THEN t ELSE SubSeq(t, 1, at - 1)
  BY DEF Before
<1> HIDE DEF at
<1>3. CASE A = {}
  <2>1. Before(t, p) = t
    BY <1>1, <1>2, <1>3
  <2>2. IsPart(t, t, 0, Len(t), S)
    BY <1>0 DEF IsPart
  <2>3. Len(t) > n => t[n + 1] # p
    BY <1>0, <1>3
  <2> QED
    BY <1>0, <2>1, <2>2, <2>3 DEF IsCut
<1>4. CASE A # {}
  <2>1. A \subseteq Nat
    OBVIOUS
  <2>2. \A i \in A : i \in 1 .. Len(t) /\ i > n
    BY <1>0
  <2>3. PICK k \in A : \A i \in A : k <= i
    <3> HIDE DEF A
    <3> QED
      BY <1>4, <2>1, LeastExists
  <2>4. n + 1 \in A => k = n + 1
    BY <1>0, <2>2, <2>3
  <2>5. n + 1 \in 1 .. Len(t) /\ t[n + 1] = p => n + 1 \in A
    OBVIOUS
  <2> HIDE DEF A
  <2>6. at = k
    <3>1. Min(A) \in A /\ \A i \in A : Min(A) <= i
      BY <2>3 DEF Min
    <3>2. Min(A) = k
      BY <2>2, <2>3, <3>1
    <3> QED
      BY <1>1, <1>4, <3>2
  <2>7. k - 1 \in n .. Len(t) /\ k # 0
    BY <1>0, <2>2, <2>3
  <2>8. Before(t, p) = SubSeq(t, 0 + 1, k - 1)
    BY <1>2, <2>6, <2>7
  <2>9. IsPart(Before(t, p), t, 0, k - 1, S)
    BY <1>0, <2>7, <2>8, PartExists
  <2>10. k - 1 > n => t[n + 1] # p
    BY <1>0, <2>2, <2>3, <2>4, <2>5
  <2> QED
    BY <2>7, <2>9, <2>10 DEF IsCut
<1> QED
  BY <1>3, <1>4

\* "scheme://host" and what follows it, in the form of an origin: position d is that of the
\* colon and n the end of the host.
IsSpelt(t, d, n, colon, slash, quest, hash) ==
    /\ d \in 1 .. n - 3 /\ n <= Len(t)
    /\ \A i \in 1 .. d - 1 : t[i] \notin {colon, slash, quest, hash}
    /\ t[d] = colon /\ t[d + 1] = slash /\ t[d + 2] = slash
    /\ \A i \in d + 3 .. n : t[i] \notin {slash, quest, hash}
    /\ n < Len(t) => t[n + 1] \in {slash, quest, hash}

\* Where the scheme may end.
Ends(t, colon, slash) ==
    { i \in 1 .. Len(t) - 2 : t[i] = colon /\ t[i + 1] = slash /\ t[i + 2] = slash }

LEMMA QueryCut ==
    ASSUME NEW S, NEW t \in Seq(S), NEW d \in Nat, NEW n \in Nat,
           NEW colon, NEW slash, NEW quest, NEW hash, IsSpelt(t, d, n, colon, slash, quest, hash),
           {colon, slash} \cap {quest, hash} = {}
    PROVE  \E m \in n .. Len(t) :
              /\ IsPart(Before(Before(t, hash), quest), t, 0, m, S)
              /\ m > n => t[n + 1] = slash
<1>1. Len(t) \in Nat /\ d >= 1 /\ d <= n - 3 /\ n <= Len(t)
  BY DEF IsSpelt
<1>2. ASSUME NEW i \in 1 .. n PROVE t[i] \notin {quest, hash}
  <2>1. i \in 1 .. d - 1 \/ i = d \/ i = d + 1 \/ i = d + 2 \/ i \in d + 3 .. n
    BY <1>1
  <2> QED
    BY <2>1 DEF IsSpelt
<1>3. PICK l \in n .. Len(t) : IsPart(Before(t, hash), t, 0, l, S) /\ (l > n => t[n + 1] # hash)
  <2>1. n \in 0 .. Len(t) /\ \A i \in 1 .. n : t[i] # hash
    BY <1>1, <1>2
  <2> QED
    BY <2>1, BeforeIs DEF IsCut
<1> DEFINE x == Before(t, hash)
           y == Before(x, quest)
<1>4. x \in Seq(S) /\ Len(x) = l /\ \A i \in 1 .. l : x[i] = t[i]
  <2> HIDE DEF x
  <2>1. IsPart(x, t, 0, l, S)
    BY <1>3 DEF x
  <2> QED
    BY <1>1, <2>1 DEF IsPart
<1> HIDE DEF x
<1>5. PICK m \in n .. Len(x) : IsPart(y, x, 0, m, S) /\ (m > n => x[n + 1] # quest)
  <2>1. n \in 0 .. Len(x) /\ \A i \in 1 .. n : x[i] # quest
    BY <1>1, <1>2, <1>4
  <2> QED
    BY <1>4, <2>1, BeforeIs DEF IsCut
<1> HIDE DEF y
<1>6. m \in n .. Len(t) /\ m <= l
  BY <1>1, <1>4
<1>7. IsPart(y, t, 0, m, S)
  BY <1>1, <1>4, <1>5, <1>6 DEF IsPart
<1>8. m > n => t[n + 1] = slash
  <2> SUFFICES ASSUME m > n PROVE t[n + 1] = slash
    OBVIOUS
  <2>1. l > n /\ n < Len(t) /\ n + 1 \in 1 .. l
    BY <1>1, <1>6
  <2>2. t[n + 1] # hash /\ t[n + 1] # quest
    BY <1>3, <1>4, <1>5, <2>1
  <2> QED
    BY <2>1, <2>2 DEF IsSpelt
<1> QED
  BY <1>6, <1>7, <1>8 DEF y, x

\* The scheme ends at its colon, whatever comes after it.
LEMMA SchemeEnd ==
    ASSUME NEW t, Len(t) \in Nat, NEW d \in Nat, NEW n \in Nat,
           NEW colon, NEW slash, NEW quest, NEW hash, IsSpelt(t, d, n, colon, slash, quest, hash),
           NEW text, NEW m \in n .. Len(t), Len(text) = m, \A i \in 1 .. m : text[i] = t[i]
    PROVE  Ends(text, colon, slash) # {} /\ Min(Ends(text, colon, slash)) = d
<1> DEFINE A == Ends(text, colon, slash)
<1>1. d >= 1 /\ d <= n - 3 /\ n <= Len(t)
  BY DEF IsSpelt
<1>2. d \in A
  <2>1. d \in 1 .. Len(text) - 2 /\ d \in 1 .. m /\ d + 1 \in 1 .. m /\ d + 2 \in 1 .. m
    BY <1>1
  <2> QED
    BY <2>1 DEF Ends, IsSpelt
<1>3. ASSUME NEW i \in A PROVE i \in Int /\ d <= i
  <2>1. i \in 1 .. m - 2 /\ text[i] = colon
    BY DEF Ends
  <2>2. i \in 1 .. m /\ t[i] = colon
    BY <2>1
  <2>3. i \notin 1 .. d - 1
    BY <2>2 DEF IsSpelt
  <2> QED
    BY <2>1, <2>3
<1> HIDE DEF A
<1>4. Min(A) \in A /\ \A i \in A : Min(A) <= i
  BY <1>2, <1>3 DEF Min
<1>5. Min(A) \in Int /\ Min(A) <= d /\ d <= Min(A)
  BY <1>2, <1>3, <1>4
<1>6. Min(A) = d
  BY <1>5
<1> QED
  BY <1>2, <1>6 DEF A

\* The host ends where the path begins.
LEMMA HostCut ==
    ASSUME NEW S, NEW t \in Seq(S), NEW d \in Nat, NEW n \in Nat,
           NEW colon, NEW slash, NEW quest, NEW hash, IsSpelt(t, d, n, colon, slash, quest, hash),
           NEW text \in Seq(S), NEW m \in n .. Len(t), Len(text) = m,
           \A i \in 1 .. m : text[i] = t[i], m > n => t[n + 1] = slash
    PROVE  LET host == SubSeq(text, d + 3, Len(text))
           IN  IsPart(trim_end_matches(SubSeq(text, 1, d + 2) \o Before(host, slash), slash),
                      t, 0, n, S)
<1> DEFINE host == SubSeq(text, d + 3, Len(text))
           cut == Before(host, slash)
           front == SubSeq(text, 1, d + 2)
           whole == front \o cut
           k == n - (d + 2)
<1>1. Len(t) \in Nat /\ m \in Nat /\ d >= 1 /\ d <= n - 3 /\ n <= m
  BY DEF IsSpelt
<1>2. host \in Seq(S) /\ Len(host) = m - (d + 2)
      /\ \A i \in 1 .. m - (d + 2) : host[i] = t[d + 2 + i]
  <2>1. d + 2 \in Nat /\ Len(text) \in d + 2 .. Len(text) /\ d + 3 = (d + 2) + 1
    BY <1>1
  <2>2. IsPart(SubSeq(text, (d + 2) + 1, Len(text)), text, d + 2, Len(text), S)
    BY <2>1, PartExists
  <2>3. IsPart(host, text, d + 2, m, S)
    BY <2>1, <2>2
  <2> HIDE DEF host
  <2>4. ASSUME NEW i \in 1 .. m - (d + 2) PROVE host[i] = t[d + 2 + i]
    <3>1. d + 2 + i \in 1 .. m
      BY <1>1
    <3> QED
      BY <2>3, <3>1 DEF IsPart
  <2> QED
    BY <2>3, <2>4 DEF IsPart
<1> HIDE DEF host
<1>3. cut \in Seq(S) /\ Len(cut) = k /\ \A i \in 1 .. k : cut[i] = t[d + 2 + i]
  <2>1. k \in 0 .. Len(host) /\ k >= 1
    BY <1>1, <1>2
  <2>2. ASSUME NEW i \in 1 .. k PROVE host[i] # slash
    <3>1. d + 2 + i \in d + 3 .. n /\ i \in 1 .. m - (d + 2)
      BY <1>1
    <3> QED
      BY <1>2, <3>1 DEF IsSpelt
  <2>3. PICK j \in k .. Len(host) : IsPart(cut, host, 0, j, S) /\ (j > k => host[k + 1] # slash)
    <3> HIDE DEF k
    <3>1. host \in Seq(S) /\ k \in 0 .. Len(host)
      BY <1>2, <2>1
    <3>2. IsCut(cut, host, slash, k, S)
      BY <2>2, <3>1, BeforeIs
    <3> QED
      BY <3>2 DEF IsCut
  <2>4. j = k
    <3> SUFFICES ASSUME j > k PROVE FALSE
      BY <2>1
    <3>1. m > n /\ k + 1 \in 1 .. m - (d + 2) /\ d + 2 + (k + 1) = n + 1
      BY <1>1, <1>2
    <3> QED
      BY <1>2, <2>3, <3>1
  <2> HIDE DEF cut
  <2>5. \A i \in 1 .. k : cut[i] = host[i] /\ host[i] = t[d + 2 + i]
    BY <1>1, <1>2, <2>1, <2>3, <2>4 DEF IsPart
  <2> QED
    BY <1>1, <2>1, <2>3, <2>4, <2>5 DEF IsPart
<1> HIDE DEF cut
<1>4. front \in Seq(S) /\ Len(front) = d + 2 /\ \A i \in 1 .. d + 2 : front[i] = t[i]
  <2>1. 0 \in Nat /\ d + 2 \in 0 .. Len(text) /\ 0 + 1 = 1
    BY <1>1
  <2>2. IsPart(SubSeq(text, 0 + 1, d + 2), text, 0, d + 2, S)
    BY <2>1, PartExists
  <2>3. IsPart(front, text, 0, d + 2, S)
    BY <2>1, <2>2
  <2> HIDE DEF front
  <2> QED
    BY <1>1, <2>3 DEF IsPart
<1> HIDE DEF front
<1>5. whole \in Seq(S) /\ Len(whole) = n /\ \A i \in 1 .. n : whole[i] = t[i]
  <2>1. IsJoined(whole, front, cut, S)
    BY <1>3, <1>4, Joined
  <2> HIDE DEF whole
  <2>2. ASSUME NEW i \in 1 .. n PROVE whole[i] = t[i]
    <3>1. CASE i \in 1 .. d + 2
      BY <1>4, <2>1, <3>1 DEF IsJoined
    <3>2. CASE i \notin 1 .. d + 2
      <4>1. i - (d + 2) \in 1 .. k /\ d + 2 + (i - (d + 2)) = i
        BY <1>1, <3>2
      <4>2. whole[d + 2 + (i - (d + 2))] = cut[i - (d + 2)]
        BY <1>3, <1>4, <2>1, <4>1 DEF IsJoined
      <4>3. cut[i - (d + 2)] = t[d + 2 + (i - (d + 2))]
        BY <1>3, <4>1
      <4> QED
        BY <4>1, <4>2, <4>3
    <3> QED
      BY <3>1, <3>2
  <2> QED
    BY <1>1, <1>3, <1>4, <2>1, <2>2 DEF IsJoined
<1> HIDE DEF whole
<1>6. n \in 1 .. n /\ n \in d + 3 .. n
  BY <1>1
<1>7. whole[n] # slash
  BY <1>5, <1>6 DEF IsSpelt
<1>8. IsPart(trim_end_matches(whole, slash), whole, 0, n, S)
  <2>1. n \in 0 .. Len(whole) /\ \A i \in n + 1 .. Len(whole) : whole[i] = slash
    BY <1>5
  <2> QED
    BY <1>5, <1>7, <2>1, TrimEndIs
<1>9. IsPart(trim_end_matches(whole, slash), t, 0, n, S)
  BY <1>1, <1>5, <1>8 DEF IsPart
<1> QED
  BY <1>9 DEF whole, front, cut, host

\* The last piece that is not p.
LEMMA LastExists ==
    ASSUME NEW S, NEW t \in Seq(S), NEW p, NEW n \in 1 .. Len(t), t[n] # p
    PROVE  \E e \in n .. Len(t) : t[e] # p /\ \A i \in e + 1 .. Len(t) : t[i] = p
<1> DEFINE L == Len(t)
           A == {j \in 0 .. L - n : t[L - j] # p}
<1>1. L \in Nat /\ n \in 1 .. L
  OBVIOUS
<1> HIDE DEF L
<1>2. A \subseteq Nat /\ L - n \in A
  <2>1. L - n \in 0 .. L - n /\ L - (L - n) = n
    BY <1>1
  <2> QED
    BY <2>1
<1>3. PICK j \in A : \A i \in A : j <= i
  <2> HIDE DEF A
  <2> QED
    BY <1>2, LeastExists
<1>4. L - j \in n .. L /\ t[L - j] # p
  BY <1>1
<1>5. ASSUME NEW i \in L - j + 1 .. L PROVE t[i] = p
  <2>1. L - i \in 0 .. L - n /\ L - (L - i) = i /\ ~(j <= L - i)
    BY <1>1
  <2>2. L - i \notin A
    BY <1>3, <2>1
  <2> QED
    BY <2>1, <2>2
<1> QED
  BY <1>4, <1>5 DEF L

\* A spelling of an origin, as IsOrigin has it, whatever the marks are.
Spelling(t, b, c, h, colon, slash, quest, hash, blank) ==
    /\ b \in Nat /\ c \in Nat /\ h \in Nat /\ b < c /\ c + 2 < h /\ h <= Len(t)
    /\ \A i \in 1 .. b : t[i] = blank
    /\ \A i \in b + 1 .. c - 1 : t[i] \notin {colon, slash, quest, hash, blank}
    /\ t[c] = colon /\ t[c + 1] = slash /\ t[c + 2] = slash
    /\ \A i \in c + 3 .. h : t[i] \notin {slash, quest, hash, blank}
    /\ \/ \A i \in h + 1 .. Len(t) : t[i] = blank
       \/ t[h + 1] \in {slash, quest, hash}

Trimmed(t, p) == Reverse(trim_end_matches(Reverse(trim_end_matches(t, p)), p))

\* Trimmed, it begins with the scheme and its end is not cut.
LEMMA SpellingTrimmed ==
    ASSUME NEW S, NEW t \in Seq(S), NEW b, NEW c, NEW h,
           NEW colon, NEW slash, NEW quest, NEW hash, NEW blank,
           blank \notin {colon, slash, quest, hash},
           Spelling(t, b, c, h, colon, slash, quest, hash, blank)
    PROVE  \E e \in h .. Len(t) :
              /\ IsPart(Trimmed(t, blank), t, b, e, S)
              /\ e > h => t[h + 1] \in {slash, quest, hash}
<1>1. /\ Len(t) \in Nat /\ b \in Nat /\ c \in Nat /\ h \in Nat
      /\ b < c /\ c + 2 < h /\ h <= Len(t)
  BY DEF Spelling
<1>2. h \in 1 .. Len(t) /\ t[h] # blank
  <2>1. h \in c + 3 .. h /\ h \in 1 .. Len(t)
    BY <1>1
  <2> QED
    BY <2>1 DEF Spelling
<1>3. PICK e \in h .. Len(t) : t[e] # blank /\ \A i \in e + 1 .. Len(t) : t[i] = blank
  BY <1>2, LastExists
<1>4. t[b + 1] # blank
  <2>1. b + 1 = c \/ b + 1 \in b + 1 .. c - 1
    BY <1>1
  <2> QED
    BY <2>1 DEF Spelling
<1>5. IsPart(Trimmed(t, blank), t, b, e, S)
  <2>1. b \in 0 .. Len(t) /\ e \in b + 1 .. Len(t)
    BY <1>1
  <2>2. \A i \in 1 .. b : t[i] = blank
    BY DEF Spelling
  <2> QED
    BY <1>3, <1>4, <2>1, <2>2, TrimIs DEF Trimmed
<1>6. e > h => t[h + 1] \in {slash, quest, hash}
  <2> SUFFICES ASSUME e > h PROVE t[h + 1] \in {slash, quest, hash}
    OBVIOUS
  <2>1. e \in h + 1 .. Len(t)
    BY <1>1
  <2> QED
    BY <1>3, <2>1 DEF Spelling
<1> QED
  BY <1>5, <1>6

\* What normalize_origin does with a text in lower case.
Cut(lower, colon, slash, quest, hash) ==
    LET text == Before(Before(lower, hash), quest)
        ends == Ends(text, colon, slash)
        host == SubSeq(text, Min(ends) + 3, Len(text))
    IN  trim_end_matches(
            IF ends = {} THEN text ELSE SubSeq(text, 1, Min(ends) + 2) \o Before(host, slash),
            slash)

LEMMA CutIs ==
    ASSUME NEW S, NEW t \in Seq(S), NEW d \in Nat, NEW n \in Nat,
           NEW colon, NEW slash, NEW quest, NEW hash, IsSpelt(t, d, n, colon, slash, quest, hash),
           {colon, slash} \cap {quest, hash} = {}
    PROVE  IsPart(Cut(t, colon, slash, quest, hash), t, 0, n, S)
<1> DEFINE text == Before(Before(t, hash), quest)
           A == Ends(text, colon, slash)
           cut == Before(SubSeq(text, d + 3, Len(text)), slash)
<1>1. PICK m \in n .. Len(t) : IsPart(text, t, 0, m, S) /\ (m > n => t[n + 1] = slash)
  BY QueryCut
<1>2. Len(t) \in Nat /\ m \in Nat
  OBVIOUS
<1>3. text \in Seq(S) /\ Len(text) = m /\ \A i \in 1 .. m : text[i] = t[i]
  <2> HIDE DEF text
  <2> QED
    BY <1>1, <1>2 DEF IsPart
<1>4. Cut(t, colon, slash, quest, hash) =
        trim_end_matches(
            IF A = {} THEN text
            ELSE SubSeq(text, 1, Min(A) + 2) \o Before(SubSeq(text, Min(A) + 3, Len(text)), slash),
            slash)
  BY Zenon DEF Cut
<1> HIDE DEF text
<1>5. A # {} /\ Min(A) = d
  BY <1>2, <1>3, SchemeEnd
<1> HIDE DEF A
<1>6. Cut(t, colon, slash, quest, hash) = trim_end_matches(SubSeq(text, 1, d + 2) \o cut, slash)
  BY <1>4, <1>5, Zenon
<1>7. IsPart(trim_end_matches(SubSeq(text, 1, d + 2) \o cut, slash), t, 0, n, S)
  BY <1>1, <1>3, HostCut, Zenon
<1> QED
  BY <1>6, <1>7, Zenon

CutRight(u, t, lw, b, h, colon, slash, quest, hash) ==
    Cut([i \in DOMAIN u |-> lw[u[i]]], colon, slash, quest, hash)
      = [i \in 1 .. h - b |-> lw[t[b + i]]]

\* In lower case the marks are where they were.
LEMMA SpellingCut ==
    ASSUME NEW S, NEW t \in Seq(S), NEW lw, S \subseteq DOMAIN lw, NEW b, NEW c, NEW h,
           NEW colon, NEW slash, NEW quest, NEW hash, NEW blank,
           blank \notin {colon, slash, quest, hash}, {colon, slash} \cap {quest, hash} = {},
           Spelling(t, b, c, h, colon, slash, quest, hash, blank),
           \A p \in S : p \in {colon, slash, quest, hash} \/ lw[p] \in {colon, slash, quest, hash}
                          => lw[p] = p,
           NEW u, u = Trimmed(t, blank)
    PROVE  CutRight(u, t, lw, b, h, colon, slash, quest, hash)
<1> DEFINE Q == {lw[p] : p \in S}
           lower == [i \in DOMAIN u |-> lw[u[i]]]
           d == c - b
           n == h - b
           marks == {colon, slash, quest, hash}
<1>1. /\ Len(t) \in Nat /\ b \in Nat /\ c \in Nat /\ h \in Nat
      /\ b < c /\ c + 2 < h /\ h <= Len(t)
  BY DEF Spelling
<1>2. PICK e \in h .. Len(t) :
              /\ IsPart(u, t, b, e, S)
              /\ e > h => t[h + 1] \in {slash, quest, hash}
  BY SpellingTrimmed
<1>3. /\ u \in Seq(S) /\ Len(u) = e - b /\ DOMAIN u = 1 .. e - b
      /\ \A i \in 1 .. e - b : u[i] = t[b + i] /\ u[i] \in S
  <2>1. u \in Seq(S) /\ Len(u) = e - b /\ \A i \in 1 .. e - b : u[i] = t[b + i]
    BY <1>2 DEF IsPart
  <2> QED
    BY <2>1
<1>4. /\ lower \in Seq(Q) /\ Len(lower) = e - b
      /\ \A i \in 1 .. e - b : lower[i] = lw[t[b + i]] /\ t[b + i] \in S
  <2>1. lower = [i \in 1 .. e - b |-> lw[u[i]]] /\ e - b \in Nat
    BY <1>1, <1>3
  <2>2. \A i \in 1 .. e - b : lw[u[i]] \in Q
    BY <1>3
  <2> HIDE DEF lower, Q
  <2>3. lower \in [1 .. e - b -> Q]
    BY <2>1, <2>2
  <2>4. lower \in Seq(Q) /\ Len(lower) = e - b
    BY <2>1, <2>3
  <2> QED
    BY <1>3, <2>1, <2>4
<1> HIDE DEF lower, Q, d, n
<1>5. d \in Nat /\ n \in Nat /\ d >= 1 /\ d <= n - 3 /\ n <= e - b /\ b + d = c /\ b + n = h
  BY <1>1 DEF d, n
<1>6. \A p \in S : (lw[p] \in marks => p \in marks /\ lw[p] = p) /\ (p \in marks => lw[p] = p)
  OBVIOUS
<1>7. IsSpelt(lower, d, n, colon, slash, quest, hash)
  <2>1. ASSUME NEW i \in 1 .. d - 1 PROVE lower[i] \notin marks
    <3>1. i \in 1 .. e - b /\ b + i \in b + 1 .. c - 1
      BY <1>1, <1>5
    <3>2. t[b + i] \notin marks
      BY <3>1 DEF Spelling
    <3> QED
      BY <1>4, <1>6, <3>1, <3>2
  <2>2. lower[d] = colon /\ lower[d + 1] = slash /\ lower[d + 2] = slash
    <3>1. /\ d \in 1 .. e - b /\ d + 1 \in 1 .. e - b /\ d + 2 \in 1 .. e - b
          /\ b + d = c /\ b + (d + 1) = c + 1 /\ b + (d + 2) = c + 2
      BY <1>1, <1>5
    <3>2. t[c] = colon /\ t[c + 1] = slash /\ t[c + 2] = slash
      BY DEF Spelling
    <3> QED
      BY <1>4, <1>6, <3>1, <3>2
  <2>3. ASSUME NEW i \in d + 3 .. n PROVE lower[i] \notin {slash, quest, hash}
    <3>1. i \in 1 .. e - b /\ b + i \in c + 3 .. h
      BY <1>1, <1>5
    <3>2. t[b + i] \notin {slash, quest, hash}
      BY <3>1 DEF Spelling
    <3> QED
      BY <1>4, <1>6, <3>1, <3>2
  <2>4. ASSUME n < Len(lower) PROVE lower[n + 1] \in {slash, quest, hash}
    <3>1. n + 1 \in 1 .. e - b /\ b + (n + 1) = h + 1 /\ e > h
      BY <1>1, <1>4, <1>5, <2>4
    <3>2. t[h + 1] \in {slash, quest, hash}
      BY <1>2, <3>1
    <3> QED
      BY <1>4, <1>6, <3>1, <3>2
  <2>5. d \in 1 .. n - 3 /\ n <= Len(lower)
    BY <1>4, <1>5
  <2> QED
    BY <2>1, <2>2, <2>3, <2>4, <2>5 DEF IsSpelt
<1> DEFINE cut == Cut(lower, colon, slash, quest, hash)
<1>8. IsPart(cut, lower, 0, n, Q)
  BY <1>4, <1>5, <1>7, CutIs
<1> HIDE DEF cut
<1>9. cut = [i \in 1 .. n |-> lw[t[b + i]]]
  <2>1. cut \in Seq(Q) /\ Len(cut) = n /\ \A i \in 1 .. n : cut[i] = lower[i]
    BY <1>5, <1>8 DEF IsPart
  <2>2. ASSUME NEW i \in 1 .. n PROVE cut[i] = lw[t[b + i]]
    <3>1. i \in 1 .. e - b
      BY <1>1, <1>5
    <3> QED
      BY <1>4, <2>1, <3>1
  <2>3. cut = [i \in 1 .. n |-> cut[i]]
    BY <2>1
  <2> QED
    BY <2>2, <2>3, Zenon
<1> QED
  BY <1>9, Zenon DEF CutRight, cut, lower, n

Three(t, i, x, y, z) ==
    SubSeq(t, i, i + 2) = <<x, y, z>> <=> t[i] = x /\ t[i + 1] = y /\ t[i + 2] = z

LEMMA ThreeOf ==
    ASSUME NEW t, NEW i \in Int, NEW x, NEW y, NEW z
    PROVE  Three(t, i, x, y, z)
<1> DEFINE A == {t[j] : j \in i .. i + 2}
           u == SubSeq(t, i, i + 2)
<1>1. u \in Seq(A) /\ Len(u) = 3 /\ \A j \in 1 .. 3 : u[j] = t[i + j - 1]
  <2>1. i + 2 \in Int /\ \A j \in i .. i + 2 : t[j] \in A
    OBVIOUS
  <2>2. /\ u \in Seq(A) /\ Len(u) = IF i <= i + 2 THEN i + 2 - i + 1 ELSE 0
        /\ \A j \in 1 .. i + 2 - i + 1 : u[j] = t[i + j - 1]
    <3> DEFINE k == i + 2
    <3>1. k \in Int /\ \A j \in i .. k : t[j] \in A
      BY <2>1
    <3> HIDE DEF k, A
    <3>2. /\ SubSeq(t, i, k) \in Seq(A) /\ Len(SubSeq(t, i, k)) = IF i <= k THEN k - i + 1 ELSE 0
          /\ \A j \in 1 .. k - i + 1 : SubSeq(t, i, k)[j] = t[i + j - 1]
      BY <3>1, SubSeqProperties
    <3> QED
      BY <3>2 DEF k
  <2>3. i <= i + 2 /\ i + 2 - i + 1 = 3
    OBVIOUS
  <2> QED
    BY <2>2, <2>3, Zenon
<1> HIDE DEF A, u
<1>2. u[1] = t[i] /\ u[2] = t[i + 1] /\ u[3] = t[i + 2]
  <2>1. /\ i + 1 - 1 = i /\ i + 2 - 1 = i + 1 /\ i + 3 - 1 = i + 2
        /\ 1 \in 1 .. 3 /\ 2 \in 1 .. 3 /\ 3 \in 1 .. 3
    OBVIOUS
  <2>2. u[1] = t[i + 1 - 1] /\ u[2] = t[i + 2 - 1] /\ u[3] = t[i + 3 - 1]
    BY <1>1, <2>1, Zenon
  <2> QED
    BY <2>1, <2>2, Zenon
<1>3. u = <<x, y, z>> <=> u[1] = x /\ u[2] = y /\ u[3] = z
  BY <1>1
<1> QED
  BY <1>2, <1>3, Zenon DEF u, Three

LEMMA SchemeEndsAre == \A text : SchemeEnds(text) = Ends(text, ":", "/")
<1> SUFFICES ASSUME NEW text PROVE SchemeEnds(text) = Ends(text, ":", "/")
  OBVIOUS
<1>1. ASSUME NEW i \in 1 .. Len(text) - 2
      PROVE  SubSeq(text, i, i + 2) = <<":", "/", "/">>
               <=> text[i] = ":" /\ text[i + 1] = "/" /\ text[i + 2] = "/"
  <2>1. i \in Int
    OBVIOUS
  <2> QED
    <3>1. Three(text, i, ":", "/", "/")
      BY <2>1, ThreeOf
    <3> QED
      BY <3>1, Zenon DEF Three
<1> QED
  BY <1>1, Zenon DEF SchemeEnds, Ends

\* normalize_origin makes of every spelling of an origin what it means, in which there is
\* no zero byte.
LEMMA OriginNormalized ==
    ASSUME "origin" \in DOMAIN Arguments, NEW a \in Arguments["origin"]
    PROVE  /\ normalize_origin(a.text) = a.means
           /\ IsText(a.means) /\ "0" \notin Range(a.means)
<1> DEFINE t == a.text
           S == DOMAIN Lowercase \ {"0"}
           u == Trimmed(t, " ")
           marks == {":", "/", "?", "#"}
<1>1. t \in Seq(S)
  <2>1. t \in Seq(Range(t)) /\ Range(t) \subseteq S
    BY OriginAssumption DEF IsText
  <2>2. \A A, B : A \subseteq B => \A s \in Seq(A) : s \in Seq(B)
    OBVIOUS
  <2> QED
    BY <2>1, <2>2, Zenon
<1>2. PICK b, c, h \in 0 .. Len(t) :
          /\ IsOrigin(t, b, c, h)
          /\ a.means = [i \in 1 .. h - b |-> Lowercase[t[b + i]]]
  BY OriginAssumption
<1>3. \A A : \A s \in Seq(A) : Len(s) \in Nat /\ \A i \in 1 .. Len(s) : s[i] \in A
  OBVIOUS
<1>4. Len(t) \in Nat /\ \A i \in 1 .. Len(t) : t[i] \in S
  BY <1>1, <1>3, Zenon
<1>5. Spelling(t, b, c, h, ":", "/", "?", "#", " ")
  <2>1. Len(t) \in Nat /\ b \in Nat /\ c \in Nat /\ h \in Nat /\ h <= Len(t)
    <3> HIDE DEF t
    <3> QED
      BY <1>4
  <2>2. \A p : p \notin Marks <=> p \notin {":", "/", "?", "#", " "}
    BY DEF Marks
  <2>3. \A p : p \notin Marks \ {":"} <=> p \notin {"/", "?", "#", " "}
    BY DEF Marks
  <2> HIDE DEF t
  <2> QED
    BY <1>2, <2>1, <2>2, <2>3, Zenon DEF IsOrigin, Spelling
<1>6. \A p \in S : /\ p \in marks \/ Lowercase[p] \in marks => Lowercase[p] = p
                   /\ Lowercase[p] # "0"
  BY ContextAssumption DEF Marks
<1>7. normalize_origin(t) = Cut([i \in DOMAIN u |-> Lowercase[u[i]]], ":", "/", "?", "#")
  <2>1. trim(t) = u
    BY Zenon DEF trim, Trimmed
  <2>2. \A text : SchemeEnds(text) = Ends(text, ":", "/")
    BY SchemeEndsAre
  <2> HIDE DEF t, u
  <2> QED
    BY <2>1, <2>2, Zenon DEF normalize_origin, Cut
<1>8. Cut([i \in DOMAIN u |-> Lowercase[u[i]]], ":", "/", "?", "#")
        = [i \in 1 .. h - b |-> Lowercase[t[b + i]]]
  <2>1. /\ " " \notin {":", "/", "?", "#"} /\ {":", "/"} \cap {"?", "#"} = {}
        /\ S \subseteq DOMAIN Lowercase
    OBVIOUS
  <2>2. \A p \in S : p \in {":", "/", "?", "#"} \/ Lowercase[p] \in {":", "/", "?", "#"}
                       => Lowercase[p] = p
    BY <1>6, Zenon
  <2>3. u = Trimmed(t, " ")
    OBVIOUS
  <2> HIDE DEF S, t, u
  <2>4. CutRight(u, t, Lowercase, b, h, ":", "/", "?", "#")
    BY <1>1, <1>5, <2>1, <2>2, <2>3, SpellingCut
  <2> QED
    BY <2>4, Zenon DEF CutRight
<1>9. normalize_origin(t) = a.means
  BY <1>2, <1>7, <1>8, Zenon
<1>10. IsText(a.means) /\ "0" \notin Range(a.means)
  <2> DEFINE zero == "0"
             n == h - b
             m == a.means
  <2>1. n \in Nat /\ \A i \in 1 .. n : b + i \in 1 .. Len(t)
    <3> HIDE DEF t
    <3>1. b \in Nat /\ c \in Nat /\ h \in Nat /\ b < c /\ c + 2 < h /\ h <= Len(t)
      BY <1>5, Zenon DEF Spelling
    <3>2. Len(t) \in Nat
      BY <1>4
    <3> QED
      BY <3>1, <3>2
  <2>2. \A i \in 1 .. n : Lowercase[t[b + i]] # zero
    BY <1>4, <1>6, <2>1
  <2>3. m = [i \in 1 .. n |-> Lowercase[t[b + i]]]
    BY <1>2
  <2> HIDE DEF zero, n, m, t
  <2>4. m \in [1 .. n -> Range(m)]
    BY <2>3 DEF Range
  <2>5. m \in Seq(Range(m))
    BY <2>1, <2>4
  <2>6. zero \notin Range(m)
    BY <2>2, <2>3 DEF Range
  <2> QED
    BY <2>5, <2>6 DEF IsText, zero, m
<1> QED
  BY <1>9, <1>10

-----------------------------------------------------------------------------
(* Bytes and meanings *)

\* A successful setter writes value under key, and means meaning by name.
Entry(key, value, name, meaning) ==
    \/ \E f \in DOMAIN Arguments : \E a \in Arguments[f] :
           /\ key = <<f>> /\ name = <<"field", f>> /\ meaning = a.means
           /\ value = IF f = "origin" THEN normalize_origin(a.text) ELSE a.text
    \/ \E k \in CustomKeys, v \in CustomValues :
           /\ key = custom_key(k.text) /\ name = <<"custom", k.means>>
           /\ value = v.text /\ meaning = v.means

\* The same key for the same name; then, the same value for the same meaning.
SameEntry(key, value, name, meaning, key2, value2, name2, meaning2) ==
    /\ key = key2 <=> name = name2
    /\ key = key2 => (value = value2 <=> meaning = meaning2)

LEMMA PrefixCancels ==
    ASSUME NEW x, NEW s, NEW t, s \in Seq(Range(s)), t \in Seq(Range(t)), <<x>> \o s = <<x>> \o t
    PROVE  s = t
<1> DEFINE S == {x} \cup Range(s) \cup Range(t)
           u == <<x>> \o s
           v == <<x>> \o t
<1>1. s \in Seq(S) /\ t \in Seq(S) /\ <<x>> \in Seq(S) /\ Len(<<x>>) = 1
  <2>1. \A A, B : A \subseteq B => \A r \in Seq(A) : r \in Seq(B)
    OBVIOUS
  <2>2. Range(s) \subseteq S /\ Range(t) \subseteq S
    OBVIOUS
  <2>3. s \in Seq(S) /\ t \in Seq(S)
    BY <2>1, <2>2, Zenon
  <2> QED
    BY <2>3
<1> HIDE DEF S
<1>2. IsJoined(u, <<x>>, s, S) /\ IsJoined(v, <<x>>, t, S)
  BY <1>1, Joined
<1>3. u = v
  OBVIOUS
<1> HIDE DEF u, v
<1>4. Len(s) = Len(t) /\ Len(s) \in Nat /\ \A i \in 1 .. Len(s) : s[i] = t[i]
  BY <1>1, <1>2, <1>3 DEF IsJoined
<1> QED
  BY <1>1, <1>4, SeqEqual, Zenon

LEMMA PrefixIsFirst == ASSUME NEW x, NEW s, s \in Seq(Range(s)) PROVE (<<x>> \o s)[1] = x
<1> DEFINE S == {x} \cup Range(s)
           u == <<x>> \o s
<1>1. s \in Seq(S) /\ <<x>> \in Seq(S) /\ Len(<<x>>) = 1 /\ <<x>>[1] = x
  <2>1. \A A, B : A \subseteq B => \A r \in Seq(A) : r \in Seq(B)
    OBVIOUS
  <2>2. Range(s) \subseteq S
    OBVIOUS
  <2>3. s \in Seq(S)
    BY <2>1, <2>2, Zenon
  <2> QED
    BY <2>3
<1> HIDE DEF S
<1>2. IsJoined(u, <<x>>, s, S)
  BY <1>1, Joined
<1> HIDE DEF u
<1>3. u[1] = x
  BY <1>1, <1>2 DEF IsJoined
<1> QED
  BY <1>3 DEF u

\* Writable are texts without a zero byte, and keys are in the order.
LEMMA EntryWritten ==
    ASSUME NEW key, NEW value, NEW name, NEW meaning, Entry(key, value, name, meaning)
    PROVE  key \in Range(SortedKeys) /\ value \in Seq(Pieces \ {"0"}) /\ name # <<"raw">>
<1>1. \A v \in Writable : IsText(v) /\ "0" \notin Range(v)
  <2>1. ASSUME NEW f \in DOMAIN Arguments \ {"origin"}, NEW a \in Arguments[f]
        PROVE  IsText(a.text) /\ "0" \notin Range(a.text)
    BY FieldsAssumption, Zenon DEF Meant
  <2>2. ASSUME NEW f \in DOMAIN Arguments \cap {"origin"}, NEW a \in Arguments[f]
        PROVE  IsText(a.means) /\ "0" \notin Range(a.means)
    <3>1. f = "origin"
      OBVIOUS
    <3> QED
      BY <3>1, OriginNormalized, Zenon
  <2>3. ASSUME NEW v \in CustomValues PROVE IsText(v.text) /\ "0" \notin Range(v.text)
    BY FieldsAssumption, Zenon DEF Meant
  <2> QED
    BY <2>1, <2>2, <2>3, Zenon DEF Writable
<1>2. \A v \in Writable : v \in Seq(Pieces \ {"0"})
  <2> SUFFICES ASSUME NEW v \in Writable PROVE v \in Seq(Pieces \ {"0"})
    OBVIOUS
  <2>1. Range(v) \subseteq Pieces \ {"0"}
    <3>1. "0" \notin Range(v) /\ Range(v) \in {Range(w) : w \in Writable}
      BY <1>1, Zenon
    <3>2. Range(v) \subseteq Pieces
      BY Zenon DEF Pieces
    <3> HIDE DEF Pieces
    <3> QED
      BY <3>1, <3>2
  <2>2. v \in Seq(Range(v))
    BY <1>1 DEF IsText
  <2>3. \A A, B : A \subseteq B => \A r \in Seq(A) : r \in Seq(B)
    OBVIOUS
  <2> QED
    BY <2>1, <2>2, <2>3, Zenon
<1>3. CASE \E f \in DOMAIN Arguments : \E a \in Arguments[f] :
           /\ key = <<f>> /\ name = <<"field", f>> /\ meaning = a.means
           /\ value = IF f = "origin" THEN normalize_origin(a.text) ELSE a.text
  <2>0. PICK f \in DOMAIN Arguments : \E a \in Arguments[f] :
           /\ key = <<f>> /\ name = <<"field", f>>
           /\ value = IF f = "origin" THEN normalize_origin(a.text) ELSE a.text
    BY <1>3, Zenon
  <2>1. PICK a \in Arguments[f] :
           /\ key = <<f>> /\ name = <<"field", f>>
           /\ value = IF f = "origin" THEN normalize_origin(a.text) ELSE a.text
    BY <2>0, Zenon
  <2>2. key \in Range(SortedKeys)
    BY <2>1, FieldsAssumption, Zenon
  <2>3. name # <<"raw">>
    <3>1. Len(<<"field", f>>) = 2 /\ Len(<<"raw">>) = 1
      OBVIOUS
    <3>2. Len(name) = 2
      BY <2>1, <3>1, Zenon
    <3> QED
      BY <3>1, <3>2
  <2>4. value \in Writable
    <3>1. CASE f = "origin"
      <4>1. value = a.means
        BY <2>1, <3>1, OriginNormalized, Zenon
      <4>2. f \in DOMAIN Arguments \cap {"origin"}
        BY <3>1
      <4>3. a.means \in {r.means : r \in
                                UNION {Arguments[g] : g \in DOMAIN Arguments \cap {"origin"}}}
        BY <4>2, Zenon
      <4> QED
        BY <4>1, <4>3, Zenon DEF Writable
    <3>2. CASE f # "origin"
      <4>1. value = a.text
        BY <2>1, <3>2, Zenon
      <4>2. f \in DOMAIN Arguments \ {"origin"}
        BY <3>2
      <4>3. a.text \in {r.text : r \in UNION {Arguments[g] : g \in DOMAIN Arguments \ {"origin"}}}
        BY <4>2, Zenon
      <4> QED
        BY <4>1, <4>3, Zenon DEF Writable
    <3> QED
      BY <3>1, <3>2, Zenon
  <2> QED
    BY <1>2, <2>2, <2>3, <2>4, Zenon
<1>4. CASE \E k \in CustomKeys, v \in CustomValues :
           /\ key = custom_key(k.text) /\ name = <<"custom", k.means>>
           /\ value = v.text /\ meaning = v.means
  <2>1. PICK k \in CustomKeys, v \in CustomValues :
           key = custom_key(k.text) /\ name = <<"custom", k.means>> /\ value = v.text
    BY <1>4, Zenon
  <2>2. key \in Range(SortedKeys)
    BY <2>1, FieldsAssumption, Zenon
  <2>3. name # <<"raw">>
    <3>1. Len(<<"custom", k.means>>) = 2 /\ Len(<<"raw">>) = 1
      OBVIOUS
    <3>2. Len(name) = 2
      BY <2>1, <3>1, Zenon
    <3> QED
      BY <3>1, <3>2
  <2>4. value \in Writable
    BY <2>1, Zenon DEF Writable
  <2> QED
    BY <1>2, <2>2, <2>3, <2>4, Zenon
<1> QED
  BY <1>3, <1>4, Zenon DEF Entry

LEMMA EntriesApart ==
    ASSUME NEW key, NEW value, NEW name, NEW meaning, Entry(key, value, name, meaning),
           NEW key2, NEW value2, NEW name2, NEW meaning2, Entry(key2, value2, name2, meaning2)
    PROVE  SameEntry(key, value, name, meaning, key2, value2, name2, meaning2)
<1> DEFINE Field(f, a, k, v, n, m) ==
               /\ k = <<f>> /\ n = <<"field", f>> /\ m = a.means
               /\ v = IF f = "origin" THEN normalize_origin(a.text) ELSE a.text
           Custom(r, s, k, v, n, m) ==
               /\ k = custom_key(r.text) /\ n = <<"custom", r.means>>
               /\ v = s.text /\ m = s.means
<1>1. \/ \E f \in DOMAIN Arguments : \E a \in Arguments[f] : Field(f, a, key, value, name, meaning)
      \/ \E r \in CustomKeys, s \in CustomValues : Custom(r, s, key, value, name, meaning)
  BY Zenon DEF Entry
<1>2. \/ \E f \in DOMAIN Arguments : \E a \in Arguments[f] :
            Field(f, a, key2, value2, name2, meaning2)
      \/ \E r \in CustomKeys, s \in CustomValues : Custom(r, s, key2, value2, name2, meaning2)
  BY Zenon DEF Entry
<1>3. \A f, g : (<<f>> = <<g>> <=> f = g) /\ (<<"field", f>> = <<"field", g>> <=> f = g)
  OBVIOUS
<1>4. \A r, s : (<<"custom", r>> = <<"custom", s>> <=> r = s) /\ <<"field", r>> # <<"custom", s>>
  OBVIOUS
<1>5. ASSUME NEW f \in DOMAIN Arguments, NEW a \in Arguments[f],
             Field(f, a, key, value, name, meaning),
             NEW g \in DOMAIN Arguments, NEW b \in Arguments[g],
             Field(g, b, key2, value2, name2, meaning2)
      PROVE  SameEntry(key, value, name, meaning, key2, value2, name2, meaning2)
  <2>1. key = key2 <=> name = name2
    BY <1>3, <1>5, Zenon
  <2>2. ASSUME key = key2 PROVE value = value2 <=> meaning = meaning2
    <3>1. f = g
      BY <1>3, <1>5, <2>2, Zenon
    <3>2. CASE f = "origin"
      <4>1. value = a.means /\ value2 = b.means
        BY <1>5, <3>1, <3>2, OriginNormalized, Zenon
      <4> QED
        BY <1>5, <4>1, Zenon
    <3>3. CASE f # "origin"
      <4>1. value = a.text /\ value2 = b.text
        BY <1>5, <3>1, <3>3, Zenon
      <4>2. a.text = b.text <=> a.means = b.means
        BY <3>1, <3>3, FieldsAssumption, Zenon DEF Meant
      <4> QED
        BY <1>5, <4>1, <4>2, Zenon
    <3> QED
      BY <3>2, <3>3, Zenon
  <2> QED
    BY <2>1, <2>2, Zenon DEF SameEntry
<1>6. ASSUME NEW r \in CustomKeys, NEW s \in CustomValues, Custom(r, s, key, value, name, meaning),
             NEW p \in CustomKeys, NEW q \in CustomValues,
             Custom(p, q, key2, value2, name2, meaning2)
      PROVE  SameEntry(key, value, name, meaning, key2, value2, name2, meaning2)
  <2>1. IsText(r.text) /\ IsText(p.text) /\ (r.text = p.text <=> r.means = p.means)
    BY FieldsAssumption, Zenon DEF Meant
  <2>2. s.text = q.text <=> s.means = q.means
    BY FieldsAssumption, Zenon DEF Meant
  <2>3. custom_key(r.text) = custom_key(p.text) <=> r.text = p.text
    BY <2>1, PrefixCancels, Zenon DEF custom_key, IsText
  <2> QED
    BY <1>4, <1>6, <2>1, <2>2, <2>3, Zenon DEF SameEntry
<1>7. ASSUME NEW f \in DOMAIN Arguments, NEW r \in CustomKeys
      PROVE  <<f>> # custom_key(r.text)
  <2>1. IsText(r.text)
    BY FieldsAssumption, Zenon DEF Meant
  <2>2. custom_key(r.text)[1] = "x-"
    BY <2>1, PrefixIsFirst, Zenon DEF custom_key, IsText
  <2>3. <<f>>[1] = f /\ f # "x-"
    BY FieldsAssumption
  <2> QED
    BY <2>2, <2>3, Zenon
<1>8. ASSUME NEW f \in DOMAIN Arguments, NEW a \in Arguments[f],
             Field(f, a, key, value, name, meaning),
             NEW p \in CustomKeys, NEW q \in CustomValues,
             Custom(p, q, key2, value2, name2, meaning2)
      PROVE  SameEntry(key, value, name, meaning, key2, value2, name2, meaning2)
  BY <1>4, <1>7, <1>8, Zenon DEF SameEntry
<1>9. ASSUME NEW f \in DOMAIN Arguments, NEW a \in Arguments[f],
             Field(f, a, key2, value2, name2, meaning2),
             NEW p \in CustomKeys, NEW q \in CustomValues,
             Custom(p, q, key, value, name, meaning)
      PROVE  SameEntry(key, value, name, meaning, key2, value2, name2, meaning2)
  BY <1>4, <1>7, <1>9, Zenon DEF SameEntry
<1> HIDE DEF Field, Custom
<1> QED
  BY <1>1, <1>2, <1>5, <1>6, <1>8, <1>9, Zenon

\* What a builder keeps is what its successful setters have written, and means what they meant.
Written(fields, means) ==
    /\ fields = [key \in DOMAIN fields |-> fields[key]]
    /\ means = [name \in DOMAIN means |-> means[name]]
    /\ \A key \in DOMAIN fields : \E name \in DOMAIN means :
          Entry(key, fields[key], name, means[name])
    /\ \A name \in DOMAIN means : \E key \in DOMAIN fields :
          Entry(key, fields[key], name, means[name])

IsInsert(g, f, k, v) ==
    /\ g = [x \in DOMAIN g |-> g[x]]
    /\ DOMAIN g = DOMAIN f \cup {k}
    /\ g[k] = v
    /\ \A x \in DOMAIN f : x # k => g[x] = f[x]

LEMMA InsertIs == ASSUME NEW f, NEW k, NEW v PROVE IsInsert(insert(f, k, v), f, k, v)
  BY DEF insert, IsInsert

LEMMA NothingWritten == Written(NoFields, NoFields)
<1>1. DOMAIN NoFields = {} /\ NoFields = [key \in DOMAIN NoFields |-> NoFields[key]]
  BY DEF NoFields
<1> QED
  BY <1>1 DEF Written

\* A setter writes an entry, or writes over the one of the same name.
LEMMA WriteKeeps ==
    ASSUME NEW fields, NEW means, Written(fields, means),
           NEW key, NEW value, NEW name, NEW meaning, Entry(key, value, name, meaning)
    PROVE  Written(insert(fields, key, value), insert(means, name, meaning))
<1> DEFINE f == insert(fields, key, value)
           m == insert(means, name, meaning)
<1>1. /\ f = [x \in DOMAIN f |-> f[x]] /\ DOMAIN f = DOMAIN fields \cup {key} /\ f[key] = value
      /\ \A x \in DOMAIN fields : x # key => f[x] = fields[x]
  <2>1. IsInsert(f, fields, key, value)
    BY InsertIs
  <2> HIDE DEF f
  <2> QED
    BY <2>1 DEF IsInsert
<1>2. /\ m = [x \in DOMAIN m |-> m[x]] /\ DOMAIN m = DOMAIN means \cup {name} /\ m[name] = meaning
      /\ \A x \in DOMAIN means : x # name => m[x] = means[x]
  <2>1. IsInsert(m, means, name, meaning)
    BY InsertIs
  <2> HIDE DEF m
  <2> QED
    BY <2>1 DEF IsInsert
<1> HIDE DEF f, m
<1>3. ASSUME NEW x \in DOMAIN f PROVE \E n \in DOMAIN m : Entry(x, f[x], n, m[n])
  <2>1. CASE x = key
    BY <1>1, <1>2, <2>1
  <2>2. CASE x # key
    <3>1. x \in DOMAIN fields /\ f[x] = fields[x]
      BY <1>1, <2>2
    <3>2. PICK n \in DOMAIN means : Entry(x, fields[x], n, means[n])
      BY <3>1 DEF Written
    <3>3. SameEntry(x, fields[x], n, means[n], key, value, name, meaning)
      BY <3>2, EntriesApart
    <3>4. n # name
      BY <2>2, <3>3 DEF SameEntry
    <3> QED
      BY <1>2, <3>1, <3>2, <3>4
  <2> QED
    BY <2>1, <2>2
<1>4. ASSUME NEW n \in DOMAIN m PROVE \E x \in DOMAIN f : Entry(x, f[x], n, m[n])
  <2>1. CASE n = name
    BY <1>1, <1>2, <2>1
  <2>2. CASE n # name
    <3>1. n \in DOMAIN means /\ m[n] = means[n]
      BY <1>2, <2>2
    <3>2. PICK x \in DOMAIN fields : Entry(x, fields[x], n, means[n])
      BY <3>1 DEF Written
    <3>3. SameEntry(x, fields[x], n, means[n], key, value, name, meaning)
      BY <3>2, EntriesApart
    <3>4. x # key
      BY <2>2, <3>3 DEF SameEntry
    <3> QED
      BY <1>1, <3>1, <3>2, <3>4
  <2> QED
    BY <2>1, <2>2
<1>5. Written(f, m)
  BY <1>1, <1>2, <1>3, <1>4 DEF Written
<1> QED
  BY <1>5 DEF f, m

\* The same fields have the same meanings, and have them only.
LEMMA WrittenApart ==
    ASSUME NEW fields, NEW means, Written(fields, means),
           NEW fields2, NEW means2, Written(fields2, means2)
    PROVE  fields = fields2 <=> means = means2
<1>1. ASSUME fields = fields2 PROVE means = means2
  <2>1. ASSUME NEW n \in DOMAIN means PROVE n \in DOMAIN means2 /\ means[n] = means2[n]
    <3>1. PICK x \in DOMAIN fields : Entry(x, fields[x], n, means[n])
      BY DEF Written
    <3>2. PICK p \in DOMAIN means2 : Entry(x, fields[x], p, means2[p])
      BY <1>1, <3>1 DEF Written
    <3>3. SameEntry(x, fields[x], n, means[n], x, fields[x], p, means2[p])
      BY <3>1, <3>2, EntriesApart
    <3> QED
      BY <3>2, <3>3 DEF SameEntry
  <2>2. ASSUME NEW n \in DOMAIN means2 PROVE n \in DOMAIN means
    <3>1. PICK x \in DOMAIN fields2 : Entry(x, fields2[x], n, means2[n])
      BY DEF Written
    <3>2. PICK p \in DOMAIN means : Entry(x, fields2[x], p, means[p])
      BY <1>1, <3>1 DEF Written
    <3>3. SameEntry(x, fields2[x], n, means2[n], x, fields2[x], p, means[p])
      BY <3>1, <3>2, EntriesApart
    <3> QED
      BY <3>2, <3>3 DEF SameEntry
  <2>3. DOMAIN means = DOMAIN means2
    BY <2>1, <2>2
  <2>4. [n \in DOMAIN means |-> means[n]] = [n \in DOMAIN means2 |-> means2[n]]
    BY <2>1, <2>3
  <2> QED
    BY <2>4, Zenon DEF Written
<1>2. ASSUME means = means2 PROVE fields = fields2
  <2>1. ASSUME NEW x \in DOMAIN fields PROVE x \in DOMAIN fields2 /\ fields[x] = fields2[x]
    <3>1. PICK n \in DOMAIN means : Entry(x, fields[x], n, means[n])
      BY DEF Written
    <3>2. PICK y \in DOMAIN fields2 : Entry(y, fields2[y], n, means[n])
      BY <1>2, <3>1 DEF Written
    <3>3. SameEntry(x, fields[x], n, means[n], y, fields2[y], n, means[n])
      BY <3>1, <3>2, EntriesApart
    <3> QED
      BY <3>2, <3>3 DEF SameEntry
  <2>2. ASSUME NEW x \in DOMAIN fields2 PROVE x \in DOMAIN fields
    <3>1. PICK n \in DOMAIN means2 : Entry(x, fields2[x], n, means2[n])
      BY DEF Written
    <3>2. PICK y \in DOMAIN fields : Entry(y, fields[y], n, means2[n])
      BY <1>2, <3>1 DEF Written
    <3>3. SameEntry(x, fields2[x], n, means2[n], y, fields[y], n, means2[n])
      BY <3>1, <3>2, EntriesApart
    <3> QED
      BY <3>2, <3>3 DEF SameEntry
  <2>3. DOMAIN fields = DOMAIN fields2
    BY <2>1, <2>2
  <2>4. [x \in DOMAIN fields |-> fields[x]] = [x \in DOMAIN fields2 |-> fields2[x]]
    BY <2>1, <2>3
  <2> QED
    BY <2>4, Zenon DEF Written
<1> QED
  BY <1>1, <1>2

LEMMA WrittenIsMap == ASSUME NEW fields, NEW means, Written(fields, means) PROVE IsMap(fields)
<1>1. ASSUME NEW x \in DOMAIN fields
      PROVE  x \in Range(SortedKeys) /\ fields[x] \in Seq(Pieces \ {"0"})
  <2>1. PICK n \in DOMAIN means : Entry(x, fields[x], n, means[n])
    BY Zenon DEF Written
  <2> QED
    BY <2>1, EntryWritten, Zenon
<1> QED
  BY <1>1, Zenon DEF IsMap, Written

\* The bytes of a context, made by the builder or given, and what they mean.
Bound(bytes, means) ==
    \/ \E fields : Written(fields, means) /\ bytes = build(fields)
    \/ bytes \in RawContexts /\ means = insert(NoFields, <<"raw">>, bytes)

LEMMA EmptyBound == Bound(<<>>, NoFields)
<1>1. IsMap(NoFields) /\ DOMAIN NoFields = {}
  BY NothingWritten, WrittenIsMap DEF NoFields
<1>2. build(NoFields) = <<>>
  <2>1. Lists(build(NoFields), SortedKeys, NoFields, Len(SortedKeys), "=", "0", Pieces)
    BY <1>1, BuildListed
  <2>2. \A i \in 1 .. Len(SortedKeys) : SortedKeys[i] \notin DOMAIN NoFields
    BY <1>1, Zenon
  <2> QED
    BY <2>1, <2>2, Zenon DEF Lists
<1> QED
  BY <1>2, NothingWritten DEF Bound

\* What is built is not what is given, nor has it the meaning.
LEMMA BuiltIsNotRaw ==
    ASSUME NEW fields, NEW means, Written(fields, means), NEW bytes \in RawContexts
    PROVE  build(fields) # bytes /\ means # insert(NoFields, <<"raw">>, bytes)
<1>1. Terminated(build(fields), "0")
  <2>1. Lists(build(fields), SortedKeys, fields, Len(SortedKeys), "=", "0", Pieces)
    BY WrittenIsMap, BuildListed
  <2> QED
    BY <2>1, Zenon DEF Lists
<1>2. bytes # <<>> /\ bytes[Len(bytes)] # "0"
  BY FieldsAssumption, Zenon
<1>3. ASSUME means = insert(NoFields, <<"raw">>, bytes) PROVE FALSE
  <2>1. DOMAIN means = DOMAIN NoFields \cup {<<"raw">>}
    BY <1>3, InsertIs, Zenon DEF IsInsert
  <2>2. <<"raw">> \in DOMAIN means
    BY <2>1, Zenon
  <2>3. PICK key \in DOMAIN fields : Entry(key, fields[key], <<"raw">>, means[<<"raw">>])
    BY <2>2, Zenon DEF Written
  <2> QED
    BY <2>3, EntryWritten, Zenon
<1> QED
  BY <1>1, <1>2, <1>3, Zenon DEF Terminated

\* Contexts have the same bytes when they mean the same, and only then.
LEMMA BoundApart ==
    ASSUME NEW bytes, NEW means, Bound(bytes, means), NEW bytes2, NEW means2, Bound(bytes2, means2)
    PROVE  bytes = bytes2 <=> means = means2
<1>1. CASE \E fields : Written(fields, means) /\ bytes = build(fields)
  <2>1. PICK f : Written(f, means) /\ bytes = build(f)
    BY <1>1
  <2>2. CASE \E fields : Written(fields, means2) /\ bytes2 = build(fields)
    <3>1. PICK g : Written(g, means2) /\ bytes2 = build(g)
      BY <2>2
    <3>2. f = g <=> means = means2
      BY <2>1, <3>1, WrittenApart
    <3>3. build(f) = build(g) => f = g
      BY <2>1, <3>1, WrittenIsMap, BuildTells
    <3> QED
      BY <2>1, <3>1, <3>2, <3>3, Zenon
  <2>3. CASE bytes2 \in RawContexts /\ means2 = insert(NoFields, <<"raw">>, bytes2)
    BY <2>1, <2>3, BuiltIsNotRaw, Zenon
  <2> QED
    BY <2>2, <2>3, Zenon DEF Bound
<1>2. CASE bytes \in RawContexts /\ means = insert(NoFields, <<"raw">>, bytes)
  <2>1. CASE \E fields : Written(fields, means2) /\ bytes2 = build(fields)
    <3>1. PICK g : Written(g, means2) /\ bytes2 = build(g)
      BY <2>1
    <3> QED
      BY <1>2, <3>1, BuiltIsNotRaw, Zenon
  <2>2. CASE bytes2 \in RawContexts /\ means2 = insert(NoFields, <<"raw">>, bytes2)
    <3>1. /\ IsInsert(means, NoFields, <<"raw">>, bytes)
          /\ IsInsert(means2, NoFields, <<"raw">>, bytes2)
      BY <1>2, <2>2, InsertIs
    <3>2. means[<<"raw">>] = bytes /\ means2[<<"raw">>] = bytes2
      BY <3>1, Zenon DEF IsInsert
    <3> QED
      BY <1>2, <2>2, <3>2, Zenon
  <2> QED
    BY <2>1, <2>2, Zenon DEF Bound
<1> QED
  BY <1>1, <1>2, Zenon DEF Bound

-----------------------------------------------------------------------------
(* What is on the heap means what its bytes say *)

\* A context, a code and a builder that is not consumed.
ObjectRight(o) ==
    /\ o.kind = "context" => Bound(o.bytes, o.means)
    /\ o.kind = "string" =>
          \E kind, means : o.of = Purpose(kind, means) /\ Bound(o.bytes, means)
    /\ o.kind = "builder" /\ o.inner # None => Written(o.inner[1], o.means)

HeapRight == \A a \in Addresses : ObjectRight(heap[a])

Right == IInv /\ HeapRight /\ BoundByMeaning

\* An object of the kinds that carry no context.
LEMMA OtherRight ==
    ASSUME NEW o, o.kind \notin {"context", "string", "builder"} PROVE ObjectRight(o)
  BY DEF ObjectRight

LEMMA RightInit == Init => Right
<1> SUFFICES ASSUME Init PROVE Right
  OBVIOUS
<1>1. HeapRight
  <2>1. \A a \in Addresses : heap[a] = Free
    BY DEF Init
  <2>2. ObjectRight(Free)
    BY OtherRight DEF Free
  <2> QED
    BY <2>1, <2>2 DEF HeapRight
<1>2. BoundByMeaning
  BY DEF Init, BoundByMeaning
<1> QED
  BY <1>1, <1>2, InvInit DEF Right

\* A step after which an object is as it was or right, and that gives no verdict.
LEMMA HeapStep ==
    ASSUME Right, UNCHANGED verdict,
           \A a \in Addresses : heap'[a] = heap[a] \/ ObjectRight(heap'[a])
    PROVE  HeapRight' /\ BoundByMeaning'
<1>1. \A a \in Addresses : ObjectRight(heap'[a])
  BY DEF Right, HeapRight
<1>2. BoundByMeaning'
  BY DEF Right, BoundByMeaning
<1> QED
  BY <1>1, <1>2 DEF HeapRight

LEMMA IdleRight == ASSUME Right, UNCHANGED vars PROVE HeapRight' /\ BoundByMeaning'
<1>1. UNCHANGED verdict /\ heap' = heap
  BY DEF vars
<1> QED
  BY <1>1, HeapStep

LEMMA RefuseRight == ASSUME Right, NEW error, Refuse(error) PROVE HeapRight' /\ BoundByMeaning'
  BY IdleRight DEF Refuse

LEMMA BoxRight ==
    ASSUME Right, NEW out, NEW object, ObjectRight(object), Box(out, object)
    PROVE  HeapRight' /\ BoundByMeaning'
<1>1. PICK a \in Addresses : heap' = [heap EXCEPT ![a] = object] /\ UNCHANGED verdict
  BY DEF Box
<1>2. \A b \in Addresses : heap'[b] = IF b = a THEN object ELSE heap[b]
  BY <1>1 DEF Right, IInv, TypeOK
<1> QED
  BY <1>1, <1>2, HeapStep

LEMMA CopyRight ==
    ASSUME Right, NEW out, NEW object, NEW empty, ObjectRight(object),
           copy_to_out(out, object, empty)
    PROVE  HeapRight' /\ BoundByMeaning'
  BY BoxRight, RefuseRight, IdleRight DEF copy_to_out, Succeed

LEMMA FreeRight == ASSUME Right, NEW v, free(v) PROVE HeapRight' /\ BoundByMeaning'
<1>1. \A a \in Addresses : heap'[a] = Free \/ heap'[a] = heap[a]
  BY DEF free
<1>2. ObjectRight(Free)
  BY OtherRight DEF Free
<1>3. UNCHANGED verdict
  BY DEF free
<1> QED
  BY <1>1, <1>2, <1>3, HeapStep

\* The object of a variable is right, and of the variable's kind.
LEMMA HeldRight ==
    ASSUME Right, NEW kind, NEW v \in OfKind(kind), Holds(v)
    PROVE  ObjectRight(At(v)) /\ At(v).kind = kind
<1>1. v \in Variables /\ KindOf[v] = kind
  BY DEF OfKind
<1>2. var[v] \in Addresses /\ At(v).kind = kind
  BY <1>1 DEF Right, IInv, TypeOK, Holds
<1> QED
  BY <1>2 DEF Right, HeapRight, At

LEMMA EmptyRight ==
    /\ ObjectRight(EmptyContext) /\ ObjectRight(Text)
    /\ EmptyContext.kind = "context" /\ EmptyContext.bytes = <<>> /\ EmptyContext.means = NoFields
<1>1. /\ EmptyContext.kind = "context" /\ EmptyContext.bytes = <<>>
      /\ EmptyContext.means = NoFields
  BY DEF EmptyContext
<1>2. ObjectRight(EmptyContext)
  BY <1>1, EmptyBound DEF ObjectRight
<1>3. Text.kind = "string" /\ Text.bytes = <<>> /\ Text.of = Purpose("text", NoFields)
  BY DEF Text
<1>4. ObjectRight(Text)
  BY <1>3, EmptyBound DEF ObjectRight
<1> QED
  BY <1>1, <1>2, <1>4

\* A builder is given an entry.
LEMMA ApplyRight ==
    ASSUME Right, NEW b \in OfKind("builder"), Holds(b),
           NEW key, NEW value, NEW name, NEW meaning, Entry(key, value, name, meaning),
           apply(b, key, value, name, meaning)
    PROVE  HeapRight' /\ BoundByMeaning'
<1>1. CASE Refuse("InvalidSecret")
  BY <1>1, RefuseRight
<1>2. CASE /\ At(b).inner # None
           /\ Update(b, Builder(Some(insert(At(b).inner[1], key, value)),
                                insert(At(b).means, name, meaning), At(b).delivered))
  <2> DEFINE fields == insert(At(b).inner[1], key, value)
             means == insert(At(b).means, name, meaning)
             object == Builder(Some(fields), means, At(b).delivered)
  <2>1. Written(At(b).inner[1], At(b).means)
    BY <1>2, HeldRight DEF ObjectRight
  <2>2. Written(fields, means)
    BY <2>1, WriteKeeps
  <2>3. heap' = [heap EXCEPT ![var[b]] = object] /\ UNCHANGED verdict
    BY <1>2 DEF Update
  <2> HIDE DEF fields, means
  <2>4. object.kind = "builder" /\ object.inner[1] = fields /\ object.means = means
    BY DEF Builder, Some
  <2> HIDE DEF object
  <2>5. ObjectRight(object)
    BY <2>2, <2>4 DEF ObjectRight
  <2>6. \A a \in Addresses : heap'[a] = IF a = var[b] THEN object ELSE heap[a]
    BY <2>3 DEF Right, IInv, TypeOK
  <2> QED
    BY <2>3, <2>5, <2>6, HeapStep
<1> QED
  BY <1>1, <1>2 DEF apply

\* A builder becomes a context.
LEMMA DeliverRight ==
    ASSUME Right, NEW b \in OfKind("builder"), Holds(b), At(b).inner # None,
           NEW out, Deliver(b, out)
    PROVE  HeapRight' /\ BoundByMeaning'
<1> DEFINE spent == Builder(None, At(b).means, At(b).delivered + 1)
           context == [kind |-> "context", bytes |-> build(At(b).inner[1]), means |-> At(b).means]
<1>1. PICK a \in Addresses :
          heap' = [heap EXCEPT ![var[b]] = spent, ![a] = context] /\ UNCHANGED verdict
  BY DEF Deliver
<1>2. Written(At(b).inner[1], At(b).means)
  BY HeldRight DEF ObjectRight
<1>3. spent.kind = "builder" /\ spent.inner = None
  BY DEF Builder
<1>4. /\ context.kind = "context"
      /\ context.bytes = build(At(b).inner[1]) /\ context.means = At(b).means
  OBVIOUS
<1> HIDE DEF spent, context
<1>5. ObjectRight(spent)
  BY <1>3 DEF ObjectRight
<1>6. ObjectRight(context)
  <2>1. Bound(context.bytes, context.means)
    BY <1>2, <1>4 DEF Bound
  <2> QED
    BY <1>4, <2>1 DEF ObjectRight
<1>7. \A c \in Addresses : heap'[c] = heap[c] \/ heap'[c] = spent \/ heap'[c] = context
  BY <1>1 DEF Right, IInv, TypeOK
<1> QED
  BY <1>1, <1>5, <1>6, <1>7, HeapStep

\* A code is generated for a context that is right.
LEMMA GenerateRight ==
    ASSUME Right, NEW g, NEW out, NEW context, context.kind = "context", ObjectRight(context),
           Generate(g, context, out)
    PROVE  HeapRight' /\ BoundByMeaning'
<1> DEFINE code == [kind |-> "string", of |-> Purpose(KindOf[g], context.means),
                    bytes |-> context.bytes]
<1>1. /\ code.kind = "string" /\ code.of = Purpose(KindOf[g], context.means)
      /\ code.bytes = context.bytes
  OBVIOUS
<1>2. copy_to_out(out, code, FALSE)
  BY DEF Generate
<1>3. Bound(context.bytes, context.means)
  BY DEF ObjectRight
<1> HIDE DEF code
<1>4. ObjectRight(code)
  BY <1>1, <1>3 DEF ObjectRight
<1> QED
  BY <1>2, <1>4, CopyRight

\* The verdict on a code: the bytes are compared, and tell what they mean.
LEMMA VerifyRight ==
    ASSUME Right, NEW g, NEW string, string.kind = "string", ObjectRight(string),
           NEW context, context.kind = "context", ObjectRight(context),
           Verify(g, string, context)
    PROVE  HeapRight' /\ BoundByMeaning'
<1>1. PICK kind : \E means : string.of = Purpose(kind, means) /\ Bound(string.bytes, means)
  BY DEF ObjectRight
<1>2. PICK means : string.of = Purpose(kind, means) /\ Bound(string.bytes, means)
  BY <1>1
<1>3. string.bytes = context.bytes <=> means = context.means
  <2>1. Bound(context.bytes, context.means)
    BY DEF ObjectRight
  <2> QED
    BY <1>2, <2>1, BoundApart
<1>4. string.of.kind = kind
  BY <1>2 DEF Purpose
<1>5. string.of = Purpose(KindOf[g], context.means) <=> kind = KindOf[g] /\ means = context.means
  <2>1. \A k, m : Purpose(k, m).kind = k /\ Purpose(k, m).means = m
    BY DEF Purpose
  <2>2. ASSUME Purpose(kind, means) = Purpose(KindOf[g], context.means)
        PROVE  kind = KindOf[g] /\ means = context.means
    <3>1. Purpose(kind, means).kind = kind /\ Purpose(kind, means).means = means
      BY <2>1, Zenon
    <3>2. /\ Purpose(KindOf[g], context.means).kind = KindOf[g]
          /\ Purpose(KindOf[g], context.means).means = context.means
      BY <2>1, Zenon
    <3> QED
      BY <2>2, <3>1, <3>2, Zenon
  <2> QED
    BY <1>2, <2>2, Zenon
<1>6. /\ verdict'.valid = (string.of.kind = KindOf[g] /\ string.bytes = context.bytes)
      /\ verdict'.meant = (string.of = Purpose(KindOf[g], context.means))
  BY DEF Verify
<1>7. BoundByMeaning'
  BY <1>3, <1>4, <1>5, <1>6 DEF BoundByMeaning
<1>8. HeapRight'
  <2>1. heap' = heap
    BY DEF Verify
  <2> QED
    BY <2>1 DEF Right, HeapRight
<1> QED
  BY <1>7, <1>8

-----------------------------------------------------------------------------
(* One lemma for each part of the program's next step *)

LEMMA HandleRight == ASSUME Right, Handle PROVE HeapRight' /\ BoundByMeaning'
<1> USE RefuseRight DEF NullPointer
<1>1. ASSUME NEW out, genotp_hotp_new(out) \/ genotp_totp_new(out)
      PROVE  HeapRight' /\ BoundByMeaning'
  <2>1. ObjectRight([kind |-> "hotp"]) /\ ObjectRight([kind |-> "totp"])
    BY OtherRight
  <2> QED
    BY <1>1, <2>1, BoxRight DEF genotp_hotp_new, genotp_totp_new
<1>2. ASSUME NEW out, NEW bytes \in RawContexts, genotp_context_from_bytes(bytes, out)
      PROVE  HeapRight' /\ BoundByMeaning'
  <2> DEFINE means == insert(NoFields, <<"raw">>, bytes)
             object == [EmptyContext EXCEPT !.bytes = bytes, !.means = means]
  <2>1. Bound(bytes, means)
    BY DEF Bound
  <2>2. NullPointer \/ Box(out, object)
    BY <1>2 DEF genotp_context_from_bytes
  <2> HIDE DEF means
  <2>3. object.kind = "context" /\ object.bytes = bytes /\ object.means = means
    BY DEF EmptyContext
  <2> HIDE DEF object
  <2>4. ObjectRight(object)
    BY <2>1, <2>3 DEF ObjectRight
  <2> QED
    BY <2>2, <2>4, BoxRight
<1>3. ASSUME NEW out, genotp_context_empty(out) PROVE HeapRight' /\ BoundByMeaning'
  BY <1>3, EmptyRight, BoxRight DEF genotp_context_empty
<1>4. ASSUME NEW v, handle_free(v) \/ buffer_free(v) PROVE HeapRight' /\ BoundByMeaning'
  BY <1>4, FreeRight DEF handle_free, buffer_free
<1> QED
  BY <1>1, <1>2, <1>3, <1>4 DEF Handle

LEMMA ContextBuilderRight == ASSUME Right, ContextBuilder PROVE HeapRight' /\ BoundByMeaning'
<1> USE RefuseRight DEF NullPointer, BadString
<1>1. ASSUME NEW out, genotp_context_builder_new(out) PROVE HeapRight' /\ BoundByMeaning'
  <2> DEFINE object == Builder(Some(NoFields), NoFields, 0)
  <2>1. object.kind = "builder" /\ object.inner[1] = NoFields /\ object.means = NoFields
    BY DEF Builder, Some
  <2>2. NullPointer \/ Box(out, object)
    BY <1>1 DEF genotp_context_builder_new
  <2> HIDE DEF object
  <2>3. ObjectRight(object)
    BY <2>1, NothingWritten DEF ObjectRight
  <2> QED
    BY <2>2, <2>3, BoxRight
<1>2. ASSUME NEW b \in OfKind("builder"), NEW field \in DOMAIN Arguments,
             NEW argument \in Arguments[field], genotp_context_builder_set(b, field, argument)
      PROVE  HeapRight' /\ BoundByMeaning'
  <2> DEFINE value == IF field = "origin" THEN normalize_origin(argument.text) ELSE argument.text
  <2>1. Entry(<<field>>, value, <<"field", field>>, argument.means)
    BY Zenon DEF Entry
  <2>2. \/ NullPointer \/ BadString
        \/ Holds(b) /\ apply(b, <<field>>, value, <<"field", field>>, argument.means)
    BY <1>2 DEF genotp_context_builder_set
  <2> HIDE DEF value
  <2> QED
    BY <2>1, <2>2, ApplyRight
<1>3. ASSUME NEW b \in OfKind("builder"), NEW key \in CustomKeys, NEW value \in CustomValues,
             genotp_context_builder_set_custom(b, key, value)
      PROVE  HeapRight' /\ BoundByMeaning'
  <2>1. Entry(custom_key(key.text), value.text, <<"custom", key.means>>, value.means)
    BY Zenon DEF Entry
  <2> QED
    BY <1>3, <2>1, ApplyRight DEF genotp_context_builder_set_custom
<1>4. ASSUME NEW b \in OfKind("builder"), NEW out, genotp_context_builder_build(b, out)
      PROVE  HeapRight' /\ BoundByMeaning'
  BY <1>4, DeliverRight DEF genotp_context_builder_build
<1> QED
  BY <1>1, <1>2, <1>3, <1>4, Zenon DEF ContextBuilder

LEMMA CodesRight == ASSUME Right, Codes PROVE HeapRight' /\ BoundByMeaning'
<1> USE GenerateRight, VerifyRight, HeldRight, EmptyRight, RefuseRight
    DEF NullPointer, BadString, BadTime
<1>1. ASSUME NEW g, NEW s \in OfKind("string"),
             genotp_hotp_generate(g, s) \/ genotp_totp_generate(g, s)
      PROVE  HeapRight' /\ BoundByMeaning'
  BY <1>1 DEF genotp_hotp_generate, genotp_totp_generate
<1>2. ASSUME NEW g, NEW s \in OfKind("string"),
             \/ genotp_hotp_verify(g, s) \/ genotp_totp_verify(g, s)
             \/ genotp_hotp_verify_with_resync(g, s)
      PROVE  HeapRight' /\ BoundByMeaning'
  BY <1>2 DEF genotp_hotp_verify, genotp_totp_verify, genotp_hotp_verify_with_resync
<1>3. ASSUME NEW g, NEW c \in OfKind("context"), NEW s \in OfKind("string"),
             genotp_hotp_generate_bound(g, c, s) \/ genotp_totp_generate_bound(g, c, s)
      PROVE  HeapRight' /\ BoundByMeaning'
  BY <1>3 DEF genotp_hotp_generate_bound, genotp_totp_generate_bound
<1>4. ASSUME NEW g, NEW c \in OfKind("context"), NEW s \in OfKind("string"),
             genotp_hotp_verify_bound(g, c, s) \/ genotp_totp_verify_bound(g, c, s)
      PROVE  HeapRight' /\ BoundByMeaning'
  BY <1>4 DEF genotp_hotp_verify_bound, genotp_totp_verify_bound
<1> QED
  BY <1>1, <1>2, <1>3, <1>4 DEF Codes

LEMMA SharedRight == ASSUME Right, Shared PROVE HeapRight' /\ BoundByMeaning'
<1> USE RefuseRight, IdleRight DEF NullPointer, BadString, Succeed
<1>1. ASSUME NEW out, genotp_verifier_new(out) \/ genotp_skew_detector_new(out)
      PROVE  HeapRight' /\ BoundByMeaning'
  <2>1. ObjectRight([kind |-> "verifier"]) /\ ObjectRight([kind |-> "skew"])
    BY OtherRight
  <2> QED
    BY <1>1, <2>1, BoxRight DEF genotp_verifier_new, genotp_skew_detector_new
<1>2. ASSUME NEW v, \/ genotp_verifier_verify(v) \/ genotp_verifier_is_rate_limited(v)
                    \/ genotp_verifier_reset_attempts(v)
                    \/ genotp_skew_detector_enable_auto_adjust(v)
                    \/ genotp_skew_detector_current_offset(v)
      PROVE  HeapRight' /\ BoundByMeaning'
  BY <1>2 DEF genotp_verifier_verify, genotp_verifier_is_rate_limited,
              genotp_verifier_reset_attempts, genotp_skew_detector_enable_auto_adjust,
              genotp_skew_detector_current_offset
<1>3. ASSUME NEW v, NEW issued, NEW request,
             genotp_verifier_verify_with_context(v, issued, request)
      PROVE  HeapRight' /\ BoundByMeaning'
  BY <1>3 DEF genotp_verifier_verify_with_context
<1> QED
  BY <1>1, <1>2, <1>3 DEF Shared

LEMMA BuffersRight == ASSUME Right, Buffers PROVE HeapRight' /\ BoundByMeaning'
<1> USE BoxRight, CopyRight, RefuseRight, IdleRight, EmptyRight
    DEF NullPointer, BadString, Succeed
<1>1. ObjectRight([kind |-> "uri"]) /\ ObjectRight([kind |-> "bytes"])
  BY OtherRight
<1>2. ASSUME NEW out, genotp_otpauth_uri_new(out) \/ genotp_otpauth_uri_set(out)
      PROVE  HeapRight' /\ BoundByMeaning'
  BY <1>1, <1>2 DEF genotp_otpauth_uri_new, genotp_otpauth_uri_set
<1>3. ASSUME NEW u, NEW s, genotp_otpauth_uri_build(u, s) PROVE HeapRight' /\ BoundByMeaning'
  BY <1>3 DEF genotp_otpauth_uri_build
<1>4. ASSUME NEW out, NEW empty, genotp_generate_secret(out) \/ genotp_base32_decode(out, empty)
      PROVE  HeapRight' /\ BoundByMeaning'
  BY <1>1, <1>4 DEF genotp_generate_secret, genotp_base32_decode
<1>5. ASSUME NEW out, NEW empty, genotp_base32_encode(out, empty) \/ genotp_error_message(out)
      PROVE  HeapRight' /\ BoundByMeaning'
  BY <1>5 DEF genotp_base32_encode, genotp_error_message
<1>6. ASSUME genotp_fill_secret PROVE HeapRight' /\ BoundByMeaning'
  BY <1>6 DEF genotp_fill_secret
<1> QED
  BY <1>2, <1>3, <1>4, <1>5, <1>6 DEF Buffers

\* A code verifies exactly when it comes from the same generator and was bound to a context
\* that means the same, whatever was set, in whichever order and however often it was refused:
\* the bytes that build makes say which fields were set and to what, and nothing else does.
THEOREM BoundByMeaningHolds == Spec => []BoundByMeaning
<1>1. ASSUME Right, IInv', [Next]_vars PROVE Right'
  <2>1. CASE UNCHANGED vars
    BY <1>1, <2>1, IdleRight DEF Right
  <2>2. CASE Next
    BY <1>1, <2>2, HandleRight, ContextBuilderRight, CodesRight, SharedRight, BuffersRight
       DEF Next, Right
  <2> QED
    BY <1>1, <2>1, <2>2
<1>2. Right => BoundByMeaning
  BY DEF Right
<1> QED
  BY <1>1, <1>2, RightInit, InvHolds, PTL DEF Spec
=============================================================================
