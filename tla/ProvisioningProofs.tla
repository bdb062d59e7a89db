------------------------- MODULE ProvisioningProofs -------------------------
(***************************************************************************)
(* Theorems about Provisioning: what build writes, an app reads back, for  *)
(* every text, whatever characters are in it, and every choice of fields.  *)
(*                                                                         *)
(* A text is as long as it likes, so what is said of it is said by         *)
(* induction.  An induction is over a set here: the set of the numbers, or *)
(* of the texts, of which the fact holds.                                  *)
(***************************************************************************)
EXTENDS Provisioning, FiniteSetTheorems, SequenceTheorems, TLAPS

-----------------------------------------------------------------------------
(* Induction, and the flattening of sequences *)

\* Induction over the natural numbers, for a set.  If n were missing, so would be a smaller
\* number for each number up to n that is missing: as many, without n.
LEMMA Induction ==
    ASSUME NEW S, 0 \in S, \A n \in Nat : n \in S => n + 1 \in S
    PROVE  Nat \subseteq S
<1> SUFFICES ASSUME NEW n \in Nat, n \notin S PROVE FALSE
  OBVIOUS
<1> DEFINE Missing == (0 .. n) \ S
           before  == [m \in Missing |-> m - 1]
<1>1. IsFiniteSet(Missing) /\ Cardinality(Missing) \in Nat
  <2>1. IsFiniteSet(0 .. n)
    BY FS_Interval
  <2> QED
    BY <2>1, FS_Subset, FS_CardinalityType
<1>2. n \in Missing /\ IsFiniteSet(Missing \ {n})
      /\ Cardinality(Missing \ {n}) = Cardinality(Missing) - 1
  <2>1. n \in Missing
    OBVIOUS
  <2> HIDE DEF Missing
  <2> QED
    BY <1>1, <2>1, FS_RemoveElement
<1>3. before \in Injection(Missing, Missing \ {n})
  <2>1. ASSUME NEW m \in Missing PROVE m - 1 \in Missing \ {n}
    <3>1. m \in Nat /\ m <= n /\ m # 0
      OBVIOUS
    <3>2. m - 1 \in Nat /\ m - 1 < n /\ (m - 1) + 1 = m
      BY <3>1
    <3>3. m - 1 \notin S
      BY <3>2
    <3> QED
      BY <3>2, <3>3
  <2>2. \A l, m \in Missing : l - 1 = m - 1 => l = m
    OBVIOUS
  <2> HIDE DEF Missing
  <2> QED
    BY <2>1, <2>2 DEF Injection, IsInjective
<1> HIDE DEF Missing, before
<1>4. Cardinality(Missing) <= Cardinality(Missing \ {n})
  BY <1>2, <1>3, FS_Injection
<1> QED
  BY <1>1, <1>2, <1>4


\* Induction over sequences: every sequence comes from the empty one by appending.
LEMMA SeqInduction ==
    ASSUME NEW S, NEW T, <<>> \in T,
           \A seq \in Seq(S) \cap T : \A e \in S : Append(seq, e) \in T
    PROVE  Seq(S) \subseteq T
<1> DEFINE N == {n \in Nat : \A seq \in Seq(S) : Len(seq) = n => seq \in T}
<1>1. 0 \in N
  BY DEF N
<1>2. ASSUME NEW n \in Nat, n \in N PROVE n + 1 \in N
  <2> SUFFICES ASSUME NEW seq \in Seq(S), Len(seq) = n + 1 PROVE seq \in T
    OBVIOUS
  <2> DEFINE front == SubSeq(seq, 1, n)
  <2>1. front \in Seq(S) /\ Len(front) = n /\ \A i \in 1 .. n : front[i] = seq[i]
    OBVIOUS
  <2>2. seq[n + 1] \in S
    OBVIOUS
  <2> HIDE DEF front
  <2>3. seq = Append(front, seq[n + 1])
    BY <2>1, <2>2
  <2>4. front \in T
    BY <1>2, <2>1
  <2> QED
    BY <2>1, <2>2, <2>3, <2>4
<1> HIDE DEF N
<1>3. Nat \subseteq N
  BY <1>1, <1>2, Induction
<1> QED
  BY <1>3 DEF N

\* f flattens the first sequences of a sequence of them, as many as it is asked for.
IsFlat(f, ss, S) ==
    /\ f \in [0 .. Len(ss) -> Seq(S)]
    /\ f[0] = <<>>
    /\ \A i \in 1 .. Len(ss) : f[i] = f[i - 1] \o ss[i]

LEMMA FlattenIsFlat ==
    ASSUME NEW S, NEW ss \in Seq(Seq(S)), NEW f, IsFlat(f, ss, S)
    PROVE  FlattenSeq(ss) = f[Len(ss)]
<1> DEFINE n == Len(ss)
           Equation(g) == g = [i \in 1 .. Len(ss) |-> IF i = 1 THEN ss[i] ELSE g[i - 1] \o ss[i]]
           flatten == CHOOSE g : Equation(g)
<1>1. n \in Nat
  OBVIOUS
<1>2. CASE n = 0
  <2>1. FlattenSeq(ss) = ss /\ ss = <<>>
    BY <1>2 DEF FlattenSeq
  <2> QED
    BY <1>2, <2>1 DEF IsFlat
<1>3. CASE n # 0
  <2>1. FlattenSeq(ss) = flatten[n]
    BY <1>3, Zenon DEF FlattenSeq
  <2> DEFINE h == [i \in 1 .. n |-> f[i]]
  <2>2. Equation(h)
    <3>1. ASSUME NEW i \in 1 .. n
          PROVE  h[i] = IF i = 1 THEN ss[i] ELSE h[i - 1] \o ss[i]
      <4>1. CASE i = 1
        <5>1. 1 \in 1 .. Len(ss) /\ 1 - 1 = 0
          BY <4>1
        <5>2. ss[1] \in Seq(S)
          BY <5>1
        <5>3. f[1] = f[1 - 1] \o ss[1] /\ f[0] = <<>>
          BY <5>1 DEF IsFlat
        <5>4. f[1] = ss[1]
          BY <5>1, <5>2, <5>3, ConcatEmptySeq
        <5> QED
          BY <4>1, <5>1, <5>4
      <4>2. CASE i # 1
        <5>1. i \in 1 .. Len(ss) /\ i - 1 \in 1 .. n
          BY <4>2
        <5>2. h[i] = f[i] /\ h[i - 1] = f[i - 1]
          BY <5>1
        <5>3. f[i] = f[i - 1] \o ss[i]
          BY <5>1 DEF IsFlat
        <5> QED
          BY <4>2, <5>2, <5>3
      <4> QED
        BY <4>1, <4>2
    <3> QED
      BY <3>1
  <2> HIDE DEF Equation, h
  <2>3. Equation(flatten)
    BY <2>2
  <2> HIDE DEF n, flatten
  <2>4. \A i \in 1 .. n : flatten[i] = IF i = 1 THEN ss[i] ELSE flatten[i - 1] \o ss[i]
    <3>1. flatten = [i \in 1 .. n |-> IF i = 1 THEN ss[i] ELSE flatten[i - 1] \o ss[i]]
      BY <2>3, Zenon DEF Equation, n
    <3> QED
      BY <3>1, Zenon
  <2>5. \A i \in 1 .. n : f[i] = IF i = 1 THEN ss[i] ELSE f[i - 1] \o ss[i]
    <3>1. \A i \in 1 .. n : h[i] = IF i = 1 THEN ss[i] ELSE h[i - 1] \o ss[i]
      BY <2>2, Zenon DEF Equation, n
    <3>2. \A i \in 1 .. n : h[i] = f[i]
      BY DEF h
    <3>3. \A i \in 1 .. n : i # 1 => i - 1 \in 1 .. n
      BY <1>1
    <3> QED
      BY <3>1, <3>2, <3>3
  <2> DEFINE N == {m \in Nat : m \in 1 .. n => flatten[m] = f[m]}
  <2>6. 0 \in N
    OBVIOUS
  <2>7. ASSUME NEW m \in Nat, m \in N PROVE m + 1 \in N
    BY <1>1, <2>4, <2>5, <2>7
  <2> HIDE DEF N
  <2>8. Nat \subseteq N
    BY <2>6, <2>7, Induction
  <2>9. flatten[n] = f[n]
    BY <1>1, <1>3, <2>8 DEF N
  <2> QED
    BY <2>1, <2>9 DEF n
<1> QED
  BY <1>2, <1>3

LEMMA FlatAppend ==
    ASSUME NEW S, NEW ss \in Seq(Seq(S)), NEW f, IsFlat(f, ss, S), NEW e \in Seq(S)
    PROVE  \E g : IsFlat(g, Append(ss, e), S) /\ g[Len(ss) + 1] = f[Len(ss)] \o e
<1> DEFINE n == Len(ss)
           q == Append(ss, e)
           g == [i \in 0 .. n + 1 |-> IF i = n + 1 THEN f[n] \o e ELSE f[i]]
<1>1. /\ n \in Nat /\ Len(q) = n + 1 /\ q[n + 1] = e
      /\ \A i \in 1 .. n : q[i] = ss[i]
  OBVIOUS
<1>2. /\ f \in [0 .. n -> Seq(S)] /\ f[0] = <<>>
      /\ \A i \in 1 .. n : f[i] = f[i - 1] \o ss[i]
  BY DEF IsFlat
<1> HIDE DEF n, q
<1>3. f[n] \o e \in Seq(S)
  BY <1>1, <1>2
<1>4. g \in [0 .. n + 1 -> Seq(S)] /\ g[0] = <<>>
  BY <1>1, <1>2, <1>3
<1>5. ASSUME NEW i \in 1 .. n + 1 PROVE g[i] = g[i - 1] \o q[i]
  <2>1. CASE i = n + 1
    <3>1. g[n + 1] = f[n] \o e /\ g[(n + 1) - 1] = f[n]
      BY <1>1
    <3> QED
      BY <1>1, <2>1, <3>1
  <2>2. CASE i \in 1 .. n
    <3>1. g[i] = f[i] /\ g[i - 1] = f[i - 1] /\ q[i] = ss[i]
      BY <1>1, <2>2
    <3>2. f[i] = f[i - 1] \o ss[i]
      BY <1>2, <2>2
    <3> QED
      BY <3>1, <3>2
  <2>3. i = n + 1 \/ i \in 1 .. n
    BY <1>1
  <2> QED
    BY <2>1, <2>2, <2>3
<1>6. g[n + 1] = f[n] \o e
  BY <1>1
<1> HIDE DEF g
<1>7. IsFlat(g, q, S)
  BY <1>1, <1>4, <1>5 DEF IsFlat
<1> QED
  BY <1>6, <1>7 DEF n, q

LEMMA FlatExists == ASSUME NEW S, NEW ss \in Seq(Seq(S)) PROVE \E f : IsFlat(f, ss, S)
<1> DEFINE T == {s \in Seq(Seq(S)) : \E f : IsFlat(f, s, S)}
<1>1. <<>> \in T
  <2>1. IsFlat([i \in 0 .. 0 |-> <<>>], <<>>, S)
    BY DEF IsFlat
  <2> QED
    BY <2>1
<1>2. \A s \in Seq(Seq(S)) \cap T : \A e \in Seq(S) : Append(s, e) \in T
  <2> SUFFICES ASSUME NEW s \in Seq(Seq(S)) \cap T, NEW e \in Seq(S) PROVE Append(s, e) \in T
    OBVIOUS
  <2>1. PICK f : IsFlat(f, s, S)
    OBVIOUS
  <2>2. s \in Seq(Seq(S)) /\ Append(s, e) \in Seq(Seq(S))
    OBVIOUS
  <2> HIDE DEF T
  <2>3. \E g : IsFlat(g, Append(s, e), S)
    BY <2>1, <2>2, FlatAppend
  <2> QED
    BY <2>2, <2>3 DEF T
<1> HIDE DEF T
<1>3. Seq(Seq(S)) \subseteq T
  BY <1>1, <1>2, SeqInduction, Zenon
<1> QED
  BY <1>3 DEF T

\* Flattening is concatenating one after the other.
LEMMA FlattenEmpty == FlattenSeq(<<>>) = <<>>
  BY DEF FlattenSeq

LEMMA FlattenAppend ==
    ASSUME NEW S, NEW ss \in Seq(Seq(S)), NEW e \in Seq(S)
    PROVE  /\ FlattenSeq(ss) \in Seq(S)
           /\ FlattenSeq(Append(ss, e)) = FlattenSeq(ss) \o e
<1>1. PICK f : IsFlat(f, ss, S)
  BY FlatExists
<1>2. FlattenSeq(ss) = f[Len(ss)] /\ f[Len(ss)] \in Seq(S)
  <2>1. Len(ss) \in 0 .. Len(ss)
    OBVIOUS
  <2> QED
    BY <1>1, <2>1, FlattenIsFlat DEF IsFlat
<1>3. PICK g : IsFlat(g, Append(ss, e), S) /\ g[Len(ss) + 1] = f[Len(ss)] \o e
  BY <1>1, FlatAppend
<1>4. Append(ss, e) \in Seq(Seq(S)) /\ Len(Append(ss, e)) = Len(ss) + 1
  OBVIOUS
<1>5. FlattenSeq(Append(ss, e)) = g[Len(ss) + 1]
  BY <1>3, <1>4, FlattenIsFlat
<1> QED
  BY <1>2, <1>3, <1>5

-----------------------------------------------------------------------------
(* Percent-encoding and its inverse *)

\* The pieces of the texts: an alphabet has the encoded characters and their codes.
Alphabet(S) ==
    /\ OTPAUTH_ENCODE_SET \subseteq S
    /\ \A c \in OTPAUTH_ENCODE_SET : Hex[c] \in S

LEMMA HexTable ==
    /\ Hex[" "] = "20" /\ Hex["\""] = "22" /\ Hex["#"] = "23" /\ Hex["%"] = "25"
    /\ Hex["&"] = "26" /\ Hex["+"] = "2B" /\ Hex[","] = "2C" /\ Hex["/"] = "2F"
    /\ Hex[":"] = "3A" /\ Hex[";"] = "3B" /\ Hex["<"] = "3C" /\ Hex["="] = "3D"
    /\ Hex[">"] = "3E" /\ Hex["?"] = "3F" /\ Hex["@"] = "40" /\ Hex["["] = "5B"
    /\ Hex["\\"] = "5C" /\ Hex["]"] = "5D" /\ Hex["^"] = "5E" /\ Hex["backtick"] = "60"
    /\ Hex["{"] = "7B" /\ Hex["|"] = "7C" /\ Hex["}"] = "7D"
  BY DEF Hex, OTPAUTH_ENCODE_SET

\* The character that has a code.
CharOf(x) ==
    CASE x = "20" -> " " [] x = "22" -> "\"" [] x = "23" -> "#" [] x = "25" -> "%"
      [] x = "26" -> "&" [] x = "2B" -> "+" [] x = "2C" -> "," [] x = "2F" -> "/"
      [] x = "3A" -> ":" [] x = "3B" -> ";" [] x = "3C" -> "<" [] x = "3D" -> "="
      [] x = "3E" -> ">" [] x = "3F" -> "?" [] x = "40" -> "@" [] x = "5B" -> "["
      [] x = "5C" -> "\\" [] x = "5D" -> "]" [] x = "5E" -> "^" [] x = "60" -> "backtick"
      [] x = "7B" -> "{" [] x = "7C" -> "|" [] x = "7D" -> "}"

LEMMA CharOfTable ==
    /\ CharOf(Hex[" "]) = " " /\ CharOf(Hex["\""]) = "\"" /\ CharOf(Hex["#"]) = "#"
    /\ CharOf(Hex["%"]) = "%" /\ CharOf(Hex["&"]) = "&" /\ CharOf(Hex["+"]) = "+"
    /\ CharOf(Hex[","]) = "," /\ CharOf(Hex["/"]) = "/" /\ CharOf(Hex[":"]) = ":"
    /\ CharOf(Hex[";"]) = ";" /\ CharOf(Hex["<"]) = "<" /\ CharOf(Hex["="]) = "="
    /\ CharOf(Hex[">"]) = ">" /\ CharOf(Hex["?"]) = "?" /\ CharOf(Hex["@"]) = "@"
    /\ CharOf(Hex["["]) = "[" /\ CharOf(Hex["\\"]) = "\\" /\ CharOf(Hex["]"]) = "]"
    /\ CharOf(Hex["^"]) = "^" /\ CharOf(Hex["backtick"]) = "backtick" /\ CharOf(Hex["{"]) = "{"
    /\ CharOf(Hex["|"]) = "|" /\ CharOf(Hex["}"]) = "}"
  BY HexTable DEF CharOf

\* No code is a character that is to be encoded, and no two characters have the same code.
LEMMA HexCodes ==
    /\ DOMAIN Hex = OTPAUTH_ENCODE_SET
    /\ "%" \in OTPAUTH_ENCODE_SET
    /\ \A c \in OTPAUTH_ENCODE_SET : Hex[c] \notin OTPAUTH_ENCODE_SET
    /\ \A c, d \in OTPAUTH_ENCODE_SET : Hex[c] = Hex[d] => c = d
<1>1. DOMAIN Hex = OTPAUTH_ENCODE_SET
  BY DEF Hex
<1>2. "%" \in OTPAUTH_ENCODE_SET
  BY DEF OTPAUTH_ENCODE_SET
<1>3. \A c \in OTPAUTH_ENCODE_SET : Hex[c] \notin OTPAUTH_ENCODE_SET
  BY HexTable DEF OTPAUTH_ENCODE_SET
<1>4. \A c \in OTPAUTH_ENCODE_SET : CharOf(Hex[c]) = c
  BY CharOfTable DEF OTPAUTH_ENCODE_SET
<1> QED
  BY <1>1, <1>2, <1>3, <1>4

\* What percent_encode writes for a piece.
Encoding(p) == IF p \in DOMAIN Hex THEN <<"%", Hex[p]>> ELSE <<p>>

LEMMA EncodingTyped == ASSUME NEW S, Alphabet(S), NEW p \in S PROVE Encoding(p) \in Seq(S)
<1>1. "%" \in S
  BY HexCodes DEF Alphabet
<1> QED
  BY <1>1, HexCodes DEF Encoding, Alphabet

LEMMA EncodeAppend ==
    ASSUME NEW S, Alphabet(S), NEW t \in Seq(S), NEW p \in S
    PROVE  /\ percent_encode(t) \in Seq(S)
           /\ percent_encode(Append(t, p)) = percent_encode(t) \o Encoding(p)
<1> DEFINE Encodings(s) == [i \in DOMAIN s |-> Encoding(s[i])]
           q == Append(t, p)
<1>1. \A s : percent_encode(s) = FlattenSeq(Encodings(s))
  BY Zenon DEF percent_encode, Encoding
<1>2. \A i \in 1 .. Len(t) : Encoding(t[i]) \in Seq(S)
  BY EncodingTyped
<1>3. Encodings(t) \in Seq(Seq(S))
  BY <1>2
<1>4. Encodings(q) = Append(Encodings(t), Encoding(p))
  OBVIOUS
<1> HIDE DEF Encodings
<1>5. Encoding(p) \in Seq(S)
  BY EncodingTyped
<1> QED
  BY <1>1, <1>3, <1>4, <1>5, FlattenAppend

\* What percent_encode may return: no character that is to be encoded but the percent sign,
\* and that only before a code.
Encoded(e, S) ==
    /\ e \in Seq(S)
    /\ \A i \in 1 .. Len(e) :
         /\ e[i] \in OTPAUTH_ENCODE_SET => e[i] = "%"
         /\ e[i] = "%" => i < Len(e) /\ \E c \in OTPAUTH_ENCODE_SET : e[i + 1] = Hex[c]

LEMMA EncodedAppend ==
    ASSUME NEW S, Alphabet(S), NEW e, Encoded(e, S), NEW p \in S
    PROVE  Encoded(e \o Encoding(p), S)
<1> DEFINE n == Len(e)
<1>1. n \in Nat /\ e \in Seq(S)
  BY DEF Encoded
<1>2. CASE p \in OTPAUTH_ENCODE_SET
  <2> DEFINE q == e \o <<"%", Hex[p]>>
  <2>1. "%" \in S /\ "%" \in OTPAUTH_ENCODE_SET /\ Hex[p] \in S /\ Hex[p] \notin OTPAUTH_ENCODE_SET
    BY <1>2, HexCodes DEF Alphabet
  <2>2. /\ q \in Seq(S) /\ Len(q) = n + 2 /\ q[n + 1] = "%" /\ q[n + 2] = Hex[p]
        /\ \A i \in 1 .. n : q[i] = e[i]
    BY <1>1, <2>1
  <2> HIDE DEF q, n
  <2>3. ASSUME NEW i \in 1 .. n + 2
        PROVE  /\ q[i] \in OTPAUTH_ENCODE_SET => q[i] = "%"
               /\ q[i] = "%" => i < n + 2 /\ \E c \in OTPAUTH_ENCODE_SET : q[i + 1] = Hex[c]
    <3>1. CASE i \in 1 .. n
      <4>1. /\ e[i] \in OTPAUTH_ENCODE_SET => e[i] = "%"
            /\ e[i] = "%" => i < n /\ \E c \in OTPAUTH_ENCODE_SET : e[i + 1] = Hex[c]
        BY <3>1 DEF Encoded, n
      <4>2. i < n => q[i + 1] = e[i + 1]
        BY <1>1, <2>2, <3>1
      <4> QED
        BY <1>1, <2>2, <3>1, <4>1, <4>2
    <3>2. CASE i = n + 1
      <4>1. (n + 1) + 1 = n + 2 /\ n + 1 < n + 2
        BY <1>1
      <4> QED
        BY <1>2, <2>2, <3>2, <4>1
    <3>3. CASE i = n + 2
      BY <2>1, <2>2, <3>3
    <3> QED
      BY <1>1, <3>1, <3>2, <3>3
  <2>4. Encoded(q, S)
    BY <2>2, <2>3 DEF Encoded
  <2> QED
    BY <1>2, <2>4, HexCodes DEF Encoding, q
<1>3. CASE p \notin OTPAUTH_ENCODE_SET
  <2> DEFINE q == e \o <<p>>
  <2>1. p # "%"
    BY <1>3, HexCodes
  <2>2. /\ q \in Seq(S) /\ Len(q) = n + 1 /\ q[n + 1] = p
        /\ \A i \in 1 .. n : q[i] = e[i]
    BY <1>1
  <2> HIDE DEF q, n
  <2>3. ASSUME NEW i \in 1 .. n + 1
        PROVE  /\ q[i] \in OTPAUTH_ENCODE_SET => q[i] = "%"
               /\ q[i] = "%" => i < n + 1 /\ \E c \in OTPAUTH_ENCODE_SET : q[i + 1] = Hex[c]
    <3>1. CASE i \in 1 .. n
      <4>1. /\ e[i] \in OTPAUTH_ENCODE_SET => e[i] = "%"
            /\ e[i] = "%" => i < n /\ \E c \in OTPAUTH_ENCODE_SET : e[i + 1] = Hex[c]
        BY <3>1 DEF Encoded, n
      <4>2. i < n => q[i + 1] = e[i + 1]
        BY <1>1, <2>2, <3>1
      <4> QED
        BY <1>1, <2>2, <3>1, <4>1, <4>2
    <3>2. CASE i = n + 1
      BY <1>3, <2>1, <2>2, <3>2
    <3> QED
      BY <1>1, <3>1, <3>2
  <2>4. Encoded(q, S)
    BY <2>2, <2>3 DEF Encoded
  <2> QED
    BY <1>3, <2>4, HexCodes DEF Encoding, q
<1> QED
  BY <1>2, <1>3

\* What percent_decode makes of the piece at position i.
Character(e, i) ==
    IF e[i] = "%" THEN CHOOSE c \in DOMAIN Hex : Hex[c] = e[i + 1] ELSE e[i]

Decoding(e, i) == IF i > 1 /\ e[i - 1] = "%" THEN <<>> ELSE <<Character(e, i)>>

\* One more piece encoded is one more piece decoded.
LEMMA DecodeAppend ==
    ASSUME NEW S, Alphabet(S), NEW e, Encoded(e, S), NEW p \in S
    PROVE  /\ percent_decode(e) \in Seq(S)
           /\ percent_decode(e \o Encoding(p)) = Append(percent_decode(e), p)
<1> DEFINE n == Len(e)
           Decodings(t) == [i \in DOMAIN t |-> Decoding(t, i)]
<1>1. n \in Nat /\ e \in Seq(S)
  BY DEF Encoded
<1>2. \A t : percent_decode(t) = FlattenSeq(Decodings(t))
  BY Zenon DEF percent_decode, Decoding, Character
<1>3. \A c \in OTPAUTH_ENCODE_SET : (CHOOSE d \in DOMAIN Hex : Hex[d] = Hex[c]) = c
  BY HexCodes
<1>4. \A i \in 1 .. n :
        /\ e[i] = "%" => i < n /\ \E c \in OTPAUTH_ENCODE_SET : e[i + 1] = Hex[c]
  BY DEF Encoded
<1>5. \A i \in 1 .. n : Decoding(e, i) \in Seq(S)
  <2> SUFFICES ASSUME NEW i \in 1 .. n PROVE Character(e, i) \in S
    BY DEF Decoding
  <2>1. CASE e[i] = "%"
    <3>1. PICK c \in OTPAUTH_ENCODE_SET : e[i + 1] = Hex[c]
      BY <1>4, <2>1
    <3>2. Character(e, i) = CHOOSE d \in DOMAIN Hex : Hex[d] = e[i + 1]
      BY <2>1, Zenon DEF Character
    <3>3. Character(e, i) = c
      BY <1>3, <3>1, <3>2
    <3> QED
      BY <3>3 DEF Alphabet
  <2>2. CASE e[i] # "%"
    <3>1. Character(e, i) = e[i]
      BY <2>2, Zenon DEF Character
    <3> QED
      BY <1>1, <3>1
  <2> QED
    BY <2>1, <2>2
<1>6. Decodings(e) \in Seq(Seq(S)) /\ Len(Decodings(e)) = n
  BY <1>1, <1>5
<1>7. ASSUME NEW q \in Seq(S), NEW m \in Nat, Len(q) = n + m, m > 0,
             \A i \in 1 .. n : q[i] = e[i]
      PROVE  /\ \A i \in 1 .. n : Decoding(q, i) = Decoding(e, i)
             /\ ~(n + 1 > 1 /\ q[(n + 1) - 1] = "%")
  <2>1. ASSUME NEW i \in 1 .. n PROVE Decoding(q, i) = Decoding(e, i)
    <3>1. q[i] = e[i] /\ (i > 1 => q[i - 1] = e[i - 1])
      BY <1>1, <1>7
    <3>2. e[i] = "%" => q[i + 1] = e[i + 1]
      BY <1>1, <1>4, <1>7
    <3>3. CASE e[i] = "%"
      <4>1. PICK c \in OTPAUTH_ENCODE_SET : e[i + 1] = Hex[c]
        BY <1>4, <3>3
      <4>2. /\ Character(q, i) = CHOOSE d \in DOMAIN Hex : Hex[d] = q[i + 1]
            /\ Character(e, i) = CHOOSE d \in DOMAIN Hex : Hex[d] = e[i + 1]
        BY <3>1, <3>3, Zenon DEF Character
      <4>3. Character(q, i) = c
        BY <1>3, <3>2, <3>3, <4>1, <4>2
      <4>4. Character(e, i) = c
        BY <1>3, <4>1, <4>2
      <4> QED
        BY <3>1, <4>3, <4>4, Zenon DEF Decoding
    <3>4. CASE e[i] # "%"
      <4>1. Character(q, i) = Character(e, i)
        BY <3>1, <3>4, Zenon DEF Character
      <4> QED
        BY <3>1, <4>1, Zenon DEF Decoding
    <3> QED
      BY <3>3, <3>4
  <2>2. n + 1 > 1 => q[(n + 1) - 1] # "%"
    <3> SUFFICES ASSUME n \in 1 .. n PROVE q[n] # "%"
      BY <1>1
    <3> QED
      BY <1>1, <1>4, <1>7
  <2> QED
    BY <2>1, <2>2
<1>8. CASE p \in OTPAUTH_ENCODE_SET
  <2> DEFINE q == e \o <<"%", Hex[p]>>
  <2>1. "%" \in S /\ Hex[p] \in S /\ Hex[p] # "%"
    BY <1>8, HexCodes DEF Alphabet
  <2>2. /\ q \in Seq(S) /\ Len(q) = n + 2 /\ q[n + 1] = "%" /\ q[n + 2] = Hex[p]
        /\ \A i \in 1 .. n : q[i] = e[i]
    BY <1>1, <2>1
  <2>3. q = e \o Encoding(p)
    BY <1>8, HexCodes DEF Encoding
  <2> HIDE DEF q, n
  <2>4. \A i \in 1 .. n : Decoding(q, i) = Decoding(e, i)
    BY <1>7, <2>2
  <2>5. Decoding(q, n + 1) = <<p>>
    <3>1. ~(n + 1 > 1 /\ q[(n + 1) - 1] = "%")
      BY <1>7, <2>2
    <3>2. (n + 1) + 1 = n + 2
      BY <1>1
    <3>3. Character(q, n + 1) = CHOOSE d \in DOMAIN Hex : Hex[d] = Hex[p]
      BY <2>2, <3>2, Zenon DEF Character
    <3>4. Character(q, n + 1) = p
      BY <1>3, <1>8, <3>3
    <3> QED
      BY <3>1, <3>4, Zenon DEF Decoding
  <2>6. Decoding(q, n + 2) = <<>>
    <3>1. n + 2 > 1 /\ (n + 2) - 1 = n + 1
      BY <1>1
    <3> QED
      BY <2>2, <3>1 DEF Decoding
  <2> DEFINE ds == Append(Append(Decodings(e), <<p>>), <<>>)
  <2>7. Decodings(q) = ds
    <3>1. DOMAIN q = 1 .. n + 2
      BY <1>1, <2>2
    <3>2. Append(Decodings(e), <<p>>) \in Seq(Seq(S)) /\ ds \in Seq(Seq(S)) /\ Len(ds) = n + 2
      BY <1>1, <1>6
    <3>3. Decodings(q) \in Seq(Seq(S)) /\ Len(Decodings(q)) = n + 2
      <4>1. ASSUME NEW i \in 1 .. n + 2 PROVE Decoding(q, i) \in Seq(S)
        <5>1. i \in 1 .. n \/ i = n + 1 \/ i = n + 2
          BY <1>1
        <5>2. <<p>> \in Seq(S) /\ <<>> \in Seq(S)
          OBVIOUS
        <5> QED
          BY <1>5, <2>4, <2>5, <2>6, <5>1, <5>2
      <4> QED
        BY <1>1, <3>1, <4>1
    <3>4. ASSUME NEW i \in 1 .. n + 2 PROVE Decodings(q)[i] = ds[i]
      <4>1. Decodings(q)[i] = Decoding(q, i)
        BY <3>1
      <4>2. CASE i \in 1 .. n
        <5>1. ds[i] = Decodings(e)[i] /\ Decodings(e)[i] = Decoding(e, i)
          BY <1>1, <1>6, <4>2 DEF n
        <5> QED
          BY <2>4, <4>1, <4>2, <5>1
      <4>3. CASE i = n + 1
        <5>1. ds[n + 1] = <<p>>
          BY <1>1, <1>6
        <5> QED
          BY <2>5, <4>1, <4>3, <5>1
      <4>4. CASE i = n + 2
        <5>1. ds[n + 2] = <<>>
          BY <1>1, <1>6
        <5> QED
          BY <2>6, <4>1, <4>4, <5>1
      <4>5. i \in 1 .. n \/ i = n + 1 \/ i = n + 2
        BY <1>1
      <4> QED
        BY <4>2, <4>3, <4>4, <4>5
    <3> HIDE DEF Decodings, ds
    <3> QED
      BY <3>2, <3>3, <3>4, SeqEqual
  <2> HIDE DEF Decodings
  <2>8. /\ FlattenSeq(Decodings(e)) \in Seq(S)
        /\ FlattenSeq(Append(Decodings(e), <<p>>)) = FlattenSeq(Decodings(e)) \o <<p>>
    <3>1. <<p>> \in Seq(S)
      OBVIOUS
    <3> QED
      BY <1>6, <3>1, FlattenAppend
  <2>9. FlattenSeq(ds) = FlattenSeq(Append(Decodings(e), <<p>>)) \o <<>>
    <3>1. Append(Decodings(e), <<p>>) \in Seq(Seq(S)) /\ <<>> \in Seq(S)
      BY <1>6
    <3> QED
      BY <3>1, FlattenAppend
  <2> DEFINE d == FlattenSeq(Decodings(e))
  <2> HIDE DEF d
  <2>10. (d \o <<p>>) \o <<>> = Append(d, p)
    BY <2>8 DEF d
  <2> QED
    BY <1>2, <2>3, <2>7, <2>8, <2>9, <2>10 DEF d
<1>9. CASE p \notin OTPAUTH_ENCODE_SET
  <2> DEFINE q == e \o <<p>>
  <2>1. p # "%"
    BY <1>9, HexCodes
  <2>2. /\ q \in Seq(S) /\ Len(q) = n + 1 /\ q[n + 1] = p
        /\ \A i \in 1 .. n : q[i] = e[i]
    BY <1>1
  <2>3. q = e \o Encoding(p)
    BY <1>9, HexCodes DEF Encoding
  <2> HIDE DEF q, n
  <2>4. \A i \in 1 .. n : Decoding(q, i) = Decoding(e, i)
    BY <1>7, <2>2
  <2>5. Decoding(q, n + 1) = <<p>>
    <3>1. ~(n + 1 > 1 /\ q[(n + 1) - 1] = "%")
      BY <1>7, <2>2
    <3>2. Character(q, n + 1) = p
      BY <2>1, <2>2, Zenon DEF Character
    <3> QED
      BY <3>1, <3>2, Zenon DEF Decoding
  <2> DEFINE ds == Append(Decodings(e), <<p>>)
  <2>6. Decodings(q) = ds
    <3>1. DOMAIN q = 1 .. n + 1
      BY <1>1, <2>2
    <3>2. ds \in Seq(Seq(S)) /\ Len(ds) = n + 1
      BY <1>1, <1>6
    <3>3. Decodings(q) \in Seq(Seq(S)) /\ Len(Decodings(q)) = n + 1
      <4>1. ASSUME NEW i \in 1 .. n + 1 PROVE Decoding(q, i) \in Seq(S)
        <5>1. i \in 1 .. n \/ i = n + 1
          BY <1>1
        <5>2. <<p>> \in Seq(S) /\ <<>> \in Seq(S)
          OBVIOUS
        <5> QED
          BY <1>5, <2>4, <2>5, <5>1, <5>2
      <4> QED
        BY <1>1, <3>1, <4>1
    <3>4. ASSUME NEW i \in 1 .. n + 1 PROVE Decodings(q)[i] = ds[i]
      <4>1. Decodings(q)[i] = Decoding(q, i)
        BY <3>1
      <4>2. CASE i \in 1 .. n
        <5>1. ds[i] = Decodings(e)[i] /\ Decodings(e)[i] = Decoding(e, i)
          BY <1>1, <1>6, <4>2 DEF n
        <5> QED
          BY <2>4, <4>1, <4>2, <5>1
      <4>3. CASE i = n + 1
        <5>1. ds[n + 1] = <<p>>
          BY <1>1, <1>6
        <5> QED
          BY <2>5, <4>1, <4>3, <5>1
      <4>4. i \in 1 .. n \/ i = n + 1
        BY <1>1
      <4> QED
        BY <4>2, <4>3, <4>4
    <3> HIDE DEF Decodings, ds
    <3> QED
      BY <3>2, <3>3, <3>4, SeqEqual
  <2> HIDE DEF Decodings
  <2>7. /\ FlattenSeq(Decodings(e)) \in Seq(S)
        /\ FlattenSeq(ds) = FlattenSeq(Decodings(e)) \o <<p>>
    <3>1. <<p>> \in Seq(S)
      OBVIOUS
    <3> QED
      BY <1>6, <3>1, FlattenAppend
  <2> DEFINE d == FlattenSeq(Decodings(e))
  <2> HIDE DEF d
  <2>8. d \o <<p>> = Append(d, p)
    BY <2>7 DEF d
  <2> QED
    BY <1>2, <2>3, <2>6, <2>7, <2>8 DEF d
<1> QED
  BY <1>8, <1>9

\* Whatever characters are in a text, its encoding has none with a meaning in a URI, and
\* decodes to the text.
THEOREM EncodingRoundTrip ==
    ASSUME NEW S, Alphabet(S), NEW text \in Seq(S)
    PROVE  Encoded(percent_encode(text), S) /\ percent_decode(percent_encode(text)) = text
<1> DEFINE T == {t \in Seq(S) : /\ Encoded(percent_encode(t), S)
                                /\ percent_decode(percent_encode(t)) = t}
<1>1. <<>> \in T
  <2>1. percent_encode(<<>>) = <<>> /\ percent_decode(<<>>) = <<>>
    <3>1. [i \in DOMAIN <<>> |-> Encoding(<<>>[i])] = <<>>
      OBVIOUS
    <3>2. [i \in DOMAIN <<>> |-> Decoding(<<>>, i)] = <<>>
      OBVIOUS
    <3>3. percent_encode(<<>>) = FlattenSeq([i \in DOMAIN <<>> |-> Encoding(<<>>[i])])
      BY Zenon DEF percent_encode, Encoding
    <3>4. percent_decode(<<>>) = FlattenSeq([i \in DOMAIN <<>> |-> Decoding(<<>>, i)])
      BY Zenon DEF percent_decode, Decoding, Character
    <3> QED
      BY <3>1, <3>2, <3>3, <3>4, FlattenEmpty
  <2>2. Encoded(<<>>, S)
    BY DEF Encoded
  <2> QED
    BY <2>1, <2>2
<1>2. \A t \in Seq(S) \cap T : \A p \in S : Append(t, p) \in T
  <2> SUFFICES ASSUME NEW t \in Seq(S) \cap T, NEW p \in S PROVE Append(t, p) \in T
    OBVIOUS
  <2> DEFINE e == percent_encode(t)
  <2>1. t \in Seq(S) /\ Append(t, p) \in Seq(S) /\ Encoded(e, S) /\ percent_decode(e) = t
    OBVIOUS
  <2>2. percent_encode(Append(t, p)) = e \o Encoding(p)
    BY <2>1, EncodeAppend
  <2> HIDE DEF e
  <2>3. Encoded(e \o Encoding(p), S)
    BY <2>1, EncodedAppend
  <2>4. percent_decode(e \o Encoding(p)) = Append(t, p)
    BY <2>1, DecodeAppend
  <2> QED
    BY <2>1, <2>2, <2>3, <2>4
<1> HIDE DEF T
<1>3. Seq(S) \subseteq T
  BY <1>1, <1>2, SeqInduction, Zenon
<1> QED
  BY <1>3 DEF T
-----------------------------------------------------------------------------
(* Parameters *)

\* The end of a part is where the first of its ends is.
LEMMA EndIs ==
    ASSUME NEW t, Len(t) \in Nat, NEW i \in Nat, NEW ends, NEW e \in i .. Len(t) + 1,
           e = Len(t) + 1 \/ t[e] \in ends, \A k \in i .. e - 1 : t[k] \notin ends
    PROVE  End(t, i, ends) = e
<1> DEFINE Is(j) == /\ j = Len(t) + 1 \/ t[j] \in ends
                    /\ \A k \in i .. j - 1 : t[k] \notin ends
<1>1. Is(e)
  OBVIOUS
<1>2. ASSUME NEW j \in i .. Len(t) + 1, Is(j) PROVE j = e
  <2>1. ~(j < e)
    <3> SUFFICES ASSUME j < e PROVE FALSE
      OBVIOUS
    <3>1. j \in i .. e - 1 /\ j # Len(t) + 1
      OBVIOUS
    <3> QED
      BY <1>2, <3>1
  <2>2. ~(e < j)
    <3> SUFFICES ASSUME e < j PROVE FALSE
      OBVIOUS
    <3>1. e \in i .. j - 1 /\ e # Len(t) + 1
      OBVIOUS
    <3> QED
      BY <1>2, <3>1
  <2> QED
    BY <2>1, <2>2
<1>3. End(t, i, ends) = CHOOSE j \in i .. Len(t) + 1 : Is(j)
  BY Zenon DEF End
<1> HIDE DEF Is
<1> QED
  BY <1>1, <1>2, <1>3

\* The least of some numbers.
LEMMA LeastExists ==
    ASSUME NEW A, A \subseteq Nat, A # {}
    PROVE  \E i \in A : \A j \in A : i <= j
<1> SUFFICES ASSUME \A i \in A : \E j \in A : ~(i <= j) PROVE FALSE
  OBVIOUS
<1> DEFINE T == {n \in Nat : \A i \in A : i >= n}
<1>1. 0 \in T
  OBVIOUS
<1>2. ASSUME NEW n \in Nat, n \in T PROVE n + 1 \in T
  <2>1. n \notin A
    <3> SUFFICES ASSUME n \in A PROVE FALSE
      OBVIOUS
    <3>1. PICK j \in A : ~(n <= j)
      OBVIOUS
    <3> QED
      BY <1>2, <3>1
  <2>2. ASSUME NEW i \in A PROVE i >= n + 1
    BY <1>2, <2>1
  <2> QED
    BY <2>2
<1> HIDE DEF T
<1>3. Nat \subseteq T
  BY <1>1, <1>2, Induction
<1>4. PICK i \in A : TRUE
  OBVIOUS
<1>5. i + 1 \in T /\ i \in Nat
  BY <1>3, <1>4
<1> QED
  BY <1>4, <1>5 DEF T

\* A text that is a path, which ends at position q, and parameters: question marks and
\* ampersands only begin a parameter, and there is no fragment.
IsUri(t, q) ==
    /\ q \in 4 .. Len(t) + 1
    /\ q <= Len(t) => t[q] = "?"
    /\ \A i \in 1 .. Len(t) :
          /\ t[i] # "#"
          /\ t[i] = "?" => i = q
          /\ t[i] \in {"?", "&"} => i >= q /\ i + 2 <= Len(t) /\ t[i + 2] = "="

\* A parameter and its value, with what sets it apart.
IsParameter(x, separator, name) ==
    /\ Len(x) >= 3
    /\ x[1] = separator /\ x[2] = name /\ x[3] = "="
    /\ name \notin {"?", "&", "#"}
    /\ \A i \in 4 .. Len(x) : x[i] \notin {"?", "&", "#"}

Separator(t, q) == IF q = Len(t) + 1 THEN "?" ELSE "&"

\* Where a parameter begins.
Places(text, name) ==
    { i \in 1 .. Len(text) - 2 :
        /\ text[i] \in {"?", "&"} /\ text[i + 1] = name /\ text[i + 2] = "="
        /\ i \in End(text, 1, {"?"}) .. End(text, 1, {"#"}) }

LEMMA ValuesOfNone == ASSUME NEW t, NEW name, Places(t, name) = {} PROVE Values(t, name) = <<>>
<1>1. Values(t, name) =
        IF Places(t, name) = {} THEN <<>>
        ELSE << Part(t, (CHOOSE i \in Places(t, name) : \A j \in Places(t, name) : i <= j) + 3,
                     {"&", "#"}) >>
  BY Zenon DEF Values, Places
<1> QED
  BY <1>1, Zenon

LEMMA ValuesOfFirst ==
    ASSUME NEW t, NEW name, Places(t, name) \subseteq Int,
           NEW i \in Places(t, name), \A j \in Places(t, name) : i <= j
    PROVE  Values(t, name) = <<Part(t, i + 3, {"&", "#"})>>
<1> DEFINE A == Places(t, name)
<1>1. Values(t, name) =
        IF A = {} THEN <<>>
        ELSE << Part(t, (CHOOSE a \in A : \A j \in A : a <= j) + 3, {"&", "#"}) >>
  BY Zenon DEF Values, Places
<1> HIDE DEF A
<1>2. (CHOOSE a \in A : \A j \in A : a <= j) = i
  BY DEF A
<1> QED
  BY <1>1, <1>2, Zenon DEF A

LEMMA EndsOfUri ==
    ASSUME NEW S, NEW t \in Seq(S), NEW q, IsUri(t, q)
    PROVE  /\ End(t, 1, {"?"}) = q
           /\ End(t, 1, {"#"}) = Len(t) + 1
           /\ Part(t, 4, {"?", "#"}) = percent_decode(SubSeq(t, 4, q - 1))
           /\ \A name : Places(t, name) =
                { i \in 1 .. Len(t) - 2 : t[i] \in {"?", "&"} /\ t[i + 1] = name }
<1>1. Len(t) \in Nat
  OBVIOUS
<1>2. /\ q \in 4 .. Len(t) + 1
      /\ q = Len(t) + 1 \/ t[q] = "?"
      /\ \A i \in 1 .. Len(t) : t[i] # "#" /\ (t[i] = "?" => i = q)
                                /\ (t[i] \in {"?", "&"} => i >= q /\ t[i + 2] = "=")
  BY <1>1 DEF IsUri
<1>3. End(t, 1, {"?"}) = q
  <2>1. q \in 1 .. Len(t) + 1 /\ \A k \in 1 .. q - 1 : t[k] \notin {"?"}
    BY <1>1, <1>2
  <2> QED
    BY <1>1, <1>2, <2>1, EndIs
<1>4. End(t, 1, {"#"}) = Len(t) + 1
  <2>1. Len(t) + 1 \in 1 .. Len(t) + 1 /\ \A k \in 1 .. (Len(t) + 1) - 1 : t[k] \notin {"#"}
    BY <1>1, <1>2
  <2> QED
    BY <1>1, <2>1, EndIs
<1>5. End(t, 4, {"?", "#"}) = q
  <2>1. \A k \in 4 .. q - 1 : t[k] \notin {"?", "#"}
    BY <1>1, <1>2
  <2> QED
    BY <1>1, <1>2, <2>1, EndIs
<1>6. \A name : Places(t, name) = { i \in 1 .. Len(t) - 2 : t[i] \in {"?", "&"} /\ t[i + 1] = name }
  <2> SUFFICES ASSUME NEW name, NEW i \in 1 .. Len(t) - 2, t[i] \in {"?", "&"}
               PROVE  t[i + 2] = "=" /\ i \in q .. Len(t) + 1
    BY <1>3, <1>4 DEF Places
  <2> QED
    BY <1>1, <1>2
<1>7. Part(t, 4, {"?", "#"}) = percent_decode(SubSeq(t, 4, q - 1))
  BY <1>5, Zenon DEF Part
<1> QED
  BY <1>3, <1>4, <1>6, <1>7

\* A parameter put at the end of a URI leaves its path, and what it has already.
Added(t, q, x, n) ==
    /\ IsUri(t \o x, q)
    /\ (t \o x)[2] = t[2]
    /\ Part(t \o x, 4, {"?", "#"}) = Part(t, 4, {"?", "#"})
    /\ \A name : Values(t \o x, name) =
         IF Values(t, name) # <<>> THEN Values(t, name)
         ELSE IF name = n THEN <<percent_decode(SubSeq(x, 4, Len(x)))>> ELSE <<>>

LEMMA AddParameter ==
    ASSUME NEW S, NEW t \in Seq(S), NEW q, IsUri(t, q),
           NEW x \in Seq(S), NEW n, IsParameter(x, Separator(t, q), n)
    PROVE  Added(t, q, x, n)
<1> DEFINE T == t \o x
           L == Len(t)
           m == Len(x)
<1>1. /\ L \in Nat /\ m \in Nat /\ m >= 3 /\ T \in Seq(S) /\ Len(T) = L + m
      /\ \A i \in 1 .. L : T[i] = t[i]
      /\ \A i \in 1 .. m : T[L + i] = x[i]
  BY DEF IsParameter
<1>2. /\ q \in 4 .. L + 1
      /\ q <= L => t[q] = "?"
      /\ \A i \in 1 .. L : /\ t[i] # "#"
                           /\ t[i] = "?" => i = q
                           /\ t[i] \in {"?", "&"} => i >= q /\ i + 2 <= L /\ t[i + 2] = "="
  BY Zenon DEF IsUri
<1>3. /\ x[1] = IF q = L + 1 THEN "?" ELSE "&"
      /\ x[2] = n /\ x[3] = "="
      /\ n \notin {"?", "&", "#"}
      /\ \A i \in 4 .. m : x[i] \notin {"?", "&", "#"}
  BY DEF IsParameter, Separator
<1> HIDE DEF T, L, m
<1>4. /\ T[L + 1] = IF q = L + 1 THEN "?" ELSE "&"
      /\ T[L + 2] = n /\ T[L + 3] = "="
      /\ \A i \in L + 4 .. L + m : T[i] \notin {"?", "&", "#"}
  <2>1. T[L + 1] = x[1] /\ T[L + 2] = x[2] /\ T[L + 3] = x[3]
    BY <1>1
  <2>2. ASSUME NEW i \in L + 4 .. L + m PROVE T[i] \notin {"?", "&", "#"}
    <3>1. i - L \in 4 .. m /\ i - L \in 1 .. m /\ L + (i - L) = i
      BY <1>1
    <3>2. T[i] = x[i - L]
      BY <1>1, <3>1
    <3> QED
      BY <1>3, <3>1, <3>2
  <2> QED
    BY <1>3, <2>1, <2>2
<1>5. ASSUME NEW i \in 1 .. L + m
      PROVE  \/ i \in 1 .. L /\ T[i] = t[i]
             \/ i = L + 1
             \/ i = L + 2 /\ T[i] \notin {"?", "&", "#"}
             \/ i = L + 3 /\ T[i] \notin {"?", "&", "#"}
             \/ i \in L + 4 .. L + m /\ T[i] \notin {"?", "&", "#"}
  <2>1. i \in 1 .. L \/ i = L + 1 \/ i = L + 2 \/ i = L + 3 \/ i \in L + 4 .. L + m
    BY <1>1
  <2> QED
    BY <1>1, <1>3, <1>4, <2>1
<1>6. IsUri(T, q)
  <2>1. q \in 4 .. (L + m) + 1 /\ (q <= L + m => T[q] = "?")
    <3>1. q \in 1 .. L \/ q = L + 1
      BY <1>1, <1>2
    <3>2. CASE q \in 1 .. L
      BY <1>1, <1>2, <3>2
    <3>3. CASE q = L + 1
      BY <1>1, <1>2, <1>4, <3>3
    <3> QED
      BY <3>1, <3>2, <3>3
  <2>2. ASSUME NEW i \in 1 .. L + m
        PROVE  /\ T[i] # "#"
               /\ T[i] = "?" => i = q
               /\ T[i] \in {"?", "&"} => i >= q /\ i + 2 <= L + m /\ T[i + 2] = "="
    <3>1. CASE i \in 1 .. L /\ T[i] = t[i]
      <4>1. T[i] \in {"?", "&"} => T[i + 2] = t[i + 2] /\ i + 2 <= L + m
        BY <1>1, <1>2, <3>1
      <4> QED
        BY <1>2, <3>1, <4>1
    <3>2. CASE i = L + 1
      <4>1. i >= q /\ i + 2 <= L + m /\ i + 2 = L + 3
        BY <1>1, <1>2, <3>2
      <4> QED
        BY <1>4, <3>2, <4>1
    <3> QED
      BY <1>5, <3>1, <3>2
  <2> QED
    BY <1>1, <2>1, <2>2 DEF IsUri
<1>7. T[2] = t[2]
  BY <1>1, <1>2
<1>8. Part(T, 4, {"?", "#"}) = Part(t, 4, {"?", "#"})
  <2>1. SubSeq(T, 4, q - 1) = SubSeq(t, 4, q - 1)
    <3>1. 4 \in 1 .. Len(t) + 1 /\ q - 1 \in 4 - 1 .. Len(t)
      BY <1>1, <1>2 DEF L
    <3> QED
      BY <3>1, SubSeqOfConcat1 DEF T
  <2> QED
    BY <1>1, <1>6, <2>1, EndsOfUri
<1>9. ASSUME NEW name
      PROVE  /\ Places(t, name) = { i \in 1 .. L - 2 : t[i] \in {"?", "&"} /\ t[i + 1] = name }
             /\ Places(T, name) =
                   { i \in 1 .. (L + m) - 2 : T[i] \in {"?", "&"} /\ T[i + 1] = name }
  BY <1>1, <1>6, EndsOfUri DEF L
<1>10. ASSUME NEW name
       PROVE  Places(T, name) = Places(t, name) \cup IF name = n THEN {L + 1} ELSE {}
  <2>1. ASSUME NEW i \in Places(T, name)
        PROVE  i \in Places(t, name) \/ (name = n /\ i = L + 1)
    <3>1. i \in 1 .. L + m /\ T[i] \in {"?", "&"} /\ T[i + 1] = name
      BY <1>1, <1>9
    <3>2. CASE i \in 1 .. L /\ T[i] = t[i]
      <4>1. i \in 1 .. L - 2 /\ T[i + 1] = t[i + 1]
        BY <1>1, <1>2, <3>1, <3>2
      <4> QED
        BY <1>9, <3>1, <3>2, <4>1
    <3>3. CASE i = L + 1
      <4>1. (L + 1) + 1 = L + 2
        BY <1>1
      <4> QED
        BY <1>4, <3>1, <3>3, <4>1
    <3> QED
      BY <1>5, <3>1, <3>2, <3>3
  <2>2. ASSUME NEW i \in Places(t, name) PROVE i \in Places(T, name)
    <3>1. i \in 1 .. L - 2 /\ t[i] \in {"?", "&"} /\ t[i + 1] = name
      BY <1>9
    <3>2. i \in 1 .. (L + m) - 2 /\ T[i] = t[i] /\ T[i + 1] = t[i + 1]
      BY <1>1, <3>1
    <3> QED
      BY <1>9, <3>1, <3>2
  <2>3. name = n => L + 1 \in Places(T, name)
    <3>1. L + 1 \in 1 .. (L + m) - 2 /\ (L + 1) + 1 = L + 2
      BY <1>1
    <3> QED
      BY <1>4, <1>9, <3>1
  <2> QED
    BY <2>1, <2>2, <2>3
<1>11. ASSUME NEW name
       PROVE  Values(T, name) =
                IF Values(t, name) # <<>> THEN Values(t, name)
                ELSE IF name = n THEN <<percent_decode(SubSeq(x, 4, m))>> ELSE <<>>
  <2>0. Places(T, name) \subseteq Int /\ Places(t, name) \subseteq Nat
    BY <1>1, <1>9
  <2>1. CASE Places(t, name) # {}
    <3>1. PICK i \in Places(t, name) : \A j \in Places(t, name) : i <= j
      BY <2>0, <2>1, LeastExists
    <3>2. i \in 1 .. L - 2
      BY <1>9
    <3>3. i \in Places(T, name) /\ \A j \in Places(T, name) : i <= j
      BY <1>1, <1>10, <3>1, <3>2
    <3>4. Values(t, name) = <<Part(t, i + 3, {"&", "#"})>>
      BY <2>0, <3>1, ValuesOfFirst
    <3>5. Values(T, name) = <<Part(T, i + 3, {"&", "#"})>>
      BY <2>0, <3>3, ValuesOfFirst
    <3>6. Part(T, i + 3, {"&", "#"}) = Part(t, i + 3, {"&", "#"})
      <4> DEFINE e == End(t, i + 3, {"&", "#"})
      <4>1. /\ e \in i + 3 .. L + 1
            /\ e = L + 1 \/ t[e] \in {"&", "#"}
            /\ \A k \in i + 3 .. e - 1 : t[k] \notin {"&", "#"}
        <5> DEFINE Ends == { k \in i + 3 .. L + 1 : k = L + 1 \/ t[k] \in {"&", "#"} }
        <5>1. Ends \subseteq Nat /\ L + 1 \in Ends
          BY <1>1, <3>2
        <5>2. PICK k \in Ends : \A j \in Ends : k <= j
          BY <5>1, LeastExists
        <5>3. /\ k \in i + 3 .. L + 1
              /\ k = L + 1 \/ t[k] \in {"&", "#"}
              /\ \A j \in i + 3 .. k - 1 : t[j] \notin {"&", "#"}
          BY <1>1, <3>2, <5>2
        <5>4. /\ i + 3 \in Nat /\ Len(t) \in Nat /\ k \in i + 3 .. Len(t) + 1
              /\ k = Len(t) + 1 \/ t[k] \in {"&", "#"}
          BY <1>1, <3>2, <5>3 DEF L
        <5>5. e = k
          BY <5>3, <5>4, EndIs
        <5> QED
          BY <5>3, <5>5
      <4> HIDE DEF e
      <4>2. End(T, i + 3, {"&", "#"}) = e
        <5>1. e \in i + 3 .. Len(T) + 1 /\ i + 3 \in Nat /\ Len(T) \in Nat
          BY <1>1, <3>2, <4>1
        <5>2. T[e] \in {"&", "#"}
          <6>1. CASE e = L + 1
            <7>1. q # L + 1
              BY <1>1, <1>2, <1>9, <3>1, <3>2
            <7> QED
              BY <1>4, <6>1, <7>1
          <6>2. CASE e # L + 1
            <7>1. e \in 1 .. L
              BY <1>1, <3>2, <4>1, <6>2
            <7> QED
              BY <1>1, <4>1, <6>2, <7>1
          <6> QED
            BY <6>1, <6>2
        <5>3. \A k \in i + 3 .. e - 1 : T[k] \notin {"&", "#"}
          BY <1>1, <3>2, <4>1
        <5> QED
          BY <5>1, <5>2, <5>3, EndIs
      <4>3. SubSeq(T, i + 3, e - 1) = SubSeq(t, i + 3, e - 1)
        <5>1. i + 3 \in 1 .. Len(t) + 1 /\ e - 1 \in (i + 3) - 1 .. Len(t)
          BY <1>1, <3>2, <4>1 DEF L
        <5> QED
          BY <5>1, SubSeqOfConcat1 DEF T
      <4> QED
        BY <4>2, <4>3, Zenon DEF Part, e
    <3> QED
      BY <3>4, <3>5, <3>6
  <2>2. CASE Places(t, name) = {} /\ name = n
    <3>1. Places(T, name) = {L + 1}
      BY <1>10, <2>2
    <3>2. Values(T, name) = <<Part(T, (L + 1) + 3, {"&", "#"})>>
      <4>1. L + 1 \in Places(T, name) /\ \A j \in Places(T, name) : L + 1 <= j
        BY <1>1, <3>1
      <4> QED
        BY <2>0, <4>1, ValuesOfFirst
    <3>3. Values(t, name) = <<>>
      BY <2>2, ValuesOfNone
    <3>4. End(T, (L + 1) + 3, {"&", "#"}) = (L + m) + 1
      <4>1. /\ (L + 1) + 3 \in Nat /\ (L + m) + 1 \in (L + 1) + 3 .. Len(T) + 1
            /\ (L + m) + 1 = Len(T) + 1 /\ Len(T) \in Nat
        BY <1>1
      <4>2. \A k \in (L + 1) + 3 .. ((L + m) + 1) - 1 : T[k] \notin {"&", "#"}
        BY <1>1, <1>4
      <4> QED
        BY <4>1, <4>2, EndIs
    <3>5. SubSeq(T, (L + 1) + 3, ((L + m) + 1) - 1) = SubSeq(x, 4, m)
      <4>1. SubSeq(x, 4, m) \in Seq(S) /\ Len(SubSeq(x, 4, m)) = m - 3
            /\ \A i \in 1 .. m - 3 : SubSeq(x, 4, m)[i] = x[i + 3]
        <5>1. 4 \in 1 .. Len(x) + 1 /\ m \in 4 - 1 .. Len(x) /\ m \in Nat
          BY <1>1 DEF m
        <5>2. SubSeq(x, 4, m) \in Seq(S) /\ Len(SubSeq(x, 4, m)) = m - 3
          BY <1>1, <5>1
        <5>3. ASSUME NEW i \in 1 .. m - 3 PROVE SubSeq(x, 4, m)[i] = x[i + 3]
          BY <1>1, <5>1
        <5> QED
          BY <5>2, <5>3
      <4>2. SubSeq(T, L + 4, L + m) \in Seq(S) /\ Len(SubSeq(T, L + 4, L + m)) = m - 3
            /\ \A i \in 1 .. m - 3 : SubSeq(T, L + 4, L + m)[i] = T[L + (i + 3)]
        BY <1>1
      <4>3. \A i \in 1 .. m - 3 : T[L + (i + 3)] = x[i + 3]
        BY <1>1
      <4>4. SubSeq(T, L + 4, L + m) = SubSeq(x, 4, m)
        BY <4>1, <4>2, <4>3, SeqEqual
      <4>5. (L + 1) + 3 = L + 4 /\ ((L + m) + 1) - 1 = L + m
        BY <1>1
      <4> QED
        BY <4>4, <4>5
    <3>6. Part(T, (L + 1) + 3, {"&", "#"}) = percent_decode(SubSeq(x, 4, m))
      BY <3>4, <3>5, Zenon DEF Part
    <3> QED
      BY <2>2, <3>2, <3>3, <3>6
  <2>3. CASE Places(t, name) = {} /\ name # n
    <3>1. Places(T, name) = {}
      BY <1>10, <2>3
    <3> QED
      BY <2>3, <3>1, ValuesOfNone
  <2> QED
    BY <2>1, <2>2, <2>3
<1> QED
  BY <1>6, <1>7, <1>8, <1>11 DEF Added, T, m

-----------------------------------------------------------------------------
(* What the app reads of what build writes *)

Names == {"secret", "issuer", "algorithm", "digits", "period", "counter"}

\* The characters that end a part of a URI.
Delimiters == {"?", "&", "#"}

\* A value that can be put in a URI as it is.
IsValue(v, S) == v \in Seq(S) /\ \A i \in 1 .. Len(v) : v[i] \notin Delimiters

LEMMA EncodingIsValue ==
    ASSUME NEW S, Alphabet(S), NEW text \in Seq(S)
    PROVE  IsValue(percent_encode(text), S)
<1> DEFINE e == percent_encode(text)
<1>1. Encoded(e, S)
  BY EncodingRoundTrip
<1> HIDE DEF e
<1>2. \A i \in 1 .. Len(e) : e[i] \in OTPAUTH_ENCODE_SET => e[i] = "%"
  BY <1>1 DEF Encoded
<1>3. Delimiters \subseteq OTPAUTH_ENCODE_SET /\ "%" \notin Delimiters
  BY DEF Delimiters, OTPAUTH_ENCODE_SET
<1> QED
  BY <1>1, <1>2, <1>3 DEF Encoded, IsValue, e

\* A piece that needs no encoding.
LEMMA PlainPiece ==
    ASSUME NEW S, Alphabet(S), NEW p \in S \ OTPAUTH_ENCODE_SET
    PROVE  IsValue(<<p>>, S) /\ percent_decode(<<p>>) = <<p>>
<1>1. /\ percent_encode(<<>>) \in Seq(S)
      /\ percent_encode(Append(<<>>, p)) = percent_encode(<<>>) \o Encoding(p)
  <2>1. <<>> \in Seq(S) /\ p \in S
    OBVIOUS
  <2> QED
    BY <2>1, EncodeAppend
<1>2. percent_encode(<<>>) = <<>>
  <2>1. percent_encode(<<>>) =
          FlattenSeq([i \in DOMAIN <<>> |->
            IF <<>>[i] \in DOMAIN Hex THEN <<"%", Hex[<<>>[i]]>> ELSE <<(<<>>)[i]>>])
    BY Zenon DEF percent_encode
  <2>2. [i \in DOMAIN <<>> |->
            IF <<>>[i] \in DOMAIN Hex THEN <<"%", Hex[<<>>[i]]>> ELSE <<(<<>>)[i]>>] = <<>>
    OBVIOUS
  <2> QED
    BY <2>1, <2>2, FlattenEmpty
<1>3. Append(<<>>, p) = <<p>> /\ Encoding(p) = <<p>> /\ <<>> \o <<p>> = <<p>> /\ <<p>> \in Seq(S)
  BY HexCodes DEF Encoding
<1>4. percent_encode(<<p>>) = <<p>>
  BY <1>1, <1>2, <1>3
<1> QED
  BY <1>3, <1>4, EncodingRoundTrip, EncodingIsValue

\* A URI that has been written so far, and what the app will read of it.
Reads(t, q, S, kind, label, values) ==
    /\ t \in Seq(S)
    /\ IsUri(t, q) /\ q <= Len(t)
    /\ t[2] = kind
    /\ Part(t, 4, {"?", "#"}) = label
    /\ \A name \in Names : Values(t, name) = values[name]

\* The value that an Option stands for in a URI.
ReadOf(option, text) == IF option = <<>> THEN <<>> ELSE <<percent_decode(text)>>

LEMMA ParameterRead ==
    ASSUME NEW S, Alphabet(S), Names \subseteq S,
           NEW t, NEW q, NEW kind, NEW label, NEW values, Reads(t, q, S, kind, label, values),
           NEW name \in Names, values[name] = <<>>, values = [n \in Names |-> values[n]],
           NEW option, NEW text, option # <<>> => IsValue(text, S)
    PROVE  Reads(t \o Parameter(name, option, text), q, S, kind, label,
                 [values EXCEPT ![name] = ReadOf(option, text)])
<1> DEFINE next == [values EXCEPT ![name] = ReadOf(option, text)]
<1>1. \A n \in Names : next[n] = IF n = name THEN ReadOf(option, text) ELSE values[n]
  OBVIOUS
<1>2. CASE option = <<>>
  <2>1. Parameter(name, option, text) = <<>> /\ ReadOf(option, text) = <<>>
    BY <1>2 DEF Parameter, ReadOf
  <2>2. t \o <<>> = t
    BY DEF Reads
  <2> HIDE DEF next
  <2>3. \A n \in Names : Values(t, n) = next[n]
    BY <1>1, <2>1 DEF Reads
  <2> QED
    BY <2>1, <2>2, <2>3 DEF Reads, next
<1>3. CASE option # <<>>
  <2> DEFINE x == <<"&", name, "=">> \o text
  <2>1. /\ "&" \in S /\ "=" \in S
        /\ name \notin Delimiters
    <3>1. {"&", "="} \subseteq OTPAUTH_ENCODE_SET
      BY DEF OTPAUTH_ENCODE_SET
    <3>2. name \notin Delimiters
      BY DEF Names, Delimiters
    <3> QED
      BY <3>1, <3>2 DEF Alphabet
  <2>2. text \in Seq(S) /\ \A i \in 1 .. Len(text) : text[i] \notin Delimiters
    BY <1>3 DEF IsValue
  <2>3. /\ x \in Seq(S) /\ Len(x) = Len(text) + 3
        /\ x[1] = "&" /\ x[2] = name /\ x[3] = "="
        /\ \A i \in 1 .. Len(text) : x[i + 3] = text[i]
    BY <2>1, <2>2
  <2> HIDE DEF x
  <2>4. \A i \in 4 .. Len(x) : x[i] \notin Delimiters
    <3> SUFFICES ASSUME NEW i \in 4 .. Len(x) PROVE x[i] \notin Delimiters
      OBVIOUS
    <3>1. i - 3 \in 1 .. Len(text) /\ (i - 3) + 3 = i
      BY <2>2, <2>3
    <3> QED
      BY <2>2, <2>3, <3>1
  <2>5. SubSeq(x, 4, Len(x)) = text
    <3>1. SubSeq(x, 4, Len(x)) \in Seq(S) /\ Len(SubSeq(x, 4, Len(x))) = Len(text)
          /\ \A i \in 1 .. Len(text) : SubSeq(x, 4, Len(x))[i] = x[i + 3]
      BY <2>2, <2>3
    <3> QED
      BY <2>2, <2>3, <3>1, SeqEqual
  <2>6. Separator(t, q) = "&" /\ t \in Seq(S) /\ IsUri(t, q) /\ q <= Len(t) /\ q \in Nat
    BY DEF Separator, Reads, IsUri
  <2>7. IsParameter(x, Separator(t, q), name)
    BY <2>1, <2>2, <2>3, <2>4, <2>6 DEF IsParameter, Delimiters
  <2>8. Added(t, q, x, name)
    BY <2>3, <2>6, <2>7, AddParameter
  <2>9. \A n \in Names : Values(t \o x, n) = next[n]
    <3>1. \A n \in Names : Values(t, n) = values[n]
      BY DEF Reads
    <3>2. ReadOf(option, text) = <<percent_decode(text)>>
      BY <1>3 DEF ReadOf
    <3> HIDE DEF next
    <3> QED
      BY <1>1, <2>5, <2>8, <3>1, <3>2 DEF Added
  <2>10. t \o x \in Seq(S) /\ q <= Len(t \o x)
    BY <2>3, <2>6
  <2>11. Parameter(name, option, text) = x
    BY <1>3, Zenon DEF Parameter, x
  <2> QED
    BY <2>8, <2>9, <2>10, <2>11 DEF Added, Reads
<1> QED
  BY <1>2, <1>3

LEMMA AfterThree ==
    ASSUME NEW S, NEW h \in Seq(S), Len(h) = 3, NEW v \in Seq(S)
    PROVE  /\ h \o v \in Seq(S) /\ Len(h \o v) = 3 + Len(v)
           /\ (h \o v)[1] = h[1] /\ (h \o v)[2] = h[2] /\ (h \o v)[3] = h[3]
           /\ \A i \in 1 .. Len(v) : (h \o v)[3 + i] = v[i]
<1> DEFINE n == Len(v)
           w == h \o v
<1>1. n \in Nat /\ w \in Seq(S) /\ Len(w) = 3 + n
      /\ \A i \in 1 .. 3 + n : w[i] = IF i <= 3 THEN h[i] ELSE v[i - 3]
  <2>1. /\ w \in Seq(S) /\ Len(w) = Len(h) + Len(v)
        /\ \A i \in 1 .. Len(h) + Len(v) : w[i] = IF i <= Len(h) THEN h[i] ELSE v[i - Len(h)]
    BY ConcatProperties, Zenon
  <2>2. n \in Nat
    OBVIOUS
  <2> HIDE DEF w
  <2> QED
    BY <2>1, <2>2
<1> HIDE DEF n, w
<1>2. w[1] = h[1] /\ w[2] = h[2] /\ w[3] = h[3]
  BY <1>1
<1>3. ASSUME NEW i \in 1 .. n PROVE w[3 + i] = v[i]
  BY <1>1
<1> QED
  BY <1>1, <1>2, <1>3 DEF n, w

\* A URI before its options are written.
Beginning(kind, label, secret) ==
    <<"otpauth://", kind, "/">> \o percent_encode(label)
    \o <<"?", "secret", "=">> \o percent_encode(secret)

OnlySecret(secret) == [name \in Names |-> IF name = "secret" THEN <<secret>> ELSE <<>>]

LEMMA BeginningRead ==
    ASSUME NEW S, Alphabet(S), Names \subseteq S, "otpauth://" \in S,
           NEW kind \in S \ OTPAUTH_ENCODE_SET, NEW label \in Seq(S), NEW secret \in Seq(S)
    PROVE  \E q : Reads(Beginning(kind, label, secret), q, S, kind, label, OnlySecret(secret))
<1> DEFINE head  == <<"otpauth://", kind, "/">>
           path  == percent_encode(label)
           front == head \o path
           v     == percent_encode(secret)
           mark  == <<"?", "secret", "=">>
           x     == mark \o v
           q     == Len(front) + 1
<1>1. /\ {"?", "&", "#", "=", "/"} \subseteq OTPAUTH_ENCODE_SET
      /\ {"?", "&", "#", "=", "/"} \subseteq S
      /\ Delimiters \subseteq OTPAUTH_ENCODE_SET
      /\ kind \notin Delimiters
  BY DEF OTPAUTH_ENCODE_SET, Alphabet, Delimiters
<1>2. /\ path \in Seq(S) /\ \A i \in 1 .. Len(path) : path[i] \notin Delimiters
      /\ v \in Seq(S) /\ \A i \in 1 .. Len(v) : v[i] \notin Delimiters
  BY EncodingIsValue DEF IsValue
<1>3. percent_decode(path) = label /\ percent_decode(v) = secret
  BY EncodingRoundTrip
<1> HIDE DEF path, v
<1>4. head \in Seq(S) /\ Len(head) = 3 /\ head[2] = kind
      /\ \A i \in 1 .. 3 : head[i] \notin Delimiters
  BY <1>1 DEF Delimiters
<1> HIDE DEF head
<1>5. /\ front \in Seq(S) /\ Len(front) = 3 + Len(path)
      /\ front[2] = kind
      /\ \A i \in 1 .. Len(path) : front[3 + i] = path[i]
      /\ front[1] = head[1] /\ front[3] = head[3]
  <2>1. path \in Seq(S) /\ head \in Seq(S) /\ Len(head) = 3
    BY <1>2, <1>4
  <2> QED
    BY <1>4, <2>1, AfterThree
<1> HIDE DEF front
<1>6. \A i \in 1 .. Len(front) : front[i] \notin Delimiters
  <2> SUFFICES ASSUME NEW i \in 1 .. Len(front) PROVE front[i] \notin Delimiters
    OBVIOUS
  <2>1. CASE i \in 1 .. 3
    <3>1. i = 1 \/ i = 2 \/ i = 3
      BY <2>1
    <3> QED
      BY <1>4, <1>5, <3>1
  <2>2. CASE i > 3
    <3>1. i - 3 \in 1 .. Len(path) /\ 3 + (i - 3) = i
      BY <1>2, <1>5, <2>2
    <3> QED
      BY <1>2, <1>5, <3>1
  <2> QED
    BY <2>1, <2>2
<1>7. q \in Nat /\ q >= 4 /\ q = Len(front) + 1
  BY <1>2, <1>5
<1> HIDE DEF q
<1>8. IsUri(front, q)
  BY <1>6, <1>7 DEF IsUri, Delimiters
<1>9. SubSeq(front, 4, q - 1) = path
  <2>1. SubSeq(front, 4, q - 1) \in Seq(S) /\ Len(SubSeq(front, 4, q - 1)) = Len(path)
        /\ \A i \in 1 .. Len(path) : SubSeq(front, 4, q - 1)[i] = front[3 + i]
    BY <1>2, <1>5, <1>7
  <2> QED
    BY <1>2, <1>5, <2>1, SeqEqual
<1>10. Part(front, 4, {"?", "#"}) = label
  BY <1>3, <1>5, <1>8, <1>9, EndsOfUri
<1>11. \A name : Values(front, name) = <<>>
  <2> SUFFICES ASSUME NEW name PROVE Places(front, name) = {}
    BY ValuesOfNone
  <2>1. Places(front, name) =
          { i \in 1 .. Len(front) - 2 : front[i] \in {"?", "&"} /\ front[i + 1] = name }
    BY <1>5, <1>8, EndsOfUri
  <2> QED
    BY <1>2, <1>5, <1>6, <2>1 DEF Delimiters
<1>12. mark \in Seq(S) /\ Len(mark) = 3
       /\ mark[1] = "?" /\ mark[2] = "secret" /\ mark[3] = "="
  BY <1>1 DEF Names
<1> HIDE DEF mark
<1>13. /\ x \in Seq(S) /\ Len(x) = 3 + Len(v)
       /\ x[1] = "?" /\ x[2] = "secret" /\ x[3] = "="
       /\ \A i \in 1 .. Len(v) : x[3 + i] = v[i]
  <2>1. v \in Seq(S) /\ mark \in Seq(S) /\ Len(mark) = 3
    BY <1>2, <1>12
  <2> QED
    BY <1>12, <2>1, AfterThree
<1>14. front \o x = (front \o mark) \o v
  <2>1. front \in Seq(S) /\ mark \in Seq(S) /\ v \in Seq(S)
    BY <1>2, <1>5, <1>12
  <2>2. \A r, s, w \in Seq(S) : (r \o s) \o w = r \o (s \o w)
    BY ConcatAssociative
  <2>3. (front \o mark) \o v = front \o (mark \o v)
    BY <2>1, <2>2, Zenon
  <2> QED
    BY <2>3
<1> HIDE DEF x
<1>15. \A i \in 4 .. Len(x) : x[i] \notin Delimiters
  <2> SUFFICES ASSUME NEW i \in 4 .. Len(x) PROVE x[i] \notin Delimiters
    OBVIOUS
  <2>1. i - 3 \in 1 .. Len(v) /\ 3 + (i - 3) = i
    BY <1>2, <1>13
  <2> QED
    BY <1>2, <1>13, <2>1
<1>16. SubSeq(x, 4, Len(x)) = v
  <2>1. SubSeq(x, 4, Len(x)) \in Seq(S) /\ Len(SubSeq(x, 4, Len(x))) = Len(v)
        /\ \A i \in 1 .. Len(v) : SubSeq(x, 4, Len(x))[i] = x[3 + i]
    BY <1>2, <1>13
  <2> QED
    BY <1>2, <1>13, <2>1, SeqEqual
<1>17. IsParameter(x, Separator(front, q), "secret")
  <2>1. Separator(front, q) = "?"
    BY <1>7 DEF Separator
  <2> QED
    BY <1>2, <1>13, <1>15, <2>1 DEF IsParameter, Delimiters
<1>18. Added(front, q, x, "secret")
  BY <1>5, <1>8, <1>13, <1>17, AddParameter
<1>19. Reads(front \o x, q, S, kind, label, OnlySecret(secret))
  <2>1. front \o x \in Seq(S) /\ q <= Len(front \o x)
    BY <1>2, <1>5, <1>7, <1>13
  <2>2. \A name \in Names : Values(front \o x, name) = OnlySecret(secret)[name]
    BY <1>3, <1>11, <1>16, <1>18 DEF Added, OnlySecret
  <2> QED
    BY <1>5, <1>10, <1>18, <2>1, <2>2 DEF Added, Reads
<1>20. Beginning(kind, label, secret) = front \o x
  BY <1>14, Zenon DEF Beginning, head, path, front, v, mark
<1> QED
  BY <1>19, <1>20

\* What an Option gives, or what the Key URI format has for its absence.
StatedOr(option, default) == IF option = <<>> THEN default ELSE option[1]

\* A URI whose texts and values are of some alphabet, the values needing no encoding.
IsDescription(u, S) ==
    /\ u.typ \in S \ OTPAUTH_ENCODE_SET
    /\ u.label \in Seq(S)
    /\ normalize_base32_secret(u.secret) \in Seq(S)
    /\ u.issuer # <<>> => u.issuer = <<u.issuer[1]>> /\ u.issuer[1] \in Seq(S)
    /\ u.algorithm # <<>> => u.algorithm[1] \in S \ OTPAUTH_ENCODE_SET
    /\ \A field \in {"digits", "period", "counter"} :
          u[field] # <<>> => ToString(u[field][1]) \in S \ OTPAUTH_ENCODE_SET

\* The numbers have texts of their own.
Tells(numbers) == \A m, n \in numbers : ToString(m) = ToString(n) => m = n

LEMMA NumberRead ==
    ASSUME NEW numbers, Tells(numbers), NEW n \in numbers
    PROVE  NumberIn(numbers, Number(n)) = n
<1>1. \A m \in numbers : Number(m) = Number(n) => m = n
  BY DEF Number, Tells
<1> QED
  BY <1>1 DEF NumberIn

\* Whatever fields a URI has, in whatever order they were set, and whatever is in its
\* texts, the app reads what the server has put in it: build is undone, with the defaults
\* of the Key URI format for the fields that are left out.
THEOREM ParsedOfBuilt ==
    ASSUME NEW S, Alphabet(S), Names \subseteq S, "otpauth://" \in S,
           NEW u, IsDescription(u, S), NEW numbers, Tells(numbers)
    PROVE  LET p == Parsed(build_uri(u), numbers)
           IN  /\ p.typ = u.typ /\ p.label = u.label /\ p.issuer = u.issuer
               /\ p.secret = normalize_base32_secret(u.secret)
               /\ p.algorithm = StatedOr(u.algorithm, "SHA1")
               /\ StatedOr(u.digits, 6) \in numbers => p.digits = StatedOr(u.digits, 6)
               /\ StatedOr(u.period, 30) \in numbers => p.period = StatedOr(u.period, 30)
               /\ StatedOr(u.counter, 0) \in numbers => p.counter = StatedOr(u.counter, 0)
<1> DEFINE secret == normalize_base32_secret(u.secret)
           i == percent_encode(u.issuer[1])
           a == <<u.algorithm[1]>>
           d == Number(u.digits[1])
           p == Number(u.period[1])
           c == Number(u.counter[1])
           t0 == Beginning(u.typ, u.label, secret)
           t1 == t0 \o Parameter("issuer", u.issuer, i)
           t2 == t1 \o Parameter("algorithm", u.algorithm, a)
           t3 == t2 \o Parameter("digits", u.digits, d)
           t4 == t3 \o Parameter("period", u.period, p)
           t5 == t4 \o Parameter("counter", u.counter, c)
           v0 == OnlySecret(secret)
           v1 == [v0 EXCEPT !["issuer"] = ReadOf(u.issuer, i)]
           v2 == [v1 EXCEPT !["algorithm"] = ReadOf(u.algorithm, a)]
           v3 == [v2 EXCEPT !["digits"] = ReadOf(u.digits, d)]
           v4 == [v3 EXCEPT !["period"] = ReadOf(u.period, p)]
           v5 == [v4 EXCEPT !["counter"] = ReadOf(u.counter, c)]
           RR(t, q, v) == Reads(t, q, S, u.typ, u.label, v)
<1>1. build_uri(u) = t5
  BY Zenon DEF build_uri, Beginning
<1>2. /\ u.issuer # <<>> => IsValue(i, S) /\ percent_decode(i) = u.issuer[1]
      /\ u.algorithm # <<>> => IsValue(a, S) /\ percent_decode(a) = a
      /\ u.digits # <<>> => IsValue(d, S) /\ percent_decode(d) = d
      /\ u.period # <<>> => IsValue(p, S) /\ percent_decode(p) = p
      /\ u.counter # <<>> => IsValue(c, S) /\ percent_decode(c) = c
  <2>1. u.issuer # <<>> => u.issuer[1] \in Seq(S)
    BY DEF IsDescription
  <2>2. u.issuer # <<>> => IsValue(i, S) /\ percent_decode(i) = u.issuer[1]
    BY <2>1, EncodingIsValue, EncodingRoundTrip
  <2>3. u.algorithm # <<>> => IsValue(a, S) /\ percent_decode(a) = a
    <3>1. u.algorithm # <<>> => u.algorithm[1] \in S \ OTPAUTH_ENCODE_SET
      BY DEF IsDescription
    <3> QED
      BY <3>1, PlainPiece
  <2>4. ASSUME NEW f \in {"digits", "period", "counter"}, u[f] # <<>>
        PROVE  IsValue(Number(u[f][1]), S)
               /\ percent_decode(Number(u[f][1])) = Number(u[f][1])
    <3>1. ToString(u[f][1]) \in S \ OTPAUTH_ENCODE_SET
      BY <2>4 DEF IsDescription
    <3> QED
      BY <3>1, PlainPiece DEF Number
  <2>5. /\ u.digits # <<>> => IsValue(d, S) /\ percent_decode(d) = d
        /\ u.period # <<>> => IsValue(p, S) /\ percent_decode(p) = p
        /\ u.counter # <<>> => IsValue(c, S) /\ percent_decode(c) = c
    BY <2>4
  <2> QED
    BY <2>2, <2>3, <2>5
<1>3. \E q : RR(t0, q, v0)
  BY BeginningRead DEF IsDescription
<1> HIDE DEF secret, i, a, d, p, c
<1>4. /\ v0 = [n \in Names |-> v0[n]] /\ v0["issuer"] = <<>>
      /\ v1 = [n \in Names |-> v1[n]] /\ v1["algorithm"] = <<>>
      /\ v2 = [n \in Names |-> v2[n]] /\ v2["digits"] = <<>>
      /\ v3 = [n \in Names |-> v3[n]] /\ v3["period"] = <<>>
      /\ v4 = [n \in Names |-> v4[n]] /\ v4["counter"] = <<>>
  BY DEF OnlySecret, Names
<1>5. /\ v5["secret"] = <<secret>>
      /\ v5["issuer"] = ReadOf(u.issuer, i)
      /\ v5["algorithm"] = ReadOf(u.algorithm, a)
      /\ v5["digits"] = ReadOf(u.digits, d)
      /\ v5["period"] = ReadOf(u.period, p)
      /\ v5["counter"] = ReadOf(u.counter, c)
  BY DEF OnlySecret, Names
<1>6. PICK q : RR(t0, q, v0)
  BY <1>3
<1> HIDE DEF t0, v0
<1>7. {"issuer", "algorithm", "digits", "period", "counter"} \subseteq Names
  BY DEF Names
<1>8. RR(t1, q, v1)
  BY <1>2, <1>4, <1>6, <1>7, ParameterRead
<1> HIDE DEF t1, v1
<1>9. RR(t2, q, v2)
  BY <1>2, <1>4, <1>7, <1>8, ParameterRead
<1> HIDE DEF t2, v2
<1>10. RR(t3, q, v3)
  BY <1>2, <1>4, <1>7, <1>9, ParameterRead
<1> HIDE DEF t3, v3
<1>11. RR(t4, q, v4)
  BY <1>2, <1>4, <1>7, <1>10, ParameterRead
<1> HIDE DEF t4, v4
<1>12. RR(t5, q, v5)
  BY <1>2, <1>4, <1>7, <1>11, ParameterRead
<1> HIDE DEF t5, v5
<1>13. /\ t5[2] = u.typ
       /\ Part(t5, 4, {"?", "#"}) = u.label
       /\ Values(t5, "secret") = <<secret>>
       /\ Values(t5, "issuer") = ReadOf(u.issuer, i)
       /\ Values(t5, "algorithm") = ReadOf(u.algorithm, a)
       /\ Values(t5, "digits") = ReadOf(u.digits, d)
       /\ Values(t5, "period") = ReadOf(u.period, p)
       /\ Values(t5, "counter") = ReadOf(u.counter, c)
  BY <1>5, <1>12 DEF Reads, Names
<1>14. ValueOr(Values(t5, "secret"), <<>>) = secret
  BY <1>13 DEF ValueOr
<1>15. Values(t5, "issuer") = u.issuer
  BY <1>2, <1>13 DEF ReadOf, IsDescription
<1>16. ValueOr(Values(t5, "algorithm"), <<"SHA1">>)[1] = StatedOr(u.algorithm, "SHA1")
  BY <1>2, <1>13 DEF ReadOf, ValueOr, StatedOr, a
<1>17. /\ ValueOr(Values(t5, "digits"), Number(6)) = Number(StatedOr(u.digits, 6))
       /\ ValueOr(Values(t5, "period"), Number(30)) = Number(StatedOr(u.period, 30))
       /\ ValueOr(Values(t5, "counter"), Number(0)) = Number(StatedOr(u.counter, 0))
  BY <1>2, <1>13 DEF ReadOf, ValueOr, StatedOr, d, p, c
<1> DEFINE r == Parsed(t5, numbers)
<1>18. /\ r.typ = t5[2]
       /\ r.label = Part(t5, 4, {"?", "#"})
       /\ r.secret = ValueOr(Values(t5, "secret"), <<>>)
       /\ r.issuer = Values(t5, "issuer")
       /\ r.algorithm = ValueOr(Values(t5, "algorithm"), <<"SHA1">>)[1]
       /\ r.digits = NumberIn(numbers, ValueOr(Values(t5, "digits"), Number(6)))
       /\ r.period = NumberIn(numbers, ValueOr(Values(t5, "period"), Number(30)))
       /\ r.counter = NumberIn(numbers, ValueOr(Values(t5, "counter"), Number(0)))
  BY DEF Parsed
<1> HIDE DEF r
<1>19. /\ StatedOr(u.digits, 6) \in numbers => r.digits = StatedOr(u.digits, 6)
       /\ StatedOr(u.period, 30) \in numbers => r.period = StatedOr(u.period, 30)
       /\ StatedOr(u.counter, 0) \in numbers => r.counter = StatedOr(u.counter, 0)
  BY <1>17, <1>18, NumberRead
<1>20. r = Parsed(build_uri(u), numbers)
  BY <1>1 DEF r
<1> QED
  BY <1>13, <1>14, <1>15, <1>16, <1>18, <1>19, <1>20 DEF secret

-----------------------------------------------------------------------------
(* The text of a secret *)

Skipped == {"=", " ", "\t", "\n"}

Kept(piece) == IF piece \in Skipped THEN <<>> ELSE <<piece>>

LEMMA NormalizeEmpty == normalize_base32_secret(<<>>) = <<>>
<1>1. normalize_base32_secret(<<>>) = FlattenSeq([i \in DOMAIN <<>> |-> Kept(<<>>[i])])
  BY Zenon DEF normalize_base32_secret, Kept, Skipped
<1>2. [i \in DOMAIN <<>> |-> Kept(<<>>[i])] = <<>>
  OBVIOUS
<1> QED
  BY <1>1, <1>2, FlattenEmpty

LEMMA NormalizeAppend ==
    ASSUME NEW S, NEW t \in Seq(S), NEW p \in S
    PROVE  /\ normalize_base32_secret(t) \in Seq(S)
           /\ normalize_base32_secret(Append(t, p)) = normalize_base32_secret(t) \o Kept(p)
<1> DEFINE Keeping(s) == [i \in DOMAIN s |-> Kept(s[i])]
           q == Append(t, p)
<1>1. \A s : normalize_base32_secret(s) = FlattenSeq(Keeping(s))
  BY Zenon DEF normalize_base32_secret, Kept, Skipped
<1>2. \A e \in S : Kept(e) \in Seq(S)
  BY DEF Kept
<1>3. Keeping(t) \in Seq(Seq(S))
  <2>1. \A i \in 1 .. Len(t) : Kept(t[i]) \in Seq(S)
    BY <1>2
  <2> QED
    BY <2>1
<1>4. Keeping(q) = Append(Keeping(t), Kept(p))
  OBVIOUS
<1> HIDE DEF Keeping
<1> QED
  BY <1>1, <1>2, <1>3, <1>4, FlattenAppend

LEMMA NormalizedIsText ==
    ASSUME NEW S, NEW t \in Seq(S)
    PROVE  normalize_base32_secret(t) \in Seq(S)
<1>1. \A e \in S : normalize_base32_secret(t) \in Seq(S)
  BY NormalizeAppend
<1>2. S = {} => t = <<>>
  OBVIOUS
<1> QED
  BY <1>1, <1>2, NormalizeEmpty

\* Nothing else is left out.
LEMMA NormalizeKeeps ==
    ASSUME NEW S, NEW t \in Seq(S), NEW v \in Seq(S \ Skipped)
    PROVE  normalize_base32_secret(t \o v) = normalize_base32_secret(t) \o v
<1> DEFINE T == {w \in Seq(S \ Skipped) :
                   normalize_base32_secret(t \o w) = normalize_base32_secret(t) \o w}
<1>0. normalize_base32_secret(t) \in Seq(S)
  BY NormalizedIsText
<1>1. <<>> \in T
  <2>1. t \o <<>> = t /\ normalize_base32_secret(t) \o <<>> = normalize_base32_secret(t)
    BY <1>0
  <2>2. <<>> \in Seq(S \ Skipped)
    OBVIOUS
  <2>3. normalize_base32_secret(t \o <<>>) = normalize_base32_secret(t) \o <<>>
    BY <2>1, Zenon
  <2> QED
    BY <2>2, <2>3, Zenon
<1>2. \A w \in Seq(S \ Skipped) \cap T : \A e \in S \ Skipped : Append(w, e) \in T
  <2> SUFFICES ASSUME NEW w \in Seq(S \ Skipped) \cap T, NEW e \in S \ Skipped
               PROVE  Append(w, e) \in T
    OBVIOUS
  <2> DEFINE n == normalize_base32_secret(t)
  <2>1. w \in Seq(S) /\ Append(w, e) \in Seq(S \ Skipped) /\ t \o w \in Seq(S) /\ e \in S
    <3>1. Seq(S \ Skipped) \subseteq Seq(S)
      OBVIOUS
    <3> QED
      BY <3>1
  <2>2. t \o Append(w, e) = Append(t \o w, e)
    BY <2>1
  <2>3. normalize_base32_secret(Append(t \o w, e)) = normalize_base32_secret(t \o w) \o Kept(e)
    BY <2>1, NormalizeAppend
  <2>4. normalize_base32_secret(t \o w) = n \o w
    OBVIOUS
  <2>5. Kept(e) = <<e>>
    BY DEF Kept
  <2> HIDE DEF n
  <2>6. (n \o w) \o <<e>> = n \o Append(w, e)
    BY <1>0, <2>1 DEF n
  <2> QED
    BY <2>1, <2>2, <2>3, <2>4, <2>5, <2>6 DEF n
<1> HIDE DEF T
<1>3. Seq(S \ Skipped) \subseteq T
  BY <1>1, <1>2, SeqInduction, Zenon
<1> QED
  BY <1>3 DEF T

\* So a text is left if its spaces and its padding are.
LEMMA NormalizeSpacedAndPadded ==
    ASSUME NEW S, NEW blank \in S \cap Skipped, NEW pad \in S \cap Skipped,
           NEW e \in Seq(S \ Skipped), e # <<>>
    PROVE  /\ normalize_base32_secret(e) = e
           /\ normalize_base32_secret(<<blank, e[1], blank>> \o Tail(e) \o <<pad, pad>>) = e
<1> DEFINE N(t) == normalize_base32_secret(t)
           x == e[1]
           r == Tail(e)
<1>1. /\ Len(e) \in Nat /\ Len(e) # 0
      /\ x \in S \ Skipped /\ r \in Seq(S \ Skipped) /\ <<x>> \o r = e
  <2>1. Len(e) \in Nat /\ Len(e) # 0
    OBVIOUS
  <2>2. x \in S \ Skipped
    BY <2>1
  <2>3. r \in Seq(S \ Skipped) /\ Len(r) = Len(e) - 1 /\ \A i \in 1 .. Len(r) : r[i] = e[i + 1]
    BY <2>1
  <2> HIDE DEF x, r
  <2>4. <<x>> \o r \in Seq(S \ Skipped) /\ Len(<<x>> \o r) = Len(e)
        /\ (<<x>> \o r)[1] = x /\ \A i \in 1 .. Len(r) : (<<x>> \o r)[i + 1] = r[i]
    BY <2>1, <2>2, <2>3
  <2>5. ASSUME NEW i \in 1 .. Len(e) PROVE (<<x>> \o r)[i] = e[i]
    <3>1. CASE i = 1
      BY <2>4, <3>1 DEF x
    <3>2. CASE i # 1
      <4>1. i - 1 \in 1 .. Len(r) /\ (i - 1) + 1 = i
        BY <2>1, <2>3, <3>2
      <4> QED
        BY <2>3, <2>4, <4>1
    <3> QED
      BY <3>1, <3>2
  <2>6. <<x>> \o r = e
    BY <2>4, <2>5, SeqEqual
  <2> QED
    BY <2>1, <2>2, <2>3, <2>6
<1> HIDE DEF x, r
<1>2. /\ blank \in S /\ pad \in S /\ x \in S
      /\ Kept(blank) = <<>> /\ Kept(pad) = <<>> /\ Kept(x) = <<x>>
  BY <1>1 DEF Kept
<1>3. /\ Seq(S \ Skipped) \subseteq Seq(S)
      /\ <<>> \in Seq(S) /\ N(<<>>) = <<>>
  BY NormalizeEmpty
<1> HIDE DEF N
<1>4. \A t \in Seq(S), p \in S : N(Append(t, p)) = N(t) \o Kept(p)
  BY NormalizeAppend DEF N
<1>5. \A t \in Seq(S), v \in Seq(S \ Skipped) : N(t \o v) = N(t) \o v
  BY NormalizeKeeps DEF N
<1>6. N(e) = e
  <2>1. <<>> \o e = e
    OBVIOUS
  <2>2. N(<<>> \o e) = <<>> \o e
    BY <1>3, <1>5
  <2> QED
    BY <2>1, <2>2
<1> DEFINE h == <<blank, x, blank>>
<1>7. h \in Seq(S) /\ N(h) = <<x>>
  <2> DEFINE h1 == <<blank>>
             h2 == <<blank, x>>
  <2>1. h1 \in Seq(S) /\ h2 \in Seq(S) /\ h \in Seq(S)
    BY <1>2
  <2>2. N(h1) = <<>> \o <<>>
    <3>1. h1 = Append(<<>>, blank)
      OBVIOUS
    <3>2. N(Append(<<>>, blank)) = N(<<>>) \o Kept(blank)
      BY <1>2, <1>3, <1>4
    <3> QED
      BY <1>2, <1>3, <3>1, <3>2, Zenon
  <2>3. N(h2) = N(h1) \o <<x>>
    <3>1. h2 = Append(h1, x)
      OBVIOUS
    <3>2. N(Append(h1, x)) = N(h1) \o Kept(x)
      BY <1>2, <1>4, <2>1, Zenon
    <3> QED
      BY <1>2, <3>1, <3>2, Zenon
  <2>4. N(h) = N(h2) \o <<>>
    <3>1. h = Append(h2, blank)
      OBVIOUS
    <3>2. N(Append(h2, blank)) = N(h2) \o Kept(blank)
      BY <1>2, <1>4, <2>1, Zenon
    <3> QED
      BY <1>2, <3>1, <3>2, Zenon
  <2> HIDE DEF h, h1, h2
  <2>5. ((<<>> \o <<>>) \o <<x>>) \o <<>> = <<x>>
    <3>1. <<>> \o <<>> = <<>>
      OBVIOUS
    <3>2. <<>> \o <<x>> = <<x>> /\ <<x>> \o <<>> = <<x>>
      BY <1>2
    <3> QED
      BY <3>1, <3>2
  <2> QED
    BY <2>1, <2>2, <2>3, <2>4, <2>5
<1> HIDE DEF h
<1>8. r \in Seq(S) /\ h \o r \in Seq(S) /\ N(h \o r) = e
  <2>1. r \in Seq(S)
    BY <1>1, <1>3
  <2>2. h \o r \in Seq(S)
    BY <1>7, <2>1
  <2>3. N(h \o r) = <<x>> \o r
    BY <1>1, <1>5, <1>7
  <2> QED
    BY <1>1, <2>1, <2>2, <2>3
<1> DEFINE g == h \o r
           g1 == Append(g, pad)
           g2 == Append(g1, pad)
<1>9. g \in Seq(S) /\ N(g) = e
  BY <1>8
<1>10. h \o r \o <<pad, pad>> = g2
  BY <1>2, <1>8
<1> HIDE DEF g
<1>11. g1 \in Seq(S) /\ N(g1) = e \o <<>>
  <2>1. g1 \in Seq(S)
    BY <1>2, <1>9
  <2>2. N(g1) = N(g) \o Kept(pad)
    BY <1>2, <1>4, <1>9
  <2> QED
    BY <1>2, <1>9, <2>1, <2>2, Zenon
<1> HIDE DEF g1
<1>12. N(g2) = (e \o <<>>) \o <<>>
  BY <1>2, <1>4, <1>11
<1>13. e \o <<>> = e
  OBVIOUS
<1> QED
  BY <1>6, <1>10, <1>12, <1>13 DEF N, h, x, r
=============================================================================
