----------------------------- MODULE OtpContext -----------------------------
(***************************************************************************)
(* The canonical bytes of an OTP context.  The builder keeps its fields in *)
(* a sorted map and writes them one after the other; an origin is reduced  *)
(* to scheme, host and port first.  A text is a sequence of pieces: words, *)
(* and the characters the code looks for.                                  *)
(***************************************************************************)
EXTENDS Integers, SequencesExt

CONSTANTS
    SortedKeys,    \* the keys a map may have, in the order of their bytes
    Lowercase      \* Lowercase[piece]: str::to_lowercase, for the pieces of an origin

\* The characters normalize_origin looks for.
Marks == {" ", ":", "/", "?", "#"}

IsText(t) == t \in Seq(Range(t))

\* A key is there once, and has no "=" and no zero byte.  These and the marks have no case.
ASSUME ContextAssumption ==
    /\ IsText(SortedKeys)
    /\ \A i, j \in DOMAIN SortedKeys : SortedKeys[i] = SortedKeys[j] => i = j
    /\ \A key \in Range(SortedKeys) : IsText(key) /\ Range(key) \cap {"=", "0"} = {}
    /\ \A p \in DOMAIN Lowercase :
          {p, Lowercase[p]} \cap (Marks \cup {"0"}) # {} => Lowercase[p] = p

\* OtpContext::builder: a map without fields.
NoFields == [key \in {} |-> <<>>]

\* BTreeMap::insert: the value of a key already there is replaced.
insert(fields, key, value) ==
    [k \in DOMAIN fields \cup {key} |-> IF k = key THEN value ELSE fields[k]]

\* split_once(piece): what precedes its first occurrence, or everything.
Before(text, piece) ==
    LET at == SelectInSeq(text, LAMBDA p : p = piece)
    IN  IF at = 0 THEN text ELSE SubSeq(text, 1, at - 1)

\* Where "://" begins.
SchemeEnds(text) ==
    { i \in 1 .. Len(text) - 2 : SubSeq(text, i, i + 2) = <<":", "/", "/">> }

trim_end_matches(text, piece) ==
    SubSeq(text, 1, Max({0} \cup { i \in DOMAIN text : text[i] # piece }))

trim(text) ==
    LET end == trim_end_matches(text, " ")
    IN  Reverse(trim_end_matches(Reverse(end), " "))

\* Lower case, without fragment and query; without path too if there is a scheme.
normalize_origin(origin) ==
    LET lower == [i \in DOMAIN trim(origin) |-> Lowercase[trim(origin)[i]]]
        text  == Before(Before(lower, "#"), "?")
        ends  == SchemeEnds(text)
        host  == SubSeq(text, Min(ends) + 3, Len(text))
    IN  trim_end_matches(
            IF ends = {} THEN text ELSE SubSeq(text, 1, Min(ends) + 2) \o Before(host, "/"),
            "/")

custom_key(key) == <<"x-">> \o key

\* Mutant: entries are not terminated.
build_unterminated(fields) ==
    FlattenSeq([i \in DOMAIN SortedKeys |->
        IF SortedKeys[i] \in DOMAIN fields THEN SortedKeys[i] \o <<"=">> \o fields[SortedKeys[i]]
        ELSE <<>>])

\* The bytes of a context: "key=value", terminated by a zero byte, for each field.
build(fields) ==
    FlattenSeq([i \in DOMAIN SortedKeys |->
        IF SortedKeys[i] \in DOMAIN fields
          THEN SortedKeys[i] \o <<"=">> \o fields[SortedKeys[i]] \o <<"0">>
          ELSE <<>>])
=============================================================================
