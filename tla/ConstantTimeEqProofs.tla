------------------------ MODULE ConstantTimeEqProofs ------------------------
(***************************************************************************)
(* The comparison decides equality, for all byte strings whose lengths fit *)
(* the cast.                                                               *)
(***************************************************************************)
EXTENDS ConstantTimeEq, TLAPS

\* After i iterations diff says whether the lengths or the first i bytes differ.
LoopInv ==
    /\ diff <=> \/ LengthsDiffer(a, b)
                \/ \E k \in 0 .. i - 1 : ByteAt(a, k) # ByteAt(b, k)
    /\ answer # "none" => i = max_len /\ (answer = "true" <=> ~diff)

IInv == TypeOK /\ LoopInv

\* max_len is a natural number, and no string is longer.
LEMMA MaxLen == TypeOK => /\ max_len \in Nat
                          /\ Len(a) \in Nat /\ Len(a) <= max_len
                          /\ Len(b) \in Nat /\ Len(b) <= max_len
  BY ByteAssumption DEF TypeOK, max_len

\* Types and the meaning of diff are kept by every step of the loop.
LEMMA InvHolds == Spec => []IInv
<1>1. Init => IInv
  <2> SUFFICES ASSUME Init PROVE IInv
    OBVIOUS
  <2>1. max_len \in Nat
    BY ByteAssumption DEF Init, max_len
  <2>2. TypeOK
    BY <2>1 DEF Init, TypeOK, LengthsDiffer
  <2>3. i = 0 /\ answer = "none" /\ diff = LengthsDiffer(a, b)
    BY DEF Init
  <2>4. \A k : k \notin 0 .. 0 - 1
    OBVIOUS
  <2>5. LoopInv
    BY <2>3, <2>4 DEF LoopInv
  <2> QED
    BY <2>2, <2>5 DEF IInv
<1>2. IInv /\ [Next]_vars => IInv'
  <2> SUFFICES ASSUME IInv, [Next]_vars PROVE IInv'
    OBVIOUS
  <2>1. CASE Iterate
    <3>1. a' = a /\ b' = b /\ max_len' = max_len /\ i' = i + 1 /\ answer = "none" /\ answer' = answer
      BY <2>1 DEF Iterate, max_len
    <3>2. i' \in 0 .. max_len /\ i \in Nat
      BY <2>1, MaxLen DEF IInv, TypeOK, Iterate
    <3>3. diff' <=> \/ LengthsDiffer(a, b)
                    \/ \E k \in 0 .. i - 1 : ByteAt(a, k) # ByteAt(b, k)
                    \/ ByteAt(a, i) # ByteAt(b, i)
      BY <2>1 DEF IInv, LoopInv, Iterate
    <3>4. \A k : k \in 0 .. (i + 1) - 1 <=> k \in 0 .. i - 1 \/ k = i
      BY <3>2
    <3>5. diff' <=> \/ LengthsDiffer(a, b)
                    \/ \E k \in 0 .. (i + 1) - 1 : ByteAt(a, k) # ByteAt(b, k)
      BY <3>3, <3>4
    <3>6. diff' \in BOOLEAN
      BY <2>1 DEF Iterate
    <3>7. TypeOK'
      BY <3>1, <3>2, <3>6 DEF IInv, TypeOK
    <3>8. LoopInv'
      BY <3>1, <3>5 DEF LoopInv, LengthsDiffer, ByteAt
    <3> QED
      BY <3>7, <3>8 DEF IInv
  <2>2. CASE Finish
    <3>1. i = max_len
      BY <2>2, MaxLen DEF Finish, IInv, TypeOK
    <3> QED
      BY <2>2, <3>1 DEF Finish, IInv, TypeOK, LoopInv, max_len, LengthsDiffer, ByteAt
  <2>3. CASE UNCHANGED vars
    BY <2>3 DEF vars, IInv, TypeOK, LoopInv, max_len, LengthsDiffer, ByteAt
  <2> QED
    BY <2>1, <2>2, <2>3 DEF Next
<1> QED
  BY <1>1, <1>2, PTL DEF Spec

\* The loop index stays between 0 and the length of the longer string.
THEOREM TypeOKHolds == Spec => []TypeOK
<1>1. IInv => TypeOK
  BY DEF IInv
<1> QED
  BY <1>1, InvHolds, PTL

\* Whatever the strings, the loop walks over the longer one to its end.
THEOREM WalksAllHolds == Spec => []WalksAll
<1>1. IInv => WalksAll
  BY DEF IInv, LoopInv, WalksAll
<1> QED
  BY <1>1, InvHolds, PTL

\* For strings whose lengths fit the cast the answer is equality.
THEOREM AnswersEqualityHolds == Spec => []AnswersEquality
<1>1. IInv => AnswersEquality
  <2> SUFFICES ASSUME IInv, LengthsFit, answer # "none"
               PROVE  answer = "true" <=> a = b
    BY DEF AnswersEquality
  <2>1. /\ i = max_len
        /\ answer = "true" <=> ~diff
        /\ a \in Seq(Byte) /\ b \in Seq(Byte)
    BY ByteAssumption DEF IInv, TypeOK, LoopInv
  <2>2. LengthsDiffer(a, b) <=> Len(a) # Len(b)
    BY <2>1, ByteAssumption DEF LengthsDiffer, LengthsFit
  <2>3. ASSUME a = b PROVE ~diff
    BY <2>2, <2>3 DEF IInv, LoopInv
  <2>4. ASSUME ~diff PROVE a = b
    <3>1. Len(a) = Len(b)
      BY <2>2, <2>4 DEF IInv, LoopInv
    <3>2. \A k \in 0 .. i - 1 : ByteAt(a, k) = ByteAt(b, k)
      BY <2>4 DEF IInv, LoopInv
    <3>3. i = Len(a) /\ Len(a) \in Nat
      BY <2>1, <3>1 DEF max_len
    <3>4. ASSUME NEW n \in 1 .. Len(a) PROVE a[n] = b[n]
      <4>1. n - 1 \in 0 .. i - 1 /\ n - 1 < Len(a) /\ (n - 1) + 1 = n
        BY <3>3
      <4> QED
        BY <3>1, <3>2, <4>1 DEF ByteAt
    <3> QED
      BY <2>1, <3>1, <3>4
  <2> QED
    BY <2>1, <2>3, <2>4
<1> QED
  BY <1>1, InvHolds, PTL
=============================================================================
