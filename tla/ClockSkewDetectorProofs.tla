---------------------- MODULE ClockSkewDetectorProofs ----------------------
(***************************************************************************)
(* Theorems about ClockSkewDetector, for every number of threads, every    *)
(* capacity and every threshold; and about DriftTracking, which closes its *)
(* feedback with verify_tracking: that is stable, for every drift and      *)
(* every set of windows.                                                   *)
(***************************************************************************)
EXTENDS DriftTracking, FiniteSetTheorems, TLAPS

Rings == [capacity : Capacities, buffer : Seq(Int), write_idx : Nat, len : Nat, sum : Int,
          non_zero_count : Int]

\* The shape of a ring: it is filled from the first slot on, and then goes round.
WellShaped(r) ==
    /\ Len(r.buffer) = r.len
    /\ r.len <= r.capacity
    /\ r.len < r.capacity => r.write_idx = r.len
    /\ r.capacity > 0 => r.write_idx < r.capacity

\* What keeps an offset from outliving the samples it was computed from: only a ring with
\* enough samples lets a thread store one, and whoever empties the ring resets the offset
\* while that thread cannot hold the mutex.
SkewInv ==
    /\ WellShaped(ring)
    /\ \A t \in Threads : pc[t] = "hint" => ring.len >= MinAdjust
    /\ offset # 0 => ring.len >= MinAdjust

-----------------------------------------------------------------------------
(* Operators *)

LEMMA Modulo ==
    ASSUME NEW n \in Nat, NEW c \in Nat \ {0}
    PROVE  /\ n % c \in Nat /\ n % c < c
           /\ n < c => n % c = n
           /\ c <= n /\ n < 2 * c => n % c = n - c
  BY SMT

LEMMA ModuloOnce ==
    ASSUME NEW n \in Nat, NEW c \in Nat \ {0}, c <= n, n < 2 * c
    PROVE  n % c = n - c
  BY Modulo

\* The slot i places after slot w of a full ring.
LEMMA RoundTheRing ==
    ASSUME NEW c \in Nat \ {0}, NEW w \in 0 .. c - 1, NEW i \in 1 .. c
    PROVE  (w + i) % c = IF w + i < c THEN w + i ELSE w + i - c
<1> DEFINE n == w + i
<1>1. n \in Nat /\ n < 2 * c
  OBVIOUS
<1> HIDE DEF n
<1>2. n < c => n % c = n
  BY <1>1, Modulo
<1>3. ASSUME ~(n < c) PROVE n % c = n - c
  <2>1. c <= n
    BY <1>1, <1>3
  <2> QED
    BY <1>1, <2>1, ModuloOnce, Zenon
<1> QED
  BY <1>2, <1>3 DEF n

LEMMA NonZeroIsInt == \A v : NonZero(v) \in Int
  BY DEF NonZero

\* A push keeps the shape of the ring, and loses no slot.
LEMMA PushKeepsShape ==
    ASSUME NEW r \in Rings, WellShaped(r), r.capacity > 0, NEW v \in Int
    PROVE  /\ push(r, v) \in Rings
           /\ WellShaped(push(r, v))
           /\ push(r, v).capacity = r.capacity
           /\ push(r, v).len >= r.len
<1> USE DetectorAssumption
<1>1. r.capacity \in Nat \ {0} /\ r.len \in Nat /\ r.write_idx \in Nat /\ r.buffer \in Seq(Int)
  <2>1. r.capacity \in Capacities
    BY DEF Rings
  <2>2. \A c \in Capacities : c > 0 => c \in Nat \ {0}
    OBVIOUS
  <2>3. r.len \in Nat /\ r.write_idx \in Nat /\ r.buffer \in Seq(Int)
    BY DEF Rings
  <2> QED
    BY <2>1, <2>2, <2>3
<1>2. CASE r.len < r.capacity
  <2>1. push(r, v) = append(r, v)
    BY <1>2 DEF push
  <2>2. (r.len + 1) % r.capacity \in Nat /\ (r.len + 1) % r.capacity < r.capacity
        /\ (r.len + 1 < r.capacity => (r.len + 1) % r.capacity = r.len + 1)
    BY <1>1, Modulo
  <2>3. Append(r.buffer, v) \in Seq(Int) /\ Len(Append(r.buffer, v)) = r.len + 1
    BY <1>1 DEF WellShaped
  <2>4. r.sum + v \in Int /\ r.non_zero_count + NonZero(v) \in Int
    BY NonZeroIsInt DEF Rings
  <2>5. append(r, v) \in Rings
    BY <1>1, <2>2, <2>3, <2>4 DEF append, Rings
  <2> QED
    BY <1>1, <1>2, <2>1, <2>2, <2>3, <2>5 DEF append, WellShaped
<1>3. CASE ~(r.len < r.capacity)
  <2>1. push(r, v) = overwrite(r, v) /\ r.len = r.capacity
    BY <1>1, <1>3 DEF push, WellShaped
  <2>2. (r.write_idx + 1) % r.capacity \in Nat /\ (r.write_idx + 1) % r.capacity < r.capacity
    BY <1>1, Modulo
  <2>3. r.write_idx + 1 \in 1 .. Len(r.buffer)
    BY <1>1, <2>1 DEF WellShaped
  <2>4. [r.buffer EXCEPT ![r.write_idx + 1] = v] \in Seq(Int)
        /\ Len([r.buffer EXCEPT ![r.write_idx + 1] = v]) = Len(r.buffer)
    BY <1>1, <2>3
  <2>5. r.buffer[r.write_idx + 1] \in Int
    BY <1>1, <2>3
  <2>6. r.sum - r.buffer[r.write_idx + 1] + v \in Int
        /\ r.non_zero_count - NonZero(r.buffer[r.write_idx + 1]) + NonZero(v) \in Int
    BY <2>5, NonZeroIsInt DEF Rings
  <2>7. overwrite(r, v) \in Rings
    BY <1>1, <2>2, <2>4, <2>6 DEF overwrite, Rings
  <2> QED
    BY <1>1, <2>1, <2>2, <2>4, <2>7 DEF overwrite, WellShaped
<1> QED
  BY <1>2, <1>3

LEMMA EmptyRingShape ==
    ASSUME NEW c \in Capacities PROVE EmptyRing(c) \in Rings /\ WellShaped(EmptyRing(c))
  BY DetectorAssumption DEF EmptyRing, Rings, WellShaped

\* The correction is an integer.
LEMMA HintIsInt == ASSUME NEW r \in Rings, r.len > 0 PROVE Hint(r) \in Int
<1>1. Abs(r.sum) \in Nat /\ r.len \in Nat \ {0}
  BY DEF Abs, Rings
<1>2. (2 * Abs(r.sum) + r.len) \div (2 * r.len) \in Int
  BY <1>1
<1> QED
  BY <1>2 DEF Hint, RoundedMean

LEMMA LatestOfMore ==
    ASSUME NEW q, Len(q) > ring.capacity
    PROVE  Latest(q) = SubSeq(q, Len(q) - ring.capacity + 1, Len(q))
  BY DEF Latest

\* The last samples that fit are samples.
LEMMA LatestIsTyped ==
    ASSUME TypeOK, NEW seq \in Seq(Samples) PROVE Latest(seq) \in Seq(Samples)
<1>1. ring.capacity \in Nat
  BY DetectorAssumption DEF TypeOK
<1> QED
  BY <1>1 DEF Latest

-----------------------------------------------------------------------------
(* Induction, and what the sum and the count of some samples are *)

\* Induction over the natural numbers, for a set.  If n were missing, so would be a smaller
\* number for each number up to n that is missing: as many, without n.
LEMMA Induction ==
    ASSUME NEW S, 0 \in S, \A n \in Nat : n \in S => n + 1 \in S
    PROVE  Nat \subseteq S
<1> SUFFICES ASSUME NEW n \in Nat, n \notin S PROVE FALSE
  OBVIOUS
<1> DEFINE Missing == (0 .. n) \ S
           before  == [m \in Missing |-> m - 1]
<1>1. IsFiniteSet(Missing) /\ Cardinality(Missing) \in Nat
  <2>1. IsFiniteSet(0 .. n)
    BY FS_Interval
  <2> QED
    BY <2>1, FS_Subset, FS_CardinalityType
<1>2. n \in Missing /\ IsFiniteSet(Missing \ {n})
      /\ Cardinality(Missing \ {n}) = Cardinality(Missing) - 1
  <2>1. n \in Missing
    OBVIOUS
  <2> HIDE DEF Missing
  <2> QED
    BY <1>1, <2>1, FS_RemoveElement
<1>3. before \in Injection(Missing, Missing \ {n})
  <2>1. ASSUME NEW m \in Missing PROVE m - 1 \in Missing \ {n}
    <3>1. m \in Nat /\ m <= n /\ m # 0
      OBVIOUS
    <3>2. m - 1 \in Nat /\ m - 1 < n /\ (m - 1) + 1 = m
      BY <3>1
    <3>3. m - 1 \notin S
      BY <3>2
    <3> QED
      BY <3>2, <3>3
  <2>2. \A l, m \in Missing : l - 1 = m - 1 => l = m
    OBVIOUS
  <2> HIDE DEF Missing
  <2> QED
    BY <2>1, <2>2 DEF Injection, IsInjective
<1> HIDE DEF Missing, before
<1>4. Cardinality(Missing) <= Cardinality(Missing \ {n})
  BY <1>2, <1>3, FS_Injection
<1> QED
  BY <1>1, <1>2, <1>4

\* f gives the sum of the first samples of a sequence, of as many as it is asked for.
IsTotal(f, seq) ==
    /\ f \in [0 .. Len(seq) -> Int]
    /\ f[0] = 0
    /\ \A i \in 1 .. Len(seq) : f[i] = f[i - 1] + seq[i].offset

LEMMA OffsetsAreInts == ASSUME NEW s \in Samples PROVE s.offset \in Int /\ s.window \in Nat
  BY DetectorAssumption

\* Any such function ends in the sum.
LEMMA SumIsTotal ==
    ASSUME NEW seq \in Seq(Samples), NEW f, IsTotal(f, seq)
    PROVE  OffsetSum(seq) = f[Len(seq)] /\ OffsetSum(seq) \in Int
<1> DEFINE n == Len(seq)
           Equation(g) ==
             g = [i \in 0 .. Len(seq) |-> IF i = 0 THEN 0 ELSE g[i - 1] + seq[i].offset]
           total == CHOOSE g : Equation(g)
<1>1. OffsetSum(seq) = total[n]
  BY Zenon DEF OffsetSum
<1>2. n \in Nat
  OBVIOUS
<1>3. Equation(f)
  BY DEF IsTotal
<1> HIDE DEF Equation
<1>4. Equation(total)
  BY <1>3
<1> HIDE DEF n, total
<1>5. /\ total[0] = 0
      /\ \A i \in 1 .. n : total[i] = total[i - 1] + seq[i].offset
  <2>1. total = [i \in 0 .. n |-> IF i = 0 THEN 0 ELSE total[i - 1] + seq[i].offset]
    BY <1>4, Zenon DEF Equation, n
  <2>2. \A i \in 0 .. n : total[i] = IF i = 0 THEN 0 ELSE total[i - 1] + seq[i].offset
    BY <2>1, Zenon
  <2> QED
    BY <1>2, <2>2
<1>6. Nat \subseteq {m \in Nat : m <= n => total[m] = f[m]}
  <2> DEFINE S == {m \in Nat : m <= n => total[m] = f[m]}
  <2>1. 0 \in S
    BY <1>5 DEF IsTotal
  <2>2. ASSUME NEW m \in Nat, m \in S PROVE m + 1 \in S
    BY <1>2, <1>5, <2>2 DEF IsTotal, n
  <2> HIDE DEF S
  <2>3. Nat \subseteq S
    BY <2>1, <2>2, Induction
  <2> QED
    BY <2>3 DEF S
<1>7. f[n] \in Int
  BY <1>2 DEF IsTotal, n
<1> QED
  BY <1>1, <1>2, <1>6, <1>7 DEF n

\* There is one.
LEMMA TotalExists == ASSUME NEW seq \in Seq(Samples) PROVE \E f : IsTotal(f, seq)
<1> DEFINE n == Len(seq)
           Upto(m, f) == /\ f \in [0 .. m -> Int]
                         /\ f[0] = 0
                         /\ \A i \in 1 .. m : f[i] = f[i - 1] + seq[i].offset
           S == {m \in Nat : m <= n => \E f : Upto(m, f)}
<1>1. n \in Nat /\ \A i \in 1 .. n : seq[i].offset \in Int
  BY OffsetsAreInts
<1>2. 0 \in S
  <2>1. Upto(0, [i \in 0 .. 0 |-> 0])
    OBVIOUS
  <2> QED
    BY <2>1
<1>3. ASSUME NEW m \in Nat, m \in S PROVE m + 1 \in S
  <2> SUFFICES ASSUME m + 1 <= n PROVE \E f : Upto(m + 1, f)
    OBVIOUS
  <2> HIDE DEF n, Upto
  <2>1. PICK f : Upto(m, f)
    BY <1>1, <1>3
  <2>2. m + 1 \in 1 .. n
    BY <1>1
  <2> DEFINE g == [i \in 0 .. m + 1 |-> IF i = m + 1 THEN f[m] + seq[m + 1].offset ELSE f[i]]
  <2>3. f \in [0 .. m -> Int] /\ f[0] = 0 /\ seq[m + 1].offset \in Int
        /\ \A i \in 1 .. m : f[i] = f[i - 1] + seq[i].offset
    BY <1>1, <2>1, <2>2 DEF Upto
  <2>4. g \in [0 .. m + 1 -> Int] /\ g[0] = 0
    BY <2>3
  <2>5. \A i \in 1 .. m + 1 : g[i] = g[i - 1] + seq[i].offset
    BY <2>3
  <2>6. Upto(m + 1, g)
    BY <2>4, <2>5 DEF Upto
  <2> QED
    BY <2>6
<1> HIDE DEF S
<1>4. n \in S
  <2> HIDE DEF n
  <2> QED
    BY <1>1, <1>2, <1>3, Induction
<1> QED
  BY <1>1, <1>4 DEF S, IsTotal

LEMMA SumOfNone == OffsetSum(<<>>) = 0
<1>1. IsTotal([i \in 0 .. 0 |-> 0], <<>>)
  BY DEF IsTotal
<1> QED
  BY <1>1, SumIsTotal

LEMMA SumIsInt == ASSUME NEW seq \in Seq(Samples) PROVE OffsetSum(seq) \in Int
  BY TotalExists, SumIsTotal

LEMMA SumOfAppend ==
    ASSUME NEW seq \in Seq(Samples), NEW s \in Samples
    PROVE  OffsetSum(Append(seq, s)) = OffsetSum(seq) + s.offset
<1> DEFINE n == Len(seq)
           q == Append(seq, s)
<1>1. PICK f : IsTotal(f, seq)
  BY TotalExists
<1> DEFINE g == [i \in 0 .. n + 1 |-> IF i = n + 1 THEN f[n] + s.offset ELSE f[i]]
<1>2. /\ n \in Nat /\ q \in Seq(Samples) /\ Len(q) = n + 1 /\ s.offset \in Int
      /\ q[n + 1] = s
      /\ \A i \in 1 .. n : q[i] = seq[i]
  BY OffsetsAreInts
<1>3. /\ f \in [0 .. n -> Int] /\ f[0] = 0
      /\ \A i \in 1 .. n : f[i] = f[i - 1] + seq[i].offset
  BY <1>1 DEF IsTotal
<1> HIDE DEF n, q
<1>4. g \in [0 .. n + 1 -> Int] /\ g[0] = 0
  BY <1>2, <1>3
<1>5. ASSUME NEW i \in 1 .. n + 1 PROVE g[i] = g[i - 1] + q[i].offset
  <2>1. CASE i = n + 1
    BY <1>2, <2>1
  <2>2. CASE i \in 1 .. n
    <3>1. f[i] = f[i - 1] + seq[i].offset /\ q[i] = seq[i]
      BY <1>2, <1>3, <2>2
    <3>2. g[i] = f[i] /\ g[i - 1] = f[i - 1]
      BY <1>2, <2>2
    <3> QED
      BY <3>1, <3>2
  <2> QED
    BY <1>2, <2>1, <2>2
<1>6. IsTotal(g, q)
  BY <1>2, <1>4, <1>5 DEF IsTotal
<1>7. OffsetSum(q) = g[n + 1] /\ OffsetSum(seq) = f[n]
  BY <1>1, <1>2, <1>6, SumIsTotal DEF n
<1> QED
  BY <1>2, <1>7 DEF q

\* The window slides by one sample: the oldest goes, another one comes.
LEMMA SumOfSlide ==
    ASSUME NEW seq \in Seq(Samples), Len(seq) > 0, NEW s \in Samples
    PROVE  OffsetSum(SubSeq(Append(seq, s), 2, Len(seq) + 1))
             = OffsetSum(seq) - seq[1].offset + s.offset
<1> DEFINE n == Len(seq)
           q == SubSeq(Append(seq, s), 2, Len(seq) + 1)
<1>1. PICK f : IsTotal(f, seq)
  BY TotalExists
<1> DEFINE g == [i \in 0 .. n |-> IF i = n THEN f[n] - f[1] + s.offset ELSE f[i + 1] - f[1]]
<1>2. /\ n \in Nat \ {0} /\ q \in Seq(Samples) /\ Len(q) = n
      /\ s.offset \in Int /\ seq[1].offset \in Int
      /\ q[n] = s
      /\ \A i \in 1 .. n - 1 : q[i] = seq[i + 1]
  BY OffsetsAreInts
<1>3. /\ f \in [0 .. n -> Int] /\ f[0] = 0
      /\ \A i \in 1 .. n : f[i] = f[i - 1] + seq[i].offset
  BY <1>1 DEF IsTotal
<1> HIDE DEF n, q
<1>4. f[1] = seq[1].offset
  BY <1>2, <1>3
<1>5. g \in [0 .. n -> Int] /\ g[0] = 0
  BY <1>2, <1>3
<1>6. ASSUME NEW i \in 1 .. n PROVE g[i] = g[i - 1] + q[i].offset
  <2>1. CASE i = n
    BY <1>2, <1>3, <2>1
  <2>2. CASE i < n
    <3>1. i + 1 \in 1 .. n /\ (i + 1) - 1 = i /\ i \in 1 .. n - 1
      BY <1>2, <2>2
    <3>2. f[i + 1] = f[i] + q[i].offset /\ f[i] \in Int /\ f[1] \in Int /\ f[i + 1] \in Int
      <4>1. q[i] = seq[i + 1]
        BY <1>2, <3>1
      <4>2. f[i + 1] = f[(i + 1) - 1] + seq[i + 1].offset
        BY <1>3, <3>1
      <4>3. i \in 0 .. n /\ i + 1 \in 0 .. n /\ 1 \in 0 .. n
        BY <1>2, <3>1
      <4> QED
        BY <1>3, <3>1, <4>1, <4>2, <4>3
    <3>3. g[i] = f[i + 1] - f[1] /\ g[i - 1] = f[i] - f[1]
      BY <1>2, <2>2
    <3>4. q[i].offset \in Int
      BY <1>2, <3>1, OffsetsAreInts
    <3> QED
      BY <3>2, <3>3, <3>4
  <2> QED
    BY <1>2, <2>1, <2>2
<1>7. IsTotal(g, q)
  BY <1>2, <1>5, <1>6 DEF IsTotal
<1>8. OffsetSum(q) = g[n] /\ OffsetSum(seq) = f[n]
  BY <1>1, <1>2, <1>7, SumIsTotal DEF n
<1> QED
  BY <1>2, <1>4, <1>8 DEF q

LEMMA OneMoreTime ==
    ASSUME NEW m \in Nat, NEW k \in Int
    PROVE  (m + 1) * k = m * k + k /\ m * k \in Int
  BY SMT

\* Samples between two bounds have a sum between as many times the bounds.
LEMMA SumIsBounded ==
    ASSUME NEW seq \in Seq(Samples), NEW low \in Int, NEW high \in Int,
           \A i \in 1 .. Len(seq) : low <= seq[i].offset /\ seq[i].offset <= high
    PROVE  Len(seq) * low <= OffsetSum(seq) /\ OffsetSum(seq) <= Len(seq) * high
<1> DEFINE n == Len(seq)
<1>1. PICK f : IsTotal(f, seq)
  BY TotalExists
<1> DEFINE S == {m \in Nat : m <= n => m * low <= f[m] /\ f[m] <= m * high}
<1>2. /\ n \in Nat
      /\ f \in [0 .. n -> Int] /\ f[0] = 0
      /\ \A i \in 1 .. n : f[i] = f[i - 1] + seq[i].offset
      /\ \A i \in 1 .. n : seq[i].offset \in Int
  BY <1>1, OffsetsAreInts DEF IsTotal
<1>3. \A i \in 1 .. n : low <= seq[i].offset /\ seq[i].offset <= high
  OBVIOUS
<1> HIDE DEF n
<1>4. 0 \in S
  BY <1>2
<1>5. ASSUME NEW m \in Nat, m \in S PROVE m + 1 \in S
  <2> SUFFICES ASSUME m + 1 <= n
               PROVE  (m + 1) * low <= f[m + 1] /\ f[m + 1] <= (m + 1) * high
    OBVIOUS
  <2>1. m \in 0 .. n /\ m + 1 \in 1 .. n /\ (m + 1) - 1 = m
    BY <1>2
  <2>2. m * low <= f[m] /\ f[m] <= m * high /\ f[m] \in Int
    BY <1>2, <1>5, <2>1
  <2>3. f[m + 1] = f[m] + seq[m + 1].offset /\ seq[m + 1].offset \in Int
    BY <1>2, <2>1
  <2>4. low <= seq[m + 1].offset /\ seq[m + 1].offset <= high
    BY <1>3, <2>1
  <2>5. (m + 1) * low = m * low + low /\ (m + 1) * high = m * high + high
        /\ m * low \in Int /\ m * high \in Int
    BY OneMoreTime
  <2> QED
    BY <2>2, <2>3, <2>4, <2>5
<1> HIDE DEF S
<1>6. n \in S
  BY <1>2, <1>4, <1>5, Induction
<1>7. OffsetSum(seq) = f[n]
  BY <1>1, SumIsTotal DEF n
<1> QED
  BY <1>2, <1>6, <1>7 DEF S, n

LEMMA CountOfNone == Cardinality(NonZeros(<<>>)) = 0
<1>1. NonZeros(<<>>) = {}
  BY DEF NonZeros
<1> QED
  BY <1>1, FS_EmptySet

\* The number of samples away from zero is a number, and counts the one that comes.
LEMMA CountOfAppend ==
    ASSUME NEW seq \in Seq(Samples), NEW s \in Samples
    PROVE  /\ IsFiniteSet(NonZeros(Append(seq, s)))
           /\ Cardinality(NonZeros(seq)) \in Nat
           /\ Cardinality(NonZeros(Append(seq, s)))
                = Cardinality(NonZeros(seq)) + NonZero(s.offset)
<1> DEFINE n == Len(seq)
           q == Append(seq, s)
<1>1. n \in Nat /\ q[n + 1] = s /\ Len(q) = n + 1 /\ \A i \in 1 .. n : q[i] = seq[i]
  OBVIOUS
<1>2. NonZeros(seq) \in SUBSET (1 .. n) /\ IsFiniteSet(1 .. n)
  BY <1>1, FS_Interval DEF NonZeros
<1>3. IsFiniteSet(NonZeros(seq)) /\ Cardinality(NonZeros(seq)) \in Nat
  BY <1>2, FS_Subset, FS_CardinalityType
<1>4. n + 1 \notin NonZeros(seq)
  BY <1>1, <1>2
<1> HIDE DEF n, q
<1>5. CASE s.offset = 0
  <2>1. \A i : i \in NonZeros(q) <=> i \in NonZeros(seq)
    BY <1>1, <1>5 DEF NonZeros, n
  <2>2. NonZeros(q) = NonZeros(seq)
    BY <2>1
  <2> QED
    BY <1>3, <1>5, <2>2 DEF NonZero, q
<1>6. CASE s.offset # 0
  <2>1. \A i : i \in NonZeros(q) <=> i \in NonZeros(seq) \cup {n + 1}
    BY <1>1, <1>6 DEF NonZeros, n
  <2>2. NonZeros(q) = NonZeros(seq) \cup {n + 1}
    BY <2>1
  <2>3. IsFiniteSet(NonZeros(q)) /\ Cardinality(NonZeros(q)) = Cardinality(NonZeros(seq)) + 1
    BY <1>3, <1>4, <2>2, FS_AddElement
  <2> QED
    BY <1>3, <1>6, <2>3 DEF NonZero, q
<1> QED
  BY <1>5, <1>6

\* When the window slides, the oldest sample is not counted any more.
LEMMA CountOfSlide ==
    ASSUME NEW seq \in Seq(Samples), Len(seq) > 0, NEW s \in Samples
    PROVE  Cardinality(NonZeros(SubSeq(Append(seq, s), 2, Len(seq) + 1)))
             = Cardinality(NonZeros(seq)) - NonZero(seq[1].offset) + NonZero(s.offset)
<1> DEFINE n == Len(seq)
           q == Append(seq, s)
           r == SubSeq(q, 2, n + 1)
           Others == NonZeros(q) \ {1}
           before == [i \in Others |-> i - 1]
<1>1. /\ n \in Nat \ {0} /\ Len(r) = n /\ Len(q) = n + 1
      /\ \A i \in 1 .. n : r[i] = q[i + 1]
      /\ q[1] = seq[1] /\ s.offset \in Int /\ seq[1].offset \in Int
  BY OffsetsAreInts
<1> HIDE DEF n, r
<1>2. \A i : i \in Others <=> i \in 2 .. n + 1 /\ q[i].offset # 0
  BY <1>1 DEF NonZeros
<1>3. \A i : i \in NonZeros(r) <=> i \in 1 .. n /\ q[i + 1].offset # 0
  BY <1>1 DEF NonZeros
<1> DEFINE c == Cardinality(NonZeros(seq))
<1>4. /\ IsFiniteSet(NonZeros(q)) /\ c \in Nat
      /\ Cardinality(NonZeros(q)) = c + NonZero(s.offset)
  BY CountOfAppend
<1>5. 1 \in NonZeros(q) <=> seq[1].offset # 0
  BY <1>1 DEF NonZeros
<1> HIDE DEF q, c
<1>6. IsFiniteSet(Others)
      /\ Cardinality(Others) = c + NonZero(s.offset) - NonZero(seq[1].offset)
  <2>1. IsFiniteSet(Others)
        /\ Cardinality(Others) = IF seq[1].offset # 0 THEN Cardinality(NonZeros(q)) - 1
                                                    ELSE Cardinality(NonZeros(q))
    BY <1>4, <1>5, FS_RemoveElement
  <2>2. NonZero(s.offset) \in Nat
    BY DEF NonZero
  <2> HIDE DEF Others
  <2> QED
    BY <1>1, <1>4, <2>1, <2>2 DEF NonZero
<1> HIDE DEF Others
<1>7. before \in Bijection(Others, NonZeros(r))
  <2>1. \A i \in Others : i - 1 \in NonZeros(r)
    BY <1>1, <1>2, <1>3
  <2>2. \A i, j \in Others : i - 1 = j - 1 => i = j
    BY <1>2
  <2>3. ASSUME NEW j \in NonZeros(r) PROVE \E i \in Others : i - 1 = j
    <3>1. j \in 1 .. n /\ q[j + 1].offset # 0
      BY <1>3
    <3>2. j + 1 \in 2 .. n + 1 /\ (j + 1) - 1 = j
      BY <1>1, <3>1
    <3>3. j + 1 \in Others
      BY <1>2, <3>1, <3>2
    <3> QED
      BY <3>2, <3>3
  <2>4. before \in Injection(Others, NonZeros(r))
    BY <2>1, <2>2 DEF Injection, IsInjective
  <2>5. before \in Surjection(Others, NonZeros(r))
    BY <2>1, <2>3 DEF Surjection
  <2> QED
    BY <2>4, <2>5 DEF Bijection
<1> HIDE DEF before
<1>8. Cardinality(NonZeros(r)) = Cardinality(Others)
  BY <1>6, <1>7, FS_Bijection DEF ExistsBijection
<1>9. NonZero(s.offset) \in Int /\ NonZero(seq[1].offset) \in Int
  BY NonZeroIsInt
<1> QED
  BY <1>4, <1>6, <1>8, <1>9 DEF c, r, q, n

-----------------------------------------------------------------------------
(* Types and the shape of the ring *)

LEMMA SkewInit == Init => TypeOK /\ SkewInv
<1> SUFFICES ASSUME Init PROVE TypeOK /\ SkewInv
  OBVIOUS
<1>1. PICK c \in Capacities : ring = EmptyRing(c)
  BY DEF Init
<1>2. ring \in Rings /\ WellShaped(ring)
  BY <1>1, EmptyRingShape
<1>3. NoSample \notin Samples
  BY DetectorAssumption
<1>4. TypeOK
  <2>1. ring \in Rings /\ recent = <<>> /\ <<>> \in Seq(Samples)
    BY <1>2 DEF Init
  <2>3. auto_adjust = FALSE /\ offset = 0 /\ last_window_used = 0
    BY DEF Init
  <2>4. owner = NoThread /\ NoThread \notin Threads
    BY DetectorAssumption DEF Init
  <2>2. /\ pc \in [Threads -> Labels]
        /\ sample \in [Threads -> Samples \cup {NoSample}]
        /\ \A t \in Threads : pc[t] = "idle" /\ sample[t] = NoSample
    BY DEF Init, Labels
  <2> QED
    <3>1. auto_adjust \in BOOLEAN
      BY <2>3
    <3>2. offset \in Int /\ last_window_used \in Nat
      BY <2>3
    <3>3. \A t \in Threads : ~(owner = t) /\ pc[t] # "hint" /\ pc[t] # "push"
                              /\ sample[t] \notin Samples
      BY <1>3, <2>2, <2>4
    <3> QED
      BY <2>1, <2>2, <2>4, <3>1, <3>2, <3>3 DEF TypeOK, Rings
<1>5. SkewInv
  BY <1>2 DEF Init, SkewInv
<1> QED
  BY <1>4, <1>5

\* Every step keeps the types and the invariant, whatever thread takes it.
LEMMA SkewStep == TypeOK /\ SkewInv /\ [Next]_vars => TypeOK' /\ SkewInv'
<1> SUFFICES ASSUME TypeOK, SkewInv, [Next]_vars PROVE TypeOK' /\ SkewInv'
  OBVIOUS
<1> USE DEF TypeOK, SkewInv, Labels, LockOps, detector, args
<1>0. /\ NoThread \notin Threads /\ NoSample \notin Samples
      /\ Samples \subseteq [offset : Int, window : Nat]
      /\ MinAdjust \in Nat \ {0}
      /\ ring \in Rings /\ ring.capacity \in Capacities /\ ring.capacity \in Nat
      /\ ring.len \in Nat
  BY DetectorAssumption DEF Rings
<1>1. ASSUME NEW t \in Threads, NEW s \in Samples, record(t, s) PROVE TypeOK' /\ SkewInv'
  BY <1>0, <1>1 DEF record, Goto
<1>2. ASSUME NEW t \in Threads, Acquire(t) PROVE TypeOK' /\ SkewInv'
  BY <1>0, <1>2 DEF Acquire
<1>3. ASSUME NEW t \in Threads, Push(t) PROVE TypeOK' /\ SkewInv'
  <2>1. sample[t] \in Samples /\ sample[t].offset \in Int /\ sample[t].window \in Nat
    BY <1>0, <1>3 DEF Push, Locked
  <2>2. ring' \in Rings /\ WellShaped(ring') /\ ring'.len >= ring.len /\ ring'.len \in Nat
    <3>1. ring' = push(ring, sample[t].offset) /\ ring.capacity > 0
      BY <1>3 DEF Push
    <3>2. ring' \in Rings /\ WellShaped(ring') /\ ring'.len >= ring.len
      BY <1>0, <2>1, <3>1, PushKeepsShape
    <3> QED
      BY <3>2 DEF Rings
  <2>3. recent' \in Seq(Samples)
    <3>1. Append(recent, sample[t]) \in Seq(Samples)
      BY <2>1
    <3> QED
      BY <1>3, <3>1, LatestIsTyped DEF Push
  <2>4. \A u \in Threads : pc[u] = "hint" => u = t
    BY <1>3 DEF Push, Locked
  <2>5. /\ pc' \in [Threads -> Labels]
        /\ sample' \in [Threads -> Samples \cup {NoSample}]
        /\ \A u \in Threads : pc'[u] = "push" <=> sample'[u] \in Samples
        /\ owner' \in Threads \cup {NoThread}
        /\ \A u \in Threads : owner' = u => pc'[u] \in LockOps \cup {"hint"}
        /\ \A u \in Threads : pc'[u] = "hint" => owner' = u /\ ring'.len >= MinAdjust
    <3>1. CASE auto_adjust /\ ring'.len >= MinAdjust
      BY <1>0, <1>3, <2>1, <2>4, <3>1 DEF Push, Locked
    <3>2. CASE ~(auto_adjust /\ ring'.len >= MinAdjust)
      BY <1>0, <1>3, <2>1, <2>4, <3>2 DEF Push, Locked, Unlock
    <3> QED
      BY <3>1, <3>2
  <2>6. auto_adjust' \in BOOLEAN /\ offset' = offset /\ last_window_used' \in Nat
    BY <1>3, <2>1 DEF Push
  <2>7. offset' # 0 => ring'.len >= MinAdjust
    BY <1>0, <2>2, <2>6
  <2> QED
    BY <2>2, <2>3, <2>5, <2>6, <2>7 DEF Rings
<1>4. ASSUME NEW t \in Threads, StoreHint(t) PROVE TypeOK' /\ SkewInv'
  <2>1. ring.len >= MinAdjust /\ ring.len > 0
    BY <1>0, <1>4 DEF StoreHint, Goto
  <2>2. offset' \in Int
    BY <1>0, <1>4, <2>1, HintIsInt DEF StoreHint
  <2> QED
    BY <1>0, <1>4, <2>1, <2>2 DEF StoreHint, Goto, Unlock
<1>5. ASSUME NEW t \in Threads, PushPanics(t) PROVE TypeOK' /\ SkewInv'
  BY <1>0, <1>5 DEF PushPanics, Locked, Unlock
<1>6. ASSUME NEW t \in Threads, DisableOffset(t) PROVE TypeOK' /\ SkewInv'
  BY <1>0, <1>6 DEF DisableOffset, Goto
<1>7. ASSUME NEW t \in Threads, reset(t) PROVE TypeOK' /\ SkewInv'
  <2>1. ring' \in Rings /\ WellShaped(ring')
    BY <1>0, <1>7, EmptyRingShape DEF reset
  <2>2. offset' = 0 /\ recent' = <<>> /\ recent' \in Seq(Samples)
    BY <1>7 DEF reset
  <2>3. \A u \in Threads : pc'[u] # "hint"
    BY <1>0, <1>7 DEF reset, Locked
  <2>4. /\ pc' \in [Threads -> Labels] /\ owner' = NoThread /\ sample' = sample
        /\ \A u \in Threads : pc'[u] = "push" <=> pc[u] = "push"
    BY <1>7 DEF reset, Locked, Unlock
  <2>5. UNCHANGED <<auto_adjust, last_window_used>>
    BY <1>7 DEF reset
  <2> QED
    BY <1>0, <2>1, <2>2, <2>3, <2>4, <2>5 DEF Rings
<1>8. ASSUME NEW t \in Threads, report(t) PROVE TypeOK' /\ SkewInv'
  BY <1>0, <1>8 DEF report, Locked, Unlock
<1>9. ASSUME NEW t \in Threads, enable_auto_adjust(t) PROVE TypeOK' /\ SkewInv'
  BY <1>0, <1>9 DEF enable_auto_adjust
<1>10. ASSUME NEW t \in Threads, disable_auto_adjust(t) PROVE TypeOK' /\ SkewInv'
  BY <1>0, <1>10 DEF disable_auto_adjust, Goto
<1>11. ASSUME NEW t \in Threads, Begin(t) PROVE TypeOK' /\ SkewInv'
  BY <1>0, <1>11 DEF Begin, Goto
<1>12. CASE UNCHANGED vars
  BY <1>12 DEF vars
<1> QED
  BY <1>1, <1>2, <1>3, <1>4, <1>5, <1>6, <1>7, <1>8, <1>9, <1>10, <1>11, <1>12
     DEF Next, Step, Progress

LEMMA SkewInvariance == Spec => [](TypeOK /\ SkewInv)
  BY SkewInit, SkewStep, PTL DEF Spec

\* Type correctness, and who may hold the mutex.
THEOREM TypeOKHolds == Spec => []TypeOK
  BY SkewInvariance, PTL

\* An offset other than zero comes from enough samples that are still in the ring.
THEOREM LearnedFromEnoughHolds == Spec => []LearnedFromEnough
<1>1. SkewInv => LearnedFromEnough
  BY DEF SkewInv, LearnedFromEnough
<1> QED
  BY <1>1, SkewInvariance, PTL

-----------------------------------------------------------------------------
(* The ring holds the last samples that fit, through every wrap-around *)

\* Until the ring is full, a sample goes after the others; then it takes the place of the
\* oldest, and every other sample becomes one older without moving.
LEMMA PushKeepsSlots ==
    ASSUME TypeOK, SkewInv, SlotsHoldRecent, NEW t \in Threads, Push(t)
    PROVE  SlotsHoldRecent'
<1> DEFINE c == ring.capacity
           w == ring.write_idx
           s == sample[t]
           v == s.offset
<1>1. /\ c \in Nat \ {0} /\ ring.len \in Nat /\ w \in Nat /\ w < c /\ ring.len <= c
      /\ ring.buffer \in Seq(Int) /\ Len(ring.buffer) = ring.len
      /\ ring.len < c => w = ring.len
      /\ recent \in Seq(Samples) /\ Len(recent) = ring.len
  <2>1. c > 0 /\ c \in Capacities
    BY DEF Push, TypeOK
  <2>2. \A d \in Capacities : d > 0 => d \in Nat \ {0}
    BY DetectorAssumption
  <2> QED
    BY <2>1, <2>2 DEF TypeOK, SkewInv, WellShaped, SlotsHoldRecent
<1>2. s \in Samples /\ v \in Int
  BY DetectorAssumption DEF Push, Locked, TypeOK
<1>3. ring' = push(ring, v) /\ recent' = Latest(Append(recent, s))
  BY DEF Push
<1>4. \A i \in 1 .. ring.len :
          /\ ring.len < c => ring.buffer[i] = recent[i].offset
          /\ ring.len = c => ring.buffer[((w + i - 1) % c) + 1] = recent[i].offset
  <2> SUFFICES ASSUME NEW i \in 1 .. ring.len
               PROVE  /\ ring.len < c => ring.buffer[i] = recent[i].offset
                      /\ ring.len = c => ring.buffer[((w + i - 1) % c) + 1] = recent[i].offset
    OBVIOUS
  <2>1. ring.buffer[Slot(i)] = recent[i].offset
    BY DEF SlotsHoldRecent
  <2>2. ring.len < c => Slot(i) = i
    BY DEF Slot
  <2>3. ring.len = c => Slot(i) = ((w + i - 1) % c) + 1
    BY <1>1 DEF Slot
  <2> QED
    BY <2>1, <2>2, <2>3
<1> HIDE DEF c, w, s, v
<1>5. CASE ring.len < c
  <2>1. /\ ring'.buffer = Append(ring.buffer, v)
        /\ ring'.len = ring.len + 1
        /\ ring'.capacity = c
        /\ ring'.write_idx = (ring.len + 1) % c
    BY <1>3, <1>5 DEF push, append, c
  <2>2. recent' = Append(recent, s)
    BY <1>1, <1>2, <1>3, <1>5 DEF Latest, c
  <2>3. \A i \in 1 .. ring.len + 1 : ring'.buffer[i] = recent'[i].offset
    BY <1>1, <1>2, <1>4, <1>5, <2>1, <2>2 DEF v
  <2>4. ASSUME NEW i \in 1 .. ring.len + 1 PROVE Slot(i)' = i
    <3>1. CASE ring.len + 1 < c
      BY <2>1, <3>1 DEF Slot
    <3>2. CASE ring.len + 1 = c
      <4>1. c % c = 0
        BY <1>1, Modulo
      <4>2. (i - 1) % c = i - 1
        <5>1. i - 1 \in Nat /\ i - 1 < c
          BY <1>1, <3>2
        <5> QED
          BY <1>1, <5>1, Modulo
      <4>3. ring'.write_idx = 0 /\ ~(ring'.len < ring'.capacity)
        BY <1>1, <2>1, <3>2, <4>1
      <4>4. Slot(i)' = ((0 + i - 1) % c) + 1
        BY <2>1, <4>3 DEF Slot
      <4> QED
        BY <1>1, <4>2, <4>4
    <3> QED
      BY <1>1, <1>5, <3>1, <3>2
  <2>5. Len(ring'.buffer) = ring'.len /\ ring'.len = Len(recent')
    BY <1>1, <1>2, <2>1, <2>2
  <2> QED
    BY <2>1, <2>3, <2>4, <2>5 DEF SlotsHoldRecent
<1>6. CASE ring.len = c
  <2>1. /\ ring'.buffer = [ring.buffer EXCEPT ![w + 1] = v]
        /\ ring'.len = c
        /\ ring'.capacity = c
        /\ ring'.write_idx = (w + 1) % c
    BY <1>1, <1>3, <1>6 DEF push, overwrite, c, w
  <2>2. recent' = SubSeq(Append(recent, s), 2, c + 1)
    <3>1. Len(Append(recent, s)) = c + 1
      BY <1>1, <1>2, <1>6
    <3>2. c + 1 > c /\ (c + 1) - c + 1 = 2
      BY <1>1
    <3> DEFINE q == Append(recent, s)
    <3>3. Len(q) > c => Latest(q) = SubSeq(q, Len(q) - c + 1, Len(q))
      BY DEF Latest, c
    <3> HIDE DEF q
    <3>4. Len(q) = c + 1
      BY <3>1 DEF q
    <3>5. Latest(q) = SubSeq(q, 2, c + 1)
      BY <3>2, <3>3, <3>4
    <3> QED
      BY <1>3, <3>5 DEF q
  <2>3. Len(recent') = c
    BY <1>1, <1>2, <1>6, <2>2
  <2>4. \A i \in 1 .. c : recent'[i] = IF i < c THEN recent[i + 1] ELSE s
    BY <1>1, <1>2, <1>6, <2>2
  <2>5. Len(ring'.buffer) = c
        /\ \A j \in 1 .. c : ring'.buffer[j] = IF j = w + 1 THEN v ELSE ring.buffer[j]
    BY <1>1, <1>6, <2>1
  <2>6. ASSUME NEW i \in 1 .. c PROVE ring'.buffer[Slot(i)'] = recent'[i].offset
    <3> DEFINE j == IF w + i < c THEN w + i ELSE w + i - c
    <3>0. (w + i) % c = j
      <4>1. w \in 0 .. c - 1
        BY <1>1
      <4> QED
        BY <1>1, <4>1, RoundTheRing
    <3>1. Slot(i)' = ((((w + 1) % c) + i - 1) % c) + 1
      <4>1. ~(ring'.len < ring'.capacity)
        BY <1>1, <2>1
      <4> QED
        BY <2>1, <4>1 DEF Slot
    <3>2. Slot(i)' = j + 1
      <4>1. CASE w + 1 < c
        <5>1. (w + 1) % c = w + 1 /\ w + 1 + i - 1 = w + i
          BY <1>1, <4>1, Modulo
        <5>3. (w + i) % c = j
          BY <3>0
        <5> QED
          BY <3>1, <5>1, <5>3
      <4>2. CASE w + 1 = c
        <5>1. (w + 1) % c = 0
          <6>1. c <= c /\ c < 2 * c /\ c - c = 0
            BY <1>1
          <6>2. c % c = 0
            BY <1>1, <6>1, Modulo
          <6> QED
            BY <4>2, <6>2
        <5>2. i - 1 \in Nat /\ i - 1 < c /\ 0 + i - 1 = i - 1
          BY <1>1
        <5>3. (i - 1) % c = i - 1
          BY <1>1, <5>2, Modulo
        <5>4. j = i - 1
          BY <1>1, <4>2
        <5> QED
          BY <3>1, <5>1, <5>2, <5>3, <5>4
      <4> QED
        BY <1>1, <4>1, <4>2
    <3>3. CASE i = c
      <4>1. j = w
        BY <1>1, <3>3
      <4> QED
        BY <1>1, <2>4, <2>5, <3>2, <3>3, <4>1 DEF v
    <3>4. CASE i < c
      <4>1. j \in 0 .. c - 1 /\ j # w
        BY <1>1, <3>4
      <4>2. ring'.buffer[j + 1] = ring.buffer[j + 1]
        BY <1>1, <2>5, <4>1
      <4>3. i + 1 \in 1 .. ring.len /\ w + (i + 1) - 1 = w + i
        BY <1>1, <1>6, <3>4
      <4>4. ring.buffer[((w + i) % c) + 1] = recent[i + 1].offset
        BY <1>4, <1>6, <4>3
      <4> QED
        BY <2>4, <3>0, <3>2, <3>4, <4>2, <4>4
    <3> QED
      BY <1>1, <3>3, <3>4
  <2> QED
    BY <2>1, <2>3, <2>5, <2>6 DEF SlotsHoldRecent
<1> QED
  BY <1>1, <1>5, <1>6

-----------------------------------------------------------------------------
(* The cached aggregates *)

\* Where the oldest sample of a full ring is.
LEMMA OldestIsNext ==
    ASSUME TypeOK, SkewInv, SlotsHoldRecent, ring.capacity > 0, ring.len = ring.capacity
    PROVE  ring.buffer[ring.write_idx + 1] = recent[1].offset
<1>1. /\ ring.capacity \in Nat \ {0} /\ ring.write_idx \in Nat
      /\ ring.write_idx < ring.capacity
  <2>1. ring.capacity \in Nat
    BY DetectorAssumption DEF TypeOK
  <2> QED
    BY <2>1 DEF TypeOK, SkewInv, WellShaped
<1>2. 1 \in 1 .. ring.len
  BY <1>1
<1>3. Slot(1) = ring.write_idx + 1
  <2>1. (ring.write_idx + 1 - 1) % ring.capacity = ring.write_idx
    BY <1>1, Modulo
  <2> QED
    BY <1>1, <2>1 DEF Slot
<1> QED
  BY <1>2, <1>3 DEF SlotsHoldRecent

\* The aggregates count the sample that comes, and no longer the one that goes.
LEMMA PushKeepsAggregates ==
    ASSUME TypeOK, SkewInv, RingIsWindow, NEW t \in Threads, Push(t)
    PROVE  RingIsWindow'
<1> DEFINE s == sample[t]
           v == s.offset
           n == Len(recent)
<1>1. s \in Samples /\ recent \in Seq(Samples) /\ ring.capacity \in Nat \ {0} /\ ring.len = n
      /\ ring.sum = OffsetSum(recent) /\ ring.non_zero_count = Cardinality(NonZeros(recent))
  <2>1. ring.capacity \in Nat
    BY DetectorAssumption DEF TypeOK
  <2>2. ring.capacity > 0 /\ s \in Samples
    BY DEF Push, Locked, TypeOK
  <2> QED
    BY <2>1, <2>2 DEF TypeOK, RingIsWindow, SlotsHoldRecent
<1>2. ring' = push(ring, v) /\ recent' = Latest(Append(recent, s)) /\ n <= ring.capacity
  BY <1>1 DEF Push, SkewInv, WellShaped
<1>3. SlotsHoldRecent'
  BY PushKeepsSlots DEF RingIsWindow
<1>4. CASE n < ring.capacity
  <2>1. ring'.sum = ring.sum + v /\ ring'.non_zero_count = ring.non_zero_count + NonZero(v)
    BY <1>1, <1>2, <1>4 DEF push, append
  <2>2. recent' = Append(recent, s)
    BY <1>1, <1>2, <1>4 DEF Latest
  <2> QED
    BY <1>1, <1>3, <2>1, <2>2, SumOfAppend, CountOfAppend DEF RingIsWindow
<1>5. CASE n = ring.capacity
  <2>1. ring.buffer[ring.write_idx + 1] = recent[1].offset
    BY <1>1, <1>5, OldestIsNext DEF RingIsWindow
  <2>2. /\ ring'.sum = ring.sum - recent[1].offset + v
        /\ ring'.non_zero_count
             = ring.non_zero_count - NonZero(recent[1].offset) + NonZero(v)
    BY <1>1, <1>2, <1>5, <2>1 DEF push, overwrite
  <2>3. recent' = SubSeq(Append(recent, s), 2, n + 1)
    <3> DEFINE q == Append(recent, s)
    <3>1. Len(q) = n + 1 /\ n \in Nat
      BY <1>1
    <3> HIDE DEF q
    <3>2. Latest(q) = SubSeq(q, Len(q) - ring.capacity + 1, Len(q))
      BY <1>1, <1>5, <3>1, LatestOfMore
    <3>3. Len(q) - ring.capacity + 1 = 2
      BY <1>5, <3>1
    <3> QED
      BY <1>2, <3>1, <3>2, <3>3 DEF q
  <2>4. Len(recent) > 0
    BY <1>1, <1>5
  <2> QED
    BY <1>1, <1>3, <2>2, <2>3, <2>4, SumOfSlide, CountOfSlide DEF RingIsWindow
<1> QED
  BY <1>1, <1>2, <1>4, <1>5

\* The steps that leave the ring and the samples of the window alone.
LEMMA RestKeepsRing ==
    ASSUME NEW t \in Threads,
           \/ Acquire(t) \/ StoreHint(t) \/ PushPanics(t) \/ DisableOffset(t) \/ report(t)
           \/ enable_auto_adjust(t) \/ disable_auto_adjust(t) \/ Begin(t)
           \/ \E s \in Samples : record(t, s)
    PROVE  UNCHANGED <<ring, recent, last_window_used>>
  BY DEF Acquire, StoreHint, PushPanics, DisableOffset, report, enable_auto_adjust,
         disable_auto_adjust, Begin, record, detector

\* last_window_used is the window of the last sample, while there is one.
LastWindow == recent # <<>> => last_window_used = recent[Len(recent)].window

WindowInv == RingIsWindow /\ LastWindow

LEMMA WindowStep == TypeOK /\ SkewInv /\ WindowInv /\ [Next]_vars => WindowInv'
<1> SUFFICES ASSUME TypeOK, SkewInv, WindowInv, [Next]_vars PROVE WindowInv'
  OBVIOUS
<1>1. ASSUME UNCHANGED <<ring, recent, last_window_used>> PROVE WindowInv'
  BY <1>1 DEF WindowInv, RingIsWindow, SlotsHoldRecent, Slot, LastWindow
<1>2. ASSUME NEW t \in Threads, Push(t) PROVE WindowInv'
  <2>1. RingIsWindow'
    BY <1>2, PushKeepsAggregates DEF WindowInv
  <2>2. LastWindow'
    <3> DEFINE s == sample[t]
               q == Append(recent, s)
    <3>1. /\ s \in Samples /\ recent \in Seq(Samples)
          /\ recent' = Latest(q) /\ last_window_used' = s.window
          /\ ring.capacity \in Nat \ {0}
      <4>1. ring.capacity \in Nat
        BY DetectorAssumption DEF TypeOK
      <4> QED
        BY <1>2, <4>1 DEF Push, Locked, TypeOK
    <3>2. q \in Seq(Samples) /\ Len(q) \in Nat \ {0} /\ q[Len(q)] = s
      BY <3>1
    <3> HIDE DEF q
    <3>3. Latest(q)[Len(Latest(q))] = s
      <4>1. CASE Len(q) > ring.capacity
        <5> DEFINE k == Len(q) - ring.capacity + 1
        <5>1. Latest(q) = SubSeq(q, k, Len(q)) /\ k \in 1 .. Len(q)
          <6>1. Latest(q) = SubSeq(q, k, Len(q))
            BY <4>1, LatestOfMore, Zenon
          <6>2. k \in 1 .. Len(q)
            BY <3>1, <3>2, <4>1
          <6> QED
            BY <6>1, <6>2
        <5>2. Len(SubSeq(q, k, Len(q))) = Len(q) - k + 1
              /\ SubSeq(q, k, Len(q))[Len(q) - k + 1] = q[k + (Len(q) - k + 1) - 1]
          BY <3>2, <5>1
        <5>3. k + (Len(q) - k + 1) - 1 = Len(q)
          BY <3>2, <5>1
        <5> QED
          BY <3>2, <5>1, <5>2, <5>3
      <4>2. CASE ~(Len(q) > ring.capacity)
        BY <3>2, <4>2 DEF Latest
      <4> QED
        BY <4>1, <4>2
    <3> QED
      BY <3>1, <3>3 DEF LastWindow
  <2> QED
    BY <2>1, <2>2 DEF WindowInv
<1>3. ASSUME NEW t \in Threads, reset(t) PROVE WindowInv'
  <2>1. ring' = EmptyRing(ring.capacity) /\ recent' = <<>>
    BY <1>3 DEF reset
  <2> QED
    BY <2>1, SumOfNone, CountOfNone
       DEF EmptyRing, WindowInv, RingIsWindow, SlotsHoldRecent, LastWindow
<1>4. CASE UNCHANGED vars
  BY <1>1, <1>4 DEF vars, detector
<1> QED
  BY <1>1, <1>2, <1>3, <1>4, RestKeepsRing DEF Next, Step, Progress

LEMMA WindowInit == Init => WindowInv
<1> SUFFICES ASSUME Init PROVE WindowInv
  OBVIOUS
<1>1. ring.buffer = <<>> /\ ring.len = 0 /\ ring.sum = 0 /\ ring.non_zero_count = 0
      /\ recent = <<>>
  BY DEF Init, EmptyRing
<1> QED
  BY <1>1, SumOfNone, CountOfNone DEF WindowInv, RingIsWindow, SlotsHoldRecent, LastWindow

LEMMA WindowInvariance == Spec => []WindowInv
  BY WindowInit, WindowStep, SkewInvariance, PTL DEF Spec

\* The last samples that fit are in the ring, in their places, and its sum and its count are
\* theirs, however often the ring has gone round and whatever was reset in between.
THEOREM RingIsWindowHolds == Spec => []RingIsWindow
<1>1. WindowInv => RingIsWindow
  BY DEF WindowInv
<1> QED
  BY <1>1, WindowInvariance, PTL

-----------------------------------------------------------------------------
(* What a report says of samples that agree *)

\* Every slot of the buffer holds one of the samples.
LEMMA EverySlotHoldsOne ==
    ASSUME TypeOK, SkewInv, SlotsHoldRecent, NEW j \in 1 .. ring.len
    PROVE  \E i \in 1 .. ring.len : ring.buffer[j] = recent[i].offset
<1> DEFINE c == ring.capacity
           w == ring.write_idx
<1>1. /\ c \in Nat /\ w \in Nat /\ ring.len \in Nat /\ ring.len <= c
      /\ c > 0 => w < c
  BY DetectorAssumption DEF TypeOK, SkewInv, WellShaped
<1>2. \A i \in 1 .. ring.len : ring.buffer[Slot(i)] = recent[i].offset
  BY DEF SlotsHoldRecent
<1>3. CASE ring.len < c
  <2>1. Slot(j) = j
    BY <1>3 DEF Slot
  <2> QED
    BY <1>2, <2>1
<1>4. CASE ring.len = c
  <2>1. ~(ring.len < ring.capacity)
    BY <1>1, <1>4
  <2>2. \A i : Slot(i) = ((w + i - 1) % c) + 1
    BY <2>1 DEF Slot
  <2> HIDE DEF c, w
  <2>3. c \in Nat \ {0} /\ w \in 0 .. c - 1 /\ j \in 1 .. c
    BY <1>1, <1>4
  <2>4. CASE j = w + 1
    <3>1. 1 \in 1 .. ring.len /\ w + 1 - 1 = w
      BY <1>4, <2>3
    <3>2. w % c = w
      BY <2>3, Modulo
    <3>3. Slot(1) = j
      BY <2>2, <2>4, <3>1, <3>2
    <3> QED
      BY <1>2, <3>1, <3>3
  <2>5. CASE j # w + 1
    <3> DEFINE k == IF j > w + 1 THEN j - 1 - w ELSE j - 1 - w + c
    <3>1. /\ k \in 1 .. c /\ k + 1 \in 1 .. ring.len
          /\ IF w + k < c THEN w + k = j - 1 ELSE w + k - c = j - 1
      BY <1>4, <2>3, <2>5
    <3> HIDE DEF k
    <3>2. (w + k) % c = j - 1
      BY <2>3, <3>1, RoundTheRing
    <3>3. w + (k + 1) - 1 = w + k /\ (j - 1) + 1 = j
      BY <2>3, <3>1
    <3>4. Slot(k + 1) = j
      BY <2>2, <3>2, <3>3
    <3> QED
      BY <1>2, <3>1, <3>4
  <2> QED
    BY <2>4, <2>5
<1> QED
  BY <1>1, <1>3, <1>4

\* The sum of n samples of the same offset is away from zero by n at least, or zero.
LEMMA SteadySum ==
    ASSUME NEW n \in Nat \ {0}, NEW o \in Int
    PROVE  n * o \in Int /\ (2 * Abs(n * o) >= n <=> o # 0)
<1>1. n * o \in Int /\ (o = 0 => n * o = 0)
  BY SMT
<1>2. o >= 1 => n * o >= n
  BY SMT
<1>3. o <= -1 => n * o <= -n
  BY SMT
<1> DEFINE m == n * o
<1> HIDE DEF m
<1>4. /\ m \in Int
      /\ o = 0 => m = 0
      /\ o >= 1 => m >= n
      /\ o <= -1 => m <= -n
  BY <1>1, <1>2, <1>3 DEF m
<1>5. 2 * Abs(m) >= n <=> o # 0
  BY <1>4 DEF Abs
<1> QED
  BY <1>4, <1>5 DEF m

\* A report on samples that all agree answers by their one offset and their one window.
THEOREM SteadySamplesReportedHolds == Spec => []SteadySamplesReported
<1>1. TypeOK /\ SkewInv /\ WindowInv => SteadySamplesReported
  <2> DEFINE first == recent[1]
             o == first.offset
             n == Len(recent)
  <2> SUFFICES ASSUME TypeOK, SkewInv, WindowInv,
                      n >= MinReport, \A i \in 1 .. n : recent[i] = first
               PROVE  recommendation(ring, last_window_used) =
                        CASE first.window > 0 /\ Abs(o) = first.window -> "WidenWindowOrCheckNtp"
                          [] o = 0                                     -> "NoActionNeeded"
                          [] OTHER                                     -> "ConsistentDrift"
    BY DEF SteadySamplesReported
  <2>1. /\ recent \in Seq(Samples) /\ n \in Nat \ {0} /\ MinReport \in Nat \ {0}
        /\ ring.len = n /\ ring.sum = OffsetSum(recent) /\ SlotsHoldRecent
    BY DetectorAssumption DEF TypeOK, WindowInv, RingIsWindow, SlotsHoldRecent
  <2>2. o \in Int /\ first.window \in Nat
    BY <2>1, OffsetsAreInts
  <2>3. last_window_used = first.window
    BY <2>1 DEF WindowInv, LastWindow
  <2>4. \A j \in 1 .. n : ring.buffer[j] = o
    BY <2>1, EverySlotHoldsOne
  <2>5. ring.sum = n * o
    <3>1. n * o <= ring.sum /\ ring.sum <= n * o
      <4>1. \A i \in 1 .. Len(recent) : o <= recent[i].offset /\ recent[i].offset <= o
        BY <2>2
      <4> HIDE DEF o
      <4>2. Len(recent) * o <= OffsetSum(recent) /\ OffsetSum(recent) <= Len(recent) * o
        BY <2>1, <2>2, <4>1, SumIsBounded
      <4> QED
        BY <2>1, <4>2
    <3>2. n * o \in Int /\ ring.sum \in Int
      BY <2>1, <2>2, SumIsInt, SteadySum
    <3> QED
      BY <3>1, <3>2
  <2>6. MeanIsDrift(ring) <=> o # 0
    BY <2>1, <2>2, <2>5, SteadySum DEF MeanIsDrift
  <2> DEFINE hits == {i \in 1 .. ring.len : Abs(ring.buffer[i]) = last_window_used}
  <2>7. hits = IF Abs(o) = first.window THEN 1 .. n ELSE {}
    BY <2>1, <2>3, <2>4
  <2>8. Cardinality(1 .. n) = n /\ Cardinality({}) = 0
    BY <2>1, FS_Interval, FS_EmptySet
  <2>9. edge_hits(ring, last_window_used) =
          IF first.window > 0 /\ Abs(o) = first.window THEN n ELSE 0
    <3>1. edge_hits(ring, last_window_used) =
            IF last_window_used > 0 THEN Cardinality(hits) ELSE 0
      BY DEF edge_hits
    <3> QED
      BY <2>3, <2>7, <2>8, <3>1
  <2> HIDE DEF first, o, n, hits
  <2>10. CASE first.window > 0 /\ Abs(o) = first.window
    <3>1. 5 * edge_hits(ring, last_window_used) >= ring.len /\ ~(ring.len < MinReport)
      BY <2>1, <2>9, <2>10
    <3>2. o # 0
      BY <2>10 DEF Abs
    <3> QED
      BY <2>10, <3>1, <3>2 DEF recommendation
  <2>11. CASE ~(first.window > 0 /\ Abs(o) = first.window)
    <3>1. ~(5 * edge_hits(ring, last_window_used) >= ring.len) /\ ~(ring.len < MinReport)
      BY <2>1, <2>9, <2>11
    <3> QED
      BY <2>6, <2>11, <3>1 DEF recommendation
  <2> QED
    BY <2>10, <2>11
<1> QED
  BY <1>1, SkewInvariance, WindowInvariance, PTL

-----------------------------------------------------------------------------
(* The feedback with verify_tracking *)

\* What lies between no correction and the whole drift.
Between == IF Drift >= 0 THEN 0 .. Drift ELSE Drift .. 0

\* Not the offset alone, but every sample that may still move it lies between: those in the
\* window, and those on their way to it.
DriftInv ==
    /\ offset \in Between
    /\ \A i \in 1 .. Len(recent) : recent[i].offset \in Between
    /\ \A t \in Threads : pc[t] = "push" => sample[t].offset \in Between

LEMMA BetweenIsInt == Between \subseteq Int /\ 0 \in Between
  BY DriftAssumption DEF Between

\* A verification records only samples the detector may be called with, and only between.
LEMMA TrackingRecords ==
    ASSUME NEW t \in Threads, NEW w \in Windows, verify_tracking(t, w), offset \in Between
    PROVE  \E s \in Samples : record(t, s) /\ s.offset \in Between
<1>1. PICK i \in -w .. w : offset + i = Drift /\ record(t, [offset |-> i, window |-> w])
  BY DEF verify_tracking
<1>2. i \in Between /\ i \in -Abs(Drift) .. Abs(Drift) /\ Abs(i) <= w
  BY <1>1, DriftAssumption DEF Between, Abs
<1>3. [offset |-> i, window |-> w] \in Samples
  BY <1>2, DriftAssumption
<1> QED
  BY <1>1, <1>2, <1>3

LEMMA TrackingIsNext == DriftInv /\ [TrackingNext]_vars => [Next]_vars
  BY TrackingRecords DEF DriftInv, TrackingNext, Next

\* The rounded mean of n samples is between two bounds when their sum is between n times
\* the bounds, and has its sign.
LEMMA RoundedMeanBetween ==
    ASSUME NEW n \in Nat \ {0}, NEW d \in Nat, NEW m \in Nat, m <= n * d
    PROVE  (2 * m + n) \div (2 * n) \in 0 .. d
<1> DEFINE q == (2 * m + n) \div (2 * n)
           a == 2 * m + n
           b == 2 * n
<1>1. a \in Nat /\ b \in Nat \ {0}
  OBVIOUS
<1>2. q \in Nat /\ b * q <= a
  <2> HIDE DEF a, b
  <2>1. a \div b \in Nat /\ b * (a \div b) <= a
    BY <1>1, SMT
  <2> QED
    BY <2>1 DEF a, b
<1> HIDE DEF q
<1>3. ASSUME q >= d + 1 PROVE FALSE
  <2>1. n * q >= n * (d + 1)
    BY <1>2, <1>3, SMT
  <2>2. n * (d + 1) = n * d + n /\ n * d \in Nat /\ n * q \in Nat /\ b * q = 2 * (n * q)
    BY <1>2, SMT
  <2> QED
    BY <1>2, <2>1, <2>2
<1> QED
  BY <1>2, <1>3 DEF q

\* So the correction computed from samples that all lie between does so, too.
LEMMA HintBetween ==
    ASSUME TypeOK, RingIsWindow, ring.len > 0,
           \A i \in 1 .. Len(recent) : recent[i].offset \in Between
    PROVE  Hint(ring) \in Between
<1> DEFINE n == ring.len
           total == ring.sum
<1>1. n \in Nat \ {0} /\ recent \in Seq(Samples) /\ Len(recent) = n
      /\ total = OffsetSum(recent) /\ total \in Int /\ Drift \in Int /\ 0 \in Int
  BY DriftAssumption DEF TypeOK, RingIsWindow, SlotsHoldRecent
<1>2. Hint(ring) = IF 2 * Abs(total) >= n THEN
                     IF total < 0 THEN -((2 * Abs(total) + n) \div (2 * n))
                                  ELSE (2 * Abs(total) + n) \div (2 * n)
                   ELSE 0
  BY DEF Hint, MeanIsDrift, RoundedMean
<1> HIDE DEF n, total
<1>3. CASE Drift >= 0
  <2>1. \A i \in 1 .. Len(recent) : 0 <= recent[i].offset /\ recent[i].offset <= Drift
    BY <1>3 DEF Between
  <2>2. Len(recent) * 0 <= OffsetSum(recent) /\ OffsetSum(recent) <= Len(recent) * Drift
    BY <1>1, <2>1, SumIsBounded, Zenon
  <2>3. 0 <= total /\ total <= n * Drift /\ Abs(total) = total
    BY <1>1, <2>2 DEF Abs
  <2>4. (2 * total + n) \div (2 * n) \in 0 .. Drift
    <3>1. total \in Nat /\ Drift \in Nat /\ total <= n * Drift
      BY <1>1, <1>3, <2>3
    <3> QED
      BY <1>1, <3>1, RoundedMeanBetween
  <2> QED
    BY <1>1, <1>2, <1>3, <2>3, <2>4 DEF Between
<1>4. CASE Drift < 0
  <2>1. \A i \in 1 .. Len(recent) : Drift <= recent[i].offset /\ recent[i].offset <= 0
    BY <1>1, <1>4 DEF Between
  <2>2. Len(recent) * Drift <= OffsetSum(recent) /\ OffsetSum(recent) <= Len(recent) * 0
    BY <1>1, <2>1, SumIsBounded, Zenon
  <2> DEFINE d == -Drift
             m == -total
  <2>3. n * Drift = -(n * d) /\ n * d \in Int
    BY <1>1, SMT
  <2>4. m \in Nat /\ m <= n * d /\ Abs(total) = m /\ d \in Nat
    BY <1>1, <1>4, <2>2, <2>3 DEF Abs
  <2>5. (2 * m + n) \div (2 * n) \in 0 .. d
    BY <1>1, <2>4, RoundedMeanBetween
  <2>6. total < 0 \/ total = 0
    BY <1>1, <2>4
  <2>7. CASE total < 0
    BY <1>1, <1>2, <1>4, <2>4, <2>5, <2>7 DEF Between
  <2>8. CASE total = 0
    BY <1>1, <1>2, <1>4, <2>8 DEF Between, Abs
  <2> QED
    BY <2>6, <2>7, <2>8
<1> QED
  BY <1>1, <1>3, <1>4

\* Every step keeps every sample, and what is computed from them, between.
LEMMA DriftStep ==
    TypeOK /\ SkewInv /\ WindowInv /\ DriftInv /\ [TrackingNext]_vars => DriftInv'
<1> SUFFICES ASSUME TypeOK, SkewInv, WindowInv, DriftInv, [TrackingNext]_vars PROVE DriftInv'
  OBVIOUS
<1>0. /\ pc \in [Threads -> Labels] /\ sample \in [Threads -> Samples \cup {NoSample}]
      /\ recent \in Seq(Samples) /\ 0 \in Between
  BY BetweenIsInt DEF TypeOK
<1>1. ASSUME NEW t \in Threads, NEW s \in Samples, record(t, s), s.offset \in Between
      PROVE  DriftInv'
  BY <1>0, <1>1 DEF DriftInv, record, Goto, detector
<1>2. ASSUME NEW t \in Threads, Push(t) PROVE DriftInv'
  <2> DEFINE s == sample[t]
             q == Append(recent, s)
  <2>1. /\ s \in Samples /\ s.offset \in Between
        /\ recent' = Latest(q) /\ offset' = offset
        /\ ring.capacity \in Nat \ {0}
    <3>1. ring.capacity \in Nat
      BY DetectorAssumption DEF TypeOK
    <3> QED
      BY <1>2, <3>1 DEF Push, Locked, TypeOK, DriftInv
  <2>2. q \in Seq(Samples) /\ Len(q) \in Nat
        /\ \A i \in 1 .. Len(q) : q[i].offset \in Between
    BY <1>0, <2>1 DEF DriftInv
  <2> HIDE DEF q
  <2>3. \A i \in 1 .. Len(Latest(q)) : Latest(q)[i].offset \in Between
    <3>1. CASE Len(q) > ring.capacity
      <4> DEFINE k == Len(q) - ring.capacity + 1
      <4>1. Latest(q) = SubSeq(q, k, Len(q)) /\ k \in 1 .. Len(q)
        <5>1. k \in 1 .. Len(q)
          BY <2>1, <2>2, <3>1
        <5>2. Latest(q) = SubSeq(q, k, Len(q))
          BY <3>1, LatestOfMore, Zenon
        <5> QED
          BY <5>1, <5>2
      <4>2. \A i \in 1 .. Len(SubSeq(q, k, Len(q))) :
              SubSeq(q, k, Len(q))[i] = q[k + i - 1] /\ k + i - 1 \in 1 .. Len(q)
        BY <2>2, <4>1
      <4> QED
        BY <2>2, <4>1, <4>2
    <3>2. CASE ~(Len(q) > ring.capacity)
      BY <2>2, <3>2 DEF Latest
    <3> QED
      BY <3>1, <3>2
  <2>4. \A u \in Threads : pc'[u] = "push" => sample'[u].offset \in Between
    <3>1. ASSUME NEW u \in Threads, pc'[u] = "push" PROVE sample'[u].offset \in Between
      <4>1. u # t /\ pc[u] = "push" /\ sample'[u] = sample[u]
        BY <1>0, <1>2, <3>1 DEF Push
      <4> QED
        BY <4>1 DEF DriftInv
    <3> QED
      BY <3>1
  <2> QED
    BY <2>1, <2>3, <2>4 DEF DriftInv
<1>3. ASSUME NEW t \in Threads, StoreHint(t) PROVE DriftInv'
  <2>1. ring.len > 0
    BY <1>3, DetectorAssumption DEF StoreHint, Goto, SkewInv, TypeOK
  <2>2. Hint(ring) \in Between
    BY <2>1, HintBetween DEF WindowInv, DriftInv
  <2> QED
    BY <1>0, <1>3, <2>2 DEF DriftInv, StoreHint, Goto
<1>4. ASSUME NEW t \in Threads, reset(t) PROVE DriftInv'
  BY <1>0, <1>4 DEF DriftInv, reset
<1>5. ASSUME NEW t \in Threads, DisableOffset(t) PROVE DriftInv'
  BY <1>0, <1>5 DEF DriftInv, DisableOffset, Goto
<1>6. ASSUME NEW t \in Threads,
             \/ Acquire(t) \/ PushPanics(t) \/ report(t)
             \/ enable_auto_adjust(t) \/ disable_auto_adjust(t) \/ Begin(t)
      PROVE  DriftInv'
  BY <1>0, <1>6 DEF DriftInv, Acquire, PushPanics, report, enable_auto_adjust,
                    disable_auto_adjust, Begin, Goto, detector, args
<1>7. CASE UNCHANGED vars
  BY <1>7 DEF DriftInv, vars, detector, args
<1>8. ASSUME NEW t \in Threads, NEW w \in Windows, verify_tracking(t, w) PROVE DriftInv'
  BY <1>1, <1>8, TrackingRecords DEF DriftInv
<1> QED
  BY <1>2, <1>3, <1>4, <1>5, <1>6, <1>7, <1>8 DEF TrackingNext, Step, Progress

LEMMA DriftInit == Init => DriftInv
  BY BetweenIsInt DEF Init, DriftInv

\* The tracked detector takes only steps of the detector, so its invariants hold; and no
\* correction, however stale the samples it comes from, leaves the way from none to Drift.
LEMMA DriftInvariance == TrackingSpec => [](TypeOK /\ SkewInv /\ WindowInv /\ DriftInv)
<1> DEFINE Inv == TypeOK /\ SkewInv /\ WindowInv /\ DriftInv
<1>1. Init => Inv
  BY SkewInit, WindowInit, DriftInit
<1>2. Inv /\ [TrackingNext]_vars => Inv'
  BY TrackingIsNext, SkewStep, WindowStep, DriftStep
<1> QED
  BY <1>1, <1>2, PTL DEF TrackingSpec

\* The correction stays between none and the whole drift.
THEOREM OffsetWithinDriftHolds == TrackingSpec => []OffsetWithinDrift
<1>1. DriftInv => OffsetWithinDrift
  BY DEF DriftInv, Between, OffsetWithinDrift
<1> QED
  BY <1>1, DriftInvariance, PTL

\* So a window as wide as the drift has a position for the users' codes under every
\* correction the detector ever makes: feedback never locks them out.
CodeInWindow(w) == \E i \in -w .. w : offset + i = Drift

THEOREM CoveringWindowAccepts ==
    TrackingSpec => [](\A w \in Windows : Abs(Drift) <= w => CodeInWindow(w))
<1>1. OffsetWithinDrift => \A w \in Windows : Abs(Drift) <= w => CodeInWindow(w)
  <2> SUFFICES ASSUME OffsetWithinDrift, NEW w \in Windows, Abs(Drift) <= w
               PROVE  CodeInWindow(w)
    OBVIOUS
  <2>1. Drift \in Int /\ w \in Nat
    BY DriftAssumption
  <2>2. offset \in Int /\ Drift - offset \in -w .. w
    BY <2>1 DEF OffsetWithinDrift, Abs
  <2>3. offset + (Drift - offset) = Drift
    BY <2>1, <2>2
  <2> QED
    BY <2>2, <2>3 DEF CodeInWindow
<1> QED
  BY <1>1, OffsetWithinDriftHolds, PTL
=============================================================================
