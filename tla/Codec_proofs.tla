---------------------------- MODULE Codec_proofs ----------------------------
(***************************************************************************)
(* What the checksum computes, which damage it finds, and that a packet    *)
(* survives its way through to_bytes and from_bytes, for every radix. The  *)
(* loops of the checksum are recursive functions; induction is over sets   *)
(* of natural numbers.                                                     *)
(***************************************************************************)
EXTENDS PacketCodec, SequenceTheorems, FiniteSetTheorems, TLAPS

-----------------------------------------------------------------------------
(* Induction.                                                              *)

\* A set of natural numbers that is not empty has a least element: the
\* intervals below its elements have a smallest one.
LEMMA LeastElement ==
  ASSUME NEW T \in SUBSET Nat, T # {}
  PROVE  \E n \in T : \A m \in T : n <= m
<1> DEFINE Below(n) == 0 .. n - 1
           Intervals == {Below(n) : n \in T}
           R == StrictSubsetOrdering(Nat)
<1>1. IsWellFoundedOn(R, FiniteSubsetsOf(Nat))
  BY FS_StrictSubsetOrderingWellFounded
<1>2. \A n \in Nat : Below(n) \in FiniteSubsetsOf(Nat)
  BY FS_Interval DEF FiniteSubsetsOf
<1>3. Intervals \subseteq FiniteSubsetsOf(Nat) /\ Intervals # {}
  BY <1>2
<1>4. \E x \in Intervals : \A y \in Intervals : ~ (<<y, x>> \in R)
  <2> HIDE DEF Intervals, R
  <2> QED BY <1>1, <1>3, WFMin
<1>5. PICK n \in T : \A m \in T : ~ (<<Below(m), Below(n)>> \in R)
  BY <1>4
<1>6. ASSUME NEW m \in T, m < n PROVE FALSE
  <2>1. Below(m) \subseteq Below(n) /\ m \in Below(n) /\ m \notin Below(m)
    BY <1>6
  <2>2. <<Below(m), Below(n)>> \in R
    BY <2>1 DEF StrictSubsetOrdering
  <2> QED BY <1>5, <2>2
<1> QED BY <1>6

\* A set with 0 and with the successor of each of its elements is Nat.
LEMMA Inductive ==
  ASSUME NEW S \in SUBSET Nat, 0 \in S, \A n \in S : n + 1 \in S
  PROVE  S = Nat
<1> SUFFICES ASSUME S # Nat PROVE FALSE
  OBVIOUS
<1>1. PICK n \in Nat \ S : \A m \in Nat \ S : n <= m
  <2>1. Nat \ S \in SUBSET Nat /\ Nat \ S # {}
    OBVIOUS
  <2> QED BY <2>1, LeastElement
<1>2. n - 1 \in Nat /\ n - 1 \notin Nat \ S
  BY <1>1
<1> QED BY <1>1, <1>2

-----------------------------------------------------------------------------
(* Division.                                                               *)

\* Quotient and remainder.
LEMMA DivMod ==
  ASSUME NEW n \in Nat, NEW d \in Nat \ {0}
  PROVE  /\ n \div d \in Nat /\ n % d \in 0 .. d - 1
         /\ n = d * (n \div d) + (n % d)
OBVIOUS

\* A product grows with its factor.
LEMMA TimesMonotonic ==
  ASSUME NEW d \in Nat, NEW a \in Int, NEW b \in Int, a <= b
  PROVE  d * a <= d * b
OBVIOUS

\* There is one way to divide.
LEMMA DivUnique ==
  ASSUME NEW d \in Nat \ {0}, NEW q \in Int, NEW r \in 0 .. d - 1
  PROVE  (d * q + r) \div d = q /\ (d * q + r) % d = r
OBVIOUS

\* To divide by a product, divide by its factors.
LEMMA DivDiv ==
  ASSUME NEW a \in Nat \ {0}, NEW b \in Nat \ {0}, NEW n \in Nat
  PROVE  n \div (a * b) = (n \div a) \div b
<1> DEFINE q == n \div a  r == n % a  k == q \div b  s == q % b
<1>1. q \in Nat /\ r \in 0 .. a - 1 /\ n = a * q + r
  BY DivMod
<1>2. k \in Nat /\ s \in 0 .. b - 1 /\ q = b * k + s
  BY <1>1, DivMod
<1> HIDE DEF q, r, k, s
<1>3. n = (a * b) * k + (a * s + r)
  BY <1>1, <1>2
<1>4. a * s + r \in 0 .. a * b - 1
  <2>1. a * s <= a * (b - 1)
    BY <1>2, TimesMonotonic
  <2>2. a * (b - 1) = a * b - a /\ a * s \in Nat
    BY <1>2
  <2> QED BY <1>1, <2>1, <2>2
<1>5. a * b \in Nat \ {0}
  OBVIOUS
<1>6. n \div (a * b) = k
  BY <1>2, <1>3, <1>4, <1>5, DivUnique
<1> QED BY <1>6 DEF k, q

\* The radix and the base of words.
LEMMA Bases ==
  /\ Radix \in Nat /\ Radix > 10
  /\ WordBase \in Nat /\ WordBase > 100 /\ WordBase = Radix * Radix
<1>1. Radix \in Nat /\ Radix > 10
  BY CodecAssumption
<1>2. Radix * 11 <= Radix * Radix
  BY <1>1, TimesMonotonic
<1> QED BY <1>1, <1>2 DEF WordBase

-----------------------------------------------------------------------------
(* The sum of the words.                                                   *)

\* What a byte contributes to the sum.
Part(bytes, i) == IF i % 2 = 1 THEN bytes[i] ELSE Radix * bytes[i]

\* g holds the sums of the first bytes, up to n of them.
SumsUpto(bytes, g, n) ==
  /\ g \in [0 .. n -> Nat]
  /\ g[0] = 0
  /\ \A i \in 0 .. n - 1 : g[i + 1] = g[i] + Part(bytes, i + 1)

Sums(bytes, g) == SumsUpto(bytes, g, Len(bytes))

\* A byte contributes a number.
LEMMA PartType ==
  ASSUME NEW bytes \in Seq(Nat), NEW i \in 1 .. Len(bytes)
  PROVE  Part(bytes, i) \in Nat
BY Bases, ElementOfSeq DEF Part

\* WordSum computes such sums.
LEMMA WordSumSums ==
  ASSUME NEW bytes \in Seq(Nat)
  PROVE  \E g : Sums(bytes, g) /\ WordSum(bytes) = g[Len(bytes)]
<1> DEFINE L == Len(bytes)
           Body(g) == [i \in 0 .. L |-> IF i = 0 THEN 0 ELSE g[i - 1] + Part(bytes, i)]
           S == {n \in Nat : n <= L => \E g : SumsUpto(bytes, g, n)}
<1>1. L \in Nat
  OBVIOUS
<1>2. S = Nat
  <2>1. 0 \in S
    <3>1. SumsUpto(bytes, [i \in 0 .. 0 |-> 0], 0)
      BY DEF SumsUpto
    <3> QED BY <3>1
  <2>2. ASSUME NEW n \in S PROVE n + 1 \in S
    <3> SUFFICES ASSUME n + 1 <= L PROVE \E g : SumsUpto(bytes, g, n + 1)
      OBVIOUS
    <3>1. PICK g : SumsUpto(bytes, g, n)
      BY <1>1
    <3>2. Part(bytes, n + 1) \in Nat
      BY PartType
    <3> DEFINE h == [i \in 0 .. n + 1 |-> IF i = n + 1 THEN g[n] + Part(bytes, n + 1) ELSE g[i]]
    <3>3. h \in [0 .. n + 1 -> Nat] /\ h[0] = 0
      BY <3>1, <3>2 DEF SumsUpto
    <3>4. \A i \in 0 .. n + 1 - 1 : h[i + 1] = h[i] + Part(bytes, i + 1)
      BY <3>1 DEF SumsUpto
    <3> HIDE DEF h
    <3>5. SumsUpto(bytes, h, n + 1)
      BY <3>3, <3>4 DEF SumsUpto
    <3> QED BY <3>5
  <2>3. S \in SUBSET Nat
    OBVIOUS
  <2> HIDE DEF S
  <2> QED BY <2>1, <2>2, <2>3, Inductive
<1>3. PICK g : SumsUpto(bytes, g, L)
  BY <1>1, <1>2
<1>4. g = Body(g)
  BY <1>1, <1>3 DEF SumsUpto
<1> DEFINE sum == CHOOSE h : h = Body(h)
<1>5. sum = Body(sum)
  <2> HIDE DEF Body
  <2> QED BY <1>4
<1>6. WordSum(bytes) = sum[L]
  BY DEF WordSum, Part
<1> HIDE DEF sum
<1>7. \A n \in Nat : n <= L => sum[n] = g[n]
  <2> DEFINE T == {n \in Nat : n <= L => sum[n] = g[n]}
  <2>1. 0 \in T
    BY <1>1, <1>3, <1>5 DEF SumsUpto
  <2>2. ASSUME NEW n \in T PROVE n + 1 \in T
    BY <1>1, <1>3, <1>5 DEF SumsUpto
  <2>3. T = Nat
    <3>1. T \in SUBSET Nat
      OBVIOUS
    <3> HIDE DEF T
    <3> QED BY <2>1, <2>2, <3>1, Inductive
  <2> QED BY <2>3
<1> QED BY <1>1, <1>3, <1>6, <1>7 DEF Sums


\* The sum is a number.
LEMMA WordSumType ==
  ASSUME NEW bytes \in Seq(Nat)
  PROVE  WordSum(bytes) \in Nat
BY WordSumSums DEF Sums, SumsUpto

\* One step of the sum.
LEMMA SumsStep ==
  ASSUME NEW bytes \in Seq(Nat), NEW g, Sums(bytes, g),
         NEW n \in Nat, n + 1 <= Len(bytes)
  PROVE  /\ g[n + 1] = g[n] + Part(bytes, n + 1)
         /\ g[n] \in Nat /\ Part(bytes, n + 1) \in Nat
<1>1. Len(bytes) \in Nat /\ n \in 0 .. Len(bytes) - 1 /\ n + 1 \in 1 .. Len(bytes)
  OBVIOUS
<1>2. g[n + 1] = g[n] + Part(bytes, n + 1)
  BY <1>1 DEF Sums, SumsUpto
<1>3. g[n] \in Nat
  BY <1>1 DEF Sums, SumsUpto
<1>4. Part(bytes, n + 1) \in Nat
  BY <1>1, PartType
<1> QED BY <1>2, <1>3, <1>4

\* A byte that changes moves the sum by the change of its part.
LEMMA WordSumChange ==
  ASSUME NEW bytes \in Seq(Nat), NEW other \in Seq(Nat), NEW L \in Nat,
         Len(bytes) = L, Len(other) = L, NEW j \in 1 .. L,
         \A i \in (1 .. L) \ {j} : Part(other, i) = Part(bytes, i)
  PROVE  WordSum(other) + Part(bytes, j) = WordSum(bytes) + Part(other, j)
<1>1. j \in Nat /\ 1 <= j /\ j <= L
  OBVIOUS
<1>2. PICK g : Sums(bytes, g) /\ WordSum(bytes) = g[L]
  BY WordSumSums
<1>3. PICK h : Sums(other, h) /\ WordSum(other) = h[L]
  BY WordSumSums
<1>4. PICK p \in Nat : p = Part(bytes, j)
  BY PartType
<1>5. PICK q \in Nat : q = Part(other, j)
  BY PartType
<1> DEFINE P(n) == n <= L => /\ n < j => h[n] = g[n]
                             /\ n >= j => h[n] + p = g[n] + q
           S == {n \in Nat : P(n)}
<1>6. P(0)
  <2>1. g[0] = 0 /\ h[0] = 0
    BY <1>2, <1>3 DEF Sums, SumsUpto
  <2> QED BY <2>1
<1>7. ASSUME NEW n \in Nat, P(n) PROVE P(n + 1)
  <2> SUFFICES ASSUME n + 1 <= L
               PROVE  /\ n + 1 < j => h[n + 1] = g[n + 1]
                      /\ n + 1 >= j => h[n + 1] + p = g[n + 1] + q
    OBVIOUS
  <2>1. g[n + 1] = g[n] + Part(bytes, n + 1) /\ g[n] \in Nat
    BY <1>2, SumsStep
  <2>2. h[n + 1] = h[n] + Part(other, n + 1) /\ h[n] \in Nat
    BY <1>3, SumsStep
  <2>3. PICK x, y \in Nat : x = g[n] /\ y = h[n]
    BY <2>1, <2>2
  <2>4. (n < j => y = x) /\ (n >= j => y + p = x + q)
    <3>1. n <= L
      BY <1>1
    <3> QED BY <1>7, <2>3, <3>1
  <2>5. CASE n + 1 = j
    <3>1. g[n + 1] = x + p /\ h[n + 1] = y + q /\ y = x
      <4>1. n < j
        BY <2>5
      <4> QED BY <1>4, <1>5, <2>1, <2>2, <2>3, <2>4, <2>5, <4>1
    <3> QED BY <2>5, <3>1
  <2>6. CASE n + 1 # j
    <3>1. n + 1 \in (1 .. L) \ {j}
      BY <1>1, <2>6
    <3>2. PICK z \in Nat : z = Part(bytes, n + 1)
      BY PartType
    <3>3. Part(other, n + 1) = z
      BY <3>1, <3>2
    <3>4. g[n + 1] = x + z /\ h[n + 1] = y + z
      BY <2>1, <2>2, <2>3, <3>2, <3>3
    <3>5. (n + 1 < j => y + z = x + z) /\ (n + 1 >= j => (y + z) + p = (x + z) + q)
      BY <1>1, <2>4, <2>6
    <3> QED BY <3>4, <3>5
  <2> QED BY <2>5, <2>6
<1> HIDE DEF P
<1>8. S \in SUBSET Nat /\ 0 \in S /\ \A n \in S : n + 1 \in S
  BY <1>6, <1>7
<1> HIDE DEF S
<1>9. S = Nat
  BY <1>8, Inductive
<1>10. P(L)
  BY <1>1, <1>9 DEF S
<1>11. h[L] + p = g[L] + q
  BY <1>1, <1>10 DEF P
<1> QED BY <1>2, <1>3, <1>4, <1>5, <1>11

\* A part is not more than the sum.
LEMMA WordSumAbove ==
  ASSUME NEW bytes \in Seq(Nat), NEW j \in 1 .. Len(bytes)
  PROVE  WordSum(bytes) >= bytes[j]
<1> DEFINE other == [bytes EXCEPT ![j] = 0]
<1>1. /\ other \in Seq(Nat) /\ Len(other) = Len(bytes) /\ other[j] = 0
      /\ \A i \in (1 .. Len(bytes)) \ {j} : other[i] = bytes[i]
  OBVIOUS
<1> HIDE DEF other
<1>2. WordSum(other) + Part(bytes, j) = WordSum(bytes) + Part(other, j)
  <2>1. \A i \in (1 .. Len(bytes)) \ {j} : Part(other, i) = Part(bytes, i)
    BY <1>1 DEF Part
  <2> QED BY <1>1, <2>1, WordSumChange
<1>4. Part(other, j) = 0
  BY <1>1, Bases DEF Part
<1>3. bytes[j] \in Nat /\ Part(bytes, j) >= bytes[j] /\ Part(bytes, j) \in Nat
  <2>1. bytes[j] \in Nat
    OBVIOUS
  <2>2. \A b \in Nat : Radix * b >= b /\ Radix * b \in Nat
    BY Bases
  <2> QED BY <2>1, <2>2, Bases DEF Part
<1> QED BY <1>1, <1>2, <1>3, <1>4, WordSumType

\* After an even number of bytes the words of the rest are added.
LEMMA WordSumConcat ==
  ASSUME NEW a \in Seq(Nat), NEW b \in Seq(Nat), Len(a) % 2 = 0
  PROVE  WordSum(a \o b) = WordSum(a) + WordSum(b)
<1>1. PICK c : c = a \o b
  OBVIOUS
<1>2. PICK k \in Nat : k = Len(a)
  OBVIOUS
<1>3. PICK l \in Nat : l = Len(b)
  OBVIOUS
<1>4. c \in Seq(Nat) /\ Len(c) = k + l
  BY <1>1, <1>2, <1>3
<1>5. ASSUME NEW i \in 1 .. k PROVE Part(c, i) = Part(a, i)
  <2>1. c[i] = a[i]
    BY <1>1, <1>2
  <2> QED BY <2>1 DEF Part
<1>6. ASSUME NEW i \in 1 .. l PROVE Part(c, k + i) = Part(b, i)
  <2>1. c[k + i] = b[i]
    BY <1>1, <1>2, <1>3
  <2>2. (k + i) % 2 = i % 2
    <3>1. \A n \in Nat : n % 2 = 0 => (n + i) % 2 = i % 2
      OBVIOUS
    <3> QED BY <1>2, <3>1
  <2> QED BY <2>1, <2>2 DEF Part
<1>7. PICK f : Sums(a, f) /\ WordSum(a) = f[k]
  BY <1>2, WordSumSums
<1>8. PICK g : Sums(b, g) /\ WordSum(b) = g[l]
  BY <1>3, WordSumSums
<1>9. PICK h : Sums(c, h) /\ WordSum(c) = h[k + l]
  BY <1>4, WordSumSums
<1>10. f[0] = 0 /\ g[0] = 0 /\ h[0] = 0
  BY <1>7, <1>8, <1>9 DEF Sums, SumsUpto
<1>11. PICK x \in Nat : x = f[k]
  <2>1. f[k] \in Nat
    BY <1>2, <1>7 DEF Sums, SumsUpto
  <2> QED BY <2>1
<1>12. h[k] = x
  <2> DEFINE P(n) == n <= k => h[n] = f[n]
             S == {n \in Nat : P(n)}
  <2>1. P(0)
    BY <1>10
  <2>2. ASSUME NEW n \in Nat, P(n) PROVE P(n + 1)
    <3> SUFFICES ASSUME n + 1 <= k PROVE h[n + 1] = f[n + 1]
      OBVIOUS
    <3>1. f[n + 1] = f[n] + Part(a, n + 1)
      BY <1>2, <1>7, SumsStep
    <3>2. n + 1 <= Len(c) /\ n <= k
      BY <1>2, <1>3, <1>4
    <3>3. h[n + 1] = h[n] + Part(c, n + 1)
      BY <1>4, <1>9, <3>2, SumsStep
    <3>4. h[n] = f[n]
      BY <2>2, <3>2, Zenon
    <3>5. Part(c, n + 1) = Part(a, n + 1)
      <4>1. n + 1 \in 1 .. k
        OBVIOUS
      <4> QED BY <1>5, <4>1, Zenon
    <3> QED BY <3>1, <3>3, <3>4, <3>5
  <2> HIDE DEF P
  <2>3. S \in SUBSET Nat /\ 0 \in S /\ \A n \in S : n + 1 \in S
    BY <2>1, <2>2
  <2> HIDE DEF S
  <2>4. S = Nat
    BY <2>3, Inductive
  <2>5. P(k)
    BY <2>4 DEF S
  <2> QED BY <1>11, <2>5 DEF P
<1>13. h[k + l] = x + g[l]
  <2> DEFINE P(n) == n <= l => h[k + n] = x + g[n]
             S == {n \in Nat : P(n)}
  <2>1. P(0)
    BY <1>10, <1>12
  <2>2. ASSUME NEW n \in Nat, P(n) PROVE P(n + 1)
    <3> SUFFICES ASSUME n + 1 <= l PROVE h[k + (n + 1)] = x + g[n + 1]
      OBVIOUS
    <3>1. g[n + 1] = g[n] + Part(b, n + 1) /\ g[n] \in Nat /\ Part(b, n + 1) \in Nat
      BY <1>3, <1>8, SumsStep
    <3>2. k + n \in Nat /\ (k + n) + 1 <= Len(c) /\ k + (n + 1) = (k + n) + 1 /\ n <= l
      BY <1>4
    <3>3. h[(k + n) + 1] = h[k + n] + Part(c, (k + n) + 1)
      BY <1>4, <1>9, <3>2, SumsStep
    <3>4. Part(c, k + (n + 1)) = Part(b, n + 1)
      BY <1>6
    <3>5. h[k + n] = x + g[n]
      BY <2>2, <3>2
    <3>7. PICK y, z \in Nat : y = g[n] /\ z = Part(b, n + 1)
      BY <3>1
    <3>8. h[k + (n + 1)] = (x + y) + z /\ g[n + 1] = y + z
      BY <3>1, <3>2, <3>3, <3>4, <3>5, <3>7
    <3> QED BY <3>7, <3>8
  <2> HIDE DEF P
  <2>3. S \in SUBSET Nat /\ 0 \in S /\ \A n \in S : n + 1 \in S
    BY <2>1, <2>2
  <2> HIDE DEF S
  <2>4. S = Nat
    BY <2>3, Inductive
  <2>5. P(l)
    BY <2>4 DEF S
  <2> QED BY <2>5 DEF P
<1> QED BY <1>1, <1>7, <1>8, <1>9, <1>11, <1>13

-----------------------------------------------------------------------------
(* The end-around carry.                                                   *)

\* A number that is not zero, reduced to 1 .. WordBase - 1 by steps of
\* WordBase - 1; zero is left alone.
Reduced(s) == IF s = 0 THEN 0 ELSE ((s - 1) % (WordBase - 1)) + 1

\* A sum that fits into a word is reduced.
LEMMA ReducedWord ==
  ASSUME NEW s \in Nat, s < WordBase
  PROVE  Reduced(s) = s
<1>1. CASE s = 0
  BY <1>1 DEF Reduced
<1>2. CASE s # 0
  <2>1. PICK d \in Nat \ {0} : d = WordBase - 1
    BY Bases
  <2>2. s - 1 \in 0 .. d - 1
    BY <1>2, <2>1, Bases
  <2>3. (d * 0 + (s - 1)) % d = s - 1
    BY <2>2, DivUnique
  <2>4. d * 0 + (s - 1) = s - 1
    BY <2>1
  <2> QED BY <1>2, <2>1, <2>3, <2>4 DEF Reduced
<1> QED BY <1>1, <1>2

\* To add the carry makes a sum smaller and reduces it further.
LEMMA CarryStep ==
  ASSUME NEW s \in Nat, s >= WordBase,
         NEW t, t = (s % WordBase) + (s \div WordBase)
  PROVE  t \in Nat /\ t < s /\ Reduced(t) = Reduced(s)
<1>1. PICK B \in Nat : B = WordBase /\ B > 100
  BY Bases
<1>2. PICK q \in Nat : q = s \div B
  BY <1>1, DivMod
<1>3. PICK m \in 0 .. B - 1 : m = s % B
  BY <1>1, DivMod
<1>4. s = B * q + m
  BY <1>1, <1>2, <1>3, DivMod
<1>5. t = m + q
  BY <1>1, <1>2, <1>3
<1>6. q >= 1
  <2> SUFFICES ASSUME q = 0 PROVE FALSE
    BY <1>2
  <2>1. s = m
    BY <1>1, <1>4
  <2> QED BY <1>1, <2>1
<1>7. t \in Nat /\ t >= 1 /\ t < s
  <2>1. q * 2 <= q * B
    BY <1>1, TimesMonotonic
  <2>2. q * B = B * q
    BY <1>1
  <2> QED BY <1>1, <1>4, <1>5, <1>6, <2>1, <2>2
<1>8. PICK d \in Nat \ {0} : d = B - 1
  BY <1>1
<1>9. PICK k \in Nat, r \in 0 .. d - 1 : t - 1 = d * k + r
  <2>1. t - 1 \in Nat
    BY <1>7
  <2> QED BY <2>1, DivMod
<1>10. s - 1 = d * (q + k) + r
  <2>1. d * (q + k) = d * q + d * k
    BY <1>8
  <2>2. d * q = B * q - q
    BY <1>1, <1>8
  <2>3. d * q \in Nat /\ d * k \in Nat /\ B * q \in Nat
    BY <1>1, <1>8
  <2> QED BY <1>4, <1>5, <1>7, <1>9, <2>1, <2>2, <2>3
<1>11. (t - 1) % d = r /\ (s - 1) % d = r
  <2>1. (d * k + r) % d = r
    BY DivUnique
  <2>2. (d * (q + k) + r) % d = r
    <3>1. q + k \in Int
      BY <1>2, <1>9
    <3> QED BY <3>1, DivUnique
  <2> QED BY <1>9, <1>10, <2>1, <2>2
<1>12. t # 0 /\ s # 0
  BY <1>7
<1> QED BY <1>1, <1>7, <1>8, <1>11, <1>12 DEF Reduced

\* The loop that adds the carry reduces the sum.
LEMMA EndAroundCarryReduces ==
  ASSUME NEW s \in Nat
  PROVE  EndAroundCarry[s] = Reduced(s)
<1> DEFINE Body(f) == [n \in Nat |-> IF n < WordBase THEN n
                                     ELSE f[(n % WordBase) + (n \div WordBase)]]
           F == [n \in Nat |-> Reduced(n)]
<1>1. F = Body(F)
  <2>1. ASSUME NEW n \in Nat PROVE F[n] = Body(F)[n]
    <3>1. CASE n < WordBase
      BY <3>1, ReducedWord
    <3>2. CASE ~ (n < WordBase)
      <4>1. n >= WordBase
        BY <3>2, Bases
      <4>2. PICK t : t = (n % WordBase) + (n \div WordBase)
        OBVIOUS
      <4>3. t \in Nat /\ Reduced(t) = Reduced(n)
        BY <4>1, <4>2, CarryStep
      <4> QED BY <3>2, <4>2, <4>3
    <3> QED BY <3>1, <3>2
  <2> QED BY <2>1
<1>2. EndAroundCarry = CHOOSE f : f = Body(f)
  BY DEF EndAroundCarry
<1>3. EndAroundCarry = Body(EndAroundCarry)
  <2> HIDE DEF Body, F
  <2> QED BY <1>1, <1>2
<1> DEFINE T == {n \in Nat : EndAroundCarry[n] # Reduced(n)}
<1>4. T = {}
  <2> SUFFICES ASSUME T # {} PROVE FALSE
    OBVIOUS
  <2>1. PICK n \in T : \A m \in T : n <= m
    <3>1. T \in SUBSET Nat
      OBVIOUS
    <3> HIDE DEF T
    <3> QED BY <3>1, LeastElement
  <2>2. EndAroundCarry[n] = IF n < WordBase THEN n
                            ELSE EndAroundCarry[(n % WordBase) + (n \div WordBase)]
    BY <1>3
  <2>3. CASE n < WordBase
    BY <2>2, <2>3, ReducedWord
  <2>4. CASE ~ (n < WordBase)
    <3>1. n >= WordBase
      BY <2>4, Bases
    <3>2. PICK t : t = (n % WordBase) + (n \div WordBase)
      OBVIOUS
    <3>3. t \in Nat /\ t < n /\ Reduced(t) = Reduced(n)
      BY <3>1, <3>2, CarryStep
    <3>4. t \notin T
      BY <2>1, <3>3
    <3>5. EndAroundCarry[t] = Reduced(t)
      BY <3>3, <3>4
    <3> QED BY <2>2, <2>4, <3>2, <3>3, <3>5
  <2> QED BY <2>3, <2>4
<1> QED BY <1>4

\* What is missing from a reduced number to d makes it a multiple of d.
LEMMA Complement ==
  ASSUME NEW d \in Nat \ {0}, NEW s \in Nat \ {0}, NEW c, c = d - (((s - 1) % d) + 1)
  PROVE  c \in 0 .. d /\ (c = 0 <=> s % d = 0) /\ (s + c) % d = 0
<1>1. PICK p \in Nat : p = s - 1
  OBVIOUS
<1>2. PICK q \in Nat, r \in 0 .. d - 1 : p = d * q + r
  BY DivMod
<1>3. PICK x \in Nat : x = d * q
  OBVIOUS
<1>4. p % d = r
  BY <1>2, DivUnique
<1>5. c = d - (r + 1) /\ c \in 0 .. d
  BY <1>1, <1>4
<1>6. s = x + (r + 1)
  BY <1>1, <1>2, <1>3
<1>7. d * (q + 1) = x + d
  BY <1>3
<1>8. (d * (q + 1) + 0) % d = 0
  BY DivUnique
<1>9. (s + c) % d = 0
  <2>1. s + c = x + d
    BY <1>5, <1>6
  <2> QED BY <1>7, <1>8, <2>1
<1>10. c = 0 <=> s % d = 0
  <2>1. CASE r = d - 1
    <3>1. s = d * (q + 1) + 0
      BY <1>6, <1>7, <2>1
    <3>2. c = 0
      BY <1>5, <2>1
    <3> QED BY <1>8, <3>1, <3>2
  <2>2. CASE r # d - 1
    <3>1. r + 1 \in 0 .. d - 1
      BY <2>2
    <3>2. (d * q + (r + 1)) % d = r + 1
      BY <3>1, DivUnique
    <3>3. s % d = r + 1
      BY <1>3, <1>6, <3>2
    <3>4. c # 0
      BY <1>5, <2>2
    <3> QED BY <3>3, <3>4
  <2> QED BY <2>1, <2>2
<1> QED BY <1>5, <1>9, <1>10

\* The checksum is a word, and it is 0 for the sums that are a multiple of
\* WordBase - 1, except 0.
LEMMA ChecksumZero ==
  ASSUME NEW bytes \in Seq(Nat), NEW d, d = WordBase - 1
  PROVE  /\ calc_checksum(bytes) \in 0 .. d
         /\ calc_checksum(bytes) = 0 <=> WordSum(bytes) > 0 /\ WordSum(bytes) % d = 0
         /\ WordSum(bytes) > 0 => (WordSum(bytes) + calc_checksum(bytes)) % d = 0
<1>1. d \in Nat \ {0}
  BY Bases
<1>2. PICK s \in Nat : s = WordSum(bytes)
  BY WordSumType
<1>3. calc_checksum(bytes) = d - Reduced(s)
  BY <1>2, EndAroundCarryReduces DEF calc_checksum
<1>4. CASE s = 0
  BY <1>1, <1>2, <1>3, <1>4 DEF Reduced
<1>5. CASE s # 0
  <2>1. PICK c : c = d - (((s - 1) % d) + 1)
    OBVIOUS
  <2>2. calc_checksum(bytes) = c
    BY <1>3, <1>5, <2>1 DEF Reduced
  <2>3. c \in 0 .. d /\ (c = 0 <=> s % d = 0) /\ (s + c) % d = 0
    BY <1>1, <1>5, <2>1, Complement
  <2>4. s > 0
    BY <1>5
  <2> QED BY <1>2, <2>2, <2>3, <2>4
<1> QED BY <1>4, <1>5

-----------------------------------------------------------------------------
(* Numbers as bytes.                                                       *)

\* Division by one.
LEMMA DivOne ==
  ASSUME NEW n \in Nat
  PROVE  n \div 1 = n
OBVIOUS

\* A number below the divisor is its own remainder.
LEMMA ModBelow ==
  ASSUME NEW d \in Nat \ {0}, NEW n \in 0 .. d - 1
  PROVE  n % d = n /\ n \div d = 0
<1>1. (d * 0 + n) % d = n /\ (d * 0 + n) \div d = 0
  BY DivUnique
<1>2. d * 0 + n = n
  OBVIOUS
<1> QED BY <1>1, <1>2

\* The bytes of a number are bytes.
LEMMA LittleEndianType ==
  ASSUME NEW n \in Nat, NEW width \in 1 .. 4
  PROVE  /\ little_endian(n, width) \in Seq(Byte)
         /\ Len(little_endian(n, width)) = width
<1>1. \A i \in 1 .. width : Place[i] \in Nat \ {0}
  <2>1. Radix \in Nat \ {0} /\ Radix * Radix \in Nat \ {0}
    BY CodecAssumption
  <2>2. Radix * Radix * Radix \in Nat \ {0}
    BY <2>1
  <2> QED BY <2>1, <2>2 DEF Place
<1>2. \A i \in 1 .. width : (n \div Place[i]) % Radix \in Byte
  BY <1>1, CodecAssumption DEF Byte
<1> QED BY <1>2 DEF little_endian

\* Two digits are the remainder by the square of the radix.
LEMMA TwoDigits ==
  ASSUME NEW n \in Nat
  PROVE  (n % Radix) + Radix * ((n \div Radix) % Radix) = n % WordBase
<1>1. PICK R \in Nat \ {0} : R = Radix /\ R * R = WordBase
  BY Bases
<1>2. PICK q \in Nat, r \in 0 .. R - 1 : n = R * q + r /\ q = n \div R /\ r = n % R
  BY DivMod
<1>3. PICK k \in Nat, s \in 0 .. R - 1 : q = R * k + s /\ s = q % R
  BY DivMod
<1>4. PICK x \in Nat : x = R * s
  OBVIOUS
<1>5. PICK B \in Nat \ {0} : B = R * R
  OBVIOUS
<1>6. n = B * k + (x + r)
  BY <1>2, <1>3, <1>4, <1>5
<1>7. x + r \in 0 .. B - 1
  <2>1. R * s <= R * (R - 1)
    BY TimesMonotonic
  <2>2. R * (R - 1) = B - R
    BY <1>5
  <2> QED BY <1>4, <2>1, <2>2
<1>8. n % B = x + r
  BY <1>6, <1>7, DivUnique
<1>9. WordBase = B /\ x = Radix * s
  BY <1>1, <1>4, <1>5
<1>10. r = n % Radix /\ s = (n \div Radix) % Radix
  BY <1>1, <1>2, <1>3
<1>11. x + r = r + x
  OBVIOUS
<1> QED BY <1>8, <1>9, <1>10, <1>11

\* The digits of a number of two bytes.
LEMMA LittleEndianDigits ==
  ASSUME NEW n \in Nat
  PROVE  /\ little_endian(n, 2)[1] = n % Radix
         /\ little_endian(n, 2)[2] = (n \div Radix) % Radix
<1>1. \A i \in 1 .. 2 : little_endian(n, 2)[i] = (n \div Place[i]) % Radix
  BY DEF little_endian
<1>2. Place[1] = 1 /\ Place[2] = Radix
  BY DEF Place
<1>3. n \div 1 = n
  BY DivOne
<1>4. 1 \in 1 .. 2 /\ 2 \in 1 .. 2
  OBVIOUS
<1> QED BY <1>1, <1>2, <1>3, <1>4

\* A number below WordBase is the word of its two bytes.
LEMMA WordOfBytes ==
  ASSUME NEW n \in 0 .. WordBase - 1, NEW bytes, NEW i,
         bytes[i] = little_endian(n, 2)[1], bytes[i + 1] = little_endian(n, 2)[2]
  PROVE  Word(bytes, i) = n
<1>1. n \in Nat /\ Radix \in Nat
  BY Bases
<1>2. bytes[i] = n % Radix /\ bytes[i + 1] = (n \div Radix) % Radix
  BY <1>1, LittleEndianDigits
<1>3. Word(bytes, i) = (n % Radix) + Radix * ((n \div Radix) % Radix)
  BY <1>2 DEF Word, Place
<1>4. n % WordBase = n
  BY Bases, ModBelow
<1> QED BY <1>1, <1>3, <1>4, TwoDigits

\* A sequence number is the double word of its four bytes.
LEMMA DoubleWordOfBytes ==
  ASSUME NEW n \in SequenceNumber, NEW bytes, NEW i \in Nat,
         \A j \in 1 .. 4 : bytes[i + (j - 1)] = little_endian(n, 4)[j]
  PROVE  DoubleWord(bytes, i) = n
<1>1. n \in Nat /\ n < Radix * Radix * Radix * Radix
  <2>1. \A x, y, z \in Nat : x \in 0 .. y - 1 /\ y <= z => x < z
    OBVIOUS
  <2>2. Radix * Radix * Radix * Radix \in Nat
    BY CodecAssumption
  <2> QED BY <2>1, <2>2, PacketAssumption, WidthAssumption DEF SequenceNumber
<1>2. PICK R \in Nat \ {0} : R = Radix
  BY Bases
<1>3. PICK B \in Nat \ {0} : B = WordBase /\ B = R * R
  BY <1>2, Bases
<1>4. PICK h \in Nat : h = n \div B
  BY <1>1, DivMod
<1>5. h \in 0 .. B - 1
  <2>1. PICK m \in 0 .. B - 1 : n = B * h + m
    BY <1>1, <1>4, DivMod
  <2>2. n < B * B
    <3>1. R * R * R * R = (R * R) * (R * R)
      OBVIOUS
    <3> QED BY <1>1, <1>2, <1>3, <3>1
  <2>3. CASE h >= B
    <3>1. B * B <= B * h
      BY <2>3, TimesMonotonic
    <3>2. B * B \in Nat /\ B * h \in Nat
      OBVIOUS
    <3> QED BY <1>1, <2>1, <2>2, <3>1, <3>2
  <2> QED BY <2>3
<1>6. /\ bytes[i] = n % R
      /\ bytes[i + 1] = (n \div R) % R
      /\ bytes[i + 2] = h % R
      /\ bytes[i + 3] = (h \div R) % R
  <2>1. \A j \in 1 .. 4 : bytes[i + (j - 1)] = (n \div Place[j]) % R
    BY <1>2 DEF little_endian
  <2>2. Place[1] = 1 /\ Place[2] = R /\ Place[3] = B /\ Place[4] = B * R
    BY <1>2, <1>3 DEF Place
  <2>3. n \div (B * R) = h \div R
    BY <1>1, <1>4, DivDiv
  <2>4. /\ bytes[i + (1 - 1)] = n % R
        /\ bytes[i + (2 - 1)] = (n \div R) % R
        /\ bytes[i + (3 - 1)] = h % R
        /\ bytes[i + (4 - 1)] = (h \div R) % R
    <3>1. 1 \in 1 .. 4 /\ 2 \in 1 .. 4 /\ 3 \in 1 .. 4 /\ 4 \in 1 .. 4
      OBVIOUS
    <3> QED BY <1>1, <1>4, <2>1, <2>2, <2>3, <3>1, DivOne
  <2>5. i + (1 - 1) = i /\ i + (2 - 1) = i + 1 /\ i + (3 - 1) = i + 2 /\ i + (4 - 1) = i + 3
    OBVIOUS
  <2> QED BY <2>4, <2>5
<1>7. Word(bytes, i) = n % B
  <2>1. Word(bytes, i) = (n % R) + R * ((n \div R) % R)
    BY <1>2, <1>6 DEF Word, Place
  <2> QED BY <1>1, <1>2, <1>3, <2>1, TwoDigits
<1>8. Word(bytes, i + 2) = h
  <2>1. (i + 2) + 1 = i + 3
    OBVIOUS
  <2>2. Word(bytes, i + 2) = (h % R) + R * ((h \div R) % R)
    BY <1>2, <1>6, <2>1 DEF Word, Place
  <2>3. h % B = h
    BY <1>5, ModBelow
  <2> QED BY <1>2, <1>3, <1>4, <2>2, <2>3, TwoDigits
<1>9. DoubleWord(bytes, i) = (n % B) + B * h
  BY <1>2, <1>3, <1>7, <1>8 DEF DoubleWord, Place
<1>10. n = B * h + (n % B)
  BY <1>1, <1>4, DivMod
<1>11. B * h \in Nat /\ n % B \in Nat
  BY <1>1, DivMod
<1> QED BY <1>9, <1>10, <1>11

\* The code of a kind is a byte, and it stands for that kind.
LEMMA KindOfCode ==
  ASSUME NEW kind \in RequestKinds \cup AckKinds
  PROVE  KindCode(kind) \in 0 .. 10 /\ KindOf(KindCode(kind)) = kind
<1>1. DOMAIN KindCodes = 1 .. 11 /\ Len(KindCodes) = 11
  BY DEF KindCodes
<1>2. \E i \in 1 .. 11 : KindCodes[i] = kind
  BY DEF KindCodes, RequestKinds, AckKinds
<1>3. PICK i \in 1 .. 11 : KindCodes[i] = kind /\ KindCode(kind) = i - 1
  BY <1>1, <1>2 DEF KindCode
<1>4. (i - 1) + 1 = i /\ i - 1 < 11
  OBVIOUS
<1> QED BY <1>1, <1>3, <1>4 DEF KindOf

\* The sum of a pair.
LEMMA WordSumPair ==
  ASSUME NEW pair \in Seq(Nat), Len(pair) = 2
  PROVE  WordSum(pair) = Word(pair, 1)
<1>1. PICK g : Sums(pair, g) /\ WordSum(pair) = g[2]
  BY WordSumSums
<1>2. g[0] = 0
  BY <1>1 DEF Sums, SumsUpto
<1>3. \A n \in 0 .. 1 : g[n + 1] = g[n] + Part(pair, n + 1)
  <2>1. \A n \in 0 .. 1 : n \in Nat /\ n + 1 <= Len(pair)
    OBVIOUS
  <2> QED BY <1>1, <2>1, SumsStep
<1>4. g[1] = g[0] + Part(pair, 1) /\ g[2] = g[1] + Part(pair, 2)
  <2>1. 0 \in 0 .. 1 /\ 1 \in 0 .. 1 /\ 0 + 1 = 1 /\ 1 + 1 = 2
    OBVIOUS
  <2>2. g[0 + 1] = g[0] + Part(pair, 0 + 1) /\ g[1 + 1] = g[1] + Part(pair, 1 + 1)
    BY <1>3, <2>1
  <2> QED BY <2>1, <2>2
<1>5. pair[1] \in Nat /\ pair[2] \in Nat
  OBVIOUS
<1>6. Part(pair, 1) = pair[1] /\ Part(pair, 2) = Radix * pair[2]
  BY DEF Part
<1>7. Radix * pair[2] \in Nat
  BY <1>5, Bases
<1> QED BY <1>1, <1>2, <1>4, <1>5, <1>6, <1>7 DEF Word, Place

-----------------------------------------------------------------------------
(* The layout of a packet.                                                 *)

\* The packets there are.
BytePackets == [kind : RequestKinds \cup AckKinds, seq : SequenceNumber, payload : Seq(Byte)]

\* to_bytes writes the payload, and a length before it.
Carried(p) == Len(p.payload) \in 1 .. WordBase - 1

\* A byte is a natural number, and so are those of a sequence.
LEMMA ByteNat ==
  Byte \subseteq Nat /\ (\A n \in 0 .. 10 : n \in Byte) /\ \A b \in Seq(Byte) : b \in Seq(Nat)
<1>1. Byte \subseteq Nat /\ \A n \in 0 .. 10 : n \in Byte
  BY CodecAssumption DEF Byte
<1>2. ASSUME NEW b \in Seq(Byte)
      PROVE  b \in Seq(Nat)
  <2>1. PICK n \in Nat : n = Len(b)
    OBVIOUS
  <2>2. \A i \in 1 .. n : b[i] \in Byte
    BY <2>1
  <2>3. b = [i \in 1 .. n |-> b[i]]
    BY <2>1
  <2>4. \A i \in 1 .. n : b[i] \in Nat
    BY <1>1, <2>2
  <2> QED BY <2>3, <2>4
<1> QED BY <1>1, <1>2

\* Two sequences of bytes in a row.
LEMMA TwoParts ==
  ASSUME NEW x \in Seq(Byte), NEW y \in Seq(Byte)
  PROVE  /\ x \o y \in Seq(Byte)
         /\ Len(x \o y) = Len(x) + Len(y)
         /\ \A i \in 1 .. Len(x) : (x \o y)[i] = x[i]
         /\ \A i \in 1 .. Len(y) : (x \o y)[Len(x) + i] = y[i]
<1>1. PICK b : b = x \o y
  OBVIOUS
<1>2. PICK m, n \in Nat : m = Len(x) /\ n = Len(y)
  BY LenProperties
<1>3. b \in Seq(Byte) /\ Len(b) = m + n
  BY <1>1, <1>2, ConcatProperties
<1>4. \A i \in 1 .. m + n : b[i] = IF i <= m THEN x[i] ELSE y[i - m]
  BY <1>1, <1>2, ConcatProperties
<1>5. \A i \in 1 .. m : i \in 1 .. m + n /\ i <= m
  OBVIOUS
<1>6. \A i \in 1 .. n : m + i \in 1 .. m + n /\ ~(m + i <= m) /\ (m + i) - m = i
  OBVIOUS
<1> QED BY <1>1, <1>2, <1>3, <1>4, <1>5, <1>6

\* Where the brackets are does not matter.
LEMMA Regroup ==
  ASSUME NEW x \in Seq(Byte), NEW y \in Seq(Byte), NEW z \in Seq(Byte)
  PROVE  (x \o y) \o z = x \o (y \o z)
BY ConcatAssociative

\* What comes before the checksum of a packet, and after it up to the end
\* of the header.
Opening == Magic \o little_endian(Version, 2)
Fields(p) == <<KindCode(p.kind), 0>> \o little_endian(p.seq, 4)

\* The opening: four bytes, and they are not all zero.
LEMMA OpeningType ==
  /\ Opening \in Seq(Byte) /\ Len(Opening) = 4
  /\ Opening[1] = Magic[1] /\ Opening[2] = Magic[2]
  /\ WordSum(Opening) > 0
<1>1. Magic \in Seq(Byte) /\ Len(Magic) = 2
  <2>1. 78 % Radix \in Byte /\ 75 % Radix \in Byte
    BY CodecAssumption DEF Byte
  <2> QED BY <2>1 DEF Magic
<1>2. PICK v : v = little_endian(Version, 2)
  OBVIOUS
<1>3. v \in Seq(Byte) /\ Len(v) = 2
  BY <1>2, LittleEndianType DEF Version
<1>4. v[1] = 1
  <2>1. 1 \in 0 .. Radix - 1 /\ Radix \in Nat \ {0}
    BY Bases
  <2> QED BY <1>2, <2>1, LittleEndianDigits, ModBelow DEF Version
<1>5. PICK m \in Seq(Byte) : m = Magic /\ Len(m) = 2
  BY <1>1
<1>6. PICK o : o = m \o v
  OBVIOUS
<1>7. o \in Seq(Byte) /\ Len(o) = 4 /\ o[1] = m[1] /\ o[2] = m[2] /\ o[3] = v[1]
  <2>1. v \in Seq(Byte) /\ 1 \in 1 .. 2 /\ 2 \in 1 .. 2 /\ 2 + 1 = 3
    BY <1>3
  <2>2. 2 \in Nat /\ Len(m) = 2 /\ Len(v) = 2
    BY <1>3, <1>5
  <2>3. /\ o \in Seq(Byte) /\ Len(o) = 2 + 2
        /\ \A i \in 1 .. 2 : o[i] = m[i]
        /\ \A i \in 1 .. 2 : o[2 + i] = v[i]
    <3>1. /\ m \o v \in Seq(Byte) /\ Len(m \o v) = Len(m) + Len(v)
          /\ \A i \in 1 .. Len(m) : (m \o v)[i] = m[i]
          /\ \A i \in 1 .. Len(v) : (m \o v)[Len(m) + i] = v[i]
      BY <2>1, TwoParts
    <3> QED BY <1>6, <2>2, <3>1
  <2> QED BY <2>1, <2>3
<1>8. WordSum(o) >= 1 /\ WordSum(o) \in Nat
  <2>1. o \in Seq(Nat) /\ 3 \in 1 .. Len(o) /\ o[3] = 1
    BY <1>4, <1>7, ByteNat
  <2>2. WordSum(o) >= o[3]
    BY <2>1, WordSumAbove
  <2> QED BY <2>1, <2>2, WordSumType
<1> QED BY <1>2, <1>5, <1>6, <1>7, <1>8 DEF Opening

\* The fields: kind, a zero, and the sequence number.
LEMMA FieldsType ==
  ASSUME NEW p \in BytePackets
  PROVE  /\ Fields(p) \in Seq(Byte) /\ Len(Fields(p)) = 6
         /\ Fields(p)[1] = KindCode(p.kind) /\ Fields(p)[2] = 0
         /\ \A j \in 1 .. 4 : Fields(p)[2 + j] = little_endian(p.seq, 4)[j]
<1>1. PICK k : k = <<KindCode(p.kind), 0>>
  OBVIOUS
<1>2. PICK s : s = little_endian(p.seq, 4)
  OBVIOUS
<1>3. k \in Seq(Byte) /\ Len(k) = 2 /\ k[1] = KindCode(p.kind) /\ k[2] = 0
  <2>1. KindCode(p.kind) \in Byte /\ 0 \in Byte
    <3>1. p.kind \in RequestKinds \cup AckKinds
      BY DEF BytePackets
    <3> QED BY <3>1, KindOfCode, ByteNat
  <2> QED BY <1>1, <2>1
<1>4. s \in Seq(Byte) /\ Len(s) = 4
  <2>1. p.seq \in Nat
    BY PacketAssumption DEF BytePackets, SequenceNumber
  <2> QED BY <1>2, <2>1, LittleEndianType
<1>5. PICK f : f = k \o s
  OBVIOUS
<1>6. 2 \in Nat /\ 4 \in Nat
  OBVIOUS
<1>7. /\ f \in Seq(Byte) /\ Len(f) = 2 + 4
      /\ \A j \in 1 .. 2 : f[j] = k[j]
      /\ \A j \in 1 .. 4 : f[2 + j] = s[j]
  <2>1. /\ k \o s \in Seq(Byte) /\ Len(k \o s) = Len(k) + Len(s)
        /\ \A i \in 1 .. Len(k) : (k \o s)[i] = k[i]
        /\ \A i \in 1 .. Len(s) : (k \o s)[Len(k) + i] = s[i]
    BY <1>3, <1>4, TwoParts
  <2> QED BY <1>3, <1>4, <1>5, <1>6, <2>1
<1>8. f \in Seq(Byte) /\ Len(f) = 6 /\ f[1] = k[1] /\ f[2] = k[2]
  BY <1>7
<1> QED BY <1>1, <1>2, <1>3, <1>5, <1>7, <1>8 DEF Fields

\* The end: nothing, or the length in two bytes and the payload.
LEMMA EndType ==
  ASSUME NEW p \in BytePackets, NEW e, e = LengthAndPayload(p.payload)
  PROVE  /\ e \in Seq(Byte)
         /\ ~ Carried(p) => e = <<>>
         /\ Carried(p) =>
              /\ Len(p.payload) \in 1 .. WordBase - 1
              /\ Len(e) = 2 + Len(p.payload)
              /\ \A i \in 1 .. 2 : e[i] = little_endian(Len(p.payload), 2)[i]
              /\ \A i \in 1 .. Len(p.payload) : e[2 + i] = p.payload[i]
<1>1. PICK d \in Seq(Byte) : d = p.payload
  BY DEF BytePackets
<1>2. PICK l \in Nat : l = Len(d)
  OBVIOUS
<1>3. CASE ~ Carried(p)
  <2>1. e = <<>>
    BY <1>3 DEF LengthAndPayload, Carried
  <2> QED BY <1>3, <2>1
<1>4. CASE Carried(p)
  <2>1. l \in 1 .. WordBase - 1
    BY <1>1, <1>2, <1>4 DEF Carried
  <2>2. PICK w : w = little_endian(l, 2)
    OBVIOUS
  <2>3. w \in Seq(Byte) /\ Len(w) = 2
    BY <2>2, LittleEndianType
  <2>4. e = w \o d
    BY <1>1, <1>2, <2>1, <2>2 DEF LengthAndPayload
  <2>5. 2 \in Nat
    OBVIOUS
  <2>6. /\ e \in Seq(Byte) /\ Len(e) = 2 + l
        /\ \A i \in 1 .. 2 : e[i] = w[i]
        /\ \A i \in 1 .. l : e[2 + i] = d[i]
    <3>1. /\ w \o d \in Seq(Byte) /\ Len(w \o d) = Len(w) + Len(d)
          /\ \A i \in 1 .. Len(w) : (w \o d)[i] = w[i]
          /\ \A i \in 1 .. Len(d) : (w \o d)[Len(w) + i] = d[i]
      BY <2>3, TwoParts
    <3> QED BY <1>2, <2>3, <2>4, <2>5, <3>1
  <2> QED BY <1>1, <1>2, <1>4, <2>1, <2>2, <2>6
<1> QED BY <1>3, <1>4

\* A packet is a header of 12 bytes and the end; the sum of its words is a
\* multiple of WordBase - 1.
LEMMA ToBytesLayout ==
  ASSUME NEW p \in BytePackets
  PROVE  \E h \in Seq(Byte) :
           /\ Len(h) = 12 /\ WordSum(h) > 0
           /\ to_bytes(p) = h \o LengthAndPayload(p.payload)
           /\ h[1] = Magic[1] /\ h[2] = Magic[2]
           /\ h[7] = KindCode(p.kind) /\ h[8] = 0
           /\ \A j \in 1 .. 4 : h[8 + j] = little_endian(p.seq, 4)[j]
           /\ WordSum(to_bytes(p)) > 0
           /\ WordSum(to_bytes(p)) % (WordBase - 1) = 0
<1>1. PICK o \in Seq(Byte) : /\ o = Opening /\ Len(o) = 4 /\ WordSum(o) > 0
                             /\ o[1] = Magic[1] /\ o[2] = Magic[2]
  BY OpeningType
<1>2. PICK f \in Seq(Byte) : /\ f = Fields(p) /\ Len(f) = 6
                             /\ f[1] = KindCode(p.kind) /\ f[2] = 0
                             /\ \A j \in 1 .. 4 : f[2 + j] = little_endian(p.seq, 4)[j]
  BY FieldsType
<1>3. PICK e \in Seq(Byte) : e = LengthAndPayload(p.payload)
  BY EndType
<1> DEFINE Number(c) == little_endian(c, 2)
           Header(c) == (o \o Number(c)) \o f
           Bytes(c) == Header(c) \o e
<1>4. ASSUME NEW c \in 0 .. WordBase - 1
      PROVE  /\ Header(c) \in Seq(Byte) /\ Len(Header(c)) = 12
             /\ \A i \in 1 .. 4 : Header(c)[i] = o[i]
             /\ \A i \in 1 .. 6 : Header(c)[6 + i] = f[i]
             /\ Bytes(c) \in Seq(Nat)
             /\ WordSum(Header(c)) = WordSum(o) + c + WordSum(f)
             /\ WordSum(Bytes(c)) = WordSum(o) + c + WordSum(f) + WordSum(e)
  <2>1. c \in Nat
    BY Bases
  <2>2. PICK n \in Seq(Byte) : n = Number(c) /\ Len(n) = 2
    BY <2>1, LittleEndianType
  <2>3. PICK a \in Seq(Byte) : a = o \o n /\ Len(a) = 6 /\ \A i \in 1 .. 4 : a[i] = o[i]
    <3>1. /\ o \o n \in Seq(Byte) /\ Len(o \o n) = Len(o) + Len(n)
          /\ \A i \in 1 .. Len(o) : (o \o n)[i] = o[i]
      BY TwoParts
    <3>2. Len(o) + Len(n) = 6
      <4>1. 4 + 2 = 6
        OBVIOUS
      <4>2. Len(o) = 4 /\ Len(n) = 2
        BY <1>1, <2>2, Zenon
      <4> QED BY <4>1, <4>2, Zenon
    <3> QED BY <1>1, <3>1, <3>2
  <2>4. PICK h \in Seq(Byte) : /\ h = a \o f /\ Len(h) = 12
                               /\ \A i \in 1 .. 4 : h[i] = o[i]
                               /\ \A i \in 1 .. 6 : h[6 + i] = f[i]
    <3>1. /\ a \o f \in Seq(Byte) /\ Len(a \o f) = Len(a) + Len(f)
          /\ \A i \in 1 .. Len(a) : (a \o f)[i] = a[i]
          /\ \A i \in 1 .. Len(f) : (a \o f)[Len(a) + i] = f[i]
      BY TwoParts
    <3>2. Len(a) + Len(f) = 12 /\ \A i \in 1 .. 4 : i \in 1 .. Len(a)
      BY <1>2, <2>3
    <3>3. /\ \A i \in 1 .. 4 : (a \o f)[i] = o[i]
          /\ \A i \in 1 .. 6 : (a \o f)[6 + i] = f[i]
      <4>1. Len(a) = 6 /\ Len(f) = 6 /\ \A i \in 1 .. 4 : a[i] = o[i]
        BY <1>2, <2>3, Zenon
      <4> QED BY <3>1, <3>2, <4>1, Zenon
    <3>4. Len(a \o f) = 12
      BY <3>1, <3>2, Zenon
    <3> QED BY <3>1, <3>3, <3>4, Zenon
  <2>5. h = Header(c) /\ h \o e = Bytes(c)
    BY <2>2, <2>3, <2>4
  <2>6. o \in Seq(Nat) /\ n \in Seq(Nat) /\ a \in Seq(Nat) /\ f \in Seq(Nat) /\ h \in Seq(Nat) /\ e \in Seq(Nat)
    BY ByteNat
  <2>7. h \o e \in Seq(Nat)
    BY <2>6, ConcatProperties
  <2>8. Len(o) % 2 = 0 /\ Len(a) % 2 = 0 /\ Len(h) % 2 = 0
    BY <1>1, <2>3, <2>4
  <2>9. WordSum(o \o n) = WordSum(o) + WordSum(n)
    BY <2>6, <2>8, WordSumConcat
  <2>10. WordSum(a \o f) = WordSum(a) + WordSum(f)
    BY <2>6, <2>8, WordSumConcat
  <2>11. WordSum(h \o e) = WordSum(h) + WordSum(e)
    BY <2>6, <2>8, WordSumConcat
  <2>12. WordSum(n) = c
    <3>1. WordSum(n) = Word(n, 1)
      BY <2>2, <2>6, WordSumPair
    <3>2. n[1] = little_endian(c, 2)[1] /\ n[1 + 1] = little_endian(c, 2)[2]
      BY <2>2
    <3> QED BY <3>1, <3>2, WordOfBytes
  <2> QED BY <2>3, <2>4, <2>5, <2>7, <2>9, <2>10, <2>11, <2>12
<1>5. to_bytes(p) = Bytes(calc_checksum(Bytes(0)))
  <2>1. ASSUME NEW c \in 0 .. WordBase - 1
        PROVE  Magic \o little_endian(Version, 2) \o little_endian(c, 2)
                 \o <<KindCode(p.kind), 0>> \o little_endian(p.seq, 4)
                 \o LengthAndPayload(p.payload) = Bytes(c)
    <3>1. PICK a \in Seq(Byte) : a = o \o Number(c)
      <4>1. c \in Nat
        BY Bases
      <4>2. Number(c) \in Seq(Byte)
        BY <4>1, LittleEndianType
      <4> HIDE DEF Number
      <4> QED BY <4>2, TwoParts
    <3>2. PICK k : k = <<KindCode(p.kind), 0>>
      OBVIOUS
    <3>3. k \in Seq(Byte)
      <4>1. p.kind \in RequestKinds \cup AckKinds
        BY DEF BytePackets
      <4>2. KindCode(p.kind) \in Byte /\ 0 \in Byte
        <5>1. KindCode(p.kind) \in 0 .. 10 /\ 0 \in 0 .. 10
          BY <4>1, KindOfCode
        <5> QED BY <5>1, ByteNat, Zenon
      <4> QED BY <3>2, <4>2
    <3>4. PICK s : s = little_endian(p.seq, 4)
      OBVIOUS
    <3>5. s \in Seq(Byte)
      <4>1. p.seq \in Nat
        BY PacketAssumption DEF BytePackets, SequenceNumber
      <4> QED BY <3>4, <4>1, LittleEndianType
    <3>6. (a \o k) \o s = a \o (k \o s)
      BY <3>3, <3>5, Regroup
    <3>7. f = k \o s
      BY <1>2, <3>2, <3>4 DEF Fields
    <3>8. Bytes(c) = (a \o (k \o s)) \o e
      BY <3>1, <3>7
    <3>9. o = Magic \o little_endian(Version, 2)
      BY <1>1 DEF Opening
    <3>10. Magic \o little_endian(Version, 2) \o little_endian(c, 2)
                 \o <<KindCode(p.kind), 0>> \o little_endian(p.seq, 4)
                 \o LengthAndPayload(p.payload) = ((a \o k) \o s) \o e
      BY <1>3, <3>1, <3>2, <3>4, <3>9
    <3> QED BY <3>6, <3>8, <3>10
  <2>2. 0 \in 0 .. WordBase - 1 /\ calc_checksum(Bytes(0)) \in 0 .. WordBase - 1
    <3>1. 0 \in 0 .. WordBase - 1
      BY Bases
    <3>2. Bytes(0) \in Seq(Nat)
      BY <1>4, <3>1
    <3> HIDE DEF Bytes
    <3> QED BY <3>1, <3>2, ChecksumZero
  <2> HIDE DEF Bytes
  <2> QED BY <2>1, <2>2, Zenon DEF to_bytes
<1> HIDE DEF Number, Header, Bytes
<1>6. PICK z \in Nat : /\ z > 0
                       /\ \A c \in 0 .. WordBase - 1 : WordSum(Bytes(c)) = z + c
  <2>1. PICK x, y, w \in Nat : x = WordSum(o) /\ y = WordSum(f) /\ w = WordSum(e)
    BY ByteNat, WordSumType
  <2>2. x + y + w \in Nat /\ x + y + w > 0
    BY <1>1, <2>1
  <2>3. \A c \in 0 .. WordBase - 1 : WordSum(Bytes(c)) = x + c + y + w
    BY <1>4, <2>1
  <2>4. \A c \in 0 .. WordBase - 1 : x + c + y + w = (x + y + w) + c
    BY Bases
  <2>5. \A c \in 0 .. WordBase - 1 : WordSum(Bytes(c)) = (x + y + w) + c
    BY <2>3, <2>4
  <2> QED BY <2>2, <2>5
<1>7. PICK c \in 0 .. WordBase - 1 : /\ c = calc_checksum(Bytes(0))
                                     /\ (z + c) % (WordBase - 1) = 0
  <2>1. 0 \in 0 .. WordBase - 1
    BY Bases
  <2>2. Bytes(0) \in Seq(Nat)
    BY <1>4, <2>1
  <2>3. WordSum(Bytes(0)) = z
    BY <1>6, <2>1
  <2> QED BY <1>6, <2>2, <2>3, ChecksumZero
<1>8. to_bytes(p) = Bytes(c) /\ Bytes(c) = Header(c) \o e
  BY <1>5, <1>7 DEF Bytes
<1>9. WordSum(to_bytes(p)) > 0 /\ WordSum(to_bytes(p)) % (WordBase - 1) = 0
  <2>1. WordSum(to_bytes(p)) = z + c
    BY <1>6, <1>8
  <2>2. z + c > 0
    BY <1>6, Bases
  <2> QED BY <1>7, <2>1, <2>2
<1>10. PICK h \in Seq(Byte) : /\ h = Header(c) /\ Len(h) = 12
                              /\ WordSum(h) = WordSum(o) + c + WordSum(f)
                              /\ \A i \in 1 .. 4 : h[i] = o[i]
                              /\ \A i \in 1 .. 6 : h[6 + i] = f[i]
  BY <1>4
<1>11. /\ h[1] = Magic[1] /\ h[2] = Magic[2]
       /\ h[7] = KindCode(p.kind) /\ h[8] = 0
  <2>1. h[1] = o[1] /\ h[2] = o[2]
    BY <1>10
  <2>2. h[6 + 1] = f[1] /\ h[6 + 2] = f[2]
    BY <1>10
  <2>3. 6 + 1 = 7 /\ 6 + 2 = 8
    OBVIOUS
  <2> QED BY <1>1, <1>2, <2>1, <2>2, <2>3
<1>12. \A j \in 1 .. 4 : h[8 + j] = little_endian(p.seq, 4)[j]
  <2>1. \A j \in 1 .. 4 : 2 + j \in 1 .. 6 /\ 6 + (2 + j) = 8 + j
    OBVIOUS
  <2>2. \A j \in 1 .. 4 : h[6 + (2 + j)] = f[2 + j]
    BY <1>10, <2>1
  <2> QED BY <1>2, <2>1, <2>2
<1>13. WordSum(h) > 0
  <2>1. PICK x, y \in Nat : x = WordSum(o) /\ y = WordSum(f)
    BY ByteNat, WordSumType
  <2>2. x > 0
    BY <1>1, <2>1, Zenon
  <2>3. x + c + y > 0
    BY <2>2
  <2>4. WordSum(h) = x + c + y
    BY <1>10, <2>1, Zenon
  <2> QED BY <2>3, <2>4
<1> QED BY <1>3, <1>8, <1>9, <1>10, <1>11, <1>12, <1>13


\* The same, byte by byte; l is the length of the payload.
Layout(p, b, l) ==
  /\ b \in Seq(Byte) /\ l \in Nat
  /\ ~ Carried(p) => Len(b) = 12
  /\ b[1] = Magic[1] /\ b[2] = Magic[2]
  /\ b[7] = KindCode(p.kind) /\ b[8] = 0
  /\ \A j \in 1 .. 4 : b[8 + j] = little_endian(p.seq, 4)[j]
  /\ Carried(p) =>
       /\ l \in 1 .. WordBase - 1
       /\ Len(b) = 14 + l
       /\ b[13] = little_endian(l, 2)[1]
       /\ b[14] = little_endian(l, 2)[2]
       /\ \A i \in 1 .. l : b[14 + i] = p.payload[i]
  /\ WordSum(b) > 0 /\ WordSum(b) % (WordBase - 1) = 0

LEMMA PacketBytes ==
  ASSUME NEW p \in BytePackets, NEW b, b = to_bytes(p), NEW l, l = Len(p.payload)
  PROVE  Layout(p, b, l)
<1>1. PICK h \in Seq(Byte) :
        /\ Len(h) = 12
        /\ b = h \o LengthAndPayload(p.payload)
        /\ h[1] = Magic[1] /\ h[2] = Magic[2]
        /\ h[7] = KindCode(p.kind) /\ h[8] = 0
        /\ \A j \in 1 .. 4 : h[8 + j] = little_endian(p.seq, 4)[j]
        /\ WordSum(b) > 0
        /\ WordSum(b) % (WordBase - 1) = 0
  BY ToBytesLayout
<1>2. PICK e : e = LengthAndPayload(p.payload)
  OBVIOUS
<1>3. /\ e \in Seq(Byte)
      /\ ~ Carried(p) => e = <<>>
      /\ Carried(p) =>
           /\ l \in 1 .. WordBase - 1
           /\ Len(e) = 2 + l
           /\ \A i \in 1 .. 2 : e[i] = little_endian(l, 2)[i]
           /\ \A i \in 1 .. l : e[2 + i] = p.payload[i]
  BY <1>2, EndType
<1>4. /\ b \in Seq(Byte) /\ Len(b) = 12 + Len(e)
      /\ \A i \in 1 .. 12 : b[i] = h[i]
      /\ \A i \in 1 .. Len(e) : b[12 + i] = e[i]
  <2>1. /\ h \o e \in Seq(Byte) /\ Len(h \o e) = Len(h) + Len(e)
        /\ \A i \in 1 .. Len(h) : (h \o e)[i] = h[i]
        /\ \A i \in 1 .. Len(e) : (h \o e)[Len(h) + i] = e[i]
    BY <1>3, TwoParts
  <2>2. b = h \o e /\ Len(h) = 12
    BY <1>1, <1>2, Zenon
  <2> QED BY <2>1, <2>2, Zenon
<1>5. l \in Nat
  <2>1. PICK d \in Seq(Byte) : d = p.payload
    BY DEF BytePackets
  <2> QED BY <2>1, LenProperties
<1>6. /\ b[1] = Magic[1] /\ b[2] = Magic[2] /\ b[7] = KindCode(p.kind) /\ b[8] = 0
  <2>1. 1 \in 1 .. 12 /\ 2 \in 1 .. 12 /\ 7 \in 1 .. 12 /\ 8 \in 1 .. 12
    OBVIOUS
  <2>2. b[1] = h[1] /\ b[2] = h[2] /\ b[7] = h[7] /\ b[8] = h[8]
    BY <1>4, <2>1, Zenon
  <2> QED BY <1>1, <2>2, Zenon
<1>7. \A j \in 1 .. 4 : b[8 + j] = little_endian(p.seq, 4)[j]
  <2>1. \A j \in 1 .. 4 : 8 + j \in 1 .. 12
    OBVIOUS
  <2> QED BY <1>1, <1>4, <2>1, Zenon
<1>8. ~ Carried(p) => Len(b) = 12
  <2>1. ~ Carried(p) => Len(e) = 0
    BY <1>3
  <2> QED BY <1>4, <2>1
<1>9. ASSUME Carried(p)
      PROVE  /\ l \in 1 .. WordBase - 1
             /\ Len(b) = 14 + l
             /\ b[13] = little_endian(l, 2)[1]
             /\ b[14] = little_endian(l, 2)[2]
             /\ \A i \in 1 .. l : b[14 + i] = p.payload[i]
  <2>1. PICK w : w = little_endian(l, 2)
    OBVIOUS
  <2>2. /\ l \in 1 .. WordBase - 1
        /\ Len(e) = 2 + l
        /\ \A i \in 1 .. 2 : e[i] = w[i]
        /\ \A i \in 1 .. l : e[2 + i] = p.payload[i]
    BY <1>3, <1>9, <2>1, Zenon
  <2>3. /\ 1 \in 1 .. 2 + l /\ 2 \in 1 .. 2 + l /\ 1 \in 1 .. 2 /\ 2 \in 1 .. 2
        /\ \A i \in 1 .. l : 2 + i \in 1 .. 2 + l
    BY <1>5
  <2>4. /\ 12 + 1 = 13 /\ 12 + 2 = 14 /\ 12 + (2 + l) = 14 + l
        /\ \A i \in 1 .. l : 12 + (2 + i) = 14 + i
    BY <1>5
  <2>5. b[12 + 1] = w[1] /\ b[12 + 2] = w[2]
    BY <1>4, <2>2, <2>3, Zenon
  <2>6. \A i \in 1 .. l : b[12 + (2 + i)] = p.payload[i]
    BY <1>4, <2>2, <2>3, Zenon
  <2>7. \A i \in 1 .. l : b[14 + i] = p.payload[i]
    BY <2>4, <2>6
  <2>8. b[13] = w[1] /\ b[14] = w[2]
    BY <2>4, <2>5
  <2>9. Len(b) = 14 + l
    BY <1>4, <2>2, <2>4
  <2> QED BY <2>1, <2>2, <2>7, <2>8, <2>9
<1> QED BY <1>1, <1>4, <1>5, <1>6, <1>7, <1>8, <1>9, Zenon DEF Layout


-----------------------------------------------------------------------------
(* What the parser makes of a packet, and of a damaged one.                *)

\* The beginning of a sequence of bytes.
LEMMA Prefix ==
  ASSUME NEW s \in Seq(Byte), NEW n \in Nat, n <= Len(s)
  PROVE  /\ SubSeq(s, 1, n) \in Seq(Byte)
         /\ Len(SubSeq(s, 1, n)) = n
         /\ \A i \in 1 .. n : SubSeq(s, 1, n)[i] = s[i]
OBVIOUS

\* Sequences with the same bytes are the same.
LEMMA SameBytes ==
  ASSUME NEW x \in Seq(Byte), NEW y \in Seq(Byte), NEW n \in Nat, Len(x) = n, Len(y) = n,
         \A i \in 1 .. n : x[i] = y[i]
  PROVE  x = y
OBVIOUS

\* The comparison with the magic number.
LEMMA MagicAhead ==
  ASSUME NEW s \in Seq(Byte), Len(s) >= 2, s[1] = Magic[1], s[2] = Magic[2]
  PROVE  SubSeq(s, 1, 2) = Magic
<1>1. PICK m : m = SubSeq(s, 1, 2)
  OBVIOUS
<1>2. Len(m) = 2 /\ m[1] = s[1] /\ m[2] = s[2] /\ m \in Seq(Byte)
  BY <1>1, Prefix
<1>3. m = <<m[1], m[2]>>
  BY <1>2
<1>4. Magic = <<Magic[1], Magic[2]>>
  BY DEF Magic
<1> QED BY <1>1, <1>2, <1>3, <1>4

\* The bytes of a packet, as the parser reads them.
LEMMA Readable ==
  ASSUME NEW p \in BytePackets, NEW b, b = to_bytes(p)
  PROVE  /\ calc_checksum(b) = 0
         /\ ~TooShort(b)
         /\ SubSeq(b, 1, 2) = Magic
         /\ Carried(p) => PayloadSize(b) = Len(p.payload)
<1>1. PICK l : l = Len(p.payload)
  OBVIOUS
<1>2. /\ b \in Seq(Byte) /\ l \in Nat
      /\ ~ Carried(p) => Len(b) = 12
      /\ b[1] = Magic[1] /\ b[2] = Magic[2]
      /\ Carried(p) =>
           /\ l \in 1 .. WordBase - 1
           /\ Len(b) = 14 + l
           /\ b[13] = little_endian(l, 2)[1]
           /\ b[14] = little_endian(l, 2)[2]
      /\ WordSum(b) > 0 /\ WordSum(b) % (WordBase - 1) = 0
  <2>1. Layout(p, b, l)
    BY <1>1, PacketBytes
  <2> QED BY <2>1 DEF Layout
<1>3. calc_checksum(b) = 0
  <2>1. b \in Seq(Nat)
    BY <1>2, ByteNat
  <2> QED BY <1>2, <2>1, ChecksumZero
<1>4. Carried(p) => PayloadSize(b) = l
  <2>1. ASSUME Carried(p)
        PROVE  PayloadSize(b) = l
    <3>1. l \in 0 .. WordBase - 1 /\ 13 + 1 = 14
      BY <1>2, <2>1
    <3>2. b[13] = little_endian(l, 2)[1] /\ b[13 + 1] = little_endian(l, 2)[2]
      BY <1>2, <2>1, <3>1
    <3> QED BY <3>1, <3>2, WordOfBytes DEF PayloadSize
  <2> QED BY <2>1
<1>5. ~TooShort(b)
  <2>1. CASE ~ Carried(p)
    <3>1. Len(b) = 12
      BY <1>2, <2>1, Zenon
    <3> QED BY <3>1 DEF TooShort
  <2>2. CASE Carried(p)
    <3>1. Len(b) = 14 + PayloadSize(b) /\ PayloadSize(b) \in Nat /\ PayloadSize(b) # 0
      BY <1>2, <1>4, <2>2
    <3> HIDE DEF PayloadSize
    <3> QED BY <3>1 DEF TooShort
  <2> QED BY <2>1, <2>2
<1>6. SubSeq(b, 1, 2) = Magic
  <2>1. Len(b) >= 2
    BY <1>2
  <2> QED BY <1>2, <2>1, MagicAhead
<1> QED BY <1>1, <1>3, <1>4, <1>5, <1>6

\* What the parser makes of the bytes of a packet.
LEMMA Parse ==
  ASSUME NEW p \in BytePackets
  PROVE  from_bytes(to_bytes(p)) =
           Packet(p.kind, p.seq, IF Carried(p) THEN p.payload ELSE <<>>)
<1>1. PICK b, l : b = to_bytes(p) /\ l = Len(p.payload)
  OBVIOUS
<1>2. /\ calc_checksum(b) = 0
      /\ ~TooShort(b)
      /\ SubSeq(b, 1, 2) = Magic
      /\ Carried(p) => PayloadSize(b) = l
  BY <1>1, Readable
<1>3. /\ b \in Seq(Byte) /\ l \in Nat
      /\ ~ Carried(p) => Len(b) = 12
      /\ b[7] = KindCode(p.kind) /\ b[8] = 0
      /\ \A j \in 1 .. 4 : b[8 + j] = little_endian(p.seq, 4)[j]
      /\ Carried(p) => /\ l \in 1 .. WordBase - 1
                       /\ Len(b) = 14 + l
                       /\ \A i \in 1 .. l : b[14 + i] = p.payload[i]
  <2>1. Layout(p, b, l)
    BY <1>1, PacketBytes
  <2> QED BY <2>1 DEF Layout
<1>4. KindOf(b[7]) = p.kind
  <2>1. p.kind \in RequestKinds \cup AckKinds
    BY DEF BytePackets
  <2> QED BY <1>3, <2>1, KindOfCode
<1>5. DoubleWord(b, 9) = p.seq
  <2>1. p.seq \in SequenceNumber
    BY DEF BytePackets
  <2>2. \A j \in 1 .. 4 : 9 + (j - 1) = 8 + j
    OBVIOUS
  <2>3. \A j \in 1 .. 4 : b[9 + (j - 1)] = little_endian(p.seq, 4)[j]
    BY <1>3, <2>2
  <2> QED BY <2>1, <2>3, DoubleWordOfBytes
<1>6. from_bytes(b) = Packet(p.kind, p.seq, IF Len(b) = 12 THEN <<>>
                                            ELSE SubSeq(b, 15, 14 + PayloadSize(b)))
  BY <1>2, <1>3, <1>4, <1>5, Zenon DEF from_bytes
<1>7. CASE ~ Carried(p)
  BY <1>1, <1>3, <1>6, <1>7, Zenon
<1>8. CASE Carried(p)
  <2>1. PICK d \in Seq(Byte) : d = p.payload
    BY DEF BytePackets
  <2>2. PICK s : s = SubSeq(b, 15, 14 + l)
    OBVIOUS
  <2>3. /\ s \in Seq(Byte) /\ Len(s) = l
        /\ \A i \in 1 .. l : s[i] = b[14 + i]
    <3>1. 14 + l <= Len(b) /\ 15 <= 14 + l
      BY <1>3, <1>8
    <3>2. /\ s \in Seq(Byte) /\ Len(s) = ((14 + l) - 15) + 1
          /\ \A i \in 1 .. Len(s) : s[i] = b[(15 + i) - 1]
      BY <1>3, <2>2, <3>1
    <3>3. \A i \in 1 .. l : (15 + i) - 1 = 14 + i
      BY <1>3
    <3>4. ((14 + l) - 15) + 1 = l
      BY <1>3
    <3> QED BY <3>2, <3>3, <3>4
  <2>4. s = d
    <3>1. Len(d) = l /\ \A i \in 1 .. l : s[i] = d[i]
      BY <1>1, <1>3, <1>8, <2>1, <2>3
    <3> QED BY <1>3, <2>3, <3>1, SameBytes
  <2>5. Len(b) # 12
    <3>1. Len(b) = 14 + l /\ l \in Nat
      BY <1>3, <1>8, Zenon
    <3> QED BY <3>1
  <2> QED BY <1>1, <1>2, <1>6, <1>8, <2>1, <2>2, <2>4, <2>5, Zenon
<1> QED BY <1>7, <1>8

\* A packet survives the conversion to bytes and back, if its payload fits
\* into the length field: "it can be converted to a vector of bytes and vice
\* versa" (Packet::to_bytes, Packet::from_bytes).
THEOREM RoundTrip ==
  ASSUME NEW p \in BytePackets, Len(p.payload) < WordBase
  PROVE  from_bytes(to_bytes(p)) = p
<1>1. p = Packet(p.kind, p.seq, p.payload)
  BY DEF BytePackets, Packet
<1>2. PICK d \in Seq(Byte) : d = p.payload
  BY DEF BytePackets
<1>3. ~ Carried(p) => d = <<>>
  <2>1. Len(d) \in Nat /\ Len(d) < WordBase /\ WordBase \in Nat
    BY <1>2, Bases, LenProperties
  <2>2. ~ Carried(p) => Len(d) = 0
    BY <1>2, <2>1 DEF Carried
  <2> QED BY <2>2, EmptySeq
<1>4. from_bytes(to_bytes(p)) = Packet(p.kind, p.seq, IF Carried(p) THEN d ELSE <<>>)
  BY <1>2, Parse
<1> QED BY <1>1, <1>2, <1>3, <1>4, Zenon

\* A sum that differs by less than the modulus is no multiple of it as well.
LEMMA NearbyMultiple ==
  ASSUME NEW d \in Nat \ {0}, NEW s \in Nat, NEW t \in Nat, NEW x \in 0 .. d - 1, NEW y \in 0 .. d - 1,
         x # y, t + x = s + y, s % d = 0
  PROVE  t % d # 0
<1> SUFFICES ASSUME t % d = 0
             PROVE  FALSE
  OBVIOUS
<1>1. PICK q \in Nat, a \in 0 .. d - 1 : s = d * q + a /\ q = s \div d /\ a = s % d
  BY DivMod
<1>2. PICK r \in Nat, b \in 0 .. d - 1 : t = d * r + b /\ r = t \div d /\ b = t % d
  BY DivMod
<1>3. d * r + x = d * q + y
  BY <1>1, <1>2
<1>4. (d * r + x) % d = x /\ (d * q + y) % d = y
  BY DivUnique
<1> QED BY <1>3, <1>4

\* The part of a byte in the sum is less than WordBase - 1, and another byte
\* has another part.
LEMMA PartBelow ==
  ASSUME NEW a, NEW b, NEW i \in Nat, a[i] \in Byte, b[i] \in Byte, a[i] # b[i]
  PROVE  /\ Part(a, i) \in 0 .. (WordBase - 1) - 1
         /\ Part(b, i) \in 0 .. (WordBase - 1) - 1
         /\ Part(a, i) # Part(b, i)
<1>1. PICK R \in Nat : R = Radix /\ R > 10
  BY Bases
<1>2. PICK x, y \in 0 .. R - 1 : x = a[i] /\ y = b[i] /\ x # y
  BY <1>1 DEF Byte
<1>3. PICK B \in Nat : B = R * R /\ B = WordBase /\ B > 100
  BY <1>1, Bases
<1>4. R * (R - 1) = B - R
  BY <1>3
<1>5. PICK u, v \in Nat : u = R * x /\ v = R * y
  BY <1>1
<1>6. u <= B - R /\ v <= B - R
  <2>1. R * x <= R * (R - 1) /\ R * y <= R * (R - 1)
    BY <1>1, TimesMonotonic
  <2> QED BY <1>4, <1>5, <2>1
<1>7. u # v
  <2>1. CASE x < y
    <3>1. R * (x + 1) <= R * y
      BY <2>1, TimesMonotonic
    <3>2. R * (x + 1) = u + R
      BY <1>5
    <3> QED BY <1>1, <1>5, <3>1, <3>2
  <2>2. CASE y < x
    <3>1. R * (y + 1) <= R * x
      BY <2>2, TimesMonotonic
    <3>2. R * (y + 1) = v + R
      BY <1>5
    <3> QED BY <1>1, <1>5, <3>1, <3>2
  <2> QED BY <1>2, <2>1, <2>2
<1>8. R <= B
  <2>1. R * 1 <= R * R
    BY <1>1, TimesMonotonic
  <2> QED BY <1>3, <2>1
<1>9. CASE i % 2 = 1
  <2>1. Part(a, i) = x /\ Part(b, i) = y
    BY <1>2, <1>9 DEF Part
  <2>2. R <= B - R
    <3>1. R * 1 <= R * (R - 1)
      BY <1>1, TimesMonotonic
    <3> QED BY <1>4, <3>1
  <2> QED BY <1>1, <1>2, <1>3, <2>1, <2>2
<1>10. CASE i % 2 # 1
  <2>1. Part(a, i) = u /\ Part(b, i) = v
    BY <1>1, <1>2, <1>5, <1>10 DEF Part
  <2> QED BY <1>1, <1>3, <1>6, <1>7, <2>1
<1> QED BY <1>9, <1>10

\* One changed byte: the checksum sees it, and the parser rejects the
\* datagram (Packet::from_bytes returns std::nullopt).
THEOREM ChangedByteRejected ==
  ASSUME NEW p \in BytePackets, NEW b, b = to_bytes(p), NEW j \in DOMAIN b, NEW v \in Byte, v # b[j]
  PROVE  from_bytes([b EXCEPT ![j] = v]) = Rejected
<1>1. b \in Seq(Byte) /\ WordSum(b) > 0 /\ WordSum(b) % (WordBase - 1) = 0
  <2>1. Layout(p, b, Len(p.payload))
    BY PacketBytes
  <2> QED BY <2>1 DEF Layout
<1>2. PICK L \in Nat : L = Len(b) /\ j \in 1 .. L
  BY <1>1
<1>3. PICK o : o = [b EXCEPT ![j] = v]
  OBVIOUS
<1>4. /\ o \in Seq(Byte) /\ Len(o) = L /\ o[j] = v
      /\ \A i \in (1 .. L) \ {j} : o[i] = b[i]
  BY <1>1, <1>2, <1>3
<1>5. b \in Seq(Nat) /\ o \in Seq(Nat)
  BY <1>1, <1>4, ByteNat
<1>6. \A i \in (1 .. L) \ {j} : Part(o, i) = Part(b, i)
  BY <1>4 DEF Part
<1>7. PICK x, y : x = Part(b, j) /\ y = Part(o, j)
  OBVIOUS
<1>8. PICK s, t \in Nat : s = WordSum(b) /\ t = WordSum(o)
  BY <1>5, WordSumType
<1>9. t + x = s + y
  BY <1>2, <1>4, <1>5, <1>6, <1>7, <1>8, WordSumChange
<1>10. PICK d \in Nat \ {0} : d = WordBase - 1
  BY Bases
<1>11. x \in 0 .. d - 1 /\ y \in 0 .. d - 1 /\ x # y
  <2>1. b[j] \in Byte /\ o[j] \in Byte /\ b[j] # o[j] /\ j \in Nat
    BY <1>1, <1>2, <1>4
  <2> QED BY <1>7, <1>10, <2>1, PartBelow
<1>12. t % d # 0
  BY <1>1, <1>8, <1>9, <1>10, <1>11, NearbyMultiple
<1>13. calc_checksum(o) # 0
  BY <1>5, <1>8, <1>10, <1>12, ChecksumZero
<1> QED BY <1>3, <1>13 DEF from_bytes


\* If a sum is a multiple of d, both terms are or none is.
LEMMA BothMultiples ==
  ASSUME NEW d \in Nat \ {0}, NEW s \in Nat, NEW t \in Nat, (s + t) % d = 0
  PROVE  s % d = 0 <=> t % d = 0
<1>1. PICK q \in Nat, a \in 0 .. d - 1 : s = d * q + a /\ a = s % d
  BY DivMod
<1>2. PICK r \in Nat, b \in 0 .. d - 1 : t = d * r + b /\ b = t % d
  BY DivMod
<1>3. PICK x, y \in Nat : x = d * q /\ y = d * r
  OBVIOUS
<1>4. d * (q + r) = x + y
  BY <1>3
<1>5. s = x + a /\ t = y + b
  BY <1>1, <1>2, <1>3, Zenon
<1>6. CASE a = 0
  <2>1. s + t = d * (q + r) + b
    BY <1>4, <1>5, <1>6
  <2>2. (d * (q + r) + b) % d = b
    BY DivUnique
  <2> QED BY <1>1, <1>2, <1>6, <2>1, <2>2
<1>7. CASE b = 0
  <2>1. s + t = d * (q + r) + a
    BY <1>4, <1>5, <1>7
  <2>2. (d * (q + r) + a) % d = a
    BY DivUnique
  <2> QED BY <1>1, <1>2, <1>7, <2>1, <2>2
<1> QED BY <1>1, <1>2, <1>6, <1>7

\* A datagram cut off after its header: it is accepted if the sum of the end
\* is a multiple of WordBase - 1, as the sum of the whole is.
LEMMA HeaderAlone ==
  ASSUME NEW p \in BytePackets, NEW h, h = SubSeq(to_bytes(p), 1, 12)
  PROVE  calc_checksum(h) = 0 <=> WordSum(LengthAndPayload(p.payload)) % (WordBase - 1) = 0
<1>1. PICK g \in Seq(Byte) :
        /\ Len(g) = 12 /\ WordSum(g) > 0
        /\ to_bytes(p) = g \o LengthAndPayload(p.payload)
        /\ WordSum(to_bytes(p)) % (WordBase - 1) = 0
  BY ToBytesLayout
<1>2. PICK e \in Seq(Byte) : e = LengthAndPayload(p.payload)
  BY EndType
<1>3. h = g
  <2>1. PICK b : b = g \o e
    OBVIOUS
  <2>2. /\ b \in Seq(Byte) /\ Len(b) >= 12
        /\ \A i \in 1 .. 12 : b[i] = g[i]
    <3>1. /\ g \o e \in Seq(Byte) /\ Len(g \o e) = Len(g) + Len(e)
          /\ \A i \in 1 .. Len(g) : (g \o e)[i] = g[i]
      BY TwoParts
    <3>2. 12 + Len(e) >= 12
      BY LenProperties
    <3> QED BY <1>1, <2>1, <3>1, <3>2
  <2>3. h = SubSeq(b, 1, 12)
    BY <1>1, <1>2, <2>1
  <2>4. /\ h \in Seq(Byte) /\ Len(h) = 12
        /\ \A i \in 1 .. 12 : h[i] = b[i]
    <3>1. PICK n \in Nat : n = 12
      OBVIOUS
    <3>2. b \in Seq(Byte) /\ n <= Len(b)
      BY <2>2, <3>1, LenProperties
    <3>3. /\ SubSeq(b, 1, n) \in Seq(Byte) /\ Len(SubSeq(b, 1, n)) = n
          /\ \A i \in 1 .. n : SubSeq(b, 1, n)[i] = b[i]
      BY <3>2, Prefix
    <3> QED BY <2>3, <3>1, <3>3, Zenon
  <2>5. \A i \in 1 .. 12 : h[i] = g[i]
    BY <2>2, <2>4, Zenon
  <2>6. 12 \in Nat /\ Len(g) = 12
    BY <1>1
  <2> QED BY <2>4, <2>5, <2>6, SameBytes
<1>4. g \in Seq(Nat) /\ e \in Seq(Nat)
  BY ByteNat
<1>5. PICK s, t \in Nat : s = WordSum(g) /\ t = WordSum(e)
  BY <1>4, WordSumType
<1>6. WordSum(to_bytes(p)) = s + t
  <2>1. Len(g) % 2 = 0
    BY <1>1
  <2> QED BY <1>1, <1>2, <1>4, <1>5, <2>1, WordSumConcat
<1>7. PICK d \in Nat \ {0} : d = WordBase - 1
  BY Bases
<1>8. (s + t) % d = 0
  BY <1>1, <1>6, <1>7
<1>9. s % d = 0 <=> t % d = 0
  BY <1>8, BothMultiples
<1>10. calc_checksum(g) = 0 <=> s > 0 /\ s % d = 0
  BY <1>4, <1>5, <1>7, ChecksumZero
<1>11. s > 0
  BY <1>1, <1>5
<1> QED BY <1>2, <1>3, <1>5, <1>7, <1>9, <1>10, <1>11

\* A missing end: the parser rejects every cut, except the one just after
\* the header when the end of the packet adds up to a multiple of
\* WordBase - 1; that one it takes for a packet without a payload
\* (Packet::from_bytes).
THEOREM CutEndRejected ==
  ASSUME NEW p \in BytePackets, NEW b, b = to_bytes(p), NEW n \in 1 .. Len(b) - 1
  PROVE  from_bytes(SubSeq(b, 1, n)) =
           IF n = 12 /\ WordSum(LengthAndPayload(p.payload)) % (WordBase - 1) = 0
             THEN Packet(p.kind, p.seq, <<>>)
             ELSE Rejected
<1>1. PICK l : l = Len(p.payload)
  OBVIOUS
<1>2. Layout(p, b, l)
  BY <1>1, PacketBytes
<1>3. /\ b \in Seq(Byte) /\ l \in Nat
      /\ ~ Carried(p) => Len(b) = 12
      /\ Carried(p) => Len(b) = 14 + l
  BY <1>2 DEF Layout
<1>4. PICK L \in Nat : L = Len(b) /\ n < L
  BY <1>3
<1>5. PICK c : c = SubSeq(b, 1, n)
  OBVIOUS
<1>6. /\ c \in Seq(Byte) /\ Len(c) = n
      /\ \A i \in 1 .. n : c[i] = b[i]
  <2>1. n \in Nat /\ n <= Len(b)
    BY <1>4
  <2> QED BY <1>3, <1>5, <2>1, Prefix
<1>7. CASE n # 12
  <2>1. TooShort(c)
    <3>1. CASE n < 12 \/ n = 13
      BY <1>6, <3>1 DEF TooShort
    <3>2. CASE n > 13
      <4>1. Carried(p)
        BY <1>3, <1>4, <3>2
      <4>2. PayloadSize(b) = l
        BY <1>1, <4>1, Readable
      <4>3. c[13] = b[13] /\ c[13 + 1] = b[13 + 1]
        BY <1>6, <3>2
      <4>4. PayloadSize(c) = l
        BY <4>2, <4>3 DEF PayloadSize, Word
      <4>5. Len(c) > 13 /\ Len(c) < 14 + l
        <5>1. L = 14 + l
          BY <1>3, <1>4, <4>1, Zenon
        <5> QED BY <1>3, <1>4, <1>6, <3>2, <5>1
      <4> QED BY <4>4, <4>5 DEF TooShort
    <3>3. n < 12 \/ n = 13 \/ n > 13
      BY <1>7
    <3> QED BY <3>1, <3>2, <3>3
  <2> QED BY <1>5, <1>7, <2>1 DEF from_bytes
<1>8. CASE n = 12
  <2>1. calc_checksum(c) = 0 <=> WordSum(LengthAndPayload(p.payload)) % (WordBase - 1) = 0
    BY <1>5, <1>8, HeaderAlone
  <2>2. CASE WordSum(LengthAndPayload(p.payload)) % (WordBase - 1) = 0
    <3>1. calc_checksum(c) = 0 /\ Len(c) = 12 /\ ~TooShort(c)
      BY <1>6, <1>8, <2>1, <2>2 DEF TooShort
    <3>2. SubSeq(c, 1, 2) = Magic
      <4>1. c[1] = b[1] /\ c[2] = b[2]
        BY <1>6, <1>8
      <4>2. b[1] = Magic[1] /\ b[2] = Magic[2]
        BY <1>2 DEF Layout
      <4>3. Len(c) >= 2
        BY <1>6, <1>8
      <4> QED BY <1>6, <4>1, <4>2, <4>3, MagicAhead
    <3>3. c[8] = 0 /\ KindOf(c[7]) = p.kind
      <4>1. c[8] = b[8] /\ c[7] = b[7]
        BY <1>6, <1>8
      <4>2. b[8] = 0 /\ b[7] = KindCode(p.kind)
        BY <1>2 DEF Layout
      <4>3. p.kind \in RequestKinds \cup AckKinds
        BY DEF BytePackets
      <4> QED BY <4>1, <4>2, <4>3, KindOfCode
    <3>4. DoubleWord(c, 9) = p.seq
      <4>1. p.seq \in SequenceNumber
        BY DEF BytePackets
      <4>2. \A j \in 1 .. 4 : b[8 + j] = little_endian(p.seq, 4)[j]
        BY <1>2 DEF Layout
      <4>3. \A j \in 1 .. 4 : 9 + (j - 1) = 8 + j /\ 8 + j \in 1 .. 12
        OBVIOUS
      <4>4. \A j \in 1 .. 4 : c[9 + (j - 1)] = little_endian(p.seq, 4)[j]
        BY <1>6, <1>8, <4>2, <4>3
      <4> QED BY <4>1, <4>4, DoubleWordOfBytes
    <3> QED BY <1>5, <1>8, <2>2, <3>1, <3>2, <3>3, <3>4, Zenon DEF from_bytes
  <2>3. CASE WordSum(LengthAndPayload(p.payload)) % (WordBase - 1) # 0
    BY <1>5, <1>8, <2>1, <2>3, Zenon DEF from_bytes
  <2> QED BY <2>2, <2>3
<1> QED BY <1>7, <1>8

-----------------------------------------------------------------------------
(* The width of the sum.                                                   *)

\* Two bytes add less than a word can hold more.
LEMMA PartsBound ==
  ASSUME NEW b \in Byte
  PROVE  b <= Radix - 1 /\ Radix * b + (Radix - 1) <= WordBase - 1
<1>1. Radix * b <= Radix * (Radix - 1)
  BY Bases, TimesMonotonic DEF Byte
<1>2. Radix * (Radix - 1) = Radix * Radix - Radix
  BY Bases
<1> QED BY <1>1, <1>2, Bases DEF Byte

\* The sum of the words of so many bytes.
LEMMA WordSumBelow ==
  ASSUME NEW bytes \in Seq(Byte)
  PROVE  2 * WordSum(bytes) <= (Len(bytes) + 1) * (WordBase - 1)
<1>1. PICK L \in Nat : L = Len(bytes)
  OBVIOUS
<1>2. bytes \in Seq(Nat)
  BY Bases DEF Byte
<1>3. PICK g : Sums(bytes, g) /\ WordSum(bytes) = g[L]
  BY <1>1, <1>2, WordSumSums
<1>4. PICK w \in Nat : w = WordBase - 1
  BY Bases
<1>5. PICK r \in Nat : r = Radix - 1
  BY Bases
<1>6. 2 * r <= w
  <2>1. Radix * 2 <= Radix * Radix
    BY Bases, TimesMonotonic
  <2> QED BY <1>4, <1>5, <2>1, Bases
<1> DEFINE P(n) == n <= L => /\ n % 2 = 0 => 2 * g[n] <= n * w
                             /\ n % 2 = 1 => 2 * g[n] <= (n - 1) * w + 2 * r
           S == {n \in Nat : P(n)}
<1>7. P(0)
  <2>1. g[0] = 0
    BY <1>3 DEF Sums, SumsUpto
  <2> QED BY <2>1
<1>8. ASSUME NEW n \in Nat, P(n) PROVE P(n + 1)
  <2> SUFFICES ASSUME n + 1 <= L
               PROVE  /\ (n + 1) % 2 = 0 => 2 * g[n + 1] <= (n + 1) * w
                      /\ (n + 1) % 2 = 1 => 2 * g[n + 1] <= n * w + 2 * r
    BY <1>4
  <2>1. g[n + 1] = g[n] + Part(bytes, n + 1) /\ g[n] \in Nat
    BY <1>1, <1>2, <1>3, SumsStep
  <2>2. PICK x \in Nat : x = g[n]
    BY <2>1
  <2>3. PICK b \in Byte : b = bytes[n + 1]
    BY <1>1, ElementOfSeq
  <2>4. b \in Nat /\ b <= r
    BY <1>5, <2>3, PartsBound, Bases DEF Byte
  <2>5. PICK a \in Nat : a = n * w
    BY <1>4
  <2>6. (n + 1) * w = a + w /\ (n - 1) * w = a - w
    BY <1>4, <2>5
  <2>7. n <= L
    BY <1>1
  <2>8. CASE n % 2 = 0
    <3>1. (n + 1) % 2 = 1 /\ (n + 1) % 2 # 0
      BY <2>8
    <3>2. g[n + 1] = x + b
      BY <2>1, <2>2, <2>3, <3>1 DEF Part
    <3>3. 2 * x <= a
      BY <1>8, <2>2, <2>5, <2>7, <2>8
    <3>4. 2 * (x + b) <= a + 2 * r
      BY <2>4, <3>3
    <3> QED BY <2>5, <3>1, <3>2, <3>4
  <2>9. CASE n % 2 = 1
    <3>1. (n + 1) % 2 = 0 /\ (n + 1) % 2 # 1
      BY <2>9
    <3>2. PICK c \in Nat : c = Radix * b
      BY <2>4, Bases
    <3>3. g[n + 1] = x + c
      BY <2>1, <2>2, <2>3, <3>1, <3>2 DEF Part
    <3>4. 2 * x <= a - w + 2 * r
      BY <1>8, <2>2, <2>6, <2>7, <2>9
    <3>5. c + r <= w
      BY <1>4, <1>5, <2>3, <3>2, PartsBound
    <3>6. 2 * (x + c) <= a + w
      BY <3>4, <3>5
    <3> QED BY <2>6, <3>1, <3>3, <3>6
  <2> QED BY <2>8, <2>9
<1> HIDE DEF P
<1>9. S \in SUBSET Nat /\ 0 \in S /\ \A n \in S : n + 1 \in S
  BY <1>7, <1>8
<1> HIDE DEF S
<1>10. S = Nat
  BY <1>9, Inductive
<1>11. P(L)
  BY <1>1, <1>10 DEF S
<1>12. PICK a \in Nat : a = L * w
  BY <1>1, <1>4
<1>13. (L + 1) * w = a + w /\ (L - 1) * w = a - w
  BY <1>1, <1>4, <1>12
<1>14. PICK x \in Nat : x = g[L]
  BY <1>2, <1>3, WordSumType
<1>15. 2 * x <= a + w
  <2>1. L % 2 \in {0, 1}
    BY <1>1
  <2>2. (L % 2 = 0 => 2 * x <= a) /\ (L % 2 = 1 => 2 * x <= a - w + 2 * r)
    BY <1>11, <1>12, <1>13, <1>14, <1>1 DEF P
  <2> QED BY <1>6, <2>1, <2>2
<1> QED BY <1>1, <1>3, <1>4, <1>13, <1>14, <1>15

\* The sum of calc_checksum is a uint32_t, twice as wide as a word: it does
\* not overflow for a datagram as long as a packet can be, whatever the bytes.
THEOREM SumFits ==
  ASSUME NEW bytes \in Seq(Byte), Len(bytes) < 14 + WordBase
  PROVE  WordSum(bytes) < WordBase * WordBase
<1>1. PICK L \in Nat : L = Len(bytes)
  OBVIOUS
<1>2. PICK x \in Nat : x = WordSum(bytes)
  <2>1. bytes \in Seq(Nat)
    BY Bases DEF Byte
  <2> QED BY <2>1, WordSumType
<1>3. 2 * x <= (L + 1) * (WordBase - 1)
  BY <1>1, <1>2, WordSumBelow
<1>4. (WordBase - 1) * (L + 1) <= (WordBase - 1) * (14 + WordBase)
  BY <1>1, Bases, TimesMonotonic
<1>5. (WordBase - 1) * (14 + WordBase) = WordBase * WordBase + 13 * WordBase - 14
  BY Bases
<1>6. WordBase * 13 <= WordBase * WordBase
  BY Bases, TimesMonotonic
<1>7. (L + 1) * (WordBase - 1) = (WordBase - 1) * (L + 1)
  BY <1>1, Bases
<1>8. PICK s \in Nat : s = WordBase * WordBase
  BY Bases
<1> QED BY <1>2, <1>3, <1>4, <1>5, <1>6, <1>7, <1>8, Bases
=============================================================================
