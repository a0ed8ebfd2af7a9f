-------------------------- MODULE CoverageDiff_proofs --------------------------
(***************************************************************************)
(* Theorems about the comparison of two sets of prefixes, as CoverageDiff  *)
(* runs it, for words and addresses of any width and any finite sets of    *)
(* prefixes: the 128-bit arithmetic is that of numbers as long as nothing  *)
(* wraps, and the loops never let it wrap.                                 *)
(***************************************************************************)
EXTENDS CoverageDiff, FiniteSetTheorems, SequenceTheorems, NaturalsInduction,
        TLAPS

\* The widths, as numbers.
LEMMA Widths ==
  /\ WordBits \in Nat /\ V4 \in Nat /\ V6 \in Nat
  /\ 0 < V4 /\ V4 <= WordBits /\ WordBits < V6 /\ V6 = WordBits + WordBits
  /\ Families = {V4, V6}
BY WidthAssumption DEF WidthAssumption, V6, Families

\* Numbers that are not none have a least one.
LEMMA Least ==
  ASSUME NEW T, T \subseteq Nat, T # {}
  PROVE  \E x \in T : \A y \in T : x <= y
<1>1. IsWellFoundedOn(OpToRel(<, Nat), Nat)
  BY NatLessThanWellFounded
<1>2. PICK x \in T : \A y \in T : ~(<<y, x>> \in OpToRel(<, Nat))
  BY <1>1, WFMin
<1>3. \A y \in T : ~(y < x)
  BY <1>2 DEF OpToRel
<1> QED BY <1>3

\* The recursive function Pow2 is defined for every width.
LEMMA Pow2Exists ==
  ASSUME NEW n \in Nat
  PROVE  \E f : f = [k \in 0 .. n |-> IF k = 0 THEN 1 ELSE 2 * f[k - 1]]
<1> DEFINE Has(m) == \E f : f = [k \in 0 .. m |-> IF k = 0 THEN 1 ELSE 2 * f[k - 1]]
           T == {m \in Nat : ~Has(m)}
<1> SUFFICES ASSUME T # {} PROVE FALSE
  OBVIOUS
<1>1. PICK m \in T : \A y \in T : m <= y
  BY Least, T \subseteq Nat
<1>2. m # 0
  <2> DEFINE f == [k \in 0 .. 0 |-> 1]
  <2>1. f = [k \in 0 .. 0 |-> IF k = 0 THEN 1 ELSE 2 * f[k - 1]]
    OBVIOUS
  <2>2. Has(0)
    BY <2>1
  <2> QED BY <1>1, <2>2
<1>3. m \in Nat /\ m - 1 \in Nat /\ Has(m - 1)
  <2>1. m \in Nat /\ m - 1 \in Nat /\ ~(m <= m - 1)
    BY <1>1, <1>2
  <2>2. m - 1 \notin T
    BY <1>1, <2>1
  <2> QED BY <2>1, <2>2
<1>4. PICK f : f = [k \in 0 .. m - 1 |-> IF k = 0 THEN 1 ELSE 2 * f[k - 1]]
  BY <1>3
<1> DEFINE g == [k \in 0 .. m |-> IF k = m THEN 2 * f[m - 1] ELSE f[k]]
<1>5. ASSUME NEW k \in 0 .. m PROVE g[k] = (IF k = 0 THEN 1 ELSE 2 * g[k - 1])
  <2>1. CASE k = m
    BY <2>1, <1>2, <1>3
  <2>2. CASE k # m /\ k = 0
    BY <2>2, <1>4, <1>3
  <2>3. CASE k # m /\ k # 0
    <3>1. k \in 0 .. m - 1 /\ k - 1 \in 0 .. m /\ k - 1 # m
      BY <2>3, <1>3
    <3> QED BY <2>3, <3>1, <1>4
  <2> QED BY <2>1, <2>2, <2>3
<1>6. g = [k \in 0 .. m |-> IF k = 0 THEN 1 ELSE 2 * g[k - 1]]
  BY <1>5
<1> HIDE DEF g
<1>7. Has(m)
  BY <1>6
<1> QED BY <1>1, <1>7

LEMMA Pow2Step ==
  /\ Pow2[0] = 1
  /\ \A k \in 0 .. V6 : k # 0 => Pow2[k] = 2 * Pow2[k - 1]
<1>1. \E f : f = [k \in 0 .. V6 |-> IF k = 0 THEN 1 ELSE 2 * f[k - 1]]
  BY Pow2Exists, Widths
<1>2. Pow2 = [k \in 0 .. V6 |-> IF k = 0 THEN 1 ELSE 2 * Pow2[k - 1]]
  BY <1>1 DEF Pow2
<1> HIDE DEF Pow2
<1>3. 0 \in 0 .. V6
  BY Widths
<1> QED BY <1>2, <1>3

LEMMA Pow2Values ==
  \A k \in 0 .. V6 : Pow2[k] \in Nat /\ Pow2[k] > 0
<1> DEFINE T == {k \in 0 .. V6 : ~(Pow2[k] \in Nat /\ Pow2[k] > 0)}
<1> SUFFICES ASSUME T # {} PROVE FALSE
  OBVIOUS
<1>1. PICK m \in T : \A y \in T : m <= y
  BY Least, Widths, T \subseteq Nat
<1>2. m # 0
  BY <1>1, Pow2Step
<1>3. m \in 0 .. V6 /\ m - 1 \in 0 .. V6 /\ ~(m <= m - 1)
  BY <1>1, <1>2, Widths
<1>4. Pow2[m - 1] \in Nat /\ Pow2[m - 1] > 0
  BY <1>1, <1>3
<1>5. Pow2[m] = 2 * Pow2[m - 1]
  BY <1>2, <1>3, Pow2Step
<1> QED BY <1>1, <1>4, <1>5

\* Powers multiply by adding their exponents.
LEMMA Pow2Sum ==
  \A a, b \in 0 .. V6 : a + b <= V6 => Pow2[a + b] = Pow2[a] * Pow2[b]
<1> SUFFICES ASSUME NEW a \in 0 .. V6
             PROVE  \A b \in 0 .. V6 : a + b <= V6 => Pow2[a + b] = Pow2[a] * Pow2[b]
  OBVIOUS
<1> DEFINE T == {b \in 0 .. V6 : a + b <= V6 /\ Pow2[a + b] # Pow2[a] * Pow2[b]}
<1> SUFFICES ASSUME T # {} PROVE FALSE
  OBVIOUS
<1>1. PICK m \in T : \A y \in T : m <= y
  BY Least, Widths, T \subseteq Nat
<1>0. Pow2[a] \in Nat
  BY Pow2Values
<1>2. m # 0
  <2>1. Pow2[a] = Pow2[a] * 1 /\ a + 0 = a
    BY <1>0, Widths
  <2> QED BY <1>1, <2>1, Pow2Step
<1>3. m \in 0 .. V6 /\ m - 1 \in 0 .. V6 /\ ~(m <= m - 1) /\ a + (m - 1) <= V6
  BY <1>1, <1>2, Widths
<1>4. Pow2[a + (m - 1)] = Pow2[a] * Pow2[m - 1]
  BY <1>1, <1>3
<1>5. Pow2[m] = 2 * Pow2[m - 1]
  BY <1>2, <1>3, Pow2Step
<1>6. Pow2[a + m] = 2 * Pow2[a + (m - 1)]
  <2>1. a + m \in 0 .. V6 /\ a + m # 0 /\ (a + m) - 1 = a + (m - 1)
    BY <1>1, <1>2, Widths
  <2> QED BY <2>1, Pow2Step
<1>7. Pow2[m - 1] \in Nat
  BY <1>3, Pow2Values
<1>8. Pow2[a + m] = Pow2[a] * Pow2[m]
  <2>1. \A x, y \in Nat : 2 * (x * y) = x * (2 * y)
    OBVIOUS
  <2> QED BY <1>0, <1>4, <1>5, <1>6, <1>7, <2>1
<1> QED BY <1>1, <1>8

\* Powers grow, and at least double.
LEMMA Pow2Less ==
  \A a, b \in 0 .. V6 : a < b => Pow2[a] < Pow2[b] /\ 2 * Pow2[a] <= Pow2[b]
<1> SUFFICES ASSUME NEW a \in 0 .. V6, NEW b \in 0 .. V6, a < b
             PROVE  Pow2[a] < Pow2[b] /\ 2 * Pow2[a] <= Pow2[b]
  OBVIOUS
<1>1. a + (b - a) = b /\ b - a \in 0 .. V6 /\ b - a # 0 /\ (b - a) - 1 \in 0 .. V6 /\ b <= V6
  BY Widths
<1>2. Pow2[b] = Pow2[a] * Pow2[b - a]
  BY <1>1, Pow2Sum
<1>3. Pow2[b - a] = 2 * Pow2[(b - a) - 1] /\ Pow2[(b - a) - 1] \in Nat
      /\ Pow2[(b - a) - 1] > 0 /\ Pow2[a] \in Nat /\ Pow2[a] > 0
  BY <1>1, Pow2Step, Pow2Values
<1>4. \A x, y \in Nat : x > 0 /\ y > 0 => x * (2 * y) >= 2 * x
  OBVIOUS
<1> QED BY <1>2, <1>3, <1>4

\* The size of a word, and of the families, in powers of two.
LEMMA WordFacts ==
  /\ Word \in Nat /\ Word > 1 /\ Word = Pow2[WordBits] /\ Pow2[V6] = Word * Word
  /\ Pow2[V4] \in Nat /\ Pow2[V4] <= Word /\ Pow2[V4] > 0
<1>1. WordBits \in 0 .. V6 /\ 0 \in 0 .. V6 /\ 0 < WordBits /\ V4 \in 0 .. V6 /\ V6 \in 0 .. V6
  BY Widths
<1>2. Word = Pow2[WordBits] /\ Word \in Nat /\ Pow2[V4] \in Nat /\ Pow2[V4] > 0
  BY <1>1, Pow2Values DEF Word
<1>3. Word > 1
  BY <1>1, Pow2Less, Pow2Step DEF Word
<1>4. Pow2[V6] = Word * Word
  BY <1>1, Widths, Pow2Sum DEF Word
<1>5. Pow2[V4] <= Word
  <2>1. CASE V4 = WordBits
    BY <2>1, <1>2
  <2>2. CASE V4 < WordBits
    BY <2>2, <1>1, <1>2, Pow2Less
  <2> QED BY <2>1, <2>2, Widths
<1> QED BY <1>2, <1>3, <1>4, <1>5

-----------------------------------------------------------------------------
(* The 128-bit arithmetic is that of the numbers it stands for *)

\* What the solver needs to be told of products.
LEMMA Products ==
  /\ \A x, y \in Nat : x * y \in Nat
  /\ \A a, b, w \in Nat : a < b => a * w + w <= b * w
  /\ \A a, b, w \in Nat : a * w + b * w = (a + b) * w
<1>1. \A a, b, w \in Nat : a < b => a * w + w <= b * w
  <2> SUFFICES ASSUME NEW a \in Nat, NEW b \in Nat, NEW w \in Nat, a < b
               PROVE  a * w + w <= b * w
    OBVIOUS
  <2>1. PICK d \in Nat : b = a + 1 + d
    <3>1. b - a - 1 \in Nat /\ b = a + 1 + (b - a - 1)
      OBVIOUS
    <3> QED BY <3>1
  <2>2. b * w = a * w + w + d * w /\ d * w \in Nat /\ a * w \in Nat
    BY <2>1
  <2> QED BY <2>2
<1> QED BY <1>1

LEMMA Cancel ==
  \A a, b, w \in Nat : w > 0 /\ a * w = b * w => a = b
<1> SUFFICES ASSUME NEW a \in Nat, NEW b \in Nat, NEW w \in Nat, w > 0, a * w = b * w
             PROVE  a = b
  OBVIOUS
<1>1. a * w \in Nat /\ b * w \in Nat
  OBVIOUS
<1>2. CASE a < b
  BY <1>1, <1>2, Products
<1>3. CASE b < a
  BY <1>1, <1>3, Products
<1> QED BY <1>2, <1>3

\* The number of a uint128, and of its words.
LEMMA NumberFacts ==
  ASSUME NEW v \in Uint128s
  PROVE  /\ v.hi \in 0 .. Word - 1 /\ v.lo \in 0 .. Word - 1
         /\ v = [hi |-> v.hi, lo |-> v.lo]
         /\ Number(v) \in 0 .. Pow2[V6] - 1
         /\ v.hi * Word \in Nat
<1>1. /\ v.hi \in 0 .. Word - 1 /\ v.lo \in 0 .. Word - 1
      /\ v = [hi |-> v.hi, lo |-> v.lo]
  BY DEF Uint128s, Words
<1>2. Word \in Nat /\ Pow2[V6] = Word * Word
  BY WordFacts
<1>3. v.hi * Word + Word <= Word * Word /\ v.hi * Word \in Nat
  BY <1>1, <1>2, Products
<1>4. Number(v) \in 0 .. Pow2[V6] - 1
  BY <1>1, <1>2, <1>3 DEF Number
<1> QED BY <1>1, <1>3, <1>4

\* uint128 values compare as their numbers do (compare.go 509-522).
LEMMA Compare ==
  ASSUME NEW a \in Uint128s, NEW b \in Uint128s
  PROVE  /\ Less(a, b) <=> Number(a) < Number(b)
         /\ AtMost(a, b) <=> Number(a) <= Number(b)
         /\ a = b <=> Number(a) = Number(b)
<1>1. \A x, y \in Uint128s : x.hi < y.hi => Number(x) < Number(y)
  <2> SUFFICES ASSUME NEW x \in Uint128s, NEW y \in Uint128s, x.hi < y.hi
               PROVE  Number(x) < Number(y)
    OBVIOUS
  <2>1. /\ x.hi \in Nat /\ y.hi \in Nat /\ x.lo \in 0 .. Word - 1 /\ y.lo \in Nat
        /\ Word \in Nat /\ x.hi * Word \in Nat /\ y.hi * Word \in Nat
    BY NumberFacts, WordFacts
  <2>2. x.hi * Word + Word <= y.hi * Word
    BY <2>1, Products
  <2> QED BY <2>1, <2>2 DEF Number
<1>2. /\ a.hi \in Nat /\ b.hi \in Nat /\ a.lo \in Nat /\ b.lo \in Nat
      /\ a = [hi |-> a.hi, lo |-> a.lo] /\ b = [hi |-> b.hi, lo |-> b.lo]
      /\ Number(a) \in Nat /\ Number(b) \in Nat /\ a.hi * Word \in Nat /\ b.hi * Word \in Nat
  BY NumberFacts, WordFacts
<1>3. CASE a.hi < b.hi
  BY <1>3, <1>1, <1>2 DEF Less, AtMost
<1>4. CASE b.hi < a.hi
  BY <1>4, <1>1, <1>2 DEF Less, AtMost
<1>5. CASE a.hi = b.hi
  <2>1. /\ (Number(a) < Number(b)) <=> (a.lo < b.lo)
        /\ (Number(a) = Number(b)) <=> (a.lo = b.lo)
    BY <1>2, <1>5 DEF Number
  <2> QED BY <1>2, <1>5, <2>1 DEF Less, AtMost
<1> QED BY <1>2, <1>3, <1>4, <1>5

\* A sum of two words, modulo a word, wraps once at most.
LEMMA Wraps ==
  /\ \A m, w \in Nat : m > 0 /\ w < m => w % m = w
  /\ \A m, w \in Nat : m > 0 /\ w >= m /\ w < m + m => w % m = w - m
OBVIOUS

LEMMA ZeroFacts == Zero \in Uint128s /\ Number(Zero) = 0
<1>1. Word \in Nat /\ Word > 1
  BY WordFacts
<1> QED BY <1>1 DEF Zero, Uint128s, Words, Number

\* The last address of a family (compare.go 539-544).
LEMMA MaxValueFacts ==
  ASSUME NEW f \in Families
  PROVE  /\ MaxValue(f) \in Uint128s /\ Number(MaxValue(f)) = Pow2[f] - 1
         /\ f \in 0 .. V6 /\ Pow2[f] \in Nat /\ Pow2[f] > 0 /\ Pow2[f] <= Pow2[V6]
<1>1. /\ Word \in Nat /\ Word > 1 /\ Pow2[V4] \in Nat /\ Pow2[V4] <= Word /\ Pow2[V4] > 0
      /\ Pow2[V6] = Word * Word
  BY WordFacts
<1>2. Word <= Word * Word /\ (Word - 1) * Word + (Word - 1) = Word * Word - 1
      /\ Word * Word \in Nat
  BY <1>1
<1>3. CASE f = V4
  BY <1>1, <1>2, <1>3, Widths DEF MaxValue, Uint128s, Words, Number
<1>4. CASE f = V6
  BY <1>1, <1>2, <1>4, Widths DEF MaxValue, Uint128s, Words, Number
<1> QED BY <1>3, <1>4, Widths

\* One more, unless it wraps (compare.go 491-497).
LEMMA IncrementFacts ==
  ASSUME NEW v \in Uint128s
  PROVE  /\ Increment(v) \in Uint128s
         /\ Number(v) < Pow2[V6] - 1 => Number(Increment(v)) = Number(v) + 1
<1>1. /\ Word \in Nat /\ Word > 1 /\ Pow2[V6] = Word * Word
  BY WordFacts
<1>2. v.hi \in 0 .. Word - 1 /\ v.lo \in 0 .. Word - 1
  BY NumberFacts
<1>3. CASE v.lo + 1 < Word
  <2>1. (v.lo + 1) % Word = v.lo + 1 /\ v.lo + 1 # 0
    BY <1>1, <1>2, <1>3, Wraps
  <2>2. Increment(v) = [hi |-> v.hi, lo |-> v.lo + 1]
    BY <2>1 DEF Increment
  <2> QED BY <1>1, <1>2, <1>3, <2>2 DEF Uint128s, Words, Number
<1>4. CASE v.lo = Word - 1
  <2>1. (v.lo + 1) % Word = 0
    BY <1>1, <1>2, <1>4, Wraps
  <2>2. Increment(v) = [hi |-> (v.hi + 1) % Word, lo |-> 0]
    BY <2>1 DEF Increment
  <2>3. CASE v.hi + 1 < Word
    <3>1. (v.hi + 1) % Word = v.hi + 1
      BY <1>1, <1>2, <2>3, Wraps
    <3>2. (v.hi + 1) * Word = v.hi * Word + Word
      BY <1>1, <1>2
    <3> QED BY <1>1, <1>2, <1>4, <2>2, <2>3, <3>1, <3>2 DEF Uint128s, Words, Number
  <2>4. CASE v.hi = Word - 1
    <3>1. (v.hi + 1) % Word = 0
      BY <1>1, <1>2, <2>4, Wraps
    <3>2. (Word - 1) * Word + (Word - 1) = Word * Word - 1
      BY <1>1
    <3> QED BY <1>1, <1>4, <2>2, <2>4, <3>1, <3>2 DEF Uint128s, Words, Number
  <2> QED BY <1>1, <1>2, <2>3, <2>4
<1> QED BY <1>1, <1>2, <1>3, <1>4

\* One less, unless it wraps (compare.go 499-507).
LEMMA DecrementFacts ==
  ASSUME NEW v \in Uint128s
  PROVE  /\ Decrement(v) \in Uint128s
         /\ Number(v) > 0 => Number(Decrement(v)) = Number(v) - 1
         /\ Number(v) = 0 => Number(Decrement(v)) = Pow2[V6] - 1
<1>1. /\ Word \in Nat /\ Word > 1 /\ Pow2[V6] = Word * Word
  BY WordFacts
<1>2. /\ v.hi \in 0 .. Word - 1 /\ v.lo \in 0 .. Word - 1
      /\ v = [hi |-> v.hi, lo |-> v.lo] /\ v.hi * Word \in Nat
  BY NumberFacts
<1>3. CASE v.lo # 0
  <2>1. Decrement(v) = [hi |-> v.hi, lo |-> v.lo - 1]
    BY <1>2, <1>3 DEF Decrement
  <2> QED BY <1>1, <1>2, <1>3, <2>1 DEF Uint128s, Words, Number
<1>4. CASE v.lo = 0 /\ v.hi # 0
  <2>1. (v.hi + Word - 1) % Word = v.hi - 1
    <3>1. v.hi + Word - 1 \in Nat /\ v.hi + Word - 1 >= Word /\ v.hi + Word - 1 < Word + Word
      BY <1>1, <1>2, <1>4
    <3>2. (v.hi + Word - 1) % Word = (v.hi + Word - 1) - Word
      BY <1>1, <3>1, Wraps
    <3> QED BY <1>1, <1>2, <3>2
  <2>2. Decrement(v) = [hi |-> v.hi - 1, lo |-> Word - 1]
    BY <2>1, <1>4 DEF Decrement
  <2>3. (v.hi - 1) * Word = v.hi * Word - Word
    BY <1>1, <1>2
  <2>4. Number(v) = v.hi * Word /\ Number(Decrement(v)) = v.hi * Word - 1
    BY <1>1, <1>2, <1>4, <2>2, <2>3 DEF Number
  <2>5. Number(v) > 0
    BY <1>1, <1>2, <1>4, <2>3, <2>4, Products
  <2>6. Decrement(v) \in Uint128s
    BY <1>1, <1>2, <1>4, <2>2 DEF Uint128s, Words
  <2> QED BY <2>4, <2>5, <2>6
<1>5. CASE v.lo = 0 /\ v.hi = 0
  <2>1. (v.hi + Word - 1) % Word = Word - 1
    BY <1>1, <1>5, Wraps
  <2>2. Decrement(v) = [hi |-> Word - 1, lo |-> Word - 1]
    BY <2>1, <1>5 DEF Decrement
  <2>3. (Word - 1) * Word + (Word - 1) = Word * Word - 1
    BY <1>1
  <2> QED BY <1>1, <1>5, <2>2, <2>3 DEF Uint128s, Words, Number
<1> QED BY <1>3, <1>4, <1>5

\* AddPowerOfTwo adds, unless the sum is all of the addresses: then it wraps.
LEMMA AddPowerOfTwoFacts ==
  ASSUME NEW v \in Uint128s, NEW e \in 0 .. V6 - 1, Number(v) + Pow2[e] <= Pow2[V6]
  PROVE  /\ AddPowerOfTwo(v, e) \in Uint128s
         /\ Number(AddPowerOfTwo(v, e)) =
              IF Number(v) + Pow2[e] < Pow2[V6] THEN Number(v) + Pow2[e] ELSE 0
<1>1. /\ Word \in Nat /\ Word > 1 /\ Pow2[V6] = Word * Word /\ Word = Pow2[WordBits]
  BY WordFacts
<1>2. /\ v.hi \in 0 .. Word - 1 /\ v.lo \in 0 .. Word - 1
      /\ v = [hi |-> v.hi, lo |-> v.lo] /\ v.hi * Word \in Nat
  BY NumberFacts
<1>3. CASE e < WordBits
  <2>1. Pow2[e] \in Nat /\ Pow2[e] > 0 /\ Pow2[e] < Word
    BY <1>1, <1>3, Widths, Pow2Values, Pow2Less
  <2>0. v.lo + Pow2[e] \in Nat /\ v.lo + Pow2[e] < Word + Word /\ Number(v) \in Nat
        /\ Pow2[V6] \in Nat
    BY <1>1, <1>2, <2>1, NumberFacts
  <2>2. CASE v.lo + Pow2[e] < Word
    <3>1. (v.lo + Pow2[e]) % Word = v.lo + Pow2[e]
      BY <1>1, <2>0, <2>2, Wraps
    <3>2. AddPowerOfTwo(v, e) = [hi |-> v.hi, lo |-> v.lo + Pow2[e]]
      BY <1>2, <1>3, <2>1, <3>1 DEF AddPowerOfTwo
    <3>3. AddPowerOfTwo(v, e) \in Uint128s
      BY <1>1, <1>2, <2>1, <2>2, <3>2 DEF Uint128s, Words
    <3>4. Number(AddPowerOfTwo(v, e)) = Number(v) + Pow2[e]
      BY <1>1, <1>2, <2>1, <3>2 DEF Number
    <3>5. Number(AddPowerOfTwo(v, e)) < Pow2[V6]
      BY <2>0, <3>3, NumberFacts
    <3> QED BY <3>3, <3>4, <3>5
  <2>3. CASE v.lo + Pow2[e] >= Word
    <3>1. (v.lo + Pow2[e]) % Word = (v.lo + Pow2[e]) - Word
      BY <1>1, <2>0, <2>3, Wraps
    <3>2. AddPowerOfTwo(v, e) = [hi |-> (v.hi + 1) % Word, lo |-> (v.lo + Pow2[e]) - Word]
      BY <1>1, <1>2, <1>3, <2>1, <3>1 DEF AddPowerOfTwo
    <3>3. (v.lo + Pow2[e]) - Word \in 0 .. Word - 1
      BY <1>1, <1>2, <2>1, <2>3
    <3>4. CASE v.hi + 1 < Word
      <4>1. (v.hi + 1) % Word = v.hi + 1
        BY <1>1, <1>2, <3>4, v.hi + 1 \in Nat, Wraps
      <4>2. (v.hi + 1) * Word = v.hi * Word + Word
        BY <1>1, <1>2
      <4>3. AddPowerOfTwo(v, e) \in Uint128s
        BY <1>1, <1>2, <3>2, <3>3, <3>4, <4>1 DEF Uint128s, Words
      <4>4. Number(AddPowerOfTwo(v, e)) = Number(v) + Pow2[e]
        BY <1>1, <1>2, <2>1, <3>2, <4>1, <4>2 DEF Number
      <4>5. Number(AddPowerOfTwo(v, e)) < Pow2[V6]
        BY <2>0, <4>3, NumberFacts
      <4> QED BY <4>3, <4>4, <4>5
    <3>5. CASE v.hi = Word - 1
      <4>1. (v.hi + 1) % Word = 0
        BY <1>1, <1>2, <3>5, Wraps
      <4>2. (Word - 1) * Word = Word * Word - Word /\ Word * Word \in Nat
        BY <1>1
      <4>3. Number(v) = Word * Word - Word + v.lo
        BY <1>1, <1>2, <3>5, <4>2 DEF Number
      <4>4. v.lo + Pow2[e] = Word /\ Number(v) + Pow2[e] = Word * Word
        BY <1>1, <1>2, <2>1, <2>3, <4>2, <4>3
      <4>5. AddPowerOfTwo(v, e) = Zero
        BY <1>1, <1>2, <2>1, <3>2, <4>1, <4>4 DEF Zero
      <4> QED BY <1>1, <4>2, <4>4, <4>5, ZeroFacts
    <3> QED BY <1>1, <1>2, <3>4, <3>5
  <2> QED BY <1>1, <1>2, <2>1, <2>2, <2>3
<1>4. CASE e >= WordBits
  <2> DEFINE d == e - WordBits
  <2>1. d \in 0 .. V6 /\ d < WordBits /\ WordBits \in 0 .. V6 /\ WordBits + d = e /\ e <= V6
    BY <1>4, Widths
  <2>2. Pow2[d] \in Nat /\ Pow2[d] > 0 /\ Pow2[d] < Word /\ Pow2[e] = Word * Pow2[d]
    BY <1>1, <2>1, Pow2Values, Pow2Less, Pow2Sum
  <2>3. AddPowerOfTwo(v, e) = [hi |-> (v.hi + Pow2[d]) % Word, lo |-> v.lo]
    BY <1>2, <1>4, Widths DEF AddPowerOfTwo
  <2> HIDE DEF d
  <2>4. Number(v) + Pow2[e] = (v.hi + Pow2[d]) * Word + v.lo
    BY <1>1, <1>2, <2>2 DEF Number
  <2>0. v.hi + Pow2[d] \in Nat /\ Pow2[V6] \in Nat /\ (v.hi + Pow2[d]) * Word \in Nat
    BY <1>1, <1>2, <2>2
  <2>5. CASE v.hi + Pow2[d] < Word
    <3>1. (v.hi + Pow2[d]) % Word = v.hi + Pow2[d]
      BY <1>1, <2>0, <2>5, Wraps
    <3>2. AddPowerOfTwo(v, e) \in Uint128s
      BY <1>1, <1>2, <2>2, <2>3, <2>5, <3>1 DEF Uint128s, Words
    <3>3. Number(AddPowerOfTwo(v, e)) = Number(v) + Pow2[e]
      BY <1>1, <1>2, <2>2, <2>3, <2>4, <3>1 DEF Number
    <3>4. Number(AddPowerOfTwo(v, e)) < Pow2[V6]
      BY <2>0, <3>2, NumberFacts
    <3> QED BY <3>2, <3>3, <3>4
  <2>6. CASE v.hi + Pow2[d] >= Word
    <3>1. (v.hi + Pow2[d]) * Word >= Word * Word /\ (v.hi + Pow2[d]) * Word \in Nat
          /\ Word * Word \in Nat
      <4>1. CASE v.hi + Pow2[d] = Word
        BY <4>1, <1>1
      <4>2. CASE v.hi + Pow2[d] > Word
        <5>1. Word * Word + Word <= (v.hi + Pow2[d]) * Word
          BY <4>2, <1>1, <2>0, Products
        <5> QED BY <5>1, <1>1, <2>0
      <4> QED BY <1>1, <1>2, <2>2, <2>6, <4>1, <4>2
    <3>2. v.lo = 0 /\ (v.hi + Pow2[d]) * Word = Word * Word
      BY <1>1, <1>2, <2>4, <3>1
    <3>3. v.hi + Pow2[d] = Word
      BY <1>1, <2>0, <3>2, Cancel
    <3>4. (v.hi + Pow2[d]) % Word = 0
      BY <1>1, <3>3, Word \in Nat /\ Word < Word + Word, Wraps
    <3>5. AddPowerOfTwo(v, e) = Zero
      BY <2>3, <3>2, <3>4 DEF Zero
    <3>6. Number(v) + Pow2[e] = Pow2[V6]
      BY <1>1, <2>4, <3>1, <3>2
    <3> QED BY <2>0, <3>5, <3>6, ZeroFacts
  <2> QED BY <1>1, <1>2, <2>2, <2>5, <2>6
<1> QED BY <1>3, <1>4, Widths

-----------------------------------------------------------------------------
(* Blocks *)

Aligned(n, k) == \E q \in Nat : n = q * Pow2[k]

\* What is aligned to a block is aligned to a smaller one.
LEMMA AlignedLess ==
  ASSUME NEW n \in Nat, NEW j \in 0 .. V6, NEW k \in 0 .. V6, j <= k, Aligned(n, k)
  PROVE  Aligned(n, j)
<1>1. PICK q \in Nat : n = q * Pow2[k]
  BY DEF Aligned
<1>2. k - j \in 0 .. V6 /\ j + (k - j) = k /\ k <= V6
  BY Widths
<1>3. Pow2[k] = Pow2[j] * Pow2[k - j] /\ Pow2[j] \in Nat /\ Pow2[k - j] \in Nat
  BY <1>2, Pow2Sum, Pow2Values
<1>4. q * Pow2[k - j] \in Nat /\ n = (q * Pow2[k - j]) * Pow2[j]
  BY <1>1, <1>3
<1> QED BY <1>4 DEF Aligned

\* A word is divisible by a power of two exactly when it is aligned.
LEMMA ModAligned ==
  ASSUME NEW w \in Nat, NEW k \in 0 .. V6
  PROVE  w % Pow2[k] = 0 <=> Aligned(w, k)
<1>1. \A x, m \in Nat : m > 0 /\ x % m = 0 => \E q \in Nat : x = q * m
  OBVIOUS
<1>2. \A q, m \in Nat : m > 0 => (q * m) % m = 0
  OBVIOUS
<1>3. Pow2[k] \in Nat /\ Pow2[k] > 0
  BY Pow2Values
<1> QED BY <1>1, <1>2, <1>3 DEF Aligned

\* The greatest of some numbers up to a bound.
LEMMA Greatest ==
  ASSUME NEW n \in Nat, NEW S \in SUBSET (0 .. n), 0 \in S
  PROVE  Max(S) \in S /\ \A k \in S : k <= Max(S)
<1> DEFINE T == {n - k : k \in S}
<1>1. T \subseteq Nat /\ T # {}
  OBVIOUS
<1>2. PICK x \in T : \A y \in T : x <= y
  BY <1>1, Least
<1>3. PICK m \in S : x = n - m
  BY <1>2
<1>4. \A k \in S : m >= k
  <2> SUFFICES ASSUME NEW k \in S PROVE m >= k
    OBVIOUS
  <2>1. n - k \in T
    OBVIOUS
  <2> QED BY <1>2, <1>3, <2>1
<1>5. Max(S) \in S /\ \A k \in S : Max(S) >= k
  BY <1>3, <1>4 DEF Max
<1> QED BY <1>5

\* The trailing zeros of a word.
Zeros(w) == Max({k \in 0 .. WordBits : w % Pow2[k] = 0})

\* The trailing zeros of a word that is not zero.
LEMMA ZerosFacts ==
  ASSUME NEW w \in 0 .. Word - 1, w # 0
  PROVE  /\ Zeros(w) \in 0 .. WordBits - 1
         /\ \A k \in 0 .. WordBits : k <= Zeros(w) <=> Aligned(w, k)
<1> DEFINE S == {k \in 0 .. WordBits : w % Pow2[k] = 0}
<1>1. Word \in Nat /\ Word > 1 /\ Word = Pow2[WordBits] /\ w \in Nat
  BY WordFacts
<1>2. \A k \in 0 .. WordBits : k \in 0 .. V6
  BY Widths
<1>3. \A k \in 0 .. WordBits : k \in S <=> Aligned(w, k)
  BY <1>1, <1>2, ModAligned
<1>4. 0 \in S
  <2>1. 0 \in 0 .. WordBits
    BY Widths
  <2>2. w = w * Pow2[0]
    BY <1>1, Pow2Step
  <2> QED BY <1>1, <1>3, <2>1, <2>2 DEF Aligned
<1> HIDE DEF S
<1>5. S \in SUBSET (0 .. WordBits)
  BY DEF S
<1>6. Max(S) \in S /\ \A k \in S : k <= Max(S)
  BY <1>4, <1>5, Widths, Greatest
<1>7. Zeros(w) = Max(S)
  BY DEF Zeros, S
<1>8. WordBits \notin S
  <2> SUFFICES ASSUME WordBits \in S PROVE FALSE
    OBVIOUS
  <2>1. WordBits \in 0 .. WordBits
    BY Widths
  <2>2. PICK q \in Nat : w = q * Word
    BY <1>1, <1>3, <2>1 DEF Aligned
  <2>3. q # 0
    BY <2>2, <1>1
  <2>4. \A x, y \in Nat : x # 0 => x * y >= y
    OBVIOUS
  <2> QED BY <1>1, <2>2, <2>3, <2>4
<1>9. Zeros(w) \in 0 .. WordBits - 1
  <2>1. Zeros(w) \in S
    BY <1>6, <1>7
  <2>2. Zeros(w) \in 0 .. WordBits /\ Zeros(w) # WordBits
    BY <1>5, <1>8, <2>1
  <2> QED BY <2>2, Widths
<1>10. ASSUME NEW k \in 0 .. WordBits PROVE k <= Zeros(w) <=> Aligned(w, k)
  <2>1. ASSUME Aligned(w, k) PROVE k <= Zeros(w)
    BY <2>1, <1>3, <1>6, <1>7
  <2>2. ASSUME k <= Zeros(w) PROVE Aligned(w, k)
    <3>1. Zeros(w) \in S /\ Zeros(w) \in 0 .. WordBits
      BY <1>5, <1>6, <1>7
    <3>2. Aligned(w, Zeros(w))
      BY <1>3, <3>1
    <3> QED BY <1>1, <1>2, <2>2, <3>1, <3>2, AlignedLess
  <2> QED BY <2>1, <2>2
<1> QED BY <1>9, <1>10

LEMMA TrailingZerosIs ==
  ASSUME NEW v
  PROVE  TrailingZeros(v) = IF v.lo # 0 THEN Zeros(v.lo)
                            ELSE IF v.hi # 0 THEN WordBits + Zeros(v.hi) ELSE V6
BY DEF TrailingZeros, Zeros, V6

\* The trailing zeros say at which blocks an address is the first.
LEMMA TrailingZerosFacts ==
  ASSUME NEW v \in Uint128s
  PROVE  /\ TrailingZeros(v) \in 0 .. V6
         /\ \A k \in 0 .. V6 : k <= TrailingZeros(v) <=> Aligned(Number(v), k)
<1>1. /\ Word \in Nat /\ Word > 1 /\ Pow2[V6] = Word * Word /\ Word = Pow2[WordBits]
  BY WordFacts
<1>2. /\ v.hi \in 0 .. Word - 1 /\ v.lo \in 0 .. Word - 1 /\ v.hi * Word \in Nat
      /\ Number(v) \in Nat /\ WordBits \in 0 .. V6
  BY NumberFacts, Widths
<1>3. CASE v.lo # 0
  <2>1. TrailingZeros(v) = Zeros(v.lo)
    BY <1>3, TrailingZerosIs
  <2>2. /\ Zeros(v.lo) \in 0 .. WordBits - 1
        /\ \A k \in 0 .. WordBits : k <= Zeros(v.lo) <=> Aligned(v.lo, k)
    BY <1>2, <1>3, ZerosFacts
  <2>3. ASSUME NEW k \in 0 .. WordBits PROVE Aligned(v.lo, k) <=> Aligned(Number(v), k)
    <3>1. k \in 0 .. V6 /\ WordBits - k \in 0 .. V6 /\ (WordBits - k) + k = WordBits
      BY Widths
    <3>2. Pow2[k] \in Nat /\ Pow2[k] > 0 /\ Pow2[WordBits - k] \in Nat
          /\ Word = Pow2[WordBits - k] * Pow2[k]
      BY <1>1, <3>1, Pow2Values, Pow2Sum, Widths
    <3> DEFINE h == v.hi * Pow2[WordBits - k]
    <3>3. h \in Nat /\ v.hi * Word = h * Pow2[k]
      BY <1>2, <3>2
    <3> HIDE DEF h
    <3>4. ASSUME Aligned(v.lo, k) PROVE Aligned(Number(v), k)
      <4>1. PICK q \in Nat : v.lo = q * Pow2[k]
        BY <3>4 DEF Aligned
      <4>2. Number(v) = (h + q) * Pow2[k]
        BY <3>2, <3>3, <4>1 DEF Number
      <4> QED BY <3>3, <4>2 DEF Aligned
    <3>5. ASSUME Aligned(Number(v), k) PROVE Aligned(v.lo, k)
      <4>1. PICK q \in Nat : Number(v) = q * Pow2[k]
        BY <3>5 DEF Aligned
      <4>2. h * Pow2[k] + v.lo = q * Pow2[k]
        BY <3>3, <4>1 DEF Number
      <4>3. h <= q
        <5>1. CASE q < h
          <6>1. q * Pow2[k] + Pow2[k] <= h * Pow2[k]
            BY <5>1, <3>2, <3>3, Products
          <6> QED BY <6>1, <4>2, <1>2, <3>2, <3>3
        <5> QED BY <5>1, <3>3
      <4>4. v.lo = (q - h) * Pow2[k] /\ q - h \in Nat
        <5>1. q - h \in Nat /\ (q - h) + h = q
          BY <3>3, <4>3
        <5>2. (q - h) * Pow2[k] + h * Pow2[k] = q * Pow2[k]
          BY <3>2, <3>3, <5>1, Products
        <5>3. (q - h) * Pow2[k] \in Nat /\ h * Pow2[k] \in Nat
          BY <3>2, <3>3, <5>1, Products
        <5> QED BY <1>2, <4>2, <5>1, <5>2, <5>3
      <4> QED BY <4>4 DEF Aligned
    <3> QED BY <3>4, <3>5
  <2>4. ASSUME NEW k \in 0 .. V6, k > WordBits, Aligned(Number(v), k) PROVE FALSE
    <3>1. Aligned(Number(v), WordBits)
      BY <1>2, <2>4, AlignedLess, Widths
    <3>2. Aligned(v.lo, WordBits) /\ WordBits \in 0 .. WordBits
      BY <2>3, <3>1, Widths
    <3>3. WordBits <= Zeros(v.lo)
      BY <2>2, <3>2
    <3> QED BY <2>2, <3>3, Widths
  <2>5. Zeros(v.lo) \in 0 .. V6 /\ Zeros(v.lo) < WordBits
    BY <2>2, Widths
  <2>6. ASSUME NEW k \in 0 .. V6 PROVE k <= TrailingZeros(v) <=> Aligned(Number(v), k)
    <3>1. CASE k <= WordBits
      <4>1. k \in 0 .. WordBits
        BY <3>1, Widths
      <4> QED BY <2>1, <2>2, <2>3, <4>1
    <3>2. CASE k > WordBits
      <4>1. ~(k <= Zeros(v.lo))
        BY <3>2, <2>5, Widths
      <4> QED BY <2>1, <2>4, <3>2, <4>1
    <3> QED BY <3>1, <3>2, Widths
  <2> QED BY <2>1, <2>5, <2>6
<1>4. CASE v.lo = 0 /\ v.hi # 0
  <2>1. TrailingZeros(v) = WordBits + Zeros(v.hi) /\ Number(v) = v.hi * Word
    BY <1>2, <1>4, TrailingZerosIs DEF Number
  <2>2. /\ Zeros(v.hi) \in 0 .. WordBits - 1
        /\ \A k \in 0 .. WordBits : k <= Zeros(v.hi) <=> Aligned(v.hi, k)
    BY <1>2, <1>4, ZerosFacts
  <2>3. WordBits + Zeros(v.hi) \in 0 .. V6
    BY <2>2, Widths
  <2>4. ASSUME NEW k \in 0 .. V6 PROVE k <= TrailingZeros(v) <=> Aligned(Number(v), k)
    <3>1. CASE k <= WordBits
      <4>1. WordBits - k \in 0 .. V6 /\ (WordBits - k) + k = WordBits
        BY <3>1, Widths
      <4>2. Pow2[k] \in Nat /\ Pow2[WordBits - k] \in Nat
            /\ Word = Pow2[WordBits - k] * Pow2[k]
        BY <1>1, <4>1, Pow2Values, Pow2Sum, Widths
      <4>3. v.hi * Pow2[WordBits - k] \in Nat
            /\ Number(v) = (v.hi * Pow2[WordBits - k]) * Pow2[k]
        BY <1>2, <2>1, <4>2
      <4>4. k <= TrailingZeros(v)
        BY <2>1, <2>2, <3>1, Widths
      <4> QED BY <4>3, <4>4 DEF Aligned
    <3>2. CASE k > WordBits
      <4> DEFINE d == k - WordBits
      <4>1. d \in 0 .. WordBits /\ d \in 0 .. V6 /\ d + WordBits = k /\ k <= V6
        BY <3>2, Widths
      <4>2. Pow2[k] = Pow2[d] * Word /\ Pow2[d] \in Nat
        BY <1>1, <1>2, <4>1, Pow2Sum, Pow2Values
      <4>3. k <= TrailingZeros(v) <=> d <= Zeros(v.hi)
        BY <2>1, <2>2, <4>1, Widths
      <4> HIDE DEF d
      <4>4. ASSUME Aligned(v.hi, d) PROVE Aligned(Number(v), k)
        <5>1. PICK q \in Nat : v.hi = q * Pow2[d]
          BY <4>4 DEF Aligned
        <5>2. Number(v) = q * Pow2[k]
          BY <1>1, <2>1, <4>2, <5>1
        <5> QED BY <5>2 DEF Aligned
      <4>5. ASSUME Aligned(Number(v), k) PROVE Aligned(v.hi, d)
        <5>1. PICK q \in Nat : Number(v) = q * Pow2[k]
          BY <4>5 DEF Aligned
        <5>2. v.hi * Word = (q * Pow2[d]) * Word /\ q * Pow2[d] \in Nat
          BY <1>1, <2>1, <4>2, <5>1
        <5>3. v.hi = q * Pow2[d]
          <6>1. v.hi \in Nat /\ Word > 0 /\ Word \in Nat
            BY <1>1, <1>2
          <6> QED BY <5>2, <6>1, Cancel
        <5> QED BY <5>3 DEF Aligned
      <4> QED BY <2>2, <4>1, <4>3, <4>4, <4>5
    <3> QED BY <3>1, <3>2, Widths
  <2> QED BY <2>1, <2>3, <2>4
<1>5. CASE v.lo = 0 /\ v.hi = 0
  <2>1. TrailingZeros(v) = V6 /\ Number(v) = 0
    BY <1>1, <1>5, TrailingZerosIs DEF Number
  <2>2. \A k \in 0 .. V6 : 0 = 0 * Pow2[k]
    BY Pow2Values
  <2> QED BY <2>1, <2>2, Widths DEF Aligned
<1> QED BY <1>3, <1>4, <1>5

\* Between two multiples of a size there is room for the size.
LEMMA Multiples ==
  \A a, b, m \in Nat : a * m < b * m => a * m + m <= b * m
<1> SUFFICES ASSUME NEW a \in Nat, NEW b \in Nat, NEW m \in Nat, a * m < b * m
             PROVE  a * m + m <= b * m
  OBVIOUS
<1>1. a * m \in Nat /\ b * m \in Nat
  OBVIOUS
<1>2. CASE a < b
  BY <1>2, Products
<1>3. CASE b < a
  <2>1. b * m + m <= a * m
    BY <1>3, Products
  <2> QED BY <1>1, <2>1
<1>4. CASE a = b
  BY <1>1, <1>4
<1> QED BY <1>2, <1>3, <1>4

\* A block of a family that starts in the family ends in it.
LEMMA BlockFits ==
  ASSUME NEW f \in Families, NEW k \in 0 .. f, NEW n \in Nat,
         n < Pow2[f], Aligned(n, k)
  PROVE  n + Pow2[k] <= Pow2[f]
<1>1. f \in 0 .. V6 /\ k \in 0 .. V6 /\ f - k \in 0 .. V6 /\ (f - k) + k = f
  BY Widths
<1>2. Pow2[k] \in Nat /\ Pow2[f - k] \in Nat /\ Pow2[f] = Pow2[f - k] * Pow2[k]
  BY <1>1, Pow2Values, Pow2Sum, Widths
<1>3. PICK q \in Nat : n = q * Pow2[k]
  BY DEF Aligned
<1> QED BY <1>2, <1>3, Multiples

\* addBlockEnd returns the last address of the block (compare.go 467-475).
LEMMA AddBlockEndFacts ==
  ASSUME NEW f \in Families, NEW k \in 0 .. f, NEW v \in Uint128s,
         Number(v) < Pow2[f], Aligned(Number(v), k)
  PROVE  /\ AddBlockEnd(v, k, f) \in Uint128s
         /\ Number(AddBlockEnd(v, k, f)) = Number(v) + Pow2[k] - 1
         /\ Number(AddBlockEnd(v, k, f)) < Pow2[f]
         /\ Number(v) <= Number(AddBlockEnd(v, k, f))
<1>1. /\ f \in 0 .. V6 /\ k \in 0 .. V6 /\ k \in Nat /\ f \in Nat /\ V6 \in Nat
      /\ Pow2[k] \in Nat /\ Pow2[k] > 0
      /\ Pow2[f] \in Nat /\ Pow2[f] <= Pow2[V6] /\ Pow2[V6] \in Nat
      /\ Number(v) \in Nat /\ V6 \in Families
  BY Widths, Pow2Values, MaxValueFacts, NumberFacts
<1>2. Number(v) + Pow2[k] <= Pow2[f]
  BY <1>1, BlockFits
<1>3. CASE k >= f /\ v = Zero
  <2>1. k = f /\ AddBlockEnd(v, k, f) = MaxValue(f) /\ Number(v) = 0
    BY <1>1, <1>3, ZeroFacts DEF AddBlockEnd
  <2> QED BY <1>1, <2>1, MaxValueFacts
<1>4. CASE ~(k >= f /\ v = Zero) /\ k = 0
  <2>1. AddBlockEnd(v, k, f) = v /\ Pow2[k] = 1
    BY <1>4, Pow2Step DEF AddBlockEnd
  <2> QED BY <1>1, <2>1
<1>5. CASE ~(k >= f /\ v = Zero) /\ k # 0
  <2>1. AddBlockEnd(v, k, f) = Decrement(AddPowerOfTwo(v, k))
    BY <1>5 DEF AddBlockEnd
  <2>2. k # V6
    <3> SUFFICES ASSUME k = V6 PROVE FALSE
      OBVIOUS
    <3>1. f = V6
      BY <1>1
    <3>2. Number(v) = 0
      BY <1>1, <1>2, <3>1
    <3>3. v = Zero
      BY <3>2, ZeroFacts, Compare
    <3> QED BY <1>1, <1>5, <3>1, <3>3
  <2>3. k \in 0 .. V6 - 1 /\ Number(v) + Pow2[k] <= Pow2[V6]
    BY <1>1, <1>2, <2>2
  <2>4. /\ AddPowerOfTwo(v, k) \in Uint128s
        /\ Number(AddPowerOfTwo(v, k)) =
             IF Number(v) + Pow2[k] < Pow2[V6] THEN Number(v) + Pow2[k] ELSE 0
    BY <2>3, AddPowerOfTwoFacts
  <2>5. /\ AddBlockEnd(v, k, f) \in Uint128s
        /\ Number(AddBlockEnd(v, k, f)) = Number(v) + Pow2[k] - 1
    <3>1. CASE Number(v) + Pow2[k] < Pow2[V6]
      BY <1>1, <2>1, <2>4, <3>1, DecrementFacts
    <3>2. CASE Number(v) + Pow2[k] = Pow2[V6]
      BY <1>1, <2>1, <2>4, <3>2, DecrementFacts
    <3> QED BY <1>1, <2>3, <3>1, <3>2
  <2> QED BY <1>1, <1>2, <2>5
<1> QED BY <1>3, <1>4, <1>5

\* largestCIDRHostBits returns the greatest block that starts at an address
\* and ends by another one: no greater one that starts there does.
LEMMA LargestHostBitsFacts ==
  ASSUME NEW f \in Families, NEW v \in Uint128s, NEW w \in Uint128s,
         Number(v) <= Number(w), Number(w) < Pow2[f]
  PROVE  LET h == LargestHostBits(v, w, f)
         IN  /\ h \in 0 .. f /\ Aligned(Number(v), h)
             /\ Number(v) + Pow2[h] - 1 <= Number(w)
             /\ h + 1 <= f /\ Aligned(Number(v), h + 1) =>
                  Number(w) < Number(v) + Pow2[h + 1] - 1
<1> DEFINE z == TrailingZeros(v)
           top == IF z > f THEN f ELSE z
           S == {k \in 0 .. top : k = 0 \/ AtMost(AddBlockEnd(v, k, f), w)}
           h == LargestHostBits(v, w, f)
<1>1. /\ f \in 0 .. V6 /\ f \in Nat /\ Number(v) \in Nat /\ Number(w) \in Nat
      /\ Pow2[f] \in Nat /\ Number(v) < Pow2[f]
  BY MaxValueFacts, NumberFacts
<1>2. /\ z \in 0 .. V6
      /\ \A k \in 0 .. V6 : k <= z <=> Aligned(Number(v), k)
  BY TrailingZerosFacts
<1>3. h = Max(S)
  BY DEF LargestHostBits
<1> HIDE DEF h, z
<1>4. top \in 0 .. f /\ top \in Nat
  BY <1>1, <1>2
<1>5. \A k \in 0 .. f : k \in 0 .. top <=> Aligned(Number(v), k)
  BY <1>1, <1>2, Widths
<1> HIDE DEF top
<1>6. \A k \in 0 .. top : k \in 0 .. f
  BY <1>4, <1>1
<1>7. \A k \in 0 .. top :
        /\ AddBlockEnd(v, k, f) \in Uint128s
        /\ Number(AddBlockEnd(v, k, f)) = Number(v) + Pow2[k] - 1
  BY <1>1, <1>5, <1>6, AddBlockEndFacts
<1>8. \A k \in 0 .. top : k \in S <=> Number(v) + Pow2[k] - 1 <= Number(w)
  <2> SUFFICES ASSUME NEW k \in 0 .. top
               PROVE  k \in S <=> Number(v) + Pow2[k] - 1 <= Number(w)
    OBVIOUS
  <2>1. AtMost(AddBlockEnd(v, k, f), w) <=> Number(v) + Pow2[k] - 1 <= Number(w)
    BY <1>7, Compare
  <2>2. CASE k = 0
    <3>1. Pow2[k] = 1
      BY <2>2, Pow2Step
    <3> QED BY <2>2, <3>1, <1>1
  <2> QED BY <2>1, <2>2
<1>9. S \in SUBSET (0 .. top) /\ 0 \in S
  BY <1>4
<1> HIDE DEF S
<1>10. h \in S /\ \A k \in S : k <= h
  BY <1>3, <1>4, <1>9, Greatest
<1>11. h \in 0 .. top /\ h \in 0 .. f
  BY <1>6, <1>9, <1>10
<1>12. /\ Aligned(Number(v), h)
       /\ Number(v) + Pow2[h] - 1 <= Number(w)
  BY <1>5, <1>8, <1>10, <1>11
<1>13. ASSUME h + 1 <= f, Aligned(Number(v), h + 1)
       PROVE  Number(w) < Number(v) + Pow2[h + 1] - 1
  <2>1. h + 1 \in 0 .. f /\ h + 1 \in 0 .. V6
    BY <1>1, <1>11, <1>13, Widths
  <2>2. h + 1 \in 0 .. top
    BY <1>5, <1>13, <2>1
  <2>3. h + 1 \notin S
    BY <1>10, <1>11, <2>1
  <2>4. Pow2[h + 1] \in Nat
    BY <2>1, Pow2Values
  <2> QED BY <1>1, <1>8, <2>2, <2>3, <2>4
<1> QED BY <1>11, <1>12, <1>13 DEF h

-----------------------------------------------------------------------------
(* Ranges of addresses *)

Lo(r) == Number(r.start)
Hi(r) == Number(r.end)

\* A range of addresses of its family, none of them left out by a wrap.
ValidRanges ==
  {r \in Ranges : Lo(r) <= Hi(r) /\ Hi(r) < Pow2[r.family]}

\* An address with its family.
Pairs == Families \X Nat

\* What a valid range has.
LEMMA RangeFacts ==
  ASSUME NEW r \in ValidRanges
  PROVE  /\ r \in Ranges /\ r.family \in Families /\ r.family \in Nat
         /\ r.start \in Uint128s /\ r.end \in Uint128s
         /\ Lo(r) \in Nat /\ Hi(r) \in Nat /\ Lo(r) <= Hi(r)
         /\ Hi(r) < Pow2[r.family] /\ Pow2[r.family] \in Nat
         /\ Pow2[r.family] <= Pow2[V6] /\ Pow2[V6] \in Nat
         /\ r = [family |-> r.family, start |-> r.start, end |-> r.end]
<1>1. /\ r \in Ranges /\ r.family \in Families
      /\ r.start \in Uint128s /\ r.end \in Uint128s
      /\ r = [family |-> r.family, start |-> r.start, end |-> r.end]
      /\ Lo(r) <= Hi(r) /\ Hi(r) < Pow2[r.family]
  BY DEF ValidRanges, Ranges
<1>2. r.family \in Nat /\ V6 \in Families
  BY <1>1, Widths
<1> QED BY <1>1, <1>2, NumberFacts, MaxValueFacts DEF Lo, Hi

\* The addresses of a range, one by one.
LEMMA InAddresses ==
  ASSUME NEW r \in ValidRanges
  PROVE  /\ Addresses(r) \subseteq Pairs
         /\ \A x \in Pairs : x \in Addresses(r) <=>
              x[1] = r.family /\ Lo(r) <= x[2] /\ x[2] <= Hi(r)
<1>1. r.family \in Families /\ Lo(r) \in Nat /\ Hi(r) \in Nat
  BY RangeFacts
<1>2. Addresses(r) = {r.family} \X (Lo(r) .. Hi(r))
  BY DEF Addresses, Between, Lo, Hi
<1> QED BY <1>1, <1>2 DEF Pairs

LEMMA InBetween ==
  ASSUME NEW f \in Families, NEW a \in Nat, NEW b \in Nat
  PROVE  /\ Between(f, a, b) \subseteq Pairs
         /\ \A x \in Pairs : x \in Between(f, a, b) <=>
              x[1] = f /\ a <= x[2] /\ x[2] <= b
BY DEF Between, Pairs

LEMMA InCoverage ==
  ASSUME NEW s \in Seq(ValidRanges)
  PROVE  /\ RangeCoverage(s) \subseteq Pairs
         /\ \A x : x \in RangeCoverage(s) <=> \E k \in 1 .. Len(s) : x \in Addresses(s[k])
<1>1. DOMAIN s = 1 .. Len(s) /\ \A k \in 1 .. Len(s) : s[k] \in ValidRanges
  BY LenProperties, ElementOfSeq
<1>2. \A x : x \in RangeCoverage(s) <=> \E k \in 1 .. Len(s) : x \in Addresses(s[k])
  BY <1>1 DEF RangeCoverage, Elements
<1> QED BY <1>1, <1>2, InAddresses

LEMMA CoverageOfElements ==
  ASSUME NEW s \in Seq(ValidRanges), NEW t \in Seq(ValidRanges), Elements(s) = Elements(t)
  PROVE  RangeCoverage(s) = RangeCoverage(t)
BY DEF RangeCoverage

\* What one more range adds.
LEMMA CoverageOfAppend ==
  ASSUME NEW s \in Seq(ValidRanges), NEW r \in ValidRanges
  PROVE  /\ Append(s, r) \in Seq(ValidRanges)
         /\ Len(Append(s, r)) = Len(s) + 1 /\ Len(s) \in Nat
         /\ Append(s, r)[Len(s) + 1] = r
         /\ \A k \in 1 .. Len(s) : Append(s, r)[k] = s[k]
         /\ RangeCoverage(Append(s, r)) = RangeCoverage(s) \cup Addresses(r)
<1>1. /\ Append(s, r) \in Seq(ValidRanges) /\ Len(Append(s, r)) = Len(s) + 1
      /\ Append(s, r)[Len(s) + 1] = r /\ Len(s) \in Nat
      /\ \A k \in 1 .. Len(s) : Append(s, r)[k] = s[k]
  BY AppendProperties, LenProperties
<1> DEFINE t == Append(s, r)
<1> HIDE DEF t
<1>2. \A x : x \in RangeCoverage(t) <=> \E k \in 1 .. Len(t) : x \in Addresses(t[k])
  BY <1>1, InCoverage DEF t
<1>3. \A x : x \in RangeCoverage(s) <=> \E k \in 1 .. Len(s) : x \in Addresses(s[k])
  BY InCoverage
<1>4. /\ t[Len(s) + 1] = r /\ Len(t) = Len(s) + 1
      /\ \A k \in 1 .. Len(s) : t[k] = s[k] /\ k \in 1 .. Len(t)
      /\ \A k \in 1 .. Len(t) : k = Len(s) + 1 \/ k \in 1 .. Len(s)
      /\ Len(s) + 1 \in 1 .. Len(t)
  BY <1>1 DEF t
<1>5. RangeCoverage(t) = RangeCoverage(s) \cup Addresses(r)
  BY <1>2, <1>3, <1>4
<1> QED BY <1>1, <1>5 DEF t

\* What the first range covers, and what the others do.
LEMMA CoverageOfTail ==
  ASSUME NEW s \in Seq(ValidRanges), s # <<>>
  PROVE  /\ Head(s) \in ValidRanges /\ Head(s) = s[1] /\ Tail(s) \in Seq(ValidRanges)
         /\ Len(s) \in Nat /\ Len(s) > 0 /\ Len(Tail(s)) = Len(s) - 1
         /\ \A k \in 1 .. Len(s) - 1 : Tail(s)[k] = s[k + 1]
         /\ RangeCoverage(s) = Addresses(Head(s)) \cup RangeCoverage(Tail(s))
<1>1. /\ Head(s) \in ValidRanges /\ Head(s) = s[1] /\ Tail(s) \in Seq(ValidRanges)
      /\ Len(s) \in Nat /\ Len(s) > 0 /\ Len(Tail(s)) = Len(s) - 1
      /\ \A k \in 1 .. Len(s) - 1 : Tail(s)[k] = s[k + 1]
  BY HeadTailProperties, EmptySeq, LenProperties, ElementOfSeq
<1> DEFINE t == Tail(s)
<1> HIDE DEF t
<1>2. \A x : x \in RangeCoverage(t) <=> \E k \in 1 .. Len(t) : x \in Addresses(t[k])
  BY <1>1, InCoverage DEF t
<1>3. \A x : x \in RangeCoverage(s) <=> \E k \in 1 .. Len(s) : x \in Addresses(s[k])
  BY InCoverage
<1>4. /\ Len(t) = Len(s) - 1 /\ 1 \in 1 .. Len(s)
      /\ \A k \in 1 .. Len(t) : t[k] = s[k + 1] /\ k + 1 \in 1 .. Len(s)
      /\ \A k \in 1 .. Len(s) : k = 1 \/ (k - 1 \in 1 .. Len(t) /\ (k - 1) + 1 = k)
  BY <1>1 DEF t
<1>5. \A x : (\E k \in 1 .. Len(s) : x \in Addresses(s[k])) <=>
               x \in Addresses(s[1]) \/ \E k \in 1 .. Len(t) : x \in Addresses(t[k])
  <2> SUFFICES ASSUME NEW x
               PROVE  (\E k \in 1 .. Len(s) : x \in Addresses(s[k])) <=>
                        x \in Addresses(s[1]) \/ \E k \in 1 .. Len(t) : x \in Addresses(t[k])
    OBVIOUS
  <2>1. ASSUME NEW k \in 1 .. Len(s), x \in Addresses(s[k]), k # 1
        PROVE  \E j \in 1 .. Len(t) : x \in Addresses(t[j])
    <3>1. k - 1 \in 1 .. Len(t) /\ t[k - 1] = s[k]
      BY <1>4, <2>1
    <3> QED BY <2>1, <3>1
  <2>2. ASSUME NEW k \in 1 .. Len(t), x \in Addresses(t[k])
        PROVE  \E j \in 1 .. Len(s) : x \in Addresses(s[j])
    BY <1>4, <2>2
  <2> QED BY <1>4, <2>1, <2>2
<1>6. RangeCoverage(s) = Addresses(Head(s)) \cup RangeCoverage(t)
  BY <1>1, <1>2, <1>3, <1>5
<1> QED BY <1>1, <1>6 DEF t

LEMMA CoverageOfNone == RangeCoverage(<<>>) = {} /\ Elements(<<>>) = {} /\ Coverage({}) = {}
BY DEF RangeCoverage, Elements, Coverage

\* The range of a prefix is its block.
LEMMA CidrFacts ==
  ASSUME NEW p \in Cidrs
  PROVE  /\ p.family \in Families /\ p.family \in Nat /\ p.addr \in Uint128s /\ p.bits \in Nat
         /\ p.bits <= p.family /\ p.family - p.bits \in 0 .. p.family
         /\ p.family - p.bits \in 0 .. V6
         /\ Aligned(Number(p.addr), p.family - p.bits)
         /\ RangeOf(p) \in ValidRanges /\ RangeOf(p).family = p.family
         /\ Lo(RangeOf(p)) = Number(p.addr)
         /\ Hi(RangeOf(p)) = Number(p.addr) + Pow2[p.family - p.bits] - 1
         /\ BlockOf(p) = Addresses(RangeOf(p))
<1>1. /\ p.family \in Families /\ p.addr \in Uint128s /\ p.bits \in 0 .. V6
      /\ p.bits <= p.family /\ AtMost(p.addr, MaxValue(p.family))
      /\ TrailingZeros(p.addr) >= p.family - p.bits
  BY DEF Cidrs
<1> DEFINE k == p.family - p.bits
           r == RangeOf(p)
<1>2. /\ p.family \in Nat /\ p.bits \in Nat /\ k \in 0 .. p.family /\ k \in 0 .. V6
      /\ p.family \in 0 .. V6
  BY <1>1, Widths
<1>3. /\ r.family = p.family /\ r.start = p.addr
      /\ r.end = AddBlockEnd(p.addr, k, p.family)
      /\ r = [family |-> r.family, start |-> r.start, end |-> r.end]
  BY DEF RangeOf
<1>4. BlockOf(p) = Between(p.family, Number(p.addr), Number(p.addr) + Pow2[k] - 1)
  BY DEF BlockOf
<1> HIDE DEF r, k
<1>5. Aligned(Number(p.addr), k)
  <2>1. k <= TrailingZeros(p.addr)
    BY <1>1, <1>2, TrailingZerosFacts DEF k
  <2> QED BY <1>1, <1>2, <2>1, TrailingZerosFacts
<1>6. Number(p.addr) < Pow2[p.family]
  <2>1. Number(p.addr) <= Number(MaxValue(p.family))
    BY <1>1, MaxValueFacts, Compare
  <2> QED BY <1>1, <2>1, MaxValueFacts, NumberFacts
<1>7. /\ r.end \in Uint128s /\ Hi(r) = Number(p.addr) + Pow2[k] - 1
      /\ Hi(r) < Pow2[r.family] /\ Lo(r) = Number(p.addr) /\ Lo(r) <= Hi(r)
  BY <1>1, <1>2, <1>3, <1>5, <1>6, AddBlockEndFacts DEF Lo, Hi
<1>8. r \in ValidRanges
  BY <1>1, <1>3, <1>7 DEF ValidRanges, Ranges
<1>9. BlockOf(p) = Addresses(r)
  BY <1>3, <1>4, <1>7 DEF Addresses, Lo, Hi
<1> QED BY <1>1, <1>2, <1>3, <1>5, <1>7, <1>8, <1>9 DEF r, k

\* Ranges of prefixes cover what the prefixes do.
LEMMA CoverageOfRanges ==
  ASSUME NEW S \in SUBSET Cidrs, NEW s \in Seq(ValidRanges),
         Elements(s) = {RangeOf(p) : p \in S}
  PROVE  RangeCoverage(s) = Coverage(S)
<1>1. RangeCoverage(s) = UNION {Addresses(RangeOf(p)) : p \in S}
  BY DEF RangeCoverage
<1>2. \A p \in S : BlockOf(p) = Addresses(RangeOf(p))
  BY CidrFacts
<1> QED BY <1>1, <1>2 DEF Coverage

-----------------------------------------------------------------------------
(* Sorting *)

LEMMA RangeEqual ==
  ASSUME NEW a \in Ranges, NEW b \in Ranges
  PROVE  a = b <=> a.family = b.family /\ a.start = b.start /\ a.end = b.end
BY DEF Ranges

\* sortRanges compares by a strict total order.
LEMMA StrictOrder ==
  /\ \A a \in Ranges : ~Precedes(a, a)
  /\ \A a, b, c \in Ranges : Precedes(a, b) /\ Precedes(b, c) => Precedes(a, c)
  /\ \A a, b \in Ranges : a # b => Precedes(a, b) \/ Precedes(b, a)
  /\ \A a, b \in Ranges : Precedes(a, b) =>
       a.family < b.family \/ (a.family = b.family /\ Lo(a) <= Lo(b))
<1>1. \A a \in Ranges : /\ a.family \in Nat /\ a.start \in Uint128s /\ a.end \in Uint128s
                        /\ Lo(a) \in Nat /\ Hi(a) \in Nat
  <2>1. \A a \in Ranges : a.family \in Families /\ a.start \in Uint128s /\ a.end \in Uint128s
    BY DEF Ranges
  <2> QED BY <2>1, Widths, NumberFacts DEF Lo, Hi
<1>2. \A a, b \in Ranges :
        Precedes(a, b) <=> \/ a.family < b.family
                           \/ a.family = b.family /\ Lo(a) < Lo(b)
                           \/ a.family = b.family /\ Lo(a) = Lo(b) /\ Hi(a) < Hi(b)
  BY <1>1, Compare DEF Precedes, Lo, Hi
<1>3. \A a, b \in Ranges : a.family = b.family /\ Lo(a) = Lo(b) /\ Hi(a) = Hi(b) => a = b
  BY <1>1, Compare, RangeEqual DEF Lo, Hi
<1>4. \A a \in Ranges : ~Precedes(a, a)
  BY <1>1, <1>2
<1>5. \A a, b, c \in Ranges : Precedes(a, b) /\ Precedes(b, c) => Precedes(a, c)
  BY <1>1, <1>2
<1>6. \A a, b \in Ranges : a # b => Precedes(a, b) \/ Precedes(b, a)
  BY <1>1, <1>2, <1>3
<1>7. \A a, b \in Ranges : Precedes(a, b) =>
        a.family < b.family \/ (a.family = b.family /\ Lo(a) <= Lo(b))
  BY <1>1, <1>2
<1> QED BY <1>4, <1>5, <1>6, <1>7

\* There is an ordered sequence of any finite set of ranges: the place of
\* one is the number of those before it.
LEMMA SortedIsSorted ==
  ASSUME NEW S \in SUBSET Ranges, IsFiniteSet(S)
  PROVE  /\ Sorted(S) \in [1 .. Cardinality(S) -> S]
         /\ Cardinality(S) \in Nat
         /\ \A j, k \in 1 .. Cardinality(S) : j < k => Precedes(Sorted(S)[j], Sorted(S)[k])
<1> DEFINE n == Cardinality(S)
           B(s) == {t \in S : Precedes(t, s)}
           r == [s \in S |-> Cardinality(B(s)) + 1]
<1>1. n \in Nat
  BY FS_CardinalityType
<1>2. ASSUME NEW s \in S
      PROVE  IsFiniteSet(B(s)) /\ Cardinality(B(s)) \in Nat /\ Cardinality(B(s)) < n
  <2>1. B(s) \in SUBSET S /\ B(s) # S
    BY StrictOrder
  <2> HIDE DEF B
  <2>2. IsFiniteSet(B(s)) /\ Cardinality(B(s)) <= n /\ Cardinality(B(s)) # n
    BY <1>1, <2>1, FS_Subset
  <2>3. Cardinality(B(s)) \in Nat
    BY <2>2, FS_CardinalityType
  <2> QED BY <1>1, <2>2, <2>3
<1>3. r \in [S -> 1 .. n]
  BY <1>1, <1>2
<1>4. ASSUME NEW s \in S, NEW t \in S, Precedes(s, t)
      PROVE  r[s] < r[t]
  <2>1. B(s) \in SUBSET B(t) /\ B(s) # B(t)
    BY <1>4, StrictOrder
  <2> HIDE DEF B
  <2>2. Cardinality(B(s)) <= Cardinality(B(t)) /\ Cardinality(B(s)) # Cardinality(B(t))
    BY <1>2, <2>1, FS_Subset
  <2> QED BY <1>2, <2>2
<1> HIDE DEF r
<1>5. r \in Injection(S, 1 .. n)
  <2> SUFFICES ASSUME NEW s \in S, NEW t \in S, s # t PROVE r[s] # r[t]
    BY <1>3 DEF Injection, IsInjective
  <2> r[s] \in 1 .. n /\ r[t] \in 1 .. n
    BY <1>3
  <2>1. CASE Precedes(s, t)
    BY <2>1, <1>4
  <2>2. CASE Precedes(t, s)
    BY <2>2, <1>4
  <2> QED BY <2>1, <2>2, StrictOrder
<1>6. r \in Surjection(S, 1 .. n)
  <2>1. IsFiniteSet(1 .. n) /\ Cardinality(1 .. n) = n
    BY <1>1, FS_Interval
  <2> QED BY <1>5, <2>1, FS_Injection
<1> DEFINE q == [i_ \in 1 .. n |-> CHOOSE s \in S : r[s] = i_]
<1>7. ASSUME NEW k \in 1 .. n PROVE q[k] \in S /\ r[q[k]] = k
  BY <1>6 DEF Surjection
<1>8. q \in [1 .. n -> S] /\ DOMAIN q = 1 .. n
  BY <1>7
<1> HIDE DEF q
<1>9. ASSUME NEW j \in 1 .. n, NEW k \in 1 .. n, j < k
      PROVE  Precedes(q[j], q[k])
  <2>1. q[j] \in S /\ q[k] \in S /\ r[q[j]] = j /\ r[q[k]] = k
    BY <1>7
  <2>2. q[j] # q[k]
    BY <2>1, <1>9
  <2>3. ~Precedes(q[k], q[j])
    BY <2>1, <1>4, <1>9
  <2> QED BY <2>1, <2>2, <2>3, StrictOrder
<1>10. /\ Sorted(S) \in [1 .. n -> S]
       /\ \A j, k \in DOMAIN Sorted(S) : j < k => Precedes(Sorted(S)[j], Sorted(S)[k])
  BY <1>8, <1>9 DEF Sorted
<1> QED BY <1>1, <1>10

\* Sorting drops no range.
LEMMA SortedHoldsAll ==
  ASSUME NEW S \in SUBSET ValidRanges, IsFiniteSet(S)
  PROVE  /\ Sorted(S) \in Seq(ValidRanges) /\ Elements(Sorted(S)) = S
         /\ \A j, k \in 1 .. Len(Sorted(S)) : j < k => Precedes(Sorted(S)[j], Sorted(S)[k])
<1> DEFINE n == Cardinality(S)
           q == Sorted(S)
<1>0. S \in SUBSET Ranges
  BY DEF ValidRanges
<1>1. /\ q \in [1 .. n -> S] /\ n \in Nat
      /\ \A j, k \in 1 .. n : j < k => Precedes(q[j], q[k])
  BY <1>0, SortedIsSorted
<1> HIDE DEF q, n
<1>2. q \in Seq(S) /\ Len(q) = n /\ DOMAIN q = 1 .. n
  BY <1>1, SeqDef, LenProperties
<1>3. q \in Injection(1 .. n, S)
  <2> SUFFICES ASSUME NEW j \in 1 .. n, NEW k \in 1 .. n, j # k PROVE q[j] # q[k]
    BY <1>1 DEF Injection, IsInjective
  <2> q[j] \in Ranges /\ q[k] \in Ranges
    BY <1>0, <1>1
  <2> j < k \/ k < j
    OBVIOUS
  <2> QED BY <1>1, StrictOrder
<1>4. IsFiniteSet(1 .. n) /\ Cardinality(1 .. n) = n
  BY <1>1, FS_Interval
<1>5. q \in Surjection(1 .. n, S)
  BY <1>3, <1>4, FS_Injection DEF n
<1>6. Elements(q) = S
  BY <1>1, <1>5 DEF Elements, Surjection
<1>7. q \in Seq(ValidRanges)
  BY <1>1, <1>2, SeqDef
<1> QED BY <1>1, <1>2, <1>6, <1>7 DEF q

-----------------------------------------------------------------------------
(* The inductive invariant *)

\* a ends before b starts, and they do not touch.
Behind(a, b) ==
  a.family < b.family \/ (a.family = b.family /\ Hi(a) + 1 < Lo(b))
Apart(s) == \A j, k \in 1 .. Len(s) : j < k => Behind(s[j], s[k])

NotAfter(a, b) ==
  a.family < b.family \/ (a.family = b.family /\ Lo(a) <= Lo(b))
InOrder(s) == \A j, k \in 1 .. Len(s) : j < k => NotAfter(s[j], s[k])

\* r ends before address n of family f; with a gap.
EndsBefore(r, f, n) == r.family < f \/ (r.family = f /\ Hi(r) < n)
EndsWellBefore(r, f, n) == r.family < f \/ (r.family = f /\ Hi(r) + 1 < n)

Only(s) == IF s = "local" THEN Coverage(input.local) \ Coverage(input.live)
           ELSE Coverage(input.live) \ Coverage(input.local)

\* The blocks ps come one after another; block p can not be doubled within D;
\* the blocks are the fewest that cover D.
Increasing(ps) ==
  \A j, k \in 1 .. Len(ps) : j < k =>
    EndsBefore(RangeOf(ps[j]), ps[k].family, Number(ps[k].addr))
Undoublable(p, D) ==
  LET h == p.family - p.bits
      a == Number(p.addr)
  IN  h + 1 <= p.family /\ Aligned(a, h + 1) =>
        \E n \in a .. a + Pow2[h + 1] - 1 : <<p.family, n>> \notin D
Fewest(ps, D) ==
  Increasing(ps) /\ \A k \in 1 .. Len(ps) : Undoublable(ps[k], D)

TypeInv ==
  /\ input \in Inputs /\ side \in {"local", "live"}
  /\ pc \in {"mergeLeft", "mergeRight", "subtract", "scan", "emit", "report",
             "done"}
  /\ \A s \in {queue, merged, left, right, out} : s \in Seq(ValidRanges)
  /\ cursor \in Uint128s /\ current \in Uint128s
  /\ l \in Nat \ {0} /\ i \in Nat \ {0} /\ rightIndex \in 1 .. Len(right) + 1
  /\ prefixes \in Seq(Cidrs)
  /\ result \in [{"local", "live"} -> Seq(Cidrs)]

MergeInv ==
  /\ pc \in {"mergeLeft", "mergeRight"} =>
       /\ Apart(merged) /\ InOrder(queue)
       /\ \A j \in 1 .. Len(merged) : \A k \in 1 .. Len(queue) :
            NotAfter(merged[j], queue[k])
       /\ RangeCoverage(merged) \cup RangeCoverage(queue) =
            Coverage(IF pc = "mergeLeft" THEN Minuend ELSE Subtrahend)
  /\ pc \notin {"mergeLeft", "mergeRight"} => merged = <<>>

OperandsInv ==
  /\ pc \in {"mergeRight", "subtract", "scan"} =>
       Apart(left) /\ RangeCoverage(left) = Coverage(Minuend)
  /\ pc \in {"subtract", "scan"} =>
       Apart(right) /\ RangeCoverage(right) = Coverage(Subtrahend)

LeftBelow == UNION {Addresses(left[k]) : k \in 1 .. l - 1}

SubtractInv ==
  /\ pc \in {"subtract", "scan"} =>
       /\ l <= Len(left) + 1 /\ Apart(out)
       /\ \A k \in 1 .. rightIndex - 1 : \A m \in l .. Len(left) :
            EndsBefore(right[k], left[m].family, Lo(left[m]))
  /\ pc = "subtract" =>
       /\ RangeCoverage(out) = LeftBelow \ RangeCoverage(right)
       /\ \A k \in 1 .. Len(out) : \A m \in l .. Len(left) : Behind(out[k], left[m])

ScanInv ==
  pc = "scan" =>
    /\ l <= Len(left) /\ i <= Len(right) + 1
    /\ Lo(left[l]) <= Number(cursor) /\ Number(cursor) <= Hi(left[l])
    /\ \A k \in 1 .. i - 1 : EndsBefore(right[k], left[l].family, Number(cursor))
    /\ \A k \in 1 .. Len(out) : EndsWellBefore(out[k], left[l].family, Number(cursor))
    /\ RangeCoverage(out) =
         (LeftBelow \cup (Addresses(left[l])
            \ Between(left[l].family, Number(cursor), Hi(left[l]))))
           \ RangeCoverage(right)

Remaining ==
  IF queue = <<>> THEN {}
  ELSE Between(Head(queue).family, Number(current), Hi(Head(queue)))
         \cup RangeCoverage(Tail(queue))

EmitInv ==
  pc = "emit" =>
    /\ Apart(queue)
    /\ queue # <<>> =>
         /\ Lo(Head(queue)) <= Number(current) /\ Number(current) <= Hi(Head(queue))
         /\ \A k \in 1 .. Len(prefixes) :
              EndsBefore(RangeOf(prefixes[k]), Head(queue).family, Number(current))
    /\ Coverage(Elements(prefixes)) \cup Remaining = Only(side)
    /\ Fewest(prefixes, Only(side))

Answered(s) ==
  pc \in {"report", "done"} \/ (s = "local" /\ side = "live")

ResultInv ==
  /\ \A s \in {"local", "live"} : Answered(s) =>
       /\ Coverage(Elements(result[s])) = Only(s)
       /\ Fewest(result[s], Only(s))
  /\ pc \in {"report", "done"} => side = "live"
  /\ status = IF pc = "done"
              THEN StatusForDiff(Cardinality(input.live), Cardinality(input.local),
                                 Len(result.live), Len(result.local), input.invalid)
              ELSE "none"

IInv == TypeInv /\ MergeInv /\ OperandsInv /\ SubtractInv /\ ScanInv /\ EmitInv /\ ResultInv

-----------------------------------------------------------------------------
(* Merging *)

\* What touchesOrOverlaps says, in numbers: no wrap at the last address.
LEMMA Touching ==
  ASSUME NEW a \in ValidRanges, NEW b \in ValidRanges, a.family = b.family
  PROVE  TouchesOrOverlaps(a, b) <=> Lo(b) <= Hi(a) + 1
<1>1. /\ a.family \in Families /\ a.end \in Uint128s /\ b.start \in Uint128s
      /\ Lo(b) \in Nat /\ Hi(a) \in Nat /\ Hi(b) \in Nat /\ Lo(b) <= Hi(b)
      /\ Hi(a) < Pow2[a.family] /\ Hi(b) < Pow2[a.family]
      /\ Pow2[a.family] \in Nat /\ Pow2[a.family] <= Pow2[V6] /\ Pow2[V6] \in Nat
  BY RangeFacts
<1>2. AtMost(b.start, a.end) <=> Lo(b) <= Hi(a)
  BY <1>1, Compare DEF Lo, Hi
<1>3. a.end = MaxValue(a.family) <=> Hi(a) = Pow2[a.family] - 1
  BY <1>1, MaxValueFacts, Compare DEF Hi
<1>4. CASE a.end = MaxValue(a.family)
  BY <1>1, <1>2, <1>3, <1>4 DEF TouchesOrOverlaps
<1>5. CASE a.end # MaxValue(a.family)
  <2>1. Hi(a) < Pow2[V6] - 1
    BY <1>1, <1>3, <1>5
  <2>2. Increment(a.end) \in Uint128s /\ Number(Increment(a.end)) = Hi(a) + 1
    BY <1>1, <2>1, IncrementFacts DEF Hi
  <2>3. AtMost(b.start, Increment(a.end)) <=> Lo(b) <= Hi(a) + 1
    BY <1>1, <2>2, Compare DEF Lo
  <2> QED BY <1>1, <1>2, <1>5, <2>3 DEF TouchesOrOverlaps
<1> QED BY <1>4, <1>5

\* a joined with b, which does not start before it.
Joined(a, b) == [a EXCEPT !.end = IF Less(@, b.end) THEN b.end ELSE @]

\* Two ranges that touch or overlap, joined, cover what both do.
LEMMA Joining ==
  ASSUME NEW a \in ValidRanges, NEW b \in ValidRanges, a.family = b.family,
         NotAfter(a, b), TouchesOrOverlaps(a, b)
  PROVE  /\ Joined(a, b) \in ValidRanges
         /\ Joined(a, b).family = a.family /\ Lo(Joined(a, b)) = Lo(a)
         /\ Addresses(Joined(a, b)) = Addresses(a) \cup Addresses(b)
<1> DEFINE e == Joined(a, b)
<1>1. /\ a.family \in Families /\ a.family \in Nat
      /\ a.start \in Uint128s /\ a.end \in Uint128s /\ b.end \in Uint128s
      /\ a = [family |-> a.family, start |-> a.start, end |-> a.end]
      /\ Lo(a) \in Nat /\ Hi(a) \in Nat /\ Lo(b) \in Nat /\ Hi(b) \in Nat
      /\ Lo(a) <= Hi(a) /\ Lo(b) <= Hi(b)
      /\ Hi(a) < Pow2[a.family] /\ Hi(b) < Pow2[a.family]
  BY RangeFacts
<1>2. Lo(a) <= Lo(b) /\ Lo(b) <= Hi(a) + 1
  BY <1>1, Touching DEF NotAfter
<1>3. Less(a.end, b.end) <=> Hi(a) < Hi(b)
  BY <1>1, Compare DEF Hi
<1>4. /\ e = [family |-> a.family, start |-> a.start, end |-> e.end]
      /\ e.family = a.family /\ e.start = a.start
      /\ e.end = IF Less(a.end, b.end) THEN b.end ELSE a.end
  BY <1>1 DEF Joined
<1> HIDE DEF e
<1>5. Lo(e) = Lo(a) /\ Hi(e) = (IF Hi(a) < Hi(b) THEN Hi(b) ELSE Hi(a)) /\ e.end \in Uint128s
  BY <1>1, <1>3, <1>4 DEF Lo, Hi
<1>6. e \in Ranges
  BY <1>1, <1>4, <1>5 DEF Ranges
<1>7. e \in ValidRanges
  BY <1>1, <1>4, <1>5, <1>6 DEF ValidRanges
<1>8. \A x \in Pairs : x \in Addresses(e) <=> x \in Addresses(a) \/ x \in Addresses(b)
  <2>1. \A x \in Pairs : x[2] \in Nat
    BY DEF Pairs
  <2> QED BY <1>1, <1>2, <1>4, <1>5, <1>7, <2>1, InAddresses
<1>9. Addresses(e) \subseteq Pairs /\ Addresses(a) \subseteq Pairs /\ Addresses(b) \subseteq Pairs
  BY <1>7, InAddresses
<1> QED BY <1>4, <1>5, <1>7, <1>8, <1>9 DEF e

LEMMA BehindTransitive ==
  ASSUME NEW a \in ValidRanges, NEW b \in ValidRanges, NEW c \in ValidRanges
  PROVE  /\ Behind(a, b) /\ Behind(b, c) => Behind(a, c)
         /\ Behind(a, b) /\ NotAfter(b, c) => Behind(a, c)
         /\ Behind(a, b) => NotAfter(a, b) /\ ~Behind(b, a)
BY RangeFacts DEF Behind, NotAfter

\* One turn of the loop of mergeRanges.
MergedWith(m, r) ==
  IF Len(m) > 0 /\ m[Len(m)].family = r.family /\ TouchesOrOverlaps(m[Len(m)], r)
  THEN [m EXCEPT ![Len(m)].end = IF Less(@, r.end) THEN r.end ELSE @]
  ELSE Append(m, r)

\* One turn of the loop of mergeRanges keeps ranges apart and loses nothing.
LEMMA MergeStep ==
  ASSUME NEW m \in Seq(ValidRanges), NEW q \in Seq(ValidRanges), q # <<>>,
         Apart(m), InOrder(q),
         \A j \in 1 .. Len(m) : \A k \in 1 .. Len(q) : NotAfter(m[j], q[k])
  PROVE  LET n == MergedWith(m, Head(q))
         IN  /\ n \in Seq(ValidRanges) /\ Apart(n) /\ InOrder(Tail(q))
             /\ \A j \in 1 .. Len(n) : \A k \in 1 .. Len(Tail(q)) :
                  NotAfter(n[j], Tail(q)[k])
             /\ RangeCoverage(n) \cup RangeCoverage(Tail(q)) =
                  RangeCoverage(m) \cup RangeCoverage(q)
<1> DEFINE r == Head(q)
           t == Tail(q)
           n == MergedWith(m, r)
           c == Len(m)
<1>1. /\ r \in ValidRanges /\ r = q[1] /\ t \in Seq(ValidRanges)
      /\ Len(q) \in Nat /\ Len(q) > 0 /\ Len(t) = Len(q) - 1
      /\ \A k \in 1 .. Len(q) - 1 : t[k] = q[k + 1]
      /\ RangeCoverage(q) = Addresses(r) \cup RangeCoverage(t)
  BY CoverageOfTail
<1>2. /\ \A k \in 1 .. Len(t) : t[k] = q[k + 1] /\ k + 1 \in 1 .. Len(q) /\ 1 < k + 1
                                 /\ t[k] \in ValidRanges
      /\ 1 \in 1 .. Len(q)
  BY <1>1, ElementOfSeq
<1>3. c \in Nat /\ \A k \in 1 .. c : m[k] \in ValidRanges
  BY LenProperties, ElementOfSeq
<1> HIDE DEF t, r
<1>4. InOrder(t)
  <2> SUFFICES ASSUME NEW j \in 1 .. Len(t), NEW k \in 1 .. Len(t), j < k
               PROVE  NotAfter(t[j], t[k])
    BY DEF InOrder
  <2>1. j + 1 \in 1 .. Len(q) /\ k + 1 \in 1 .. Len(q) /\ j + 1 < k + 1
    BY <1>2
  <2>2. NotAfter(q[j + 1], q[k + 1])
    BY <2>1 DEF InOrder
  <2> QED BY <1>2, <2>2
<1>5. /\ \A k \in 1 .. Len(t) : NotAfter(r, t[k])
      /\ \A j \in 1 .. c : NotAfter(m[j], r) /\ \A k \in 1 .. Len(t) : NotAfter(m[j], t[k])
  BY <1>1, <1>2 DEF InOrder
<1>6. CASE c > 0 /\ m[c].family = r.family /\ TouchesOrOverlaps(m[c], r)
  <2> DEFINE e == Joined(m[c], r)
  <2>1. c \in 1 .. c
    BY <1>3, <1>6
  <2>2. /\ e \in ValidRanges /\ e.family = m[c].family /\ Lo(e) = Lo(m[c])
        /\ Addresses(e) = Addresses(m[c]) \cup Addresses(r)
    BY <1>1, <1>3, <1>5, <1>6, <2>1, Joining
  <2>3. n = [m EXCEPT ![c] = e]
    BY <1>6 DEF MergedWith, Joined
  <2> HIDE DEF e, n
  <2>4. n \in Seq(ValidRanges) /\ Len(n) = c
    BY <2>1, <2>2, <2>3, ExceptSeq
  <2>5. n[c] = e /\ \A k \in 1 .. c : k # c => n[k] = m[k]
    BY <2>1, <2>3, LenProperties, ExceptSeq
  <2>6. \A x : x \in RangeCoverage(n) <=> x \in RangeCoverage(m) \/ x \in Addresses(r)
    <3>1. \A x : x \in RangeCoverage(n) <=> \E k \in 1 .. c : x \in Addresses(n[k])
      BY <2>4, InCoverage
    <3>2. \A x : x \in RangeCoverage(m) <=> \E k \in 1 .. c : x \in Addresses(m[k])
      BY InCoverage
    <3> QED BY <2>1, <2>2, <2>5, <3>1, <3>2
  <2>7. Apart(n)
    <3> SUFFICES ASSUME NEW j \in 1 .. c, NEW k \in 1 .. c, j < k
                 PROVE  Behind(n[j], n[k])
      BY <2>4 DEF Apart
    <3>1. Behind(m[j], m[k]) /\ j # c
      BY DEF Apart
    <3>2. n[j] = m[j] /\ (n[k] = m[k] \/ (k = c /\ n[k] = e))
      BY <2>5, <3>1
    <3>3. Behind(m[j], m[c]) => Behind(m[j], e)
      BY <2>2 DEF Behind
    <3> QED BY <3>1, <3>2, <3>3
  <2>8. \A j \in 1 .. Len(n) : \A k \in 1 .. Len(t) : NotAfter(n[j], t[k])
    <3>1. \A k \in 1 .. Len(t) : NotAfter(e, t[k])
      BY <1>5, <2>1, <2>2 DEF NotAfter
    <3> QED BY <1>5, <2>4, <2>5, <3>1
  <2>9. RangeCoverage(n) \cup RangeCoverage(t) = RangeCoverage(m) \cup RangeCoverage(q)
    BY <1>1, <2>6
  <2> QED BY <1>4, <2>4, <2>7, <2>8, <2>9 DEF n, t, r
<1>7. CASE ~(c > 0 /\ m[c].family = r.family /\ TouchesOrOverlaps(m[c], r))
  <2>1. n = Append(m, r)
    BY <1>7 DEF MergedWith
  <2>2. /\ n \in Seq(ValidRanges) /\ Len(n) = c + 1 /\ n[c + 1] = r
        /\ \A k \in 1 .. c : n[k] = m[k]
        /\ RangeCoverage(n) = RangeCoverage(m) \cup Addresses(r)
    BY <1>1, <2>1, CoverageOfAppend
  <2> HIDE DEF n
  <2>3. ASSUME NEW j \in 1 .. c PROVE Behind(m[j], r)
    <3>1. c \in 1 .. c /\ m[c] \in ValidRanges /\ m[j] \in ValidRanges /\ NotAfter(m[c], r)
      BY <1>3, <1>5
    <3>2. Behind(m[c], r)
      <4>1. CASE m[c].family # r.family
        BY <3>1, <4>1 DEF NotAfter, Behind
      <4>2. CASE m[c].family = r.family
        <5>1. ~(Lo(r) <= Hi(m[c]) + 1)
          BY <1>1, <1>3, <1>7, <3>1, <4>2, Touching
        <5>2. Lo(r) \in Nat /\ Hi(m[c]) \in Nat
          BY <1>1, <3>1, RangeFacts
        <5> QED BY <4>2, <5>1, <5>2 DEF Behind
      <4> QED BY <4>1, <4>2
    <3>3. CASE j = c
      BY <3>2, <3>3
    <3>4. CASE j < c
      <4>1. Behind(m[j], m[c])
        BY <3>1, <3>4 DEF Apart
      <4> QED BY <1>1, <3>1, <3>2, <4>1, BehindTransitive
    <3> QED BY <3>3, <3>4, <1>3
  <2>4. Apart(n)
    <3> SUFFICES ASSUME NEW j \in 1 .. c + 1, NEW k \in 1 .. c + 1, j < k
                 PROVE  Behind(n[j], n[k])
      BY <2>2 DEF Apart
    <3>1. j \in 1 .. c /\ (k = c + 1 \/ k \in 1 .. c)
      BY <1>3
    <3> QED BY <2>2, <2>3, <3>1 DEF Apart
  <2>5. \A j \in 1 .. Len(n) : \A k \in 1 .. Len(t) : NotAfter(n[j], t[k])
    <3>1. \A j \in 1 .. Len(n) : j = c + 1 \/ j \in 1 .. c
      BY <1>3, <2>2
    <3> QED BY <1>5, <2>2, <3>1
  <2>6. RangeCoverage(n) \cup RangeCoverage(t) = RangeCoverage(m) \cup RangeCoverage(q)
    BY <1>1, <2>2
  <2> QED BY <1>4, <2>2, <2>4, <2>5, <2>6 DEF n, t, r
<1> QED BY <1>6, <1>7

-----------------------------------------------------------------------------
(* What steps of other loops leave alone *)

LEMMA SameQuestions ==
  ASSUME UNCHANGED <<input, side>>
  PROVE  /\ Minuend' = Minuend /\ Subtrahend' = Subtrahend
         /\ \A s : Only(s)' = Only(s)
BY DEF Minuend, Subtrahend, Only

\* Steps of the loops do not touch what was reported before.
LEMMA ResultKept ==
  ASSUME ResultInv, UNCHANGED <<input, side, endVars>>,
         pc \notin {"report", "done"}, pc' \notin {"report", "done"}
  PROVE  ResultInv'
<1>1. /\ \A s : Only(s)' = Only(s)
      /\ result' = result /\ status' = status /\ side' = side
      /\ \A s : Answered(s)' = Answered(s)
  BY SameQuestions DEF endVars, Answered
<1> QED BY <1>1 DEF ResultInv

\* Steps of subtractRanges change nothing of the other loops.
LEMMA ScanKeeps ==
  ASSUME MergeInv, OperandsInv, ResultInv,
         UNCHANGED <<input, side, mergeVars, left, right, emitVars, endVars>>,
         pc \in {"subtract", "scan"}, pc' \in {"subtract", "scan"}
  PROVE  MergeInv' /\ OperandsInv' /\ EmitInv' /\ ResultInv'
<1>1. ResultInv'
  BY ResultKept
<1>2. OperandsInv'
  BY SameQuestions DEF OperandsInv
<1>3. MergeInv'
  BY DEF MergeInv, mergeVars
<1>4. EmitInv'
  BY DEF EmitInv
<1> QED BY <1>1, <1>2, <1>3, <1>4

-----------------------------------------------------------------------------
(* Subtracting *)

\* What is left of c .. d before the first range of R that ends behind it.
LEMMA FreePiece ==
  ASSUME NEW R \in Seq(ValidRanges), Apart(R), NEW f \in Families, NEW c \in Nat,
         NEW d \in Int, NEW j \in 1 .. Len(R) + 1,
         \A k \in 1 .. j - 1 : EndsBefore(R[k], f, c),
         j <= Len(R) => R[j].family > f \/ (R[j].family = f /\ d < Lo(R[j]))
  PROVE  \A x \in Pairs :
           x[1] = f /\ c <= x[2] /\ x[2] <= d => x \notin RangeCoverage(R)
<1> SUFFICES ASSUME NEW x \in Pairs, x[1] = f, c <= x[2], x[2] <= d,
                    NEW k \in 1 .. Len(R), x \in Addresses(R[k])
             PROVE  FALSE
  BY InCoverage
<1>1. /\ R[k] \in ValidRanges /\ Len(R) \in Nat /\ x[2] \in Nat /\ f \in Nat
      /\ R[k].family = f /\ Lo(R[k]) <= x[2] /\ x[2] <= Hi(R[k])
      /\ Lo(R[k]) \in Nat /\ Hi(R[k]) \in Nat
  BY ElementOfSeq, LenProperties, InAddresses, RangeFacts, Widths DEF Pairs
<1>2. k \notin 1 .. j - 1
  BY <1>1, SMTT(20) DEF EndsBefore
<1>3. j <= k /\ j \in 1 .. Len(R)
  BY <1>1, <1>2
<1>4. R[j] \in ValidRanges /\ R[j].family \in Nat /\ Lo(R[j]) \in Nat /\ Hi(R[j]) \in Nat
      /\ Lo(R[j]) <= Hi(R[j])
  BY <1>3, ElementOfSeq, RangeFacts
<1>5. CASE k = j
  BY <1>1, <1>3, <1>4, <1>5
<1>6. CASE j < k
  <2>1. Behind(R[j], R[k])
    BY <1>3, <1>6 DEF Apart
  <2> QED BY <1>1, <1>3, <1>4, <2>1, SMTT(20) DEF Behind
<1> QED BY <1>3, <1>5, <1>6

\* One more range lies behind the scan.
LEMMA BelowGrows ==
  ASSUME l \in Nat \ {0}, l' = l + 1, left' = left
  PROVE  LeftBelow' = LeftBelow \cup Addresses(left[l])
<1>1. \A k : k \in 1 .. l' - 1 <=> k \in 1 .. l - 1 \/ k = l
  OBVIOUS
<1>2. \A x : x \in LeftBelow' <=> \E k \in 1 .. l' - 1 : x \in Addresses(left[k])
  BY DEF LeftBelow
<1>3. \A x : x \in LeftBelow <=> \E k \in 1 .. l - 1 : x \in Addresses(left[k])
  BY DEF LeftBelow
<1> QED BY <1>1, <1>2, <1>3

\* Every action keeps the invariant; first those of subtractRanges.
LEMMA SkipRightStep ==
  ASSUME IInv, SkipRight
  PROVE  IInv'
<1> USE DEF IInv
<1>1. /\ pc = "subtract" /\ l <= Len(left) /\ rightIndex <= Len(right)
      /\ Before(right[rightIndex], left[l]) /\ rightIndex' = rightIndex + 1
      /\ UNCHANGED <<input, side, pc, mergeVars, left, right, l, i, cursor, out,
                     emitVars, endVars>>
  BY DEF SkipRight
<1>2. MergeInv' /\ OperandsInv' /\ EmitInv' /\ ResultInv'
  BY <1>1, ScanKeeps
<1>3. TypeInv'
  <2>1. Len(right) \in Nat
    BY LenProperties DEF TypeInv
  <2>2. rightIndex' \in 1 .. Len(right)' + 1
    BY <1>1, <2>1 DEF TypeInv
  <2> QED BY <1>1, <2>2 DEF TypeInv, mergeVars, emitVars, endVars
<1>4. ScanInv'
  BY <1>1 DEF ScanInv
<1>5. SubtractInv'
  <2> DEFINE r == right[rightIndex]
  <2>0. /\ left \in Seq(ValidRanges) /\ right \in Seq(ValidRanges)
        /\ l \in 1 .. Len(left) /\ Len(left) \in Nat
        /\ rightIndex \in 1 .. Len(right) /\ Apart(left)
    BY <1>1, LenProperties DEF TypeInv, OperandsInv
  <2>1. r \in ValidRanges /\ left[l] \in ValidRanges
    BY <2>0, ElementOfSeq
  <2>2. EndsBefore(r, left[l].family, Lo(left[l]))
    BY <1>1, <2>1, RangeFacts, Compare DEF Before, EndsBefore, Lo, Hi
  <2>3. ASSUME NEW m \in l .. Len(left)
        PROVE  EndsBefore(r, left[m].family, Lo(left[m]))
    <3>1. left[m] \in ValidRanges /\ m \in 1 .. Len(left)
      BY <2>0, ElementOfSeq
    <3>2. CASE m = l
      BY <2>2, <3>2
    <3>3. CASE l < m
      <4>1. Behind(left[l], left[m])
        BY <2>0, <3>1, <3>3 DEF Apart
      <4> QED BY <2>1, <2>2, <3>1, <4>1, RangeFacts DEF Behind, EndsBefore
    <3> QED BY <2>0, <3>2, <3>3
  <2>4. \A k \in 1 .. rightIndex' - 1 : k = rightIndex \/ k \in 1 .. rightIndex - 1
    BY <1>1, <2>0
  <2>5. \A k \in 1 .. rightIndex' - 1 : \A m \in l .. Len(left) :
          EndsBefore(right[k], left[m].family, Lo(left[m]))
    BY <1>1, <2>3, <2>4 DEF SubtractInv
  <2>6. LeftBelow' = LeftBelow
    BY <1>1 DEF LeftBelow
  <2> QED BY <1>1, <2>5, <2>6 DEF SubtractInv
<1> QED BY <1>2, <1>3, <1>4, <1>5

LEMMA BeginScanStep ==
  ASSUME IInv, BeginScan
  PROVE  IInv'
<1> USE DEF IInv
<1>1. /\ pc = "subtract" /\ l <= Len(left) /\ pc' = "scan"
      /\ cursor' = left[l].start /\ i' = rightIndex
      /\ UNCHANGED <<input, side, mergeVars, left, right, l, rightIndex, out,
                     emitVars, endVars>>
  BY DEF BeginScan
<1>2. MergeInv' /\ OperandsInv' /\ EmitInv' /\ ResultInv'
  BY <1>1, ScanKeeps
<1>0. /\ left \in Seq(ValidRanges) /\ right \in Seq(ValidRanges) /\ out \in Seq(ValidRanges)
      /\ l \in 1 .. Len(left) /\ Len(left) \in Nat /\ Len(right) \in Nat
      /\ rightIndex \in 1 .. Len(right) + 1 /\ left[l] \in ValidRanges
  BY <1>1, LenProperties, ElementOfSeq DEF TypeInv
<1>3. /\ cursor' \in Uint128s /\ Number(cursor') = Lo(left[l])
      /\ Lo(left[l]) \in Nat /\ Hi(left[l]) \in Nat /\ Lo(left[l]) <= Hi(left[l])
      /\ left[l].family \in Families
  BY <1>0, <1>1, RangeFacts DEF Lo
<1>4. TypeInv'
  BY <1>0, <1>1, <1>3 DEF TypeInv, mergeVars, emitVars, endVars
<1>5. LeftBelow' = LeftBelow
  BY <1>1 DEF LeftBelow
<1>6. SubtractInv'
  BY <1>1, <1>5 DEF SubtractInv
<1>7. ScanInv'
  <2>1. Addresses(left[l]) \ Between(left[l].family, Lo(left[l]), Hi(left[l])) = {}
    BY DEF Addresses, Lo, Hi
  <2>2. l \in l .. Len(left)
    BY <1>0
  <2>3. \A k \in 1 .. i' - 1 : EndsBefore(right[k], left[l].family, Number(cursor'))
    BY <1>1, <1>3, <2>2 DEF SubtractInv
  <2>4. \A k \in 1 .. Len(out) : EndsWellBefore(out[k], left[l].family, Number(cursor'))
    BY <1>1, <1>3, <2>2 DEF SubtractInv, Behind, EndsWellBefore
  <2>5. RangeCoverage(out) = LeftBelow \ RangeCoverage(right)
    BY <1>1 DEF SubtractInv
  <2>6. i' <= Len(right) + 1
    BY <1>0, <1>1
  <2> QED BY <1>0, <1>1, <1>3, <1>5, <2>1, <2>3, <2>4, <2>5, <2>6 DEF ScanInv
<1> QED BY <1>2, <1>4, <1>6, <1>7

\* A piece appended behind the pieces there are.
LEMMA AppendPiece ==
  ASSUME NEW s \in Seq(ValidRanges), Apart(s), NEW p \in ValidRanges,
         \A k \in 1 .. Len(s) : EndsWellBefore(s[k], p.family, Lo(p))
  PROVE  Append(s, p) \in Seq(ValidRanges) /\ Apart(Append(s, p))
<1> DEFINE t == Append(s, p)
<1>1. /\ t \in Seq(ValidRanges) /\ Len(t) = Len(s) + 1 /\ Len(s) \in Nat
      /\ t[Len(s) + 1] = p /\ \A k \in 1 .. Len(s) : t[k] = s[k]
  BY CoverageOfAppend
<1> HIDE DEF t
<1>2. Apart(t)
  <2> SUFFICES ASSUME NEW j \in 1 .. Len(s) + 1, NEW k \in 1 .. Len(s) + 1, j < k
               PROVE  Behind(t[j], t[k])
    BY <1>1 DEF Apart
  <2>1. j \in 1 .. Len(s) /\ (k = Len(s) + 1 \/ k \in 1 .. Len(s))
    BY <1>1
  <2> QED BY <1>1, <2>1 DEF Apart, Behind, EndsWellBefore
<1> QED BY <1>1, <1>2 DEF t

\* What Cut keeps, when it does: the addresses from the cursor to the range r.
Kept(s, m, r, c) ==
  IF Less(c, r.start)
  THEN Append(s, [family |-> m.family, start |-> c, end |-> Decrement(r.start)])
  ELSE s

\* Such a piece is apart from those before it and from what comes behind r.
LEMMA KeptPiece ==
  ASSUME NEW s \in Seq(ValidRanges), Apart(s), NEW m \in ValidRanges,
         NEW r \in ValidRanges, r.family = m.family, NEW c \in Uint128s,
         Number(c) <= Hi(m), Number(c) <= Hi(r), Lo(r) <= Hi(m),
         \A k \in 1 .. Len(s) : EndsWellBefore(s[k], m.family, Number(c)),
         NEW t, t = Kept(s, m, r, c)
  PROVE  /\ t \in Seq(ValidRanges) /\ Apart(t)
         /\ \A k \in 1 .. Len(t) :
              t[k].family < m.family
              \/ (t[k].family = m.family /\ Hi(t[k]) + 1 <= Hi(r) /\ Hi(t[k]) + 1 <= Hi(m))
         /\ \A x \in Pairs : x \in RangeCoverage(t) <=>
              \/ x \in RangeCoverage(s)
              \/ x[1] = m.family /\ Number(c) <= x[2] /\ x[2] < Lo(r)
<1> DEFINE f == m.family
           n == Number(c)
           p == [family |-> f, start |-> c, end |-> Decrement(r.start)]
<1>1. /\ f \in Families /\ f \in Nat /\ n \in Nat /\ r.start \in Uint128s
      /\ Lo(r) \in Nat /\ Hi(r) \in Nat /\ Hi(m) \in Nat /\ Lo(r) <= Hi(r)
      /\ Hi(r) < Pow2[f] /\ Pow2[f] \in Nat
      /\ (Less(c, r.start) <=> n < Lo(r))
  <2>1. /\ f \in Families /\ f \in Nat /\ Hi(m) \in Nat
    BY RangeFacts
  <2>2. /\ r.start \in Uint128s /\ Lo(r) \in Nat /\ Hi(r) \in Nat /\ Lo(r) <= Hi(r)
        /\ Hi(r) < Pow2[f] /\ Pow2[f] \in Nat
    BY RangeFacts
  <2>3. n \in Nat
    BY NumberFacts
  <2>4. Less(c, r.start) <=> n < Lo(r)
    BY <2>2, Compare DEF Lo
  <2> QED BY <2>1, <2>2, <2>3, <2>4
<1>2. \A k \in 1 .. Len(s) :
        /\ s[k].family < f
           \/ (s[k].family = f /\ Hi(s[k]) + 1 <= Hi(r) /\ Hi(s[k]) + 1 <= Hi(m))
  <2> SUFFICES ASSUME NEW k \in 1 .. Len(s)
               PROVE  s[k].family < f \/ (s[k].family = f /\ Hi(s[k]) + 1 <= Hi(r)
                                                          /\ Hi(s[k]) + 1 <= Hi(m))
    OBVIOUS
  <2>1. s[k] \in ValidRanges
    BY ElementOfSeq
  <2>2. Hi(s[k]) \in Nat
    BY <2>1, RangeFacts
  <2> QED BY <1>1, <2>2 DEF EndsWellBefore
<1>3. \A x \in Pairs : x[2] \in Nat
  BY DEF Pairs
<1>4. CASE ~(n < Lo(r))
  <2>1. t = s
    BY <1>1, <1>4 DEF Kept
  <2> QED BY <1>1, <1>2, <1>3, <1>4, <2>1
<1>5. CASE n < Lo(r)
  <2>1. t = Append(s, p)
    BY <1>1, <1>5 DEF Kept
  <2>2. /\ p.family = f /\ p.start = c /\ p.end = Decrement(r.start)
        /\ Lo(p) = n /\ Hi(p) = Lo(r) - 1 /\ p.end \in Uint128s
    BY <1>1, <1>5, DecrementFacts DEF Lo, Hi
  <2>3. p \in ValidRanges
    BY <1>1, <1>5, <2>2 DEF ValidRanges, Ranges
  <2> HIDE DEF p
  <2>4. t \in Seq(ValidRanges) /\ Apart(t)
    BY <2>1, <2>2, <2>3, AppendPiece
  <2>5. /\ Len(t) = Len(s) + 1 /\ Len(s) \in Nat
        /\ t[Len(s) + 1] = p /\ \A k \in 1 .. Len(s) : t[k] = s[k]
        /\ RangeCoverage(t) = RangeCoverage(s) \cup Addresses(p)
    BY <2>1, <2>3, CoverageOfAppend
  <2>6. \A k \in 1 .. Len(t) : k = Len(s) + 1 \/ k \in 1 .. Len(s)
    BY <2>5
  <2>7. Hi(p) + 1 <= Hi(r) /\ Hi(p) + 1 <= Hi(m)
    BY <1>1, <2>2
  <2>8. \A x \in Pairs : x \in Addresses(p) <=> x[1] = f /\ n <= x[2] /\ x[2] < Lo(r)
    BY <1>1, <1>3, <2>2, <2>3, InAddresses
  <2> QED BY <1>2, <2>2, <2>4, <2>5, <2>6, <2>7, <2>8
<1> QED BY <1>4, <1>5

\* Ranges that lie before the end of left[l] lie before what follows it.
LEMMA BehindTheRest ==
  ASSUME NEW s \in Seq(ValidRanges), NEW L \in Seq(ValidRanges), Apart(L),
         NEW n \in 1 .. Len(L),
         \A k \in 1 .. Len(s) :
           s[k].family < L[n].family
           \/ (s[k].family = L[n].family /\ Hi(s[k]) <= Hi(L[n]))
  PROVE  \A k \in 1 .. Len(s) : \A m \in n + 1 .. Len(L) : Behind(s[k], L[m])
<1> SUFFICES ASSUME NEW k \in 1 .. Len(s), NEW m \in n + 1 .. Len(L)
             PROVE  Behind(s[k], L[m])
  OBVIOUS
<1>1. Len(L) \in Nat /\ m \in 1 .. Len(L) /\ n < m
  BY LenProperties
<1>2. Behind(L[n], L[m])
  BY <1>1 DEF Apart
<1>3. s[k] \in ValidRanges /\ L[n] \in ValidRanges /\ L[m] \in ValidRanges
  BY <1>1, ElementOfSeq
<1>4. Hi(s[k]) \in Nat /\ s[k].family \in Nat
  BY <1>3, RangeFacts
<1>5. Hi(L[n]) \in Nat /\ L[n].family \in Nat
  BY <1>3, RangeFacts
<1>6. Lo(L[m]) \in Nat /\ L[m].family \in Nat
  BY <1>3, RangeFacts
<1>7. s[k].family < L[n].family
      \/ (s[k].family = L[n].family /\ Hi(s[k]) <= Hi(L[n]))
  OBVIOUS
<1>8. CASE s[k].family < L[n].family
  BY <1>2, <1>4, <1>5, <1>6, <1>8, SMTT(20) DEF Behind
<1>9. CASE s[k].family = L[n].family /\ Hi(s[k]) <= Hi(L[n])
  BY <1>2, <1>4, <1>5, <1>6, <1>9 DEF Behind
<1> QED BY <1>7, <1>8, <1>9

LEMMA CutStep ==
  ASSUME IInv, Cut
  PROVE  IInv'
<1> USE DEF IInv
<1> DEFINE m == left[l]
           r == right[i]
           f == m.family
           c == Number(cursor)
<1>0. /\ pc = "scan" /\ i <= Len(right) /\ ~Beyond(r, m)
      /\ UNCHANGED <<input, side, mergeVars, left, right, rightIndex, emitVars,
                     endVars>>
  BY DEF Cut
<1>1. /\ left \in Seq(ValidRanges) /\ right \in Seq(ValidRanges) /\ out \in Seq(ValidRanges)
      /\ l \in 1 .. Len(left) /\ l \in Nat \ {0} /\ Len(left) \in Nat /\ Len(right) \in Nat
      /\ rightIndex \in 1 .. Len(right) + 1 /\ i \in 1 .. Len(right) /\ i \in Nat \ {0}
      /\ cursor \in Uint128s /\ Apart(left) /\ Apart(right) /\ Apart(out)
  BY <1>0, LenProperties DEF TypeInv, ScanInv, OperandsInv, SubtractInv
<1>2. m \in ValidRanges /\ r \in ValidRanges
  BY <1>1, ElementOfSeq
<1>3. /\ f \in Families /\ f \in Nat /\ r.family \in Nat /\ c \in Nat
      /\ Lo(m) \in Nat /\ Hi(m) \in Nat /\ Lo(r) \in Nat /\ Hi(r) \in Nat
      /\ Lo(m) <= Hi(m) /\ Lo(r) <= Hi(r) /\ Hi(m) < Pow2[V6] /\ Pow2[V6] \in Nat
      /\ (Less(r.end, cursor) <=> Hi(r) < c)
      /\ (AtMost(m.end, r.end) <=> Hi(m) <= Hi(r))
      /\ (Less(m.end, r.start) <=> Hi(m) < Lo(r))
  <2>1. /\ f \in Families /\ f \in Nat /\ m.end \in Uint128s
        /\ Lo(m) \in Nat /\ Hi(m) \in Nat /\ Lo(m) <= Hi(m) /\ Hi(m) < Pow2[V6]
        /\ Pow2[V6] \in Nat
    <3>1. /\ f \in Families /\ f \in Nat /\ m.end \in Uint128s
          /\ Lo(m) \in Nat /\ Hi(m) \in Nat /\ Lo(m) <= Hi(m) /\ Hi(m) < Pow2[f]
          /\ Pow2[f] \in Nat /\ Pow2[f] <= Pow2[V6] /\ Pow2[V6] \in Nat
      BY <1>2, RangeFacts
    <3> QED BY <3>1
  <2>2. /\ r.family \in Nat /\ Lo(r) \in Nat /\ Hi(r) \in Nat /\ Lo(r) <= Hi(r)
        /\ r.start \in Uint128s /\ r.end \in Uint128s
    BY <1>2, RangeFacts
  <2>3. c \in Nat
    BY <1>1, NumberFacts
  <2>4. Less(r.end, cursor) <=> Hi(r) < c
    BY <1>1, <2>2, Compare DEF Hi
  <2>5. AtMost(m.end, r.end) <=> Hi(m) <= Hi(r)
    BY <2>1, <2>2, Compare DEF Hi
  <2>6. Less(m.end, r.start) <=> Hi(m) < Lo(r)
    BY <2>1, <2>2, Compare DEF Lo, Hi
  <2> QED BY <2>1, <2>2, <2>3, <2>4, <2>5, <2>6
<1>4. /\ Lo(m) <= c /\ c <= Hi(m)
      /\ \A k \in 1 .. i - 1 : EndsBefore(right[k], f, c)
      /\ \A k \in 1 .. Len(out) : EndsWellBefore(out[k], f, c)
      /\ RangeCoverage(out) = (LeftBelow \cup (Addresses(m) \ Between(f, c, Hi(m))))
                                 \ RangeCoverage(right)
  BY <1>0 DEF ScanInv
<1>5. r.family <= f /\ (r.family = f => Lo(r) <= Hi(m))
  BY <1>0, <1>3 DEF Beyond
<1>6. /\ \A x \in Pairs : x[2] \in Nat
      /\ \A x \in Pairs : x \in Addresses(m) <=> x[1] = f /\ Lo(m) <= x[2] /\ x[2] <= Hi(m)
      /\ \A x \in Pairs : x \in Addresses(r) <=> x[1] = r.family /\ Lo(r) <= x[2] /\ x[2] <= Hi(r)
      /\ \A x \in Pairs : x \in Between(f, c, Hi(m)) <=> x[1] = f /\ c <= x[2] /\ x[2] <= Hi(m)
      /\ Addresses(r) \subseteq RangeCoverage(right)
      /\ RangeCoverage(right) \subseteq Pairs /\ Addresses(m) \subseteq Pairs
  BY <1>1, <1>2, <1>3, InAddresses, InBetween, InCoverage DEF Pairs
<1>7. CASE r.family < f \/ Less(r.end, cursor)
  <2>1. i' = i + 1 /\ UNCHANGED <<l, pc, cursor, out>>
    BY <1>7 DEF Cut
  <2>2. MergeInv' /\ OperandsInv' /\ EmitInv' /\ ResultInv'
    BY <1>0, <2>1, ScanKeeps
  <2>3. TypeInv'
    BY <1>0, <1>1, <2>1 DEF TypeInv, mergeVars, emitVars, endVars
  <2>4. LeftBelow' = LeftBelow
    BY <1>0, <2>1 DEF LeftBelow
  <2>5. SubtractInv'
    BY <1>0, <2>1, <2>4 DEF SubtractInv
  <2>6. EndsBefore(r, f, c)
    BY <1>3, <1>5, <1>7 DEF EndsBefore
  <2>7. \A k \in 1 .. i' - 1 : k = i \/ k \in 1 .. i - 1
    BY <1>1, <2>1
  <2>8. \A k \in 1 .. i' - 1 : EndsBefore(right[k], f, c)
    BY <1>4, <2>6, <2>7
  <2>9. i' <= Len(right) + 1
    BY <1>1, <2>1
  <2>10. ScanInv'
    BY <1>0, <1>1, <1>4, <2>1, <2>4, <2>8, <2>9 DEF ScanInv
  <2> QED BY <2>2, <2>3, <2>5, <2>10
<1>8. CASE ~(r.family < f \/ Less(r.end, cursor))
  <2>1. r.family = f /\ c <= Hi(r) /\ Lo(r) <= Hi(m)
    BY <1>3, <1>5, <1>8
  <2>2. out' = Kept(out, m, r, cursor)
    BY <1>8 DEF Cut, Kept
  <2>3. /\ out' \in Seq(ValidRanges) /\ Apart(out')
        /\ \A k \in 1 .. Len(out') :
             out'[k].family < f
             \/ (out'[k].family = f /\ Hi(out'[k]) + 1 <= Hi(r) /\ Hi(out'[k]) + 1 <= Hi(m))
        /\ \A x \in Pairs : x \in RangeCoverage(out') <=>
             \/ x \in RangeCoverage(out)
             \/ x[1] = f /\ c <= x[2] /\ x[2] < Lo(r)
    <3> HIDE DEF m, r, c
    <3>1. /\ f = m.family /\ Number(cursor) <= Hi(m) /\ Number(cursor) <= Hi(r)
          /\ c = Number(cursor)
          /\ \A k \in 1 .. Len(out) : EndsWellBefore(out[k], m.family, Number(cursor))
      BY <1>4, <2>1 DEF c
    <3>2. /\ out \in Seq(ValidRanges) /\ Apart(out) /\ m \in ValidRanges
          /\ r \in ValidRanges /\ r.family = m.family /\ cursor \in Uint128s
          /\ Lo(r) <= Hi(m)
      BY <1>1, <1>2, <2>1
    <3> QED BY <2>2, <3>1, <3>2, KeptPiece
  <2>4. \A x \in Pairs :
          x[1] = f /\ c <= x[2] /\ x[2] <= Lo(r) - 1 => x \notin RangeCoverage(right)
    <3>1. i <= Len(right) => right[i].family > f \/ (right[i].family = f /\ Lo(r) - 1 < Lo(right[i]))
      BY <1>3, <2>1
    <3>2. i \in 1 .. Len(right) + 1 /\ Lo(r) - 1 \in Int
      BY <1>1, <1>3
    <3> QED BY <1>1, <1>3, <1>4, <3>1, <3>2, FreePiece
  <2>5. \A k \in 1 .. Len(out') : Hi(out'[k]) \in Nat
    BY <2>3, ElementOfSeq, RangeFacts
  <2>6. LeftBelow \subseteq Pairs /\ RangeCoverage(out') \subseteq Pairs
    <3>1. \A k \in 1 .. l - 1 : Addresses(left[k]) \subseteq Pairs
      BY <1>1, ElementOfSeq, InAddresses
    <3> QED BY <2>3, <3>1, InCoverage DEF LeftBelow
  <2>7. CASE AtMost(m.end, r.end)
    <3>1. l' = l + 1 /\ pc' = "subtract" /\ UNCHANGED <<i, cursor>>
      BY <1>8, <2>7 DEF Cut
    <3>2. MergeInv' /\ OperandsInv' /\ EmitInv' /\ ResultInv'
      BY <1>0, <3>1, ScanKeeps
    <3>3. TypeInv'
      BY <1>0, <1>1, <2>3, <3>1 DEF TypeInv, mergeVars, emitVars, endVars
    <3>4. ScanInv'
      BY <3>1 DEF ScanInv
    <3>5. LeftBelow' = LeftBelow \cup Addresses(m)
      BY <1>0, <1>1, <3>1, BelowGrows
    <3>6. \A x \in Pairs : x \in RangeCoverage(out') <=>
            x \in LeftBelow \cup Addresses(m) /\ x \notin RangeCoverage(right)
      BY <1>3, <1>4, <1>6, <2>1, <2>3, <2>4, <2>7
    <3>7. RangeCoverage(out') = LeftBelow' \ RangeCoverage(right)
      BY <1>6, <2>6, <3>5, <3>6
    <3>8. \A k \in 1 .. Len(out') : \A n \in l + 1 .. Len(left) : Behind(out'[k], left[n])
      <4>1. \A k \in 1 .. Len(out') :
              out'[k].family < m.family \/ (out'[k].family = m.family /\ Hi(out'[k]) <= Hi(m))
        BY <1>3, <2>3, <2>5
      <4> QED BY <1>1, <2>3, <4>1, BehindTheRest
    <3>9. /\ l + 1 <= Len(left) + 1
          /\ \A n \in l + 1 .. Len(left) : n \in l .. Len(left)
      BY <1>1
    <3>10. SubtractInv'
      BY <1>0, <2>3, <3>1, <3>7, <3>8, <3>9 DEF SubtractInv
    <3> QED BY <3>2, <3>3, <3>4, <3>10
  <2>8. CASE ~AtMost(m.end, r.end)
    <3>1. cursor' = Increment(r.end) /\ i' = i + 1 /\ UNCHANGED <<l, pc>>
      BY <1>8, <2>8 DEF Cut
    <3>2. MergeInv' /\ OperandsInv' /\ EmitInv' /\ ResultInv'
      BY <1>0, <3>1, ScanKeeps
    <3>3. Hi(r) < Hi(m)
      BY <1>3, <2>8
    <3>4. cursor' \in Uint128s /\ Number(cursor') = Hi(r) + 1
      <4>1. r.end \in Uint128s /\ Hi(r) < Pow2[V6] - 1
        BY <1>2, <1>3, <3>3, RangeFacts
      <4> QED BY <3>1, <4>1, IncrementFacts DEF Hi
    <3>5. TypeInv'
      BY <1>0, <1>1, <2>3, <3>1, <3>4 DEF TypeInv, mergeVars, emitVars, endVars
    <3>6. LeftBelow' = LeftBelow
      BY <1>0, <3>1 DEF LeftBelow
    <3>7. SubtractInv'
      BY <1>0, <2>3, <3>1 DEF SubtractInv
    <3>8. \A k \in 1 .. i' - 1 : EndsBefore(right[k], f, Hi(r) + 1)
      <4> SUFFICES ASSUME NEW k \in 1 .. i PROVE EndsBefore(right[k], f, Hi(r) + 1)
        BY <1>1, <3>1
      <4>1. CASE k = i
        BY <1>3, <2>1, <4>1 DEF EndsBefore
      <4>2. CASE k \in 1 .. i - 1
        <5>1. right[k] \in ValidRanges
          BY <1>1, <4>2, ElementOfSeq
        <5>2. Hi(right[k]) \in Nat /\ EndsBefore(right[k], f, c)
          BY <1>4, <4>2, <5>1, RangeFacts
        <5> QED BY <1>3, <2>1, <5>2 DEF EndsBefore
      <4> QED BY <1>1, <4>1, <4>2
    <3>9. \A k \in 1 .. Len(out') : EndsWellBefore(out'[k], f, Hi(r) + 1)
      BY <1>3, <2>3, <2>5 DEF EndsWellBefore
    <3>10. \A x \in Pairs : x \in Between(f, Hi(r) + 1, Hi(m)) <=>
              x[1] = f /\ Hi(r) + 1 <= x[2] /\ x[2] <= Hi(m)
      BY <1>3, Hi(r) + 1 \in Nat, InBetween
    <3>11. \A x \in Pairs : x \in RangeCoverage(out') <=>
             /\ x \in LeftBelow \/ (x \in Addresses(m) /\ x \notin Between(f, Hi(r) + 1, Hi(m)))
             /\ x \notin RangeCoverage(right)
      BY <1>3, <1>4, <1>6, <2>1, <2>3, <2>4, <3>3, <3>10
    <3>12. RangeCoverage(out') =
             (LeftBelow \cup (Addresses(m) \ Between(f, Hi(r) + 1, Hi(m)))) \ RangeCoverage(right)
      BY <1>6, <2>6, <3>11
    <3>13. l <= Len(left) /\ i' <= Len(right) + 1 /\ Lo(m) <= Hi(r) + 1 /\ Hi(r) + 1 <= Hi(m)
      BY <1>1, <1>3, <1>4, <2>1, <3>1, <3>3, SMTT(20)
    <3>14. ScanInv'
      BY <1>0, <3>1, <3>4, <3>6, <3>8, <3>9, <3>12, <3>13 DEF ScanInv
    <3> QED BY <3>2, <3>5, <3>7, <3>14
  <2> QED BY <2>7, <2>8
<1> QED BY <1>7, <1>8

LEMMA KeepRestStep ==
  ASSUME IInv, KeepRest
  PROVE  IInv'
<1> USE DEF IInv
<1> DEFINE m == left[l]
           f == m.family
           c == Number(cursor)
           p == [m EXCEPT !.start = cursor]
<1>0. /\ pc = "scan" /\ (i <= Len(right) => Beyond(right[i], m))
      /\ out' = (IF AtMost(cursor, m.end) THEN Append(out, p) ELSE out)
      /\ l' = l + 1 /\ pc' = "subtract"
      /\ UNCHANGED <<input, side, mergeVars, left, right, rightIndex, i, cursor,
                     emitVars, endVars>>
  BY DEF KeepRest
<1>1. /\ left \in Seq(ValidRanges) /\ right \in Seq(ValidRanges) /\ out \in Seq(ValidRanges)
      /\ l \in 1 .. Len(left) /\ l \in Nat \ {0} /\ Len(left) \in Nat /\ Len(right) \in Nat
      /\ rightIndex \in 1 .. Len(right) + 1 /\ i \in 1 .. Len(right) + 1 /\ i \in Nat \ {0}
      /\ cursor \in Uint128s /\ Apart(left) /\ Apart(right) /\ Apart(out)
  BY <1>0, LenProperties DEF TypeInv, ScanInv, OperandsInv, SubtractInv
<1>2. m \in ValidRanges
  BY <1>1, ElementOfSeq
<1>3. /\ f \in Families /\ f \in Nat /\ c \in Nat /\ m.end \in Uint128s
      /\ Lo(m) \in Nat /\ Hi(m) \in Nat /\ Lo(m) <= Hi(m) /\ Hi(m) < Pow2[f]
      /\ m = [family |-> m.family, start |-> m.start, end |-> m.end]
      /\ (AtMost(cursor, m.end) <=> c <= Hi(m))
  <2>1. /\ f \in Families /\ f \in Nat /\ m.end \in Uint128s
        /\ Lo(m) \in Nat /\ Hi(m) \in Nat /\ Lo(m) <= Hi(m) /\ Hi(m) < Pow2[f]
        /\ m = [family |-> m.family, start |-> m.start, end |-> m.end]
    BY <1>2, RangeFacts
  <2>2. c \in Nat
    BY <1>1, NumberFacts
  <2>3. AtMost(cursor, m.end) <=> c <= Hi(m)
    BY <1>1, <2>1, Compare DEF Hi
  <2> QED BY <2>1, <2>2, <2>3
<1>4. /\ Lo(m) <= c /\ c <= Hi(m)
      /\ \A k \in 1 .. i - 1 : EndsBefore(right[k], f, c)
      /\ \A k \in 1 .. Len(out) : EndsWellBefore(out[k], f, c)
      /\ RangeCoverage(out) = (LeftBelow \cup (Addresses(m) \ Between(f, c, Hi(m))))
                                 \ RangeCoverage(right)
  BY <1>0 DEF ScanInv
<1>5. out' = Append(out, p)
  BY <1>0, <1>3, <1>4
<1>6. /\ p = [family |-> f, start |-> cursor, end |-> m.end]
      /\ p.family = f /\ Lo(p) = c /\ Hi(p) = Hi(m)
  BY <1>3 DEF Lo, Hi
<1>7. p \in ValidRanges
  BY <1>1, <1>3, <1>4, <1>6 DEF ValidRanges, Ranges
<1> HIDE DEF p
<1>8. out' \in Seq(ValidRanges) /\ Apart(out')
  BY <1>1, <1>4, <1>5, <1>6, <1>7, AppendPiece
<1>9. /\ Len(out') = Len(out) + 1 /\ Len(out) \in Nat
      /\ out'[Len(out) + 1] = p /\ \A k \in 1 .. Len(out) : out'[k] = out[k]
      /\ RangeCoverage(out') = RangeCoverage(out) \cup Addresses(p)
  BY <1>1, <1>5, <1>7, CoverageOfAppend
<1>10. MergeInv' /\ OperandsInv' /\ EmitInv' /\ ResultInv'
  BY <1>0, ScanKeeps
<1>11. TypeInv'
  BY <1>0, <1>1, <1>8 DEF TypeInv, mergeVars, emitVars, endVars
<1>12. ScanInv'
  BY <1>0 DEF ScanInv
<1>13. LeftBelow' = LeftBelow \cup Addresses(m)
  BY <1>0, <1>1, BelowGrows
<1>14. \A x \in Pairs : x[1] = f /\ c <= x[2] /\ x[2] <= Hi(m) => x \notin RangeCoverage(right)
  <2>1. i <= Len(right) => right[i].family > f \/ (right[i].family = f /\ Hi(m) < Lo(right[i]))
    <3> SUFFICES ASSUME i <= Len(right)
                 PROVE  right[i].family > f \/ (right[i].family = f /\ Hi(m) < Lo(right[i]))
      OBVIOUS
    <3>1. right[i] \in ValidRanges /\ Beyond(right[i], m)
      BY <1>0, <1>1, ElementOfSeq
    <3>2. Less(m.end, right[i].start) <=> Hi(m) < Lo(right[i])
      BY <1>3, <3>1, RangeFacts, Compare DEF Lo, Hi
    <3> QED BY <3>1, <3>2 DEF Beyond
  <2>2. Hi(m) \in Int
    BY <1>3
  <2> QED BY <1>1, <1>3, <1>4, <2>1, <2>2, FreePiece
<1>15. /\ \A x \in Pairs : x[2] \in Nat
       /\ \A x \in Pairs : x \in Addresses(m) <=> x[1] = f /\ Lo(m) <= x[2] /\ x[2] <= Hi(m)
       /\ \A x \in Pairs : x \in Addresses(p) <=> x[1] = f /\ c <= x[2] /\ x[2] <= Hi(m)
       /\ \A x \in Pairs : x \in Between(f, c, Hi(m)) <=> x[1] = f /\ c <= x[2] /\ x[2] <= Hi(m)
       /\ Addresses(m) \subseteq Pairs /\ RangeCoverage(out') \subseteq Pairs
  BY <1>2, <1>3, <1>6, <1>7, <1>8, InAddresses, InBetween, InCoverage DEF Pairs
<1>16. LeftBelow \subseteq Pairs
  <2>1. \A k \in 1 .. l - 1 : Addresses(left[k]) \subseteq Pairs
    BY <1>1, ElementOfSeq, InAddresses
  <2> QED BY <2>1 DEF LeftBelow
<1>17. \A x \in Pairs : x \in RangeCoverage(out') <=>
         x \in LeftBelow \cup Addresses(m) /\ x \notin RangeCoverage(right)
  BY <1>3, <1>4, <1>9, <1>14, <1>15
<1>18. RangeCoverage(out') = LeftBelow' \ RangeCoverage(right)
  BY <1>13, <1>15, <1>16, <1>17
<1>19. \A k \in 1 .. Len(out') :
         out'[k].family < m.family \/ (out'[k].family = m.family /\ Hi(out'[k]) <= Hi(m))
  <2> SUFFICES ASSUME NEW k \in 1 .. Len(out')
               PROVE  out'[k].family < m.family \/ (out'[k].family = m.family /\ Hi(out'[k]) <= Hi(m))
    OBVIOUS
  <2>1. CASE k = Len(out) + 1
    BY <1>3, <1>6, <1>9, <2>1
  <2>2. CASE k \in 1 .. Len(out)
    <3>1. out[k] \in ValidRanges
      BY <1>1, <2>2, ElementOfSeq
    <3>2. Hi(out[k]) \in Nat /\ EndsWellBefore(out[k], f, c) /\ out'[k] = out[k]
      BY <1>4, <1>9, <2>2, <3>1, RangeFacts
    <3> QED BY <1>3, <1>4, <3>2 DEF EndsWellBefore
  <2> QED BY <1>9, <2>1, <2>2
<1>20. \A k \in 1 .. Len(out') : \A n \in l + 1 .. Len(left) : Behind(out'[k], left[n])
  BY <1>1, <1>8, <1>19, BehindTheRest
<1>21. /\ l + 1 <= Len(left) + 1
       /\ \A n \in l + 1 .. Len(left) : n \in l .. Len(left)
  BY <1>1
<1>22. SubtractInv'
  BY <1>0, <1>8, <1>18, <1>20, <1>21 DEF SubtractInv
<1> QED BY <1>10, <1>11, <1>12, <1>22

-----------------------------------------------------------------------------
(* Sorting and merging both sides *)

LEMMA InputFacts ==
  ASSUME TypeInv
  PROVE  /\ input.live \in SUBSET Cidrs /\ input.local \in SUBSET Cidrs
         /\ IsFiniteSet(input.live) /\ IsFiniteSet(input.local)
         /\ Minuend \in SUBSET Cidrs /\ Subtrahend \in SUBSET Cidrs
         /\ IsFiniteSet(Minuend) /\ IsFiniteSet(Subtrahend)
<1>1. /\ input.live \in SUBSET NonDefault /\ input.local \in SUBSET NonDefault
      /\ IsFiniteSet(input.live) /\ IsFiniteSet(input.local)
  BY InputsAssumption DEF InputsAssumption, TypeInv
<1> QED BY <1>1 DEF NonDefault, Minuend, Subtrahend

\* The image of a finite set is finite.
LEMMA FiniteImage ==
  ASSUME NEW S, NEW f, f = [x \in S |-> f[x]], IsFiniteSet(S)
  PROVE  IsFiniteSet({f[x] : x \in S})
<1> DEFINE T == {f[x] : x \in S}
<1>1. f \in Surjection(S, T)
  BY DEF Surjection
<1> QED BY <1>1, FS_Surjection

LEMMA IsElement ==
  ASSUME NEW s \in Seq(ValidRanges)
  PROVE  /\ \A k \in 1 .. Len(s) : s[k] \in Elements(s)
         /\ s = <<>> <=> Elements(s) = {}
<1>1. DOMAIN s = 1 .. Len(s) /\ Len(s) \in Nat /\ (s = <<>> <=> Len(s) = 0)
  BY LenProperties, EmptySeq
<1>2. Elements(s) = {s[k] : k \in 1 .. Len(s)}
  BY <1>1 DEF Elements
<1>3. CASE Len(s) = 0
  BY <1>1, <1>2, <1>3
<1>4. CASE Len(s) # 0
  <2>1. 1 \in 1 .. Len(s)
    BY <1>1, <1>4
  <2> QED BY <1>1, <1>2, <1>4, <2>1
<1> QED BY <1>3, <1>4

\* The queue that a merge starts from.
LEMMA QueueOf ==
  ASSUME NEW S \in SUBSET Cidrs, IsFiniteSet(S)
  PROVE  LET q == Sorted({RangeOf(p) : p \in S})
         IN  /\ q \in Seq(ValidRanges) /\ InOrder(q)
             /\ RangeCoverage(q) = Coverage(S)
<1> DEFINE T == {RangeOf(p) : p \in S}
           q == Sorted(T)
<1>1. T \in SUBSET ValidRanges
  BY CidrFacts
<1>2. IsFiniteSet(T)
  <2> DEFINE f == [p \in S |-> RangeOf(p)]
  <2>1. T = {f[p] : p \in S} /\ f = [p \in S |-> f[p]]
    OBVIOUS
  <2> HIDE DEF f, T
  <2> QED BY <2>1, FiniteImage
<1>3. /\ q \in Seq(ValidRanges) /\ Elements(q) = T
      /\ \A j, k \in 1 .. Len(q) : j < k => Precedes(q[j], q[k])
  BY <1>1, <1>2, SortedHoldsAll
<1>4. RangeCoverage(q) = Coverage(S)
  BY <1>3, CoverageOfRanges
<1> HIDE DEF q
<1>5. \A j \in 1 .. Len(q) : q[j] \in Ranges
  BY <1>3, ElementOfSeq DEF ValidRanges
<1>6. InOrder(q)
  BY <1>3, <1>5, StrictOrder DEF InOrder, NotAfter
<1> QED BY <1>3, <1>4, <1>6 DEF q

\* Ranges that are apart are apart, in order, once sorted.
LEMMA SortedApart ==
  ASSUME NEW s \in Seq(ValidRanges), Apart(s)
  PROVE  LET q == Sorted(Elements(s))
         IN  /\ q \in Seq(ValidRanges) /\ Apart(q)
             /\ RangeCoverage(q) = RangeCoverage(s) /\ (q = <<>> <=> s = <<>>)
<1> DEFINE q == Sorted(Elements(s))
<1>1. DOMAIN s = 1 .. Len(s) /\ Len(s) \in Nat /\ \A k \in 1 .. Len(s) : s[k] \in ValidRanges
  BY LenProperties, ElementOfSeq
<1>2. Elements(s) \in SUBSET ValidRanges
  BY <1>1 DEF Elements
<1>3. IsFiniteSet(Elements(s))
  <2>1. IsFiniteSet(1 .. Len(s))
    BY <1>1, FS_Interval
  <2>2. s = [k \in 1 .. Len(s) |-> s[k]]
    BY <1>1, SeqDef
  <2>3. IsFiniteSet({s[k] : k \in 1 .. Len(s)})
    BY <2>1, <2>2, FiniteImage
  <2> QED BY <1>1, <2>3 DEF Elements
<1>4. /\ q \in Seq(ValidRanges) /\ Elements(q) = Elements(s)
      /\ \A j, k \in 1 .. Len(q) : j < k => Precedes(q[j], q[k])
  BY <1>2, <1>3, SortedHoldsAll
<1> HIDE DEF q
<1>5. DOMAIN q = 1 .. Len(q) /\ Len(q) \in Nat /\ \A k \in 1 .. Len(q) : q[k] \in ValidRanges
  BY <1>4, LenProperties, ElementOfSeq
<1>6. Apart(q)
  <2> SUFFICES ASSUME NEW j \in 1 .. Len(q), NEW k \in 1 .. Len(q), j < k
               PROVE  Behind(q[j], q[k])
    BY DEF Apart
  <2>1. PICK a \in 1 .. Len(s) : q[j] = s[a]
    BY <1>1, <1>4, <1>5 DEF Elements
  <2>2. PICK b \in 1 .. Len(s) : q[k] = s[b]
    BY <1>1, <1>4, <1>5 DEF Elements
  <2>3. Precedes(q[j], q[k]) /\ q[j] \in ValidRanges /\ q[k] \in ValidRanges
        /\ q[j] \in Ranges /\ q[k] \in Ranges
    BY <1>4, <1>5 DEF ValidRanges
  <2>4. NotAfter(q[j], q[k])
    BY <2>3, StrictOrder DEF NotAfter
  <2>5. CASE a < b
    BY <2>1, <2>2, <2>5 DEF Apart
  <2>6. CASE a = b
    BY <2>1, <2>2, <2>3, <2>6, StrictOrder
  <2>7. CASE b < a
    <3>1. Behind(q[k], q[j])
      BY <2>1, <2>2, <2>7 DEF Apart
    <3>2. /\ q[k].family \in Nat /\ q[j].family \in Nat /\ Lo(q[j]) \in Nat
          /\ Hi(q[k]) \in Nat /\ Lo(q[k]) \in Nat /\ Lo(q[k]) <= Hi(q[k])
      BY <2>3, RangeFacts
    <3> QED BY <2>4, <3>1, <3>2 DEF Behind, NotAfter
  <2> QED BY <2>5, <2>6, <2>7
<1>7. RangeCoverage(q) = RangeCoverage(s)
  BY <1>4, CoverageOfElements
<1>8. q = <<>> <=> s = <<>>
  BY <1>4, IsElement
<1> QED BY <1>4, <1>6, <1>7, <1>8 DEF q

LEMMA EmptyFacts ==
  /\ <<>> \in Seq(ValidRanges) /\ <<>> \in Seq(Cidrs) /\ Len(<<>>) = 0
  /\ Apart(<<>>)
BY EmptySeq DEF Apart

\* The invariant holds at the start, and the steps of merging keep it.
LEMMA InitIInv ==
  ASSUME Init
  PROVE  IInv
<1>1. /\ input \in Inputs /\ side = "local" /\ pc = "mergeLeft"
      /\ queue = Sorted({RangeOf(p) : p \in input.local}) /\ merged = <<>>
      /\ left = <<>> /\ right = <<>> /\ out = <<>>
      /\ l = 1 /\ rightIndex = 1 /\ i = 1 /\ cursor = Zero /\ current = Zero
      /\ prefixes = <<>> /\ result = [s \in {"local", "live"} |-> <<>>] /\ status = "none"
  BY DEF Init
<1>2. input.local \in SUBSET Cidrs /\ IsFiniteSet(input.local)
  BY <1>1, InputsAssumption DEF InputsAssumption, NonDefault
<1>3. /\ queue \in Seq(ValidRanges) /\ InOrder(queue)
      /\ RangeCoverage(queue) = Coverage(input.local)
  BY <1>1, <1>2, QueueOf
<1>4. TypeInv
  <2>1. result \in [{"local", "live"} -> Seq(Cidrs)]
    <3>1. <<>> \in Seq(Cidrs)
      BY EmptyFacts
    <3> QED BY <1>1, <3>1
  <2>2. /\ cursor \in Uint128s /\ current \in Uint128s /\ prefixes \in Seq(Cidrs)
        /\ l \in Nat \ {0} /\ i \in Nat \ {0} /\ rightIndex \in 1 .. Len(right) + 1
    BY <1>1, EmptyFacts, ZeroFacts
  <2>3. \A s \in {queue, merged, left, right, out} : s \in Seq(ValidRanges)
    BY <1>1, <1>3, EmptyFacts
  <2> QED BY <1>1, <2>1, <2>2, <2>3 DEF TypeInv
<1>5. MergeInv
  <2>1. Apart(merged) /\ \A j \in 1 .. Len(merged) : FALSE
    BY <1>1, EmptyFacts
  <2>2. RangeCoverage(merged) \cup RangeCoverage(queue) = Coverage(Minuend)
    BY <1>1, <1>3, CoverageOfNone DEF Minuend
  <2> QED BY <1>1, <1>3, <2>1, <2>2 DEF MergeInv
<1>6. OperandsInv /\ SubtractInv /\ ScanInv /\ EmitInv /\ ResultInv
  BY <1>1 DEF OperandsInv, SubtractInv, ScanInv, EmitInv, ResultInv, Answered
<1> QED BY <1>4, <1>5, <1>6 DEF IInv

LEMMA MergeOneStep ==
  ASSUME IInv, MergeOne
  PROVE  IInv'
<1> USE DEF IInv
<1>1. /\ pc \in {"mergeLeft", "mergeRight"} /\ queue # <<>> /\ queue' = Tail(queue)
      /\ merged' = MergedWith(merged, Head(queue))
      /\ UNCHANGED <<input, side, pc, scanVars, emitVars, endVars>>
  BY DEF MergeOne, MergedWith
<1>2. /\ merged \in Seq(ValidRanges) /\ queue \in Seq(ValidRanges)
      /\ Apart(merged) /\ InOrder(queue)
      /\ \A j \in 1 .. Len(merged) : \A k \in 1 .. Len(queue) : NotAfter(merged[j], queue[k])
  BY <1>1 DEF TypeInv, MergeInv
<1>3. /\ merged' \in Seq(ValidRanges) /\ Apart(merged') /\ InOrder(queue')
      /\ \A j \in 1 .. Len(merged') : \A k \in 1 .. Len(queue') : NotAfter(merged'[j], queue'[k])
      /\ RangeCoverage(merged') \cup RangeCoverage(queue') =
           RangeCoverage(merged) \cup RangeCoverage(queue)
  BY <1>1, <1>2, MergeStep
<1>4. queue' \in Seq(ValidRanges)
  BY <1>1, <1>2, CoverageOfTail
<1>5. TypeInv'
  BY <1>1, <1>3, <1>4 DEF TypeInv, scanVars, emitVars, endVars
<1>6. MergeInv'
  BY <1>1, <1>3, SameQuestions DEF MergeInv
<1>7. OperandsInv'
  BY <1>1, SameQuestions DEF OperandsInv, scanVars
<1>8. SubtractInv' /\ ScanInv' /\ EmitInv'
  BY <1>1 DEF SubtractInv, ScanInv, EmitInv
<1>9. ResultInv'
  BY <1>1, ResultKept
<1> QED BY <1>5, <1>6, <1>7, <1>8, <1>9

LEMMA MergedLeftStep ==
  ASSUME IInv, MergedLeft
  PROVE  IInv'
<1> USE DEF IInv
<1>1. /\ pc = "mergeLeft" /\ queue = <<>> /\ pc' = "mergeRight"
      /\ left' = merged /\ merged' = <<>>
      /\ queue' = Sorted({RangeOf(p) : p \in Subtrahend})
      /\ UNCHANGED <<input, side, right, l, rightIndex, i, cursor, out, emitVars, endVars>>
  BY DEF MergedLeft
<1>2. /\ queue' \in Seq(ValidRanges) /\ InOrder(queue')
      /\ RangeCoverage(queue') = Coverage(Subtrahend)
  BY <1>1, InputFacts, QueueOf
<1>3. /\ merged \in Seq(ValidRanges) /\ Apart(merged)
      /\ RangeCoverage(merged) = Coverage(Minuend)
  BY <1>1, CoverageOfNone DEF TypeInv, MergeInv
<1>4. TypeInv'
  BY <1>1, <1>2, <1>3, EmptyFacts DEF TypeInv, emitVars, endVars
<1>5. MergeInv'
  <2>1. Apart(merged') /\ \A j \in 1 .. Len(merged') : FALSE
    BY <1>1, EmptyFacts
  <2>2. RangeCoverage(merged') \cup RangeCoverage(queue') = Coverage(Subtrahend)
    BY <1>1, <1>2, CoverageOfNone
  <2> QED BY <1>1, <1>2, <2>1, <2>2, SameQuestions DEF MergeInv
<1>6. OperandsInv'
  BY <1>1, <1>3, SameQuestions DEF OperandsInv
<1>7. SubtractInv' /\ ScanInv' /\ EmitInv'
  BY <1>1 DEF SubtractInv, ScanInv, EmitInv
<1>8. ResultInv'
  BY <1>1, ResultKept
<1> QED BY <1>4, <1>5, <1>6, <1>7, <1>8

LEMMA MergedRightStep ==
  ASSUME IInv, MergedRight
  PROVE  IInv'
<1> USE DEF IInv
<1>1. /\ pc = "mergeRight" /\ queue = <<>> /\ pc' = "subtract"
      /\ right' = merged /\ merged' = <<>> /\ l' = 1 /\ rightIndex' = 1 /\ out' = <<>>
      /\ UNCHANGED <<input, side, queue, left, i, cursor, emitVars, endVars>>
  BY DEF MergedRight
<1>2. /\ merged \in Seq(ValidRanges) /\ Apart(merged) /\ left \in Seq(ValidRanges)
      /\ RangeCoverage(merged) = Coverage(Subtrahend)
      /\ Len(merged) \in Nat /\ Len(left) \in Nat
  BY <1>1, CoverageOfNone, LenProperties DEF TypeInv, MergeInv
<1>3. TypeInv'
  BY <1>1, <1>2, EmptyFacts DEF TypeInv, emitVars, endVars
<1>4. MergeInv'
  BY <1>1 DEF MergeInv
<1>5. OperandsInv'
  BY <1>1, <1>2, SameQuestions DEF OperandsInv
<1>6. SubtractInv'
  <2>1. LeftBelow' = {}
    BY <1>1 DEF LeftBelow
  <2>2. 1 <= Len(left) + 1
    BY <1>2
  <2> QED BY <1>1, <2>1, <2>2, EmptyFacts, CoverageOfNone DEF SubtractInv
<1>7. ScanInv' /\ EmitInv'
  BY <1>1 DEF ScanInv, EmitInv
<1>8. ResultInv'
  BY <1>1, ResultKept
<1> QED BY <1>3, <1>4, <1>5, <1>6, <1>7, <1>8

LEMMA OnlyIs ==
  ASSUME side \in {"local", "live"}
  PROVE  Only(side) = Coverage(Minuend) \ Coverage(Subtrahend)
BY DEF Only, Minuend, Subtrahend

\* At the start of a range all of it remains.
LEMMA RemainingAtStart ==
  ASSUME queue \in Seq(ValidRanges), queue # <<>> => current = Head(queue).start
  PROVE  Remaining = RangeCoverage(queue)
<1>1. CASE queue = <<>>
  BY <1>1, CoverageOfNone DEF Remaining
<1>2. CASE queue # <<>>
  <2>1. Between(Head(queue).family, Number(current), Hi(Head(queue))) = Addresses(Head(queue))
    BY <1>2 DEF Addresses, Hi
  <2> QED BY <1>2, <2>1, CoverageOfTail DEF Remaining
<1> QED BY <1>1, <1>2

LEMMA SubtractedStep ==
  ASSUME IInv, Subtracted
  PROVE  IInv'
<1> USE DEF IInv
<1>1. /\ pc = "subtract" /\ l = Len(left) + 1 /\ pc' = "emit"
      /\ queue' = Sorted(Elements(out))
      /\ current' = (IF out = <<>> THEN Zero ELSE Head(queue').start)
      /\ prefixes' = <<>>
      /\ UNCHANGED <<input, side, merged, scanVars, endVars>>
  BY DEF Subtracted
<1>2. /\ out \in Seq(ValidRanges) /\ Apart(out) /\ left \in Seq(ValidRanges)
      /\ Len(left) \in Nat
  BY <1>1, LenProperties DEF TypeInv, SubtractInv
<1>3. /\ queue' \in Seq(ValidRanges) /\ Apart(queue')
      /\ RangeCoverage(queue') = RangeCoverage(out) /\ (queue' = <<>> <=> out = <<>>)
  BY <1>1, <1>2, SortedApart
<1>4. queue' # <<>> =>
        /\ current' = Head(queue').start /\ Head(queue') \in ValidRanges
        /\ Lo(Head(queue')) = Number(current') /\ Number(current') <= Hi(Head(queue'))
        /\ current' \in Uint128s
  BY <1>1, <1>3, CoverageOfTail, RangeFacts DEF Lo
<1>5. TypeInv'
  BY <1>1, <1>3, <1>4, EmptyFacts, ZeroFacts DEF TypeInv, scanVars, endVars
<1>6. RangeCoverage(out) = Only(side)
  <2>1. LeftBelow = RangeCoverage(left)
    <3>1. 1 .. l - 1 = 1 .. Len(left)
      BY <1>1, <1>2
    <3>2. DOMAIN left = 1 .. Len(left)
      BY <1>2, LenProperties
    <3> QED BY <3>1, <3>2 DEF LeftBelow, RangeCoverage, Elements
  <2> QED BY <1>1, <2>1, OnlyIs DEF SubtractInv, OperandsInv, TypeInv
<1>7. Remaining' = RangeCoverage(queue')
  <2>1. (queue \in Seq(ValidRanges) /\ (queue # <<>> => current = Head(queue).start)
           => Remaining = RangeCoverage(queue))'
    BY RemainingAtStart, PTL
  <2> QED BY <1>3, <1>4, <2>1
<1>8. EmitInv'
  <2>1. Only(side)' = Only(side)
    BY <1>1 DEF Only
  <2>2. Fewest(<<>>, Only(side))
    BY EmptyFacts DEF Fewest, Increasing
  <2>3. \A k \in 1 .. Len(prefixes') : FALSE
    BY <1>1, EmptyFacts
  <2>4. Lo(Head(queue')) <= Number(current') \/ queue' = <<>>
    BY <1>4, RangeFacts
  <2>5. Coverage(Elements(prefixes')) = {}
    BY <1>1, CoverageOfNone
  <2> QED BY <1>1, <1>3, <1>4, <1>6, <1>7, <2>1, <2>2, <2>3, <2>4, <2>5 DEF EmitInv
<1>9. MergeInv'
  BY <1>1 DEF MergeInv
<1>10. OperandsInv' /\ SubtractInv' /\ ScanInv'
  BY <1>1 DEF OperandsInv, SubtractInv, ScanInv
<1>11. ResultInv'
  BY <1>1, ResultKept
<1> QED BY <1>5, <1>8, <1>9, <1>10, <1>11

-----------------------------------------------------------------------------
(* Cutting what is left into blocks *)

\* The block that Emit writes first of what remains of a range.
LEMMA FirstBlock ==
  ASSUME NEW r \in ValidRanges, NEW c \in Uint128s,
         Lo(r) <= Number(c), Number(c) <= Hi(r)
  PROVE  LET h == LargestHostBits(c, r.end, r.family)
             p == PrefixOf(r.family, c, h)
             b == AddBlockEnd(c, h, r.family)
         IN  /\ p \in Cidrs /\ p.family = r.family /\ p.addr = c
             /\ Lo(RangeOf(p)) = Number(c) /\ Hi(RangeOf(p)) = Number(b)
             /\ b \in Uint128s /\ Number(b) \in Nat /\ Number(c) \in Nat
             /\ Number(c) <= Number(b) /\ Number(b) <= Hi(r)
             /\ IsLastBlock(b, r) <=> Number(b) = Hi(r)
             /\ Number(b) < Hi(r) =>
                  Increment(b) \in Uint128s /\ Number(Increment(b)) = Number(b) + 1
             /\ LET g == p.family - p.bits
                IN  g + 1 <= p.family /\ Aligned(Number(c), g + 1) =>
                      /\ Hi(r) + 1 \in Number(c) .. Number(c) + Pow2[g + 1] - 1
<1> DEFINE f == r.family
           h == LargestHostBits(c, r.end, f)
           p == PrefixOf(f, c, h)
           b == AddBlockEnd(c, h, f)
           n == Number(c)
<1>1. /\ f \in Families /\ f \in Nat /\ r.end \in Uint128s /\ Hi(r) \in Nat
      /\ Hi(r) < Pow2[f] /\ Pow2[f] \in Nat /\ Pow2[f] <= Pow2[V6] /\ Pow2[V6] \in Nat
  BY RangeFacts
<1>2. n \in Nat /\ n < Pow2[f]
  BY <1>1, NumberFacts
<1>3. /\ h \in 0 .. f /\ Aligned(n, h) /\ n + Pow2[h] - 1 <= Hi(r)
      /\ h + 1 <= f /\ Aligned(n, h + 1) => Hi(r) < n + Pow2[h + 1] - 1
  BY <1>1, LargestHostBitsFacts DEF Hi
<1> HIDE DEF h
<1>4. h \in 0 .. V6 /\ f - h \in 0 .. V6 /\ f - h <= f /\ f - (f - h) = h /\ h \in Nat
  BY <1>1, <1>3, Widths
<1>5. /\ b \in Uint128s /\ Number(b) = n + Pow2[h] - 1 /\ n <= Number(b)
  BY <1>1, <1>2, <1>3, AddBlockEndFacts
<1>6. p = [family |-> f, addr |-> c, bits |-> f - h]
  BY DEF PrefixOf
<1> HIDE DEF b, p
<1>7. p \in Cidrs
  <2>1. AtMost(c, MaxValue(f))
    BY <1>1, <1>2, MaxValueFacts, Compare
  <2>2. h <= TrailingZeros(c) /\ TrailingZeros(c) \in Nat
    BY <1>3, <1>4, TrailingZerosFacts
  <2> QED BY <1>1, <1>4, <1>6, <2>1, <2>2 DEF Cidrs
<1>8. p.family = f /\ p.addr = c /\ p.family - p.bits = h
  BY <1>4, <1>6
<1>9. Lo(RangeOf(p)) = n /\ Hi(RangeOf(p)) = Number(b)
  BY <1>5, <1>7, <1>8, CidrFacts
<1>10. Number(b) \in Nat /\ Number(b) <= Hi(r)
  BY <1>3, <1>5, NumberFacts
<1>11. Number(b) < Hi(r) => Increment(b) \in Uint128s /\ Number(Increment(b)) = Number(b) + 1
  BY <1>1, <1>5, <1>10, IncrementFacts
<1>12. IsLastBlock(b, r) <=> Number(b) = Hi(r)
  <2>1. AtMost(r.end, b) <=> Hi(r) <= Number(b)
    BY <1>1, <1>5, Compare DEF Hi
  <2>2. CASE Number(b) = Hi(r)
    BY <1>1, <2>1, <2>2 DEF IsLastBlock
  <2>3. CASE Number(b) < Hi(r)
    <3>1. Less(r.end, Increment(b)) <=> Hi(r) < Number(b) + 1
      BY <1>1, <1>11, <2>3, Compare DEF Hi
    <3> QED BY <1>1, <1>10, <2>1, <2>3, <3>1 DEF IsLastBlock
  <2> QED BY <1>1, <1>10, <2>2, <2>3
<1>13. ASSUME h + 1 <= f, Aligned(n, h + 1)
       PROVE  Hi(r) + 1 \in n .. n + Pow2[h + 1] - 1
  <2>1. h + 1 \in 0 .. V6
    BY <1>1, <1>4, <1>13, Widths
  <2>2. Pow2[h + 1] \in Nat
    BY <2>1, Pow2Values
  <2> QED BY <1>1, <1>2, <1>3, <1>13, <2>2
<1> QED BY <1>1, <1>2, <1>5, <1>7, <1>8, <1>9, <1>10, <1>11, <1>12, <1>13 DEF b, p, h

\* What a block appended to the others adds.
LEMMA PrefixAppended ==
  ASSUME NEW ps \in Seq(Cidrs), NEW p \in Cidrs
  PROVE  /\ Append(ps, p) \in Seq(Cidrs)
         /\ Len(Append(ps, p)) = Len(ps) + 1 /\ Len(ps) \in Nat
         /\ Append(ps, p)[Len(ps) + 1] = p
         /\ \A k \in 1 .. Len(ps) : Append(ps, p)[k] = ps[k] /\ ps[k] \in Cidrs
         /\ Coverage(Elements(Append(ps, p))) = Coverage(Elements(ps)) \cup BlockOf(p)
<1>1. /\ Append(ps, p) \in Seq(Cidrs) /\ Len(Append(ps, p)) = Len(ps) + 1
      /\ Append(ps, p)[Len(ps) + 1] = p /\ Len(ps) \in Nat
      /\ \A k \in 1 .. Len(ps) : Append(ps, p)[k] = ps[k] /\ ps[k] \in Cidrs
      /\ DOMAIN ps = 1 .. Len(ps)
  BY AppendProperties, LenProperties, ElementOfSeq
<1> DEFINE t == Append(ps, p)
<1>2. DOMAIN t = 1 .. Len(ps) + 1
  BY <1>1, LenProperties
<1> HIDE DEF t
<1>3. /\ \A k \in 1 .. Len(ps) : t[k] = ps[k] /\ k \in DOMAIN t
      /\ t[Len(ps) + 1] = p /\ Len(ps) + 1 \in DOMAIN t
      /\ \A k \in DOMAIN t : k = Len(ps) + 1 \/ k \in DOMAIN ps
  BY <1>1, <1>2 DEF t
<1>4. Elements(t) = Elements(ps) \cup {p}
  BY <1>1, <1>3 DEF Elements
<1>5. Coverage(Elements(t)) = Coverage(Elements(ps)) \cup BlockOf(p)
  BY <1>4 DEF Coverage
<1> QED BY <1>1, <1>5 DEF t

\* The addresses of blocks, one by one.
LEMMA InPrefixCoverage ==
  ASSUME NEW ps \in Seq(Cidrs)
  PROVE  /\ Coverage(Elements(ps)) \subseteq Pairs
         /\ \A x : x \in Coverage(Elements(ps)) <=>
                     \E k \in 1 .. Len(ps) : x \in Addresses(RangeOf(ps[k]))
<1>1. DOMAIN ps = 1 .. Len(ps) /\ \A k \in 1 .. Len(ps) : ps[k] \in Cidrs
  BY LenProperties, ElementOfSeq
<1>2. \A k \in 1 .. Len(ps) : /\ BlockOf(ps[k]) = Addresses(RangeOf(ps[k]))
                              /\ RangeOf(ps[k]) \in ValidRanges
  BY <1>1, CidrFacts
<1>3. \A x : x \in Coverage(Elements(ps)) <=> \E k \in 1 .. Len(ps) : x \in BlockOf(ps[k])
  BY <1>1 DEF Coverage, Elements
<1> QED BY <1>2, <1>3, InAddresses

\* The address after the first range of the queue is none of those to be
\* covered, and neither is it covered already.
LEMMA GapAfterHead ==
  ASSUME queue \in Seq(ValidRanges), queue # <<>>, Apart(queue),
         prefixes \in Seq(Cidrs), current \in Uint128s,
         Number(current) <= Hi(Head(queue)),
         \A k \in 1 .. Len(prefixes) :
           EndsBefore(RangeOf(prefixes[k]), Head(queue).family, Number(current))
  PROVE  <<Head(queue).family, Hi(Head(queue)) + 1>> \notin
           Coverage(Elements(prefixes)) \cup Remaining
<1> DEFINE r == Head(queue)
           t == Tail(queue)
           x == <<r.family, Hi(r) + 1>>
<1>1. /\ r \in ValidRanges /\ r = queue[1] /\ t \in Seq(ValidRanges)
      /\ Len(queue) \in Nat /\ Len(queue) > 0 /\ Len(t) = Len(queue) - 1
      /\ \A k \in 1 .. Len(queue) - 1 : t[k] = queue[k + 1]
  BY CoverageOfTail
<1>2. r.family \in Families /\ r.family \in Nat /\ Hi(r) \in Nat /\ Number(current) \in Nat
  BY <1>1, RangeFacts, NumberFacts
<1> HIDE DEF r, t
<1>3. x \in Pairs /\ x[1] = r.family /\ x[2] = Hi(r) + 1
  BY <1>2 DEF Pairs
<1> HIDE DEF x
<1>4. x \notin Coverage(Elements(prefixes))
  <2> SUFFICES ASSUME NEW k \in 1 .. Len(prefixes), x \in Addresses(RangeOf(prefixes[k]))
               PROVE  FALSE
    BY InPrefixCoverage
  <2>1. prefixes[k] \in Cidrs
    BY ElementOfSeq
  <2>2. RangeOf(prefixes[k]) \in ValidRanges
    BY <2>1, CidrFacts
  <2>3. /\ RangeOf(prefixes[k]).family = r.family /\ Hi(r) + 1 <= Hi(RangeOf(prefixes[k]))
        /\ Hi(RangeOf(prefixes[k])) \in Nat
    BY <1>3, <2>2, InAddresses, RangeFacts
  <2>4. EndsBefore(RangeOf(prefixes[k]), r.family, Number(current)) /\ Number(current) <= Hi(r)
    BY DEF r
  <2> QED BY <1>2, <2>3, <2>4 DEF EndsBefore
<1>5. x \notin Between(r.family, Number(current), Hi(r))
  BY <1>2, <1>3, InBetween
<1>6. x \notin RangeCoverage(t)
  <2> SUFFICES ASSUME NEW k \in 1 .. Len(t), x \in Addresses(t[k])
               PROVE  FALSE
    BY <1>1, InCoverage
  <2>1. t[k] \in ValidRanges /\ t[k] = queue[k + 1] /\ 1 \in 1 .. Len(queue)
        /\ k + 1 \in 1 .. Len(queue) /\ 1 < k + 1
    BY <1>1, ElementOfSeq
  <2>2. Behind(r, t[k])
    BY <1>1, <2>1 DEF Apart
  <2>3. t[k].family = r.family /\ Lo(t[k]) <= Hi(r) + 1 /\ Lo(t[k]) \in Nat
    BY <1>3, <2>1, InAddresses, RangeFacts
  <2> QED BY <1>2, <2>2, <2>3 DEF Behind
<1>7. Remaining = Between(r.family, Number(current), Hi(r)) \cup RangeCoverage(t)
  BY DEF Remaining, r, t
<1> QED BY <1>4, <1>5, <1>6, <1>7 DEF x, r

LEMMA EmitStep ==
  ASSUME IInv, Emit
  PROVE  IInv'
<1> USE DEF IInv
<1> DEFINE r == Head(queue)
           t == Tail(queue)
           f == r.family
           c == Number(current)
           h == LargestHostBits(current, r.end, f)
           b == AddBlockEnd(current, h, f)
           p == PrefixOf(f, current, h)
           D == Only(side)
<1>0. /\ pc = "emit" /\ queue # <<>> /\ prefixes' = Append(prefixes, p)
      /\ UNCHANGED <<input, side, pc, merged, scanVars, endVars>>
      /\ IF IsLastBlock(b, r)
         THEN queue' = t /\ current' = IF Len(queue) > 1 THEN queue[2].start ELSE Zero
         ELSE current' = Increment(b) /\ UNCHANGED queue
  BY DEF Emit
<1>1. /\ queue \in Seq(ValidRanges) /\ Apart(queue) /\ prefixes \in Seq(Cidrs)
      /\ current \in Uint128s /\ Lo(r) <= c /\ c <= Hi(r)
      /\ \A k \in 1 .. Len(prefixes) : EndsBefore(RangeOf(prefixes[k]), f, c)
      /\ Coverage(Elements(prefixes)) \cup Remaining = D
      /\ Fewest(prefixes, D)
  BY <1>0 DEF TypeInv, EmitInv
<1>2. /\ r \in ValidRanges /\ r = queue[1] /\ t \in Seq(ValidRanges)
      /\ Len(queue) \in Nat /\ Len(queue) > 0 /\ Len(t) = Len(queue) - 1
      /\ \A k \in 1 .. Len(queue) - 1 : t[k] = queue[k + 1]
      /\ f \in Families /\ f \in Nat /\ Hi(r) \in Nat
  BY <1>0, <1>1, CoverageOfTail, RangeFacts
<1>3. <<f, Hi(r) + 1>> \notin D
  BY <1>0, <1>1, GapAfterHead
<1>4. /\ p \in Cidrs /\ p.family = f /\ p.addr = current
      /\ Lo(RangeOf(p)) = c /\ Hi(RangeOf(p)) = Number(b)
      /\ b \in Uint128s /\ Number(b) \in Nat /\ c \in Nat /\ c <= Number(b) /\ Number(b) <= Hi(r)
      /\ IsLastBlock(b, r) <=> Number(b) = Hi(r)
      /\ Number(b) < Hi(r) =>
           Increment(b) \in Uint128s /\ Number(Increment(b)) = Number(b) + 1
  BY <1>1, <1>2, FirstBlock
<1>5. Undoublable(p, D)
  <2>1. ASSUME (p.family - p.bits) + 1 <= p.family,
               Aligned(c, (p.family - p.bits) + 1)
        PROVE  Hi(r) + 1 \in c .. c + Pow2[(p.family - p.bits) + 1] - 1
    BY <1>1, <1>2, <2>1, FirstBlock
  <2>2. p.addr = current /\ p.family = f
    BY <1>4
  <2> HIDE DEF p, r, f, D
  <2> QED BY <1>3, <2>1, <2>2 DEF Undoublable
<1>6. Remaining = Between(f, c, Hi(r)) \cup RangeCoverage(t)
  BY <1>0 DEF Remaining
<1>7. RangeOf(p) \in ValidRanges /\ RangeOf(p).family = f /\ BlockOf(p) = Addresses(RangeOf(p))
  BY <1>4, CidrFacts
<1>8. /\ \A x \in Pairs : x[2] \in Nat
      /\ \A x \in Pairs : x \in BlockOf(p) <=> x[1] = f /\ c <= x[2] /\ x[2] <= Number(b)
      /\ \A x \in Pairs : x \in Between(f, c, Hi(r)) <=> x[1] = f /\ c <= x[2] /\ x[2] <= Hi(r)
      /\ BlockOf(p) \subseteq Pairs /\ Between(f, c, Hi(r)) \subseteq Pairs
  <2>1. \A x \in Pairs : x[2] \in Nat
    BY DEF Pairs
  <2>2. /\ \A x \in Pairs : x \in BlockOf(p) <=> x[1] = f /\ c <= x[2] /\ x[2] <= Number(b)
        /\ BlockOf(p) \subseteq Pairs
    BY <1>4, <1>7, InAddresses
  <2>3. /\ \A x \in Pairs : x \in Between(f, c, Hi(r)) <=> x[1] = f /\ c <= x[2] /\ x[2] <= Hi(r)
        /\ Between(f, c, Hi(r)) \subseteq Pairs
    BY <1>2, <1>4, InBetween
  <2> QED BY <2>1, <2>2, <2>3
<1> HIDE DEF b, h, p, D, r, t, f, c
<1>9. /\ prefixes' \in Seq(Cidrs) /\ Len(prefixes') = Len(prefixes) + 1 /\ Len(prefixes) \in Nat
      /\ prefixes'[Len(prefixes) + 1] = p
      /\ \A k \in 1 .. Len(prefixes) : prefixes'[k] = prefixes[k] /\ prefixes[k] \in Cidrs
      /\ Coverage(Elements(prefixes')) = Coverage(Elements(prefixes)) \cup BlockOf(p)
  BY <1>0, <1>1, <1>4, PrefixAppended
<1>10. \A k \in 1 .. Len(prefixes') : k = Len(prefixes) + 1 \/ k \in 1 .. Len(prefixes)
  BY <1>9
<1>11. Fewest(prefixes', D)
  <2>1. Increasing(prefixes')
    <3> SUFFICES ASSUME NEW j \in 1 .. Len(prefixes'), NEW k \in 1 .. Len(prefixes'), j < k
                 PROVE  EndsBefore(RangeOf(prefixes'[j]), prefixes'[k].family,
                                   Number(prefixes'[k].addr))
      BY DEF Increasing
    <3>1. j \in 1 .. Len(prefixes) /\ (k = Len(prefixes) + 1 \/ k \in 1 .. Len(prefixes))
      BY <1>9, <1>10
    <3>2. CASE k = Len(prefixes) + 1
      BY <1>1, <1>4, <1>9, <3>1, <3>2 DEF c
    <3>3. CASE k \in 1 .. Len(prefixes)
      BY <1>1, <1>9, <3>1, <3>3 DEF Fewest, Increasing
    <3> QED BY <3>1, <3>2, <3>3
  <2>2. \A k \in 1 .. Len(prefixes') : Undoublable(prefixes'[k], D)
    BY <1>1, <1>5, <1>9, <1>10 DEF Fewest
  <2> QED BY <2>1, <2>2 DEF Fewest
<1>12. Only(side)' = D
  BY <1>0 DEF Only, D
<1>13. \A k \in 1 .. Len(prefixes') : Hi(RangeOf(prefixes'[k])) \in Nat
  <2>1. \A k \in 1 .. Len(prefixes') : prefixes'[k] \in Cidrs
    BY <1>9, ElementOfSeq
  <2>2. \A k \in 1 .. Len(prefixes') : RangeOf(prefixes'[k]) \in ValidRanges
    BY <2>1, CidrFacts
  <2> QED BY <2>2, RangeFacts
<1>14. \A k \in 1 .. Len(prefixes') : EndsBefore(RangeOf(prefixes'[k]), f, Number(b) + 1)
  <2> SUFFICES ASSUME NEW k \in 1 .. Len(prefixes')
               PROVE  EndsBefore(RangeOf(prefixes'[k]), f, Number(b) + 1)
    OBVIOUS
  <2>1. CASE k = Len(prefixes) + 1
    BY <1>4, <1>7, <1>9, <2>1 DEF EndsBefore
  <2>2. CASE k \in 1 .. Len(prefixes)
    BY <1>1, <1>4, <1>9, <1>13, <2>2 DEF EndsBefore
  <2> QED BY <1>10, <2>1, <2>2
<1>15. MergeInv' /\ OperandsInv' /\ SubtractInv' /\ ScanInv'
  BY <1>0 DEF MergeInv, OperandsInv, SubtractInv, ScanInv
<1>16. ResultInv'
  BY <1>0, ResultKept
<1>17. CASE IsLastBlock(b, r)
  <2>1. queue' = t /\ current' = IF Len(queue) > 1 THEN queue[2].start ELSE Zero
    BY <1>0, <1>17
  <2>2. Number(b) = Hi(r)
    BY <1>4, <1>17
  <2>3. t # <<>> => /\ Head(t) = t[1] /\ Head(t) \in ValidRanges /\ 1 \in 1 .. Len(queue) - 1
                    /\ Len(queue) > 1 /\ t[1] = queue[2]
    <3> SUFFICES ASSUME t # <<>>
                 PROVE  /\ Head(t) = t[1] /\ Head(t) \in ValidRanges /\ 1 \in 1 .. Len(queue) - 1
                        /\ Len(queue) > 1 /\ t[1] = queue[2]
      OBVIOUS
    <3>1. Head(t) = t[1] /\ Head(t) \in ValidRanges /\ Len(t) > 0 /\ Len(t) \in Nat
      BY <1>2, CoverageOfTail
    <3>2. 1 \in 1 .. Len(queue) - 1 /\ 1 + 1 = 2
      BY <1>2, <3>1
    <3> QED BY <1>2, <3>1, <3>2
  <2>4. t # <<>> => /\ current' = Head(t).start /\ current' \in Uint128s
                    /\ Lo(Head(t)) = Number(current') /\ Lo(Head(t)) <= Hi(Head(t))
    BY <2>1, <2>3, RangeFacts DEF Lo
  <2>5. current' \in Uint128s
    <3>1. CASE t = <<>>
      <4>1. ~(Len(queue) > 1)
        <5>1. Len(t) = 0
          BY <3>1, EmptyFacts
        <5>2. Len(queue) \in Nat /\ Len(queue) - 1 = 0
          BY <1>2, <5>1
        <5>3. \A n \in Nat : n - 1 = 0 => ~(n > 1)
          OBVIOUS
        <5> QED BY <5>2, <5>3
      <4> QED BY <2>1, <4>1, ZeroFacts
    <3> QED BY <2>4, <3>1
  <2>6. Apart(queue')
    <3> SUFFICES ASSUME NEW j \in 1 .. Len(t), NEW k \in 1 .. Len(t), j < k
                 PROVE  Behind(t[j], t[k])
      BY <2>1 DEF Apart
    <3>1. j + 1 \in 1 .. Len(queue) /\ k + 1 \in 1 .. Len(queue) /\ j + 1 < k + 1
          /\ t[j] = queue[j + 1] /\ t[k] = queue[k + 1]
      BY <1>2, SMTT(20)
    <3> QED BY <1>1, <3>1 DEF Apart
  <2>7. Remaining' = RangeCoverage(t)
    <3>1. (queue \in Seq(ValidRanges) /\ (queue # <<>> => current = Head(queue).start)
             => Remaining = RangeCoverage(queue))'
      BY RemainingAtStart, PTL
    <3> QED BY <1>2, <2>1, <2>4, <3>1
  <2>8. BlockOf(p) = Between(f, c, Hi(r))
    BY <1>8, <2>2
  <2>9. Coverage(Elements(prefixes')) \cup Remaining' = D
    BY <1>1, <1>6, <1>9, <2>7, <2>8
  <2>10. t # <<>> => \A k \in 1 .. Len(prefixes') :
           EndsBefore(RangeOf(prefixes'[k]), Head(t).family, Number(current'))
    <3> SUFFICES ASSUME t # <<>>, NEW k \in 1 .. Len(prefixes')
                 PROVE  EndsBefore(RangeOf(prefixes'[k]), Head(t).family, Number(current'))
      OBVIOUS
    <3>1. Behind(r, Head(t))
      <4>1. 1 \in 1 .. Len(queue) /\ 2 \in 1 .. Len(queue) /\ 1 < 2
        BY <1>2, <2>3
      <4> QED BY <1>1, <1>2, <2>3, <4>1 DEF Apart
    <3>2. EndsBefore(RangeOf(prefixes'[k]), f, Hi(r) + 1) /\ Hi(RangeOf(prefixes'[k])) \in Nat
      BY <1>13, <1>14, <2>2
    <3>3. Head(t).family \in Nat /\ Lo(Head(t)) \in Nat /\ Number(current') = Lo(Head(t))
      BY <2>3, <2>4, RangeFacts
    <3>4. RangeOf(prefixes'[k]).family \in Nat
      <4>1. prefixes'[k] \in Cidrs
        BY <1>9, ElementOfSeq
      <4> QED BY <4>1, CidrFacts
    <3> QED BY <1>2, <3>1, <3>2, <3>3, <3>4 DEF Behind, EndsBefore, f
  <2>11. EmitInv'
    <3>1. t # <<>> => Lo(Head(t)) <= Number(current') /\ Number(current') <= Hi(Head(t))
      BY <2>3, <2>4, RangeFacts
    <3> QED BY <1>0, <1>11, <1>12, <2>1, <2>6, <2>9, <2>10, <3>1 DEF EmitInv
  <2>12. TypeInv'
    BY <1>0, <1>2, <1>9, <2>1, <2>5 DEF TypeInv, scanVars, endVars
  <2> QED BY <1>15, <1>16, <2>11, <2>12
<1>18. CASE ~IsLastBlock(b, r)
  <2>1. current' = Increment(b) /\ queue' = queue
    BY <1>0, <1>18
  <2>2. Number(b) < Hi(r)
    BY <1>2, <1>4, <1>18
  <2>3. current' \in Uint128s /\ Number(current') = Number(b) + 1
    BY <1>4, <2>1, <2>2
  <2>4. Remaining' = Between(f, Number(b) + 1, Hi(r)) \cup RangeCoverage(t)
    BY <1>0, <2>1, <2>3 DEF Remaining, f, r, t
  <2>5. \A x \in Pairs : x \in Between(f, Number(b) + 1, Hi(r)) <=>
                           x[1] = f /\ Number(b) + 1 <= x[2] /\ x[2] <= Hi(r)
    BY <1>2, <1>4, Number(b) + 1 \in Nat, InBetween
  <2>6. Between(f, Number(b) + 1, Hi(r)) \subseteq Pairs
    BY <1>2, <1>4, Number(b) + 1 \in Nat, InBetween
  <2>7. Between(f, c, Hi(r)) = BlockOf(p) \cup Between(f, Number(b) + 1, Hi(r))
    <3>1. \A x \in Pairs : x \in Between(f, c, Hi(r)) <=>
                             x \in BlockOf(p) \/ x \in Between(f, Number(b) + 1, Hi(r))
      BY <1>2, <1>4, <1>8, <2>2, <2>5
    <3> QED BY <1>8, <2>6, <3>1
  <2>8. Coverage(Elements(prefixes')) \cup Remaining' = D
    BY <1>1, <1>6, <1>9, <2>4, <2>7
  <2>9. Lo(Head(queue')) <= Number(current') /\ Number(current') <= Hi(Head(queue'))
    <3>1. Lo(r) \in Nat
      BY <1>2, RangeFacts
    <3>2. Lo(r) <= Number(current') /\ Number(current') <= Hi(r)
      BY <1>1, <1>2, <1>4, <2>2, <2>3, <3>1
    <3> QED BY <2>1, <3>2 DEF r
  <2>10. EmitInv'
    BY <1>0, <1>1, <1>11, <1>12, <1>14, <2>1, <2>3, <2>8, <2>9 DEF EmitInv, r, f
  <2>11. TypeInv'
    BY <1>0, <1>1, <1>9, <2>1, <2>3 DEF TypeInv, scanVars, endVars
  <2> QED BY <1>15, <1>16, <2>10, <2>11
<1> QED BY <1>17, <1>18

LEMMA EmittedStep ==
  ASSUME IInv, Emitted
  PROVE  IInv'
<1> USE DEF IInv
<1>1. /\ pc = "emit" /\ queue = <<>> /\ result' = [result EXCEPT ![side] = prefixes]
      /\ UNCHANGED <<input, merged, scanVars, emitVars, status>>
      /\ side \in {"local", "live"} /\ prefixes \in Seq(Cidrs)
      /\ result \in [{"local", "live"} -> Seq(Cidrs)] /\ merged = <<>>
  BY DEF Emitted, TypeInv, MergeInv
<1>2. /\ Coverage(Elements(prefixes)) = Only(side) /\ Fewest(prefixes, Only(side))
      /\ status = "none"
  BY <1>1 DEF EmitInv, Remaining, ResultInv
<1>3. /\ result' \in [{"local", "live"} -> Seq(Cidrs)] /\ result'[side] = prefixes
      /\ \A s \in {"local", "live"} : s # side => result'[s] = result[s]
  BY <1>1
<1>4. \A s : Only(s)' = Only(s)
  BY <1>1 DEF Only
<1>5. OperandsInv' \/ side = "local"
  BY <1>1 DEF Emitted, OperandsInv
<1>6. CASE side = "local"
  <2>1. /\ side' = "live" /\ pc' = "mergeLeft"
        /\ queue' = Sorted({RangeOf(p) : p \in input.live})
    BY <1>6 DEF Emitted
  <2>2. /\ queue' \in Seq(ValidRanges) /\ InOrder(queue')
        /\ RangeCoverage(queue') = Coverage(input.live)
    BY <2>1, InputFacts, QueueOf
  <2>3. TypeInv'
    BY <1>1, <1>3, <2>1, <2>2 DEF TypeInv, scanVars, emitVars
  <2>4. MergeInv'
    <3>1. Apart(merged') /\ (\A j \in 1 .. Len(merged') : FALSE) /\ RangeCoverage(merged') = {}
      BY <1>1, EmptyFacts, CoverageOfNone
    <3>2. Minuend' = input.live
      BY <1>1, <2>1 DEF Minuend
    <3>3. RangeCoverage(merged') \cup RangeCoverage(queue') = Coverage(Minuend')
      BY <2>2, <3>1, <3>2
    <3> QED BY <2>1, <2>2, <3>1, <3>3 DEF MergeInv
  <2>5. OperandsInv' /\ SubtractInv' /\ ScanInv' /\ EmitInv'
    BY <2>1 DEF OperandsInv, SubtractInv, ScanInv, EmitInv
  <2>6. \A s \in {"local", "live"} : Answered(s)' => s = "local"
    BY <2>1 DEF Answered
  <2>7. ResultInv'
    BY <1>1, <1>2, <1>3, <1>4, <1>6, <2>1, <2>6 DEF ResultInv
  <2> QED BY <2>3, <2>4, <2>5, <2>7
<1>7. CASE side = "live"
  <2>1. pc' = "report" /\ UNCHANGED <<side, queue>>
    BY <1>7 DEF Emitted
  <2>2. TypeInv'
    BY <1>1, <1>3, <2>1 DEF TypeInv, scanVars, emitVars
  <2>3. MergeInv' /\ OperandsInv' /\ SubtractInv' /\ ScanInv' /\ EmitInv'
    BY <1>1, <2>1 DEF MergeInv, OperandsInv, SubtractInv, ScanInv, EmitInv
  <2>4. /\ Coverage(Elements(result["local"])) = Only("local")
        /\ Fewest(result["local"], Only("local"))
    BY <1>7 DEF ResultInv, Answered
  <2>5. \A s \in {"local", "live"} :
          Coverage(Elements(result'[s])) = Only(s) /\ Fewest(result'[s], Only(s))
    BY <1>2, <1>3, <1>7, <2>4
  <2>6. ResultInv'
    BY <1>1, <1>2, <1>4, <1>7, <2>1, <2>5 DEF ResultInv
  <2> QED BY <2>2, <2>3, <2>6
<1> QED BY <1>1, <1>6, <1>7

LEMMA ReportStep ==
  ASSUME IInv, Report
  PROVE  IInv'
<1> USE DEF IInv
<1>1. /\ pc = "report" /\ pc' = "done"
      /\ status' = StatusForDiff(Cardinality(input.live), Cardinality(input.local),
                                 Len(result.live), Len(result.local), input.invalid)
      /\ UNCHANGED <<input, side, mergeVars, scanVars, emitVars, result>>
  BY DEF Report
<1>2. TypeInv'
  BY <1>1 DEF TypeInv, mergeVars, scanVars, emitVars
<1>3. MergeInv' /\ OperandsInv' /\ SubtractInv' /\ ScanInv' /\ EmitInv'
  BY <1>1 DEF MergeInv, OperandsInv, SubtractInv, ScanInv, EmitInv, mergeVars
<1>4. \A s : Only(s)' = Only(s)
  BY <1>1 DEF Only
<1>5. ResultInv'
  BY <1>1, <1>4 DEF ResultInv, Answered
<1> QED BY <1>2, <1>3, <1>5

LEMMA StutterStep ==
  ASSUME IInv, UNCHANGED vars
  PROVE  IInv'
<1> USE DEF IInv
<1>1. UNCHANGED <<input, side, pc, queue, merged, left, right, l, rightIndex, i, cursor,
                  out, current, prefixes, result, status>>
  BY DEF vars, mergeVars, scanVars, emitVars, endVars
<1>2. Minuend' = Minuend /\ Subtrahend' = Subtrahend /\ \A s : Only(s)' = Only(s)
  BY <1>1, SameQuestions
<1>3. LeftBelow' = LeftBelow /\ Remaining' = Remaining
  BY <1>1 DEF LeftBelow, Remaining
<1>4. TypeInv' /\ MergeInv' /\ OperandsInv'
  BY <1>1, <1>2 DEF TypeInv, MergeInv, OperandsInv
<1>5. SubtractInv' /\ ScanInv'
  BY <1>1, <1>3 DEF SubtractInv, ScanInv
<1>6. EmitInv' /\ ResultInv'
  BY <1>1, <1>2, <1>3 DEF EmitInv, ResultInv, Answered
<1> QED BY <1>4, <1>5, <1>6

\* The invariant holds in every state, for every width of words and of
\* addresses and for every pair of finite sets of prefixes.
THEOREM Inductive == Spec => []IInv
<1>1. Init => IInv
  BY InitIInv
<1>2. IInv /\ [Next]_vars => IInv'
  BY MergeOneStep, MergedLeftStep, MergedRightStep, SkipRightStep, BeginScanStep, CutStep,
     KeepRestStep, SubtractedStep, EmitStep, EmittedStep, ReportStep, StutterStep DEF Next
<1> QED BY <1>1, <1>2, PTL DEF Spec

-----------------------------------------------------------------------------
(* What follows from the invariant *)

\* There are blocks exactly when there is something to cover.
LEMMA Blocks ==
  ASSUME NEW ps \in Seq(Cidrs)
  PROVE  Len(ps) \in Nat /\ (Len(ps) > 0 <=> Coverage(Elements(ps)) # {})
<1>1. Len(ps) \in Nat /\ \A k \in 1 .. Len(ps) : ps[k] \in Cidrs
  BY LenProperties, ElementOfSeq
<1>2. CASE Len(ps) = 0
  <2>1. Coverage(Elements(ps)) = {}
    <3>1. \A k \in 1 .. Len(ps) : FALSE
      BY <1>2
    <3>2. \A x : x \notin Coverage(Elements(ps))
      BY <3>1, InPrefixCoverage
    <3> QED BY <3>2
  <2> QED BY <1>1, <1>2, <2>1
<1>3. CASE Len(ps) > 0
  <2>1. 1 \in 1 .. Len(ps)
    BY <1>1, <1>3
  <2> DEFINE r == RangeOf(ps[1])
             x == <<r.family, Lo(r)>>
  <2>2. r \in ValidRanges
    BY <1>1, <2>1, CidrFacts
  <2>3. x \in Pairs /\ x \in Addresses(r)
    BY <2>2, InAddresses, RangeFacts DEF Pairs
  <2>4. x \in Coverage(Elements(ps))
    BY <2>1, <2>3, InPrefixCoverage
  <2> QED BY <1>1, <1>3, <2>4
<1> QED BY <1>1, <1>2, <1>3

\* There are prefixes exactly when something is covered.
LEMMA CoveredSets ==
  ASSUME NEW S \in SUBSET Cidrs, IsFiniteSet(S)
  PROVE  Cardinality(S) \in Nat /\ (Cardinality(S) > 0 <=> Coverage(S) # {})
<1>1. Cardinality(S) \in Nat /\ (Cardinality(S) = 0 <=> S = {})
  BY FS_CardinalityType, FS_EmptySet
<1>2. ASSUME NEW p \in S PROVE Coverage(S) # {}
  <2> DEFINE r == RangeOf(p)
             x == <<r.family, Lo(r)>>
  <2>1. r \in ValidRanges /\ BlockOf(p) = Addresses(r)
    BY CidrFacts
  <2>2. x \in Pairs /\ x \in Addresses(r)
    BY <2>1, InAddresses, RangeFacts DEF Pairs
  <2> QED BY <2>1, <2>2 DEF Coverage
<1>3. S = {} => Coverage(S) = {}
  BY CoverageOfNone
<1> QED BY <1>1, <1>2, <1>3

\* What statusForDiff reads off the two differences.
LEMMA StatusFacts ==
  ASSUME IInv, pc = "done"
  PROVE  /\ status \in {"live_only_missing", "invalid_live_lines", "equal",
                        "equal_coverage", "local_includes_live"}
         /\ StatusSound
<1> DEFINE cl == Cardinality(input.live)
           cm == Cardinality(input.local)
           ol == Len(result.live)
           om == Len(result.local)
           L == Coverage(input.live)
           M == Coverage(input.local)
<1>1. /\ cl \in Nat /\ cm \in Nat /\ (cl > 0 <=> L # {}) /\ (cm > 0 <=> M # {})
  BY InputFacts, CoveredSets DEF IInv
<1>2. input.invalid \in BOOLEAN
  BY InputsAssumption DEF InputsAssumption, IInv, TypeInv
<1>3. /\ ol \in Nat /\ om \in Nat
      /\ (ol > 0 <=> ~(L \subseteq M)) /\ (om > 0 <=> ~(M \subseteq L))
  <2>1. /\ result["live"] \in Seq(Cidrs) /\ result["local"] \in Seq(Cidrs)
        /\ Coverage(Elements(result["live"])) = L \ M
        /\ Coverage(Elements(result["local"])) = M \ L
    BY DEF IInv, TypeInv, ResultInv, Answered, Only
  <2> QED BY <2>1, Blocks
<1>4. status = StatusForDiff(cl, cm, ol, om, input.invalid)
  BY DEF IInv, ResultInv
<1> HIDE DEF cl, cm, ol, om, L, M
<1>5. CASE ol > 0
  <2>1. status = "live_only_missing"
    BY <1>4, <1>5 DEF StatusForDiff
  <2> QED BY <1>3, <1>5, <2>1 DEF StatusSound, L, M
<1>6. CASE ol = 0 /\ input.invalid
  <2>1. status = "invalid_live_lines"
    BY <1>3, <1>4, <1>6 DEF StatusForDiff
  <2> QED BY <1>3, <1>6, <2>1 DEF StatusSound, L, M
<1>7. CASE ol = 0 /\ ~input.invalid /\ om > 0
  <2>1. status = "local_includes_live"
    BY <1>3, <1>4, <1>7 DEF StatusForDiff
  <2> QED BY <1>3, <1>7, <2>1 DEF StatusSound, L, M
<1>8. CASE ol = 0 /\ ~input.invalid /\ om = 0
  <2>1. L = M
    BY <1>3, <1>8
  <2>2. CASE cl = cm
    <3>1. status = "equal"
      BY <1>3, <1>4, <1>8, <2>2 DEF StatusForDiff
    <3> QED BY <1>3, <1>8, <2>1, <3>1 DEF StatusSound, L, M
  <2>3. CASE cl # cm
    <3>1. cl > 0 /\ cm > 0
      BY <1>1, <2>1, <2>3
    <3>2. status = "equal_coverage"
      BY <1>3, <1>4, <1>8, <2>3, <3>1 DEF StatusForDiff
    <3> QED BY <1>3, <1>8, <2>1, <3>2 DEF StatusSound, L, M
  <2> QED BY <2>2, <2>3
<1> QED BY <1>2, <1>3, <1>5, <1>6, <1>7, <1>8

\* No two of the blocks are the halves of one: the lower could be doubled.
LEMMA NoHalves ==
  ASSUME NEW ps \in Seq(Cidrs), NEW D, Coverage(Elements(ps)) = D, Fewest(ps, D),
         NEW j \in 1 .. Len(ps), NEW k \in 1 .. Len(ps), j < k
  PROVE  /\ BlockOf(ps[j]) \cap BlockOf(ps[k]) = {}
         /\ \A x \in Cidrs : BlockOf(x) # BlockOf(ps[j]) \cup BlockOf(ps[k])
<1> DEFINE p == ps[j]
           q == ps[k]
           a == Number(p.addr)
           b == Number(q.addr)
           g == p.family - p.bits
           h == q.family - q.bits
<1>1. p \in Cidrs /\ q \in Cidrs
  BY ElementOfSeq
<1>2. EndsBefore(RangeOf(p), q.family, b) /\ Undoublable(p, D)
  BY DEF Fewest, Increasing
<1> HIDE DEF p, q
<1>3. /\ p.family \in Families /\ p.family \in Nat /\ g \in 0 .. p.family /\ g \in 0 .. V6
      /\ RangeOf(p).family = p.family /\ Hi(RangeOf(p)) = a + Pow2[g] - 1
      /\ a \in Nat /\ Pow2[g] \in Nat /\ Pow2[g] > 0 /\ Aligned(a, g)
  BY <1>1, CidrFacts, NumberFacts, Pow2Values
<1>4. /\ q.family \in Families /\ q.family \in Nat /\ h \in 0 .. q.family /\ h \in 0 .. V6
      /\ b \in Nat /\ Pow2[h] \in Nat /\ Pow2[h] > 0
  BY <1>1, CidrFacts, NumberFacts, Pow2Values
<1>5. \A x \in Cidrs :
        /\ BlockOf(x) \subseteq Pairs
        /\ \A y \in Pairs : y \in BlockOf(x) <=>
             /\ y[1] = x.family /\ Number(x.addr) <= y[2]
             /\ y[2] <= Number(x.addr) + Pow2[x.family - x.bits] - 1
  <2> SUFFICES ASSUME NEW x \in Cidrs
               PROVE  /\ BlockOf(x) \subseteq Pairs
                      /\ \A y \in Pairs : y \in BlockOf(x) <=>
                           /\ y[1] = x.family /\ Number(x.addr) <= y[2]
                           /\ y[2] <= Number(x.addr) + Pow2[x.family - x.bits] - 1
    OBVIOUS
  <2>1. /\ RangeOf(x) \in ValidRanges /\ BlockOf(x) = Addresses(RangeOf(x))
        /\ RangeOf(x).family = x.family /\ Lo(RangeOf(x)) = Number(x.addr)
        /\ Hi(RangeOf(x)) = Number(x.addr) + Pow2[x.family - x.bits] - 1
    BY CidrFacts
  <2> QED BY <2>1, InAddresses
<1>6. \A y \in Pairs : y[2] \in Nat
  BY DEF Pairs
<1>7. BlockOf(p) \cap BlockOf(q) = {}
  <2>1. ASSUME NEW y \in Pairs, y \in BlockOf(p), y \in BlockOf(q) PROVE FALSE
    <3>1. /\ y[1] = p.family /\ y[1] = q.family
          /\ b <= y[2] /\ y[2] <= a + Pow2[g] - 1
      BY <1>1, <1>5, <2>1
    <3>2. p.family \in Nat /\ a + Pow2[g] - 1 < b
      <4>1. ~(p.family < q.family)
        BY <1>3, <3>1
      <4> QED BY <1>2, <1>3, <4>1 DEF EndsBefore
    <3>3. a \in Nat /\ b \in Nat /\ Pow2[g] \in Nat /\ y[2] \in Nat
      BY <1>3, <1>4, <1>6
    <3> QED BY <3>1, <3>2, <3>3
  <2> QED BY <1>1, <1>5, <2>1
<1>8. ASSUME NEW x \in Cidrs, BlockOf(x) = BlockOf(p) \cup BlockOf(q)
      PROVE  FALSE
  <2> DEFINE f == x.family
             c == Number(x.addr)
             e == x.family - x.bits
  <2>1. /\ f \in Families /\ f \in Nat /\ e \in 0 .. f /\ e \in 0 .. V6 /\ c \in Nat
        /\ Pow2[e] \in Nat /\ Pow2[e] > 0 /\ Aligned(c, e)
    BY CidrFacts, NumberFacts, Pow2Values
  <2>2. \A y \in Pairs : y \in BlockOf(x) <=> y[1] = f /\ c <= y[2] /\ y[2] <= c + Pow2[e] - 1
    BY <1>5
  <2>3. \A y \in Pairs : y \in BlockOf(p) <=> y[1] = p.family /\ a <= y[2] /\ y[2] <= a + Pow2[g] - 1
    BY <1>1, <1>5
  <2>4. \A y \in Pairs : y \in BlockOf(q) <=> y[1] = q.family /\ b <= y[2] /\ y[2] <= b + Pow2[h] - 1
    BY <1>1, <1>5
  <2>5. \A d \in Families : \A n \in Nat : <<d, n>> \in Pairs /\ <<d, n>>[1] = d /\ <<d, n>>[2] = n
    BY DEF Pairs
  <2> HIDE DEF f, c, e, a, b, g, h
  <2>0. /\ a \in Nat /\ b \in Nat /\ c \in Nat
        /\ Pow2[g] \in Nat /\ Pow2[h] \in Nat /\ Pow2[e] \in Nat
        /\ Pow2[g] > 0 /\ Pow2[h] > 0 /\ Pow2[e] > 0
    BY <1>3, <1>4, <2>1
  <2>6. p.family = f /\ c <= a
    <3>1. <<p.family, a>> \in BlockOf(x)
      BY <1>3, <1>8, <2>3, <2>5
    <3> QED BY <1>3, <2>2, <2>5, <3>1
  <2>7. q.family = f /\ b + Pow2[h] <= c + Pow2[e]
    <3>1. b + Pow2[h] - 1 \in Nat /\ b <= b + Pow2[h] - 1
      BY <2>0
    <3>2. <<q.family, b + Pow2[h] - 1>> \in BlockOf(x)
      BY <1>4, <1>8, <2>4, <2>5, <3>1
    <3>3. q.family = f /\ b + Pow2[h] - 1 <= c + Pow2[e] - 1
      BY <1>4, <2>2, <2>5, <3>1, <3>2
    <3> QED BY <2>0, <3>3
  <2>8. a + Pow2[g] <= b
    <3>1. a + Pow2[g] - 1 < b
      BY <1>2, <1>3, <1>4, <2>6, <2>7 DEF EndsBefore
    <3> QED BY <2>0, <3>1
  <2>9. ASSUME NEW n \in Nat, c <= n, n <= c + Pow2[e] - 1
        PROVE  \/ a <= n /\ n <= a + Pow2[g] - 1
               \/ b <= n /\ n <= b + Pow2[h] - 1
    <3>1. <<f, n>> \in BlockOf(x)
      BY <2>1, <2>2, <2>5, <2>9
    <3>2. <<f, n>> \in BlockOf(p) \/ <<f, n>> \in BlockOf(q)
      BY <1>8, <3>1
    <3>3. <<f, n>> \in Pairs /\ <<f, n>>[2] = n
      BY <2>1, <2>5
    <3> QED BY <2>3, <2>4, <3>2, <3>3
  <2>10. c = a
    <3>1. c <= c + Pow2[e] - 1
      BY <2>0
    <3>2. a <= c \/ b <= c
      BY <2>0, <2>9, <3>1
    <3> QED BY <2>0, <2>6, <2>8, <3>2
  <2> DEFINE u == Pow2[g]
             v == Pow2[h]
             w == Pow2[e]
  <2>20. /\ a \in Nat /\ b \in Nat /\ u \in Nat /\ v \in Nat /\ w \in Nat
         /\ u > 0 /\ v > 0 /\ w > 0 /\ a + u <= b /\ b + v <= a + w
    BY <2>0, <2>7, <2>8, <2>10
  <2>21. ASSUME NEW n \in Nat, a <= n, n <= a + w - 1
         PROVE  n <= a + u - 1 \/ (b <= n /\ n <= b + v - 1)
    <3>1. c <= n /\ n <= c + Pow2[e] - 1
      BY <2>10, <2>21
    <3>2. \/ a <= n /\ n <= a + Pow2[g] - 1
          \/ b <= n /\ n <= b + Pow2[h] - 1
      BY <2>9, <3>1
    <3> QED BY <3>2
  <2> HIDE DEF u, v, w
  <2>11. b = a + u
    <3> SUFFICES ASSUME a + u < b PROVE FALSE
      BY <2>20
    <3>1. a + u \in Nat /\ a <= a + u /\ a + u <= a + w - 1
      BY <2>20
    <3>2. a + u <= a + u - 1 \/ b <= a + u
      BY <2>21, <3>1
    <3> QED BY <2>20, <3>2
  <2>22. w = u + v
    <3>1. a + w - 1 \in Nat /\ a <= a + w - 1 /\ a + w - 1 <= a + w - 1
      BY <2>20
    <3>2. a + w - 1 <= a + u - 1 \/ a + w - 1 <= b + v - 1
      BY <2>21, <3>1
    <3> QED BY <2>20, <2>11, <3>2
  <2>12. Pow2[e] = Pow2[g] + Pow2[h]
    BY <2>22 DEF u, v, w
  <2>13. g < e /\ h < e
    <3>0. g \in 0 .. V6 /\ h \in 0 .. V6 /\ e \in 0 .. V6
      BY <1>3, <1>4, <2>1
    <3>1. Pow2[g] < Pow2[e] /\ Pow2[h] < Pow2[e]
      BY <2>0, <2>12
    <3>2. g # e /\ h # e
      BY <2>0, <3>1
    <3>3. ~(e < g) /\ ~(e < h)
      BY <2>0, <3>0, <3>1, Pow2Less
    <3> QED BY <3>0, <3>2, <3>3
  <2>14. Pow2[g] = Pow2[h] /\ Pow2[e] = 2 * Pow2[g]
    <3>1. 2 * Pow2[g] <= Pow2[e] /\ 2 * Pow2[h] <= Pow2[e]
      BY <1>3, <1>4, <2>1, <2>13, Pow2Less
    <3> QED BY <2>0, <2>12, <3>1
  <2>15. e = g + 1
    <3>0. g \in 0 .. V6 /\ e \in 0 .. V6 /\ V6 \in Nat
      BY <1>3, <2>1, Widths
    <3>1. g + 1 \in 0 .. V6 /\ g + 1 # 0 /\ (g + 1) - 1 = g
      BY <2>13, <3>0
    <3>2. Pow2[g + 1] = 2 * Pow2[g]
      BY <3>1, Pow2Step
    <3>3. g + 1 < e => Pow2[g + 1] < Pow2[e]
      BY <3>0, <3>1, Pow2Less
    <3>4. ~(g + 1 < e)
      BY <2>0, <2>14, <3>2, <3>3
    <3> QED BY <2>13, <3>0, <3>4
  <2>16. PICK n \in a .. a + Pow2[g + 1] - 1 : <<p.family, n>> \notin D
    <3>1. g + 1 <= p.family /\ Aligned(a, g + 1)
      BY <1>3, <2>1, <2>6, <2>10, <2>15
    <3> QED BY <1>2, <3>1 DEF Undoublable, a, g
  <2>17. <<f, n>> \in BlockOf(x)
    <3>1. n \in Nat /\ c <= n /\ n <= c + Pow2[e] - 1
      BY <2>0, <2>10, <2>15, <2>16
    <3> QED BY <2>1, <2>2, <2>5, <3>1
  <2>18. BlockOf(p) \subseteq D /\ BlockOf(q) \subseteq D
    <3>1. DOMAIN ps = 1 .. Len(ps)
      BY LenProperties
    <3> QED BY <3>1 DEF Coverage, Elements, p, q
  <2> QED BY <1>8, <2>6, <2>16, <2>17, <2>18
<1> QED BY <1>7, <1>8 DEF p, q

LEMMA TypeOKFollows == IInv => TypeOK
<1> SUFFICES ASSUME IInv PROVE TypeOK
  OBVIOUS
<1>1. TypeInv
  BY DEF IInv
<1>2. input.live \cup input.local \subseteq Cidrs
  BY <1>1, InputFacts DEF TypeInv
<1>3. \A s \in {queue, merged, left, right, out} : s \in Seq(Ranges)
  <2>1. ValidRanges \subseteq Ranges
    BY DEF ValidRanges
  <2>2. \A s : s \in Seq(ValidRanges) => s \in Seq(Ranges)
    <3> SUFFICES ASSUME NEW s \in Seq(ValidRanges) PROVE s \in Seq(Ranges)
      OBVIOUS
    <3>1. /\ Len(s) \in Nat /\ s = [k \in 1 .. Len(s) |-> s[k]]
          /\ \A k \in 1 .. Len(s) : s[k] \in Ranges
      BY <2>1, LenProperties, ElementOfSeq
    <3> QED BY <3>1
  <2> QED BY <1>1, <2>2 DEF TypeInv
<1>4. status \in {"none", "live_only_missing", "invalid_live_lines", "equal",
                  "equal_coverage", "local_includes_live"}
  <2>1. CASE pc = "done"
    BY <2>1, StatusFacts
  <2>2. CASE pc # "done"
    BY <2>2 DEF IInv, ResultInv
  <2> QED BY <2>1, <2>2
<1> QED BY <1>1, <1>2, <1>3, <1>4 DEF TypeInv, TypeOK

LEMMA ScannedExactFollows == IInv => ScannedExact
<1> DEFINE m == left[l]
           below == UNION {Addresses(left[k]) : k \in 1 .. l - 1}
           done == below \cup (Addresses(m) \ Between(m.family, Number(cursor), Number(m.end)))
<1> SUFFICES ASSUME IInv, pc = "scan"
             PROVE  /\ AtMost(m.start, cursor) /\ AtMost(cursor, m.end)
                    /\ RangeCoverage(out) = done \ RangeCoverage(right)
  BY DEF ScannedExact
<1>1. /\ left \in Seq(ValidRanges) /\ cursor \in Uint128s
      /\ l \in Nat \ {0} /\ l <= Len(left)
      /\ Lo(m) <= Number(cursor) /\ Number(cursor) <= Hi(m)
      /\ RangeCoverage(out) =
           (below \cup (Addresses(m) \ Between(m.family, Number(cursor), Hi(m))))
             \ RangeCoverage(right)
  BY DEF IInv, TypeInv, ScanInv, LeftBelow
<1>2. m \in ValidRanges
  BY <1>1, LenProperties, ElementOfSeq
<1>3. m.start \in Uint128s /\ m.end \in Uint128s
  BY <1>2 DEF ValidRanges, Ranges
<1>4. AtMost(m.start, cursor) /\ AtMost(cursor, m.end)
  BY <1>1, <1>3, Compare DEF Lo, Hi
<1>5. RangeCoverage(out) = done \ RangeCoverage(right)
  BY <1>1 DEF Hi
<1> QED BY <1>4, <1>5

LEMMA DifferenceExactFollows == IInv => DifferenceExact
<1> SUFFICES ASSUME IInv, pc = "done" PROVE DifferenceExact
  BY DEF DifferenceExact
<1>1. \A s \in {"local", "live"} : Coverage(Elements(result[s])) = Only(s)
  BY DEF IInv, ResultInv, Answered
<1> QED BY <1>1 DEF Only, DifferenceExact

LEMMA DifferenceMinimalFollows == IInv => DifferenceMinimal
<1> SUFFICES ASSUME IInv, pc = "done",
                    NEW s \in {"local", "live"},
                    NEW j \in DOMAIN result[s], NEW k \in DOMAIN result[s], j < k
             PROVE  LET p == result[s][j]
                        q == result[s][k]
                        both == BlockOf(p) \cup BlockOf(q)
                    IN  /\ BlockOf(p) \cap BlockOf(q) = {}
                        /\ \A x \in Cidrs : BlockOf(x) # both
  BY DEF DifferenceMinimal
<1>1. result[s] \in Seq(Cidrs)
  BY DEF IInv, TypeInv
<1>2. Coverage(Elements(result[s])) = Only(s) /\ Fewest(result[s], Only(s))
  BY DEF IInv, ResultInv, Answered
<1>3. j \in 1 .. Len(result[s]) /\ k \in 1 .. Len(result[s])
  BY <1>1, LenProperties
<1> QED BY <1>1, <1>2, <1>3, NoHalves

\* TypeOK: no loop of the comparison leaves a range that is not one of
\* addresses of its family, or a prefix that is not in normal form.
THEOREM TypeOKHolds == Spec => []TypeOK
BY Inductive, TypeOKFollows, PTL

\* ScannedExact: while subtractRanges scans a range, what lies below the
\* cursor is decided, and decided right, and the cursor does not wrap.
THEOREM ScannedExactHolds == Spec => []ScannedExact
BY Inductive, ScannedExactFollows, PTL

\* DifferenceExact: the blocks reported for a side cover exactly what only
\* that side covers.
THEOREM DifferenceExactHolds == Spec => []DifferenceExact
BY Inductive, DifferenceExactFollows, PTL

\* DifferenceMinimal: the blocks reported are disjoint and no two of them
\* are the halves of one block.
THEOREM DifferenceMinimalHolds == Spec => []DifferenceMinimal
BY Inductive, DifferenceMinimalFollows, PTL

\* StatusSound: statusForDiff, which sees only numbers of blocks and of
\* prefixes, says what the coverages are.
THEOREM StatusSoundHolds == Spec => []StatusSound
<1>1. IInv => StatusSound
  BY StatusFacts DEF StatusSound
<1> QED BY <1>1, Inductive, PTL

-----------------------------------------------------------------------------
(* Why the loops end *)

\* The phases of a comparison, in the order in which they are gone through.
PhaseOf(s, p) ==
  CASE p = "done" -> 9
    [] p = "report" -> 8
    [] OTHER -> (IF s = "local" THEN 0 ELSE 4)
                + (CASE p = "mergeLeft" -> 0
                     [] p = "mergeRight" -> 1
                     [] p = "emit" -> 3
                     [] OTHER -> 2)
Phase == PhaseOf(side, pc)

\* A turn of a loop: fewer ranges are left to merge; the scan has come to a
\* further range of left or, for the same one, of right; fewer ranges are left
\* to cut into blocks, or less of the first.
Turn ==
  \/ pc \in {"mergeLeft", "mergeRight"} /\ Len(queue') < Len(queue)
  \/ pc \in {"subtract", "scan"} /\ l' > l
  \/ pc = "subtract" /\ l' = l /\ pc' = "scan"
  \/ pc = "subtract" /\ l' = l /\ pc' = "subtract" /\ rightIndex' > rightIndex
  \/ pc = "scan" /\ l' = l /\ pc' = "scan" /\ i' > i
  \/ pc = "emit" /\ Len(queue') < Len(queue)
  \/ pc = "emit" /\ queue' = queue /\ Number(current') > Number(current)

Advance ==
  \/ Phase' > Phase
  \/ Phase' = Phase /\ UNCHANGED <<left, right>> /\ Turn

\* What a turn increases has an end.
Bounded ==
  /\ Phase \in 0 .. 9
  /\ pc \in {"subtract", "scan"} =>
       l <= Len(left) + 1 /\ rightIndex <= Len(right) + 1
  /\ pc = "scan" => i <= Len(right) + 1
  /\ pc = "emit" /\ queue # <<>> => Number(current) <= Number(Head(queue).end)

LEMMA Phases ==
  /\ \A s \in {"local", "live"} : PhaseOf(s, "report") = 8 /\ PhaseOf(s, "done") = 9
  /\ PhaseOf("local", "mergeLeft") = 0 /\ PhaseOf("live", "mergeLeft") = 4
  /\ PhaseOf("local", "mergeRight") = 1 /\ PhaseOf("live", "mergeRight") = 5
  /\ PhaseOf("local", "subtract") = 2 /\ PhaseOf("live", "subtract") = 6
  /\ PhaseOf("local", "scan") = 2 /\ PhaseOf("live", "scan") = 6
  /\ PhaseOf("local", "emit") = 3 /\ PhaseOf("live", "emit") = 7
BY DEF PhaseOf

LEMMA BoundedFollows == IInv => Bounded
<1> SUFFICES ASSUME IInv PROVE Bounded
  OBVIOUS
<1>1. TypeInv /\ SubtractInv /\ ScanInv /\ EmitInv
  BY DEF IInv
<1>2. Phase \in 0 .. 9
  BY <1>1, Phases DEF TypeInv, Phase
<1>3. pc \in {"subtract", "scan"} => l <= Len(left) + 1 /\ rightIndex <= Len(right) + 1
  <2>1. Len(right) \in Nat /\ rightIndex \in 1 .. Len(right) + 1
    BY <1>1, LenProperties DEF TypeInv
  <2> QED BY <1>1, <2>1 DEF SubtractInv
<1>4. pc = "scan" => i <= Len(right) + 1
  BY <1>1 DEF ScanInv
<1>5. pc = "emit" /\ queue # <<>> => Number(current) <= Number(Head(queue).end)
  BY <1>1 DEF EmitInv, Hi
<1> QED BY <1>2, <1>3, <1>4, <1>5 DEF Bounded

\* Of one turn of rangesToPrefixes: addresses do not wrap before the end of the
\* range, so what is left of it shrinks.
LEMMA EmitAdvances ==
  ASSUME IInv, Emit
  PROVE  Turn
<1> DEFINE r == Head(queue)
           h == LargestHostBits(current, r.end, r.family)
           b == AddBlockEnd(current, h, r.family)
<1>0. /\ pc = "emit" /\ queue # <<>>
      /\ IF IsLastBlock(b, r) THEN queue' = Tail(queue)
         ELSE current' = Increment(b) /\ queue' = queue
  BY DEF Emit
<1>1. /\ queue \in Seq(ValidRanges) /\ current \in Uint128s
      /\ Lo(r) <= Number(current) /\ Number(current) <= Hi(r)
  BY <1>0 DEF IInv, TypeInv, EmitInv
<1>2. /\ r \in ValidRanges /\ Hi(r) \in Nat
      /\ Len(queue) \in Nat /\ Len(Tail(queue)) = Len(queue) - 1
  BY <1>0, <1>1, CoverageOfTail, RangeFacts
<1>3. /\ Number(b) \in Nat /\ Number(current) \in Nat
      /\ Number(current) <= Number(b) /\ Number(b) <= Hi(r)
      /\ IsLastBlock(b, r) <=> Number(b) = Hi(r)
      /\ Number(b) < Hi(r) => Number(Increment(b)) = Number(b) + 1
  BY <1>1, <1>2, FirstBlock
<1> HIDE DEF b, h, r
<1>4. CASE IsLastBlock(b, r)
  <2>1. Len(queue') < Len(queue)
    BY <1>0, <1>2, <1>4
  <2> QED BY <1>0, <2>1 DEF Turn
<1>5. CASE ~IsLastBlock(b, r)
  <2>1. queue' = queue /\ current' = Increment(b) /\ Number(b) < Hi(r)
    BY <1>0, <1>2, <1>3, <1>5
  <2>2. Number(current') > Number(current)
    BY <1>3, <2>1
  <2> QED BY <1>0, <2>1, <2>2 DEF Turn
<1> QED BY <1>4, <1>5

LEMMA StepAdvances ==
  ASSUME IInv, IInv', Next
  PROVE  Advance
<1>1. TypeInv /\ TypeInv'
  BY DEF IInv
<1>2. Phase = PhaseOf(side, pc) /\ Phase' = PhaseOf(side', pc')
  BY DEF Phase
<1>3. side \in {"local", "live"} /\ (pc \in {"report", "done"} => side = "live")
  BY DEF IInv, TypeInv, ResultInv
<1>4. UNCHANGED <<side, pc>> => Phase' = Phase
  BY <1>2
<1>5. CASE MergeOne
  <2>1. /\ pc \in {"mergeLeft", "mergeRight"} /\ queue' = Tail(queue) /\ queue # <<>>
        /\ UNCHANGED <<side, pc, left, right>> /\ queue \in Seq(ValidRanges)
    BY <1>1, <1>5 DEF MergeOne, scanVars, TypeInv
  <2>2. Len(queue') < Len(queue)
    <3>1. Len(queue) \in Nat /\ Len(Tail(queue)) = Len(queue) - 1
      BY <2>1, CoverageOfTail
    <3> QED BY <2>1, <3>1
  <2> QED BY <1>4, <2>1, <2>2 DEF Advance, Turn
<1>6. CASE MergedLeft
  <2>1. pc = "mergeLeft" /\ pc' = "mergeRight" /\ side' = side
    BY <1>6 DEF MergedLeft
  <2> QED BY <1>2, <1>3, <2>1, Phases DEF Advance
<1>7. CASE MergedRight
  <2>1. pc = "mergeRight" /\ pc' = "subtract" /\ side' = side
    BY <1>7 DEF MergedRight
  <2> QED BY <1>2, <1>3, <2>1, Phases DEF Advance
<1>8. CASE SkipRight
  <2>1. /\ pc = "subtract" /\ rightIndex' = rightIndex + 1 /\ l' = l
        /\ UNCHANGED <<side, pc, left, right>> /\ rightIndex \in Nat
    BY <1>1, <1>8 DEF SkipRight, TypeInv
  <2> QED BY <1>4, <2>1 DEF Advance, Turn
<1>9. CASE BeginScan
  <2>1. pc = "subtract" /\ pc' = "scan" /\ UNCHANGED <<side, l, left, right>>
    BY <1>9 DEF BeginScan
  <2>2. Phase' = Phase
    BY <1>2, <1>3, <2>1, Phases
  <2> QED BY <2>1, <2>2 DEF Advance, Turn
<1>10. CASE Cut \/ KeepRest
  <2>1. /\ pc = "scan" /\ UNCHANGED <<side, left, right>> /\ l \in Nat /\ i \in Nat
        /\ \/ pc' = "scan" /\ l' = l /\ i' = i + 1
           \/ pc' = "subtract" /\ l' = l + 1
    BY <1>1, <1>10 DEF Cut, KeepRest, TypeInv
  <2>2. Phase' = Phase
    BY <1>2, <1>3, <2>1, Phases
  <2> QED BY <2>1, <2>2 DEF Advance, Turn
<1>11. CASE Subtracted
  <2>1. pc = "subtract" /\ pc' = "emit" /\ side' = side
    BY <1>11 DEF Subtracted
  <2> QED BY <1>2, <1>3, <2>1, Phases DEF Advance
<1>12. CASE Emit
  <2>1. UNCHANGED <<side, pc, left, right>>
    BY <1>12 DEF Emit, scanVars
  <2> QED BY <1>4, <1>12, <2>1, EmitAdvances DEF Advance
<1>13. CASE Emitted
  <2>1. /\ pc = "emit"
        /\ \/ side = "local" /\ side' = "live" /\ pc' = "mergeLeft"
           \/ side = "live" /\ side' = side /\ pc' = "report"
    BY <1>3, <1>13 DEF Emitted
  <2> QED BY <1>2, <1>3, <2>1, Phases DEF Advance
<1>14. CASE Report
  <2>1. pc = "report" /\ pc' = "done" /\ side' = side
    BY <1>14 DEF Report
  <2> QED BY <1>2, <1>3, <2>1, Phases DEF Advance
<1> QED BY <1>5, <1>6, <1>7, <1>8, <1>9, <1>10, <1>11, <1>12, <1>13, <1>14 DEF Next

\* Every step of a comparison goes on to a later phase or takes a turn of the
\* loop of this one, which brings something that has an end nearer to it: so
\* there are only finitely many, although addresses wrap.
THEOREM LoopsAdvance == Spec => [][Advance]_vars /\ []Bounded
<1>1. IInv /\ IInv' /\ [Next]_vars => [Advance]_vars
  BY StepAdvances
<1> QED BY <1>1, Inductive, BoundedFollows, PTL DEF Spec
=============================================================================
