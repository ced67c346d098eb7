------------------------- MODULE MqttBackoff_proofs -------------------------
(***************************************************************************)
(* Theorems about the reconnect delays of crates/mqtt, for every word size *)
(* and every policy whose delays are words.                                *)
(***************************************************************************)
EXTENDS MqttBackoff, FiniteSetTheorems, FunctionTheorems,
        NaturalsInduction, WellFoundedInduction, TLAPS

-----------------------------------------------------------------------------
(* Numbers.                                                                *)

\* Induction over the natural numbers, for a set.
LEMMA InductionInSet ==
    ASSUME NEW K, 0 \in K, \A n \in Nat : n \in K => n + 1 \in K
    PROVE  \A n \in Nat : n \in K
<1> DEFINE T == {n \in Nat : n \notin K}
           R == OpToRel(<, Nat)
<1> SUFFICES ASSUME T # {}
             PROVE  FALSE
  OBVIOUS
<1>1. IsWellFoundedOn(R, Nat)
  BY NatLessThanWellFounded, Zenon
<1>2. T \subseteq Nat
  OBVIOUS
<1>3. PICK x \in T : \A y \in T : ~(<<y, x>> \in R)
  <2> HIDE DEF R, T
  <2> QED
    BY <1>1, <1>2, WFMin
<1>4. \A y \in T : ~(y < x)
  BY <1>3 DEF OpToRel
<1>5. x # 0 /\ x - 1 \in Nat /\ x - 1 \notin T
  BY <1>4
<1>6. x - 1 \in K
  BY <1>5
<1> QED
  BY <1>5, <1>6

\* 2^n counts the subsets of n things, which is how the powers of two are
\* known for every n.
LEMMA PowerCountsSubsets ==
    ASSUME NEW S, IsFiniteSet(S)
    PROVE  /\ 2^Cardinality(S) = Cardinality(SUBSET S)
           /\ Cardinality(SUBSET S) \in Nat \ {0}
<1>1. IsFiniteSet(SUBSET S) /\ 2^Cardinality(S) = Cardinality(SUBSET S)
  BY FS_SUBSET, Zenon
<1>2. SUBSET S # {}
  <2>1. {} \in SUBSET S
    OBVIOUS
  <2> QED
    BY <2>1
<1>3. Cardinality(SUBSET S) \in Nat
  BY <1>1, FS_CardinalityType, Zenon
<1>4. Cardinality(SUBSET S) # 0
  BY <1>1, <1>2, FS_EmptySet, Zenon
<1> QED
  BY <1>1, <1>3, <1>4

\* One more thing doubles the subsets.
LEMMA OneMoreDoubles ==
    ASSUME NEW S, IsFiniteSet(S), NEW x, x \notin S
    PROVE  Cardinality(SUBSET (S \cup {x})) = 2 * Cardinality(SUBSET S)
<1> DEFINE A == SUBSET S
           B == {T \cup {x} : T \in A}
           f == [T \in A |-> T \cup {x}]
<1>1. IsFiniteSet(A) /\ Cardinality(A) \in Nat
  BY FS_SUBSET, FS_CardinalityType, Zenon
<1>2. \A T, U \in A : T \cup {x} = U \cup {x} => T = U
  OBVIOUS
<1>3. f \in Bijection(A, B)
  <2>1. f \in [A -> B]
    OBVIOUS
  <2>2. \A T, U \in A : f[T] = f[U] => T = U
    <3> HIDE DEF A
    <3> QED
      BY <1>2
  <2>3. \A b \in B : \E T \in A : f[T] = b
    <3> HIDE DEF A
    <3> QED
      OBVIOUS
  <2> HIDE DEF A, B, f
  <2> QED
    BY <2>1, <2>2, <2>3 DEF Bijection, Injection, Surjection, IsInjective
<1>4. IsFiniteSet(B) /\ Cardinality(B) = Cardinality(A)
  <2> HIDE DEF A, B, f
  <2>1. ExistsBijection(A, B)
    BY <1>3 DEF ExistsBijection
  <2> QED
    BY <1>1, <2>1, FS_Bijection, Zenon
<1>5. A \cap B = {}
  OBVIOUS
<1>6. SUBSET (S \cup {x}) = A \cup B
  <2>1. ASSUME NEW T \in SUBSET (S \cup {x})
        PROVE  T \in A \cup B
    <3>1. CASE x \in T
      <4>1. T \ {x} \in A
        BY <2>1
      <4>2. T = (T \ {x}) \cup {x}
        BY <3>1
      <4> QED
        BY <4>1, <4>2
    <3>2. CASE x \notin T
      BY <2>1, <3>2
    <3> QED
      BY <3>1, <3>2
  <2>2. A \cup B \subseteq SUBSET (S \cup {x})
    OBVIOUS
  <2> HIDE DEF A, B
  <2> QED
    BY <2>1, <2>2
<1> HIDE DEF A, B
<1>7. Cardinality(A \cup B)
        = Cardinality(A) + Cardinality(B) - Cardinality(A \cap B)
  BY <1>1, <1>4, FS_Union, Zenon
<1>8. Cardinality(A \cap B) = 0
  BY <1>5, FS_EmptySet, Zenon
<1>9. Cardinality(A \cup B) = 2 * Cardinality(A)
  BY <1>1, <1>4, <1>7, <1>8
<1> QED
  BY <1>6, <1>9 DEF A

\* The powers of two are positive, and each is twice the one before.
LEMMA PowersOfTwo ==
    /\ 2^0 = 1
    /\ \A n \in Nat : 2^n \in Nat \ {0} /\ 2^(n + 1) = 2 * 2^n
<1>1. ASSUME NEW n \in Nat
      PROVE  2^n \in Nat \ {0} /\ 2^(n + 1) = 2 * 2^n
  <2> DEFINE S == 1 .. n
             T == S \cup {n + 1}
  <2>1. IsFiniteSet(S) /\ Cardinality(S) = n
    <3>1. /\ IsFiniteSet(1 .. n)
          /\ Cardinality(1 .. n) = IF 1 > n THEN 0 ELSE n - 1 + 1
      BY FS_Interval
    <3> QED
      BY <3>1
  <2>2. n + 1 \notin S
    OBVIOUS
  <2> HIDE DEF S
  <2>3. IsFiniteSet(T) /\ Cardinality(T) = n + 1
    BY <2>1, <2>2, FS_AddElement
  <2>4. 2^n = Cardinality(SUBSET S) /\ Cardinality(SUBSET S) \in Nat \ {0}
    BY <2>1, PowerCountsSubsets
  <2>5. Cardinality(SUBSET T) = 2 * Cardinality(SUBSET S)
    BY <2>1, <2>2, OneMoreDoubles, Zenon
  <2> HIDE DEF T
  <2>6. 2^(n + 1) = Cardinality(SUBSET T)
    BY <2>3, PowerCountsSubsets
  <2> QED
    BY <2>4, <2>5, <2>6
<1> QED
  BY <1>1

\* A sum of exponents is a product of powers.
LEMMA PowerOfSum ==
    ASSUME NEW a \in Nat, NEW b \in Nat
    PROVE  2^(a + b) = 2^a * 2^b
<1> DEFINE K == {n \in Nat : 2^(a + n) = 2^a * 2^n}
<1>1. 0 \in K
  <2>1. a + 0 = a /\ 2^0 = 1 /\ 2^a \in Nat
    BY PowersOfTwo
  <2> QED
    BY <2>1
<1>2. ASSUME NEW n \in Nat, n \in K
      PROVE  n + 1 \in K
  <2> DEFINE x == 2^a
             y == 2^n
  <2>1. x \in Nat /\ y \in Nat /\ 2^(n + 1) = 2 * y
    BY PowersOfTwo
  <2>2. 2^(a + n) = x * y
    BY <1>2
  <2>3. 2^((a + n) + 1) = 2 * 2^(a + n)
    BY PowersOfTwo
  <2>4. (a + n) + 1 = a + (n + 1)
    OBVIOUS
  <2> HIDE DEF x, y
  <2>5. 2 * (x * y) = x * (2 * y)
    BY <2>1
  <2>6. 2^(a + (n + 1)) = x * 2^(n + 1)
    BY <2>1, <2>2, <2>3, <2>4, <2>5
  <2> QED
    BY <2>6 DEF x
<1> HIDE DEF K
<1>3. \A n \in Nat : n \in K
  BY <1>1, <1>2, InductionInSet
<1> QED
  BY <1>3 DEF K

\* A number exceeds a quotient exactly when its product exceeds the dividend.
LEMMA ExceedsQuotient ==
    ASSUME NEW i \in Nat, NEW m \in Nat, NEW p \in Nat \ {0}
    PROVE  i > m \div p <=> i * p > m
OBVIOUS

\* A remainder is the only number below the divisor that is left over.
LEMMA RemainderIs ==
    ASSUME NEW k \in Nat, NEW m \in Nat \ {0}, NEW r \in Nat, r < m
    PROVE  (k * m + r) % m = r
OBVIOUS

\* Quotient and remainder put together give the number.
LEMMA QuotientAndRemainder ==
    ASSUME NEW n \in Nat, NEW m \in Nat \ {0}
    PROVE  /\ n \div m \in Nat
           /\ n % m \in Nat
           /\ n % m < m
           /\ n = (n \div m) * m + (n % m)
           /\ n < m => n % m = n
OBVIOUS

-----------------------------------------------------------------------------
(* The shift.                                                              *)

\* What ShiftedAtMost keeps of n, with p the power of the bits but one that
\* survive and q that of the shift but one.
Low(n, p) == 2 * ((n \div 2) % p) + (n % 2)

\* It is shifted as the word is, and compared as its shifted value is.
IsShifted(n, p, q, limit, low) ==
    /\ low \in Nat
    /\ low > (limit \div 2) \div q <=> (2 * low) * q > limit
    /\ (2 * low) * q \in Nat
    /\ n \div 2 < p => low = n
    /\ (n * (2 * q)) % (4 * (p * q)) = (2 * low) * q

\* The surviving bits are such.
LEMMA SurvivingBits ==
    ASSUME NEW n \in Nat, NEW p \in Nat \ {0}, NEW q \in Nat \ {0},
           NEW limit \in Nat
    PROVE  IsShifted(n, p, q, limit, Low(n, p))
<1> DEFINE h == n \div 2
           b == n % 2
           r == h % p
           k == h \div p
           low == Low(n, p)
<1>1. h \in Nat /\ b \in {0, 1} /\ n = 2 * h + b
  OBVIOUS
<1> HIDE DEF h, b
<1>2. /\ k \in Nat
      /\ r \in Nat
      /\ r < p
      /\ h = k * p + r
      /\ h < p => r = h
  BY <1>1, QuotientAndRemainder
<1>3. low = 2 * r + b
  BY DEF h, b, Low
<1> HIDE DEF r, k, low
<1>4. low \in Nat /\ (2 * low) * q \in Nat /\ low * q \in Nat
  BY <1>1, <1>2, <1>3
<1>5. low > (limit \div 2) \div q <=> low * q > limit \div 2
  <2>1. limit \div 2 \in Nat
    OBVIOUS
  <2> QED
    BY <1>4, <2>1, ExceedsQuotient
<1>6. (2 * low) * q = 2 * (low * q)
  BY <1>4
<1>7. low * q > limit \div 2 <=> 2 * (low * q) > limit
  <2> DEFINE z == low * q
  <2>1. z \in Nat
    BY <1>4
  <2> HIDE DEF z
  <2>2. z > limit \div 2 <=> 2 * z > limit
    BY <2>1
  <2> QED
    BY <2>2 DEF z
<1>8. h < p => low = n
  BY <1>1, <1>2, <1>3
<1>9. (n * (2 * q)) % (4 * (p * q)) = (2 * low) * q
  <2> DEFINE m == 4 * (p * q)
             t == (2 * low) * q
  <2>1. low <= 2 * p - 1
    BY <1>1, <1>2, <1>3
  <2>2. low * q < (2 * p) * q
    <3>1. low + 1 <= 2 * p
      BY <1>4, <2>1
    <3>2. (low + 1) * q <= (2 * p) * q
      BY <1>4, <3>1
    <3>3. (low + 1) * q = low * q + q
      BY <1>4
    <3> QED
      BY <1>4, <3>2, <3>3
  <2>3. m \in Nat \ {0} /\ t \in Nat /\ t < m
    BY <1>4, <1>6, <2>2
  <2>4. n = (2 * k) * p + low
    <3>1. PICK x \in Nat : x = k * p
      BY <1>2
    <3>2. (2 * k) * p = 2 * x
      BY <1>2, <3>1
    <3>3. h = x + r
      BY <1>2, <3>1
    <3> QED
      BY <1>1, <1>2, <1>3, <3>2, <3>3
  <2>5. n * (2 * q) = k * m + t
    BY <1>2, <1>4, <2>4
  <2> HIDE DEF m, t
  <2>6. (k * m + t) % m = t
    BY <1>2, <2>3, RemainderIs
  <2> QED
    BY <2>5, <2>6 DEF m, t
<1> QED
  BY <1>4, <1>5, <1>6, <1>7, <1>8, <1>9 DEF h, low, IsShifted

\* The powers ShiftedAtMost computes with.
LEMMA ShiftPowers ==
    ASSUME NEW shift \in 1 .. (WordBits - 1)
    PROVE  /\ 2^(WordBits - shift - 1) \in Nat \ {0}
           /\ 2^(shift - 1) \in Nat \ {0}
           /\ 2^shift = 2 * 2^(shift - 1)
           /\ 2^WordBits = 4 * (2^(WordBits - shift - 1) * 2^(shift - 1))
<1>0. WordBits \in Nat /\ shift \in Nat
  BY PolicyAssumption
<1>1. PICK a \in Nat : a = WordBits - shift - 1
  BY <1>0
<1>2. PICK b \in Nat : b = shift - 1
  BY <1>0
<1>3. b + 1 = shift /\ (a + b) + 1 + 1 = WordBits /\ a + b \in Nat /\ (a + b) + 1 \in Nat
  BY <1>0, <1>1, <1>2
<1>4. 2^a \in Nat \ {0} /\ 2^b \in Nat \ {0} /\ 2^(b + 1) = 2 * 2^b
  BY PowersOfTwo
<1>5. 2^(a + b) = 2^a * 2^b
  BY PowerOfSum
<1>6. 2^((a + b) + 1) = 2 * 2^(a + b) /\ 2^((a + b) + 1 + 1) = 2 * 2^((a + b) + 1)
  BY <1>3, PowersOfTwo
<1>7. 2^WordBits = 4 * (2^a * 2^b)
  <2> DEFINE x == 2^a * 2^b
  <2>1. x \in Nat
    BY <1>4
  <2> HIDE DEF x
  <2>2. 2^(a + b) = x
    BY <1>5 DEF x
  <2>3. 2^WordBits = 2 * (2 * x)
    BY <1>3, <1>6, <2>2
  <2> QED
    BY <2>1, <2>3 DEF x
<1> QED
  BY <1>1, <1>2, <1>3, <1>4, <1>7

\* ShiftedAtMost is the shift in a word of WordBits bits, cut at the limit:
\* computing it on smaller numbers, for the model checker, loses nothing.
LEMMA ShiftIsModulo ==
    ASSUME NEW n \in Nat, n < 2^WordBits, NEW shift \in 0 .. (WordBits - 1),
           NEW limit \in Nat
    PROVE  ShiftedAtMost(n, shift, limit)
               = Least((n * 2^shift) % 2^WordBits, limit)
<1>0. WordBits \in Nat
  BY PolicyAssumption
<1>1. CASE shift = 0
  <2>1. 2^shift = 1 /\ 2^WordBits \in Nat \ {0}
    BY <1>0, <1>1, PowersOfTwo
  <2>2. n * 2^shift = n
    BY <2>1
  <2>3. n % 2^WordBits = n
    BY <2>1, QuotientAndRemainder
  <2> QED
    BY <1>1, <2>2, <2>3 DEF ShiftedAtMost
<1>2. CASE shift # 0
  <2> DEFINE p == 2^(WordBits - shift - 1)
             q == 2^(shift - 1)
             low == Low(n, p)
  <2>1. /\ p \in Nat \ {0}
        /\ q \in Nat \ {0}
        /\ 2^shift = 2 * q
        /\ 2^WordBits = 4 * (p * q)
    BY <1>0, <1>2, ShiftPowers
  <2>2. ShiftedAtMost(n, shift, limit) =
            IF low > (limit \div 2) \div q THEN limit ELSE (2 * low) * q
    BY <1>2 DEF ShiftedAtMost, Low
  <2> HIDE DEF p, q, low
  <2>3. IsShifted(n, p, q, limit, low)
    BY <2>1, SurvivingBits DEF low
  <2>4. (n * 2^shift) % 2^WordBits = (2 * low) * q
    BY <2>1, <2>3 DEF IsShifted
  <2> QED
    BY <2>2, <2>3, <2>4 DEF Least, IsShifted
<1> QED
  BY <1>1, <1>2

\* A policy's delays are words.
LEMMA DelaysAreWords ==
    /\ InitialDelay \in Nat \ {0} /\ MaximumDelay \in Nat \ {0}
    /\ InitialDelay <= MaximumDelay
    /\ WordBits \in Nat /\ WordBits >= 2
    /\ InitialDelay < 2^WordBits /\ MaximumDelay < 2^WordBits
<1>1. /\ InitialDelay \in Nat \ {0} /\ MaximumDelay \in Nat \ {0}
      /\ InitialDelay <= MaximumDelay
      /\ WordBits \in Nat /\ WordBits >= 2
  BY PolicyAssumption DEF ValidPolicy
<1>2. PICK a \in Nat : a = WordBits - 2
  BY <1>1
<1>3. PICK x \in Nat : x = 2^a
  BY PowersOfTwo
<1>4. 2^WordBits = 4 * x
  <2>1. 2^(a + 1) = 2 * x
    BY <1>3, PowersOfTwo
  <2>2. 2^((a + 1) + 1) = 2 * 2^(a + 1)
    BY PowersOfTwo
  <2>3. (a + 1) + 1 = WordBits
    BY <1>1, <1>2
  <2> QED
    BY <2>1, <2>2, <2>3
<1>5. InitialDelay \div 4 < x /\ MaximumDelay \div 4 < x
  BY <1>2, <1>3, PolicyAssumption
<1> QED
  BY <1>1, <1>4, <1>5

\* The base is never above the maximum, whatever bits are lost.
LEMMA ShiftedInRange ==
    ASSUME NEW shift \in 0 .. (WordBits - 1)
    PROVE  ShiftedAtMost(InitialDelay, shift, MaximumDelay) \in 0 .. MaximumDelay
<1>1. PICK x \in Nat \ {0} : x = 2^shift
  BY DelaysAreWords, PowersOfTwo
<1>2. PICK m \in Nat \ {0} : m = 2^WordBits
  BY DelaysAreWords, PowersOfTwo
<1>3. ShiftedAtMost(InitialDelay, shift, MaximumDelay)
        = Least((InitialDelay * x) % m, MaximumDelay)
  <2>1. InitialDelay \in Nat /\ MaximumDelay \in Nat /\ InitialDelay < 2^WordBits
    BY DelaysAreWords
  <2>2. ShiftedAtMost(InitialDelay, shift, MaximumDelay)
          = Least((InitialDelay * 2^shift) % 2^WordBits, MaximumDelay)
    BY <2>1, ShiftIsModulo
  <2> QED
    BY <1>1, <1>2, <2>2, Zenon
<1>4. InitialDelay * x \in Nat
  BY DelaysAreWords
<1>5. (InitialDelay * x) % m \in Nat
  BY <1>4, QuotientAndRemainder
<1> QED
  BY <1>3, <1>5, DelaysAreWords DEF Least

\* As long as no bit is lost the base is the product, cut at the maximum.
LEMMA ShiftWithoutLoss ==
    ASSUME NEW shift \in 0 .. (WordBits - 1), Fits(shift)
    PROVE  ShiftedAtMost(InitialDelay, shift, MaximumDelay)
               = Least(InitialDelay * 2^shift, MaximumDelay)
<1>0. InitialDelay \in Nat /\ MaximumDelay \in Nat /\ InitialDelay < 2^WordBits
  BY DelaysAreWords
<1>1. ShiftedAtMost(InitialDelay, shift, MaximumDelay)
        = Least((InitialDelay * 2^shift) % 2^WordBits, MaximumDelay)
  BY <1>0, ShiftIsModulo
<1>2. 2^WordBits \in Nat \ {0} /\ 2^shift \in Nat
  BY DelaysAreWords, PowersOfTwo
<1>3. InitialDelay * 2^shift < 2^WordBits
  <2>1. CASE shift = 0
    BY <1>0, <2>1, PowersOfTwo
  <2>2. CASE shift # 0
    <3>1. PICK p \in Nat \ {0} : p = 2^(WordBits - shift - 1)
      BY <2>2, ShiftPowers, DelaysAreWords
    <3>2. PICK q \in Nat \ {0} : q = 2^(shift - 1)
      BY <2>2, ShiftPowers, DelaysAreWords
    <3>3. 2^shift = 2 * q /\ 2^WordBits = 4 * (p * q)
      BY <2>2, <3>1, <3>2, ShiftPowers, DelaysAreWords
    <3>4. InitialDelay \div 2 < p
      BY <2>2, <3>1 DEF Fits
    <3>5. InitialDelay + 1 <= 2 * p
      BY <1>0, <3>4
    <3>6. (InitialDelay + 1) * q <= (2 * p) * q
      BY <1>0, <3>5
    <3>7. /\ (InitialDelay + 1) * q = InitialDelay * q + q
          /\ InitialDelay * (2 * q) = 2 * (InitialDelay * q)
          /\ 4 * (p * q) = 2 * ((2 * p) * q)
          /\ InitialDelay * q \in Nat /\ (2 * p) * q \in Nat
      BY <1>0
    <3> QED
      BY <3>3, <3>6, <3>7
  <2> QED
    BY <2>1, <2>2
<1>4. InitialDelay * 2^shift \in Nat
  BY <1>0, <1>2
<1>5. (InitialDelay * 2^shift) % 2^WordBits = InitialDelay * 2^shift
  BY <1>2, <1>3, <1>4, QuotientAndRemainder
<1> QED
  BY <1>1, <1>5

-----------------------------------------------------------------------------
(* The doubling sequence.                                                  *)

\* Its closed form.
LEMMA DoublingIs ==
    \A n \in Nat : Doubling[n] = Least(InitialDelay * 2^n, MaximumDelay)
<1> DEFINE Rec(f) == [n \in Nat |-> IF n = 0 THEN InitialDelay
                                    ELSE Least(2 * f[n - 1], MaximumDelay)]
           G == [n \in Nat |-> Least(InitialDelay * 2^n, MaximumDelay)]
<1>0. /\ InitialDelay \in Nat /\ MaximumDelay \in Nat
      /\ InitialDelay <= MaximumDelay
  BY DelaysAreWords
<1>1. ASSUME NEW n \in Nat, n # 0
      PROVE  Least(2 * Least(InitialDelay * 2^(n - 1), MaximumDelay), MaximumDelay)
                = Least(InitialDelay * 2^n, MaximumDelay)
  <2>1. PICK x \in Nat : x = 2^(n - 1)
    BY <1>1, PowersOfTwo
  <2>2. 2^n = 2 * x
    <3>1. n - 1 \in Nat /\ (n - 1) + 1 = n
      BY <1>1
    <3> QED
      BY <2>1, <3>1, PowersOfTwo
  <2>3. PICK y \in Nat : y = InitialDelay * x
    BY <1>0
  <2>4. InitialDelay * (2 * x) = 2 * y
    BY <1>0, <2>3
  <2>5. Least(2 * Least(y, MaximumDelay), MaximumDelay) = Least(2 * y, MaximumDelay)
    BY <1>0 DEF Least
  <2> QED
    BY <2>1, <2>2, <2>3, <2>4, <2>5
<1>2. Least(InitialDelay * 2^0, MaximumDelay) = InitialDelay
  <2>1. 2^0 = 1
    BY PowersOfTwo
  <2>2. InitialDelay * 1 = InitialDelay
    BY <1>0
  <2> QED
    BY <1>0, <2>1, <2>2 DEF Least
<1>3. G = Rec(G)
  <2>1. ASSUME NEW n \in Nat
        PROVE  G[n] = Rec(G)[n]
    <3>1. CASE n = 0
      BY <1>2, <3>1
    <3>2. CASE n # 0
      <4>1. n - 1 \in Nat
        BY <3>2
      <4> QED
        BY <1>1, <3>2, <4>1
    <3> QED
      BY <3>1, <3>2
  <2> QED
    BY <2>1
<1>4. Doubling = CHOOSE f : f = Rec(f)
  BY DEF Doubling
<1>5. Doubling = Rec(Doubling)
  <2> HIDE DEF Rec, G
  <2> QED
    BY <1>3, <1>4, Zenon
<1>6. /\ Doubling[0] = InitialDelay
      /\ \A n \in Nat : Doubling[n + 1] = Least(2 * Doubling[n], MaximumDelay)
  <2>1. \A n \in Nat : Doubling[n] = Rec(Doubling)[n]
    BY <1>5, Zenon
  <2>2. \A n \in Nat : Doubling[n] = IF n = 0 THEN InitialDelay
                                    ELSE Least(2 * Doubling[n - 1], MaximumDelay)
    BY <2>1
  <2> QED
    BY <2>2
<1> DEFINE K == {n \in Nat : Doubling[n] = Least(InitialDelay * 2^n, MaximumDelay)}
<1>7. 0 \in K
  BY <1>2, <1>6
<1>8. ASSUME NEW n \in Nat, n \in K
      PROVE  n + 1 \in K
  <2>1. Doubling[n + 1] = Least(2 * Least(InitialDelay * 2^n, MaximumDelay), MaximumDelay)
    BY <1>6, <1>8
  <2>2. n + 1 \in Nat /\ n + 1 # 0 /\ (n + 1) - 1 = n
    OBVIOUS
  <2>3. Least(2 * Least(InitialDelay * 2^((n + 1) - 1), MaximumDelay), MaximumDelay)
          = Least(InitialDelay * 2^(n + 1), MaximumDelay)
    BY <1>1, <2>2
  <2> QED
    BY <2>1, <2>2, <2>3
<1> HIDE DEF K
<1>9. \A n \in Nat : n \in K
  BY <1>7, <1>8, InductionInSet
<1> QED
  BY <1>9 DEF K

\* The jitter adds to a base, within the maximum.
LEMMA JitterAdds ==
    ASSUME NEW b \in 0 .. MaximumDelay, NEW jitter \in 0 .. Jitter
    PROVE  /\ Least(b + jitter, MaximumDelay) \in b .. MaximumDelay
           /\ Least(b + jitter, MaximumDelay) <= b + Jitter
           /\ Least(b + jitter, MaximumDelay) \in 0 .. MaximumDelay
<1>1. MaximumDelay \in Nat /\ Jitter \in Nat
  BY PolicyAssumption
<1>2. b \in Nat /\ jitter \in Nat /\ b <= MaximumDelay /\ jitter <= Jitter
  BY <1>1
<1> QED
  BY <1>1, <1>2 DEF Least

-----------------------------------------------------------------------------
\* Every delay lies between zero and maximum_delay_ms, whatever bits of the
\* initial delay the shift drops, and the attempt counter stays in its type.
THEOREM BackoffTypeCorrect == Spec => []TypeOK
<1>0. /\ AttemptsMax \in Nat /\ WordBits \in Nat /\ WordBits >= 2
      /\ MaximumDelay \in Nat /\ Jitter \in Nat
  BY PolicyAssumption, DelaysAreWords
<1>1. Init => TypeOK
  BY <1>0 DEF Init, TypeOK
<1>2. TypeOK /\ [Next]_vars => TypeOK'
  <2> SUFFICES ASSUME TypeOK, [Next]_vars
               PROVE  TypeOK'
    OBVIOUS
  <2>1. ASSUME NEW jitter \in 0 .. Jitter, NextDelay(jitter)
        PROVE  TypeOK'
    <3> DEFINE shift == Least(attempts, WordBits - 1)
    <3>1. shift \in 0 .. (WordBits - 1)
      BY <1>0 DEF TypeOK, Least
    <3>2. base' = ShiftedAtMost(InitialDelay, shift, MaximumDelay)
      BY <2>1 DEF NextDelay
    <3> HIDE DEF shift
    <3>3. base' \in 0 .. MaximumDelay
      BY <3>1, <3>2, ShiftedInRange
    <3>4. delay' = Least(base' + jitter, MaximumDelay)
      BY <2>1 DEF NextDelay
    <3>5. delay' \in 0 .. MaximumDelay
      BY <3>3, <3>4, JitterAdds
    <3>6. attempts' \in 0 .. AttemptsMax
      BY <1>0, <2>1 DEF NextDelay, Least, TypeOK
    <3> QED
      BY <3>3, <3>5, <3>6 DEF TypeOK
  <2>2. CASE Reset
    BY <1>0, <2>2 DEF Reset, TypeOK
  <2>3. CASE UNCHANGED vars
    BY <2>3 DEF vars, TypeOK
  <2> QED
    BY <2>1, <2>2, <2>3 DEF Next
<1> QED
  BY <1>1, <1>2, PTL DEF Spec

\* For every policy and word size, the base of a retry is the one of the
\* doubling sequence as long as no bit of the initial delay has been shifted
\* out of the word, and the jitter adds to it within the maximum.
THEOREM BackoffFollowsDoubling == Spec => []FollowsDoubling
<1>0. /\ AttemptsMax \in Nat /\ WordBits \in Nat /\ WordBits >= 2
      /\ MaximumDelay \in Nat /\ Jitter \in Nat
  BY PolicyAssumption, DelaysAreWords
<1>1. Init => FollowsDoubling
  BY DEF Init, FollowsDoubling
<1>2. TypeOK /\ FollowsDoubling /\ [Next]_vars => FollowsDoubling'
  <2> SUFFICES ASSUME TypeOK, FollowsDoubling, [Next]_vars
               PROVE  FollowsDoubling'
    OBVIOUS
  <2>1. ASSUME NEW jitter \in 0 .. Jitter, NextDelay(jitter)
        PROVE  FollowsDoubling'
    <3> SUFFICES ASSUME attempts' # 0, attempts' < AttemptsMax,
                        Fits(attempts' - 1)
                 PROVE  /\ base' = Doubling[attempts' - 1]
                        /\ delay' \in base' .. MaximumDelay
                        /\ delay' <= base' + Jitter
      BY DEF FollowsDoubling, Fits
    <3>1. PICK a \in Nat : a = attempts
      BY <1>0 DEF TypeOK
    <3>2. attempts' = a + 1 /\ attempts' - 1 = a
      BY <1>0, <2>1, <3>1 DEF NextDelay, Least
    <3>3. Fits(a)
      BY <3>2
    <3>4. a \in 0 .. (WordBits - 1) /\ Least(attempts, WordBits - 1) = a
      BY <1>0, <3>1, <3>3 DEF Fits, Least
    <3>5. base' = ShiftedAtMost(InitialDelay, a, MaximumDelay)
      BY <2>1, <3>4 DEF NextDelay
    <3>6. base' = Least(InitialDelay * 2^a, MaximumDelay)
      BY <3>3, <3>4, <3>5, ShiftWithoutLoss
    <3>7. base' = Doubling[attempts' - 1]
      BY <3>1, <3>2, <3>6, DoublingIs
    <3>8. base' \in 0 .. MaximumDelay
      BY <3>4, <3>5, ShiftedInRange
    <3>9. delay' = Least(base' + jitter, MaximumDelay)
      BY <2>1 DEF NextDelay
    <3>10. delay' \in base' .. MaximumDelay /\ delay' <= base' + Jitter
      BY <3>8, <3>9, JitterAdds
    <3> QED
      BY <3>7, <3>10
  <2>2. CASE Reset
    BY <2>2 DEF Reset, FollowsDoubling
  <2>3. CASE UNCHANGED vars
    BY <2>3 DEF vars, FollowsDoubling, Fits
  <2> QED
    BY <2>1, <2>2, <2>3 DEF Next
<1> QED
  BY <1>1, <1>2, BackoffTypeCorrect, PTL DEF Spec

=============================================================================
