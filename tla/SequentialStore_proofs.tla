----------------------- MODULE SequentialStore_proofs -----------------------
(***************************************************************************)
(* Theorems about SequentialStore, for every finite set of keys, every set *)
(* of values of any length, every working buffer the constructor accepts   *)
(* and every capacity of the flash range.                                  *)
(***************************************************************************)
EXTENDS SequentialStore, FiniteSetTheorems, FunctionTheorems, TLAPS

-----------------------------------------------------------------------------
(* Types.                                                                  *)

\* An item, and a torn one, are items of the log.
LEMMA ItemTypes ==
    ASSUME NEW k \in Keys, NEW s \in StoredValues
    PROVE  /\ Item(k, s) \in Items
           /\ Torn(k) \in Items
BY DEF Item, Torn, Items, StoredValues

\* What is known of a mutation under way.
LEMMA OperationParts ==
    ASSUME op \in Operations, op.kind \in {"store", "written"}
    PROVE  /\ op.key \in Keys
           /\ op.stored \in StoredValues
           /\ op.kind = "store" => op = Store(op.key, op.stored)
           /\ op.kind = "written" => op = Written(op.key, op.stored)
BY DEF Operations, Idle, Clear, Store, Written

\* The items behind the one erased move up.
LEMMA RemovedLog ==
    ASSUME NEW S, NEW l \in Seq(S), NEW i \in DOMAIN l
    PROVE  /\ RemoveAt(l, i) \in Seq(S)
           /\ Len(RemoveAt(l, i)) = Len(l) - 1
           /\ DOMAIN RemoveAt(l, i) = 1 .. (Len(l) - 1)
           /\ \A j \in DOMAIN RemoveAt(l, i) :
                RemoveAt(l, i)[j] = IF j < i THEN l[j] ELSE l[j + 1]
<1> DEFINE a == SubSeq(l, 1, i - 1)
           b == SubSeq(l, i + 1, Len(l))
<1>1. i \in 1 .. Len(l) /\ Len(l) \in Nat
  OBVIOUS
<1>2. a \in Seq(S) /\ Len(a) = i - 1 /\ \A j \in 1 .. Len(a) : a[j] = l[j]
  BY <1>1
<1>3. /\ b \in Seq(S)
      /\ Len(b) = Len(l) - i
      /\ \A j \in 1 .. Len(b) : b[j] = l[i + j]
  BY <1>1
<1>4. RemoveAt(l, i) = a \o b
  BY DEF RemoveAt
<1> HIDE DEF a, b
<1>5. a \o b \in Seq(S) /\ Len(a \o b) = Len(l) - 1
  BY <1>1, <1>2, <1>3
<1>6. DOMAIN (a \o b) = 1 .. (Len(l) - 1)
  BY <1>5
<1>7. ASSUME NEW j \in 1 .. (Len(l) - 1)
      PROVE  (a \o b)[j] = IF j < i THEN l[j] ELSE l[j + 1]
  <2>1. CASE j < i
    <3>1. j \in 1 .. Len(a)
      BY <1>1, <1>2, <2>1
    <3>2. (a \o b)[j] = a[j]
      BY <1>2, <1>3, <3>1
    <3> QED
      BY <1>2, <2>1, <3>1, <3>2
  <2>2. CASE ~(j < i)
    <3>1. j - Len(a) \in 1 .. Len(b) /\ i + (j - Len(a)) = j + 1
      BY <1>1, <1>2, <1>3, <2>2
    <3>4. j > Len(a) /\ j \in 1 .. (Len(a) + Len(b))
      BY <1>1, <1>2, <1>3, <2>2
    <3>5. a \in Seq(S) /\ b \in Seq(S)
      BY <1>2, <1>3
    <3>2. (a \o b)[j] = b[j - Len(a)]
      BY <3>4, <3>5
    <3>3. b[j - Len(a)] = l[i + (j - Len(a))]
      BY <1>3, <3>1
    <3> QED
      BY <2>2, <3>1, <3>2, <3>3
  <2> QED
    BY <2>1, <2>2
<1> QED
  BY <1>4, <1>5, <1>6, <1>7

\* Erasing a page leaves items of the log.
LEMMA RemoveKeepsItems ==
    ASSUME NEW S, NEW l \in Seq(S), NEW i \in DOMAIN l
    PROVE  \A j \in DOMAIN RemoveAt(l, i) :
                \E m \in DOMAIN l : RemoveAt(l, i)[j] = l[m]
<1> DEFINE r == RemoveAt(l, i)
<1>1. /\ DOMAIN r = 1 .. (Len(l) - 1)
      /\ \A j \in DOMAIN r : r[j] = IF j < i THEN l[j] ELSE l[j + 1]
  BY RemovedLog
<1>2. i \in 1 .. Len(l) /\ Len(l) \in Nat /\ DOMAIN l = 1 .. Len(l)
  OBVIOUS
<1> HIDE DEF r
<1>3. \A j \in DOMAIN r : \E m \in DOMAIN l : r[j] = l[m]
  BY <1>1, <1>2
<1> QED
  BY <1>3 DEF r

-----------------------------------------------------------------------------
(* The log as a value, so that the log before and after a step can be      *)
(* spoken of together.                                                     *)

\* Intact, IsNewest, Held and LogicalValue of a log l.
IntactOf(l, k) == {i \in DOMAIN l : l[i].key = k /\ l[i].intact}

IsNewestOf(l, i) ==
    i \in IntactOf(l, l[i].key) /\ \A j \in IntactOf(l, l[i].key) : j <= i

FetchOf(l, k) == l[CHOOSE i \in IntactOf(l, k) : IsNewestOf(l, i)].stored

ValueIn(l, k) ==
    IF IntactOf(l, k) = {} \/ FetchOf(l, k) = Tombstone THEN Absent
    ELSE FetchOf(l, k).value

HeldIn(l, k) == {v \in Values : \E i \in IntactOf(l, k) : l[i].stored = Live(v)}

\* They are those of the model, before and after a step.
LEMMA LogAsValue ==
    /\ \A i : IsNewest(i) <=> IsNewestOf(log, i)
    /\ \A k : LogicalValue(k) = ValueIn(log, k)
    /\ \A k : LogicalValue(k)' = ValueIn(log', k)
    /\ \A k : Held(k) = HeldIn(log, k)
    /\ \A k : Held(k)' = HeldIn(log', k)
BY DEF LogicalValue, ValueIn, fetch_item, FetchOf, Intact, IntactOf, IsNewest,
       IsNewestOf, Held, HeldIn

-----------------------------------------------------------------------------
(* The greatest of finitely many places, found by counting.                *)

\* How many elements of a set are below one of them.
Rank(N, i) == Cardinality({j \in N : j < i})

\* The elements of a finite set of numbers are ranked 0, 1, ..., one each.
LEMMA RanksAreOnto ==
    ASSUME NEW N \in SUBSET Int, IsFiniteSet(N)
    PROVE  /\ Cardinality(N) \in Nat
           /\ \A i \in N : Rank(N, i) \in 0 .. (Cardinality(N) - 1)
           /\ \A i, j \in N : i < j => Rank(N, i) < Rank(N, j)
           /\ \A i, j \in N : Rank(N, i) = Rank(N, j) => i = j
           /\ \A r \in 0 .. (Cardinality(N) - 1) : \E i \in N : Rank(N, i) = r
<1> DEFINE below(i) == {j \in N : j < i}
<1>0. \A i \in N : Rank(N, i) = Cardinality(below(i))
  BY DEF Rank
<1>1. \A i \in N : /\ IsFiniteSet(below(i))
                   /\ Cardinality(below(i)) \in Nat
                   /\ below(i) \in SUBSET N
                   /\ i \notin below(i)
  <2> SUFFICES ASSUME NEW i \in N
               PROVE  /\ IsFiniteSet(below(i))
                      /\ Cardinality(below(i)) \in Nat
                      /\ below(i) \in SUBSET N
                      /\ i \notin below(i)
    OBVIOUS
  <2>1. below(i) \in SUBSET N /\ i \notin below(i)
    OBVIOUS
  <2>2. IsFiniteSet(below(i))
    BY <2>1, FS_Subset, Zenon
  <2> QED
    BY <2>1, <2>2, FS_CardinalityType, Zenon
<1>2. Cardinality(N) \in Nat
  BY FS_CardinalityType, Zenon
<1>3. \A i \in N : Cardinality(below(i)) < Cardinality(N)
  <2> SUFFICES ASSUME NEW i \in N
               PROVE  Cardinality(below(i)) < Cardinality(N)
    OBVIOUS
  <2> HIDE DEF below
  <2>1. /\ Cardinality(below(i)) <= Cardinality(N)
        /\ Cardinality(N) = Cardinality(below(i)) => N = below(i)
    BY <1>1, FS_Subset
  <2> QED
    BY <1>1, <1>2, <2>1
<1>4. \A i, j \in N : i < j => Cardinality(below(i)) < Cardinality(below(j))
  <2> SUFFICES ASSUME NEW i \in N, NEW j \in N, i < j
               PROVE  Cardinality(below(i)) < Cardinality(below(j))
    OBVIOUS
  <2>0. i \in Int /\ j \in Int /\ \A x \in N : x \in Int
    OBVIOUS
  <2>1. below(i) \in SUBSET below(j) /\ i \in below(j)
    <3>1. \A x \in N : x < i => x < j
      BY <2>0
    <3> QED
      BY <3>1
  <2> HIDE DEF below
  <2>2. /\ Cardinality(below(i)) <= Cardinality(below(j))
        /\ Cardinality(below(j)) = Cardinality(below(i)) => below(j) = below(i)
    BY <1>1, <2>1, FS_Subset
  <2> QED
    BY <1>1, <2>1, <2>2
<1>5. \A i \in N : Rank(N, i) \in 0 .. (Cardinality(N) - 1)
  <2> HIDE DEF below
  <2> QED
    BY <1>0, <1>1, <1>2, <1>3
<1>6. \A i, j \in N : Rank(N, i) = Rank(N, j) => i = j
  <2> HIDE DEF below
  <2> QED
    BY <1>0, <1>1, <1>4
<1>7. \A r \in 0 .. (Cardinality(N) - 1) : \E i \in N : Rank(N, i) = r
  <2> DEFINE T == 0 .. (Cardinality(N) - 1)
             f == [i \in N |-> Rank(N, i)]
  <2>1. IsFiniteSet(T) /\ Cardinality(T) = Cardinality(N)
    BY <1>2, FS_Interval
  <2>2. f \in Injection(N, T)
    BY <1>5, <1>6 DEF Injection, IsInjective
  <2>3. f \in Surjection(N, T)
    <3> HIDE DEF f, T
    <3> QED
      BY <2>1, <2>2, FS_Injection, Zenon
  <2>4. \A r \in T : \E i \in N : f[i] = r
    <3> HIDE DEF f, T
    <3> QED
      BY <2>3 DEF Surjection
  <2> QED
    BY <2>4
<1>8. \A i, j \in N : i < j => Rank(N, i) < Rank(N, j)
  <2> HIDE DEF below
  <2> QED
    BY <1>0, <1>4
<1> QED
  BY <1>2, <1>5, <1>6, <1>7, <1>8

\* A finite set of numbers that is not empty has a greatest.
LEMMA GreatestExists ==
    ASSUME NEW N \in SUBSET Int, IsFiniteSet(N), N # {}
    PROVE  \E i \in N : \A j \in N : j <= i
<1> DEFINE c == Cardinality(N)
<1>1. /\ c \in Nat
      /\ \A i \in N : Rank(N, i) \in 0 .. (c - 1)
      /\ \A i, j \in N : i < j => Rank(N, i) < Rank(N, j)
      /\ \A r \in 0 .. (c - 1) : \E i \in N : Rank(N, i) = r
  BY RanksAreOnto, Zenon
<1> HIDE DEF c
<1>2. c - 1 \in 0 .. (c - 1)
  <2>1. PICK x \in N : TRUE
    OBVIOUS
  <2>2. Rank(N, x) \in 0 .. (c - 1)
    BY <1>1
  <2> QED
    BY <1>1, <2>2
<1>3. PICK i \in N : Rank(N, i) = c - 1
  BY <1>1, <1>2
<1>4. ASSUME NEW j \in N
      PROVE  j <= i
  <2>1. i \in Int /\ j \in Int
    OBVIOUS
  <2>2. ~(Rank(N, i) < Rank(N, j))
    BY <1>1, <1>3
  <2>3. ~(i < j)
    BY <1>1, <2>2
  <2> QED
    BY <2>1, <2>3
<1> QED
  BY <1>4

-----------------------------------------------------------------------------
(* What a log says about a key.                                            *)

\* The value a record stands for.
Meaning(s) == IF s = Tombstone THEN Absent ELSE s.value

\* The places of a log are numbers, finitely many.
LEMMA LogPlaces ==
    ASSUME NEW l \in Seq(Items), NEW T \in SUBSET DOMAIN l
    PROVE  /\ Len(l) \in Nat
           /\ DOMAIN l = 1 .. Len(l)
           /\ T \in SUBSET Int
           /\ IsFiniteSet(T)
           /\ Cardinality(T) \in Nat
           /\ Cardinality(T) <= Len(l)
           /\ \A i \in DOMAIN l : l[i] \in Items
<1>1. Len(l) \in Nat /\ DOMAIN l = 1 .. Len(l) /\ \A i \in DOMAIN l : l[i] \in Items
  OBVIOUS
<1>2. IsFiniteSet(1 .. Len(l)) /\ Cardinality(1 .. Len(l)) = Len(l)
  <2>1. ASSUME NEW n \in Nat
        PROVE  IsFiniteSet(1 .. n) /\ Cardinality(1 .. n) = n
    <3>1. /\ IsFiniteSet(1 .. n)
          /\ Cardinality(1 .. n) = IF 1 > n THEN 0 ELSE n - 1 + 1
      BY FS_Interval
    <3> QED
      BY <3>1
  <2> QED
    BY <1>1, <2>1, Zenon
<1>3. T \in SUBSET (1 .. Len(l)) /\ T \in SUBSET Int
  BY <1>1
<1>4. IsFiniteSet(T) /\ Cardinality(T) <= Cardinality(1 .. Len(l))
  BY <1>2, <1>3, FS_Subset
<1>5. Cardinality(T) \in Nat
  BY <1>4, FS_CardinalityType, Zenon
<1> QED
  BY <1>1, <1>2, <1>3, <1>4, <1>5

\* A record means a value or none.
LEMMA MeaningType ==
    ASSUME NEW s \in StoredValues
    PROVE  /\ Meaning(s) \in Values \cup {Absent}
           /\ Meaning(s) = IF s.tag = 1 THEN s.value ELSE Absent
<1>1. CASE s = Tombstone
  BY <1>1 DEF Meaning, Tombstone
<1>2. CASE s # Tombstone
  <2>1. PICK v \in Values : s = Live(v)
    BY <1>2 DEF StoredValues
  <2>2. s.tag = 1 /\ s.value = v
    BY <2>1 DEF Live
  <2> QED
    BY <1>2, <2>2 DEF Meaning
<1> QED
  BY <1>1, <1>2

\* A key of which no intact item is held has no value.
LEMMA ValueOfNone ==
    ASSUME NEW l, NEW k, IntactOf(l, k) = {}
    PROVE  ValueIn(l, k) = Absent
BY DEF ValueIn

\* Otherwise its value is what its last intact item means.
LEMMA ValueOfNewest ==
    ASSUME NEW l \in Seq(Items), NEW k, NEW i \in IntactOf(l, k),
           \A j \in IntactOf(l, k) : j <= i
    PROVE  ValueIn(l, k) = Meaning(l[i].stored)
<1> DEFINE I == IntactOf(l, k)
<1>0. I \in SUBSET Int
  BY LogPlaces DEF IntactOf
<1>1. \A j \in I : l[j].key = k
  BY DEF IntactOf
<1>2. \A j \in I : IsNewestOf(l, j) <=> \A m \in I : m <= j
  BY <1>1 DEF IsNewestOf
<1>3. IsNewestOf(l, i)
  BY <1>2
<1>4. \A j \in I : IsNewestOf(l, j) => j = i
  <2> SUFFICES ASSUME NEW j \in I, IsNewestOf(l, j)
               PROVE  j = i
    OBVIOUS
  <2>1. i <= j /\ j <= i
    BY <1>2
  <2> QED
    BY <1>0, <2>1
<1>5. (CHOOSE j \in IntactOf(l, k) : IsNewestOf(l, j)) = i
  BY <1>3, <1>4
<1>6. FetchOf(l, k) = l[i].stored
  BY <1>5 DEF FetchOf
<1>7. IntactOf(l, k) # {}
  OBVIOUS
<1> QED
  BY <1>6, <1>7 DEF ValueIn, Meaning

\* Of a key with an intact item, one is the last.
LEMMA NewestExists ==
    ASSUME NEW l \in Seq(Items), NEW k, IntactOf(l, k) # {}
    PROVE  \E i \in IntactOf(l, k) : \A j \in IntactOf(l, k) : j <= i
<1> DEFINE I == IntactOf(l, k)
<1>1. I \in SUBSET DOMAIN l
  BY DEF IntactOf
<1>2. I \in SUBSET Int /\ IsFiniteSet(I)
  <2> HIDE DEF I
  <2> QED
    BY <1>1, LogPlaces
<1> HIDE DEF I
<1>3. \E i \in I : \A j \in I : j <= i
  BY <1>2, GreatestExists DEF I
<1> QED
  BY <1>3 DEF I

\* Every key has a value or none.
LEMMA ValueType ==
    ASSUME NEW l \in Seq(Items), NEW k
    PROVE  ValueIn(l, k) \in Values \cup {Absent}
<1>1. CASE IntactOf(l, k) = {}
  BY <1>1, ValueOfNone
<1>2. CASE IntactOf(l, k) # {}
  <2>1. PICK i \in IntactOf(l, k) : \A j \in IntactOf(l, k) : j <= i
    BY <1>2, NewestExists
  <2>2. l[i] \in Items
    BY <2>1 DEF IntactOf
  <2>3. l[i].stored \in StoredValues
    BY <2>2 DEF Items
  <2>4. ValueIn(l, k) = Meaning(l[i].stored)
    BY <2>1, ValueOfNewest
  <2> QED
    BY <2>3, <2>4, MeaningType
<1> QED
  BY <1>1, <1>2

-----------------------------------------------------------------------------
(* What a step on the log does to the values.                              *)

\* Two logs that hold the same last intact item of a key, or both none, give
\* it the same value.
LEMMA SameNewest ==
    ASSUME NEW l \in Seq(Items), NEW m \in Seq(Items), NEW k,
           IntactOf(l, k) = {} => IntactOf(m, k) = {},
           \A i \in IntactOf(l, k) : (\A j \in IntactOf(l, k) : j <= i) =>
                \E n \in IntactOf(m, k) : /\ \A j \in IntactOf(m, k) : j <= n
                                          /\ m[n] = l[i]
    PROVE  ValueIn(m, k) = ValueIn(l, k)
<1>1. CASE IntactOf(l, k) = {}
  BY <1>1, ValueOfNone
<1>2. CASE IntactOf(l, k) # {}
  <2>1. PICK i \in IntactOf(l, k) : \A j \in IntactOf(l, k) : j <= i
    BY <1>2, NewestExists
  <2>2. PICK n \in IntactOf(m, k) : /\ \A j \in IntactOf(m, k) : j <= n
                                    /\ m[n] = l[i]
    BY <2>1
  <2>3. ValueIn(l, k) = Meaning(l[i].stored)
    BY <2>1, ValueOfNewest
  <2>4. ValueIn(m, k) = Meaning(m[n].stored)
    BY <2>2, ValueOfNewest
  <2> QED
    BY <2>2, <2>3, <2>4
<1> QED
  BY <1>1, <1>2

\* Appending puts one item behind the others.
LEMMA AppendedLog ==
    ASSUME NEW l \in Seq(Items), NEW it \in Items
    PROVE  /\ l \o <<it>> \in Seq(Items)
           /\ Len(l \o <<it>>) = Len(l) + 1
           /\ DOMAIN (l \o <<it>>) = DOMAIN l \cup {Len(l) + 1}
           /\ \A i \in DOMAIN l : (l \o <<it>>)[i] = l[i]
           /\ (l \o <<it>>)[Len(l) + 1] = it
           /\ \A i \in DOMAIN l : i < Len(l) + 1
<1> HIDE DEF Items
<1>1. <<it>> \in Seq(Items) /\ Len(<<it>>) = 1 /\ <<it>>[1] = it
  OBVIOUS
<1>2. Len(l) \in Nat /\ DOMAIN l = 1 .. Len(l)
  OBVIOUS
<1>3. l \o <<it>> \in Seq(Items) /\ Len(l \o <<it>>) = Len(l) + 1
  OBVIOUS
<1>4. DOMAIN (l \o <<it>>) = 1 .. (Len(l) + 1)
  BY <1>3
<1>5. 1 .. (Len(l) + 1) = (1 .. Len(l)) \cup {Len(l) + 1}
  BY <1>2
<1>6. \A i \in 1 .. Len(l) : (l \o <<it>>)[i] = l[i]
  OBVIOUS
<1>7. (l \o <<it>>)[Len(l) + 1] = it
  OBVIOUS
<1> QED
  BY <1>2, <1>3, <1>4, <1>5, <1>6, <1>7

\* An appended item is the value of its key and leaves the others alone.
LEMMA AppendSetsValue ==
    ASSUME NEW l \in Seq(Items), NEW k \in Keys, NEW s \in StoredValues
    PROVE  /\ l \o <<Item(k, s)>> \in Seq(Items)
           /\ ValueIn(l \o <<Item(k, s)>>, k) = Meaning(s)
           /\ \A c : c # k =>
                ValueIn(l \o <<Item(k, s)>>, c) = ValueIn(l, c)
<1> DEFINE it == Item(k, s)
           m == l \o <<it>>
           e == Len(l) + 1
<1>1. it \in Items /\ it.key = k /\ it.stored = s /\ it.intact
  <2>1. it \in Items
    BY ItemTypes
  <2> QED
    BY <2>1 DEF Item
<1> HIDE DEF it
<1>2. /\ m \in Seq(Items)
      /\ DOMAIN m = DOMAIN l \cup {e}
      /\ \A i \in DOMAIN l : m[i] = l[i]
      /\ m[e] = it
      /\ \A i \in DOMAIN l : i < e
  BY <1>1, AppendedLog
<1>3. e \in Nat /\ \A i \in DOMAIN l : i \in Nat
  OBVIOUS
<1> HIDE DEF m, e
<1>4. ValueIn(m, k) = Meaning(s)
  <2>1. e \in IntactOf(m, k)
    BY <1>1, <1>2 DEF IntactOf
  <2>2. \A j \in IntactOf(m, k) : j <= e
    BY <1>2, <1>3 DEF IntactOf
  <2> QED
    BY <1>1, <1>2, <2>1, <2>2, ValueOfNewest
<1>5. ASSUME NEW c, c # k
      PROVE  ValueIn(m, c) = ValueIn(l, c)
  <2>1. IntactOf(m, c) = IntactOf(l, c)
    BY <1>1, <1>2, <1>5 DEF IntactOf
  <2>2. \A i \in IntactOf(l, c) : m[i] = l[i]
    BY <1>2 DEF IntactOf
  <2> QED
    BY <1>2, <2>1, <2>2, SameNewest
<1> QED
  BY <1>2, <1>4, <1>5 DEF m, it

\* A torn item changes no value.
LEMMA TornKeepsValues ==
    ASSUME NEW l \in Seq(Items), NEW k \in Keys
    PROVE  /\ l \o <<Torn(k)>> \in Seq(Items)
           /\ \A c : ValueIn(l \o <<Torn(k)>>, c) = ValueIn(l, c)
<1> DEFINE it == Torn(k)
           m == l \o <<it>>
           e == Len(l) + 1
<1>1. it \in Items /\ ~it.intact
  <2>1. it \in Items
    BY ItemTypes DEF StoredValues
  <2> QED
    BY <2>1 DEF Torn
<1> HIDE DEF it
<1>2. /\ m \in Seq(Items)
      /\ DOMAIN m = DOMAIN l \cup {e}
      /\ \A i \in DOMAIN l : m[i] = l[i]
      /\ m[e] = it
  BY <1>1, AppendedLog
<1> HIDE DEF m, e
<1>3. ASSUME NEW c
      PROVE  ValueIn(m, c) = ValueIn(l, c)
  <2>1. IntactOf(m, c) = IntactOf(l, c)
    BY <1>1, <1>2 DEF IntactOf
  <2>2. \A i \in IntactOf(l, c) : m[i] = l[i]
    BY <1>2 DEF IntactOf
  <2> QED
    BY <1>2, <2>1, <2>2, SameNewest
<1> QED
  BY <1>2, <1>3 DEF m, it

\* A copy of the newest item of a key changes no value.
LEMMA CopyKeepsValues ==
    ASSUME NEW l \in Seq(Items), NEW i \in DOMAIN l, IsNewestOf(l, i)
    PROVE  /\ Item(l[i].key, l[i].stored) \in Items
           /\ \A c : ValueIn(l \o <<Item(l[i].key, l[i].stored)>>, c)
                        = ValueIn(l, c)
<1> DEFINE k == l[i].key
           s == l[i].stored
<1>1. k \in Keys /\ s \in StoredValues
  <2>1. l[i] \in Items
    OBVIOUS
  <2> QED
    BY <2>1 DEF Items
<1>2. ValueIn(l, k) = Meaning(s)
  <2>1. i \in IntactOf(l, l[i].key) /\ \A j \in IntactOf(l, l[i].key) : j <= i
    BY DEF IsNewestOf
  <2> QED
    BY <2>1, ValueOfNewest
<1> HIDE DEF k, s
<1>3. /\ ValueIn(l \o <<Item(k, s)>>, k) = Meaning(s)
      /\ \A c : c # k => ValueIn(l \o <<Item(k, s)>>, c) = ValueIn(l, c)
  BY <1>1, AppendSetsValue, Zenon
<1>4. Item(k, s) \in Items
  BY <1>1, ItemTypes
<1>5. \A c : ValueIn(l \o <<Item(k, s)>>, c) = ValueIn(l, c)
  BY <1>2, <1>3, Zenon
<1> QED
  BY <1>4, <1>5 DEF k, s

\* An item that is not the newest of its key can go: no value changes.
LEMMA ReclaimKeepsValues ==
    ASSUME NEW l \in Seq(Items), NEW i \in DOMAIN l, ~IsNewestOf(l, i)
    PROVE  \A c : ValueIn(RemoveAt(l, i), c) = ValueIn(l, c)
<1> DEFINE m == RemoveAt(l, i)
<1>1. /\ m \in Seq(Items)
      /\ DOMAIN m = 1 .. (Len(l) - 1)
      /\ \A j \in DOMAIN m : m[j] = IF j < i THEN l[j] ELSE l[j + 1]
  BY RemovedLog
<1>2. i \in 1 .. Len(l) /\ Len(l) \in Nat /\ DOMAIN l = 1 .. Len(l)
  OBVIOUS
<1> HIDE DEF m
<1> DEFINE was(j) == IF j < i THEN j ELSE j + 1
<1>3. ASSUME NEW c, NEW j \in IntactOf(m, c)
      PROVE  was(j) \in IntactOf(l, c) /\ j \in Int
  <2>1. j \in 1 .. (Len(l) - 1)
    BY <1>1 DEF IntactOf
  <2>2. was(j) \in DOMAIN l /\ m[j] = l[was(j)]
    BY <1>1, <1>2, <2>1
  <2>3. m[j].key = c /\ m[j].intact
    BY DEF IntactOf
  <2> HIDE DEF was
  <2> QED
    BY <2>1, <2>2, <2>3 DEF IntactOf
<1>4. ASSUME NEW c
      PROVE  ValueIn(m, c) = ValueIn(l, c)
  <2>1. IntactOf(l, c) = {} => IntactOf(m, c) = {}
    BY <1>3
  <2>2. ASSUME NEW n \in IntactOf(l, c), \A j \in IntactOf(l, c) : j <= n
        PROVE  \E e \in IntactOf(m, c) : /\ \A j \in IntactOf(m, c) : j <= e
                                         /\ m[e] = l[n]
    <3> DEFINE e == IF n < i THEN n ELSE n - 1
    <3>1. n \in 1 .. Len(l) /\ l[n].key = c /\ l[n].intact
      BY <1>2 DEF IntactOf
    <3>2. n # i
      <4>1. IsNewestOf(l, n)
        BY <2>2, <3>1 DEF IsNewestOf
      <4> QED
        BY <4>1
    <3>3. e \in 1 .. (Len(l) - 1) /\ was(e) = n
      BY <1>2, <3>1, <3>2
    <3>4. m[e] = l[n]
      BY <1>1, <3>3
    <3>5. ASSUME NEW j \in IntactOf(m, c)
          PROVE  j <= e
      <4>1. was(j) <= n /\ j \in Int
        BY <1>3, <2>2
      <4> QED
        BY <1>2, <3>1, <3>2, <4>1
    <3> HIDE DEF e
    <3>6. e \in IntactOf(m, c)
      BY <1>1, <3>1, <3>3, <3>4 DEF IntactOf
    <3> QED
      BY <3>4, <3>5, <3>6
  <2> QED
    BY <1>1, <2>1, <2>2, SameNewest
<1> QED
  BY <1>4 DEF m

-----------------------------------------------------------------------------
(* What a step on the log does to the values the flash still holds.        *)

\* An appended item adds what it means to what is held of its key.
LEMMA AppendAddsHeld ==
    ASSUME NEW l \in Seq(Items), NEW k \in Keys, NEW s \in StoredValues
    PROVE  /\ HeldIn(l \o <<Item(k, s)>>, k)
                = HeldIn(l, k) \cup ({Meaning(s)} \cap Values)
           /\ \A c : c # k =>
                HeldIn(l \o <<Item(k, s)>>, c) = HeldIn(l, c)
<1> DEFINE it == Item(k, s)
           m == l \o <<it>>
           e == Len(l) + 1
<1>1. it \in Items /\ it.key = k /\ it.stored = s /\ it.intact
  <2>1. it \in Items
    BY ItemTypes
  <2> QED
    BY <2>1 DEF Item
<1> HIDE DEF it
<1>2. /\ DOMAIN m = DOMAIN l \cup {e}
      /\ \A i \in DOMAIN l : m[i] = l[i]
      /\ m[e] = it
  BY <1>1, AppendedLog
<1> HIDE DEF m, e
<1>3. \A v \in Values : s = Live(v) <=> Meaning(s) = v
  <2>1. CASE s = Tombstone
    BY <2>1, StoreAssumption DEF Meaning, Tombstone, Live
  <2>2. CASE s # Tombstone
    <3>1. PICK w \in Values : s = Live(w)
      BY <2>2 DEF StoredValues
    <3> QED
      BY <2>2, <3>1 DEF Meaning, Live
  <2> QED
    BY <2>1, <2>2
<1>4. IntactOf(m, k) = IntactOf(l, k) \cup {e}
  BY <1>1, <1>2 DEF IntactOf
<1>5. ASSUME NEW v \in Values
      PROVE  v \in HeldIn(m, k) <=> v \in HeldIn(l, k) \/ Meaning(s) = v
  <2>1. \A i \in IntactOf(l, k) : m[i] = l[i]
    BY <1>2 DEF IntactOf
  <2>2. (\E i \in IntactOf(m, k) : m[i].stored = Live(v))
            <=> \/ \E i \in IntactOf(l, k) : l[i].stored = Live(v)
                \/ s = Live(v)
    BY <1>1, <1>2, <1>4, <2>1
  <2> QED
    BY <1>3, <2>2 DEF HeldIn
<1>6. HeldIn(m, k) = HeldIn(l, k) \cup ({Meaning(s)} \cap Values)
  <2>1. HeldIn(m, k) \subseteq Values /\ HeldIn(l, k) \subseteq Values
    BY DEF HeldIn
  <2> QED
    BY <1>5, <2>1
<1>7. ASSUME NEW c, c # k
      PROVE  HeldIn(m, c) = HeldIn(l, c)
  <2>1. IntactOf(m, c) = IntactOf(l, c)
    BY <1>1, <1>2, <1>7 DEF IntactOf
  <2>2. \A i \in IntactOf(l, c) : m[i] = l[i]
    BY <1>2 DEF IntactOf
  <2> QED
    BY <2>1, <2>2 DEF HeldIn
<1> QED
  BY <1>6, <1>7 DEF m, it

\* A torn item adds nothing.
LEMMA TornKeepsHeld ==
    ASSUME NEW l \in Seq(Items), NEW k \in Keys
    PROVE  \A c : HeldIn(l \o <<Torn(k)>>, c) = HeldIn(l, c)
<1> DEFINE it == Torn(k)
           m == l \o <<it>>
           e == Len(l) + 1
<1>1. it \in Items /\ ~it.intact
  <2>1. it \in Items
    BY ItemTypes DEF StoredValues
  <2> QED
    BY <2>1 DEF Torn
<1> HIDE DEF it
<1>2. /\ DOMAIN m = DOMAIN l \cup {e}
      /\ \A i \in DOMAIN l : m[i] = l[i]
      /\ m[e] = it
  BY <1>1, AppendedLog
<1> HIDE DEF m, e
<1>3. ASSUME NEW c
      PROVE  HeldIn(m, c) = HeldIn(l, c)
  <2>1. IntactOf(m, c) = IntactOf(l, c)
    BY <1>1, <1>2 DEF IntactOf
  <2>2. \A i \in IntactOf(l, c) : m[i] = l[i]
    BY <1>2 DEF IntactOf
  <2> QED
    BY <2>1, <2>2 DEF HeldIn
<1> QED
  BY <1>3 DEF m, it

\* What is copied was held before.
LEMMA CopyKeepsHeld ==
    ASSUME NEW l \in Seq(Items), NEW i \in DOMAIN l, IsNewestOf(l, i)
    PROVE  \A c : HeldIn(l \o <<Item(l[i].key, l[i].stored)>>, c) = HeldIn(l, c)
<1> DEFINE k == l[i].key
           s == l[i].stored
<1>1. k \in Keys /\ s \in StoredValues /\ i \in IntactOf(l, k)
  <2>1. l[i] \in Items
    OBVIOUS
  <2> QED
    BY <2>1 DEF Items, IsNewestOf
<1>2. {Meaning(s)} \cap Values \subseteq HeldIn(l, k)
  <2>1. CASE s = Tombstone
    BY <2>1, StoreAssumption DEF Meaning
  <2>2. CASE s # Tombstone
    <3>1. PICK w \in Values : s = Live(w)
      BY <1>1, <2>2 DEF StoredValues
    <3>2. Meaning(s) = w
      BY <2>2, <3>1 DEF Meaning, Live
    <3> QED
      BY <1>1, <3>1, <3>2 DEF HeldIn
  <2> QED
    BY <2>1, <2>2
<1> HIDE DEF k, s
<1>3. /\ HeldIn(l \o <<Item(k, s)>>, k)
            = HeldIn(l, k) \cup ({Meaning(s)} \cap Values)
      /\ \A c : c # k => HeldIn(l \o <<Item(k, s)>>, c) = HeldIn(l, c)
  BY <1>1, AppendAddsHeld, Zenon
<1>4. HeldIn(l \o <<Item(k, s)>>, k) = HeldIn(l, k)
  BY <1>2, <1>3
<1>5. \A c : HeldIn(l \o <<Item(k, s)>>, c) = HeldIn(l, c)
  BY <1>3, <1>4, Zenon
<1> QED
  BY <1>5 DEF k, s

\* What is held after an item went was held before.
LEMMA RemoveLosesHeld ==
    ASSUME NEW l \in Seq(Items), NEW i \in DOMAIN l, NEW c
    PROVE  HeldIn(RemoveAt(l, i), c) \subseteq HeldIn(l, c)
<1> DEFINE m == RemoveAt(l, i)
<1>1. \A j \in DOMAIN m : \E n \in DOMAIN l : m[j] = l[n]
  BY RemoveKeepsItems
<1> HIDE DEF m
<1>2. \A j \in IntactOf(m, c) : \E n \in IntactOf(l, c) : m[j] = l[n]
  BY <1>1 DEF IntactOf
<1>3. HeldIn(m, c) \subseteq HeldIn(l, c)
  BY <1>2 DEF HeldIn
<1> QED
  BY <1>3 DEF m

\* The value of a key is one of those held of it, or none.
LEMMA ValueIsHeld ==
    ASSUME NEW l \in Seq(Items), NEW k
    PROVE  ValueIn(l, k) \in HeldIn(l, k) \cup {Absent}
<1>1. CASE IntactOf(l, k) = {}
  BY <1>1, ValueOfNone
<1>2. CASE IntactOf(l, k) # {}
  <2>1. PICK i \in IntactOf(l, k) : \A j \in IntactOf(l, k) : j <= i
    BY <1>2, NewestExists
  <2>2. l[i].stored \in StoredValues
    <3>1. l[i] \in Items
      BY <2>1 DEF IntactOf
    <3> QED
      BY <3>1 DEF Items
  <2>3. ValueIn(l, k) = Meaning(l[i].stored)
    BY <2>1, ValueOfNewest
  <2>4. CASE l[i].stored = Tombstone
    BY <2>3, <2>4 DEF Meaning
  <2>5. CASE l[i].stored # Tombstone
    <3>1. PICK w \in Values : l[i].stored = Live(w)
      BY <2>2, <2>5 DEF StoredValues
    <3>2. Meaning(l[i].stored) = w
      BY <2>5, <3>1 DEF Meaning, Live
    <3> QED
      BY <2>1, <2>3, <3>1, <3>2 DEF HeldIn
  <2> QED
    BY <2>4, <2>5
<1> QED
  BY <1>1, <1>2

-----------------------------------------------------------------------------
(* Type correctness.                                                       *)

\* The log holds items of known keys, never more than the flash range takes,
\* and every operation, result and error is one of the interface's.
THEOREM StoreTypeCorrect == Spec => []TypeOK
<1>1. Init => TypeOK
  BY StoreAssumption
     DEF Init, TypeOK, Operations, Fetches, Outcomes
<1>2. TypeOK /\ [Next]_vars => TypeOK'
  <2> SUFFICES ASSUME TypeOK, [Next]_vars
               PROVE  TypeOK'
    OBVIOUS
  <2> USE DEF TypeOK
  <2>0. LogCapacity \in Nat /\ Reserve \in Nat
    BY StoreAssumption
  <2>1. ASSUME NEW k \in Keys, NEW v \in Values, PutStart(k, v)
        PROVE  TypeOK'
    BY <2>1 DEF PutStart, Operations, StoredValues
  <2>2. ASSUME NEW v \in Values, PutTooLarge(v)
        PROVE  TypeOK'
    BY <2>2 DEF PutTooLarge, Outcomes, ErrorKind
  <2>3. ASSUME NEW k \in Keys, DeleteStart(k)
        PROVE  TypeOK'
    BY <2>3 DEF DeleteStart, Operations, StoredValues
  <2>4. CASE AppendItem
    <3>1. op.key \in Keys /\ op.stored \in StoredValues
      BY <2>4, OperationParts DEF AppendItem
    <3> DEFINE it == Item(op.key, op.stored)
    <3>2. it \in Items
      BY <3>1, ItemTypes
    <3> HIDE DEF it
    <3>3. log \o <<it>> \in Seq(Items) /\ Len(log \o <<it>>) = Len(log) + 1
      BY <3>2, AppendedLog
    <3>4. log' \in Seq(Items) /\ Len(log') <= LogCapacity + Reserve
      BY <2>0, <2>4, <3>3 DEF AppendItem, it
    <3>5. op' \in Operations
      BY <2>4, <3>1 DEF AppendItem, Operations
    <3> QED
      BY <2>4, <3>4, <3>5 DEF AppendItem
  <2>5. CASE AppendTorn
    <3>1. op.key \in Keys
      BY <2>5, OperationParts DEF AppendTorn
    <3> DEFINE it == Torn(op.key)
    <3>2. it \in Items
      BY <3>1, ItemTypes DEF StoredValues
    <3> HIDE DEF it
    <3>3. log \o <<it>> \in Seq(Items) /\ Len(log \o <<it>>) = Len(log) + 1
      BY <3>2, AppendedLog
    <3>4. log' \in Seq(Items) /\ Len(log') <= LogCapacity + Reserve
      BY <2>0, <2>5, <3>3 DEF AppendTorn, it
    <3> QED
      BY <2>5, <3>4 DEF AppendTorn, Operations, Outcomes, ErrorKind
  <2>6. CASE Migrate
    <3>1. PICK i \in DOMAIN log :
            /\ IsNewest(i)
            /\ log' = log \o <<Item(log[i].key, log[i].stored)>>
      BY <2>6 DEF Migrate
    <3> DEFINE it == Item(log[i].key, log[i].stored)
    <3>2. it \in Items
      BY <3>1, LogAsValue, CopyKeepsValues
    <3> HIDE DEF it
    <3>3. log \o <<it>> \in Seq(Items) /\ Len(log \o <<it>>) = Len(log) + 1
      BY <3>2, AppendedLog
    <3>4. log' \in Seq(Items) /\ Len(log') <= LogCapacity + Reserve
      BY <2>0, <2>6, <3>1, <3>3 DEF Migrate, it
    <3> QED
      BY <2>6, <3>4 DEF Migrate
  <2>15. CASE MigrateTorn
    <3>1. PICK i \in DOMAIN log : log' = log \o <<Torn(log[i].key)>>
      BY <2>15 DEF MigrateTorn
    <3> DEFINE it == Torn(log[i].key)
    <3>2. it \in Items
      <4>1. log[i] \in Items
        OBVIOUS
      <4>2. log[i].key \in Keys
        BY <4>1 DEF Items
      <4> QED
        BY <4>2, ItemTypes DEF StoredValues
    <3> HIDE DEF it
    <3>3. log \o <<it>> \in Seq(Items) /\ Len(log \o <<it>>) = Len(log) + 1
      BY <3>2, AppendedLog
    <3>4. log' \in Seq(Items) /\ Len(log') <= LogCapacity + Reserve
      BY <2>0, <2>15, <3>1, <3>3 DEF MigrateTorn, it
    <3> QED
      BY <2>15, <3>4 DEF MigrateTorn, Operations, Outcomes, ErrorKind
  <2>16. CASE Reclaim
    <3>1. PICK i \in DOMAIN log : log' = RemoveAt(log, i)
      BY <2>16 DEF Reclaim
    <3>2. log' \in Seq(Items) /\ Len(log') = Len(log) - 1
      BY <3>1, RemovedLog
    <3>3. Len(log') <= LogCapacity + Reserve
      BY <2>0, <3>2
    <3> QED
      BY <2>16, <3>2, <3>3 DEF Reclaim
  <2>17. CASE ItemTooBig
    BY <2>17 DEF ItemTooBig, Operations, Outcomes, ErrorKind
  <2>18. ASSUME NEW k \in Keys, GetFailed(k)
         PROVE  TypeOK'
    BY <2>18 DEF GetFailed, Fetches
  <2>7. CASE StoreFull
    BY <2>7 DEF StoreFull, Operations, Outcomes, ErrorKind
  <2>8. CASE StoreDone
    BY <2>8 DEF StoreDone, Operations, Outcomes
  <2>9. CASE Interrupt
    BY <2>9 DEF Interrupt, Operations, Outcomes, ErrorKind
  <2>10. CASE ClearStart
    BY <2>10 DEF ClearStart, Operations
  <2>11. CASE ErasePage
    <3>1. PICK i \in DOMAIN log : log' = RemoveAt(log, i)
      BY <2>11 DEF ErasePage
    <3>2. log' \in Seq(Items) /\ Len(log') = Len(log) - 1
      BY <3>1, RemovedLog
    <3>3. Len(log') <= LogCapacity + Reserve
      BY <2>0, <3>2
    <3> QED
      BY <2>11, <3>2, <3>3 DEF ErasePage
  <2>12. CASE ClearDone
    BY <2>12 DEF ClearDone, Operations, Outcomes
  <2>13. ASSUME NEW k \in Keys, NEW room \in Rooms, Get(k, room)
         PROVE  TypeOK'
    <3>1. PICK v \in Values \cup {Absent} : LogicalValue(k) = v
      BY LogAsValue, ValueType
    <3>2. \/ fetched' = [kind |-> "too_small", key |-> k]
          \/ fetched' = [kind |-> "value", key |-> k, value |-> v]
      BY <2>13, <3>1 DEF Get
    <3>3. fetched' \in Fetches
      BY <3>2 DEF Fetches
    <3> QED
      BY <2>13, <3>3 DEF Get
  <2>14. CASE UNCHANGED vars
    BY <2>14 DEF vars
  <2> QED
    BY <2>1, <2>2, <2>3, <2>4, <2>5, <2>6, <2>7, <2>8, <2>9, <2>10, <2>11,
       <2>12, <2>13, <2>14, <2>15, <2>16, <2>17, <2>18 DEF Next
<1> QED
  BY <1>1, <1>2, PTL DEF Spec

-----------------------------------------------------------------------------
(* What put accepts, get can decode.                                       *)

\* Not only what is written but also what is about to be fits the buffer.
Fits ==
    /\ FetchFitsScratch
    /\ op.kind = "store" => EncodedSize(op.stored) <= Scratch

\* The records put and delete accept fit the buffer.
LEMMA AcceptedFits ==
    /\ EncodedSize(Tombstone) <= Scratch
    /\ \A v \in Values : SizeOf[v] <= MaxValueSize =>
            EncodedSize(Live(v)) <= Scratch
BY StoreAssumption
   DEF EncodedSize, Tombstone, Live, MaxValueSize, EncodingOverhead

\* A log that holds only items of one that fits, fits.
LEMMA FitsByItems ==
    ASSUME FetchFitsScratch,
           \A n \in DOMAIN log' : \E i \in DOMAIN log : log'[n] = log[i]
    PROVE  FetchFitsScratch'
BY DEF FetchFitsScratch, EncodedSize

\* Every intact item fits the working buffer, however the log was appended
\* to, torn, migrated and erased: get never meets a record it cannot decode.
THEOREM StoredFitsBuffer == Spec => []FetchFitsScratch
<1>1. Init => Fits
  BY DEF Init, Fits, FetchFitsScratch, Idle
<1>2. ASSUME TypeOK, Fits, [Next]_vars
      PROVE  Fits'
  <2>0. log \in Seq(Items) /\ op \in Operations
    BY <1>2 DEF TypeOK
  <2>1. ASSUME NEW k \in Keys, NEW v \in Values, PutStart(k, v)
        PROVE  Fits'
    <3>1. EncodedSize(op'.stored) <= Scratch
      BY <2>1, AcceptedFits DEF PutStart, Store
    <3> QED
      BY <1>2, <2>1, <3>1 DEF PutStart, Fits, FetchFitsScratch, EncodedSize
  <2>2. ASSUME NEW k \in Keys, DeleteStart(k)
        PROVE  Fits'
    <3>1. EncodedSize(op'.stored) <= Scratch
      BY <2>2, AcceptedFits DEF DeleteStart, Store
    <3> QED
      BY <1>2, <2>2, <3>1 DEF DeleteStart, Fits, FetchFitsScratch, EncodedSize
  <2>3. CASE AppendItem
    <3>1. op.key \in Keys /\ op.stored \in StoredValues
      BY <2>0, <2>3, OperationParts DEF AppendItem
    <3> DEFINE it == Item(op.key, op.stored)
    <3>2. it \in Items /\ it.stored = op.stored
      BY <3>1, ItemTypes DEF Item
    <3> HIDE DEF it
    <3>3. /\ DOMAIN (log \o <<it>>) = DOMAIN log \cup {Len(log) + 1}
          /\ \A i \in DOMAIN log : (log \o <<it>>)[i] = log[i]
          /\ (log \o <<it>>)[Len(log) + 1] = it
      BY <2>0, <3>2, AppendedLog
    <3>4. log' = log \o <<it>>
      BY <2>3 DEF AppendItem, it
    <3>5. EncodedSize(it.stored) <= Scratch
      BY <1>2, <2>3, <3>2 DEF Fits, AppendItem, EncodedSize
    <3>6. FetchFitsScratch'
      BY <1>2, <3>3, <3>4, <3>5 DEF Fits, FetchFitsScratch, EncodedSize
    <3> QED
      BY <2>3, <3>6 DEF AppendItem, Fits, Written
  <2>4. CASE AppendTorn
    <3>1. op.key \in Keys
      BY <2>0, <2>4, OperationParts DEF AppendTorn
    <3> DEFINE it == Torn(op.key)
    <3>2. it \in Items /\ ~it.intact
      BY <3>1, ItemTypes DEF Torn, StoredValues
    <3> HIDE DEF it
    <3>3. /\ DOMAIN (log \o <<it>>) = DOMAIN log \cup {Len(log) + 1}
          /\ \A i \in DOMAIN log : (log \o <<it>>)[i] = log[i]
          /\ (log \o <<it>>)[Len(log) + 1] = it
      BY <2>0, <3>2, AppendedLog
    <3>4. log' = log \o <<it>>
      BY <2>4 DEF AppendTorn, it
    <3>5. FetchFitsScratch'
      BY <1>2, <3>2, <3>3, <3>4 DEF Fits, FetchFitsScratch, EncodedSize
    <3> QED
      BY <2>4, <3>5 DEF AppendTorn, Fits, Idle
  <2>5. CASE Migrate
    <3>1. PICK i \in DOMAIN log :
            /\ IsNewest(i)
            /\ log' = log \o <<Item(log[i].key, log[i].stored)>>
      BY <2>5 DEF Migrate
    <3> DEFINE it == Item(log[i].key, log[i].stored)
    <3>2. it \in Items /\ it.stored = log[i].stored /\ log[i].intact
      BY <2>0, <3>1, LogAsValue, CopyKeepsValues
         DEF Item, IsNewestOf, IntactOf
    <3> HIDE DEF it
    <3>3. /\ DOMAIN (log \o <<it>>) = DOMAIN log \cup {Len(log) + 1}
          /\ \A j \in DOMAIN log : (log \o <<it>>)[j] = log[j]
          /\ (log \o <<it>>)[Len(log) + 1] = it
      BY <2>0, <3>2, AppendedLog
    <3>4. log' = log \o <<it>>
      BY <3>1 DEF it
    <3>5. EncodedSize(it.stored) <= Scratch
      BY <1>2, <3>2 DEF Fits, FetchFitsScratch, EncodedSize
    <3>6. FetchFitsScratch'
      BY <1>2, <3>3, <3>4, <3>5 DEF Fits, FetchFitsScratch, EncodedSize
    <3> QED
      BY <1>2, <2>5, <3>6 DEF Migrate, Fits, EncodedSize
  <2>12. CASE MigrateTorn
    <3>1. PICK i \in DOMAIN log : log' = log \o <<Torn(log[i].key)>>
      BY <2>12 DEF MigrateTorn
    <3> DEFINE it == Torn(log[i].key)
    <3>2. it \in Items /\ ~it.intact
      <4>1. log[i] \in Items
        BY <2>0
      <4>2. log[i].key \in Keys
        BY <4>1 DEF Items
      <4> QED
        BY <4>2, ItemTypes DEF Torn, StoredValues
    <3> HIDE DEF it
    <3>3. /\ DOMAIN (log \o <<it>>) = DOMAIN log \cup {Len(log) + 1}
          /\ \A j \in DOMAIN log : (log \o <<it>>)[j] = log[j]
          /\ (log \o <<it>>)[Len(log) + 1] = it
      BY <2>0, <3>2, AppendedLog
    <3>4. log' = log \o <<it>>
      BY <3>1 DEF it
    <3>5. FetchFitsScratch'
      BY <1>2, <3>2, <3>3, <3>4 DEF Fits, FetchFitsScratch, EncodedSize
    <3> QED
      BY <2>12, <3>5 DEF MigrateTorn, Fits, Idle
  <2>13. CASE Reclaim
    <3>1. PICK i \in DOMAIN log : log' = RemoveAt(log, i)
      BY <2>13 DEF Reclaim
    <3>2. \A n \in DOMAIN log' : \E m \in DOMAIN log : log'[n] = log[m]
      BY <2>0, <3>1, RemoveKeepsItems
    <3>3. FetchFitsScratch'
      BY <1>2, <3>2, FitsByItems DEF Fits
    <3> QED
      BY <1>2, <2>13, <3>3 DEF Reclaim, Fits, EncodedSize
  <2>6. CASE ErasePage
    <3>1. PICK i \in DOMAIN log : log' = RemoveAt(log, i)
      BY <2>6 DEF ErasePage
    <3>2. \A n \in DOMAIN log' : \E m \in DOMAIN log : log'[n] = log[m]
      BY <2>0, <3>1, RemoveKeepsItems
    <3>3. FetchFitsScratch'
      BY <1>2, <3>2, FitsByItems DEF Fits
    <3> QED
      BY <2>6, <3>3 DEF ErasePage, Fits, Clear
  <2>7. ASSUME UNCHANGED log, op' = op \/ op' = Idle \/ op' = Clear
        PROVE  Fits'
    BY <1>2, <2>7 DEF Fits, FetchFitsScratch, EncodedSize, Idle, Clear
  <2>8. ASSUME NEW v \in Values, PutTooLarge(v)
        PROVE  Fits'
    BY <2>7, <2>8 DEF PutTooLarge
  <2>9. CASE \/ ItemTooBig \/ StoreFull \/ StoreDone
             \/ Interrupt \/ ClearStart \/ ClearDone
    BY <2>7, <2>9
       DEF ItemTooBig, StoreFull, StoreDone, Interrupt, ClearStart, ClearDone
  <2>10. ASSUME NEW k \in Keys, NEW room \in Rooms, Get(k, room)
         PROVE  Fits'
    BY <2>7, <2>10 DEF Get
  <2>14. ASSUME NEW k \in Keys, GetFailed(k)
         PROVE  Fits'
    BY <2>7, <2>14 DEF GetFailed
  <2>11. CASE UNCHANGED vars
    BY <2>7, <2>11 DEF vars
  <2> QED
    BY <1>2, <2>1, <2>2, <2>3, <2>4, <2>5, <2>6, <2>8, <2>9, <2>10, <2>11,
       <2>12, <2>13, <2>14 DEF Next
<1>3. Fits => FetchFitsScratch
  BY DEF Fits
<1> QED
  BY <1>1, <1>2, <1>3, StoreTypeCorrect, PTL DEF Spec

-----------------------------------------------------------------------------
(* The promise of the trait.                                               *)

\* The state the caller sees: the values of a log, those it still holds, the
\* operation and the outcome.
Seen(l) == [k \in Keys |-> ValueIn(l, k)]

Kept(l) == [k \in Keys |-> HeldIn(l, k)]

Caller(o) ==
    LET v == IF o.stored.tag = 1 THEN o.stored.value ELSE Absent
    IN  CASE o.kind = "idle" -> [kind |-> "idle"]
          [] o.kind = "clear" -> [kind |-> "clear"]
          [] o.kind = "store" ->
                [kind |-> "mutate", key |-> o.key, value |-> v]
          [] o.kind = "written" ->
                [kind |-> "settled", key |-> o.key, value |-> v]

Told(o) == IF o \in ErrorKind THEN "Err" ELSE o

\* What the caller is told of each operation and outcome.
LEMMA CallerSees ==
    /\ Caller(Idle) = [kind |-> "idle"]
    /\ Caller(Clear) = [kind |-> "clear"]
    /\ \A k \in Keys, s \in StoredValues :
         /\ Caller(Store(k, s)) =
                [kind |-> "mutate", key |-> k, value |-> Meaning(s)]
         /\ Caller(Written(k, s)) =
                [kind |-> "settled", key |-> k, value |-> Meaning(s)]
<1>1. Caller(Idle) = [kind |-> "idle"] /\ Caller(Clear) = [kind |-> "clear"]
  BY DEF Caller, Idle, Clear
<1>2. ASSUME NEW k \in Keys, NEW s \in StoredValues
      PROVE  /\ Caller(Store(k, s)) =
                    [kind |-> "mutate", key |-> k, value |-> Meaning(s)]
             /\ Caller(Written(k, s)) =
                    [kind |-> "settled", key |-> k, value |-> Meaning(s)]
  <2>1. Meaning(s) = IF s.tag = 1 THEN s.value ELSE Absent
    BY MeaningType
  <2>2. /\ Store(k, s).kind = "store"
        /\ Store(k, s).key = k
        /\ Store(k, s).stored = s
    BY DEF Store
  <2>3. /\ Written(k, s).kind = "written"
        /\ Written(k, s).key = k
        /\ Written(k, s).stored = s
    BY DEF Written
  <2> QED
    BY <2>1, <2>2, <2>3 DEF Caller
<1> QED
  BY <1>1, <1>2

\* The refinement mapping is made of these, before and after a step.
LEMMA Mapping ==
    /\ [k \in Keys |-> LogicalValue(k)] = Seen(log)
    /\ [k \in Keys |-> LogicalValue(k)]' = Seen(log')
    /\ [k \in Keys |-> Held(k)] = Kept(log)
    /\ [k \in Keys |-> Held(k)]' = Kept(log')
    /\ CallersOp = Caller(op)
    /\ CallersOp' = Caller(op')
    /\ (IF outcome \in ErrorKind THEN "Err" ELSE outcome) = Told(outcome)
    /\ (IF outcome \in ErrorKind THEN "Err" ELSE outcome)' = Told(outcome')
<1>1. /\ [k \in Keys |-> LogicalValue(k)] = Seen(log)
      /\ [k \in Keys |-> LogicalValue(k)]' = Seen(log')
      /\ [k \in Keys |-> Held(k)] = Kept(log)
      /\ [k \in Keys |-> Held(k)]' = Kept(log')
  BY LogAsValue DEF Seen, Kept
<1>2. CallersOp = Caller(op) /\ CallersOp' = Caller(op')
  BY DEF CallersOp, Caller
<1>3. /\ (IF outcome \in ErrorKind THEN "Err" ELSE outcome) = Told(outcome)
      /\ (IF outcome \in ErrorKind THEN "Err" ELSE outcome)' = Told(outcome')
  BY DEF Told, ErrorKind
<1> QED
  BY <1>1, <1>2, <1>3

\* Every step of the store is a step of the promise, or changes nothing the
\* caller sees.
LEMMA StepKeepsPromise ==
    ASSUME TypeOK, [Next]_vars
    PROVE  [Promise!Next]_(Promise!vars)
<1> DEFINE value == [k \in Keys |-> LogicalValue(k)]
           held == [k \in Keys |-> Held(k)]
           told == IF outcome \in ErrorKind THEN "Err" ELSE outcome
<1>0. log \in Seq(Items) /\ op \in Operations
  BY DEF TypeOK
<1>1. /\ value = Seen(log) /\ value' = Seen(log')
      /\ held = Kept(log) /\ held' = Kept(log')
  BY Mapping
<1>2. CallersOp = Caller(op) /\ CallersOp' = Caller(op')
  BY Mapping
<1>3. told = Told(outcome) /\ told' = Told(outcome')
  BY Mapping
<1>4. /\ Told("Backend") = "Err"
      /\ Told("Full") = "Err"
      /\ Told("ValueTooLarge") = "Err"
      /\ Told("Ok") = "Ok"
  BY DEF Told, ErrorKind
<1>5. ASSUME NEW k \in Keys, NEW v \in Values, PutStart(k, v)
      PROVE  Promise!Begin(k, v)
  <2>1. Live(v) \in StoredValues /\ Meaning(Live(v)) = v
    BY DEF StoredValues, Meaning, Live, Tombstone
  <2>2. CallersOp = [kind |-> "idle"]
    BY <1>2, <1>5, CallerSees DEF PutStart
  <2>3. CallersOp' = [kind |-> "mutate", key |-> k, value |-> v]
    BY <1>2, <1>5, <2>1, CallerSees DEF PutStart
  <2>4. log' = log /\ fetched' = fetched /\ outcome' = outcome
    BY <1>5 DEF PutStart
  <2>5. /\ value' = value /\ held' = held
        /\ told' = told /\ fetched' = fetched
    BY <1>1, <1>3, <2>4
  <2> QED
    BY <2>2, <2>3, <2>5 DEF Promise!Begin, Promise!Idle, Promise!Mutation
<1>6. ASSUME NEW k \in Keys, DeleteStart(k)
      PROVE  Promise!Begin(k, Absent)
  <2>1. Tombstone \in StoredValues /\ Meaning(Tombstone) = Absent
    BY DEF StoredValues, Meaning
  <2>2. CallersOp = [kind |-> "idle"]
    BY <1>2, <1>6, CallerSees DEF DeleteStart
  <2>3. CallersOp' = [kind |-> "mutate", key |-> k, value |-> Absent]
    BY <1>2, <1>6, <2>1, CallerSees DEF DeleteStart
  <2>4. log' = log /\ fetched' = fetched /\ outcome' = outcome
    BY <1>6 DEF DeleteStart
  <2>5. /\ value' = value /\ held' = held
        /\ told' = told /\ fetched' = fetched
    BY <1>1, <1>3, <2>4
  <2> QED
    BY <2>2, <2>3, <2>5 DEF Promise!Begin, Promise!Idle, Promise!Mutation
<1>7. ASSUME op' = Idle, value' = value, held' = held, told' = "Err",
             fetched' = fetched
      PROVE  Promise!Fail
  <2>1. CallersOp' = [kind |-> "idle"]
    BY <1>2, <1>7, CallerSees
  <2> QED
    BY <1>7, <2>1 DEF Promise!Fail, Promise!Idle
<1>8. ASSUME NEW v \in Values, PutTooLarge(v)
      PROVE  Promise!Fail
  <2>1. op' = Idle /\ log' = log /\ outcome' = "ValueTooLarge"
    BY <1>8 DEF PutTooLarge
  <2>2. fetched' = fetched
    BY <1>8 DEF PutTooLarge
  <2> QED
    BY <1>1, <1>3, <1>4, <1>7, <2>1, <2>2
<1>9. CASE AppendItem
  <2>1. PICK k \in Keys, s \in StoredValues : op = Store(k, s)
    BY <1>0, <1>9, OperationParts DEF AppendItem
  <2>2. op.key = k /\ op.stored = s
    BY <2>1 DEF Store
  <2>3. /\ log' = log \o <<Item(k, s)>>
        /\ op' = Written(k, s)
        /\ fetched' = fetched
        /\ outcome' = outcome
    BY <1>9, <2>2 DEF AppendItem
  <2>4. /\ ValueIn(log', k) = Meaning(s)
        /\ \A c : c # k => ValueIn(log', c) = ValueIn(log, c)
    <3>1. /\ ValueIn(log \o <<Item(k, s)>>, k) = Meaning(s)
          /\ \A c : c # k =>
                ValueIn(log \o <<Item(k, s)>>, c) = ValueIn(log, c)
      BY <1>0, AppendSetsValue, Zenon
    <3> QED
      BY <2>3, <3>1, Zenon
  <2>5. Seen(log') = [Seen(log) EXCEPT ![k] = Meaning(s)]
    BY <2>4 DEF Seen
  <2>12. /\ HeldIn(log', k) = HeldIn(log, k) \cup ({Meaning(s)} \cap Values)
         /\ \A c : c # k => HeldIn(log', c) = HeldIn(log, c)
    <3>1. /\ HeldIn(log \o <<Item(k, s)>>, k)
                = HeldIn(log, k) \cup ({Meaning(s)} \cap Values)
          /\ \A c : c # k =>
                HeldIn(log \o <<Item(k, s)>>, c) = HeldIn(log, c)
      BY <1>0, AppendAddsHeld, Zenon
    <3> QED
      BY <2>3, <3>1, Zenon
  <2>13. Kept(log') =
            [Kept(log) EXCEPT ![k] = @ \cup ({Meaning(s)} \cap Values)]
    BY <2>12 DEF Kept
  <2>6. CallersOp = [kind |-> "mutate", key |-> k, value |-> Meaning(s)]
    BY <1>2, <2>1, CallerSees
  <2>7. CallersOp' = [kind |-> "settled", key |-> k, value |-> Meaning(s)]
    BY <1>2, <2>3, CallerSees
  <2>8. value' = [value EXCEPT ![k] = Meaning(s)]
    BY <1>1, <2>5
  <2>14. held' = [held EXCEPT ![k] = @ \cup ({Meaning(s)} \cap Values)]
    BY <1>1, <2>13
  <2>9. told' = told
    BY <1>3, <2>3
  <2>10. Promise!TakeEffect(k, Meaning(s))
    BY <2>3, <2>6, <2>7, <2>8, <2>9, <2>14
       DEF Promise!TakeEffect, Promise!Mutation, Promise!Settled
  <2>11. Meaning(s) \in Values \cup {Absent}
    BY MeaningType
  <2> QED
    BY <2>10, <2>11 DEF Promise!Next
<1>10. CASE AppendTorn
  <2>1. op.key \in Keys
    BY <1>0, <1>10, OperationParts DEF AppendTorn
  <2>2. /\ log' = log \o <<Torn(op.key)>>
        /\ op' = Idle
        /\ fetched' = fetched
        /\ outcome' = "Backend"
    BY <1>10 DEF AppendTorn
  <2>3. \A c : /\ ValueIn(log', c) = ValueIn(log, c)
               /\ HeldIn(log', c) = HeldIn(log, c)
    BY <1>0, <2>1, <2>2, TornKeepsValues, TornKeepsHeld
  <2>4. Seen(log') = Seen(log) /\ Kept(log') = Kept(log)
    BY <2>3 DEF Seen, Kept
  <2>5. Promise!Fail
    BY <1>1, <1>3, <1>4, <1>7, <2>2, <2>4
  <2> QED
    BY <2>5 DEF Promise!Next
<1>11. CASE Migrate
  <2>1. PICK i \in DOMAIN log :
          IsNewest(i) /\ log' = log \o <<Item(log[i].key, log[i].stored)>>
    BY <1>11 DEF Migrate
  <2>2. op' = op /\ fetched' = fetched /\ outcome' = outcome
    BY <1>11 DEF Migrate
  <2>3. IsNewestOf(log, i)
    BY <2>1, LogAsValue
  <2>4. \A c : /\ ValueIn(log', c) = ValueIn(log, c)
               /\ HeldIn(log', c) = HeldIn(log, c)
    BY <1>0, <2>1, <2>3, CopyKeepsValues, CopyKeepsHeld
  <2>5. Seen(log') = Seen(log) /\ Kept(log') = Kept(log)
    BY <2>4 DEF Seen, Kept
  <2>6. /\ value' = value /\ held' = held
        /\ told' = told /\ CallersOp' = CallersOp
    BY <1>1, <1>2, <1>3, <2>2, <2>5
  <2> QED
    BY <2>2, <2>6 DEF Promise!vars
<1>24. CASE MigrateTorn
  <2>1. PICK i \in DOMAIN log : log' = log \o <<Torn(log[i].key)>>
    BY <1>24 DEF MigrateTorn
  <2>2. op' = Idle /\ fetched' = fetched /\ outcome' = "Backend"
    BY <1>24 DEF MigrateTorn
  <2>3. log[i].key \in Keys
    <3>1. log[i] \in Items
      BY <1>0
    <3> QED
      BY <3>1 DEF Items
  <2>4. \A c : /\ ValueIn(log', c) = ValueIn(log, c)
               /\ HeldIn(log', c) = HeldIn(log, c)
    BY <1>0, <2>1, <2>3, TornKeepsValues, TornKeepsHeld
  <2>5. Seen(log') = Seen(log) /\ Kept(log') = Kept(log)
    BY <2>4 DEF Seen, Kept
  <2>6. Promise!Fail
    BY <1>1, <1>3, <1>4, <1>7, <2>2, <2>5
  <2> QED
    BY <2>6 DEF Promise!Next
<1>25. ASSUME NEW i \in DOMAIN log, log' = RemoveAt(log, i)
       PROVE  /\ held' \in [Keys -> SUBSET Values]
              /\ \A c \in Keys : held'[c] \subseteq held[c]
  <2>1. \A c : HeldIn(log', c) \subseteq HeldIn(log, c)
    BY <1>0, <1>25, RemoveLosesHeld
  <2>2. \A c : HeldIn(log', c) \subseteq Values
    BY DEF HeldIn
  <2>3. Kept(log') \in [Keys -> SUBSET Values]
    BY <2>2 DEF Kept
  <2>4. \A c \in Keys : Kept(log')[c] \subseteq Kept(log)[c]
    BY <2>1 DEF Kept
  <2> QED
    BY <1>1, <2>3, <2>4
<1>26. CASE Reclaim
  <2>1. PICK k \in Keys, s \in StoredValues : op = Store(k, s)
    BY <1>0, <1>26, OperationParts DEF Reclaim
  <2>2. PICK i \in DOMAIN log : ~IsNewest(i) /\ log' = RemoveAt(log, i)
    BY <1>26 DEF Reclaim
  <2>3. op' = op /\ fetched' = fetched /\ outcome' = outcome
    BY <1>26 DEF Reclaim
  <2>4. ~IsNewestOf(log, i)
    BY <2>2, LogAsValue
  <2>5. \A c : ValueIn(log', c) = ValueIn(log, c)
    BY <1>0, <2>2, <2>4, ReclaimKeepsValues
  <2>6. Seen(log') = Seen(log)
    BY <2>5 DEF Seen
  <2>7. CallersOp = [kind |-> "mutate", key |-> k, value |-> Meaning(s)]
    BY <1>2, <2>1, CallerSees
  <2>8. value' = value /\ told' = told /\ CallersOp' = CallersOp
    BY <1>1, <1>2, <1>3, <2>3, <2>6
  <2>9. /\ held' \in [Keys -> SUBSET Values]
        /\ \A c \in Keys : held'[c] \subseteq held[c]
    BY <1>25, <2>2
  <2>10. Promise!MakeRoom(k, Meaning(s))
    BY <2>3, <2>7, <2>8, <2>9
       DEF Promise!MakeRoom, Promise!GivesUp, Promise!Mutation
  <2>11. Meaning(s) \in Values \cup {Absent}
    BY MeaningType
  <2> QED
    BY <2>10, <2>11 DEF Promise!Next
<1>27. CASE ItemTooBig
  <2>1. /\ op' = Idle /\ log' = log /\ fetched' = fetched
        /\ outcome' = "ValueTooLarge"
    BY <1>27 DEF ItemTooBig
  <2>2. Promise!Fail
    BY <1>1, <1>3, <1>4, <1>7, <2>1
  <2> QED
    BY <2>2 DEF Promise!Next
<1>12. CASE StoreFull
  <2>1. op' = Idle /\ log' = log /\ fetched' = fetched /\ outcome' = "Full"
    BY <1>12 DEF StoreFull
  <2>2. Promise!Fail
    BY <1>1, <1>3, <1>4, <1>7, <2>1
  <2> QED
    BY <2>2 DEF Promise!Next
<1>13. CASE StoreDone
  <2>1. PICK k \in Keys, s \in StoredValues : op = Written(k, s)
    BY <1>0, <1>13, OperationParts DEF StoreDone
  <2>2. op' = Idle /\ log' = log /\ fetched' = fetched /\ outcome' = "Ok"
    BY <1>13 DEF StoreDone
  <2>3. CallersOp = [kind |-> "settled", key |-> k, value |-> Meaning(s)]
    BY <1>2, <2>1, CallerSees
  <2>4. CallersOp' = [kind |-> "idle"]
    BY <1>2, <2>2, CallerSees
  <2>5. value' = value /\ held' = held /\ told' = "Ok"
    BY <1>1, <1>3, <1>4, <2>2
  <2>6. Promise!Succeed(k, Meaning(s))
    BY <2>2, <2>3, <2>4, <2>5
       DEF Promise!Succeed, Promise!Settled, Promise!Idle
  <2>7. Meaning(s) \in Values \cup {Absent}
    BY MeaningType
  <2> QED
    BY <2>6, <2>7 DEF Promise!Next
<1>14. CASE Interrupt
  <2>1. op' = Idle /\ log' = log /\ fetched' = fetched /\ outcome' = "Backend"
    BY <1>14 DEF Interrupt
  <2>2. Promise!Fail
    BY <1>1, <1>3, <1>4, <1>7, <2>1
  <2> QED
    BY <2>2 DEF Promise!Next
<1>15. CASE ClearStart
  <2>1. /\ op = Idle
        /\ op' = Clear
        /\ log' = log /\ fetched' = fetched /\ outcome' = outcome
    BY <1>15 DEF ClearStart
  <2>2. CallersOp = [kind |-> "idle"] /\ CallersOp' = [kind |-> "clear"]
    BY <1>2, <2>1, CallerSees
  <2>3. value' = value /\ held' = held /\ told' = told
    BY <1>1, <1>3, <2>1
  <2>4. Promise!BeginClear
    BY <2>1, <2>2, <2>3 DEF Promise!BeginClear, Promise!Idle, Promise!Clearing
  <2> QED
    BY <2>4 DEF Promise!Next
<1>16. CASE ErasePage
  <2>1. /\ op = Clear
        /\ op' = op /\ fetched' = fetched /\ outcome' = outcome
    BY <1>16 DEF ErasePage
  <2>2. PICK i \in DOMAIN log : log' = RemoveAt(log, i)
    BY <1>16 DEF ErasePage
  <2>3. log' \in Seq(Items)
    BY <1>0, <2>2, RemovedLog
  <2>4. \A k \in Keys : ValueIn(log', k) \in Values \cup {Absent}
    BY <2>3, ValueType
  <2>5. Seen(log') \in [Keys -> Values \cup {Absent}]
    BY <2>4 DEF Seen
  <2>6. CallersOp = [kind |-> "clear"] /\ CallersOp' = CallersOp
    BY <1>2, <2>1, CallerSees
  <2>7. value' \in [Keys -> Values \cup {Absent}] /\ told' = told
    BY <1>1, <1>3, <2>1, <2>5
  <2>9. \A k \in Keys : Seen(log')[k] \in Kept(log')[k] \cup {Absent}
    BY <2>3, ValueIsHeld DEF Seen, Kept
  <2>10. /\ held' \in [Keys -> SUBSET Values]
         /\ \A c \in Keys : held'[c] \subseteq held[c]
         /\ \A k \in Keys : value'[k] \in held'[k] \cup {Absent}
    BY <1>1, <1>25, <2>2, <2>9
  <2>8. Promise!Erase
    BY <2>1, <2>6, <2>7, <2>10
       DEF Promise!Erase, Promise!GivesUp, Promise!Clearing
  <2> QED
    BY <2>8 DEF Promise!Next
<1>17. CASE ClearDone
  <2>1. /\ op = Clear
        /\ op' = Idle
        /\ log' = <<>> /\ fetched' = fetched /\ outcome' = "Ok"
    BY <1>17 DEF ClearDone
  <2>2. \A k \in Keys : ValueIn(<<>>, k) = Absent /\ HeldIn(<<>>, k) = {}
    BY ValueOfNone DEF IntactOf, HeldIn
  <2>3. /\ Seen(log') = [k \in Keys |-> Absent]
        /\ Kept(log') = [k \in Keys |-> {}]
    BY <2>1, <2>2 DEF Seen, Kept
  <2>4. CallersOp = [kind |-> "clear"] /\ CallersOp' = [kind |-> "idle"]
    BY <1>2, <2>1, CallerSees
  <2>5. /\ value' = [k \in Keys |-> Absent]
        /\ held' = [k \in Keys |-> {}]
        /\ told' = "Ok"
    BY <1>1, <1>3, <1>4, <2>1, <2>3
  <2>6. Promise!FinishClear
    BY <2>1, <2>4, <2>5
       DEF Promise!FinishClear, Promise!Clearing, Promise!Idle
  <2> QED
    BY <2>6 DEF Promise!Next
<1>18. ASSUME NEW k \in Keys, NEW room \in Rooms, Get(k, room)
       PROVE  Promise!Get(k)
  <2>1. /\ op = Idle
        /\ op' = op /\ log' = log /\ outcome' = outcome
    BY <1>18 DEF Get
  <2>2. CallersOp = [kind |-> "idle"] /\ CallersOp' = CallersOp
    BY <1>2, <2>1, CallerSees
  <2>3. value' = value /\ held' = held /\ told' = told
    BY <1>1, <1>3, <2>1
  <2>4. value[k] = LogicalValue(k)
    OBVIOUS
  <2>5. \/ fetched' = [kind |-> "value", key |-> k, value |-> value[k]]
        \/ value[k] # Absent /\ fetched' = [kind |-> "too_small", key |-> k]
    BY <1>18, <2>4 DEF Get
  <2> QED
    BY <2>2, <2>3, <2>5
       DEF Promise!Get, Promise!Idle, Promise!Result, Promise!TooSmall
<1>28. ASSUME NEW k \in Keys, GetFailed(k)
       PROVE  Promise!Get(k)
  <2>1. /\ op = Idle
        /\ op' = op /\ log' = log /\ outcome' = outcome
        /\ fetched' = [kind |-> "error", key |-> k]
    BY <1>28 DEF GetFailed
  <2>2. CallersOp = [kind |-> "idle"] /\ CallersOp' = CallersOp
    BY <1>2, <2>1, CallerSees
  <2>3. value' = value /\ held' = held /\ told' = told
    BY <1>1, <1>3, <2>1
  <2> QED
    BY <2>1, <2>2, <2>3 DEF Promise!Get, Promise!Idle, Promise!Failed
<1>19. CASE UNCHANGED vars
  <2>1. op' = op /\ log' = log /\ fetched' = fetched /\ outcome' = outcome
    BY <1>19 DEF vars
  <2>2. /\ value' = value /\ held' = held
        /\ told' = told /\ CallersOp' = CallersOp
    BY <1>1, <1>2, <1>3, <2>1
  <2> QED
    BY <2>1, <2>2 DEF Promise!vars
<1>20. ASSUME \E k \in Keys, v \in Values : PutStart(k, v)
       PROVE  Promise!Next
  BY <1>5, <1>20 DEF Promise!Next
<1>21. ASSUME \E k \in Keys : DeleteStart(k)
       PROVE  Promise!Next
  BY <1>6, <1>21 DEF Promise!Next
<1>22. ASSUME \E v \in Values : PutTooLarge(v)
       PROVE  Promise!Next
  BY <1>8, <1>22 DEF Promise!Next
<1>23. ASSUME \E k \in Keys, room \in Rooms : Get(k, room)
       PROVE  Promise!Next
  BY <1>18, <1>23 DEF Promise!Next
<1>29. ASSUME \E k \in Keys : GetFailed(k)
       PROVE  Promise!Next
  BY <1>28, <1>29 DEF Promise!Next
<1> QED
  BY <1>9, <1>10, <1>11, <1>12, <1>13, <1>14, <1>15, <1>16, <1>17, <1>19,
     <1>20, <1>21, <1>22, <1>23, <1>24, <1>26, <1>27, <1>29 DEF Next

\* The store implements the KeyValueStore contract for every capacity and
\* every interleaving of torn appends, half-done migrations, full logs,
\* interruptions and partial clears: a mutation is seen completely or not at
\* all, is there once it succeeded, and a failed one changes no other value;
\* an interrupted clear uncovers nothing but values of the same key stored
\* since the last complete clear.
THEOREM StorePromiseKept == Spec => KeepsStorePromise
<1>1. Init => Promise!Init
  <2> SUFFICES ASSUME Init
               PROVE  Promise!Init
    OBVIOUS
  <2>1. log = <<>> /\ op = Idle /\ outcome = "none"
    BY DEF Init
  <2>2. fetched = [kind |-> "none"]
    BY DEF Init
  <2>3. \A k \in Keys : ValueIn(<<>>, k) = Absent /\ HeldIn(<<>>, k) = {}
    BY ValueOfNone DEF IntactOf, HeldIn
  <2>4. /\ Seen(log) = [k \in Keys |-> Absent]
        /\ Kept(log) = [k \in Keys |-> {}]
    BY <2>1, <2>3 DEF Seen, Kept
  <2>5. CallersOp = [kind |-> "idle"]
    BY <2>1, Mapping, CallerSees
  <2>6. (IF outcome \in ErrorKind THEN "Err" ELSE outcome) = "none"
    BY <2>1 DEF ErrorKind
  <2> QED
    BY <2>2, <2>4, <2>5, <2>6, Mapping
       DEF Promise!Init, Promise!Idle, Promise!NothingFetched
<1>2. TypeOK /\ [Next]_vars => [Promise!Next]_(Promise!vars)
  BY StepKeepsPromise
<1> QED
  BY <1>1, <1>2, StoreTypeCorrect, PTL
     DEF Spec, KeepsStorePromise, Promise!Spec

=============================================================================
