----------------------- MODULE ScannerRegistry_proofs -----------------------
(***************************************************************************)
(* Theorems about ScannerRegistry, for every finite set of advertisers,    *)
(* every range of signal strengths, every capacity of the registry and of  *)
(* the remembered list, and every timing.                                  *)
(***************************************************************************)
EXTENDS ScannerRegistry, FiniteSetTheorems, FunctionTheorems,
        NaturalsInduction, WellFoundedInduction, TLAPS

-----------------------------------------------------------------------------
(* Numbers.                                                                *)

\* Induction over the natural numbers, for a set.
LEMMA SetInduction ==
    ASSUME NEW K, 0 \in K, \A n \in Nat : n \in K => n + 1 \in K
    PROVE  \A n \in Nat : n \in K
<1> DEFINE T == {n \in Nat : n \notin K}
           R == OpToRel(<, Nat)
<1> SUFFICES ASSUME T # {}
             PROVE  FALSE
  OBVIOUS
<1>1. IsWellFoundedOn(R, Nat)
  BY NatLessThanWellFounded, Zenon
<1>2. T \subseteq Nat
  OBVIOUS
<1>3. PICK x \in T : \A y \in T : ~(<<y, x>> \in R)
  <2> HIDE DEF R, T
  <2> QED
    BY <1>1, <1>2, WFMin
<1>4. \A y \in T : ~(y < x)
  BY <1>3 DEF OpToRel
<1>5. x # 0 /\ x - 1 \in Nat /\ x - 1 \notin T
  BY <1>4
<1>6. x - 1 \in K
  BY <1>5
<1> QED
  BY <1>5, <1>6

\* Of the signal strengths that can be received one is the weakest.
LEMMA WeakestRssi ==
    ASSUME Rssi # {}
    PROVE  /\ Min(Rssi) \in -128 .. 127
           /\ \A r \in Rssi : Min(Rssi) <= r
<1>0. Rssi \subseteq -128 .. 127
  BY ScannerAssumption
<1> DEFINE K == {n \in Nat : \A r \in Rssi : r + 128 >= n}
<1>1. PICK x \in Rssi : TRUE
  OBVIOUS
<1>2. \E n \in Nat : n \in K /\ n + 1 \notin K
  <2> SUFFICES ASSUME \A n \in Nat : n \in K => n + 1 \in K
               PROVE  FALSE
    OBVIOUS
  <2>1. 0 \in K
    BY <1>0
  <2>2. \A n \in Nat : n \in K
    <3> HIDE DEF K
    <3> QED
      BY <2>1, SetInduction
  <2>3. x + 129 \in Nat /\ ~(x + 128 >= x + 129)
    BY <1>0, <1>1
  <2>4. x + 129 \in K
    BY <2>2, <2>3
  <2> QED
    BY <1>1, <2>3, <2>4
<1>3. \E r \in Rssi : \A t \in Rssi : r <= t
  <2>1. PICK n \in Nat : n \in K /\ n + 1 \notin K
    BY <1>2
  <2>2. PICK r \in Rssi : ~(r + 128 >= n + 1)
    BY <2>1
  <2>3. \A t \in Rssi : t + 128 >= n
    BY <2>1
  <2> QED
    BY <1>0, <2>2, <2>3
<1>4. Min(Rssi) \in Rssi /\ \A t \in Rssi : Min(Rssi) <= t
  BY <1>3 DEF Min
<1> QED
  BY <1>0, <1>4

\* Products keep order.
LEMMA TimesMonotone ==
    ASSUME NEW x \in Int, NEW y \in Int, NEW c \in Nat, x <= y
    PROVE  x * c <= y * c
OBVIOUS

\* The average of numbers between two bounds, rounded towards zero, lies
\* between them.
LEMMA QuotientBetween ==
    ASSUME NEW a \in Int, NEW c \in Nat \ {0}, NEW lo \in Int, NEW hi \in Int,
           lo * c <= a, a <= hi * c
    PROVE  /\ Quotient(a, c) \in Int
           /\ lo <= Quotient(a, c)
           /\ Quotient(a, c) <= hi
<1>1. \A n \in Nat : /\ n \div c \in Nat
                     /\ (n \div c) * c <= n
                     /\ n < ((n \div c) + 1) * c
  OBVIOUS
<1>2. \A x, y \in Int : x * c < y * c => x < y
  OBVIOUS
<1>3. CASE a < 0
  <2> DEFINE q == (-a) \div c
  <2>1. q \in Nat /\ q * c <= -a /\ -a < (q + 1) * c
    BY <1>1, <1>3
  <2>2. Quotient(a, c) = -q
    BY <1>3 DEF Quotient
  <2> HIDE DEF q
  <2>3. q * c < (1 - lo) * c
    BY <2>1
  <2>4. (-hi) * c < (q + 1) * c
    BY <2>1
  <2>5. q < 1 - lo /\ -hi < q + 1
    BY <1>2, <2>1, <2>3, <2>4
  <2> QED
    BY <2>1, <2>2, <2>5
<1>4. CASE ~(a < 0)
  <2> DEFINE q == a \div c
  <2>1. q \in Nat /\ q * c <= a /\ a < (q + 1) * c
    BY <1>1, <1>4
  <2>2. Quotient(a, c) = q
    BY <1>4 DEF Quotient
  <2> HIDE DEF q
  <2>3. q * c < (hi + 1) * c
    BY <2>1
  <2>4. lo * c < (q + 1) * c
    BY <2>1
  <2>5. q < hi + 1 /\ lo < q + 1
    BY <1>2, <2>1, <2>3, <2>4
  <2> QED
    BY <2>1, <2>2, <2>5
<1> QED
  BY <1>3, <1>4

-----------------------------------------------------------------------------
(* Sums over finite sets.                                                  *)

\* The element MapThenSumSet takes next.
Taken(t) == CHOOSE x \in t : TRUE

\* g holds the sum of c over every subset of U, in the order MapThenSumSet
\* takes them.
IsSum(g, U, c) ==
    /\ g[{}] = 0
    /\ \A t \in SUBSET U : t # {} => g[t] = c[Taken(t)] + g[t \ {Taken(t)}]

\* What taking an element leaves.
LEMMA TakenRest ==
    ASSUME NEW U, IsFiniteSet(U), NEW t \in SUBSET U, t # {}
    PROVE  /\ Taken(t) \in t
           /\ t \ {Taken(t)} \in SUBSET U
           /\ Cardinality(t) \in Nat \ {0}
           /\ Cardinality(t \ {Taken(t)}) = Cardinality(t) - 1
<1>1. Taken(t) \in t
  BY DEF Taken
<1>2. IsFiniteSet(t)
  BY FS_Subset
<1>3. Cardinality(t) \in Nat /\ Cardinality(t) # 0
  BY <1>2, FS_CardinalityType, FS_EmptySet
<1>4. Cardinality(t \ {Taken(t)}) = Cardinality(t) - 1
  BY <1>1, <1>2, FS_RemoveElement
<1> QED
  BY <1>1, <1>3, <1>4

\* There is such a function.
LEMMA SumExists ==
    ASSUME NEW U, IsFiniteSet(U), NEW c \in [U -> Nat]
    PROVE  \E g \in [SUBSET U -> Nat] : IsSum(g, U, c)
<1> DEFINE Small(n) == {t \in SUBSET U : Cardinality(t) <= n}
           Upto(g, n) ==
              /\ g \in [Small(n) -> Nat]
              /\ \A t \in Small(n) :
                    /\ t = {} => g[t] = 0
                    /\ t # {} => g[t] = c[Taken(t)] + g[t \ {Taken(t)}]
           K == {n \in Nat : \E g : Upto(g, n)}
<1>1. \A t \in SUBSET U : Cardinality(t) \in Nat /\ (Cardinality(t) = 0 <=> t = {})
  BY FS_Subset, FS_CardinalityType, FS_EmptySet
<1>2. 0 \in K
  <2> DEFINE g == [t \in Small(0) |-> 0]
  <2>1. \A t \in Small(0) : t = {}
    BY <1>1
  <2>2. Upto(g, 0)
    BY <2>1
  <2> QED
    BY <2>2
<1>3. ASSUME NEW n \in Nat, n \in K
      PROVE  n + 1 \in K
  <2>1. PICK g : Upto(g, n)
    BY <1>3
  <2> DEFINE h == [t \in Small(n + 1) |->
                      IF t = {} THEN 0 ELSE c[Taken(t)] + g[t \ {Taken(t)}]]
  <2>2. ASSUME NEW t \in Small(n + 1), t # {}
        PROVE  /\ t \ {Taken(t)} \in Small(n)
               /\ t \ {Taken(t)} \in Small(n + 1)
               /\ Taken(t) \in U
    BY <1>1, <2>2, TakenRest
  <2>3. \A t \in Small(n) : t \in Small(n + 1) /\ h[t] = g[t]
    BY <1>1, <2>1
  <2>4. h \in [Small(n + 1) -> Nat]
    <3> SUFFICES ASSUME NEW t \in Small(n + 1), t # {}
                 PROVE  c[Taken(t)] + g[t \ {Taken(t)}] \in Nat
      OBVIOUS
    <3>1. g[t \ {Taken(t)}] \in Nat /\ c[Taken(t)] \in Nat
      BY <2>1, <2>2
    <3> QED
      BY <3>1
  <2>5. Upto(h, n + 1)
    <3> SUFFICES ASSUME NEW t \in Small(n + 1)
                 PROVE  /\ t = {} => h[t] = 0
                        /\ t # {} => h[t] = c[Taken(t)] + h[t \ {Taken(t)}]
      BY <2>4
    <3>1. t = {} => h[t] = 0
      OBVIOUS
    <3>2. ASSUME t # {}
          PROVE  h[t] = c[Taken(t)] + h[t \ {Taken(t)}]
      <4>1. h[t \ {Taken(t)}] = g[t \ {Taken(t)}]
        BY <2>2, <2>3, <3>2
      <4>2. h[t] = c[Taken(t)] + g[t \ {Taken(t)}]
        BY <3>2
      <4> HIDE DEF h
      <4> QED
        BY <4>1, <4>2
    <3> QED
      BY <3>1, <3>2
  <2> HIDE DEF h, Upto
  <2> QED
    BY <2>5
<1>4. \A n \in Nat : n \in K
  <2> HIDE DEF K
  <2> QED
    BY <1>2, <1>3, SetInduction
<1>5. PICK g : Upto(g, Cardinality(U))
  <2>1. Cardinality(U) \in K
    BY <1>4, FS_CardinalityType
  <2> QED
    BY <2>1
<1>6. Small(Cardinality(U)) = SUBSET U
  BY FS_Subset
<1>7. {} \in SUBSET U
  OBVIOUS
<1> HIDE DEF Small
<1>8. IsSum(g, U, c) /\ g \in [SUBSET U -> Nat]
  BY <1>5, <1>6, <1>7 DEF IsSum
<1> QED
  BY <1>8

\* Sums of functions that agree are equal.
LEMMA SumAgrees ==
    ASSUME NEW U, IsFiniteSet(U), NEW c, NEW g, IsSum(g, U, c),
           NEW V, IsFiniteSet(V), NEW d, NEW h, IsSum(h, V, d),
           NEW W \in SUBSET (U \cap V), \A x \in W : c[x] = d[x]
    PROVE  g[W] = h[W]
<1> DEFINE K == {n \in Nat : \A t \in SUBSET W : Cardinality(t) = n => g[t] = h[t]}
<1>0. IsFiniteSet(W) /\ \A t \in SUBSET W : t \in SUBSET U /\ t \in SUBSET V
  BY FS_Subset
<1>1. 0 \in K
  <2>1. \A t \in SUBSET W : Cardinality(t) = 0 => t = {}
    BY <1>0, FS_Subset, FS_EmptySet
  <2> QED
    BY <2>1 DEF IsSum
<1>2. ASSUME NEW n \in Nat, n \in K
      PROVE  n + 1 \in K
  <2> SUFFICES ASSUME NEW t \in SUBSET W, Cardinality(t) = n + 1
               PROVE  g[t] = h[t]
    OBVIOUS
  <2>1. t # {}
    BY FS_EmptySet
  <2>2. /\ Taken(t) \in t /\ t \ {Taken(t)} \in SUBSET W
        /\ Cardinality(t \ {Taken(t)}) = n
    BY <1>0, <2>1, TakenRest
  <2>3. g[t \ {Taken(t)}] = h[t \ {Taken(t)}]
    BY <1>2, <2>2
  <2>4. c[Taken(t)] = d[Taken(t)]
    BY <2>2
  <2>5. /\ g[t] = c[Taken(t)] + g[t \ {Taken(t)}]
        /\ h[t] = d[Taken(t)] + h[t \ {Taken(t)}]
    BY <1>0, <2>1 DEF IsSum
  <2> QED
    BY <2>3, <2>4, <2>5
<1>3. \A n \in Nat : n \in K
  <2> HIDE DEF K
  <2> QED
    BY <1>1, <1>2, SetInduction
<1>4. Cardinality(W) \in K
  BY <1>0, <1>3, FS_CardinalityType
<1> QED
  BY <1>4

\* The order of a sum does not matter: any element can be taken first.
LEMMA SumTakesAny ==
    ASSUME NEW U, IsFiniteSet(U), NEW c \in [U -> Nat],
           NEW g \in [SUBSET U -> Nat], IsSum(g, U, c), NEW x \in U
    PROVE  g[U] = c[x] + g[U \ {x}]
<1> DEFINE K == {n \in Nat : \A t \in SUBSET U : \A y \in t :
                    Cardinality(t) = n => g[t] = c[y] + g[t \ {y}]}
<1>1. 0 \in K
  <2>1. \A t \in SUBSET U : Cardinality(t) = 0 => t = {}
    BY FS_Subset, FS_EmptySet
  <2> QED
    BY <2>1
<1>2. ASSUME NEW n \in Nat, n \in K
      PROVE  n + 1 \in K
  <2> SUFFICES ASSUME NEW t \in SUBSET U, NEW y \in t, Cardinality(t) = n + 1
               PROVE  g[t] = c[y] + g[t \ {y}]
    OBVIOUS
  <2> DEFINE z == Taken(t)
  <2>1. /\ z \in t /\ t \ {z} \in SUBSET U /\ Cardinality(t \ {z}) = n
    BY TakenRest
  <2>2. g[t] = c[z] + g[t \ {z}]
    BY DEF IsSum
  <2> HIDE DEF z
  <2>3. CASE z = y
    BY <2>2, <2>3
  <2>4. CASE z # y
    <3>1. y \in t \ {z} /\ z \in t \ {y} /\ t \ {y} \in SUBSET U
      BY <2>1, <2>4
    <3>2. Cardinality(t \ {y}) = n
      <4>1. IsFiniteSet(t)
        BY FS_Subset
      <4>2. Cardinality(t \ {y}) = Cardinality(t) - 1
        BY <4>1, FS_RemoveElement
      <4> QED
        BY <4>2
    <3>3. g[t \ {z}] = c[y] + g[(t \ {z}) \ {y}]
      BY <1>2, <2>1, <3>1
    <3>4. g[t \ {y}] = c[z] + g[(t \ {y}) \ {z}]
      BY <1>2, <3>1, <3>2
    <3>5. (t \ {y}) \ {z} = (t \ {z}) \ {y} /\ (t \ {z}) \ {y} \in SUBSET U
      OBVIOUS
    <3>6. g[(t \ {z}) \ {y}] \in Nat /\ c[y] \in Nat /\ c[z] \in Nat
      BY <2>1, <3>5
    <3> DEFINE rest == g[(t \ {z}) \ {y}]
    <3>7. g[t \ {y}] = c[z] + rest /\ g[t \ {z}] = c[y] + rest /\ rest \in Nat
      BY <3>3, <3>4, <3>5, <3>6
    <3> HIDE DEF rest
    <3> QED
      BY <2>2, <3>6, <3>7
  <2> QED
    BY <2>3, <2>4
<1>3. \A n \in Nat : n \in K
  <2> HIDE DEF K
  <2> QED
    BY <1>1, <1>2, SetInduction
<1>4. Cardinality(U) \in K
  BY <1>3, FS_CardinalityType
<1> QED
  BY <1>4

\* A sum of zeros.
LEMMA SumOfZeros ==
    ASSUME NEW U, IsFiniteSet(U), NEW c, NEW g, IsSum(g, U, c),
           \A x \in U : c[x] = 0
    PROVE  g[U] = 0
<1> DEFINE K == {n \in Nat : \A t \in SUBSET U : Cardinality(t) = n => g[t] = 0}
<1>1. 0 \in K
  <2>1. \A t \in SUBSET U : Cardinality(t) = 0 => t = {}
    BY FS_Subset, FS_EmptySet
  <2> QED
    BY <2>1 DEF IsSum
<1>2. ASSUME NEW n \in Nat, n \in K
      PROVE  n + 1 \in K
  <2> SUFFICES ASSUME NEW t \in SUBSET U, Cardinality(t) = n + 1
               PROVE  g[t] = 0
    OBVIOUS
  <2>1. t # {}
    BY FS_EmptySet
  <2>2. /\ Taken(t) \in t /\ t \ {Taken(t)} \in SUBSET U
        /\ Cardinality(t \ {Taken(t)}) = n
    BY <2>1, TakenRest
  <2>3. g[t \ {Taken(t)}] = 0 /\ c[Taken(t)] = 0
    BY <1>2, <2>2
  <2>4. g[t] = c[Taken(t)] + g[t \ {Taken(t)}]
    BY <2>1 DEF IsSum
  <2> QED
    BY <2>3, <2>4
<1>3. \A n \in Nat : n \in K
  <2> HIDE DEF K
  <2> QED
    BY <1>1, <1>2, SetInduction
<1>4. Cardinality(U) \in K
  BY <1>3, FS_CardinalityType
<1> QED
  BY <1>4

\* The counts of the slots U of the registry E, added up.
Total(E, U) == MapThenSumSet(LAMBDA s : E[s].count, U)

\* It is such a sum.
LEMMA TotalIsSum ==
    ASSUME NEW E, NEW U, IsFiniteSet(U), \A s \in U : E[s].count \in Nat
    PROVE  \E g \in [SUBSET U -> Nat] :
                IsSum(g, U, [s \in U |-> E[s].count]) /\ Total(E, U) = g[U]
<1> DEFINE c == [s \in U |-> E[s].count]
           Def(f) == [t \in SUBSET U |->
                        IF t = {} THEN 0
                        ELSE LET x == CHOOSE y \in t : TRUE
                             IN  E[x].count + f[t \ {x}]]
           iter == CHOOSE f : f = Def(f)
<1>1. Total(E, U) = iter[U]
  BY DEF Total, MapThenSumSet, MapThenFoldSet
<1>2. PICK g \in [SUBSET U -> Nat] : IsSum(g, U, c)
  <2>1. c \in [U -> Nat]
    OBVIOUS
  <2> HIDE DEF c
  <2> QED
    BY <2>1, SumExists
<1>3. g = Def(g)
  <2>1. ASSUME NEW t \in SUBSET U, t # {}
        PROVE  g[t] = E[Taken(t)].count + g[t \ {Taken(t)}]
    <3>1. Taken(t) \in U
      BY <2>1, TakenRest
    <3>2. c[Taken(t)] = E[Taken(t)].count
      BY <3>1
    <3> HIDE DEF c
    <3> QED
      BY <1>2, <2>1, <3>2 DEF IsSum
  <2>2. \A t \in SUBSET U : g[t] = Def(g)[t]
    BY <1>2, <2>1 DEF IsSum, Taken
  <2>3. g = [t \in SUBSET U |-> g[t]]
    BY <1>2
  <2> QED
    BY <2>2, <2>3
<1>4. iter = Def(iter)
  <2> HIDE DEF Def
  <2> QED
    BY <1>3
<1> HIDE DEF iter
<1>5. IsSum(iter, U, c)
  <2>1. iter[{}] = 0
    BY <1>4
  <2>2. ASSUME NEW t \in SUBSET U, t # {}
        PROVE  iter[t] = c[Taken(t)] + iter[t \ {Taken(t)}]
    <3>1. Taken(t) \in U
      BY <2>2, TakenRest
    <3>2. iter[t] = E[Taken(t)].count + iter[t \ {Taken(t)}]
      BY <1>4, <2>2 DEF Taken
    <3>3. c[Taken(t)] = E[Taken(t)].count
      BY <3>1
    <3> HIDE DEF c, Def
    <3> QED
      BY <3>2, <3>3
  <2> HIDE DEF c, Def
  <2> QED
    BY <2>1, <2>2 DEF IsSum
<1>6. iter[U] = g[U]
  <2> HIDE DEF c, Def
  <2>1. U \in SUBSET (U \cap U)
    OBVIOUS
  <2> QED
    BY <1>2, <1>5, <2>1, SumAgrees
<1> QED
  BY <1>1, <1>2, <1>6

\* g holds the counts of E, added up over any subset of U; any of the slots
\* can be taken out of the total first.
AddsUp(g, E, U) ==
    /\ g \in [SUBSET U -> Nat]
    /\ IsSum(g, U, [s \in U |-> E[s].count])
    /\ Total(E, U) = g[U]
    /\ \A x \in U : g[U] = E[x].count + g[U \ {x}]

\* There is such a function.
LEMMA TotalTakesAny ==
    ASSUME NEW E, NEW U, IsFiniteSet(U), \A s \in U : E[s].count \in Nat
    PROVE  \E g : AddsUp(g, E, U)
<1> DEFINE c == [s \in U |-> E[s].count]
<1>1. PICK g \in [SUBSET U -> Nat] : IsSum(g, U, c) /\ Total(E, U) = g[U]
  BY TotalIsSum
<1>2. c \in [U -> Nat] /\ \A x \in U : c[x] = E[x].count
  OBVIOUS
<1> HIDE DEF c
<1>3. \A x \in U : g[U] = c[x] + g[U \ {x}]
  BY <1>1, <1>2, SumTakesAny
<1>4. \A x \in U : g[U] = E[x].count + g[U \ {x}]
  BY <1>2, <1>3
<1> QED
  BY <1>1, <1>4 DEF c, AddsUp

-----------------------------------------------------------------------------
(* The inductive invariant.                                                *)

\* The figures of an entry lie between the weakest signal and its peak.
Plausible(e) ==
    /\ Rssi # {}
    /\ Min(Rssi) * e.count <= e.sum
    /\ e.sum <= e.peak * e.count

FiguresPlausible == \A s \in Slots : Used(s) => Plausible(entries[s])

\* An entry is active exactly when its device was heard in this window.
ActiveIsHeard ==
    \A s \in Slots : Used(s) => (Active(s) <=> entries[s].address \in heard)

\* An entry knows when its device was last heard.
SeenIsLastHeard ==
    /\ \A s \in Slots : Used(s) => entries[s].seen = lastHeard[entries[s].address]
    /\ \A a \in Addresses : lastHeard[a] <= now
    /\ purged <= now

\* A device on the air, or on the remembered list, is not an announced one.
AnnouncedAreSilent ==
    /\ \A s \in Slots : Active(s) => entries[s].address \notin announced
    /\ remembered \cap announced = {}

\* Without an eviction every device heard in this window is in the registry.
HeardAreKept ==
    \A a \in heard : evictions = 0 => \E s \in Slots : IsKnownAt(s, a) /\ Active(s)

Inv ==
    /\ TypeOK
    /\ UniqueAddresses
    /\ FiguresPlausible
    /\ ActiveIsHeard
    /\ SeenIsLastHeard
    /\ AnnouncedAreSilent

-----------------------------------------------------------------------------
(* Reports.                                                                *)

\* A report of a device has its figures in slot s, and nowhere else.
Recorded(a, s, e) ==
    /\ e \in DeviceEntry
    /\ e.address = a /\ e.seen = now /\ e.count > 0
    /\ Plausible(e)
    /\ entries' = [entries EXCEPT ![s] = e]
    /\ \A t \in Slots \ {s} : Used(t) => entries[t].address # a

\* An unused slot holds NoEntry, a used one an entry.
LEMMA SlotType ==
    ASSUME TypeOK, NEW s \in Slots
    PROVE  /\ Used(s) \in BOOLEAN
           /\ Used(s) => entries[s] \in DeviceEntry
           /\ ~Used(s) => entries[s] = NoEntry
<1>1. entries[s] \in DeviceEntry \/ entries[s] = NoEntry
  BY DEF TypeOK
<1>2. CASE entries[s] \in DeviceEntry
  <2>1. entries[s].used = TRUE
    BY <1>2 DEF DeviceEntry
  <2> QED
    BY <1>2, <2>1 DEF Used
<1>3. CASE entries[s] = NoEntry
  <2>1. entries[s].used = FALSE
    BY <1>3 DEF NoEntry
  <2> QED
    BY <1>3, <2>1 DEF Used
<1> QED
  BY <1>1, <1>2, <1>3

\* The entry made for an unknown device.
LEMMA NewEntryFigures ==
    ASSUME NEW a \in Addresses, NEW r \in Rssi, now \in Nat
    PROVE  /\ NewEntry(a, r) \in DeviceEntry
           /\ NewEntry(a, r).address = a /\ NewEntry(a, r).seen = now
           /\ NewEntry(a, r).count > 0
           /\ Plausible(NewEntry(a, r))
<1>1. r \in -128 .. 127
  BY ScannerAssumption
<1>2. Min(Rssi) \in Int /\ Min(Rssi) <= r
  BY WeakestRssi
<1>3. NoAverage \in Averages
  BY DEF Averages
<1>4. Plausible(NewEntry(a, r))
  BY <1>1, <1>2 DEF Plausible, NewEntry
<1> QED
  BY <1>1, <1>3, <1>4 DEF NewEntry, DeviceEntry

\* The arithmetic of one more report.
LEMMA OneMoreReport ==
    ASSUME NEW lo \in Int, NEW sum \in Int, NEW count \in Nat, NEW peak \in Int,
           NEW r \in Int, lo <= r, lo * count <= sum, sum <= peak * count,
           NEW top \in Int, peak <= top, r <= top
    PROVE  lo * (count + 1) <= sum + r /\ sum + r <= top * (count + 1)
<1>1. lo * (count + 1) = lo * count + lo /\ lo * count \in Int
  OBVIOUS
<1>2. top * (count + 1) = top * count + top /\ top * count \in Int
      /\ peak * count \in Int
  OBVIOUS
<1>3. peak * count <= top * count
  BY TimesMonotone
<1> QED
  BY <1>1, <1>2, <1>3

\* What record makes of the figures of a known device.
Added(e, r) ==
    [e EXCEPT !.sum = @ + r, !.count = @ + 1,
              !.peak = IF r > @ THEN r ELSE @, !.seen = now]

\* They stay plausible.
LEMMA AddedFigures ==
    ASSUME NEW e \in DeviceEntry, Plausible(e), NEW r \in Rssi, now \in Nat
    PROVE  /\ Added(e, r) \in DeviceEntry
           /\ Added(e, r).address = e.address /\ Added(e, r).seen = now
           /\ Added(e, r).count = e.count + 1
           /\ Plausible(Added(e, r))
<1>1. r \in -128 .. 127
  BY ScannerAssumption
<1>2. Min(Rssi) \in Int /\ Min(Rssi) <= r
  BY WeakestRssi
<1>3. e.sum \in Int /\ e.count \in Nat /\ e.peak \in -128 .. 127
  BY DEF DeviceEntry
<1> DEFINE sum == e.sum + r
           count == e.count + 1
           peak == IF r > e.peak THEN r ELSE e.peak
<1>4. sum \in Int /\ count \in Nat /\ peak \in -128 .. 127
  BY <1>1, <1>3
<1>5. e.peak <= peak /\ r <= peak
  BY <1>1, <1>3
<1>6. Added(e, r) = [e EXCEPT !.sum = sum, !.count = count, !.peak = peak,
                              !.seen = now]
  BY DEF Added
<1>7. Min(Rssi) * count <= sum /\ sum <= peak * count
  <2>1. Min(Rssi) * e.count <= e.sum /\ e.sum <= e.peak * e.count
    BY DEF Plausible
  <2>2. peak \in Int /\ r \in Int /\ e.peak \in Int
    BY <1>1, <1>3, <1>4
  <2> HIDE DEF peak
  <2> QED
    BY <1>2, <1>3, <1>5, <2>1, <2>2, OneMoreReport
<1> HIDE DEF sum, count, peak
<1>8. Added(e, r) \in [used : {TRUE}, address : {e.address},
                       previous : {e.previous}, sum : {sum}, count : {count},
                       peak : {peak}, seen : {now}]
  BY <1>6 DEF DeviceEntry
<1>9. e.address \in Addresses /\ e.previous \in Averages
  BY DEF DeviceEntry
<1>10. Added(e, r) \in DeviceEntry
  BY <1>4, <1>8, <1>9 DEF DeviceEntry
<1>11. /\ Added(e, r).sum = sum /\ Added(e, r).count = count
       /\ Added(e, r).peak = peak
       /\ Added(e, r).address = e.address /\ Added(e, r).seen = now
  BY <1>8
<1>12. Plausible(Added(e, r))
  BY <1>7, <1>11 DEF Plausible
<1> QED
  BY <1>10, <1>11, <1>12 DEF count

\* What record does to the slots, for a known device,
LEMMA KnownRecorded ==
    ASSUME Inv, NEW a \in Addresses, NEW r \in Rssi, RecordKnown(a, r)
    PROVE  \E s \in Slots, e \in DeviceEntry :
                /\ IsKnownAt(s, a) /\ Recorded(a, s, e)
                /\ e.count = entries[s].count + 1
<1>1. PICK s \in Slots :
        /\ IsKnownAt(s, a)
        /\ entries' = [entries EXCEPT ![s].sum = @ + r,
                                      ![s].count = @ + 1,
                                      ![s].peak = IF r > @ THEN r ELSE @,
                                      ![s].seen = now]
  BY DEF RecordKnown
<1>2. entries[s] \in DeviceEntry /\ Plausible(entries[s]) /\ now \in Nat
  BY <1>1, SlotType DEF Inv, TypeOK, IsKnownAt, FiguresPlausible
<1> DEFINE f == Added(entries[s], r)
<1>3. entries' = [entries EXCEPT ![s] = f]
  BY <1>1 DEF Inv, TypeOK, Added
<1>4. /\ f \in DeviceEntry
      /\ f.address = entries[s].address /\ f.seen = now
      /\ f.count = entries[s].count + 1
      /\ Plausible(f)
  BY <1>2, AddedFigures
<1> HIDE DEF f
<1>5. entries[s].address = a /\ entries[s].count \in Nat
  BY <1>1, <1>2 DEF IsKnownAt, DeviceEntry
<1>6. \A t \in Slots \ {s} : Used(t) => entries[t].address # a
  BY <1>1 DEF Inv, UniqueAddresses, IsKnownAt
<1>7. Recorded(a, s, f)
  BY <1>3, <1>4, <1>5, <1>6 DEF Recorded
<1> QED
  BY <1>1, <1>4, <1>7

\* for a new one with a free slot,
LEMMA NewRecorded ==
    ASSUME Inv, NEW a \in Addresses, NEW r \in Rssi, RecordNew(a, r)
    PROVE  \E s \in Slots, e \in DeviceEntry :
                ~Used(s) /\ Recorded(a, s, e) /\ e.count = 1
<1>1. PICK s \in Slots : /\ IsFirstFree(s)
                         /\ entries' = [entries EXCEPT ![s] = NewEntry(a, r)]
  BY DEF RecordNew
<1>2. Recorded(a, s, NewEntry(a, r))
  BY <1>1, NewEntryFigures DEF RecordNew, Recorded, Absent, IsKnownAt, Inv, TypeOK
<1>3. NewEntry(a, r).count = 1
  BY DEF NewEntry
<1> QED
  BY <1>1, <1>2, <1>3, NewEntryFigures DEF IsFirstFree, Inv, TypeOK

\* and for a new one that takes the slot heard of longest ago.
LEMMA EvictingRecorded ==
    ASSUME Inv, NEW a \in Addresses, NEW r \in Rssi, RecordEvicting(a, r)
    PROVE  \E s \in Slots, e \in DeviceEntry :
                /\ IsOldest(s) /\ Recorded(a, s, e) /\ e.count = 1
                /\ forgotten' = forgotten + entries[s].count
<1>1. PICK s \in Slots : /\ IsOldest(s)
                         /\ entries' = [entries EXCEPT ![s] = NewEntry(a, r)]
                         /\ forgotten' = forgotten + entries[s].count
  BY DEF RecordEvicting
<1>2. Recorded(a, s, NewEntry(a, r))
  BY <1>1, NewEntryFigures
     DEF RecordEvicting, Recorded, Absent, IsKnownAt, Inv, TypeOK
<1>3. NewEntry(a, r).count = 1
  BY DEF NewEntry
<1> QED
  BY <1>1, <1>2, <1>3, NewEntryFigures DEF Inv, TypeOK

\* A recorded report of a device, whatever slot it went to, keeps the
\* invariant.
LEMMA RecordedKeepsInv ==
    ASSUME Inv, NEW a \in Addresses, NEW s \in Slots, NEW e \in DeviceEntry,
           Recorded(a, s, e), Heard(a), UNCHANGED <<now, remembered>>,
           UNCHANGED <<phase, deadline>>,
           reports' \in Nat, evictions' \in Nat, malformed' \in Nat,
           forgotten' \in Nat
    PROVE  Inv'
<1>1. /\ entries' \in [Slots -> DeviceEntry \cup {NoEntry}]
      /\ entries'[s] = e
      /\ \A t \in Slots \ {s} : entries'[t] = entries[t]
  BY DEF Inv, TypeOK, Recorded
<1>2. /\ lastHeard' \in [Addresses -> Nat \cup {-1}]
      /\ lastHeard'[a] = now
      /\ \A b \in Addresses \ {a} : lastHeard'[b] = lastHeard[b]
  BY DEF Inv, TypeOK, Heard
<1>3. e.used = TRUE /\ e.address = a /\ e.seen = now /\ e.count > 0
  BY DEF Recorded, DeviceEntry
<1>4. TypeOK'
  BY <1>1, <1>2 DEF Inv, TypeOK, Heard
<1>5. /\ Used(s)' /\ Active(s)'
      /\ \A t \in Slots \ {s} : (Used(t)' <=> Used(t)) /\ (Active(t)' <=> Active(t))
  BY <1>1, <1>3 DEF Used, Active
<1>6. \A t \in Slots \ {s} : Used(t) => entries[t].address \in Addresses \ {a}
  <2> SUFFICES ASSUME NEW t \in Slots \ {s}, Used(t)
               PROVE  entries[t].address \in Addresses \ {a}
    OBVIOUS
  <2>1. entries[t] \in DeviceEntry
    BY SlotType DEF Inv
  <2> QED
    BY <2>1 DEF Recorded, DeviceEntry
<1>7. UniqueAddresses'
  <2> SUFFICES ASSUME NEW t \in Slots, NEW u \in Slots, Used(t)', Used(u)',
                      entries'[t].address = entries'[u].address
               PROVE  t = u
    BY DEF UniqueAddresses
  <2>1. CASE t = s /\ u # s
    BY <1>1, <1>3, <1>5, <1>6, <2>1
  <2>2. CASE t # s /\ u = s
    BY <1>1, <1>3, <1>5, <1>6, <2>2
  <2>3. CASE t # s /\ u # s
    BY <1>1, <1>5, <2>3 DEF Inv, UniqueAddresses
  <2> QED
    BY <2>1, <2>2, <2>3
<1>8. FiguresPlausible'
  <2> SUFFICES ASSUME NEW t \in Slots, Used(t)'
               PROVE  Plausible(entries'[t])
    BY DEF FiguresPlausible, Plausible
  <2>1. CASE t = s
    BY <1>1, <2>1 DEF Recorded
  <2>2. CASE t # s
    BY <1>1, <1>5, <2>2 DEF Inv, FiguresPlausible
  <2> QED
    BY <2>1, <2>2
<1>9. ActiveIsHeard'
  <2> SUFFICES ASSUME NEW t \in Slots, Used(t)'
               PROVE  Active(t)' <=> entries'[t].address \in heard'
    BY DEF ActiveIsHeard
  <2>1. heard' = heard \cup {a}
    BY DEF Heard
  <2>2. CASE t = s
    BY <1>1, <1>3, <1>5, <2>1, <2>2
  <2>3. CASE t # s
    BY <1>1, <1>5, <1>6, <2>1, <2>3 DEF Inv, ActiveIsHeard
  <2> QED
    BY <2>2, <2>3
<1>10. SeenIsLastHeard'
  <2>1. \A t \in Slots : Used(t)' => entries'[t].seen = lastHeard'[entries'[t].address]
    <3> SUFFICES ASSUME NEW t \in Slots, Used(t)'
                 PROVE  entries'[t].seen = lastHeard'[entries'[t].address]
      OBVIOUS
    <3>1. CASE t = s
      BY <1>1, <1>2, <1>3, <3>1
    <3>2. CASE t # s
      BY <1>1, <1>2, <1>5, <1>6, <3>2 DEF Inv, SeenIsLastHeard
    <3> QED
      BY <3>1, <3>2
  <2>2. \A b \in Addresses : lastHeard'[b] <= now
    BY <1>2 DEF Inv, TypeOK, SeenIsLastHeard
  <2> QED
    BY <2>1, <2>2 DEF SeenIsLastHeard, Inv, Heard
<1>11. AnnouncedAreSilent'
  <2>1. announced' = announced \ {a}
    BY DEF Heard
  <2>2. ASSUME NEW t \in Slots, Active(t)'
        PROVE  entries'[t].address \notin announced'
    <3>1. CASE t = s
      BY <1>1, <1>3, <2>1, <3>1
    <3>2. CASE t # s
      BY <1>1, <1>5, <2>1, <2>2, <3>2 DEF Inv, AnnouncedAreSilent
    <3> QED
      BY <3>1, <3>2
  <2>3. remembered' \cap announced' = {}
    BY <2>1 DEF Inv, AnnouncedAreSilent
  <2> QED
    BY <2>2, <2>3 DEF AnnouncedAreSilent
<1> QED
  BY <1>4, <1>7, <1>8, <1>9, <1>10, <1>11 DEF Inv

-----------------------------------------------------------------------------
(* The snapshot.                                                           *)

\* What print_snapshot leaves of an entry it keeps.
LEMMA RolledFigures ==
    ASSUME Inv, NEW s \in NotStale
    PROVE  /\ Rolled(s) \in DeviceEntry
           /\ Rolled(s).address = entries[s].address
           /\ Rolled(s).seen = entries[s].seen
           /\ Rolled(s).count = 0
           /\ Plausible(Rolled(s))
<1> DEFINE e == entries[s]
           previous == IF e.count > 0 THEN window_average(e) ELSE e.previous
<1>1. e \in DeviceEntry /\ Plausible(e)
  BY SlotType DEF Inv, NotStale, FiguresPlausible
<1>2. Min(Rssi) \in -128 .. 127
  BY <1>1, WeakestRssi DEF Plausible
<1>3. /\ e.address \in Addresses /\ e.previous \in Averages /\ e.seen \in Nat
      /\ e.sum \in Int /\ e.count \in Nat /\ e.peak \in -128 .. 127
  BY <1>1 DEF DeviceEntry
<1>4. previous \in Averages
  <2>1. CASE e.count > 0
    <3>1. Min(Rssi) * e.count <= e.sum /\ e.sum <= e.peak * e.count
      BY <1>1 DEF Plausible
    <3>2. e.count \in Nat \ {0} /\ Min(Rssi) \in Int /\ e.peak \in Int
      BY <1>2, <1>3, <2>1
    <3>3. /\ Quotient(e.sum, e.count) \in Int
          /\ Min(Rssi) <= Quotient(e.sum, e.count)
          /\ Quotient(e.sum, e.count) <= e.peak
      <4> HIDE DEF e
      <4> QED
        BY <1>3, <3>1, <3>2, QuotientBetween
    <3>4. Quotient(e.sum, e.count) \in -128 .. 127
      BY <1>2, <1>3, <3>3
    <3> QED
      BY <2>1, <3>4, <1>3 DEF window_average, Averages
  <2>2. CASE ~(e.count > 0)
    BY <1>3, <2>2
  <2> QED
    BY <2>1, <2>2
<1>5. Rolled(s) = [e EXCEPT !.previous = previous, !.sum = 0, !.count = 0,
                            !.peak = -128]
  BY DEF Rolled
<1> HIDE DEF e, previous
<1>6. Rolled(s) \in [used : {TRUE}, address : {e.address},
                     previous : {previous}, sum : {0}, count : {0},
                     peak : {-128}, seen : {e.seen}]
  BY <1>1, <1>5 DEF DeviceEntry
<1>7. Rolled(s) \in DeviceEntry
  <2>1. 0 \in Int /\ 0 \in Nat /\ -128 \in -128 .. 127
    OBVIOUS
  <2> QED
    BY <1>3, <1>4, <1>6, <2>1, Zenon DEF DeviceEntry
<1>8. /\ Rolled(s).sum = 0 /\ Rolled(s).count = 0 /\ Rolled(s).peak = -128
      /\ Rolled(s).address = e.address /\ Rolled(s).seen = e.seen
  BY <1>6
<1>9. Plausible(Rolled(s))
  <2>1. Min(Rssi) * 0 = 0 /\ (-128) * 0 = 0
    BY <1>2
  <2> QED
    BY <1>1, <1>8, <2>1 DEF Plausible
<1> QED
  BY <1>7, <1>8, <1>9 DEF e

\* The slots after a snapshot.
LEMMA SnapshotSlots ==
    ASSUME Inv, WindowElapsed
    PROVE  /\ entries' \in [Slots -> DeviceEntry \cup {NoEntry}]
           /\ \A s \in Slots :
                /\ Used(s)' <=> s \in NotStale
                /\ s \in NotStale => entries'[s] = Rolled(s)
                /\ ~Active(s)'
<1>1. entries' = [s \in Slots |-> IF s \in NotStale THEN Rolled(s) ELSE NoEntry]
  BY DEF WindowElapsed, print_snapshot
<1>2. entries' \in [Slots -> DeviceEntry \cup {NoEntry}]
  BY <1>1, RolledFigures
<1>3. ASSUME NEW s \in Slots
      PROVE  /\ Used(s)' <=> s \in NotStale
             /\ s \in NotStale => entries'[s] = Rolled(s)
             /\ ~Active(s)'
  <2>1. CASE s \in NotStale
    <3>1. entries'[s] = Rolled(s)
      BY <1>1, <2>1
    <3>2. Rolled(s).used = TRUE /\ Rolled(s).count = 0
      BY <2>1, RolledFigures DEF DeviceEntry
    <3> QED
      BY <2>1, <3>1, <3>2 DEF Used, Active
  <2>2. CASE s \notin NotStale
    <3>1. entries'[s] = NoEntry
      BY <1>1, <2>2
    <3>2. entries'[s].used = FALSE
      BY <3>1 DEF NoEntry
    <3> QED
      BY <2>2, <3>2 DEF Used, Active
  <2> QED
    BY <2>1, <2>2
<1> QED
  BY <1>2, <1>3

\* The snapshot keeps the invariant.
LEMMA SnapshotKeepsInv ==
    ASSUME Inv, WindowElapsed
    PROVE  Inv'
<1>1. PICK T \in SUBSET Shown : remembered' = {entries[s].address : s \in T}
  BY DEF WindowElapsed, print_snapshot
<1>2. \A s \in Shown : s \in Slots /\ Active(s) /\ entries[s].address \in Addresses
  <2> SUFFICES ASSUME NEW s \in Shown
               PROVE  s \in Slots /\ Active(s) /\ entries[s].address \in Addresses
    OBVIOUS
  <2>1. s \in Slots /\ Used(s) /\ entries[s].count > 0
    BY DEF Shown, NotStale
  <2>2. entries[s] \in DeviceEntry
    BY <2>1, SlotType DEF Inv
  <2> QED
    BY <2>1, <2>2 DEF Active, DeviceEntry
<1>3. remembered' \subseteq Addresses
  BY <1>1, <1>2
<1>4. TypeOK'
  BY <1>3, SnapshotSlots
     DEF WindowElapsed, print_snapshot, Inv, TypeOK, Lost
<1>5. \A s \in Slots : Used(s)' =>
        /\ Used(s)
        /\ entries'[s].address = entries[s].address
        /\ entries'[s].seen = entries[s].seen
        /\ Plausible(entries'[s])
  BY SnapshotSlots, RolledFigures DEF NotStale
<1>6. UniqueAddresses'
  BY <1>5 DEF Inv, UniqueAddresses
<1>7. FiguresPlausible'
  BY <1>5 DEF FiguresPlausible, Plausible
<1>8. ActiveIsHeard'
  BY SnapshotSlots DEF ActiveIsHeard, WindowElapsed
<1>9. SeenIsLastHeard'
  <2>1. now \in Nat /\ purged' = now /\ UNCHANGED <<now, lastHeard>>
    BY DEF WindowElapsed, Inv, TypeOK
  <2> QED
    BY <1>5, <2>1 DEF SeenIsLastHeard, Inv
<1>10. AnnouncedAreSilent'
  <2>1. announced' = announced \cup Lost
    BY DEF WindowElapsed
  <2>2. ASSUME NEW s \in T
        PROVE  entries[s].address \notin announced'
    <3>1. s \in Shown /\ Active(s) /\ s \in Slots
      BY <1>2
    <3>2. entries[s].address \notin Lost
      BY <3>1 DEF Lost
    <3>3. entries[s].address \notin announced
      BY <3>1 DEF Inv, AnnouncedAreSilent
    <3> QED
      BY <2>1, <3>2, <3>3
  <2>3. remembered' \cap announced' = {}
    BY <1>1, <2>2
  <2> QED
    BY <2>3, SnapshotSlots DEF AnnouncedAreSilent
<1> QED
  BY <1>4, <1>6, <1>7, <1>8, <1>9, <1>10 DEF Inv

-----------------------------------------------------------------------------
(* Every step.                                                             *)

\* The steps that touch neither the registry nor its history.
Elsewhere == Tick \/ ScanStarted \/ ScanFailed \/ RetryElapsed

\* They keep the invariant.
LEMMA ElsewhereKeepsInv ==
    ASSUME Inv, Elsewhere
    PROVE  Inv'
<1>1. UNCHANGED <<registry, history>> /\ now' \in Nat /\ now <= now'
  BY DEF Elsewhere, Tick, ScanStarted, ScanFailed, RetryElapsed, Inv, TypeOK
<1>2. phase' \in {"starting", "scanning", "retrying"} /\ deadline' \in Nat
  BY ScannerAssumption
     DEF Elsewhere, Tick, ScanStarted, ScanFailed, RetryElapsed, Inv, TypeOK
<1> USE <1>1 DEF registry, history
<1>3. TypeOK'
  BY <1>2 DEF Inv, TypeOK
<1>4. UniqueAddresses'
  BY DEF Inv, UniqueAddresses, Used
<1>5. FiguresPlausible'
  BY DEF Inv, FiguresPlausible, Used, Plausible
<1>6. ActiveIsHeard'
  BY DEF Inv, ActiveIsHeard, Used, Active
<1>7. SeenIsLastHeard'
  BY DEF Inv, TypeOK, SeenIsLastHeard, Used
<1>8. AnnouncedAreSilent'
  BY DEF Inv, AnnouncedAreSilent, Used, Active
<1> QED
  BY <1>3, <1>4, <1>5, <1>6, <1>7, <1>8 DEF Inv

\* A report the registry cannot decode.
LEMMA MalformedKeepsInv ==
    ASSUME Inv, RecordMalformed \/ UNCHANGED vars
    PROVE  Inv'
<1>1. UNCHANGED <<now, phase, deadline, entries, remembered, reports, evictions,
                  history>> /\ malformed' \in Nat
  BY DEF RecordMalformed, vars, registry, Inv, TypeOK
<1> USE <1>1 DEF history
<1>3. TypeOK'
  BY DEF Inv, TypeOK
<1>4. UniqueAddresses'
  BY DEF Inv, UniqueAddresses, Used
<1>5. FiguresPlausible'
  BY DEF Inv, FiguresPlausible, Used, Plausible
<1>6. ActiveIsHeard'
  BY DEF Inv, ActiveIsHeard, Used, Active
<1>7. SeenIsLastHeard'
  BY DEF Inv, SeenIsLastHeard, Used
<1>8. AnnouncedAreSilent'
  BY DEF Inv, AnnouncedAreSilent, Used, Active
<1> QED
  BY <1>3, <1>4, <1>5, <1>6, <1>7, <1>8 DEF Inv

\* The invariant holds of every behaviour.
LEMMA Invariance == Spec => []Inv
<1>1. Init => Inv
  <2> SUFFICES ASSUME Init
               PROVE  Inv
    OBVIOUS
  <2>1. \A s \in Slots : entries[s] = NoEntry /\ ~Used(s) /\ ~Active(s)
    BY DEF Init, NoEntry, Used, Active
  <2>2. TypeOK
    BY DEF Init, TypeOK
  <2> QED
    BY <2>1, <2>2 DEF Init, Inv, UniqueAddresses, FiguresPlausible, ActiveIsHeard,
                      SeenIsLastHeard, AnnouncedAreSilent
<1>2. Inv /\ [Next]_vars => Inv'
  <2> SUFFICES ASSUME Inv, [Next]_vars
               PROVE  Inv'
    OBVIOUS
  <2>1. CASE Elsewhere
    BY <2>1, ElsewhereKeepsInv
  <2>2. ASSUME NEW a \in Addresses, NEW r \in Rssi, RecordKnown(a, r)
        PROVE  Inv'
    <3>1. PICK s \in Slots, e \in DeviceEntry : Recorded(a, s, e)
      BY <2>2, KnownRecorded
    <3> QED
      BY <2>2, <3>1, RecordedKeepsInv DEF RecordKnown, Inv, TypeOK
  <2>3. ASSUME NEW a \in Addresses, NEW r \in Rssi, RecordNew(a, r)
        PROVE  Inv'
    <3>1. PICK s \in Slots, e \in DeviceEntry : Recorded(a, s, e)
      BY <2>3, NewRecorded
    <3> QED
      BY <2>3, <3>1, RecordedKeepsInv DEF RecordNew, Inv, TypeOK
  <2>4. ASSUME NEW a \in Addresses, NEW r \in Rssi, RecordEvicting(a, r)
        PROVE  Inv'
    <3>1. PICK s \in Slots, e \in DeviceEntry :
            Recorded(a, s, e) /\ forgotten' = forgotten + entries[s].count
      BY <2>4, EvictingRecorded
    <3>2. entries[s].count \in Nat
      BY <2>4, SlotType DEF RecordEvicting, Inv, DeviceEntry
    <3> QED
      BY <2>4, <3>1, <3>2, RecordedKeepsInv DEF RecordEvicting, Inv, TypeOK
  <2>5. CASE WindowElapsed
    BY <2>5, SnapshotKeepsInv
  <2> QED
    BY <2>1, <2>2, <2>3, <2>4, <2>5, MalformedKeepsInv
       DEF Next, on_adv_reports, Elsewhere
<1> QED
  BY <1>1, <1>2, PTL DEF Spec

-----------------------------------------------------------------------------
(* What follows from it.                                                   *)

\* Every variable keeps its type: the remembered average is one of an i8, and
\* no step leaves a half-made entry in a slot.
THEOREM RegistryTypeCorrect == Spec => []TypeOK
<1>1. Inv => TypeOK
  BY DEF Inv
<1> QED
  BY <1>1, Invariance, PTL

\* No device ever occupies two slots, for every capacity and any number of
\* advertisers.
THEOREM RegistryUnique == Spec => []UniqueAddresses
<1>1. Inv => UniqueAddresses
  BY DEF Inv
<1> QED
  BY <1>1, Invariance, PTL

\* The figures of an entry are those of the window being scanned, and its
\* average, rounded the way Rust divides, lies between the weakest signal and
\* the peak.
THEOREM RegistryFigures == Spec => []FiguresOfThisWindow
<1>1. Inv => FiguresOfThisWindow
  <2> SUFFICES ASSUME Inv, NEW s \in Slots, Used(s), Active(s)
               PROVE  /\ Min(Rssi) <= window_average(entries[s])
                      /\ window_average(entries[s]) <= entries[s].peak
    BY DEF Inv, FiguresOfThisWindow, ActiveIsHeard
  <2> DEFINE e == entries[s]
  <2>1. e \in DeviceEntry /\ Plausible(e)
    BY SlotType DEF Inv, FiguresPlausible
  <2>2. Min(Rssi) \in Int
    BY <2>1, WeakestRssi DEF Plausible
  <2>3. e.sum \in Int /\ e.count \in Nat \ {0} /\ e.peak \in Int
    <3>1. e.sum \in Int /\ e.count \in Nat /\ e.peak \in -128 .. 127
      BY <2>1 DEF DeviceEntry
    <3>2. e.count > 0
      BY DEF Active
    <3> QED
      BY <3>1, <3>2
  <2>4. Min(Rssi) * e.count <= e.sum /\ e.sum <= e.peak * e.count
    BY <2>1 DEF Plausible
  <2> HIDE DEF e
  <2>5. Min(Rssi) <= Quotient(e.sum, e.count) /\ Quotient(e.sum, e.count) <= e.peak
    BY <2>2, <2>3, <2>4, QuotientBetween
  <2> QED
    BY <2>3, <2>5 DEF window_average, e
<1> QED
  BY <1>1, Invariance, PTL

\* A device that falls silent is announced as lost once.
THEOREM LossAnnouncedOnce == Spec => AnnouncedOnce
<1>1. Inv /\ [Next]_vars => [WindowElapsed => Lost \cap announced = {}]_vars
  <2> SUFFICES ASSUME Inv
               PROVE  Lost \cap announced = {}
    OBVIOUS
  <2> QED
    BY DEF Inv, AnnouncedAreSilent, Lost
<1> QED
  BY <1>1, Invariance, PTL DEF Spec, AnnouncedOnce

\* Each step keeps HeardAreKept: only an eviction takes an entry of this
\* window away, and it is counted until the window ends.
LEMMA StepKeepsHeard ==
    ASSUME Inv, HeardAreKept, [Next]_vars
    PROVE  HeardAreKept'
<1>1. ASSUME NEW a \in Addresses, NEW s \in Slots, NEW e \in DeviceEntry,
             Recorded(a, s, e), Heard(a), ~Used(s) \/ IsKnownAt(s, a),
             UNCHANGED evictions
      PROVE  HeardAreKept'
  <2> SUFFICES ASSUME NEW b \in heard', evictions' = 0
               PROVE  \E t \in Slots : IsKnownAt(t, b)' /\ Active(t)'
    BY DEF HeardAreKept
  <2>1. /\ entries'[s] = e
        /\ \A t \in Slots \ {s} : entries'[t] = entries[t]
    BY <1>1 DEF Inv, TypeOK, Recorded
  <2>2. e.used = TRUE /\ e.address = a /\ e.count > 0
    BY <1>1 DEF Recorded, DeviceEntry
  <2>3. IsKnownAt(s, a)' /\ Active(s)'
    BY <2>1, <2>2 DEF IsKnownAt, Active, Used
  <2>4. CASE b = a
    BY <2>3, <2>4
  <2>5. CASE b # a
    <3>1. b \in heard
      BY <1>1, <2>5 DEF Heard
    <3>2. PICK t \in Slots : IsKnownAt(t, b) /\ Active(t)
      BY <1>1, <3>1 DEF HeardAreKept
    <3>3. t # s
      BY <1>1, <2>5, <3>2 DEF IsKnownAt
    <3> QED
      BY <2>1, <3>2, <3>3 DEF IsKnownAt, Active, Used
  <2> QED
    BY <2>4, <2>5
<1>2. ASSUME NEW a \in Addresses, NEW r \in Rssi, RecordKnown(a, r)
      PROVE  HeardAreKept'
  BY <1>1, <1>2, KnownRecorded DEF RecordKnown
<1>3. ASSUME NEW a \in Addresses, NEW r \in Rssi, RecordNew(a, r)
      PROVE  HeardAreKept'
  BY <1>1, <1>3, NewRecorded DEF RecordNew
<1>4. ASSUME NEW a \in Addresses, NEW r \in Rssi, RecordEvicting(a, r)
      PROVE  HeardAreKept'
  <2>1. evictions' # 0
    BY <1>4 DEF RecordEvicting, Inv, TypeOK
  <2> QED
    BY <2>1 DEF HeardAreKept
<1>5. CASE WindowElapsed
  BY <1>5 DEF WindowElapsed, HeardAreKept
<1>6. CASE Elsewhere \/ RecordMalformed \/ UNCHANGED vars
  <2>1. UNCHANGED <<heard, entries, evictions>>
    BY <1>6 DEF Elsewhere, Tick, ScanStarted, ScanFailed, RetryElapsed,
                RecordMalformed, registry, history, vars
  <2> QED
    BY <2>1 DEF HeardAreKept, IsKnownAt, Active, Used
<1> QED
  BY <1>2, <1>3, <1>4, <1>5, <1>6 DEF Next, on_adv_reports, Elsewhere

-----------------------------------------------------------------------------
(* The registry as a least-recently-heard cache.                           *)

\* The devices heard no earlier than a.
NoEarlier(a) == {b \in Addresses \ {a} : lastHeard[b] >= lastHeard[a]}

\* What is known of them grows with every report of another device.
LEMMA NoEarlierGrows ==
    ASSUME Inv, NEW a \in Addresses, NEW b \in Addresses, b # a, Heard(b),
           UNCHANGED now
    PROVE  /\ lastHeard'[a] = lastHeard[a]
           /\ Cardinality(NoEarlier(a)) <= Cardinality(NoEarlier(a)')
           /\ Cardinality(NoEarlier(a)) \in Nat /\ Cardinality(NoEarlier(a)') \in Nat
<1>1. /\ lastHeard'[b] = now
      /\ \A c \in Addresses \ {b} : lastHeard'[c] = lastHeard[c]
      /\ lastHeard \in [Addresses -> Nat \cup {-1}]
      /\ \A c \in Addresses : lastHeard[c] <= now
  BY DEF Inv, TypeOK, Heard, SeenIsLastHeard
<1>2. NoEarlier(a) \subseteq NoEarlier(a)' /\ NoEarlier(a)' \subseteq Addresses
  BY <1>1 DEF NoEarlier
<1>3. IsFiniteSet(Addresses)
  BY ScannerAssumption
<1>4. IsFiniteSet(NoEarlier(a)') /\ IsFiniteSet(NoEarlier(a))
  BY <1>2, <1>3, FS_Subset
<1>5. Cardinality(NoEarlier(a)) <= Cardinality(NoEarlier(a)')
  BY <1>2, <1>4, FS_Subset
<1> QED
  BY <1>1, <1>4, <1>5, FS_CardinalityType

\* The device whose entry is evicted leaves a registry full of devices heard
\* no earlier than itself.
LEMMA EvictedIsOldest ==
    ASSUME Inv, NEW a \in Addresses, NEW s \in Slots, NEW e \in DeviceEntry,
           Recorded(a, s, e), Heard(a), UNCHANGED now,
           \A t \in Slots : Used(t), IsOldest(s), Absent(a),
           NEW w, w = entries[s].address
    PROVE  Cardinality(NoEarlier(w)') >= Capacity
<1>1. /\ entries'[s] = e
      /\ \A t \in Slots \ {s} : entries'[t] = entries[t]
      /\ e.address = a
  BY DEF Inv, TypeOK, Recorded
<1>2. \A t \in Slots : entries[t].address \in Addresses
  <2> SUFFICES ASSUME NEW t \in Slots
               PROVE  entries[t].address \in Addresses
    OBVIOUS
  <2>1. entries[t] \in DeviceEntry
    BY SlotType DEF Inv
  <2> QED
    BY <2>1 DEF DeviceEntry
<1>3. w \in Addresses /\ w # a
  BY <1>2 DEF Absent, IsKnownAt
<1>4. /\ lastHeard'[a] = now
      /\ \A c \in Addresses \ {a} : lastHeard'[c] = lastHeard[c]
      /\ \A c \in Addresses : lastHeard[c] <= now
  BY DEF Inv, TypeOK, Heard, SeenIsLastHeard
<1>5. ASSUME NEW t \in Slots \ {s}
      PROVE  entries[t].address \in NoEarlier(w)' /\ entries[t].address # a
  <2>1. entries[t].address # a /\ entries[t].address # w
    BY DEF Absent, IsKnownAt, Inv, UniqueAddresses
  <2>2. lastHeard[w] <= lastHeard[entries[t].address]
    BY DEF IsOldest, Inv, SeenIsLastHeard
  <2>3. lastHeard[w] \in Int /\ lastHeard[entries[t].address] \in Int
    BY <1>2, <1>3 DEF Inv, TypeOK
  <2> QED
    BY <1>2, <1>3, <1>4, <2>1, <2>2, <2>3 DEF NoEarlier
<1>6. a \in NoEarlier(w)'
  <2>1. lastHeard[w] \in Int /\ now \in Int
    BY <1>3 DEF Inv, TypeOK
  <2> QED
    BY <1>3, <1>4, <2>1 DEF NoEarlier
<1> DEFINE f == [t \in Slots |-> IF t = s THEN a ELSE entries[t].address]
<1>7. f \in [Slots -> NoEarlier(w)']
  BY <1>5, <1>6
<1>8. \A t, u \in Slots : f[t] = f[u] => t = u
  BY <1>5 DEF Inv, UniqueAddresses
<1>9. f \in Injection(Slots, NoEarlier(w)')
  <2> HIDE DEF f
  <2> QED
    BY <1>7, <1>8 DEF Injection, IsInjective
<1>10. IsFiniteSet(NoEarlier(w)')
  <2>1. NoEarlier(w)' \subseteq Addresses
    BY DEF NoEarlier
  <2> QED
    BY <2>1, ScannerAssumption, FS_Subset
<1>11. Cardinality(Slots) = Capacity
  BY ScannerAssumption, FS_Interval DEF Slots
<1>12. Cardinality(Slots) <= Cardinality(NoEarlier(w)')
  BY <1>9, <1>10, FS_Injection
<1>13. Cardinality(NoEarlier(w)') \in Nat
  BY <1>10, FS_CardinalityType
<1> QED
  BY <1>11, <1>12, <1>13, ScannerAssumption

\* ForgetsOldestFirst, with the name above.
LEMMA ForgetsRestated ==
    ForgetsOldestFirst
        <=> \A a \in Addresses :
                (lastHeard[a] # -1 /\ purged - lastHeard[a] <= StaleTicks /\ Absent(a))
                    => Cardinality(NoEarlier(a)) >= Capacity
BY DEF ForgetsOldestFirst, NoEarlier

\* Each step forgets the device heard longest ago, or a stale one.
LEMMA StepForgetsOldest ==
    ASSUME Inv, ForgetsOldestFirst, [Next]_vars
    PROVE  ForgetsOldestFirst'
<1> SUFFICES ASSUME NEW a \in Addresses, lastHeard'[a] # -1,
                    purged' - lastHeard'[a] <= StaleTicks, Absent(a)'
             PROVE  Cardinality(NoEarlier(a)') >= Capacity
  BY DEF ForgetsOldestFirst, NoEarlier
<1>0. (lastHeard[a] # -1 /\ purged - lastHeard[a] <= StaleTicks /\ Absent(a))
        => Cardinality(NoEarlier(a)) >= Capacity
  BY ForgetsRestated
<1>1. ASSUME NEW b \in Addresses, NEW s \in Slots, NEW e \in DeviceEntry,
             Recorded(b, s, e), Heard(b), UNCHANGED now
      PROVE  /\ b # a
             /\ Absent(a) => Cardinality(NoEarlier(a)') >= Capacity
             /\ ~Absent(a) => IsKnownAt(s, a)
  <2>1. /\ entries'[s] = e
        /\ \A t \in Slots \ {s} : entries'[t] = entries[t]
        /\ e.address = b /\ e.used = TRUE
    BY <1>1 DEF Inv, TypeOK, Recorded, DeviceEntry
  <2>2. b # a
    BY <2>1 DEF Absent, IsKnownAt, Used
  <2>3. ~Absent(a) => IsKnownAt(s, a)
    BY <2>1 DEF Absent, IsKnownAt, Used
  <2>4. ASSUME Absent(a)
        PROVE  Cardinality(NoEarlier(a)') >= Capacity
    <3>1. /\ lastHeard'[a] = lastHeard[a]
          /\ Cardinality(NoEarlier(a)) <= Cardinality(NoEarlier(a)')
          /\ Cardinality(NoEarlier(a)) \in Nat /\ Cardinality(NoEarlier(a)') \in Nat
      BY <1>1, <2>2, NoEarlierGrows
    <3>2. purged' = purged
      BY <1>1 DEF Heard
    <3>3. Cardinality(NoEarlier(a)) >= Capacity
      BY <1>0, <2>4, <3>1, <3>2
    <3> QED
      BY <3>1, <3>3, ScannerAssumption
  <2> QED
    BY <2>2, <2>3, <2>4
<1>2. ASSUME NEW b \in Addresses, NEW r \in Rssi, RecordKnown(b, r)
      PROVE  Cardinality(NoEarlier(a)') >= Capacity
  <2>1. PICK s \in Slots, e \in DeviceEntry : IsKnownAt(s, b) /\ Recorded(b, s, e)
    BY <1>2, KnownRecorded
  <2>2. ~IsKnownAt(s, a) /\ (Absent(a) => Cardinality(NoEarlier(a)') >= Capacity)
        /\ (~Absent(a) => IsKnownAt(s, a))
    BY <1>1, <1>2, <2>1 DEF RecordKnown, IsKnownAt
  <2> QED
    BY <2>2
<1>3. ASSUME NEW b \in Addresses, NEW r \in Rssi, RecordNew(b, r)
      PROVE  Cardinality(NoEarlier(a)') >= Capacity
  <2>1. PICK s \in Slots, e \in DeviceEntry : ~Used(s) /\ Recorded(b, s, e)
    BY <1>3, NewRecorded
  <2>2. ~IsKnownAt(s, a) /\ (Absent(a) => Cardinality(NoEarlier(a)') >= Capacity)
        /\ (~Absent(a) => IsKnownAt(s, a))
    BY <1>1, <1>3, <2>1 DEF RecordNew, IsKnownAt
  <2> QED
    BY <2>2
<1>4. ASSUME NEW b \in Addresses, NEW r \in Rssi, RecordEvicting(b, r)
      PROVE  Cardinality(NoEarlier(a)') >= Capacity
  <2>1. PICK s \in Slots, e \in DeviceEntry : IsOldest(s) /\ Recorded(b, s, e)
    BY <1>4, EvictingRecorded
  <2>2. Heard(b) /\ UNCHANGED now /\ Absent(b) /\ \A t \in Slots : Used(t)
    BY <1>4 DEF RecordEvicting
  <2>3. CASE Absent(a)
    BY <1>1, <2>1, <2>2, <2>3
  <2>4. CASE ~Absent(a)
    <3>1. a = entries[s].address
      BY <1>1, <2>1, <2>2, <2>4 DEF IsKnownAt
    <3> QED
      BY <2>1, <2>2, <3>1, EvictedIsOldest
  <2> QED
    BY <2>3, <2>4
<1>5. CASE WindowElapsed
  <2>1. UNCHANGED <<now, lastHeard>> /\ purged' = now
    BY <1>5 DEF WindowElapsed
  <2>2. Absent(a)
    <3> SUFFICES ASSUME NEW s \in Slots, IsKnownAt(s, a)
                 PROVE  FALSE
      BY DEF Absent
    <3>1. CASE s \in NotStale
      <4>1. entries'[s] = Rolled(s) /\ Used(s)'
        BY <1>5, <3>1, SnapshotSlots
      <4>2. entries'[s].address = a
        BY <3>1, <4>1, RolledFigures DEF IsKnownAt
      <4> QED
        BY <4>1, <4>2 DEF Absent, IsKnownAt
    <3>2. CASE s \notin NotStale
      <4>1. now - entries[s].seen > StaleTicks
        BY <3>2 DEF NotStale, IsStale, IsKnownAt
      <4>2. entries[s].seen = lastHeard[a]
        BY DEF IsKnownAt, Inv, SeenIsLastHeard
      <4>3. now \in Int /\ lastHeard[a] \in Int /\ StaleTicks \in Int
        BY ScannerAssumption DEF Inv, TypeOK
      <4> QED
        BY <2>1, <4>1, <4>2, <4>3
    <3> QED
      BY <3>1, <3>2
  <2>3. purged - lastHeard[a] <= StaleTicks
    <3>1. /\ now \in Int /\ purged \in Int /\ lastHeard[a] \in Int
          /\ StaleTicks \in Int /\ purged <= now
      BY ScannerAssumption DEF Inv, TypeOK, SeenIsLastHeard
    <3> QED
      BY <2>1, <3>1
  <2> QED
    BY <1>0, <2>1, <2>2, <2>3 DEF NoEarlier
<1>6. CASE Elsewhere \/ RecordMalformed \/ UNCHANGED vars
  <2>1. UNCHANGED <<lastHeard, entries, purged>>
    BY <1>6 DEF Elsewhere, Tick, ScanStarted, ScanFailed, RetryElapsed,
                RecordMalformed, registry, history, vars
  <2> QED
    BY <1>0, <2>1 DEF NoEarlier, Absent, IsKnownAt, Used
<1> QED
  BY <1>2, <1>3, <1>4, <1>5, <1>6 DEF Next, on_adv_reports, Elsewhere

\* The registry is a true least-recently-heard cache, for every capacity and
\* any number of advertisers.
THEOREM RegistryForgetsOldest == Spec => []ForgetsOldestFirst
<1>1. Init => ForgetsOldestFirst
  BY DEF Init, ForgetsOldestFirst
<1>2. Inv /\ ForgetsOldestFirst /\ [Next]_vars => ForgetsOldestFirst'
  BY StepForgetsOldest
<1> QED
  BY <1>1, <1>2, Invariance, PTL DEF Spec

\* A device heard in this window has a time at which it was last heard.
HeardHasTime == \A a \in heard : lastHeard[a] # -1

\* Each step keeps it: a report sets both, the end of a window forgets who was
\* heard.
LEMMA StepKeepsTime ==
    ASSUME Inv, HeardHasTime, [Next]_vars
    PROVE  HeardHasTime'
<1>0. /\ lastHeard \in [Addresses -> Nat \cup {-1}]
      /\ heard \subseteq Addresses
      /\ now \in Nat
  BY DEF Inv, TypeOK
<1>1. ASSUME NEW a \in Addresses, Heard(a)
      PROVE  HeardHasTime'
  BY <1>0, <1>1 DEF Heard, HeardHasTime
<1>2. CASE on_adv_reports
  <2>1. CASE RecordMalformed
    BY <2>1 DEF RecordMalformed, history, HeardHasTime
  <2>2. CASE \E a \in Addresses : Heard(a)
    BY <1>1, <2>2
  <2> QED
    BY <1>2, <2>1, <2>2
    DEF on_adv_reports, RecordKnown, RecordNew, RecordEvicting
<1>3. CASE WindowElapsed
  BY <1>3 DEF WindowElapsed, HeardHasTime
<1>4. CASE Elsewhere \/ UNCHANGED vars
  <2>1. UNCHANGED <<heard, lastHeard>>
    BY <1>4 DEF Elsewhere, Tick, ScanStarted, ScanFailed, RetryElapsed,
                history, vars
  <2> QED
    BY <2>1 DEF HeardHasTime
<1> QED
  BY <1>2, <1>3, <1>4 DEF Next, Elsewhere

\* A device heard in this window is announced as lost only if its entry went
\* stale before the snapshot, or was evicted for a registry full of devices
\* heard no earlier.
THEOREM LostMeansForgotten == Spec => LostUnlessForgotten
<1>1. Init => HeardAreKept /\ HeardHasTime
  BY DEF Init, HeardAreKept, HeardHasTime
<1>2. /\ Inv /\ HeardAreKept /\ [Next]_vars => HeardAreKept'
      /\ Inv /\ HeardHasTime /\ [Next]_vars => HeardHasTime'
  BY StepKeepsHeard, StepKeepsTime
<1>3. Inv /\ HeardAreKept /\ HeardHasTime /\ ForgetsOldestFirst /\ [Next]_vars =>
        [WindowElapsed => \A a \in Lost \cap heard :
            \/ now - lastHeard[a] > StaleTicks
            \/ /\ evictions > 0
               /\ Capacity <= Cardinality({b \in Addresses \ {a} :
                                                lastHeard[b] >= lastHeard[a]})]_vars
  <2> SUFFICES ASSUME Inv, HeardAreKept, HeardHasTime, ForgetsOldestFirst,
                      NEW a \in Lost \cap heard,
                      ~(now - lastHeard[a] > StaleTicks)
               PROVE  /\ evictions > 0
                      /\ Capacity <= Cardinality({b \in Addresses \ {a} :
                                                lastHeard[b] >= lastHeard[a]})
    OBVIOUS
  <2>0. /\ a \in Addresses
        /\ now \in Nat /\ purged \in Nat /\ purged <= now
        /\ lastHeard[a] \in Int /\ StaleTicks \in Int
        /\ lastHeard[a] # -1
        /\ evictions \in Nat
    BY ScannerAssumption DEF Inv, TypeOK, SeenIsLastHeard, HeardHasTime
  <2>1. Absent(a)
    <3> SUFFICES ASSUME NEW s \in Slots, IsKnownAt(s, a)
                 PROVE  FALSE
      BY DEF Absent
    <3>1. Active(s)
      BY DEF IsKnownAt, Inv, ActiveIsHeard
    <3>2. s \notin Shown
      BY DEF Lost, IsKnownAt
    <3>3. IsStale(s)
      BY <3>1, <3>2 DEF Shown, NotStale, Active
    <3> QED
      BY <3>3 DEF IsStale, IsKnownAt, Inv, SeenIsLastHeard
  <2>2. evictions > 0
    <3>1. evictions # 0
      BY <2>1 DEF HeardAreKept, Absent
    <3> QED
      BY <2>0, <3>1
  <2>3. purged - lastHeard[a] <= StaleTicks
    BY <2>0
  <2>4. Cardinality(NoEarlier(a)) >= Capacity
    BY <2>0, <2>1, <2>3, ForgetsRestated
  <2>5. Cardinality(NoEarlier(a)) \in Nat /\ Capacity \in Nat
    <3>1. NoEarlier(a) \subseteq Addresses /\ IsFiniteSet(Addresses)
      BY ScannerAssumption DEF NoEarlier
    <3>2. IsFiniteSet(NoEarlier(a))
      BY <3>1, FS_Subset
    <3> QED
      BY <3>2, FS_CardinalityType, ScannerAssumption
  <2>6. Capacity <= Cardinality(NoEarlier(a))
    BY <2>4, <2>5
  <2> QED
    BY <2>2, <2>6 DEF NoEarlier
<1> QED
  BY <1>1, <1>2, <1>3, Invariance, RegistryForgetsOldest, PTL
  DEF Spec, LostUnlessForgotten

-----------------------------------------------------------------------------
(* The packets of a window.                                                *)

\* The occupied slots of a registry E.
Occupied(E) == {s \in Slots : E[s].used}

Registries == [Slots -> DeviceEntry \cup {NoEntry}]

\* The sum over the occupied slots is one of natural numbers.
LEMMA OccupiedCounts ==
    ASSUME NEW E \in Registries
    PROVE  /\ IsFiniteSet(Occupied(E))
           /\ \A s \in Occupied(E) : E[s].count \in Nat
<1>1. IsFiniteSet(Slots)
  BY ScannerAssumption, FS_Interval DEF Slots
<1>2. IsFiniteSet(Occupied(E))
  BY <1>1, FS_Subset DEF Occupied
<1>3. ASSUME NEW s \in Occupied(E)
      PROVE  E[s].count \in Nat
  <2>1. E[s] \in DeviceEntry \/ E[s] = NoEntry
    BY DEF Occupied, Registries
  <2>2. CASE E[s] \in DeviceEntry
    BY <2>2 DEF DeviceEntry
  <2>3. CASE E[s] = NoEntry
    BY <2>3 DEF NoEntry, Occupied
  <2> QED
    BY <2>1, <2>2, <2>3
<1> QED
  BY <1>2, <1>3

\* How the sum changes with one slot.
LEMMA TotalChanges ==
    ASSUME NEW E \in Registries, NEW s \in Slots, NEW e \in DeviceEntry,
           NEW F \in Registries, F[s] = e, \A t \in Slots \ {s} : F[t] = E[t]
    PROVE  /\ Total(E, Occupied(E)) \in Nat /\ Total(F, Occupied(F)) \in Nat
           /\ s \in Occupied(E) =>
                Total(F, Occupied(F)) + E[s].count = Total(E, Occupied(E)) + e.count
           /\ s \notin Occupied(E) =>
                Total(F, Occupied(F)) = Total(E, Occupied(E)) + e.count
<1> DEFINE U == Occupied(E)
           V == Occupied(F)
           c == [t \in U |-> E[t].count]
           d == [t \in V |-> F[t].count]
<1>2. e.used = TRUE /\ e.count \in Nat
  BY DEF DeviceEntry
<1>3. s \in V /\ V \ {s} = U \ {s}
  BY <1>2 DEF Occupied
<1>4. /\ IsFiniteSet(U) /\ \A t \in U : E[t].count \in Nat
      /\ IsFiniteSet(V) /\ \A t \in V : F[t].count \in Nat
  BY OccupiedCounts
<1>5. \A t \in U \ {s} : c[t] = d[t]
  <2>1. U \subseteq Slots
    BY DEF Occupied
  <2> HIDE DEF U, V
  <2> QED
    BY <1>3, <1>4, <2>1
<1> HIDE DEF U, V
<1>6. PICK g : AddsUp(g, E, U)
  BY <1>4, TotalTakesAny
<1>7. PICK h : AddsUp(h, F, V)
  BY <1>4, TotalTakesAny
<1>8. h[V] = e.count + h[V \ {s}]
  BY <1>3, <1>7 DEF AddsUp
<1>9. g[U \ {s}] = h[U \ {s}]
  <2>1. U \ {s} \in SUBSET (U \cap V)
    BY <1>3
  <2>2. IsSum(g, U, c) /\ IsSum(h, V, d)
    BY <1>6, <1>7 DEF AddsUp
  <2> HIDE DEF c, d
  <2> QED
    BY <1>4, <1>5, <2>1, <2>2, SumAgrees
<1>10. s \in U => g[U] = E[s].count + g[U \ {s}]
  BY <1>6 DEF AddsUp
<1>11. s \notin U => U \ {s} = U
  OBVIOUS
<1>12. g[U] \in Nat /\ g[U \ {s}] \in Nat /\ h[V] \in Nat
  BY <1>6, <1>7 DEF AddsUp
<1>13. h[V] = e.count + g[U \ {s}]
  BY <1>3, <1>8, <1>9
<1>14. s \in U => h[V] + E[s].count = g[U] + e.count
  <2> SUFFICES ASSUME s \in U
               PROVE  h[V] + E[s].count = g[U] + e.count
    OBVIOUS
  <2>1. g[U] = E[s].count + g[U \ {s}] /\ E[s].count \in Nat
    BY <1>4, <1>10
  <2> QED
    BY <1>2, <1>12, <1>13, <2>1
<1>15. s \notin U => h[V] = g[U] + e.count
  <2>1. s \notin U => h[V] = e.count + g[U]
    BY <1>11, <1>13, Zenon
  <2> QED
    BY <1>2, <1>12, <2>1
<1> QED
  BY <1>6, <1>7, <1>12, <1>14, <1>15 DEF U, V, AddsUp

\* What WindowAccounting says of a registry and its counters.
Accounts(E, packets, gone) == packets = Total(E, Occupied(E)) + gone

\* Each step keeps the packet counter and the entries in agreement.
LEMMA StepKeepsAccounts ==
    ASSUME Inv, [Next]_vars, Accounts(entries, reports, forgotten),
           evictions = 0 => forgotten = 0
    PROVE  /\ Accounts(entries', reports', forgotten')
           /\ evictions' = 0 => forgotten' = 0
<1>0. /\ entries \in Registries /\ reports \in Nat /\ forgotten \in Nat
      /\ evictions \in Nat
      /\ \A s \in Slots : s \in Occupied(entries) <=> Used(s)
  BY DEF Inv, TypeOK, Registries, Occupied, Used
<1> USE DEF Accounts
<1>1. ASSUME NEW a \in Addresses, NEW r \in Rssi, RecordKnown(a, r)
      PROVE  Accounts(entries', reports', forgotten')
  <2>1. PICK s \in Slots, e \in DeviceEntry :
            /\ IsKnownAt(s, a) /\ Recorded(a, s, e)
            /\ e.count = entries[s].count + 1
    BY <1>1, KnownRecorded
  <2>2. s \in Occupied(entries)
        /\ entries' \in Registries /\ entries'[s] = e
        /\ \A t \in Slots \ {s} : entries'[t] = entries[t]
    BY <1>0, <2>1 DEF IsKnownAt, Recorded, Registries
  <2>3. /\ Total(entries, Occupied(entries)) \in Nat
        /\ Total(entries', Occupied(entries')) \in Nat
        /\ Total(entries', Occupied(entries')) + entries[s].count
            = Total(entries, Occupied(entries)) + e.count
    BY <1>0, <2>2, TotalChanges
  <2>4. entries[s].count \in Nat
    BY <1>0, <2>2, OccupiedCounts
  <2>5. reports' = reports + 1 /\ forgotten' = forgotten
    BY <1>1 DEF RecordKnown
  <2> QED
    BY <1>0, <2>1, <2>3, <2>4, <2>5
<1>2. ASSUME NEW a \in Addresses, NEW r \in Rssi, RecordNew(a, r)
      PROVE  Accounts(entries', reports', forgotten')
  <2>1. PICK s \in Slots, e \in DeviceEntry :
            ~Used(s) /\ Recorded(a, s, e) /\ e.count = 1
    BY <1>2, NewRecorded
  <2>2. s \notin Occupied(entries)
        /\ entries' \in Registries /\ entries'[s] = e
        /\ \A t \in Slots \ {s} : entries'[t] = entries[t]
    BY <1>0, <2>1 DEF Recorded, Registries
  <2>3. /\ Total(entries, Occupied(entries)) \in Nat
        /\ Total(entries', Occupied(entries'))
            = Total(entries, Occupied(entries)) + e.count
    BY <1>0, <2>2, TotalChanges
  <2>4. reports' = reports + 1 /\ forgotten' = forgotten
    BY <1>2 DEF RecordNew
  <2> QED
    BY <1>0, <2>1, <2>3, <2>4
<1>3. ASSUME NEW a \in Addresses, NEW r \in Rssi, RecordEvicting(a, r)
      PROVE  Accounts(entries', reports', forgotten') /\ evictions' # 0
  <2>1. PICK s \in Slots, e \in DeviceEntry :
            /\ Recorded(a, s, e) /\ e.count = 1
            /\ forgotten' = forgotten + entries[s].count
    BY <1>3, EvictingRecorded
  <2>2. s \in Occupied(entries)
        /\ entries' \in Registries /\ entries'[s] = e
        /\ \A t \in Slots \ {s} : entries'[t] = entries[t]
    BY <1>0, <1>3, <2>1 DEF Recorded, RecordEvicting, Registries
  <2>3. /\ Total(entries, Occupied(entries)) \in Nat
        /\ Total(entries', Occupied(entries')) \in Nat
        /\ Total(entries', Occupied(entries')) + entries[s].count
            = Total(entries, Occupied(entries)) + e.count
    BY <1>0, <2>2, TotalChanges
  <2>4. entries[s].count \in Nat
    BY <1>0, <2>2, OccupiedCounts
  <2>5. reports' = reports + 1 /\ evictions' = evictions + 1
    BY <1>3 DEF RecordEvicting
  <2> QED
    BY <1>0, <2>1, <2>3, <2>4, <2>5
<1>4. CASE WindowElapsed
  <2> DEFINE V == Occupied(entries')
             d == [s \in V |-> entries'[s].count]
  <2>1. entries' \in Registries
    BY <1>4, SnapshotSlots DEF Registries
  <2>2. \A s \in V : entries'[s].count = 0
    <3> SUFFICES ASSUME NEW s \in V
                 PROVE  entries'[s].count = 0
      OBVIOUS
    <3>1. s \in NotStale /\ entries'[s] = Rolled(s)
      BY <1>4, SnapshotSlots DEF Occupied, Used
    <3> QED
      BY <3>1, RolledFigures
  <2>3. IsFiniteSet(V) /\ \A s \in V : entries'[s].count \in Nat
    BY <2>1, OccupiedCounts
  <2>4. PICK g \in [SUBSET V -> Nat] : IsSum(g, V, d) /\ Total(entries', V) = g[V]
    BY <2>3, TotalIsSum
  <2>5. \A s \in V : d[s] = 0
    BY <2>2
  <2> HIDE DEF V, d
  <2>6. Total(entries', V) = 0
    BY <2>3, <2>4, <2>5, SumOfZeros
  <2>7. reports' = 0 /\ forgotten' = 0
    BY <1>4 DEF WindowElapsed, print_snapshot
  <2> QED
    BY <2>6, <2>7 DEF V
<1>5. CASE Elsewhere \/ RecordMalformed \/ UNCHANGED vars
  <2>1. UNCHANGED <<entries, reports, evictions, forgotten>>
    BY <1>5 DEF Elsewhere, Tick, ScanStarted, ScanFailed, RetryElapsed,
                RecordMalformed, registry, history, vars
  <2> QED
    BY <2>1
<1>6. (\E a \in Addresses, r \in Rssi : RecordKnown(a, r) \/ RecordNew(a, r))
        => UNCHANGED <<evictions, forgotten>>
  BY DEF RecordKnown, RecordNew
<1>7. WindowElapsed => forgotten' = 0
  BY DEF WindowElapsed
<1> QED
  BY <1>1, <1>2, <1>3, <1>4, <1>5, <1>6, <1>7
     DEF Next, on_adv_reports, Elsewhere

\* The packets the summary line counts are those of the entries and of the
\* entries evicted in the same window, for every capacity.
THEOREM RegistryAccounts == Spec => []WindowAccounting
<1> DEFINE A == Accounts(entries, reports, forgotten) /\ (evictions = 0 => forgotten = 0)
<1>1. Init => A
  <2> SUFFICES ASSUME Init
               PROVE  A
    OBVIOUS
  <2>1. Occupied(entries) = {} /\ entries \in Registries
    BY DEF Init, Occupied, NoEntry, Registries
  <2>2. PICK g \in [SUBSET Occupied(entries) -> Nat] :
            /\ IsSum(g, Occupied(entries),
                     [s \in Occupied(entries) |-> entries[s].count])
            /\ Total(entries, Occupied(entries)) = g[Occupied(entries)]
    BY <2>1, OccupiedCounts, TotalIsSum
  <2>3. Total(entries, Occupied(entries)) = 0
    BY <2>1, <2>2 DEF IsSum
  <2> QED
    BY <2>3 DEF Init, Accounts
<1>2. Inv /\ A /\ [Next]_vars => A'
  <2>1. A' <=> /\ Accounts(entries', reports', forgotten')
               /\ evictions' = 0 => forgotten' = 0
    BY DEF Accounts, Occupied, Total, MapThenSumSet, MapThenFoldSet
  <2> QED
    BY <2>1, StepKeepsAccounts
<1>3. A <=> WindowAccounting
  BY DEF Accounts, WindowAccounting, Occupied, Used, Total, MapThenSumSet,
         MapThenFoldSet
<1> QED
  BY <1>1, <1>2, <1>3, Invariance, PTL DEF Spec

=============================================================================
