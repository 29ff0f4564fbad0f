-------------------------- MODULE CalculationsProofs --------------------------
(***************************************************************************)
(* Proofs about opportunity scores and what regions are like, for every    *)
(* request and table.                                                      *)
(*                                                                         *)
(* The argument: what is sorted here is sorted by a strict total order of  *)
(* a finite set, so every place of the list is taken by one element, and   *)
(* the CHOOSEs of the definitions find it.  A distance is one number both  *)
(* ways because every observation is standardised to one; a score grows    *)
(* with each of its parts, rounding or not.  Clustering is followed round  *)
(* by round: no cluster is left without a region, the order of the means   *)
(* numbers them, and the agreement of two runs counts the pairs they share.*)
(***************************************************************************)
EXTENDS Calculations, FiniteLemmas
-----------------------------------------------------------------------------
(* Totals and roots.                                                       *)

(* What a total adds up.                                                   *)
LEMMA TotalIsSums ==
  ASSUME NEW f
  PROVE  Regional!Total(f) = Sums(f, DOMAIN f)[DOMAIN f]
BY Zenon DEF Regional!Total, Regional!MapThenSumSet, Regional!MapThenFoldSet, Sums, Adds, Pick

(* A total of integers is one, a total of natural numbers too.             *)
LEMMA TotalIsNumber ==
  ASSUME NEW S, IsFiniteSet(S), NEW N, N = Nat \/ N = Int, NEW f \in [S -> N]
  PROVE  Regional!Total(f) \in N
<1>1. DOMAIN f = S /\ \A x \in S : f[x] \in N
  OBVIOUS
<1> QED
  BY <1>1, TotalIsSums, SumIsNumber

(* The root, bit by bit.                                                   *)
More(n, root, i) ==
  LET more == root + Regional!Bits[i] IN IF more * more <= n THEN more ELSE root

Rooting(n, m, g) == g = [i \in 0..m |-> IF i = 0 THEN 0 ELSE More(n, g[i - 1], i)]

(* The bits of a root can be tried one after another.                     *)
LEMMA RootingExists ==
  ASSUME NEW n, NEW k \in Nat
  PROVE  \E g : Rooting(n, k, g)
<1> DEFINE Bad == {m \in Nat : ~ \E g : Rooting(n, m, g)}
<1>1. Bad = {}
  <2> SUFFICES ASSUME Bad # {} PROVE FALSE
    OBVIOUS
  <2>1. Bad \subseteq Nat
    OBVIOUS
  <2> HIDE DEF Bad
  <2>2. PICK m \in Bad : \A l \in Bad : ~(<<l, m>> \in OpToRel(<, Nat))
    BY <2>1, NatLessThanWellFounded, WFMin
  <2>3. m \in Nat /\ \A l \in Bad : ~(l < m)
    BY <2>1, <2>2, Zenon DEF OpToRel
  <2>4. ~ \E g : Rooting(n, m, g)
    BY DEF Bad
  <2>5. CASE m = 0
    <3> DEFINE g == [i \in 0..0 |-> 0]
    <3>1. g = [i \in 0..0 |-> IF i = 0 THEN 0 ELSE More(n, g[i - 1], i)]
      OBVIOUS
    <3> HIDE DEF g
    <3>2. Rooting(n, m, g)
      BY <2>5, <3>1 DEF Rooting
    <3> QED
      BY <2>4, <3>2
  <2>6. CASE m # 0
    <3>1. m - 1 \in Nat /\ m - 1 < m
      BY <2>3, <2>6
    <3>2. m - 1 \notin Bad
      BY <2>3, <3>1
    <3>3. PICK h : Rooting(n, m - 1, h)
      BY <3>1, <3>2 DEF Bad
    <3> DEFINE g == [i \in 0..m |-> IF i = 0 THEN 0 ELSE More(n, h[i - 1], i)]
    <3>4. ASSUME NEW i \in 1..m PROVE g[i - 1] = h[i - 1]
      <4>1. i - 1 \in 0..(m - 1) /\ i - 1 \in 0..m
        BY <2>3
      <4> QED
        BY <3>3, <4>1 DEF Rooting
    <3>5. \A i \in 0..m : i = 0 \/ i \in 1..m
      BY <2>3
    <3>6. g = [i \in 0..m |-> IF i = 0 THEN 0 ELSE More(n, g[i - 1], i)]
      BY <3>4, <3>5
    <3> HIDE DEF g
    <3>7. Rooting(n, m, g)
      BY <3>6 DEF Rooting
    <3> QED
      BY <2>4, <3>7
  <2> QED
    BY <2>5, <2>6
<1> QED
  BY <1>1

(* Root is what is left after all sixteen.                                *)
LEMMA RootIsRooted ==
  ASSUME NEW n
  PROVE  \E g : Rooting(n, 15, g) /\ Regional!Root(n) = g[15]
<1> DEFINE g == CHOOSE f : Rooting(n, 15, f)
<1>1. Rooting(n, 15, g)
  BY RootingExists
<1>2. Regional!Root(n) = g[15]
  BY Zenon DEF Regional!Root, Regional!Iterated, Rooting, More
<1> QED
  BY <1>1, <1>2

(* The root is a natural number whatever it is the root of, and not 0 of   *)
(* one that is not 0.                                                      *)
LEMMA RootIsNumber ==
  ASSUME NEW n
  PROVE  Regional!Root(n) \in Nat /\ (n \in Nat \ {0} => Regional!Root(n) # 0)
<1>1. PICK g : Rooting(n, 15, g) /\ Regional!Root(n) = g[15]
  BY RootIsRooted
<1>2. g[0] = 0 /\ \A i \in 1..15 : g[i] = More(n, g[i - 1], i)
  BY <1>1 DEF Rooting
<1>3. \A i \in 1..15 : Regional!Bits[i] \in Nat
  BY DEF Regional!Bits
<1>4. ASSUME NEW i \in 1..15, g[i - 1] \in Nat PROVE g[i] \in Nat
  <2>1. g[i] = g[i - 1] \/ g[i] = g[i - 1] + Regional!Bits[i]
    BY <1>2 DEF More
  <2> QED
    BY <1>3, <1>4, <2>1
<1>5. g[14] \in Nat
  <2>1. g[1] \in Nat /\ g[2] \in Nat /\ g[3] \in Nat /\ g[4] \in Nat
    BY <1>2, <1>4
  <2>2. g[5] \in Nat /\ g[6] \in Nat /\ g[7] \in Nat /\ g[8] \in Nat
    BY <2>1, <1>4
  <2>3. g[9] \in Nat /\ g[10] \in Nat /\ g[11] \in Nat /\ g[12] \in Nat
    BY <2>2, <1>4
  <2> QED
    BY <2>3, <1>4
<1>6. Regional!Bits[15] = 1
  BY DEF Regional!Bits
<1>7. g[15] = IF (g[14] + 1) * (g[14] + 1) <= n THEN g[14] + 1 ELSE g[14]
  BY <1>2, <1>6 DEF More
<1>8. ASSUME n \in Nat \ {0}, g[14] = 0 PROVE g[15] # 0
  BY <1>7, <1>8
<1> QED
  BY <1>1, <1>5, <1>7, <1>8

-----------------------------------------------------------------------------
(* Similar regions.                                                        *)

(* An instance counts as we do.                                            *)
LEMMA SameCountOfRegions == ASSUME NEW S PROVE Regional!Cardinality(S) = Cardinality(S)
BY Zenon DEF Regional!Cardinality, Cardinality

(* The instance of the engine has the same minimum.                       *)
LEMMA SameMin ==
  ASSUME NEW S
  PROVE  Regional!Min(S) = Min(S)
BY Zenon DEF Regional!Min, Min

(* A fraction rounds to an integer.                                       *)
LEMMA RoundedIsNumber ==
  ASSUME NEW p \in Int, NEW q \in Nat \ {0}
  PROVE  Regional!Rounded(p, q) \in Int
<1>1. Regional!Magnitude(p) \in Nat
  BY DEF Regional!Magnitude
<1>2. Unit \in Nat
  BY UnitAssumption DEF UnitAssumption
<1>3. PICK m \in Nat : m = Regional!Magnitude(p) * Unit
  BY <1>1, <1>2
<1>4. (m + q \div 2) \div q \in Int
  BY <1>3
<1> QED
  BY <1>3, <1>4 DEF Regional!Rounded

(* Standardised observations are numbers: a scale is never 0.              *)
LEMMA StandardizedIsNumbers ==
  ASSUME NEW regions, IsFiniteSet(regions), regions # {},
         NEW series, \A r \in regions : series[r] \in Int
  PROVE  Regional!Standardized(series, regions) \in [regions -> Int]
<1>1. PICK n : n = Cardinality(regions)
  OBVIOUS
<1>2. n \in Nat \ {0}
  BY <1>1, FS_CardinalityType, FS_EmptySet
<1>3. PICK total : total = Regional!Total([r \in regions |-> series[r]])
  OBVIOUS
<1>4. total \in Int
  <2>1. [r \in regions |-> series[r]] \in [regions -> Int]
    OBVIOUS
  <2> QED
    BY <1>3, <2>1, TotalIsNumber
<1>5. PICK gap : gap = [r \in regions |-> n * series[r] - total]
  OBVIOUS
<1>6. gap \in [regions -> Int]
  <2>1. \A r \in regions : n * series[r] - total \in Int
    BY <1>2, <1>4
  <2> QED
    BY <1>5, <2>1
<1>7. PICK squares : squares = [r \in regions |-> gap[r] * gap[r]]
  OBVIOUS
<1>8. squares \in [regions -> Nat]
  <2>1. \A x \in Int : x * x \in Nat
    OBVIOUS
  <2> QED
    BY <1>6, <1>7, <2>1
<1>9. Regional!Total(squares) \in Nat
  BY <1>8, TotalIsNumber
<1>10. PICK spread : spread = Regional!Total(squares) \div n
  OBVIOUS
<1>11. spread \in Nat
  BY <1>2, <1>9, <1>10
<1>12. ASSUME spread # 0 PROVE Regional!Root(Unit * Unit * spread) \in Nat \ {0}
  <2>1. Unit \in Nat \ {0}
    BY UnitAssumption DEF UnitAssumption
  <2>2. PICK m : m = Unit * Unit
    OBVIOUS
  <2>3. \A x, y \in Nat \ {0} : x * y \in Nat \ {0}
    OBVIOUS
  <2>4. m \in Nat \ {0}
    BY <2>1, <2>2, <2>3
  <2>5. m * spread \in Nat \ {0}
    BY <1>11, <1>12, <2>3, <2>4
  <2> QED
    BY <2>2, <2>5, RootIsNumber
<1>13. Regional!Standardized(series, regions)
        = [r \in regions |-> IF spread = 0 THEN 0
                             ELSE Regional!Rounded(Unit * gap[r], Regional!Root(Unit * Unit * spread))]
  BY <1>1, <1>3, <1>5, <1>7, <1>10, SameCountOfRegions DEF Regional!Standardized
<1>14. ASSUME NEW r \in regions, spread # 0
       PROVE  Regional!Rounded(Unit * gap[r], Regional!Root(Unit * Unit * spread)) \in Int
  <2>1. Unit * gap[r] \in Int
    <3>1. Unit \in Int /\ gap[r] \in Int
      BY <1>6, UnitAssumption DEF UnitAssumption
    <3> QED
      BY <3>1
  <2> QED
    BY <1>12, <1>14, <2>1, RoundedIsNumber
<1> QED
  BY <1>13, <1>14

(* What a table of features has.                                           *)
TableFits(values) ==
  /\ IsFiniteSet(DOMAIN values) /\ DOMAIN values \subseteq Int
  /\ \A f \in DOMAIN values :
       /\ IsFiniteSet(DOMAIN values[f]) /\ DOMAIN values[f] \subseteq Int
       /\ \A r \in DOMAIN values[f] : values[f][r] \in Int

(* What is prepared of it: the complete regions, with a number for each in *)
(* every feature selected.                                                 *)
PreparationFits(values, prepared) ==
  /\ prepared.features \in SUBSET (DOMAIN values) /\ prepared.features # {}
  /\ \A f \in DOMAIN values : DOMAIN values[f] = Regional!Universe(values)
  /\ prepared.regions = Regional!Complete(values, prepared.features)
  /\ IsFiniteSet(prepared.regions) /\ prepared.regions \subseteq Int
  /\ \A f \in prepared.features : prepared.points[f] \in [prepared.regions -> Int]

(* A preparation that is valid has two features and three regions at      *)
(* least, and a number for each of both.                                  *)
LEMMA PreparationGives ==
  ASSUME NEW values, TableFits(values), NEW minimum,
         NEW prepared, prepared = Regional!Prepare(values, minimum), prepared.valid
  PROVE  PreparationFits(values, prepared)
<1>1. PICK features : features = Regional!SelectedFeatures(values, minimum)
  OBVIOUS
<1>2. PICK regions : regions = Regional!Complete(values, features)
  OBVIOUS
<1>3. /\ \A f \in DOMAIN values : DOMAIN values[f] = Regional!Universe(values)
      /\ ~(Cardinality(features) < 2) /\ ~(Cardinality(regions) < 3)
      /\ prepared = [valid |-> TRUE, features |-> features, regions |-> regions,
           points |-> [f \in features |-> Regional!Standardized(values[f], regions)]]
  <2>1. prepared # Regional!NotPrepared
    BY DEF Regional!NotPrepared
  <2> QED
    BY <1>1, <1>2, <2>1, SameCountOfRegions, Zenon DEF Regional!Prepare
<1>4. features \in SUBSET (DOMAIN values)
  BY <1>1 DEF Regional!SelectedFeatures
<1>5. features # {} /\ regions # {}
  BY <1>3, FS_EmptySet
<1>6. /\ \A f \in features : regions \subseteq DOMAIN values[f]
      /\ IsFiniteSet(regions) /\ regions \subseteq Int
  <2>1. regions \subseteq Regional!Universe(values)
    BY <1>2 DEF Regional!Complete
  <2>2. PICK f \in features : TRUE
    BY <1>5
  <2>3. f \in DOMAIN values
    BY <1>4, <2>2
  <2>4. Regional!Universe(values) \subseteq Int /\ IsFiniteSet(Regional!Universe(values))
    BY <1>3, <2>3 DEF TableFits
  <2> QED
    BY <1>3, <1>4, <2>1, <2>4, FS_Subset
<1>7. ASSUME NEW f \in features PROVE Regional!Standardized(values[f], regions) \in [regions -> Int]
  <2>1. \A r \in regions : values[f][r] \in Int
    BY <1>4, <1>6 DEF TableFits
  <2> QED
    BY <1>5, <1>6, <2>1, StandardizedIsNumbers
<1> QED
  BY <1>2, <1>3, <1>4, <1>5, <1>6, <1>7 DEF PreparationFits

(* A distance is a number, the same both ways.                             *)
LEMMA DistanceIsMutual ==
  ASSUME NEW values, NEW prepared, PreparationFits(values, prepared),
         NEW a \in prepared.regions, NEW b \in prepared.regions
  PROVE  /\ Regional!Distance(prepared, a, b) \in Nat
         /\ Regional!Distance(prepared, a, b) = Regional!Distance(prepared, b, a)
<1>1. \A f \in prepared.features : prepared.points[f][a] \in Int /\ prepared.points[f][b] \in Int
  BY DEF PreparationFits
<1>2. \A x, y \in Int : (x - y) * (x - y) = (y - x) * (y - x)
  OBVIOUS
<1>3. \A f \in prepared.features :
        Regional!Squared(prepared, a, b, f) = Regional!Squared(prepared, b, a, f)
  BY <1>1, <1>2 DEF Regional!Squared
<1>4. [f \in prepared.features |-> Regional!Squared(prepared, a, b, f)]
      = [f \in prepared.features |-> Regional!Squared(prepared, b, a, f)]
  BY <1>3
<1>5. Regional!SquaredDistance(prepared, a, b) = Regional!SquaredDistance(prepared, b, a)
  BY <1>4, Zenon DEF Regional!SquaredDistance
<1>6. \A n : Regional!Root(n) \in Nat
  BY RootIsNumber
<1>7. \A m \in Nat : (m + 1) \div 2 \in Nat
  OBVIOUS
<1>8. Regional!Distance(prepared, a, b) \in Nat
  BY <1>6, <1>7 DEF Regional!Distance, Regional!NearestRoot
<1> QED
  BY <1>5, <1>8, Zenon DEF Regional!Distance

(* How far the other regions are from one. *)
FarFrom(prepared, target) == [r \in prepared.regions |-> Regional!Distance(prepared, target, r)]

(* The k nearest of the other regions in their order, k as asked for.      *)
NearestFirst(prepared, target, limit, list) ==
  \E k \in 0..limit :
    /\ k = IF limit <= Cardinality(prepared.regions \ {target}) THEN limit
           ELSE Cardinality(prepared.regions \ {target})
    /\ DOMAIN list = 1..k
    /\ \A i \in 1..k : /\ list[i].region \in prepared.regions \ {target}
                       /\ list[i].distance = Regional!Distance(prepared, target, list[i].region)
    /\ \A i, j \in 1..k : list[i].region = list[j].region => i = j
    /\ \A i, j \in 1..k : i < j => list[i].distance <= list[j].distance
    /\ \A r \in prepared.regions \ {target} :
         \/ \E i \in 1..k : list[i].region = r
         \/ \A i \in 1..k : list[i].distance <= Regional!Distance(prepared, target, r)

(* The list of a region is the nearest of the others in order, as many as *)
(* asked or there are.                                                    *)
LEMMA SimilarGives ==
  ASSUME NEW values, NEW prepared, PreparationFits(values, prepared),
         NEW target \in prepared.regions, NEW limit \in 1..10,
         NEW list, list = Regional!SimilarRegions(values, prepared, target, limit)
  PROVE  NearestFirst(prepared, target, limit, list)
<1> DEFINE S == prepared.regions \ {target}
           distance == [r \in prepared.regions |-> Regional!Distance(prepared, target, r)]
           o == Regional!InOrder(S, LAMBDA r, s :
                  distance[r] < distance[s] \/ (distance[r] = distance[s] /\ r < s))
<1>0. list = IF target \notin prepared.regions \/ limit \notin 1..10 THEN <<>>
             ELSE [i \in 1..Regional!Min({limit, Len(o)}) |->
                    [region |-> o[i], distance |-> distance[o[i]],
                     drivers |-> Regional!Drivers(values, prepared, target, o[i])]]
  BY Zenon DEF Regional!SimilarRegions
<1> HIDE DEF o
<1>1. S = prepared.regions \ {target}
  OBVIOUS
<1>2. IsFiniteSet(S) /\ S \subseteq Int
  BY <1>1, FS_Subset DEF PreparationFits
<1>4. \A r \in S : distance[r] = Regional!Distance(prepared, target, r) /\ distance[r] \in Nat
  BY <1>1, DistanceIsMutual
<1> HIDE DEF S, distance
<1>5. PICK B : B = [x \in S |-> {y \in S : distance[y] < distance[x]
                                          \/ (distance[y] = distance[x] /\ y < x)}]
  OBVIOUS
<1> DEFINE n == Cardinality(S)
<1>7. Lists(S, B, o)
  BY <1>5, SameCountOfRegions DEF o, Lists, Regional!InOrder
<1>8. Precedes(S, B)
  <2> DEFINE v == [x \in S |-> -distance[x]]
             z == [x \in S |-> 0]
  <2>1. v \in [S -> Int] /\ z \in [S -> Int]
    BY <1>4
  <2>2. \A x \in S : B[x] \in SUBSET S
    BY <1>5
  <2>3. \A x, y \in S : y \in B[x] <=>
          \/ v[y] > v[x]
          \/ v[y] = v[x] /\ z[y] > z[x]
          \/ v[y] = v[x] /\ z[y] = z[x] /\ z[y] > z[x]
          \/ v[y] = v[x] /\ z[y] = z[x] /\ z[y] = z[x] /\ y < x
    BY <1>4, <1>5
  <2> HIDE DEF v, z
  <2> QED
    BY <1>2, <2>1, <2>2, <2>3, NumbersPrecede
<1>9. /\ n \in Nat /\ DOMAIN o = 1..n
      /\ \A i \in 1..n : o[i] \in S
      /\ \A x \in S : \E i \in 1..n : o[i] = x
      /\ \A i, j \in 1..n : i < j <=> o[i] \in B[o[j]]
      /\ \A i, j \in 1..n : o[i] = o[j] => i = j
  BY <1>2, <1>7, <1>8, ListIsInOrder
<1>10. \A i, j \in 1..n : i < j => distance[o[i]] <= distance[o[j]]
  <2>1. \A x, y \in S : y \in B[x] => distance[y] <= distance[x]
    BY <1>4, <1>5
  <2> QED
    BY <1>9, <2>1
<1>11. Len(o) = n
  <2> DEFINE e(i) == CHOOSE x \in S : Regional!Cardinality({y \in S :
          distance[y] < distance[x] \/ (distance[y] = distance[x] /\ y < x)}) = i - 1
  <2>1. o = [i \in 1..Regional!Cardinality(S) |-> e(i)]
    BY Zenon DEF o, Regional!InOrder
  <2>2. Regional!Cardinality(S) = n
    BY SameCountOfRegions
  <2> HIDE DEF e, n
  <2>3. \A i \in 1..n : e(i) \in S
    BY <1>9, <2>1, <2>2
  <2>4. o \in [1..n -> S]
    BY <2>1, <2>2, <2>3
  <2> QED
    BY <1>9, <2>4
<1> HIDE DEF n
<1> DEFINE k == IF limit <= n THEN limit ELSE n
<1>12. k \in 0..limit /\ k \in 0..n /\ Regional!Min({limit, Len(o)}) = k
  BY <1>9, <1>11, SameMin, MinOfTwo
<1>13. list = [i \in 1..k |->
          [region |-> o[i], distance |-> distance[o[i]],
           drivers |-> Regional!Drivers(values, prepared, target, o[i])]]
  BY <1>0, <1>12
<1> HIDE DEF k
<1>14. DOMAIN list = 1..k /\ \A i \in 1..k : list[i].region = o[i] /\ list[i].distance = distance[o[i]]
  BY <1>13
<1>15. 1..k \subseteq 1..n
  BY <1>9, <1>12
<1>16. ASSUME NEW i \in 1..k
       PROVE  /\ list[i].region \in S
              /\ list[i].distance = Regional!Distance(prepared, target, list[i].region)
              /\ \A j \in 1..k : list[i].region = list[j].region => i = j
              /\ \A j \in 1..k : i < j => list[i].distance <= list[j].distance
  BY <1>4, <1>9, <1>10, <1>14, <1>15
<1>17. ASSUME NEW r \in S, \A i \in 1..k : list[i].region # r, NEW i \in 1..k
       PROVE  list[i].distance <= Regional!Distance(prepared, target, r)
  <2>1. PICK j \in 1..n : o[j] = r
    BY <1>9
  <2>2. j \notin 1..k
    BY <1>14, <1>17, <2>1
  <2>3. i < j /\ i \in 1..n
    BY <1>9, <1>12, <1>15, <2>2
  <2> QED
    BY <1>4, <1>10, <1>14, <2>1, <2>3
<1>18. k = IF limit <= Cardinality(S) THEN limit ELSE Cardinality(S)
  BY DEF k, n
<1> QED
  BY <1>1, <1>12, <1>14, <1>16, <1>17, <1>18 DEF NearestFirst

(* A list has as many regions as asked for, or all others.                 *)
LEMMA ListCounts ==
  ASSUME NEW values, NEW prepared, PreparationFits(values, prepared),
         NEW target \in prepared.regions, NEW limit \in 1..10,
         NEW list, NearestFirst(prepared, target, limit, list)
  PROVE  /\ Cardinality({row.region : row \in ToSet(list)} \ {target})
              = Min({limit, Cardinality(prepared.regions) - 1})
         /\ \A i, j \in DOMAIN list : i < j => list[i].distance <= list[j].distance
<1>1. PICK S : S = prepared.regions \ {target}
  OBVIOUS
<1>2. IsFiniteSet(S) /\ Cardinality(S) \in Nat /\ Cardinality(S) = Cardinality(prepared.regions) - 1
  BY <1>1, FS_RemoveElement, FS_CardinalityType DEF PreparationFits
<1>3. PICK k \in 0..limit :
        /\ k = IF limit <= Cardinality(S) THEN limit ELSE Cardinality(S)
        /\ DOMAIN list = 1..k
        /\ \A i \in 1..k : list[i].region \in S
        /\ \A i, j \in 1..k : list[i].region = list[j].region => i = j
        /\ \A i, j \in 1..k : i < j => list[i].distance <= list[j].distance
  BY <1>1, Zenon DEF NearestFirst
<1>4. k \in Nat
  OBVIOUS
<1>5. PICK l : l = [i \in 1..k |-> list[i].region]
  OBVIOUS
<1>6. PICK T : T = {list[i].region : i \in 1..k}
  OBVIOUS
<1>7. {row.region : row \in ToSet(list)} \ {target} = T
  <2>1. ToSet(list) = {list[i] : i \in 1..k}
    BY <1>3, Zenon DEF ToSet
  <2>2. target \notin T
    BY <1>1, <1>3, <1>6
  <2> QED
    BY <1>6, <2>1, <2>2
<1>8. l \in Bijection(1..k, T)
  <2>1. l \in [1..k -> T] /\ \A t \in T : \E i \in 1..k : l[i] = t
    BY <1>5, <1>6
  <2>2. \A i, j \in 1..k : l[i] = l[j] => i = j
    BY <1>3, <1>5
  <2> QED
    BY <2>1, <2>2 DEF Bijection, Injection, Surjection, IsInjective
<1>9. IsFiniteSet(1..k) /\ Cardinality(1..k) = k
  <2>1. 1 \in Int /\ k \in Int
    BY <1>4
  <2>2. IsFiniteSet(1..k) /\ Cardinality(1..k) = IF 1 > k THEN 0 ELSE k - 1 + 1
    BY <2>1, FS_Interval
  <2> QED
    BY <1>4, <2>2
<1>10. Cardinality(T) = k
  BY <1>8, <1>9, FS_Bijection DEF ExistsBijection
<1>11. Min({limit, Cardinality(S)}) = k
  BY <1>2, <1>3, MinOfTwo
<1> QED
  BY <1>2, <1>3, <1>7, <1>10, <1>11

(* Of two regions, one in the list of the other.                           *)
LEMMA TwoLists ==
  ASSUME NEW values, NEW prepared, PreparationFits(values, prepared), NEW limit \in 1..10,
         NEW r \in prepared.regions, NEW list, NearestFirst(prepared, r, limit, list),
         NEW row \in ToSet(list)
  PROVE  /\ row.region \in prepared.regions
         /\ \A other : NearestFirst(prepared, row.region, limit, other) =>
              \/ \E back \in ToSet(other) : back.region = r /\ back.distance = row.distance
              \/ \A back \in ToSet(other) : back.region # r /\ back.distance <= row.distance
<1>1. PICK s : s = row.region
  OBVIOUS
<1>2. s \in prepared.regions /\ s # r /\ row.distance = Regional!Distance(prepared, r, s)
  <2>1. PICK k \in 0..limit :
          /\ DOMAIN list = 1..k
          /\ \A i \in 1..k : /\ list[i].region \in prepared.regions \ {r}
                             /\ list[i].distance = Regional!Distance(prepared, r, list[i].region)
    BY Zenon DEF NearestFirst
  <2>2. PICK i \in 1..k : row = list[i]
    BY <2>1 DEF ToSet
  <2> QED
    BY <1>1, <2>1, <2>2
<1>3. row.distance = Regional!Distance(prepared, s, r)
  BY <1>2, DistanceIsMutual
<1>4. ASSUME NEW other, NearestFirst(prepared, s, limit, other)
      PROVE  \/ \E back \in ToSet(other) : back.region = r /\ back.distance = row.distance
             \/ \A back \in ToSet(other) : back.region # r /\ back.distance <= row.distance
  <2>1. PICK k \in 0..limit :
          /\ DOMAIN other = 1..k
          /\ \A i \in 1..k : other[i].distance = Regional!Distance(prepared, s, other[i].region)
          /\ \A x \in prepared.regions \ {s} :
               \/ \E i \in 1..k : other[i].region = x
               \/ \A i \in 1..k : other[i].distance <= Regional!Distance(prepared, s, x)
    BY <1>4, Zenon DEF NearestFirst
  <2>2. ToSet(other) = {other[i] : i \in 1..k}
    BY <2>1, Zenon DEF ToSet
  <2>3. CASE \E i \in 1..k : other[i].region = r
    BY <1>3, <2>1, <2>2, <2>3
  <2>4. CASE \A i \in 1..k : other[i].region # r
    <3>1. \A i \in 1..k : other[i].distance <= row.distance
      BY <1>2, <1>3, <2>1, <2>4
    <3> QED
      BY <2>2, <2>4, <3>1
  <2> QED
    BY <2>3, <2>4
<1> QED
  BY <1>1, <1>2, <1>4

(* The lists of all regions, side by side.                                 *)
LEMMA EveryListIsMutual ==
  ASSUME NEW values, TableFits(values), NEW prepared, PreparationFits(values, prepared),
         NEW limit \in 1..10, NEW lists,
         lists = [r \in prepared.regions |-> Regional!SimilarRegions(values, prepared, r, limit)]
  PROVE  ListsAreMutual(values, prepared, limit, lists)
<1>1. ASSUME NEW r \in prepared.regions PROVE NearestFirst(prepared, r, limit, lists[r])
  BY SimilarGives
<1>2. ASSUME NEW r \in DOMAIN values[Min(prepared.features)]
      PROVE  r \in prepared.regions <=> \A f \in prepared.features : values[f][r] # None
  <2>1. Min(prepared.features) \in prepared.features
    <3>1. \E f \in prepared.features : \A g \in prepared.features : f <= g
      <4>1. /\ prepared.features \in SUBSET (DOMAIN values) /\ prepared.features # {}
            /\ IsFiniteSet(DOMAIN values) /\ DOMAIN values \subseteq Int
        BY DEF PreparationFits, TableFits
      <4>2. IsFiniteSet(prepared.features) /\ prepared.features \subseteq Int
        BY <4>1, FS_Subset
      <4> QED
        BY <4>1, <4>2, SmallestIsThere
    <3> QED
      BY <3>1, Zenon DEF Min
  <2>2. r \in Regional!Universe(values)
    BY <2>1 DEF PreparationFits
  <2>3. Regional!None = None
    BY DEF Regional!None, None
  <2> QED
    BY <2>2, <2>3 DEF PreparationFits, Regional!Complete
<1>3. ASSUME NEW r \in prepared.regions
      PROVE  /\ Cardinality({row.region : row \in ToSet(lists[r])} \ {r})
                  = Min({limit, Cardinality(prepared.regions) - 1})
             /\ \A i, j \in DOMAIN lists[r] : i < j => lists[r][i].distance <= lists[r][j].distance
  BY <1>1, ListCounts
<1>4. ASSUME NEW r \in prepared.regions, NEW row \in ToSet(lists[r])
      PROVE  \/ \E back \in ToSet(lists[row.region]) :
                  back.region = r /\ back.distance = row.distance
             \/ \A back \in ToSet(lists[row.region]) :
                  back.region # r /\ back.distance <= row.distance
  <2>1. NearestFirst(prepared, r, limit, lists[r])
    BY <1>1
  <2>2. row.region \in prepared.regions
    BY <2>1, TwoLists
  <2>3. NearestFirst(prepared, row.region, limit, lists[row.region])
    BY <1>1, <2>2
  <2> QED
    BY <2>1, <2>3, TwoLists
<1> DEFINE rows(r) == ToSet(lists[r])
<1>5. /\ \A r \in DOMAIN values[Min(prepared.features)] :
           r \in prepared.regions <=> \A f \in prepared.features : values[f][r] # None
      /\ \A r \in prepared.regions :
           /\ Cardinality({row.region : row \in rows(r)} \ {r})
                = Min({limit, Cardinality(prepared.regions) - 1})
           /\ \A i, j \in DOMAIN lists[r] : i < j => lists[r][i].distance <= lists[r][j].distance
           /\ \A row \in rows(r) :
                \/ \E back \in rows(row.region) : back.region = r /\ back.distance = row.distance
                \/ \A back \in rows(row.region) :
                     back.region # r /\ back.distance <= row.distance
  BY <1>2, <1>3, <1>4
<1> QED
  BY <1>5, Zenon DEF ListsAreMutual

(* A preparation is what its table prepares to.                            *)
PreparedOfTable ==
  call.kind = "prepare" =>
    /\ call.request \in FeatureTables
    /\ result = Regional!Prepare(call.request.values, call.request.minimum)

(* SimilarityIsMutual holds for every table, region and limit: the lists   *)
(* are made of one preparation.                                            *)
THEOREM ListsMutual == Spec => []SimilarityIsMutual
<1> DEFINE Inv == PreparedOfTable /\ SimilarityIsMutual
<1>1. Init => Inv
  BY DEF Init, Nothing, PreparedOfTable, SimilarityIsMutual
<1>2. ASSUME Inv, [Next]_vars PROVE Inv'
  <2>1. CASE Prepare
    <3>1. PICK table \in FeatureTables :
            Ask("prepare", table, Regional!Prepare(table.values, table.minimum))
      BY <2>1 DEF Prepare
    <3>2. call' = [kind |-> "prepare", request |-> table]
          /\ result' = Regional!Prepare(table.values, table.minimum)
      BY <3>1 DEF Ask
    <3> QED
      BY <3>2 DEF PreparedOfTable, SimilarityIsMutual
  <2>2. CASE Similar
    <3>1. PICK limit \in {3, 10} :
            Prepared("similar", limit,
              [r \in result.regions |-> Regional!SimilarRegions(call.request.values, result, r, limit)])
      BY <2>2 DEF Similar
    <3>2. PICK lists : lists = [r \in result.regions |->
                                  Regional!SimilarRegions(call.request.values, result, r, limit)]
      OBVIOUS
    <3>3. /\ call.kind = "prepare" /\ result.valid
          /\ call' = [kind |-> "similar", table |-> call.request, prepared |-> result, request |-> limit]
          /\ result' = lists
      BY <3>1, <3>2 DEF Prepared
    <3>4. PICK values : values = call.request.values
      OBVIOUS
    <3>5. TableFits(values)
      BY <1>2, <3>3, <3>4, CalculationsAssumption
         DEF PreparedOfTable, CalculationsAssumption, TableFits
    <3>6. PreparationFits(values, result)
      BY <1>2, <3>3, <3>4, <3>5, PreparationGives DEF PreparedOfTable
    <3>7. limit \in 1..10
      OBVIOUS
    <3>8. ListsAreMutual(values, result, limit, lists)
      BY <3>2, <3>4, <3>5, <3>6, <3>7, EveryListIsMutual
    <3>9. /\ call'.kind = "similar" /\ call'.table.values = values /\ call'.prepared = result
          /\ call'.request = limit
      BY <3>3, <3>4
    <3>10. SimilarityIsMutual'
      BY <3>3, <3>8, <3>9 DEF SimilarityIsMutual
    <3> QED
      BY <3>9, <3>10 DEF PreparedOfTable
  <2>3. CASE UNCHANGED vars
    BY <1>2, <2>3 DEF vars, PreparedOfTable, SimilarityIsMutual
  <2>4. CASE Score \/ Sensitivity \/ Cluster \/ Parse \/ Search \/ Answer
    <3>1. call'.kind # "prepare" /\ call'.kind # "similar"
      <4>1. CASE Score
        BY <4>1 DEF Score, Ask
      <4>2. CASE Sensitivity
        BY <4>2 DEF Sensitivity, Ask
      <4>3. CASE Cluster
        BY <4>3 DEF Cluster, Prepared
      <4>4. CASE Parse
        BY <4>4 DEF Parse, Ask
      <4>5. CASE Search
        BY <4>5 DEF Search, Ask
      <4>6. CASE Answer
        BY <4>6 DEF Answer, Ask
      <4> QED
        BY <2>4, <4>1, <4>2, <4>3, <4>4, <4>5, <4>6
    <3> QED
      BY <3>1 DEF PreparedOfTable, SimilarityIsMutual
  <2> QED
    BY <1>2, <2>1, <2>2, <2>3, <2>4 DEF Next
<1> QED
  BY <1>1, <1>2, PTL DEF Spec

-----------------------------------------------------------------------------
(* Scores, ranks and how the ranks respond to the weights. *)

(* Dividing by a positive number.                                          *)
LEMMA QuotientGrows ==
  ASSUME NEW x \in Nat, NEW y \in Nat, x <= y, NEW q \in Nat \ {0}
  PROVE  x \div q \in Nat /\ y \div q \in Nat /\ x \div q <= y \div q
<1>1. x \div q \in Nat /\ y \div q \in Nat
  OBVIOUS
<1>2. PICK k \in Nat : k = x \div q
  BY <1>1
<1>3. PICK l \in Nat : l = y \div q
  BY <1>1
<1>4. q * k <= x /\ y < q * l + q
  BY <1>2, <1>3
<1>5. ASSUME l + 1 <= k PROVE FALSE
  <2>1. \A a, b \in Nat : a <= b => q * a <= q * b
    OBVIOUS
  <2>2. q * (l + 1) <= q * k
    BY <1>5, <2>1
  <2>3. q * (l + 1) = q * l + q
    OBVIOUS
  <2>4. q * k \in Nat /\ q * l \in Nat
    OBVIOUS
  <2> QED
    BY <1>4, <2>2, <2>3, <2>4
<1> QED
  BY <1>1, <1>2, <1>3, <1>5

(* Halves added before dividing do not change a multiple.                 *)
LEMMA QuotientOfMultiple ==
  ASSUME NEW c \in Nat, NEW q \in Nat \ {0}
  PROVE  (c * q + q \div 2) \div q = c
<1>1. PICK h \in Nat : h = q \div 2 /\ h < q
  OBVIOUS
<1>2. PICK x \in Nat : x = c * q
  OBVIOUS
<1>3. PICK k \in Nat : k = (x + h) \div q
  OBVIOUS
<1>4. q * k <= x + h /\ x + h < q * k + q
  BY <1>1, <1>2, <1>3
<1>5. \A a, b \in Nat : a <= b => q * a <= q * b
  OBVIOUS
<1>6. ASSUME c + 1 <= k PROVE FALSE
  <2>1. q * (c + 1) <= q * k
    BY <1>5, <1>6
  <2>2. q * (c + 1) = x + q
    BY <1>2
  <2>3. q * k \in Nat
    OBVIOUS
  <2> QED
    BY <1>1, <1>4, <2>1, <2>2, <2>3
<1>7. ASSUME k + 1 <= c PROVE FALSE
  <2>1. q * (k + 1) <= q * c
    BY <1>5, <1>7
  <2>2. q * (k + 1) = q * k + q /\ q * c = x
    BY <1>2
  <2>3. q * k \in Nat
    OBVIOUS
  <2> QED
    BY <1>1, <1>4, <2>1, <2>2, <2>3
<1> QED
  BY <1>1, <1>2, <1>3, <1>6, <1>7

(* Rounding keeps the order and ends at one.                               *)
LEMMA RoundingGrows ==
  ASSUME NEW p \in Nat, NEW r \in Nat, p <= r, NEW q \in Nat \ {0}
  PROVE  /\ Scoring!Rounded(p, q) \in Nat /\ Scoring!Rounded(r, q) \in Nat
         /\ Scoring!Rounded(p, q) <= Scoring!Rounded(r, q)
<1>1. Unit \in Nat
  BY UnitAssumption DEF UnitAssumption
<1>2. PICK h \in Nat : h = q \div 2
  OBVIOUS
<1>3. PICK x \in Nat : x = p * Unit
  BY <1>1
<1>4. PICK y \in Nat : y = r * Unit
  BY <1>1
<1>5. x <= y
  <2>1. \A a, b, c \in Nat : a <= b => a * c <= b * c
    OBVIOUS
  <2> QED
    BY <1>1, <1>3, <1>4, <2>1
<1>6. x + h \in Nat /\ y + h \in Nat /\ x + h <= y + h
  BY <1>5
<1>7. (x + h) \div q \in Nat /\ (y + h) \div q \in Nat /\ (x + h) \div q <= (y + h) \div q
  BY <1>6, QuotientGrows
<1>8. Scoring!Magnitude(p) = p /\ Scoring!Magnitude(r) = r
  BY DEF Scoring!Magnitude
<1>9. Scoring!Rounded(p, q) = (x + h) \div q /\ Scoring!Rounded(r, q) = (y + h) \div q
  BY <1>2, <1>3, <1>4, <1>8 DEF Scoring!Rounded
<1> QED
  BY <1>7, <1>9

(* A whole rounds to Unit.                                                *)
LEMMA RoundingOfOne ==
  ASSUME NEW q \in Nat \ {0}
  PROVE  Scoring!Rounded(q, q) = Unit
<1>1. Unit \in Nat
  BY UnitAssumption DEF UnitAssumption
<1>2. Scoring!Rounded(q, q) = (q * Unit + q \div 2) \div q
  BY DEF Scoring!Rounded, Scoring!Magnitude
<1>3. q * Unit = Unit * q
  BY <1>1
<1> QED
  BY <1>1, <1>2, <1>3, QuotientOfMultiple

(* The instance of the engine counts as the module here does.             *)
LEMMA SameCountOfScores == ASSUME NEW S PROVE Scoring!Cardinality(S) = Cardinality(S)
BY Zenon DEF Scoring!Cardinality, Cardinality

(* The extremes of finitely many integers are of them.                    *)
LEMMA ExtremesAreThere ==
  ASSUME NEW S, IsFiniteSet(S), S \subseteq Int, S # {}
  PROVE  /\ Scoring!Min(S) \in S /\ \A x \in S : Scoring!Min(S) <= x
         /\ Scoring!Max(S) \in S /\ \A x \in S : x <= Scoring!Max(S)
<1>1. \E x \in S : \A y \in S : x <= y
  BY SmallestIsThere
<1>2. \E x \in S : \A y \in S : x >= y
  BY GreatestIsThere
<1>3. Scoring!Min(S) \in S /\ \A x \in S : Scoring!Min(S) <= x
  BY <1>1, Zenon DEF Scoring!Min
<1>4. Scoring!Max(S) \in S /\ \A x \in S : Scoring!Max(S) >= x
  BY <1>2, Zenon DEF Scoring!Max
<1>5. \A x \in S : x \in Int
  OBVIOUS
<1> QED
  BY <1>3, <1>4, <1>5

(* A series of observations.                                               *)
SeriesFits(series) ==
  /\ IsFiniteSet(DOMAIN series) /\ DOMAIN series \subseteq Int
  /\ \A r \in DOMAIN series : series[r] \in Int

Better(series, direction, a, b) ==
  IF direction = "higher" THEN series[a] >= series[b] ELSE series[a] <= series[b]

(* Above some, and below none.                                             *)
Tops(series, direction, a) ==
  /\ \E b \in Scoring!Present(series) : ~Better(series, direction, b, a)
  /\ \A b \in Scoring!Present(series) : Better(series, direction, a, b)

(* Finitely many regions have an observation, an integer.                 *)
LEMMA PresentFinite ==
  ASSUME NEW series, SeriesFits(series)
  PROVE  /\ IsFiniteSet(Scoring!Present(series)) /\ Scoring!Present(series) \subseteq DOMAIN series
         /\ \A r \in Scoring!Present(series) : r \in Int /\ series[r] \in Int
<1>1. Scoring!Present(series) \in SUBSET (DOMAIN series)
  BY DEF Scoring!Present
<1> QED
  BY <1>1, FS_Subset DEF SeriesFits

(* min_max keeps the order, and 1 is what the best has.                    *)
LEMMA MinMaxGives ==
  ASSUME NEW series, SeriesFits(series), NEW direction,
         NEW a \in Scoring!Present(series), NEW b \in Scoring!Present(series)
  PROVE  /\ Scoring!MinMax(series, a, direction) \in Nat
         /\ Better(series, direction, a, b) =>
              Scoring!MinMax(series, b, direction) <= Scoring!MinMax(series, a, direction)
         /\ Tops(series, direction, a) => Scoring!MinMax(series, a, direction) = Unit
<1>1. PICK P : P = Scoring!Present(series)
  OBVIOUS
<1>2. IsFiniteSet(P) /\ \A r \in P : r \in Int /\ series[r] \in Int
  BY <1>1, PresentFinite
<1> DEFINE values == {series[other] : other \in Scoring!Present(series)}
           low == Scoring!Min(values)
           high == Scoring!Max(values)
           span == high - low
           above(r) == series[r] - low
           part(r) == IF direction = "higher" THEN above(r) ELSE span - above(r)
<1>3. \A r : Scoring!MinMax(series, r, direction)
              = IF span = 0 THEN Scoring!Rounded(1, 2) ELSE Scoring!Rounded(part(r), span)
  BY Zenon DEF Scoring!MinMax
<1>4. /\ low \in values /\ \A x \in values : low <= x
      /\ high \in values /\ \A x \in values : x <= high
  <2>1. values \subseteq Int /\ values # {}
    BY <1>1, <1>2
  <2>2. IsFiniteSet(values)
    <3>1. PICK f : f = [r \in P |-> series[r]]
      OBVIOUS
    <3>2. values = {f[r] : r \in P}
      BY <1>1, <3>1
    <3> QED
      BY <1>2, <3>1, <3>2, ImageFinite
  <2> HIDE DEF values
  <2> QED
    BY <2>1, <2>2, ExtremesAreThere
<1>11. /\ \E r \in P : series[r] = low
       /\ \E r \in P : series[r] = high
       /\ \A r \in P : low <= series[r] /\ series[r] <= high
  BY <1>1, <1>4
<1> HIDE DEF low, high
<1>12. low \in Int /\ high \in Int
  BY <1>2, <1>11
<1>5. span \in Nat /\ \A r \in P : above(r) \in 0..span
  BY <1>2, <1>11, <1>12
<1>6. \A r \in P : part(r) \in 0..span
  BY <1>5
<1>7. a \in P /\ b \in P
  BY <1>1
<1>8. Better(series, direction, a, b) => part(b) <= part(a)
  BY <1>2, <1>7, <1>12 DEF Better
<1>9. CASE span = 0
  <2>1. Scoring!Rounded(1, 2) \in Nat
    BY RoundingGrows
  <2>2. ~Tops(series, direction, a)
    <3>1. \A r \in P : series[r] = low
      BY <1>2, <1>9, <1>11, <1>12
    <3>2. \A r \in P : Better(series, direction, r, a)
      BY <1>7, <1>12, <3>1 DEF Better
    <3> QED
      BY <1>1, <3>2 DEF Tops
  <2> HIDE DEF span, part
  <2>3. Scoring!MinMax(series, a, direction) = Scoring!Rounded(1, 2)
        /\ Scoring!MinMax(series, b, direction) = Scoring!Rounded(1, 2)
    BY <1>3, <1>9
  <2> QED
    BY <2>1, <2>2, <2>3
<1>10. CASE span # 0
  <2>1. ASSUME Tops(series, direction, a) PROVE part(a) = span
    <3>1. \A r \in P : Better(series, direction, a, r)
      BY <1>1, <2>1 DEF Tops
    <3>2. CASE direction = "higher"
      <4>1. PICK r \in P : series[r] = high
        BY <1>11
      <4>2. series[a] >= high
        BY <3>1, <3>2, <4>1 DEF Better
      <4>3. series[a] <= high
        BY <1>7, <1>11
      <4> QED
        BY <1>2, <1>7, <1>12, <3>2, <4>2, <4>3
    <3>3. CASE direction # "higher"
      <4>1. PICK r \in P : series[r] = low
        BY <1>11
      <4>2. series[a] <= low
        BY <3>1, <3>3, <4>1 DEF Better
      <4>3. series[a] >= low
        BY <1>2, <1>7, <1>11, <1>12
      <4> QED
        BY <1>2, <1>7, <1>12, <3>3, <4>2, <4>3
    <3> QED
      BY <3>2, <3>3
  <2>2. span \in Nat \ {0} /\ part(a) \in Nat /\ part(b) \in Nat
    BY <1>5, <1>6, <1>7, <1>10
  <2>3. Scoring!MinMax(series, a, direction) = Scoring!Rounded(part(a), span)
        /\ Scoring!MinMax(series, b, direction) = Scoring!Rounded(part(b), span)
    BY <1>3, <1>10
  <2> HIDE DEF span, part
  <2>4. Scoring!Rounded(part(a), span) \in Nat
    BY <2>2, RoundingGrows
  <2>5. part(b) <= part(a) => Scoring!Rounded(part(b), span) <= Scoring!Rounded(part(a), span)
    BY <2>2, RoundingGrows
  <2>6. part(a) = span => Scoring!Rounded(part(a), span) = Unit
    BY <2>2, RoundingOfOne
  <2> QED
    BY <1>8, <2>1, <2>3, <2>4, <2>5, <2>6
<1> QED
  BY <1>9, <1>10

(* The places of the sorted observations.                                  *)
PlacesOf(series, o, r) == {i \in DOMAIN o : series[o[i]] = series[r]}

(* The observations are all listed, the smallest first.                   *)
LEMMA OrderedGives ==
  ASSUME NEW series, SeriesFits(series), Scoring!Present(series) # {},
         NEW o, o = Scoring!Ordered(series)
  PROVE  \E n \in Nat \ {0} :
           /\ Len(o) = n /\ DOMAIN o = 1..n
           /\ \A i \in 1..n : o[i] \in Scoring!Present(series)
           /\ \A r \in Scoring!Present(series) : \E i \in 1..n : o[i] = r
           /\ \A i, j \in 1..n : i < j => series[o[i]] <= series[o[j]]
<1> DEFINE P == Scoring!Present(series)
           e(i) == CHOOSE x \in P : Scoring!Cardinality({y \in P :
                     series[y] < series[x] \/ (series[y] = series[x] /\ y < x)}) = i - 1
<1>1. o = [i \in 1..Scoring!Cardinality(P) |-> e(i)]
  BY Zenon DEF Scoring!Ordered, Scoring!InOrder
<1>2. IsFiniteSet(P) /\ P \subseteq Int /\ \A r \in P : r \in Int /\ series[r] \in Int
  BY PresentFinite
<1> HIDE DEF P
<1>3. PICK B : B = [x \in P |-> {y \in P : series[y] < series[x] \/ (series[y] = series[x] /\ y < x)}]
  OBVIOUS
<1>4. Lists(P, B, o)
  BY <1>1, <1>3, SameCountOfScores DEF Lists
<1> HIDE DEF e
<1>5. Precedes(P, B)
  <2> DEFINE v == [x \in P |-> -series[x]]
             z == [x \in P |-> 0]
  <2>1. v \in [P -> Int] /\ z \in [P -> Int]
    BY <1>2
  <2>2. \A x \in P : B[x] \in SUBSET P
    BY <1>3
  <2>3. \A x, y \in P : y \in B[x] <=>
          \/ v[y] > v[x]
          \/ v[y] = v[x] /\ z[y] > z[x]
          \/ v[y] = v[x] /\ z[y] = z[x] /\ z[y] > z[x]
          \/ v[y] = v[x] /\ z[y] = z[x] /\ z[y] = z[x] /\ y < x
    BY <1>2, <1>3
  <2> HIDE DEF v, z
  <2> QED
    BY <1>2, <2>1, <2>2, <2>3, NumbersPrecede
<1>6. PICK n : n = Cardinality(P)
  OBVIOUS
<1>7. /\ n \in Nat /\ DOMAIN o = 1..n
      /\ \A i \in 1..n : o[i] \in P
      /\ \A x \in P : \E i \in 1..n : o[i] = x
      /\ \A i, j \in 1..n : i < j <=> o[i] \in B[o[j]]
  BY <1>2, <1>4, <1>5, <1>6, ListIsInOrder
<1>8. \A i, j \in 1..n : i < j => series[o[i]] <= series[o[j]]
  <2>1. \A x, y \in P : y \in B[x] => series[y] <= series[x]
    BY <1>2, <1>3
  <2> QED
    BY <1>7, <2>1
<1>9. Len(o) = n
  <2>1. Scoring!Cardinality(P) = n
    BY <1>6, SameCountOfScores
  <2>2. \A i \in 1..n : e(i) \in P
    BY <1>1, <1>7, <2>1
  <2>3. o \in [1..n -> P]
    BY <1>1, <2>1, <2>2
  <2> QED
    BY <1>7, <2>3
<1>10. n # 0
  BY <1>2, <1>6, FS_EmptySet DEF P
<1> QED
  BY <1>7, <1>8, <1>9, <1>10 DEF P

(* Equal values share the mean of their positions, so the percentile keeps *)
(* the order.                                                              *)
LEMMA PercentileGives ==
  ASSUME NEW series, SeriesFits(series), NEW direction,
         NEW a \in Scoring!Present(series), NEW b \in Scoring!Present(series)
  PROVE  /\ Scoring!Percentile(series, a, direction) \in Nat
         /\ Better(series, direction, a, b) =>
              Scoring!Percentile(series, b, direction) <= Scoring!Percentile(series, a, direction)
<1> DEFINE o == Scoring!Ordered(series)
           ties(r) == {i \in DOMAIN o : series[o[i]] = series[r]}
           doubled(r) == (Scoring!Min(ties(r)) - 1) + (Scoring!Max(ties(r)) - 1)
           denominator == 2 * (Len(o) - 1)
           part(r) == IF direction = "higher" THEN doubled(r) ELSE denominator - doubled(r)
<1>1. \A r : Scoring!Percentile(series, r, direction)
              = IF Len(o) = 1 THEN Scoring!Rounded(1, 2) ELSE Scoring!Rounded(part(r), denominator)
  BY Zenon DEF Scoring!Percentile
<1>2. PICK P : P = Scoring!Present(series)
  OBVIOUS
<1>3. a \in P /\ b \in P /\ \A r \in P : series[r] \in Int
  BY <1>2, PresentFinite
<1>4. PICK n \in Nat \ {0} :
        /\ Len(o) = n /\ DOMAIN o = 1..n
        /\ \A i \in 1..n : o[i] \in P
        /\ \A r \in P : \E i \in 1..n : o[i] = r
        /\ \A i, j \in 1..n : i < j => series[o[i]] <= series[o[j]]
  BY <1>2, OrderedGives
<1> HIDE DEF o
<1>5. ASSUME NEW r \in P
      PROVE  /\ Scoring!Min(ties(r)) \in ties(r) /\ Scoring!Max(ties(r)) \in ties(r)
             /\ \A i \in ties(r) : Scoring!Min(ties(r)) <= i /\ i <= Scoring!Max(ties(r))
             /\ ties(r) \subseteq 1..n
  <2>1. ties(r) \subseteq 1..n /\ ties(r) # {}
    BY <1>4
  <2>2. IsFiniteSet(1..n)
    BY FS_Interval
  <2>3. IsFiniteSet(ties(r)) /\ ties(r) \subseteq Int
    BY <2>1, <2>2, FS_Subset
  <2> HIDE DEF ties
  <2> QED
    BY <2>1, <2>3, ExtremesAreThere
<1>6. ASSUME NEW r \in P PROVE doubled(r) \in 0..denominator
  <2>1. Scoring!Min(ties(r)) \in 1..n /\ Scoring!Max(ties(r)) \in 1..n
    BY <1>5
  <2> HIDE DEF ties
  <2> QED
    BY <1>4, <2>1
<1>7. ASSUME NEW r \in P, NEW s \in P, series[r] <= series[s] PROVE doubled(r) <= doubled(s)
  <2>1. CASE series[r] = series[s]
    <3>1. ties(r) = ties(s)
      BY <2>1
    <3> HIDE DEF ties
    <3>2. Scoring!Min(ties(r)) \in 1..n /\ Scoring!Max(ties(r)) \in 1..n
      BY <1>5
    <3> QED
      BY <3>1, <3>2
  <2>2. CASE series[r] < series[s]
    <3>1. \A i \in ties(r), j \in ties(s) : i < j
      <4> TAKE i \in ties(r), j \in ties(s)
      <4>1. i \in 1..n /\ j \in 1..n /\ series[o[i]] = series[r] /\ series[o[j]] = series[s]
        BY <1>4
      <4>2. ~(j < i) /\ i # j
        BY <1>3, <1>4, <2>2, <4>1
      <4> QED
        BY <4>1, <4>2
    <3>2. /\ Scoring!Min(ties(r)) \in ties(r) /\ Scoring!Max(ties(r)) \in ties(r)
          /\ Scoring!Min(ties(s)) \in ties(s) /\ Scoring!Max(ties(s)) \in ties(s)
          /\ ties(r) \subseteq 1..n /\ ties(s) \subseteq 1..n
      BY <1>5
    <3> HIDE DEF ties
    <3>3. /\ Scoring!Min(ties(r)) < Scoring!Min(ties(s))
          /\ Scoring!Max(ties(r)) < Scoring!Max(ties(s))
      BY <3>1, <3>2
    <3>4. /\ Scoring!Min(ties(r)) \in Int /\ Scoring!Max(ties(r)) \in Int
          /\ Scoring!Min(ties(s)) \in Int /\ Scoring!Max(ties(s)) \in Int
      BY <3>2
    <3> QED
      BY <3>3, <3>4
  <2> QED
    BY <1>3, <1>7, <2>1, <2>2
<1> HIDE DEF doubled
<1>8. \A r \in P : part(r) \in 0..denominator
  BY <1>4, <1>6
<1>9. Better(series, direction, a, b) => part(b) <= part(a)
  <2>1. doubled(a) \in Int /\ doubled(b) \in Int /\ denominator \in Int
    BY <1>3, <1>4, <1>6
  <2>2. CASE direction = "higher"
    <3>1. series[a] >= series[b] => series[b] <= series[a]
      BY <1>3
    <3> QED
      BY <1>3, <1>7, <2>2, <3>1 DEF Better
  <2>3. CASE direction # "higher"
    <3>1. series[a] <= series[b] => doubled(a) <= doubled(b)
      BY <1>3, <1>7
    <3> HIDE DEF denominator
    <3> QED
      BY <2>1, <2>3, <3>1 DEF Better
  <2> QED
    BY <2>2, <2>3
<1>10. CASE n = 1
  <2>1. Scoring!Rounded(1, 2) \in Nat
    BY RoundingGrows
  <2>2. /\ Scoring!Percentile(series, a, direction) = Scoring!Rounded(1, 2)
        /\ Scoring!Percentile(series, b, direction) = Scoring!Rounded(1, 2)
    BY <1>1, <1>4, <1>10
  <2> QED
    BY <2>1, <2>2
<1>11. CASE n # 1
  <2>1. denominator \in Nat \ {0} /\ part(a) \in Nat /\ part(b) \in Nat
    BY <1>3, <1>4, <1>8, <1>11
  <2>2. /\ Scoring!Percentile(series, a, direction) = Scoring!Rounded(part(a), denominator)
        /\ Scoring!Percentile(series, b, direction) = Scoring!Rounded(part(b), denominator)
    BY <1>1, <1>4, <1>11
  <2> HIDE DEF denominator, part
  <2>3. Scoring!Rounded(part(a), denominator) \in Nat
    BY <2>1, RoundingGrows
  <2>4. part(b) <= part(a) =>
          Scoring!Rounded(part(b), denominator) <= Scoring!Rounded(part(a), denominator)
    BY <2>1, RoundingGrows
  <2> QED
    BY <1>9, <2>2, <2>3, <2>4
<1> QED
  BY <1>10, <1>11

(* What a region has of an indicator: a number if it has a value.          *)
LEMMA NormalizedGives ==
  ASSUME NEW series, SeriesFits(series), NEW direction, NEW method,
         NEW a \in DOMAIN series, NEW b \in DOMAIN series
  PROVE  /\ series[a] = None <=> Scoring!Normalized(series, a, method, direction) = None
         /\ series[a] # None =>
              /\ Scoring!Normalized(series, a, method, direction) \in Nat
              /\ method = "min_max" /\ Tops(series, direction, a) =>
                   Scoring!Normalized(series, a, method, direction) = Unit
         /\ series[a] # None /\ series[b] # None /\ Better(series, direction, a, b) =>
              Scoring!Normalized(series, b, method, direction)
                <= Scoring!Normalized(series, a, method, direction)
<1>1. Scoring!None = None /\ None = -1
  BY DEF Scoring!None, None
<1>2. \A r \in DOMAIN series : r \in Scoring!Present(series) <=> series[r] # None
  BY <1>1 DEF Scoring!Present
<1>3. \A r : Scoring!Normalized(series, r, method, direction)
             = IF r \notin Scoring!Present(series) THEN None
               ELSE IF method = "min_max" THEN Scoring!MinMax(series, r, direction)
               ELSE Scoring!Percentile(series, r, direction)
  BY <1>1 DEF Scoring!Normalized
<1>4. \A r \in Scoring!Present(series) : Scoring!Normalized(series, r, method, direction) \in Nat
  BY <1>3, MinMaxGives, PercentileGives
<1>5. series[a] = None <=> Scoring!Normalized(series, a, method, direction) = None
  BY <1>1, <1>2, <1>3, <1>4
<1>6. ASSUME series[a] # None, method = "min_max", Tops(series, direction, a)
      PROVE  Scoring!Normalized(series, a, method, direction) = Unit
  BY <1>2, <1>3, <1>6, MinMaxGives
<1>7. ASSUME series[a] # None, series[b] # None, Better(series, direction, a, b)
      PROVE  Scoring!Normalized(series, b, method, direction)
                <= Scoring!Normalized(series, a, method, direction)
  <2>1. a \in Scoring!Present(series) /\ b \in Scoring!Present(series)
    BY <1>2, <1>7
  <2> QED
    BY <1>3, <1>7, <2>1, MinMaxGives, PercentileGives
<1> QED
  BY <1>2, <1>4, <1>5, <1>6, <1>7

(* What a total of the score engine adds up.                              *)
LEMMA ScoringTotals ==
  ASSUME NEW f
  PROVE  Scoring!Total(f) = Sums(f, DOMAIN f)[DOMAIN f]
BY Zenon DEF Scoring!Total, Scoring!MapThenSumSet, Scoring!MapThenFoldSet, Sums, Adds, Pick

(* A request that can be scored.                                           *)
RequestFits(request) ==
  /\ request.threshold \in Nat
  /\ \E m \in Nat \ {0} : DOMAIN request.weights = 1..m /\ Len(request.weights) = m
  /\ \A i \in DOMAIN request.weights :
       request.weights[i].weight \in Nat /\ request.weights[i].code \in DOMAIN request.values
  /\ \A code \in DOMAIN request.values :
       SeriesFits(request.values[code]) /\ ToSet(request.regions) \subseteq DOMAIN request.values[code]

(* The observation of a region in the indicator at a place.                *)
Seen(request, i, r) == request.values[request.weights[i].code][r]
PartOf(request, i, r) == Scoring!NormalizedFor(request, request.weights[i], r)

(* A part is a number where there is an observation; the best of all has  *)
(* all of it under min_max, and a better region has as much at least.     *)
LEMMA PartGivesNumber ==
  ASSUME NEW request, RequestFits(request), NEW a \in ToSet(request.regions),
         NEW b \in ToSet(request.regions), NEW i \in DOMAIN request.weights
  PROVE  /\ Seen(request, i, a) = None <=> PartOf(request, i, a) = None
         /\ Seen(request, i, a) # None => PartOf(request, i, a) \in Nat
         /\ /\ Seen(request, i, a) # None /\ request.method = "min_max"
            /\ Tops(request.values[request.weights[i].code], request.weights[i].direction, a)
            => PartOf(request, i, a) = Unit
         /\ /\ Seen(request, i, a) # None /\ Seen(request, i, b) # None
            /\ Better(request.values[request.weights[i].code], request.weights[i].direction, a, b)
            => PartOf(request, i, b) <= PartOf(request, i, a)
<1>1. PICK series : series = request.values[request.weights[i].code]
  OBVIOUS
<1>2. SeriesFits(series) /\ a \in DOMAIN series /\ b \in DOMAIN series
  BY <1>1 DEF RequestFits
<1>3. \A r : PartOf(request, i, r)
             = Scoring!Normalized(series, r, request.method, request.weights[i].direction)
  BY <1>1 DEF PartOf, Scoring!NormalizedFor
<1>4. Seen(request, i, a) = series[a] /\ Seen(request, i, b) = series[b]
  BY <1>1 DEF Seen
<1>5. PICK direction : direction = request.weights[i].direction
  OBVIOUS
<1>6. PICK method : method = request.method
  OBVIOUS
<1>7. PICK given : /\ given[a] = Scoring!Normalized(series, a, method, direction)
                   /\ given[b] = Scoring!Normalized(series, b, method, direction)
  <2>1. \E g : g = [r \in DOMAIN series |-> Scoring!Normalized(series, r, method, direction)]
    OBVIOUS
  <2> QED
    BY <1>2, <2>1
<1>8. /\ series[a] = None <=> given[a] = None
      /\ series[a] # None => given[a] \in Nat
      /\ series[a] # None /\ method = "min_max" /\ Tops(series, direction, a) => given[a] = Unit
      /\ series[a] # None /\ series[b] # None /\ Better(series, direction, a, b)
           => given[b] <= given[a]
  BY <1>2, <1>7, NormalizedGives
<1>9. PartOf(request, i, a) = given[a] /\ PartOf(request, i, b) = given[b]
  BY <1>3, <1>5, <1>6, <1>7
<1> QED
  BY <1>1, <1>4, <1>5, <1>6, <1>8, <1>9

(* What a score is made of.                                                *)
LEMMA PartsOfScore ==
  ASSUME NEW request, RequestFits(request), NEW r \in ToSet(request.regions),
         NEW A, A = {i \in DOMAIN request.weights : Seen(request, i, r) # None},
         NEW w, w = [i \in A |-> request.weights[i].weight],
         NEW p, p = [i \in A |-> PartOf(request, i, r) * request.weights[i].weight]
  PROVE  /\ Scoring!Available(request, r) = A /\ IsFiniteSet(A) /\ A \subseteq DOMAIN request.weights
         /\ Scoring!AvailableWeight(request, r) \in Nat
         /\ Scoring!AvailableWeight(request, r) = Sums(w, A)[A]
         /\ Scoring!Weighted(request, r) \in Nat
         /\ Scoring!Weighted(request, r) = Sums(p, A)[A]
<1>1. Scoring!None = None
  BY DEF Scoring!None, None
<1>2. Scoring!Available(request, r) = A
  BY <1>1, PartGivesNumber DEF Scoring!Available, PartOf
<1>3. IsFiniteSet(A) /\ A \subseteq DOMAIN request.weights
  <2>1. PICK m \in Nat : DOMAIN request.weights = 1..m
    BY DEF RequestFits
  <2>2. IsFiniteSet(1..m)
    <3>1. 1 \in Int /\ m \in Int
      OBVIOUS
    <3> QED
      BY <3>1, FS_Interval
  <2> QED
    BY <2>1, <2>2, FS_Subset
<1>4. \A i \in A : w[i] \in Nat /\ p[i] \in Nat
  <2> TAKE i \in A
  <2>1. request.weights[i].weight \in Nat /\ PartOf(request, i, r) \in Nat
    BY <1>3, PartGivesNumber DEF RequestFits
  <2>2. \A x, y \in Nat : x * y \in Nat
    OBVIOUS
  <2> QED
    BY <2>1, <2>2
<1>5. Scoring!AvailableWeight(request, r) = Sums(w, A)[A]
  <2>1. Scoring!AvailableWeight(request, r) = Scoring!Total(w)
    BY <1>2 DEF Scoring!AvailableWeight, Scoring!Weight
  <2>2. DOMAIN w = A
    OBVIOUS
  <2> QED
    BY <2>1, <2>2, ScoringTotals
<1>6. Scoring!Weighted(request, r) = Sums(p, A)[A]
  <2>1. Scoring!Weighted(request, r) = Scoring!Total(p)
    BY <1>2, Zenon DEF Scoring!Weighted, PartOf
  <2>2. DOMAIN p = A
    OBVIOUS
  <2> QED
    BY <2>1, <2>2, ScoringTotals
<1>7. Sums(w, A)[A] \in Nat /\ Sums(p, A)[A] \in Nat
  BY <1>3, <1>4, SumIsNumber
<1> QED
  BY <1>2, <1>3, <1>5, <1>6, <1>7

(* A region has a score exactly when enough of the weight is available; it*)
(* is then its weighted parts over that weight.                           *)
LEMMA ScoreGives ==
  ASSUME NEW request, RequestFits(request), NEW r \in ToSet(request.regions)
  PROVE  /\ Scoring!Score(request, r) = None <=> ~Scoring!Eligible(request, r)
         /\ Scoring!Score(request, r) # None => Scoring!Score(request, r) \in Nat
         /\ Scoring!Eligible(request, r) =>
              /\ Scoring!AvailableWeight(request, r) > 0
              /\ Scoring!Score(request, r)
                 = (100 * Scoring!Weighted(request, r) + Scoring!AvailableWeight(request, r) \div 2)
                   \div Scoring!AvailableWeight(request, r)
<1>1. Scoring!None = None /\ None = -1
  BY DEF Scoring!None, None
<1>2. Scoring!AvailableWeight(request, r) \in Nat /\ Scoring!Weighted(request, r) \in Nat
  <2>1. PICK A : A = {i \in DOMAIN request.weights : Seen(request, i, r) # None}
    OBVIOUS
  <2>2. PICK w : w = [i \in A |-> request.weights[i].weight]
    OBVIOUS
  <2>3. PICK p : p = [i \in A |-> PartOf(request, i, r) * request.weights[i].weight]
    OBVIOUS
  <2> QED
    BY <2>1, <2>2, <2>3, PartsOfScore
<1>3. CASE ~Scoring!Eligible(request, r)
  BY <1>1, <1>3 DEF Scoring!Score
<1>4. CASE Scoring!Eligible(request, r)
  <2>1. Scoring!AvailableWeight(request, r) > 0
    BY <1>4 DEF Scoring!Eligible
  <2>2. Scoring!Score(request, r)
        = (100 * Scoring!Weighted(request, r) + Scoring!AvailableWeight(request, r) \div 2)
          \div Scoring!AvailableWeight(request, r)
    BY <1>4 DEF Scoring!Score
  <2>3. \A x, t \in Nat : t > 0 => (100 * x + t \div 2) \div t \in Nat
    OBVIOUS
  <2>4. Scoring!Score(request, r) \in Nat
    BY <1>2, <2>1, <2>2, <2>3
  <2> QED
    BY <1>1, <1>4, <2>1, <2>2, <2>4
<1> QED
  BY <1>3, <1>4

(* At least as good in everything is at least as high a score.             *)
LEMMA ScoreGrows ==
  ASSUME NEW request, RequestFits(request), NEW a \in ToSet(request.regions),
         NEW b \in ToSet(request.regions), AtLeastAsGood(request, a, b),
         Scoring!Score(request, a) # None, Scoring!Score(request, b) # None
  PROVE  Scoring!Score(request, b) <= Scoring!Score(request, a)
<1>1. PICK A : A = {i \in DOMAIN request.weights : Seen(request, i, a) # None}
  OBVIOUS
<1>2. PICK C : C = {i \in DOMAIN request.weights : Seen(request, i, b) # None}
  OBVIOUS
<1>3. \A r : \A i \in DOMAIN request.weights :
        request.weights[i] \in HasValues(request, r) <=> Seen(request, i, r) # None
  BY DEF HasValues, Seen, ToSet
<1>4. A = C
  <2>1. HasValues(request, a) = HasValues(request, b)
    BY DEF AtLeastAsGood
  <2> QED
    BY <1>1, <1>2, <1>3, <2>1
<1>5. ASSUME NEW i \in A
      PROVE  /\ PartOf(request, i, a) \in Nat /\ PartOf(request, i, b) \in Nat
             /\ PartOf(request, i, b) <= PartOf(request, i, a)
  <2>1. i \in DOMAIN request.weights /\ Seen(request, i, a) # None /\ Seen(request, i, b) # None
    BY <1>1, <1>2, <1>4
  <2>2. Better(request.values[request.weights[i].code], request.weights[i].direction, a, b)
    <3>1. request.weights[i] \in HasValues(request, a)
      BY <1>3, <2>1
    <3> QED
      BY <3>1 DEF AtLeastAsGood, Better
  <2> QED
    BY <2>1, <2>2, PartGivesNumber
<1>6. PICK p : p = [i \in A |-> PartOf(request, i, a) * request.weights[i].weight]
  OBVIOUS
<1>7. PICK q : q = [i \in A |-> PartOf(request, i, b) * request.weights[i].weight]
  OBVIOUS
<1>8. /\ IsFiniteSet(A) /\ A \subseteq DOMAIN request.weights
      /\ Scoring!AvailableWeight(request, a) = Scoring!AvailableWeight(request, b)
      /\ Scoring!AvailableWeight(request, a) \in Nat
      /\ Scoring!Weighted(request, a) \in Nat /\ Scoring!Weighted(request, a) = Sums(p, A)[A]
      /\ Scoring!Weighted(request, b) \in Nat /\ Scoring!Weighted(request, b) = Sums(q, A)[A]
  <2>1. PICK w : w = [i \in A |-> request.weights[i].weight]
    OBVIOUS
  <2>2. A = {i \in DOMAIN request.weights : Seen(request, i, b) # None}
    BY <1>2, <1>4
  <2>3. /\ IsFiniteSet(A) /\ A \subseteq DOMAIN request.weights
        /\ Scoring!AvailableWeight(request, a) \in Nat
    BY <1>1, <1>6, <2>1, PartsOfScore
  <2>5. Scoring!AvailableWeight(request, a) = Sums(w, A)[A]
    BY <1>1, <1>6, <2>1, PartsOfScore
  <2>6. Scoring!Weighted(request, a) \in Nat /\ Scoring!Weighted(request, a) = Sums(p, A)[A]
    BY <1>1, <1>6, <2>1, PartsOfScore
  <2>4. /\ Scoring!AvailableWeight(request, b) = Sums(w, A)[A]
        /\ Scoring!Weighted(request, b) \in Nat /\ Scoring!Weighted(request, b) = Sums(q, A)[A]
    BY <1>7, <2>1, <2>2, PartsOfScore, SMTT(30)
  <2> QED
    BY <2>3, <2>4, <2>5, <2>6
<1>9. \A i \in A : q[i] \in Int /\ p[i] \in Int /\ q[i] <= p[i]
  <2> TAKE i \in A
  <2>1. request.weights[i].weight \in Nat
    BY <1>8 DEF RequestFits
  <2>2. \A x, y, w \in Nat : x <= y => x * w \in Int /\ y * w \in Int /\ x * w <= y * w
    OBVIOUS
  <2> QED
    BY <1>5, <1>6, <1>7, <2>1, <2>2
<1>10. Scoring!Weighted(request, b) <= Scoring!Weighted(request, a)
  BY <1>8, <1>9, SumGrows
<1>11. PICK t \in Nat : t = Scoring!AvailableWeight(request, a)
  BY <1>8
<1>12. /\ t > 0
       /\ Scoring!Score(request, a) = (100 * Scoring!Weighted(request, a) + t \div 2) \div t
       /\ Scoring!Score(request, b) = (100 * Scoring!Weighted(request, b) + t \div 2) \div t
  BY <1>8, <1>11, ScoreGives
<1>13. PICK h \in Nat : h = t \div 2
  BY <1>11
<1>14. /\ 100 * Scoring!Weighted(request, b) + h \in Nat
       /\ 100 * Scoring!Weighted(request, a) + h \in Nat
       /\ 100 * Scoring!Weighted(request, b) + h <= 100 * Scoring!Weighted(request, a) + h
  BY <1>8, <1>10
<1> QED
  BY <1>12, <1>13, <1>14, QuotientGrows

(* The best in everything it has scores 100.                               *)
LEMMA ScoreOfBest ==
  ASSUME NEW request, RequestFits(request), NEW r \in ToSet(request.regions),
         BestInAll(request, r), Scoring!Score(request, r) # None
  PROVE  Scoring!Score(request, r) = 100 * Unit
<1>1. PICK A : A = {i \in DOMAIN request.weights : Seen(request, i, r) # None}
  OBVIOUS
<1>2. PICK w : w = [i \in A |-> request.weights[i].weight]
  OBVIOUS
<1>3. PICK p : p = [i \in A |-> PartOf(request, i, r) * request.weights[i].weight]
  OBVIOUS
<1>4. PICK t : t = Scoring!AvailableWeight(request, r)
  OBVIOUS
<1>5. /\ IsFiniteSet(A) /\ A \subseteq DOMAIN request.weights
      /\ t \in Nat /\ t = Sums(w, A)[A]
      /\ Scoring!Weighted(request, r) = Sums(p, A)[A]
  BY <1>1, <1>2, <1>3, <1>4, PartsOfScore
<1>6. Scoring!None = None /\ Unit \in Nat
  BY UnitAssumption DEF Scoring!None, None, UnitAssumption
<1>7. ASSUME NEW i \in A PROVE PartOf(request, i, r) = Unit
  <2>1. i \in DOMAIN request.weights /\ Seen(request, i, r) # None
    BY <1>1
  <2>2. request.weights[i] \in HasValues(request, r)
    BY <2>1 DEF HasValues, Seen, ToSet
  <2>3. PICK series : series = request.values[request.weights[i].code]
    OBVIOUS
  <2>4. PICK known : known = {s \in DOMAIN series : series[s] # None}
    OBVIOUS
  <2>5. known = Scoring!Present(series)
    BY <1>6, <2>4 DEF Scoring!Present
  <2>6. SeriesFits(series) /\ r \in DOMAIN series
    BY <2>1, <2>3 DEF RequestFits
  <2>7. \A s \in known : series[s] \in Int
    BY <2>4, <2>6 DEF SeriesFits
  <2>8. r \in known
    BY <2>1, <2>3, <2>4, <2>6 DEF Seen
  <2>9. Tops(series, request.weights[i].direction, r)
    <3>1. CASE request.weights[i].direction = "higher"
      <4>1. (\E s \in known : series[s] < series[r]) /\ ~(\E s \in known : series[r] < series[s])
        BY <2>2, <2>3, <2>4, <3>1 DEF BestInAll
      <4> QED
        BY <2>5, <2>7, <2>8, <3>1, <4>1 DEF Tops, Better
    <3>2. CASE request.weights[i].direction # "higher"
      <4>1. (\E s \in known : series[s] > series[r]) /\ ~(\E s \in known : series[r] > series[s])
        BY <2>2, <2>3, <2>4, <3>2 DEF BestInAll
      <4> QED
        BY <2>5, <2>7, <2>8, <3>2, <4>1 DEF Tops, Better
    <3> QED
      BY <3>1, <3>2
  <2> QED
    BY <2>1, <2>3, <2>9, PartGivesNumber DEF BestInAll
<1>8. \A i \in A : w[i] \in Int /\ p[i] = Unit * w[i]
  BY <1>2, <1>3, <1>5, <1>7 DEF RequestFits
<1>9. Scoring!Weighted(request, r) = Unit * t
  <2>1. PICK c \in Int : c = Unit
    BY <1>6
  <2>2. \A i \in A : w[i] \in Int /\ p[i] = c * w[i]
    BY <1>8, <2>1
  <2>3. Sums(p, A)[A] = c * Sums(w, A)[A]
    BY <1>5, <2>2, SumIsScaled
  <2> QED
    BY <1>5, <2>1, <2>3
<1>10. t > 0 /\ Scoring!Score(request, r) = (100 * (Unit * t) + t \div 2) \div t
  BY <1>4, <1>9, ScoreGives
<1>11. 100 * (Unit * t) = (100 * Unit) * t /\ 100 * Unit \in Nat
  BY <1>5, <1>6
<1>12. ((100 * Unit) * t + t \div 2) \div t = 100 * Unit
  <2>1. PICK c \in Nat : c = 100 * Unit
    BY <1>11
  <2>2. t \in Nat \ {0}
    BY <1>5, <1>10
  <2>3. (c * t + t \div 2) \div t = c
    BY <2>2, QuotientOfMultiple
  <2> QED
    BY <2>1, <2>3
<1> QED
  BY <1>10, <1>11, <1>12

(* at[i] is the element in place i of 1..n, each of R once.                *)
Seats(R, n, at) ==
  /\ n \in Nat
  /\ \A i \in 1..n : at[i] \in R
  /\ \A r \in R : \E i \in 1..n : at[i] = r
  /\ \A i, j \in 1..n : at[i] = at[j] => i = j

(* A set that begins such a list has the first places.                     *)
LEMMA FirstPlaces ==
  ASSUME NEW R, IsFiniteSet(R), NEW n, NEW at, Seats(R, n, at), NEW T \in SUBSET R,
         \A i, j \in 1..n : i < j /\ at[j] \in T => at[i] \in T
  PROVE  /\ Cardinality(T) \in Nat
         /\ \A i \in 1..n : at[i] \in T <=> i <= Cardinality(T)
<1>0. n \in Nat /\ \A i \in 1..n : i \in Int
  BY DEF Seats
<1>1. PICK P : P = {i \in 1..n : at[i] \in T}
  OBVIOUS
<1>2. \E m \in Nat : m <= n /\ P = 1..m
  <2>1. CASE P = {}
    <3>1. P = 1..0 /\ 0 <= n
      BY <1>0, <2>1
    <3> QED
      BY <3>1
  <2>2. CASE P # {}
    <3>1. IsFiniteSet(1..n)
      <4>1. 1 \in Int /\ n \in Int
        BY <1>0
      <4> QED
        BY <4>1, FS_Interval
    <3>2. IsFiniteSet(P) /\ P \subseteq Int
      BY <1>0, <1>1, <3>1, FS_Subset
    <3>3. PICK m \in P : \A i \in P : m >= i
      BY <2>2, <3>2, GreatestIsThere
    <3>4. m \in 1..n /\ \A i \in 1..n : i < m => i \in P
      BY <1>1, <3>3
    <3>5. P = 1..m
      BY <1>0, <1>1, <3>3, <3>4
    <3> QED
      BY <1>0, <3>4, <3>5
  <2> QED
    BY <2>1, <2>2
<1>3. PICK m \in Nat : m <= n /\ P = 1..m
  BY <1>2
<1>4. \A i \in 1..m : i \in 1..n /\ at[i] \in T
  BY <1>1, <1>3
<1>5. \A t \in T : \E i \in 1..m : at[i] = t
  <2> TAKE t \in T
  <2>1. PICK i \in 1..n : at[i] = t
    BY DEF Seats
  <2> QED
    BY <1>1, <1>3, <2>1
<1>6. PICK f : f = [i \in 1..m |-> at[i]]
  OBVIOUS
<1>7. f \in Bijection(1..m, T)
  <2>1. f \in [1..m -> T]
    BY <1>4, <1>6
  <2>2. \A i, j \in 1..m : f[i] = f[j] => i = j
    BY <1>4, <1>6 DEF Seats
  <2>3. \A t \in T : \E i \in 1..m : f[i] = t
    BY <1>5, <1>6
  <2> QED
    BY <2>1, <2>2, <2>3 DEF Bijection, Injection, Surjection, IsInjective
<1>8. IsFiniteSet(1..m) /\ Cardinality(1..m) = m
  <2>1. 1 \in Int /\ m \in Int
    OBVIOUS
  <2>2. IsFiniteSet(1..m) /\ Cardinality(1..m) = IF 1 > m THEN 0 ELSE m - 1 + 1
    BY <2>1, FS_Interval
  <2> QED
    BY <2>2
<1>9. Cardinality(T) = m
  BY <1>7, <1>8, FS_Bijection DEF ExistsBijection
<1> QED
  BY <1>0, <1>1, <1>3, <1>9

(* A place p whose score is that of place i, and before which there is no  *)
(* such place.                                                             *)
Heads(score, p, i) == score[p] = score[i] /\ (p = 1 \/ score[p - 1] # score[i])

(* Those with a higher score.                                              *)
Above(R, sc, r) == {s \in R : sc[s] > sc[r]}

(* Down a list of scores, as many are higher as there are places before    *)
(* the first of the equals.                                                *)
LEMMA Standing ==
  ASSUME NEW R, IsFiniteSet(R), NEW n, NEW at, Seats(R, n, at), NEW sc,
         \A r \in R : sc[r] \in Int, NEW score, \A i \in 1..n : score[i] = sc[at[i]],
         \A i, j \in 1..n : i < j => score[j] <= score[i], NEW i \in 1..n,
         NEW higher, higher = Above(R, sc, at[i])
  PROVE  /\ Cardinality(higher) \in Nat
         /\ \E p \in 1..i : Heads(score, p, i)
         /\ \A p \in 1..i : Heads(score, p, i) => p = 1 + Cardinality(higher)
<1>0. n \in Nat /\ \A j \in 1..n : at[j] \in R /\ score[j] \in Int /\ score[j] = sc[at[j]]
  BY DEF Seats
<1>1. \A j \in 1..n : at[j] \in higher <=> score[j] > score[i]
  BY <1>0 DEF Above
<1>2. \A j, k \in 1..n : j < k /\ at[k] \in higher => at[j] \in higher
  BY <1>0, <1>1
<1>3. higher \in SUBSET R
  BY DEF Above
<1>4. Cardinality(higher) \in Nat /\ \A j \in 1..n : at[j] \in higher <=> j <= Cardinality(higher)
  BY <1>2, <1>3, FirstPlaces
<1>5. PICK c \in Nat : c = Cardinality(higher)
  BY <1>4
<1>6. \A j \in 1..n : score[j] > score[i] <=> j <= c
  BY <1>1, <1>4, <1>5
<1>7. i > c /\ i \in Nat
  BY <1>0, <1>6
<1>8. Heads(score, c + 1, i) /\ c + 1 \in 1..i
  <2>1. c + 1 \in 1..n /\ c + 1 \in 1..i
    BY <1>0, <1>7
  <2>2. score[c + 1] = score[i]
    <3>1. score[c + 1] <= score[i]
      BY <1>0, <1>6, <2>1
    <3>2. c + 1 < i => score[c + 1] >= score[i]
      BY <1>0, <2>1
    <3> QED
      BY <1>0, <1>7, <2>1, <3>1, <3>2
  <2>3. c + 1 = 1 \/ score[c + 1 - 1] # score[i]
    <3>1. CASE c # 0
      <4>1. c \in 1..n
        BY <1>0, <1>7, <3>1
      <4>2. score[c] > score[i] /\ c + 1 - 1 = c
        BY <1>6, <4>1
      <4> QED
        BY <1>0, <4>1, <4>2
    <3> QED
      BY <3>1
  <2> QED
    BY <2>1, <2>2, <2>3 DEF Heads
<1>9. ASSUME NEW p \in 1..i, Heads(score, p, i) PROVE p = 1 + c
  <2>1. p \in 1..n /\ score[p] = score[i] /\ p \in Nat
    BY <1>0, <1>9 DEF Heads
  <2>2. p > c
    BY <1>0, <1>6, <2>1
  <2>3. CASE p = 1
    BY <2>2, <2>3
  <2>4. CASE p # 1
    <3>1. PICK j \in 1..n : j = p - 1
      BY <1>0, <2>1, <2>4
    <3>2. j < p /\ score[j] # score[i]
      BY <1>9, <2>1, <2>4, <3>1 DEF Heads
    <3>3. score[j] >= score[p]
      BY <2>1, <3>2
    <3>4. score[j] > score[i]
      BY <1>0, <2>1, <3>2, <3>3
    <3>5. j <= c
      BY <1>6, <3>4
    <3> QED
      BY <2>1, <2>2, <3>1, <3>5
  <2> QED
    BY <2>3, <2>4
<1> QED
  BY <1>5, <1>8, <1>9

(* The rows, one for each region, the highest score first.                 *)
RowsGiven(R, sc, o, n, at) ==
  /\ Seats(R, n, at)
  /\ n = Cardinality(R) /\ DOMAIN o = 1..n
  /\ \A i \in 1..n : o[i].region = at[i] /\ o[i].score = sc[at[i]]
  /\ \A i, j \in 1..n : i < j => o[j].score <= o[i].score

(* The rows with a score: one for each region, the highest first.         *)
LEMMA ScoredRowsGive ==
  ASSUME NEW request, NEW R, R = ToSet(request.regions), IsFiniteSet(R), R \subseteq Int,
         NEW sc, sc = [r \in R |-> Scoring!Score(request, r)], \A r \in R : sc[r] \in Int,
         NEW o, o = Scoring!ScoredRows(request)
  PROVE  \E n, at : RowsGiven(R, sc, o, n, at)
<1> DEFINE S == {[region |-> r, score |-> Scoring!Score(request, r)] : r \in Scoring!ToSet(request.regions)}
           e(i) == CHOOSE x \in S : Scoring!Cardinality({y \in S :
                     y.score > x.score \/ (y.score = x.score /\ y.region < x.region)}) = i - 1
<1>1. o = [i \in 1..Scoring!Cardinality(S) |-> e(i)]
  BY Zenon DEF Scoring!ScoredRows, Scoring!InOrder
<1>2. PICK row : row = [r \in R |-> [region |-> r, score |-> sc[r]]]
  OBVIOUS
<1>3. S = {row[r] : r \in R}
  <2>1. Scoring!ToSet(request.regions) = R
    BY Zenon DEF Scoring!ToSet, ToSet
  <2> QED
    BY <1>2, <2>1
<1> HIDE DEF S
<1>4. \A r \in R : row[r] \in S /\ row[r].region = r /\ row[r].score = sc[r] /\ r \in Int /\ sc[r] \in Int
  BY <1>2, <1>3
<1>5. \A x \in S : \E r \in R : x = row[r]
  BY <1>3
<1>6. \A x \in S : x.region \in R /\ x.region \in Int /\ x.score = sc[x.region] /\ x.score \in Int
                   /\ x = row[x.region]
  BY <1>4, <1>5
<1>7. IsFiniteSet(S)
  <2>1. DOMAIN row = R
    BY <1>2
  <2> QED
    BY <1>3, <2>1, ImageFinite
<1>8. Cardinality(S) = Cardinality(R)
  <2>1. row \in [R -> S]
    BY <1>2, <1>4
  <2>2. \A r, s \in R : row[r] = row[s] => r = s
    BY <1>4
  <2>3. \A x \in S : \E r \in R : row[r] = x
    BY <1>6
  <2>4. row \in Bijection(R, S)
    BY <2>1, <2>2, <2>3 DEF Bijection, Injection, Surjection, IsInjective
  <2> QED
    BY <2>4, FS_Bijection DEF ExistsBijection
<1>9. PICK B : B = [x \in S |-> {y \in S :
                     y.score > x.score \/ (y.score = x.score /\ y.region < x.region)}]
  OBVIOUS
<1>10. Lists(S, B, o)
  BY <1>1, <1>9, SameCountOfScores DEF Lists
<1> HIDE DEF e
<1>11. PICK v : v = [x \in S |-> x.score]
  OBVIOUS
<1>12. PICK z : z = [x \in S |-> x.region]
  OBVIOUS
<1>13. /\ \A x \in S : v[x] \in Int /\ z[x] \in Int
       /\ \A x, y \in S : z[x] = z[y] => x = y
       /\ \A x \in S : B[x] \in SUBSET S
       /\ \A x, y \in S : y \in B[x] <=> v[y] > v[x] \/ (v[y] = v[x] /\ z[y] < z[x])
  BY <1>6, <1>9, <1>11, <1>12
<1>14. Precedes(S, B)
  <2>1. \A x \in S : B[x] \in SUBSET S /\ x \notin B[x]
    BY <1>13
  <2>2. ASSUME NEW x \in S, NEW y \in S, y \in B[x] PROVE B[y] \subseteq B[x]
    <3> SUFFICES ASSUME NEW w \in B[y] PROVE w \in B[x]
      OBVIOUS
    <3>1. w \in S
      BY <1>13
    <3> QED
      BY <1>13, <2>2, <3>1
  <2>3. \A x, y \in S : x = y \/ x \in B[y] \/ y \in B[x]
    BY <1>13
  <2> QED
    BY <2>1, <2>2, <2>3 DEF Precedes
<1>15. PICK n : n = Cardinality(S)
  OBVIOUS
<1>16. /\ n \in Nat /\ DOMAIN o = 1..n
       /\ \A i \in 1..n : o[i] \in S
       /\ \A x \in S : \E i \in 1..n : o[i] = x
       /\ \A i, j \in 1..n : i < j <=> o[i] \in B[o[j]]
       /\ \A i, j \in 1..n : o[i] = o[j] => i = j
  BY <1>7, <1>10, <1>14, <1>15, ListIsInOrder
<1>17. PICK at : at = [i \in 1..n |-> o[i].region]
  OBVIOUS
<1>18. Seats(R, n, at)
  <2>1. \A i \in 1..n : at[i] \in R
    BY <1>6, <1>16, <1>17
  <2>2. ASSUME NEW r \in R PROVE \E i \in 1..n : at[i] = r
    <3>1. row[r] \in S /\ row[r].region = r
      BY <1>4
    <3>2. PICK i \in 1..n : o[i] = row[r]
      BY <1>16, <3>1
    <3> QED
      BY <1>17, <3>1, <3>2
  <2>3. ASSUME NEW i \in 1..n, NEW j \in 1..n, at[i] = at[j] PROVE i = j
    BY <1>6, <1>16, <1>17, <2>3
  <2> QED
    BY <1>16, <2>1, <2>2, <2>3 DEF Seats
<1>19. \A i \in 1..n : o[i].region = at[i] /\ o[i].score = sc[at[i]]
  BY <1>6, <1>16, <1>17
<1>20. \A i, j \in 1..n : i < j => o[j].score <= o[i].score
  <2>1. \A x, y \in S : y \in B[x] => x.score <= y.score
    BY <1>6, <1>9
  <2> QED
    BY <1>16, <2>1
<1> QED
  BY <1>8, <1>15, <1>16, <1>18, <1>19, <1>20 DEF RowsGiven

(* The rank is the place at which the equals begin.                       *)
LEMMA RankGives ==
  ASSUME NEW o, NEW i, NEW score, \A p \in 1..i : score[p] = o[p].score, i \in Nat \ {0}, NEW k,
         \E p \in 1..i : Heads(score, p, i), \A p \in 1..i : Heads(score, p, i) => p = k
  PROVE  Scoring!Rank(o, i) = k
<1> DEFINE Is(p) == o[p].score = o[i].score /\ (p = 1 \/ o[p - 1].score # o[i].score)
<1>1. \A p \in 1..i : Is(p) <=> Heads(score, p, i)
  <2> TAKE p \in 1..i
  <2>1. i \in 1..i /\ (p # 1 => p - 1 \in 1..i)
    OBVIOUS
  <2> QED
    BY <2>1 DEF Heads
<1>2. Scoring!Rank(o, i) = CHOOSE p \in 1..i : Is(p)
  BY Zenon DEF Scoring!Rank
<1> HIDE DEF Is
<1> QED
  BY <1>1, <1>2

(* What the rows of a request say of a region.                             *)
RowsSay(R, sc, rows, n, at) ==
  /\ Seats(R, n, at)
  /\ n = Cardinality(R) /\ DOMAIN rows = 1..n /\ Len(rows) = n
  /\ \A i, j \in 1..n : i < j => sc[at[j]] <= sc[at[i]]
  /\ \A i \in 1..n :
       /\ rows[i].region = at[i] /\ rows[i].score = sc[at[i]]
       /\ sc[at[i]] # None => rows[i].rank = 1 + Cardinality(Above(R, sc, at[i]))
       /\ sc[at[i]] = None => rows[i].rank = None

(* The rows of a request: those with a score in order, then the others.   *)
LEMMA RowsGive ==
  ASSUME NEW request, Scoring!Scorable(request),
         NEW R, R = ToSet(request.regions), IsFiniteSet(R), R \subseteq Int,
         NEW sc, sc = [r \in R |-> Scoring!Score(request, r)], \A r \in R : sc[r] \in Int,
         NEW rows, rows = Scoring!ScoreRegions(request).results
  PROVE  \E n, at : RowsSay(R, sc, rows, n, at)
<1>1. Scoring!None = None
  BY DEF Scoring!None, None
<1>2. PICK o : o = Scoring!ScoredRows(request)
  OBVIOUS
<1>3. PICK n, at : RowsGiven(R, sc, o, n, at)
  BY <1>2, ScoredRowsGive
<1>4. /\ Seats(R, n, at) /\ n \in Nat
      /\ n = Cardinality(R) /\ DOMAIN o = 1..n
      /\ \A i \in 1..n : at[i] \in R /\ o[i].region = at[i] /\ o[i].score = sc[at[i]]
      /\ \A i, j \in 1..n : i < j => o[j].score <= o[i].score
  BY <1>3 DEF RowsGiven, Seats
<1>5. rows = [i \in 1..n |-> [region |-> o[i].region, score |-> o[i].score,
                rank |-> IF o[i].score = None THEN None ELSE Scoring!Rank(o, i)]]
  BY <1>1, <1>2, <1>4 DEF Scoring!ScoreRegions
<1>6. DOMAIN rows = 1..n /\ Len(rows) = n
  BY <1>4, <1>5
<1>7. \A i, j \in 1..n : i < j => sc[at[j]] <= sc[at[i]]
  BY <1>4
<1>8. PICK score : score = [i \in 1..n |-> o[i].score]
  OBVIOUS
<1>9. ASSUME NEW i \in 1..n, sc[at[i]] # None
      PROVE  rows[i].rank = 1 + Cardinality(Above(R, sc, at[i]))
  <2>1. PICK higher : higher = Above(R, sc, at[i])
    OBVIOUS
  <2>2. /\ \E p \in 1..i : Heads(score, p, i)
        /\ \A p \in 1..i : Heads(score, p, i) => p = 1 + Cardinality(higher)
    <3>1. \A j \in 1..n : score[j] = sc[at[j]]
      BY <1>4, <1>8
    <3>3. \A j, k \in 1..n : j < k => score[k] <= score[j]
      BY <1>4, <1>8
    <3>4. Seats(R, n, at)
      BY <1>4
    <3>2. \A r \in R : sc[r] \in Int
      OBVIOUS
    <3> QED
      BY <2>1, <3>1, <3>2, <3>3, <3>4, Standing
  <2>3. i \in Nat \ {0} /\ \A p \in 1..i : score[p] = o[p].score
    BY <1>4, <1>8
  <2>4. Scoring!Rank(o, i) = 1 + Cardinality(higher)
    BY <2>2, <2>3, RankGives
  <2>5. rows[i].rank = Scoring!Rank(o, i)
    <3>1. o[i].score # None
      BY <1>4, <1>9
    <3> QED
      BY <1>5, <3>1
  <2> QED
    BY <2>1, <2>4, <2>5
<1>10. \A i \in 1..n : /\ rows[i].region = at[i] /\ rows[i].score = sc[at[i]]
                       /\ sc[at[i]] = None => rows[i].rank = None
  BY <1>4, <1>5
<1>11. RowsSay(R, sc, rows, n, at)
  BY <1>4, <1>6, <1>7, <1>9, <1>10 DEF RowsSay
<1> QED
  BY <1>11

(* The row of a region.                                                    *)
LEMMA RowOfRegion ==
  ASSUME NEW R, NEW sc, NEW rows, NEW n, NEW at, RowsSay(R, sc, rows, n, at),
         NEW r \in R, NEW found, found = CHOOSE row \in ToSet(rows) : row.region = r
  PROVE  /\ found.score = sc[r]
         /\ sc[r] # None => found.rank = 1 + Cardinality(Above(R, sc, r))
<1>1. PICK i \in 1..n : at[i] = r
  BY DEF RowsSay, Seats
<1>2. /\ rows[i] \in ToSet(rows)
      /\ rows[i].region = r /\ rows[i].score = sc[r]
      /\ sc[r] # None => rows[i].rank = 1 + Cardinality(Above(R, sc, r))
  BY <1>1 DEF RowsSay, ToSet
<1>3. ASSUME NEW row \in ToSet(rows), row.region = r PROVE row = rows[i]
  <2>1. PICK j \in 1..n : row = rows[j]
    BY DEF RowsSay, ToSet
  <2>2. at[j] = at[i]
    BY <1>1, <1>3, <2>1 DEF RowsSay
  <2> QED
    BY <2>1, <2>2 DEF RowsSay, Seats
<1>4. found = rows[i]
  BY <1>2, <1>3
<1> QED
  BY <1>2, <1>4

(* The instance of the engine has the same None and ToSet.                *)
LEMMA SameExtremes ==
  /\ Scoring!None = None
  /\ \A S : Scoring!ToSet(S) = ToSet(S)
<1>1. Scoring!None = None
  BY DEF Scoring!None, None
<1>2. \A S : Scoring!ToSet(S) = ToSet(S)
  BY Zenon DEF Scoring!ToSet, ToSet
<1> QED
  BY <1>1, <1>2

(* As many are above the better of two as above the other, or fewer.       *)
LEMMA FewerAbove ==
  ASSUME NEW R, IsFiniteSet(R), NEW sc, \A r \in R : sc[r] \in Int,
         NEW a \in R, NEW b \in R, sc[b] <= sc[a]
  PROVE  /\ Cardinality(Above(R, sc, a)) \in Nat /\ Cardinality(Above(R, sc, b)) \in Nat
         /\ Cardinality(Above(R, sc, a)) <= Cardinality(Above(R, sc, b))
<1>1. Above(R, sc, b) \in SUBSET R /\ Above(R, sc, a) \in SUBSET Above(R, sc, b)
  BY DEF Above
<1>2. IsFiniteSet(Above(R, sc, b))
  BY <1>1, FS_Subset
<1> QED
  BY <1>1, <1>2, FS_Subset, FS_CardinalityType

(* The ranking of every request is fair.                                  *)
LEMMA EveryRankingIsFair ==
  ASSUME NEW request, RequestFits(request), Scoring!Scorable(request),
         IsFiniteSet(ToSet(request.regions)), ToSet(request.regions) \subseteq Int,
         NEW rows, rows = Scoring!ScoreRegions(request).results
  PROVE  RowsAreFair(request, rows)
<1>1. PICK R : R = ToSet(request.regions)
  OBVIOUS
<1>2. PICK sc : sc = [r \in R |-> Scoring!Score(request, r)]
  OBVIOUS
<1>3. None = -1
  BY DEF None
<1>4. \A r \in R : sc[r] = Scoring!Score(request, r) /\ (sc[r] = None \/ sc[r] \in Nat)
  BY <1>1, <1>2, ScoreGives
<1>5. \A r \in R : sc[r] \in Int /\ sc[r] >= None
  BY <1>3, <1>4
<1>6. PICK n, at : RowsSay(R, sc, rows, n, at)
  BY <1>1, <1>2, <1>5, RowsGive
<1> DEFINE regions == ToSet(request.regions)
           rowOf == [r \in regions |-> CHOOSE row \in ToSet(rows) : row.region = r]
           scored == {r \in regions : rowOf[r].score # None}
<1>7. \A r \in R : /\ rowOf[r].score = sc[r]
                   /\ sc[r] # None => rowOf[r].rank = 1 + Cardinality(Above(R, sc, r))
  <2> TAKE r \in R
  <2>1. PICK found : found = CHOOSE row \in ToSet(rows) : row.region = r
    OBVIOUS
  <2>2. rowOf[r] = found
    BY <1>1, <2>1
  <2> HIDE DEF rowOf
  <2>3. /\ found.score = sc[r]
        /\ sc[r] # None => found.rank = 1 + Cardinality(Above(R, sc, r))
    BY <1>6, <2>1, RowOfRegion
  <2> QED
    BY <2>2, <2>3
<1>8. scored \in SUBSET R /\ \A r \in R : r \in scored <=> sc[r] # None
  <2> HIDE DEF rowOf
  <2> QED
    BY <1>1, <1>7
<1>9. /\ Seats(R, n, at) /\ n \in Nat /\ n = Cardinality(R) /\ DOMAIN rows = 1..n /\ Len(rows) = n
      /\ \A i \in 1..n : at[i] \in R /\ rows[i].region = at[i]
      /\ \A i, j \in 1..n : i < j => sc[at[j]] <= sc[at[i]]
  BY <1>6 DEF RowsSay, Seats
<1>10. \A i \in DOMAIN rows : rows[i].region \in scored <=> i <= Cardinality(scored)
  <2> HIDE DEF rowOf, scored
  <2>1. \A i, j \in 1..n : i < j /\ at[j] \in scored => at[i] \in scored
    BY <1>3, <1>5, <1>8, <1>9
  <2>2. \A i \in 1..n : at[i] \in scored <=> i <= Cardinality(scored)
    BY <1>1, <1>8, <1>9, <2>1, FirstPlaces
  <2> QED
    BY <1>9, <2>2
<1>11. ASSUME NEW r \in scored
       PROVE  rowOf[r].rank = 1 + Cardinality({s \in scored : rowOf[s].score > rowOf[r].score})
  <2> HIDE DEF rowOf, scored
  <2>1. {s \in scored : rowOf[s].score > rowOf[r].score} = Above(R, sc, r)
    <3>1. \A s : s \in scored /\ rowOf[s].score > rowOf[r].score <=> s \in R /\ sc[s] > sc[r]
      <4>1. r \in R /\ sc[r] # None
        BY <1>8
      <4>2. \A s \in R : sc[s] > sc[r] => sc[s] # None
        BY <1>3, <1>5, <4>1
      <4>3. \A s \in R : rowOf[s].score = sc[s]
        BY <1>7
      <4> QED
        BY <1>8, <4>1, <4>2, <4>3
    <3> QED
      BY <3>1 DEF Above
  <2> QED
    BY <1>7, <1>8, <2>1
<1>12. ASSUME NEW a \in scored, NEW b \in scored, AtLeastAsGood(request, a, b)
       PROVE  rowOf[a].rank <= rowOf[b].rank
  <2> HIDE DEF rowOf, scored
  <2>1. a \in R /\ b \in R /\ sc[a] # None /\ sc[b] # None
    BY <1>8
  <2>2. sc[b] <= sc[a]
    BY <1>1, <1>4, <1>12, <2>1, ScoreGrows
  <2>3. /\ Cardinality(Above(R, sc, a)) \in Nat /\ Cardinality(Above(R, sc, b)) \in Nat
        /\ Cardinality(Above(R, sc, a)) <= Cardinality(Above(R, sc, b))
    BY <1>1, <1>5, <2>1, <2>2, FewerAbove
  <2>4. /\ rowOf[a].rank = 1 + Cardinality(Above(R, sc, a))
        /\ rowOf[b].rank = 1 + Cardinality(Above(R, sc, b))
    BY <1>7, <2>1
  <2> QED
    BY <2>3, <2>4
<1>13. ASSUME NEW r \in scored, BestInAll(request, r) PROVE rowOf[r].score = 100 * Unit
  <2> HIDE DEF rowOf, scored
  <2> QED
    BY <1>1, <1>4, <1>7, <1>8, <1>13, ScoreOfBest
<1> QED
  <2>1. /\ Len(rows) = Cardinality(regions)
        /\ \A i \in DOMAIN rows : rows[i].region \in scored <=> i <= Cardinality(scored)
        /\ \A r \in scored :
             rowOf[r].rank = 1 + Cardinality({s \in scored : rowOf[s].score > rowOf[r].score})
        /\ \A a, b \in scored : AtLeastAsGood(request, a, b) => rowOf[a].rank <= rowOf[b].rank
        /\ \A r \in scored : BestInAll(request, r) => rowOf[r].score = 100 * Unit
    <3> HIDE DEF rowOf, scored
    <3> QED
      BY <1>1, <1>9, <1>10, <1>11, <1>12, <1>13
  <2> QED
    BY <2>1, Zenon DEF RowsAreFair

(* The requests there are can be scored.                                   *)
LEMMA RequestsFit ==
  ASSUME NEW request \in ScoreRequests \union {asked.request : asked \in SensitivityRequests},
         Scoring!Scorable(request)
  PROVE  /\ RequestFits(request)
         /\ IsFiniteSet(ToSet(request.regions)) /\ ToSet(request.regions) \subseteq Int
<1>1. /\ request.regions \in Seq(Int)
      /\ request.weights \in Seq(ToSet(request.weights))
      /\ \A item \in ToSet(request.weights) : item.weight \in Int
      /\ \A code \in DOMAIN request.values :
           /\ SeriesFits(request.values[code])
           /\ ToSet(request.regions) \subseteq DOMAIN request.values[code]
  BY CalculationsAssumption DEF CalculationsAssumption, SeriesFits
<1>2. /\ request.threshold \in 0..Unit
      /\ request.weights # <<>>
      /\ \A i \in DOMAIN request.weights :
           request.weights[i].weight >= 0 /\ request.weights[i].code \in DOMAIN request.values
  BY DEF Scoring!Scorable, Scoring!ValidWeights
<1>3. request.threshold \in Nat
  BY <1>2, UnitAssumption DEF UnitAssumption
<1>4. \A i \in DOMAIN request.weights : request.weights[i].weight \in Nat
  BY <1>1, <1>2 DEF ToSet
<1>5. PICK m \in Nat : DOMAIN request.weights = 1..m /\ Len(request.weights) = m
  BY <1>1
<1>6. m # 0
  BY <1>1, <1>2, <1>5
<1>7. RequestFits(request)
  BY <1>1, <1>2, <1>3, <1>4, <1>5, <1>6 DEF RequestFits
<1>8. PICK k \in Nat : DOMAIN request.regions = 1..k
  BY <1>1
<1>9. IsFiniteSet(1..k)
  <2>1. 1 \in Int /\ k \in Int
    OBVIOUS
  <2> QED
    BY <2>1, FS_Interval
<1>10. PICK f : f = request.regions
  OBVIOUS
<1>11. ToSet(request.regions) = {f[i] : i \in 1..k} /\ DOMAIN f = 1..k
  BY <1>8, <1>10 DEF ToSet
<1>12. IsFiniteSet(ToSet(request.regions))
  BY <1>9, <1>11, ImageFinite
<1>13. ToSet(request.regions) \subseteq Int
  BY <1>1 DEF ToSet
<1> QED
  BY <1>7, <1>12, <1>13

(* RankingIsFair holds for every request: whatever the values, directions, *)
(* weights and missing observations are.                                   *)
THEOREM RankingsFair == Spec => []RankingIsFair
<1>1. Init => RankingIsFair
  BY DEF Init, Nothing, RankingIsFair
<1>2. ASSUME RankingIsFair, [Next]_vars PROVE RankingIsFair'
  <2>1. CASE Score
    <3>1. PICK request \in ScoreRequests :
            Ask("score", request, Scoring!ScoreRegions(request))
      BY <2>1 DEF Score
    <3>2. /\ call' = [kind |-> "score", request |-> request]
          /\ result' = Scoring!ScoreRegions(request)
      BY <3>1 DEF Ask
    <3>3. PICK rows : rows = Scoring!ScoreRegions(request).results
      OBVIOUS
    <3>4. CASE Scoring!Scorable(request)
      <4>1. /\ RequestFits(request)
            /\ IsFiniteSet(ToSet(request.regions)) /\ ToSet(request.regions) \subseteq Int
        BY <3>4, RequestsFit
      <4>2. RowsAreFair(request, rows)
        BY <3>3, <3>4, <4>1, EveryRankingIsFair
      <4> QED
        BY <3>2, <3>3, <4>2 DEF RankingIsFair
    <3>5. CASE ~Scoring!Scorable(request)
      <4>1. result'.valid = FALSE
        BY <3>2, <3>5 DEF Scoring!ScoreRegions, Scoring!NoResults
      <4> QED
        BY <4>1 DEF RankingIsFair
    <3> QED
      BY <3>4, <3>5
  <2>2. CASE UNCHANGED vars
    BY <1>2, <2>2 DEF vars, RankingIsFair
  <2>3. CASE Sensitivity \/ Prepare \/ Similar \/ Cluster \/ Parse \/ Search \/ Answer
    <3>1. call'.kind # "score"
      <4>1. CASE Sensitivity
        BY <4>1 DEF Sensitivity, Ask
      <4>2. CASE Prepare
        BY <4>2 DEF Prepare, Ask
      <4>3. CASE Similar
        BY <4>3 DEF Similar, Prepared
      <4>4. CASE Cluster
        BY <4>4 DEF Cluster, Prepared
      <4>5. CASE Parse
        BY <4>5 DEF Parse, Ask
      <4>6. CASE Search
        BY <4>6 DEF Search, Ask
      <4>7. CASE Answer
        BY <4>7 DEF Answer, Ask
      <4> QED
        BY <2>3, <4>1, <4>2, <4>3, <4>4, <4>5, <4>6, <4>7
    <3> QED
      BY <3>1 DEF RankingIsFair
  <2> QED
    BY <1>2, <2>1, <2>2, <2>3 DEF Next
<1> QED
  BY <1>1, <1>2, PTL DEF Spec

(* The fields a request has.                                               *)
IsRequest(request) ==
  /\ DOMAIN request = {"regions", "values", "weights", "full", "method", "threshold"}
  /\ \A i \in DOMAIN request.weights :
       DOMAIN request.weights[i] = {"code", "weight", "direction"}

(* One weight is multiplied by t, the others by ten.                       *)
AdjustedIs(request, target, t, other) ==
  /\ other.regions = request.regions /\ other.values = request.values
  /\ other.threshold = request.threshold
  /\ DOMAIN other.weights = DOMAIN request.weights
  /\ Len(other.weights) = Len(request.weights)
  /\ other.full = Scoring!Weight(other.weights, DOMAIN other.weights)
  /\ \A i \in DOMAIN request.weights :
       /\ other.weights[i].code = request.weights[i].code
       /\ other.weights[i].weight = request.weights[i].weight * (IF i = target THEN t ELSE 10)

(* What a scenario changes: the weights, and they still weigh 100 percent.*)
LEMMA AdjustedGives ==
  ASSUME NEW request, IsRequest(request), RequestFits(request), NEW target, NEW t \in 5..15,
         NEW other, other = Scoring!Adjusted(request, target, t)
  PROVE  AdjustedIs(request, target, t, other)
<1>1. PICK ws : ws = request.weights
  OBVIOUS
<1>2. PICK adjusted : adjusted = [i \in DOMAIN ws |->
        [ws[i] EXCEPT !.weight = @ * (IF i = target THEN t ELSE 10)]]
  OBVIOUS
<1>3. PICK full : full = Scoring!Weight(adjusted, DOMAIN adjusted)
  OBVIOUS
<1>4. other = [request EXCEPT !.weights = adjusted, !.full = full]
  BY <1>1, <1>2, <1>3 DEF Scoring!Adjusted
<1>5. /\ other.regions = request.regions /\ other.values = request.values
      /\ other.threshold = request.threshold /\ other.weights = adjusted /\ other.full = full
  BY <1>4 DEF IsRequest
<1>6. PICK m \in Nat \ {0} : DOMAIN ws = 1..m /\ Len(ws) = m
  BY <1>1 DEF RequestFits
<1>7. DOMAIN adjusted = 1..m /\ Len(adjusted) = m
  BY <1>2, <1>6
<1>8. ASSUME NEW i \in DOMAIN ws
      PROVE  /\ adjusted[i].code = ws[i].code
             /\ adjusted[i].weight = ws[i].weight * (IF i = target THEN t ELSE 10)
  <2>1. DOMAIN ws[i] = {"code", "weight", "direction"}
    BY <1>1 DEF IsRequest
  <2>2. adjusted[i] = [ws[i] EXCEPT !.weight = @ * (IF i = target THEN t ELSE 10)]
    BY <1>2
  <2>3. "code" \in DOMAIN ws[i] /\ "weight" \in DOMAIN ws[i]
    BY <2>1
  <2> QED
    BY <2>2, <2>3
<1> QED
  BY <1>1, <1>3, <1>5, <1>6, <1>7, <1>8 DEF AdjustedIs

(* Such a request can be scored too.                                       *)
LEMMA AdjustedIsScorable ==
  ASSUME NEW request, RequestFits(request), Scoring!Scorable(request),
         NEW target, NEW t \in 5..15, NEW other, AdjustedIs(request, target, t, other)
  PROVE  RequestFits(other) /\ Scoring!Scorable(other)
<1>1. PICK D : D = DOMAIN request.weights
  OBVIOUS
<1>2. \A i \in D : /\ request.weights[i].weight \in Nat
                   /\ request.weights[i].code \in DOMAIN request.values
  BY <1>1 DEF RequestFits
<1>3. \A i \in D : other.weights[i].weight \in Nat
  <2> TAKE i \in D
  <2>1. \A x \in Nat : x * t \in Nat /\ x * 10 \in Nat
    OBVIOUS
  <2> QED
    BY <1>1, <1>2, <2>1 DEF AdjustedIs
<1>4. RequestFits(other)
  BY <1>1, <1>2, <1>3 DEF RequestFits, AdjustedIs
<1>5. other.full \in Nat
  <2>1. PICK w : w = [i \in D |-> other.weights[i].weight]
    OBVIOUS
  <2>2. other.full = Sums(w, D)[D]
    <3>1. other.full = Scoring!Total(w) /\ DOMAIN w = D
      BY <1>1, <2>1 DEF AdjustedIs, Scoring!Weight
    <3> QED
      BY <3>1, ScoringTotals
  <2>3. IsFiniteSet(D)
    <3>1. PICK m \in Nat : D = 1..m
      BY <1>1 DEF RequestFits
    <3>2. 1 \in Int /\ m \in Int
      OBVIOUS
    <3> QED
      BY <3>1, <3>2, FS_Interval
  <2>4. \A i \in D : w[i] \in Nat
    BY <1>3, <2>1
  <2> QED
    BY <2>2, <2>3, <2>4, SumIsNumber
<1>6. Scoring!ValidWeights(other.weights, other.full)
  <2>1. other.weights # <<>>
    <3>1. PICK m \in Nat \ {0} : DOMAIN other.weights = 1..m
      BY DEF RequestFits, AdjustedIs
    <3>2. 1 \in DOMAIN other.weights
      BY <3>1
    <3> QED
      BY <3>2
  <2>2. [i \in DOMAIN other.weights |-> other.weights[i].code]
        = [i \in DOMAIN request.weights |-> request.weights[i].code]
    BY DEF AdjustedIs
  <2>3. Scoring!Distinct([i \in DOMAIN other.weights |-> other.weights[i].code])
    BY <2>2 DEF Scoring!Scorable, Scoring!ValidWeights
  <2>4. \A i \in DOMAIN other.weights : other.weights[i].weight >= 0
    BY <1>1, <1>3 DEF AdjustedIs
  <2>5. Scoring!Tolerance * Scoring!Magnitude(
          Scoring!Weight(other.weights, DOMAIN other.weights) - other.full) <= other.full
    <3>1. PICK x \in Nat : x = other.full
      BY <1>5
    <3>2. Scoring!Weight(other.weights, DOMAIN other.weights) = x
      BY <3>1 DEF AdjustedIs
    <3>3. Scoring!Magnitude(x - x) = 0 /\ Scoring!Tolerance \in Nat
      BY DEF Scoring!Magnitude, Scoring!Tolerance
    <3> QED
      BY <3>1, <3>2, <3>3
  <2> QED
    BY <2>1, <2>3, <2>4, <2>5 DEF Scoring!ValidWeights
<1> QED
  BY <1>1, <1>2, <1>4, <1>6 DEF Scoring!Scorable, AdjustedIs

(* And scores the same regions: a weight stays positive, or zero.          *)
LEMMA SameAreScored ==
  ASSUME NEW request, RequestFits(request), NEW target, NEW t \in 5..15,
         NEW other, AdjustedIs(request, target, t, other), RequestFits(other),
         NEW r \in ToSet(request.regions)
  PROVE  Scoring!Score(other, r) = None <=> Scoring!Score(request, r) = None
<1>1. PICK A : A = {i \in DOMAIN request.weights : Seen(request, i, r) # None}
  OBVIOUS
<1>2. A = {i \in DOMAIN other.weights : Seen(other, i, r) # None}
  BY <1>1 DEF AdjustedIs, Seen
<1>3. PICK w : w = [i \in A |-> request.weights[i].weight]
  OBVIOUS
<1>4. PICK v : v = [i \in A |-> other.weights[i].weight]
  OBVIOUS
<1>5. PICK p : p = [i \in A |-> PartOf(request, i, r) * request.weights[i].weight]
  OBVIOUS
<1>6. PICK q : q = [i \in A |-> PartOf(other, i, r) * other.weights[i].weight]
  OBVIOUS
<1>7. PICK x : x = Scoring!AvailableWeight(request, r)
  OBVIOUS
<1>8. PICK y : y = Scoring!AvailableWeight(other, r)
  OBVIOUS
<1>9. /\ Scoring!Available(request, r) = A /\ IsFiniteSet(A) /\ A \subseteq DOMAIN request.weights
      /\ x \in Nat /\ x = Sums(w, A)[A]
  BY <1>1, <1>3, <1>5, <1>7, PartsOfScore
<1>10. r \in ToSet(other.regions)
  BY DEF AdjustedIs
<1>11. Scoring!Available(other, r) = A /\ y \in Nat /\ y = Sums(v, A)[A]
  BY <1>2, <1>4, <1>6, <1>8, <1>10, PartsOfScore
<1>12. PICK z : z = [i \in A |-> 15 * w[i]]
  OBVIOUS
<1>13. \A i \in A : w[i] \in Int /\ v[i] \in Int /\ z[i] \in Int /\ z[i] = 15 * w[i]
                    /\ w[i] <= v[i] /\ v[i] <= z[i]
  <2> TAKE i \in A
  <2>1. PICK n \in Nat : n = w[i]
    BY <1>3, <1>9 DEF RequestFits
  <2>2. v[i] = n * (IF i = target THEN t ELSE 10)
    BY <1>3, <1>4, <1>9, <2>1 DEF AdjustedIs
  <2>3. n <= n * t /\ n * t <= 15 * n /\ n * t \in Int
    OBVIOUS
  <2>4. n <= n * 10 /\ n * 10 <= 15 * n /\ n * 10 \in Int
    OBVIOUS
  <2> QED
    BY <1>12, <2>1, <2>2, <2>3, <2>4
<1>14. x <= y
  BY <1>9, <1>11, <1>13, SumGrows
<1>15. y <= 15 * x
  <2>1. Sums(v, A)[A] <= Sums(z, A)[A]
    BY <1>9, <1>13, SumGrows
  <2>2. Sums(z, A)[A] = 15 * Sums(w, A)[A]
    <3>1. PICK c \in Int : c = 15
      OBVIOUS
    <3>2. \A i \in A : w[i] \in Int /\ z[i] = c * w[i]
      BY <1>13, <3>1
    <3>3. Sums(z, A)[A] = c * Sums(w, A)[A]
      BY <1>9, <3>2, SumIsScaled
    <3> QED
      BY <3>1, <3>3
  <2> QED
    BY <1>9, <1>11, <2>1, <2>2
<1>16. y > 0 <=> x > 0
  BY <1>9, <1>11, <1>14, <1>15
<1>17. Scoring!Eligible(other, r) <=> Scoring!Eligible(request, r)
  BY <1>7, <1>8, <1>9, <1>11, <1>16 DEF Scoring!Eligible, AdjustedIs
<1> QED
  BY <1>10, <1>17, ScoreGives

(* A row for each region, with a rank if the region has a score.           *)
OneRowEach(R, sc, rows) ==
  /\ \A row \in ToSet(rows) : row.region \in R /\ (row.rank # None <=> sc[row.region] # None)
  /\ \A r \in R : \E row \in ToSet(rows) : row.region = r
  /\ \A row, same \in ToSet(rows) : row.region = same.region => row = same

(* Every region has one row, with a rank if it has a score.               *)
LEMMA RowsAreOneEach ==
  ASSUME NEW request, RequestFits(request), Scoring!Scorable(request),
         NEW R, R = ToSet(request.regions), IsFiniteSet(R), R \subseteq Int,
         NEW sc, sc = [r \in R |-> Scoring!Score(request, r)],
         NEW rows, rows = Scoring!ScoreRegions(request).results
  PROVE  OneRowEach(R, sc, rows)
<1>1. None = -1
  BY DEF None
<1>2. \A r \in R : sc[r] \in Int
  BY <1>1, ScoreGives
<1>3. PICK n, at : RowsSay(R, sc, rows, n, at)
  BY <1>2, RowsGive
<1>4. ASSUME NEW i \in 1..n PROVE rows[i].rank # None <=> sc[at[i]] # None
  <2>1. Above(R, sc, at[i]) \in SUBSET R
    BY DEF Above
  <2>2. Cardinality(Above(R, sc, at[i])) \in Nat
    BY <2>1, FS_Subset, FS_CardinalityType
  <2> QED
    BY <1>1, <1>3, <2>2 DEF RowsSay
<1>5. ToSet(rows) = {rows[i] : i \in 1..n}
  BY <1>3 DEF RowsSay, ToSet
<1>6. \A i \in 1..n : at[i] \in R /\ rows[i].region = at[i]
  BY <1>3 DEF RowsSay, Seats
<1>7. \A row \in ToSet(rows) : row.region \in R /\ (row.rank # None <=> sc[row.region] # None)
  BY <1>4, <1>5, <1>6
<1>8. ASSUME NEW r \in R PROVE \E row \in ToSet(rows) : row.region = r
  <2>1. PICK i \in 1..n : at[i] = r
    BY <1>3 DEF RowsSay, Seats
  <2> QED
    BY <1>5, <1>6, <2>1
<1>9. ASSUME NEW row \in ToSet(rows), NEW same \in ToSet(rows), row.region = same.region
      PROVE  row = same
  <2>1. PICK i \in 1..n : row = rows[i]
    BY <1>5
  <2>2. PICK j \in 1..n : same = rows[j]
    BY <1>5
  <2>3. i = j
    BY <1>3, <1>6, <1>9, <2>1, <2>2 DEF RowsSay, Seats
  <2> QED
    BY <2>1, <2>2, <2>3
<1> QED
  BY <1>7, <1>8, <1>9 DEF OneRowEach

(* What a scenario ranks.                                                  *)
RankingsAre(R, sc, c, found) ==
  /\ \A x \in found : x.change = c /\ x.region \in R /\ (x.rank # None <=> sc[x.region] # None)
  /\ \A r \in R : \E x \in found : x.region = r
  /\ \A x, y \in found : x.region = y.region => x = y

(* The ranks of a scenario are those of its rows.                         *)
LEMMA RankingsGive ==
  ASSUME NEW request, NEW c, NEW R, NEW sc,
         NEW rows, rows = Scoring!ScoreRegions(Scoring!Adjusted(request, c[1], c[2])).results,
         OneRowEach(R, sc, rows),
         NEW found, found = Scoring!Rankings(request, c)
  PROVE  RankingsAre(R, sc, c, found)
<1>1. Scoring!ToSet(rows) = ToSet(rows)
  BY SameExtremes
<1>2. found = {[change |-> c, region |-> row.region, rank |-> row.rank] : row \in ToSet(rows)}
  BY <1>1 DEF Scoring!Rankings
<1>3. \A x \in found : \E row \in ToSet(rows) :
        x = [change |-> c, region |-> row.region, rank |-> row.rank]
  BY <1>2
<1>4. \A x \in found : x.change = c /\ \E row \in ToSet(rows) :
        x.region = row.region /\ x.rank = row.rank
  BY <1>3
<1>5. \A row \in ToSet(rows) : \E x \in found : x.region = row.region
  <2> TAKE row \in ToSet(rows)
  <2>1. [change |-> c, region |-> row.region, rank |-> row.rank] \in found
    BY <1>2
  <2> QED
    BY <2>1
<1>6. ASSUME NEW x \in found, NEW y \in found, x.region = y.region PROVE x = y
  <2>1. PICK row \in ToSet(rows) : x = [change |-> c, region |-> row.region, rank |-> row.rank]
    BY <1>3
  <2>2. PICK same \in ToSet(rows) : y = [change |-> c, region |-> same.region, rank |-> same.rank]
    BY <1>3
  <2>3. row = same
    BY <1>6, <2>1, <2>2 DEF OneRowEach
  <2> QED
    BY <2>1, <2>2, <2>3
<1>7. \A x \in found : x.region \in R /\ (x.rank # None <=> sc[x.region] # None)
  BY <1>4 DEF OneRowEach
<1>8. \A r \in R : \E x \in found : x.region = r
  BY <1>5 DEF OneRowEach
<1> QED
  BY <1>4, <1>6, <1>7, <1>8 DEF RankingsAre

(* The ranks of all scenarios, and those of a region.                      *)
Sampled(changes, found) == {x \in UNION {found[c] : c \in changes} : x.rank # None}
OfRegion(sampled, r) == {x \in sampled : x.region = r}

(* A region with a score has one rank in every scenario, one without none. *)
LEMMA RanksAreCounted ==
  ASSUME NEW R, NEW sc, NEW changes, IsFiniteSet(changes), NEW found,
         \A c \in changes : RankingsAre(R, sc, c, found[c]),
         NEW r \in R, NEW of, of = OfRegion(Sampled(changes, found), r)
  PROVE  Cardinality(of) = IF sc[r] = None THEN 0 ELSE Cardinality(changes)
<1>1. \A x : x \in of <=> \E c \in changes : x \in found[c] /\ x.rank # None /\ x.region = r
  BY DEF OfRegion, Sampled
<1>2. CASE sc[r] = None
  <2>1. of = {}
    BY <1>1, <1>2 DEF RankingsAre
  <2> QED
    BY <1>2, <2>1, FS_EmptySet
<1>3. CASE sc[r] # None
  <2>1. PICK g : g = [c \in changes |-> CHOOSE x \in found[c] : x.region = r]
    OBVIOUS
  <2>2. ASSUME NEW c \in changes PROVE g[c] \in found[c] /\ g[c].region = r
    <3>1. \E x \in found[c] : x.region = r
      BY DEF RankingsAre
    <3> QED
      BY <2>1, <3>1
  <2>3. \A c \in changes : g[c] \in of /\ g[c].change = c
    BY <1>1, <1>3, <2>2 DEF RankingsAre
  <2>4. ASSUME NEW x \in of PROVE \E c \in changes : g[c] = x
    <3>1. PICK c \in changes : x \in found[c] /\ x.region = r
      BY <1>1
    <3>2. g[c] = x
      BY <2>2, <3>1 DEF RankingsAre
    <3> QED
      BY <3>2
  <2>5. g \in Bijection(changes, of)
    <3>1. g \in [changes -> of]
      BY <2>1, <2>3
    <3>2. \A c, d \in changes : g[c] = g[d] => c = d
      BY <2>3
    <3> QED
      BY <2>4, <3>1, <3>2 DEF Bijection, Injection, Surjection, IsInjective
  <2>6. Cardinality(of) = Cardinality(changes)
    BY <2>5, FS_Bijection DEF ExistsBijection
  <2> QED
    BY <1>3, <2>6
<1> QED
  BY <1>2, <1>3

(* Every weight changes twice.                                             *)
LEMMA ChangesAreCounted ==
  ASSUME NEW request, RequestFits(request), NEW tenths \in 1..5,
         NEW changes, changes = Scoring!Changes(request, tenths)
  PROVE  /\ IsFiniteSet(changes) /\ Cardinality(changes) = 2 * Len(request.weights)
         /\ \A c \in changes : c[1] \in DOMAIN request.weights /\ c[2] \in 5..15
<1>1. PICK m \in Nat : DOMAIN request.weights = 1..m /\ Len(request.weights) = m
  BY DEF RequestFits
<1>2. PICK T : T = {10 - tenths, 10 + tenths}
  OBVIOUS
<1>3. changes = (1..m) \X T
  BY <1>1, <1>2 DEF Scoring!Changes
<1>4. IsFiniteSet(1..m) /\ Cardinality(1..m) = m
  <2>1. 1 \in Int /\ m \in Int
    OBVIOUS
  <2>2. IsFiniteSet(1..m) /\ Cardinality(1..m) = IF 1 > m THEN 0 ELSE m - 1 + 1
    BY <2>1, FS_Interval
  <2> QED
    BY <2>2
<1>5. IsFiniteSet(T) /\ Cardinality(T) = 2
  <2>1. T = {10 - tenths} \union {10 + tenths} /\ 10 + tenths \notin {10 - tenths}
    BY <1>2
  <2>2. IsFiniteSet({10 - tenths}) /\ Cardinality({10 - tenths}) = 1
    BY FS_Singleton
  <2>3. Cardinality({10 - tenths} \union {10 + tenths}) = 1 + 1
        /\ IsFiniteSet({10 - tenths} \union {10 + tenths})
    BY <2>1, <2>2, FS_AddElement
  <2> QED
    BY <2>1, <2>3
<1>6. IsFiniteSet(changes) /\ Cardinality(changes) = 2 * m
  <2>1. PICK I : I = 1..m
    OBVIOUS
  <2>2. IsFiniteSet(I \X T) /\ Cardinality(I \X T) = Cardinality(I) * Cardinality(T)
    BY <1>4, <1>5, <2>1, FS_Product
  <2>3. m * 2 = 2 * m
    OBVIOUS
  <2> QED
    BY <1>3, <1>4, <1>5, <2>1, <2>2, <2>3
<1>7. \A c \in changes : c[1] \in 1..m /\ c[2] \in T
  BY <1>3
<1>8. T \subseteq 5..15
  BY <1>2
<1> QED
  BY <1>1, <1>6, <1>7, <1>8

(* Of one analysis.                                                        *)
LEMMA EveryAnalysisIsComplete ==
  ASSUME NEW request, IsRequest(request), RequestFits(request), Scoring!Scorable(request),
         IsFiniteSet(ToSet(request.regions)), ToSet(request.regions) \subseteq Int,
         NEW tenths \in 1..5,
         NEW analysis, analysis = Scoring!SensitivityAnalysis(request, tenths)
  PROVE  /\ analysis.valid
         /\ \A row \in analysis.stability :
              row.sampled = IF row.base = None THEN 0 ELSE 2 * Len(request.weights)
<1>1. PICK R : R = ToSet(request.regions)
  OBVIOUS
<1>2. PICK sc : sc = [r \in R |-> Scoring!Score(request, r)]
  OBVIOUS
<1>3. PICK changes : changes = Scoring!Changes(request, tenths)
  OBVIOUS
<1>4. /\ IsFiniteSet(changes) /\ Cardinality(changes) = 2 * Len(request.weights)
      /\ \A c \in changes : c[1] \in DOMAIN request.weights /\ c[2] \in 5..15
  BY <1>3, ChangesAreCounted
<1>5. PICK found : found = [c \in changes |-> Scoring!Rankings(request, c)]
  OBVIOUS
<1>6. ASSUME NEW c \in changes
      PROVE  /\ Scoring!Scorable(Scoring!Adjusted(request, c[1], c[2]))
             /\ RankingsAre(R, sc, c, found[c])
  <2>1. PICK t \in 5..15 : t = c[2]
    BY <1>4
  <2>2. PICK other : other = Scoring!Adjusted(request, c[1], t)
    OBVIOUS
  <2>3. AdjustedIs(request, c[1], t, other)
    BY <2>2, AdjustedGives
  <2>4. RequestFits(other) /\ Scoring!Scorable(other)
    BY <2>3, AdjustedIsScorable
  <2>5. ToSet(other.regions) = R
    BY <1>1, <2>3 DEF AdjustedIs
  <2>6. PICK ss : ss = [r \in R |-> Scoring!Score(other, r)]
    OBVIOUS
  <2>7. PICK rows : rows = Scoring!ScoreRegions(other).results
    OBVIOUS
  <2>8. OneRowEach(R, ss, rows)
    BY <1>1, <2>4, <2>5, <2>6, <2>7, RowsAreOneEach
  <2>9. \A r \in R : ss[r] = None <=> sc[r] = None
    <3> TAKE r \in R
    <3>1. Scoring!Score(other, r) = None <=> Scoring!Score(request, r) = None
      BY <1>1, <2>3, <2>4, SameAreScored
    <3> QED
      BY <1>2, <2>6, <3>1
  <2>10. OneRowEach(R, sc, rows)
    BY <2>8, <2>9 DEF OneRowEach
  <2>11. found[c] = Scoring!Rankings(request, c)
    BY <1>5
  <2>12. rows = Scoring!ScoreRegions(Scoring!Adjusted(request, c[1], c[2])).results
    BY <2>1, <2>2, <2>7
  <2>13. RankingsAre(R, sc, c, found[c])
    BY <2>10, <2>11, <2>12, RankingsGive
  <2> QED
    BY <2>1, <2>2, <2>4, <2>13
<1>7. PICK sampled : sampled = Sampled(changes, found)
  OBVIOUS
<1>8. PICK rows : rows = Scoring!ScoreRegions(request).results
  OBVIOUS
<1>9. OneRowEach(R, sc, rows)
  BY <1>1, <1>2, <1>8, RowsAreOneEach
<1>10. analysis.valid /\ analysis.stability = Scoring!Stability(request, tenths)
  BY <1>3, <1>6 DEF Scoring!SensitivityAnalysis
<1>11. ASSUME NEW row \in Scoring!Stability(request, tenths)
       PROVE  \E base \in ToSet(rows) :
                /\ row.base = base.rank
                /\ row.sampled = Cardinality(OfRegion(sampled, base.region))
  <2> DEFINE all == {x \in UNION {Scoring!Rankings(request, c) :
                                     c \in Scoring!Changes(request, tenths)} :
                       x.rank # Scoring!None}
             of(base) == {x \in all : x.region = base.region}
             ranks(base) == {x.rank : x \in of(base)}
             lowest(base) == IF of(base) = {} THEN Scoring!None ELSE Scoring!Min(ranks(base))
             highest(base) == IF of(base) = {} THEN Scoring!None ELSE Scoring!Max(ranks(base))
             same(base) == Scoring!Cardinality({x \in of(base) : x.rank = base.rank})
             count(base) == Scoring!Cardinality(of(base))
  <2>1. Scoring!Stability(request, tenths)
        = {[region |-> base.region, base |-> base.rank, least |-> lowest(base),
            greatest |-> highest(base), sampled |-> count(base), unchanged |-> same(base)] :
             base \in Scoring!ToSet(Scoring!ScoreRegions(request).results)}
    BY Zenon DEF Scoring!Stability
  <2>2. all = sampled
    BY <1>3, <1>5, <1>7, SameExtremes DEF Sampled
  <2>3. \A base : count(base) = Cardinality(OfRegion(sampled, base.region))
    BY <2>2, SameCountOfScores DEF OfRegion
  <2> HIDE DEF all, of, ranks, lowest, highest, same, count
  <2>4. PICK base \in ToSet(rows) :
          row = [region |-> base.region, base |-> base.rank, least |-> lowest(base),
                 greatest |-> highest(base), sampled |-> count(base), unchanged |-> same(base)]
    BY <1>8, <2>1, SameExtremes
  <2>5. row.base = base.rank /\ row.sampled = count(base)
    BY <2>4
  <2> QED
    BY <2>3, <2>5
<1>12. ASSUME NEW row \in Scoring!Stability(request, tenths)
       PROVE  row.sampled = IF row.base = None THEN 0 ELSE 2 * Len(request.weights)
  <2>1. PICK base \in ToSet(rows) :
          /\ row.base = base.rank
          /\ row.sampled = Cardinality(OfRegion(sampled, base.region))
    BY <1>11
  <2>2. PICK r \in R : r = base.region
    BY <1>9 DEF OneRowEach
  <2>3. PICK of : of = OfRegion(sampled, r)
    OBVIOUS
  <2>4. Cardinality(of) = IF sc[r] = None THEN 0 ELSE Cardinality(changes)
    <3>1. \A c \in changes : RankingsAre(R, sc, c, found[c])
      BY <1>6
    <3>2. IsFiniteSet(changes)
      BY <1>4
    <3> QED
      BY <1>7, <2>3, <3>1, <3>2, RanksAreCounted
  <2>5. row.base = None <=> sc[r] = None
    BY <1>9, <2>1, <2>2 DEF OneRowEach
  <2> QED
    BY <1>4, <2>1, <2>2, <2>3, <2>4, <2>5
<1> QED
  BY <1>10, <1>12

(* SensitivityIsComplete holds for every request and step: no scenario is  *)
(* refused, and none scores other regions than the base does.              *)
THEOREM SensitivitiesComplete == Spec => []SensitivityIsComplete
<1>1. Init => SensitivityIsComplete
  BY DEF Init, Nothing, SensitivityIsComplete
<1>2. ASSUME SensitivityIsComplete, [Next]_vars PROVE SensitivityIsComplete'
  <2>1. CASE Sensitivity
    <3>1. PICK asked \in SensitivityRequests :
            Ask("sensitivity", asked, Scoring!SensitivityAnalysis(asked.request, asked.tenths))
      BY <2>1 DEF Sensitivity
    <3>2. PICK request : request = asked.request
      OBVIOUS
    <3>3. /\ call' = [kind |-> "sensitivity", request |-> asked]
          /\ result' = Scoring!SensitivityAnalysis(request, asked.tenths)
      BY <3>1, <3>2 DEF Ask
    <3>4. ASSUME Scoring!Scorable(request), asked.tenths \in 1..5
          PROVE  /\ result'.valid
                 /\ \A row \in result'.stability :
                      row.sampled = IF row.base = None THEN 0 ELSE 2 * Len(request.weights)
      <4>1. request \in ScoreRequests \union {other.request : other \in SensitivityRequests}
        BY <3>2
      <4>2. IsRequest(request)
        <5>1. /\ DOMAIN request = {"regions", "values", "weights", "full", "method", "threshold"}
              /\ \A item \in ToSet(request.weights) : DOMAIN item = {"code", "weight", "direction"}
          BY <4>1, CalculationsAssumption DEF CalculationsAssumption
        <5> QED
          BY <5>1 DEF IsRequest, ToSet
      <4>3. /\ RequestFits(request)
            /\ IsFiniteSet(ToSet(request.regions)) /\ ToSet(request.regions) \subseteq Int
        BY <3>4, <4>1, RequestsFit
      <4> QED
        BY <3>3, <3>4, <4>2, <4>3, EveryAnalysisIsComplete
    <3> QED
      BY <3>2, <3>3, <3>4 DEF SensitivityIsComplete
  <2>2. CASE UNCHANGED vars
    BY <1>2, <2>2 DEF vars, SensitivityIsComplete
  <2>3. CASE Score \/ Prepare \/ Similar \/ Cluster \/ Parse \/ Search \/ Answer
    <3>1. call'.kind # "sensitivity"
      <4>1. CASE Score
        BY <4>1 DEF Score, Ask
      <4>2. CASE Prepare
        BY <4>2 DEF Prepare, Ask
      <4>3. CASE Similar
        BY <4>3 DEF Similar, Prepared
      <4>4. CASE Cluster
        BY <4>4 DEF Cluster, Prepared
      <4>5. CASE Parse
        BY <4>5 DEF Parse, Ask
      <4>6. CASE Search
        BY <4>6 DEF Search, Ask
      <4>7. CASE Answer
        BY <4>7 DEF Answer, Ask
      <4> QED
        BY <2>3, <4>1, <4>2, <4>3, <4>4, <4>5, <4>6, <4>7
    <3> QED
      BY <3>1 DEF SensitivityIsComplete
  <2> QED
    BY <1>2, <2>1, <2>2, <2>3 DEF Next
<1> QED
  BY <1>1, <1>2, PTL DEF Spec
-----------------------------------------------------------------------------
(* Multiplying by something positive.                                      *)
LEMMA ProductsCompare ==
  ASSUME NEW a \in Int, NEW b \in Int, NEW n \in Nat \ {0}
  PROVE  a * n < b * n <=> a < b
<1>1. \A x \in Nat \ {0} : x * n \in Nat \ {0}
  OBVIOUS
<1>2. CASE a < b
  <2>1. (b - a) * n \in Nat \ {0}
    <3>1. b - a \in Nat \ {0}
      BY <1>2
    <3> QED
      BY <1>1, <3>1
  <2>2. (b - a) * n = b * n - a * n
    OBVIOUS
  <2> QED
    BY <1>2, <2>1, <2>2
<1>3. CASE a = b
  BY <1>3
<1>4. CASE b < a
  <2>1. (a - b) * n \in Nat \ {0}
    <3>1. a - b \in Nat \ {0}
      BY <1>4
    <3> QED
      BY <1>1, <3>1
  <2>2. (a - b) * n = a * n - b * n
    OBVIOUS
  <2> QED
    BY <1>4, <2>1, <2>2
<1> QED
  BY <1>2, <1>3, <1>4

(* Of three quotients, x / a below y / b: z / c is above x / a or below    *)
(* y / b.                                                                  *)
LEMMA QuotientsCompare ==
  ASSUME NEW x \in Int, NEW y \in Int, NEW z \in Int,
         NEW a \in Nat \ {0}, NEW b \in Nat \ {0}, NEW c \in Nat \ {0},
         x * b < y * a
  PROVE  x * c < z * a \/ z * b < y * c
<1>1. SUFFICES ASSUME ~(x * c < z * a), ~(z * b < y * c) PROVE FALSE
  OBVIOUS
<1>2. PICK p \in Int, q \in Int, r \in Int, s \in Int, t \in Int, u \in Int :
        p = x * b /\ q = y * a /\ r = x * c /\ s = z * a /\ t = z * b /\ u = y * c
  OBVIOUS
<1>3. p * c < q * c
  BY <1>2, ProductsCompare
<1>4. ~(r * b < s * b)
  BY <1>1, <1>2, ProductsCompare
<1>5. ~(t * a < u * a)
  BY <1>1, <1>2, ProductsCompare
<1>6. p * c = r * b /\ q * c = u * a /\ s * b = t * a
  BY <1>2
<1>7. p * c \in Int /\ q * c \in Int /\ s * b \in Int
  BY <1>2
<1> QED
  BY <1>3, <1>4, <1>5, <1>6, <1>7

(* Quotients by squares are ordered weakly.                                *)
LEMMA QuotientsOrder ==
  ASSUME NEW D, NEW x \in [D -> Int], NEW n \in [D -> Nat \ {0}],
         NEW W, \A d \in D : W[d] \in SUBSET D,
         \A c, d \in D : c \in W[d] <=> x[c] * n[d] * n[d] < x[d] * n[c] * n[c]
  PROVE  Weakly(D, W)
<1>1. PICK w : w = [d \in D |-> n[d] * n[d]]
  OBVIOUS
<1>2. \A d \in D : w[d] \in Nat \ {0} /\ x[d] \in Int /\ n[d] \in Nat \ {0}
  <2>1. \A k \in Nat \ {0} : k * k \in Nat \ {0}
    OBVIOUS
  <2> QED
    BY <1>1, <2>1
<1>3. \A c, d \in D : c \in W[d] <=> x[c] * w[d] < x[d] * w[c]
  <2>1. \A k, j \in Int : k * j * j = k * (j * j)
    OBVIOUS
  <2> QED
    BY <1>1, <1>2, <2>1
<1>4. \A c, d \in D : x[c] * w[d] \in Int
  <2>1. \A k, j \in Int : k * j \in Int
    OBVIOUS
  <2> QED
    BY <1>2, <2>1
<1>5. ASSUME NEW c \in D, NEW d \in D, NEW e \in D, x[c] * w[d] < x[d] * w[c]
      PROVE  x[c] * w[e] < x[e] * w[c] \/ x[e] * w[d] < x[d] * w[e]
  <2>1. /\ x[c] \in Int /\ x[d] \in Int /\ x[e] \in Int
        /\ w[c] \in Nat \ {0} /\ w[d] \in Nat \ {0} /\ w[e] \in Nat \ {0}
    BY <1>2
  <2> QED
    BY <1>5, <2>1, QuotientsCompare
<1>6. \A c, d \in D : x[c] * w[d] < x[d] * w[c] => ~(x[d] * w[c] < x[c] * w[d])
  BY <1>4
<1> QED
  BY <1>3, <1>5, <1>6 DEF Weakly

-----------------------------------------------------------------------------
(* Clusters. *)

(* What clustering needs of a preparation.                                 *)
PointsFit(prepared) ==
  /\ IsFiniteSet(prepared.features) /\ prepared.features \subseteq Int
  /\ IsFiniteSet(prepared.regions) /\ prepared.regions \subseteq Int
  /\ \A f \in prepared.features : prepared.points[f] \in [prepared.regions -> Int]

(* The mean of some regions: a sum for every feature, and how many.        *)
Means(prepared) == [sum : [prepared.features -> Int], size : Nat \ {0}]
Sound(prepared, a) ==
  /\ a \in Means(prepared)
  /\ a.size \in Nat \ {0} /\ \A f \in prepared.features : a.sum[f] \in Int

(* A squared distance is a sum of squares.                                *)
LEMMA SquaredDistanceIsNumber ==
  ASSUME NEW prepared, PointsFit(prepared), NEW r \in prepared.regions, NEW s \in prepared.regions
  PROVE  Regional!SquaredDistance(prepared, r, s) \in Nat
<1>1. PICK d : d = [f \in prepared.features |-> Regional!Squared(prepared, r, s, f)]
  OBVIOUS
<1>2. ASSUME NEW f \in prepared.features PROVE Regional!Squared(prepared, r, s, f) \in Nat
  <2>1. prepared.points[f][r] \in Int /\ prepared.points[f][s] \in Int
    BY DEF PointsFit
  <2>2. \A x, y \in Int : (x - y) * (x - y) \in Nat
    <3>1. \A x \in Int : x * x \in Nat
      OBVIOUS
    <3> QED
      BY <3>1
  <2> QED
    BY <2>1, <2>2 DEF Regional!Squared
<1>3. d \in [prepared.features -> Nat]
  BY <1>1, <1>2
<1>4. Regional!Total(d) \in Nat
  BY <1>3, TotalIsNumber DEF PointsFit
<1> QED
  BY <1>1, <1>4, Zenon DEF Regional!SquaredDistance

(* The mean of some regions has a size and integers in it.                *)
LEMMA CentroidIsSound ==
  ASSUME NEW prepared, PointsFit(prepared), NEW members \in SUBSET prepared.regions, members # {}
  PROVE  Sound(prepared, Regional!Centroid(prepared, members))
<1>1. IsFiniteSet(members) /\ Cardinality(members) \in Nat \ {0}
  <2>1. IsFiniteSet(members)
    BY FS_Subset DEF PointsFit
  <2> QED
    BY <2>1, FS_CardinalityType, FS_EmptySet
<1>2. ASSUME NEW f \in prepared.features
      PROVE  Regional!Total([r \in members |-> prepared.points[f][r]]) \in Int
  <2>1. [r \in members |-> prepared.points[f][r]] \in [members -> Int]
    BY DEF PointsFit
  <2> QED
    BY <1>1, <2>1, TotalIsNumber
<1>3. PICK sum : sum = [f \in prepared.features |-> Regional!Total([r \in members |-> prepared.points[f][r]])]
  OBVIOUS
<1>4. Regional!Centroid(prepared, members) = [sum |-> sum, size |-> Cardinality(members)]
  BY <1>3, SameCountOfRegions, Zenon DEF Regional!Centroid
<1>5. \A f \in prepared.features : sum[f] \in Int
  BY <1>2, <1>3
<1>6. sum \in [prepared.features -> Int]
  BY <1>3, <1>5
<1> QED
  BY <1>1, <1>4, <1>5, <1>6 DEF Sound, Means

(* The distance from a mean is an integer.                                *)
LEMMA GapIsNumber ==
  ASSUME NEW prepared, PointsFit(prepared), NEW r \in prepared.regions, NEW a, Sound(prepared, a)
  PROVE  Regional!Gap(prepared, r, a) \in Int
<1>1. PICK d : d = [f \in prepared.features |->
                     (a.size * prepared.points[f][r] - a.sum[f])
                     * (a.size * prepared.points[f][r] - a.sum[f])]
  OBVIOUS
<1>2. ASSUME NEW f \in prepared.features PROVE d[f] \in Int
  <2>1. prepared.points[f][r] \in Int /\ a.sum[f] \in Int /\ a.size \in Int
    BY DEF PointsFit, Sound
  <2>2. \A x, y, z \in Int : (x * y - z) * (x * y - z) \in Int
    OBVIOUS
  <2> QED
    BY <1>1, <2>1, <2>2
<1>3. d \in [prepared.features -> Int]
  BY <1>1, <1>2
<1>4. Regional!Total(d) \in Int
  BY <1>3, TotalIsNumber DEF PointsFit
<1> QED
  BY <1>1, <1>4, Zenon DEF Regional!Gap

(* The minimum of finitely many numbers is one of them.                    *)
LEMMA MinIsNumber ==
  ASSUME NEW S, IsFiniteSet(S), S \subseteq Int, S # {}
  PROVE  Regional!Min(S) \in S /\ \A y \in S : Regional!Min(S) <= y
<1>1. \E x \in S : \A y \in S : x <= y
  BY SmallestIsThere
<1> QED
  BY <1>1 DEF Regional!Min

(* The next start is a region that is not one yet.                         *)
LEMMA NextStartIsRegion ==
  ASSUME NEW prepared, PointsFit(prepared), NEW starts \in Seq(prepared.regions), starts # <<>>,
         Len(starts) < Cardinality(prepared.regions)
  PROVE  Regional!NextStart(prepared, starts) \in prepared.regions
<1>1. PICK T : T = Regional!ToSet(starts)
  OBVIOUS
<1>2. T = {starts[i] : i \in 1..Len(starts)} /\ Len(starts) \in Nat \ {0}
  BY <1>1 DEF Regional!ToSet
<1>3. T \subseteq prepared.regions /\ T # {}
  BY <1>2
<1>4. IsFiniteSet(T) /\ Cardinality(T) <= Len(starts)
  <2>1. IsFiniteSet(1..Len(starts)) /\ Cardinality(1..Len(starts)) = Len(starts)
    BY <1>2, FS_Interval
  <2>2. starts \in Surjection(1..Len(starts), T)
    BY <1>2 DEF Surjection
  <2> QED
    BY <2>1, <2>2, FS_Surjection
<1>5. PICK S : S = prepared.regions \ T
  OBVIOUS
<1>6. IsFiniteSet(S) /\ S # {} /\ S \subseteq Int /\ S \subseteq prepared.regions
  <2>1. S = {} => T = prepared.regions
    BY <1>3, <1>5
  <2>2. IsFiniteSet(S)
    BY <1>5, FS_Difference DEF PointsFit
  <2>3. Cardinality(T) \in Nat
    BY <1>4, FS_CardinalityType
  <2>4. ASSUME T = prepared.regions PROVE FALSE
    <3>1. Len(starts) < Cardinality(T)
      BY <2>4
    <3> QED
      BY <1>2, <1>4, <2>3, <3>1
  <2> QED
    BY <1>5, <2>1, <2>2, <2>4 DEF PointsFit
<1>7. PICK gap : gap = [r \in prepared.regions |->
                         Regional!Min({Regional!SquaredDistance(prepared, r, s) : s \in T})]
  OBVIOUS
<1>8. ASSUME NEW r \in prepared.regions PROVE gap[r] \in Int
  <2>1. PICK d : d = [s \in T |-> Regional!SquaredDistance(prepared, r, s)]
    OBVIOUS
  <2>2. {Regional!SquaredDistance(prepared, r, s) : s \in T} = {d[s] : s \in T}
    BY <2>1
  <2>3. IsFiniteSet({d[s] : s \in T})
    BY <1>4, <2>1, ImageFinite
  <2>4. {d[s] : s \in T} \subseteq Int /\ {d[s] : s \in T} # {}
    <3>1. ASSUME NEW s \in T PROVE d[s] \in Int
      <4>1. Regional!SquaredDistance(prepared, r, s) \in Nat
        BY <1>3, SquaredDistanceIsNumber
      <4> QED
        BY <2>1, <4>1
    <3> QED
      BY <1>3, <3>1
  <2> QED
    BY <1>7, <2>2, <2>3, <2>4, MinIsNumber
<1>9. PICK v : v = [r \in S |-> gap[r]]
  OBVIOUS
<1>10. PICK m : m = [r \in S |-> r]
  OBVIOUS
<1>11. PICK z : z = [r \in S |-> 0]
  OBVIOUS
<1>12. PICK B : B = [s \in S |-> {r \in S : gap[r] > gap[s] \/ (gap[r] = gap[s] /\ r > s)}]
  OBVIOUS
<1>13. Precedes(S, B)
  <2>1. v \in [S -> Int] /\ m \in [S -> Int] /\ z \in [S -> Int]
    BY <1>6, <1>8, <1>9, <1>10, <1>11
  <2>2. ASSUME NEW x \in S, NEW y \in S
        PROVE  y \in B[x] <=>
                 \/ v[y] > v[x]
                 \/ v[y] = v[x] /\ m[y] > m[x]
                 \/ v[y] = v[x] /\ m[y] = m[x] /\ z[y] > z[x]
                 \/ v[y] = v[x] /\ m[y] = m[x] /\ z[y] = z[x] /\ y < x
    <3>1. v[x] = gap[x] /\ v[y] = gap[y] /\ m[x] = x /\ m[y] = y /\ z[x] = 0 /\ z[y] = 0
      BY <1>9, <1>10, <1>11
    <3>2. x \in Int /\ y \in Int
      BY <1>6
    <3>3. y \in B[x] <=> gap[y] > gap[x] \/ (gap[y] = gap[x] /\ y > x)
      BY <1>12
    <3> QED
      BY <3>1, <3>2, <3>3
  <2>3. \A x \in S : B[x] \in SUBSET S
    BY <1>12
  <2> QED
    BY <1>6, <2>1, <2>2, <2>3, NumbersPrecede
<1>14. PICK a : a = Regional!NextStart(prepared, starts)
  OBVIOUS
<1>15. a = CHOOSE x \in S : \A y \in S \ {x} : gap[x] > gap[y] \/ (gap[x] = gap[y] /\ x > y)
  BY <1>1, <1>5, <1>7, <1>14, Zenon DEF Regional!NextStart, Regional!Greatest
<1>16. \E x \in S : \A y \in S \ {x} : x \in B[y]
  BY <1>6, <1>13, OneIsFirst
<1>17. \E x \in S : \A y \in S \ {x} : gap[x] > gap[y] \/ (gap[x] = gap[y] /\ x > y)
  <2>1. PICK x \in S : \A y \in S \ {x} : x \in B[y]
    BY <1>16
  <2> QED
    BY <1>12, <2>1
<1>18. a \in S
  BY <1>15, <1>17
<1> QED
  BY <1>6, <1>14, <1>18

(* What one step of clustering does to a state: one start more, one        *)
(* cluster filled, one round.                                              *)
Advanced(what, prepared, centroids, state, i) ==
  IF what = "start" THEN Append(state, Regional!NextStart(prepared, state))
  ELSE IF what = "refill" THEN Regional!Refilled(prepared, centroids, state, i)
  ELSE Regional!Lloyd(prepared, state)

(* g[i] is the state after i steps.                                        *)
Advancing(what, prepared, centroids, base, n, g) ==
  g = [i \in 0..n |-> IF i = 0 THEN base ELSE Advanced(what, prepared, centroids, g[i - 1], i)]

(* There is such a function.                                               *)
LEMMA AdvancesExist ==
  ASSUME NEW what, NEW prepared, NEW centroids, NEW base, NEW n \in Nat
  PROVE  \E g : Advancing(what, prepared, centroids, base, n, g)
<1> DEFINE Good == {m \in 0..n : \E g : Advancing(what, prepared, centroids, base, m, g)}
<1>1. 0 \in Good
  <2> DEFINE g == [i \in 0..0 |-> base]
  <2>1. Advancing(what, prepared, centroids, base, 0, g)
    BY DEF Advancing
  <2> QED
    BY <2>1
<1>2. ASSUME NEW m \in 1..n, m - 1 \in Good PROVE m \in Good
  <2>1. PICK h : Advancing(what, prepared, centroids, base, m - 1, h)
    BY <1>2
  <2>2. PICK last : last = Advanced(what, prepared, centroids, h[m - 1], m)
    OBVIOUS
  <2> DEFINE g == [i \in 0..m |-> IF i = m THEN last ELSE h[i]]
  <2>3. \A i \in 0..m : i = m \/ i \in 0..(m - 1)
    OBVIOUS
  <2>4. \A i \in 0..(m - 1) : g[i] = h[i]
    OBVIOUS
  <2>5. g[m] = last /\ m # 0 /\ m - 1 \in 0..(m - 1)
    OBVIOUS
  <2>6. \A i \in 0..(m - 1) :
          h[i] = IF i = 0 THEN base ELSE Advanced(what, prepared, centroids, h[i - 1], i)
    BY <2>1 DEF Advancing
  <2>7. DOMAIN g = 0..m /\ g = [i \in DOMAIN g |-> g[i]]
    OBVIOUS
  <2> HIDE DEF g
  <2>8. ASSUME NEW i \in 0..m
        PROVE  g[i] = IF i = 0 THEN base ELSE Advanced(what, prepared, centroids, g[i - 1], i)
    <3>1. CASE i = m
      BY <2>2, <2>4, <2>5, <3>1
    <3>2. CASE i \in 0..(m - 1)
      <4>1. i = 0 \/ i - 1 \in 0..(m - 1)
        BY <3>2
      <4> QED
        BY <2>4, <2>6, <3>2, <4>1
    <3> QED
      BY <2>3, <3>1, <3>2
  <2>9. Advancing(what, prepared, centroids, base, m, g)
    BY <2>7, <2>8 DEF Advancing
  <2> QED
    BY <2>9
<1>3. \A i \in 0..n : i \in Good
  <2> HIDE DEF Good
  <2> QED
    BY <1>1, <1>2, StepByStep
<1> QED
  BY <1>3

(* As many starts as asked for, all of them regions.                       *)
LEMMA StartsAreRegions ==
  ASSUME NEW prepared, PointsFit(prepared), NEW first \in prepared.regions,
         NEW k \in Nat \ {0}, k <= Cardinality(prepared.regions)
  PROVE  Regional!Starts(prepared, k, first) \in Seq(prepared.regions)
         /\ Len(Regional!Starts(prepared, k, first)) = k
<1>1. PICK n : n = k - 1
  OBVIOUS
<1>2. n \in Nat /\ n + 1 = k
  BY <1>1
<1> DEFINE g == CHOOSE f : Advancing("start", prepared, 0, <<first>>, n, f)
<1>3. Advancing("start", prepared, 0, <<first>>, n, g)
  BY <1>2, AdvancesExist
<1>4. Regional!Starts(prepared, k, first) = g[n]
  BY <1>1, Zenon DEF Regional!Starts, Regional!Iterated, Advancing, Advanced
<1> HIDE DEF g
<1>5. g[0] = <<first>> /\ \A i \in 1..n : g[i] = Append(g[i - 1], Regional!NextStart(prepared, g[i - 1]))
  <2>1. \A state, i : Advanced("start", prepared, 0, state, i)
                       = Append(state, Regional!NextStart(prepared, state))
    BY DEF Advanced
  <2>2. /\ 0 \in 0..n /\ \A i \in 1..n : i \in 0..n /\ i # 0
        /\ \A i \in 0..n : g[i] = IF i = 0 THEN <<first>>
                                   ELSE Advanced("start", prepared, 0, g[i - 1], i)
    BY <1>2, <1>3 DEF Advancing
  <2> QED
    BY <2>1, <2>2
<1> DEFINE Good == {i \in 0..n : g[i] \in Seq(prepared.regions) /\ Len(g[i]) = i + 1}
<1>6. 0 \in Good
  <2>1. <<first>> \in Seq(prepared.regions) /\ Len(<<first>>) = 1 /\ 0 \in 0..n
    <3>1. \A R : \A x \in R : <<x>> \in Seq(R) /\ Len(<<x>>) = 1
      OBVIOUS
    <3>2. first \in prepared.regions /\ 0 \in 0..n
      BY <1>2
    <3> QED
      BY <3>1, <3>2, Zenon
  <2> QED
    BY <1>5, <2>1
<1>7. ASSUME NEW i \in 1..n, i - 1 \in Good PROVE i \in Good
  <2>1. PICK s : s = g[i - 1]
    OBVIOUS
  <2>2. s \in Seq(prepared.regions) /\ Len(s) = i
    BY <1>7, <2>1
  <2>3. Cardinality(prepared.regions) \in Nat
    BY FS_CardinalityType DEF PointsFit
  <2>4. Len(s) < Cardinality(prepared.regions) /\ s # <<>>
    BY <1>2, <2>2, <2>3
  <2>5. Regional!NextStart(prepared, s) \in prepared.regions
    BY <2>2, <2>4, NextStartIsRegion
  <2>6. g[i] = Append(s, Regional!NextStart(prepared, s))
    BY <1>5, <2>1
  <2>7. \A x \in prepared.regions : Append(s, x) \in Seq(prepared.regions)
                                    /\ Len(Append(s, x)) = Len(s) + 1
    BY <2>2
  <2>8. g[i] \in Seq(prepared.regions) /\ Len(g[i]) = i + 1 /\ i \in 0..n
    BY <2>2, <2>5, <2>6, <2>7
  <2> QED
    BY <2>8
<1>8. \A i \in 0..n : i \in Good
  <2> HIDE DEF Good
  <2> QED
    BY <1>2, <1>6, <1>7, StepByStep
<1>9. n \in Good
  BY <1>2, <1>8
<1> QED
  BY <1>2, <1>4, <1>9

(* Regions near centroids are in a strict total order for every region:    *)
(* the nearest of them is one.                                             *)
LEMMA NearestGives ==
  ASSUME NEW prepared, PointsFit(prepared), NEW k \in Nat \ {0},
         NEW centroids, DOMAIN centroids = 1..k, \A c \in 1..k : Sound(prepared, centroids[c])
  PROVE  Regional!Nearest(prepared, centroids) \in [prepared.regions -> 1..k]
<1>1. ASSUME NEW r \in prepared.regions
      PROVE  \E c \in DOMAIN centroids : \A d \in DOMAIN centroids \ {c} :
               \/ Regional!Nearer(prepared, r, centroids[c], r, centroids[d])
               \/ c < d /\ ~Regional!Nearer(prepared, r, centroids[d], r, centroids[c])
  <2>1. PICK D : D = 1..k /\ D = DOMAIN centroids
    OBVIOUS
  <2>2. PICK x : x = [c \in D |-> Regional!Gap(prepared, r, centroids[c])]
    OBVIOUS
  <2>3. PICK n : n = [c \in D |-> centroids[c].size]
    OBVIOUS
  <2>4. x \in [D -> Int] /\ n \in [D -> Nat \ {0}]
    <3>1. \A c \in D : x[c] \in Int
      BY <2>1, <2>2, GapIsNumber
    <3>2. \A c \in D : n[c] \in Nat \ {0}
      BY <2>1, <2>3 DEF Sound
    <3> QED
      BY <2>2, <2>3, <3>1, <3>2
  <2>5. PICK W : W = [d \in D |-> {c \in D : x[c] * n[d] * n[d] < x[d] * n[c] * n[c]}]
    OBVIOUS
  <2>6. Weakly(D, W)
    <3>1. /\ \A d \in D : W[d] \in SUBSET D
          /\ \A c, d \in D : c \in W[d] <=> x[c] * n[d] * n[d] < x[d] * n[c] * n[c]
      BY <2>5
    <3> QED
      BY <2>4, <3>1, QuotientsOrder
  <2>7. PICK m : m = [c \in D |-> c]
    OBVIOUS
  <2>8. PICK B : B = [d \in D |-> {c \in D : c \in W[d] \/ (m[c] < m[d] /\ d \notin W[c])}]
    OBVIOUS
  <2>9. Precedes(D, B)
    <3>1. m \in [D -> Int] /\ \A c, d \in D : m[c] = m[d] => c = d
      BY <2>1, <2>7
    <3>2. \A d \in D : B[d] \in SUBSET D
      BY <2>8
    <3>3. \A d, c \in D : c \in B[d] <=> c \in W[d] \/ (m[c] < m[d] /\ d \notin W[c])
      BY <2>8
    <3> QED
      BY <2>6, <3>1, <3>2, <3>3, TiesAreBroken
  <2>10. IsFiniteSet(D) /\ D # {}
    <3>1. 1 \in 1..k /\ k \in Int /\ 1 \in Int
      OBVIOUS
    <3>2. IsFiniteSet(1..k)
      BY <3>1, FS_Interval
    <3> QED
      BY <2>1, <3>1, <3>2
  <2>11. PICK c \in D : \A d \in D \ {c} : c \in B[d]
    BY <2>9, <2>10, OneIsFirst
  <2>12. \A a, b \in D : a \in W[b] <=> Regional!Nearer(prepared, r, centroids[a], r, centroids[b])
    BY <2>2, <2>3, <2>5 DEF Regional!Nearer
  <2> QED
    BY <2>1, <2>7, <2>8, <2>11, <2>12
<1>2. Regional!Nearest(prepared, centroids)
      = [r \in prepared.regions |->
          CHOOSE c \in DOMAIN centroids : \A d \in DOMAIN centroids \ {c} :
            \/ Regional!Nearer(prepared, r, centroids[c], r, centroids[d])
            \/ c < d /\ ~Regional!Nearer(prepared, r, centroids[d], r, centroids[c])]
  BY Zenon DEF Regional!Nearest
<1>3. ASSUME NEW r \in prepared.regions PROVE Regional!Nearest(prepared, centroids)[r] \in 1..k
  <2>1. Regional!Nearest(prepared, centroids)[r]
        = CHOOSE c \in DOMAIN centroids : \A d \in DOMAIN centroids \ {c} :
            \/ Regional!Nearer(prepared, r, centroids[c], r, centroids[d])
            \/ c < d /\ ~Regional!Nearer(prepared, r, centroids[d], r, centroids[c])
    BY <1>2
  <2>2. Regional!Nearest(prepared, centroids)[r] \in DOMAIN centroids
    BY <1>1, <2>1
  <2> QED
    BY <2>2
<1> QED
  BY <1>2, <1>3

(* Labels of the regions, centroids of the clusters.                       *)
Labelling(prepared, k, labels) == labels \in [prepared.regions -> 1..k]
Centring(prepared, k, centroids) ==
  /\ centroids \in Seq(Means(prepared)) /\ Len(centroids) = k
  /\ DOMAIN centroids = 1..k /\ \A c \in 1..k : Sound(prepared, centroids[c])

(* The members of a cluster are finitely many regions, those labelled so. *)
LEMMA MembersAre ==
  ASSUME NEW prepared, PointsFit(prepared), NEW k, NEW labels, Labelling(prepared, k, labels)
  PROVE  \A c : /\ Regional!Members(labels, c) \in SUBSET prepared.regions
                /\ IsFiniteSet(Regional!Members(labels, c))
                /\ \A r : r \in Regional!Members(labels, c) <=> r \in prepared.regions /\ labels[r] = c
<1>1. \A c, r : r \in Regional!Members(labels, c) <=> r \in prepared.regions /\ labels[r] = c
  BY DEF Labelling, Regional!Members
<1> QED
  BY <1>1, FS_Subset DEF PointsFit

(* The regions whose cluster has others.                                   *)
Movable(prepared, labels) ==
  {r \in prepared.regions : Cardinality(Regional!Members(labels, labels[r])) > 1}

(* The farthest of them is one.                                            *)
LEMMA FarthestGives ==
  ASSUME NEW prepared, PointsFit(prepared), NEW k \in Nat \ {0},
         NEW labels, Labelling(prepared, k, labels),
         NEW centroids, Centring(prepared, k, centroids), Movable(prepared, labels) # {}
  PROVE  Regional!Farthest(prepared, labels, centroids) \in Movable(prepared, labels)
<1>1. PICK D : D = Movable(prepared, labels)
  OBVIOUS
<1>2. PICK x : x = [r \in D |-> Regional!Gap(prepared, r, centroids[labels[r]])]
  OBVIOUS
<1>3. PICK n : n = [r \in D |-> centroids[labels[r]].size]
  OBVIOUS
<1>4. D \subseteq prepared.regions /\ IsFiniteSet(D) /\ D # {} /\ D \subseteq Int
  BY <1>1, FS_Subset DEF Movable, PointsFit
<1>5. \A r \in D : Sound(prepared, centroids[labels[r]])
  BY <1>4 DEF Labelling, Centring
<1>6. x \in [D -> Int] /\ n \in [D -> Nat \ {0}]
  <2>1. \A r \in D : x[r] \in Int
    BY <1>2, <1>4, <1>5, GapIsNumber
  <2>2. \A r \in D : n[r] \in Nat \ {0}
    BY <1>3, <1>5 DEF Sound
  <2> QED
    BY <1>2, <1>3, <2>1, <2>2
<1>7. PICK z : z = [r \in D |-> -x[r]]
  OBVIOUS
<1>8. PICK W : W = [s \in D |-> {r \in D : z[r] * n[s] * n[s] < z[s] * n[r] * n[r]}]
  OBVIOUS
<1>9. \A r, s \in D : r \in W[s] <=> x[s] * n[r] * n[r] < x[r] * n[s] * n[s]
  <2>1. ASSUME NEW r \in D, NEW s \in D
        PROVE  z[r] * n[s] * n[s] < z[s] * n[r] * n[r] <=> x[s] * n[r] * n[r] < x[r] * n[s] * n[s]
    <3>1. PICK a \in Int, b \in Int, p \in Int, q \in Int : a = x[r] /\ b = x[s] /\ p = n[r] /\ q = n[s]
      BY <1>6
    <3>2. z[r] = -a /\ z[s] = -b
      BY <1>7, <3>1
    <3>3. (-a) * q * q < (-b) * p * p <=> b * p * p < a * q * q
      OBVIOUS
    <3> QED
      BY <3>1, <3>2, <3>3
  <2> QED
    BY <1>8, <2>1
<1>10. Weakly(D, W)
  <2>1. z \in [D -> Int]
    <3>1. \A r \in D : z[r] \in Int
      BY <1>6, <1>7
    <3> QED
      BY <1>7, <3>1
  <2>2. /\ \A d \in D : W[d] \in SUBSET D
        /\ \A c, d \in D : c \in W[d] <=> z[c] * n[d] * n[d] < z[d] * n[c] * n[c]
    BY <1>8
  <2> QED
    BY <1>6, <2>1, <2>2, QuotientsOrder
<1>11. PICK m : m = [r \in D |-> -r]
  OBVIOUS
<1>12. PICK B : B = [s \in D |-> {r \in D : r \in W[s] \/ (m[r] < m[s] /\ s \notin W[r])}]
  OBVIOUS
<1>13. Precedes(D, B)
  <2>1. m \in [D -> Int] /\ \A r, s \in D : m[r] = m[s] => r = s
    <3>1. \A r \in D : r \in Int /\ m[r] = -r
      BY <1>4, <1>11
    <3> QED
      BY <1>11, <3>1
  <2>2. /\ \A s \in D : B[s] \in SUBSET D
        /\ \A s, r \in D : r \in B[s] <=> r \in W[s] \/ (m[r] < m[s] /\ s \notin W[r])
    BY <1>12
  <2> QED
    BY <1>10, <2>1, <2>2, TiesAreBroken
<1>14. \A r, s \in D : r \in W[s]
          <=> Regional!Nearer(prepared, s, centroids[labels[s]], r, centroids[labels[r]])
  BY <1>2, <1>3, <1>9 DEF Regional!Nearer
<1>15. \A r, s \in D : m[r] < m[s] <=> r > s
  <2>1. \A r, s \in Int : -r < -s <=> r > s
    OBVIOUS
  <2> QED
    BY <1>4, <1>11, <2>1
<1>16. \E r \in D : \A s \in D \ {r} :
         \/ Regional!Nearer(prepared, s, centroids[labels[s]], r, centroids[labels[r]])
         \/ r > s /\ ~Regional!Nearer(prepared, r, centroids[labels[r]], s, centroids[labels[s]])
  <2>1. PICK r \in D : \A s \in D \ {r} : r \in B[s]
    BY <1>4, <1>13, OneIsFirst
  <2>2. \A s \in D \ {r} : r \in W[s] \/ (r > s /\ s \notin W[r])
    BY <1>12, <1>15, <2>1
  <2> QED
    BY <1>14, <2>2
<1>17. D = {r \in prepared.regions : Regional!Cardinality(Regional!Members(labels, labels[r])) > 1}
  BY <1>1, SameCountOfRegions DEF Movable
<1>18. Regional!Farthest(prepared, labels, centroids)
       = CHOOSE r \in D : \A s \in D \ {r} :
         \/ Regional!Nearer(prepared, s, centroids[labels[s]], r, centroids[labels[r]])
         \/ r > s /\ ~Regional!Nearer(prepared, r, centroids[labels[r]], s, centroids[labels[s]])
  BY <1>17, Zenon DEF Regional!Farthest, Regional!Greatest
<1> QED
  BY <1>1, <1>16, <1>18

(* Filling leaves no cluster empty that was not, nor the one it fills: if  *)
(* one is empty, two regions are together in another.                      *)
LEMMA FilledGives ==
  ASSUME NEW prepared, PointsFit(prepared), NEW k \in Nat \ {0}, k <= Cardinality(prepared.regions),
         NEW labels, Labelling(prepared, k, labels),
         NEW centroids, Centring(prepared, k, centroids), NEW c \in 1..k,
         NEW filled, filled = Regional!Filled(prepared, labels, centroids, c)
  PROVE  /\ Labelling(prepared, k, filled)
         /\ Regional!Members(filled, c) # {}
         /\ \A d : Regional!Members(labels, d) # {} => Regional!Members(filled, d) # {}
<1>1. CASE Regional!Members(labels, c) # {}
  BY <1>1 DEF Regional!Filled
<1>2. CASE Regional!Members(labels, c) = {}
  <2>1. PICK a : a = Regional!Farthest(prepared, labels, centroids)
    OBVIOUS
  <2>2. filled = [labels EXCEPT ![a] = c]
    BY <1>2, <2>1 DEF Regional!Filled
  <2>3. Movable(prepared, labels) # {}
    <3>1. PICK T : T = (1..k) \ {c}
      OBVIOUS
    <3>2. IsFiniteSet(T) /\ Cardinality(T) = k - 1
      <4>1. IsFiniteSet(1..k) /\ Cardinality(1..k) = k
        BY FS_Interval
      <4> QED
        BY <3>1, <4>1, FS_RemoveElement
    <3>3. labels \in [prepared.regions -> T]
      <4>1. \A r \in prepared.regions : labels[r] \in 1..k /\ labels[r] # c
        BY <1>2, MembersAre DEF Labelling
      <4> QED
        BY <3>1, <4>1 DEF Labelling
    <3>4. IsFiniteSet(prepared.regions) /\ Cardinality(T) < Cardinality(prepared.regions)
      <4>1. IsFiniteSet(prepared.regions) /\ Cardinality(prepared.regions) \in Nat
        BY FS_CardinalityType DEF PointsFit
      <4> QED
        BY <3>2, <4>1
    <3>5. PICK R : R = prepared.regions
      OBVIOUS
    <3>6. PICK r \in R, s \in R : r # s /\ labels[r] = labels[s]
      BY <3>2, <3>3, <3>4, <3>5, FS_PigeonHole
    <3>7. PICK M : M = Regional!Members(labels, labels[r])
      OBVIOUS
    <3>8. IsFiniteSet(M) /\ r \in M /\ s \in M
      BY <3>5, <3>6, <3>7, MembersAre
    <3>9. Cardinality(M) > 1
      BY <3>6, <3>8, TwoOrMore
    <3> QED
      BY <3>5, <3>7, <3>9 DEF Movable
  <2>4. a \in Movable(prepared, labels)
    BY <2>1, <2>3, FarthestGives
  <2>5. a \in prepared.regions
    BY <2>4 DEF Movable
  <2>6. PICK b \in prepared.regions : b # a /\ labels[b] = labels[a]
    <3>1. PICK M : M = Regional!Members(labels, labels[a])
      OBVIOUS
    <3>2. IsFiniteSet(M) /\ Cardinality(M) > 1
      BY <2>4, <3>1, MembersAre DEF Movable
    <3>3. PICK b \in M : b # a
      BY <3>2, TwoOrMore
    <3> QED
      BY <3>1, <3>3, MembersAre
  <2>7. Labelling(prepared, k, filled)
    BY <2>2, <2>5 DEF Labelling
  <2>8. filled[a] = c /\ \A r \in prepared.regions \ {a} : filled[r] = labels[r]
    BY <2>2, <2>5 DEF Labelling
  <2>9. a \in Regional!Members(filled, c)
    BY <2>5, <2>7, <2>8, MembersAre
  <2>10. ASSUME NEW d, Regional!Members(labels, d) # {} PROVE Regional!Members(filled, d) # {}
    <3>1. PICK r \in prepared.regions : labels[r] = d
      BY <2>10, MembersAre
    <3>2. PICK s \in prepared.regions : s # a /\ labels[s] = d
      BY <2>6, <3>1
    <3>3. s \in Regional!Members(filled, d)
      BY <2>7, <2>8, <3>2, MembersAre
    <3> QED
      BY <3>3
  <2> QED
    BY <2>7, <2>9, <2>10
<1> QED
  BY <1>1, <1>2

(* Every cluster has a region.                                             *)
Peopled(k, labels) == \A c \in 1..k : Regional!Members(labels, c) # {}

(* After the first i clusters of a round.                                  *)
RefilledTo(prepared, k, i, state) ==
  /\ Labelling(prepared, k, state.labels)
  /\ Peopled(i, state.labels)
  /\ Centring(prepared, i, state.centroids)
  /\ state = [labels |-> state.labels, centroids |-> state.centroids, done |-> FALSE]

(* Filling one more cluster leaves that one and those before with a region*)
(* and a mean.                                                            *)
LEMMA RefilledGives ==
  ASSUME NEW prepared, PointsFit(prepared), NEW k \in Nat \ {0}, k <= Cardinality(prepared.regions),
         NEW centroids, Centring(prepared, k, centroids), NEW i \in 1..k,
         NEW j, j = i - 1, NEW state, RefilledTo(prepared, k, j, state),
         NEW next, next = Regional!Refilled(prepared, centroids, state, i)
  PROVE  RefilledTo(prepared, k, i, next)
<1>1. PICK filled : filled = Regional!Filled(prepared, state.labels, centroids, i)
  OBVIOUS
<1>2. PICK mean : mean = Regional!Centroid(prepared, Regional!Members(filled, i))
  OBVIOUS
<1>3. next = [labels |-> filled, done |-> FALSE, centroids |-> Append(state.centroids, mean)]
  BY <1>1, <1>2, Zenon DEF Regional!Refilled
<1>4. /\ Labelling(prepared, k, filled)
      /\ Regional!Members(filled, i) # {}
      /\ \A d : Regional!Members(state.labels, d) # {} => Regional!Members(filled, d) # {}
  BY <1>1, FilledGives DEF RefilledTo
<1>5. Sound(prepared, mean)
  <2>1. Regional!Members(filled, i) \in SUBSET prepared.regions
    BY <1>4, MembersAre
  <2> QED
    BY <1>2, <1>4, <2>1, CentroidIsSound
<1>6. \A c \in 1..i : c \in 1..j \/ c = i
  OBVIOUS
<1>7. Peopled(i, filled)
  BY <1>4, <1>6 DEF RefilledTo, Peopled
<1>8. Centring(prepared, i, Append(state.centroids, mean))
  <2>1. PICK q : q = state.centroids
    OBVIOUS
  <2>2. PICK M : M = Means(prepared)
    OBVIOUS
  <2>3. q \in Seq(M) /\ Len(q) = j /\ mean \in M /\ \A c \in 1..j : Sound(prepared, q[c])
    BY <1>5, <2>1, <2>2 DEF RefilledTo, Centring, Sound
  <2>4. PICK a : a = Append(q, mean)
    OBVIOUS
  <2>5. a \in Seq(M) /\ Len(a) = j + 1 /\ (\A c \in 1..j : a[c] = q[c]) /\ a[j + 1] = mean
    BY <2>3, <2>4
  <2>6. j + 1 = i /\ i \in Nat
    OBVIOUS
  <2>7. DOMAIN a = 1..i
    BY <2>5, <2>6
  <2>8. \A c \in 1..i : Sound(prepared, a[c])
    BY <1>5, <1>6, <2>3, <2>5, <2>6
  <2>9. Centring(prepared, i, a)
    BY <2>2, <2>5, <2>6, <2>7, <2>8 DEF Centring
  <2> QED
    BY <2>1, <2>4, <2>9
<1> QED
  BY <1>3, <1>4, <1>7, <1>8 DEF RefilledTo

(* Once all were filled, every cluster has a region and a mean.           *)
LEMMA RecentredGives ==
  ASSUME NEW prepared, PointsFit(prepared), NEW k \in Nat \ {0}, k <= Cardinality(prepared.regions),
         NEW labels, Labelling(prepared, k, labels),
         NEW centroids, Centring(prepared, k, centroids),
         NEW state, state = Regional!Recentred(prepared, labels, centroids)
  PROVE  RefilledTo(prepared, k, k, state)
<1>1. PICK base : base = [labels |-> labels, centroids |-> <<>>, done |-> FALSE]
  OBVIOUS
<1>2. PICK n : n = Len(centroids)
  OBVIOUS
<1>3. n = k /\ n \in Nat
  BY <1>2 DEF Centring
<1> DEFINE g == CHOOSE f : Advancing("refill", prepared, centroids, base, n, f)
<1>4. Advancing("refill", prepared, centroids, base, n, g)
  BY <1>3, AdvancesExist
<1>5. state = g[n]
  BY <1>1, <1>2, Zenon DEF Regional!Recentred, Regional!Iterated, Advancing, Advanced
<1> HIDE DEF g
<1>6. g[0] = base /\ \A i \in 1..n : g[i] = Regional!Refilled(prepared, centroids, g[i - 1], i)
  <2>1. \A s, i : Advanced("refill", prepared, centroids, s, i) = Regional!Refilled(prepared, centroids, s, i)
    BY DEF Advanced
  <2>2. /\ 0 \in 0..n /\ \A i \in 1..n : i \in 0..n /\ i # 0
        /\ \A i \in 0..n : g[i] = IF i = 0 THEN base
                                   ELSE Advanced("refill", prepared, centroids, g[i - 1], i)
    BY <1>3, <1>4 DEF Advancing
  <2> QED
    BY <2>1, <2>2
<1> DEFINE Good == {i \in 0..n : RefilledTo(prepared, k, i, g[i])}
<1>7. 0 \in Good
  <2>1. RefilledTo(prepared, k, 0, base)
    <3>1. \A M : <<>> \in Seq(M) /\ Len(<<>>) = 0 /\ DOMAIN <<>> = 1..0 /\ 1..0 = {}
      OBVIOUS
    <3>2. Centring(prepared, 0, <<>>)
      BY <3>1 DEF Centring
    <3>3. Peopled(0, labels)
      BY <3>1 DEF Peopled
    <3> QED
      BY <1>1, <3>2, <3>3 DEF RefilledTo
  <2> QED
    BY <1>3, <1>6, <2>1
<1>8. ASSUME NEW i \in 1..n, i - 1 \in Good PROVE i \in Good
  <2>1. PICK j : j = i - 1
    OBVIOUS
  <2>2. PICK s : s = g[j]
    OBVIOUS
  <2>3. RefilledTo(prepared, k, j, s)
    BY <1>8, <2>1, <2>2
  <2>4. g[i] = Regional!Refilled(prepared, centroids, s, i) /\ i \in 1..k /\ i \in 0..n
    BY <1>3, <1>6, <2>1, <2>2
  <2>5. RefilledTo(prepared, k, i, g[i])
    BY <2>1, <2>3, <2>4, RefilledGives
  <2> QED
    BY <2>4, <2>5
<1>9. \A i \in 0..n : i \in Good
  <2> HIDE DEF Good
  <2> QED
    BY <1>3, <1>7, <1>8, StepByStep
<1>10. n \in Good
  BY <1>3, <1>9
<1> QED
  BY <1>3, <1>5, <1>10

(* After a round: every cluster has a region.                              *)
RoundMade(prepared, k, state) ==
  /\ Labelling(prepared, k, state.labels) /\ Peopled(k, state.labels)
  /\ Centring(prepared, k, state.centroids)
  /\ state = [labels |-> state.labels, centroids |-> state.centroids, done |-> state.done]

(* A round keeps every cluster with a region, whether it is the last or   *)
(* not.                                                                   *)
LEMMA RoundGives ==
  ASSUME NEW prepared, PointsFit(prepared), NEW k \in Nat \ {0}, k <= Cardinality(prepared.regions),
         NEW state, \/ RoundMade(prepared, k, state)
                    \/ /\ state.labels = <<>> /\ Centring(prepared, k, state.centroids)
                       /\ state.done = FALSE,
         NEW next, next = Regional!Lloyd(prepared, state)
  PROVE  RoundMade(prepared, k, next)
<1>1. PICK labels : labels = Regional!Nearest(prepared, state.centroids)
  OBVIOUS
<1>2. next = IF state.done \/ labels = state.labels THEN [state EXCEPT !.done = TRUE]
             ELSE Regional!Recentred(prepared, labels, state.centroids)
  BY <1>1, Zenon DEF Regional!Lloyd
<1>3. Centring(prepared, k, state.centroids)
  BY DEF RoundMade
<1>4. Labelling(prepared, k, labels)
  <2>1. PICK q : q = state.centroids
    OBVIOUS
  <2>2. DOMAIN q = 1..k /\ \A c \in 1..k : Sound(prepared, q[c])
    BY <1>3, <2>1 DEF Centring
  <2> QED
    BY <1>1, <2>1, <2>2, NearestGives DEF Labelling
<1>5. CASE ~(state.done \/ labels = state.labels)
  <2>1. PICK q : q = state.centroids
    OBVIOUS
  <2>2. next = Regional!Recentred(prepared, labels, q)
    BY <1>2, <1>5, <2>1
  <2>3. RefilledTo(prepared, k, k, next)
    BY <1>3, <1>4, <2>1, <2>2, RecentredGives
  <2> QED
    BY <2>3 DEF RefilledTo, RoundMade
<1>6. CASE state.done \/ labels = state.labels
  <2>1. RoundMade(prepared, k, state)
    <3>1. labels # <<>>
      <4>1. prepared.regions # {}
        <5>1. Cardinality({}) = 0
          BY FS_EmptySet
        <5> QED
          BY <5>1
      <4>2. DOMAIN labels = prepared.regions /\ DOMAIN <<>> = {}
        BY <1>4 DEF Labelling
      <4> QED
        BY <4>1, <4>2
    <3> QED
      BY <1>6, <3>1
  <2>2. next = [labels |-> state.labels, centroids |-> state.centroids, done |-> TRUE]
    BY <1>2, <1>6, <2>1 DEF RoundMade
  <2> QED
    BY <2>1, <2>2 DEF RoundMade
<1> QED
  BY <1>5, <1>6

(* Before the first round.                                                 *)
RoundBefore(prepared, k, state) ==
  /\ state.labels = <<>> /\ Centring(prepared, k, state.centroids)
  /\ state.done = FALSE

(* A run of the clustering: every region in one cluster, no cluster empty. *)
LEMMA SettledGives ==
  ASSUME NEW prepared, PointsFit(prepared), NEW first \in prepared.regions,
         NEW k \in Nat \ {0}, k <= Cardinality(prepared.regions),
         Rounds \in Nat \ {0},
         NEW labels, labels = Regional!Settled(prepared, k, first)
  PROVE  Labelling(prepared, k, labels) /\ Peopled(k, labels)
<1>1. PICK starts : starts = Regional!Starts(prepared, k, first)
  OBVIOUS
<1>2. starts \in Seq(prepared.regions) /\ Len(starts) = k
  BY <1>1, StartsAreRegions
<1>3. PICK centroids : centroids = [c \in 1..k |->
                         Regional!Centroid(prepared, {Regional!Starts(prepared, k, first)[c]})]
  OBVIOUS
<1>4. Centring(prepared, k, centroids)
  <2>1. ASSUME NEW c \in 1..k PROVE Sound(prepared, centroids[c])
    <3>1. starts[c] \in prepared.regions
      BY <1>2
    <3>2. {starts[c]} \in SUBSET prepared.regions /\ {starts[c]} # {}
      BY <3>1
    <3> QED
      BY <1>1, <1>3, <3>2, CentroidIsSound
  <2>2. PICK M : M = Means(prepared)
    OBVIOUS
  <2>3. \A c \in 1..k : centroids[c] \in M
    BY <2>1, <2>2 DEF Sound
  <2>4. centroids \in [1..k -> M]
    BY <1>3, <2>3
  <2>5. centroids \in Seq(M) /\ Len(centroids) = k
    BY <2>4, FunctionIsSeq
  <2> QED
    BY <2>1, <2>2, <2>4, <2>5 DEF Centring
<1>5. PICK base : base = [labels |-> <<>>, centroids |-> centroids, done |-> FALSE]
  OBVIOUS
<1>6. PICK n : n = Rounds /\ n \in Nat \ {0}
  OBVIOUS
<1> DEFINE g == CHOOSE f : Advancing("round", prepared, 0, base, n, f)
<1>7. Advancing("round", prepared, 0, base, n, g)
  BY <1>6, AdvancesExist
<1>8. labels = g[n].labels
  BY <1>3, <1>5, <1>6, Zenon DEF Regional!Settled, Regional!Iterated, Advancing, Advanced
<1> HIDE DEF g
<1>9. g[0] = base /\ \A i \in 1..n : g[i] = Regional!Lloyd(prepared, g[i - 1])
  <2>1. \A s, i : Advanced("round", prepared, 0, s, i) = Regional!Lloyd(prepared, s)
    BY DEF Advanced
  <2>2. /\ 0 \in 0..n /\ \A i \in 1..n : i \in 0..n /\ i # 0
        /\ \A i \in 0..n : g[i] = IF i = 0 THEN base
                                   ELSE Advanced("round", prepared, 0, g[i - 1], i)
    BY <1>6, <1>7 DEF Advancing
  <2> QED
    BY <2>1, <2>2
<1> DEFINE Good == {i \in 0..n : IF i = 0 THEN RoundBefore(prepared, k, g[i])
                                 ELSE RoundMade(prepared, k, g[i])}
<1>10. 0 \in Good
  <2>1. RoundBefore(prepared, k, base)
    BY <1>4, <1>5 DEF RoundBefore
  <2> QED
    BY <1>6, <1>9, <2>1
<1>11. ASSUME NEW i \in 1..n, i - 1 \in Good PROVE i \in Good
  <2>1. PICK s : s = g[i - 1]
    OBVIOUS
  <2>2. RoundMade(prepared, k, s) \/ RoundBefore(prepared, k, s)
    BY <1>11, <2>1
  <2>3. g[i] = Regional!Lloyd(prepared, s) /\ i \in 0..n /\ i # 0
    BY <1>6, <1>9, <2>1
  <2>4. RoundMade(prepared, k, g[i])
    BY <2>2, <2>3, RoundGives DEF RoundBefore
  <2> QED
    BY <2>3, <2>4
<1>12. \A i \in 0..n : i \in Good
  <2> HIDE DEF Good
  <2> QED
    BY <1>6, <1>10, <1>11, StepByStep
<1>13. n \in Good /\ n # 0
  BY <1>6, <1>12
<1> QED
  BY <1>8, <1>13 DEF RoundMade

(* Means are ordered weakly: by the first feature in which they differ.    *)
LEMMA MeansOrder ==
  ASSUME NEW prepared, PointsFit(prepared), NEW D, NEW mean, \A c \in D : Sound(prepared, mean[c]),
         NEW W, \A d \in D : W[d] \in SUBSET D,
         \A c, d \in D : c \in W[d] <=> Regional!Before(prepared, mean[c], mean[d])
  PROVE  Weakly(D, W)
<1> DEFINE L(f, c, d) == mean[c].sum[f] * mean[d].size < mean[d].sum[f] * mean[c].size
           E(f, c, d) == mean[c].sum[f] * mean[d].size = mean[d].sum[f] * mean[c].size
<1>1. PICK F : F = prepared.features
  OBVIOUS
<1>2. \A f \in F : \A c \in D :
        mean[c].sum[f] \in Int /\ mean[c].size \in Nat \ {0}
  BY <1>1 DEF Sound
<1>3. \A x \in Int, n \in Nat \ {0} : x * n \in Int
  OBVIOUS
<1>4. ASSUME NEW f \in F, NEW c \in D, NEW d \in D
      PROVE  (L(f, c, d) => ~L(f, d, c)) /\ (E(f, c, d) <=> ~L(f, c, d) /\ ~L(f, d, c))
  <2>1. PICK x \in Int, y \in Int :
          x = mean[c].sum[f] * mean[d].size /\ y = mean[d].sum[f] * mean[c].size
    BY <1>2, <1>3
  <2> QED
    BY <2>1
<1>5. ASSUME NEW f \in F, NEW c \in D, NEW d \in D, NEW e \in D, L(f, c, d)
      PROVE  L(f, c, e) \/ L(f, e, d)
  BY <1>2, <1>5, QuotientsCompare
<1>6. \A c, d \in D : c \in W[d] <=>
        \E f \in F : L(f, c, d) /\ \A g \in F : g < f => E(g, c, d)
  BY <1>1 DEF Regional!Before
<1>7. IsFiniteSet(F) /\ F \subseteq Int
  BY <1>1 DEF PointsFit
<1> HIDE DEF L, E
<1>8. ASSUME NEW c \in D, NEW d \in D, c \in W[d] PROVE d \notin W[c]
  <2>1. SUFFICES ASSUME d \in W[c] PROVE FALSE
    OBVIOUS
  <2>2. PICK f \in F : L(f, c, d) /\ \A g \in F : g < f => E(g, c, d)
    BY <1>6, <1>8
  <2>3. PICK h \in F : L(h, d, c) /\ \A g \in F : g < h => E(g, d, c)
    BY <1>6, <2>1
  <2>4. f < h \/ f = h \/ h < f
    BY <1>7
  <2> QED
    BY <1>4, <2>2, <2>3, <2>4
<1>9. ASSUME NEW c \in D, NEW d \in D, NEW e \in D, c \in W[d] PROVE c \in W[e] \/ e \in W[d]
  <2>1. PICK f \in F : L(f, c, d) /\ \A g \in F : g < f => E(g, c, d)
    BY <1>6, <1>9
  <2>2. PICK X : X = {g \in F : ~E(g, c, e) \/ ~E(g, e, d)}
    OBVIOUS
  <2>3. f \in X
    <3>1. L(f, c, e) \/ L(f, e, d)
      BY <1>5, <2>1
    <3> QED
      BY <1>4, <2>2, <3>1
  <2>4. IsFiniteSet(X) /\ X \subseteq Int
    BY <1>7, <2>2, FS_Subset
  <2>5. PICK h \in X : \A g \in X : h <= g
    BY <2>3, <2>4, SmallestIsThere
  <2>6. h \in F /\ h \in Int /\ f \in Int /\ h <= f
    BY <1>7, <2>2, <2>3, <2>5
  <2>7. \A g \in F : g < h => E(g, c, e) /\ E(g, e, d)
    <3>1. \A g \in F : g < h => g \notin X
      BY <1>7, <2>5, <2>6
    <3> QED
      BY <2>2, <3>1
  <2>8. L(h, c, e) \/ L(h, e, d)
    <3>1. CASE h = f
      BY <1>5, <2>1, <3>1
    <3>2. CASE h < f
      <4>1. E(h, c, d)
        BY <2>1, <2>6, <3>2
      <4>2. ~L(h, c, d) /\ ~L(h, d, c)
        BY <1>4, <2>6, <4>1
      <4>3. L(h, c, e) \/ L(h, e, c) \/ L(h, e, d) \/ L(h, d, e)
        BY <1>4, <2>2, <2>6
      <4> QED
        BY <1>5, <2>6, <4>2, <4>3
    <3> QED
      BY <2>6, <3>1, <3>2
  <2> QED
    BY <1>6, <2>6, <2>7, <2>8
<1> QED
  BY <1>8, <1>9 DEF Weakly

(* Clusters are numbered in the order of their means.                      *)
Numbered(prepared, k, labels) ==
  \A c, d \in 1..k :
    Regional!Before(prepared, Regional!Centroid(prepared, Regional!Members(labels, c)),
                    Regional!Centroid(prepared, Regional!Members(labels, d)))
    => c < d

(* The same regions are together.                                          *)
SameTogether(prepared, left, right) ==
  \A r, s \in prepared.regions : left[r] = left[s] <=> right[r] = right[s]

(* Numbering the clusters by their means leaves the same regions together.*)
LEMMA CanonicalGives ==
  ASSUME NEW prepared, PointsFit(prepared), NEW k \in Nat \ {0},
         NEW labels, Labelling(prepared, k, labels), Peopled(k, labels),
         NEW named, named = Regional!Canonical(prepared, labels, k)
  PROVE  /\ Labelling(prepared, k, named) /\ Peopled(k, named)
         /\ SameTogether(prepared, named, labels)
         /\ Numbered(prepared, k, named)
<1> DEFINE mean == [c \in 1..k |-> Regional!Centroid(prepared, Regional!Members(labels, c))]
           o == Regional!InOrder(1..k, LAMBDA c, d :
                  \/ Regional!Before(prepared, mean[c], mean[d])
                  \/ c < d /\ ~Regional!Before(prepared, mean[d], mean[c]))
<1>1. named = [r \in DOMAIN labels |-> CHOOSE i \in 1..k : o[i] = labels[r]]
  BY Zenon DEF Regional!Canonical
<1> HIDE DEF o
<1>2. \A c \in 1..k : mean[c] = Regional!Centroid(prepared, Regional!Members(labels, c))
                      /\ Sound(prepared, mean[c])
  <2>1. ASSUME NEW c \in 1..k
        PROVE  Sound(prepared, Regional!Centroid(prepared, Regional!Members(labels, c)))
    <3>1. PICK M : M = Regional!Members(labels, c)
      OBVIOUS
    <3>2. M \in SUBSET prepared.regions /\ M # {}
      BY <3>1, MembersAre DEF Peopled
    <3> QED
      BY <3>1, <3>2, CentroidIsSound
  <2> QED
    BY <2>1
<1>3. PICK S : S = 1..k
  OBVIOUS
<1>4. IsFiniteSet(S) /\ Cardinality(S) = k
  BY <1>3, FS_Interval
<1>5. PICK W : W = [d \in S |-> {c \in S : Regional!Before(prepared, mean[c], mean[d])}]
  OBVIOUS
<1>6. PICK B : B = [d \in S |-> {c \in S :
                   \/ Regional!Before(prepared, mean[c], mean[d])
                   \/ c < d /\ ~Regional!Before(prepared, mean[d], mean[c])}]
  OBVIOUS
<1>7. Lists(S, B, o)
  <2>1. \A d \in 1..k : B[d] = {c \in 1..k :
                   \/ Regional!Before(prepared, mean[c], mean[d])
                   \/ c < d /\ ~Regional!Before(prepared, mean[d], mean[c])}
    BY <1>3, <1>6
  <2> HIDE DEF mean
  <2>2. Lists(1..k, B, o)
    BY <2>1, SameCountOfRegions DEF o, Lists, Regional!InOrder
  <2> QED
    BY <1>3, <2>2
<1> HIDE DEF mean
<1>8. Precedes(S, B)
  <2>1. Weakly(S, W)
    <3>1. /\ \A d \in S : W[d] \in SUBSET S
          /\ \A c, d \in S : c \in W[d] <=> Regional!Before(prepared, mean[c], mean[d])
      BY <1>5
    <3> QED
      BY <1>2, <1>3, <3>1, MeansOrder
  <2>2. PICK m : m = [c \in S |-> c]
    OBVIOUS
  <2>3. m \in [S -> Int] /\ \A c, d \in S : m[c] = m[d] => c = d
    BY <1>3, <2>2
  <2>4. \A d \in S : B[d] \in SUBSET S
    BY <1>6
  <2>5. \A d, c \in S : c \in B[d] <=> c \in W[d] \/ (m[c] < m[d] /\ d \notin W[c])
    BY <1>5, <1>6, <2>2
  <2> QED
    BY <2>1, <2>3, <2>4, <2>5, TiesAreBroken
<1>9. /\ \A i \in S : o[i] \in S
      /\ \A x \in S : \E i \in S : o[i] = x
      /\ \A i, j \in S : i < j <=> o[i] \in B[o[j]]
      /\ \A i, j \in S : o[i] = o[j] => i = j
  <2>1. /\ \A i \in 1..Cardinality(S) : o[i] \in S
        /\ \A x \in S : \E i \in 1..Cardinality(S) : o[i] = x
        /\ \A i, j \in 1..Cardinality(S) : i < j <=> o[i] \in B[o[j]]
        /\ \A i, j \in 1..Cardinality(S) : o[i] = o[j] => i = j
    BY <1>4, <1>7, <1>8, ListIsInOrder
  <2>2. 1..Cardinality(S) = S
    BY <1>3, <1>4
  <2> QED
    BY <2>1, <2>2
<1>10. DOMAIN labels = prepared.regions /\ \A r \in prepared.regions : labels[r] \in S
  BY <1>3 DEF Labelling
<1>11. DOMAIN named = prepared.regions
       /\ \A r \in prepared.regions : named[r] \in S /\ o[named[r]] = labels[r]
  <2>1. \A r \in prepared.regions : named[r] = CHOOSE i \in S : o[i] = labels[r]
    BY <1>1, <1>3, <1>10
  <2>2. \A r \in prepared.regions : \E i \in S : o[i] = labels[r]
    BY <1>9, <1>10
  <2> QED
    BY <1>1, <1>10, <2>1, <2>2
<1>12. named \in [prepared.regions -> S]
  BY <1>1, <1>10, <1>11
<1>13. Labelling(prepared, k, named)
  BY <1>3, <1>12 DEF Labelling
<1>14. \A c \in S : \A r \in prepared.regions : named[r] = c <=> labels[r] = o[c]
  BY <1>9, <1>11
<1>15. \A c \in S : Regional!Members(named, c) = Regional!Members(labels, o[c])
  BY <1>10, <1>11, <1>14 DEF Regional!Members
<1>16. Peopled(k, named)
  BY <1>3, <1>9, <1>15 DEF Peopled
<1>17. SameTogether(prepared, named, labels)
  BY <1>9, <1>11 DEF SameTogether
<1>18. Numbered(prepared, k, named)
  <2>1. ASSUME NEW c \in S, NEW d \in S,
               Regional!Before(prepared, Regional!Centroid(prepared, Regional!Members(named, c)),
                               Regional!Centroid(prepared, Regional!Members(named, d)))
        PROVE  c < d
    <3>1. Regional!Before(prepared, mean[o[c]], mean[o[d]])
      <4>1. o[c] \in 1..k /\ o[d] \in 1..k
        BY <1>3, <1>9
      <4>2. /\ mean[o[c]] = Regional!Centroid(prepared, Regional!Members(named, c))
            /\ mean[o[d]] = Regional!Centroid(prepared, Regional!Members(named, d))
        BY <1>2, <1>15, <4>1
      <4> QED
        BY <2>1, <4>2
    <3>2. o[c] \in B[o[d]]
      BY <1>6, <1>9, <3>1
    <3> QED
      BY <1>9, <3>2
  <2> QED
    BY <1>3, <2>1 DEF Numbered
<1> QED
  BY <1>13, <1>16, <1>17, <1>18

(* What place in one numbering becomes in another.                         *)
LEMMA NumbersOneWay ==
  ASSUME NEW prepared, PointsFit(prepared), NEW k \in Nat \ {0},
         NEW a, Labelling(prepared, k, a), Peopled(k, a), Numbered(prepared, k, a),
         NEW b, Labelling(prepared, k, b), Numbered(prepared, k, b),
         SameTogether(prepared, a, b),
         \A c, d \in 1..k : c # d =>
           \/ Regional!Before(prepared, Regional!Centroid(prepared, Regional!Members(a, c)),
                              Regional!Centroid(prepared, Regional!Members(a, d)))
           \/ Regional!Before(prepared, Regional!Centroid(prepared, Regional!Members(a, d)),
                              Regional!Centroid(prepared, Regional!Members(a, c)))
  PROVE  \A r \in prepared.regions : a[r] <= b[r]
<1>1. PICK one : one = [c \in 1..k |-> CHOOSE r \in prepared.regions : a[r] = c]
  OBVIOUS
<1>2. \A c \in 1..k : one[c] \in prepared.regions /\ a[one[c]] = c
  <2>1. \A c \in 1..k : \E r \in prepared.regions : a[r] = c
    BY MembersAre DEF Peopled
  <2> QED
    BY <1>1, <2>1
<1>3. PICK s : s = [c \in 1..k |-> b[one[c]]]
  OBVIOUS
<1>4. \A c \in 1..k : s[c] = b[one[c]] /\ s[c] \in 1..k
  BY <1>2, <1>3 DEF Labelling
<1>5. \A r \in prepared.regions : \A c \in 1..k : a[r] = c <=> b[r] = s[c]
  BY <1>2, <1>4 DEF SameTogether
<1>6. \A c \in 1..k : Regional!Members(a, c) = Regional!Members(b, s[c])
  BY <1>5 DEF Regional!Members, Labelling
<1>7. ASSUME NEW c \in 1..k, NEW d \in 1..k, c < d PROVE s[c] < s[d]
  <2>1. ~Regional!Before(prepared, Regional!Centroid(prepared, Regional!Members(a, d)),
                         Regional!Centroid(prepared, Regional!Members(a, c)))
    BY <1>7 DEF Numbered
  <2>2. Regional!Before(prepared, Regional!Centroid(prepared, Regional!Members(b, s[c])),
                        Regional!Centroid(prepared, Regional!Members(b, s[d])))
    BY <1>6, <1>7, <2>1
  <2> QED
    BY <1>4, <2>2 DEF Numbered
<1>8. s \in [1..k -> 1..k]
  BY <1>3, <1>4
<1>9. \A c \in 1..k : c <= s[c]
  BY <1>7, <1>8, GrowingIsAhead
<1>10. \A r \in prepared.regions : a[r] \in 1..k
  BY DEF Labelling
<1> QED
  BY <1>5, <1>9, <1>10

(* Unless two clusters have one mean, one partition has one numbering.     *)
LEMMA NumbersAgree ==
  ASSUME NEW prepared, PointsFit(prepared), NEW k \in Nat \ {0},
         NEW a, Labelling(prepared, k, a), Peopled(k, a), Numbered(prepared, k, a),
         NEW b, Labelling(prepared, k, b), Peopled(k, b), Numbered(prepared, k, b),
         SameTogether(prepared, a, b),
         \A c, d \in 1..k : c # d =>
           \/ Regional!Before(prepared, Regional!Centroid(prepared, Regional!Members(a, c)),
                              Regional!Centroid(prepared, Regional!Members(a, d)))
           \/ Regional!Before(prepared, Regional!Centroid(prepared, Regional!Members(a, d)),
                              Regional!Centroid(prepared, Regional!Members(a, c)))
  PROVE  a = b
<1>1. \A r \in prepared.regions : a[r] <= b[r]
  BY NumbersOneWay
<1>2. SameTogether(prepared, b, a)
  BY DEF SameTogether
<1>3. \A c \in 1..k : \E x \in 1..k : Regional!Members(b, c) = Regional!Members(a, x)
                                      /\ \A r \in prepared.regions : b[r] = c <=> a[r] = x
  <2>1. SUFFICES ASSUME NEW c \in 1..k
                 PROVE  \E x \in 1..k : Regional!Members(b, c) = Regional!Members(a, x)
                                      /\ \A r \in prepared.regions : b[r] = c <=> a[r] = x
    OBVIOUS
  <2>2. PICK s \in prepared.regions : b[s] = c
    BY MembersAre DEF Peopled
  <2>3. PICK x \in 1..k : x = a[s]
    BY DEF Labelling
  <2>4. \A r \in prepared.regions : b[r] = c <=> a[r] = x
    BY <2>2, <2>3 DEF SameTogether
  <2>5. Regional!Members(b, c) = Regional!Members(a, x)
    BY <2>4 DEF Regional!Members, Labelling
  <2> QED
    BY <2>4, <2>5
<1>4. ASSUME NEW c \in 1..k, NEW d \in 1..k, c # d
      PROVE  \/ Regional!Before(prepared, Regional!Centroid(prepared, Regional!Members(b, c)),
                              Regional!Centroid(prepared, Regional!Members(b, d)))
             \/ Regional!Before(prepared, Regional!Centroid(prepared, Regional!Members(b, d)),
                              Regional!Centroid(prepared, Regional!Members(b, c)))
  <2>1. PICK x \in 1..k : Regional!Members(b, c) = Regional!Members(a, x)
                          /\ \A r \in prepared.regions : b[r] = c <=> a[r] = x
    BY <1>3
  <2>2. PICK y \in 1..k : Regional!Members(b, d) = Regional!Members(a, y)
                          /\ \A r \in prepared.regions : b[r] = d <=> a[r] = y
    BY <1>3
  <2>3. PICK s \in prepared.regions : b[s] = c
    BY MembersAre DEF Peopled
  <2>4. x # y
    BY <1>4, <2>1, <2>2, <2>3
  <2> QED
    BY <2>1, <2>2, <2>4
<1>5. \A r \in prepared.regions : b[r] <= a[r]
  BY <1>2, <1>4, NumbersOneWay
<1>6. \A r \in prepared.regions : a[r] \in Int /\ b[r] \in Int
  BY DEF Labelling
<1>7. \A r \in prepared.regions : a[r] = b[r]
  BY <1>1, <1>5, <1>6
<1> QED
  BY <1>7 DEF Labelling

(* What a seed gives.                                                      *)
Grouping(prepared, k, run) ==
  Labelling(prepared, k, run) /\ Peopled(k, run) /\ Numbered(prepared, k, run)

(* A run numbers clusters that all have a region by their means.          *)
LEMMA ClusterOnceGives ==
  ASSUME NEW prepared, PointsFit(prepared), NEW first \in prepared.regions,
         NEW k \in Nat \ {0}, k <= Cardinality(prepared.regions), Rounds \in Nat \ {0},
         NEW run, run = Regional!ClusterOnce(prepared, k, first)
  PROVE  Grouping(prepared, k, run)
<1>1. PICK labels : labels = Regional!Settled(prepared, k, first)
  OBVIOUS
<1>2. Labelling(prepared, k, labels) /\ Peopled(k, labels)
  BY <1>1, SettledGives
<1>3. run = Regional!Canonical(prepared, labels, k)
  BY <1>1 DEF Regional!ClusterOnce
<1> QED
  BY <1>2, <1>3, CanonicalGives DEF Grouping

(* Half of them are the pairs.                                             *)
LEMMA Comb2Is ==
  ASSUME NEW n \in Nat
  PROVE  Regional!Comb2(n) \in Nat /\ 2 * Regional!Comb2(n) = n * (n - 1)
<1>1. PICK j \in Nat : n = 2 * j \/ n = 2 * j + 1
  <2>1. n \div 2 \in Nat /\ (n = 2 * (n \div 2) \/ n = 2 * (n \div 2) + 1)
    OBVIOUS
  <2> QED
    BY <2>1
<1>2. CASE n = 2 * j
  <2>1. n = 0 \/ j * (n - 1) \in Nat
    <3>1. \A x, y \in Nat : x * y \in Nat
      OBVIOUS
    <3>2. n = 0 \/ n - 1 \in Nat
      OBVIOUS
    <3> QED
      BY <3>1, <3>2
  <2>2. n * (n - 1) = 2 * (j * (n - 1))
    <3>1. \A x \in Int : (2 * j) * x = 2 * (j * x)
      OBVIOUS
    <3>2. n - 1 \in Int
      OBVIOUS
    <3> QED
      BY <1>2, <3>1, <3>2
  <2>3. \A x \in Nat : (2 * x) \div 2 = x
    OBVIOUS
  <2>4. n = 0 => n * (n - 1) = 0
    OBVIOUS
  <2>5. PICK x \in Nat : n * (n - 1) = 2 * x
    <3>1. CASE n = 0
      BY <2>4, <3>1
    <3>2. CASE n # 0
      BY <2>1, <2>2, <3>2
    <3> QED
      BY <3>1, <3>2
  <2> QED
    BY <2>3, <2>5 DEF Regional!Comb2
<1>3. CASE n = 2 * j + 1
  <2>1. n * j \in Nat
    OBVIOUS
  <2>2. n - 1 = 2 * j
    BY <1>3
  <2>3. n * (n - 1) = 2 * (n * j)
    <3>1. n * (2 * j) = 2 * (n * j)
      OBVIOUS
    <3> QED
      BY <2>2, <3>1
  <2>4. \A x \in Nat : (2 * x) \div 2 = x
    OBVIOUS
  <2>5. PICK x \in Nat : n * (n - 1) = 2 * x
    BY <2>1, <2>3
  <2> QED
    BY <2>4, <2>5 DEF Regional!Comb2
<1> QED
  BY <1>1, <1>2, <1>3

(* Together: pairs of one label, either way round; there are twice as many *)
(* as the sum over the labels counts.                                      *)
Together(labels) ==
  {p \in (DOMAIN labels) \X (DOMAIN labels) : p[1] # p[2] /\ labels[p[1]] = labels[p[2]]}
Pairs(labels) ==
  Regional!Total([c \in {labels[r] : r \in DOMAIN labels} |->
                   Regional!Comb2(Regional!Cardinality(Regional!Members(labels, c)))])

(* The pairs of a labelling are half of the couples it puts together.     *)
LEMMA PairsAreCounted ==
  ASSUME NEW labels, IsFiniteSet(DOMAIN labels)
  PROVE  /\ Pairs(labels) \in Nat
         /\ IsFiniteSet(Together(labels)) /\ Cardinality(Together(labels)) = 2 * Pairs(labels)
<1>1. PICK R : R = DOMAIN labels
  OBVIOUS
<1>2. PICK S : S = {labels[r] : r \in DOMAIN labels}
  OBVIOUS
<1>3. IsFiniteSet(S)
  BY <1>2, ImageFinite
<1>4. PICK f : f = [c \in {labels[r] : r \in DOMAIN labels} |->
                     Regional!Comb2(Regional!Cardinality(Regional!Members(labels, c)))]
  OBVIOUS
<1>5. PICK U : U = [c \in S |-> Apart(Regional!Members(labels, c))]
  OBVIOUS
<1>6. \A c, r : r \in Regional!Members(labels, c) <=> r \in R /\ labels[r] = c
  BY <1>1 DEF Regional!Members
<1>7. ASSUME NEW c \in S
      PROVE  f[c] \in Nat /\ IsFiniteSet(U[c]) /\ Cardinality(U[c]) = 2 * f[c]
  <2>1. PICK M : M = Regional!Members(labels, c)
    OBVIOUS
  <2>2. IsFiniteSet(M)
    BY <1>1, <1>6, <2>1, FS_Subset
  <2>3. PICK m : m = Cardinality(M)
    OBVIOUS
  <2>4. m \in Nat /\ IsFiniteSet(Apart(M)) /\ Cardinality(Apart(M)) = m * (m - 1)
    BY <2>2, <2>3, ApartAreCounted
  <2>5. f[c] = Regional!Comb2(m)
    BY <1>2, <1>4, <2>1, <2>3, SameCountOfRegions
  <2>6. U[c] = Apart(M)
    BY <1>5, <2>1
  <2> QED
    BY <2>4, <2>5, <2>6, Comb2Is
<1>8. \A c, d \in S : \A p : p \in U[c] /\ p \in U[d] => c = d
  <2>1. \A c \in S : \A p \in U[c] : p[1] \in Regional!Members(labels, c)
    BY <1>5 DEF Apart
  <2> QED
    BY <1>6, <2>1
<1>9. Gathered(U, S) = Together(labels)
  <2>1. \A c \in S : \A p : p \in U[c] <=> p \in R \X R /\ p[1] # p[2] /\ labels[p[1]] = c /\ labels[p[2]] = c
    <3>1. ASSUME NEW c \in S, NEW p
          PROVE  p \in U[c] <=> p \in R \X R /\ p[1] # p[2] /\ labels[p[1]] = c /\ labels[p[2]] = c
      <4>1. PICK M : M = Regional!Members(labels, c)
        OBVIOUS
      <4>2. \A r : r \in M <=> r \in R /\ labels[r] = c
        BY <1>6, <4>1
      <4>3. U[c] = {q \in M \X M : q[1] # q[2]}
        BY <1>5, <4>1 DEF Apart
      <4>4. p \in M \X M <=> p \in R \X R /\ p[1] \in M /\ p[2] \in M
        BY <4>2
      <4>5. p \in R \X R => p[1] \in R /\ p[2] \in R
        OBVIOUS
      <4> QED
        BY <4>2, <4>3, <4>4, <4>5
    <3> QED
      BY <3>1
  <2>2. \A p : p \in Gathered(U, S) <=> \E c \in S : p \in U[c]
    BY DEF Gathered
  <2>3. \A p : p \in Together(labels) <=> p \in R \X R /\ p[1] # p[2] /\ labels[p[1]] = labels[p[2]]
    BY <1>1 DEF Together
  <2>4. \A p \in R \X R : labels[p[1]] \in S
    BY <1>1, <1>2
  <2> QED
    BY <2>1, <2>2, <2>3, <2>4
<1>10. Pairs(labels) = Sums(f, S)[S]
  <2>1. Pairs(labels) = Regional!Total(f)
    BY <1>4, Zenon DEF Pairs
  <2>2. DOMAIN f = S
    BY <1>2, <1>4
  <2> QED
    BY <2>1, <2>2, TotalIsSums
<1> QED
  BY <1>3, <1>7, <1>8, <1>9, <1>10, ClassesAreCounted

(* Of x and y pairs of t, b are common, and t times m is below Unit.       *)
Common(t, x, y, b, q, p, m) ==
  /\ t \in Nat /\ x \in 0..t /\ y \in 0..t /\ b \in Nat /\ b <= x /\ b <= y
  /\ m \in Nat \ {0} /\ t * m < Unit
  /\ q = (x + y) * t - 2 * (x * y) /\ q # 0
  /\ p = 2 * (b * t - x * y)

(* Then the agreement is at most one, and comes within m of the last place *)
(* only if all are common.                                                 *)
LEMMA AgreementIsOne ==
  ASSUME NEW t, NEW x, NEW y, NEW b, NEW q, NEW p, NEW m, Common(t, x, y, b, q, p, m)
  PROVE  /\ q \in Nat \ {0} /\ Regional!Rounded(p, q) \in Int /\ Regional!Rounded(p, q) <= Unit
         /\ Regional!Rounded(p, q) > Unit - m => b = x /\ b = y
<1>1. Unit \in Nat
  BY UnitAssumption DEF UnitAssumption
<1> /\ t \in Nat /\ x \in Nat /\ y \in Nat /\ x <= t /\ y <= t
    /\ b \in Nat /\ b <= x /\ b <= y /\ m \in Nat \ {0} /\ t * m < Unit
    /\ q = (x + y) * t - 2 * (x * y) /\ q # 0
    /\ p = 2 * (b * t - x * y)
  BY DEF Common
<1>2. PICK c \in Nat, d \in Nat : c = t - x /\ d = t - y
  OBVIOUS
<1>3. \A i, j \in Nat : i * j \in Nat
  OBVIOUS
<1>4. PICK xt \in Nat, yt \in Nat, xy \in Nat, bt \in Nat, tt \in Nat, cd \in Nat, xd \in Nat, yc \in Nat :
        /\ xt = x * t /\ yt = y * t /\ xy = x * y /\ bt = b * t /\ tt = t * t
        /\ cd = c * d /\ xd = x * d /\ yc = y * c
  BY <1>2, <1>3
<1>5. q = xt + yt - 2 * xy /\ p = 2 * (bt - xy)
  <2>1. (x + y) * t = xt + yt
    BY <1>4
  <2> QED
    BY <1>4, <2>1
<1>6. xd = xt - xy /\ yc = yt - xy /\ cd = tt - xt - yt + xy
  <2>1. x * d = x * t - x * y
    BY <1>2
  <2>2. y * c = y * t - y * x
    BY <1>2
  <2>3. c * d = t * t - x * t - t * y + x * y
    BY <1>2
  <2>4. y * x = x * y /\ t * y = y * t
    OBVIOUS
  <2> QED
    BY <1>4, <2>1, <2>2, <2>3, <2>4
<1>7. q \in Nat \ {0} /\ q <= tt
  BY <1>5, <1>6
<1>8. PICK e \in Nat : e = x + y - 2 * b
  OBVIOUS
<1>9. PICK et \in Nat : et = e * t
  BY <1>3
<1>10. q - p = et
  <2>1. (x + y - 2 * b) * t = x * t + y * t - 2 * (b * t)
    OBVIOUS
  <2> QED
    BY <1>4, <1>5, <1>8, <1>9, <2>1
<1>11. p \in Int /\ p <= q
  BY <1>5, <1>7, <1>10
<1>12. Regional!Rounded(p, q) \in Int
  BY <1>7, <1>11, RoundedIsNumber
<1>13. m <= Unit
  <2>1. PICK c0 \in Nat : c0 = t - 1
    <3>1. t = 0 => tt = 0
      BY <1>4
    <3> QED
      BY <1>7, <3>1
  <2>2. t * m = m + c0 * m
    <3>1. (c0 + 1) * m = m + c0 * m
      OBVIOUS
    <3> QED
      BY <2>1, <3>1
  <2>3. c0 * m \in Nat
    BY <1>3
  <2> QED
    BY <1>1, <2>2, <2>3
<1>14. CASE p < 0
  <2>1. Regional!Rounded(p, q) <= 0
    <3>1. PICK u \in Nat : u = -p
      BY <1>11, <1>14
    <3>2. PICK w \in Nat : w = u * Unit + q \div 2
      <4>1. u * Unit \in Nat /\ q \div 2 \in Nat
        BY <1>1, <1>7, <3>1
      <4> QED
        BY <4>1
    <3>3. Regional!Rounded(p, q) = -(w \div q)
      BY <1>14, <3>1, <3>2 DEF Regional!Rounded, Regional!Magnitude
    <3>4. w \div q \in Nat
      BY <1>7, <3>2
    <3> QED
      BY <3>3, <3>4
  <2> QED
    BY <1>1, <1>7, <1>12, <1>13, <2>1
<1>15. CASE p >= 0
  <2>1. PICK h \in Nat : h = q \div 2 /\ 2 * h <= q
    BY <1>7
  <2>2. PICK pu \in Nat, qu \in Nat, etu \in Nat : pu = p * Unit /\ qu = q * Unit /\ etu = et * Unit
    <3>1. p \in Nat
      BY <1>11, <1>15
    <3> QED
      BY <1>1, <1>3, <1>7, <3>1
  <2>3. Regional!Rounded(p, q) = (pu + h) \div q
    BY <1>11, <1>15, <2>1, <2>2 DEF Regional!Rounded, Regional!Magnitude
  <2>4. pu = qu - etu
    <3>1. p = q - et
      BY <1>7, <1>10, <1>11
    <3>2. (q - et) * Unit = q * Unit - et * Unit
      BY <1>1, <1>7
    <3> QED
      BY <2>2, <3>1, <3>2
  <2>5. PICK z \in Nat : z = (pu + h) \div q
    <3>1. \A i \in Nat, j \in Nat \ {0} : i \div j \in Nat
      OBVIOUS
    <3>2. pu + h \in Nat
      OBVIOUS
    <3> QED
      BY <1>7, <3>1, <3>2
  <2>6. q * z <= pu + h
    BY <1>7, <2>5
  <2>7. h < q
    BY <1>7, <2>1
  <2>8. z <= Unit
    <3>1. SUFFICES ASSUME z >= Unit + 1 PROVE FALSE
      BY <1>1
    <3>2. q * z >= q * Unit + q
      <4>1. q * (z - (Unit + 1)) \in Nat
        <5>1. z - (Unit + 1) \in Nat
          BY <1>1, <3>1
        <5> QED
          BY <1>3, <1>7, <5>1
      <4>2. q * (z - (Unit + 1)) = q * z - q * Unit - q
        BY <1>1, <1>7
      <4>3. q * z \in Int /\ q * Unit \in Int
        BY <1>1, <1>7
      <4> QED
        BY <1>7, <4>1, <4>2, <4>3
    <3>3. q * Unit = qu /\ q * z \in Int
      BY <1>1, <1>7, <2>2
    <3> QED
      BY <1>7, <2>4, <2>6, <2>7, <3>2, <3>3
  <2>9. ASSUME z > Unit - m PROVE b = x /\ b = y
    <3>1. SUFFICES ASSUME e # 0 PROVE FALSE
      BY <1>8
    <3>2. PICK qm \in Nat, tm \in Nat, ttm \in Nat : qm = q * m /\ tm = t * m /\ ttm = tt * m
      BY <1>3, <1>7
    <3>3. qu - qm + q <= pu + h
      <4>1. z - (Unit - m + 1) \in Nat
        BY <1>1, <2>9
      <4>2. q * (z - (Unit - m + 1)) \in Nat
        BY <1>3, <1>7, <4>1
      <4>3. q * (z - (Unit - m + 1)) = q * z - q * Unit + q * m - q
        BY <1>1, <1>7
      <4>4. q * z \in Int /\ q * Unit = qu
        BY <1>1, <1>7, <2>2
      <4> QED
        BY <1>7, <2>2, <2>6, <3>2, <4>2, <4>3, <4>4
    <3>4. 2 * etu < 2 * qm
      BY <1>7, <2>1, <2>4, <3>3
    <3>5. et >= t
      <4>1. (e - 1) * t \in Nat
        <5>1. e - 1 \in Nat
          BY <3>1
        <5> QED
          BY <1>3, <5>1
      <4>2. (e - 1) * t = e * t - t
        OBVIOUS
      <4> QED
        BY <1>9, <4>1, <4>2
    <3>6. etu >= ttm
      <4>1. PICK v \in Nat : v = et - t
        BY <3>5
      <4>2. PICK w \in Nat : w = Unit - tm
        BY <1>1, <3>2
      <4>3. et * Unit = (t + v) * (tm + w)
        <5>1. et = t + v /\ Unit = tm + w
          BY <1>1, <4>1, <4>2
        <5> QED
          BY <5>1
      <4>4. (t + v) * (tm + w) = t * tm + t * w + v * (tm + w)
        OBVIOUS
      <4>5. t * w \in Nat /\ v * (tm + w) \in Nat
        BY <1>3
      <4>6. t * tm = ttm
        <5>1. t * (t * m) = (t * t) * m
          OBVIOUS
        <5> QED
          BY <1>4, <3>2, <5>1
      <4> QED
        BY <2>2, <4>3, <4>4, <4>5, <4>6
    <3>7. ttm >= qm
      <4>1. PICK v \in Nat : v = tt - q
        BY <1>7
      <4>2. v * m \in Nat
        BY <1>3
      <4>3. (q + v) * m = q * m + v * m
        BY <1>7
      <4>4. tt = q + v
        BY <1>7, <4>1
      <4> QED
        BY <3>2, <4>2, <4>3, <4>4
    <3> QED
      BY <3>4, <3>6, <3>7
  <2> QED
    BY <1>1, <1>7, <1>12, <2>3, <2>5, <2>8, <2>9
<1> QED
  BY <1>11, <1>14, <1>15

(* Of two labellings of the same regions: the agreement is at most one, and *)
(* if it is near one, two are together in the first and two are not, then   *)
(* the same are together.                                                   *)
LEMMA AgreementGives ==
  ASSUME NEW R, IsFiniteSet(R), NEW left, NEW right, DOMAIN left = R, DOMAIN right = R,
         NEW m \in Nat \ {0}, Regional!Comb2(Cardinality(R)) * m < Unit,
         NEW a, a = Regional!AdjustedRand(left, right)
  PROVE  /\ a \in Int /\ a <= Unit
         /\ a > Unit - m /\ (\E r, s \in R : r # s /\ left[r] = left[s])
                         /\ (\E r, s \in R : left[r] # left[s])
            => \A r, s \in R : left[r] = left[s] <=> right[r] = right[s]
<1>1. PICK both : both = [r \in DOMAIN left |-> <<left[r], right[r]>>]
  OBVIOUS
<1>2. DOMAIN both = R /\ \A r \in R : both[r] = <<left[r], right[r]>>
  BY <1>1
<1>3. PICK n : n = Cardinality(R)
  OBVIOUS
<1>4. n \in Nat
  BY <1>3, FS_CardinalityType
<1>5. PICK t \in Nat : t = Regional!Comb2(n) /\ 2 * t = n * (n - 1) /\ t * m < Unit
  BY <1>3, <1>4, Comb2Is
<1>6. PICK x \in Nat : x = Pairs(left) /\ IsFiniteSet(Together(left)) /\ Cardinality(Together(left)) = 2 * x
  BY PairsAreCounted
<1>7. PICK y \in Nat : y = Pairs(right) /\ IsFiniteSet(Together(right)) /\ Cardinality(Together(right)) = 2 * y
  BY PairsAreCounted
<1>8. PICK b \in Nat : b = Pairs(both) /\ IsFiniteSet(Together(both)) /\ Cardinality(Together(both)) = 2 * b
  BY <1>2, PairsAreCounted
<1>9. IsFiniteSet(Apart(R)) /\ Cardinality(Apart(R)) = 2 * t
  BY <1>3, <1>5, ApartAreCounted
<1>10. /\ \A p : p \in Together(left) <=> p \in R \X R /\ p[1] # p[2] /\ left[p[1]] = left[p[2]]
       /\ \A p : p \in Together(right) <=> p \in R \X R /\ p[1] # p[2] /\ right[p[1]] = right[p[2]]
       /\ \A p : p \in Apart(R) <=> p \in R \X R /\ p[1] # p[2]
       /\ \A p \in R \X R : p[1] \in R /\ p[2] \in R
  BY DEF Together, Apart
<1>11. \A p : p \in Together(both) <=> p \in Together(left) /\ p \in Together(right)
  <2>1. \A p : p \in Together(both) <=> p \in R \X R /\ p[1] # p[2] /\ both[p[1]] = both[p[2]]
    BY <1>2 DEF Together
  <2>2. \A r, s \in R : both[r] = both[s] <=> left[r] = left[s] /\ right[r] = right[s]
    BY <1>2
  <2> QED
    BY <1>10, <2>1, <2>2
<1>12. /\ Together(both) \in SUBSET Together(left) /\ Together(both) \in SUBSET Together(right)
       /\ Together(left) \in SUBSET Apart(R) /\ Together(right) \in SUBSET Apart(R)
  BY <1>10, <1>11
<1>13. /\ b <= x /\ b <= y /\ x <= t /\ y <= t
       /\ b = x => Together(both) = Together(left)
       /\ b = y => Together(both) = Together(right)
       /\ x = t => Together(left) = Apart(R)
  <2>1. /\ Cardinality(Together(both)) <= Cardinality(Together(left))
        /\ Cardinality(Together(left)) = Cardinality(Together(both)) => Together(left) = Together(both)
    BY <1>6, <1>12, FS_Subset
  <2>2. /\ Cardinality(Together(both)) <= Cardinality(Together(right))
        /\ Cardinality(Together(right)) = Cardinality(Together(both)) => Together(right) = Together(both)
    BY <1>7, <1>12, FS_Subset
  <2>3. /\ Cardinality(Together(left)) <= Cardinality(Apart(R))
        /\ Cardinality(Apart(R)) = Cardinality(Together(left)) => Apart(R) = Together(left)
    BY <1>9, <1>12, FS_Subset
  <2>4. Cardinality(Together(right)) <= Cardinality(Apart(R))
    BY <1>9, <1>12, FS_Subset
  <2> QED
    BY <1>6, <1>7, <1>8, <1>9, <2>1, <2>2, <2>3, <2>4
<1>14. PICK q : q = (x + y) * t - 2 * (x * y)
  OBVIOUS
<1>15. PICK p : p = 2 * (b * t - x * y)
  OBVIOUS
<1>16. a = IF q = 0 THEN Unit ELSE Regional!Rounded(p, q)
  <2>1. a = LET total == Regional!Comb2(Regional!Cardinality(DOMAIN left))
                chance == Pairs(left) * Pairs(right)
                range == (Pairs(left) + Pairs(right)) * total - 2 * chance
            IN  IF range = 0 THEN Unit
                ELSE Regional!Rounded(2 * (Pairs(both) * total - chance), range)
    BY <1>1, Zenon DEF Regional!AdjustedRand, Pairs
  <2>2. Regional!Comb2(Regional!Cardinality(DOMAIN left)) = t
    BY <1>3, <1>5, SameCountOfRegions
  <2> QED
    BY <1>6, <1>7, <1>8, <1>14, <1>15, <2>1, <2>2
<1>17. Unit \in Nat
  BY UnitAssumption DEF UnitAssumption
<1>18. a \in Int /\ a <= Unit /\ (q # 0 /\ a > Unit - m => b = x /\ b = y)
  <2>1. CASE q = 0
    BY <1>16, <1>17, <2>1
  <2>2. CASE q # 0
    <3>1. x \in 0..t /\ y \in 0..t
      BY <1>13
    <3>2. /\ Regional!Rounded(p, q) \in Int /\ Regional!Rounded(p, q) <= Unit
          /\ Regional!Rounded(p, q) > Unit - m => b = x /\ b = y
      <4>1. b \in Nat /\ b <= x /\ b <= y /\ t \in Nat /\ m \in Nat \ {0} /\ t * m < Unit
        BY <1>5, <1>8, <1>13
      <4>2. Common(t, x, y, b, q, p, m)
        BY <1>14, <1>15, <2>2, <3>1, <4>1, Zenon DEF Common
      <4> QED
        BY <4>2, AgreementIsOne
    <3> QED
      BY <1>16, <2>2, <3>2
  <2> QED
    BY <2>1, <2>2
<1>19. ASSUME a > Unit - m, NEW i \in R, NEW j \in R, i # j, left[i] = left[j],
              NEW l \in R, NEW o \in R, left[l] # left[o]
       PROVE  \A r, s \in R : left[r] = left[s] <=> right[r] = right[s]
  <2>1. x # 0
    <3>1. <<i, j>> \in Together(left)
      BY <1>10, <1>19
    <3> QED
      BY <1>6, <3>1, FS_EmptySet
  <2>2. x # t
    <3>1. <<l, o>> \in Apart(R) /\ <<l, o>> \notin Together(left)
      BY <1>10, <1>19
    <3> QED
      BY <1>13, <3>1
  <2>3. q # 0
    <3>1. PICK u \in Nat, v \in Nat : u = t - x /\ v = t - y
      BY <1>13
    <3>2. q = x * v + y * u
      <4>1. (x + y) * t - 2 * (x * y) = x * (t - y) + y * (t - x)
        OBVIOUS
      <4> QED
        BY <1>14, <3>1, <4>1
    <3>3. x * v \in Nat /\ y * u \in Nat
      OBVIOUS
    <3>4. \A f, g \in Nat \ {0} : f * g # 0
      OBVIOUS
    <3>5. CASE y = 0
      <4>1. v \in Nat \ {0} /\ x \in Nat \ {0}
        BY <1>13, <2>1, <2>2, <3>1, <3>5
      <4> QED
        BY <3>2, <3>3, <3>4, <4>1
    <3>6. CASE y # 0
      <4>1. u \in Nat \ {0} /\ y \in Nat \ {0}
        BY <1>13, <2>2, <3>1, <3>6
      <4> QED
        BY <3>2, <3>3, <3>4, <4>1
    <3> QED
      BY <3>5, <3>6
  <2>4. Together(left) = Together(right)
    BY <1>13, <1>18, <1>19, <2>3
  <2>5. ASSUME NEW r \in R, NEW s \in R PROVE left[r] = left[s] <=> right[r] = right[s]
    <3>1. r # s => (<<r, s>> \in Together(left) <=> left[r] = left[s])
                   /\ (<<r, s>> \in Together(right) <=> right[r] = right[s])
      BY <1>10
    <3> QED
      BY <2>4, <3>1
  <2> QED
    BY <2>5
<1> QED
  BY <1>18, <1>19

(* The instance of the engine takes the larger of two.                    *)
LEMMA MaxOfTwo ==
  ASSUME NEW a \in Int, NEW b \in Int
  PROVE  Regional!Max({a, b}) = IF a <= b THEN b ELSE a
<1>1. \E x \in {a, b} : \A y \in {a, b} : x >= y
  <2>1. a >= b \/ b >= a
    OBVIOUS
  <2> QED
    BY <2>1
<1>2. /\ Regional!Max({a, b}) \in {a, b}
      /\ \A y \in {a, b} : Regional!Max({a, b}) >= y
  BY <1>1 DEF Regional!Max
<1> QED
  BY <1>2

(* A mean distance is a natural number.                                   *)
LEMMA MeanIsNumber ==
  ASSUME NEW prepared, PointsFit(prepared), NEW r \in prepared.regions,
         NEW others \in SUBSET prepared.regions, others # {}
  PROVE  Regional!Mean(prepared, r, others) \in Nat
<1>1. IsFiniteSet(others) /\ Cardinality(others) \in Nat \ {0}
  <2>1. IsFiniteSet(others)
    BY FS_Subset DEF PointsFit
  <2> QED
    BY <2>1, FS_CardinalityType, FS_EmptySet
<1>2. PICK d : d = [s \in others |-> Regional!NearestRoot(Regional!SquaredDistance(prepared, r, s), 1)]
  OBVIOUS
<1>3. \A p : Regional!NearestRoot(p, 1) \in Nat
  <2>1. \A p : Regional!Root((4 * p) \div 1) \in Nat
    BY RootIsNumber
  <2>2. \A x \in Nat : (x + 1) \div 2 \in Nat
    OBVIOUS
  <2> QED
    BY <2>1, <2>2 DEF Regional!NearestRoot
<1>4. d \in [others -> Nat]
  BY <1>2, <1>3
<1>5. PICK total \in Nat : total = Regional!Total(d)
  BY <1>1, <1>4, TotalIsNumber
<1>6. Regional!Mean(prepared, r, others) = (Unit * total) \div Cardinality(others)
  BY <1>2, <1>5, SameCountOfRegions, Zenon DEF Regional!Mean
<1>7. Unit * total \in Nat
  BY UnitAssumption DEF UnitAssumption
<1> QED
  BY <1>1, <1>6, <1>7

(* A silhouette of one region is an integer.                              *)
LEMMA ContrastIsNumber ==
  ASSUME NEW a \in Nat, NEW b \in Nat
  PROVE  Regional!Contrast(a, b) \in Int
<1>1. PICK m \in Nat : m = Regional!Max({a, b})
  BY MaxOfTwo
<1>2. Regional!Contrast(a, b) = IF m = 0 THEN 0 ELSE Regional!Rounded(b - a, m)
  BY <1>1 DEF Regional!Contrast
<1>3. m # 0 => Regional!Rounded(b - a, m) \in Int
  BY RoundedIsNumber
<1> QED
  BY <1>2, <1>3

(* The mean of integers rounds to one.                                     *)
LEMMA AverageIsNumber ==
  ASSUME NEW S, IsFiniteSet(S), S # {}, NEW f \in [S -> Int]
  PROVE  Regional!Average(f) \in Int
<1>1. PICK n \in Nat \ {0} : n = Cardinality(S)
  BY FS_CardinalityType, FS_EmptySet
<1>2. PICK q \in Nat \ {0} : q = Unit * n
  <2>1. Unit \in Nat \ {0}
    BY UnitAssumption DEF UnitAssumption
  <2>2. \A i, j \in Nat \ {0} : i * j \in Nat \ {0}
    OBVIOUS
  <2> QED
    BY <2>1, <2>2
<1>3. PICK p \in Int : p = Regional!Total(f)
  BY TotalIsNumber
<1>4. DOMAIN f = S
  OBVIOUS
<1>5. Regional!Average(f) = Regional!Rounded(p, q)
  BY <1>1, <1>2, <1>3, <1>4, SameCountOfRegions, Zenon DEF Regional!Average
<1> QED
  BY <1>5, RoundedIsNumber

(* Numbers up to Unit with a mean that rounds to Unit are each above Unit   *)
(* less as many as they are.                                               *)
LEMMA AverageIsNear ==
  ASSUME NEW S, IsFiniteSet(S), NEW f, DOMAIN f = S, \A x \in S : f[x] \in 0..Unit,
         Regional!Average(f) >= Unit, NEW e \in S
  PROVE  f[e] > Unit - Cardinality(S)
<1>1. Unit \in Nat \ {0}
  BY UnitAssumption DEF UnitAssumption
<1>2. PICK n \in Nat \ {0} : n = Cardinality(S)
  BY FS_CardinalityType, FS_EmptySet
<1>3. SUFFICES ASSUME f[e] + n <= Unit PROVE FALSE
  BY <1>1, <1>2
<1>4. PICK s \in Nat : s = Sums(f, S)[S] /\ s + n <= Unit * n
  <2>1. Unit \in Nat /\ n \in Nat
    BY <1>1
  <2> QED
    BY <1>2, <1>3, <2>1, SumOfLess
<1>5. \A i, j \in Nat : i * j \in Nat
  OBVIOUS
<1>6. PICK un \in Nat, su \in Nat, uun \in Nat : un = Unit * n /\ su = s * Unit /\ uun = Unit * un
  BY <1>1, <1>5
<1>7. un # 0
  <2>1. \A i, j \in Nat \ {0} : i * j # 0
    OBVIOUS
  <2> QED
    BY <1>1, <1>6, <2>1
<1>8. PICK h \in Nat : h = un \div 2 /\ 2 * h <= un
  BY <1>6
<1>9. PICK z \in Nat : z = (su + h) \div un
  <2>1. \A i \in Nat, j \in Nat \ {0} : i \div j \in Nat
    OBVIOUS
  <2>2. su + h \in Nat
    OBVIOUS
  <2> QED
    BY <1>7, <2>1, <2>2
<1>10. z >= Unit
  <2>1. Regional!Total(f) = s
    BY <1>4, TotalIsSums
  <2>2. Regional!Average(f) = Regional!Rounded(s, un)
    BY <1>2, <1>6, <2>1, SameCountOfRegions, Zenon DEF Regional!Average
  <2>3. Regional!Rounded(s, un) = z
    BY <1>1, <1>6, <1>8, <1>9 DEF Regional!Rounded, Regional!Magnitude
  <2> QED
    BY <2>2, <2>3
<1>11. un * z <= su + h
  BY <1>7, <1>9
<1>12. uun <= un * z
  <2>1. PICK d \in Nat : z = Unit + d
    <3>1. z - Unit \in Nat /\ z = Unit + (z - Unit)
      BY <1>1, <1>10
    <3> QED
      BY <3>1
  <2>2. un * (Unit + d) = Unit * un + un * d
    BY <1>1
  <2>3. un * d \in Nat
    BY <1>5
  <2> QED
    BY <1>6, <2>1, <2>2, <2>3
<1>13. su + un <= uun
  <2>1. PICK d \in Nat : un = s + n + d
    <3>1. un - (s + n) \in Nat /\ un = s + n + (un - (s + n))
      BY <1>4, <1>6
    <3> QED
      BY <3>1
  <2>2. Unit * (s + n + d) = s * Unit + Unit * n + Unit * d
    BY <1>1
  <2>3. Unit * d \in Nat
    BY <1>1, <1>5
  <2> QED
    BY <1>6, <2>1, <2>2, <2>3
<1>14. un * z \in Nat
  BY <1>5
<1> QED
  BY <1>7, <1>8, <1>11, <1>12, <1>13, <1>14

(* A run of two clusters or more has a silhouette.                         *)
LEMMA SilhouetteIsNumber ==
  ASSUME NEW prepared, PointsFit(prepared), prepared.regions # {}, NEW k \in Nat, k >= 2,
         NEW labels, Labelling(prepared, k, labels), Peopled(k, labels)
  PROVE  Regional!Silhouette(prepared, labels) \in Int
<1>1. ASSUME NEW r \in prepared.regions PROVE Regional!SilhouetteOf(prepared, labels, r) \in Int
  <2>1. PICK own : own = Regional!Members(labels, labels[r]) \ {r}
    OBVIOUS
  <2>2. own \in SUBSET prepared.regions
    BY <2>1, MembersAre
  <2>3. PICK C : C = {labels[s] : s \in DOMAIN labels} \ {labels[r]}
    OBVIOUS
  <2>4. IsFiniteSet(C) /\ C # {} /\ C \subseteq 1..k
    <3>1. IsFiniteSet({labels[s] : s \in DOMAIN labels})
      BY ImageFinite DEF PointsFit, Labelling
    <3>2. IsFiniteSet(C)
      BY <2>3, <3>1, FS_Difference
    <3>3. C \subseteq 1..k
      BY <2>3 DEF Labelling
    <3>4. PICK c \in 1..k : c # labels[r]
      <4>1. 1 \in 1..k /\ 2 \in 1..k /\ 1 # 2
        OBVIOUS
      <4> QED
        BY <4>1
    <3>5. PICK s \in prepared.regions : labels[s] = c
      BY MembersAre DEF Peopled
    <3>6. c \in C
      BY <2>3, <3>4, <3>5 DEF Labelling
    <3> QED
      BY <3>2, <3>3, <3>6
  <2>5. PICK v : v = [c \in C |-> Regional!Mean(prepared, r, Regional!Members(labels, c))]
    OBVIOUS
  <2>6. \A c \in C : v[c] \in Nat
    <3>1. ASSUME NEW c \in C PROVE Regional!Mean(prepared, r, Regional!Members(labels, c)) \in Nat
      <4>1. PICK M : M = Regional!Members(labels, c)
        OBVIOUS
      <4>2. M \in SUBSET prepared.regions /\ M # {}
        BY <2>4, <4>1, MembersAre DEF Peopled
      <4> QED
        BY <4>1, <4>2, MeanIsNumber
    <3> QED
      BY <2>5, <3>1
  <2>7. PICK V : V = {v[c] : c \in C}
    OBVIOUS
  <2>8. V = {Regional!Mean(prepared, r, Regional!Members(labels, c)) : c \in C}
    BY <2>5, <2>7
  <2>9. Regional!Min(V) \in Nat
    <3>3. IsFiniteSet({v[c] : c \in C})
      <4>1. IsFiniteSet(C) /\ DOMAIN v = C
        BY <2>4, <2>5
      <4> QED
        BY <4>1, ImageFinite
    <3>1. IsFiniteSet(V)
      BY <2>7, <3>3
    <3>4. \A x \in V : x \in Nat
      BY <2>6, <2>7
    <3>5. V # {}
      BY <2>4, <2>7
    <3>2. V \subseteq Nat /\ V \subseteq Int /\ V # {}
      BY <3>4, <3>5
    <3> QED
      BY <3>1, <3>2, MinIsNumber
  <2>10. Regional!SilhouetteOf(prepared, labels, r)
         = IF own = {} THEN 0 ELSE Regional!Contrast(Regional!Mean(prepared, r, own), Regional!Min(V))
    BY <2>1, <2>3, <2>8, Zenon DEF Regional!SilhouetteOf
  <2>11. own # {} => Regional!Mean(prepared, r, own) \in Nat
    BY <2>2, MeanIsNumber
  <2> QED
    BY <2>9, <2>10, <2>11, ContrastIsNumber
<1>2. PICK d : d = [r \in prepared.regions |-> Regional!SilhouetteOf(prepared, labels, r)]
  OBVIOUS
<1>3. d \in [prepared.regions -> Int]
  BY <1>1, <1>2
<1>4. Regional!Average(d) \in Int
  BY <1>3, AverageIsNumber DEF PointsFit
<1> QED
  BY <1>2, <1>4 DEF Regional!Silhouette

(* The candidate with the best silhouette is one.                          *)
LEMMA ChosenIsCandidate ==
  ASSUME NEW evidence, IsFiniteSet(DOMAIN evidence), DOMAIN evidence \subseteq Int,
         DOMAIN evidence # {}, \A k \in DOMAIN evidence : evidence[k].silhouette \in Int
  PROVE  Regional!Chosen(evidence) \in DOMAIN evidence
<1>1. PICK D : D = DOMAIN evidence
  OBVIOUS
<1>2. PICK v : v = [k \in D |-> evidence[k].silhouette]
  OBVIOUS
<1>3. PICK z : z = [k \in D |-> 0]
  OBVIOUS
<1>4. PICK B : B = [l \in D |-> {k \in D :
          \/ evidence[k].silhouette > evidence[l].silhouette
          \/ evidence[k].silhouette = evidence[l].silhouette /\ k < l}]
  OBVIOUS
<1>5. Precedes(D, B)
  <2>1. v \in [D -> Int] /\ z \in [D -> Int] /\ D \subseteq Int
    BY <1>1, <1>2, <1>3
  <2>2. \A x \in D : B[x] \in SUBSET D
    BY <1>4
  <2>3. \A x, y \in D : y \in B[x] <=>
          \/ v[y] > v[x]
          \/ v[y] = v[x] /\ z[y] > z[x]
          \/ v[y] = v[x] /\ z[y] = z[x] /\ z[y] > z[x]
          \/ v[y] = v[x] /\ z[y] = z[x] /\ z[y] = z[x] /\ y < x
    BY <1>2, <1>3, <1>4
  <2> QED
    BY <2>1, <2>2, <2>3, NumbersPrecede
<1>6. \E k \in D : \A l \in D \ {k} : k \in B[l]
  BY <1>1, <1>5, OneIsFirst
<1>7. \E k \in DOMAIN evidence : \A l \in DOMAIN evidence \ {k} :
        \/ evidence[k].silhouette > evidence[l].silhouette
        \/ evidence[k].silhouette = evidence[l].silhouette /\ k < l
  <2>1. PICK k \in D : \A l \in D \ {k} : k \in B[l]
    BY <1>6
  <2> QED
    BY <1>1, <1>4, <2>1
<1>8. Regional!Chosen(evidence)
      = CHOOSE k \in DOMAIN evidence : \A l \in DOMAIN evidence \ {k} :
        \/ evidence[k].silhouette > evidence[l].silhouette
        \/ evidence[k].silhouette = evidence[l].silhouette /\ k < l
  BY Zenon DEF Regional!Chosen, Regional!Greatest
<1> QED
  BY <1>7, <1>8

(* The runs of one number of clusters, one of each seed.                   *)
Grouped(prepared, k, n, runs) ==
  /\ k \in Nat /\ k >= 2 /\ n \in Nat /\ n >= 2
  /\ DOMAIN runs = 1..n /\ Len(runs) = n
  /\ \A i \in 1..n : Grouping(prepared, k, runs[i])

(* Every seed's run is a numbered grouping.                               *)
LEMMA RunsAreGrouped ==
  ASSUME NEW prepared, PointsFit(prepared), Rounds \in Nat \ {0},
         NEW k \in Nat, k >= 2, k <= Cardinality(prepared.regions),
         NEW firsts \in Seq(prepared.regions), Len(firsts) >= 2,
         NEW runs, runs = Regional!Runs(prepared, k, firsts)
  PROVE  /\ Grouped(prepared, k, Len(firsts), runs)
         /\ \A i \in 1..Len(firsts) : runs[i] = Regional!ClusterOnce(prepared, k, firsts[i])
<1>1. PICK n \in Nat : n = Len(firsts)
  OBVIOUS
<1>2. DOMAIN firsts = 1..n /\ \A i \in 1..n : firsts[i] \in prepared.regions
  BY <1>1
<1>3. runs = [i \in DOMAIN firsts |-> Regional!ClusterOnce(prepared, k, firsts[i])]
  BY Zenon DEF Regional!Runs
<1>4. \A i \in 1..n : runs[i] = Regional!ClusterOnce(prepared, k, firsts[i])
  BY <1>2, <1>3
<1>5. \A i \in 1..n : Grouping(prepared, k, runs[i])
  <2>1. k \in Nat \ {0}
    OBVIOUS
  <2> QED
    BY <1>2, <1>4, <2>1, ClusterOnceGives
<1>6. DOMAIN runs = 1..n /\ Len(runs) = n
  <2>1. PICK X : X = {runs[i] : i \in 1..n}
    OBVIOUS
  <2>2. DOMAIN runs = 1..n
    BY <1>2, <1>3
  <2>3. \A i \in 1..n : runs[i] \in X
    BY <2>1
  <2>4. runs = [i \in 1..n |-> runs[i]]
    BY <1>2, <1>3
  <2>5. runs \in [1..n -> X]
    BY <2>2, <2>3, <2>4
  <2> QED
    BY <2>2, <2>5, FunctionIsSeq
<1> QED
  BY <1>1, <1>4, <1>5, <1>6 DEF Grouped

(* The silhouette of the runs is a number; a smallest cluster of two or    *)
(* more means that all are; and complete agreement of the runs means that  *)
(* they put the same regions together.                                     *)
LEMMA SilhouettesAreNumber ==
  ASSUME NEW prepared, PointsFit(prepared), prepared.regions # {},
         NEW k, NEW n, NEW runs, Grouped(prepared, k, n, runs)
  PROVE  Regional!Evidence(prepared, runs).silhouette \in Int
<1>1. k \in Nat /\ k >= 2 /\ n \in Nat \ {0} /\ DOMAIN runs = 1..n /\ Len(runs) = n
  BY DEF Grouped
<1>2. PICK d : d = [i \in DOMAIN runs |-> Regional!Silhouette(prepared, runs[i])]
  OBVIOUS
<1>3. \A i \in 1..n : d[i] \in Int
  <2>1. \A i \in 1..n : Labelling(prepared, k, runs[i]) /\ Peopled(k, runs[i])
    BY DEF Grouped, Grouping
  <2> QED
    BY <1>1, <1>2, <2>1, SilhouetteIsNumber
<1>4. d \in [1..n -> Int]
  BY <1>1, <1>2, <1>3
<1>5. IsFiniteSet(1..n)
  BY <1>1, FS_Interval
<1>6. 1..n # {}
  <2>1. 1 \in 1..n
    BY <1>1
  <2> QED
    BY <2>1
<1>7. Regional!Average(d) \in Int
  BY <1>4, <1>5, <1>6, AverageIsNumber
<1> QED
  BY <1>2, <1>7 DEF Regional!Evidence

(* If the smallest cluster has two, each has.                             *)
LEMMA SmallestGives ==
  ASSUME NEW prepared, PointsFit(prepared), prepared.regions # {}, NEW k,
         NEW labels, Labelling(prepared, k, labels), Peopled(k, labels),
         Regional!SmallestCluster(labels) >= 2
  PROVE  \A c \in 1..k : Cardinality(Regional!Members(labels, c)) >= 2
<1>1. PICK R : R = prepared.regions
  OBVIOUS
<1>2. PICK v : v = [r \in R |-> Cardinality(Regional!Members(labels, labels[r]))]
  OBVIOUS
<1>3. PICK V : V = {v[r] : r \in R}
  OBVIOUS
<1>4. DOMAIN labels = R /\ IsFiniteSet(R) /\ R # {} /\ DOMAIN v = R
  BY <1>1, <1>2 DEF Labelling, PointsFit
<1>5. \A r \in R : v[r] \in Nat
  <2>1. \A c : Cardinality(Regional!Members(labels, c)) \in Nat
    BY MembersAre, FS_CardinalityType
  <2> QED
    BY <1>2, <2>1
<1>6. IsFiniteSet(V) /\ V \subseteq Int /\ V # {}
  <2>1. IsFiniteSet({v[r] : r \in R})
    BY <1>4, ImageFinite
  <2>2. \A x \in V : x \in Int
    BY <1>3, <1>5
  <2>3. V # {}
    BY <1>3, <1>4
  <2> QED
    BY <1>3, <2>1, <2>2, <2>3
<1>7. Regional!SmallestCluster(labels) = Regional!Min(V)
  <2>1. \A r \in R : v[r] = Regional!Cardinality(Regional!Members(labels, labels[r]))
    BY <1>2, SameCountOfRegions
  <2>2. V = {Regional!Cardinality(Regional!Members(labels, labels[r])) : r \in DOMAIN labels}
    BY <1>3, <1>4, <2>1
  <2> QED
    BY <2>2, Zenon DEF Regional!SmallestCluster
<1>8. \A x \in V : x >= 2
  <2>1. Regional!Min(V) \in V /\ \A y \in V : Regional!Min(V) <= y
    BY <1>6, MinIsNumber
  <2>2. PICK m : m = Regional!Min(V)
    OBVIOUS
  <2>3. m \in Int /\ m >= 2 /\ \A y \in V : m <= y /\ y \in Int
    BY <1>6, <1>7, <2>1, <2>2
  <2> QED
    BY <2>3
<1>9. ASSUME NEW c \in 1..k PROVE Cardinality(Regional!Members(labels, c)) >= 2
  <2>1. PICK r \in R : labels[r] = c
    BY <1>1, MembersAre DEF Peopled
  <2>2. v[r] \in V
    BY <1>3
  <2> QED
    BY <1>2, <1>8, <2>1, <2>2
<1> QED
  BY <1>9

(* If the mean agreement rounds to Unit, every run puts the same regions   *)
(* together as the first.                                                  *)
LEMMA StabilityGives ==
  ASSUME NEW prepared, PointsFit(prepared), NEW k, NEW n,
         Regional!Comb2(Cardinality(prepared.regions)) * (n * (n - 1)) < Unit,
         NEW runs, Grouped(prepared, k, n, runs),
         \A c \in 1..k : Cardinality(Regional!Members(runs[1], c)) >= 2,
         Regional!Evidence(prepared, runs).stability >= Unit
  PROVE  \A i \in 1..n : SameTogether(prepared, runs[i], runs[1])
<1>1. k \in Nat /\ k >= 2 /\ n \in Nat /\ n >= 2 /\ DOMAIN runs = 1..n
  BY DEF Grouped
<1>2. \A i \in 1..n : Labelling(prepared, k, runs[i]) /\ Peopled(k, runs[i])
  BY DEF Grouped, Grouping
<1>3. PICK couples : couples = {c \in (DOMAIN runs) \X (DOMAIN runs) : c[1] < c[2]}
  OBVIOUS
<1>4. \A c \in couples : c[1] \in 1..n /\ c[2] \in 1..n
  BY <1>1, <1>3
<1>5. IsFiniteSet(couples)
  <2>1. IsFiniteSet(1..n)
    BY <1>1, FS_Interval
  <2>2. IsFiniteSet((1..n) \X (1..n))
    BY <2>1, FS_Product
  <2>3. couples \in SUBSET ((1..n) \X (1..n))
    BY <1>1, <1>3
  <2> QED
    BY <2>2, <2>3, FS_Subset
<1>6. PICK f : f = [c \in couples |-> Regional!Max({0, Regional!AdjustedRand(runs[c[1]], runs[c[2]])})]
  OBVIOUS
<1>7. PICK R : R = prepared.regions
  OBVIOUS
<1>8. PICK m \in Nat \ {0} : m = n * (n - 1)
  <2>1. n \in Nat \ {0} /\ n - 1 \in Nat \ {0}
    BY <1>1
  <2>2. \A i, j \in Nat \ {0} : i * j \in Nat \ {0}
    OBVIOUS
  <2> QED
    BY <2>1, <2>2
<1>9. Cardinality(couples) \in Nat /\ Cardinality(couples) <= m
  <2>1. IsFiniteSet(1..n) /\ Cardinality(1..n) = n
    BY <1>1, FS_Interval
  <2>2. IsFiniteSet(Apart(1..n)) /\ Cardinality(Apart(1..n)) = m
    BY <1>8, <2>1, ApartAreCounted
  <2>3. couples \in SUBSET Apart(1..n)
    BY <1>1, <1>3 DEF Apart
  <2> QED
    BY <2>2, <2>3, FS_Subset, FS_CardinalityType
<1>10. IsFiniteSet(R) /\ Regional!Comb2(Cardinality(R)) * m < Unit /\ \A i \in 1..n : DOMAIN runs[i] = R
  BY <1>2, <1>7, <1>8 DEF Labelling, PointsFit
<1>11. \A i, j \in 1..n : Regional!AdjustedRand(runs[i], runs[j]) \in Int
                         /\ Regional!AdjustedRand(runs[i], runs[j]) <= Unit
  BY <1>10, AgreementGives
<1>12. Unit \in Nat /\ Unit # 0
  BY UnitAssumption DEF UnitAssumption
<1>13. m <= Unit
  <2>1. PICK r \in Nat : r = Cardinality(R)
    BY <1>10, FS_CardinalityType
  <2>2. PICK M : M = Regional!Members(runs[1], 1)
    OBVIOUS
  <2>3. 1 \in 1..k /\ 1 \in 1..n
    BY <1>1
  <2>4. M \in SUBSET R /\ Cardinality(M) >= 2
    BY <1>2, <1>7, <2>2, <2>3, MembersAre
  <2>5. r >= 2
    <3>1. Cardinality(M) <= r /\ Cardinality(M) \in Nat
      BY <1>10, <2>1, <2>4, FS_Subset, FS_CardinalityType
    <3> QED
      BY <2>4, <3>1
  <2>6. PICK t \in Nat : t = Regional!Comb2(r) /\ 2 * t = r * (r - 1) /\ t * m < Unit
    BY <1>10, <2>1, Comb2Is
  <2>7. PICK l \in Nat : t = l + 1
    <3>1. PICK o \in Nat : r = o + 2
      <4>1. r - 2 \in Nat /\ r = (r - 2) + 2
        BY <2>5
      <4> QED
        BY <4>1
    <3>2. (o + 2) * (o + 2 - 1) = o * (o + 3) + 2
      OBVIOUS
    <3>3. o * (o + 3) \in Nat
      OBVIOUS
    <3>4. t >= 1
      BY <2>6, <3>1, <3>2, <3>3
    <3>5. t - 1 \in Nat /\ t = (t - 1) + 1
      BY <3>4
    <3> QED
      BY <3>5
  <2>8. (l + 1) * m = l * m + m /\ l * m \in Nat
    OBVIOUS
  <2> QED
    BY <1>12, <2>6, <2>7, <2>8
<1>14. ASSUME NEW c \in couples
       PROVE  f[c] \in 0..Unit
              /\ (f[c] > Unit - m => Regional!AdjustedRand(runs[c[1]], runs[c[2]]) > Unit - m)
  <2>1. PICK a \in Int : a = Regional!AdjustedRand(runs[c[1]], runs[c[2]]) /\ a <= Unit
    BY <1>4, <1>11
  <2>2. f[c] = Regional!Max({0, a})
    BY <1>6, <2>1
  <2>3. 0 \in Int
    OBVIOUS
  <2>4. f[c] = IF 0 <= a THEN a ELSE 0
    BY <2>1, <2>2, <2>3, MaxOfTwo
  <2> QED
    BY <1>12, <1>13, <2>1, <2>4
<1>15. \A c \in couples : f[c] > Unit - m
  <2>1. Regional!Evidence(prepared, runs).stability = Regional!Average(f)
    BY <1>3, <1>6 DEF Regional!Evidence
  <2>2. DOMAIN f = couples
    BY <1>6
  <2>3. Regional!Average(f) >= Unit
    BY <2>1
  <2>4. \A c \in couples : f[c] \in 0..Unit
    BY <1>14
  <2>5. \A c \in couples : f[c] > Unit - Cardinality(couples)
    BY <1>5, <2>2, <2>3, <2>4, AverageIsNear
  <2> QED
    BY <1>12, <1>9, <2>4, <2>5
<1>16. ASSUME NEW i \in 1..n, i # 1 PROVE SameTogether(prepared, runs[i], runs[1])
  <2>1. <<1, i>> \in couples /\ 1 \in 1..n
    BY <1>1, <1>3, <1>16
  <2>2. Regional!AdjustedRand(runs[1], runs[i]) > Unit - m
    BY <1>14, <1>15, <2>1
  <2>3. PICK left : left = runs[1]
    OBVIOUS
  <2>4. PICK right : right = runs[i]
    OBVIOUS
  <2>5. Labelling(prepared, k, left) /\ Peopled(k, left) /\ DOMAIN left = R /\ DOMAIN right = R
    BY <1>2, <1>10, <2>1, <2>3, <2>4
  <2>6. \E r, s \in R : r # s /\ left[r] = left[s]
    <3>1. PICK M : M = Regional!Members(left, 1)
      OBVIOUS
    <3>2. 1 \in 1..k
      BY <1>1
    <3>3. IsFiniteSet(M) /\ \A r : r \in M <=> r \in R /\ left[r] = 1
      BY <1>7, <2>5, <3>1, MembersAre
    <3>4. Cardinality(M) >= 2
      BY <2>3, <3>1, <3>2
    <3>5. Cardinality(M) \in Nat
      BY <3>3, FS_CardinalityType
    <3>6. Cardinality(M) > 1
      BY <3>4, <3>5
    <3>7. \A x : \E y \in M : y # x
      BY <3>3, <3>6, TwoOrMore, Zenon
    <3>8. PICK r \in M : r # 0
      BY <3>7
    <3>9. PICK s \in M : s # r
      BY <3>7
    <3> QED
      BY <3>3, <3>8, <3>9
  <2>7. \E r, s \in R : left[r] # left[s]
    <3>1. 1 \in 1..k /\ 2 \in 1..k /\ 1 # 2
      BY <1>1
    <3>2. PICK r \in R : left[r] = 1
      BY <1>7, <2>5, <3>1, MembersAre DEF Peopled
    <3>3. PICK s \in R : left[s] = 2
      BY <1>7, <2>5, <3>1, MembersAre DEF Peopled
    <3> QED
      BY <3>2, <3>3
  <2>8. \A r, s \in R : left[r] = left[s] <=> right[r] = right[s]
    BY <1>10, <2>2, <2>3, <2>4, <2>5, <2>6, <2>7, AgreementGives
  <2> QED
    BY <1>7, <2>3, <2>4, <2>8 DEF SameTogether
<1>17. SameTogether(prepared, runs[1], runs[1])
  BY DEF SameTogether
<1> QED
  BY <1>16, <1>17

(* A clustering that is shown is agreed.                                   *)
LEMMA EveryClusteringIsAgreed ==
  ASSUME NEW prepared, PointsFit(prepared), prepared.regions # {}, Rounds \in Nat \ {0},
         NEW asked,
         Regional!Comb2(Cardinality(prepared.regions))
         * (Len(asked.firsts) * (Len(asked.firsts) - 1)) < Unit,
         IsFiniteSet(asked.candidates), asked.candidates \subseteq Int,
         asked.firsts \in Seq(prepared.regions),
         NEW shown,
         shown = Regional!EvaluateClusters(prepared, asked.candidates, asked.firsts, asked.limits),
         shown.publishable
  PROVE  ClusteringIsAgreed(prepared, asked, shown)
<1>1. PICK firsts : firsts = asked.firsts
  OBVIOUS
<1>2. PICK candidates : candidates = asked.candidates
  OBVIOUS
<1>3. PICK limits : limits = asked.limits
  OBVIOUS
<1>4. PICK n \in Nat : n = Len(firsts)
  BY <1>1
<1>5. PICK runs : runs = [k \in candidates |-> Regional!Runs(prepared, k, firsts)]
  OBVIOUS
<1>6. PICK evidence : evidence = [k \in DOMAIN runs |-> Regional!Evidence(prepared, runs[k])]
  OBVIOUS
<1>7. /\ ~(Len(firsts) < 2) /\ candidates # {}
      /\ \A k \in candidates : ~(k < 2 \/ k >= Cardinality(prepared.regions))
      /\ shown = Regional!Judged(prepared, runs, limits)
  <2>1. shown # Regional!NoClusters
    BY DEF Regional!NoClusters
  <2>2. shown = IF \/ Len(firsts) < 2
                   \/ candidates = {}
                   \/ \E k \in candidates : k < 2 \/ k >= Regional!Cardinality(prepared.regions)
                   \/ limits.silhouette \notin (-Unit)..Unit \/ limits.stability \notin 0..Unit
                THEN Regional!NoClusters
                ELSE Regional!Judged(prepared, runs, limits)
    BY <1>1, <1>2, <1>3, <1>5, Zenon DEF Regional!EvaluateClusters
  <2> QED
    BY <2>1, <2>2, SameCountOfRegions
<1>8. n >= 2 /\ DOMAIN runs = candidates /\ DOMAIN evidence = candidates
  BY <1>4, <1>5, <1>6, <1>7
<1>9. ASSUME NEW k \in candidates
      PROVE  /\ k \in Nat \ {0} /\ k >= 2 /\ Grouped(prepared, k, n, runs[k])
             /\ \A i \in 1..n : runs[k][i] = Regional!ClusterOnce(prepared, k, firsts[i])
  <2>1. k \in Int /\ Cardinality(prepared.regions) \in Nat
    BY <1>2, FS_CardinalityType DEF PointsFit
  <2>2. k \in Nat /\ k >= 2 /\ k <= Cardinality(prepared.regions) /\ k # 0
    BY <1>7, <2>1
  <2>3. runs[k] = Regional!Runs(prepared, k, firsts)
    BY <1>5
  <2>4. firsts \in Seq(prepared.regions) /\ Len(firsts) >= 2
    BY <1>1, <1>4, <1>8
  <2> QED
    BY <1>4, <2>2, <2>3, <2>4, RunsAreGrouped
<1>10. PICK k : k = Regional!Chosen(evidence)
  OBVIOUS
<1>11. k \in candidates
  <2>1. \A l \in candidates : evidence[l].silhouette \in Int
    <3>1. ASSUME NEW l \in candidates PROVE evidence[l].silhouette \in Int
      <4>1. Grouped(prepared, l, n, runs[l])
        BY <1>9
      <4>2. evidence[l] = Regional!Evidence(prepared, runs[l])
        BY <1>6, <1>8
      <4> QED
        BY <4>1, <4>2, SilhouettesAreNumber
    <3> QED
      BY <3>1
  <2> QED
    BY <1>2, <1>7, <1>8, <1>10, <2>1, ChosenIsCandidate
<1>12. shown = Regional!Report(runs, evidence[k], k, limits)
  BY <1>6, <1>7, <1>10, Zenon DEF Regional!Judged, Regional!BestReport
<1>13. PICK all : all = runs[k]
  OBVIOUS
<1>14. PICK found : found = Regional!Evidence(prepared, all)
  OBVIOUS
<1>15. evidence[k] = found
  BY <1>6, <1>8, <1>11, <1>13, <1>14
<1>16. /\ Regional!Publishable(found, limits)
       /\ shown = [valid |-> TRUE, k |-> k, publishable |-> Regional!Publishable(found, limits),
                   assignments |-> all[1]]
  <2>1. shown = [valid |-> TRUE, k |-> k, publishable |-> Regional!Publishable(found, limits),
                 assignments |-> IF Regional!Publishable(found, limits) THEN all[1] ELSE <<>>]
    BY <1>12, <1>13, <1>15, Zenon DEF Regional!Report
  <2>2. Regional!Publishable(found, limits)
    BY <2>1
  <2> QED
    BY <2>1, <2>2
<1>17. found.stability >= limits.stability /\ found.smallest >= 2
  BY <1>16 DEF Regional!Publishable
<1>18. PICK labels : labels = all[1]
  OBVIOUS
<1>19. k \in Nat \ {0} /\ k >= 2 /\ Grouped(prepared, k, n, all)
       /\ \A i \in 1..n : all[i] = Regional!ClusterOnce(prepared, k, firsts[i])
  BY <1>9, <1>11, <1>13
<1>20. \A i \in 1..n : Grouping(prepared, k, all[i])
  BY <1>19 DEF Grouped
<1>21. Grouping(prepared, k, labels)
  BY <1>8, <1>18, <1>20
<1>22. Labelling(prepared, k, labels) /\ Peopled(k, labels) /\ Numbered(prepared, k, labels)
  BY <1>21 DEF Grouping
<1>23. \A c \in 1..k : Cardinality(Regional!Members(labels, c)) >= 2
  <2>1. found.smallest = Regional!SmallestCluster(all[1])
    BY <1>14 DEF Regional!Evidence
  <2>2. Regional!SmallestCluster(labels) >= 2
    BY <1>17, <1>18, <2>1
  <2> QED
    BY <1>22, <2>2, SmallestGives
<1>24. ASSUME limits.stability = Unit, NEW i \in 1..n
       PROVE  SameTogether(prepared, all[i], labels)
  <2>1. Regional!Evidence(prepared, all).stability >= Unit
    BY <1>14, <1>17, <1>24
  <2>2. \A c \in 1..k : Cardinality(Regional!Members(all[1], c)) >= 2
    BY <1>18, <1>23
  <2> QED
    BY <1>1, <1>4, <1>18, <1>19, <2>1, <2>2, StabilityGives
<1> DEFINE before(c, d) ==
             Regional!Before(prepared, Regional!Centroid(prepared, Regional!Members(labels, c)),
                             Regional!Centroid(prepared, Regional!Members(labels, d)))
<1>25. ASSUME limits.stability = Unit, NEW i \in 1..n,
              \A c, d \in 1..k : c # d => before(c, d) \/ before(d, c)
       PROVE  all[i] = labels
  <2>1. PICK run : run = all[i]
    OBVIOUS
  <2>2. Labelling(prepared, k, run) /\ Peopled(k, run) /\ Numbered(prepared, k, run)
    BY <1>20, <2>1 DEF Grouping
  <2>3. SameTogether(prepared, labels, run)
    BY <1>24, <1>25, <2>1 DEF SameTogether
  <2>4. labels = run
    BY <1>19, <1>22, <1>25, <2>2, <2>3, NumbersAgree
  <2> QED
    BY <2>1, <2>4
<1>26. DOMAIN labels = prepared.regions
  BY <1>22 DEF Labelling
<1>27. shown.assignments = labels /\ shown.k = k
  BY <1>16, <1>18
<1>28. DOMAIN firsts = 1..n
  BY <1>1, <1>4
<1>29. ASSUME limits.stability = Unit, NEW i \in 1..n,
              NEW run, run = Regional!ClusterOnce(prepared, k, firsts[i])
       PROVE  /\ \A r, s \in prepared.regions : run[r] = run[s] <=> labels[r] = labels[s]
              /\ run = labels \/ \E c, d \in 1..k : c # d /\ ~before(c, d) /\ ~before(d, c)
  <2>1. run = all[i]
    BY <1>19, <1>29
  <2> HIDE DEF before
  <2> QED
    BY <1>24, <1>25, <1>29, <2>1 DEF SameTogether
<1> HIDE DEF before
<1>30. /\ DOMAIN shown.assignments = prepared.regions
       /\ \A c \in 1..shown.k : Cardinality(Regional!Members(shown.assignments, c)) >= 2
  BY <1>23, <1>26, <1>27
<1>31. asked.limits.stability = Unit =>
         \A i \in DOMAIN asked.firsts :
           LET run == Regional!ClusterOnce(prepared, shown.k, asked.firsts[i])
           IN  /\ \A r, s \in prepared.regions :
                    run[r] = run[s] <=> shown.assignments[r] = shown.assignments[s]
               /\ \/ run = shown.assignments
                  \/ \E c, d \in 1..shown.k : c # d /\ ~before(c, d) /\ ~before(d, c)
  BY <1>1, <1>3, <1>27, <1>28, <1>29
<1>32. \A c, d : before(c, d) <=>
         Regional!Before(prepared, Regional!Centroid(prepared, Regional!Members(shown.assignments, c)),
                         Regional!Centroid(prepared, Regional!Members(shown.assignments, d)))
  BY <1>27 DEF before
<1> QED
  BY <1>30, <1>31, <1>32 DEF ClusteringIsAgreed

(* No more pairs among fewer.                                              *)
LEMMA FewerPairs ==
  ASSUME NEW m \in Nat, NEW n \in Nat, m <= n
  PROVE  Regional!Comb2(m) <= Regional!Comb2(n)
<1>1. PICK x \in Nat : x = Regional!Comb2(m) /\ 2 * x = m * (m - 1)
  BY Comb2Is
<1>2. PICK y \in Nat : y = Regional!Comb2(n) /\ 2 * y = n * (n - 1)
  BY Comb2Is
<1>3. m * (m - 1) <= n * (n - 1)
  <2>1. PICK d \in Nat : n = m + d
    <3>1. n - m \in Nat /\ n = m + (n - m)
      OBVIOUS
    <3> QED
      BY <3>1
  <2>2. n * (n - 1) = m * (m - 1) + d * (m + m + d) - d
    <3>1. (m + d) * (m + d - 1) = m * (m - 1) + d * (m + m + d) - d
      OBVIOUS
    <3> QED
      BY <2>1, <3>1
  <2>3. d = 0 \/ d * (m + m + d) - d \in Nat
    <3>1. ASSUME d # 0 PROVE d * (m + m + d - 1) \in Nat
      <4>1. m + m + d - 1 \in Nat
        BY <3>1
      <4>2. \A i, j \in Nat : i * j \in Nat
        OBVIOUS
      <4> QED
        BY <4>1, <4>2
    <3>2. d * (m + m + d - 1) = d * (m + m + d) - d
      OBVIOUS
    <3> QED
      BY <3>1, <3>2
  <2>4. m * (m - 1) \in Int /\ d * (m + m + d) \in Int
    OBVIOUS
  <2> QED
    BY <2>1, <2>2, <2>3, <2>4
<1> QED
  BY <1>1, <1>2, <1>3

(* ClustersAreAgreed holds for every table and everything asked of it: a   *)
(* run gives every region a cluster and every cluster a region, by its     *)
(* rounds; the smallest cluster of the first run has two; when the mean    *)
(* agreement rounds to one, that of every two runs is so near to one that, *)
(* counted in pairs of regions, they are one partition; and the means give *)
(* it one numbering.                                                       *)
THEOREM ClusteringsAgreed == Spec => []ClustersAreAgreed
<1> DEFINE Inv == PreparedOfTable /\ ClustersAreAgreed
<1>1. Init => Inv
  BY DEF Init, Nothing, PreparedOfTable, ClustersAreAgreed
<1>2. ASSUME Inv, [Next]_vars PROVE Inv'
  <2>1. CASE Prepare
    <3>1. PICK table \in FeatureTables :
            Ask("prepare", table, Regional!Prepare(table.values, table.minimum))
      BY <2>1 DEF Prepare
    <3>2. call' = [kind |-> "prepare", request |-> table]
          /\ result' = Regional!Prepare(table.values, table.minimum)
      BY <3>1 DEF Ask
    <3> QED
      BY <3>2 DEF PreparedOfTable, ClustersAreAgreed
  <2>2. CASE Cluster
    <3>1. PICK asked \in ClusterRequests :
            /\ call.kind = "prepare" /\ result.valid
            /\ ToSet(asked.firsts) \subseteq result.regions
            /\ Prepared("cluster", asked,
                 Regional!EvaluateClusters(result, asked.candidates, asked.firsts, asked.limits))
      BY <2>2 DEF Cluster
    <3>2. PICK shown :
            shown = Regional!EvaluateClusters(result, asked.candidates, asked.firsts, asked.limits)
      OBVIOUS
    <3>3. /\ call' = [kind |-> "cluster", table |-> call.request, prepared |-> result, request |-> asked]
          /\ result' = shown
      BY <3>1, <3>2 DEF Prepared
    <3>4. PICK values : values = call.request.values
      OBVIOUS
    <3>5. /\ TableFits(values)
          /\ \A f \in DOMAIN values :
               Regional!Comb2(Cardinality(DOMAIN values[f]))
               * (Len(asked.firsts) * (Len(asked.firsts) - 1)) < Unit
      BY <1>2, <3>1, <3>4, CalculationsAssumption
         DEF PreparedOfTable, CalculationsAssumption, TableFits
    <3>6. PreparationFits(values, result)
      BY <1>2, <3>1, <3>4, <3>5, PreparationGives DEF PreparedOfTable
    <3>7. PICK prepared : prepared = result
      OBVIOUS
    <3>8. PointsFit(prepared)
      <4>1. IsFiniteSet(DOMAIN values) /\ DOMAIN values \subseteq Int
        BY <3>5 DEF TableFits
      <4>2. IsFiniteSet(prepared.features) /\ prepared.features \subseteq Int
        BY <3>6, <3>7, <4>1, FS_Subset DEF PreparationFits
      <4> QED
        BY <3>6, <3>7, <4>2 DEF PreparationFits, PointsFit
    <3>9. asked.firsts \in Seq(prepared.regions)
      <4>1. PICK q : q = asked.firsts
        OBVIOUS
      <4>2. PICK T : T = ToSet(q)
        OBVIOUS
      <4>3. q \in Seq(T)
        BY <4>1, <4>2, CalculationsAssumption DEF CalculationsAssumption
      <4>4. T \subseteq prepared.regions
        BY <3>1, <3>7, <4>1, <4>2
      <4> QED
        BY <4>1, <4>3, <4>4
    <3>10. Regional!Comb2(Cardinality(prepared.regions))
            * (Len(asked.firsts) * (Len(asked.firsts) - 1)) < Unit
      <4>1. PICK f \in DOMAIN values : DOMAIN values[f] = Regional!Universe(values)
        BY <3>6 DEF PreparationFits
      <4>2. prepared.regions \in SUBSET (DOMAIN values[f]) /\ IsFiniteSet(DOMAIN values[f])
        BY <3>5, <3>6, <3>7, <4>1 DEF PreparationFits, Regional!Complete, TableFits
      <4>3. PICK m : m = Cardinality(prepared.regions)
        OBVIOUS
      <4>4. PICK n : n = Cardinality(DOMAIN values[f])
        OBVIOUS
      <4>5. m \in Nat /\ n \in Nat /\ m <= n
        BY <4>2, <4>3, <4>4, FS_Subset, FS_CardinalityType
      <4>6. Regional!Comb2(m) \in Nat /\ Regional!Comb2(n) \in Nat /\ Regional!Comb2(m) <= Regional!Comb2(n)
        BY <4>5, FewerPairs, Comb2Is
      <4>7. PICK x \in Nat, y \in Nat : x = Regional!Comb2(m) /\ y = Regional!Comb2(n) /\ x <= y
        BY <4>6
      <4>8. PICK c \in Nat : c = Len(asked.firsts) * (Len(asked.firsts) - 1)
        <5>1. PICK l \in Nat : l = Len(asked.firsts)
          BY <3>9
        <5>2. l * (l - 1) \in Nat
          <6>1. l = 0 \/ l - 1 \in Nat
            OBVIOUS
          <6>2. \A i, j \in Nat : i * j \in Nat
            OBVIOUS
          <6> QED
            BY <6>1, <6>2
        <5> QED
          BY <5>1, <5>2
      <4>9. y * c < Unit /\ Unit \in Nat
        BY <3>5, <4>1, <4>4, <4>7, <4>8, UnitAssumption DEF UnitAssumption
      <4>10. x * c <= y * c
        <5>1. PICK d \in Nat : y = x + d
          <6>1. y - x \in Nat /\ y = x + (y - x)
            BY <4>7
          <6> QED
            BY <6>1
        <5>2. (x + d) * c = x * c + d * c /\ d * c \in Nat
          OBVIOUS
        <5> QED
          BY <5>1, <5>2
      <4>11. x * c \in Nat /\ y * c \in Nat
        OBVIOUS
      <4>12. x * c < Unit
        BY <4>9, <4>10, <4>11
      <4> QED
        BY <4>3, <4>7, <4>8, <4>12
    <3>11. /\ Rounds \in Nat \ {0}
           /\ IsFiniteSet(asked.candidates) /\ asked.candidates \subseteq Int
      BY CalculationsAssumption DEF CalculationsAssumption
    <3>12. shown.publishable => ClusteringIsAgreed(prepared, asked, shown)
      <4>1. SUFFICES ASSUME shown.publishable PROVE ClusteringIsAgreed(prepared, asked, shown)
        OBVIOUS
      <4>2. Len(asked.firsts) >= 2
        <5>1. shown # Regional!NoClusters
          BY <4>1 DEF Regional!NoClusters
        <5>2. ~(Len(asked.firsts) < 2)
          BY <3>2, <5>1 DEF Regional!EvaluateClusters
        <5> QED
          BY <3>9, <5>2
      <4>3. prepared.regions # {}
        <5>1. asked.firsts[1] \in prepared.regions
          BY <3>9, <4>2
        <5> QED
          BY <5>1
      <4> QED
        BY <3>2, <3>7, <3>8, <3>9, <3>10, <3>11, <4>1, <4>3, EveryClusteringIsAgreed
    <3>13. /\ call'.kind = "cluster" /\ call'.prepared = prepared /\ call'.request = asked
      BY <3>3, <3>7
    <3>14. ClustersAreAgreed'
      BY <3>3, <3>12, <3>13 DEF ClustersAreAgreed
    <3> QED
      BY <3>13, <3>14 DEF PreparedOfTable
  <2>3. CASE UNCHANGED vars
    BY <1>2, <2>3 DEF vars, PreparedOfTable, ClustersAreAgreed
  <2>4. CASE Score \/ Sensitivity \/ Similar \/ Parse \/ Search \/ Answer
    <3>1. call'.kind # "prepare" /\ call'.kind # "cluster"
      <4>1. CASE Score
        BY <4>1 DEF Score, Ask
      <4>2. CASE Sensitivity
        BY <4>2 DEF Sensitivity, Ask
      <4>3. CASE Similar
        BY <4>3 DEF Similar, Prepared
      <4>4. CASE Parse
        BY <4>4 DEF Parse, Ask
      <4>5. CASE Search
        BY <4>5 DEF Search, Ask
      <4>6. CASE Answer
        BY <4>6 DEF Answer, Ask
      <4> QED
        BY <2>4, <4>1, <4>2, <4>3, <4>4, <4>5, <4>6
    <3> QED
      BY <3>1 DEF PreparedOfTable, ClustersAreAgreed
  <2> QED
    BY <1>2, <2>1, <2>2, <2>3, <2>4 DEF Next
<1>3. Inv => ClustersAreAgreed
  OBVIOUS
<1> QED
  BY <1>1, <1>2, <1>3, PTL DEF Spec
===============================================================================
