---------------------------- MODULE FiniteLemmas ----------------------------
(***************************************************************************)
(* Facts about finite sets and sequences that the proofs of several        *)
(* modules rest on: what a strict total order lists, what a sum over a set *)
(* is, what stands at the places of a sequence in ascending order, and     *)
(* what sequences are together.                                            *)
(***************************************************************************)
EXTENDS Orders, FiniteSetsExt, SequencesExt,
        FiniteSetTheorems, SequenceTheorems, WellFoundedInduction, NaturalsInduction, TLAPS

(* B[x] are those of S that come before x.                                 *)
Precedes(S, B) ==
  /\ \A x \in S : B[x] \in SUBSET S /\ x \notin B[x]
  /\ \A x, y \in S : y \in B[x] => B[y] \subseteq B[x]
  /\ \A x, y \in S : x = y \/ x \in B[y] \/ y \in B[x]

(* Every place is taken by one element.                                    *)
LEMMA PlacesAreTaken ==
  ASSUME NEW S, IsFiniteSet(S), NEW B, Precedes(S, B)
  PROVE  /\ Cardinality(S) \in Nat
         /\ \A x \in S : Cardinality(B[x]) \in 0..(Cardinality(S) - 1)
         /\ \A x, y \in S : y \in B[x] => Cardinality(B[y]) < Cardinality(B[x])
         /\ \A i \in 1..Cardinality(S) : \E x \in S : Cardinality(B[x]) = i - 1
<1>1. Cardinality(S) \in Nat
  BY FS_CardinalityType
<1>2. \A x \in S : IsFiniteSet(B[x]) /\ Cardinality(B[x]) \in Nat
  BY FS_Subset, FS_CardinalityType DEF Precedes
<1>3. ASSUME NEW x \in S PROVE Cardinality(B[x]) \in 0..(Cardinality(S) - 1)
  <2>1. B[x] \in SUBSET S /\ B[x] # S
    BY DEF Precedes
  <2>2. Cardinality(B[x]) <= Cardinality(S) /\ Cardinality(B[x]) # Cardinality(S)
    BY <2>1, FS_Subset
  <2> QED
    BY <1>1, <1>2, <2>2
<1>4. ASSUME NEW x \in S, NEW y \in S, y \in B[x] PROVE Cardinality(B[y]) < Cardinality(B[x])
  <2>1. B[y] \in SUBSET B[x] /\ B[y] # B[x]
    BY <1>4 DEF Precedes
  <2>2. Cardinality(B[y]) <= Cardinality(B[x]) /\ Cardinality(B[y]) # Cardinality(B[x])
    BY <1>2, <2>1, FS_Subset
  <2> QED
    BY <1>2, <2>2
<1>5. ASSUME NEW i \in 1..Cardinality(S) PROVE \E x \in S : Cardinality(B[x]) = i - 1
  <2> DEFINE T == 0..(Cardinality(S) - 1)
             f == [x \in S |-> Cardinality(B[x])]
  <2>1. f \in [S -> T]
    BY <1>3
  <2>2. IsInjective(f)
    <3>1. \A x, y \in S : Cardinality(B[x]) = Cardinality(B[y]) => x = y
      BY <1>2, <1>4 DEF Precedes
    <3> QED
      BY <3>1 DEF IsInjective
  <2>3. f \in Injection(S, T)
    BY <2>1, <2>2 DEF Injection
  <2>4. IsFiniteSet(T) /\ Cardinality(T) = Cardinality(S)
    <3>1. 0 \in Int /\ Cardinality(S) - 1 \in Int
      BY <1>1
    <3>2. /\ IsFiniteSet(T)
          /\ Cardinality(T) = IF 0 > Cardinality(S) - 1 THEN 0 ELSE (Cardinality(S) - 1) - 0 + 1
      BY <3>1, FS_Interval
    <3> QED
      BY <1>1, <3>2
  <2> HIDE DEF f, T
  <2>5. f \in Surjection(S, T)
    BY <2>3, <2>4, FS_Injection
  <2>6. \A t \in T : \E x \in S : f[x] = t
    BY <2>5 DEF Surjection
  <2>7. i - 1 \in T
    BY <1>1 DEF T
  <2> QED
    BY <2>6, <2>7 DEF f
<1> QED
  BY <1>1, <1>3, <1>4, <1>5

(* o[i] is an element with i - 1 before it, if there is one.               *)
Lists(S, B, o) ==
  /\ DOMAIN o = 1..Cardinality(S)
  /\ \A i \in 1..Cardinality(S) :
       (\E x \in S : Cardinality(B[x]) = i - 1) => o[i] \in S /\ Cardinality(B[o[i]]) = i - 1

(* Such a list has every element once, in the order.                       *)
LEMMA ListIsInOrder ==
  ASSUME NEW S, IsFiniteSet(S), NEW B, Precedes(S, B), NEW o, Lists(S, B, o)
  PROVE  /\ Cardinality(S) \in Nat /\ DOMAIN o = 1..Cardinality(S)
         /\ \A i \in 1..Cardinality(S) : o[i] \in S
         /\ \A x \in S : \E i \in 1..Cardinality(S) : o[i] = x
         /\ \A i, j \in 1..Cardinality(S) : i < j <=> o[i] \in B[o[j]]
         /\ \A i, j \in 1..Cardinality(S) : o[i] = o[j] => i = j
<1> DEFINE n == Cardinality(S)
<1>1. /\ n \in Nat
      /\ \A x \in S : Cardinality(B[x]) \in 0..(n - 1)
      /\ \A x, y \in S : y \in B[x] => Cardinality(B[y]) < Cardinality(B[x])
      /\ \A i \in 1..n : \E x \in S : Cardinality(B[x]) = i - 1
  BY PlacesAreTaken
<1>2. DOMAIN o = 1..n /\ \A i \in 1..n : o[i] \in S /\ Cardinality(B[o[i]]) = i - 1
  BY <1>1 DEF Lists
<1> HIDE DEF n
<1>3. ASSUME NEW x \in S PROVE \E i \in 1..n : o[i] = x
  <2> DEFINE i == Cardinality(B[x]) + 1
  <2>1. i \in 1..n
    BY <1>1
  <2>2. o[i] \in S /\ Cardinality(B[o[i]]) = Cardinality(B[x])
    BY <1>1, <1>2, <2>1
  <2>3. o[i] = x
    BY <1>1, <2>2 DEF Precedes
  <2> QED
    BY <2>1, <2>3
<1>4. ASSUME NEW i \in 1..n, NEW j \in 1..n
      PROVE  (i < j <=> o[i] \in B[o[j]]) /\ (o[i] = o[j] => i = j)
  <2>1. /\ o[i] \in S /\ o[j] \in S
        /\ Cardinality(B[o[i]]) = i - 1 /\ Cardinality(B[o[j]]) = j - 1
    BY <1>2
  <2>2. o[i] = o[j] => i = j
    BY <1>1, <2>1
  <2>3. o[i] \in B[o[j]] => i - 1 < j - 1
    BY <1>1, <2>1
  <2>4. o[j] \in B[o[i]] => j - 1 < i - 1
    BY <1>1, <2>1
  <2>5. o[i] = o[j] \/ o[i] \in B[o[j]] \/ o[j] \in B[o[i]]
    BY <2>1 DEF Precedes
  <2> QED
    BY <1>1, <2>2, <2>3, <2>4, <2>5
<1> QED
  BY <1>1, <1>2, <1>3, <1>4 DEF n

(* Of some elements one comes before all others, and one after them.       *)
LEMMA OneIsFirst ==
  ASSUME NEW S, IsFiniteSet(S), NEW B, Precedes(S, B), S # {}
  PROVE  \E x \in S : \A y \in S \ {x} : x \in B[y]
<1>1. /\ Cardinality(S) \in Nat /\ Cardinality(S) # 0
      /\ \A x, y \in S : y \in B[x] => Cardinality(B[y]) < Cardinality(B[x])
      /\ \A x \in S : Cardinality(B[x]) \in 0..(Cardinality(S) - 1)
      /\ \A i \in 1..Cardinality(S) : \E x \in S : Cardinality(B[x]) = i - 1
  BY PlacesAreTaken, FS_EmptySet
<1>2. 1 \in 1..Cardinality(S) /\ 1 - 1 = 0
  BY <1>1
<1>3. PICK x \in S : Cardinality(B[x]) = 0
  BY <1>1, <1>2
<1>4. \A y \in S : y \notin B[x]
  BY <1>1, <1>3
<1> QED
  BY <1>3, <1>4 DEF Precedes

(* The one after all others.                                               *)
LEMMA OneIsLast ==
  ASSUME NEW S, IsFiniteSet(S), NEW B, Precedes(S, B), S # {}
  PROVE  \E x \in S : \A y \in S \ {x} : y \in B[x]
<1>1. /\ Cardinality(S) \in Nat /\ Cardinality(S) # 0
      /\ \A x, y \in S : y \in B[x] => Cardinality(B[y]) < Cardinality(B[x])
      /\ \A x \in S : Cardinality(B[x]) \in 0..(Cardinality(S) - 1)
      /\ \A i \in 1..Cardinality(S) : \E x \in S : Cardinality(B[x]) = i - 1
  BY PlacesAreTaken, FS_EmptySet
<1>2. Cardinality(S) \in 1..Cardinality(S)
  BY <1>1
<1>3. PICK x \in S : Cardinality(B[x]) = Cardinality(S) - 1
  BY <1>1, <1>2
<1>4. \A y \in S : x \notin B[y]
  BY <1>1, <1>3
<1> QED
  BY <1>3, <1>4 DEF Precedes

(* By three numbers and then by the place itself: a strict total order.    *)
LEMMA NumbersPrecede ==
  ASSUME NEW D, D \subseteq Int, NEW v \in [D -> Int], NEW b \in [D -> Int], NEW d \in [D -> Int],
         NEW B, \A x \in D : B[x] \in SUBSET D,
         \A x, y \in D : y \in B[x] <=>
           \/ v[y] > v[x]
           \/ v[y] = v[x] /\ b[y] > b[x]
           \/ v[y] = v[x] /\ b[y] = b[x] /\ d[y] > d[x]
           \/ v[y] = v[x] /\ b[y] = b[x] /\ d[y] = d[x] /\ y < x
  PROVE  Precedes(D, B)
<1> DEFINE R(x, y) == \/ v[x] > v[y]
                      \/ v[x] = v[y] /\ b[x] > b[y]
                      \/ v[x] = v[y] /\ b[x] = b[y] /\ d[x] > d[y]
                      \/ v[x] = v[y] /\ b[x] = b[y] /\ d[x] = d[y] /\ x < y
<1>1. \A x \in D : x \in Int /\ v[x] \in Int /\ b[x] \in Int /\ d[x] \in Int
  OBVIOUS
<1>2. \A x \in D : ~R(x, x)
  BY <1>1
<1>3. \A x, y, z \in D : R(x, y) /\ R(y, z) => R(x, z)
  BY <1>1
<1>4. \A x, y \in D : x = y \/ R(x, y) \/ R(y, x)
  BY <1>1
<1>5. \A x, y \in D : y \in B[x] <=> R(y, x)
  OBVIOUS
<1> HIDE DEF R
<1> QED
  BY <1>2, <1>3, <1>4, <1>5 DEF Precedes

(* W[x] are those strictly before x; two may be neither before the other.  *)
Weakly(D, W) ==
  /\ \A x \in D : W[x] \in SUBSET D
  /\ \A x, y \in D : x \in W[y] => y \notin W[x]
  /\ \A x, y, z \in D : x \in W[y] => x \in W[z] \/ z \in W[y]

(* Ties broken by a number of their own make it a strict total order.      *)
LEMMA TiesAreBroken ==
  ASSUME NEW D, NEW W, Weakly(D, W), NEW m \in [D -> Int], \A x, y \in D : m[x] = m[y] => x = y,
         NEW B, \A x \in D : B[x] \in SUBSET D,
         \A x, y \in D : y \in B[x] <=> y \in W[x] \/ (m[y] < m[x] /\ x \notin W[y])
  PROVE  Precedes(D, B)
<1> DEFINE R(y, x) == y \in W[x]
           L(y, x) == m[y] < m[x]
           S(y, x) == R(y, x) \/ (L(y, x) /\ ~R(x, y))
<1>1. /\ \A x, y \in D : R(x, y) => ~R(y, x)
      /\ \A x, y, z \in D : R(x, y) => R(x, z) \/ R(z, y)
  BY DEF Weakly
<1>2. /\ \A x, y, z \in D : L(x, y) /\ L(y, z) => L(x, z)
      /\ \A x, y \in D : x = y \/ L(x, y) \/ L(y, x)
      /\ \A x, y \in D : L(x, y) => ~L(y, x)
  <2>1. \A x \in D : m[x] \in Int
    OBVIOUS
  <2> QED
    BY <2>1
<1>3. \A x, y \in D : y \in B[x] <=> S(y, x)
  OBVIOUS
<1> HIDE DEF R, L
<1>4. \A x \in D : ~S(x, x)
  BY <1>1, <1>2
<1>5. \A x, y, z \in D : S(z, y) /\ S(y, x) => S(z, x)
  BY <1>1, <1>2
<1>6. \A x, y \in D : x = y \/ S(x, y) \/ S(y, x)
  BY <1>1, <1>2
<1> HIDE DEF S
<1>7. \A x, y, z \in D : y \in B[x] /\ z \in B[y] => z \in B[x]
  BY <1>3, <1>5
<1> QED
  BY <1>3, <1>4, <1>6, <1>7 DEF Precedes

(* A finite set of numbers has a greatest.                                 *)
LEMMA GreatestIsThere ==
  ASSUME NEW S, IsFiniteSet(S), S \subseteq Int, S # {}
  PROVE  \E x \in S : \A y \in S : x >= y
<1> DEFINE B == [x \in S |-> {y \in S : y < x}]
<1>1. \A x \in S : B[x] \in SUBSET S /\ \A y \in S : y \in B[x] <=> y < x
  OBVIOUS
<1>2. \A x, y \in S : x \in Int /\ y \in Int
  OBVIOUS
<1> HIDE DEF B
<1>3. Precedes(S, B)
  <2>1. \A x, y, z \in S : z < y /\ y < x => z < x
    BY <1>2
  <2>2. \A x, y \in S : x = y \/ x < y \/ y < x
    BY <1>2
  <2>3. \A x \in S : ~(x < x)
    BY <1>2
  <2> QED
    BY <1>1, <2>1, <2>2, <2>3 DEF Precedes
<1>4. PICK x \in S : \A y \in S \ {x} : y \in B[x]
  BY <1>3, OneIsLast
<1>5. \A y \in S : y = x \/ y < x
  BY <1>1, <1>4
<1> QED
  BY <1>2, <1>5

(* And a smallest.                                                         *)
LEMMA SmallestIsThere ==
  ASSUME NEW S, IsFiniteSet(S), S \subseteq Int, S # {}
  PROVE  \E x \in S : \A y \in S : x <= y
<1>1. PICK f : f = [x \in S |-> 0 - x]
  OBVIOUS
<1>2. PICK T : T = {f[x] : x \in S}
  OBVIOUS
<1>3. \A x \in S : f[x] = 0 - x /\ f[x] \in Int /\ f[x] \in T
  BY <1>1, <1>2
<1>4. IsFiniteSet(T)
  <2>1. f \in Surjection(S, T)
    BY <1>1, <1>2 DEF Surjection
  <2> QED
    BY <2>1, FS_Surjection
<1>5. T \subseteq Int /\ T # {}
  BY <1>2, <1>3
<1>6. PICK t \in T : \A u \in T : t >= u
  BY <1>4, <1>5, GreatestIsThere
<1>7. PICK x \in S : t = f[x]
  BY <1>2
<1>8. \A y \in S : f[x] >= f[y]
  BY <1>3, <1>6, <1>7
<1>9. ASSUME NEW y \in S PROVE x <= y
  <2>1. x \in Int /\ y \in Int /\ f[x] = 0 - x /\ f[y] = 0 - y /\ f[x] >= f[y]
    BY <1>3, <1>8
  <2> QED
    BY <2>1
<1> QED
  BY <1>9

(* The smaller of two.                                                     *)
LEMMA MinOfTwo ==
  ASSUME NEW m \in Nat, NEW n \in Nat
  PROVE  Min({m, n}) = IF m <= n THEN m ELSE n
<1>1. \E x \in {m, n} : \A y \in {m, n} : x <= y
  <2>1. m <= n \/ n <= m
    OBVIOUS
  <2> QED
    BY <2>1
<1>2. /\ Min({m, n}) \in {m, n}
      /\ \A y \in {m, n} : Min({m, n}) <= y
  BY <1>1 DEF Min
<1> QED
  BY <1>2

(* More than one is two that differ.                                       *)
LEMMA TwoOrMore ==
  ASSUME NEW M, IsFiniteSet(M)
  PROVE  /\ Cardinality(M) \in Nat
         /\ \A x, y \in M : x # y => Cardinality(M) > 1
         /\ \A x : Cardinality(M) > 1 => \E y \in M : y # x
<1>1. Cardinality(M) \in Nat
  BY FS_CardinalityType
<1>2. ASSUME NEW x \in M, NEW y \in M, x # y PROVE Cardinality(M) > 1
  <2>1. IsFiniteSet(M \ {x}) /\ Cardinality(M \ {x}) = Cardinality(M) - 1
    BY FS_RemoveElement
  <2>2. Cardinality(M \ {x}) \in Nat /\ Cardinality(M \ {x}) # 0
    BY <1>2, <2>1, FS_CardinalityType, FS_EmptySet
  <2> QED
    BY <1>1, <2>1, <2>2
<1>3. ASSUME NEW x, Cardinality(M) > 1 PROVE \E y \in M : y # x
  <2>1. SUFFICES ASSUME \A y \in M : y = x PROVE FALSE
    OBVIOUS
  <2>2. M \in SUBSET {x} /\ IsFiniteSet({x}) /\ Cardinality({x}) = 1
    BY <2>1, FS_Singleton
  <2>3. Cardinality(M) <= 1
    BY <2>2, FS_Subset
  <2> QED
    BY <1>1, <1>3, <2>3
<1> QED
  BY <1>1, <1>2, <1>3

(* Pairs of different elements, either way round.                          *)
Apart(M) == {p \in M \X M : p[1] # p[2]}

(* A set of m has m (m - 1) couples of different elements.                *)
LEMMA ApartAreCounted ==
  ASSUME NEW M, IsFiniteSet(M), NEW m, m = Cardinality(M)
  PROVE  m \in Nat /\ IsFiniteSet(Apart(M)) /\ Cardinality(Apart(M)) = m * (m - 1)
<1>1. m \in Nat
  BY FS_CardinalityType
<1>2. IsFiniteSet(M \X M) /\ Cardinality(M \X M) = m * m
  BY FS_Product
<1> DEFINE Same == {p \in M \X M : p[1] = p[2]}
<1>3. IsFiniteSet(Same) /\ Cardinality(Same) = m
  <2>1. PICK f : f = [x \in M |-> <<x, x>>]
    OBVIOUS
  <2>2. f \in [M -> Same]
    BY <2>1
  <2>3. \A x, y \in M : f[x] = f[y] => x = y
    BY <2>1
  <2>4. \A p \in Same : \E x \in M : f[x] = p
    <3>1. ASSUME NEW p \in Same PROVE p[1] \in M /\ f[p[1]] = p
      BY <2>1
    <3> QED
      BY <3>1
  <2> HIDE DEF Same
  <2>7. f \in Injection(M, Same)
    BY <2>2, <2>3 DEF Injection, IsInjective
  <2>8. f \in Surjection(M, Same)
    BY <2>2, <2>4 DEF Surjection
  <2>5. f \in Bijection(M, Same)
    BY <2>7, <2>8, Zenon DEF Bijection
  <2>6. ExistsBijection(M, Same)
    BY <2>5 DEF ExistsBijection
  <2> QED
    BY <2>6, FS_Bijection
<1>4. Apart(M) = (M \X M) \ Same /\ (M \X M) \cap Same = Same
  BY DEF Apart
<1> HIDE DEF Same
<1>5. IsFiniteSet(Apart(M)) /\ Cardinality(Apart(M)) = m * m - m
  <2>1. PICK P : P = M \X M
    OBVIOUS
  <2>2. IsFiniteSet(P \ Same) /\ Cardinality(P \ Same) = Cardinality(P) - Cardinality(P \cap Same)
    BY <1>2, <2>1, FS_Difference
  <2> QED
    BY <1>2, <1>3, <1>4, <2>1, <2>2
<1>6. m * m - m = m * (m - 1)
  BY <1>1
<1> QED
  BY <1>1, <1>5, <1>6

(* The values of a function on a finite set are finitely many.             *)
LEMMA ImageFinite ==
  ASSUME NEW D, IsFiniteSet(D), NEW f, DOMAIN f = D
  PROVE  IsFiniteSet({f[x] : x \in D})
<1> DEFINE T == {f[x] : x \in D}
<1>1. f \in [D -> T] => f \in Surjection(D, T)
  BY DEF Surjection
<1>2. [x \in D |-> f[x]] \in Surjection(D, T)
  BY DEF Surjection
<1> QED
  BY <1>2, FS_Surjection
-----------------------------------------------------------------------------
(* Sums over a finite set.  The induction is over the cardinality of its   *)
(* subsets, by a smallest counterexample.                                  *)

(* g[T] is the sum of f over T, for the subsets T of cardinality up to n.   *)
Small(S, n) == {T \in SUBSET S : Cardinality(T) <= n}
Pick(T) == CHOOSE x \in T : TRUE
Adds(f, D, g) == g = [T \in D |-> IF T = {} THEN 0 ELSE f[Pick(T)] + g[T \ {Pick(T)}]]
Sums(f, S) == CHOOSE g : Adds(f, SUBSET S, g)

(* What FiniteSetsExt sums.                                                *)
LEMMA SumIsSums ==
  ASSUME NEW f, NEW S
  PROVE  MapThenSumSet(LAMBDA s : f[s], S) = Sums(f, S)[S]
BY Zenon DEF MapThenSumSet, MapThenFoldSet, Sums, Adds, Pick

(* A subset is smaller, and smaller by one without the element picked.     *)
LEMMA SubsetsAreCounted ==
  ASSUME NEW S, IsFiniteSet(S), NEW T \in SUBSET S
  PROVE  /\ IsFiniteSet(T) /\ Cardinality(T) \in 0..Cardinality(S) /\ Cardinality(S) \in Nat
         /\ T # {} => /\ Pick(T) \in T /\ T \ {Pick(T)} \in SUBSET S
                      /\ Cardinality(T \ {Pick(T)}) = Cardinality(T) - 1
         /\ Cardinality(T) = 0 <=> T = {}
<1>1. IsFiniteSet(T) /\ Cardinality(T) <= Cardinality(S) /\ Cardinality(T) \in Nat /\ Cardinality(S) \in Nat
  BY FS_Subset, FS_CardinalityType
<1>2. ASSUME T # {}
      PROVE  /\ Pick(T) \in T /\ T \ {Pick(T)} \in SUBSET S
             /\ Cardinality(T \ {Pick(T)}) = Cardinality(T) - 1
  <2>1. Pick(T) \in T
    BY <1>2 DEF Pick
  <2> QED
    BY <1>1, <2>1, FS_RemoveElement
<1> QED
  BY <1>1, <1>2, FS_EmptySet

(* Of the sets that have a property, one has the fewest elements.          *)
LEMMA SmallestSet ==
  ASSUME NEW S, IsFiniteSet(S), NEW Bad \in SUBSET (SUBSET S), Bad # {}
  PROVE  \E T \in Bad : \A U \in Bad : Cardinality(T) <= Cardinality(U)
<1> DEFINE Sizes == {Cardinality(T) : T \in Bad}
<1>1. \A T \in Bad : Cardinality(T) \in Nat
  BY SubsetsAreCounted
<1>2. Sizes \subseteq Nat /\ Sizes # {}
  BY <1>1
<1> HIDE DEF Sizes
<1>3. PICK m \in Sizes : \A n \in Sizes : ~(<<n, m>> \in OpToRel(<, Nat))
  BY <1>2, NatLessThanWellFounded, WFMin
<1>4. \A n \in Sizes : ~(n < m)
  BY <1>2, <1>3, Zenon DEF OpToRel
<1>5. PICK T \in Bad : m = Cardinality(T)
  BY DEF Sizes
<1>6. ASSUME NEW U \in Bad PROVE Cardinality(T) <= Cardinality(U)
  <2>1. Cardinality(U) \in Sizes
    BY DEF Sizes
  <2>2. ~(Cardinality(U) < Cardinality(T))
    BY <1>4, <1>5, <2>1
  <2> QED
    BY <1>1, <2>2
<1> QED
  BY <1>6

(* The sums over all subsets exist, because those over small ones do.      *)
LEMMA SumsExist ==
  ASSUME NEW S, IsFiniteSet(S), NEW f
  PROVE  Adds(f, SUBSET S, Sums(f, S))
<1> DEFINE Bad == {n \in Nat : ~ \E g : Adds(f, Small(S, n), g)}
<1>1. Bad = {}
  <2> SUFFICES ASSUME Bad # {} PROVE FALSE
    OBVIOUS
  <2>1. Bad \subseteq Nat
    OBVIOUS
  <2> HIDE DEF Bad
  <2>2. PICK m \in Bad : \A n \in Bad : ~(<<n, m>> \in OpToRel(<, Nat))
    BY <2>1, NatLessThanWellFounded, WFMin
  <2>3. m \in Nat /\ \A n \in Bad : ~(n < m)
    BY <2>1, <2>2, Zenon DEF OpToRel
  <2>4. ~ \E g : Adds(f, Small(S, m), g)
    BY DEF Bad
  <2>5. CASE m = 0
    <3> DEFINE g == [T \in Small(S, 0) |-> 0]
    <3>1. \A T \in Small(S, 0) : T = {}
      <4> TAKE T \in Small(S, 0)
      <4>1. T \in SUBSET S /\ Cardinality(T) <= 0
        BY DEF Small
      <4>2. Cardinality(T) \in 0..Cardinality(S) /\ Cardinality(S) \in Nat
            /\ (Cardinality(T) = 0 <=> T = {})
        BY <4>1, SubsetsAreCounted, Zenon
      <4> QED
        BY <4>1, <4>2
    <3>2. g = [T \in Small(S, 0) |-> IF T = {} THEN 0 ELSE f[Pick(T)] + g[T \ {Pick(T)}]]
      BY <3>1
    <3> HIDE DEF g
    <3>3. Adds(f, Small(S, m), g)
      BY <2>5, <3>2 DEF Adds
    <3> QED
      BY <2>4, <3>3
  <2>6. CASE m # 0
    <3>1. m - 1 \in Nat /\ m - 1 < m
      BY <2>3, <2>6
    <3>2. m - 1 \notin Bad
      BY <2>3, <3>1
    <3>3. PICK h : Adds(f, Small(S, m - 1), h)
      BY <3>1, <3>2 DEF Bad
    <3> DEFINE g == [T \in Small(S, m) |-> IF T = {} THEN 0 ELSE f[Pick(T)] + h[T \ {Pick(T)}]]
    <3>4. ASSUME NEW T \in Small(S, m), T # {}
          PROVE  g[T \ {Pick(T)}] = h[T \ {Pick(T)}]
      <4> DEFINE U == T \ {Pick(T)}
      <4>1. T \in SUBSET S /\ Cardinality(T) <= m
        BY DEF Small
      <4>2. U \in SUBSET S /\ Cardinality(U) = Cardinality(T) - 1 /\ Cardinality(T) \in Nat
        BY <3>4, <4>1, SubsetsAreCounted
      <4>3. Cardinality(U) <= m - 1 /\ Cardinality(U) <= m
        BY <2>3, <4>1, <4>2
      <4>4. U \in Small(S, m - 1) /\ U \in Small(S, m)
        BY <4>2, <4>3 DEF Small
      <4> HIDE DEF U
      <4>5. h[U] = IF U = {} THEN 0 ELSE f[Pick(U)] + h[U \ {Pick(U)}]
        BY <3>3, <4>4 DEF Adds
      <4>6. g[U] = IF U = {} THEN 0 ELSE f[Pick(U)] + h[U \ {Pick(U)}]
        BY <4>4
      <4> QED
        BY <4>5, <4>6 DEF U
    <3>5. g = [T \in Small(S, m) |-> IF T = {} THEN 0 ELSE f[Pick(T)] + g[T \ {Pick(T)}]]
      BY <3>4
    <3> HIDE DEF g
    <3>6. Adds(f, Small(S, m), g)
      BY <3>5 DEF Adds
    <3> QED
      BY <2>4, <3>6
  <2> QED
    BY <2>5, <2>6
<1>2. Cardinality(S) \in Nat /\ Small(S, Cardinality(S)) = SUBSET S
  <2>1. S \in SUBSET S
    OBVIOUS
  <2>2. Cardinality(S) \in Nat
    BY <2>1, SubsetsAreCounted
  <2>3. \A T \in SUBSET S : Cardinality(T) <= Cardinality(S)
    <3> TAKE T \in SUBSET S
    <3>1. Cardinality(T) \in 0..Cardinality(S)
      BY SubsetsAreCounted, Zenon
    <3> QED
      BY <2>2, <3>1
  <2> QED
    BY <2>2, <2>3 DEF Small
<1>3. \E g : Adds(f, SUBSET S, g)
  <2>1. \E g : Adds(f, Small(S, Cardinality(S)), g)
    BY <1>1, <1>2
  <2> QED
    BY <1>2, <2>1, Zenon
<1> QED
  BY <1>3 DEF Sums

(* The sum over a set when there is one more at e.                         *)
LEMMA SumOfOneMore ==
  ASSUME NEW S, IsFiniteSet(S), NEW f, \A x \in S : f[x] \in Nat, NEW e,
         NEW h, \A x \in S : h[x] = f[x] + IF x = e THEN 1 ELSE 0
  PROVE  /\ Sums(f, S)[S] \in Nat
         /\ Sums(h, S)[S] = Sums(f, S)[S] + IF e \in S THEN 1 ELSE 0
<1> DEFINE F == Sums(f, S)
           H == Sums(h, S)
           Right(T) == F[T] \in Nat /\ H[T] = F[T] + IF e \in T THEN 1 ELSE 0
           Bad == {T \in SUBSET S : ~Right(T)}
<1>1. ASSUME NEW T \in SUBSET S
      PROVE  /\ F[T] = IF T = {} THEN 0 ELSE f[Pick(T)] + F[T \ {Pick(T)}]
             /\ H[T] = IF T = {} THEN 0 ELSE h[Pick(T)] + H[T \ {Pick(T)}]
  <2>1. Adds(f, SUBSET S, F) /\ Adds(h, SUBSET S, H)
    BY SumsExist, Zenon
  <2> HIDE DEF F, H
  <2> QED
    BY <2>1 DEF Adds
<1> HIDE DEF F, H
<1>2. Bad = {}
  <2> SUFFICES ASSUME Bad # {} PROVE FALSE
    OBVIOUS
  <2>1. Bad \in SUBSET (SUBSET S)
    OBVIOUS
  <2> HIDE DEF Bad
  <2>2. PICK T \in Bad : \A U \in Bad : Cardinality(T) <= Cardinality(U)
    BY <2>1, SmallestSet
  <2>3. T \in SUBSET S /\ ~Right(T)
    BY DEF Bad
  <2> DEFINE x == Pick(T)
             U == T \ {x}
  <2>4. CASE T = {}
    <3>1. F[T] = 0 /\ H[T] = 0 /\ e \notin T
      BY <1>1, <2>3, <2>4
    <3> QED
      BY <2>3, <3>1
  <2>5. CASE T # {}
    <3>1. x \in T /\ U \in SUBSET S /\ Cardinality(U) = Cardinality(T) - 1 /\ Cardinality(T) \in Nat
      BY <2>3, <2>5, SubsetsAreCounted
    <3>2. U \notin Bad
      BY <2>2, <3>1
    <3>3. Right(U)
      BY <3>1, <3>2 DEF Bad
    <3>4. F[T] = f[x] + F[U] /\ H[T] = h[x] + H[U]
      BY <1>1, <2>3, <2>5
    <3>5. f[x] \in Nat /\ h[x] = f[x] + IF x = e THEN 1 ELSE 0
      BY <2>3, <3>1
    <3>6. e \in T <=> e = x \/ e \in U
      BY <3>1
    <3>7. e = x => e \notin U
      OBVIOUS
    <3> HIDE DEF x, U
    <3> QED
      BY <2>3, <3>3, <3>4, <3>5, <3>6, <3>7
  <2> QED
    BY <2>4, <2>5
<1>3. Right(S)
  BY <1>2
<1> QED
  BY <1>3 DEF F, H

(* The sum of zeros.                                                       *)
LEMMA SumOfNothing ==
  ASSUME NEW S, IsFiniteSet(S), NEW f, \A x \in S : f[x] = 0
  PROVE  Sums(f, S)[S] = 0
<1> DEFINE F == Sums(f, S)
           Bad == {T \in SUBSET S : F[T] # 0}
<1>1. ASSUME NEW T \in SUBSET S
      PROVE  F[T] = IF T = {} THEN 0 ELSE f[Pick(T)] + F[T \ {Pick(T)}]
  <2>1. Adds(f, SUBSET S, F)
    BY SumsExist, Zenon
  <2> HIDE DEF F
  <2> QED
    BY <2>1 DEF Adds
<1> HIDE DEF F
<1>2. Bad = {}
  <2> SUFFICES ASSUME Bad # {} PROVE FALSE
    OBVIOUS
  <2>1. Bad \in SUBSET (SUBSET S)
    OBVIOUS
  <2> HIDE DEF Bad
  <2>2. PICK T \in Bad : \A U \in Bad : Cardinality(T) <= Cardinality(U)
    BY <2>1, SmallestSet
  <2>3. T \in SUBSET S /\ F[T] # 0
    BY DEF Bad
  <2>4. CASE T # {}
    <3> DEFINE x == Pick(T)
               U == T \ {x}
    <3>1. x \in T /\ U \in SUBSET S /\ Cardinality(U) = Cardinality(T) - 1 /\ Cardinality(T) \in Nat
      BY <2>3, <2>4, SubsetsAreCounted
    <3>2. U \notin Bad
      BY <2>2, <3>1
    <3>3. F[U] = 0 /\ f[x] = 0
      BY <2>3, <3>1, <3>2 DEF Bad
    <3>4. F[T] = f[x] + F[U]
      BY <1>1, <2>3, <2>4
    <3> HIDE DEF x, U
    <3> QED
      BY <2>3, <3>3, <3>4
  <2> QED
    BY <1>1, <2>3, <2>4
<1>3. F[S] = 0
  BY <1>2
<1> QED
  BY <1>3 DEF F

(* A sum of integers is one, a sum of natural numbers too.                 *)
LEMMA SumIsNumber ==
  ASSUME NEW S, IsFiniteSet(S), NEW N, N = Nat \/ N = Int, NEW f, \A x \in S : f[x] \in N
  PROVE  Sums(f, S)[S] \in N
<1> DEFINE F == Sums(f, S)
           Bad == {T \in SUBSET S : F[T] \notin N}
<1>0. 0 \in N /\ \A x, y \in N : x + y \in N
  <2>1. CASE N = Nat
    BY <2>1
  <2>2. CASE N = Int
    BY <2>2
  <2> QED
    BY <2>1, <2>2
<1>1. ASSUME NEW T \in SUBSET S
      PROVE  F[T] = IF T = {} THEN 0 ELSE f[Pick(T)] + F[T \ {Pick(T)}]
  <2>1. Adds(f, SUBSET S, F)
    BY SumsExist, Zenon
  <2> HIDE DEF F
  <2> QED
    BY <2>1 DEF Adds
<1> HIDE DEF F
<1>2. Bad = {}
  <2> SUFFICES ASSUME Bad # {} PROVE FALSE
    OBVIOUS
  <2>1. Bad \in SUBSET (SUBSET S)
    OBVIOUS
  <2> HIDE DEF Bad
  <2>2. PICK T \in Bad : \A U \in Bad : Cardinality(T) <= Cardinality(U)
    BY <2>1, SmallestSet
  <2>3. T \in SUBSET S /\ F[T] \notin N
    BY DEF Bad
  <2>4. CASE T # {}
    <3> DEFINE x == Pick(T)
               U == T \ {x}
    <3>1. x \in T /\ U \in SUBSET S /\ Cardinality(U) = Cardinality(T) - 1 /\ Cardinality(T) \in Nat
      BY <2>3, <2>4, SubsetsAreCounted
    <3>2. U \notin Bad
      BY <2>2, <3>1
    <3>3. F[U] \in N /\ f[x] \in N
      BY <2>3, <3>1, <3>2 DEF Bad
    <3>4. F[T] = f[x] + F[U]
      BY <1>1, <2>3, <2>4
    <3> HIDE DEF x, U
    <3> QED
      BY <1>0, <2>3, <3>3, <3>4
  <2> QED
    BY <1>0, <1>1, <2>3, <2>4
<1>3. F[S] \in N
  BY <1>2
<1> QED
  BY <1>3 DEF F

(* A greater summand at every place makes a sum no less; a factor of every *)
(* summand is one of the sum.                                              *)
LEMMA SumGrows ==
  ASSUME NEW S, IsFiniteSet(S), NEW f, NEW h,
         \A x \in S : f[x] \in Int /\ h[x] \in Int /\ f[x] <= h[x]
  PROVE  Sums(f, S)[S] <= Sums(h, S)[S]
<1> DEFINE F == Sums(f, S)
           H == Sums(h, S)
           Right(T) == F[T] \in Int /\ H[T] \in Int /\ F[T] <= H[T]
           Bad == {T \in SUBSET S : ~Right(T)}
<1>1. ASSUME NEW T \in SUBSET S
      PROVE  /\ F[T] = IF T = {} THEN 0 ELSE f[Pick(T)] + F[T \ {Pick(T)}]
             /\ H[T] = IF T = {} THEN 0 ELSE h[Pick(T)] + H[T \ {Pick(T)}]
  <2>1. Adds(f, SUBSET S, F) /\ Adds(h, SUBSET S, H)
    BY SumsExist, Zenon
  <2> HIDE DEF F, H
  <2> QED
    BY <2>1 DEF Adds
<1> HIDE DEF F, H
<1>2. Bad = {}
  <2> SUFFICES ASSUME Bad # {} PROVE FALSE
    OBVIOUS
  <2>1. Bad \in SUBSET (SUBSET S)
    OBVIOUS
  <2> HIDE DEF Bad
  <2>2. PICK T \in Bad : \A U \in Bad : Cardinality(T) <= Cardinality(U)
    BY <2>1, SmallestSet
  <2>3. T \in SUBSET S /\ ~Right(T)
    BY DEF Bad
  <2> DEFINE x == Pick(T)
             U == T \ {x}
  <2>4. CASE T = {}
    <3>1. F[T] = 0 /\ H[T] = 0
      BY <1>1, <2>3, <2>4
    <3> QED
      BY <2>3, <3>1
  <2>5. CASE T # {}
    <3>1. x \in T /\ U \in SUBSET S /\ Cardinality(U) = Cardinality(T) - 1 /\ Cardinality(T) \in Nat
      BY <2>3, <2>5, SubsetsAreCounted
    <3>2. U \notin Bad
      BY <2>2, <3>1
    <3>3. Right(U)
      BY <3>1, <3>2 DEF Bad
    <3>4. F[T] = f[x] + F[U] /\ H[T] = h[x] + H[U]
      BY <1>1, <2>3, <2>5
    <3>5. f[x] \in Int /\ h[x] \in Int /\ f[x] <= h[x]
      BY <2>3, <3>1
    <3> HIDE DEF x, U
    <3> QED
      BY <2>3, <3>3, <3>4, <3>5
  <2> QED
    BY <2>4, <2>5
<1>3. Right(S)
  BY <1>2
<1> QED
  BY <1>3 DEF F, H

(* A factor of every summand.                                              *)
LEMMA SumIsScaled ==
  ASSUME NEW S, IsFiniteSet(S), NEW f, NEW h, NEW c \in Int,
         \A x \in S : f[x] \in Int /\ h[x] = c * f[x]
  PROVE  Sums(h, S)[S] = c * Sums(f, S)[S]
<1> DEFINE F == Sums(f, S)
           H == Sums(h, S)
           Right(T) == F[T] \in Int /\ H[T] = c * F[T]
           Bad == {T \in SUBSET S : ~Right(T)}
<1>1. ASSUME NEW T \in SUBSET S
      PROVE  /\ F[T] = IF T = {} THEN 0 ELSE f[Pick(T)] + F[T \ {Pick(T)}]
             /\ H[T] = IF T = {} THEN 0 ELSE h[Pick(T)] + H[T \ {Pick(T)}]
  <2>1. Adds(f, SUBSET S, F) /\ Adds(h, SUBSET S, H)
    BY SumsExist, Zenon
  <2> HIDE DEF F, H
  <2> QED
    BY <2>1 DEF Adds
<1> HIDE DEF F, H
<1>2. Bad = {}
  <2> SUFFICES ASSUME Bad # {} PROVE FALSE
    OBVIOUS
  <2>1. Bad \in SUBSET (SUBSET S)
    OBVIOUS
  <2> HIDE DEF Bad
  <2>2. PICK T \in Bad : \A U \in Bad : Cardinality(T) <= Cardinality(U)
    BY <2>1, SmallestSet
  <2>3. T \in SUBSET S /\ ~Right(T)
    BY DEF Bad
  <2> DEFINE x == Pick(T)
             U == T \ {x}
  <2>4. CASE T = {}
    <3>1. F[T] = 0 /\ H[T] = 0
      BY <1>1, <2>3, <2>4
    <3> QED
      BY <2>3, <3>1
  <2>5. CASE T # {}
    <3>1. x \in T /\ U \in SUBSET S /\ Cardinality(U) = Cardinality(T) - 1 /\ Cardinality(T) \in Nat
      BY <2>3, <2>5, SubsetsAreCounted
    <3>2. U \notin Bad
      BY <2>2, <3>1
    <3>3. Right(U)
      BY <3>1, <3>2 DEF Bad
    <3>4. F[T] = f[x] + F[U] /\ H[T] = h[x] + H[U]
      BY <1>1, <2>3, <2>5
    <3>5. f[x] \in Int /\ h[x] = c * f[x]
      BY <2>3, <3>1
    <3>6. \A a, b \in Int : c * a + c * b = c * (a + b)
      OBVIOUS
    <3> HIDE DEF x, U
    <3> QED
      BY <2>3, <3>3, <3>4, <3>5, <3>6
  <2> QED
    BY <2>4, <2>5
<1>3. Right(S)
  BY <1>2
<1> QED
  BY <1>3 DEF F, H

(* The sum of sums.                                                        *)
LEMMA SumOfTwo ==
  ASSUME NEW S, IsFiniteSet(S), NEW f, NEW g, NEW h,
         \A x \in S : f[x] \in Int /\ g[x] \in Int /\ h[x] = f[x] + g[x]
  PROVE  Sums(h, S)[S] = Sums(f, S)[S] + Sums(g, S)[S]
<1> DEFINE F == Sums(f, S)
           G == Sums(g, S)
           H == Sums(h, S)
           Right(T) == F[T] \in Int /\ G[T] \in Int /\ H[T] = F[T] + G[T]
           Bad == {T \in SUBSET S : ~Right(T)}
<1>1. ASSUME NEW T \in SUBSET S
      PROVE  /\ F[T] = IF T = {} THEN 0 ELSE f[Pick(T)] + F[T \ {Pick(T)}]
             /\ G[T] = IF T = {} THEN 0 ELSE g[Pick(T)] + G[T \ {Pick(T)}]
             /\ H[T] = IF T = {} THEN 0 ELSE h[Pick(T)] + H[T \ {Pick(T)}]
  <2>1. Adds(f, SUBSET S, F) /\ Adds(g, SUBSET S, G) /\ Adds(h, SUBSET S, H)
    BY SumsExist, Zenon
  <2> HIDE DEF F, G, H
  <2> QED
    BY <2>1 DEF Adds
<1> HIDE DEF F, G, H
<1>2. Bad = {}
  <2> SUFFICES ASSUME Bad # {} PROVE FALSE
    OBVIOUS
  <2>1. Bad \in SUBSET (SUBSET S)
    OBVIOUS
  <2> HIDE DEF Bad
  <2>2. PICK T \in Bad : \A U \in Bad : Cardinality(T) <= Cardinality(U)
    BY <2>1, SmallestSet
  <2>3. T \in SUBSET S /\ ~Right(T)
    BY DEF Bad
  <2> DEFINE x == Pick(T)
             U == T \ {x}
  <2>4. CASE T = {}
    <3>1. F[T] = 0 /\ G[T] = 0 /\ H[T] = 0
      BY <1>1, <2>3, <2>4
    <3> QED
      BY <2>3, <3>1
  <2>5. CASE T # {}
    <3>1. x \in T /\ U \in SUBSET S /\ Cardinality(U) = Cardinality(T) - 1 /\ Cardinality(T) \in Nat
      BY <2>3, <2>5, SubsetsAreCounted
    <3>2. U \notin Bad
      BY <2>2, <3>1
    <3>3. Right(U)
      BY <3>1, <3>2 DEF Bad
    <3>4. F[T] = f[x] + F[U] /\ G[T] = g[x] + G[U] /\ H[T] = h[x] + H[U]
      BY <1>1, <2>3, <2>5
    <3>5. f[x] \in Int /\ g[x] \in Int /\ h[x] = f[x] + g[x]
      BY <2>3, <3>1
    <3> HIDE DEF x, U
    <3> QED
      BY <2>3, <3>3, <3>4, <3>5
  <2> QED
    BY <2>4, <2>5
<1>3. Right(S)
  BY <1>2
<1> QED
  BY <1>3 DEF F, G, H

(* As many ones as elements.                                               *)
LEMMA SumOfOnes ==
  ASSUME NEW S, IsFiniteSet(S), NEW f, \A x \in S : f[x] = 1
  PROVE  Sums(f, S)[S] = Cardinality(S)
<1> DEFINE F == Sums(f, S)
           Bad == {T \in SUBSET S : F[T] # Cardinality(T)}
<1>1. ASSUME NEW T \in SUBSET S
      PROVE  F[T] = IF T = {} THEN 0 ELSE f[Pick(T)] + F[T \ {Pick(T)}]
  <2>1. Adds(f, SUBSET S, F)
    BY SumsExist, Zenon
  <2> HIDE DEF F
  <2> QED
    BY <2>1 DEF Adds
<1> HIDE DEF F
<1>2. Bad = {}
  <2> SUFFICES ASSUME Bad # {} PROVE FALSE
    OBVIOUS
  <2>1. Bad \in SUBSET (SUBSET S)
    OBVIOUS
  <2> HIDE DEF Bad
  <2>2. PICK T \in Bad : \A U \in Bad : Cardinality(T) <= Cardinality(U)
    BY <2>1, SmallestSet
  <2>3. T \in SUBSET S /\ F[T] # Cardinality(T)
    BY DEF Bad
  <2>4. CASE T # {}
    <3> DEFINE x == Pick(T)
               U == T \ {x}
    <3>1. x \in T /\ U \in SUBSET S /\ Cardinality(U) = Cardinality(T) - 1 /\ Cardinality(T) \in Nat
      BY <2>3, <2>4, SubsetsAreCounted
    <3>2. U \notin Bad
      BY <2>2, <3>1
    <3>3. F[U] = Cardinality(U) /\ f[x] = 1
      BY <2>3, <3>1, <3>2 DEF Bad
    <3>4. F[T] = f[x] + F[U]
      BY <1>1, <2>3, <2>4
    <3> HIDE DEF x, U
    <3> QED
      BY <2>3, <3>1, <3>3, <3>4
  <2>5. CASE T = {}
    BY <1>1, <2>3, <2>5, FS_EmptySet
  <2> QED
    BY <2>4, <2>5
<1>3. F[S] = Cardinality(S)
  BY <1>2
<1> QED
  BY <1>3 DEF F

(* Of numbers up to u, one that is m less makes their sum m less.          *)
LEMMA SumOfLess ==
  ASSUME NEW S, IsFiniteSet(S), NEW u \in Nat, NEW m \in Nat, NEW f, \A x \in S : f[x] \in 0..u,
         NEW e \in S, f[e] + m <= u
  PROVE  Sums(f, S)[S] \in Nat /\ Sums(f, S)[S] + m <= u * Cardinality(S)
<1>1. PICK none : none = [x \in S |-> 0]
  OBVIOUS
<1>2. PICK one : one = [x \in S |-> IF x = e THEN 1 ELSE 0]
  OBVIOUS
<1>3. PICK more : more = [x \in S |-> m * one[x]]
  OBVIOUS
<1>4. PICK h : h = [x \in S |-> f[x] + more[x]]
  OBVIOUS
<1>5. PICK ones : ones = [x \in S |-> 1]
  OBVIOUS
<1>6. PICK all : all = [x \in S |-> u * ones[x]]
  OBVIOUS
<1>7. m \in Int /\ u \in Int
  OBVIOUS
<1>8. Sums(one, S)[S] = 1
  <2>1. \A x \in S : none[x] \in Nat /\ none[x] = 0 /\ one[x] = none[x] + IF x = e THEN 1 ELSE 0
    BY <1>1, <1>2
  <2>2. Sums(none, S)[S] = 0
    BY <2>1, SumOfNothing
  <2>3. Sums(one, S)[S] = Sums(none, S)[S] + IF e \in S THEN 1 ELSE 0
    BY <2>1, SumOfOneMore
  <2> QED
    BY <2>2, <2>3
<1>9. \A x \in S : one[x] \in Int /\ more[x] = (IF x = e THEN m ELSE 0) /\ more[x] = m * one[x]
  BY <1>2, <1>3
<1>10. Sums(more, S)[S] = m
  <2>1. Sums(more, S)[S] = m * Sums(one, S)[S]
    BY <1>7, <1>9, SumIsScaled
  <2> QED
    BY <1>8, <2>1
<1>11. \A x \in S : f[x] \in Int /\ f[x] \in Nat /\ more[x] \in Int /\ h[x] = f[x] + more[x]
  BY <1>4, <1>9
<1>12. Sums(f, S)[S] \in Nat
  BY <1>11, SumIsNumber
<1>13. Sums(h, S)[S] = Sums(f, S)[S] + m
  BY <1>10, <1>11, SumOfTwo
<1>14. \A x \in S : ones[x] \in Int /\ ones[x] = 1 /\ all[x] = u * ones[x] /\ all[x] = u
  BY <1>5, <1>6
<1>15. Sums(all, S)[S] = u * Cardinality(S)
  <2>1. Sums(ones, S)[S] = Cardinality(S)
    BY <1>14, SumOfOnes
  <2>2. Sums(all, S)[S] = u * Sums(ones, S)[S]
    BY <1>7, <1>14, SumIsScaled
  <2> QED
    BY <2>1, <2>2
<1>16. Sums(h, S)[S] <= Sums(all, S)[S]
  <2>1. \A x \in S : h[x] \in Int /\ all[x] \in Int /\ h[x] <= all[x]
    BY <1>9, <1>11, <1>14
  <2> QED
    BY <2>1, SumGrows
<1> QED
  BY <1>12, <1>13, <1>15, <1>16

(* The union of sets without a common element has as many as they have     *)
(* together.                                                               *)
Gathered(U, T) == UNION {U[c] : c \in T}

(* Sets without a common element have as many elements together as the sum*)
(* of theirs.                                                             *)
LEMMA ClassesAreCounted ==
  ASSUME NEW S, IsFiniteSet(S), NEW f, NEW U,
         \A c \in S : f[c] \in Nat /\ IsFiniteSet(U[c]) /\ Cardinality(U[c]) = 2 * f[c],
         \A c, d \in S : \A p : p \in U[c] /\ p \in U[d] => c = d
  PROVE  /\ Sums(f, S)[S] \in Nat
         /\ IsFiniteSet(Gathered(U, S)) /\ Cardinality(Gathered(U, S)) = 2 * Sums(f, S)[S]
<1> DEFINE F == Sums(f, S)
           Right(T) == /\ F[T] \in Nat
                       /\ IsFiniteSet(Gathered(U, T)) /\ Cardinality(Gathered(U, T)) = 2 * F[T]
           Bad == {T \in SUBSET S : ~Right(T)}
<1>1. ASSUME NEW T \in SUBSET S
      PROVE  F[T] = IF T = {} THEN 0 ELSE f[Pick(T)] + F[T \ {Pick(T)}]
  <2>1. Adds(f, SUBSET S, F)
    BY SumsExist, Zenon
  <2> HIDE DEF F
  <2> QED
    BY <2>1 DEF Adds
<1> HIDE DEF F
<1>2. Bad = {}
  <2> SUFFICES ASSUME Bad # {} PROVE FALSE
    OBVIOUS
  <2>1. Bad \in SUBSET (SUBSET S)
    OBVIOUS
  <2> HIDE DEF Bad
  <2>2. PICK T \in Bad : \A V \in Bad : Cardinality(T) <= Cardinality(V)
    BY <2>1, SmallestSet
  <2>3. T \in SUBSET S /\ ~Right(T)
    BY DEF Bad
  <2>4. CASE T # {}
    <3> DEFINE x == Pick(T)
               V == T \ {x}
    <3>1. x \in T /\ V \in SUBSET S /\ Cardinality(V) = Cardinality(T) - 1 /\ Cardinality(T) \in Nat
      BY <2>3, <2>4, SubsetsAreCounted
    <3>2. V \notin Bad
      BY <2>2, <3>1
    <3>3. Right(V)
      BY <3>1, <3>2 DEF Bad
    <3>4. F[T] = f[x] + F[V]
      BY <1>1, <2>3, <2>4
    <3>5. x \in S /\ V \subseteq S /\ x \notin V /\ T = V \union {x}
      BY <2>3, <3>1
    <3> HIDE DEF x, V
    <3>6. Gathered(U, T) = U[x] \union Gathered(U, V)
      BY <3>5 DEF Gathered
    <3>7. U[x] \cap Gathered(U, V) = {}
      <4>1. \A p \in Gathered(U, V) : \E c \in V : p \in U[c]
        BY DEF Gathered
      <4> QED
        BY <3>5, <4>1
    <3>8. IsFiniteSet(U[x]) /\ Cardinality(U[x]) = 2 * f[x] /\ f[x] \in Nat
      BY <3>5
    <3>9. /\ IsFiniteSet(Gathered(U, T))
          /\ Cardinality(Gathered(U, T)) = 2 * f[x] + Cardinality(Gathered(U, V)) - 0
      BY <3>3, <3>6, <3>7, <3>8, FS_Union, FS_EmptySet
    <3>10. F[V] \in Nat /\ Cardinality(Gathered(U, V)) = 2 * F[V]
      BY <3>3
    <3>11. F[T] \in Nat /\ 2 * f[x] + 2 * F[V] - 0 = 2 * F[T]
      BY <3>4, <3>8, <3>10
    <3>12. Cardinality(Gathered(U, T)) = 2 * F[T]
      BY <3>9, <3>10, <3>11
    <3> QED
      BY <2>3, <3>9, <3>11, <3>12
  <2>5. CASE T = {}
    <3>1. Gathered(U, {}) = {}
      BY DEF Gathered
    <3>2. F[T] = 0
      BY <1>1, <2>3, <2>5
    <3>3. Gathered(U, T) = {} /\ IsFiniteSet({}) /\ Cardinality({}) = 0
      BY <2>5, <3>1, FS_EmptySet
    <3>4. Right(T)
      BY <3>2, <3>3
    <3> QED
      BY <2>3, <3>4
  <2> QED
    BY <2>4, <2>5
<1>3. Right(S)
  BY <1>2
<1> QED
  BY <1>3 DEF F
-----------------------------------------------------------------------------
(* Counting up to n by sets.                                               *)
LEMMA StepByStep ==
  ASSUME NEW n \in Nat, NEW Good, 0 \in Good, \A i \in 1..n : i - 1 \in Good => i \in Good
  PROVE  \A i \in 0..n : i \in Good
<1> DEFINE Bad == {i \in 0..n : i \notin Good}
<1>1. Bad \subseteq Nat
  OBVIOUS
<1>2. \A i \in Bad : i # 0 /\ i \in 0..n /\ i \notin Good
  OBVIOUS
<1>3. \A i \in 0..n : i \notin Bad => i \in Good
  OBVIOUS
<1> HIDE DEF Bad
<1> SUFFICES ASSUME Bad # {} PROVE FALSE
  BY <1>3
<1>4. PICK m \in Bad : \A k \in Bad : ~(<<k, m>> \in OpToRel(<, Nat))
  BY <1>1, NatLessThanWellFounded, WFMin
<1>5. m \in Nat /\ \A k \in Bad : ~(k < m)
  BY <1>1, <1>4, Zenon DEF OpToRel
<1>6. m \in 1..n /\ m - 1 \in 0..n /\ m - 1 < m
  BY <1>2, <1>5
<1>7. m - 1 \in Good
  BY <1>3, <1>5, <1>6
<1> QED
  BY <1>2, <1>6, <1>7

-----------------------------------------------------------------------------
(* Places in ascending order. *)

(* What grows from place to place is at or after every place.              *)
LEMMA GrowingIsAhead ==
  ASSUME NEW k \in Nat, NEW s \in [1..k -> 1..k], \A c, d \in 1..k : c < d => s[c] < s[d]
  PROVE  \A c \in 1..k : c <= s[c]
<1> DEFINE Good == {i \in 0..k : i = 0 \/ i <= s[i]}
<1>1. 0 \in Good
  OBVIOUS
<1>2. ASSUME NEW i \in 1..k, i - 1 \in Good PROVE i \in Good
  <2>1. CASE i = 1
    BY <2>1
  <2>2. CASE i # 1
    <3>1. i - 1 \in 1..k /\ i - 1 <= s[i - 1]
      BY <1>2, <2>2
    <3>2. s[i - 1] < s[i] /\ s[i] \in Int /\ s[i - 1] \in Int
      BY <3>1
    <3> QED
      BY <3>1, <3>2
  <2> QED
    BY <2>1, <2>2
<1>3. \A i \in 0..k : i \in Good
  <2> HIDE DEF Good
  <2> QED
    BY <1>1, <1>2, StepByStep
<1> QED
  BY <1>3

(* Numbers are in a strict total order, and Ascending lists them in it.    *)
LEMMA NumbersAscend ==
  ASSUME NEW S, IsFiniteSet(S), S \subseteq Int, NEW B, B = [x \in S |-> {y \in S : y < x}],
         NEW p, p = Ascending(S)
  PROVE  Precedes(S, B) /\ Lists(S, B, p)
<1>1. \A x, y \in S : y \in B[x] <=> y < x
  OBVIOUS
<1>2. \A x \in S : x \in Int /\ B[x] \in SUBSET S
  OBVIOUS
<1>3. \A x \in S : x \notin B[x]
  BY <1>1, <1>2
<1>4. ASSUME NEW x \in S, NEW y \in S, y \in B[x], NEW z \in B[y] PROVE z \in B[x]
  <2>1. z \in S /\ z < y /\ y < x
    BY <1>1, <1>2, <1>4
  <2>2. z < x
    BY <1>2, <2>1
  <2> QED
    BY <1>1, <2>1, <2>2
<1>5. \A x, y \in S : x = y \/ x \in B[y] \/ y \in B[x]
  BY <1>1, <1>2
<1>6. Precedes(S, B)
  BY <1>2, <1>3, <1>4, <1>5 DEF Precedes
<1>7. Lists(S, B, p)
  BY DEF Lists, Ascending, InOrder
<1> QED
  BY <1>6, <1>7

(* They are all there, the smaller first.                                  *)
Ascends(S, p) ==
  /\ Cardinality(S) \in Nat /\ DOMAIN p = 1..Cardinality(S)
  /\ \A i \in 1..Cardinality(S) : p[i] \in S
  /\ \A x \in S : \E i \in 1..Cardinality(S) : p[i] = x
  /\ \A i, j \in 1..Cardinality(S) : i < j <=> p[i] < p[j]
  /\ \A i, j \in 1..Cardinality(S) : p[i] = p[j] => i = j

(* Ascending is such a list.                                               *)
LEMMA AscendingGives ==
  ASSUME NEW S, IsFiniteSet(S), S \subseteq Int, NEW p, p = Ascending(S)
  PROVE  Ascends(S, p)
<1>1. PICK B : B = [x \in S |-> {y \in S : y < x}]
  OBVIOUS
<1>2. Precedes(S, B) /\ Lists(S, B, p)
  BY <1>1, NumbersAscend
<1>3. /\ Cardinality(S) \in Nat /\ DOMAIN p = 1..Cardinality(S)
      /\ \A i \in 1..Cardinality(S) : p[i] \in S
      /\ \A x \in S : \E i \in 1..Cardinality(S) : p[i] = x
      /\ \A i, j \in 1..Cardinality(S) : i < j <=> p[i] \in B[p[j]]
      /\ \A i, j \in 1..Cardinality(S) : p[i] = p[j] => i = j
  BY <1>2, ListIsInOrder
<1>4. \A i, j \in 1..Cardinality(S) : p[i] \in B[p[j]] <=> p[i] < p[j]
  BY <1>1, <1>3
<1> QED
  BY <1>3, <1>4 DEF Ascends

(* There is one such list.                                                 *)
LEMMA OneListAscends ==
  ASSUME NEW S, IsFiniteSet(S), S \subseteq Int, NEW p, Ascends(S, p), NEW q, Ascends(S, q)
  PROVE  \A i \in 1..Cardinality(S) : p[i] = q[i]
<1> DEFINE n == Cardinality(S)
           Good == {i \in 0..n : \A j \in 1..i : p[j] = q[j]}
<1>1. n \in Nat
  BY DEF Ascends
<1>2. 0 \in Good
  BY <1>1
<1>3. ASSUME NEW i \in 1..n, i - 1 \in Good PROVE i \in Good
  <2>1. \A j \in 1..(i - 1) : p[j] = q[j]
    BY <1>3
  <2>2. p[i] \in S /\ q[i] \in S /\ p[i] \in Int /\ q[i] \in Int
    BY DEF Ascends
  <2>3. ~(p[i] < q[i])
    <3> SUFFICES ASSUME p[i] < q[i] PROVE FALSE
      OBVIOUS
    <3>1. PICK j \in 1..n : q[j] = p[i]
      BY <2>2 DEF Ascends
    <3>2. j < i
      BY <3>1, <1>1 DEF Ascends
    <3>3. j \in 1..(i - 1)
      BY <3>1, <3>2, <1>1
    <3>4. p[j] = p[i]
      BY <2>1, <3>1, <3>3
    <3> QED
      BY <3>2, <3>4 DEF Ascends
  <2>4. ~(q[i] < p[i])
    <3> SUFFICES ASSUME q[i] < p[i] PROVE FALSE
      OBVIOUS
    <3>1. PICK j \in 1..n : p[j] = q[i]
      BY <2>2 DEF Ascends
    <3>2. j < i
      BY <3>1, <1>1 DEF Ascends
    <3>3. j \in 1..(i - 1)
      BY <3>1, <3>2, <1>1
    <3>4. q[j] = q[i]
      BY <2>1, <3>1, <3>3
    <3> QED
      BY <3>2, <3>4 DEF Ascends
  <2>5. p[i] = q[i]
    BY <2>2, <2>3, <2>4
  <2>6. \A j \in 1..i : j = i \/ j \in 1..(i - 1)
    BY <1>1
  <2> QED
    BY <2>1, <2>5, <2>6, <1>1
<1>4. \A i \in 0..n : i \in Good
  <2> HIDE DEF Good
  <2> QED
    BY <1>1, <1>2, <1>3, StepByStep
<1> QED
  BY <1>1, <1>4

(* Such a list is Ascending.                                               *)
LEMMA AscendingIs ==
  ASSUME NEW S, IsFiniteSet(S), S \subseteq Int, NEW q, Ascends(S, q), q = [i \in DOMAIN q |-> q[i]]
  PROVE  Ascending(S) = q
<1>1. PICK p : p = Ascending(S)
  OBVIOUS
<1>2. Ascends(S, p)
  BY <1>1, AscendingGives
<1>3. p = [i \in DOMAIN p |-> p[i]]
  <2> DEFINE e(i) == CHOOSE x \in S : Cardinality({y \in S : y < x}) = i - 1
  <2>1. p = [i \in 1..Cardinality(S) |-> e(i)]
    BY <1>1, Zenon DEF Ascending, InOrder
  <2> HIDE DEF e
  <2> QED
    BY <2>1
<1>4. DOMAIN p = 1..Cardinality(S) /\ DOMAIN q = 1..Cardinality(S)
  BY <1>2 DEF Ascends
<1>5. \A i \in 1..Cardinality(S) : p[i] = q[i]
  BY <1>2, OneListAscends
<1> QED
  BY <1>1, <1>3, <1>4, <1>5

(* One more that is greater comes last.                                    *)
LEMMA OneMoreAscends ==
  ASSUME NEW S, IsFiniteSet(S), S \subseteq Int, NEW m \in Int, \A x \in S : x < m,
         NEW T, T = S \union {m}, NEW p, p = Ascending(S)
  PROVE  /\ Cardinality(S) \in Nat /\ Cardinality(T) = Cardinality(S) + 1
         /\ Ascending(T) = [i \in 1..(Cardinality(S) + 1) |-> IF i <= Cardinality(S) THEN p[i] ELSE m]
<1> DEFINE n == Cardinality(S)
           q == [i \in 1..(n + 1) |-> IF i <= n THEN p[i] ELSE m]
<1>1. m \notin S
  OBVIOUS
<1>2. IsFiniteSet(T) /\ T \subseteq Int /\ Cardinality(T) = n + 1
  BY <1>1, FS_AddElement
<1>3. Ascends(S, p)
  BY AscendingGives
<1>4. n \in Nat /\ \A i \in 1..n : p[i] \in S /\ p[i] < m
  BY <1>3 DEF Ascends
<1>5. DOMAIN q = 1..(n + 1) /\ q = [i \in DOMAIN q |-> q[i]]
  OBVIOUS
<1>7. q[n + 1] = m /\ \A i \in 1..n : q[i] = p[i]
  BY <1>4
<1>6. \A i \in 1..(n + 1) : (i \in 1..n /\ q[i] = p[i]) \/ (i = n + 1 /\ q[i] = m)
  <2> SUFFICES ASSUME NEW i \in 1..(n + 1)
               PROVE  (i \in 1..n /\ q[i] = p[i]) \/ (i = n + 1 /\ q[i] = m)
    OBVIOUS
  <2>1. i \in 1..n \/ i = n + 1
    BY <1>4
  <2> HIDE DEF q
  <2>2. CASE i \in 1..n
    BY <1>7, <2>2
  <2>3. CASE i = n + 1
    BY <1>7, <2>3
  <2> QED
    BY <2>1, <2>2, <2>3
<1> HIDE DEF q
<1>8. \A i \in 1..(n + 1) : q[i] \in T
  BY <1>4, <1>6
<1>9. \A x \in T : \E i \in 1..(n + 1) : q[i] = x
  <2> SUFFICES ASSUME NEW x \in T PROVE \E i \in 1..(n + 1) : q[i] = x
    OBVIOUS
  <2>1. CASE x = m
    BY <2>1, <1>4, <1>7
  <2>2. CASE x \in S
    <3>1. PICK i \in 1..n : p[i] = x
      BY <2>2, <1>3 DEF Ascends
    <3>2. i \in 1..(n + 1)
      BY <1>4
    <3> QED
      BY <3>1, <3>2, <1>7
  <2> QED
    BY <2>1, <2>2
<1>10. \A i, j \in 1..(n + 1) : i < j => q[i] < q[j]
  <2> SUFFICES ASSUME NEW i \in 1..(n + 1), NEW j \in 1..(n + 1), i < j PROVE q[i] < q[j]
    OBVIOUS
  <2>1. i \in 1..n /\ q[i] = p[i]
    BY <1>4, <1>6
  <2>2. CASE j = n + 1
    BY <2>1, <2>2, <1>4, <1>7
  <2>3. CASE j \in 1..n
    BY <2>1, <2>3, <1>3, <1>7 DEF Ascends
  <2> QED
    BY <2>2, <2>3, <1>6
<1>11. \A i \in 1..(n + 1) : q[i] \in Int
  BY <1>2, <1>8
<1>12. \A i, j \in 1..(n + 1) : i < j <=> q[i] < q[j]
  BY <1>10, <1>11, <1>4
<1>13. \A i, j \in 1..(n + 1) : q[i] = q[j] => i = j
  BY <1>10, <1>11, <1>4
<1>14. Ascends(T, q)
  <2>1. n + 1 \in Nat
    BY <1>4
  <2> HIDE DEF n
  <2> QED
    BY <1>2, <1>5, <1>8, <1>9, <1>12, <1>13, <2>1, Zenon DEF Ascends
<1>15. Ascending(T) = q
  BY <1>2, <1>5, <1>14, AscendingIs
<1> QED
  BY <1>2, <1>4, <1>15 DEF q

(* Places among places.                                                    *)
PlacesAt(p, J) == {p[j] : j \in J}

(* R are the places of p at J, and listing them is listing J.              *)
Picks(J, p, q, R) ==
  /\ IsFiniteSet(J) /\ IsFiniteSet(R) /\ R \subseteq Int
  /\ Cardinality(R) = Cardinality(J) /\ Cardinality(J) \in Nat
  /\ Ascending(R) = [n \in 1..Cardinality(J) |-> p[q[n]]]

(* Picking places of a list in ascending order picks numbers in that       *)
(* order.                                                                  *)
LEMMA PlacesOfPlaces ==
  ASSUME NEW S, IsFiniteSet(S), S \subseteq Int, NEW p, p = Ascending(S),
         NEW J \in SUBSET (1..Cardinality(S)), NEW q, q = Ascending(J),
         NEW R, R = PlacesAt(p, J)
  PROVE  Picks(J, p, q, R)
<1> USE DEF PlacesAt
<1>1. Ascends(S, p)
  BY AscendingGives
<1>2. J \subseteq Int /\ IsFiniteSet(J)
  <2>1. Cardinality(S) \in Nat /\ 1 \in Int /\ Cardinality(S) \in Int
    BY <1>1 DEF Ascends
  <2>2. IsFiniteSet(1..Cardinality(S))
    BY <2>1, FS_Interval
  <2>3. IsFiniteSet(J)
    BY <2>2, FS_Subset
  <2> QED
    BY <2>3
<1>3. Ascends(J, q)
  BY <1>2, AscendingGives
<1> DEFINE k == Cardinality(J)
           f == [j \in J |-> p[j]]
           r == [n \in 1..k |-> p[q[n]]]
<1>4. \A j \in J : p[j] \in S /\ p[j] \in Int
  BY <1>1 DEF Ascends
<1>5. R \subseteq Int
  BY <1>4
<1>6. f \in Bijection(J, R)
  <2>1. f \in [J -> R]
    OBVIOUS
  <2>2. \A i, j \in J : f[i] = f[j] => i = j
    BY <1>1 DEF Ascends
  <2>3. \A x \in R : \E j \in J : f[j] = x
    OBVIOUS
  <2> QED
    BY <2>1, <2>2, <2>3 DEF Bijection, Injection, Surjection, IsInjective
<1>7. IsFiniteSet(R) /\ Cardinality(R) = k
  BY <1>2, <1>6, FS_Bijection DEF ExistsBijection
<1>8. k \in Nat /\ \A n \in 1..k : q[n] \in J
  BY <1>3 DEF Ascends
<1>9. DOMAIN r = 1..k /\ r = [i \in DOMAIN r |-> r[i]] /\ \A n \in 1..k : r[n] = p[q[n]]
  OBVIOUS
<1> HIDE DEF r, f
<1>10. \A n \in 1..k : r[n] \in R
  BY <1>8, <1>9
<1>11. \A x \in R : \E n \in 1..k : r[n] = x
  <2> SUFFICES ASSUME NEW j \in J PROVE \E n \in 1..k : r[n] = p[j]
    OBVIOUS
  <2>1. PICK n \in 1..k : q[n] = j
    BY <1>3 DEF Ascends
  <2> QED
    BY <2>1, <1>9
<1>12. \A i, j \in 1..k : i < j <=> r[i] < r[j]
  BY <1>1, <1>3, <1>8, <1>9 DEF Ascends
<1>13. \A i, j \in 1..k : r[i] = r[j] => i = j
  BY <1>1, <1>3, <1>8, <1>9 DEF Ascends
<1>14. Ascends(R, r)
  BY <1>7, <1>8, <1>9, <1>10, <1>11, <1>12, <1>13 DEF Ascends
<1>15. Ascending(R) = r
  BY <1>5, <1>7, <1>9, <1>14, AscendingIs
<1> QED
  BY <1>2, <1>5, <1>7, <1>8, <1>15 DEF r, Picks

(* The places of a part without gaps.                                      *)
Part(a, n) == (a + 1)..(a + n)

(* They count up from the first.                                           *)
LEMMA PlacesOfPart ==
  ASSUME NEW a \in Nat, NEW n \in Nat, NEW S, S = Part(a, n)
  PROVE  Ascending(S) = [i \in 1..n |-> a + i]
<1> USE DEF Part
<1>1. a + 1 \in Int /\ a + n \in Int
  OBVIOUS
<1>2. IsFiniteSet(S) /\ Cardinality(S) = n
  BY <1>1, FS_Interval
<1> DEFINE q == [i \in 1..n |-> a + i]
<1>3. \A x \in S : x - a \in 1..n /\ q[x - a] = x
  OBVIOUS
<1>4. Ascends(S, q)
  <2>1. \A i \in 1..n : q[i] = a + i /\ q[i] \in S
    OBVIOUS
  <2>2. DOMAIN q = 1..n
    OBVIOUS
  <2> HIDE DEF q
  <2>3. \A i, j \in 1..n : i < j <=> q[i] < q[j]
    BY <2>1
  <2>4. \A i, j \in 1..n : q[i] = q[j] => i = j
    BY <2>1
  <2>5. \A x \in S : \E i \in 1..n : q[i] = x
    BY <1>3
  <2> QED
    BY <1>2, <2>1, <2>2, <2>3, <2>4, <2>5 DEF Ascends
<1>5. q = [i \in DOMAIN q |-> q[i]]
  OBVIOUS
<1> QED
  BY <1>2, <1>4, <1>5, AscendingIs

(* Nothing stands at no place.                                             *)
LEMMA NoPlaces == Ascending({}) = <<>> /\ \A seq : AtPlaces(seq, {}) = <<>>
<1>1. Cardinality({}) = 0
  BY FS_EmptySet
<1>2. Ascending({}) = <<>>
  BY <1>1 DEF Ascending, InOrder
<1> QED
  BY <1>2 DEF AtPlaces

(* What stands at one more place is added at the end.                      *)
LEMMA OneMorePlace ==
  ASSUME NEW seq, NEW S, IsFiniteSet(S), S \subseteq Int, NEW m \in Int, \A x \in S : x < m,
         NEW D, \A x \in S : seq[x] \in D, seq[m] \in D
  PROVE  /\ AtPlaces(seq, S) \in Seq(D) /\ Len(AtPlaces(seq, S)) = Cardinality(S)
         /\ AtPlaces(seq, S \union {m}) = Append(AtPlaces(seq, S), seq[m])
<1>1. PICK p : p = Ascending(S)
  OBVIOUS
<1>2. PICK q : q = Ascending(S \union {m})
  OBVIOUS
<1>3. Ascends(S, p)
  BY <1>1, AscendingGives
<1>4. /\ Cardinality(S) \in Nat
      /\ q = [i \in 1..(Cardinality(S) + 1) |-> IF i <= Cardinality(S) THEN p[i] ELSE m]
  BY <1>1, <1>2, OneMoreAscends
<1>5. PICK s : s = AtPlaces(seq, S)
  OBVIOUS
<1>6. PICK t : t = AtPlaces(seq, S \union {m})
  OBVIOUS
<1>7. s = [i \in 1..Cardinality(S) |-> seq[p[i]]]
  BY <1>1, <1>3, <1>5 DEF AtPlaces, Ascends
<1>8. t = [i \in 1..(Cardinality(S) + 1) |-> seq[q[i]]]
  BY <1>2, <1>4, <1>6 DEF AtPlaces
<1>9. \A i \in 1..Cardinality(S) : p[i] \in S
  BY <1>3 DEF Ascends
<1>10. s \in Seq(D) /\ Len(s) = Cardinality(S)
  <2>1. s \in [1..Cardinality(S) -> D]
    BY <1>7, <1>9
  <2> QED
    BY <1>4, <2>1
<1>11. t = [i \in 1..(Cardinality(S) + 1) |-> IF i <= Cardinality(S) THEN s[i] ELSE seq[m]]
  BY <1>4, <1>7, <1>8
<1>12. t = Append(s, seq[m])
  BY <1>4, <1>10, <1>11
<1> QED
  BY <1>5, <1>6, <1>10, <1>12

(* What stands at some places is a sequence, as long as there are places.  *)
LEMMA PlacesAreSeq ==
  ASSUME NEW seq, NEW S, IsFiniteSet(S), S \subseteq Int, NEW D, \A x \in S : seq[x] \in D,
         NEW p, p = Ascending(S)
  PROVE  /\ AtPlaces(seq, S) \in Seq(D) /\ Len(AtPlaces(seq, S)) = Cardinality(S)
         /\ AtPlaces(seq, S) = [i \in 1..Cardinality(S) |-> seq[p[i]]]
<1>1. Ascends(S, p)
  BY AscendingGives
<1>2. PICK s : s = AtPlaces(seq, S)
  OBVIOUS
<1>3. s = [i \in 1..Cardinality(S) |-> seq[p[i]]]
  BY <1>1, <1>2 DEF AtPlaces, Ascends
<1>4. Cardinality(S) \in Nat /\ \A i \in 1..Cardinality(S) : p[i] \in S
  BY <1>1 DEF Ascends
<1>5. s \in Seq(D) /\ Len(s) = Cardinality(S)
  <2>1. s \in [1..Cardinality(S) -> D]
    BY <1>3, <1>4
  <2> QED
    BY <1>4, <2>1
<1> QED
  BY <1>2, <1>3, <1>5
-----------------------------------------------------------------------------
(* A sequence of sequences, end to end. *)

(* g[i] is what the first i sequences are together.                        *)
Flattening(ss, n, g) == g = [i \in 1..n |-> IF i = 1 THEN ss[i] ELSE g[i - 1] \o ss[i]]

(* There is such a function, built one sequence at a time.                 *)
LEMMA FlatteningsExist ==
  ASSUME NEW ss, NEW n \in Nat
  PROVE  \E g : Flattening(ss, n, g)
<1> DEFINE Good == {m \in 0..n : \E g : Flattening(ss, m, g)}
<1>1. 0 \in Good
  <2> DEFINE g == [i \in 1..0 |-> ss[i]]
  <2>1. Flattening(ss, 0, g)
    BY DEF Flattening
  <2> QED
    BY <2>1
<1>2. ASSUME NEW m \in 1..n, m - 1 \in Good PROVE m \in Good
  <2>1. PICK h : Flattening(ss, m - 1, h)
    BY <1>2
  <2>2. CASE m = 1
    <3> DEFINE g == [i \in 1..1 |-> ss[1]]
    <3>1. Flattening(ss, 1, g)
      BY DEF Flattening
    <3> HIDE DEF g
    <3> QED
      BY <2>2, <3>1
  <2>3. CASE m # 1
    <3>0. PICK last : last = h[m - 1] \o ss[m]
      OBVIOUS
    <3> DEFINE g == [i \in 1..m |-> IF i = m THEN last ELSE h[i]]
    <3>1. \A i \in 1..m : i = m \/ i \in 1..(m - 1)
      OBVIOUS
    <3>2. \A i \in 1..(m - 1) : g[i] = h[i]
      OBVIOUS
    <3>3. g[m] = last /\ m - 1 \in 1..(m - 1)
      BY <2>3
    <3>4. \A i \in 1..(m - 1) : h[i] = IF i = 1 THEN ss[i] ELSE h[i - 1] \o ss[i]
      BY <2>1 DEF Flattening
    <3>5. DOMAIN g = 1..m /\ g = [i \in DOMAIN g |-> g[i]]
      OBVIOUS
    <3> HIDE DEF g
    <3>6. ASSUME NEW i \in 1..m PROVE g[i] = IF i = 1 THEN ss[i] ELSE g[i - 1] \o ss[i]
      <4>1. CASE i = m
        BY <2>3, <3>0, <3>2, <3>3, <4>1
      <4>2. CASE i \in 1..(m - 1)
        <5>1. i = 1 \/ i - 1 \in 1..(m - 1)
          BY <4>2
        <5> QED
          BY <3>2, <3>4, <4>2, <5>1
      <4> QED
        BY <3>1, <4>1, <4>2
    <3>7. Flattening(ss, m, g)
      BY <3>5, <3>6 DEF Flattening
    <3> QED
      BY <3>7
  <2> QED
    BY <2>2, <2>3
<1>3. \A i \in 0..n : i \in Good
  <2> HIDE DEF Good
  <2> QED
    BY <1>1, <1>2, StepByStep
<1> QED
  BY <1>3

(* FlattenSeq is the last value of one, and every value is a sequence.     *)
LEMMA FlattenGives ==
  ASSUME NEW T, NEW ss \in Seq(Seq(T))
  PROVE  \E g : /\ Flattening(ss, Len(ss), g)
                /\ \A i \in 1..Len(ss) : g[i] \in Seq(T)
                /\ FlattenSeq(ss) = IF ss = <<>> THEN <<>> ELSE g[Len(ss)]
<1> DEFINE n == Len(ss)
           g == CHOOSE f : Flattening(ss, n, f)
<1>1. n \in Nat /\ DOMAIN ss = 1..n /\ (n = 0 <=> ss = <<>>) /\ \A i \in 1..n : ss[i] \in Seq(T)
  OBVIOUS
<1>2. Flattening(ss, n, g)
  BY <1>1, FlatteningsExist
<1>3. FlattenSeq(ss) = IF n = 0 THEN ss ELSE g[n]
  BY Zenon DEF FlattenSeq, Flattening
<1> HIDE DEF g, n
<1> DEFINE Good == {i \in 0..n : i # 0 => g[i] \in Seq(T)}
<1>4. 0 \in Good
  BY <1>1
<1>5. ASSUME NEW i \in 1..n, i - 1 \in Good PROVE i \in Good
  <2>1. g[i] = IF i = 1 THEN ss[i] ELSE g[i - 1] \o ss[i]
    BY <1>2 DEF Flattening
  <2>2. g[i] \in Seq(T)
    BY <1>1, <1>5, <2>1
  <2> QED
    BY <1>1, <2>2
<1>6. \A i \in 0..n : i \in Good
  <2> HIDE DEF Good
  <2> QED
    BY <1>1, <1>4, <1>5, StepByStep
<1>7. \A i \in 1..n : g[i] \in Seq(T)
  BY <1>1, <1>6
<1> QED
  BY <1>1, <1>2, <1>3, <1>7 DEF n

(* Of no sequence, and that it is a sequence.                              *)
LEMMA FlattenOfNone == FlattenSeq(<<>>) = <<>>
  BY DEF FlattenSeq

(* Sequences put together are a sequence.                                 *)
LEMMA FlattenIsSeq ==
  ASSUME NEW T, NEW ss \in Seq(Seq(T))
  PROVE  FlattenSeq(ss) \in Seq(T)
<1>1. PICK g : /\ \A i \in 1..Len(ss) : g[i] \in Seq(T)
               /\ FlattenSeq(ss) = IF ss = <<>> THEN <<>> ELSE g[Len(ss)]
  BY FlattenGives
<1>2. ss # <<>> => Len(ss) \in 1..Len(ss)
  OBVIOUS
<1> QED
  BY <1>1, <1>2

(* Of one more sequence.                                                   *)
LEMMA FlattenOfAppend ==
  ASSUME NEW T, NEW ss \in Seq(Seq(T)), NEW t \in Seq(T)
  PROVE  FlattenSeq(Append(ss, t)) = FlattenSeq(ss) \o t
<1> DEFINE n == Len(ss)
<1>1. PICK uu : uu = Append(ss, t)
  OBVIOUS
<1>2. /\ uu \in Seq(Seq(T)) /\ n \in Nat /\ Len(uu) = n + 1 /\ uu # <<>> /\ uu[n + 1] = t
      /\ \A i \in 1..n : uu[i] = ss[i]
      /\ ss = <<>> <=> n = 0
  BY <1>1
<1>3. PICK g : /\ Flattening(ss, n, g)
               /\ \A i \in 1..n : g[i] \in Seq(T)
               /\ FlattenSeq(ss) = IF ss = <<>> THEN <<>> ELSE g[n]
  BY FlattenGives
<1>4. PICK h : /\ Flattening(uu, n + 1, h)
               /\ FlattenSeq(uu) = h[n + 1]
  <2>1. PICK h : /\ Flattening(uu, Len(uu), h)
                 /\ FlattenSeq(uu) = IF uu = <<>> THEN <<>> ELSE h[Len(uu)]
    BY <1>2, FlattenGives
  <2> QED
    BY <1>2, <2>1
<1> HIDE DEF n
<1>5. \A i \in 1..n : g[i] = IF i = 1 THEN ss[i] ELSE g[i - 1] \o ss[i]
  BY <1>3 DEF Flattening
<1>6. \A i \in 1..(n + 1) : h[i] = IF i = 1 THEN uu[i] ELSE h[i - 1] \o uu[i]
  BY <1>4 DEF Flattening
<1> DEFINE Good == {i \in 0..n : i # 0 => g[i] = h[i]}
<1>7. 0 \in Good
  BY <1>2
<1>8. ASSUME NEW i \in 1..n, i - 1 \in Good PROVE i \in Good
  <2>1. i \in 1..(n + 1) /\ i \in 0..n
    BY <1>2
  <2>2. i # 1 => g[i - 1] = h[i - 1]
    BY <1>8, <1>2
  <2>3. g[i] = h[i]
    BY <1>2, <1>5, <1>6, <2>1, <2>2
  <2> QED
    BY <2>1, <2>3
<1>9. \A i \in 0..n : i \in Good
  <2> HIDE DEF Good
  <2> QED
    BY <1>2, <1>7, <1>8, StepByStep
<1>10. n + 1 \in 1..(n + 1)
  BY <1>2
<1>11. CASE n = 0
  <2>1. h[n + 1] = t /\ FlattenSeq(ss) = <<>>
    BY <1>2, <1>3, <1>6, <1>10, <1>11
  <2>2. <<>> \o t = t
    OBVIOUS
  <2> QED
    BY <1>1, <1>4, <2>1, <2>2
<1>12. CASE n # 0
  <2>1. n \in 0..n /\ n + 1 # 1 /\ (n + 1) - 1 = n
    BY <1>2, <1>12
  <2>2. g[n] = h[n]
    BY <1>9, <1>12, <2>1
  <2>3. h[n + 1] = h[n] \o uu[n + 1]
    BY <1>6, <1>10, <2>1
  <2> QED
    BY <1>1, <1>2, <1>3, <1>4, <1>12, <2>2, <2>3
<1> QED
  BY <1>11, <1>12

(* Of one sequence, of none and another, of two.                           *)
LEMMA FlattenOfOne ==
  ASSUME NEW T, NEW t \in Seq(T)
  PROVE  FlattenSeq(<<t>>) = t
<1>1. <<t>> = Append(<<>>, t) /\ <<>> \in Seq(Seq(T)) /\ <<>> \o t = t
  OBVIOUS
<1> QED
  BY <1>1, FlattenOfAppend, FlattenOfNone

(* Two sequences put together are their concatenation.                    *)
LEMMA FlattenOfTwo ==
  ASSUME NEW T, NEW s \in Seq(T), NEW t \in Seq(T)
  PROVE  FlattenSeq(<<s, t>>) = s \o t
<1>1. <<s, t>> = Append(<<s>>, t) /\ <<s>> \in Seq(Seq(T))
  OBVIOUS
<1> QED
  BY <1>1, FlattenOfAppend, FlattenOfOne

(* Putting together is associative, and adding at the end is a part of it. *)
Joined(a, b) == a \o b

(* Joining is associative.                                                *)
LEMMA Regroup ==
  ASSUME NEW S, NEW a \in Seq(S), NEW b \in Seq(S), NEW c \in Seq(S)
  PROVE  Joined(Joined(a, b), c) = Joined(a, Joined(b, c))
<1>1. (a \o b) \o c \in Seq(S) /\ a \o (b \o c) \in Seq(S)
  OBVIOUS
<1>2. Len((a \o b) \o c) = Len(a \o (b \o c))
  OBVIOUS
<1>3. \A i \in 1..Len((a \o b) \o c) : ((a \o b) \o c)[i] = (a \o (b \o c))[i]
  OBVIOUS
<1> QED
  BY <1>1, <1>2, <1>3, SeqEqual DEF Joined

(* An element can be appended before or after joining.                    *)
LEMMA ConcatOfAppend ==
  ASSUME NEW S, NEW s \in Seq(S), NEW t \in Seq(S), NEW e \in S
  PROVE  s \o Append(t, e) = Append(s \o t, e) /\ s \o t \in Seq(S)
<1>1. s \o t \in Seq(S) /\ <<e>> \in Seq(S)
  OBVIOUS
<1>2. Append(t, e) = t \o <<e>> /\ Append(s \o t, e) = (s \o t) \o <<e>>
  BY <1>1, AppendIsConcat
<1>3. (s \o t) \o <<e>> = s \o (t \o <<e>>)
  BY <1>1, ConcatAssociative
<1> QED
  BY <1>1, <1>2, <1>3

(* Of one row of sequences after another.                                  *)
LEMMA FlattenOfConcat ==
  ASSUME NEW T, NEW ss \in Seq(Seq(T)), NEW tt \in Seq(Seq(T))
  PROVE  FlattenSeq(ss \o tt) = FlattenSeq(ss) \o FlattenSeq(tt)
<1> DEFINE n == Len(tt)
           to(i) == SubSeq(tt, 1, i)
           Good == {i \in 0..n : FlattenSeq(ss \o to(i)) = FlattenSeq(ss) \o FlattenSeq(to(i))}
<1>1. n \in Nat /\ FlattenSeq(ss) \in Seq(T)
  BY FlattenIsSeq
<1>2. 0 \in Good
  <2>1. to(0) = <<>> /\ ss \o <<>> = ss /\ FlattenSeq(ss) \o <<>> = FlattenSeq(ss)
    BY <1>1
  <2> HIDE DEF to
  <2>2. 0 \in 0..n
    BY <1>1
  <2> QED
    BY <2>1, <2>2, FlattenOfNone
<1>3. ASSUME NEW i \in 1..n, i - 1 \in Good PROVE i \in Good
  <2>1. /\ i - 1 \in 0..n /\ i \in 0..n /\ tt[i] \in Seq(T)
        /\ to(i - 1) \in Seq(Seq(T)) /\ to(i) = Append(to(i - 1), tt[i])
    BY <1>1
  <2>2. FlattenSeq(ss \o to(i - 1)) = FlattenSeq(ss) \o FlattenSeq(to(i - 1))
    BY <1>3
  <2> HIDE DEF to
  <2>3. ss \o to(i) = Append(ss \o to(i - 1), tt[i]) /\ ss \o to(i - 1) \in Seq(Seq(T))
    <3>1. PICK before : before = to(i - 1)
      OBVIOUS
    <3>2. before \in Seq(Seq(T)) /\ tt[i] \in Seq(T)
      BY <2>1, <3>1
    <3>3. ss \o Append(before, tt[i]) = Append(ss \o before, tt[i]) /\ ss \o before \in Seq(Seq(T))
      BY <3>2, ConcatOfAppend
    <3> QED
      BY <2>1, <3>1, <3>3
  <2>4. FlattenSeq(ss \o to(i)) = FlattenSeq(ss \o to(i - 1)) \o tt[i]
    BY <2>1, <2>3, FlattenOfAppend
  <2>5. FlattenSeq(to(i)) = FlattenSeq(to(i - 1)) \o tt[i]
    BY <2>1, FlattenOfAppend
  <2>6. FlattenSeq(to(i - 1)) \in Seq(T)
    BY <2>1, FlattenIsSeq
  <2>7. (FlattenSeq(ss) \o FlattenSeq(to(i - 1))) \o tt[i]
        = FlattenSeq(ss) \o (FlattenSeq(to(i - 1)) \o tt[i])
    <3>1. PICK all : all = FlattenSeq(ss)
      OBVIOUS
    <3>2. PICK more : more = FlattenSeq(to(i - 1))
      OBVIOUS
    <3>3. PICK last : last = tt[i]
      OBVIOUS
    <3>4. all \in Seq(T) /\ more \in Seq(T) /\ last \in Seq(T)
      BY <1>1, <2>1, <2>6, <3>1, <3>2, <3>3
    <3>5. Joined(Joined(all, more), last) = Joined(all, Joined(more, last))
      BY <3>4, Regroup
    <3> QED
      BY <3>1, <3>2, <3>3, <3>5, Zenon DEF Joined
  <2> QED
    BY <2>1, <2>2, <2>4, <2>5, <2>7
<1>4. \A i \in 0..n : i \in Good
  <2> HIDE DEF Good
  <2> QED
    BY <1>1, <1>2, <1>3, StepByStep
<1>5. n \in 0..n /\ to(n) = tt
  BY <1>1, SubSeqFull
<1> QED
  BY <1>4, <1>5

(* A function on 1..n is a sequence.                                       *)
LEMMA FunctionIsSeq ==
  ASSUME NEW n \in Nat, NEW R, NEW l \in [1..n -> R]
  PROVE  l \in Seq(R) /\ Len(l) = n
  OBVIOUS

(* What a function makes of the elements of a sequence, and of one more.   *)
LEMMA MappedAppend ==
  ASSUME NEW D, NEW R, NEW F \in [D -> R], NEW q \in Seq(D), NEW x \in D,
         NEW l, l = [i \in DOMAIN q |-> F[q[i]]],
         NEW s, s = Append(q, x), NEW m, m = [i \in DOMAIN s |-> F[s[i]]]
  PROVE  l \in Seq(R) /\ Len(l) = Len(q) /\ m = Append(l, F[x])
<1>1. PICK n : n = Len(q)
  OBVIOUS
<1>2. n \in Nat /\ DOMAIN q = 1..n /\ \A i \in 1..n : q[i] \in D
  BY <1>1
<1>3. l \in [1..n -> R] /\ \A i \in 1..n : l[i] = F[q[i]]
  BY <1>2
<1>4. l \in Seq(R) /\ Len(l) = n
  <2>1. l \in [1..n -> R]
    BY <1>3
  <2>2. n \in Nat
    BY <1>2
  <2> QED
    BY <2>1, <2>2, FunctionIsSeq
<1>5. DOMAIN s = 1..(n + 1) /\ \A i \in 1..(n + 1) : s[i] = IF i = n + 1 THEN x ELSE q[i]
  BY <1>1
<1>6. PICK last : last = F[x]
  OBVIOUS
<1>7. last \in R /\ \A i \in 1..(n + 1) : i = n + 1 \/ i \in 1..n
  BY <1>2, <1>6
<1>8. DOMAIN m = 1..(n + 1) /\ m = [i \in 1..(n + 1) |-> m[i]]
      /\ \A i \in 1..(n + 1) : m[i] = IF i = n + 1 THEN last ELSE l[i]
  BY <1>3, <1>5, <1>6, <1>7
<1>9. m \in Seq(R) /\ Len(m) = n + 1
  <2>1. \A i \in 1..(n + 1) : m[i] \in R
    BY <1>3, <1>7, <1>8
  <2>2. m \in [1..(n + 1) -> R]
    BY <1>8, <2>1
  <2>3. n + 1 \in Nat
    BY <1>2
  <2> QED
    BY <2>2, <2>3
<1>10. PICK a : a = Append(l, last)
  OBVIOUS
<1>11. /\ a \in Seq(R) /\ Len(a) = n + 1
       /\ \A i \in 1..(n + 1) : a[i] = IF i = n + 1 THEN last ELSE l[i]
  BY <1>4, <1>7, <1>10
<1>12. m = a
  <2>1. \A i \in 1..(n + 1) : m[i] = a[i]
    BY <1>8, <1>11
  <2> QED
    BY <1>9, <1>11, <2>1, SeqEqual
<1> QED
  BY <1>1, <1>4, <1>6, <1>10, <1>12

Mapped(F, q) == [i \in DOMAIN q |-> F[q[i]]]

(* The same as one fact about F, for proofs that name no sequence of       *)
(* images.                                                                 *)
MapsOneMore(F, R, q, x) ==
  /\ Mapped(F, q) \in Seq(R) /\ Len(Mapped(F, q)) = Len(q)
  /\ Mapped(F, Append(q, x)) = Append(Mapped(F, q), F[x])

(* Mapping a longer sequence maps its last element and what was before.   *)
LEMMA MappedGives ==
  ASSUME NEW D, NEW R, NEW F \in [D -> R], NEW q \in Seq(D), NEW x \in D
  PROVE  MapsOneMore(F, R, q, x)
  BY MappedAppend DEF Mapped, MapsOneMore
=============================================================================
