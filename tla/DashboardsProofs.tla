-------------------------- MODULE DashboardsProofs --------------------------
(***************************************************************************)
(* Proofs about Dashboards for any indicators, readers, reports, operators *)
(* and bounds.                                                             *)
(*                                                                         *)
(* The argument: runs are only appended, so what a SELECT found stays good *)
(* and what was good when the reading began is still there to be found;    *)
(* an incident open throughout is among those counted, whenever the count  *)
(* is made; a run that had failed is still among the failed runs of silver *)
(* when the last of them is selected, and a failed check among those of    *)
(* its version; and the SELECTs of one indicator in a context go by the    *)
(* one version that context named of it.                                   *)
(***************************************************************************)
EXTENDS Dashboards, FiniteSetTheorems, WellFoundedInduction, NaturalsInduction, TLAPS

Subject == Indicators[1]
What == {"latest", "last good", "last run", "last success", "incidents", "failed checks",
         "version", "coverage", "observations", "trends"}
Statements == [what : What, code : Codes, part : 1..4]

-----------------------------------------------------------------------------
(* The constants and the scripts. *)

(* A function of 1..n is a sequence.                                      *)
LEMMA ArrayIsSequence ==
  ASSUME NEW n \in Nat, NEW S, NEW f \in [1..n -> S]
  PROVE  f \in Seq(S) /\ Len(f) = n
OBVIOUS

(* What the assumptions say of the indicators and bounds.                 *)
LEMMA CodesAreGiven ==
  /\ Indicators \in Seq(Codes) /\ Len(Indicators) \in Nat \ {0} /\ Subject \in Codes
  /\ Contracts \in Seq(Codes) /\ Len(Contracts) \in Nat
  /\ \A i \in 1..Len(Indicators) : Indicators[i] \in Codes
  /\ MaxRuns \in Nat /\ MaxTime \in Nat /\ MaxUpdates \in Nat
<1>1. Indicators \in Seq(Codes) /\ Indicators # <<>> /\ Contracts \in Seq(Codes)
  BY DashboardAssumption
<1>2. Len(Indicators) \in Nat \ {0} /\ Len(Contracts) \in Nat
  BY <1>1
<1> QED
  BY <1>1, <1>2, DashboardAssumption DEF Subject

(* There are finitely many incidents.                                     *)
LEMMA RowsAreFinite == IsFiniteSet(Rows)
<1> DEFINE D == 1..Len(Contracts)
           f == [i \in D |-> Contracts[i]]
<1>1. IsFiniteSet(D)
  BY CodesAreGiven, FS_Interval
<1>2. Codes = {f[i] : i \in D}
  BY CodesAreGiven DEF Codes, ToSet
<1>3. f \in Surjection(D, Codes)
  BY <1>2 DEF Surjection
<1>4. IsFiniteSet(Codes)
  BY <1>1, <1>3, FS_Surjection
<1>5. IsFiniteSet(1..MaxRuns)
  BY CodesAreGiven, FS_Interval
<1> QED
  BY <1>4, <1>5, FS_Product DEF Rows

(* How many incidents are open is a number, 0 if and only if none is.      *)
LEMMA OpenAreCounted ==
  ASSUME NEW c \in Codes
  PROVE  /\ Cardinality(Open(c)) \in Nat
         /\ Cardinality(Open(c)) > 0 <=> Open(c) # {}
<1>1. IsFiniteSet(Open(c))
  BY RowsAreFinite, FS_Subset DEF Open
<1> QED
  BY <1>1, FS_CardinalityType, FS_EmptySet

(* What a statement is made of.                                           *)
LEMMA FieldsOfStatement ==
  ASSUME NEW s, NEW name, NEW c, NEW p, s = Statement(name, c, p)
  PROVE  s.what = name /\ s.code = c /\ s.part = p
BY DEF Statement

(* A statement is what it is made of.                                     *)
LEMMA StatementOfFields ==
  ASSUME NEW s \in Statements
  PROVE  /\ s = Statement(s.what, s.code, s.part)
         /\ s.what \in What /\ s.code \in Codes /\ s.part \in 1..4
BY DEF Statements, Statement

(* The statement that selects the version that s goes by, or names. *)
VersionOf(s) == Statement("version", s.code, s.part)

(* Every version a statement goes by was selected before it, *)
GoesBy == {"observations", "trends", "coverage"}
NamesVersionFirst(script) ==
  \A i \in 1..Len(script) : script[i].what \in GoesBy =>
    \E k \in 1..(i - 1) : script[k] = VersionOf(script[i])

(* and once, in its context. *)
NamesVersionOnce(script) ==
  \A i, k \in 1..Len(script) :
    script[i].what = "version" /\ script[i] = script[k] => i = k

(* A script of the parts P. *)
Fine(script, P) ==
  /\ script \in Seq(Statements) /\ \A i \in 1..Len(script) : script[i].part \in P
  /\ NamesVersionFirst(script) /\ NamesVersionOnce(script)

(* What a report computes is of versions with their observations. *)
ReadsContexts(s) ==
  \A i \in 1..Len(s) :
    /\ s[i].what \in {"version", "observations", "trends"}
    /\ \E k \in 1..Len(s) : s[k] = Statement("observations", s[i].code, s[i].part)

(* Codes that a context is loaded of. *)
Requested(codes) ==
  /\ codes \in Seq(Codes)
  /\ \A i, j \in 1..Len(codes) : codes[i] = codes[j] => i = j

(* Those of the request and those of all contracts are.                   *)
LEMMA CodesAreRequested == Requested(Indicators) /\ Requested(Contracts)
BY CodesAreGiven, IndicatorsDiffer DEF Requested

(* A context selects each code's version and then its observations.       *)
LEMMA ContextShape ==
  ASSUME NEW part \in 1..4, NEW codes, Requested(codes)
  PROVE  /\ Fine(Context(part, codes), {part}) /\ ReadsContexts(Context(part, codes))
         /\ Len(Context(part, codes)) = 2 * Len(codes)
         /\ \A j \in 1..Len(codes) :
              Context(part, codes)[2 * j - 1] = Statement("version", codes[j], part)
<1> DEFINE L == Len(codes)
           s == Context(part, codes)
<1>0. L \in Nat /\ \A i \in 1..L : codes[i] \in Codes
  BY DEF Requested
<1> HIDE DEF L
<1>1. s = [k \in 1..(2 * L) |->
        Statement(IF k % 2 = 1 THEN "version" ELSE "observations", codes[(k + 1) \div 2], part)]
  BY DEF Context, L
<1> HIDE DEF s
<1>2. \A k \in 1..(2 * L) : (k + 1) \div 2 \in 1..L
  BY <1>0
<1>3. \A k \in 1..(2 * L) : s[k] \in Statements
  BY <1>0, <1>1, <1>2 DEF Statements, What, Statement
<1>4. s \in [1..(2 * L) -> Statements] /\ 2 * L \in Nat
  <2>1. s = [k \in 1..(2 * L) |-> s[k]]
    BY <1>1
  <2> QED
    BY <1>0, <1>3, <2>1
<1>5. s \in Seq(Statements) /\ Len(s) = 2 * L
  BY <1>4, ArrayIsSequence
<1>6. \A j \in 1..L : /\ 2 * j - 1 \in 1..(2 * L) /\ s[2 * j - 1] = Statement("version", codes[j], part)
                      /\ 2 * j \in 1..(2 * L) /\ s[2 * j] = Statement("observations", codes[j], part)
  <2> TAKE j \in 1..L
  <2>1. 2 * j - 1 \in 1..(2 * L) /\ (2 * j - 1) % 2 = 1 /\ ((2 * j - 1) + 1) \div 2 = j
    BY <1>0
  <2>2. 2 * j \in 1..(2 * L) /\ (2 * j) % 2 # 1 /\ (2 * j + 1) \div 2 = j
    BY <1>0
  <2> QED
    BY <1>1, <2>1, <2>2
<1>7. ASSUME NEW k \in 1..(2 * L)
      PROVE  /\ s[k].part = part
             /\ \E j \in 1..L : \/ k = 2 * j - 1 /\ s[k] = Statement("version", codes[j], part)
                                \/ k = 2 * j /\ s[k] = Statement("observations", codes[j], part)
  <2> DEFINE j == (k + 1) \div 2
  <2>1. j \in 1..L /\ (k = 2 * j - 1 \/ k = 2 * j)
    BY <1>0
  <2> HIDE DEF j
  <2>2. \/ k = 2 * j - 1 /\ s[k] = Statement("version", codes[j], part)
        \/ k = 2 * j /\ s[k] = Statement("observations", codes[j], part)
    BY <1>6, <2>1
  <2>3. s[k].part = part
    BY <2>2, FieldsOfStatement
  <2> QED
    BY <2>1, <2>2, <2>3
<1>8. NamesVersionFirst(s)
  <2> SUFFICES ASSUME NEW i \in 1..(2 * L), s[i].what \in GoesBy
               PROVE  \E k \in 1..(i - 1) : s[k] = VersionOf(s[i])
    BY <1>5 DEF NamesVersionFirst
  <2>1. PICK j \in 1..L : \/ i = 2 * j - 1 /\ s[i] = Statement("version", codes[j], part)
                          \/ i = 2 * j /\ s[i] = Statement("observations", codes[j], part)
    BY <1>7
  <2>2. i = 2 * j /\ s[i] = Statement("observations", codes[j], part)
    BY <2>1, FieldsOfStatement DEF GoesBy
  <2>3. s[2 * j - 1] = VersionOf(s[i])
    BY <1>6, <2>2, FieldsOfStatement DEF VersionOf
  <2>4. 2 * j - 1 \in 1..(i - 1)
    BY <2>2
  <2> QED
    BY <2>3, <2>4
<1>9. NamesVersionOnce(s)
  <2> SUFFICES ASSUME NEW i \in 1..(2 * L), NEW k \in 1..(2 * L), s[i].what = "version", s[i] = s[k]
               PROVE  i = k
    BY <1>5 DEF NamesVersionOnce
  <2>1. PICK j \in 1..L : i = 2 * j - 1 /\ s[i] = Statement("version", codes[j], part)
    BY <1>7, FieldsOfStatement
  <2>2. PICK l \in 1..L : k = 2 * l - 1 /\ s[k] = Statement("version", codes[l], part)
    BY <1>7, FieldsOfStatement
  <2>3. codes[j] = codes[l]
    BY <2>1, <2>2, FieldsOfStatement
  <2>4. j = l
    BY <2>3 DEF Requested, L
  <2> QED
    BY <2>1, <2>2, <2>4
<1>10. ReadsContexts(s)
  <2> SUFFICES ASSUME NEW i \in 1..(2 * L)
               PROVE  /\ s[i].what \in {"version", "observations", "trends"}
                      /\ \E k \in 1..(2 * L) : s[k] = Statement("observations", s[i].code, s[i].part)
    BY <1>5 DEF ReadsContexts
  <2>1. PICK j \in 1..L : s[i] = Statement("version", codes[j], part)
                          \/ s[i] = Statement("observations", codes[j], part)
    BY <1>7
  <2>2. s[i].what \in {"version", "observations", "trends"} /\ s[i].code = codes[j] /\ s[i].part = part
    BY <2>1, FieldsOfStatement
  <2> QED
    BY <1>6, <2>2
<1>11. Fine(s, {part})
  BY <1>5, <1>7, <1>8, <1>9 DEF Fine
<1> QED
  BY <1>5, <1>6, <1>10, <1>11 DEF s, L

(* What is at a place of two scripts joined.                              *)
LEMMA JoinedAt ==
  ASSUME NEW s \in Seq(Statements), NEW t \in Seq(Statements)
  PROVE  /\ s \o t \in Seq(Statements) /\ Len(s \o t) = Len(s) + Len(t)
         /\ Len(s) \in Nat /\ Len(t) \in Nat
         /\ \A i \in 1..Len(s) : i \in 1..Len(s \o t) /\ (s \o t)[i] = s[i]
         /\ \A i \in 1..Len(t) : i + Len(s) \in 1..Len(s \o t) /\ (s \o t)[i + Len(s)] = t[i]
         /\ \A i \in 1..Len(s \o t) :
              i \in 1..Len(s) \/ (i - Len(s) \in 1..Len(t) /\ i = (i - Len(s)) + Len(s))
OBVIOUS

(* Two scripts of different parts are fine together.                      *)
LEMMA JoinedShape ==
  ASSUME NEW s, NEW t, NEW P, NEW Q, Fine(s, P), Fine(t, Q), P \intersect Q = {}
  PROVE  /\ Fine(s \o t, P \union Q)
         /\ ReadsContexts(s) /\ ReadsContexts(t) => ReadsContexts(s \o t)
<1> DEFINE u == s \o t
<1>0. s \in Seq(Statements) /\ t \in Seq(Statements)
  BY DEF Fine
<1>1. /\ u \in Seq(Statements) /\ Len(s) \in Nat /\ Len(t) \in Nat /\ Len(u) \in Nat
      /\ \A i \in 1..Len(s) : i \in 1..Len(u) /\ u[i] = s[i]
      /\ \A i \in 1..Len(t) : i + Len(s) \in 1..Len(u) /\ u[i + Len(s)] = t[i]
      /\ \A i \in 1..Len(u) :
           i \in 1..Len(s) \/ (i - Len(s) \in 1..Len(t) /\ i = (i - Len(s)) + Len(s))
  <2>1. u \in Seq(Statements) /\ Len(u) \in Nat
    BY <1>0
  <2> QED
    BY <1>0, <2>1, JoinedAt
<1> HIDE DEF u
<1>2. ASSUME NEW i \in 1..Len(u)
      PROVE  \/ i \in 1..Len(s) /\ u[i] = s[i]
             \/ \E j \in 1..Len(t) : i = j + Len(s) /\ u[i] = t[j]
  <2>1. CASE i \in 1..Len(s)
    BY <1>1, <2>1
  <2>2. CASE i - Len(s) \in 1..Len(t) /\ i = (i - Len(s)) + Len(s)
    <3>1. PICK j : j = i - Len(s)
      OBVIOUS
    <3>2. j \in 1..Len(t) /\ i = j + Len(s)
      BY <2>2, <3>1
    <3>3. u[j + Len(s)] = t[j]
      BY <1>1, <3>2, Zenon
    <3> QED
      BY <3>2, <3>3, Zenon
  <2> QED
    BY <1>1, <2>1, <2>2, Zenon
<1>3. /\ \A i \in 1..Len(s) : s[i].part \in P
      /\ \A i \in 1..Len(t) : t[i].part \in Q
  BY DEF Fine
<1>4. \A i \in 1..Len(u) : u[i].part \in P \union Q
  BY <1>2, <1>3
<1>5. NamesVersionFirst(u)
  <2> SUFFICES ASSUME NEW i \in 1..Len(u), u[i].what \in GoesBy
               PROVE  \E k \in 1..(i - 1) : u[k] = VersionOf(u[i])
    BY DEF NamesVersionFirst
  <2>1. CASE i \in 1..Len(s) /\ u[i] = s[i]
    <3>1. PICK k \in 1..(i - 1) : s[k] = VersionOf(s[i])
      BY <2>1 DEF Fine, NamesVersionFirst
    <3>2. k \in 1..Len(s)
      BY <1>1, <2>1
    <3>3. u[k] = s[k]
      BY <1>1, <3>2
    <3> QED
      BY <2>1, <3>1, <3>3
  <2>2. CASE \E j \in 1..Len(t) : i = j + Len(s) /\ u[i] = t[j]
    <3>1. PICK j \in 1..Len(t) : i = j + Len(s) /\ u[i] = t[j]
      BY <2>2
    <3>2. PICK k \in 1..(j - 1) : t[k] = VersionOf(t[j])
      BY <3>1 DEF Fine, NamesVersionFirst
    <3>3. k \in 1..Len(t) /\ k + Len(s) \in 1..(i - 1)
      BY <1>1, <3>1
    <3>4. u[k + Len(s)] = t[k]
      BY <1>1, <3>3
    <3> QED
      BY <3>1, <3>2, <3>3, <3>4
  <2> QED
    BY <1>2, <2>1, <2>2
<1>6. NamesVersionOnce(u)
  <2> SUFFICES ASSUME NEW i \in 1..Len(u), NEW k \in 1..Len(u), u[i].what = "version", u[i] = u[k]
               PROVE  i = k
    BY DEF NamesVersionOnce
  <2>1. CASE i \in 1..Len(s) /\ u[i] = s[i] /\ k \in 1..Len(s) /\ u[k] = s[k]
    BY <2>1 DEF Fine, NamesVersionOnce
  <2>2. ASSUME NEW x \in 1..Len(t), i = x + Len(s), u[i] = t[x],
               NEW y \in 1..Len(t), k = y + Len(s), u[k] = t[y]
        PROVE  i = k
    <3>1. t[x].what = "version" /\ t[x] = t[y]
      BY <2>2
    <3>2. x = y
      BY <3>1 DEF Fine, NamesVersionOnce
    <3> QED
      BY <2>2, <3>2
  <2>3. ASSUME NEW x \in 1..Len(s), NEW y \in 1..Len(t), s[x] = t[y]
        PROVE  FALSE
    BY <1>3, <2>3
  <2>4. CASE i \in 1..Len(s) /\ u[i] = s[i]
    <3>1. ~ \E j \in 1..Len(t) : u[k] = t[j]
      BY <2>3, <2>4
    <3> QED
      BY <1>2, <2>1, <2>4, <3>1, Zenon
  <2>5. CASE \E j \in 1..Len(t) : i = j + Len(s) /\ u[i] = t[j]
    <3>1. PICK x \in 1..Len(t) : i = x + Len(s) /\ u[i] = t[x]
      BY <2>5
    <3>2. ~(k \in 1..Len(s) /\ u[k] = s[k])
      BY <2>3, <3>1
    <3>3. PICK y \in 1..Len(t) : k = y + Len(s) /\ u[k] = t[y]
      BY <1>2, <3>2, Zenon
    <3> QED
      BY <2>2, <3>1, <3>3, Zenon
  <2> QED
    BY <1>2, <2>4, <2>5, Zenon
<1>7. ReadsContexts(s) /\ ReadsContexts(t) => ReadsContexts(u)
  <2> SUFFICES ASSUME ReadsContexts(s), ReadsContexts(t), NEW i \in 1..Len(u)
               PROVE  /\ u[i].what \in {"version", "observations", "trends"}
                      /\ \E k \in 1..Len(u) : u[k] = Statement("observations", u[i].code, u[i].part)
    BY DEF ReadsContexts
  <2>1. CASE i \in 1..Len(s) /\ u[i] = s[i]
    <3>1. PICK k \in 1..Len(s) : s[k] = Statement("observations", s[i].code, s[i].part)
      BY <2>1 DEF ReadsContexts
    <3> QED
      BY <1>1, <2>1, <3>1 DEF ReadsContexts
  <2>2. ASSUME NEW j \in 1..Len(t), u[i] = t[j]
        PROVE  /\ u[i].what \in {"version", "observations", "trends"}
               /\ \E k \in 1..Len(u) : u[k] = Statement("observations", u[i].code, u[i].part)
    <3>1. PICK k \in 1..Len(t) : t[k] = Statement("observations", t[j].code, t[j].part)
      BY DEF ReadsContexts
    <3>2. u[k + Len(s)] = t[k] /\ k + Len(s) \in 1..Len(u)
      BY <1>1
    <3> QED
      BY <2>2, <3>1, <3>2 DEF ReadsContexts
  <2> QED
    BY <1>2, <2>1, <2>2
<1>8. Fine(u, P \union Q)
  BY <1>1, <1>4, <1>5, <1>6 DEF Fine
<1> QED
  BY <1>7, <1>8 DEF u

(* The script of a comparison names versions first.                       *)
LEMMA CompareShape ==
  LET s == Context(1, Indicators) \o Trends
  IN  Fine(s, {1}) /\ ReadsContexts(s) /\ Len(s) > 0
<1> DEFINE L == Len(Indicators)
           a == Context(1, Indicators)
           s == a \o Trends
<1>0. L \in Nat \ {0} /\ \A i \in 1..L : Indicators[i] \in Codes
  BY CodesAreGiven
<1>1. /\ Fine(a, {1}) /\ ReadsContexts(a) /\ Len(a) = 2 * L
      /\ \A j \in 1..L : a[2 * j - 1] = Statement("version", Indicators[j], 1)
  BY CodesAreRequested, ContextShape
<1>2. Trends = [i \in 1..L |-> Statement("trends", Indicators[i], 1)]
  BY CodesAreGiven DEF Trends
<1>3. Trends \in Seq(Statements) /\ Len(Trends) = L
  BY <1>0, <1>2 DEF Statements, What, Statement
<1>4. a \in Seq(Statements)
  BY <1>1 DEF Fine
<1> HIDE DEF L, a
<1>5. /\ s \in Seq(Statements) /\ Len(s) = 2 * L + L
      /\ \A i \in 1..(2 * L) : i \in 1..Len(s) /\ s[i] = a[i]
      /\ \A i \in 1..Len(s) : i \in 1..(2 * L) \/ i - 2 * L \in 1..L
      /\ \A i \in 1..L : s[i + 2 * L] = Statement("trends", Indicators[i], 1)
  <2> DEFINE w == Trends
  <2>1. w \in Seq(Statements) /\ Len(w) = L /\ \A i \in 1..L : w[i] = Statement("trends", Indicators[i], 1)
    BY <1>2, <1>3
  <2> HIDE DEF w
  <2>2. /\ a \o w \in Seq(Statements) /\ Len(a \o w) = 2 * L + L
        /\ \A i \in 1..(2 * L) : i \in 1..Len(a \o w) /\ (a \o w)[i] = a[i]
    BY <1>0, <1>1, <1>4, <2>1
  <2>3. \A i \in 1..Len(a \o w) : i \in 1..(2 * L) \/ i - 2 * L \in 1..L
    BY <1>0, <2>2
  <2>4. \A i \in 1..L : (a \o w)[i + 2 * L] = w[i]
    BY <1>0, <1>1, <1>4, <2>1
  <2> QED
    BY <2>1, <2>2, <2>3, <2>4 DEF w
<1> HIDE DEF s
<1>6. ASSUME NEW i \in 1..Len(s)
      PROVE  \/ i \in 1..(2 * L) /\ s[i] = a[i]
             \/ i > 2 * L /\ \E j \in 1..L : i = j + 2 * L /\ s[i] = Statement("trends", Indicators[j], 1)
  <2>1. CASE i \in 1..(2 * L)
    BY <1>5, <2>1
  <2>2. CASE i - 2 * L \in 1..L
    <3>1. PICK j \in 1..L : j = i - 2 * L
      BY <2>2
    <3>2. i = j + 2 * L /\ i > 2 * L
      BY <1>0, <1>5, <3>1
    <3> QED
      BY <1>5, <3>2
  <2> QED
    BY <1>5, <2>1, <2>2
<1>7. \A i \in 1..Len(s) : s[i].part \in {1}
  <2> TAKE i \in 1..Len(s)
  <2>1. CASE i \in 1..(2 * L) /\ s[i] = a[i]
    BY <1>1, <2>1 DEF Fine
  <2>2. CASE \E j \in 1..L : s[i] = Statement("trends", Indicators[j], 1)
    BY <2>2, FieldsOfStatement
  <2> QED
    BY <1>6, <2>1, <2>2
<1>8. NamesVersionFirst(s)
  <2> SUFFICES ASSUME NEW i \in 1..Len(s), s[i].what \in GoesBy
               PROVE  \E k \in 1..(i - 1) : s[k] = VersionOf(s[i])
    BY DEF NamesVersionFirst
  <2>1. CASE i \in 1..(2 * L) /\ s[i] = a[i]
    <3>1. PICK k \in 1..(i - 1) : a[k] = VersionOf(a[i])
      BY <1>1, <2>1 DEF Fine, NamesVersionFirst
    <3>2. k \in 1..(2 * L)
      BY <1>0, <2>1
    <3> QED
      BY <1>5, <2>1, <3>1, <3>2
  <2>2. CASE i > 2 * L /\ \E j \in 1..L : i = j + 2 * L /\ s[i] = Statement("trends", Indicators[j], 1)
    <3>1. PICK j \in 1..L : i = j + 2 * L /\ s[i] = Statement("trends", Indicators[j], 1)
      BY <2>2
    <3>2. 2 * j - 1 \in 1..(2 * L) /\ 2 * j - 1 \in 1..(i - 1)
      BY <1>0, <3>1
    <3>3. s[2 * j - 1] = Statement("version", Indicators[j], 1)
      BY <1>1, <1>5, <3>2
    <3>4. VersionOf(s[i]) = Statement("version", Indicators[j], 1)
      BY <3>1, FieldsOfStatement DEF VersionOf
    <3> QED
      BY <3>2, <3>3, <3>4
  <2> QED
    BY <1>6, <2>1, <2>2
<1>9. NamesVersionOnce(s)
  <2> SUFFICES ASSUME NEW i \in 1..Len(s), NEW k \in 1..Len(s), s[i].what = "version", s[i] = s[k]
               PROVE  i = k
    BY DEF NamesVersionOnce
  <2>1. ASSUME NEW x \in 1..Len(s), s[x].what = "version"
        PROVE  x \in 1..(2 * L) /\ s[x] = a[x]
    BY <1>6, <2>1, FieldsOfStatement
  <2>2. i \in 1..Len(a) /\ s[i] = a[i] /\ k \in 1..Len(a) /\ s[k] = a[k]
    BY <1>1, <2>1
  <2> QED
    BY <1>1, <2>2 DEF Fine, NamesVersionOnce
<1>10. ReadsContexts(s)
  <2> SUFFICES ASSUME NEW i \in 1..Len(s)
               PROVE  /\ s[i].what \in {"version", "observations", "trends"}
                      /\ \E k \in 1..Len(s) : s[k] = Statement("observations", s[i].code, s[i].part)
    BY DEF ReadsContexts
  <2>1. ASSUME NEW x \in 1..(2 * L)
        PROVE  /\ s[x].what \in {"version", "observations", "trends"}
               /\ \E k \in 1..Len(s) : s[k] = Statement("observations", s[x].code, s[x].part)
    <3>1. x \in 1..Len(a) /\ s[x] = a[x]
      BY <1>1, <1>5
    <3>2. PICK k \in 1..(2 * L) : a[k] = Statement("observations", a[x].code, a[x].part)
      BY <1>1, <3>1 DEF ReadsContexts
    <3>3. a[x].what \in {"version", "observations", "trends"}
      BY <1>1, <3>1 DEF ReadsContexts
    <3> QED
      BY <1>5, <3>1, <3>2, <3>3
  <2>2. CASE i > 2 * L /\ \E j \in 1..L : i = j + 2 * L /\ s[i] = Statement("trends", Indicators[j], 1)
    <3>1. PICK j \in 1..L : s[i] = Statement("trends", Indicators[j], 1)
      BY <2>2
    <3>2. 2 * j - 1 \in 1..(2 * L)
      BY <1>0
    <3>3. s[2 * j - 1] = Statement("version", Indicators[j], 1)
      BY <1>1, <1>5, <3>2
    <3>4. s[2 * j - 1].code = s[i].code /\ s[2 * j - 1].part = s[i].part /\ s[i].what = "trends"
      BY <3>1, <3>3, FieldsOfStatement
    <3> QED
      BY <2>1, <3>2, <3>4
  <2> QED
    BY <1>6, <2>1, <2>2
<1>11. Len(s) > 0
  BY <1>0, <1>5
<1> QED
  BY <1>5, <1>7, <1>8, <1>9, <1>10, <1>11 DEF Fine, s, a

(* What a summary selects, and where.                                     *)
LEMMA SummaryShape ==
  ASSUME NEW kind \in {"silver", "gold"}
  PROVE  /\ Fine(Script(kind), {1}) /\ Len(Script(kind)) = 6
         /\ Script(kind)[1] = Statement("latest", Subject, 1)
         /\ Script(kind)[3] = Statement("last run", Subject, 1)
         /\ Script(kind)[5] = Statement("incidents", Subject, 1)
         /\ Script(kind)[6] = Statement("failed checks", Subject, 1)
         /\ \A i \in 2..6 : Script(kind)[i].what # "latest"
<1> DEFINE names == <<"latest", "last good", "last run", "last success", "incidents", "failed checks">>
           s == Script(kind)
<1>1. s = [i \in 1..6 |-> Statement(names[i], Subject, 1)]
  BY DEF Script, Summary, Subject
<1>2. /\ names[1] = "latest" /\ names[2] = "last good" /\ names[3] = "last run"
      /\ names[4] = "last success" /\ names[5] = "incidents" /\ names[6] = "failed checks"
  OBVIOUS
<1> HIDE DEF names, s
<1>3. \A i \in 1..6 : i \in {1, 2, 3, 4, 5, 6}
  OBVIOUS
<1>4. \A i \in 1..6 : names[i] \in What /\ names[i] \notin GoesBy \union {"version"}
  BY <1>2, <1>3 DEF What, GoesBy
<1>5. s \in [1..6 -> Statements]
  BY <1>1, <1>4, CodesAreGiven DEF Statements, Statement
<1>6. s \in Seq(Statements) /\ Len(s) = 6
  BY <1>5, ArrayIsSequence
<1>7. \A i \in 1..6 : s[i] = Statement(names[i], Subject, 1) /\ s[i].what = names[i] /\ s[i].part = 1
  BY <1>1, FieldsOfStatement
<1>8. 1 \in 1..6 /\ 3 \in 1..6 /\ 5 \in 1..6 /\ 6 \in 1..6 /\ \A i \in 2..6 : i \in 1..6 /\ i \in {2, 3, 4, 5, 6}
  OBVIOUS
<1>9. /\ s[1] = Statement("latest", Subject, 1) /\ s[3] = Statement("last run", Subject, 1)
      /\ s[5] = Statement("incidents", Subject, 1) /\ s[6] = Statement("failed checks", Subject, 1)
  BY <1>2, <1>7, <1>8, Zenon
<1>10. \A i \in 2..6 : s[i].what # "latest"
  <2> TAKE i \in 2..6
  <2>1. s[i].what = names[i] /\ i \in {2, 3, 4, 5, 6}
    BY <1>7, <1>8, Zenon
  <2>2. names[i] # "latest"
    BY <1>2, <2>1
  <2> QED
    BY <2>1, <2>2, Zenon
<1>11. Fine(s, {1})
  BY <1>4, <1>6, <1>7 DEF Fine, NamesVersionFirst, NamesVersionOnce
<1> QED
  BY <1>6, <1>9, <1>10, <1>11 DEF s

(* What an indicator's page selects, and where.                           *)
LEMMA IndicatorShape ==
  /\ Fine(Script("indicator"), {1}) /\ Len(Script("indicator")) = 3
  /\ Script("indicator")[1] = Statement("version", Subject, 1)
  /\ Script("indicator")[2] = Statement("coverage", Subject, 1)
  /\ Script("indicator")[3] = Statement("incidents", Subject, 1)
<1> DEFINE names == <<"version", "coverage", "incidents">>
           s == Script("indicator")
<1>1. s = [i \in 1..3 |-> Statement(names[i], Subject, 1)]
  BY DEF Script, Indicator, Subject
<1>2. names[1] = "version" /\ names[2] = "coverage" /\ names[3] = "incidents"
  OBVIOUS
<1> HIDE DEF names, s
<1>3. \A i \in 1..3 : i = 1 \/ i = 2 \/ i = 3
  OBVIOUS
<1>4. \A i \in 1..3 : names[i] \in What
  BY <1>2, <1>3 DEF What
<1>5. s \in [1..3 -> Statements]
  BY <1>1, <1>4, CodesAreGiven DEF Statements, Statement
<1>6. s \in Seq(Statements) /\ Len(s) = 3
  BY <1>5, ArrayIsSequence
<1>7. \A i \in 1..3 : s[i].what = names[i] /\ s[i].part = 1
  BY <1>1, FieldsOfStatement
<1>8. /\ s[1] = Statement("version", Subject, 1) /\ s[2] = Statement("coverage", Subject, 1)
      /\ s[3] = Statement("incidents", Subject, 1)
  BY <1>1, <1>2
<1>9. NamesVersionFirst(s)
  <2> SUFFICES ASSUME NEW i \in 1..3, s[i].what \in GoesBy
               PROVE  \E k \in 1..(i - 1) : s[k] = VersionOf(s[i])
    BY <1>6 DEF NamesVersionFirst
  <2>1. i = 2
    BY <1>2, <1>3, <1>7 DEF GoesBy
  <2>2. s[1] = VersionOf(s[2]) /\ 1 \in 1..(2 - 1)
    BY <1>8, FieldsOfStatement DEF VersionOf
  <2> QED
    BY <2>1, <2>2
<1>10. NamesVersionOnce(s)
  <2> SUFFICES ASSUME NEW i \in 1..3, NEW k \in 1..3, s[i].what = "version", s[i] = s[k]
               PROVE  i = k
    BY <1>6 DEF NamesVersionOnce
  <2>1. ASSUME NEW x \in 1..3, s[x].what = "version"
        PROVE  x = 1
    BY <1>2, <1>3, <1>7, <2>1
  <2>2. i = 1 /\ k = 1
    BY <2>1
  <2> QED
    BY <2>2
<1>11. Fine(s, {1})
  BY <1>6, <1>7, <1>9, <1>10 DEF Fine
<1> QED
  BY <1>6, <1>8, <1>11 DEF s

(* What a report computes from versions, rather than from incidents.       *)
Computed == {"score", "compare", "export", "analytics"}

(* A script of some parts is one of more parts.                           *)
LEMMA FineInMore ==
  ASSUME NEW s, NEW X \in SUBSET (1..4), Fine(s, X)
  PROVE  Fine(s, 1..4) /\ Len(s) \in Nat
<1>1. s \in Seq(Statements) /\ (\A i \in 1..Len(s) : s[i].part \in X)
      /\ NamesVersionFirst(s) /\ NamesVersionOnce(s)
  BY DEF Fine
<1>2. \A i \in 1..Len(s) : s[i].part \in 1..4
  BY <1>1
<1>3. s \in Seq(Statements)
  BY <1>1
<1>4. Len(s) \in Nat
  BY <1>3
<1>5. Fine(s, 1..4)
  BY <1>1, <1>2 DEF Fine
<1> QED
  BY <1>4, <1>5

(* Every script names versions first and once, and selects something; every *)
(* computed report reads contexts.                                         *)
LEMMA ScriptShape ==
  ASSUME NEW kind \in Reports
  PROVE  /\ Fine(Script(kind), 1..4) /\ Len(Script(kind)) \in Nat /\ Len(Script(kind)) > 0
         /\ kind \in Computed => ReadsContexts(Script(kind))
<1> DEFINE C(p) == Context(p, Indicators)
           D == Context(3, Contracts)
<1>1. \A p \in 1..4 : Fine(C(p), {p}) /\ ReadsContexts(C(p)) /\ Len(C(p)) > 0
  <2> TAKE p \in 1..4
  <2>1. Fine(C(p), {p}) /\ ReadsContexts(C(p)) /\ Len(C(p)) = 2 * Len(Indicators)
    BY CodesAreRequested, ContextShape
  <2>2. 2 * Len(Indicators) > 0
    BY CodesAreGiven
  <2> QED
    BY <2>1, <2>2
<1>2. Fine(D, {3}) /\ ReadsContexts(D)
  BY CodesAreRequested, ContextShape
<1> HIDE DEF C, D
<1>3. 1 \in 1..4 /\ 2 \in 1..4 /\ 4 \in 1..4
  OBVIOUS
<1>4. Fine(C(1) \o C(2), {1} \union {2}) /\ ReadsContexts(C(1) \o C(2))
  <2>1. {1} \intersect {2} = {}
    OBVIOUS
  <2> QED
    BY <1>1, <1>3, <2>1, JoinedShape
<1>5. Fine((C(1) \o C(2)) \o D, ({1} \union {2}) \union {3}) /\ ReadsContexts((C(1) \o C(2)) \o D)
  <2>1. ({1} \union {2}) \intersect {3} = {}
    OBVIOUS
  <2> QED
    BY <1>2, <1>4, <2>1, JoinedShape
<1>6. /\ Fine(((C(1) \o C(2)) \o D) \o C(4), (({1} \union {2}) \union {3}) \union {4})
      /\ ReadsContexts(((C(1) \o C(2)) \o D) \o C(4))
  <2>1. (({1} \union {2}) \union {3}) \intersect {4} = {}
    OBVIOUS
  <2> QED
    BY <1>1, <1>3, <1>5, <2>1, JoinedShape
<1>7. \A s, P : P \in SUBSET (1..4) /\ Fine(s, P) => Fine(s, 1..4) /\ Len(s) \in Nat
  BY FineInMore
<1>8. Script("score") = C(1) /\ Script("export") = C(1) \o C(2)
      /\ Script("compare") = Context(1, Indicators) \o Trends
      /\ Script("analytics") = ((C(1) \o C(2)) \o D) \o C(4)
  BY DEF Script, C, D
<1>9. /\ Fine(Script("score"), {1}) /\ Fine(Script("compare"), {1})
      /\ Fine(Script("export"), {1} \union {2})
      /\ Fine(Script("analytics"), (({1} \union {2}) \union {3}) \union {4})
      /\ ReadsContexts(Script("score")) /\ ReadsContexts(Script("compare"))
      /\ ReadsContexts(Script("export")) /\ ReadsContexts(Script("analytics"))
  BY <1>1, <1>3, <1>4, <1>6, <1>8, CompareShape
<1>10. ASSUME NEW s, NEW t, s \in Seq(Statements), t \in Seq(Statements), Len(s) > 0
       PROVE  Len(s \o t) > 0
  BY <1>10
<1>11. C(1) \in Seq(Statements) /\ C(2) \in Seq(Statements) /\ D \in Seq(Statements)
       /\ C(4) \in Seq(Statements) /\ C(1) \o C(2) \in Seq(Statements)
       /\ (C(1) \o C(2)) \o D \in Seq(Statements)
  BY <1>1, <1>2, <1>3, <1>4, <1>5 DEF Fine
<1>12. /\ Len(Script("score")) > 0 /\ Len(Script("compare")) > 0
       /\ Len(Script("export")) > 0 /\ Len(Script("analytics")) > 0
  <2>1. Len(C(1) \o C(2)) > 0
    BY <1>1, <1>3, <1>10, <1>11
  <2>2. Len((C(1) \o C(2)) \o D) > 0
    BY <1>10, <1>11, <2>1
  <2>3. Len(((C(1) \o C(2)) \o D) \o C(4)) > 0
    BY <1>10, <1>11, <2>2
  <2> QED
    BY <1>1, <1>3, <1>8, <2>1, <2>3, CompareShape
<1>13. {1} \in SUBSET (1..4) /\ {1} \union {2} \in SUBSET (1..4)
       /\ (({1} \union {2}) \union {3}) \union {4} \in SUBSET (1..4)
  OBVIOUS
<1>14. CASE kind \in Computed
  <2>1. kind \in {"score", "compare", "export", "analytics"}
    BY <1>14 DEF Computed
  <2>2. Fine(Script(kind), 1..4) /\ Len(Script(kind)) \in Nat
    BY <1>7, <1>9, <1>13, <2>1
  <2> QED
    BY <1>9, <1>12, <2>1, <2>2
<1>15. CASE kind \in {"silver", "gold", "indicator"}
  <2>1. Fine(Script(kind), {1}) /\ Len(Script(kind)) \in {3, 6}
    BY <1>15, SummaryShape, IndicatorShape
  <2> QED
    BY <1>7, <1>13, <1>15, <2>1 DEF Computed
<1> QED
  BY <1>14, <1>15 DEF Reports, Computed

(* Whatever is at a place of a script is a statement.                     *)
LEMMA PlaceInScript ==
  ASSUME NEW kind \in Reports, NEW i \in 1..Len(Script(kind))
  PROVE  Script(kind)[i] \in Statements
BY ScriptShape DEF Fine

-----------------------------------------------------------------------------
(* What a SELECT finds. *)

(* The newest of some runs, 0 if there are none.                          *)
LEMMA NewestIsNewest ==
  ASSUME NEW n \in Nat, NEW S \in SUBSET (1..n)
  PROVE  /\ S = {} => Newest(S) = 0
         /\ S # {} => Newest(S) \in S /\ \A k \in S : k <= Newest(S)
         /\ Newest(S) \in 0..n
<1>1. CASE S = {}
  BY <1>1 DEF Newest
<1>2. CASE S # {}
  <2> DEFINE Gaps == {n - k : k \in S}
  <2>9. \A k \in S : n - k \in Nat
    OBVIOUS
  <2>1. Gaps \subseteq Nat /\ Gaps # {}
    BY <1>2, <2>9
  <2> HIDE DEF Gaps
  <2>2. PICK a \in Gaps : \A b \in Gaps : ~(<<b, a>> \in OpToRel(<, Nat))
    BY <2>1, NatLessThanWellFounded, WFMin
  <2>3. \A b \in Gaps : ~(b < a)
    BY <2>1, <2>2, Zenon DEF OpToRel
  <2>4. \A b \in Gaps : a <= b
    BY <2>1, <2>3
  <2>5. PICK m \in S : a = n - m
    BY DEF Gaps
  <2>6. \A k \in S : n - m <= n - k
    BY <2>4, <2>5 DEF Gaps
  <2>7. \A k \in S : k <= m
    BY <2>6
  <2>8. Newest(S) \in S /\ \A k \in S : k <= Newest(S)
    BY <1>2, <2>7 DEF Newest
  <2>11. S \subseteq 0..n
    OBVIOUS
  <2>10. Newest(S) \in 0..n
    BY <2>8, <2>11
  <2> QED
    BY <1>2, <2>8, <2>10
<1> QED
  BY <1>1, <1>2

(* The types of what is committed, of the readers and of the operators.    *)
History == [Codes -> Seq(RunRow)]
Outcomes == Healths \union {"asking", "reading", "200", "409", "422"}

TableType == runs \in History /\ incidents \in [Rows -> IncidentRow] /\ now \in 0..MaxTime

ReaderType ==
  /\ report \in [Readers -> Reports] /\ outcome \in [Readers -> Outcomes]
  /\ got \in [Readers -> Seq(Nat)] /\ start \in [Readers -> History]
  /\ throughout \in [Readers -> SUBSET Rows] /\ ever \in [Readers -> SUBSET Rows]

OperatorType ==
  /\ saw \in [Operators -> {Nobody} \union [row : Rows, was : IncidentRow]]
  /\ raced \subseteq Rows /\ updates \in 0..MaxUpdates

(* The parts of the type invariant.                                       *)
LEMMA TypeParts == TypeOK <=> TableType /\ ReaderType /\ OperatorType
BY DEF TypeOK, TableType, ReaderType, OperatorType, History, Outcomes

(* The same after a step.                                                 *)
LEMMA TypePartsPrimed == TypeOK' <=> TableType' /\ ReaderType' /\ OperatorType'
BY DEF TypeOK, TableType, ReaderType, OperatorType, History, Outcomes

(* A reader is somewhere in its script.                                    *)
InScript(r) ==
  /\ outcome[r] = "asking" => got[r] = <<>>
  /\ outcome[r] = "reading" => Len(got[r]) < Len(Script(report[r]))
  /\ Len(got[r]) <= Len(Script(report[r]))

(* The runs that failed. *)
Failed(s) == DOMAIN s \ Good(s)

(* Versions are places in the list of runs.                               *)
LEMMA VersionsAreRuns ==
  ASSUME NEW s \in Seq(RunRow)
  PROVE  /\ Good(s) \subseteq 1..Len(s) /\ Versions(s) \subseteq 1..MaxRuns
         /\ Validated(s) \subseteq 1..Len(s) /\ Failed(s) \subseteq 1..Len(s) /\ Len(s) \in Nat
<1>1. DOMAIN s = 1..Len(s) /\ \A n \in 1..Len(s) : s[n] \in RunRow
  OBVIOUS
<1> QED
  BY <1>1 DEF Good, Versions, Validated, Failed, RunRow

(* The newest of each kind is a number.                                   *)
LEMMA NewestFound ==
  ASSUME NEW s \in Seq(RunRow), NEW layer
  PROVE  /\ Newest(VersionsIn(layer, s)) \in Nat /\ Newest(GoodIn(layer, s)) \in Nat
         /\ Newest(RunsIn(layer, s)) \in Nat
         /\ Newest(RunsIn(layer, s) \intersect Good(s)) \in Nat
<1>1. Len(s) \in Nat /\ MaxRuns \in Nat
  BY CodesAreGiven
<1>2. /\ VersionsIn(layer, s) \in SUBSET (1..MaxRuns) \/ VersionsIn(layer, s) \in SUBSET (1..Len(s))
      /\ GoodIn(layer, s) \in SUBSET (1..Len(s))
      /\ RunsIn(layer, s) \in SUBSET (1..Len(s))
      /\ RunsIn(layer, s) \intersect Good(s) \in SUBSET (1..Len(s))
  BY VersionsAreRuns DEF VersionsIn, GoodIn, RunsIn, Failed
<1>3. \A n \in Nat : \A S \in SUBSET (1..n) : Newest(S) \in Nat
  <2> TAKE n \in Nat
  <2> TAKE S \in SUBSET (1..n)
  <2>1. Newest(S) \in 0..n
    BY NewestIsNewest
  <2> QED
    BY <2>1
<1> QED
  BY <1>1, <1>2, <1>3

(* What the only statement before i that is so named returned.            *)
LEMMA ReturnedAt ==
  ASSUME NEW r \in Readers, NEW what, NEW i \in Nat, NEW k \in 1..(i - 1),
         NEW s, s = Script(report[r]), s[k] = Statement(what, s[i].code, s[i].part),
         \A x \in 1..(i - 1) : s[x] = Statement(what, s[i].code, s[i].part) => x = k
  PROVE  Returned(r, i, what) = got[r][k]
<1> DEFINE places == {x \in 1..(i - 1) : s[x] = Statement(what, s[i].code, s[i].part)}
<1>1. Returned(r, i, what) = got[r][Newest(places)]
  BY DEF Returned
<1>2. k \in places /\ \A x \in places : x = k
  OBVIOUS
<1>3. places \in SUBSET (1..(i - 1)) /\ i - 1 \in Nat
  OBVIOUS
<1> HIDE DEF places
<1>4. Newest(places) \in places
  BY <1>2, <1>3, NewestIsNewest
<1> QED
  BY <1>1, <1>2, <1>4, Zenon

(* A SELECT by a version's id follows the SELECT that returned it.         *)
LEMMA RowsAreOfAVersion ==
  ASSUME NEW r \in Readers, report[r] \in Reports, NEW script, script = Script(report[r]),
         NEW i \in 1..Len(script), script[i].what \in GoesBy, NEW k \in 1..(i - 1),
         script[k] = VersionOf(script[i])
  PROVE  RowsOf(r, i) = got[r][k]
<1>1. script \in Seq(Statements) /\ NamesVersionOnce(script)
  BY ScriptShape DEF Fine
<1>2. ASSUME NEW x \in 1..(i - 1), script[x] = VersionOf(script[i])
      PROVE  x = k
  <2>1. x \in 1..Len(script) /\ k \in 1..Len(script)
    BY <1>1
  <2>2. script[x] = script[k] /\ script[x].what = "version"
    BY <1>2, FieldsOfStatement DEF VersionOf
  <2> QED
    BY <1>1, <2>1, <2>2, Zenon DEF NamesVersionOnce
<1>3. i \in Nat
  BY <1>1
<1> QED
  BY <1>2, <1>3, ReturnedAt DEF RowsOf, VersionOf

(* What the next SELECT of a reader returns is a number.                  *)
LEMMA ResultType ==
  ASSUME TypeOK, NEW r \in Readers, outcome[r] = "reading", InScript(r)
  PROVE  /\ Len(got[r]) + 1 \in 1..Len(Script(report[r]))
         /\ Script(report[r])[Len(got[r]) + 1] \in Statements
         /\ Result(r, Len(got[r]) + 1) \in Nat
<1> DEFINE i == Len(got[r]) + 1
           script == Script(report[r])
<1>1. /\ report[r] \in Reports /\ got[r] \in Seq(Nat) /\ Fine(script, 1..4)
      /\ script \in Seq(Statements) /\ NamesVersionFirst(script)
  BY ScriptShape, TypeParts DEF ReaderType, Fine
<1>2. i \in 1..Len(script) /\ i - 1 = Len(got[r])
  BY <1>1 DEF InScript
<1>3. script[i] \in Statements
  BY <1>1, <1>2
<1> DEFINE s == script[i]
           failures == IF report[r] = "silver" /\ HasFailedChecks(runs[s.code], Returned(r, i, "latest"))
                       THEN 1 ELSE 0
           count == IF report[r] = "gold" THEN 0 ELSE Cardinality(Open(s.code))
<1>4. s.code \in Codes /\ s.what \in What
  BY <1>3 DEF Statements
<1>5. runs[s.code] \in Seq(RunRow)
  BY <1>4, TypeParts DEF TableType, History
<1>6. /\ Newest(VersionsIn(report[r], runs[s.code])) \in Nat /\ Newest(GoodIn(report[r], runs[s.code])) \in Nat
      /\ Newest(RunsIn(report[r], runs[s.code])) \in Nat
      /\ Newest(RunsIn(report[r], runs[s.code]) \intersect Good(runs[s.code])) \in Nat
  BY <1>5, NewestFound
<1>7. count \in Nat
  BY <1>4, OpenAreCounted
<1>8. ASSUME s.what \in GoesBy
      PROVE  RowsOf(r, i) \in Nat
  <2>1. PICK k \in 1..(i - 1) : script[k] = VersionOf(script[i])
    BY <1>1, <1>2, <1>8 DEF NamesVersionFirst
  <2>2. RowsOf(r, i) = got[r][k]
    BY <1>1, <1>2, <1>8, <2>1, RowsAreOfAVersion
  <2>3. k \in 1..Len(got[r])
    BY <1>2
  <2> QED
    BY <1>1, <2>2, <2>3
<1>9. Result(r, i) =
        CASE s.what \in {"version", "last good"} -> Newest(GoodIn(report[r], runs[s.code]))
          [] s.what = "latest" -> Newest(VersionsIn(report[r], runs[s.code]))
          [] s.what = "last run" -> Newest(RunsIn(report[r], runs[s.code]))
          [] s.what = "last success" -> Newest(RunsIn(report[r], runs[s.code]) \intersect Good(runs[s.code]))
          [] s.what \in {"observations", "trends", "coverage"} -> RowsOf(r, i)
          [] s.what = "incidents" -> count
          [] s.what = "failed checks" -> failures
  BY DEF Result
<1>11. failures \in Nat
  OBVIOUS
<1> HIDE DEF s, i, script, failures, count
<1>10. Result(r, i) \in Nat
  <2>1. CASE s.what \in {"version", "last good", "latest"}
    BY <1>6, <1>9, <2>1
  <2>2. CASE s.what \in {"last run", "last success"}
    BY <1>6, <1>9, <2>2
  <2>3. CASE s.what \in GoesBy
    BY <1>8, <1>9, <2>3 DEF GoesBy
  <2>4. CASE s.what \in {"incidents", "failed checks"}
    BY <1>7, <1>9, <1>11, <2>4
  <2> QED
    BY <1>4, <2>1, <2>2, <2>3, <2>4 DEF What, GoesBy
<1> QED
  BY <1>2, <1>3, <1>10 DEF i, script, s

-----------------------------------------------------------------------------
(* The kinds of steps. *)

(* A commit of a run or of an update, or nothing a reader sees.            *)
Writes ==
  /\ UNCHANGED <<report, got, outcome, start>>
  /\ \/ UNCHANGED runs
     \/ \E c \in Codes, x \in RunRow : runs' = [runs EXCEPT ![c] = Append(@, x)]
  /\ Observe \/ UNCHANGED <<incidents, throughout, ever>>

(* A step asks, selects or writes.                                        *)
LEMMA StepKinds ==
  ASSUME TypeOK, [Next]_vars
  PROVE  \/ \E r \in Readers : Ask(r)
         \/ \E r \in Readers : Select(r)
         \/ Writes
<1>1. ASSUME NEW c \in Codes, NEW verdict \in Verdicts, NEW failures \in BOOLEAN,
             NEW version \in 1..MaxRuns, CommitRun(c, verdict, failures, version)
      PROVE  Writes
  <2> DEFINE x == [verdict |-> verdict, failures |-> failures, version |-> version, at |-> now]
  <2>1. x \in RunRow
    BY TypeParts DEF TableType, RunRow
  <2>2. runs' = [runs EXCEPT ![c] = Append(@, x)]
    BY <1>1 DEF CommitRun
  <2> HIDE DEF x
  <2> QED
    BY <1>1, <2>1, <2>2 DEF CommitRun, Writes
<1>2. ASSUME NEW o \in Operators, NEW row \in Rows, GetIncident(o, row)
      PROVE  Writes
  BY <1>2 DEF GetIncident, Writes, tables, reading
<1>3. ASSUME NEW o \in Operators, NEW status \in UpdateStatuses, UpdateIncident(o, status)
      PROVE  Writes
  BY <1>3 DEF UpdateIncident, Writes
<1>4. Tick => Writes
  BY DEF Tick, Writes, reading
<1>5. UNCHANGED vars => Writes
  BY DEF vars, tables, reading, Writes
<1> QED
  BY <1>1, <1>2, <1>3, <1>4, <1>5 DEF Next

-----------------------------------------------------------------------------
(* Type correctness, with the readers' places in their scripts. *)

(* The types hold at the start.                                           *)
LEMMA InitTypes ==
  ASSUME Init
  PROVE  TypeOK /\ \A r \in Readers : InScript(r)
<1>1. TableType
  <2>1. runs \in History
    BY DEF Init, History
  <2>2. NoRow \in IncidentRow
    BY DEF NoRow, IncidentRow
  <2> QED
    BY <2>1, <2>2, CodesAreGiven DEF Init, TableType
<1>2. report \in [Readers -> Reports]
  BY DashboardAssumption DEF Init
<1>3. ReaderType
  BY <1>1, <1>2 DEF Init, ReaderType, Outcomes, TableType
<1>4. OperatorType
  BY CodesAreGiven DEF Init, OperatorType
<1>5. ASSUME NEW r \in Readers
      PROVE  InScript(r)
  <2>1. Len(Script(report[r])) \in Nat
    BY <1>2, ScriptShape
  <2>2. outcome[r] = "asking" /\ got[r] = <<>> /\ Len(got[r]) = 0
    BY DEF Init
  <2> QED
    BY <2>1, <2>2 DEF InScript
<1> QED
  BY <1>1, <1>3, <1>4, <1>5, TypeParts

(* What a request can be answered.                                        *)
LEMMA AnswerIsOutcome ==
  ASSUME NEW r \in Readers, NEW s, NEW n, NEW results
  PROVE  GivesUp(s, n) \in {"422", "409", "reading"} /\ Answer(r, results) \in Healths \union {"200"}
<1>1. GivesUp(s, n) \in {"422", "409", "reading"}
  BY DEF GivesUp
<1>2. Health(Subject, results) \in Healths
  BY DEF Health, Healths
<1>3. QualityStatus(Subject, results) \in Healths
  BY DEF QualityStatus, Healths
<1>4. Answer(r, results) \in {Health(Subject, results), QualityStatus(Subject, results), "200"}
  BY DEF Answer, Subject
<1> QED
  BY <1>1, <1>2, <1>3, <1>4

(* What Select changes.                                                    *)
LEMMA SelectEffect ==
  ASSUME TypeOK, NEW r \in Readers, Select(r), InScript(r)
  PROVE  \E n \in Nat, z \in Outcomes \ {"asking"} :
           /\ n = Result(r, Len(got[r]) + 1)
           /\ got' = [got EXCEPT ![r] = Append(got[r], n)]
           /\ outcome' = [outcome EXCEPT ![r] = z]
           /\ z = "reading" => Len(got[r]) + 1 # Len(Script(report[r]))
           /\ z \in Healths => /\ z = Answer(r, Append(got[r], n))
                               /\ Len(got[r]) + 1 = Len(Script(report[r]))
           /\ outcome[r] = "reading" /\ UNCHANGED <<tables, report, start, throughout, ever, editing>>
<1> DEFINE i == Len(got[r]) + 1
           n == Result(r, i)
           script == Script(report[r])
           results == Append(got[r], n)
           goesOn == IF report[r] = "indicator" THEN "reading" ELSE GivesUp(script[i], results[i])
           z == IF goesOn # "reading" THEN goesOn
                ELSE IF i = Len(script) THEN Answer(r, results) ELSE "reading"
<1>1. /\ outcome[r] = "reading" /\ got' = [got EXCEPT ![r] = results]
      /\ outcome' = [outcome EXCEPT ![r] = z]
      /\ UNCHANGED <<tables, report, start, throughout, ever, editing>>
  BY DEF Select
<1>2. n \in Nat
  BY <1>1, ResultType
<1>3. goesOn \in {"422", "409", "reading"} /\ Answer(r, results) \in Healths \union {"200"}
  BY AnswerIsOutcome
<1> HIDE DEF i, n, script, results, goesOn
<1>4. z \in Outcomes \ {"asking"}
  BY <1>3 DEF Outcomes, Healths
<1>5. z = "reading" => i # Len(script)
  BY <1>3 DEF Healths
<1>6. z \in Healths => z = Answer(r, results) /\ i = Len(script)
  BY <1>3 DEF Healths
<1> HIDE DEF z
<1> QED
  BY <1>1, <1>2, <1>4, <1>5, <1>6 DEF i, n, script, results

(* What asking changes: the request only, from now on watched.            *)
LEMMA AskEffect ==
  ASSUME TypeOK, NEW r \in Readers, Ask(r)
  PROVE  /\ outcome[r] = "asking" /\ outcome' = [outcome EXCEPT ![r] = "reading"]
         /\ start' = [start EXCEPT ![r] = runs] /\ UNCHANGED <<tables, report, got, editing>>
         /\ throughout' = [throughout EXCEPT ![r] = Watched(r)]
         /\ ever' = [ever EXCEPT ![r] = Watched(r)] /\ Watched(r) \in SUBSET Rows
BY DEF Ask, Watched

(* Writers leave the readers' types alone.                                *)
LEMMA WriteTypes ==
  ASSUME TypeOK, Writes, incidents' \in [Rows -> IncidentRow], now' \in 0..MaxTime
  PROVE  TableType' /\ ReaderType'
<1>1. TableType /\ ReaderType
  BY TypeParts
<1>2. runs' \in History
  <2>1. CASE UNCHANGED runs
    BY <1>1, <2>1 DEF TableType
  <2>2. CASE \E c \in Codes, x \in RunRow : runs' = [runs EXCEPT ![c] = Append(@, x)]
    <3>1. PICK c \in Codes, x \in RunRow : runs' = [runs EXCEPT ![c] = Append(@, x)]
      BY <2>2
    <3>2. Append(runs[c], x) \in Seq(RunRow)
      BY <1>1 DEF TableType, History
    <3> QED
      BY <1>1, <3>1, <3>2 DEF TableType, History
  <2> QED
    BY <2>1, <2>2 DEF Writes
<1>3. throughout' \in [Readers -> SUBSET Rows] /\ ever' \in [Readers -> SUBSET Rows]
  <2>1. CASE Observe
    <3>1. \A r \in Readers : Watched(r)' \subseteq Rows
      BY DEF Watched, Rows
    <3>2. /\ throughout' = [r \in Readers |-> IF outcome[r] = "reading"
                             THEN throughout[r] \intersect Watched(r)' ELSE throughout[r]]
          /\ ever' = [r \in Readers |-> IF outcome[r] = "reading"
                       THEN ever[r] \union Watched(r)' ELSE ever[r]]
      BY <2>1 DEF Observe
    <3> QED
      BY <1>1, <3>1, <3>2 DEF ReaderType
  <2>2. CASE UNCHANGED <<incidents, throughout, ever>>
    BY <1>1, <2>2 DEF ReaderType
  <2> QED
    BY <2>1, <2>2 DEF Writes
<1> QED
  BY <1>1, <1>2, <1>3 DEF TableType, ReaderType, Writes

(* Every step keeps the types.                                            *)
LEMMA NextTypes ==
  ASSUME TypeOK, \A r \in Readers : InScript(r), [Next]_vars
  PROVE  TypeOK'
<1>0. TableType /\ ReaderType /\ OperatorType
  BY TypeParts
<1>1. ASSUME NEW r \in Readers, Ask(r)
      PROVE  TypeOK'
  <2>1. "reading" \in Outcomes
    BY DEF Outcomes
  <2>2. runs \in History
    BY <1>0 DEF TableType
  <2>5. report' \in [Readers -> Reports] /\ got' \in [Readers -> Seq(Nat)]
    BY <1>0, <1>1, AskEffect DEF ReaderType
  <2>8. outcome' \in [Readers -> Outcomes]
    BY <1>0, <1>1, <2>1, AskEffect DEF ReaderType
  <2>9. start' = [start EXCEPT ![r] = runs]
    BY <1>1, AskEffect
  <2>6. outcome' \in [Readers -> Outcomes] /\ start' \in [Readers -> History]
    BY <1>0, <2>2, <2>8, <2>9 DEF ReaderType
  <2>7. throughout' \in [Readers -> SUBSET Rows] /\ ever' \in [Readers -> SUBSET Rows]
    BY <1>0, <1>1, AskEffect DEF ReaderType
  <2>3. ReaderType'
    BY <2>5, <2>6, <2>7 DEF ReaderType
  <2>4. TableType' /\ OperatorType'
    BY <1>0, <1>1, AskEffect DEF tables, editing, TableType, OperatorType
  <2> QED
    BY <2>3, <2>4, TypePartsPrimed
<1>2. ASSUME NEW r \in Readers, Select(r)
      PROVE  TypeOK'
  <2>1. PICK n \in Nat, z \in Outcomes :
             /\ got' = [got EXCEPT ![r] = Append(got[r], n)]
             /\ outcome' = [outcome EXCEPT ![r] = z]
             /\ UNCHANGED <<tables, report, start, throughout, ever, editing>>
    BY <1>2, SelectEffect
  <2>2. Append(got[r], n) \in Seq(Nat)
    BY <1>0 DEF ReaderType
  <2>3. ReaderType'
    BY <1>0, <2>1, <2>2 DEF ReaderType
  <2>4. TableType' /\ OperatorType'
    BY <1>0, <2>1 DEF tables, editing, TableType, OperatorType
  <2> QED
    BY <2>3, <2>4, TypePartsPrimed
<1>3. ASSUME NEW c \in Codes, NEW verdict \in Verdicts, NEW failures \in BOOLEAN,
             NEW version \in 1..MaxRuns, CommitRun(c, verdict, failures, version)
      PROVE  TypeOK'
  <2>1. Writes
    <3> DEFINE x == [verdict |-> verdict, failures |-> failures, version |-> version, at |-> now]
    <3>1. x \in RunRow /\ runs' = [runs EXCEPT ![c] = Append(@, x)]
      BY <1>0, <1>3 DEF TableType, RunRow, CommitRun
    <3> HIDE DEF x
    <3> QED
      BY <1>3, <3>1 DEF CommitRun, Writes
  <2>2. [status |-> "open", stamped |-> FALSE] \in IncidentRow
    BY DEF IncidentRow
  <2>3. incidents' \in [Rows -> IncidentRow] /\ now' \in 0..MaxTime
    BY <1>0, <1>3, <2>2 DEF CommitRun, TableType
  <2>4. OperatorType'
    BY <1>0, <1>3 DEF CommitRun, OperatorType, editing
  <2> QED
    BY <2>1, <2>3, <2>4, WriteTypes, TypePartsPrimed
<1>4. ASSUME NEW o \in Operators, NEW row \in Rows, GetIncident(o, row)
      PROVE  TypeOK'
  <2>1. [row |-> row, was |-> incidents[row]] \in [row : Rows, was : IncidentRow]
    BY <1>0 DEF TableType
  <2>2. updates' \in 0..MaxUpdates
    BY <1>0, <1>4, CodesAreGiven DEF GetIncident, OperatorType
  <2>3. OperatorType'
    BY <1>0, <1>4, <2>1, <2>2 DEF GetIncident, OperatorType
  <2>4. TableType' /\ ReaderType'
    BY <1>0, <1>4 DEF GetIncident, tables, reading, TableType, ReaderType
  <2> QED
    BY <2>3, <2>4, TypePartsPrimed
<1>5. ASSUME NEW o \in Operators, NEW status \in UpdateStatuses, UpdateIncident(o, status)
      PROVE  TypeOK'
  <2> DEFINE row == saw[o].row
             was == saw[o].was
             new == [status |-> Written(incidents[row].status, was.status, status),
                     stamped |-> IF Stamped(status, was.stamped) THEN TRUE
                                 ELSE Written(incidents[row].stamped, was.stamped, FALSE)]
  <2>1. row \in Rows /\ was \in IncidentRow
    BY <1>0, <1>5 DEF UpdateIncident, OperatorType
  <2>2. incidents[row] \in IncidentRow
    BY <1>0, <2>1 DEF TableType
  <2>3. new.status \in {"none", "open"} \union UpdateStatuses
    BY <2>2 DEF IncidentRow, Written
  <2>4. new.stamped \in BOOLEAN
    BY <2>2 DEF IncidentRow, Written
  <2>5. new \in IncidentRow
    BY <2>3, <2>4 DEF IncidentRow
  <2>6. incidents' = [incidents EXCEPT ![row] = new]
    BY <1>5 DEF UpdateIncident
  <2>7. raced' \subseteq Rows
    BY <1>0, <1>5, <2>1 DEF UpdateIncident, OperatorType
  <2> HIDE DEF row, was, new
  <2>8. incidents' \in [Rows -> IncidentRow] /\ now' \in 0..MaxTime
    BY <1>0, <1>5, <2>5, <2>6 DEF UpdateIncident, TableType
  <2>9. OperatorType'
    BY <1>0, <1>5, <2>7 DEF UpdateIncident, OperatorType
  <2>10. Writes
    BY <1>5 DEF UpdateIncident, Writes
  <2> QED
    BY <2>8, <2>9, <2>10, WriteTypes, TypePartsPrimed
<1>6. Tick => TypeOK'
  <2> HAVE Tick
  <2>1. now' \in 0..MaxTime
    BY <1>0, CodesAreGiven DEF Tick, TableType
  <2>2. TableType'
    BY <1>0, <2>1 DEF Tick, TableType
  <2>3. ReaderType' /\ OperatorType'
    BY <1>0 DEF Tick, reading, editing, ReaderType, OperatorType
  <2> QED
    BY <2>2, <2>3, TypePartsPrimed
<1>7. UNCHANGED vars => TypeOK'
  <2> HAVE UNCHANGED vars
  <2>1. TableType' /\ ReaderType' /\ OperatorType'
    BY <1>0 DEF vars, tables, reading, editing, TableType, ReaderType, OperatorType
  <2> QED
    BY <2>1, TypePartsPrimed
<1> QED
  BY <1>1, <1>2, <1>3, <1>4, <1>5, <1>6, <1>7 DEF Next

(* Every step keeps a reader within its script.                           *)
LEMMA NextInScript ==
  ASSUME TypeOK, \A r \in Readers : InScript(r), [Next]_vars
  PROVE  \A r \in Readers : InScript(r)'
<1> SUFFICES ASSUME NEW q \in Readers PROVE InScript(q)'
  OBVIOUS
<1>0. ReaderType /\ InScript(q)
  BY TypeParts
<1>1. ASSUME NEW r \in Readers, Ask(r)
      PROVE  InScript(q)'
  <2>1. CASE q = r
    <3>1. got'[q] = <<>> /\ report'[q] = report[q] /\ outcome'[q] = "reading"
      BY <1>0, <1>1, <2>1, AskEffect DEF InScript, ReaderType
    <3>2. report[q] \in Reports
      BY <1>0 DEF ReaderType
    <3>3. Len(Script(report[q])) > 0 /\ Script(report'[q]) = Script(report[q])
      BY <3>1, <3>2, ScriptShape
    <3>4. Len(got'[q]) = 0
      BY <3>1
    <3> QED
      BY <3>1, <3>3, <3>4 DEF InScript
  <2>2. CASE q # r
    <3>1. got'[q] = got[q] /\ report'[q] = report[q] /\ outcome'[q] = outcome[q]
      BY <1>0, <1>1, <2>2, AskEffect DEF ReaderType
    <3> QED
      BY <1>0, <3>1 DEF InScript, Script
  <2> QED
    BY <2>1, <2>2
<1>2. ASSUME NEW r \in Readers, Select(r)
      PROVE  InScript(q)'
  <2>1. PICK n \in Nat, z \in Outcomes \ {"asking"} :
             /\ got' = [got EXCEPT ![r] = Append(got[r], n)]
             /\ outcome' = [outcome EXCEPT ![r] = z]
             /\ z = "reading" => Len(got[r]) + 1 # Len(Script(report[r]))
             /\ outcome[r] = "reading" /\ report' = report
    BY <1>2, SelectEffect
  <2>2. Script(report'[q]) = Script(report[q])
    BY <2>1
  <2>3. CASE q = r
    <3>1. Len(Script(report[q])) \in Nat /\ got[q] \in Seq(Nat)
      BY <1>0, ScriptShape DEF ReaderType
    <3>2. got'[q] = Append(got[q], n) /\ outcome'[q] = z
      BY <1>0, <2>1, <2>3 DEF ReaderType
    <3>3. Len(got'[q]) = Len(got[q]) + 1
      BY <3>1, <3>2
    <3>4. Len(got[q]) < Len(Script(report[q]))
      BY <1>0, <2>1, <2>3 DEF InScript
    <3>5. Len(got'[q]) <= Len(Script(report[q]))
          /\ (z = "reading" => Len(got'[q]) < Len(Script(report[q])))
      BY <2>1, <2>3, <3>1, <3>3, <3>4
    <3> QED
      BY <2>2, <3>2, <3>5 DEF InScript
  <2>4. CASE q # r
    <3>1. got'[q] = got[q] /\ outcome'[q] = outcome[q]
      BY <1>0, <2>1, <2>4 DEF ReaderType
    <3> QED
      BY <1>0, <2>2, <3>1 DEF InScript
  <2> QED
    BY <2>3, <2>4
<1>3. Writes => InScript(q)'
  BY <1>0 DEF Writes, InScript, Script
<1> QED
  BY <1>1, <1>2, <1>3, StepKinds

(* Types and places together. *)
ReadingInv == TypeOK /\ \A r \in Readers : InScript(r)

(* So do both together.                                                   *)
LEMMA ReadingStep ==
  ASSUME ReadingInv, [Next]_vars
  PROVE  ReadingInv'
BY NextTypes, NextInScript DEF ReadingInv

(* The types of Dashboards' variables, which the readers' places in their   *)
(* scripts keep: every SELECT by a version has one to go by.               *)
THEOREM DashboardTypes == Spec => []TypeOK
<1>1. Init => ReadingInv
  BY InitTypes DEF ReadingInv
<1>2. ReadingInv /\ [Next]_vars => ReadingInv'
  BY ReadingStep
<1>3. ReadingInv => TypeOK
  BY DEF ReadingInv
<1> QED
  BY <1>1, <1>2, <1>3, PTL DEF Spec

-----------------------------------------------------------------------------
(* Incidents are stamped. *)

(* Every step keeps resolutions stamped.                                  *)
LEMMA StampStep ==
  ASSUME TypeOK, ResolutionIsStamped, [Next]_vars
  PROVE  ResolutionIsStamped'
<1>0. TableType /\ OperatorType
  BY TypeParts
<1> SUFFICES ASSUME NEW row \in Rows, row \notin raced'
             PROVE  incidents'[row].stamped <=> incidents'[row].status \in ClosedStatuses
  BY DEF ResolutionIsStamped
<1> DEFINE Kept == incidents'[row] = incidents[row] /\ raced \subseteq raced'
<1>1. Kept => (incidents'[row].stamped <=> incidents'[row].status \in ClosedStatuses)
  BY DEF ResolutionIsStamped
<1>2. ASSUME NEW r \in Readers, Ask(r) \/ Select(r)
      PROVE  Kept
  BY <1>2 DEF Ask, Select, tables, editing
<1>3. ASSUME NEW c \in Codes, NEW verdict \in Verdicts, NEW failures \in BOOLEAN,
             NEW version \in 1..MaxRuns, CommitRun(c, verdict, failures, version)
      PROVE  incidents'[row].stamped <=> incidents'[row].status \in ClosedStatuses
  <2>1. raced' = raced
    BY <1>3 DEF CommitRun, editing
  <2>2. incidents'[row] = incidents[row]
        \/ incidents'[row] = [status |-> "open", stamped |-> FALSE]
    BY <1>0, <1>3 DEF CommitRun, TableType
  <2>3. "open" \notin ClosedStatuses
    BY DashboardAssumption
  <2>4. CASE incidents'[row] = incidents[row]
    BY <1>1, <2>1, <2>4
  <2>5. CASE incidents'[row] = [status |-> "open", stamped |-> FALSE]
    BY <2>3, <2>5
  <2> QED
    BY <2>2, <2>4, <2>5
<1>4. ASSUME NEW o \in Operators, NEW status \in UpdateStatuses, UpdateIncident(o, status)
      PROVE  incidents'[row].stamped <=> incidents'[row].status \in ClosedStatuses
  <2> DEFINE was == saw[o].was
             new == [status |-> Written(incidents[row].status, was.status, status),
                     stamped |-> IF Stamped(status, was.stamped) THEN TRUE
                                 ELSE Written(incidents[row].stamped, was.stamped, FALSE)]
  <2>1. raced' = IF incidents[saw[o].row] # was THEN raced \union {saw[o].row} ELSE raced
    BY <1>4 DEF UpdateIncident
  <2>2. CASE row # saw[o].row
    <3>1. Kept
      BY <1>0, <1>4, <2>1, <2>2 DEF UpdateIncident, TableType
    <3> QED
      BY <1>1, <3>1
  <2>3. CASE row = saw[o].row
    <3>1. incidents[row] = was
      BY <2>1, <2>3
    <3>2. incidents'[row] = new
      BY <1>0, <1>4, <2>3 DEF UpdateIncident, TableType
    <3>3. was.stamped \in BOOLEAN
      BY <1>0, <3>1 DEF TableType, IncidentRow
    <3>4. new.status = status
      BY <3>1 DEF Written
    <3>5. new.stamped <=> status \in ClosedStatuses
      BY <3>1, <3>3 DEF Written, Stamped
    <3> HIDE DEF new
    <3> QED
      BY <3>2, <3>4, <3>5
  <2> QED
    BY <2>2, <2>3
<1>5. ASSUME NEW o \in Operators, NEW other \in Rows, GetIncident(o, other)
      PROVE  Kept
  BY <1>5 DEF GetIncident, tables
<1>6. Tick \/ UNCHANGED vars => Kept
  BY DEF Tick, vars, tables, editing
<1> QED
  BY <1>1, <1>2, <1>3, <1>4, <1>5, <1>6 DEF Next

(* Through every sequence of updates that do not overlap an incident has a *)
(* time of resolution if and only if it is closed.                          *)
THEOREM ResolutionsAreStamped == Spec => []ResolutionIsStamped
<1>1. Init => ResolutionIsStamped
  BY DashboardAssumption DEF Init, ResolutionIsStamped, NoRow
<1>2. TypeOK /\ ResolutionIsStamped /\ [Next]_vars => ResolutionIsStamped'
  BY StampStep
<1> QED
  BY <1>1, <1>2, DashboardTypes, PTL DEF Spec

-----------------------------------------------------------------------------
(* Runs are only appended, and versions stay good. *)

GoesOn(s, t) ==
  Len(s) <= Len(t) /\ \A i \in 1..Len(s) : t[i] = s[i]

RunsGoOn(r) == \A c \in Codes : GoesOn(start[r][c], runs[c])

(* A writer appends a run to an indicator's list, or none.                *)
LEMMA RunsAreAppended ==
  ASSUME TypeOK, Writes, NEW c \in Codes
  PROVE  /\ GoesOn(runs[c], runs'[c])
         /\ runs'[c] = runs[c] \/ Len(runs'[c]) = Len(runs[c]) + 1
<1>1. runs \in [Codes -> Seq(RunRow)]
  BY TypeParts DEF TableType, History
<1>2. CASE UNCHANGED runs
  BY <1>1, <1>2 DEF GoesOn
<1>3. CASE \E d \in Codes, x \in RunRow : runs' = [runs EXCEPT ![d] = Append(@, x)]
  <2>1. PICK d \in Codes, x \in RunRow : runs' = [runs EXCEPT ![d] = Append(@, x)]
    BY <1>3
  <2>2. CASE c = d
    <3>1. runs'[c] = Append(runs[c], x) /\ runs[c] \in Seq(RunRow)
      BY <1>1, <2>1, <2>2
    <3> QED
      BY <3>1 DEF GoesOn
  <2>3. CASE c # d
    <3>1. runs'[c] = runs[c] /\ runs[c] \in Seq(RunRow)
      BY <1>1, <2>1, <2>3
    <3> QED
      BY <3>1 DEF GoesOn
  <2> QED
    BY <2>2, <2>3
<1> QED
  BY <1>2, <1>3 DEF Writes

(* A list that goes on from another goes on from what that one went on    *)
(* from.                                                                  *)
LEMMA GoesOnIsTransitive ==
  ASSUME NEW s \in Seq(RunRow), NEW t \in Seq(RunRow), NEW u \in Seq(RunRow),
         GoesOn(s, t), GoesOn(t, u)
  PROVE  GoesOn(s, u)
BY DEF GoesOn

(* What was published stays so, what failed too.                          *)
LEMMA GoodStays ==
  ASSUME NEW s \in Seq(RunRow), NEW t \in Seq(RunRow), GoesOn(s, t)
  PROVE  /\ Good(s) \subseteq Good(t) /\ Failed(s) \subseteq Failed(t)
         /\ \A layer : GoodIn(layer, s) \subseteq GoodIn(layer, t)
         /\ \A v : HasFailedChecks(s, v) => HasFailedChecks(t, v)
<1>1. /\ DOMAIN s = 1..Len(s) /\ DOMAIN t = 1..Len(t) /\ DOMAIN s \subseteq DOMAIN t
      /\ \A n \in DOMAIN s : t[n] = s[n]
  BY DEF GoesOn
<1>2. Good(s) \subseteq Good(t) /\ Failed(s) \subseteq Failed(t)
  BY <1>1 DEF Good, Failed
<1>3. Versions(s) \subseteq Versions(t)
  BY <1>1 DEF Versions
<1>4. \A layer : GoodIn(layer, s) \subseteq GoodIn(layer, t)
  BY <1>2, <1>3 DEF GoodIn, Validated
<1>5. \A v : HasFailedChecks(s, v) => HasFailedChecks(t, v)
  BY <1>1 DEF HasFailedChecks
<1> QED
  BY <1>2, <1>4, <1>5

(* The runs go on from those a request started with.                      *)
LEMMA RunsGoOnStep ==
  ASSUME TypeOK, TypeOK', [Next]_vars, NEW q \in Readers, RunsGoOn(q)
  PROVE  RunsGoOn(q)'
<1> SUFFICES ASSUME NEW c \in Codes
             PROVE  GoesOn(start'[q][c], runs'[c])
  BY DEF RunsGoOn
<1>0. /\ start \in [Readers -> History] /\ runs[c] \in Seq(RunRow) /\ runs'[c] \in Seq(RunRow)
      /\ start[q][c] \in Seq(RunRow) /\ GoesOn(start[q][c], runs[c])
  BY TypeParts, TypePartsPrimed DEF ReaderType, TableType, History, RunsGoOn
<1>1. ASSUME NEW r \in Readers, Ask(r)
      PROVE  GoesOn(start'[q][c], runs'[c])
  <2>1. runs' = runs /\ start' = [start EXCEPT ![r] = runs]
    BY <1>1, AskEffect DEF tables
  <2>2. start'[q][c] = runs[c] \/ start'[q][c] = start[q][c]
    BY <1>0, <2>1
  <2>3. GoesOn(runs[c], runs[c])
    BY <1>0 DEF GoesOn
  <2> QED
    BY <1>0, <2>1, <2>2, <2>3
<1>2. ASSUME NEW r \in Readers, Select(r)
      PROVE  GoesOn(start'[q][c], runs'[c])
  BY <1>0, <1>2 DEF Select, tables
<1>3. ASSUME Writes
      PROVE  GoesOn(start'[q][c], runs'[c])
  <2>1. start' = start /\ GoesOn(runs[c], runs'[c])
    BY <1>3, RunsAreAppended DEF Writes
  <2> QED
    BY <1>0, <2>1, GoesOnIsTransitive
<1> QED
  BY <1>1, <1>2, <1>3, StepKinds

(* What a SELECT for a version returned is a good version, and no version   *)
(* that was good before the reading began is newer.                        *)
GoodAndCurrent(layer, n, before, s) ==
  /\ n # 0 => n \in Good(s)
  /\ \A k \in GoodIn(layer, before) : k <= n

(* The statements that select such a version. *)
SelectsGood == {"version", "last good"}

VersionsKept(r) ==
  \A i \in 1..Len(got[r]) : LET s == Script(report[r])[i] IN
    s.what \in SelectsGood =>
      GoodAndCurrent(report[r], got[r][i], start[r][s.code], runs[s.code])

(* The version a SELECT finds is published, and as new as any from before *)
(* the request.                                                           *)
LEMMA FoundIsGoodAndCurrent ==
  ASSUME NEW s \in Seq(RunRow), NEW before \in Seq(RunRow), GoesOn(before, s), NEW layer
  PROVE  GoodAndCurrent(layer, Newest(GoodIn(layer, s)), before, s)
<1>1. Len(s) \in Nat /\ GoodIn(layer, s) \in SUBSET (1..Len(s))
  BY VersionsAreRuns DEF GoodIn
<1>2. GoodIn(layer, before) \subseteq GoodIn(layer, s)
  BY GoodStays
<1>3. GoodIn(layer, s) \subseteq Good(s)
  BY DEF GoodIn, Validated
<1>4. /\ GoodIn(layer, s) = {} => Newest(GoodIn(layer, s)) = 0
      /\ GoodIn(layer, s) # {} => /\ Newest(GoodIn(layer, s)) \in GoodIn(layer, s)
                                  /\ \A k \in GoodIn(layer, s) : k <= Newest(GoodIn(layer, s))
  BY <1>1, NewestIsNewest
<1> QED
  BY <1>2, <1>3, <1>4, Zenon DEF GoodAndCurrent

(* What is at a place of a list one longer.                               *)
LEMMA AppendedAt ==
  ASSUME NEW g \in Seq(Nat), NEW n \in Nat
  PROVE  /\ Append(g, n) \in Seq(Nat) /\ Len(g) \in Nat /\ Len(Append(g, n)) = Len(g) + 1
         /\ \A i \in 1..Len(g) : i \in 1..Len(Append(g, n)) /\ Append(g, n)[i] = g[i]
         /\ Append(g, n)[Len(g) + 1] = n
         /\ \A i \in 1..Len(Append(g, n)) : i \in 1..Len(g) \/ i = Len(g) + 1
OBVIOUS

(* The places of a summary at which one more result matters.              *)
LEMMA Longer ==
  ASSUME NEW m \in Nat, NEW n \in Nat, n = m + 1
  PROVE  /\ n >= 5 /\ ~(m >= 5) => m + 1 = 5
         /\ n >= 3 /\ ~(m >= 3) => m + 1 = 3
         /\ m + 1 = 6 => n >= 5 /\ n >= 3
OBVIOUS

(* A place of a list is one of a longer one.                              *)
LEMMA PlacesGoOn ==
  ASSUME NEW g \in Seq(Nat), NEW m \in Nat, Len(g) <= m, NEW i \in 1..Len(g)
  PROVE  i \in 1..m
OBVIOUS

(* The empty list has no place.                                           *)
LEMMA EmptyHasNoPlace == 1..Len(<<>>) = {}
OBVIOUS

(* A step keeps the versions found good and current.                      *)
LEMMA VersionsKeptStep ==
  ASSUME ReadingInv, ReadingInv', [Next]_vars, NEW q \in Readers, RunsGoOn(q), VersionsKept(q)
  PROVE  VersionsKept(q)'
<1> SUFFICES ASSUME NEW i \in 1..Len(got'[q]), NEW s, s = Script(report'[q])[i],
                    s.what \in SelectsGood
             PROVE  GoodAndCurrent(report'[q], got'[q][i], start'[q][s.code], runs'[s.code])
  BY DEF VersionsKept, Script, GoodAndCurrent, GoodIn, Good, Validated, Versions
<1> DEFINE c == s.code
<1>0. /\ TypeOK /\ TypeOK' /\ InScript(q) /\ ReaderType /\ InScript(q)'
      /\ report'[q] \in Reports /\ got[q] \in Seq(Nat)
  BY TypeParts, TypePartsPrimed DEF ReadingInv, ReaderType
<1>6. c \in Codes
  <2>1. Len(got'[q]) <= Len(Script(report'[q])) /\ got'[q] \in Seq(Nat)
    BY <1>0, TypePartsPrimed DEF InScript, Script, ReaderType
  <2>2. Len(Script(report'[q])) \in Nat
    BY <1>0, ScriptShape
  <2>3. i \in 1..Len(Script(report'[q]))
    BY <2>1, <2>2, PlacesGoOn
  <2> QED
    BY <1>0, <2>3, PlaceInScript DEF Statements
<1> HIDE DEF c
<1>7. /\ runs[c] \in Seq(RunRow) /\ runs'[c] \in Seq(RunRow) /\ start[q][c] \in Seq(RunRow)
      /\ GoesOn(start[q][c], runs[c])
  BY <1>0, <1>6, TypeParts, TypePartsPrimed DEF ReaderType, TableType, History, RunsGoOn
<1> SUFFICES GoodAndCurrent(report'[q], got'[q][i], start'[q][c], runs'[c])
  BY DEF c
<1>8. ASSUME UNCHANGED <<report, got>>
      PROVE  GoodAndCurrent(report[q], got[q][i], start[q][c], runs[c])
  BY <1>8 DEF VersionsKept, c
<1>1. ASSUME NEW r \in Readers, Ask(r)
      PROVE  GoodAndCurrent(report'[q], got'[q][i], start'[q][c], runs'[c])
  <2>1. UNCHANGED <<runs, report, got>> /\ start' = [start EXCEPT ![r] = runs] /\ outcome[r] = "asking"
    BY <1>0, <1>1, AskEffect DEF tables
  <2>2. CASE q = r
    <3>1. got'[q] = <<>>
      BY <1>0, <2>1, <2>2 DEF InScript
    <3> QED
      BY <3>1, EmptyHasNoPlace, Zenon
  <2>3. CASE q # r
    <3>1. start'[q] = start[q]
      BY <1>0, <2>1, <2>3 DEF ReaderType
    <3> QED
      BY <1>8, <2>1, <3>1, Zenon
  <2> QED
    BY <2>2, <2>3
<1>2. ASSUME NEW r \in Readers, Select(r)
      PROVE  GoodAndCurrent(report'[q], got'[q][i], start'[q][c], runs'[c])
  <2>1. PICK n \in Nat :
          /\ n = Result(r, Len(got[r]) + 1)
          /\ got' = [got EXCEPT ![r] = Append(got[r], n)]
          /\ UNCHANGED <<runs, report, start>>
    BY <1>0, <1>2, SelectEffect DEF tables, ReadingInv
  <2>2. CASE i \in 1..Len(got[q]) /\ got'[q][i] = got[q][i]
    <3>1. GoodAndCurrent(report[q], got[q][i], start[q][c], runs[c])
      BY <2>1, <2>2 DEF VersionsKept, c
    <3> QED
      BY <2>1, <2>2, <3>1, Zenon
  <2>3. CASE q = r /\ got'[q][i] = n /\ i = Len(got[q]) + 1
    <3>1. s = Script(report[r])[i] /\ i = Len(got[r]) + 1
      BY <2>1, <2>3, Zenon
    <3>2. n = Newest(GoodIn(report[r], runs[c]))
      BY <2>1, <3>1 DEF Result, c, SelectsGood
    <3> QED
      BY <1>7, <2>1, <2>3, <3>2, FoundIsGoodAndCurrent
  <2>4. CASE q # r
    <3>1. got'[q] = got[q]
      BY <1>0, <2>1, <2>4 DEF ReaderType
    <3> QED
      BY <2>2, <3>1, Zenon
  <2>5. CASE q = r
    <3>1. got'[q] = Append(got[q], n)
      BY <1>0, <2>1, <2>5 DEF ReaderType
    <3>2. i \in 1..Len(Append(got[q], n))
      BY <3>1, Zenon
    <3>3. /\ \A j \in 1..Len(got[q]) : Append(got[q], n)[j] = got[q][j]
          /\ Append(got[q], n)[Len(got[q]) + 1] = n
          /\ i \in 1..Len(got[q]) \/ i = Len(got[q]) + 1
      BY <1>0, <3>2, AppendedAt
    <3> QED
      BY <2>2, <2>3, <2>5, <3>1, <3>3, Zenon
  <2> QED
    BY <2>4, <2>5
<1>3. ASSUME Writes
      PROVE  GoodAndCurrent(report'[q], got'[q][i], start'[q][c], runs'[c])
  <2>1. UNCHANGED <<report, got, start>> /\ GoesOn(runs[c], runs'[c])
    BY <1>0, <1>3, <1>6, RunsAreAppended DEF Writes
  <2>2. GoodAndCurrent(report[q], got[q][i], start[q][c], runs[c])
    BY <1>8, <2>1
  <2>3. Good(runs[c]) \subseteq Good(runs'[c])
    BY <1>7, <2>1, GoodStays
  <2> QED
    BY <2>1, <2>2, <2>3 DEF GoodAndCurrent
<1> QED
  BY <1>0, <1>1, <1>2, <1>3, StepKinds


-----------------------------------------------------------------------------
(* Incidents are seen. *)

FollowsIncidents(r) ==
  outcome[r] = "reading" => throughout[r] \subseteq Watched(r) /\ Watched(r) \subseteq ever[r]

(* Whether the count n shows the incidents of r. *)
Shows(r, n) == (throughout[r] # {} => n > 0) /\ (n > 0 => ever[r] # {})

CountsIncidents(r) ==
  outcome[r] = "reading" /\ report[r] \in {"silver", "gold"} /\ Len(got[r]) >= 5 =>
    Shows(r, got[r][5])

TellsIncidents(r) ==
  outcome[r] \in Healths =>
    /\ throughout[r] # {} => outcome[r] = "critical"
    /\ outcome[r] = "critical" => ever[r] # {}

IncidentInv(r) == FollowsIncidents(r) /\ CountsIncidents(r) /\ TellsIncidents(r)

(* Critical is what has open critical incidents.                          *)
LEMMA CriticalIsCounted ==
  ASSUME NEW s
  PROVE  /\ Health(Subject, s) = "critical" <=> s[5] > 0
         /\ QualityStatus(Subject, s) = "critical" <=> s[3] > 0
<1>1. Health(Subject, s) = "critical" <=> s[5] > 0
  <2>1. CASE s[5] > 0
    BY <2>1 DEF Health
  <2>2. CASE ~(s[5] > 0)
    BY <2>2 DEF Health
  <2> QED
    BY <2>1, <2>2
<1>2. QualityStatus(Subject, s) = "critical" <=> s[3] > 0
  <2>1. CASE s[3] > 0
    BY <2>1 DEF QualityStatus
  <2>2. CASE ~(s[3] > 0)
    BY <2>2 DEF QualityStatus
  <2> QED
    BY <2>1, <2>2
<1> QED
  BY <1>1, <1>2

(* A request watches the incidents that it counts.                        *)
LEMMA WatchedIsCounted ==
  ASSUME NEW r
  PROVE  /\ report[r] \in {"silver", "indicator"} => Watched(r) = Open(Subject)
         /\ report[r] = "gold" => Watched(r) = {}
BY DEF Watched, Open, Subject

(* The SELECT at i of a summary or an indicator counts what is watched.    *)
LEMMA CountOfIncidents ==
  ASSUME NEW r \in Readers, NEW i, FollowsIncidents(r), outcome[r] = "reading",
         \/ report[r] \in {"silver", "gold"} /\ i = 5
         \/ report[r] = "indicator" /\ i = 3
  PROVE  Shows(r, Result(r, i))
<1>1. Script(report[r])[i] = Statement("incidents", Subject, 1)
  BY SummaryShape, IndicatorShape
<1>2. Script(report[r])[i].what = "incidents" /\ Script(report[r])[i].code = Subject
  BY <1>1, FieldsOfStatement
<1>3. Result(r, i) = IF report[r] = "gold" THEN 0 ELSE Cardinality(Open(Subject))
  BY <1>2 DEF Result
<1>4. Cardinality(Open(Subject)) > 0 <=> Open(Subject) # {}
  BY OpenAreCounted, CodesAreGiven
<1>5. Result(r, i) > 0 <=> Watched(r) # {}
  <2>1. CASE report[r] = "gold"
    <3>1. Result(r, i) = 0 /\ Watched(r) = {}
      BY <1>3, <2>1, WatchedIsCounted
    <3> QED
      BY <3>1
  <2>2. CASE report[r] \in {"silver", "indicator"}
    <3>1. Result(r, i) = Cardinality(Open(Subject)) /\ Watched(r) = Open(Subject)
      BY <1>3, <2>2, WatchedIsCounted
    <3> QED
      BY <1>4, <3>1
  <2> QED
    BY <2>1, <2>2
<1>6. throughout[r] \subseteq Watched(r) /\ Watched(r) \subseteq ever[r]
  BY DEF FollowsIncidents
<1> QED
  BY <1>5, <1>6 DEF Shows

(* A request that comes keeps what is known of the incidents counted.     *)
LEMMA IncidentsAtAsk ==
  ASSUME ReadingInv, NEW q \in Readers, IncidentInv(q), NEW r \in Readers, Ask(r)
  PROVE  IncidentInv(q)'
<1>0. ReaderType /\ InScript(r) /\ TypeOK
  BY TypeParts DEF ReadingInv
<1>1. /\ UNCHANGED <<incidents, report, got>> /\ outcome[r] = "asking"
      /\ outcome' = [outcome EXCEPT ![r] = "reading"]
      /\ throughout' = [throughout EXCEPT ![r] = Watched(r)]
      /\ ever' = [ever EXCEPT ![r] = Watched(r)]
  BY <1>0, AskEffect DEF tables
<1>2. Watched(q)' = Watched(q)
  BY <1>1 DEF Watched
<1>3. CASE q = r
  <2>1. outcome'[q] = "reading" /\ throughout'[q] = Watched(q) /\ ever'[q] = Watched(q)
    BY <1>0, <1>1, <1>3 DEF ReaderType
  <2>3. got'[q] = <<>>
    BY <1>0, <1>1, <1>3 DEF InScript
  <2>4. ~(Len(got'[q]) >= 5)
    BY <2>3
  <2>5. "reading" \notin Healths
    BY DEF Healths
  <2>6. FollowsIncidents(q)'
    BY <1>1, <1>2, <2>1 DEF FollowsIncidents
  <2>7. CountsIncidents(q)' /\ TellsIncidents(q)'
    BY <2>1, <2>4, <2>5 DEF CountsIncidents, TellsIncidents
  <2> QED
    BY <2>6, <2>7 DEF IncidentInv
<1>4. CASE q # r
  <2>1. outcome'[q] = outcome[q] /\ throughout'[q] = throughout[q] /\ ever'[q] = ever[q]
    BY <1>0, <1>1, <1>4 DEF ReaderType
  <2> QED
    BY <1>1, <1>2, <2>1
    DEF IncidentInv, FollowsIncidents, CountsIncidents, TellsIncidents, Shows
<1> QED
  BY <1>3, <1>4

(* So does a SELECT.                                                      *)
LEMMA IncidentsAtSelect ==
  ASSUME ReadingInv, NEW q \in Readers, IncidentInv(q), NEW r \in Readers, Select(r)
  PROVE  IncidentInv(q)'
<1>0. ReaderType /\ InScript(q) /\ InScript(r) /\ TypeOK
  BY TypeParts DEF ReadingInv
<1>1. PICK n \in Nat, z \in Outcomes \ {"asking"} :
        /\ n = Result(r, Len(got[r]) + 1)
        /\ got' = [got EXCEPT ![r] = Append(got[r], n)]
        /\ outcome' = [outcome EXCEPT ![r] = z]
        /\ z \in Healths => /\ z = Answer(r, Append(got[r], n))
                            /\ Len(got[r]) + 1 = Len(Script(report[r]))
        /\ outcome[r] = "reading" /\ UNCHANGED <<incidents, report, throughout, ever>>
  BY <1>0, SelectEffect DEF tables
<1>2. Watched(q)' = Watched(q)
  BY <1>1 DEF Watched
<1>3. CASE q # r
  <2>1. outcome'[q] = outcome[q] /\ got'[q] = got[q]
    BY <1>0, <1>1, <1>3 DEF ReaderType
  <2> QED
    BY <1>1, <1>2, <2>1
    DEF IncidentInv, FollowsIncidents, CountsIncidents, TellsIncidents, Shows
<1>4. CASE q = r
  <2> DEFINE g == got[q]
             h == Append(got[q], n)
  <2>1. got'[q] = h /\ outcome'[q] = z /\ g \in Seq(Nat)
    BY <1>0, <1>1, <1>4 DEF ReaderType
  <2>2. /\ Len(h) = Len(g) + 1 /\ Len(g) \in Nat /\ Len(h) \in Nat
        /\ \A k \in 1..Len(g) : h[k] = g[k]
        /\ h[Len(g) + 1] = n
    BY <2>1
  <2>3. FollowsIncidents(q) /\ CountsIncidents(q) /\ outcome[q] = "reading"
    BY <1>1, <1>4 DEF IncidentInv
  <2> HIDE DEF g, h
  <2>4. ASSUME report[q] \in {"silver", "gold"}, Len(h) >= 5
        PROVE  Shows(q, h[5])
    <3>1. CASE Len(g) >= 5
      <4>1. h[5] = g[5]
        BY <2>2, <3>1
      <4>2. Shows(q, g[5])
        BY <2>3, <2>4, <3>1 DEF CountsIncidents, g
      <4> QED
        BY <4>1, <4>2
    <3>2. CASE ~(Len(g) >= 5)
      <4>2. Len(g) + 1 = 5
        BY <2>2, <2>4, <3>2, Longer, Zenon
      <4>3. n = Result(q, 5)
        BY <1>1, <1>4, <4>2 DEF g
      <4>4. h[5] = n
        BY <2>2, <4>2
      <4> QED
        BY <2>3, <2>4, <4>3, <4>4, CountOfIncidents
    <3> QED
      BY <3>1, <3>2
  <2>5. ASSUME z \in Healths
        PROVE  (throughout[q] # {} => z = "critical") /\ (z = "critical" => ever[q] # {})
    <3>1. z = Answer(q, h) /\ Len(g) + 1 = Len(Script(report[q]))
      BY <1>1, <1>4, <2>5 DEF g, h
    <3>2. CASE report[q] \in {"silver", "gold"}
      <4>1. Len(Script(report[q])) = 6
        BY <3>2, SummaryShape
      <4>5. Len(g) + 1 = 6
        BY <3>1, <3>2, <4>1
      <4>2. Len(h) >= 5
        BY <2>2, <4>5, Longer, Zenon
      <4>3. Shows(q, h[5])
        BY <2>4, <3>2, <4>2
      <4>4. z = Health(Subject, h)
        BY <3>1, <3>2 DEF Answer, Subject
      <4> QED
        BY <4>3, <4>4, CriticalIsCounted DEF Shows
    <3>3. CASE report[q] = "indicator"
      <4>1. Len(Script("indicator")) = 3
        BY IndicatorShape
      <4>2. Len(g) + 1 = 3
        BY <3>1, <3>3, <4>1
      <4>3. n = Result(q, 3)
        BY <1>1, <1>4, <4>2 DEF g
      <4>4. h[3] = n
        BY <2>2, <4>2
      <4>5. Shows(q, h[3])
        BY <2>3, <3>3, <4>3, <4>4, CountOfIncidents
      <4>6. z = QualityStatus(Subject, h)
        BY <3>1, <3>3 DEF Answer, Subject
      <4> QED
        BY <4>5, <4>6, CriticalIsCounted DEF Shows
    <3>4. CASE report[q] \notin {"silver", "gold", "indicator"}
      <4>1. z = "200"
        BY <3>1, <3>4 DEF Answer
      <4> QED
        BY <2>5, <4>1 DEF Healths
    <3> QED
      BY <3>2, <3>3, <3>4
  <2>6. FollowsIncidents(q)'
    BY <1>1, <1>2, <2>3 DEF FollowsIncidents
  <2>7. CountsIncidents(q)'
    BY <1>1, <2>1, <2>4 DEF CountsIncidents, Shows
  <2>8. TellsIncidents(q)'
    BY <1>1, <2>1, <2>5 DEF TellsIncidents
  <2> QED
    BY <2>6, <2>7, <2>8 DEF IncidentInv
<1> QED
  BY <1>3, <1>4

(* So does a writer.                                                      *)
LEMMA IncidentsAtWrite ==
  ASSUME ReadingInv, NEW q \in Readers, IncidentInv(q), Writes
  PROVE  IncidentInv(q)'
<1>1. UNCHANGED <<report, got, outcome>> /\ (Observe \/ UNCHANGED <<incidents, throughout, ever>>)
  BY DEF Writes
<1>2. CASE UNCHANGED <<incidents, throughout, ever>>
  <2>1. Watched(q)' = Watched(q)
    BY <1>1, <1>2 DEF Watched
  <2> QED
    BY <1>1, <1>2, <2>1
    DEF IncidentInv, FollowsIncidents, CountsIncidents, TellsIncidents, Shows
<1>3. CASE Observe
  <2>1. /\ throughout'[q] = IF outcome[q] = "reading" THEN throughout[q] \intersect Watched(q)'
                            ELSE throughout[q]
        /\ ever'[q] = IF outcome[q] = "reading" THEN ever[q] \union Watched(q)' ELSE ever[q]
    BY <1>3 DEF Observe
  <2>2. FollowsIncidents(q)'
    BY <1>1, <2>1 DEF FollowsIncidents
  <2>3. throughout'[q] \subseteq throughout[q] /\ ever[q] \subseteq ever'[q]
    BY <2>1
  <2>4. CountsIncidents(q)'
    BY <1>1, <2>3 DEF IncidentInv, CountsIncidents, Shows
  <2>5. outcome[q] \in Healths => throughout'[q] = throughout[q] /\ ever'[q] = ever[q]
    BY <2>1 DEF Healths
  <2>6. TellsIncidents(q)'
    BY <1>1, <2>5 DEF IncidentInv, TellsIncidents
  <2> QED
    BY <2>2, <2>4, <2>6 DEF IncidentInv
<1> QED
  BY <1>1, <1>2, <1>3

-----------------------------------------------------------------------------
(* Failures are seen. *)

LastRunIsKnown(r) ==
  outcome[r] = "reading" /\ report[r] = "silver" /\ Len(got[r]) >= 3
  /\ Failed(start[r][Subject]) # {} => got[r][3] \in Failed(runs[Subject])

TellsFailure(r) ==
  report[r] = "silver" /\ outcome[r] = "healthy" =>
    Failed(start[r][Subject]) = {} /\ ~HasFailedChecks(start[r][Subject], got[r][1])

FailureInv(r) == LastRunIsKnown(r) /\ TellsFailure(r)

(* A data set is healthy if neither its last run nor a check failed.      *)
LEMMA HealthyHasNoFailure ==
  ASSUME NEW s, Health(Subject, s) = "healthy"
  PROVE  /\ ~(s[6] > 0)
         /\ ~(s[3] # 0 /\ runs[Subject][s[3]].verdict = "rejected")
<1>1. CASE s[6] > 0
  BY <1>1 DEF Health
<1>2. CASE s[3] # 0 /\ runs[Subject][s[3]].verdict = "rejected"
  BY <1>2 DEF Health
<1> QED
  BY <1>1, <1>2

(* A failed run is rejected, and has a place.                             *)
LEMMA FailedIsRejected ==
  ASSUME NEW s \in Seq(RunRow), NEW n \in Failed(s)
  PROVE  n # 0 /\ s[n].verdict = "rejected"
<1>1. n \in 1..Len(s)
  BY VersionsAreRuns
<1> QED
  BY <1>1 DEF Failed, Good

(* The third SELECT of a silver summary finds a failed run if there is one. *)
LEMMA ThirdFindsFailure ==
  ASSUME NEW r \in Readers, report[r] = "silver", runs[Subject] \in Seq(RunRow),
         Failed(runs[Subject]) # {}
  PROVE  Result(r, 3) \in Failed(runs[Subject])
<1>1. Script(report[r])[3] = Statement("last run", Subject, 1)
  BY SummaryShape
<1>2. PICK name, s : name = "last run" /\ s = Script(report[r])[3]
  OBVIOUS
<1>3. s = Statement(name, Subject, 1)
  BY <1>1, <1>2
<1>4. s.what = name /\ s.code = Subject
  BY <1>3, FieldsOfStatement
<1>5. Result(r, 3) = Newest(Failed(runs[Subject]))
  BY <1>2, <1>4 DEF Result, RunsIn, Failed
<1>6. Failed(runs[Subject]) \in SUBSET (1..Len(runs[Subject])) /\ Len(runs[Subject]) \in Nat
  BY VersionsAreRuns
<1> QED
  BY <1>5, <1>6, NewestIsNewest

(* Its sixth tells a failed check of the version that its first found.     *)
LEMMA SixthFindsFailure ==
  ASSUME NEW r \in Readers, report[r] = "silver", HasFailedChecks(runs[Subject], got[r][1])
  PROVE  Result(r, 6) = 1
<1> DEFINE s == Script(report[r])
<1>1. /\ s[1] = Statement("latest", Subject, 1) /\ s[6] = Statement("failed checks", Subject, 1)
      /\ \A i \in 2..6 : s[i].what # "latest"
  BY SummaryShape
<1> HIDE DEF s
<1>2. PICK last : last = s[6]
  OBVIOUS
<1>9. PICK name : name = "failed checks"
  OBVIOUS
<1>10. last = Statement(name, Subject, 1)
  BY <1>1, <1>2, <1>9
<1>3. last.what = name /\ last.code = Subject /\ last.part = 1
  BY <1>10, FieldsOfStatement
<1>4. s[1] = Statement("latest", last.code, last.part)
  BY <1>1, <1>3
<1>5. ASSUME NEW x \in 1..(6 - 1), s[x] = Statement("latest", Subject, 1)
      PROVE  x = 1
  <2>1. s[x].what = "latest"
    BY <1>5, FieldsOfStatement
  <2>2. ~(x \in 2..6)
    BY <1>1, <2>1
  <2> QED
    BY <2>2
<1>6. \A x \in 1..(6 - 1) : s[x] = Statement("latest", s[6].code, s[6].part) => x = 1
  BY <1>2, <1>3, <1>5
<1>7. 6 \in Nat /\ 1 \in 1..(6 - 1) /\ s = Script(report[r])
  BY DEF s
<1>8. Returned(r, 6, "latest") = got[r][1]
  BY <1>2, <1>4, <1>6, <1>7, ReturnedAt
<1> QED
  BY <1>2, <1>3, <1>8, <1>9 DEF Result, s

(* A request that comes keeps failures shown.                             *)
LEMMA FailuresAtAsk ==
  ASSUME ReadingInv, NEW q \in Readers, FailureInv(q), NEW r \in Readers, Ask(r)
  PROVE  FailureInv(q)'
<1>0. ReaderType /\ InScript(r) /\ TypeOK
  BY TypeParts DEF ReadingInv
<1>1. /\ UNCHANGED <<runs, report, got>> /\ outcome[r] = "asking"
      /\ outcome' = [outcome EXCEPT ![r] = "reading"] /\ start' = [start EXCEPT ![r] = runs]
  BY <1>0, AskEffect DEF tables
<1>2. CASE q = r
  <2>1. outcome'[q] = "reading"
    BY <1>0, <1>1, <1>2 DEF ReaderType
  <2>2. got'[q] = <<>>
    BY <1>0, <1>1, <1>2 DEF InScript
  <2>3. ~(Len(got'[q]) >= 3)
    BY <2>2
  <2> QED
    BY <2>1, <2>3 DEF FailureInv, LastRunIsKnown, TellsFailure
<1>3. CASE q # r
  <2>1. outcome'[q] = outcome[q] /\ start'[q] = start[q]
    BY <1>0, <1>1, <1>3 DEF ReaderType
  <2> QED
    BY <1>1, <2>1
    DEF FailureInv, LastRunIsKnown, TellsFailure, Subject, Failed, Good, HasFailedChecks
<1> QED
  BY <1>2, <1>3

(* So does a SELECT.                                                      *)
LEMMA FailuresAtSelect ==
  ASSUME ReadingInv, NEW q \in Readers, RunsGoOn(q), FailureInv(q), NEW r \in Readers, Select(r)
  PROVE  FailureInv(q)'
<1>0. ReaderType /\ InScript(q) /\ InScript(r) /\ TypeOK
  BY TypeParts DEF ReadingInv
<1>1. PICK n \in Nat, z \in Outcomes \ {"asking"} :
        /\ n = Result(r, Len(got[r]) + 1)
        /\ got' = [got EXCEPT ![r] = Append(got[r], n)]
        /\ outcome' = [outcome EXCEPT ![r] = z]
        /\ z \in Healths => /\ z = Answer(r, Append(got[r], n))
                            /\ Len(got[r]) + 1 = Len(Script(report[r]))
        /\ outcome[r] = "reading" /\ UNCHANGED <<runs, report, start>>
  BY <1>0, SelectEffect DEF tables
<1>2. CASE q # r
  <2>1. outcome'[q] = outcome[q] /\ got'[q] = got[q]
    BY <1>0, <1>1, <1>2 DEF ReaderType
  <2> QED
    BY <1>1, <2>1
    DEF FailureInv, LastRunIsKnown, TellsFailure, Subject, Failed, Good, HasFailedChecks
<1>3. CASE q = r
  <2> DEFINE g == got[q]
             h == Append(got[q], n)
             first == start[q][Subject]
             all == runs[Subject]
  <2>1. got'[q] = h /\ outcome'[q] = z /\ g \in Seq(Nat)
    BY <1>0, <1>1, <1>3 DEF ReaderType
  <2>2. /\ Len(h) = Len(g) + 1 /\ Len(g) \in Nat /\ Len(h) \in Nat
        /\ \A k \in 1..Len(g) : h[k] = g[k]
        /\ h[Len(g) + 1] = n
    BY <2>1
  <2>3. all \in Seq(RunRow) /\ first \in Seq(RunRow) /\ GoesOn(first, all)
    BY <1>0, CodesAreGiven, TypeParts DEF TableType, ReaderType, History, RunsGoOn
  <2>4. Failed(first) \subseteq Failed(all)
        /\ (\A v : HasFailedChecks(first, v) => HasFailedChecks(all, v))
    BY <2>3, GoodStays
  <2> HIDE DEF g, h, first, all
  <2>5. ASSUME report[q] = "silver", Len(h) >= 3, Failed(first) # {}
        PROVE  h[3] \in Failed(all)
    <3>1. CASE Len(g) >= 3
      <4>1. h[3] = g[3]
        BY <2>2, <3>1
      <4>2. g[3] \in Failed(all)
        BY <1>1, <1>3, <2>5, <3>1 DEF FailureInv, LastRunIsKnown, g, first, all
      <4> QED
        BY <4>1, <4>2
    <3>2. CASE ~(Len(g) >= 3)
      <4>1. Len(g) + 1 = 3
        BY <2>2, <2>5, <3>2, Longer, Zenon
      <4>2. n = Result(q, 3) /\ h[3] = n
        BY <1>1, <1>3, <2>2, <4>1 DEF g
      <4>3. Result(q, 3) \in Failed(all)
        BY <2>3, <2>4, <2>5, ThirdFindsFailure DEF all
      <4> QED
        BY <4>2, <4>3
    <3> QED
      BY <3>1, <3>2
  <2>6. LastRunIsKnown(q)'
    BY <1>1, <2>1, <2>5 DEF LastRunIsKnown, first, all, Subject, Failed, Good
  <2>7. ASSUME report[q] = "silver", z = "healthy"
        PROVE  Failed(first) = {} /\ ~HasFailedChecks(first, h[1])
    <3>1. z = Answer(q, h) /\ Len(g) + 1 = Len(Script(report[q]))
      BY <1>1, <1>3, <2>7 DEF g, h, Healths
    <3>2. Len(Script(report[q])) = 6
      BY <2>7, SummaryShape
    <3>3. Len(g) + 1 = 6
      BY <3>1, <3>2
    <3>4. Len(h) >= 3
      BY <2>2, <3>3, Longer, Zenon
    <3>5. Health(Subject, h) = "healthy"
      BY <2>7, <3>1 DEF Answer, Subject
    <3>6. ~(h[6] > 0) /\ ~(h[3] # 0 /\ all[h[3]].verdict = "rejected")
      BY <3>5, HealthyHasNoFailure DEF all
    <3>7. ASSUME Failed(first) # {}
          PROVE  FALSE
      <4>1. h[3] \in Failed(all)
        BY <2>5, <2>7, <3>4, <3>7
      <4> QED
        BY <2>3, <3>6, <4>1, FailedIsRejected
    <3>8. ASSUME HasFailedChecks(first, h[1])
          PROVE  FALSE
      <4>1. h[1] = g[1]
        BY <2>2, <3>3
      <4>2. HasFailedChecks(all, g[1])
        BY <2>4, <3>8, <4>1
      <4>3. Result(q, 6) = 1
        BY <2>7, <4>2, SixthFindsFailure DEF g, all
      <4>4. h[6] = 1
        BY <1>1, <1>3, <2>2, <3>3, <4>3 DEF g
      <4> QED
        BY <3>6, <4>4
    <3> QED
      BY <3>7, <3>8
  <2>8. TellsFailure(q)'
    BY <1>1, <2>1, <2>7 DEF TellsFailure, first, Subject, Failed, Good, HasFailedChecks
  <2> QED
    BY <2>6, <2>8 DEF FailureInv
<1> QED
  BY <1>2, <1>3

(* So does a writer.                                                      *)
LEMMA FailuresAtWrite ==
  ASSUME ReadingInv, ReadingInv', NEW q \in Readers, FailureInv(q), Writes
  PROVE  FailureInv(q)'
<1>0. /\ TypeOK /\ runs[Subject] \in Seq(RunRow) /\ runs'[Subject] \in Seq(RunRow)
      /\ Subject \in Codes /\ Subject' = Subject
  BY CodesAreGiven, TypeParts, TypePartsPrimed DEF ReadingInv, TableType, History, Subject
<1>1. UNCHANGED <<report, got, outcome, start>>
  BY DEF Writes
<1>2. Failed(runs[Subject]) \subseteq Failed(runs'[Subject])
  BY <1>0, RunsAreAppended, GoodStays
<1>3. TellsFailure(q)'
  BY <1>0, <1>1 DEF FailureInv, TellsFailure, Failed, Good, HasFailedChecks
<1>4. LastRunIsKnown(q)'
  BY <1>0, <1>1, <1>2 DEF FailureInv, LastRunIsKnown, Failed, Good
<1> QED
  BY <1>3, <1>4 DEF FailureInv

-----------------------------------------------------------------------------
(* The invariant of the readers and what follows from it.                  *)

ReaderInv(r) == RunsGoOn(r) /\ VersionsKept(r) /\ IncidentInv(r) /\ FailureInv(r)

DashInv == ReadingInv /\ \A r \in Readers : ReaderInv(r)

(* All of it holds at the start.                                          *)
LEMMA InitReaders == Init => DashInv
<1> SUFFICES ASSUME Init PROVE DashInv
  OBVIOUS
<1>1. ReadingInv
  BY InitTypes DEF ReadingInv
<1>2. ASSUME NEW r \in Readers
      PROVE  ReaderInv(r)
  <2>1. outcome[r] = "asking" /\ got[r] = <<>> /\ start[r] = runs
    BY DEF Init
  <2>2. RunsGoOn(r)
    <3> SUFFICES ASSUME NEW c \in Codes PROVE GoesOn(start[r][c], runs[c])
      BY DEF RunsGoOn
    <3>1. runs[c] \in Seq(RunRow)
      BY <1>1, TypeParts DEF ReadingInv, TableType, History
    <3> QED
      BY <2>1, <3>1 DEF GoesOn
  <2>3. VersionsKept(r)
    BY <2>1, EmptyHasNoPlace, Zenon DEF VersionsKept
  <2>4. IncidentInv(r) /\ FailureInv(r)
    BY <2>1 DEF IncidentInv, FollowsIncidents, CountsIncidents, TellsIncidents, Healths,
                FailureInv, LastRunIsKnown, TellsFailure
  <2> QED
    BY <2>2, <2>3, <2>4 DEF ReaderInv
<1> QED
  BY <1>1, <1>2 DEF DashInv

(* Every step keeps all of it.                                            *)
LEMMA NextReaders == DashInv /\ [Next]_vars => DashInv'
<1> SUFFICES ASSUME DashInv, [Next]_vars PROVE DashInv'
  OBVIOUS
<1>1. ReadingInv /\ ReadingInv' /\ TypeOK /\ TypeOK'
  BY ReadingStep DEF DashInv, ReadingInv
<1>2. ASSUME NEW q \in Readers
      PROVE  ReaderInv(q)'
  <2>1. RunsGoOn(q) /\ VersionsKept(q) /\ IncidentInv(q) /\ FailureInv(q)
    BY DEF DashInv, ReaderInv
  <2>2. RunsGoOn(q)'
    BY <1>1, <2>1, RunsGoOnStep
  <2>3. VersionsKept(q)'
    BY <1>1, <2>1, VersionsKeptStep
  <2>4. IncidentInv(q)'
    BY <1>1, <2>1, StepKinds, IncidentsAtAsk, IncidentsAtSelect, IncidentsAtWrite
  <2>5. FailureInv(q)'
    BY <1>1, <2>1, StepKinds, FailuresAtAsk, FailuresAtSelect, FailuresAtWrite
  <2> QED
    BY <2>2, <2>3, <2>4, <2>5 DEF ReaderInv
<1> QED
  BY <1>1, <1>2 DEF DashInv

(* All of it holds always.                                                *)
LEMMA AlwaysReaders == Spec => []DashInv
BY InitReaders, NextReaders, PTL DEF Spec

(* An incident open from before the first SELECT to the last makes its data *)
(* set critical, whatever commits meanwhile, and nothing else does.        *)
THEOREM OpenIncidentsShow == Spec => []OpenIncidentIsCritical
<1>1. DashInv => OpenIncidentIsCritical
  BY DEF DashInv, ReaderInv, IncidentInv, TellsIncidents, OpenIncidentIsCritical
<1> QED
  BY <1>1, AlwaysReaders, PTL

(* A silver data set is shown healthy only if none of its runs had failed   *)
(* when its summary was asked for, and no check of the version it names:   *)
(* its failed runs stay, so the third SELECT finds one, whatever commits   *)
(* meanwhile, and the failed checks of a version stay too.                 *)
THEOREM FailuresShow == Spec => []FailureShows
<1>1. ASSUME DashInv, NEW r \in Readers, report[r] = "silver", outcome[r] = "healthy"
      PROVE  LET before == start[r][Indicators[1]]
             IN  /\ \A n \in DOMAIN before : before[n].verdict # "rejected"
                 /\ ~HasFailedChecks(before, got[r][1])
  <2>1. Failed(start[r][Subject]) = {} /\ ~HasFailedChecks(start[r][Subject], got[r][1])
    BY <1>1 DEF DashInv, ReaderInv, FailureInv, TellsFailure
  <2> QED
    BY <2>1 DEF Failed, Good, Subject
<1>2. DashInv => FailureShows
  BY <1>1 DEF FailureShows
<1> QED
  BY <1>2, AlwaysReaders, PTL

(* Every version a response names was published, or validated, and none    *)
(* that was before the request is newer.                                   *)
THEOREM LastKnownGoodIsShown == Spec => []VersionsAreGoodAndCurrent
<1>1. ASSUME DashInv, NEW r \in Readers, NEW i, i \in Selected(r, {"version", "last good"})
      PROVE  LET c == Script(report[r])[i].code
                 n == got[r][i]
             IN  /\ n # 0 => runs[c][n].verdict # "rejected"
                 /\ \A k \in GoodIn(report[r], start[r][c]) : k <= n
  <2> DEFINE s == Script(report[r])[i]
             c == s.code
             name == s.what
  <2>1. ReaderType /\ InScript(r) /\ VersionsKept(r)
    BY <1>1, TypeParts DEF DashInv, ReadingInv, ReaderInv
  <2>2. got[r] \in Seq(Nat)
    BY <2>1 DEF ReaderType
  <2>7. i \in DOMAIN got[r] /\ name \in SelectsGood
    BY <1>1, Zenon DEF Selected, SelectsGood
  <2>3. i \in 1..Len(got[r])
    BY <2>2, <2>7
  <2>6. GoodAndCurrent(report[r], got[r][i], start[r][c], runs[c])
    BY <2>1, <2>3, <2>7 DEF VersionsKept
  <2> HIDE DEF s, c, name
  <2> QED
    BY <2>6, <2>7 DEF GoodAndCurrent, Good, s, c, name
<1>2. DashInv => VersionsAreGoodAndCurrent
  BY <1>1 DEF VersionsAreGoodAndCurrent
<1> QED
  BY <1>2, AlwaysReaders, PTL

-----------------------------------------------------------------------------
(* The parts of a report go by one version of each indicator.             *)

(* What goes by a version is of the one selected before it in its context, *)
Follows(s, g) ==
  \A i \in 1..Len(g) : s[i].what \in GoesBy =>
    \A k \in 1..(i - 1) : s[k] = VersionOf(s[i]) => g[i] = g[k]

(* and what is not given up has versions, each with one period. *)
Complete(s, g) ==
  \A i \in 1..Len(g) : /\ s[i].what = "version" => g[i] # 0
                       /\ s[i].what = "observations" => PeriodsOf(s[i].code, g[i]) = 1

PartsFollow(r) ==
  /\ Follows(Script(report[r]), got[r])
  /\ report[r] \in Computed /\ outcome[r] \in {"reading", "200"} =>
       Complete(Script(report[r]), got[r])

AnswersAtTheEnd(r) ==
  /\ outcome[r] \in Healths \union {"200"} => Len(got[r]) = Len(Script(report[r]))
  /\ outcome[r] = "200" => report[r] \in Computed

PartsInv(r) == PartsFollow(r) /\ AnswersAtTheEnd(r)

(* One more result that follows its version.                              *)
LEMMA FollowsMore ==
  ASSUME NEW s \in Seq(Statements), NEW g \in Seq(Nat), NEW n \in Nat, Follows(s, g),
         NEW i, i = Len(g) + 1,
         s[i].what \in GoesBy => \A k \in 1..(i - 1) : s[k] = VersionOf(s[i]) => n = g[k]
  PROVE  Follows(s, Append(g, n))
<1> DEFINE h == Append(g, n)
<1>1. /\ Len(g) \in Nat /\ h[i] = n
      /\ \A j \in 1..Len(g) : h[j] = g[j]
      /\ \A j \in 1..Len(h) : j \in 1..Len(g) \/ j = i
  BY AppendedAt
<1> HIDE DEF h
<1> SUFFICES ASSUME NEW j \in 1..Len(h), s[j].what \in GoesBy,
                    NEW k \in 1..(j - 1), s[k] = VersionOf(s[j])
             PROVE  h[j] = h[k]
  BY DEF Follows, h
<1>2. k \in 1..Len(g)
  BY <1>1
<1>3. CASE j \in 1..Len(g)
  <2>1. g[j] = g[k]
    BY <1>3 DEF Follows
  <2> QED
    BY <1>1, <1>2, <1>3, <2>1
<1>4. CASE j = i
  <2>1. n = g[k]
    BY <1>4
  <2> QED
    BY <1>1, <1>2, <1>4, <2>1
<1> QED
  BY <1>1, <1>3, <1>4

(* One more result that is there, and of one period.                      *)
LEMMA CompleteMore ==
  ASSUME NEW s \in Seq(Statements), NEW g \in Seq(Nat), NEW n \in Nat, Complete(s, g),
         NEW i, i = Len(g) + 1,
         s[i].what = "version" => n # 0,
         s[i].what = "observations" => PeriodsOf(s[i].code, n) = 1
  PROVE  Complete(s, Append(g, n))
<1> DEFINE h == Append(g, n)
<1>1. /\ h[i] = n /\ \A j \in 1..Len(g) : h[j] = g[j]
      /\ \A j \in 1..Len(h) : j \in 1..Len(g) \/ j = i
  BY AppendedAt
<1> HIDE DEF h
<1>2. ASSUME NEW j \in 1..Len(h)
      PROVE  /\ s[j].what = "version" => h[j] # 0
             /\ s[j].what = "observations" => PeriodsOf(s[j].code, h[j]) = 1
  <2>1. CASE j \in 1..Len(g)
    <3>1. h[j] = g[j]
      BY <1>1, <2>1
    <3> QED
      BY <2>1, <3>1 DEF Complete
  <2>2. CASE j = i
    BY <1>1, <2>2
  <2> QED
    BY <1>1, <2>1, <2>2
<1> QED
  BY <1>2 DEF Complete, h

(* What Select leaves of a report that it does not give up.                *)
LEMMA SelectGoesOn ==
  ASSUME TypeOK, NEW r \in Readers, Select(r), InScript(r)
  PROVE  /\ outcome'[r] \in Healths \union {"200"} => Len(got[r]) + 1 = Len(Script(report[r]))
         /\ outcome'[r] = "200" => report[r] \in Computed
         /\ report[r] \in Computed /\ outcome'[r] \in {"reading", "200"} =>
              GivesUp(Script(report[r])[Len(got[r]) + 1], Result(r, Len(got[r]) + 1)) = "reading"
<1> DEFINE i == Len(got[r]) + 1
           n == Result(r, i)
           script == Script(report[r])
           results == Append(got[r], n)
           goesOn == IF report[r] = "indicator" THEN "reading" ELSE GivesUp(script[i], results[i])
           z == IF goesOn # "reading" THEN goesOn
                ELSE IF i = Len(script) THEN Answer(r, results) ELSE "reading"
<1>1. ReaderType /\ n \in Nat
  BY TypeParts, ResultType DEF Select
<1>2. results[i] = n
  BY <1>1 DEF ReaderType
<1>3. outcome' = [outcome EXCEPT ![r] = z]
  BY DEF Select
<1>4. goesOn \in {"422", "409", "reading"} /\ Answer(r, results) \in Healths \union {"200"}
  BY AnswerIsOutcome
<1>5. Answer(r, results) = "200" => report[r] \notin {"silver", "gold", "indicator"}
  <2>1. Health(Subject, results) # "200" /\ QualityStatus(Subject, results) # "200"
    BY DEF Health, QualityStatus
  <2> QED
    BY <2>1 DEF Answer, Subject
<1>6. report[r] \in Reports
  BY <1>1 DEF ReaderType
<1>7. report[r] \in Computed => goesOn = GivesUp(script[i], n)
  BY <1>2 DEF Computed
<1> HIDE DEF i, n, script, results, goesOn
<1>8. outcome'[r] = z
  BY <1>1, <1>3 DEF ReaderType
<1>9. z \in Healths \union {"200"} => i = Len(script) /\ z = Answer(r, results)
  BY <1>4 DEF Healths
<1>10. z \in {"reading", "200"} => goesOn = "reading"
  BY <1>4
<1> HIDE DEF z
<1>11. outcome'[r] = "200" => report[r] \in Computed
  BY <1>5, <1>6, <1>8, <1>9 DEF Computed, Reports
<1>12. report[r] \in Computed /\ outcome'[r] \in {"reading", "200"} => GivesUp(script[i], n) = "reading"
  BY <1>7, <1>8, <1>10
<1> QED
  BY <1>8, <1>9, <1>11, <1>12 DEF i, n, script

(* What is of the results is so of the report.                            *)
LEMMA PartsFollowNext ==
  ASSUME NEW r \in Readers,
         Follows(Script(report'[r]), got'[r]),
         report'[r] \in Computed /\ outcome'[r] \in {"reading", "200"} =>
           Complete(Script(report'[r]), got'[r])
  PROVE  PartsFollow(r)'
BY DEF PartsFollow, Follows, VersionOf, Complete, Script

(* A SELECT keeps every part of its context's version.                    *)
LEMMA PartsAtSelect ==
  ASSUME ReadingInv, NEW r \in Readers, Select(r), PartsInv(r)
  PROVE  PartsInv(r)'
<1> DEFINE s == Script(report[r])
           i == Len(got[r]) + 1
<1>0. TypeOK /\ InScript(r) /\ ReaderType /\ outcome[r] = "reading"
  BY TypeParts DEF ReadingInv, Select
<1>1. PICK n \in Nat : /\ n = Result(r, i) /\ got' = [got EXCEPT ![r] = Append(got[r], n)]
                       /\ report' = report
  BY <1>0, SelectEffect
<1>2. got'[r] = Append(got[r], n) /\ got[r] \in Seq(Nat) /\ report'[r] = report[r]
      /\ report[r] \in Reports
  BY <1>0, <1>1 DEF ReaderType
<1>3. i \in 1..Len(s) /\ s \in Seq(Statements)
  BY <1>0, <1>2, ResultType, ScriptShape DEF Fine
<1>4. Len(got'[r]) = i
  BY <1>2
<1>5. /\ outcome'[r] \in Healths \union {"200"} => i = Len(s)
      /\ outcome'[r] = "200" => report[r] \in Computed
      /\ report[r] \in Computed /\ outcome'[r] \in {"reading", "200"} => GivesUp(s[i], n) = "reading"
  BY <1>0, <1>1, SelectGoesOn
<1>6. Script(report'[r]) = s
  BY <1>2, Zenon
<1>7. AnswersAtTheEnd(r)'
  <2>1. outcome'[r] \in Healths \union {"200"} => Len(got'[r]) = Len(Script(report'[r]))
    BY <1>4, <1>5, <1>6, Zenon
  <2>2. outcome'[r] = "200" => report'[r] \in Computed
    BY <1>2, <1>5
  <2> QED
    BY <2>1, <2>2 DEF AnswersAtTheEnd
<1>8. Follows(s, got[r]) /\ (report[r] \in Computed => Complete(s, got[r]))
  BY <1>0 DEF PartsInv, PartsFollow
<1>9. ASSUME s[i].what \in GoesBy, NEW k \in 1..(i - 1), s[k] = VersionOf(s[i])
      PROVE  n = got[r][k]
  <2>1. n = RowsOf(r, i)
    BY <1>1, <1>9 DEF Result, GoesBy
  <2> QED
    BY <1>2, <1>3, <1>9, <2>1, RowsAreOfAVersion
<1>10. GivesUp(s[i], n) = "reading" =>
         /\ s[i].what = "version" => n # 0
         /\ s[i].what = "observations" => PeriodsOf(s[i].code, n) = 1
  BY DEF GivesUp
<1>11. i = Len(got[r]) + 1
  OBVIOUS
<1> HIDE DEF s, i
<1>12. Follows(s, Append(got[r], n))
  BY <1>2, <1>3, <1>8, <1>9, <1>11, FollowsMore
<1>13. ASSUME report[r] \in Computed, outcome'[r] \in {"reading", "200"}
       PROVE  Complete(s, Append(got[r], n))
  <2>1. (s[i].what = "version" => n # 0) /\ (s[i].what = "observations" => PeriodsOf(s[i].code, n) = 1)
    BY <1>5, <1>10, <1>13
  <2> QED
    BY <1>2, <1>3, <1>8, <1>11, <1>13, <2>1, CompleteMore
<1>14. PartsFollow(r)'
  BY <1>2, <1>6, <1>12, <1>13, PartsFollowNext, Zenon
<1> QED
  BY <1>7, <1>14 DEF PartsInv

(* Every step does.                                                       *)
LEMMA PartsStep ==
  ASSUME ReadingInv, [Next]_vars, NEW q \in Readers, PartsInv(q)
  PROVE  PartsInv(q)'
<1>0. TypeOK /\ InScript(q) /\ ReaderType
  BY TypeParts DEF ReadingInv
<1>1. ASSUME got'[q] = got[q], report'[q] = report[q], outcome'[q] = outcome[q]
      PROVE  PartsInv(q)'
  <2>1. PartsFollow(q)'
    BY <1>1, PartsFollowNext, Zenon DEF PartsInv, PartsFollow
  <2>2. AnswersAtTheEnd(q)'
    BY <1>1 DEF PartsInv, AnswersAtTheEnd, Script
  <2> QED
    BY <2>1, <2>2 DEF PartsInv
<1>2. ASSUME NEW r \in Readers, Ask(r)
      PROVE  PartsInv(q)'
  <2>1. /\ outcome[r] = "asking" /\ outcome' = [outcome EXCEPT ![r] = "reading"]
        /\ UNCHANGED <<report, got>>
    BY <1>0, <1>2, AskEffect
  <2>2. CASE q # r
    <3>1. outcome'[q] = outcome[q] /\ got'[q] = got[q] /\ report'[q] = report[q]
      BY <1>0, <2>1, <2>2 DEF ReaderType
    <3> QED
      BY <1>1, <3>1
  <2>3. CASE q = r
    <3>1. got'[q] = <<>> /\ outcome'[q] = "reading"
      BY <1>0, <2>1, <2>3 DEF InScript, ReaderType
    <3>2. Follows(Script(report'[q]), got'[q]) /\ Complete(Script(report'[q]), got'[q])
      BY <3>1, EmptyHasNoPlace, Zenon DEF Follows, Complete
    <3>3. PartsFollow(q)'
      BY <3>2, PartsFollowNext, Zenon
    <3>4. AnswersAtTheEnd(q)'
      BY <3>1 DEF AnswersAtTheEnd, Healths
    <3> QED
      BY <3>3, <3>4 DEF PartsInv
  <2> QED
    BY <2>2, <2>3
<1>3. ASSUME NEW r \in Readers, Select(r)
      PROVE  PartsInv(q)'
  <2>1. CASE q = r
    BY <1>3, <2>1, PartsAtSelect
  <2>2. CASE q # r
    <3>1. InScript(r)
      BY DEF ReadingInv
    <3>2. PICK n \in Nat, z \in Outcomes \ {"asking"} :
            /\ got' = [got EXCEPT ![r] = Append(got[r], n)]
            /\ outcome' = [outcome EXCEPT ![r] = z] /\ report' = report
      BY <1>0, <1>3, <3>1, SelectEffect
    <3>3. got'[q] = got[q] /\ outcome'[q] = outcome[q] /\ report'[q] = report[q]
      BY <1>0, <2>2, <3>2 DEF ReaderType
    <3> QED
      BY <1>1, <3>3
  <2> QED
    BY <2>1, <2>2
<1>4. Writes => PartsInv(q)'
  BY <1>1 DEF Writes
<1> QED
  BY <1>0, <1>2, <1>3, <1>4, StepKinds

PartsAlways == DashInv /\ \A r \in Readers : PartsInv(r)

(* Every part is always of its context's version.                         *)
LEMMA AlwaysParts == Spec => []PartsAlways
<1>1. Init => PartsAlways
  <2> SUFFICES ASSUME Init, NEW r \in Readers PROVE PartsInv(r)
    BY InitReaders DEF PartsAlways
  <2>1. outcome[r] = "asking" /\ got[r] = <<>>
    BY DEF Init
  <2>2. Follows(Script(report[r]), got[r])
    BY <2>1, EmptyHasNoPlace, Zenon DEF Follows
  <2> QED
    BY <2>1, <2>2 DEF PartsInv, PartsFollow, AnswersAtTheEnd, Healths
<1>2. PartsAlways /\ [Next]_vars => PartsAlways'
  BY NextReaders, PartsStep DEF PartsAlways, DashInv
<1> QED
  BY <1>1, <1>2, PTL DEF Spec

(* What r got at i of its script s is of the version its context names,     *)
(* which is published and has one period.                                  *)
IsOfItsVersion(r, s, i) ==
  \E k \in 1..Len(s) :
    /\ s[k] = VersionOf(s[i]) /\ got[r][i] = got[r][k]
    /\ got[r][k] \in Good(runs[s[i].code]) /\ PeriodsOf(s[i].code, got[r][k]) = 1

(* So is every part of a computed report.                                 *)
LEMMA PartHasItsVersion ==
  ASSUME PartsAlways, NEW r \in Readers, outcome[r] = "200"
  PROVE  \A i \in 1..Len(Script(report[r])) : IsOfItsVersion(r, Script(report[r]), i)
<1> DEFINE s == Script(report[r])
           g == got[r]
<1> TAKE i \in 1..Len(s)
<1>0. ReaderType /\ InScript(r) /\ VersionsKept(r) /\ PartsInv(r)
  BY TypeParts DEF PartsAlways, DashInv, ReadingInv, ReaderInv
<1>1. report[r] \in Computed /\ Len(g) = Len(s) /\ report[r] \in Reports
  BY <1>0 DEF PartsInv, AnswersAtTheEnd, ReaderType
<1>2. Follows(s, g) /\ Complete(s, g)
  BY <1>0, <1>1 DEF PartsInv, PartsFollow
<1>3. /\ s \in Seq(Statements) /\ NamesVersionFirst(s) /\ NamesVersionOnce(s) /\ ReadsContexts(s)
      /\ Len(s) \in Nat
  BY <1>1, ScriptShape DEF Fine
<1>4. \A k \in 1..Len(s) : s[k].what = "version" =>
        GoodAndCurrent(report[r], g[k], start[r][s[k].code], runs[s[k].code])
  BY <1>0, <1>1 DEF VersionsKept, SelectsGood
<1> HIDE DEF s, g
<1>5. PICK o \in 1..Len(s) : s[o] = Statement("observations", s[i].code, s[i].part)
  BY <1>3 DEF ReadsContexts
<1>6. s[o].what = "observations" /\ s[o].code = s[i].code /\ s[o].part = s[i].part
  BY <1>5, FieldsOfStatement
<1>7. PICK k \in 1..(o - 1) : s[k] = VersionOf(s[o])
  BY <1>3, <1>6 DEF NamesVersionFirst, GoesBy
<1>8. s[k] = VersionOf(s[i]) /\ k \in 1..Len(s)
  BY <1>3, <1>6, <1>7 DEF VersionOf
<1>9. s[k].what = "version" /\ s[k].code = s[i].code
  BY <1>8, FieldsOfStatement DEF VersionOf
<1>10. g[o] = g[k] /\ PeriodsOf(s[i].code, g[o]) = 1 /\ g[k] # 0
  BY <1>1, <1>2, <1>6, <1>7, <1>8, <1>9 DEF Follows, Complete, GoesBy
<1>11. g[k] \in Good(runs[s[i].code])
  <2>1. GoodAndCurrent(report[r], g[k], start[r][s[k].code], runs[s[k].code])
    BY <1>4, <1>8, <1>9
  <2> QED
    BY <1>9, <1>10, <2>1 DEF GoodAndCurrent
<1>12. g[i] = g[k]
  <2>1. CASE s[i].what = "version"
    <3>1. s[i] = VersionOf(s[i])
      BY <1>3, <2>1, StatementOfFields DEF VersionOf
    <3>2. i = k
      BY <1>3, <1>8, <2>1, <3>1 DEF NamesVersionOnce
    <3> QED
      BY <3>2
  <2>2. CASE s[i].what \in GoesBy
    <3>1. PICK l \in 1..(i - 1) : s[l] = VersionOf(s[i])
      BY <1>3, <2>2 DEF NamesVersionFirst
    <3>2. l \in 1..Len(s) /\ s[l] = s[k]
      BY <1>3, <1>8, <3>1
    <3>3. l = k
      BY <1>3, <1>8, <1>9, <3>2 DEF NamesVersionOnce
    <3> QED
      BY <1>1, <1>2, <2>2, <3>1, <3>3 DEF Follows
  <2> QED
    BY <1>3, <2>1, <2>2 DEF ReadsContexts, GoesBy
<1> QED
  BY <1>8, <1>10, <1>11, <1>12 DEF s, g, IsOfItsVersion

(* What a report computes of an indicator from one context is of one        *)
(* published version with one period, whatever is published between its    *)
(* SELECTs; and an indicator is shown healthy by its own version's coverage. *)
THEOREM ReportsAreOfOneVersion == Spec => []PartsAreOfOneVersion
<1>1. ASSUME PartsAlways, NEW r \in Readers, outcome[r] = "200", NEW s, s = Script(report[r]),
             NEW i \in 1..Len(s), NEW j \in 1..Len(s),
             s[i].code = s[j].code, s[i].part = s[j].part
      PROVE  /\ got[r][i] = got[r][j] /\ got[r][i] \in Good(runs[s[i].code])
             /\ PeriodsOf(s[i].code, got[r][i]) = 1
  <2>1. IsOfItsVersion(r, s, i) /\ IsOfItsVersion(r, s, j)
    BY <1>1, PartHasItsVersion
  <2>2. PICK k \in 1..Len(s) :
           /\ s[k] = VersionOf(s[i]) /\ got[r][i] = got[r][k]
           /\ got[r][k] \in Good(runs[s[i].code]) /\ PeriodsOf(s[i].code, got[r][k]) = 1
    BY <2>1 DEF IsOfItsVersion
  <2>3. PICK l \in 1..Len(s) : s[l] = VersionOf(s[j]) /\ got[r][j] = got[r][l]
    BY <2>1 DEF IsOfItsVersion
  <2>4. s[k] = s[l] /\ s[k].what = "version"
    BY <1>1, <2>2, <2>3, FieldsOfStatement DEF VersionOf
  <2>5. NamesVersionOnce(s)
    BY <1>1, TypeParts, ScriptShape DEF PartsAlways, DashInv, ReadingInv, ReaderType, Fine
  <2>6. k = l
    BY <2>4, <2>5 DEF NamesVersionOnce
  <2> QED
    BY <2>2, <2>3, <2>6
<1>2. ASSUME PartsAlways, NEW r \in Readers, report[r] = "indicator", outcome[r] = "healthy"
      PROVE  got[r][2] = got[r][1]
  <2>1. PartsInv(r)
    BY <1>2 DEF PartsAlways
  <2>2. Len(got[r]) = 3
    BY <1>2, <2>1, IndicatorShape DEF PartsInv, AnswersAtTheEnd, Healths
  <2> DEFINE s == Script("indicator")
  <2>3. Follows(s, got[r])
    BY <1>2, <2>1 DEF PartsInv, PartsFollow
  <2>4. s[1] = Statement("version", Subject, 1) /\ s[2] = Statement("coverage", Subject, 1)
    BY IndicatorShape
  <2> HIDE DEF s
  <2>5. s[2].what \in GoesBy /\ s[1] = VersionOf(s[2])
    BY <2>4, FieldsOfStatement DEF VersionOf, GoesBy
  <2>6. 2 \in 1..Len(got[r]) /\ 1 \in 1..(2 - 1)
    BY <2>2
  <2> QED
    BY <2>3, <2>5, <2>6 DEF Follows
<1>3. ASSUME PartsAlways, NEW r \in Readers
      PROVE  DOMAIN Script(report[r]) = 1..Len(Script(report[r]))
  <2>1. report[r] \in Reports
    BY <1>3, TypeParts DEF PartsAlways, DashInv, ReadingInv, ReaderType
  <2> QED
    BY <2>1, ScriptShape DEF Fine
<1>4. ASSUME PartsAlways, NEW r \in Readers, outcome[r] = "200", NEW s, s = Script(report[r]),
             NEW i \in DOMAIN s, NEW j \in DOMAIN s, s[i].code = s[j].code, s[i].part = s[j].part
      PROVE  /\ got[r][i] = got[r][j] /\ got[r][i] \in Good(runs[s[i].code])
             /\ PeriodsOf(s[i].code, got[r][i]) = 1
  <2>1. i \in 1..Len(s) /\ j \in 1..Len(s)
    BY <1>3, <1>4
  <2> QED
    BY <1>1, <1>4, <2>1
<1>5. PartsAlways => PartsAreOfOneVersion
  BY <1>2, <1>4 DEF PartsAreOfOneVersion
<1> QED
  BY <1>5, AlwaysParts, PTL
=============================================================================
