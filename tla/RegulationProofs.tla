--------------------------- MODULE RegulationProofs ---------------------------
(***************************************************************************)
(* Proofs about regulations: reading and comparing two editions, for every *)
(* two editions, and searching and answering, for every index, question,   *)
(* query, method and limit.                                                *)
(*                                                                         *)
(* The argument: reading is followed line by line.  The lines of the       *)
(* sections read so far are the lines spoken so far, and the headings of   *)
(* the section at hand are those its last line stands under.  A chunk is   *)
(* followed line by line as well: what was added to it is in a chunk kept  *)
(* or in the one being filled, so no line of a section is lost between     *)
(* two chunks.  Comparing then shows every section of either version.      *)
(* Hits are sorted by a strict total order of a finite set, so every place *)
(* is taken by one chunk; their scores are followed from what a chunk has  *)
(* to where it stands, and an answer quote by quote.                       *)
(***************************************************************************)
EXTENDS Calculations, FiniteLemmas

(* The instances flatten, and look up places, as the module here does.     *)
LEMMA SameFlatten ==
  ASSUME NEW ss
  PROVE  Texts!FlattenSeq(ss) = FlattenSeq(ss) /\ Searching!FlattenSeq(ss) = FlattenSeq(ss)
  BY Zenon DEF FlattenSeq, Texts!FlattenSeq, Searching!FlattenSeq

(* They take places of a sequence as the module here does.                *)
LEMMA SamePlaces ==
  ASSUME NEW seq, NEW S
  PROVE  /\ Texts!AtPlaces(seq, S) = AtPlaces(seq, S)
         /\ Searching!AtPlaces(seq, S) = AtPlaces(seq, S)
<1>1. Texts!Ascending(S) = Ascending(S) /\ Searching!Ascending(S) = Ascending(S)
  BY Zenon DEF Texts!Ascending, Texts!InOrder, Texts!Cardinality, Searching!Ascending,
     Searching!InOrder, Searching!Cardinality, Ascending, InOrder, Cardinality
<1> QED
  BY <1>1, Zenon DEF Texts!AtPlaces, Searching!AtPlaces, AtPlaces

-----------------------------------------------------------------------------
(* One step after another. *)

(* What one element does to a state: a line to a parse, a section to       *)
(* either chunking.  Naming which keeps one lemma for the three runs       *)
(* below.                                                                  *)
Stepped(what, seq, state, i) ==
  IF what = "lines" THEN Texts!ReadLine(state, seq[i])
  ELSE IF what = "fixed" THEN Searching!AddToFixed(state, seq[i])
  ELSE Searching!AddToStructure(state, seq[i])

(* g[i] is the state after i elements.                                     *)
Stepping(what, seq, base, n, g) ==
  g = [i \in 0..n |-> IF i = 0 THEN base ELSE Stepped(what, seq, g[i - 1], i)]

(* There is such a run of every sequence.                                  *)
LEMMA SteppingsExist ==
  ASSUME NEW what, NEW seq, NEW base, NEW n \in Nat
  PROVE  \E g : Stepping(what, seq, base, n, g)
<1> DEFINE Good == {m \in 0..n : \E g : Stepping(what, seq, base, m, g)}
<1>1. 0 \in Good
  <2> DEFINE g == [i \in 0..0 |-> base]
  <2>1. Stepping(what, seq, base, 0, g)
    BY DEF Stepping
  <2> QED
    BY <2>1
<1>2. ASSUME NEW m \in 1..n, m - 1 \in Good PROVE m \in Good
  <2>1. PICK h : Stepping(what, seq, base, m - 1, h)
    BY <1>2
  <2>2. PICK last : last = Stepped(what, seq, h[m - 1], m)
    OBVIOUS
  <2> DEFINE g == [i \in 0..m |-> IF i = m THEN last ELSE h[i]]
  <2>3. \A i \in 0..m : i = m \/ i \in 0..(m - 1)
    OBVIOUS
  <2>4. \A i \in 0..(m - 1) : g[i] = h[i]
    OBVIOUS
  <2>5. g[m] = last /\ m # 0 /\ m - 1 \in 0..(m - 1)
    OBVIOUS
  <2>6. \A i \in 0..(m - 1) : h[i] = IF i = 0 THEN base ELSE Stepped(what, seq, h[i - 1], i)
    BY <2>1 DEF Stepping
  <2>7. DOMAIN g = 0..m /\ g = [i \in DOMAIN g |-> g[i]]
    OBVIOUS
  <2> HIDE DEF g
  <2>8. ASSUME NEW i \in 0..m
        PROVE  g[i] = IF i = 0 THEN base ELSE Stepped(what, seq, g[i - 1], i)
    <3>1. CASE i = m
      BY <2>2, <2>4, <2>5, <3>1
    <3>2. CASE i \in 0..(m - 1)
      <4>1. i = 0 \/ i - 1 \in 0..(m - 1)
        BY <3>2
      <4> QED
        BY <2>4, <2>6, <3>2, <4>1
    <3> QED
      BY <2>3, <3>1, <3>2
  <2>9. Stepping(what, seq, base, m, g)
    BY <2>7, <2>8 DEF Stepping
  <2> QED
    BY <2>9
<1>3. \A i \in 0..n : i \in Good
  <2> HIDE DEF Good
  <2> QED
    BY <1>1, <1>2, StepByStep
<1> QED
  BY <1>3

-----------------------------------------------------------------------------
(* Parsing. *)

(* The kinds of headings have levels 1 to 5.                               *)
HeadKinds == {"bab", "bagian", "paragraf", "pasal", "ayat"}
Headings == {line \in Texts!Line : line.kind \in HeadKinds}

(* A line is of one of these kinds, and headings have levels 1 to 5.      *)
LEMMA KindsAre ==
  /\ Texts!Line = [kind : HeadKinds \union {"text", "blank"}, number : Nat,
                 rest : {Texts!Dotted, Texts!Plain, Texts!Roman} \union STRING, length : Nat]
  /\ \A kind \in HeadKinds : Texts!LevelOf(kind) \in 1..5
<1>1. Texts!ToSet(Texts!Levels) = HeadKinds
  BY DEF Texts!ToSet, Texts!Levels, HeadKinds
<1>2. \A kind \in HeadKinds : \E i \in DOMAIN Texts!Levels : Texts!Levels[i] = kind
  BY <1>1 DEF Texts!ToSet
<1>3. DOMAIN Texts!Levels = 1..5
  BY DEF Texts!Levels
<1>4. \A kind \in HeadKinds : Texts!LevelOf(kind) \in DOMAIN Texts!Levels
  BY <1>2 DEF Texts!LevelOf
<1> QED
  BY <1>1, <1>3, <1>4 DEF Texts!Line

(* The lines of the pages, each with its page and its place there.         *)
Placing == [place : Nat \X Nat, line : Texts!Line]

(* The lines of all pages, each with its page.                            *)
LEMMA PlacedGives ==
  ASSUME NEW pages \in Seq(Seq(Texts!Line))
  PROVE  Texts!PlacedLines(pages) \in Seq(Placing)
<1> DEFINE row(p) == [i \in DOMAIN pages[p] |-> [place |-> <<p, i>>, line |-> pages[p][i]]]
           rows == [p \in DOMAIN pages |-> row(p)]
<1>1. Texts!PlacedLines(pages) = FlattenSeq(rows)
  BY SameFlatten, Zenon DEF Texts!PlacedLines
<1>2. ASSUME NEW p \in DOMAIN pages PROVE row(p) \in Seq(Placing)
  <2>1. pages[p] \in Seq(Texts!Line) /\ p \in Nat
    OBVIOUS
  <2>2. Len(pages[p]) \in Nat /\ DOMAIN pages[p] = 1..Len(pages[p])
    BY <2>1
  <2>3. ASSUME NEW i \in DOMAIN pages[p] PROVE [place |-> <<p, i>>, line |-> pages[p][i]] \in Placing
    BY <2>1, <2>2 DEF Placing
  <2>4. row(p) \in [1..Len(pages[p]) -> Placing]
    BY <2>2, <2>3
  <2> QED
    BY <2>2, <2>4
<1> HIDE DEF row
<1>3. rows \in Seq(Seq(Placing))
  <2>1. Len(pages) \in Nat /\ DOMAIN pages = 1..Len(pages)
    OBVIOUS
  <2>2. rows \in [1..Len(pages) -> Seq(Placing)]
    BY <1>2, <2>1
  <2> QED
    BY <2>1, <2>2
<1> QED
  BY <1>1, <1>3, FlattenIsSeq

(* A parse so far.                                                         *)
Section ==
  [kind : HeadKinds \union {"preamble"}, heading : Texts!Line \union {Texts!Preamble},
   lines : Seq(Texts!Line), place : Nat \X Nat, hierarchy : Seq(Headings)]
Parsing == [sections : Seq(Section), hierarchy : Seq(Headings), lastAyat : Int]

(* A heading leaves a hierarchy of headings.                               *)
LEMMA HierarchyGives ==
  ASSUME NEW hierarchy \in Seq(Headings), NEW heading \in Headings
  PROVE  Texts!UpdateHierarchy(hierarchy, heading) \in Seq(Headings)
<1> DEFINE above == {i \in DOMAIN hierarchy :
                       Texts!LevelOf(hierarchy[i].kind) < Texts!LevelOf(heading.kind)}
<1>1. IsFiniteSet(above) /\ above \subseteq Int /\ \A i \in above : hierarchy[i] \in Headings
  <2>1. Len(hierarchy) \in Nat /\ DOMAIN hierarchy = 1..Len(hierarchy)
    OBVIOUS
  <2>2. IsFiniteSet(1..Len(hierarchy))
    BY <2>1, FS_Interval
  <2>3. above \in SUBSET (1..Len(hierarchy))
    BY <2>1
  <2>4. IsFiniteSet(above)
    BY <2>2, <2>3, FS_Subset
  <2> QED
    BY <2>3, <2>4
<1> HIDE DEF above
<1>2. AtPlaces(hierarchy, above) \in Seq(Headings)
  BY <1>1, PlacesAreSeq
<1>3. Texts!UpdateHierarchy(hierarchy, heading) = Append(Texts!AtPlaces(hierarchy, above), heading)
  BY DEF Texts!UpdateHierarchy, above
<1>4. Texts!AtPlaces(hierarchy, above) = AtPlaces(hierarchy, above)
  BY SamePlaces
<1>5. PICK upper : upper = AtPlaces(hierarchy, above)
  OBVIOUS
<1> QED
  BY <1>2, <1>3, <1>4, <1>5

(* Normalizing a line does not change what it opens.                       *)
LEMMA NormalizingKeepsKind ==
  ASSUME NEW line \in Texts!Line
  PROVE  Texts!NormalizeHeading(line) \in Texts!Line /\ Texts!NormalizeHeading(line).kind = line.kind
<1>1. CASE line.kind = "pasal" /\ line.number = 1 /\ line.rest = Texts!Roman
  <2>1. PICK rest : rest = Texts!Plain
    OBVIOUS
  <2>2. rest \in {Texts!Dotted, Texts!Plain, Texts!Roman} \union STRING
    BY <2>1
  <2>3. Texts!NormalizeHeading(line) = [line EXCEPT !.rest = rest]
    BY <1>1, <2>1 DEF Texts!NormalizeHeading
  <2>4. Texts!NormalizeHeading(line)
        = [kind |-> line.kind, number |-> line.number, rest |-> rest, length |-> line.length]
    BY <2>3, KindsAre
  <2> QED
    BY <2>2, <2>4, KindsAre
<1>2. CASE ~(line.kind = "pasal" /\ line.number = 1 /\ line.rest = Texts!Roman)
  BY <1>2 DEF Texts!NormalizeHeading
<1> QED
  BY <1>1, <1>2

(* What reading a line does to the sections and the hierarchy: nothing for *)
(* a blank one; else the line opens the preamble, continues the last       *)
(* section, or opens a section of its own.                                 *)
OpensPreamble(s, line, t) ==
  /\ line.kind # "blank" /\ s.sections = <<>> /\ t.hierarchy = s.hierarchy
  /\ \E x \in Section : /\ t.sections = Append(s.sections, x)
                        /\ x.kind = "preamble" /\ x.lines = <<line>>

(* The heading x has, or line in its place.                                *)
Heads(x, line, heading) ==
  \/ heading = x.heading
  \/ x.kind = "ayat" /\ Texts!Completes(x.heading, line) /\ heading = line

Extends(sections, after, line) ==
  \E before \in Seq(Section), x \in Section, y \in Section :
    /\ sections = Append(before, x) /\ after = Append(before, y)
    /\ y.kind = x.kind /\ y.hierarchy = x.hierarchy /\ y.lines = Append(x.lines, line)
    /\ Heads(x, line, y.heading)

Continues(s, line, t) ==
  /\ line.kind # "blank" /\ t.hierarchy = s.hierarchy /\ Extends(s.sections, t.sections, line)

OpensSection(s, line, t) ==
  /\ line \in Headings /\ t.hierarchy = Texts!UpdateHierarchy(s.hierarchy, line)
  /\ \E x \in Section : /\ t.sections = Append(s.sections, x)
                        /\ x.kind = line.kind /\ x.lines = <<line>> /\ x.hierarchy = t.hierarchy
                        /\ x.heading = line

(* Replacing the last element replaces nothing else.                       *)
LEMMA LastIsReplaced ==
  ASSUME NEW S, NEW b \in Seq(S), NEW x \in S, NEW y \in S
  PROVE  [Append(b, x) EXCEPT ![Len(b) + 1] = y] = Append(b, y)
<1>1. PICK n : n = Len(b)
  OBVIOUS
<1>2. PICK f : f = [j \in 1..(n + 1) |-> IF j <= n THEN b[j] ELSE x]
  OBVIOUS
<1>3. PICK g : g = [j \in 1..(n + 1) |-> IF j <= n THEN b[j] ELSE y]
  OBVIOUS
<1>4. n \in Nat /\ n + 1 \in 1..(n + 1) /\ \A j \in 1..(n + 1) : j = n + 1 \/ j <= n
  BY <1>1
<1>5. f = Append(b, x)
  <2>1. f \in [1..(n + 1) -> S]
    BY <1>1, <1>2, <1>4
  <2>2. f \in Seq(S) /\ Len(f) = n + 1
    BY <1>4, <2>1
  <2>3. PICK a : a = Append(b, x)
    OBVIOUS
  <2>4. a \in Seq(S) /\ Len(a) = n + 1
    BY <1>1, <2>3
  <2>5. \A j \in 1..(n + 1) : a[j] = f[j]
    BY <1>1, <1>2, <1>4, <2>3
  <2> QED
    BY <2>2, <2>3, <2>4, <2>5, SeqEqual
<1>6. g = Append(b, y)
  <2>1. g \in [1..(n + 1) -> S]
    BY <1>1, <1>3, <1>4
  <2>2. g \in Seq(S) /\ Len(g) = n + 1
    BY <1>4, <2>1
  <2>3. PICK a : a = Append(b, y)
    OBVIOUS
  <2>4. a \in Seq(S) /\ Len(a) = n + 1
    BY <1>1, <2>3
  <2>5. \A j \in 1..(n + 1) : a[j] = g[j]
    BY <1>1, <1>3, <1>4, <2>3
  <2> QED
    BY <2>2, <2>3, <2>4, <2>5, SeqEqual
<1>7. [f EXCEPT ![n + 1] = y] = g
  <2>1. PICK h : h = [f EXCEPT ![n + 1] = y]
    OBVIOUS
  <2>2. /\ DOMAIN f = 1..(n + 1) /\ DOMAIN g = 1..(n + 1)
        /\ h = [j \in 1..(n + 1) |-> IF j = n + 1 THEN y ELSE f[j]]
    BY <1>2, <1>3, <2>1
  <2>3. \A j \in 1..(n + 1) : g[j] = IF j = n + 1 THEN y ELSE f[j]
    BY <1>2, <1>3, <1>4
  <2>4. g = [j \in 1..(n + 1) |-> g[j]]
    BY <1>3
  <2> QED
    BY <2>1, <2>2, <2>3, <2>4
<1> QED
  BY <1>1, <1>5, <1>6, <1>7

(* Continuing a section adds one line to the last section.                 *)
LEMMA ContinuingGives ==
  ASSUME NEW s \in Parsing, s.sections # <<>>, NEW line \in Texts!Line,
         NEW heading \in Texts!Line \union {Texts!Preamble},
         Heads(Texts!Last(s.sections), line, heading),
         NEW after, after = Texts!Continued(s, heading, line)
  PROVE  Extends(s.sections, after, line)
<1>1. s.sections \in Seq(Section)
  BY DEF Parsing
<1>2. PICK before \in Seq(Section), x \in Section : s.sections = Append(before, x)
  BY <1>1, SequenceEmptyOrAppend
<1>3. PICK n : n = Len(s.sections)
  OBVIOUS
<1>4. n = Len(before) + 1 /\ n \in DOMAIN s.sections /\ s.sections[n] = x
  BY <1>2, <1>3
<1>5. PICK y : y = [s.sections[n] EXCEPT !.heading = heading,
                                  !.lines = Append(s.sections[n].lines, line)]
  OBVIOUS
<1>6. /\ y \in Section /\ y.kind = x.kind /\ y.hierarchy = x.hierarchy
      /\ y.lines = Append(x.lines, line) /\ y.heading = heading
  <2>1. Append(x.lines, line) \in Seq(Texts!Line)
    BY DEF Section
  <2>2. y = [kind |-> x.kind, heading |-> heading, lines |-> Append(x.lines, line),
             place |-> x.place, hierarchy |-> x.hierarchy]
    BY <1>4, <1>5 DEF Section
  <2> QED
    BY <2>1, <2>2 DEF Section
<1>7. after = [s.sections EXCEPT ![n] = y]
  BY <1>3, <1>5, Zenon DEF Texts!Continued
<1>8. [Append(before, x) EXCEPT ![n] = y] = Append(before, y)
  <2>1. n = Len(before) + 1 /\ y \in Section
    BY <1>4, <1>6
  <2> QED
    BY <2>1, LastIsReplaced
<1>9. after = Append(before, y)
  BY <1>2, <1>7, <1>8
<1>10. Texts!Last(s.sections) = x
  BY <1>3, <1>4 DEF Texts!Last
<1>11. Heads(x, line, y.heading)
  BY <1>6, <1>10
<1> QED
  BY <1>2, <1>6, <1>9, <1>11 DEF Extends

(* Reading a line does one of these.                                       *)
LEMMA ReadGives ==
  ASSUME NEW s \in Parsing, NEW placed \in Placing,
         NEW line, line = Texts!NormalizeHeading(placed.line),
         NEW t, t = Texts!ReadLine(s, placed)
  PROVE  /\ t \in Parsing
         /\ \/ line.kind = "blank" /\ t = s
            \/ OpensPreamble(s, line, t)
            \/ Continues(s, line, t)
            \/ OpensSection(s, line, t)
<1> DEFINE heading == Texts!Last(s.sections).heading
           H == Texts!UpdateHierarchy(s.hierarchy, line)
<1>1. line \in Texts!Line /\ placed.place \in Nat \X Nat
  BY NormalizingKeepsKind DEF Placing
<1>2. s.sections \in Seq(Section) /\ s.hierarchy \in Seq(Headings) /\ s.lastAyat \in Int
  BY DEF Parsing
<1>3. s.sections # <<>> => heading \in Texts!Line \union {Texts!Preamble}
  <2> SUFFICES ASSUME s.sections # <<>> PROVE heading \in Texts!Line \union {Texts!Preamble}
    OBVIOUS
  <2>1. s.sections[Len(s.sections)] \in Section
    BY <1>2
  <2> QED
    BY <2>1 DEF Section, Texts!Last
<1>4. line.kind \in HeadKinds \union {"text", "blank"} /\ line.number \in Int
  BY <1>1, KindsAre
<1> DEFINE last == Texts!Last(s.sections)
<1>12. heading = last.heading
  OBVIOUS
<1> HIDE DEF heading, H, last
<1>5. t = IF line.kind = "blank" THEN s
          ELSE IF line.kind = "text" THEN
            [s EXCEPT !.sections =
              IF s.sections = <<>>
              THEN Texts!Opened(s, Texts!Preamble, <<line>>, placed.place, <<>>)
              ELSE Texts!Continued(s, heading, line)]
          ELSE IF Texts!Repeats(s, line) THEN
            [s EXCEPT !.sections =
              Texts!Continued(s, IF Texts!Completes(heading, line) THEN line ELSE heading, line)]
          ELSE
            [sections  |-> Texts!Opened(s, line, <<line>>, placed.place, H),
             hierarchy |-> H,
             lastAyat  |-> IF line.kind = "ayat" THEN line.number ELSE -1]
  BY Zenon DEF Texts!ReadLine, heading, H
<1>6. CASE line.kind = "blank"
  BY <1>5, <1>6
<1>7. ASSUME line.kind # "blank", s.sections # <<>>,
             NEW h \in Texts!Line \union {Texts!Preamble}, Heads(last, line, h),
             t = [s EXCEPT !.sections = Texts!Continued(s, h, line)]
      PROVE  t \in Parsing /\ Continues(s, line, t)
  <2>1. PICK after : after = Texts!Continued(s, h, line)
    OBVIOUS
  <2>2. Extends(s.sections, after, line)
    BY <1>1, <1>7, <2>1, ContinuingGives DEF last
  <2>3. after \in Seq(Section)
    BY <2>2 DEF Extends
  <2>4. t = [sections |-> after, hierarchy |-> s.hierarchy, lastAyat |-> s.lastAyat]
    BY <1>7, <2>1 DEF Parsing
  <2>5. t \in Parsing
    BY <1>2, <2>3, <2>4 DEF Parsing
  <2>6. t.sections = after /\ t.hierarchy = s.hierarchy
    BY <2>4
  <2> QED
    BY <1>7, <2>2, <2>5, <2>6 DEF Continues
<1>8. CASE line.kind = "text" /\ s.sections # <<>>
  <2>1. t = [s EXCEPT !.sections = Texts!Continued(s, heading, line)]
    BY <1>5, <1>8
  <2>2. Heads(last, line, heading)
    BY <1>12 DEF Heads
  <2> QED
    BY <1>3, <1>7, <1>8, <2>1, <2>2
<1>9. CASE line.kind = "text" /\ s.sections = <<>>
  <2>1. t = [s EXCEPT !.sections = Texts!Opened(s, Texts!Preamble, <<line>>, placed.place, <<>>)]
    BY <1>5, <1>9
  <2>2. PICK x : x = [kind |-> Texts!Preamble.kind, heading |-> Texts!Preamble, lines |-> <<line>>,
                      place |-> placed.place, hierarchy |-> <<>>]
    OBVIOUS
  <2>3. Texts!Opened(s, Texts!Preamble, <<line>>, placed.place, <<>>) = Append(s.sections, x)
    BY <2>2 DEF Texts!Opened
  <2>4. x \in Section /\ x.kind = "preamble" /\ x.lines = <<line>>
    <3>1. Texts!Preamble.kind = "preamble"
      BY DEF Texts!Preamble
    <3> QED
      BY <1>1, <2>2, <3>1 DEF Section
  <2>5. t = [sections |-> Append(s.sections, x), hierarchy |-> s.hierarchy, lastAyat |-> s.lastAyat]
    BY <2>1, <2>3 DEF Parsing
  <2>6. Append(s.sections, x) \in Seq(Section)
    BY <1>2, <2>4
  <2> QED
    BY <1>2, <1>9, <2>4, <2>5, <2>6 DEF Parsing, OpensPreamble
<1>10. CASE line.kind \in HeadKinds /\ Texts!Repeats(s, line)
  <2>1. t = [s EXCEPT !.sections =
               Texts!Continued(s, IF Texts!Completes(heading, line) THEN line ELSE heading, line)]
    BY <1>5, <1>10 DEF HeadKinds
  <2>2. s.sections # <<>> /\ line.kind # "blank"
    BY <1>10 DEF Texts!Repeats, HeadKinds
  <2>3. PICK h : h = IF Texts!Completes(heading, line) THEN line ELSE heading
    OBVIOUS
  <2>4. h \in Texts!Line \union {Texts!Preamble}
    BY <1>1, <1>3, <2>2, <2>3
  <2>5. t = [s EXCEPT !.sections = Texts!Continued(s, h, line)]
    BY <2>1, <2>3
  <2>6. last.kind = "ayat"
    BY <1>10 DEF Texts!Repeats, last
  <2>7. Heads(last, line, h)
    BY <1>12, <2>3, <2>6 DEF Heads
  <2> QED
    BY <1>7, <2>2, <2>4, <2>5, <2>7
<1>11. CASE line.kind \in HeadKinds /\ ~Texts!Repeats(s, line)
  <2>1. t = [sections  |-> Texts!Opened(s, line, <<line>>, placed.place, H),
             hierarchy |-> H,
             lastAyat  |-> IF line.kind = "ayat" THEN line.number ELSE -1]
    BY <1>5, <1>11 DEF HeadKinds
  <2>2. line \in Headings
    BY <1>1, <1>11 DEF Headings
  <2>3. H \in Seq(Headings)
    BY <1>2, <2>2, HierarchyGives DEF H
  <2>4. PICK x : x = [kind |-> line.kind, heading |-> line, lines |-> <<line>>,
                      place |-> placed.place, hierarchy |-> H]
    OBVIOUS
  <2>5. Texts!Opened(s, line, <<line>>, placed.place, H) = Append(s.sections, x)
    BY <2>4 DEF Texts!Opened
  <2>6. x \in Section
    BY <1>1, <1>11, <2>3, <2>4 DEF Section
  <2>7. Append(s.sections, x) \in Seq(Section)
    BY <1>2, <2>6
  <2>8. t.lastAyat \in Int /\ t.hierarchy = H /\ t.sections = Append(s.sections, x)
    BY <1>4, <2>1, <2>5
  <2>9. t \in Parsing
    <3>1. PICK l : l = t.lastAyat
      OBVIOUS
    <3>2. t = [sections |-> Append(s.sections, x), hierarchy |-> H, lastAyat |-> l] /\ l \in Int
      BY <2>1, <2>5, <2>8, <3>1
    <3> QED
      BY <2>3, <2>7, <3>2 DEF Parsing
  <2>10. OpensSection(s, line, t)
    BY <2>2, <2>4, <2>6, <2>8 DEF OpensSection, H
  <2> QED
    BY <2>9, <2>10
<1> QED
  BY <1>4, <1>6, <1>8, <1>9, <1>10, <1>11

(* The lines of each section, and lines as parse() leaves them.            *)
LinesIn(sections) == [i \in DOMAIN sections |-> sections[i].lines]
Normalized(q) == [k \in DOMAIN q |-> Texts!NormalizeHeading(q[k].line)]

(* Of one more section, and of one more line.                              *)
LEMMA LinesOfAppend ==
  ASSUME NEW sections \in Seq(Section), NEW x \in Section
  PROVE  /\ LinesIn(sections) \in Seq(Seq(Texts!Line))
         /\ LinesIn(Append(sections, x)) = Append(LinesIn(sections), x.lines)
<1>1. PICK F : F = [y \in Section |-> y.lines]
  OBVIOUS
<1>2. F \in [Section -> Seq(Texts!Line)]
  BY <1>1 DEF Section
<1>3. ASSUME NEW q \in Seq(Section) PROVE LinesIn(q) = Mapped(F, q)
  BY <1>1 DEF LinesIn, Mapped
<1>4. Append(sections, x) \in Seq(Section)
  OBVIOUS
<1>5. F[x] = x.lines
  BY <1>1
<1>6. /\ Mapped(F, sections) \in Seq(Seq(Texts!Line))
      /\ Mapped(F, Append(sections, x)) = Append(Mapped(F, sections), F[x])
  <2>1. PICK all : all = Section
    OBVIOUS
  <2>2. PICK R : R = Seq(Texts!Line)
    OBVIOUS
  <2>3. sections \in Seq(all) /\ x \in all /\ F \in [all -> R]
    BY <1>2, <2>1, <2>2
  <2>4. MapsOneMore(F, R, sections, x)
    BY <2>3, MappedGives
  <2> QED
    BY <2>2, <2>4 DEF MapsOneMore
<1>7. LinesIn(sections) = Mapped(F, sections)
  BY <1>3
<1>8. LinesIn(Append(sections, x)) = Mapped(F, Append(sections, x))
  BY <1>3, <1>4
<1> QED
  BY <1>5, <1>6, <1>7, <1>8

(* Normalising headings goes line by line.                                *)
LEMMA NormalizedOfAppend ==
  ASSUME NEW q \in Seq(Placing), NEW x \in Placing
  PROVE  /\ Normalized(q) \in Seq(Texts!Line)
         /\ Normalized(Append(q, x)) = Append(Normalized(q), Texts!NormalizeHeading(x.line))
<1>1. PICK F : F = [y \in Placing |-> Texts!NormalizeHeading(y.line)]
  OBVIOUS
<1>2. F \in [Placing -> Texts!Line]
  <2>1. \A y \in Placing : Texts!NormalizeHeading(y.line) \in Texts!Line
    BY NormalizingKeepsKind DEF Placing
  <2> QED
    BY <1>1, <2>1
<1>3. ASSUME NEW p \in Seq(Placing) PROVE Normalized(p) = [i \in DOMAIN p |-> F[p[i]]]
  BY <1>1 DEF Normalized
<1>4. Append(q, x) \in Seq(Placing)
  OBVIOUS
<1>5. F[x] = Texts!NormalizeHeading(x.line)
  BY <1>1
<1>6. PICK a : a = Append(q, x)
  OBVIOUS
<1>7. PICK l : l = Normalized(q)
  OBVIOUS
<1>8. PICK m : m = Normalized(a)
  OBVIOUS
<1>9. l = [i \in DOMAIN q |-> F[q[i]]] /\ m = [i \in DOMAIN a |-> F[a[i]]]
  BY <1>3, <1>4, <1>6, <1>7, <1>8
<1>10. l \in Seq(Texts!Line) /\ m = Append(l, F[x])
  BY <1>2, <1>6, <1>9, MappedAppend
<1> QED
  BY <1>5, <1>6, <1>7, <1>8, <1>10

(* One more section adds its lines, one more line of the last is added.    *)
LEMMA OneMoreSection ==
  ASSUME NEW sections \in Seq(Section), NEW x \in Section
  PROVE  /\ LinesOf(sections) \in Seq(Texts!Line)
         /\ LinesOf(Append(sections, x)) = LinesOf(sections) \o x.lines
<1>1. /\ LinesIn(sections) \in Seq(Seq(Texts!Line)) /\ x.lines \in Seq(Texts!Line)
      /\ LinesIn(Append(sections, x)) = Append(LinesIn(sections), x.lines)
  BY LinesOfAppend DEF Section
<1>2. LinesOf(sections) = FlattenSeq(LinesIn(sections))
  BY Zenon DEF LinesOf, LinesIn
<1>3. LinesOf(Append(sections, x)) = FlattenSeq(LinesIn(Append(sections, x)))
  BY Zenon DEF LinesOf, LinesIn
<1>4. PICK ll : ll = LinesIn(sections)
  OBVIOUS
<1>5. FlattenSeq(ll) \in Seq(Texts!Line)
  BY <1>1, <1>4, FlattenIsSeq
<1>6. FlattenSeq(Append(ll, x.lines)) = FlattenSeq(ll) \o x.lines
  BY <1>1, <1>4, FlattenOfAppend
<1> QED
  BY <1>1, <1>2, <1>3, <1>4, <1>5, <1>6

(* Whatever a line does, it is added to the lines of the sections, at the  *)
(* end.                                                                    *)
LEMMA ReadingKeepsLines ==
  ASSUME NEW s \in Parsing, NEW line \in Texts!Line, NEW t,
         OpensPreamble(s, line, t) \/ Continues(s, line, t) \/ OpensSection(s, line, t)
  PROVE  LinesOf(t.sections) = Append(LinesOf(s.sections), line)
<1>1. s.sections \in Seq(Section)
  BY DEF Parsing
<1>2. ASSUME NEW x \in Section, t.sections = Append(s.sections, x), x.lines = <<line>>
      PROVE  LinesOf(t.sections) = Append(LinesOf(s.sections), line)
  <2>1. PICK l : l = LinesOf(s.sections)
    OBVIOUS
  <2>2. l \in Seq(Texts!Line) /\ LinesOf(t.sections) = l \o <<line>>
    BY <1>1, <1>2, <2>1, OneMoreSection
  <2>3. l \o <<line>> = Append(l, line)
    BY <2>2, AppendIsConcat
  <2> QED
    BY <2>1, <2>2, <2>3
<1>3. CASE Continues(s, line, t)
  <2>1. PICK before \in Seq(Section), x \in Section, y \in Section :
          /\ s.sections = Append(before, x) /\ t.sections = Append(before, y)
          /\ y.lines = Append(x.lines, line)
    BY <1>3 DEF Continues, Extends
  <2>2. PICK l : l = LinesOf(before)
    OBVIOUS
  <2>3. /\ l \in Seq(Texts!Line) /\ LinesOf(s.sections) = l \o x.lines
        /\ LinesOf(t.sections) = l \o Append(x.lines, line)
    BY <2>1, <2>2, OneMoreSection
  <2>4. PICK xs : xs = x.lines
    OBVIOUS
  <2>5. xs \in Seq(Texts!Line)
    BY <2>4 DEF Section
  <2>6. l \o Append(xs, line) = Append(l \o xs, line)
    BY <2>3, <2>5, ConcatOfAppend
  <2> QED
    BY <2>3, <2>4, <2>6
<1>4. CASE OpensPreamble(s, line, t)
  BY <1>2, <1>4 DEF OpensPreamble
<1>5. CASE OpensSection(s, line, t)
  BY <1>2, <1>5 DEF OpensSection
<1> QED
  BY <1>3, <1>4, <1>5

(* What has been read after the first n lines.                             *)
ReadingRun(placed, n, g) ==
  g = [i \in 0..n |-> IF i = 0 THEN Texts!NothingRead ELSE Texts!ReadLine(g[i - 1], placed[i])]

(* Reading is the last state of that run.                                  *)
LEMMA ReadingIsRun ==
  ASSUME NEW placed, Len(placed) \in Nat
  PROVE  \E g : ReadingRun(placed, Len(placed), g) /\ Texts!Reading(placed) = g[Len(placed)]
<1> DEFINE n == Len(placed)
           g == CHOOSE f : ReadingRun(placed, n, f)
<1>1. \E f : Stepping("lines", placed, Texts!NothingRead, n, f)
  BY SteppingsExist
<1>2. \A f : Stepping("lines", placed, Texts!NothingRead, n, f) => ReadingRun(placed, n, f)
  BY DEF Stepping, Stepped, ReadingRun
<1>3. ReadingRun(placed, n, g)
  BY <1>1, <1>2
<1>4. Texts!Reading(placed) = g[n]
  BY Zenon DEF Texts!Reading, Texts!Iterated, ReadingRun
<1> QED
  BY <1>3, <1>4

(* The lines that are read of the first n.                                 *)
SpokenTo(placed, n) == {i \in 1..n : placed[i].line.kind # "blank"}

(* One line more is read, unless it is blank.                              *)
LEMMA SpokenToGives ==
  ASSUME NEW placed, NEW n \in Nat \ {0}
  PROVE  /\ IsFiniteSet(SpokenTo(placed, n - 1)) /\ SpokenTo(placed, n - 1) \subseteq 1..(n - 1)
         /\ SpokenTo(placed, n) = IF placed[n].line.kind = "blank" THEN SpokenTo(placed, n - 1)
                                  ELSE SpokenTo(placed, n - 1) \union {n}
<1>1. n - 1 \in Nat
  OBVIOUS
<1>2. IsFiniteSet(1..(n - 1))
  BY <1>1, FS_Interval
<1>3. SpokenTo(placed, n - 1) \in SUBSET (1..(n - 1))
  BY DEF SpokenTo
<1>4. IsFiniteSet(SpokenTo(placed, n - 1))
  BY <1>2, <1>3, FS_Subset
<1>5. \A i : i \in 1..n <=> i \in 1..(n - 1) \/ i = n
  OBVIOUS
<1>6. CASE placed[n].line.kind = "blank"
  BY <1>3, <1>4, <1>5, <1>6 DEF SpokenTo
<1>7. CASE placed[n].line.kind # "blank"
  BY <1>3, <1>4, <1>5, <1>7 DEF SpokenTo
<1> QED
  BY <1>6, <1>7

(* The lines of the sections stay the lines that are read.                 *)
LEMMA LineIsRead ==
  ASSUME NEW placed \in Seq(Placing), NEW n \in 1..Len(placed), NEW s \in Parsing,
         LinesOf(s.sections) = Normalized(AtPlaces(placed, SpokenTo(placed, n - 1))),
         NEW t, t = Texts!ReadLine(s, placed[n])
  PROVE  LinesOf(t.sections) = Normalized(AtPlaces(placed, SpokenTo(placed, n)))
<1>1. PICK line : line = Texts!NormalizeHeading(placed[n].line)
  OBVIOUS
<1>2. placed[n] \in Placing /\ n \in Nat \ {0} /\ \A i \in 1..n : placed[i] \in Placing
  OBVIOUS
<1>3. line \in Texts!Line /\ line.kind = placed[n].line.kind
  BY <1>1, <1>2, NormalizingKeepsKind DEF Placing
<1>4. \/ line.kind = "blank" /\ t = s
      \/ OpensPreamble(s, line, t)
      \/ Continues(s, line, t)
      \/ OpensSection(s, line, t)
  BY <1>1, <1>2, ReadGives
<1>5. PICK S : S = SpokenTo(placed, n - 1)
  OBVIOUS
<1>6. /\ IsFiniteSet(S) /\ S \subseteq 1..(n - 1)
      /\ SpokenTo(placed, n) = IF placed[n].line.kind = "blank" THEN S ELSE S \union {n}
  BY <1>2, <1>5, SpokenToGives
<1>7. CASE line.kind = "blank"
  <2>1. t = s
    BY <1>4, <1>7, KindsAre DEF OpensPreamble, Continues, OpensSection, Headings, HeadKinds
  <2> QED
    BY <1>3, <1>5, <1>6, <1>7, <2>1
<1>8. CASE line.kind # "blank"
  <2>1. LinesOf(t.sections) = Append(LinesOf(s.sections), line)
    BY <1>3, <1>4, <1>8, ReadingKeepsLines
  <2>2. S \subseteq Int /\ n \in Int /\ \A x \in S : x < n /\ placed[x] \in Placing
    BY <1>2, <1>6
  <2>3. PICK q : q = AtPlaces(placed, S)
    OBVIOUS
  <2>4. q \in Seq(Placing) /\ AtPlaces(placed, S \union {n}) = Append(q, placed[n])
    BY <1>2, <1>6, <2>2, <2>3, OneMorePlace
  <2>5. Normalized(Append(q, placed[n])) = Append(Normalized(q), line)
    BY <1>1, <1>2, <2>4, NormalizedOfAppend
  <2> QED
    BY <1>3, <1>5, <1>6, <1>8, <2>1, <2>3, <2>4, <2>5
<1> QED
  BY <1>7, <1>8

(* The headings a section stands under, by the kinds of the sections and   *)
(* the lines they opened with.                                             *)
SectionKinds == HeadKinds \union {"preamble"}

(* Section i stands under itself and those before it that no later one of  *)
(* their level or above ends.                                              *)
KindsIn(h) == [k \in DOMAIN h |-> h[k].kind]
OpenAt(kinds, i) ==
  {k \in 1..i : /\ kinds[k] # "preamble"
                /\ \A l \in (k + 1)..i : Texts!LevelOf(kinds[l]) > Texts!LevelOf(kinds[k])}
Under(heads, kinds, i) == AtPlaces(heads, OpenAt(kinds, i))
Lower(h, kind) == {j \in DOMAIN h : Texts!LevelOf(h[j].kind) < Texts!LevelOf(kind)}

(* They are some of the first i, and no preamble.                          *)
LEMMA OpenAtGives ==
  ASSUME NEW kinds, NEW i \in Nat
  PROVE  IsFiniteSet(OpenAt(kinds, i)) /\ OpenAt(kinds, i) \subseteq 1..i
         /\ \A k \in OpenAt(kinds, i) : kinds[k] # "preamble"
<1>1. IsFiniteSet(1..i)
  BY FS_Interval
<1>2. OpenAt(kinds, i) \in SUBSET (1..i)
  BY DEF OpenAt
<1>3. IsFiniteSet(OpenAt(kinds, i))
  BY <1>1, <1>2, FS_Subset
<1> QED
  BY <1>2, <1>3 DEF OpenAt

(* The same to place i.                                                    *)
SameTo(i, f, g) == \A k \in 1..i : f[k] = g[k]

(* What comes after section i does not matter to it.                       *)
LEMMA SameUnder ==
  ASSUME NEW i \in Nat, NEW kinds, NEW more, SameTo(i, kinds, more),
         NEW heads, NEW heads2, SameTo(i, heads, heads2)
  PROVE  Under(heads, kinds, i) = Under(heads2, more, i)
<1>0. \A k \in 1..i : kinds[k] = more[k] /\ heads[k] = heads2[k]
  BY DEF SameTo
<1>1. \A k \in 1..i : \A l \in (k + 1)..i : l \in 1..i
  OBVIOUS
<1>2. OpenAt(kinds, i) = OpenAt(more, i)
  BY <1>0, <1>1 DEF OpenAt
<1>3. PICK S : S = OpenAt(kinds, i)
  OBVIOUS
<1>4. IsFiniteSet(S) /\ S \subseteq 1..i /\ S \subseteq Int
  BY <1>3, OpenAtGives
<1>5. PICK p : p = Ascending(S)
  OBVIOUS
<1>6. DOMAIN p = 1..Cardinality(S) /\ \A j \in DOMAIN p : p[j] \in S
  <2>1. Ascends(S, p)
    BY <1>4, <1>5, AscendingGives
  <2> QED
    BY <2>1 DEF Ascends
<1>7. [j \in DOMAIN p |-> heads[p[j]]] = [j \in DOMAIN p |-> heads2[p[j]]]
  BY <1>0, <1>4, <1>6
<1> QED
  BY <1>2, <1>3, <1>5, <1>7 DEF Under, AtPlaces

(* After a heading of kind c, those of lower levels stay open, with it.    *)
EndsLower(kinds, n, c, more) ==
  OpenAt(more, n + 1)
  = {k \in OpenAt(kinds, n) : Texts!LevelOf(kinds[k]) < Texts!LevelOf(c)} \union {n + 1}

(* One more heading ends those of its level and below.                     *)
LEMMA OpenOneMore ==
  ASSUME NEW n \in Nat, NEW kinds, NEW c \in HeadKinds, NEW more,
         \A k \in 1..n : kinds[k] \in SectionKinds /\ (k # 1 => kinds[k] \in HeadKinds),
         \A k \in 1..n : more[k] = kinds[k], more[n + 1] = c
  PROVE  EndsLower(kinds, n, c, more)
<1>1. \A k : k \in 1..(n + 1) <=> k \in 1..n \/ k = n + 1
  OBVIOUS
<1>2. \A k \in 1..n : /\ \A l : l \in (k + 1)..(n + 1) <=> l \in (k + 1)..n \/ l = n + 1
                      /\ \A l \in (k + 1)..n : l \in 1..n
  OBVIOUS
<1>3. \A k \in 1..n : kinds[k] # "preamble" => kinds[k] \in HeadKinds
  BY DEF SectionKinds
<1>4. \A kind \in HeadKinds : Texts!LevelOf(kind) \in Int
  BY KindsAre
<1>5. (n + 2)..(n + 1) = {} /\ c # "preamble" /\ n + 1 \in 1..(n + 1) /\ n + 1 + 1 = n + 2
  BY DEF HeadKinds
<1>6. n + 1 \in OpenAt(more, n + 1)
  BY <1>5 DEF OpenAt
<1>7. ASSUME NEW k \in 1..n
      PROVE  k \in OpenAt(more, n + 1)
             <=> k \in OpenAt(kinds, n) /\ Texts!LevelOf(kinds[k]) < Texts!LevelOf(c)
  <2>1. k \in OpenAt(more, n + 1)
        <=> /\ kinds[k] # "preamble"
            /\ \A l \in (k + 1)..(n + 1) : Texts!LevelOf(more[l]) > Texts!LevelOf(kinds[k])
    BY <1>1 DEF OpenAt
  <2>2. (\A l \in (k + 1)..(n + 1) : Texts!LevelOf(more[l]) > Texts!LevelOf(kinds[k]))
        <=> /\ \A l \in (k + 1)..n : Texts!LevelOf(kinds[l]) > Texts!LevelOf(kinds[k])
            /\ Texts!LevelOf(c) > Texts!LevelOf(kinds[k])
    BY <1>2
  <2>3. k \in OpenAt(kinds, n)
        <=> /\ kinds[k] # "preamble"
            /\ \A l \in (k + 1)..n : Texts!LevelOf(kinds[l]) > Texts!LevelOf(kinds[k])
    BY DEF OpenAt
  <2>4. kinds[k] # "preamble" =>
          (Texts!LevelOf(c) > Texts!LevelOf(kinds[k])
           <=> Texts!LevelOf(kinds[k]) < Texts!LevelOf(c))
    BY <1>3, <1>4
  <2> QED
    BY <2>1, <2>2, <2>3, <2>4
<1>8. OpenAt(more, n + 1) \subseteq 1..(n + 1) /\ OpenAt(kinds, n) \subseteq 1..n
  BY DEF OpenAt
<1> QED
  BY <1>1, <1>6, <1>7, <1>8 DEF EndsLower

(* The same of the lines: those of levels above the heading's, then it.    *)
OneMore(n, kinds, heads, heading, more, heads2) ==
  /\ \A k \in 1..n : kinds[k] \in SectionKinds /\ (k # 1 => kinds[k] \in HeadKinds)
  /\ \A k \in 1..n : more[k] = kinds[k]
  /\ more[n + 1] = heading.kind
  /\ \A k \in 1..n : kinds[k] # "preamble" => heads[k] \in Headings /\ heads[k].kind = kinds[k]
  /\ \A k \in 1..n : heads2[k] = heads[k]
  /\ heads2[n + 1] = heading

(* Of the sections that stand open, those above the heading's level do,    *)
(* and the heading.                                                        *)
LEMMA UnderOneMore ==
  ASSUME NEW n \in Nat, NEW kinds, NEW heads, NEW heading \in Headings, NEW more, NEW heads2,
         OneMore(n, kinds, heads, heading, more, heads2), NEW u, u = Under(heads, kinds, n)
  PROVE  Under(heads2, more, n + 1) = Append(AtPlaces(u, Lower(u, heading.kind)), heading)
<1> USE DEF OneMore
<1> DEFINE c == heading.kind
<1>0. c \in HeadKinds
  BY DEF Headings
<1> HIDE DEF c
<1>1. PICK S : S = OpenAt(kinds, n)
  OBVIOUS
<1>2. /\ IsFiniteSet(S) /\ S \subseteq 1..n /\ S \subseteq Int
      /\ \A k \in S : heads[k] \in Headings /\ heads[k].kind = kinds[k]
  BY <1>1, OpenAtGives
<1>3. PICK p : p = Ascending(S)
  OBVIOUS
<1>4. /\ u \in Seq(Headings) /\ Len(u) = Cardinality(S)
      /\ u = [j \in 1..Cardinality(S) |-> heads[p[j]]]
  <2>1. u = AtPlaces(heads, S)
    BY <1>1 DEF Under
  <2>2. AtPlaces(heads, S) \in Seq(Headings)
    BY <1>2, PlacesAreSeq
  <2>3. Len(AtPlaces(heads, S)) = Cardinality(S)
    BY <1>2, PlacesAreSeq
  <2>4. AtPlaces(heads, S) = [j \in 1..Cardinality(S) |-> heads[p[j]]]
    <3>1. Ascends(S, p)
      BY <1>2, <1>3, AscendingGives
    <3> QED
      BY <1>3, <3>1 DEF Ascends, AtPlaces
  <2> QED
    BY <2>1, <2>2, <2>3, <2>4
<1>5. /\ Cardinality(S) \in Nat /\ DOMAIN p = 1..Cardinality(S)
      /\ \A j \in 1..Cardinality(S) : p[j] \in S
      /\ \A x \in S : \E j \in 1..Cardinality(S) : p[j] = x
  <2>1. Ascends(S, p)
    BY <1>2, <1>3, AscendingGives
  <2> QED
    BY <2>1 DEF Ascends
<1>6. PICK J : J = Lower(u, c)
  OBVIOUS
<1>7. J \in SUBSET (1..Cardinality(S))
      /\ \A j \in 1..Cardinality(S) :
           j \in J <=> Texts!LevelOf(kinds[p[j]]) < Texts!LevelOf(c)
  <2>1. DOMAIN u = 1..Cardinality(S) /\ \A j \in 1..Cardinality(S) : u[j].kind = kinds[p[j]]
    BY <1>2, <1>4, <1>5
  <2> QED
    BY <1>6, <2>1 DEF Lower
<1>8. PICK R : R = PlacesAt(p, J)
  OBVIOUS
<1>9. OpenAt(more, n + 1) = R \union {n + 1}
  <2>1. OpenAt(more, n + 1)
        = {k \in S : Texts!LevelOf(kinds[k]) < Texts!LevelOf(c)} \union {n + 1}
    <3>1. EndsLower(kinds, n, c, more)
      BY <1>0, OpenOneMore DEF c
    <3> QED
      BY <1>1, <3>1 DEF EndsLower
  <2>2. R = {k \in S : Texts!LevelOf(kinds[k]) < Texts!LevelOf(c)}
    BY <1>5, <1>7, <1>8 DEF PlacesAt
  <2> QED
    BY <2>1, <2>2
<1>10. PICK q : q = Ascending(J)
  OBVIOUS
<1>11. /\ IsFiniteSet(J) /\ IsFiniteSet(R) /\ R \subseteq Int
       /\ Cardinality(R) = Cardinality(J) /\ Cardinality(J) \in Nat
       /\ Ascending(R) = [w \in 1..Cardinality(J) |-> p[q[w]]]
  <2>1. Picks(J, p, q, R)
    BY <1>2, <1>3, <1>7, <1>8, <1>10, PlacesOfPlaces
  <2> QED
    BY <2>1 DEF Picks
<1>12. R \subseteq S
  BY <1>5, <1>7, <1>8 DEF PlacesAt
<1>13. /\ n + 1 \in Int /\ \A x \in R : x < n + 1 /\ heads2[x] = heads[x]
       /\ \A x \in R : heads2[x] \in Headings
  <2>1. \A x \in R : x \in S /\ x \in 1..n /\ heads[x] \in Headings
    BY <1>2, <1>12
  <2>2. \A x \in R : heads2[x] = heads[x]
    BY <2>1
  <2>3. n + 1 \in Int /\ \A x \in 1..n : x < n + 1
    OBVIOUS
  <2> QED
    BY <2>1, <2>2, <2>3
<1>14. AtPlaces(heads2, OpenAt(more, n + 1)) = Append(AtPlaces(heads2, R), heading)
  <2>1. PICK o : o = n + 1
    OBVIOUS
  <2>2. /\ heads2[o] = heading /\ o \in Int /\ \A x \in R : x < o
        /\ heads2[o] \in Headings
    BY <1>13, <2>1
  <2>3. AtPlaces(heads2, R \union {o}) = Append(AtPlaces(heads2, R), heads2[o])
    BY <1>11, <1>13, <2>2, OneMorePlace
  <2> QED
    BY <1>9, <2>1, <2>2, <2>3
<1>15. AtPlaces(heads2, R) = AtPlaces(u, J)
  <2>1. /\ DOMAIN q = 1..Cardinality(J) /\ \A w \in 1..Cardinality(J) : q[w] \in J
    <3>1. J \subseteq Int
      BY <1>7
    <3>2. Ascends(J, q)
      BY <1>10, <1>11, <3>1, AscendingGives
    <3> QED
      BY <3>2 DEF Ascends
  <2>2. PICK pr : pr = Ascending(R)
    OBVIOUS
  <2>3. DOMAIN pr = 1..Cardinality(J) /\ \A w \in 1..Cardinality(J) : pr[w] = p[q[w]] /\ pr[w] \in R
    BY <1>8, <1>11, <2>1, <2>2 DEF PlacesAt
  <2>4. ASSUME NEW w \in 1..Cardinality(J) PROVE heads2[pr[w]] = u[q[w]]
    <3>1. q[w] \in 1..Cardinality(S) /\ u[q[w]] = heads[p[q[w]]]
      BY <1>4, <1>7, <2>1
    <3> QED
      BY <1>13, <2>3, <3>1
  <2>5. [w \in DOMAIN pr |-> heads2[pr[w]]] = [w \in DOMAIN q |-> u[q[w]]]
    BY <2>1, <2>3, <2>4
  <2> QED
    BY <1>10, <2>2, <2>5 DEF AtPlaces
<1> QED
  BY <1>6, <1>14, <1>15 DEF Under, c

(* A heading leaves those of the hierarchy above it, and follows them.     *)
LEMMA HierarchyLowers ==
  ASSUME NEW h, NEW heading
  PROVE  Texts!UpdateHierarchy(h, heading) = Append(AtPlaces(h, Lower(h, heading.kind)), heading)
<1>1. Texts!UpdateHierarchy(h, heading)
      = Append(Texts!AtPlaces(h, Lower(h, heading.kind)), heading)
  BY Zenon DEF Texts!UpdateHierarchy, Lower
<1> QED
  BY <1>1, SamePlaces

(* A section has lines; unless it is the preamble, the first is a heading  *)
(* of its kind and its own heading comes of that.                          *)
Headed(section) ==
  /\ section.lines # <<>>
  /\ section.kind # "preamble" =>
       /\ section.lines[1] \in Headings /\ section.lines[1].kind = section.kind
       /\ HeadingIsRead(section)

(* One more line changes neither.                                          *)
LEMMA HeadedExtends ==
  ASSUME NEW x \in Section, NEW y \in Section, NEW line \in Texts!Line, Headed(x),
         y.kind = x.kind, y.lines = Append(x.lines, line), Heads(x, line, y.heading)
  PROVE  Headed(y) /\ y.lines[1] = x.lines[1]
<1>1. PICK lines : lines = x.lines
  OBVIOUS
<1>2. lines \in Seq(Texts!Line) /\ lines # <<>> /\ y.lines = Append(lines, line)
  BY <1>1 DEF Section, Headed
<1>3. PICK n : n = Len(lines)
  OBVIOUS
<1>4. n \in Nat /\ n # 0 /\ DOMAIN lines = 1..n
  BY <1>2, <1>3
<1>5. /\ DOMAIN y.lines = 1..(n + 1) /\ y.lines[n + 1] = line
      /\ \A k \in 1..n : y.lines[k] = lines[k] /\ k \in 1..(n + 1)
  BY <1>2, <1>3, <1>4
<1>6. y.lines[1] = x.lines[1] /\ y.lines # <<>>
  BY <1>1, <1>4, <1>5
<1>7. line \in ToSet(y.lines) /\ \A l \in ToSet(lines) : l \in ToSet(y.lines) /\ l \in Texts!Line
  <2>1. n + 1 \in 1..(n + 1)
    BY <1>4
  <2> QED
    BY <1>2, <1>4, <1>5, <2>1 DEF ToSet
<1>8. ASSUME x.kind # "preamble" PROVE HeadingIsRead(y)
  <2>1. PICK o : o = x.lines[1]
    OBVIOUS
  <2>2. o \in Texts!Line
    BY <1>1, <1>2, <1>4, <2>1
  <2>3. \/ x.heading = o
        \/ /\ x.kind = "ayat" /\ o.rest = Texts!Dotted
           /\ x.heading \in ToSet(lines) /\ x.heading.length > o.length
    BY <1>1, <1>8, <2>1 DEF Headed, HeadingIsRead
  <2>4. CASE y.heading = x.heading
    BY <1>6, <1>7, <2>1, <2>3, <2>4 DEF HeadingIsRead
  <2>5. CASE x.kind = "ayat" /\ Texts!Completes(x.heading, line) /\ y.heading = line
    <3>1. x.heading.rest = Texts!Dotted /\ line.length > x.heading.length
      BY <2>5 DEF Texts!Completes
    <3>2. x.heading \in Texts!Line
      BY <1>7, <2>2, <2>3
    <3>3. /\ x.heading.length \in Int /\ line.length \in Int /\ o.length \in Int
      BY <2>2, <3>2, KindsAre
    <3>4. o.rest = Texts!Dotted /\ line.length > o.length
      BY <2>3, <3>1, <3>3
    <3> QED
      BY <1>6, <1>7, <2>1, <2>5, <3>4 DEF HeadingIsRead
  <2> QED
    BY <2>4, <2>5 DEF Heads
<1> QED
  BY <1>6, <1>8 DEF Headed

(* The lines sections opened with, and a parse whose hierarchies are those *)
(* that its sections stand under.                                          *)
OpeningsIn(sections) == [k \in DOMAIN sections |-> sections[k].lines[1]]

Hierarchical(sections, hierarchy) ==
  LET kinds == KindsIn(sections)
      heads == OpeningsIn(sections)
  IN  /\ \A i \in DOMAIN sections : i # 1 => sections[i].kind \in HeadKinds
      /\ \A i \in DOMAIN sections : Headed(sections[i])
      /\ hierarchy = Under(heads, kinds, Len(sections))
      /\ \A i \in DOMAIN sections :
           sections[i].kind # "preamble" => sections[i].hierarchy = Under(heads, kinds, i)

(* No section, no heading.                                                 *)
LEMMA NothingUnder ==
  Hierarchical(<<>>, <<>>)
<1>1. OpenAt(KindsIn(<<>>), 0) = {}
  BY DEF OpenAt
<1>2. Under(OpeningsIn(<<>>), KindsIn(<<>>), 0) = <<>>
  BY <1>1, NoPlaces DEF Under
<1>3. DOMAIN <<>> = {} /\ Len(<<>>) = 0
  OBVIOUS
<1> QED
  BY <1>2, <1>3 DEF Hierarchical

(* One more section changes none before it.                                *)
LEMMA KindsOfAppend ==
  ASSUME NEW sections \in Seq(Section), NEW x \in Section, NEW n, n = Len(sections),
         NEW after, after = Append(sections, x)
  PROVE  /\ n \in Nat /\ DOMAIN sections = 1..n /\ DOMAIN after = 1..(n + 1) /\ Len(after) = n + 1
         /\ \A k \in 1..n : after[k] = sections[k]
         /\ after[n + 1] = x
  OBVIOUS

(* The preamble stands under nothing.                                      *)
LEMMA PreambleUnder ==
  ASSUME NEW x \in Section, x.kind = "preamble", NEW line, x.lines = <<line>>,
         NEW h, Hierarchical(<<>>, h),
         NEW after, after = Append(<<>>, x)
  PROVE  Hierarchical(after, h)
<1>1. <<>> \in Seq(Section) /\ Len(<<>>) = 0
  OBVIOUS
<1>2. DOMAIN after = 1..1 /\ Len(after) = 1 /\ after[1] = x
  BY <1>1, KindsOfAppend
<1>3. PICK kinds : kinds = KindsIn(after)
  OBVIOUS
<1>4. kinds[1] = "preamble"
  BY <1>2, <1>3 DEF KindsIn
<1>5. OpenAt(kinds, 1) = {}
  BY <1>4 DEF OpenAt
<1>6. Under(OpeningsIn(after), kinds, 1) = <<>>
  BY <1>5, NoPlaces DEF Under
<1>7. OpenAt(KindsIn(<<>>), 0) = {}
  BY DEF OpenAt
<1>8. h = <<>>
  BY <1>1, <1>7, NoPlaces DEF Hierarchical, Under
<1>9. Headed(x)
  <2>1. <<line>> # <<>>
    OBVIOUS
  <2> QED
    BY <2>1 DEF Headed
<1> QED
  BY <1>2, <1>3, <1>6, <1>8, <1>9 DEF Hierarchical

(* The last section may be continued.                                      *)
LEMMA ContinuedUnder ==
  ASSUME NEW sections \in Seq(Section), NEW hierarchy, Hierarchical(sections, hierarchy),
         NEW after, NEW line \in Texts!Line, Extends(sections, after, line)
  PROVE  Hierarchical(after, hierarchy)
<1>1. PICK before \in Seq(Section), x \in Section, y \in Section :
        /\ sections = Append(before, x) /\ after = Append(before, y)
        /\ y.kind = x.kind /\ y.hierarchy = x.hierarchy /\ y.lines = Append(x.lines, line)
        /\ Heads(x, line, y.heading)
  BY DEF Extends
<1>2. PICK n : n = Len(before)
  OBVIOUS
<1>3. /\ n \in Nat /\ DOMAIN sections = 1..(n + 1) /\ Len(sections) = n + 1
      /\ DOMAIN after = 1..(n + 1) /\ Len(after) = n + 1
  BY <1>1, <1>2, KindsOfAppend
<1>4. \A k \in 1..n : after[k] = before[k] /\ sections[k] = before[k]
  BY <1>1, <1>2, KindsOfAppend
<1>5. after[n + 1] = y /\ sections[n + 1] = x
  BY <1>1, <1>2, KindsOfAppend
<1>6. \A k \in 1..(n + 1) : k \in 1..n \/ k = n + 1
  BY <1>3
<1>7. \A k \in DOMAIN sections : Headed(sections[k])
  BY DEF Hierarchical
<1>8. Headed(y) /\ y.lines[1] = x.lines[1]
  <2>1. Headed(x)
    BY <1>3, <1>5, <1>7
  <2> QED
    BY <1>1, <2>1, HeadedExtends
<1>9. \A k \in 1..(n + 1) :
        /\ after[k].kind = sections[k].kind /\ after[k].hierarchy = sections[k].hierarchy
        /\ after[k].lines[1] = sections[k].lines[1] /\ Headed(after[k])
  BY <1>1, <1>3, <1>4, <1>5, <1>6, <1>7, <1>8
<1>10. KindsIn(after) = KindsIn(sections) /\ OpeningsIn(after) = OpeningsIn(sections)
  BY <1>3, <1>9 DEF KindsIn, OpeningsIn
<1> QED
  BY <1>3, <1>9, <1>10 DEF Hierarchical

(* A section of its own stands under what its heading leaves.              *)
LEMMA OpenedUnder ==
  ASSUME NEW sections \in Seq(Section), NEW hierarchy \in Seq(Headings), Hierarchical(sections, hierarchy),
         NEW heading \in Headings, NEW upper, upper = Texts!UpdateHierarchy(hierarchy, heading),
         NEW x \in Section, x.kind = heading.kind, x.hierarchy = upper,
         x.lines = <<heading>>, x.heading = heading,
         NEW after, after = Append(sections, x)
  PROVE  Hierarchical(after, upper)
<1>1. PICK n : n = Len(sections)
  OBVIOUS
<1>2. /\ n \in Nat /\ DOMAIN sections = 1..n /\ DOMAIN after = 1..(n + 1) /\ Len(after) = n + 1
      /\ \A k \in 1..n : after[k] = sections[k]
  BY <1>1, KindsOfAppend
<1>3. after[n + 1] = x
  BY <1>1, KindsOfAppend
<1>4. PICK kinds : kinds = KindsIn(sections)
  OBVIOUS
<1>5. PICK more : more = KindsIn(after)
  OBVIOUS
<1>6. PICK heads : heads = OpeningsIn(sections)
  OBVIOUS
<1>7. PICK heads2 : heads2 = OpeningsIn(after)
  OBVIOUS
<1>8. x.lines[1] = heading /\ x.lines # <<>> /\ Headed(x)
  <2>1. <<heading>> # <<>> /\ <<heading>>[1] = heading
    OBVIOUS
  <2> QED
    BY <2>1 DEF Headed, HeadingIsRead
<1>9. /\ \A k \in 1..n : kinds[k] = sections[k].kind /\ more[k] = kinds[k]
      /\ more[n + 1] = heading.kind
  BY <1>2, <1>3, <1>4, <1>5 DEF KindsIn
<1>10. /\ \A k \in 1..n : heads[k] = sections[k].lines[1] /\ heads2[k] = heads[k]
       /\ heads2[n + 1] = heading
  BY <1>2, <1>3, <1>6, <1>7, <1>8 DEF OpeningsIn
<1>11. \A k \in 1..n : kinds[k] \in SectionKinds /\ (k # 1 => kinds[k] \in HeadKinds)
  <2>1. \A k \in 1..n : sections[k] \in Section
    BY <1>1
  <2>2. \A k \in 1..n : k # 1 => sections[k].kind \in HeadKinds
    BY <1>2 DEF Hierarchical
  <2>3. \A k \in 1..n : sections[k].kind \in SectionKinds
    BY <2>1 DEF Section, SectionKinds
  <2> QED
    BY <1>9, <2>2, <2>3
<1>12. \A k \in 1..n : kinds[k] # "preamble" => heads[k] \in Headings /\ heads[k].kind = kinds[k]
  <2>1. \A k \in 1..n : Headed(sections[k])
    BY <1>2 DEF Hierarchical
  <2> QED
    BY <1>9, <1>10, <2>1 DEF Headed
<1>13. hierarchy = Under(heads, kinds, n)
  BY <1>1, <1>4, <1>6 DEF Hierarchical
<1>14. upper = Append(AtPlaces(hierarchy, Lower(hierarchy, heading.kind)), heading)
  BY HierarchyLowers
<1>15. PICK m : m = n + 1
  OBVIOUS
<1>16. Under(heads2, more, m) = upper
  <2>1. OneMore(n, kinds, heads, heading, more, heads2)
    BY <1>2, <1>9, <1>10, <1>11, <1>12 DEF OneMore
  <2>2. PICK u : u = Under(heads, kinds, n)
    OBVIOUS
  <2>3. Under(heads2, more, n + 1) = Append(AtPlaces(u, Lower(u, heading.kind)), heading)
    BY <1>2, <2>1, <2>2, UnderOneMore
  <2> QED
    BY <1>13, <1>14, <1>15, <2>2, <2>3
<1>17. \A i \in 1..n : Under(heads2, more, i) = Under(heads, kinds, i)
  <2>1. ASSUME NEW i \in 1..n PROVE Under(heads2, more, i) = Under(heads, kinds, i)
    <3>1. i \in Nat /\ \A k \in 1..i : k \in 1..n
      BY <1>2
    <3>2. SameTo(i, more, kinds)
      BY <1>9, <3>1 DEF SameTo
    <3>3. SameTo(i, heads2, heads)
      BY <1>10, <3>1 DEF SameTo
    <3> QED
      BY <3>1, <3>2, <3>3, SameUnder
  <2> QED
    BY <2>1
<1>18. \A i \in 1..(n + 1) : i \in 1..n \/ i = m
  BY <1>2, <1>15
<1>19. \A i \in DOMAIN after : i # 1 => after[i].kind \in HeadKinds
  BY <1>2, <1>3, <1>9, <1>11, <1>15, <1>18 DEF Headings
<1>20. \A i \in DOMAIN after : Headed(after[i])
  BY <1>2, <1>3, <1>8, <1>15, <1>18 DEF Hierarchical
<1>21. \A i \in DOMAIN after :
         after[i].kind # "preamble" => after[i].hierarchy = Under(heads2, more, i)
  <2>1. \A i \in 1..n :
          sections[i].kind # "preamble" => sections[i].hierarchy = Under(heads, kinds, i)
    BY <1>2, <1>4, <1>6 DEF Hierarchical
  <2>2. after[m].hierarchy = Under(heads2, more, m)
    BY <1>3, <1>15, <1>16
  <2> QED
    BY <1>2, <1>17, <1>18, <2>1, <2>2
<1> QED
  BY <1>2, <1>5, <1>7, <1>15, <1>16, <1>19, <1>20, <1>21 DEF Hierarchical

(* Whatever a line does, sections stand under what their hierarchies name. *)
LEMMA LineStands ==
  ASSUME NEW s \in Parsing, Hierarchical(s.sections, s.hierarchy), NEW line \in Texts!Line, NEW t,
         t = s \/ OpensPreamble(s, line, t) \/ Continues(s, line, t) \/ OpensSection(s, line, t)
  PROVE  Hierarchical(t.sections, t.hierarchy)
<1>1. s.sections \in Seq(Section) /\ s.hierarchy \in Seq(Headings)
  BY DEF Parsing
<1>2. CASE OpensPreamble(s, line, t)
  BY <1>2, PreambleUnder DEF OpensPreamble
<1>3. CASE Continues(s, line, t)
  BY <1>1, <1>3, ContinuedUnder DEF Continues
<1>4. CASE OpensSection(s, line, t)
  BY <1>1, <1>4, OpenedUnder DEF OpensSection
<1> QED
  BY <1>2, <1>3, <1>4

(* What has been read of the first n lines.                                *)
ReadTo(placed, n, s) ==
  /\ s \in Parsing
  /\ LinesOf(s.sections) = Normalized(AtPlaces(placed, SpokenTo(placed, n)))
  /\ Hierarchical(s.sections, s.hierarchy)

(* Before the first line.                                                  *)
LEMMA NothingIsRead ==
  ASSUME NEW placed
  PROVE  ReadTo(placed, 0, Texts!NothingRead)
<1>1. PICK s : s = Texts!NothingRead
  OBVIOUS
<1>2. s.sections = <<>> /\ s.hierarchy = <<>> /\ s \in Parsing
  BY <1>1 DEF Texts!NothingRead, Parsing
<1>3. SpokenTo(placed, 0) = {}
  BY DEF SpokenTo
<1>4. Normalized(<<>>) = <<>> /\ [i \in DOMAIN <<>> |-> <<>>[i].lines] = <<>>
  BY DEF Normalized
<1>5. LinesOf(<<>>) = <<>>
  BY <1>4, FlattenOfNone, Zenon DEF LinesOf
<1> QED
  BY <1>1, <1>2, <1>3, <1>4, <1>5, NoPlaces, NothingUnder DEF ReadTo

(* A parse has the lines spoken, and sections that stand under their       *)
(* hierarchies.                                                            *)
LEMMA ParseGives ==
  ASSUME NEW pages \in Seq(Seq(Texts!Line)), NEW sections, sections = Texts!Parse(pages)
  PROVE  /\ sections \in Seq(Section) /\ LinesOf(sections) = Spoken(pages)
         /\ \E h : Hierarchical(sections, h)
<1>1. PICK placed : placed = Texts!PlacedLines(pages)
  OBVIOUS
<1>2. placed \in Seq(Placing)
  BY <1>1, PlacedGives
<1>3. PICK n : n = Len(placed)
  OBVIOUS
<1>4. n \in Nat /\ DOMAIN placed = 1..n
  BY <1>2, <1>3
<1>5. PICK g : ReadingRun(placed, n, g) /\ Texts!Reading(placed) = g[n]
  BY <1>3, <1>4, ReadingIsRun
<1>6. g[0] = Texts!NothingRead /\ \A i \in 1..n : g[i] = Texts!ReadLine(g[i - 1], placed[i])
  BY <1>4, <1>5 DEF ReadingRun
<1> DEFINE Good == {i \in 0..n : ReadTo(placed, i, g[i])}
<1>7. 0 \in Good
  BY <1>4, <1>6, NothingIsRead
<1>8. ASSUME NEW i \in 1..n, i - 1 \in Good PROVE i \in Good
  <2>1. PICK s : s = g[i - 1]
    OBVIOUS
  <2>2. PICK t : t = Texts!ReadLine(s, placed[i])
    OBVIOUS
  <2>3. ReadTo(placed, i - 1, s) /\ t = g[i]
    BY <1>6, <1>8, <2>1, <2>2
  <2>4. /\ s \in Parsing /\ placed[i] \in Placing
        /\ LinesOf(s.sections) = Normalized(AtPlaces(placed, SpokenTo(placed, i - 1)))
        /\ Hierarchical(s.sections, s.hierarchy)
    BY <1>2, <1>3, <2>3 DEF ReadTo
  <2>5. LinesOf(t.sections) = Normalized(AtPlaces(placed, SpokenTo(placed, i)))
    BY <1>2, <1>3, <2>2, <2>4, LineIsRead
  <2>6. PICK line : line = Texts!NormalizeHeading(placed[i].line)
    OBVIOUS
  <2>7. /\ t \in Parsing
        /\ t = s \/ OpensPreamble(s, line, t) \/ Continues(s, line, t) \/ OpensSection(s, line, t)
    BY <2>2, <2>4, <2>6, ReadGives
  <2>8. line \in Texts!Line
    BY <2>4, <2>6, NormalizingKeepsKind DEF Placing
  <2>9. Hierarchical(t.sections, t.hierarchy)
    BY <2>4, <2>7, <2>8, LineStands
  <2> QED
    BY <2>3, <2>5, <2>7, <2>9 DEF ReadTo
<1>9. \A i \in 0..n : i \in Good
  <2> HIDE DEF Good
  <2> QED
    BY <1>4, <1>7, <1>8, StepByStep
<1>10. ReadTo(placed, n, g[n])
  BY <1>4, <1>9
<1>11. sections = g[n].sections
  BY <1>1, <1>5, Zenon DEF Texts!Parse
<1>12. g[n] \in Parsing => g[n].sections \in Seq(Section)
  BY DEF Parsing
<1>13. Spoken(pages) = Normalized(AtPlaces(placed, SpokenTo(placed, n)))
  <2>1. SpokenTo(placed, n) = {i \in DOMAIN placed : placed[i].line.kind # "blank"}
    BY <1>4 DEF SpokenTo
  <2> QED
    BY <1>1, <2>1, Zenon DEF Spoken, Normalized
<1> QED
  BY <1>10, <1>11, <1>12, <1>13 DEF ReadTo

-----------------------------------------------------------------------------
(* Chunks. *)

(* The sections of each chunk, and of all of them, in order.               *)
SectionsIn(chunks) == [c \in DOMAIN chunks |-> chunks[c].sections]
KeptIn(chunks) == FlattenSeq(SectionsIn(chunks))

(* Chunks of sections of U.                                                *)
Held(chunks, U) == \E C : chunks \in Seq(C) /\ \A c \in C : c.sections \in Seq(U)

(* A chunk more, of known chunks.                                          *)
SectionsGrow(U, C, chunks, c) ==
  /\ SectionsIn(chunks) \in Seq(Seq(U))
  /\ SectionsIn(Append(chunks, c)) = Append(SectionsIn(chunks), c.sections)

(* What one more chunk adds to the sections of all.                       *)
LEMMA SectionsMapped ==
  ASSUME NEW U, NEW C, \A c \in C : c.sections \in Seq(U), NEW chunks \in Seq(C), NEW c \in C
  PROVE  SectionsGrow(U, C, chunks, c)
<1>1. PICK F : F = [x \in C |-> x.sections]
  OBVIOUS
<1>2. PICK R : R = Seq(U)
  OBVIOUS
<1>3. F \in [C -> R]
  BY <1>1, <1>2
<1>4. MapsOneMore(F, R, chunks, c)
  BY <1>3, MappedGives
<1>5. ASSUME NEW q \in Seq(C) PROVE SectionsIn(q) = Mapped(F, q)
  BY <1>1 DEF SectionsIn, Mapped
<1>6. SectionsIn(chunks) = Mapped(F, chunks)
  BY <1>5
<1>7. Append(chunks, c) \in Seq(C)
  OBVIOUS
<1>8. SectionsIn(Append(chunks, c)) = Mapped(F, Append(chunks, c))
  BY <1>5, <1>7
<1>9. F[c] = c.sections
  BY <1>1
<1> QED
  BY <1>2, <1>4, <1>6, <1>8, <1>9 DEF MapsOneMore, SectionsGrow

(* A chunk more adds its sections at the end.                              *)
LEMMA OneMoreChunk ==
  ASSUME NEW U, NEW chunks, Held(chunks, U), NEW c, c.sections \in Seq(U)
  PROVE  /\ Held(Append(chunks, c), U) /\ KeptIn(chunks) \in Seq(U)
         /\ KeptIn(Append(chunks, c)) = KeptIn(chunks) \o c.sections
<1>1. PICK C : chunks \in Seq(C) /\ \A x \in C : x.sections \in Seq(U)
  BY DEF Held
<1>2. PICK E : E = C \union {c}
  OBVIOUS
<1>3. c \in E /\ \A x \in E : x.sections \in Seq(U)
  BY <1>1, <1>2
<1>4. chunks \in Seq(E)
  BY <1>1, <1>2
<1>5. Append(chunks, c) \in Seq(E)
  BY <1>3, <1>4
<1>6. Held(Append(chunks, c), U)
  BY <1>3, <1>5 DEF Held
<1>7. /\ SectionsIn(chunks) \in Seq(Seq(U))
      /\ SectionsIn(Append(chunks, c)) = Append(SectionsIn(chunks), c.sections)
  <2>1. SectionsGrow(U, E, chunks, c)
    BY <1>3, <1>4, SectionsMapped
  <2> QED
    BY <2>1 DEF SectionsGrow
<1>8. PICK ss : ss = SectionsIn(chunks)
  OBVIOUS
<1>9. FlattenSeq(ss) \in Seq(U)
  BY <1>7, <1>8, FlattenIsSeq
<1>10. PICK t : t = c.sections
  OBVIOUS
<1>11. FlattenSeq(Append(ss, t)) = FlattenSeq(ss) \o t
  BY <1>7, <1>8, <1>10, FlattenOfAppend
<1> QED
  BY <1>6, <1>7, <1>8, <1>9, <1>10, <1>11 DEF KeptIn

(* No chunk keeps nothing.                                                 *)
LEMMA NoChunks ==
  ASSUME NEW U
  PROVE  Held(<<>>, U) /\ KeptIn(<<>>) = <<>>
<1>1. <<>> \in Seq({})
  OBVIOUS
<1>2. SectionsIn(<<>>) = <<>>
  BY DEF SectionsIn
<1> QED
  <2>1. Held(<<>>, U)
    <3>1. PICK C : C = {}
      OBVIOUS
    <3>2. <<>> \in Seq(C) /\ \A c \in C : c.sections \in Seq(U)
      BY <3>1
    <3> QED
      BY <3>2, Zenon DEF Held
  <2>2. KeptIn(<<>>) = <<>>
    BY <1>2, FlattenOfNone DEF KeptIn
  <2> QED
    BY <2>1, <2>2

(* What chunks keep are sections of U.                                     *)
LEMMA HeldIsSeq ==
  ASSUME NEW U, NEW chunks, Held(chunks, U)
  PROVE  SectionsIn(chunks) \in Seq(Seq(U)) /\ KeptIn(chunks) \in Seq(U)
<1>1. PICK C : chunks \in Seq(C) /\ \A x \in C : x.sections \in Seq(U)
  BY DEF Held
<1>2. PICK n : n = Len(chunks)
  OBVIOUS
<1>3. n \in Nat /\ DOMAIN chunks = 1..n /\ \A i \in 1..n : chunks[i] \in C
  BY <1>1, <1>2
<1>4. PICK R : R = Seq(U)
  OBVIOUS
<1>5. PICK l : l = SectionsIn(chunks)
  OBVIOUS
<1>6. l \in [1..n -> R]
  BY <1>1, <1>3, <1>4, <1>5 DEF SectionsIn
<1>7. l \in Seq(R)
  BY <1>3, <1>6, FunctionIsSeq
<1>8. l \in Seq(Seq(U))
  BY <1>4, <1>7
<1> QED
  BY <1>5, <1>8, FlattenIsSeq DEF KeptIn

(* What a and b keep together.                                             *)
Together(U, a, b) == KeptIn(a \o b) = KeptIn(a) \o KeptIn(b)

(* What chunks keep together is what each keeps.                           *)
LEMMA ChunksTogether ==
  ASSUME NEW U, NEW a, Held(a, U), NEW b, Held(b, U)
  PROVE  Together(U, a, b)
<1>1. SectionsIn(a) \in Seq(Seq(U)) /\ SectionsIn(b) \in Seq(Seq(U))
  BY HeldIsSeq
<1>2. SectionsIn(a \o b) = SectionsIn(a) \o SectionsIn(b)
  <2>1. PICK C : a \in Seq(C)
    BY DEF Held
  <2>2. PICK E : b \in Seq(E)
    BY DEF Held
  <2>3. PICK n : n = Len(a)
    OBVIOUS
  <2>4. PICK m : m = Len(b)
    OBVIOUS
  <2>5. PICK ab : ab = a \o b
    OBVIOUS
  <2>6. n \in Nat /\ m \in Nat /\ DOMAIN a = 1..n /\ DOMAIN b = 1..m
    BY <2>1, <2>2, <2>3, <2>4
  <2>7. DOMAIN ab = 1..(n + m) /\ \A i \in 1..(n + m) : ab[i] = IF i <= n THEN a[i] ELSE b[i - n]
    <3>1. a \in Seq(C \union E) /\ b \in Seq(C \union E)
      BY <2>1, <2>2
    <3> QED
      BY <2>3, <2>4, <2>5, <3>1
  <2>8. PICK x : x = SectionsIn(a)
    OBVIOUS
  <2>9. PICK y : y = SectionsIn(b)
    OBVIOUS
  <2>10. PICK z : z = SectionsIn(ab)
    OBVIOUS
  <2>11. DOMAIN x = 1..n /\ DOMAIN y = 1..m /\ DOMAIN z = 1..(n + m)
    BY <2>6, <2>7, <2>8, <2>9, <2>10 DEF SectionsIn
  <2>12. \A i \in 1..(n + m) : z[i] = IF i <= n THEN x[i] ELSE y[i - n]
    <3>1. ASSUME NEW i \in 1..(n + m) PROVE z[i] = IF i <= n THEN x[i] ELSE y[i - n]
      <4>1. i <= n => i \in 1..n
        BY <2>6
      <4>2. ~(i <= n) => i - n \in 1..m
        BY <2>6
      <4> QED
        BY <2>6, <2>7, <2>8, <2>9, <2>10, <4>1, <4>2 DEF SectionsIn
    <3> QED
      BY <3>1
  <2>13. x \in Seq(Seq(U)) /\ y \in Seq(Seq(U))
    BY <1>1, <2>8, <2>9
  <2>14. z = x \o y
    <3>1. PICK R : R = Seq(U)
      OBVIOUS
    <3>2. x \in Seq(R) /\ y \in Seq(R) /\ Len(x) = n /\ Len(y) = m
      BY <2>6, <2>11, <2>13, <3>1
    <3>3. PICK w : w = x \o y
      OBVIOUS
    <3>4. w \in Seq(R) /\ Len(w) = n + m
          /\ \A i \in 1..(n + m) : w[i] = IF i <= n THEN x[i] ELSE y[i - n]
      BY <2>6, <3>2, <3>3, ConcatProperties
    <3>5. DOMAIN w = 1..(n + m) /\ w = [i \in 1..(n + m) |-> w[i]]
      BY <2>6, <3>4
    <3>6. z = [i \in 1..(n + m) |-> z[i]]
      BY <2>10, <2>11 DEF SectionsIn
    <3> QED
      BY <2>12, <3>3, <3>4, <3>5, <3>6
  <2> QED
    BY <2>5, <2>8, <2>9, <2>10, <2>14
<1>3. FlattenSeq(SectionsIn(a) \o SectionsIn(b)) = FlattenSeq(SectionsIn(a)) \o FlattenSeq(SectionsIn(b))
  BY <1>1, FlattenOfConcat
<1> QED
  BY <1>2, <1>3 DEF KeptIn, Together

(* A state of the chunking that keeps what it has seen.                    *)
Keeping(state, U, seen) ==
  /\ {"chunks", "current"} \subseteq DOMAIN state
  /\ Held(state.chunks, U) /\ state.current \in Seq(U)
  /\ KeptIn(state.chunks) \o state.current = seen

(* The chunk being filled is kept at the end.                              *)
LEMMA ClosingKeeps ==
  ASSUME NEW U, NEW seen, NEW state, Keeping(state, U, seen),
         NEW closed, closed = Searching!Closed(state)
  PROVE  Held(closed, U) /\ KeptIn(closed) = seen
<1>1. Held(state.chunks, U) /\ KeptIn(state.chunks) \o state.current = seen
  BY DEF Keeping
<1>2. PICK l : l = state.current
  OBVIOUS
<1>3. PICK kept : kept = KeptIn(state.chunks)
  OBVIOUS
<1>4. l \in Seq(U) /\ kept \in Seq(U) /\ kept \o l = seen
  <2>1. l \in Seq(U)
    BY <1>2 DEF Keeping
  <2>2. kept \in Seq(U)
    BY <1>1, <1>3, HeldIsSeq
  <2> QED
    BY <1>1, <1>2, <1>3, <2>1, <2>2
<1>5. CASE l = <<>>
  <2>1. closed = state.chunks
    BY <1>2, <1>5 DEF Searching!Closed
  <2>2. kept \o <<>> = kept
    BY <1>4
  <2> QED
    BY <1>1, <1>3, <1>4, <1>5, <2>1, <2>2
<1>6. CASE l # <<>>
  <2>1. PICK c : c = Searching!Chunk(l, state.explains)
    OBVIOUS
  <2>2. c.sections = l
    BY <2>1 DEF Searching!Chunk
  <2>3. closed = Append(state.chunks, c)
    BY <1>2, <1>6, <2>1 DEF Searching!Closed
  <2>4. PICK chunks : chunks = state.chunks
    OBVIOUS
  <2>5. Held(chunks, U) /\ c.sections \in Seq(U)
    BY <1>1, <1>4, <2>2, <2>4
  <2>6. Held(Append(chunks, c), U) /\ KeptIn(Append(chunks, c)) = KeptIn(chunks) \o c.sections
    BY <2>5, OneMoreChunk
  <2> QED
    BY <1>3, <1>4, <2>2, <2>3, <2>4, <2>6
<1> QED
  BY <1>5, <1>6

(* Another section is added to what is kept, whether it joins or not.      *)
LEMMA JoiningKeeps ==
  ASSUME NEW U, NEW seen \in Seq(U), NEW state, Keeping(state, U, seen), NEW x \in U,
         NEW after, {"chunks", "current"} \subseteq DOMAIN after,
         \/ after.chunks = state.chunks /\ after.current = Append(state.current, x)
         \/ after.chunks = Searching!Closed(state) /\ after.current = <<x>>
  PROVE  Keeping(after, U, Append(seen, x))
<1>1. CASE after.chunks = state.chunks /\ after.current = Append(state.current, x)
  <2>1. PICK l : l = state.current
    OBVIOUS
  <2>2. PICK kept : kept = KeptIn(state.chunks)
    OBVIOUS
  <2>3. l \in Seq(U) /\ kept \o l = seen /\ Held(state.chunks, U)
    BY <2>1, <2>2 DEF Keeping
  <2>4. kept \in Seq(U)
    BY <2>2, <2>3, HeldIsSeq
  <2>5. kept \o Append(l, x) = Append(seen, x)
    BY <2>3, <2>4, ConcatOfAppend
  <2>6. Append(l, x) \in Seq(U)
    BY <2>3
  <2> QED
    BY <1>1, <2>1, <2>2, <2>3, <2>5, <2>6 DEF Keeping
<1>2. CASE after.chunks = Searching!Closed(state) /\ after.current = <<x>>
  <2>1. PICK closed : closed = Searching!Closed(state)
    OBVIOUS
  <2>2. Held(closed, U) /\ KeptIn(closed) = seen
    BY <2>1, ClosingKeeps
  <2>3. seen \o <<x>> = Append(seen, x) /\ <<x>> \in Seq(U)
    BY AppendIsConcat
  <2> QED
    BY <1>2, <2>1, <2>2, <2>3 DEF Keeping
<1> QED
  BY <1>1, <1>2

(* Either method keeps a section more, wherever it closes a chunk.         *)
LEMMA ChunkingSteps ==
  ASSUME NEW U, NEW seen \in Seq(U), NEW state, Keeping(state, U, seen), NEW x \in U
  PROVE  /\ Keeping(Searching!AddToFixed(state, x), U, Append(seen, x))
         /\ Keeping(Searching!AddToStructure(state, x), U, Append(seen, x))
<1>1. PICK chunks : chunks = Searching!Closed(state)
  OBVIOUS
<1>2. {"chunks", "current"} \subseteq DOMAIN state
  BY DEF Keeping
<1>3. PICK after : after = Searching!AddToFixed(state, x)
  OBVIOUS
<1>4. /\ {"chunks", "current"} \subseteq DOMAIN after
      /\ \/ after.chunks = state.chunks /\ after.current = Append(state.current, x)
         \/ after.chunks = chunks /\ after.current = <<x>>
  BY <1>1, <1>2, <1>3 DEF Searching!AddToFixed
<1>5. Keeping(after, U, Append(seen, x))
  BY <1>1, <1>4, JoiningKeeps
<1>6. PICK next : next = Searching!AddToStructure(state, x)
  OBVIOUS
<1>7. /\ {"chunks", "current"} \subseteq DOMAIN next
      /\ \/ next.chunks = state.chunks /\ next.current = Append(state.current, x)
         \/ next.chunks = chunks /\ next.current = <<x>>
  BY <1>1, <1>2, <1>6 DEF Searching!AddToStructure
<1>8. Keeping(next, U, Append(seen, x))
  BY <1>1, <1>7, JoiningKeeps
<1> QED
  BY <1>3, <1>5, <1>6, <1>8

(* Chunking one document keeps its sections.                               *)
LEMMA RunKeeps ==
  ASSUME NEW U, NEW own \in Seq(U), NEW n, n = Len(own), NEW g, Keeping(g[0], U, <<>>),
         \A i \in 1..n : \/ g[i] = Searching!AddToFixed(g[i - 1], own[i])
                         \/ g[i] = Searching!AddToStructure(g[i - 1], own[i]),
         NEW chunks, chunks = Searching!Closed(g[n])
  PROVE  Held(chunks, U) /\ KeptIn(chunks) = own
<1> DEFINE to(i) == SubSeq(own, 1, i)
           Good == {i \in 0..n : Keeping(g[i], U, to(i))}
<1>1. n \in Nat
  OBVIOUS
<1>2. 0 \in Good
  <2>1. to(0) = <<>>
    OBVIOUS
  <2> HIDE DEF to
  <2> QED
    BY <1>1, <2>1
<1>3. ASSUME NEW i \in 1..n, i - 1 \in Good PROVE i \in Good
  <2>1. /\ own[i] \in U /\ to(i - 1) \in Seq(U) /\ to(i) = Append(to(i - 1), own[i])
    BY <1>1
  <2> HIDE DEF to
  <2>2. PICK seen : seen = to(i - 1)
    OBVIOUS
  <2>3. PICK s : s = g[i - 1]
    OBVIOUS
  <2>4. seen \in Seq(U) /\ Keeping(s, U, seen)
    BY <1>3, <2>1, <2>2, <2>3
  <2>5. PICK x : x = own[i]
    OBVIOUS
  <2>6. /\ Keeping(Searching!AddToFixed(s, x), U, Append(seen, x))
        /\ Keeping(Searching!AddToStructure(s, x), U, Append(seen, x))
    BY <2>1, <2>4, <2>5, ChunkingSteps
  <2>7. g[i] = Searching!AddToFixed(s, x) \/ g[i] = Searching!AddToStructure(s, x)
    BY <2>3, <2>5
  <2>8. PICK t : t = g[i]
    OBVIOUS
  <2>9. Keeping(t, U, Append(seen, x))
    BY <2>6, <2>7, <2>8
  <2>10. Append(seen, x) = to(i) /\ i \in 0..n
    BY <1>1, <2>1, <2>2, <2>5
  <2> QED
    BY <2>8, <2>9, <2>10
<1>4. \A i \in 0..n : i \in Good
  <2> HIDE DEF Good
  <2> QED
    BY <1>1, <1>2, <1>3, StepByStep
<1>5. n \in 0..n /\ to(n) = own
  BY <1>1, SubSeqFull
<1>6. Keeping(g[n], U, own)
  <2> HIDE DEF to
  <2> QED
    BY <1>4, <1>5
<1> QED
  BY <1>6, ClosingKeeps

(* Either method, section by section.                                      *)
FixedRun(own, n, g) ==
  g = [i \in 0..n |-> IF i = 0 THEN Searching!Filling ELSE Searching!AddToFixed(g[i - 1], own[i])]
StructureRun(own, n, g) ==
  g = [i \in 0..n |-> IF i = 0 THEN Searching!Starting
                      ELSE Searching!AddToStructure(g[i - 1], own[i])]

(* The chunks of one document keep its sections, by either method.         *)
LEMMA FixedKeeps ==
  ASSUME NEW U, NEW own \in Seq(U), NEW chunks, chunks = Searching!FixedOf(own)
  PROVE  Held(chunks, U) /\ KeptIn(chunks) = own
<1> DEFINE n == Len(own)
           g == CHOOSE f : FixedRun(own, n, f)
<1>1. n \in Nat
  OBVIOUS
<1>2. \E f : Stepping("fixed", own, Searching!Filling, n, f)
  BY <1>1, SteppingsExist
<1>3. \A f : Stepping("fixed", own, Searching!Filling, n, f) => FixedRun(own, n, f)
  BY DEF Stepping, Stepped, FixedRun
<1>4. FixedRun(own, n, g)
  BY <1>2, <1>3
<1>5. chunks = Searching!Closed(g[n])
  BY Zenon DEF Searching!FixedOf, Searching!Iterated, FixedRun
<1> HIDE DEF g, n
<1>6. g[0] = Searching!Filling /\ \A i \in 1..n : g[i] = Searching!AddToFixed(g[i - 1], own[i])
  BY <1>1, <1>4 DEF FixedRun
<1>7. PICK s : s = Searching!Filling
  OBVIOUS
<1>8. {"chunks", "current"} \subseteq DOMAIN s /\ s.chunks = <<>> /\ s.current = <<>>
  BY <1>7 DEF Searching!Filling
<1>9. Keeping(s, U, <<>>)
  <2>1. <<>> \o <<>> = <<>> /\ <<>> \in Seq(U)
    OBVIOUS
  <2> QED
    BY <1>8, <2>1, NoChunks DEF Keeping
<1> QED
  BY <1>5, <1>6, <1>7, <1>9, RunKeeps DEF n

(* Chunks by structure hold every section, once and in order.             *)
LEMMA StructureKeeps ==
  ASSUME NEW U, NEW own \in Seq(U), NEW chunks, chunks = Searching!StructureOf(own)
  PROVE  Held(chunks, U) /\ KeptIn(chunks) = own
<1> DEFINE n == Len(own)
           g == CHOOSE f : StructureRun(own, n, f)
<1>1. n \in Nat
  OBVIOUS
<1>2. \E f : Stepping("structure", own, Searching!Starting, n, f)
  BY <1>1, SteppingsExist
<1>3. \A f : Stepping("structure", own, Searching!Starting, n, f) => StructureRun(own, n, f)
  BY DEF Stepping, Stepped, StructureRun
<1>4. StructureRun(own, n, g)
  BY <1>2, <1>3
<1>5. chunks = Searching!Closed(g[n])
  BY Zenon DEF Searching!StructureOf, Searching!Iterated, StructureRun
<1> HIDE DEF g, n
<1>6. g[0] = Searching!Starting /\ \A i \in 1..n : g[i] = Searching!AddToStructure(g[i - 1], own[i])
  BY <1>1, <1>4 DEF StructureRun
<1>7. PICK s : s = Searching!Starting
  OBVIOUS
<1>8. {"chunks", "current"} \subseteq DOMAIN s /\ s.chunks = <<>> /\ s.current = <<>>
  BY <1>7 DEF Searching!Starting
<1>9. Keeping(s, U, <<>>)
  <2>1. <<>> \o <<>> = <<>> /\ <<>> \in Seq(U)
    OBVIOUS
  <2> QED
    BY <1>8, <2>1, NoChunks DEF Keeping
<1> QED
  BY <1>5, <1>6, <1>7, <1>9, RunKeeps DEF n

-----------------------------------------------------------------------------
(* Sections of two documents, one after the other. *)

(* The sections of all that are published: those of the base, then those   *)
(* of the target.                                                          *)
TwoDocuments(all, n, m) ==
  /\ DOMAIN all = 1..(n + m)
  /\ \A i \in 1..n : all[i].document = "base"
  /\ \A i \in (n + 1)..(n + m) : all[i].document = "target"

(* The places of a document's sections, and the first.                     *)
OwnPlaces(all, d) == {i \in DOMAIN all : all[i].document = d}
FirstOf(all, d) == Searching!Min(OwnPlaces(all, d))

(* The first section of a document is one of its own.                     *)
LEMMA FirstIsThere ==
  ASSUME NEW all, NEW n \in Nat, DOMAIN all \subseteq 1..n, NEW d, OwnPlaces(all, d) # {}
  PROVE  FirstOf(all, d) \in OwnPlaces(all, d)
<1>1. PICK S : S = OwnPlaces(all, d)
  OBVIOUS
<1>2. S \subseteq Nat /\ S # {}
  BY <1>1 DEF OwnPlaces
<1>3. PICK m \in S : \A k \in S : ~(<<k, m>> \in OpToRel(<, Nat))
  BY <1>2, NatLessThanWellFounded, WFMin
<1>4. \A k \in S : ~(k < m)
  BY <1>2, <1>3, Zenon DEF OpToRel
<1>5. \A k \in S : m <= k
  BY <1>2, <1>4
<1>6. (CHOOSE x \in S : \A y \in S : x <= y) \in S
  BY <1>5
<1>7. Searching!Min(S) \in S
  BY <1>6, Zenon DEF Searching!Min
<1> QED
  BY <1>1, <1>7 DEF FirstOf

(* The documents in the order they are met.                                *)
LEMMA DocumentsAre ==
  ASSUME NEW n \in Nat, NEW m \in Nat, NEW all, TwoDocuments(all, n, m),
         NEW docs, docs = Searching!DocumentsIn(all)
  PROVE  /\ n = 0 /\ m = 0 => docs = <<>>
         /\ n # 0 /\ m = 0 => docs = <<"base">>
         /\ n = 0 /\ m # 0 => docs = <<"target">>
         /\ n # 0 /\ m # 0 => docs = <<"base", "target">>
<1> DEFINE S == {all[i].document : i \in DOMAIN all}
<1>1. /\ DOMAIN all = 1..(n + m) /\ \A i \in 1..n : all[i].document = "base"
      /\ \A i \in (n + 1)..(n + m) : all[i].document = "target"
      /\ \A i \in 1..(n + m) : i \in 1..n \/ i \in (n + 1)..(n + m)
  BY DEF TwoDocuments
<1> DEFINE before == [x \in S |-> {y \in S : FirstOf(all, y) < FirstOf(all, x)}]
<1>2. docs = [i \in 1..Cardinality(S) |->
                CHOOSE x \in S : Cardinality({y \in S : FirstOf(all, y) < FirstOf(all, x)}) = i - 1]
  BY Zenon DEF Searching!DocumentsIn, Searching!InOrder, FirstOf, OwnPlaces, Searching!Cardinality,
     Cardinality
<1>3. \A d : OwnPlaces(all, d) # {} => FirstOf(all, d) \in OwnPlaces(all, d)
  <2>1. PICK o : o = n + m
    OBVIOUS
  <2>2. o \in Nat /\ DOMAIN all \subseteq 1..o
    BY <1>1, <2>1
  <2> QED
    BY <2>2, FirstIsThere
<1>4. \A d \in S : FirstOf(all, d) \in OwnPlaces(all, d) /\ FirstOf(all, d) \in Int
  BY <1>1, <1>3 DEF OwnPlaces
<1>5. Cardinality({}) = 0 /\ Cardinality({"base"}) = 1 /\ Cardinality({"target"}) = 1
      /\ Cardinality({"base", "target"}) = 2
  <2>1. IsFiniteSet({"base"}) /\ Cardinality({"base"}) = 1
    BY FS_Singleton
  <2>2. Cardinality({"base"} \union {"target"}) = 2
    BY <2>1, FS_AddElement
  <2>3. {"base"} \union {"target"} = {"base", "target"}
    OBVIOUS
  <2> QED
    BY <2>1, <2>2, <2>3, FS_EmptySet, FS_Singleton
<1>6. CASE n = 0 /\ m = 0
  <2>1. S = {}
    BY <1>1, <1>6
  <2>2. DOMAIN docs = 1..Cardinality(S) /\ docs = [i \in DOMAIN docs |-> docs[i]]
    BY <1>2
  <2>3. Cardinality(S) = 0
    BY <1>5, <2>1
  <2> HIDE DEF S
  <2>4. docs \in [1..0 -> {}]
    <3>1. DOMAIN docs = 1..0
      BY <2>2, <2>3
    <3>2. \A i \in 1..0 : docs[i] \in {}
      OBVIOUS
    <3> QED
      BY <2>2, <3>1, <3>2
  <2>5. docs \in Seq({}) /\ Len(docs) = 0
    BY <2>4, FunctionIsSeq
  <2>6. docs = <<>>
    BY <2>5, EmptySeq
  <2> QED
    BY <1>6, <2>6
<1>7. ASSUME NEW d, S = {d}, Cardinality({d}) = 1 PROVE docs = <<d>>
  <2>1. {y \in S : FirstOf(all, y) < FirstOf(all, d)} = {}
    BY <1>4, <1>7
  <2>2. ASSUME NEW i \in 1..1
        PROVE (CHOOSE x \in S : Cardinality({y \in S : FirstOf(all, y) < FirstOf(all, x)}) = i - 1) = d
    BY <1>5, <1>7, <2>1
  <2>3. docs = [i \in 1..1 |-> d]
    BY <1>2, <1>7, <2>2
  <2> QED
    BY <2>3
<1>8. CASE n # 0 /\ m = 0
  <2>1. S = {"base"}
    BY <1>1, <1>8
  <2> QED
    BY <1>5, <1>7, <1>8, <2>1
<1>9. CASE n = 0 /\ m # 0
  <2>1. S = {"target"}
    BY <1>1, <1>9
  <2> QED
    BY <1>5, <1>7, <1>9, <2>1
<1>10. CASE n # 0 /\ m # 0
  <2>1. S = {"base", "target"}
    <3>1. 1 \in 1..n /\ n + 1 \in (n + 1)..(n + m) /\ 1 \in DOMAIN all /\ n + 1 \in DOMAIN all
      BY <1>1, <1>10
    <3> QED
      BY <1>1, <3>1
  <2>2. FirstOf(all, "base") < FirstOf(all, "target")
    <3>1. FirstOf(all, "base") \in 1..n /\ FirstOf(all, "target") \in (n + 1)..(n + m)
      BY <1>1, <1>4, <2>1 DEF OwnPlaces
    <3> QED
      BY <3>1
  <2>3. {y \in S : FirstOf(all, y) < FirstOf(all, "base")} = {}
    BY <1>4, <2>1, <2>2
  <2>4. {y \in S : FirstOf(all, y) < FirstOf(all, "target")} = {"base"}
    BY <1>4, <2>1, <2>2
  <2> DEFINE at(i) == CHOOSE x \in S :
               Cardinality({y \in S : FirstOf(all, y) < FirstOf(all, x)}) = i - 1
  <2>5. at(1) = "base" /\ at(2) = "target"
    BY <1>5, <2>1, <2>3, <2>4
  <2>6. docs = [i \in 1..2 |-> at(i)]
    BY <1>2, <1>5, <2>1
  <2> HIDE DEF at
  <2>7. docs = <<at(1), at(2)>>
    BY <2>6
  <2> QED
    BY <1>10, <2>5, <2>7
<1> QED
  BY <1>6, <1>8, <1>9, <1>10

(* The sections of each of the two.                                        *)
OwnAre(U, all, p, q) ==
  Searching!SectionsOf(all, "base") = p /\ Searching!SectionsOf(all, "target") = q

(* The sections of two documents, taken apart again.                      *)
LEMMA OwnSections ==
  ASSUME NEW U, NEW p \in Seq(U), NEW q \in Seq(U), NEW n, n = Len(p), NEW m, m = Len(q),
         NEW all, all = p \o q, TwoDocuments(all, n, m)
  PROVE  OwnAre(U, all, p, q)
<1>1. /\ n \in Nat /\ m \in Nat /\ DOMAIN all = 1..(n + m)
      /\ \A i \in 1..n : all[i] = p[i] /\ all[i].document = "base"
      /\ \A i \in 1..m : all[n + i] = q[i]
      /\ \A i \in (n + 1)..(n + m) : all[i].document = "target"
  BY ConcatProperties DEF TwoDocuments
<1>2. \A i \in 1..(n + m) : i \in 1..n \/ i \in (n + 1)..(n + m)
  BY <1>1
<1>3. PICK S : S = OwnPlaces(all, "base")
  OBVIOUS
<1>4. PICK T : T = OwnPlaces(all, "target")
  OBVIOUS
<1>5. S = Part(0, n) /\ T = Part(n, m)
  <2>1. \A i \in 1..(n + m) : i \in S <=> i \in 1..n
    BY <1>1, <1>2, <1>3 DEF OwnPlaces
  <2>2. \A i \in 1..(n + m) : i \in T <=> i \in (n + 1)..(n + m)
    BY <1>1, <1>2, <1>4 DEF OwnPlaces
  <2>3. S \subseteq 1..(n + m) /\ T \subseteq 1..(n + m)
    BY <1>1, <1>3, <1>4 DEF OwnPlaces
  <2> DEFINE whole == 1..(n + m)
             low == 1..n
             high == (n + 1)..(n + m)
  <2>4. low \subseteq whole /\ high \subseteq whole /\ low = (0 + 1)..(0 + n)
    <3>1. n \in Nat /\ m \in Nat
      BY <1>1
    <3> QED
      BY <3>1
  <2>5. \A i \in whole : (i \in S <=> i \in low) /\ (i \in T <=> i \in high)
    BY <2>1, <2>2
  <2>6. S \subseteq whole /\ T \subseteq whole
    BY <2>3
  <2> HIDE DEF whole, low, high
  <2>7. S = low /\ T = high
    BY <2>4, <2>5, <2>6
  <2>8. S = (0 + 1)..(0 + n)
    BY <2>4, <2>7
  <2>9. T = (n + 1)..(n + m)
    BY <2>7 DEF high
  <2> QED
    BY <2>8, <2>9 DEF Part
<1>6. Ascending(S) = [i \in 1..n |-> 0 + i] /\ Ascending(T) = [i \in 1..m |-> n + i]
  <2>1. Ascending(S) = [i \in 1..n |-> 0 + i]
    BY <1>1, <1>5, PlacesOfPart
  <2>2. Ascending(T) = [i \in 1..m |-> n + i]
    BY <1>1, <1>5, PlacesOfPart
  <2> QED
    BY <2>1, <2>2
<1>7. AtPlaces(all, S) = [i \in 1..n |-> all[i]] /\ AtPlaces(all, T) = [i \in 1..m |-> all[n + i]]
  BY <1>1, <1>6 DEF AtPlaces
<1>8. p = [i \in 1..n |-> p[i]] /\ q = [i \in 1..m |-> q[i]]
  OBVIOUS
<1>9. AtPlaces(all, S) = p /\ AtPlaces(all, T) = q
  BY <1>1, <1>7, <1>8
<1>10. /\ Searching!SectionsOf(all, "base") = Searching!AtPlaces(all, S)
       /\ Searching!SectionsOf(all, "target") = Searching!AtPlaces(all, T)
  BY <1>3, <1>4 DEF Searching!SectionsOf, OwnPlaces
<1> QED
  BY <1>9, <1>10, SamePlaces DEF OwnAre

(* The lists of chunks of the documents keep the sections of all.          *)
ListsKeep(U, docs, a, b, lists, p, q) == KeptIn(FlattenSeq(lists)) = p \o q

(* The chunks of two documents, one after the other, hold what each holds.*)
LEMMA ListsTogether ==
  ASSUME NEW U, NEW p \in Seq(U), NEW q \in Seq(U),
         NEW docs, \/ docs = <<>> /\ p = <<>> /\ q = <<>>
                   \/ docs = <<"base">> /\ q = <<>>
                   \/ docs = <<"target">> /\ p = <<>>
                   \/ docs = <<"base", "target">>,
         NEW a, Held(a, U), KeptIn(a) = p, NEW b, Held(b, U), KeptIn(b) = q,
         NEW lists, lists = [i \in DOMAIN docs |-> lists[i]],
         \A i \in DOMAIN docs : /\ docs[i] = "base" => lists[i] = a
                                /\ docs[i] = "target" => lists[i] = b
  PROVE  ListsKeep(U, docs, a, b, lists, p, q)
<1>1. PICK C : a \in Seq(C)
  BY DEF Held
<1>2. PICK E : b \in Seq(E)
  BY DEF Held
<1>3. a \in Seq(C \union E) /\ b \in Seq(C \union E)
  BY <1>1, <1>2
<1>4. p \o <<>> = p /\ <<>> \o q = q /\ <<>> \o <<>> = <<>>
  OBVIOUS
<1>5. FlattenSeq(<<a>>) = a /\ FlattenSeq(<<b>>) = b
  BY <1>1, <1>2, FlattenOfOne
<1>6. FlattenSeq(<<a, b>>) = a \o b
  BY <1>3, FlattenOfTwo
<1>7. KeptIn(<<>>) = <<>>
  BY NoChunks
<1>8. KeptIn(a \o b) = p \o q
  <2>1. Together(U, a, b)
    BY ChunksTogether
  <2> QED
    BY <2>1 DEF Together
<1>9. CASE docs = <<>> /\ p = <<>> /\ q = <<>>
  <2>1. lists = <<>>
    BY <1>9
  <2> QED
    BY <1>4, <1>7, <1>9, <2>1, FlattenOfNone DEF ListsKeep
<1>10. CASE docs = <<"base">> /\ q = <<>>
  <2>1. lists = <<a>>
    <3>1. DOMAIN docs = 1..1 /\ docs[1] = "base"
      BY <1>10
    <3> QED
      BY <3>1
  <2> QED
    BY <1>4, <1>5, <1>10, <2>1 DEF ListsKeep
<1>11. CASE docs = <<"target">> /\ p = <<>>
  <2>1. lists = <<b>>
    <3>1. DOMAIN docs = 1..1 /\ docs[1] = "target"
      BY <1>11
    <3> QED
      BY <3>1
  <2> QED
    BY <1>4, <1>5, <1>11, <2>1 DEF ListsKeep
<1>12. CASE docs = <<"base", "target">>
  <2>1. lists = <<a, b>>
    <3>1. DOMAIN docs = 1..2 /\ docs[1] = "base" /\ docs[2] = "target"
      BY <1>12
    <3>2. lists[1] = a /\ lists[2] = b /\ lists = [i \in 1..2 |-> lists[i]]
      BY <3>1
    <3>3. lists = <<lists[1], lists[2]>>
      BY <3>2
    <3> QED
      BY <3>2, <3>3
  <2> QED
    BY <1>6, <1>8, <2>1 DEF ListsKeep
<1> QED
  BY <1>9, <1>10, <1>11, <1>12 DEF ListsKeep

(* The chunks of both documents keep every section, in order.              *)
LEMMA ChunksAreKept ==
  ASSUME NEW U, NEW p \in Seq(U), NEW q \in Seq(U), NEW all, all = p \o q,
         TwoDocuments(all, Len(p), Len(q)),
         NEW chunks, chunks = Searching!FixedChunks(all) \/ chunks = Searching!StructureChunks(all)
  PROVE  KeptIn(chunks) = all
<1>1. PICK docs : docs = Searching!DocumentsIn(all)
  OBVIOUS
<1>2. \/ docs = <<>> /\ p = <<>> /\ q = <<>>
      \/ docs = <<"base">> /\ q = <<>>
      \/ docs = <<"target">> /\ p = <<>>
      \/ docs = <<"base", "target">>
  <2>1. PICK n : n = Len(p)
    OBVIOUS
  <2>2. PICK m : m = Len(q)
    OBVIOUS
  <2>3. n \in Nat /\ m \in Nat /\ TwoDocuments(all, n, m) /\ (n = 0 => p = <<>>) /\ (m = 0 => q = <<>>)
    BY <2>1, <2>2, EmptySeq
  <2>4. /\ n = 0 /\ m = 0 => docs = <<>>
        /\ n # 0 /\ m = 0 => docs = <<"base">>
        /\ n = 0 /\ m # 0 => docs = <<"target">>
        /\ n # 0 /\ m # 0 => docs = <<"base", "target">>
    BY <1>1, <2>3, DocumentsAre
  <2> QED
    BY <2>3, <2>4
<1>3. Searching!SectionsOf(all, "base") = p /\ Searching!SectionsOf(all, "target") = q
  <2>1. OwnAre(U, all, p, q)
    BY OwnSections
  <2> QED
    BY <2>1 DEF OwnAre
<1>4. CASE chunks = Searching!FixedChunks(all)
  <2>1. PICK a : a = Searching!FixedOf(p)
    OBVIOUS
  <2>2. PICK b : b = Searching!FixedOf(q)
    OBVIOUS
  <2>3. Held(a, U) /\ KeptIn(a) = p /\ Held(b, U) /\ KeptIn(b) = q
    BY <2>1, <2>2, FixedKeeps
  <2>4. PICK lists : lists = [i \in DOMAIN docs |->
                                Searching!FixedOf(Searching!SectionsOf(all, docs[i]))]
    OBVIOUS
  <2>5. chunks = Searching!FlattenSeq(lists)
    BY <1>1, <1>4, <2>4 DEF Searching!FixedChunks
  <2>6. \A i \in DOMAIN docs : /\ docs[i] = "base" => lists[i] = a
                               /\ docs[i] = "target" => lists[i] = b
    BY <1>3, <2>1, <2>2, <2>4
  <2>7. lists = [i \in DOMAIN docs |-> lists[i]]
    BY <2>4
  <2>8. KeptIn(FlattenSeq(lists)) = p \o q
    <3>1. ListsKeep(U, docs, a, b, lists, p, q)
      BY <1>2, <2>3, <2>6, <2>7, ListsTogether
    <3> QED
      BY <3>1 DEF ListsKeep
  <2> QED
    BY <2>5, <2>8, SameFlatten
<1>5. CASE chunks = Searching!StructureChunks(all)
  <2>1. PICK a : a = Searching!StructureOf(p)
    OBVIOUS
  <2>2. PICK b : b = Searching!StructureOf(q)
    OBVIOUS
  <2>3. Held(a, U) /\ KeptIn(a) = p /\ Held(b, U) /\ KeptIn(b) = q
    BY <2>1, <2>2, StructureKeeps
  <2>4. PICK lists : lists = [i \in DOMAIN docs |->
                                Searching!StructureOf(Searching!SectionsOf(all, docs[i]))]
    OBVIOUS
  <2>5. chunks = Searching!FlattenSeq(lists)
    BY <1>1, <1>5, <2>4 DEF Searching!StructureChunks
  <2>6. \A i \in DOMAIN docs : /\ docs[i] = "base" => lists[i] = a
                               /\ docs[i] = "target" => lists[i] = b
    BY <1>3, <2>1, <2>2, <2>4
  <2>7. lists = [i \in DOMAIN docs |-> lists[i]]
    BY <2>4
  <2>8. KeptIn(FlattenSeq(lists)) = p \o q
    <3>1. ListsKeep(U, docs, a, b, lists, p, q)
      BY <1>2, <2>3, <2>6, <2>7, ListsTogether
    <3> QED
      BY <3>1 DEF ListsKeep
  <2> QED
    BY <2>5, <2>8, SameFlatten
<1> QED
  BY <1>4, <1>5

-----------------------------------------------------------------------------
(* What is said of two versions. *)

(* StandsUnder of Calculations is that of the proof.                       *)
LEMMA StandingIsUnder ==
  ASSUME NEW sections \in Seq(Section), NEW i \in DOMAIN sections,
         NEW under, under = StandsUnder(sections, i)
  PROVE  OpeningsAt(sections, under) = Under(OpeningsIn(sections), KindsIn(sections), i)
<1>1. PICK kinds : kinds = KindsIn(sections)
  OBVIOUS
<1>2. i \in Nat /\ i \in DOMAIN sections /\ \A k \in 1..i : k \in DOMAIN sections
  OBVIOUS
<1>3. \A k \in 1..i : kinds[k] = sections[k].kind
  BY <1>1, <1>2 DEF KindsIn
<1>9. PICK heads : heads = OpeningsIn(sections)
  OBVIOUS
<1>10. \A k \in 1..i : heads[k] = sections[k].lines[1]
  BY <1>2, <1>9 DEF OpeningsIn
<1>4. PICK S : S = OpenAt(kinds, i)
  OBVIOUS
<1>5. under = Ascending(S)
  <2> DEFINE T == {k \in 1..i : /\ sections[k].kind # "preamble"
                                /\ \A l \in (k + 1)..i :
                                     Texts!LevelOf(sections[l].kind) > Texts!LevelOf(sections[k].kind)}
  <2>1. \A k \in 1..i : \A l \in (k + 1)..i : l \in 1..i
    BY <1>2
  <2>2. S = T
    BY <1>3, <1>4, <2>1 DEF OpenAt
  <2>3. under = Ascending(T)
    BY Zenon DEF StandsUnder
  <2> QED
    BY <2>2, <2>3
<1>6. IsFiniteSet(S) /\ S \subseteq 1..i /\ S \subseteq Int
  BY <1>2, <1>4, OpenAtGives
<1>7. DOMAIN under = 1..Cardinality(S) /\ \A n \in DOMAIN under : under[n] \in S
  <2>1. Ascends(S, under)
    BY <1>5, <1>6, AscendingGives
  <2> QED
    BY <2>1 DEF Ascends
<1>8. [k \in DOMAIN under |-> heads[under[k]]] = [k \in DOMAIN under |-> sections[under[k]].lines[1]]
  BY <1>6, <1>7, <1>10
<1> QED
  BY <1>1, <1>4, <1>5, <1>8, <1>9 DEF Under, AtPlaces, OpeningsAt

(* The text of an identity is that of a section that has it.               *)
LEMMA LastTextIsThere ==
  ASSUME NEW sections \in Seq(Section), NEW identity \in Texts!Identities(sections)
  PROVE  \E k \in DOMAIN sections : /\ Texts!Identity(sections[k]) = identity
                                    /\ Texts!TextOf(sections, identity) = sections[k].lines
<1>1. PICK S : S = {k \in DOMAIN sections : Texts!Identity(sections[k]) = identity}
  OBVIOUS
<1>2. PICK n : n = Len(sections)
  OBVIOUS
<1>3. n \in Nat /\ DOMAIN sections = 1..n /\ S \in SUBSET (1..n)
  BY <1>1, <1>2
<1>4. S # {}
  BY <1>1 DEF Texts!Identities
<1>5. IsFiniteSet(S) /\ S \subseteq Int
  <2>1. IsFiniteSet(1..n)
    BY <1>3, FS_Interval
  <2>2. IsFiniteSet(S)
    BY <1>3, <2>1, FS_Subset
  <2> QED
    BY <1>3, <2>2
<1>6. \E x \in S : \A y \in S : x >= y
  BY <1>4, <1>5, GreatestIsThere
<1>7. Texts!Max(S) \in S
  BY <1>6, Zenon DEF Texts!Max
<1>8. Texts!TextOf(sections, identity) = sections[Texts!Max(S)].lines
  BY <1>1 DEF Texts!TextOf
<1> QED
  BY <1>1, <1>7, <1>8

(* Comparing shows every identity of either version, as what happened to   *)
(* it.                                                                     *)
LEMMA ComparingShows ==
  ASSUME NEW base \in Seq(Section), NEW target \in Seq(Section),
         NEW changes, changes = Texts!Compare(base, target)
  PROVE  ChangesAreShown(base, target, changes)
<1> SUFFICES ASSUME \A i, k \in DOMAIN target :
                      Texts!Identity(target[i]) = Texts!Identity(target[k]) => i = k,
                    NEW i \in DOMAIN target
             PROVE  \/ \E k \in DOMAIN base : base[k].lines = target[i].lines
                    \/ Texts!Identity(target[i]) \in changes.added \union changes.modified
  BY DEF ChangesAreShown
<1>1. PICK identity : identity = Texts!Identity(target[i])
  OBVIOUS
<1>2. identity \in Texts!Identities(target)
  BY <1>1 DEF Texts!Identities
<1>3. Texts!TextOf(target, identity) = target[i].lines
  BY <1>1, <1>2, LastTextIsThere
<1>4. /\ changes.added = Texts!Identities(target) \ Texts!Identities(base)
      /\ changes.modified = Texts!ModifiedInBoth(base, target)
  BY DEF Texts!Compare
<1>5. CASE identity \in Texts!Identities(base)
  <2>1. PICK k \in DOMAIN base : Texts!TextOf(base, identity) = base[k].lines
    BY <1>5, LastTextIsThere
  <2>2. CASE base[k].lines = target[i].lines
    BY <2>2
  <2>3. CASE base[k].lines # target[i].lines
    <3>1. identity \in Texts!ModifiedInBoth(base, target)
      BY <1>2, <1>3, <1>5, <2>1, <2>3 DEF Texts!ModifiedInBoth
    <3> QED
      BY <1>1, <1>4, <3>1
  <2> QED
    BY <2>2, <2>3
<1>6. CASE identity \notin Texts!Identities(base)
  BY <1>1, <1>2, <1>4, <1>6
<1> QED
  BY <1>5, <1>6

(* What is published of two versions is the sections of two documents.     *)
LEMMA SourcesAreTwo ==
  ASSUME NEW base \in Seq(Section), NEW target \in Seq(Section),
         NEW p, p = SourceSections("base", base), NEW q, q = SourceSections("target", target)
  PROVE  \E U : /\ p \in Seq(U) /\ q \in Seq(U)
                /\ TwoDocuments(p \o q, Len(p), Len(q))
<1>1. PICK n : n = Len(base)
  OBVIOUS
<1>2. PICK m : m = Len(target)
  OBVIOUS
<1>3. n \in Nat /\ m \in Nat /\ DOMAIN base = 1..n /\ DOMAIN target = 1..m
  BY <1>1, <1>2
<1>4. /\ DOMAIN p = 1..n /\ p = [i \in 1..n |-> p[i]]
      /\ \A i \in 1..n : p[i].document = "base"
  BY <1>3 DEF SourceSections
<1>5. /\ DOMAIN q = 1..m /\ q = [i \in 1..m |-> q[i]]
      /\ \A i \in 1..m : q[i].document = "target"
  BY <1>3 DEF SourceSections
<1>6. PICK U : U = {p[i] : i \in 1..n} \union {q[i] : i \in 1..m}
  OBVIOUS
<1>7. p \in [1..n -> U] /\ q \in [1..m -> U]
  BY <1>4, <1>5, <1>6
<1>8. p \in Seq(U) /\ Len(p) = n /\ q \in Seq(U) /\ Len(q) = m
  BY <1>3, <1>7, FunctionIsSeq
<1>9. PICK all : all = p \o q
  OBVIOUS
<1>10. /\ all \in Seq(U) /\ Len(all) = n + m
       /\ \A i \in 1..(n + m) : all[i] = IF i <= n THEN p[i] ELSE q[i - n]
  BY <1>8, <1>9, ConcatProperties
<1>11. /\ DOMAIN all = 1..(n + m)
       /\ \A i \in 1..n : i \in 1..(n + m) /\ i <= n
       /\ \A i \in (n + 1)..(n + m) : i \in 1..(n + m) /\ ~(i <= n) /\ i - n \in 1..m
  BY <1>3, <1>10
<1>12. TwoDocuments(all, n, m)
  <2>1. \A i \in 1..n : all[i] = p[i]
    BY <1>10, <1>11
  <2>2. \A i \in (n + 1)..(n + m) : all[i] = q[i - n]
    BY <1>10, <1>11
  <2>3. \A i \in 1..n : all[i].document = "base"
    BY <1>4, <2>1
  <2>4. \A i \in (n + 1)..(n + m) : all[i].document = "target"
    BY <1>5, <1>11, <2>2
  <2> QED
    BY <1>11, <2>3, <2>4 DEF TwoDocuments
<1> QED
  BY <1>8, <1>9, <1>12

(* One pair of versions, read, published, chunked and compared.            *)
LEMMA EveryEditionIsKept ==
  ASSUME NEW edition, edition.base \in Seq(Seq(Texts!Line)), edition.target \in Seq(Seq(Texts!Line)),
         NEW base, base = Texts!Parse(edition.base), NEW target, target = Texts!Parse(edition.target),
         NEW published,
         published = SourceSections("base", base) \o SourceSections("target", target),
         NEW parsed, parsed.base = base, parsed.target = target,
         parsed.changes = Texts!Compare(base, target),
         parsed.fixed = Searching!FixedChunks(published),
         parsed.structure = Searching!StructureChunks(published)
  PROVE  EditionIsKept(edition, parsed)
<1>1. base \in Seq(Section) /\ LinesOf(base) = Spoken(edition.base)
  BY ParseGives
<1>2. /\ target \in Seq(Section) /\ LinesOf(target) = Spoken(edition.target)
      /\ \E h : Hierarchical(target, h)
  BY ParseGives
<1>3. ASSUME NEW i \in DOMAIN target, target[i].kind # "preamble"
      PROVE  /\ target[i].hierarchy = OpeningsAt(target, StandsUnder(target, i))
             /\ HeadingIsRead(target[i])
  <2>1. /\ target[i].hierarchy = Under(OpeningsIn(target), KindsIn(target), i)
        /\ HeadingIsRead(target[i])
    BY <1>2, <1>3 DEF Hierarchical, Headed
  <2>2. PICK under : under = StandsUnder(target, i)
    OBVIOUS
  <2>3. OpeningsAt(target, under) = Under(OpeningsIn(target), KindsIn(target), i)
    BY <1>2, <1>3, <2>2, StandingIsUnder
  <2> QED
    BY <2>1, <2>2, <2>3
<1>4. ASSUME NEW chunks \in {parsed.fixed, parsed.structure}
      PROVE  FlattenSeq([c \in DOMAIN chunks |-> chunks[c].sections])
             = SourceSections("base", parsed.base) \o SourceSections("target", parsed.target)
  <2>1. PICK p : p = SourceSections("base", base)
    OBVIOUS
  <2>2. PICK q : q = SourceSections("target", target)
    OBVIOUS
  <2>3. PICK U : p \in Seq(U) /\ q \in Seq(U) /\ TwoDocuments(p \o q, Len(p), Len(q))
    BY <1>1, <1>2, <2>1, <2>2, SourcesAreTwo
  <2>4. published = p \o q
    BY <2>1, <2>2
  <2>5. chunks = Searching!FixedChunks(published) \/ chunks = Searching!StructureChunks(published)
    OBVIOUS
  <2>6. KeptIn(chunks) = published
    BY <2>3, <2>4, <2>5, ChunksAreKept
  <2> QED
    BY <2>6, Zenon DEF KeptIn, SectionsIn
<1>5. ChangesAreShown(parsed.base, parsed.target, parsed.changes)
  BY <1>1, <1>2, ComparingShows
<1> QED
  BY <1>1, <1>2, <1>3, <1>4, <1>5, Zenon DEF EditionIsKept

(* TextIsKept holds of every pair of versions, whatever their pages say:   *)
(* what is read line by line, chunked and compared is what was there.      *)
THEOREM TextsKept == Spec => []TextIsKept
<1>1. Init => TextIsKept
  BY DEF Init, Nothing, TextIsKept
<1>2. ASSUME TextIsKept, [Next]_vars PROVE TextIsKept'
  <2>1. CASE Parse
    <3>1. PICK edition \in Editions :
            LET base == Texts!Parse(edition.base)
                target == Texts!Parse(edition.target)
                published == SourceSections("base", base) \o SourceSections("target", target)
            IN  Ask("parse", edition,
                  [base |-> base, target |-> target, reasons |-> Texts!Reasons(target),
                   changes |-> Texts!Compare(base, target),
                   fixed |-> Searching!FixedChunks(published),
                   structure |-> Searching!StructureChunks(published)])
      BY <2>1 DEF Parse
    <3>2. PICK base : base = Texts!Parse(edition.base)
      OBVIOUS
    <3>3. PICK target : target = Texts!Parse(edition.target)
      OBVIOUS
    <3>4. PICK published :
            published = SourceSections("base", base) \o SourceSections("target", target)
      OBVIOUS
    <3>5. PICK parsed :
            parsed = [base |-> base, target |-> target, reasons |-> Texts!Reasons(target),
                      changes |-> Texts!Compare(base, target),
                      fixed |-> Searching!FixedChunks(published),
                      structure |-> Searching!StructureChunks(published)]
      OBVIOUS
    <3>6. call'.request = edition /\ result' = parsed
      BY <3>1, <3>2, <3>3, <3>4, <3>5 DEF Ask
    <3>7. edition.base \in Seq(Seq(Texts!Line)) /\ edition.target \in Seq(Seq(Texts!Line))
      BY CalculationsAssumption, Zenon DEF CalculationsAssumption
    <3>8. /\ parsed.base = base /\ parsed.target = target
          /\ parsed.changes = Texts!Compare(base, target)
          /\ parsed.fixed = Searching!FixedChunks(published)
          /\ parsed.structure = Searching!StructureChunks(published)
      BY <3>5
    <3>9. EditionIsKept(edition, parsed)
      BY <3>2, <3>3, <3>4, <3>7, <3>8, EveryEditionIsKept
    <3> QED
      BY <3>6, <3>9 DEF TextIsKept
  <2>2. CASE UNCHANGED vars
    BY <1>2, <2>2 DEF vars, TextIsKept
  <2>3. CASE Score \/ Sensitivity \/ Prepare \/ Similar \/ Cluster \/ Search \/ Answer
    <3>1. call'.kind # "parse"
      <4>1. CASE Score
        BY <4>1 DEF Score, Ask
      <4>2. CASE Sensitivity
        BY <4>2 DEF Sensitivity, Ask
      <4>3. CASE Prepare
        BY <4>3 DEF Prepare, Ask
      <4>4. CASE Similar
        BY <4>4 DEF Similar, Prepared
      <4>5. CASE Cluster
        BY <4>5 DEF Cluster, Prepared
      <4>6. CASE Search
        BY <4>6 DEF Search, Ask
      <4>7. CASE Answer
        BY <4>7 DEF Answer, Ask
      <4> QED
        BY <2>3, <4>1, <4>2, <4>3, <4>4, <4>5, <4>6, <4>7
    <3> QED
      BY <3>1 DEF TextIsKept
  <2> QED
    BY <1>2, <2>1, <2>2, <2>3 DEF Next
<1> QED
  BY <1>1, <1>2, PTL DEF Spec
-----------------------------------------------------------------------------
(* Repeating a choice. *)

(* The choices of a diversified ranking, one after the other.              *)
Begun == [chosen |-> <<>>, done |-> FALSE]

Choosing(chunks, query, scores, n, g) ==
  g = [i \in 0..n |-> IF i = 0 THEN Begun ELSE Searching!Choose(chunks, query, scores, g[i - 1])]

(* The choices are made one after the other, and there is such a row.      *)
LEMMA ChoicesExist ==
  ASSUME NEW chunks, NEW query, NEW scores, NEW n \in Nat
  PROVE  \E g : Choosing(chunks, query, scores, n, g)
<1> DEFINE Next1(s) == Searching!Choose(chunks, query, scores, s)
           Run(m, g) == g = [i \in 0..m |-> IF i = 0 THEN Begun ELSE Next1(g[i - 1])]
           Bad == {m \in Nat : ~ \E g : Run(m, g)}
<1>1. Bad = {}
  <2> SUFFICES ASSUME Bad # {} PROVE FALSE
    OBVIOUS
  <2>1. Bad \subseteq Nat
    OBVIOUS
  <2> HIDE DEF Bad, Next1
  <2>2. PICK m \in Bad : \A k \in Bad : ~(<<k, m>> \in OpToRel(<, Nat))
    BY <2>1, NatLessThanWellFounded, WFMin
  <2>3. m \in Nat /\ \A k \in Bad : ~(k < m)
    BY <2>1, <2>2, Zenon DEF OpToRel
  <2>4. ~ \E g : Run(m, g)
    BY DEF Bad
  <2>5. CASE m = 0
    <3> DEFINE g == [i \in 0..0 |-> Begun]
    <3>1. g = [i \in 0..0 |-> IF i = 0 THEN Begun ELSE Next1(g[i - 1])]
      OBVIOUS
    <3> HIDE DEF g
    <3>2. Run(m, g)
      BY <2>5, <3>1
    <3> QED
      BY <2>4, <3>2
  <2>6. CASE m # 0
    <3>1. m - 1 \in Nat /\ m - 1 < m
      BY <2>3, <2>6
    <3>2. m - 1 \notin Bad
      BY <2>3, <3>1
    <3>3. PICK h : Run(m - 1, h)
      BY <3>1, <3>2 DEF Bad
    <3> DEFINE g == [i \in 0..m |-> IF i = 0 THEN Begun ELSE Next1(h[i - 1])]
    <3>4. ASSUME NEW i \in 1..m PROVE g[i - 1] = h[i - 1]
      <4>1. i - 1 \in 0..(m - 1) /\ i - 1 \in 0..m
        BY <2>3
      <4> QED
        BY <3>3, <4>1
    <3>5. \A i \in 0..m : i = 0 \/ i \in 1..m
      BY <2>3
    <3>6. g = [i \in 0..m |-> IF i = 0 THEN Begun ELSE Next1(g[i - 1])]
      BY <3>4, <3>5
    <3> HIDE DEF g
    <3>7. Run(m, g)
      BY <3>6
    <3> QED
      BY <2>4, <3>7
  <2> QED
    BY <2>5, <2>6
<1> QED
  BY <1>1 DEF Choosing

(* A diversified ranking is what was chosen at the end.                    *)
LEMMA DiversifiedChooses ==
  ASSUME NEW chunks, NEW query, NEW scores, NEW limit \in Nat
  PROVE  \E g : /\ Choosing(chunks, query, scores, limit, g)
                /\ Searching!Diversified(chunks, query, scores, limit) = g[limit].chosen
<1> DEFINE g == CHOOSE f : Choosing(chunks, query, scores, limit, f)
<1>1. Choosing(chunks, query, scores, limit, g)
  BY ChoicesExist
<1>2. Searching!Diversified(chunks, query, scores, limit) = g[limit].chosen
  BY Zenon DEF Searching!Diversified, Searching!Iterated, Choosing, Begun
<1> QED
  BY <1>1, <1>2

-----------------------------------------------------------------------------
(* Scores are numbers. *)

IndexFits(chunks) ==
  /\ \E n \in Nat : DOMAIN chunks = 1..n
  /\ \A i \in DOMAIN chunks : chunks[i].gain \in Nat /\ chunks[i].near \in Nat

(* An index has finitely many places.                                     *)
LEMMA PlacesFinite ==
  ASSUME NEW chunks, IndexFits(chunks)
  PROVE  DOMAIN chunks \subseteq Int /\ IsFiniteSet(DOMAIN chunks)
<1>1. PICK n \in Nat : DOMAIN chunks = 1..n
  BY DEF IndexFits
<1>2. IsFiniteSet(1..n)
  BY <1>1, FS_Interval
<1> QED
  BY <1>1, <1>2

(* An instance counts as we do.                                            *)
LEMMA SameCount == ASSUME NEW S PROVE Searching!Cardinality(S) = Cardinality(S)
BY Zenon DEF Searching!Cardinality, Cardinality

(* What words give: nothing, where none is shared.                         *)
LEMMA WordsGive ==
  ASSUME NEW chunks, IndexFits(chunks), NEW words, IsFiniteSet(words)
  PROVE  /\ Searching!BM25(chunks, words) \in [DOMAIN chunks -> Nat]
         /\ Searching!Dense(chunks, words) \in [DOMAIN chunks -> Nat]
         /\ \A i \in DOMAIN chunks :
              /\ Searching!Shared(chunks[i], words) \in Nat
              /\ chunks[i].words \intersect words = {} =>
                   /\ Searching!Shared(chunks[i], words) = 0
                   /\ Searching!BM25(chunks, words)[i] = 0
                   /\ Searching!Dense(chunks, words)[i] = chunks[i].near
<1>1. ASSUME NEW i \in DOMAIN chunks
      PROVE  /\ Searching!Shared(chunks[i], words) \in Nat
             /\ chunks[i].words \intersect words = {} => Searching!Shared(chunks[i], words) = 0
  BY FS_Intersection, FS_CardinalityType, FS_EmptySet, SameCount DEF Searching!Shared
<1>2. \A i \in DOMAIN chunks : chunks[i].gain \in Nat /\ chunks[i].near \in Nat
  BY DEF IndexFits
<1>3. \A i \in DOMAIN chunks : /\ chunks[i].gain * Searching!Shared(chunks[i], words) \in Nat
                               /\ chunks[i].near + 2 * Searching!Shared(chunks[i], words) \in Nat
  BY <1>1, <1>2
<1> QED
  BY <1>1, <1>2, <1>3 DEF Searching!BM25, Searching!Dense

(* Fusing gives nothing to a chunk that neither list has.                  *)
LEMMA FusionGives ==
  ASSUME NEW D, IsFiniteSet(D), NEW b \in [D -> Nat], NEW d \in [D -> Nat]
  PROVE  /\ Searching!Fused(b, d) \in [D -> Nat]
         /\ \A i \in D : b[i] = 0 /\ d[i] = 0 => Searching!Fused(b, d)[i] = 0
<1>1. ASSUME NEW f \in [D -> Nat], NEW i \in D
      PROVE  Searching!Share(f, i) \in Nat /\ (f[i] = 0 => Searching!Share(f, i) = 0)
  <2>1. {j \in DOMAIN f : f[j] > f[i] \/ (f[j] = f[i] /\ j < i)} \in SUBSET D
    OBVIOUS
  <2>2. Searching!PositionIn(f, i) \in Nat \ {0}
    <3>1. \A S \in SUBSET D : Cardinality(S) \in Nat
      BY FS_Subset, FS_CardinalityType
    <3>2. PICK n \in Nat : n = Cardinality({j \in DOMAIN f : f[j] > f[i] \/ (f[j] = f[i] /\ j < i)})
      BY <2>1, <3>1
    <3>3. Searching!PositionIn(f, i) = 1 + n
      BY <3>2, SameCount DEF Searching!PositionIn
    <3> QED
      BY <3>3
  <2>3. Searching!Scale \div (60 + Searching!PositionIn(f, i)) \in Nat
    BY <2>2 DEF Searching!Scale
  <2>4. f[i] \in Nat
    OBVIOUS
  <2> QED
    BY <2>3, <2>4 DEF Searching!Share
<1> QED
  BY <1>1 DEF Searching!Fused

(* A part of a score is a number, and nothing of nothing.                  *)
LEMMA PartGives ==
  ASSUME NEW D, IsFiniteSet(D), NEW f \in [D -> Nat], NEW i \in D, NEW p \in Nat
  PROVE  /\ Searching!Part(p, f, i) \in Nat
         /\ f[i] = 0 => Searching!Part(p, f, i) = 0
<1> DEFINE S == {f[j] : j \in DOMAIN f}
           best == Searching!Max(S)
<1>1. S = {f[j] : j \in D} /\ S \subseteq Nat /\ S # {}
  OBVIOUS
<1>2. IsFiniteSet(S)
  BY <1>1, ImageFinite
<1>3. best \in S
  <2>1. \E x \in S : \A y \in S : x >= y
    BY <1>1, <1>2, GreatestIsThere
  <2> HIDE DEF S
  <2> QED
    BY <2>1 DEF Searching!Max
<1>4. best \in Nat /\ f[i] \in Nat
  BY <1>1, <1>3
<1>5. Searching!Part(p, f, i) = IF best = 0 THEN 0 ELSE (p * Searching!Scale * f[i]) \div (100 * best)
  BY DEF Searching!Part
<1> HIDE DEF best
<1>6. p * Searching!Scale * f[i] \in Nat /\ (f[i] = 0 => p * Searching!Scale * f[i] = 0)
  BY <1>4 DEF Searching!Scale
<1>7. \A x \in Nat, y \in Nat : y # 0 => x \div (100 * y) \in Nat /\ (x = 0 => x \div (100 * y) = 0)
  OBVIOUS
<1> QED
  BY <1>4, <1>5, <1>6, <1>7

(* At least one hit is asked for.                                         *)
LEMMA MaxOfOne ==
  ASSUME NEW n \in Nat
  PROVE  Searching!Max({1, n}) \in Nat \ {0}
<1>1. \E x \in {1, n} : \A y \in {1, n} : x >= y
  <2>1. 1 >= n \/ n >= 1
    OBVIOUS
  <2> QED
    BY <2>1
<1>2. /\ Searching!Max({1, n}) \in {1, n}
      /\ \A y \in {1, n} : Searching!Max({1, n}) >= y
  BY <1>1 DEF Searching!Max
<1> QED
  BY <1>2

(* Scaling rounds down and keeps the sign.                                 *)
LEMMA ScalingKeepsSign ==
  ASSUME NEW s \in Int
  PROVE  /\ s \div 5 \in Int /\ (s <= 0 => s \div 5 <= 0)
         /\ (35 * s) \div 100 \in Int /\ (s <= 0 => (35 * s) \div 100 <= 0)
OBVIOUS

(* What speaks for a chunk.                                                *)
Earned(chunk, query) ==
  \/ chunk.words \intersect query.words # {}
  \/ chunk.near > 0
  \/ chunk.document \in query.mentioned

(* The reranker scores a chunk above zero only for what it has.            *)
LEMMA RerankingGives ==
  ASSUME NEW chunks, IndexFits(chunks), NEW query, IsFiniteSet(query.words)
  PROVE  /\ Searching!Reranked(chunks, query) \in [DOMAIN chunks -> Int]
         /\ \A i \in DOMAIN chunks :
              Searching!Reranked(chunks, query)[i] > 0 => Earned(chunks[i], query)
<1> DEFINE D == DOMAIN chunks
           words == Searching!Semantic(query)
           bm25 == Searching!BM25(chunks, words)
           dense == Searching!Dense(chunks, words)
           fused == Searching!Fused(bm25, dense)
<1>1. IsFiniteSet(D)
  BY PlacesFinite
<1>2. words \in SUBSET query.words /\ IsFiniteSet(words)
  <2>1. words \in SUBSET query.words
    BY DEF Searching!Semantic
  <2> QED
    BY <2>1, FS_Subset
<1> HIDE DEF words
<1>3. /\ bm25 \in [D -> Nat] /\ dense \in [D -> Nat] /\ fused \in [D -> Nat]
      /\ \A i \in D :
           /\ Searching!Shared(chunks[i], words) \in Nat
           /\ chunks[i].words \intersect words = {} /\ chunks[i].near = 0 =>
                /\ Searching!Shared(chunks[i], words) = 0
                /\ bm25[i] = 0 /\ dense[i] = 0 /\ fused[i] = 0
  BY <1>1, <1>2, WordsGive, FusionGives
<1> HIDE DEF bm25, dense, fused
<1> DEFINE most == Searching!Max({1, Searching!Cardinality(words)})
           named(i) == chunks[i].document \in query.mentioned
           covered(i) == (40 * Searching!Scale * Searching!Shared(chunks[i], words)) \div (100 * most)
           document(i) == IF query.mentioned = {} THEN 0
                          ELSE IF named(i) THEN (5 * Searching!Scale) \div 100
                          ELSE -((5 * Searching!Scale) \div 200)
           score(i) == Searching!Part(25, fused, i) + Searching!Part(20, bm25, i)
                       + Searching!Part(10, dense, i) + covered(i) + document(i)
           explained(i) == IF chunks[i].explanation THEN score(i) \div 5 ELSE score(i)
           final(i) == IF Searching!Cardinality(query.mentioned) = 1 /\ ~named(i)
                       THEN (35 * explained(i)) \div 100 ELSE explained(i)
<1>4. Searching!Reranked(chunks, query) = [i \in D |-> final(i)]
  BY DEF Searching!Reranked, words, bm25, dense, fused
<1>5. most \in Nat \ {0}
  BY <1>2, SameCount, FS_CardinalityType, MaxOfOne
<1> HIDE DEF most
<1>6. ASSUME NEW i \in D
      PROVE  final(i) \in Int /\ (final(i) > 0 => Earned(chunks[i], query))
  <2>1. /\ Searching!Part(25, fused, i) \in Nat /\ (fused[i] = 0 => Searching!Part(25, fused, i) = 0)
        /\ Searching!Part(20, bm25, i) \in Nat /\ (bm25[i] = 0 => Searching!Part(20, bm25, i) = 0)
        /\ Searching!Part(10, dense, i) \in Nat /\ (dense[i] = 0 => Searching!Part(10, dense, i) = 0)
    <3>1. 25 \in Nat /\ 20 \in Nat /\ 10 \in Nat
      OBVIOUS
    <3> QED
      BY <1>1, <1>3, <3>1, PartGives, Zenon
  <2>2. covered(i) \in Nat /\ (Searching!Shared(chunks[i], words) = 0 => covered(i) = 0)
    <3>1. \A x \in Nat, y \in Nat \ {0} :
            /\ (40 * 10000 * x) \div (100 * y) \in Nat
            /\ x = 0 => (40 * 10000 * x) \div (100 * y) = 0
      OBVIOUS
    <3> QED
      BY <1>3, <1>5, <3>1 DEF Searching!Scale
  <2>3. document(i) \in Int /\ (~named(i) => document(i) <= 0)
    BY DEF Searching!Scale
  <2> HIDE DEF covered, document, named
  <2>4. /\ score(i) \in Int
        /\ fused[i] = 0 /\ bm25[i] = 0 /\ dense[i] = 0 /\ Searching!Shared(chunks[i], words) = 0 /\ ~named(i)
           => score(i) <= 0
    BY <2>1, <2>2, <2>3
  <2>5. chunks[i].words \intersect query.words = {} /\ chunks[i].near = 0 /\ ~named(i) => score(i) <= 0
    BY <1>2, <1>3, <2>4
  <2> HIDE DEF score
  <2>6. explained(i) \in Int /\ (score(i) <= 0 => explained(i) <= 0)
    BY <2>4, ScalingKeepsSign
  <2> HIDE DEF explained
  <2>7. final(i) \in Int /\ (explained(i) <= 0 => final(i) <= 0)
    BY <2>6, ScalingKeepsSign
  <2> HIDE DEF final
  <2>8. chunks[i].near \in Nat
    BY DEF IndexFits
  <2> QED
    BY <2>5, <2>6, <2>7, <2>8 DEF Earned, named
<1> HIDE DEF final
<1> QED
  BY <1>4, <1>6

(* So does every other method, each for what it looks at.                  *)
LEMMA ScoresGive ==
  ASSUME NEW chunks, IndexFits(chunks), NEW query, IsFiniteSet(query.words),
         NEW method \in {"bm25", "dense", "hybrid", "hybrid_rerank"}
  PROVE  /\ Searching!Scores(chunks, query, method) \in [DOMAIN chunks -> Int]
         /\ \A i \in DOMAIN chunks :
              Searching!Scores(chunks, query, method)[i] > 0 =>
                \/ chunks[i].words \intersect query.words # {}
                \/ chunks[i].near > 0 /\ method # "bm25"
                \/ chunks[i].document \in query.mentioned /\ method = "hybrid_rerank"
<1> DEFINE D == DOMAIN chunks
           bm25 == Searching!BM25(chunks, query.words)
           dense == Searching!Dense(chunks, query.words)
           fused == Searching!Fused(bm25, dense)
<1>1. IsFiniteSet(D)
  BY PlacesFinite
<1>2. /\ bm25 \in [D -> Nat] /\ dense \in [D -> Nat] /\ fused \in [D -> Nat]
      /\ \A i \in D :
           chunks[i].words \intersect query.words = {} =>
             /\ bm25[i] = 0
             /\ chunks[i].near = 0 => dense[i] = 0 /\ fused[i] = 0
  BY <1>1, WordsGive, FusionGives
<1>3. \A i \in D : chunks[i].near \in Nat
  BY DEF IndexFits
<1> HIDE DEF bm25, dense, fused
<1>4. ASSUME NEW f \in [D -> Nat]
      PROVE  /\ Searching!Adjusted(chunks, f) \in [D -> Int]
             /\ \A i \in D : f[i] = 0 => Searching!Adjusted(chunks, f)[i] = 0
  BY DEF Searching!Adjusted
<1>5. CASE method = "bm25"
  <2>1. Searching!Scores(chunks, query, method) = Searching!Adjusted(chunks, bm25)
    BY <1>5 DEF Searching!Scores, bm25
  <2> QED
    BY <1>2, <1>4, <2>1
<1>6. CASE method = "dense"
  <2>1. Searching!Scores(chunks, query, method) = Searching!Adjusted(chunks, dense)
    BY <1>6 DEF Searching!Scores, dense
  <2> QED
    BY <1>2, <1>3, <1>4, <1>6, <2>1
<1>7. CASE method = "hybrid"
  <2>1. Searching!Scores(chunks, query, method) = Searching!Adjusted(chunks, fused)
    BY <1>7 DEF Searching!Scores, bm25, dense, fused
  <2> QED
    BY <1>2, <1>3, <1>4, <1>7, <2>1
<1>8. CASE method = "hybrid_rerank"
  <2>1. Searching!Scores(chunks, query, method) = Searching!Reranked(chunks, query)
    BY <1>8 DEF Searching!Scores
  <2> QED
    BY <1>8, <2>1, RerankingGives DEF Earned
<1> QED
  BY <1>5, <1>6, <1>7, <1>8

-----------------------------------------------------------------------------
(* Ranking and diversifying. *)

(* Those of the places S that come before one.                             *)
Ahead(chunks, query, value, S) ==
  [x \in S |-> {y \in S : Searching!Before(chunks, query, value, y, x)}]

(* The order of candidates is a strict total order.                        *)
LEMMA AheadPrecedes ==
  ASSUME NEW chunks, IndexFits(chunks), NEW query, IsFiniteSet(query.words),
         NEW value \in [DOMAIN chunks -> Int], NEW S \in SUBSET DOMAIN chunks
  PROVE  Precedes(S, Ahead(chunks, query, value, S)) /\ IsFiniteSet(S)
<1> DEFINE bm25 == Searching!BM25(chunks, query.words)
           dense == Searching!Dense(chunks, query.words)
           B == Ahead(chunks, query, value, S)
<1>1. DOMAIN chunks \subseteq Int /\ IsFiniteSet(S) /\ S \subseteq Int
  BY PlacesFinite, FS_Subset
<1>2. bm25 \in [DOMAIN chunks -> Nat] /\ dense \in [DOMAIN chunks -> Nat]
  BY WordsGive
<1>3. \A x \in S : B[x] \in SUBSET S
  BY DEF Ahead
<1>4. \A x, y \in S : y \in B[x] <=>
           \/ value[y] > value[x]
           \/ value[y] = value[x] /\ bm25[y] > bm25[x]
           \/ value[y] = value[x] /\ bm25[y] = bm25[x] /\ dense[y] > dense[x]
           \/ value[y] = value[x] /\ bm25[y] = bm25[x] /\ dense[y] = dense[x] /\ y < x
  BY DEF Ahead, Searching!Before
<1> HIDE DEF B, bm25, dense
<1> DEFINE v == [x \in S |-> value[x]]
           b == [x \in S |-> bm25[x]]
           d == [x \in S |-> dense[x]]
<1>5. v \in [S -> Int] /\ b \in [S -> Int] /\ d \in [S -> Int]
  BY <1>2
<1>6. \A x, y \in S : y \in B[x] <=>
           \/ v[y] > v[x]
           \/ v[y] = v[x] /\ b[y] > b[x]
           \/ v[y] = v[x] /\ b[y] = b[x] /\ d[y] > d[x]
           \/ v[y] = v[x] /\ b[y] = b[x] /\ d[y] = d[x] /\ y < x
  BY <1>4
<1> HIDE DEF v, b, d
<1>7. Precedes(S, B)
  BY <1>1, <1>3, <1>5, <1>6, NumbersPrecede
<1> QED
  BY <1>1, <1>7 DEF B

(* A list of places of D without repetition.                               *)
Selection(D, s) ==
  /\ \E k \in Nat : DOMAIN s = 1..k
  /\ \A i \in DOMAIN s : s[i] \in D
  /\ \A i, j \in DOMAIN s : s[i] = s[j] => i = j

(* The instance for searching has the same minimum.                       *)
LEMMA SameMinimum ==
  ASSUME NEW S
  PROVE  Searching!Min(S) = Min(S)
BY Zenon DEF Searching!Min, Min

(* Up to so many, all if there are not more, and none outside is better.   *)
BestOnes(D, scores, limit, r) ==
  /\ \E k \in 0..limit :
       /\ DOMAIN r = 1..k
       /\ k < limit => \A x \in D : \E i \in 1..k : r[i] = x
  /\ \A x \in D : (\E i \in DOMAIN r : r[i] = x) \/ \A i \in DOMAIN r : scores[x] <= scores[r[i]]

(* The first ones of all, in the order of their scores.                    *)
LEMMA RankedAreFirst ==
  ASSUME NEW chunks, IndexFits(chunks), NEW query, IsFiniteSet(query.words),
         NEW scores \in [DOMAIN chunks -> Int], NEW limit \in Nat,
         NEW r, r = Searching!Ranked(chunks, query, scores, limit)
  PROVE  /\ Selection(DOMAIN chunks, r)
         /\ BestOnes(DOMAIN chunks, scores, limit, r)
<1>1. PICK D : D = DOMAIN chunks
  OBVIOUS
<1>2. PICK B : B = Ahead(chunks, query, scores, D)
  OBVIOUS
<1> DEFINE n == Cardinality(D)
<1>3. PICK o : o = Searching!InOrder(D, LAMBDA i, j : Searching!Before(chunks, query, scores, i, j))
  OBVIOUS
<1>4. Lists(D, B, o)
  BY <1>2, <1>3, SameCount DEF Lists, Ahead, Searching!InOrder
<1>5. Precedes(D, B) /\ IsFiniteSet(D) /\ D \subseteq Int /\ scores \in [D -> Int]
  BY <1>1, <1>2, AheadPrecedes, PlacesFinite
<1>6. \A x, y \in D : y \in B[x] => scores[x] <= scores[y]
  <2>1. \A x, y \in D : y \in B[x] => scores[x] < scores[y] \/ scores[x] = scores[y]
    BY <1>2 DEF Ahead, Searching!Before
  <2> QED
    BY <1>5, <2>1
<1>7. /\ n \in Nat /\ DOMAIN o = 1..n
      /\ \A i \in 1..n : o[i] \in D
      /\ \A x \in D : \E i \in 1..n : o[i] = x
      /\ \A i, j \in 1..n : i < j <=> o[i] \in B[o[j]]
      /\ \A i, j \in 1..n : o[i] = o[j] => i = j
  BY <1>4, <1>5, ListIsInOrder
<1>8. \A i, j \in 1..n : i < j => scores[o[j]] <= scores[o[i]]
  BY <1>6, <1>7
<1> HIDE DEF n
<1> DEFINE k == IF limit <= n THEN limit ELSE n
<1>9. k \in 0..limit /\ k \in 0..n /\ (k < limit => k = n)
  BY <1>7
<1>10. DOMAIN r = 1..k /\ \A i \in 1..k : r[i] = o[i]
  <2>1. o \in Seq(D) /\ Len(o) = n
    <3>1. o \in [1..n -> D]
      <4> DEFINE e(i) == CHOOSE x \in D :
            Searching!Cardinality({y \in D : Searching!Before(chunks, query, scores, y, x)}) = i - 1
      <4>1. o = [i \in 1..Searching!Cardinality(D) |-> e(i)]
        BY <1>3, Zenon DEF Searching!InOrder
      <4>2. Searching!Cardinality(D) = n
        BY SameCount DEF n
      <4> HIDE DEF e
      <4>3. \A i \in 1..n : e(i) \in D
        BY <1>7, <4>1, <4>2
      <4> QED
        BY <4>1, <4>2, <4>3
    <3> QED
      BY <1>7, <3>1
  <2>2. Searching!Min({limit, Len(o)}) = k
    BY <1>7, <2>1, MinOfTwo, SameMinimum
  <2>3. r = SubSeq(o, 1, k)
    BY <1>1, <1>3, <2>2 DEF Searching!Ranked
  <2> QED
    BY <1>7, <1>9, <2>1, <2>3
<1> HIDE DEF k
<1>11. Selection(D, r)
  BY <1>7, <1>9, <1>10 DEF Selection
<1>12. k < limit => \A x \in D : \E i \in 1..k : r[i] = x
  BY <1>7, <1>9, <1>10
<1>13. ASSUME NEW x \in D, \A i \in 1..k : r[i] # x
       PROVE  \A i \in 1..k : scores[x] <= scores[r[i]]
  <2>1. PICK j \in 1..n : o[j] = x
    BY <1>7
  <2>2. \A i \in 1..k : i < j
    BY <1>7, <1>9, <1>10, <1>13, <2>1
  <2> QED
    <3>1. ASSUME NEW i \in 1..k PROVE scores[x] <= scores[r[i]]
      <4>1. i \in 1..n /\ i < j /\ r[i] = o[i]
        BY <1>7, <1>9, <1>10, <2>2
      <4> QED
        BY <1>8, <2>1, <4>1
    <3> QED
      BY <3>1
<1> QED
  BY <1>1, <1>9, <1>10, <1>11, <1>12, <1>13 DEF BestOnes

(* Choices so far: at most m places, each chosen once.                     *)
Chosen(D, m, state) ==
  /\ state \in [chosen : Seq(D), done : BOOLEAN]
  /\ Len(state.chosen) <= m
  /\ \A i, j \in DOMAIN state.chosen : state.chosen[i] = state.chosen[j] => i = j

(* What a chunk gains by diversifying is a number.                         *)
LEMMA GainIsNumber ==
  ASSUME NEW chunks, NEW query, IsFiniteSet(query.words), NEW chosen, NEW i
  PROVE  Searching!Gain(chunks, query, chosen, i) \in Int
<1> DEFINE words == Searching!Semantic(query)
           new(covered) == Searching!Cardinality((chunks[i].words \intersect words) \ covered)
           most == Searching!Max({1, Searching!Cardinality(words)})
<1>1. IsFiniteSet(words)
  <2>1. words \in SUBSET query.words
    BY DEF Searching!Semantic
  <2> QED
    BY <2>1, FS_Subset
<1> HIDE DEF words
<1>2. \A covered : new(covered) \in Nat
  <2> TAKE covered
  <2>1. (chunks[i].words \intersect words) \ covered \in SUBSET words
    OBVIOUS
  <2> QED
    BY <1>1, <2>1, SameCount, FS_Subset, FS_CardinalityType
<1>3. most \in Nat \ {0}
  BY <1>1, SameCount, FS_CardinalityType, MaxOfOne
<1> HIDE DEF new, most
<1>4. \A covered : (25 * 10000 * new(covered)) \div (100 * most) \in Int
  BY <1>2, <1>3
<1> DEFINE some == UNION {chunks[j].words : j \in Searching!ToSet(chosen)}
<1>5. \/ Searching!Gain(chunks, query, chosen, i)
           = (25 * Searching!Scale * new(some)) \div (100 * most) + (8 * Searching!Scale) \div 100
      \/ Searching!Gain(chunks, query, chosen, i)
           = (25 * Searching!Scale * new(some)) \div (100 * most) + 0
  BY Zenon DEF Searching!Gain, words, new, most
<1> HIDE DEF some
<1> QED
  BY <1>4, <1>5 DEF Searching!Scale

(* A choice adds one place that was not chosen, or none.                   *)
LEMMA ChoosingKeeps ==
  ASSUME NEW chunks, IndexFits(chunks), NEW query, IsFiniteSet(query.words),
         NEW scores \in [DOMAIN chunks -> Int],
         NEW m \in Nat, NEW state, Chosen(DOMAIN chunks, m, state)
  PROVE  Chosen(DOMAIN chunks, m + 1, Searching!Choose(chunks, query, scores, state))
<1> DEFINE D == DOMAIN chunks
           left == D \ Searching!ToSet(state.chosen)
           value == [i \in D |-> scores[i] + Searching!Gain(chunks, query, state.chosen, i)]
           best == CHOOSE i \in left : \A j \in left \ {i} :
                     Searching!Before(chunks, query, value, i, j)
<1>1. Searching!Choose(chunks, query, scores, state)
       = IF state.done \/ left = {} \/ scores[best] <= 0 THEN [state EXCEPT !.done = TRUE]
         ELSE [state EXCEPT !.chosen = Append(@, best)]
  BY Zenon DEF Searching!Choose
<1>2. value \in [D -> Int]
  BY GainIsNumber
<1>3. left \in SUBSET D
  OBVIOUS
<1> HIDE DEF value
<1>4. PICK B : B = Ahead(chunks, query, value, left)
  OBVIOUS
<1>5. Precedes(left, B) /\ IsFiniteSet(left)
  BY <1>4, <1>2, <1>3, AheadPrecedes
<1>6. ASSUME left # {} PROVE best \in left
  <2> HIDE DEF left
  <2>1. PICK x \in left : \A y \in left \ {x} : x \in B[y]
    BY <1>5, <1>6, OneIsFirst
  <2>2. \A y \in left \ {x} : Searching!Before(chunks, query, value, x, y)
    BY <1>4, <2>1 DEF Ahead
  <2> QED
    BY <2>2, Zenon
<1> HIDE DEF best
<1>7. left = D \ Searching!ToSet(state.chosen)
  OBVIOUS
<1> HIDE DEF left
<1>8. D = DOMAIN chunks
  OBVIOUS
<1> HIDE DEF D
<1>9. Searching!Choose(chunks, query, scores, state)
       = IF state.done \/ left = {} \/ scores[best] <= 0 THEN [state EXCEPT !.done = TRUE]
         ELSE [state EXCEPT !.chosen = Append(@, best)]
  BY <1>1
<1>10. /\ state \in [chosen : Seq(D), done : BOOLEAN]
       /\ Len(state.chosen) <= m
       /\ \A i, j \in DOMAIN state.chosen : state.chosen[i] = state.chosen[j] => i = j
  BY <1>8 DEF Chosen
<1>11. CASE state.done \/ left = {} \/ scores[best] <= 0
  <2>1. Searching!Choose(chunks, query, scores, state) = [state EXCEPT !.done = TRUE]
    BY <1>9, <1>11
  <2>2. [state EXCEPT !.done = TRUE] \in [chosen : Seq(D), done : BOOLEAN]
        /\ [state EXCEPT !.done = TRUE].chosen = state.chosen
    BY <1>10
  <2> QED
    BY <1>8, <1>10, <2>1, <2>2 DEF Chosen
<1>12. CASE ~(state.done \/ left = {} \/ scores[best] <= 0)
  <2>1. PICK next : next = [state EXCEPT !.chosen = Append(@, best)]
    OBVIOUS
  <2>2. Searching!Choose(chunks, query, scores, state) = next
    BY <1>9, <1>12, <2>1
  <2>3. best \in D /\ \A i \in DOMAIN state.chosen : state.chosen[i] # best
    BY <1>7, <1>6, <1>12 DEF Searching!ToSet
  <2>4. next \in [chosen : Seq(D), done : BOOLEAN] /\ next.chosen = Append(state.chosen, best)
    <3>1. Append(state.chosen, best) \in Seq(D)
      BY <1>10, <2>3
    <3>2. next = [chosen |-> Append(state.chosen, best), done |-> state.done]
      BY <1>10, <2>1
    <3> QED
      BY <1>10, <3>1, <3>2
  <2>5. Len(next.chosen) <= m + 1
    BY <1>10, <2>4
  <2>6. \A i, j \in DOMAIN next.chosen : next.chosen[i] = next.chosen[j] => i = j
    <3>1. PICK c : c = state.chosen
      OBVIOUS
    <3>2. c \in Seq(D) /\ (\A i \in 1..Len(c) : c[i] # best)
          /\ \A i, j \in 1..Len(c) : c[i] = c[j] => i = j
      BY <1>10, <2>3, <3>1
    <3>3. \A i, j \in 1..Len(Append(c, best)) : Append(c, best)[i] = Append(c, best)[j] => i = j
      BY <2>3, <3>2
    <3> QED
      BY <2>3, <2>4, <3>1, <3>2, <3>3
  <2> QED
    BY <1>8, <2>2, <2>4, <2>5, <2>6 DEF Chosen
<1> QED
  BY <1>11, <1>12

(* A diversified ranking has no chunk twice and no more than asked for.    *)
LEMMA DiversifiedIsSelection ==
  ASSUME NEW chunks, IndexFits(chunks), NEW query, IsFiniteSet(query.words),
         NEW scores \in [DOMAIN chunks -> Int], NEW limit \in Nat,
         NEW r, r = Searching!Diversified(chunks, query, scores, limit)
  PROVE  Selection(DOMAIN chunks, r) /\ \E k \in 0..limit : DOMAIN r = 1..k
<1>1. PICK g : /\ Choosing(chunks, query, scores, limit, g)
               /\ Searching!Diversified(chunks, query, scores, limit) = g[limit].chosen
  BY DiversifiedChooses
<1>2. PICK D : D = DOMAIN chunks
  OBVIOUS
<1>3. /\ g[0] = Begun
      /\ \A i \in 1..limit : g[i] = Searching!Choose(chunks, query, scores, g[i - 1])
  <2>1. g = [i \in 0..limit |->
             IF i = 0 THEN Begun ELSE Searching!Choose(chunks, query, scores, g[i - 1])]
    BY <1>1 DEF Choosing
  <2>2. \A i \in 0..limit :
          g[i] = IF i = 0 THEN Begun ELSE Searching!Choose(chunks, query, scores, g[i - 1])
    BY <2>1
  <2> QED
    BY <2>2
<1> DEFINE Bad == {m \in 0..limit : ~Chosen(D, m, g[m])}
<1>4. Bad = {}
  <2> SUFFICES ASSUME Bad # {} PROVE FALSE
    OBVIOUS
  <2>1. Bad \subseteq Nat
    OBVIOUS
  <2>2. \A m \in 0..limit : m \in Bad <=> ~Chosen(D, m, g[m])
    OBVIOUS
  <2>3. Bad \subseteq 0..limit
    OBVIOUS
  <2> HIDE DEF Bad
  <2>4. PICK m \in Bad : \A k \in Bad : ~(<<k, m>> \in OpToRel(<, Nat))
    BY <2>1, NatLessThanWellFounded, WFMin
  <2>5. m \in 0..limit /\ \A k \in Bad : ~(k < m)
    BY <2>1, <2>3, <2>4, Zenon DEF OpToRel
  <2>6. m # 0
    <3>1. Chosen(D, 0, Begun)
      BY DEF Chosen, Begun
    <3> QED
      BY <1>3, <2>2, <3>1
  <2>7. m - 1 \in 0..limit /\ m - 1 \in Nat /\ m - 1 < m /\ m \in 1..limit /\ (m - 1) + 1 = m
    BY <2>5, <2>6
  <2>8. Chosen(D, m - 1, g[m - 1])
    BY <2>2, <2>5, <2>7
  <2>9. Chosen(D, (m - 1) + 1, Searching!Choose(chunks, query, scores, g[m - 1]))
    BY <1>2, <2>7, <2>8, ChoosingKeeps
  <2> QED
    BY <1>3, <2>2, <2>5, <2>7, <2>9
<1>5. Chosen(D, limit, g[limit])
  BY <1>4
<1>6. r = g[limit].chosen
  BY <1>1
<1>7. r \in Seq(D) /\ Len(r) <= limit /\ \A i, j \in DOMAIN r : r[i] = r[j] => i = j
  BY <1>5, <1>6 DEF Chosen
<1>8. Len(r) \in 0..limit /\ DOMAIN r = 1..Len(r)
  BY <1>7
<1> QED
  BY <1>1, <1>2, <1>6, <1>7, <1>8 DEF Selection

-----------------------------------------------------------------------------
(* Searching. *)

(* r is what seq has at the places in S.                                   *)
TakenAt(r, seq, S) ==
  /\ DOMAIN r = 1..Cardinality(S)
  /\ \E p : /\ \A n \in 1..Cardinality(S) : p[n] \in S /\ r[n] = seq[p[n]]
            /\ \A x \in S : \E n \in 1..Cardinality(S) : p[n] = x
            /\ \A i, j \in 1..Cardinality(S) : p[i] = p[j] => i = j

(* What is picked at places of a sequence: as many elements as places, in *)
(* their order.                                                           *)
LEMMA AtPlacesGives ==
  ASSUME NEW k \in Nat, NEW seq, DOMAIN seq = 1..k, NEW S \in SUBSET (1..k),
         NEW D, \A n \in 1..k : seq[n] \in D,
         NEW r, r = Searching!AtPlaces(seq, S)
  PROVE  /\ Cardinality(S) \in 0..k /\ (Cardinality(S) = k => S = 1..k)
         /\ TakenAt(r, seq, S)
         /\ r \in Seq(D)
<1>1. IsFiniteSet(S) /\ Cardinality(S) \in 0..k /\ (Cardinality(S) = k => S = 1..k)
  <2>1. IsFiniteSet(1..k) /\ Cardinality(1..k) = k
    BY FS_Interval
  <2>2. /\ IsFiniteSet(S) /\ Cardinality(S) <= k
        /\ Cardinality(S) = k => S = 1..k
    BY <2>1, FS_Subset
  <2> QED
    BY <2>2, FS_CardinalityType
<1>2. PICK p : p = Searching!Ascending(S)
  OBVIOUS
<1>3. p = Ascending(S)
  <2>1. Searching!Ascending(S) = Ascending(S)
    BY Zenon DEF Searching!Ascending, Searching!InOrder, Searching!Cardinality,
       Ascending, InOrder, Cardinality
  <2> QED
    BY <1>2, <2>1
<1>4. Ascends(S, p)
  <2>1. S \subseteq Int
    OBVIOUS
  <2> QED
    BY <1>1, <1>3, <2>1, AscendingGives
<1>5. /\ DOMAIN p = 1..Cardinality(S)
      /\ \A i \in 1..Cardinality(S) : p[i] \in S
      /\ \A x \in S : \E i \in 1..Cardinality(S) : p[i] = x
      /\ \A i, j \in 1..Cardinality(S) : p[i] = p[j] => i = j
  BY <1>4 DEF Ascends
<1>6. r = [n \in DOMAIN p |-> seq[p[n]]]
  BY <1>2, Zenon DEF Searching!AtPlaces
<1>7. /\ DOMAIN r = 1..Cardinality(S)
      /\ \A n \in 1..Cardinality(S) : r[n] = seq[p[n]]
  BY <1>5, <1>6
<1>8. r \in Seq(D)
  <2>1. \A n \in 1..Cardinality(S) : seq[p[n]] \in D
    BY <1>5
  <2>2. r \in [1..Cardinality(S) -> D]
    BY <1>5, <1>6, <2>1
  <2> QED
    BY <1>1, <2>2
<1> QED
  BY <1>1, <1>5, <1>7, <1>8 DEF TakenAt

(* What a search returns.                                                  *)
Hits(D, scores, limit, hits) ==
  /\ Selection(D, hits) /\ hits \in Seq(D)
  /\ \E k \in 0..limit : DOMAIN hits = 1..k
  /\ \A n \in DOMAIN hits : scores[hits[n]] > 0

(* A search keeps what was ranked and has a positive score.                *)
LEMMA SearchGives ==
  ASSUME NEW chunks, IndexFits(chunks), NEW query, IsFiniteSet(query.words),
         NEW method \in {"bm25", "dense", "hybrid", "hybrid_rerank"}, NEW limit \in Nat,
         NEW scores, scores = Searching!Scores(chunks, query, method),
         NEW hits, hits = Searching!Found(chunks, query, method, limit)
  PROVE  /\ Hits(DOMAIN chunks, scores, limit, hits)
         /\ method # "hybrid_rerank" =>
              \A j \in DOMAIN chunks : (\A n \in DOMAIN hits : hits[n] # j) =>
                /\ \A n \in DOMAIN hits : scores[j] <= scores[hits[n]]
                /\ limit \notin DOMAIN hits /\ limit # 0 => scores[j] <= 0
<1>1. PICK D : D = DOMAIN chunks
  OBVIOUS
<1>2. scores \in [D -> Int]
  BY <1>1, ScoresGive
<1> DEFINE r == IF method = "hybrid_rerank" THEN Searching!Diversified(chunks, query, scores, limit)
                ELSE Searching!Ranked(chunks, query, scores, limit)
<1>3. PICK ranked : ranked = r
  OBVIOUS
<1>4. Selection(D, ranked) /\ \E k \in 0..limit : DOMAIN ranked = 1..k
  <2>1. scores \in [DOMAIN chunks -> Int]
    BY <1>1, <1>2
  <2>2. CASE method = "hybrid_rerank"
    <3>1. ranked = Searching!Diversified(chunks, query, scores, limit)
      BY <1>3, <2>2
    <3> QED
      BY <1>1, <2>1, <3>1, DiversifiedIsSelection
  <2>3. CASE method # "hybrid_rerank"
    <3>1. ranked = Searching!Ranked(chunks, query, scores, limit)
      BY <1>3, <2>3
    <3>2. Selection(DOMAIN chunks, ranked) /\ BestOnes(DOMAIN chunks, scores, limit, ranked)
      BY <2>1, <3>1, RankedAreFirst
    <3> QED
      BY <1>1, <3>2 DEF BestOnes
  <2> QED
    BY <2>2, <2>3
<1>5. PICK k \in 0..limit : DOMAIN ranked = 1..k
  BY <1>4
<1>6. ASSUME method # "hybrid_rerank"
      PROVE  /\ k < limit => \A x \in D : \E i \in 1..k : ranked[i] = x
             /\ \A x \in D : (\E i \in 1..k : ranked[i] = x)
                             \/ \A i \in 1..k : scores[x] <= scores[ranked[i]]
  <2>1. ranked = Searching!Ranked(chunks, query, scores, limit)
    BY <1>3, <1>6
  <2>2. /\ \E m \in 0..limit :
             /\ DOMAIN ranked = 1..m
             /\ m < limit => \A x \in D : \E i \in 1..m : ranked[i] = x
        /\ \A x \in D : (\E i \in DOMAIN ranked : ranked[i] = x)
                        \/ \A i \in DOMAIN ranked : scores[x] <= scores[ranked[i]]
    <3>1. scores \in [DOMAIN chunks -> Int]
      BY <1>1, <1>2
    <3>2. BestOnes(DOMAIN chunks, scores, limit, ranked)
      BY <2>1, <3>1, RankedAreFirst
    <3> QED
      BY <1>1, <3>2 DEF BestOnes
  <2>3. PICK m \in 0..limit :
             /\ DOMAIN ranked = 1..m
             /\ m < limit => \A x \in D : \E i \in 1..m : ranked[i] = x
    BY <2>2
  <2>4. m = k
    BY <1>5, <2>3
  <2> QED
    BY <1>5, <2>2, <2>3, <2>4
<1>7. PICK S : S = {n \in DOMAIN ranked : scores[ranked[n]] > 0}
  OBVIOUS
<1>8. hits = Searching!AtPlaces(ranked, S)
  BY <1>3, <1>7 DEF Searching!Found
<1>9. S \in SUBSET (1..k) /\ k \in Nat
  BY <1>5, <1>7
<1>10. PICK m : m = Cardinality(S)
  OBVIOUS
<1>11. /\ \A i \in 1..k : ranked[i] \in D
       /\ \A i, j \in 1..k : ranked[i] = ranked[j] => i = j
  BY <1>4, <1>5 DEF Selection
<1>12. /\ m \in 0..k /\ (m = k => S = 1..k) /\ hits \in Seq(D)
       /\ DOMAIN hits = 1..m
       /\ \E p : /\ \A n \in 1..m : p[n] \in S /\ hits[n] = ranked[p[n]]
                 /\ \A x \in S : \E n \in 1..m : p[n] = x
                 /\ \A i, j \in 1..m : p[i] = p[j] => i = j
  <2>1. Cardinality(S) \in 0..k /\ (Cardinality(S) = k => S = 1..k) /\ TakenAt(hits, ranked, S)
        /\ hits \in Seq(D)
    BY <1>5, <1>8, <1>9, <1>11, AtPlacesGives
  <2> QED
    BY <1>10, <2>1 DEF TakenAt
<1>13. PICK p : /\ \A n \in 1..m : p[n] \in S /\ hits[n] = ranked[p[n]]
                /\ \A x \in S : \E n \in 1..m : p[n] = x
                /\ \A i, j \in 1..m : p[i] = p[j] => i = j
  BY <1>12
<1>14. \A i \in 1..k : i \in S <=> scores[ranked[i]] > 0
  BY <1>5, <1>7
<1>15. Hits(D, scores, limit, hits)
  <2>1. Selection(D, hits)
    <3>1. m \in Nat
      BY <1>5, <1>12
    <3>2. \A n \in 1..m : p[n] \in 1..k /\ hits[n] \in D
      BY <1>9, <1>13, <1>11
    <3>3. \A i, j \in 1..m : hits[i] = hits[j] => i = j
      BY <1>13, <1>11, <3>2
    <3> QED
      BY <1>12, <3>1, <3>2, <3>3 DEF Selection
  <2>2. \A n \in 1..m : scores[hits[n]] > 0
    BY <1>9, <1>13, <1>14
  <2>3. m \in 0..limit
    BY <1>5, <1>12
  <2> QED
    BY <1>12, <2>1, <2>2, <2>3 DEF Hits
<1>16. ASSUME NEW j \in D, \A n \in 1..m : hits[n] # j
       PROVE  \A i \in 1..k : ranked[i] = j => scores[j] <= 0
  <2>1. \A i \in 1..k : ranked[i] = j => i \notin S
    BY <1>13, <1>16
  <2> QED
    BY <1>2, <1>14, <2>1
<1>17. ASSUME method # "hybrid_rerank", NEW j \in D, \A n \in 1..m : hits[n] # j
       PROVE  /\ \A n \in 1..m : scores[j] <= scores[hits[n]]
              /\ limit \notin 1..m /\ limit # 0 => scores[j] <= 0
  <2>1. ASSUME NEW n \in 1..m PROVE scores[j] <= scores[hits[n]]
    <3>1. p[n] \in 1..k /\ hits[n] = ranked[p[n]] /\ scores[hits[n]] > 0 /\ ranked[p[n]] \in D
      BY <1>9, <1>13, <1>11, <1>14
    <3>2. scores[j] <= 0 \/ scores[j] <= scores[ranked[p[n]]]
      BY <1>6, <1>16, <1>17, <3>1
    <3> QED
      BY <1>2, <3>1, <3>2
  <2>2. ASSUME limit \notin 1..m, limit # 0 PROVE scores[j] <= 0
    <3>1. m < limit
      BY <1>5, <1>12, <2>2
    <3> SUFFICES ASSUME scores[j] > 0 PROVE FALSE
      BY <1>2
    <3>2. \A i \in 1..k : ranked[i] # j
      BY <1>2, <1>16, <1>17
    <3>3. k = limit
      BY <1>5, <1>6, <1>17, <3>2
    <3>4. \A i \in 1..k : scores[j] <= scores[ranked[i]]
      BY <1>6, <1>17, <3>2
    <3>5. \A i \in 1..k : i \in S
      BY <1>2, <1>11, <1>14, <3>4
    <3>6. S = 1..k
      BY <1>9, <3>5
    <3>7. Cardinality(1..k) = k
      BY <1>5, FS_Interval
    <3> QED
      BY <1>10, <3>1, <3>3, <3>6, <3>7
  <2> QED
    BY <2>1, <2>2
<1> QED
  BY <1>1, <1>12, <1>15, <1>17

(* A selection has as many elements as places.                            *)
LEMMA CountOfSelection ==
  ASSUME NEW D, NEW s, Selection(D, s), NEW k \in Nat, DOMAIN s = 1..k
  PROVE  Cardinality(ToSet(s)) = k
<1>1. [i \in 1..k |-> s[i]] \in Bijection(1..k, ToSet(s))
  BY DEF Selection, ToSet, Bijection, Injection, Surjection, IsInjective
<1>2. ExistsBijection(1..k, ToSet(s))
  BY <1>1 DEF ExistsBijection
<1> QED
  BY <1>2, FS_CountingElements

(* What the assumption says of indexes and questions.                     *)
LEMMA InputsFit ==
  ASSUME CalculationsAssumption
  PROVE  /\ \A chunks \in Indexes : IndexFits(chunks)
         /\ \A question \in Questions : IsFiniteSet(question.words)
<1>1. ASSUME NEW chunks \in Indexes PROVE IndexFits(chunks)
  <2>1. /\ chunks \in Seq(ToSet(chunks))
        /\ \A i \in DOMAIN chunks : chunks[i].gain \in Nat /\ chunks[i].near \in Nat
    BY DEF CalculationsAssumption
  <2>2. Len(chunks) \in Nat /\ DOMAIN chunks = 1..Len(chunks)
    BY <2>1
  <2> QED
    BY <2>1, <2>2 DEF IndexFits
<1> QED
  BY <1>1 DEF CalculationsAssumption

(* A search returns what is earned, whatever the index and the query.      *)
LEMMA EverySearchIsEarned ==
  ASSUME NEW chunks, IndexFits(chunks), NEW query, IsFiniteSet(query.words),
         NEW method \in {"bm25", "dense", "hybrid", "hybrid_rerank"}, NEW limit \in Nat \ {0},
         NEW hits, hits = Searching!Found(chunks, query, method, limit)
  PROVE  SearchIsEarned(chunks, query, method, limit, hits)
<1>1. PICK scores : scores = Searching!Scores(chunks, query, method)
  OBVIOUS
<1>2. /\ Selection(DOMAIN chunks, hits) /\ hits \in Seq(DOMAIN chunks)
      /\ \E k \in 0..limit : DOMAIN hits = 1..k
      /\ \A n \in DOMAIN hits : scores[hits[n]] > 0
  <2>1. Hits(DOMAIN chunks, scores, limit, hits)
    BY <1>1, SearchGives
  <2> QED
    BY <2>1 DEF Hits
<1>3. method # "hybrid_rerank" =>
        \A j \in DOMAIN chunks : (\A n \in DOMAIN hits : hits[n] # j) =>
          /\ \A n \in DOMAIN hits : scores[j] <= scores[hits[n]]
          /\ limit \notin DOMAIN hits /\ limit # 0 => scores[j] <= 0
  BY <1>1, SearchGives
<1>4. PICK k \in 0..limit : DOMAIN hits = 1..k
  BY <1>2
<1>5. Len(hits) = k
  BY <1>2, <1>4
<1>6. Cardinality(ToSet(hits)) = k
  BY <1>2, <1>4, CountOfSelection
<1>7. \A i : i \in ToSet(hits) <=> \E n \in 1..k : hits[n] = i
  BY <1>4 DEF ToSet
<1>8. ASSUME NEW i \in ToSet(hits)
      PROVE  \/ chunks[i].words \intersect query.words # {}
             \/ chunks[i].near > 0 /\ method # "bm25"
             \/ chunks[i].document \in query.mentioned /\ method = "hybrid_rerank"
  <2>1. i \in DOMAIN chunks /\ scores[i] > 0
    BY <1>2, <1>4, <1>7 DEF Selection
  <2> QED
    BY <1>1, <2>1, ScoresGive
<1>9. ASSUME method # "hybrid_rerank", NEW j \in DOMAIN chunks \ ToSet(hits)
      PROVE  /\ \A i \in ToSet(hits) : scores[j] <= scores[i]
             /\ Len(hits) < limit => scores[j] <= 0
  <2>1. /\ \A n \in 1..k : scores[j] <= scores[hits[n]]
        /\ limit \notin 1..k => scores[j] <= 0
    BY <1>3, <1>4, <1>7, <1>9
  <2> QED
    BY <1>4, <1>5, <1>7, <2>1
<1> QED
  BY <1>1, <1>4, <1>5, <1>6, <1>8, <1>9 DEF SearchIsEarned

(* HitsAreEarned holds of every search of every index, with any query,     *)
(* method and limit: no hit twice, none without a reason, and without      *)
(* diversification none better left out.                                   *)
THEOREM HitsEarned == Spec => []HitsAreEarned
<1>1. Init => HitsAreEarned
  BY DEF Init, Nothing, HitsAreEarned
<1>2. ASSUME HitsAreEarned, [Next]_vars PROVE HitsAreEarned'
  <2>1. CASE Search
    <3>1. PICK chunks \in Indexes, query \in Questions, limit \in {0, 1, 3},
               method \in {"bm25", "dense", "hybrid", "hybrid_rerank"} :
                 Ask("search", [chunks |-> chunks, query |-> query, method |-> method, limit |-> limit],
                     Searching!Search(chunks, query, method, limit))
      BY <2>1 DEF Search
    <3>2. PICK found : found = Searching!Search(chunks, query, method, limit)
      OBVIOUS
    <3>3. ASSUME found.valid PROVE SearchIsEarned(chunks, query, method, limit, found.hits)
      <4>1. PICK hits : hits = Searching!Found(chunks, query, method, limit)
        OBVIOUS
      <4>2. /\ found = [valid |-> TRUE, hits |-> hits] /\ limit \in 1..50
        BY <3>2, <3>3, <4>1 DEF Searching!Search, Searching!NotSearched
      <4>3. limit \in Nat \ {0}
        BY <4>2
      <4>4. SearchIsEarned(chunks, query, method, limit, hits)
        BY <4>1, <4>3, CalculationsAssumption, InputsFit, EverySearchIsEarned
      <4> QED
        BY <4>2, <4>4
    <3>4. /\ call' = [kind |-> "search", request |->
                       [chunks |-> chunks, query |-> query, method |-> method, limit |-> limit]]
          /\ result' = found
      BY <3>1, <3>2 DEF Ask
    <3>5. /\ call'.request.chunks = chunks /\ call'.request.query = query
          /\ call'.request.method = method /\ call'.request.limit = limit
      BY <3>4
    <3> QED
      BY <3>3, <3>4, <3>5, Zenon DEF HitsAreEarned
  <2>2. CASE UNCHANGED vars
    BY <1>2, <2>2 DEF vars, HitsAreEarned
  <2>3. CASE Score \/ Sensitivity \/ Prepare \/ Similar \/ Cluster \/ Parse \/ Answer
    <3>1. call'.kind # "search"
      <4>1. CASE Score
        BY <4>1 DEF Score, Ask
      <4>2. CASE Sensitivity
        BY <4>2 DEF Sensitivity, Ask
      <4>3. CASE Prepare
        BY <4>3 DEF Prepare, Ask
      <4>4. CASE Similar
        BY <4>4 DEF Similar, Prepared
      <4>5. CASE Cluster
        BY <4>5 DEF Cluster, Prepared
      <4>6. CASE Parse
        BY <4>6 DEF Parse, Ask
      <4>7. CASE Answer
        BY <4>7 DEF Answer, Ask
      <4> QED
        BY <2>3, <4>1, <4>2, <4>3, <4>4, <4>5, <4>6, <4>7
    <3> QED
      BY <3>1 DEF HitsAreEarned
  <2> QED
    BY <1>2, <2>1, <2>2, <2>3 DEF Next
<1> QED
  BY <1>1, <1>2, PTL DEF Spec

-----------------------------------------------------------------------------
(* Answering. *)

(* The instance for answering counts as the module here does.             *)
LEMMA SameCountOfAnswers == ASSUME NEW S PROVE Answers!Cardinality(S) = Cardinality(S)
BY Zenon DEF Answers!Cardinality, Cardinality

(* The relevance of a sentence is an integer.                             *)
LEMMA RelevanceIsNumber ==
  ASSUME NEW question, IsFiniteSet(question.words), NEW sentence
  PROVE  /\ Answers!Overlap(question, sentence) \in Nat
         /\ Answers!Relevance(question, sentence) \in Int
<1>1. Answers!Overlap(question, sentence) \in Nat
  BY FS_Intersection, FS_CardinalityType, SameCountOfAnswers DEF Answers!Overlap
<1>2. PICK n \in Nat : n = Answers!Cardinality(question.words)
  BY FS_CardinalityType, SameCountOfAnswers
<1>3. Answers!Max({1, n}) \in Int
  <2>1. \E x \in {1, n} : \A y \in {1, n} : x >= y
    <3>1. 1 >= n \/ n >= 1
      OBVIOUS
    <3> QED
      BY <3>1
  <2>2. Answers!Max({1, n}) \in {1, n}
    BY <2>1 DEF Answers!Max
  <2> QED
    BY <2>2
<1> QED
  BY <1>1, <1>2, <1>3 DEF Answers!Relevance

(* The best sentence of a text that has one is of the text.                *)
LEMMA BestIsThere ==
  ASSUME NEW question, IsFiniteSet(question.words),
         NEW sentences, sentences \in Seq(ToSet(sentences)), sentences # <<>>
  PROVE  Answers!BestSentence(question, sentences) \in ToSet(sentences)
<1>1. PICK D : D = DOMAIN sentences
  OBVIOUS
<1>2. PICK v : v = [i \in D |-> Answers!Overlap(question, sentences[i])]
  OBVIOUS
<1>3. PICK zero : zero = [i \in D |-> 0]
  OBVIOUS
<1>4. PICK B : B = [x \in D |-> {y \in D : v[y] > v[x] \/ (v[y] = v[x] /\ y < x)}]
  OBVIOUS
<1>5. D # {} /\ D \subseteq Int /\ IsFiniteSet(D)
  <2>1. Len(sentences) \in Nat /\ D = 1..Len(sentences) /\ Len(sentences) # 0
    BY <1>1
  <2>2. IsFiniteSet(1..Len(sentences))
    BY <2>1, FS_Interval
  <2>3. 1 \in D
    BY <2>1
  <2> QED
    BY <2>1, <2>2, <2>3
<1>6. v \in [D -> Int] /\ zero \in [D -> Int]
  BY <1>2, <1>3, RelevanceIsNumber
<1>7. \A x, y \in D : y \in B[x] <=> v[y] > v[x] \/ (v[y] = v[x] /\ y < x)
  BY <1>4
<1>8. Precedes(D, B)
  <2>1. \A x \in D : B[x] \in SUBSET D
    BY <1>4
  <2>2. \A x, y \in D : y \in B[x] <=>
           \/ v[y] > v[x]
           \/ v[y] = v[x] /\ zero[y] > zero[x]
           \/ v[y] = v[x] /\ zero[y] = zero[x] /\ zero[y] > zero[x]
           \/ v[y] = v[x] /\ zero[y] = zero[x] /\ zero[y] = zero[x] /\ y < x
    <3>1. \A x \in D : zero[x] = 0
      BY <1>3
    <3> TAKE x \in D, y \in D
    <3>2. zero[x] = 0 /\ zero[y] = 0
      BY <3>1
    <3> QED
      BY <1>7, <3>2
  <2> QED
    BY <1>5, <1>6, <2>1, <2>2, NumbersPrecede
<1>9. PICK x \in D : \A y \in D \ {x} : x \in B[y]
  BY <1>5, <1>8, OneIsFirst
<1>10. \A j \in DOMAIN sentences :
         \/ Answers!Overlap(question, sentences[x]) > Answers!Overlap(question, sentences[j])
         \/ Answers!Overlap(question, sentences[x]) = Answers!Overlap(question, sentences[j]) /\ x <= j
  <2>1. \A j \in D : v[x] > v[j] \/ (v[x] = v[j] /\ x <= j)
    BY <1>5, <1>7, <1>9
  <2> QED
    BY <1>1, <1>2, <2>1
<1> DEFINE best == CHOOSE i \in DOMAIN sentences : \A j \in DOMAIN sentences :
    \/ Answers!Overlap(question, sentences[i]) > Answers!Overlap(question, sentences[j])
    \/ Answers!Overlap(question, sentences[i]) = Answers!Overlap(question, sentences[j]) /\ i <= j
<1>11. best \in DOMAIN sentences
  BY <1>1, <1>10, Zenon
<1>12. Answers!BestSentence(question, sentences) = sentences[best]
  BY Zenon DEF Answers!BestSentence
<1> QED
  BY <1>11, <1>12 DEF ToSet

(* What the evidence must be: pieces in the order of their ranks.          *)
EvidenceFits(evidence) ==
  /\ \E k \in Nat : DOMAIN evidence = 1..k
  /\ \A i \in DOMAIN evidence :
       /\ evidence[i].score \in Int
       /\ evidence[i].sentences \in Seq(ToSet(evidence[i].sentences))

(* Quotes of the evidence, at most so many and no two of one text.         *)
Cited(evidence, maximum, selected) ==
  /\ selected \in Seq(ToSet(selected)) /\ Len(selected) <= maximum
  /\ \A n \in DOMAIN selected :
       selected[n].sentence \in ToSet(evidence[selected[n].evidence].sentences)
  /\ \A n, m \in DOMAIN selected :
       selected[n].sentence.quote = selected[m].sentence.quote => n = m

(* Quotes are of their pieces of evidence and all different.               *)
LEMMA QuotesGive ==
  ASSUME NEW question, IsFiniteSet(question.words), NEW evidence, EvidenceFits(evidence),
         NEW quotes, quotes = Answers!Quotes(question, evidence)
  PROVE  /\ DOMAIN quotes \in SUBSET DOMAIN evidence
         /\ \A i \in DOMAIN quotes : quotes[i] \in ToSet(evidence[i].sentences)
         /\ \A i, j \in DOMAIN quotes : quotes[i].quote = quotes[j].quote => i = j
<1>1. PICK k \in Nat : DOMAIN evidence = 1..k
  BY DEF EvidenceFits
<1> DEFINE best(i) == Answers!BestSentence(question, evidence[i].sentences)
           told(i) == evidence[i].sentences # <<>>
           first(i) == told(i) /\ \A j \in 1..(i - 1) : told(j) => best(j).quote # best(i).quote
<1>2. quotes = [i \in {j \in DOMAIN evidence : first(j)} |-> best(i)]
  BY Zenon DEF Answers!Quotes
<1>3. /\ DOMAIN quotes \in SUBSET DOMAIN evidence
      /\ \A i \in DOMAIN quotes : first(i) /\ quotes[i] = best(i)
  BY <1>2
<1>4. ASSUME NEW i \in DOMAIN quotes PROVE quotes[i] \in ToSet(evidence[i].sentences)
  <2>1. evidence[i].sentences # <<>> /\ evidence[i].sentences \in Seq(ToSet(evidence[i].sentences))
    BY <1>3 DEF EvidenceFits
  <2>2. Answers!BestSentence(question, evidence[i].sentences) \in ToSet(evidence[i].sentences)
    BY <2>1, BestIsThere
  <2> QED
    BY <1>3, <2>2
<1> HIDE DEF best, told
<1>5. \A i, j \in DOMAIN quotes : j < i => quotes[i].quote # quotes[j].quote
  <2> SUFFICES ASSUME NEW i \in DOMAIN quotes, NEW j \in DOMAIN quotes, j < i
               PROVE  quotes[i].quote # quotes[j].quote
    OBVIOUS
  <2>1. i \in Int /\ j \in 1..(i - 1)
    BY <1>1, <1>3
  <2> QED
    BY <1>3, <2>1
<1>6. \A i, j \in DOMAIN quotes : i = j \/ i < j \/ j < i
  BY <1>1, <1>3
<1> QED
  BY <1>3, <1>4, <1>5, <1>6

(* So are those an answer selects, in the order of their relevance.        *)
LEMMA SelectedAreCited ==
  ASSUME NEW question, IsFiniteSet(question.words), NEW evidence, EvidenceFits(evidence),
         NEW maximum \in Nat, NEW selected, selected = Answers!Selected(question, evidence, maximum)
  PROVE  Cited(evidence, maximum, selected)
<1> DEFINE quotes == Answers!Quotes(question, evidence)
           before(i, j) ==
             LET a == Answers!Relevance(question, quotes[i])
                 b == Answers!Relevance(question, quotes[j])
             IN  \/ a > b
                 \/ /\ a = b
                    /\ \/ evidence[i].score > evidence[j].score
                       \/ evidence[i].score = evidence[j].score /\ i < j
           D == DOMAIN quotes
           o == Answers!InOrder(D, before)
<1>1. selected = [n \in 1..Answers!Min({maximum, Len(o)}) |->
                   [evidence |-> o[n], sentence |-> quotes[o[n]]]]
  BY Zenon DEF Answers!Selected
<1>2. /\ D \in SUBSET DOMAIN evidence
      /\ \A i \in D : quotes[i] \in ToSet(evidence[i].sentences)
      /\ \A i, j \in D : quotes[i].quote = quotes[j].quote => i = j
  BY QuotesGive
<1>3. D \subseteq Int /\ IsFiniteSet(D)
  <2>1. PICK k \in Nat : DOMAIN evidence = 1..k
    BY DEF EvidenceFits
  <2>2. IsFiniteSet(1..k)
    BY FS_Interval
  <2> QED
    BY <1>2, <2>1, <2>2, FS_Subset
<1>4. PICK B : B = [x \in D |-> {y \in D : before(y, x)}]
  OBVIOUS
<1>5. Lists(D, B, o)
  BY <1>4, SameCountOfAnswers DEF Lists, Answers!InOrder
<1>6. PICK list : list = o
  OBVIOUS
<1>7. list = [i \in DOMAIN list |-> list[i]]
  <2> DEFINE e(i) == CHOOSE x \in D : Answers!Cardinality({y \in D : before(y, x)}) = i - 1
  <2>1. list = [i \in 1..Answers!Cardinality(D) |-> e(i)]
    BY <1>6, Zenon DEF Answers!InOrder
  <2> HIDE DEF e
  <2> QED
    BY <2>1
<1>8. \A x, y \in D : y \in B[x] <=> before(y, x)
  BY <1>4
<1>9. \A x \in D : B[x] \in SUBSET D
  BY <1>4
<1> HIDE DEF quotes, o
<1>10. Precedes(D, B)
  <2>1. PICK v : v = [i \in D |-> Answers!Relevance(question, quotes[i])]
    OBVIOUS
  <2>2. PICK s : s = [i \in D |-> evidence[i].score]
    OBVIOUS
  <2>3. v \in [D -> Int] /\ s \in [D -> Int]
    BY <1>2, <2>1, <2>2, RelevanceIsNumber DEF EvidenceFits
  <2>4. \A x, y \in D : y \in B[x] <=>
           \/ v[y] > v[x]
           \/ v[y] = v[x] /\ s[y] > s[x]
           \/ v[y] = v[x] /\ s[y] = s[x] /\ y < x
    BY <1>8, <2>1, <2>2
  <2>5. \A x, y \in D : y \in B[x] <=>
           \/ v[y] > v[x]
           \/ v[y] = v[x] /\ s[y] > s[x]
           \/ v[y] = v[x] /\ s[y] = s[x] /\ s[y] > s[x]
           \/ v[y] = v[x] /\ s[y] = s[x] /\ s[y] = s[x] /\ y < x
    <3>1. \A x, y \in D : s[y] = s[x] => ~(s[y] > s[x])
      BY <2>3
    <3> QED
      BY <2>4, <3>1, Zenon
  <2> HIDE DEF D
  <2> QED
    BY <1>3, <1>9, <2>3, <2>5, NumbersPrecede
<1> HIDE DEF D
<1> DEFINE n == Cardinality(D)
<1>11. /\ n \in Nat /\ DOMAIN list = 1..n
       /\ \A i \in 1..n : list[i] \in D
       /\ \A i, j \in 1..n : list[i] = list[j] => i = j
  BY <1>3, <1>5, <1>6, <1>10, ListIsInOrder
<1> HIDE DEF n
<1>12. Len(list) = n
  <2>1. list \in [1..n -> D]
    BY <1>7, <1>11
  <2> QED
    BY <1>11, <2>1
<1>13. PICK k \in Nat : k = Answers!Min({maximum, n}) /\ k <= n /\ k <= maximum
  <2>1. \E x \in {maximum, n} : \A y \in {maximum, n} : x <= y
    <3>1. maximum <= n \/ n <= maximum
      BY <1>11
    <3> QED
      BY <1>11, <3>1
  <2>2. /\ Answers!Min({maximum, n}) \in {maximum, n}
        /\ \A y \in {maximum, n} : Answers!Min({maximum, n}) <= y
    BY <2>1 DEF Answers!Min
  <2> QED
    BY <1>11, <2>2
<1>14. selected = [i \in 1..k |-> [evidence |-> list[i], sentence |-> quotes[list[i]]]]
  BY <1>1, <1>6, <1>12, <1>13
<1>15. /\ DOMAIN selected = 1..k
       /\ \A i \in 1..k : selected[i].evidence = list[i] /\ selected[i].sentence = quotes[list[i]]
  BY <1>14
<1>16. selected \in Seq(ToSet(selected)) /\ Len(selected) = k
  <2>1. PICK T : T = ToSet(selected)
    OBVIOUS
  <2>2. \A i \in 1..k : selected[i] \in T
    BY <1>15, <2>1 DEF ToSet
  <2>3. selected \in [1..k -> T]
    BY <1>14, <1>15, <2>2
  <2>4. selected \in Seq(T) /\ Len(selected) = k
    <3>1. k \in Nat
      BY <1>13
    <3>2. selected \in Seq(T)
      BY <2>3, <3>1
    <3>3. DOMAIN selected = 1..k
      BY <1>15
    <3> QED
      BY <3>1, <3>2, <3>3
  <2> QED
    BY <2>1, <2>4
<1>17. \A i \in 1..k : i \in 1..n /\ list[i] \in D
  BY <1>11, <1>13
<1>18. \A i, j \in D : quotes[i].quote = quotes[j].quote => i = j
  BY <1>2 DEF D
<1>19. \A i \in D : quotes[i] \in ToSet(evidence[i].sentences)
  BY <1>2 DEF D
<1>20. ASSUME NEW i \in 1..k
       PROVE  selected[i].sentence \in ToSet(evidence[selected[i].evidence].sentences)
  BY <1>15, <1>17, <1>19
<1>21. ASSUME NEW i \in 1..k, NEW j \in 1..k, selected[i].sentence.quote = selected[j].sentence.quote
       PROVE  i = j
  <2>1. list[i] = list[j]
    BY <1>15, <1>17, <1>18, <1>21
  <2> QED
    BY <1>11, <1>17, <2>1
<1>22. Len(selected) <= maximum /\ DOMAIN selected = 1..k
  BY <1>13, <1>15, <1>16
<1> QED
  BY <1>16, <1>20, <1>21, <1>22 DEF Cited

(* A refusal quotes nothing.                                               *)
LEMMA RefusalIsCited ==
  ASSUME NEW question, NEW evidence, NEW maximum \in Nat, NEW reason
  PROVE  AnswerIsCited(question, evidence, maximum, Answers!Refusal(reason))
<1> DEFINE answer == Answers!Refusal(reason)
           quotes == [n \in DOMAIN answer.citations |-> answer.citations[n].sentence]
<1>1. answer.answerable = FALSE /\ answer.citations = <<>>
  BY DEF Answers!Refusal
<1> HIDE DEF answer
<1>2. quotes = <<>>
  BY <1>1
<1>3. Len(quotes) = 0 /\ DOMAIN quotes = {}
  BY <1>2
<1> HIDE DEF quotes
<1> QED
  BY <1>1, <1>3 DEF AnswerIsCited, answer, quotes

(* An answer is of its quotes, and of enough of the question.              *)
LEMMA EveryAnswerIsCited ==
  ASSUME NEW question, IsFiniteSet(question.words), NEW evidence, EvidenceFits(evidence),
         NEW maximum \in Nat,
         NEW answer, answer = Answers!GroundedAnswer(question, evidence, maximum)
  PROVE  AnswerIsCited(question, evidence, maximum, answer)
<1>1. PICK selected : selected = Answers!Selected(question, evidence, maximum)
  OBVIOUS
<1>2. \/ \E reason : answer = Answers!Refusal(reason)
      \/ /\ selected # <<>>
         /\ Answers!AtLeast(Answers!Enough, question, selected)
         /\ Answers!ValidCitations(selected)
         /\ answer.answerable = TRUE /\ answer.citations = selected
  BY <1>1 DEF Answers!GroundedAnswer
<1>3. CASE \E reason : answer = Answers!Refusal(reason)
  BY <1>3, RefusalIsCited
<1>4. CASE /\ selected # <<>>
           /\ Answers!AtLeast(Answers!Enough, question, selected)
           /\ Answers!ValidCitations(selected)
           /\ answer.answerable = TRUE /\ answer.citations = selected
  <2>1. Cited(evidence, maximum, selected)
    BY <1>1, SelectedAreCited
  <2>2. PICK k \in Nat : k = Len(selected) /\ DOMAIN selected = 1..k /\ k <= maximum
    BY <2>1 DEF Cited
  <2>3. PICK quotes : quotes = [n \in DOMAIN selected |-> selected[n].sentence]
    OBVIOUS
  <2>4. DOMAIN quotes = 1..k /\ \A n \in 1..k : quotes[n] = selected[n].sentence
    BY <2>2, <2>3
  <2>5. Len(quotes) = k
    <3>1. PICK T : T = {quotes[n] : n \in 1..k}
      OBVIOUS
    <3>2. quotes \in [1..k -> T]
      BY <2>3, <2>4, <3>1
    <3> QED
      BY <2>2, <2>4, <3>2
  <2>6. ASSUME NEW n \in 1..k
        PROVE  /\ quotes[n].markers \subseteq 1..k
               /\ quotes[n] \in ToSet(evidence[selected[n].evidence].sentences)
               /\ \A m \in 1..k : quotes[n].quote = quotes[m].quote => n = m
    <3>1. selected[n].sentence.markers \subseteq DOMAIN selected
      BY <1>4, <2>2 DEF Answers!ValidCitations, Answers!Markers
    <3> QED
      BY <2>1, <2>2, <2>4, <3>1 DEF Cited
  <2>7. PICK told : told = UNION {quotes[n].words : n \in DOMAIN quotes}
    OBVIOUS
  <2>8. 100 * Cardinality(told \intersect question.words) >= 16 * Cardinality(question.words)
    <3>1. told = UNION {selected[n].sentence.words : n \in DOMAIN selected}
      BY <2>2, <2>4, <2>7
    <3>2. Answers!Covered(question, selected) = told \intersect question.words
      BY <3>1 DEF Answers!Covered
    <3> QED
      BY <1>4, <3>2, SameCountOfAnswers DEF Answers!AtLeast, Answers!Enough
  <2> QED
    BY <1>4, <2>2, <2>3, <2>4, <2>5, <2>6, <2>7, <2>8 DEF AnswerIsCited
<1> QED
  BY <1>2, <1>3, <1>4

(* AnswersAreCited holds of every answer, to any question and from any     *)
(* index: its markers, quotes and coverage are those of its evidence.      *)
THEOREM AnswersCited == Spec => []AnswersAreCited
<1>1. Init => AnswersAreCited
  BY DEF Init, Nothing, AnswersAreCited
<1>2. (call.kind = "answer" =>
         AnswerIsCited(call.request.question, result.evidence, call.request.maximum, result.answer))
      <=> AnswersAreCited
  BY Zenon DEF AnswersAreCited
<1>3. (call'.kind = "answer" =>
         AnswerIsCited(call'.request.question, result'.evidence, call'.request.maximum, result'.answer))
      <=> AnswersAreCited'
  BY Zenon DEF AnswersAreCited
<1>4. ASSUME AnswersAreCited, [Next]_vars PROVE AnswersAreCited'
  <2>1. CASE Answer
    <3>1. PICK chunks \in Indexes, question \in Questions, maximum \in 1..2 :
            LET found == Searching!Search(chunks, question, "hybrid_rerank", Max({10, maximum}))
                hits == found.hits
                scores == Searching!Scores(chunks, question, "hybrid_rerank")
                evidence == [n \in DOMAIN hits |->
                  [score |-> scores[hits[n]], sentences |-> chunks[hits[n]].sentences]]
            IN  /\ call = Nothing /\ found.valid
                /\ Ask("answer", [chunks |-> chunks, question |-> question, maximum |-> maximum],
                       [hits |-> hits, evidence |-> evidence,
                        answer |-> Answers!GroundedAnswer(question, evidence, maximum)])
      BY <2>1 DEF Answer
    <3>13. PICK limit : limit = Max({10, maximum})
      OBVIOUS
    <3>14. PICK found : found = Searching!Search(chunks, question, "hybrid_rerank", limit)
      OBVIOUS
    <3>2. PICK hits : hits = found.hits
      OBVIOUS
    <3>3. PICK scores : scores = Searching!Scores(chunks, question, "hybrid_rerank")
      OBVIOUS
    <3>4. PICK evidence : evidence = [n \in DOMAIN hits |->
                  [score |-> scores[hits[n]], sentences |-> chunks[hits[n]].sentences]]
      OBVIOUS
    <3>5. PICK answer : answer = Answers!GroundedAnswer(question, evidence, maximum)
      OBVIOUS
    <3>6. /\ call' = [kind |-> "answer", request |->
                       [chunks |-> chunks, question |-> question, maximum |-> maximum]]
          /\ result' = [hits |-> hits, evidence |-> evidence, answer |-> answer]
      BY <3>1, <3>2, <3>3, <3>4, <3>5, <3>13, <3>14 DEF Ask
    <3>7. IndexFits(chunks) /\ IsFiniteSet(question.words) /\ maximum \in Nat
      BY CalculationsAssumption, InputsFit
    <3>8. PICK most \in Nat :
            Hits(DOMAIN chunks, scores, most, hits) /\ scores \in [DOMAIN chunks -> Int]
      <4>1. found.valid
        BY <3>1, <3>13, <3>14
      <4>2. hits = Searching!Found(chunks, question, "hybrid_rerank", limit) /\ limit \in 1..50
        BY <3>2, <3>14, <4>1 DEF Searching!Search, Searching!NotSearched
      <4>3. limit \in Nat
        BY <4>2
      <4> QED
        BY <3>3, <3>7, <4>2, <4>3, SearchGives, ScoresGive
    <3>9. \A i \in DOMAIN chunks : chunks[i].sentences \in Seq(ToSet(chunks[i].sentences))
      BY CalculationsAssumption DEF CalculationsAssumption
    <3>10. EvidenceFits(evidence)
      <4>1. /\ DOMAIN evidence = DOMAIN hits
            /\ \A n \in DOMAIN hits : /\ evidence[n].score = scores[hits[n]]
                                      /\ evidence[n].sentences = chunks[hits[n]].sentences
        BY <3>4
      <4>2. \A n \in DOMAIN hits : hits[n] \in DOMAIN chunks
        BY <3>8 DEF Hits, Selection
      <4>3. \E k \in Nat : DOMAIN hits = 1..k
        BY <3>8 DEF Hits
      <4> QED
        BY <3>8, <3>9, <4>1, <4>2, <4>3 DEF EvidenceFits
    <3>11. AnswerIsCited(question, evidence, maximum, answer)
      BY <3>5, <3>7, <3>10, EveryAnswerIsCited
    <3>12. /\ call'.request.question = question /\ call'.request.maximum = maximum
           /\ result'.evidence = evidence /\ result'.answer = answer
      BY <3>6
    <3> QED
      BY <1>3, <3>11, <3>12
  <2>2. CASE UNCHANGED vars
    BY <1>4, <1>2, <1>3, <2>2 DEF vars
  <2>3. CASE Score \/ Sensitivity \/ Prepare \/ Similar \/ Cluster \/ Parse \/ Search
    <3>1. call'.kind # "answer"
      <4>1. CASE Score
        BY <4>1 DEF Score, Ask
      <4>2. CASE Sensitivity
        BY <4>2 DEF Sensitivity, Ask
      <4>3. CASE Prepare
        BY <4>3 DEF Prepare, Ask
      <4>4. CASE Similar
        BY <4>4 DEF Similar, Prepared
      <4>5. CASE Cluster
        BY <4>5 DEF Cluster, Prepared
      <4>6. CASE Parse
        BY <4>6 DEF Parse, Ask
      <4>7. CASE Search
        BY <4>7 DEF Search, Ask
      <4> QED
        BY <2>3, <4>1, <4>2, <4>3, <4>4, <4>5, <4>6, <4>7
    <3> QED
      BY <3>1 DEF AnswersAreCited
  <2> QED
    BY <1>4, <2>1, <2>2, <2>3 DEF Next
<1> QED
  BY <1>1, <1>4, PTL DEF Spec
===============================================================================
