---------------------------- MODULE RegulationText ----------------------------
(***************************************************************************)
(* regulasilens/parser.py and comparison.py: a regulation's pages become   *)
(* sections, and two versions of it are compared.  A page is a sequence of *)
(* lines; a line is [kind, number, rest, length]: kind is what the heading *)
(* patterns take it for ("text" if none matches, "blank" if it is blank),  *)
(* number the number of a heading, rest what else tells it from others     *)
(* and length its number of characters.                                    *)
(***************************************************************************)
EXTENDS Orders, SequencesExt, FiniteSetsExt

Levels == <<"bab", "bagian", "paragraf", "pasal", "ayat">>
LevelOf(kind) == CHOOSE i \in DOMAIN Levels : Levels[i] = kind
Dotted == "..."    \* the rest of an ayat that ". . ." cuts off
Plain == "plain"   \* the rest of "Pasal 12", unlike "Pasal 12A"
Roman == "roman"   \* and unlike "Pasal XII"

Preamble == [kind |-> "preamble", number |-> 1, rest |-> "Preamble", length |-> 8]

(* What a line can be taken for. *)
Line == [kind : ToSet(Levels) \union {"text", "blank"}, number : Nat,
         rest : {Dotted, Plain, Roman} \union STRING, length : Nat]

(* _normalize_heading: "Pasal I" is taken for a misread "Pasal 1". *)
NormalizeHeading(line) ==
  IF line.kind = "pasal" /\ line.number = 1 /\ line.rest = Roman
  THEN [line EXCEPT !.rest = Plain] ELSE line

(* The lines with their places, in the order they are read. *)
PlacedLines(pages) ==
  FlattenSeq([p \in DOMAIN pages |->
    [i \in DOMAIN pages[p] |-> [place |-> <<p, i>>, line |-> pages[p][i]]]])

(* _update_hierarchy: a heading ends those of its level and below.         *)
UpdateHierarchy(hierarchy, heading) ==
  LET above == {i \in DOMAIN hierarchy : LevelOf(hierarchy[i].kind) < LevelOf(heading.kind)}
  IN  Append(AtPlaces(hierarchy, above), heading)

(* A parse so far; the last section is the one being read.                 *)
NothingRead == [sections |-> <<>>, hierarchy |-> <<>>, lastAyat |-> -1]

Opened(state, heading, lines, place, hierarchy) ==
  Append(state.sections,
    [kind |-> heading.kind, heading |-> heading, lines |-> lines, place |-> place,
     hierarchy |-> hierarchy])

Continued(state, heading, line) ==
  LET last == Len(state.sections)
      section == state.sections[last]
  IN  [state.sections EXCEPT ![last] =
        [section EXCEPT !.heading = heading, !.lines = Append(section.lines, line)]]

(* The heading of an ayat repeated on the next page; a longer one takes    *)
(* the place of one that was cut off.                                      *)
Repeats(state, line) ==
  /\ line.kind = "ayat" /\ state.sections # <<>>
  /\ Last(state.sections).kind = "ayat" /\ line.number = state.lastAyat

Completes(heading, line) == heading.rest = Dotted /\ line.length > heading.length

ReadLine(state, placed) ==
  LET line == NormalizeHeading(placed.line)
      hierarchy == UpdateHierarchy(state.hierarchy, line)
      heading == Last(state.sections).heading
  IN  IF line.kind = "blank" THEN state
      ELSE IF line.kind = "text" THEN
        [state EXCEPT !.sections =
          IF state.sections = <<>> THEN Opened(state, Preamble, <<line>>, placed.place, <<>>)
          ELSE Continued(state, heading, line)]
      ELSE IF Repeats(state, line) THEN
        [state EXCEPT !.sections =
          Continued(state, IF Completes(heading, line) THEN line ELSE heading, line)]
      ELSE
        [sections  |-> Opened(state, line, <<line>>, placed.place, hierarchy),
         hierarchy |-> hierarchy,
         lastAyat  |-> IF line.kind = "ayat" THEN line.number ELSE -1]

(* parse_regulation_pages.  Every section has an anchor, so only without   *)
(* sections are too few of them anchored; section ids hold the number of   *)
(* the section and are never the same.                                     *)
Reading(placed) ==
  Iterated(LAMBDA state, n : ReadLine(state, placed[n]), NothingRead, Len(placed))

Parse(pages) == Reading(PlacedLines(pages)).sections

Reasons(sections) ==
  (IF sections = <<>> THEN {"no_sections", "source_anchor_coverage_below_95_percent"} ELSE {})
  \union (IF \E i \in DOMAIN sections : sections[i].kind = "pasal"
          THEN {} ELSE {"no_pasal_detected"})
-----------------------------------------------------------------------------
(* compare_version_sections: of sections with one identity the last counts. *)
Identity(section) == <<section.kind, section.hierarchy, section.heading>>

Identities(sections) == {Identity(sections[i]) : i \in DOMAIN sections}

TextOf(sections, identity) ==
  sections[Max({i \in DOMAIN sections : Identity(sections[i]) = identity})].lines

ModifiedInBoth(base, target) ==
  {identity \in Identities(base) \intersect Identities(target) :
     TextOf(base, identity) # TextOf(target, identity)}

Compare(base, target) ==
  [added     |-> Identities(target) \ Identities(base),
   removed   |-> Identities(base) \ Identities(target),
   modified  |-> ModifiedInBoth(base, target),
   unchanged |-> Cardinality(Identities(base) \intersect Identities(target))
                 - Cardinality(ModifiedInBoth(base, target))]
=============================================================================
