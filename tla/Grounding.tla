------------------------------ MODULE Grounding ------------------------------
(***************************************************************************)
(* regulasilens/grounding.py: an answer is made of quotes of the evidence, *)
(* each with its citation, or refused.  A sentence is [quote, words,       *)
(* markers, dated]: quote tells sentences that differ, markers are the     *)
(* numbers n of the "[Cn]" that stand in it, dated whether it states when  *)
(* a regulation takes effect.  A piece of evidence is [score, sentences],  *)
(* in the order of the hits' ranks; a question is [words, outside, inside, *)
(* dated].                                                                 *)
(***************************************************************************)
EXTENDS Orders, SequencesExt, FiniteSetsExt

Enough == 16    \* percent of the question's words
Medium == 35
High   == 65

(* _outside_supported_domain *)
OutsideDomain(question) == question.outside /\ ~question.inside

Overlap(question, sentence) == Cardinality(question.words \intersect sentence.words)

(* _best_supported_sentence: the first of those that share most words.     *)
BestSentence(question, sentences) ==
  sentences[CHOOSE i \in DOMAIN sentences : \A j \in DOMAIN sentences :
    \/ Overlap(question, sentences[i]) > Overlap(question, sentences[j])
    \/ Overlap(question, sentences[i]) = Overlap(question, sentences[j]) /\ i <= j]

(* Of pieces with one best sentence the first is kept, and none that is    *)
(* empty.                                                                  *)
Quotes(question, evidence) ==
  LET best(i) == BestSentence(question, evidence[i].sentences)
      told(i) == evidence[i].sentences # <<>>
      firstToTell(i) == told(i) /\ \A j \in 1..(i - 1) :
                          told(j) => best(j).quote # best(i).quote
  IN  [i \in {k \in DOMAIN evidence : firstToTell(k)} |-> best(i)]

(* _intent_bonus, 1 for a question of dates with a sentence that has one;  *)
(* relevance is in units of 1/(number of words).                           *)
Relevance(question, sentence) ==
  (IF question.dated /\ sentence.dated THEN Max({1, Cardinality(question.words)}) ELSE 0)
  + Overlap(question, sentence)

Selected(question, evidence, maximum) ==
  LET quotes == Quotes(question, evidence)
      before(i, j) ==
        LET a == Relevance(question, quotes[i])
            b == Relevance(question, quotes[j])
        IN  \/ a > b
            \/ /\ a = b
               /\ \/ evidence[i].score > evidence[j].score
                  \/ evidence[i].score = evidence[j].score /\ i < j
      ordered == InOrder(DOMAIN quotes, before)
  IN  [n \in 1..Min({maximum, Len(ordered)}) |->
        [evidence |-> ordered[n], sentence |-> quotes[ordered[n]]]]

(* _evidence_coverage, the covered words of the question. *)
Covered(question, selected) ==
  question.words \intersect UNION {selected[n].sentence.words : n \in DOMAIN selected}

AtLeast(percent, question, selected) ==
  /\ question.words # {}
  /\ 100 * Cardinality(Covered(question, selected)) >= percent * Cardinality(question.words)

(* validate_citations of the claims: claim n is the quote and "[Cn]".      *)
Markers(selected) ==
  UNION {selected[n].sentence.markers \union {n} : n \in DOMAIN selected}

CitesOwn(selected) == TRUE    \* mutant of ValidCitations
ValidCitations(selected) == Markers(selected) \subseteq DOMAIN selected

Refusal(reason) ==
  [answerable |-> FALSE, reason |-> reason, citations |-> <<>>, confidence |-> "low"]

GroundedAnswer(question, evidence, maximum) ==
  LET selected == Selected(question, evidence, maximum)
  IN  IF OutsideDomain(question) THEN Refusal("outside")
      ELSE IF selected = <<>> \/ ~AtLeast(Enough, question, selected) THEN Refusal("too little")
      ELSE IF ~ValidCitations(selected) THEN Refusal("citations")
      ELSE [answerable |-> TRUE, reason |-> "none", citations |-> selected,
            confidence |-> IF AtLeast(High, question, selected) THEN "high"
                           ELSE IF AtLeast(Medium, question, selected) THEN "medium" ELSE "low"]
=============================================================================
