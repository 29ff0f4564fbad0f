----------------------------- MODULE Calculations -----------------------------
(***************************************************************************)
(* The calculations behind the reports and answers, one step each: a call  *)
(* is made with inputs of small sets and its result is compared with what  *)
(* it is for.  The modules they come from say what they compute; nothing   *)
(* here is state of the program.                                           *)
(***************************************************************************)
EXTENDS Numbers, FiniteSets, FiniteSetsExt, SequencesExt

CONSTANTS ScoreRequests,       \* opportunity scores asked for
          SensitivityRequests, \* and how the ranks respond, with the tenths
          FeatureTables,       \* [values, minimum] of regional analytics
          ClusterRequests,     \* [candidates, firsts, limits]
          Editions,            \* pairs of versions of a regulation, as pages
          Indexes,             \* sequences of chunks
          Questions,           \* questions, with the documents they mention
          ChunkSize, LateArticle, EarlyArticle, Naming, Rounds

Scoring   == INSTANCE OpportunityScore
Regional  == INSTANCE RegionalAnalytics
Texts     == INSTANCE RegulationText
Searching == INSTANCE Retrieval
Answers   == INSTANCE Grounding

(* A question has finitely many words, an index finitely many chunks; what *)
(* rarity and letters add to a score takes nothing away.  A table has      *)
(* finitely many features and regions, and decimals, or None, in it, and   *)
(* fewer pairs of regions (703 of 38 provinces), times those of seeds (90  *)
(* of the ten a request may have, both ways round), than the last place    *)
(* can tell apart; at least one round is made; the series of a score       *)
(* request have every region asked for (load_context); an edition is pages *)
(* of lines.                                                               *)
ASSUME CalculationsAssumption ==
  /\ \A question \in Questions : IsFiniteSet(question.words)
  /\ \A chunks \in Indexes :
       /\ chunks \in Seq(ToSet(chunks))
       /\ \A i \in DOMAIN chunks :
            /\ chunks[i].gain \in Nat /\ chunks[i].near \in Nat
            /\ chunks[i].sentences \in Seq(ToSet(chunks[i].sentences))
  /\ \A edition \in Editions : {edition.base, edition.target} \subseteq Seq(Seq(Texts!Line))
  /\ \A table \in FeatureTables :
       /\ IsFiniteSet(DOMAIN table.values) /\ DOMAIN table.values \subseteq Int
       /\ \A f \in DOMAIN table.values :
            /\ IsFiniteSet(DOMAIN table.values[f]) /\ DOMAIN table.values[f] \subseteq Int
            /\ \A r \in DOMAIN table.values[f] : table.values[f][r] \in Int
            /\ \A asked \in ClusterRequests :
                 Regional!Comb2(Cardinality(DOMAIN table.values[f]))
                 * (Len(asked.firsts) * (Len(asked.firsts) - 1)) < Unit
  /\ Rounds \in Nat \ {0}
  /\ \A asked \in ClusterRequests :
       /\ IsFiniteSet(asked.candidates) /\ asked.candidates \subseteq Int
       /\ asked.firsts \in Seq(ToSet(asked.firsts))
  /\ \A request \in ScoreRequests \union {asked.request : asked \in SensitivityRequests} :
       /\ DOMAIN request = {"regions", "values", "weights", "full", "method", "threshold"}
       /\ request.regions \in Seq(Int)
       /\ request.weights \in Seq(ToSet(request.weights))
       /\ \A item \in ToSet(request.weights) :
            DOMAIN item = {"code", "weight", "direction"} /\ item.weight \in Int
       /\ \A code \in DOMAIN request.values :
            LET series == request.values[code]
            IN  /\ IsFiniteSet(DOMAIN series) /\ DOMAIN series \subseteq Int
                /\ ToSet(request.regions) \subseteq DOMAIN series
                /\ \A r \in DOMAIN series : series[r] \in Int

VARIABLES call,   \* what was asked
          result  \* what was calculated

vars == <<call, result>>

Nothing == [kind |-> "nothing"]

Init == call = Nothing /\ result = Nothing

Ask(kind, request, outcome) ==
  /\ call = Nothing
  /\ call' = [kind |-> kind, request |-> request]
  /\ result' = outcome

Score ==
  \E request \in ScoreRequests : Ask("score", request, Scoring!ScoreRegions(request))

Sensitivity ==
  \E asked \in SensitivityRequests :
    Ask("sensitivity", asked, Scoring!SensitivityAnalysis(asked.request, asked.tenths))

(* _prepare, and then one of the calculations on what was prepared. *)
Prepare ==
  \E table \in FeatureTables :
    Ask("prepare", table, Regional!Prepare(table.values, table.minimum))

Prepared(kind, request, outcome) ==
  /\ call.kind = "prepare" /\ result.valid
  /\ call' = [kind |-> kind, table |-> call.request, prepared |-> result, request |-> request]
  /\ result' = outcome

(* Every region as target, so that the distances can be compared. *)
Similar ==
  \E limit \in {3, 10} :
    Prepared("similar", limit,
      [r \in result.regions |-> Regional!SimilarRegions(call.request.values, result, r, limit)])

Cluster ==
  \E asked \in ClusterRequests :
    /\ call.kind = "prepare" /\ result.valid
    /\ ToSet(asked.firsts) \subseteq result.regions
    /\ Prepared("cluster", asked,
         Regional!EvaluateClusters(result, asked.candidates, asked.firsts, asked.limits))

(* The sections of a parsed document as the index reads them; a section's   *)
(* size is its number of lines.  The headings of ayat have a blank after    *)
(* the bracket.                                                            *)
SourceSections(document, sections) ==
  [i \in DOMAIN sections |->
    [id |-> <<document, i>>, document |-> document, version |-> document,
     article |-> sections[i].kind = "pasal" /\ sections[i].heading.rest = Texts!Plain,
     ayat |-> FALSE, number |-> sections[i].heading.number, size |-> Len(sections[i].lines)]]

Parse ==
  \E edition \in Editions :
    LET base == Texts!Parse(edition.base)
        target == Texts!Parse(edition.target)
        published == SourceSections("base", base) \o SourceSections("target", target)
    IN  Ask("parse", edition,
          [base |-> base, target |-> target, reasons |-> Texts!Reasons(target),
           changes |-> Texts!Compare(base, target),
           fixed |-> Searching!FixedChunks(published),
           structure |-> Searching!StructureChunks(published)])

Search ==
  \E chunks \in Indexes, query \in Questions, limit \in {0, 1, 3},
     method \in {"bm25", "dense", "hybrid", "hybrid_rerank"} :
    Ask("search", [chunks |-> chunks, query |-> query, method |-> method, limit |-> limit],
        Searching!Search(chunks, query, method, limit))

(* answer: the hits of the reranked search are the evidence; a question    *)
(* that is not searched is not answered.                                   *)
Answer ==
  \E chunks \in Indexes, question \in Questions, maximum \in 1..2 :
    LET found == Searching!Search(chunks, question, "hybrid_rerank", Max({10, maximum}))
        hits == found.hits
        scores == Searching!Scores(chunks, question, "hybrid_rerank")
        evidence == [n \in DOMAIN hits |->
          [score |-> scores[hits[n]], sentences |-> chunks[hits[n]].sentences]]
    IN  /\ call = Nothing /\ found.valid
        /\ Ask("answer", [chunks |-> chunks, question |-> question, maximum |-> maximum],
               [hits |-> hits, evidence |-> evidence,
                answer |-> Answers!GroundedAnswer(question, evidence, maximum)])

Next == Score \/ Sensitivity \/ Prepare \/ Similar \/ Cluster \/ Parse \/ Search \/ Answer

Spec == Init /\ [][Next]_vars
-----------------------------------------------------------------------------
(* Scores. *)

HasValues(request, region) ==
  {item \in ToSet(request.weights) : request.values[item.code][region] # None}

(* At least as favourable in every indicator, from the same indicators.     *)
AtLeastAsGood(request, a, b) ==
  /\ HasValues(request, a) = HasValues(request, b)
  /\ \A item \in HasValues(request, a) :
       LET values == request.values[item.code]
       IN  IF item.direction = "higher" THEN values[a] >= values[b] ELSE values[a] <= values[b]

(* No region has a better value, and some a worse one, of what r has.       *)
BestInAll(request, r) ==
  /\ request.method = "min_max"
  /\ \A item \in HasValues(request, r) :
       LET values == request.values[item.code]
           known == {s \in DOMAIN values : values[s] # None}
           worse(s, t) == IF item.direction = "higher" THEN values[s] < values[t]
                          ELSE values[s] > values[t]
       IN  (\E s \in known : worse(s, r)) /\ ~(\E s \in known : worse(r, s))

(* Of one ranking. *)
RowsAreFair(request, rows) ==
  LET regions == ToSet(request.regions)
      rowOf == [r \in regions |-> CHOOSE row \in ToSet(rows) : row.region = r]
      scored == {r \in regions : rowOf[r].score # None}
  IN  /\ Len(rows) = Cardinality(regions)
      /\ \A i \in DOMAIN rows : rows[i].region \in scored <=> i <= Cardinality(scored)
      /\ \A r \in scored :
           rowOf[r].rank = 1 + Cardinality({s \in scored : rowOf[s].score > rowOf[r].score})
      /\ \A a, b \in scored : AtLeastAsGood(request, a, b) => rowOf[a].rank <= rowOf[b].rank
      /\ \A r \in scored : BestInAll(request, r) => rowOf[r].score = 100 * Unit

(* Every selected region has one row; those with a score come first and    *)
(* have one more than the number of strictly better scores as their rank;  *)
(* no rounding, tie or direction puts a region behind one it is at least   *)
(* as good as; and missing indicators cost nothing: under min_max the best *)
(* in all it has scores 100.                                               *)
RankingIsFair ==
  call.kind = "score" /\ result.valid => RowsAreFair(call.request, result.results)

(* A sensitivity analysis of a request that can be scored never fails on   *)
(* its own weights, and ranks in every one of its scenarios exactly the    *)
(* regions the request ranks: the percentages of unchanged ranks are of    *)
(* all scenarios.                                                          *)
SensitivityIsComplete ==
  call.kind = "sensitivity" /\ Scoring!Scorable(call.request.request)
  /\ call.request.tenths \in 1..5 =>
    /\ result.valid
    /\ \A row \in result.stability :
         row.sampled = IF row.base = None THEN 0 ELSE 2 * Len(call.request.request.weights)
-----------------------------------------------------------------------------
(* Regional analytics. *)

(* Of the lists of similar regions of one preparation. *)
ListsAreMutual(values, prepared, limit, lists) ==
  LET rows(r) == ToSet(lists[r])
  IN  /\ \A r \in DOMAIN values[Min(prepared.features)] :
           r \in prepared.regions <=> \A f \in prepared.features : values[f][r] # None
      /\ \A r \in prepared.regions :
           /\ Cardinality({row.region : row \in rows(r)} \ {r})
                = Min({limit, Cardinality(prepared.regions) - 1})
           /\ \A i, j \in DOMAIN lists[r] : i < j => lists[r][i].distance <= lists[r][j].distance
           /\ \A row \in rows(r) :
                \/ \E back \in rows(row.region) : back.region = r /\ back.distance = row.distance
                \/ \A back \in rows(row.region) :
                     back.region # r /\ back.distance <= row.distance

(* Missing values never reach the distances: the regions compared are      *)
(* complete in every feature compared, and only those are.  Similarity is  *)
(* mutual: as far as a region finds another is it found from there; the    *)
(* regions listed are the nearest, nearer ones first.                      *)
SimilarityIsMutual ==
  call.kind = "similar" => ListsAreMutual(call.table.values, call.prepared, call.request, result)

(* Of one clustering that is shown. *)
ClusteringIsAgreed(prepared, asked, shown) ==
  LET regions(c) == Regional!Members(shown.assignments, c)
      before(c, d) == Regional!Before(prepared, Regional!Centroid(prepared, regions(c)),
                                      Regional!Centroid(prepared, regions(d)))
  IN  /\ DOMAIN shown.assignments = prepared.regions
      /\ \A c \in 1..shown.k : Cardinality(regions(c)) >= 2
      /\ asked.limits.stability = Unit =>
           \A i \in DOMAIN asked.firsts :
             LET run == Regional!ClusterOnce(prepared, shown.k, asked.firsts[i])
             IN  /\ \A r, s \in prepared.regions :
                      run[r] = run[s] <=> shown.assignments[r] = shown.assignments[s]
                 /\ \/ run = shown.assignments
                    \/ \E c, d \in 1..shown.k : c # d /\ ~before(c, d) /\ ~before(d, c)

(* A clustering that is shown covers the regions with as many clusters as   *)
(* it says, each of two or more; and where its limits ask for complete     *)
(* agreement, every seed puts the same regions together and, unless two    *)
(* clusters have one mean, gives them the same numbers.                    *)
ClustersAreAgreed ==
  call.kind = "cluster" /\ result.publishable =>
    ClusteringIsAgreed(call.prepared, call.request, result)
-----------------------------------------------------------------------------
(* Regulations. *)

Spoken(pages) ==
  LET placed == Texts!PlacedLines(pages)
      spoken == AtPlaces(placed, {i \in DOMAIN placed : placed[i].line.kind # "blank"})
  IN  [i \in DOMAIN spoken |-> Texts!NormalizeHeading(spoken[i].line)]

LinesOf(sections) == FlattenSeq([i \in DOMAIN sections |-> sections[i].lines])

(* The headings a section stands under: the latest of each level that no    *)
(* heading of its level or above has ended since.                          *)
StandsUnder(sections, i) ==
  Ascending({k \in 1..i :
    /\ sections[k].kind # "preamble"
    /\ \A l \in (k + 1)..i :
         Texts!LevelOf(sections[l].kind) > Texts!LevelOf(sections[k].kind)})

(* Unless two sections have one identity (then the last one counts).       *)
ChangesAreShown(base, target, changes) ==
  (\A i, k \in DOMAIN target : Texts!Identity(target[i]) = Texts!Identity(target[k]) => i = k)
  => \A i \in DOMAIN target :
       \/ \E k \in DOMAIN base : base[k].lines = target[i].lines
       \/ Texts!Identity(target[i]) \in changes.added \union changes.modified

(* The heading a section opened with is the first of its lines.            *)
OpeningsAt(sections, places) == [k \in DOMAIN places |-> sections[places[k]].lines[1]]

(* Its heading is that line, or a longer one of the section's that took     *)
(* the place of a cut one.                                                 *)
HeadingIsRead(section) ==
  LET opening == section.lines[1]
  IN  \/ section.heading = opening
      \/ /\ section.kind = "ayat" /\ opening.rest = Texts!Dotted
         /\ section.heading \in ToSet(section.lines)
         /\ section.heading.length > opening.length

(* Of one pair of versions and what came of them. *)
EditionIsKept(edition, parsed) ==
  /\ LinesOf(parsed.base) = Spoken(edition.base)
  /\ LinesOf(parsed.target) = Spoken(edition.target)
  /\ \A i \in DOMAIN parsed.target :
       parsed.target[i].kind # "preamble" =>
         /\ parsed.target[i].hierarchy
              = OpeningsAt(parsed.target, StandsUnder(parsed.target, i))
         /\ HeadingIsRead(parsed.target[i])
  /\ \A chunks \in {parsed.fixed, parsed.structure} :
       FlattenSeq([c \in DOMAIN chunks |-> chunks[c].sections])
       = SourceSections("base", parsed.base) \o SourceSections("target", parsed.target)
  /\ ChangesAreShown(parsed.base, parsed.target, parsed.changes)

(* No line of a regulation is lost, doubled or moved between its pages and *)
(* the chunks that are searched, whatever headings repeat.  A section's    *)
(* hierarchy is the headings it stands under, each as its section opened   *)
(* with it: where a repeated ayat has replaced a heading that was cut off, *)
(* by a longer one of the section's lines, the hierarchy keeps the cut one *)
(* (and its last is not the section's heading).  A section whose text the  *)
(* version before did not have is shown as added or modified.              *)
TextIsKept == call.kind = "parse" => EditionIsKept(call.request, result)

(* Of one search. *)
SearchIsEarned(chunks, query, method, limit, hits) ==
  LET scores == Searching!Scores(chunks, query, method)
      others == DOMAIN chunks \ ToSet(hits)
  IN  /\ Cardinality(ToSet(hits)) = Len(hits) /\ Len(hits) <= limit
      /\ \A i \in ToSet(hits) :
           \/ chunks[i].words \intersect query.words # {}
           \/ chunks[i].near > 0 /\ method # "bm25"
           \/ chunks[i].document \in query.mentioned /\ method = "hybrid_rerank"
      /\ method # "hybrid_rerank" =>
           /\ \A i \in ToSet(hits), j \in others : scores[j] <= scores[i]
           /\ Len(hits) < limit => \A j \in others : scores[j] <= 0

(* A hit is of a chunk once and is earned: its chunk shares a word with    *)
(* the query, looks like it, or is of a document it names; without         *)
(* diversification no chunk outside the hits scores higher than one of     *)
(* them, and none with a score is left out while there is room.            *)
HitsAreEarned ==
  call.kind = "search" /\ result.valid =>
    SearchIsEarned(call.request.chunks, call.request.query, call.request.method,
                   call.request.limit, result.hits)

(* Of one answer. *)
AnswerIsCited(question, evidence, maximum, answer) ==
  LET quotes == [n \in DOMAIN answer.citations |-> answer.citations[n].sentence]
      told == UNION {quotes[n].words : n \in DOMAIN quotes}
  IN  /\ answer.answerable <=> answer.citations # <<>>
      /\ Len(quotes) <= maximum
      /\ \A n \in DOMAIN quotes :
           /\ quotes[n].markers \subseteq DOMAIN quotes
           /\ quotes[n] \in ToSet(evidence[answer.citations[n].evidence].sentences)
           /\ \A m \in DOMAIN quotes : quotes[n].quote = quotes[m].quote => n = m
      /\ answer.answerable =>
           100 * Cardinality(told \intersect question.words) >= 16 * Cardinality(question.words)

(* adr/0007: the service "validates every marker and citation against the  *)
(* supplied evidence before returning it".  Every marker in an answer names *)
(* one of its citations, whatever stands in the quoted text; citations are *)
(* of different quotes, no more than asked, and share enough with the      *)
(* question; a refusal has none.                                           *)
AnswersAreCited ==
  call.kind = "answer" =>
    AnswerIsCited(call.request.question, result.evidence, call.request.maximum, result.answer)
=============================================================================
