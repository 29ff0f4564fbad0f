------------------------------ MODULE Retrieval ------------------------------
(***************************************************************************)
(* regulasilens/retrieval.py: published sections become chunks, and a      *)
(* query ranks them.  A section is [id, document, version, article, ayat,  *)
(* number, size]: article and ayat say which of the patterns of            *)
(* _structure_chunks its heading matches ("Pasal 12" is an article, "Pasal *)
(* 12A" and "Pasal XII" are not).  A chunk that is searched is [document,  *)
(* explanation, words, gain, near, sentences]: gain is what BM25 gives it  *)
(* for a word of the query it has (more in a short text), near what the    *)
(* letters of its words add to the similarity of the hashed vectors.  A    *)
(* query is [words, length, mentioned, ...]: length counts its characters, *)
(* mentioned are the documents it names.                                   *)
(***************************************************************************)
EXTENDS Orders, SequencesExt, FiniteSetsExt

CONSTANTS ChunkSize,    \* 1600 characters
          LateArticle,  \* 20: an article so high, then one so low as
          EarlyArticle, \* 5: the explanation has begun
          Naming        \* words that name documents or ask to search

(* Documents in the order they first appear, and their sections.           *)
DocumentsIn(sections) ==
  LET first(d) == Min({i \in DOMAIN sections : sections[i].document = d})
  IN  InOrder({sections[i].document : i \in DOMAIN sections},
              LAMBDA d, e : first(d) < first(e))

SectionsOf(sections, d) == AtPlaces(sections, {i \in DOMAIN sections : sections[i].document = d})

Chunk(sections, explanation) ==
  [sections |-> sections, document |-> sections[1].document, version |-> sections[1].version,
   explanation |-> explanation]
-----------------------------------------------------------------------------
(* _structure_chunks.  An article opens a chunk.  An ayat was meant to join *)
(* it, but its pattern wants a letter right after the bracket and the       *)
(* parser's headings have a blank there (ayat is FALSE for all of them):    *)
(* every section is a chunk of its own.                                     *)
Starting == [chunks |-> <<>>, current |-> <<>>, explains |-> FALSE, mode |-> FALSE, highest |-> 0]

Closed(state) ==
  IF state.current = <<>> THEN state.chunks
  ELSE Append(state.chunks, Chunk(state.current, state.explains))

InExplanation(state, section) ==
  \/ state.mode
  \/ section.article /\ state.highest >= LateArticle /\ section.number <= EarlyArticle

Joins(state, section) ==
  section.ayat /\ state.current # <<>> /\ state.current[1].article

AddToStructure(state, section) ==
  IF Joins(state, section) THEN [state EXCEPT !.current = Append(@, section)]
  ELSE [chunks   |-> Closed(state),
        current  |-> <<section>>,
        explains |-> InExplanation(state, section),
        mode     |-> InExplanation(state, section),
        highest  |-> IF section.article THEN Max({state.highest, section.number})
                     ELSE state.highest]

StructureOf(own) ==    \* of the sections of one document
  Closed(Iterated(LAMBDA state, n : AddToStructure(state, own[n]), Starting, Len(own)))

StructureChunks(sections) ==
  LET documents == DocumentsIn(sections)
  IN  FlattenSeq([i \in DOMAIN documents |-> StructureOf(SectionsOf(sections, documents[i]))])

(* _fixed_chunks: sections of one document up to ChunkSize, or one alone.  *)
Filling == [chunks |-> <<>>, current |-> <<>>, explains |-> FALSE]

SizeOf(sections) == FoldLeft(LAMBDA total, section : total + section.size, 0, sections)

AddAndForget(state, section) ==    \* mutant of AddToFixed: what overflows is lost
  IF state.current # <<>> /\ SizeOf(state.current) + section.size > ChunkSize
  THEN [state EXCEPT !.chunks = Closed(state), !.current = <<>>]
  ELSE [state EXCEPT !.current = Append(@, section)]
AddToFixed(state, section) ==
  IF state.current # <<>> /\ SizeOf(state.current) + section.size > ChunkSize
  THEN [state EXCEPT !.chunks = Closed(state), !.current = <<section>>]
  ELSE [state EXCEPT !.current = Append(@, section)]

FixedOf(own) ==
  Closed(Iterated(LAMBDA state, n : AddToFixed(state, own[n]), Filling, Len(own)))

FixedChunks(sections) ==
  LET documents == DocumentsIn(sections)
  IN  FlattenSeq([i \in DOMAIN documents |-> FixedOf(SectionsOf(sections, documents[i]))])
-----------------------------------------------------------------------------
(* Scores are integers; Scale stands for 1. *)
Scale == 10000

(* _reciprocal_rank_fusion of two score lists: 1/(60 + rank) for a list in *)
(* which the chunk has a positive score.                                   *)
PositionIn(scores, i) ==
  1 + Cardinality({j \in DOMAIN scores : scores[j] > scores[i] \/ (scores[j] = scores[i] /\ j < i)})

ShareOfEveryone(scores, i) == Scale \div (60 + PositionIn(scores, i))    \* mutant of Share
Share(scores, i) == IF scores[i] > 0 THEN Scale \div (60 + PositionIn(scores, i)) ELSE 0

Fused(bm25, dense) == [i \in DOMAIN bm25 |-> Share(bm25, i) + Share(dense, i)]

(* Explanations of articles count a fifth. *)
Adjusted(chunks, scores) ==
  [i \in DOMAIN scores |-> IF chunks[i].explanation THEN scores[i] ELSE 5 * scores[i]]

Part(percent, scores, i) ==    \* percent of the score, relative to the best
  LET best == Max({scores[j] : j \in DOMAIN scores})
  IN  IF best = 0 THEN 0 ELSE (percent * Scale * scores[i]) \div (100 * best)

(* _semantic_query_tokens: without the words that only name, if any is left. *)
Semantic(query) ==
  IF query.words \subseteq Naming THEN query.words ELSE query.words \ Naming

Shared(chunk, words) == Cardinality(chunk.words \intersect words)

BM25(chunks, words) == [i \in DOMAIN chunks |-> chunks[i].gain * Shared(chunks[i], words)]
Dense(chunks, words) == [i \in DOMAIN chunks |-> chunks[i].near + 2 * Shared(chunks[i], words)]

(* _reranker_scores; every word weighs the same.                           *)
Reranked(chunks, query) ==
  LET words == Semantic(query)
      bm25  == BM25(chunks, words)
      dense == Dense(chunks, words)
      named(i) == chunks[i].document \in query.mentioned
      covered(i) == (40 * Scale * Shared(chunks[i], words)) \div (100 * Max({1, Cardinality(words)}))
      document(i) == IF query.mentioned = {} THEN 0
                     ELSE IF named(i) THEN (5 * Scale) \div 100 ELSE -((5 * Scale) \div 200)
      score(i) == Part(25, Fused(bm25, dense), i) + Part(20, bm25, i) + Part(10, dense, i)
                  + covered(i) + document(i)
      explained(i) == IF chunks[i].explanation THEN score(i) \div 5 ELSE score(i)
  IN  [i \in DOMAIN chunks |->
        IF Cardinality(query.mentioned) = 1 /\ ~named(i)
        THEN (35 * explained(i)) \div 100 ELSE explained(i)]

Scores(chunks, query, method) ==
  LET bm25  == BM25(chunks, query.words)
      dense == Dense(chunks, query.words)
  IN  CASE method = "bm25"   -> Adjusted(chunks, bm25)
        [] method = "dense"  -> Adjusted(chunks, dense)
        [] method = "hybrid" -> Adjusted(chunks, Fused(bm25, dense))
        [] method = "hybrid_rerank" -> Reranked(chunks, query)

(* The order of candidates: by value, then BM25, then dense, then position. *)
Before(chunks, query, value, i, j) ==
  LET bm25  == BM25(chunks, query.words)
      dense == Dense(chunks, query.words)
  IN  \/ value[i] > value[j]
      \/ value[i] = value[j] /\ bm25[i] > bm25[j]
      \/ value[i] = value[j] /\ bm25[i] = bm25[j] /\ dense[i] > dense[j]
      \/ value[i] = value[j] /\ bm25[i] = bm25[j] /\ dense[i] = dense[j] /\ i < j

Ranked(chunks, query, scores, limit) ==
  LET ordered == InOrder(DOMAIN chunks, LAMBDA i, j : Before(chunks, query, scores, i, j))
  IN  SubSeq(ordered, 1, Min({limit, Len(ordered)}))

(* _ranked_indices with diversify: a chunk gains by words no chosen chunk  *)
(* covers and by a named document none is of; it stops at a choice without *)
(* a positive score.                                                       *)
Gain(chunks, query, chosen, i) ==
  LET words == Semantic(query)
      covered == UNION {chunks[j].words : j \in ToSet(chosen)}
      documents == {chunks[j].document : j \in ToSet(chosen)}
  IN  (25 * Scale * Cardinality((chunks[i].words \intersect words) \ covered))
        \div (100 * Max({1, Cardinality(words)}))
      + (IF Cardinality(query.mentioned) > 1 /\ chunks[i].document \in query.mentioned \ documents
         THEN (8 * Scale) \div 100 ELSE 0)

Choose(chunks, query, scores, state) ==
  LET left == DOMAIN chunks \ ToSet(state.chosen)
      value == [i \in DOMAIN chunks |-> scores[i] + Gain(chunks, query, state.chosen, i)]
      best == CHOOSE i \in left : \A j \in left \ {i} : Before(chunks, query, value, i, j)
  IN  IF state.done \/ left = {} \/ scores[best] <= 0 THEN [state EXCEPT !.done = TRUE]
      ELSE [state EXCEPT !.chosen = Append(@, best)]

Diversified(chunks, query, scores, limit) ==
  Iterated(LAMBDA state, n : Choose(chunks, query, scores, state),
           [chosen |-> <<>>, done |-> FALSE], limit).chosen

(* search: the hits are those with a positive score; a short query or a    *)
(* limit out of range is refused (ValueError).                             *)
Found(chunks, query, method, limit) ==
  LET scores == Scores(chunks, query, method)
      ranked == IF method = "hybrid_rerank" THEN Diversified(chunks, query, scores, limit)
                ELSE Ranked(chunks, query, scores, limit)
  IN  AtPlaces(ranked, {n \in DOMAIN ranked : scores[ranked[n]] > 0})

NotSearched == [valid |-> FALSE, hits |-> <<>>]

Search(chunks, query, method, limit) ==
  IF query.length < 3 \/ limit \notin 1..50 THEN NotSearched
  ELSE [valid |-> TRUE, hits |-> Found(chunks, query, method, limit)]
=============================================================================
