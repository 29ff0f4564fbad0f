---------------------------- MODULE MCCalculations ----------------------------
(***************************************************************************)
(* Inputs of the calculations for TLC: three regions with ties, missing    *)
(* values and constant features, a regulation whose ayat repeats over a    *)
(* page break, cut off, shorter or longer, articles of all three ways of   *)
(* numbering, chunks that match by one score only, quotes with markers.    *)
(***************************************************************************)
EXTENDS Calculations, TLC

Regions3 == {11, 12, 13}
Weighing(a, da, b, db) ==
  <<[code |-> "a", weight |-> a, direction |-> da], [code |-> "b", weight |-> b, direction |-> db]>>

Series == [Regions3 -> {-1, 1, 2, 4}]

Request(regions, a, b, weights, method, threshold) ==
  [regions |-> regions, values |-> "a" :> a @@ "b" :> b, weights |-> weights, full |-> 100,
   method |-> method, threshold |-> threshold]

MCScoreRequests ==
  {Request(<<13, 11, 12>>, a, b, weights, method, 50) :
     a \in Series, b \in [Regions3 -> {-1, 1, 3}], method \in {"min_max", "percentile"},
     weights \in {Weighing(60, "higher", 40, "lower"), Weighing(100, "higher", 0, "higher")}}
  \union {Request(regions, [r \in Regions3 |-> r], [r \in Regions3 |-> 1], weights, "min_max", 100) :
     regions \in {<<11>>, <<11, 11>>, <<12, 11>>},
     weights \in {Weighing(60, "higher", 40, "lower"), Weighing(60, "higher", 30, "lower")}}

MCSensitivityRequests ==
  {[request |-> Request(<<13, 11, 12>>, a, [r \in Regions3 |-> IF r = 13 THEN -1 ELSE 24 - r],
                        weights, "min_max", threshold), tenths |-> tenths] :
     a \in Series, tenths \in {2, 5}, threshold \in {50, 100},
     weights \in {Weighing(60, "higher", 40, "lower"), Weighing(0, "higher", 100, "higher")}}

Places == 1..5
Table(f, g, h) == [values |-> 1 :> f @@ 2 :> g @@ 3 :> h, minimum |-> 80]
Gapped == {<<-1, -1, 3, 4, 5>>, <<3, 3, 4, 9, -1>>}
TwoPoints == <<1, 1, 1, 9, 9>>

MCFeatureTables ==
  {Table(f, g, h) : f \in {<<1, 1, 2, 5, 6>>, <<1, 2, 3, 4, 5>>},
     g \in {<<1, 2, 1, 6, 5>>, <<5, -1, 3, 2, 1>>, <<2, 2, 2, 2, 2>>}, h \in Gapped}
  \union {Table(TwoPoints, g, h) : g \in {TwoPoints, <<2, 2, 2, 2, 2>>}, h \in Gapped}

Strict == [silhouette |-> 10, stability |-> 100]
Lenient == [silhouette |-> -100, stability |-> 0]
OutOfRange == [silhouette |-> 10, stability |-> 101]

MCClusterRequests ==
  {[candidates |-> candidates, firsts |-> firsts, limits |-> limits] :
     candidates \in {{2}, {3}, {2, 3}}, firsts \in {<<1, 5>>, <<3, 4, 1>>, <<5, 3>>},
     limits \in {Strict, Lenient, OutOfRange}}

LineOf(kind, n, rest, length) == [kind |-> kind, number |-> n, rest |-> rest, length |-> length]
Words(n) == LineOf("text", n, "", 30)
Blank == LineOf("blank", 1, "", 0)
Pasal(n, rest) == LineOf("pasal", n, rest, 7)
Ayat(n) == LineOf("ayat", n, "full", 20)
CutAyat(length) == LineOf("ayat", 1, "...", length)
ShortAyat == LineOf("ayat", 1, "", 3)

Kinds == {Words(1), Words(2), Blank, LineOf("bab", 1, "", 5), LineOf("paragraf", 1, "", 10),
          Pasal(1, "roman"), Pasal(3, "plain"), Pasal(3, "A"), Ayat(1), Ayat(2), CutAyat(10),
          CutAyat(25), ShortAyat}

Sample == <<<<Words(1), LineOf("bab", 1, "", 5), Pasal(3, "plain")>>, <<CutAyat(10), Words(2)>>>>

MCEditions ==
  {[base |-> Sample, target |-> <<Sample[1], <<a, b>>, <<c, Ayat(1)>>>>] :
     a \in Kinds, b \in Kinds, c \in Kinds}
  \union {[base |-> <<<<a, Blank>>>>, target |-> <<<<>>, <<b>>>>] : a \in Kinds, b \in Kinds}

Sentence(q, words, markers, dated) ==
  [quote |-> q, words |-> words, markers |-> markers, dated |-> dated]
S1 == Sentence(1, {"data"}, {}, FALSE)
S2 == Sentence(2, {"data", "access"}, {2}, FALSE)
S3 == Sentence(3, {"law", "uu"}, {9}, TRUE)
S4 == Sentence(4, {}, {1}, FALSE)

ChunkOf(document, explanation, gain, near, sentences) ==
  [document |-> document, explanation |-> explanation,
   words |-> UNION {sentences[i].words : i \in DOMAIN sentences},
   gain |-> gain, near |-> near, sentences |-> sentences]

MCChunks ==
  {ChunkOf("uu", FALSE, 2, 0, s) : s \in {<<S1, S2>>, <<S3>>, <<S4, S1>>}}
  \union {ChunkOf("uu", FALSE, 2, 1, <<S4, S1>>), ChunkOf("pp", FALSE, 3, 0, <<S2>>)}
  \union {ChunkOf("pp", e, 3, 3, s) : e \in BOOLEAN, s \in {<<>>}}
  \union {ChunkOf("pp", TRUE, 3, 3, <<S2>>)}

MCIndexes == {<<a>> : a \in MCChunks} \union {<<a, b>> : a \in MCChunks, b \in MCChunks}
             \union {<<a, b, ChunkOf("pp", FALSE, 1, 0, <<S3, S1>>)>> :
                       a \in {c \in MCChunks : c.document = "uu"},
                       b \in {c \in MCChunks : c.document = "pp"}}

MCNaming == {"uu", "pp"}

Question(words, mentioned, outside, inside, dated) ==
  [words |-> words, length |-> 10, mentioned |-> mentioned, outside |-> outside,
   inside |-> inside, dated |-> dated]

MCQuestions ==
  {[Question({"uu"}, {}, FALSE, FALSE, FALSE) EXCEPT !.length = 2],
   Question({"data", "access"}, {}, FALSE, TRUE, FALSE),
   Question({"law", "data", "tax", "uu"}, {"uu"}, TRUE, TRUE, TRUE),
   Question({"data", "uu", "pp"}, {"uu", "pp"}, FALSE, FALSE, FALSE),
   Question({"uu"}, {"uu"}, FALSE, FALSE, FALSE),
   Question({"tax"}, {}, TRUE, FALSE, FALSE)}
=============================================================================
