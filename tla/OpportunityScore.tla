--------------------------- MODULE OpportunityScore ---------------------------
(***************************************************************************)
(* opportunity/engine.py: the scores and ranks of regions and how they     *)
(* respond to the weights.  A number is an integer of 1/Unit (SIX_PLACES); *)
(* a region is a number, ordered as its code is.  A request is a record    *)
(* [regions, values, weights, full, method, threshold]: values maps        *)
(* indicator codes to functions from regions to observations (None if      *)
(* missing), weights is a sequence of [code, weight, direction], and full  *)
(* is the weight that stands for 100 percent.                              *)
(***************************************************************************)
EXTENDS Numbers, FiniteSets, FiniteSetsExt, SequencesExt

Tolerance == 10000    \* WEIGHT_TOLERANCE is 1/10000 of all weights
MaxRegions == 38

(* The weights of the items at some places. *)
Weight(weights, places) == Total([i \in places |-> weights[i].weight])

Distinct(seq) == Cardinality(ToSet(seq)) = Len(seq)
-----------------------------------------------------------------------------
(* validate_weights and the guards of score_regions. *)
ValidWeights(weights, full) ==
  /\ weights # <<>>
  /\ Distinct([i \in DOMAIN weights |-> weights[i].code])
  /\ \A i \in DOMAIN weights : weights[i].weight >= 0
  /\ Tolerance * Magnitude(Weight(weights, DOMAIN weights) - full) <= full

Scorable(request) ==
  /\ ValidWeights(request.weights, request.full)
  /\ request.threshold \in 0..Unit
  /\ Len(request.regions) \in 2..MaxRegions
  /\ Distinct(request.regions)
  /\ \A i \in DOMAIN request.weights : request.weights[i].code \in DOMAIN request.values

Present(series) == {region \in DOMAIN series : series[region] # None}

(* normalize_series, "min_max": p/q of the span, turned for "lower". *)
MinMax(series, region, direction) ==
  LET values == {series[other] : other \in Present(series)}
      low  == Min(values)
      span == Max(values) - low
      above == series[region] - low
  IN  IF span = 0 THEN Rounded(1, 2)
      ELSE Rounded(IF direction = "higher" THEN above ELSE span - above, span)

(* "percentile": regions in the order of (value, code), a run of equal     *)
(* values shares the mean of its positions.                                *)
Ordered(series) ==
  InOrder(Present(series), LAMBDA a, b :
    series[a] < series[b] \/ (series[a] = series[b] /\ a < b))

Percentile(series, region, direction) ==
  LET ordered == Ordered(series)
      ties == {i \in DOMAIN ordered : series[ordered[i]] = series[region]}
      doubled == (Min(ties) - 1) + (Max(ties) - 1)    \* twice average_rank
      denominator == 2 * (Len(ordered) - 1)
  IN  IF Len(ordered) = 1 THEN Rounded(1, 2)
      ELSE Rounded(IF direction = "higher" THEN doubled ELSE denominator - doubled, denominator)

Normalized(series, region, method, direction) ==
  IF region \notin Present(series) THEN None
  ELSE IF method = "min_max" THEN MinMax(series, region, direction)
  ELSE Percentile(series, region, direction)
-----------------------------------------------------------------------------
(* score_regions *)
NormalizedFor(request, item, region) ==
  Normalized(request.values[item.code], region, request.method, item.direction)

Available(request, region) ==
  {i \in DOMAIN request.weights : NormalizedFor(request, request.weights[i], region) # None}

AvailableWeight(request, region) == Weight(request.weights, Available(request, region))

Weighted(request, region) ==
  Total([i \in Available(request, region) |->
    NormalizedFor(request, request.weights[i], region) * request.weights[i].weight])

Eligible(request, region) ==
  /\ Cardinality(Available(request, region)) * Unit >= request.threshold * Len(request.weights)
  /\ AvailableWeight(request, region) > 0

(* The weight of a missing indicator is shared among the available ones;   *)
(* the score is a percentage.                                              *)
ScoreOfAllWeights(request, region) ==    \* mutant of Score: missing counts as zero
  IF ~Eligible(request, region) THEN None
  ELSE (100 * Weighted(request, region) + request.full \div 2) \div request.full
Score(request, region) ==
  IF ~Eligible(request, region) THEN None
  ELSE LET total == AvailableWeight(request, region)
       IN  (100 * Weighted(request, region) + total \div 2) \div total

(* The rows, highest first, those without a score last, by code among      *)
(* equals.                                                                 *)
ScoredRows(request) ==
  InOrder({[region |-> r, score |-> Score(request, r)] : r \in ToSet(request.regions)},
    LAMBDA a, b : a.score > b.score \/ (a.score = b.score /\ a.region < b.region))

(* Equal scores share the position of the first of them. *)
Rank(rows, i) ==
  CHOOSE p \in 1..i :
    rows[p].score = rows[i].score /\ (p = 1 \/ rows[p - 1].score # rows[i].score)

NoResults == [valid |-> FALSE, results |-> <<>>]

ScoreRegions(request) ==
  LET rows == ScoredRows(request)
  IN  IF ~Scorable(request) THEN NoResults
      ELSE [valid |-> TRUE,
            results |-> [i \in DOMAIN rows |->
              [region |-> rows[i].region, score |-> rows[i].score,
               rank |-> IF rows[i].score = None THEN None ELSE Rank(rows, i)]]]
-----------------------------------------------------------------------------
(* sensitivity_analysis, for perturbations of whole tenths.  Rescaling the  *)
(* weights to 100 percent is the choice of what counts as 100 percent.     *)
AdjustedWithoutRescaling(request, target, tenths) ==    \* mutant of Adjusted
  [request EXCEPT
    !.full = 10 * @,
    !.weights = [i \in DOMAIN @ |->
      [@[i] EXCEPT !.weight = @ * (IF i = target THEN tenths ELSE 10)]]]
Adjusted(request, target, tenths) ==
  LET weights == [i \in DOMAIN request.weights |->
        [request.weights[i] EXCEPT !.weight = @ * (IF i = target THEN tenths ELSE 10)]]
  IN  [request EXCEPT !.weights = weights, !.full = Weight(weights, DOMAIN weights)]

Changes(request, tenths) == (DOMAIN request.weights) \X {10 - tenths, 10 + tenths}

Rankings(request, change) ==
  {[change |-> change, region |-> row.region, rank |-> row.rank] :
     row \in ToSet(ScoreRegions(Adjusted(request, change[1], change[2])).results)}

(* The stability row of a region: its rank, the least and greatest rank it *)
(* has in a scenario, and in how many scenarios it has one, or the same.   *)
Stability(request, tenths) ==
  LET sampled == {row \in UNION {Rankings(request, change) : change \in Changes(request, tenths)} :
                    row.rank # None}
      of(row) == {other \in sampled : other.region = row.region}
      ranks(row) == {other.rank : other \in of(row)}
  IN  {[region    |-> row.region,
        base      |-> row.rank,
        least     |-> IF of(row) = {} THEN None ELSE Min(ranks(row)),
        greatest  |-> IF of(row) = {} THEN None ELSE Max(ranks(row)),
        sampled   |-> Cardinality(of(row)),
        unchanged |-> Cardinality({other \in of(row) : other.rank = row.rank})] :
       row \in ToSet(ScoreRegions(request).results)}

NoStability == [valid |-> FALSE, stability |-> {}]

(* Every scenario is scored, and raises when its weights are not valid.     *)
SensitivityAnalysis(request, tenths) ==
  IF \/ tenths \notin 1..5 \/ ~Scorable(request)
     \/ \E change \in Changes(request, tenths) :
          ~Scorable(Adjusted(request, change[1], change[2]))
  THEN NoStability
  ELSE [valid |-> TRUE, stability |-> Stability(request, tenths)]
=============================================================================
