-------------------------- MODULE RegionalAnalytics --------------------------
(***************************************************************************)
(* regional_analytics/engine.py: standardised features of complete regions,*)
(* similar regions, and clusters that are shown only if they validate.     *)
(* Features and regions are numbers, ordered as their codes; values maps a *)
(* feature to a function from regions to observations, None if missing.    *)
(* Distances are compared by their squares, means as a sum and a size, so   *)
(* only silhouettes and agreements are rounded where the code has floats.  *)
(***************************************************************************)
EXTENDS Numbers, FiniteSets, FiniteSetsExt, SequencesExt

CONSTANT Rounds    \* 100, at which _cluster_once stops

(* Where larger(a, b) orders S strictly. *)
Greatest(S, larger(_, _)) == CHOOSE a \in S : \A b \in S \ {a} : larger(a, b)
-----------------------------------------------------------------------------
(* prepare_features *)
Universe(values) == UNION {DOMAIN values[f] : f \in DOMAIN values}

SelectedFeatures(values, minimum) ==
  {f \in DOMAIN values :
     Rounded(Cardinality({r \in Universe(values) : values[f][r] # None}),
             Cardinality(Universe(values))) >= minimum}

CompleteForOne(values, features) ==    \* mutant of Complete
  {r \in Universe(values) : \E f \in features : values[f][r] # None}
Complete(values, features) ==
  {r \in Universe(values) : \A f \in features : values[f][r] # None}

(* (value - mean) / scale over the regions, scale 1 without variance. *)
Standardized(series, regions) ==
  LET n == Cardinality(regions)
      total == Total([r \in regions |-> series[r]])
      gap == [r \in regions |-> n * series[r] - total]
      spread == Total([r \in regions |-> gap[r] * gap[r]]) \div n
  IN  [r \in regions |->
        IF spread = 0 THEN 0 ELSE Rounded(Unit * gap[r], Root(Unit * Unit * spread))]

NotPrepared == [valid |-> FALSE, features |-> {}, regions |-> {}, points |-> <<>>]

Prepare(values, minimum) ==
  LET features == SelectedFeatures(values, minimum)
      regions == Complete(values, features)
  IN  IF \/ minimum \notin 1..Unit
         \/ Cardinality(DOMAIN values) < 2
         \/ \E f \in DOMAIN values : DOMAIN values[f] # Universe(values)
         \/ Cardinality(Universe(values)) < 3
         \/ Cardinality(features) < 2
         \/ Cardinality(regions) < 3
      THEN NotPrepared
      ELSE [valid |-> TRUE, features |-> features, regions |-> regions,
            points |-> [f \in features |-> Standardized(values[f], regions)]]
-----------------------------------------------------------------------------
(* similar_regions *)
Squared(prepared, a, b, f) ==
  (prepared.points[f][a] - prepared.points[f][b]) * (prepared.points[f][a] - prepared.points[f][b])

SquaredDistance(prepared, a, b) == Total([f \in prepared.features |-> Squared(prepared, a, b, f)])

(* Root mean square of the gaps, to the last place. *)
Distance(prepared, a, b) ==
  NearestRoot(SquaredDistance(prepared, a, b), Cardinality(prepared.features))

Standing(values, f, a, b) ==
  IF values[f][a] > values[f][b] THEN "higher"
  ELSE IF values[f][a] < values[f][b] THEN "lower" ELSE "equal"

(* What drives the distance, greatest share first. *)
Drivers(values, prepared, a, b) ==
  LET total == SquaredDistance(prepared, a, b)
      share == [f \in prepared.features |->
                 IF total = 0 THEN 0 ELSE Rounded(Squared(prepared, a, b, f), total)]
      ordered == InOrder(prepared.features,
                   LAMBDA f, g : share[f] > share[g] \/ (share[f] = share[g] /\ f < g))
  IN  [i \in DOMAIN ordered |->
        [feature |-> ordered[i], share |-> share[ordered[i]],
         standing |-> Standing(values, ordered[i], a, b)]]

SimilarRegions(values, prepared, target, limit) ==
  LET distance == [r \in prepared.regions |-> Distance(prepared, target, r)]
      ordered == InOrder(prepared.regions \ {target},
                   LAMBDA r, s : distance[r] < distance[s] \/ (distance[r] = distance[s] /\ r < s))
  IN  IF target \notin prepared.regions \/ limit \notin 1..10 THEN <<>>
      ELSE [i \in 1..Min({limit, Len(ordered)}) |->
             [region |-> ordered[i], distance |-> distance[ordered[i]],
              drivers |-> Drivers(values, prepared, target, ordered[i])]]
-----------------------------------------------------------------------------
(* _cluster_once.  A centroid is the sum and number of its members.        *)
Centroid(prepared, members) ==
  [sum |-> [f \in prepared.features |-> Total([r \in members |-> prepared.points[f][r]])],
   size |-> Cardinality(members)]

(* The squared distance of a region from a centroid, times its size squared. *)
Gap(prepared, r, centroid) ==
  Total([f \in prepared.features |->
    (centroid.size * prepared.points[f][r] - centroid.sum[f])
    * (centroid.size * prepared.points[f][r] - centroid.sum[f])])

Nearer(prepared, r, a, s, b) ==    \* r to a is nearer than s to b
  Gap(prepared, r, a) * b.size * b.size < Gap(prepared, s, b) * a.size * a.size

(* Farthest first: each next start is the region farthest from the starts  *)
(* so far.                                                                 *)
NextStart(prepared, starts) ==
  LET gap == [r \in prepared.regions |->
               Min({SquaredDistance(prepared, r, s) : s \in ToSet(starts)})]
  IN  Greatest(prepared.regions \ ToSet(starts),
        LAMBDA r, s : gap[r] > gap[s] \/ (gap[r] = gap[s] /\ r > s))

Starts(prepared, k, first) ==
  Iterated(LAMBDA starts, i : Append(starts, NextStart(prepared, starts)), <<first>>, k - 1)

Nearest(prepared, centroids) ==
  [r \in prepared.regions |->
    CHOOSE c \in DOMAIN centroids : \A d \in DOMAIN centroids \ {c} :
      \/ Nearer(prepared, r, centroids[c], r, centroids[d])
      \/ c < d /\ ~Nearer(prepared, r, centroids[d], r, centroids[c])]

Members(labels, c) == {r \in DOMAIN labels : labels[r] = c}

(* The region farthest from its centroid, of those whose cluster has       *)
(* others; an empty cluster takes it.                                      *)
Farthest(prepared, labels, centroids) ==
  Greatest({r \in prepared.regions : Cardinality(Members(labels, labels[r])) > 1}, LAMBDA r, s :
    \/ Nearer(prepared, s, centroids[labels[s]], r, centroids[labels[r]])
    \/ r > s /\ ~Nearer(prepared, r, centroids[labels[r]], s, centroids[labels[s]]))

FilledWithNone(prepared, labels, centroids, c) == labels    \* mutant of Filled
Filled(prepared, labels, centroids, c) ==
  IF Members(labels, c) # {} THEN labels
  ELSE [labels EXCEPT ![Farthest(prepared, labels, centroids)] = c]

(* The clusters in turn: fill, then take the mean. *)
Refilled(prepared, centroids, state, c) ==
  LET filled == Filled(prepared, state.labels, centroids, c)
  IN  [labels |-> filled, done |-> FALSE,
       centroids |-> Append(state.centroids, Centroid(prepared, Members(filled, c)))]

Recentred(prepared, labels, centroids) ==
  Iterated(LAMBDA state, c : Refilled(prepared, centroids, state, c),
    [labels |-> labels, centroids |-> <<>>, done |-> FALSE], Len(centroids))

Lloyd(prepared, state) ==
  LET labels == Nearest(prepared, state.centroids)
  IN  IF state.done \/ labels = state.labels THEN [state EXCEPT !.done = TRUE]
      ELSE Recentred(prepared, labels, state.centroids)

(* _canonicalize_labels: clusters are numbered by their means.             *)
Before(prepared, a, b) ==
  \E f \in prepared.features :
    /\ a.sum[f] * b.size < b.sum[f] * a.size
    /\ \A g \in prepared.features : g < f => a.sum[g] * b.size = b.sum[g] * a.size

Canonical(prepared, labels, k) ==
  LET mean == [c \in 1..k |-> Centroid(prepared, Members(labels, c))]
      ordered == InOrder(1..k, LAMBDA c, d :
        \/ Before(prepared, mean[c], mean[d])
        \/ c < d /\ ~Before(prepared, mean[d], mean[c]))
  IN  [r \in DOMAIN labels |-> CHOOSE i \in 1..k : ordered[i] = labels[r]]

(* The seed chooses the first start by a hash. *)
Settled(prepared, k, first) ==
  LET starts == Starts(prepared, k, first)
      centroids == [c \in 1..k |-> Centroid(prepared, {starts[c]})]
      state == [labels |-> <<>>, centroids |-> centroids, done |-> FALSE]
  IN  Iterated(LAMBDA now, round : Lloyd(prepared, now), state, Rounds).labels

ClusterOnce(prepared, k, first) == Canonical(prepared, Settled(prepared, k, first), k)
-----------------------------------------------------------------------------
(* _silhouette, in the last place. *)
Average(f) == Rounded(Total(f), Unit * Cardinality(DOMAIN f))

Mean(prepared, r, others) ==
  (Unit * Total([s \in others |-> NearestRoot(SquaredDistance(prepared, r, s), 1)]))
  \div Cardinality(others)

Contrast(a, b) == IF Max({a, b}) = 0 THEN 0 ELSE Rounded(b - a, Max({a, b}))

SilhouetteOf(prepared, labels, r) ==
  LET own == Members(labels, labels[r]) \ {r}
  IN  IF own = {} THEN 0
      ELSE Contrast(Mean(prepared, r, own),
                    Min({Mean(prepared, r, Members(labels, c)) :
                           c \in {labels[s] : s \in DOMAIN labels} \ {labels[r]}}))

Silhouette(prepared, labels) ==
  Average([r \in prepared.regions |-> SilhouetteOf(prepared, labels, r)])

(* _adjusted_rand *)
Comb2(n) == (n * (n - 1)) \div 2

AdjustedRand(left, right) ==
  LET pairs(labels) == Total([c \in {labels[r] : r \in DOMAIN labels} |->
                               Comb2(Cardinality(Members(labels, c)))])
      both == [r \in DOMAIN left |-> <<left[r], right[r]>>]
      total == Comb2(Cardinality(DOMAIN left))
      chance == pairs(left) * pairs(right)    \* expected times total
      range == (pairs(left) + pairs(right)) * total - 2 * chance
  IN  IF range = 0 THEN Unit ELSE Rounded(2 * (pairs(both) * total - chance), range)
-----------------------------------------------------------------------------
(* evaluate_clusters *)
SmallestCluster(labels) == Min({Cardinality(Members(labels, labels[r])) : r \in DOMAIN labels})

Runs(prepared, k, firsts) == [i \in DOMAIN firsts |-> ClusterOnce(prepared, k, firsts[i])]

(* Over the runs of k: mean silhouette and mean agreement of two runs, the  *)
(* latter never counted below 0.                                           *)
Evidence(prepared, runs) ==
  LET couples == {c \in (DOMAIN runs) \X (DOMAIN runs) : c[1] < c[2]}
  IN  [silhouette |-> Average([i \in DOMAIN runs |-> Silhouette(prepared, runs[i])]),
       stability |-> Average([c \in couples |-> Max({0, AdjustedRand(runs[c[1]], runs[c[2]])})]),
       smallest |-> SmallestCluster(runs[1])]

Publishable(evidence, limits) ==
  /\ evidence.silhouette >= limits.silhouette
  /\ evidence.stability >= limits.stability
  /\ evidence.smallest >= 2

NoClusters == [valid |-> FALSE, k |-> None, publishable |-> FALSE, assignments |-> <<>>]

(* The candidate with the best silhouette, the smallest of those.          *)
Chosen(evidence) ==
  Greatest(DOMAIN evidence, LAMBDA k, l :
    \/ evidence[k].silhouette > evidence[l].silhouette
    \/ evidence[k].silhouette = evidence[l].silhouette /\ k < l)

Report(runs, evidence, k, limits) ==
  [valid |-> TRUE, k |-> k, publishable |-> Publishable(evidence, limits),
   assignments |-> IF Publishable(evidence, limits) THEN runs[k][1] ELSE <<>>]

BestReport(runs, evidence, limits) ==
  LET k == Chosen(evidence) IN Report(runs, evidence[k], k, limits)

Judged(prepared, runs, limits) ==
  BestReport(runs, [k \in DOMAIN runs |-> Evidence(prepared, runs[k])], limits)

EvaluateClusters(prepared, candidates, firsts, limits) ==
  IF \/ Len(firsts) < 2
     \/ candidates = {}
     \/ \E k \in candidates : k < 2 \/ k >= Cardinality(prepared.regions)
     \/ limits.silhouette \notin (-Unit)..Unit \/ limits.stability \notin 0..Unit
  THEN NoClusters
  ELSE Judged(prepared, [k \in candidates |-> Runs(prepared, k, firsts)], limits)
=============================================================================
