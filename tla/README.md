# NusaIntel: specifications, model checks and proofs

TLA+ models of the parts of NusaIntel whose correctness rests on the order in which
processes, transactions and requests interleave. Every definition is translated from
`backend/app` (and `scripts/`); `PROJECT.json` maps each of them to its lines, lists the
runs, the mutants that show each property can fail, the hazards of the code and the
theorems. `tlc -config <cfg> <module>` repeats a run, `tlapm <module>` a proof.

Contents: 1 the system, 2 the modules, 3 the runs, 4 fairness, 5 the proofs,
6 disagreements between code and documentation, 7 what is left out, 8 plan.

## 1. The system

NusaIntel ingests Indonesian public statistics (BPS) and regulations (BPK) into one
PostgreSQL database and serves dashboards, rankings and grounded answers from it.

| Component | State it keeps | Operations | Talks to | What is hard | What makes it correct |
|---|---|---|---|---|---|
| Ingestion pipeline (`pipeline/`) | dataset versions by layer (bronze, silver, gold), lineage edges, runs with check results, quarantine rows, incidents | `PipelineService.run`: catalogue, raw evidence, lookup by checksum, normalise, gate, publish; `pipeline.cli` with live or fixture payloads | BPS client, quality gate, exceptions, database | several processes get-or-create the same rows; a crash between the two transactions; the waiver that expires while a run uses it | lineage complete, gate respected, one publication per checksum, last-known-good kept, answers true of the tables |
| Worker and lock (`worker.py`, `scheduling.py`) | session advisory lock | loop: try the lock, run, sleep | pipeline | the lock's connection is not the one the run writes with; replicas; death while holding | one scheduled run at a time, source order, the schedule catches up |
| Quality gate and exceptions (`pipeline/quality.py`, `control_tower/engine.py`) | quality exceptions with expiry | evaluate checks and contract rules; grant | pipeline | the verdict rests on one reading | nothing unwaived is published |
| RegulasiLens corpus (`regulasilens/service.py`, `ingestion.py`) | documents, relations, dataset versions and raw files, document versions (texts), runs, quarantine | `run_manifest`: synchronise the catalogue, then per document fetch, compare, reject or publish and withdraw | BPK site, parser, database | no lock keeps runs apart; three tables must tell the same story; deadlocks | a document that is served stays served, by a governed text, the one ingestion knows |
| Answer service (`regulasilens/service.py`, API routes) | semaphore, retrieval indexes under a lock | answer, search, evaluation manifest | corpus tables, retrieval, grounding | the semaphore is taken outside the timeout; cancellation wherever an answer waits; the cache is never told of another process's runs | places and lock never leak, every request ends, evidence from one published state |
| Answer rate limiter (`middleware.py`) | buckets of admission times per client | dispatch | answer route | purge and eviction at the bucket limit, rounding of Retry-After | at most the limit in any window, bounded memory, honest Retry-After |
| Runtime metrics (`observability.py`) | in-flight counter, totals, latency window | begin, finish | every request | failures and cancelled requests | the counters agree with the requests |
| Control Tower (`control_tower/`) | incidents, exceptions | change status, grant, summarise health | pipeline's tables | six SELECTs between which runs commit; operators write columns from stale rows | open incidents and failed runs show, resolution is stamped |
| Opportunity engine (`opportunity/`) | none; reads gold | score, rank, sensitivity, export | pipeline's tables | ties, missing values, rounding; a version published while a context is loaded | fair ranks, complete scenarios, versions named are versions used |
| Regional analytics (`regional_analytics/`) | none; reads gold | prepare, similar regions, clusters, report | opportunity contexts | missing values, coinciding points, seeds that disagree | mutual similarity, clusters that agree |
| Parsing, retrieval, grounding (`regulasilens/parser.py`, `comparison.py`, `retrieval.py`, `grounding.py`) | none | parse, compare, chunk, rank, cite | answer service, corpus | repeated headings, hits that match nothing, markers in quoted text | no text lost, hits earned, citations valid |
| BPS client (`bps/client.py`) | time of the last request | get with retries, back-off, minimum interval | BPS | last attempt's error, Retry-After | attempts bounded, requests spaced |
| HTTP API, schema, frontend, deployment | constraints, forms | | all | | |

The components meet in the tables. `PipelineService.run` and `run_manifest` are the
two writers of dataset versions; the services behind the API only read them, except for
incidents and exceptions. Worker replicas, command-line runs and API processes share
nothing but the database.

## 2. The modules

| Module | Models | Extends / instances |
|---|---|---|
| `Publication` | what ingestion promises, with no process, transaction or fault in it | |
| `Pipeline` | worker replicas and operators driving `PipelineService.run` | instances `Publication` |
| `PipelineProofs` | proofs about `Pipeline`, and that it implements `Publication` | `Pipeline`, TLAPS |
| `Corpus` | operators running manifests (`CorpusService.run_manifest`) | |
| `CorpusProofs` | proofs about it, of overlapping runs and of runs that follow each other | `Corpus`, TLAPS |
| `ApiProcess` | one API process: metrics middleware, routes, semaphore, lock, index cache | |
| `ApiProcessProofs` | proofs about it | `ApiProcess`, `FiniteLemmas` |
| `AnswerRateLimit` | `AnswerRateLimitMiddleware` | |
| `AnswerRateLimitProofs` | proofs about it | `AnswerRateLimit`, TLAPS |
| `Dashboards` | the SELECTs of summaries and reports between commits of runs and incident updates | |
| `DashboardsProofs` | proofs about it | `Dashboards`, TLAPS |
| `Orders` | sorting by a strict total order, places of a sequence, repeated steps | |
| `Numbers` | decimals kept to a last place | `Orders` |
| `OpportunityScore`, `RegionalAnalytics` | the two engines as operators | `Numbers` |
| `RegulationText`, `Retrieval`, `Grounding` | parser and comparison, chunks and ranking, cited answers, as operators | `Orders` (the last two) |
| `Calculations` | one call of any of these, and what its result is for | instances the five |
| `CalculationsProofs` | proofs about scores, ranks and their sensitivity, similar regions and clusters | `Calculations`, `FiniteLemmas` |
| `RegulationProofs` | proofs about reading, chunking and comparing two versions of a regulation, searching and answering | `Calculations`, `FiniteLemmas` |
| `FiniteLemmas` | lemmas: lists in a strict total and in a weak order, sums and couples of a finite set, sequences put together | `Orders`, TLAPS |
| `MC...` | the values of the constants | |

Definitions marked `mutant of X` are not part of a model: each is X with a plausible
bug, and replacing X by it must violate the property `PROJECT.json` pairs it with.

### Pipeline

A process's `pc` is the next statement of `run` that touches the database. A unique
constraint is a *key*: `rows` are the committed keys, `pend[p]` those p's open
transaction inserted. The get-or-create idiom is two steps, `Find` (the SELECT, which
sees committed rows and its own) and `Insert`; an INSERT of a key another transaction
holds waits, and one that was committed since the SELECT raises (`Conflict`), which
rolls back. `CommitBronze` ends the first transaction, `CommitRun` the second, with all
it writes: silver status, gold, lineage, run record, check results, incidents.
The two lineage edges are inserted without a SELECT, as in the code.

A payload stands for a raw response, a batch for the normalised observations; which
payload gives which batch (`BatchOf`), which rows nobody recognises (`Quarantined`) and
which critical checks fail (`BatchFailures`) are constants, so that two different
bodies with the same observations exist. `processed_at` is kept as a rank: only its
order is ever used. `Acquire`, `Skip`, `Release`, `LoseLock` are the advisory lock,
`Crash`, `FetchFails` the faults, `GrantException`, `ExceptionExpires` the operators'
waivers (the code compares `expires_at` with a clock; expiry is a step).

A run record has no id but says whether it repeats an earlier one (`again`), so that two
runs of one payload with one outcome stay two records.

Abstracted: schema drift events and warning checks (they decide nothing here), the rows of
dimensions and observations below their version, and the catalogue SELECTs of the
second transaction, which find what the first committed.

### Publication

The abstract specification: raw evidence is kept, and a decision is one step in which
the batch, its lineage and the run record appear (`Publish`), or the run record and its
incidents (`Reject`). `Pipeline` implements it under the mapping in `Promise`: the
committed tables change only as whole decisions do, whatever interleaves.

### Corpus

One operator process runs one manifest at a time. `stage` is the next conflicting
statement; effects become visible at the commit (`ReplaceRelations`, `Rejected`,
`Commit`). The rows a transaction wrote are in `tx[o].holds`; `Wants` are those its next
statement writes and `WaitsFor` who keeps it waiting. `fresh` is a SELECT that found
nothing, so the INSERT fails when the row exists by then. `seen` is what a DELETE,
UPDATE or SELECT saw when it started, which READ COMMITTED makes different from what is
there at the commit. `BreakDeadlock` is PostgreSQL's detector. A version is document,
url and file (`source_identity`, `checksum`), a text is document, file and parser
version: the two keys of the code, and the reason why `_latest_published_checksum` and
`_latest_published_version` could disagree.

Abstracted: the source row exists; the four reasons stand for all categories of failed
checks, and failed retrievals happen on one day; locks on relations and quarantine rows
are taken at the commit that follows at once; incidents, check results and sections are
only inserted beside the rows that are modelled; the retrieval index is left out.

### AnswerRateLimit

One `Dispatch` is one request: nothing awaits between acquiring and releasing the
asyncio lock. `log` and `retryAt` are history: the admissions since an eviction forgot
the client, and when the last announced wait ends. Time has `TicksPerSecond` ticks, so
rounding to seconds shows. Clients whose last requests are equally old are evicted in
any order (the code: in order of insertion).

### ApiProcess

`pc[r]` is what request r awaits: a place (`place`), the index lock (`lock`), the
database (`reading`, `read`, `probing`) or its response's bookkeeping (`respond`). A step
runs from one await to the next, because the event loop switches tasks nowhere else.
`AskIndex` is `_retrieval_index` up to its first wait; `EnterAnswer` takes a place or
queues for one, and only `TakePlace` starts the timeout, as the code does: the
semaphore is outside `asyncio.timeout`. `TimeOut` cancels an answer at any await after
that, also while it holds the lock. `Build` runs without an await from the query's result
to the response. `DatabaseFails` and `Probe` are the database's other replies,
`Respond` maps exceptions to status codes as the routes do (the manifest route has no
handler for an empty corpus, so its ValueError becomes a 500). `Publish` is a manifest
run of another process, `Restart` loses everything but the database.

Abstracted: the search in the index and the answer's text (they await nothing; see
`Retrieval` and `Grounding`), the latency window, request ids, logging. Who is refused
with 429 is decided in `AnswerRateLimit`; here any answer may be.

### Dashboards

A response is a script of SELECTs (`Script`), each of which sees the rows committed when
it runs. `got[r]` is what they returned: the number of the run that made a version, a
count, or 0 for no row. A run and an incident update commit between any two of them.
`Health`, `QualityStatus` and `GivesUp` are what the code makes of the results. Operators
update incidents in two steps, since the ORM reads the row, and writes only the
columns that differ from it. `start`, `throughout`, `ever` and `raced` are history.

An indicator has a silver and a gold data set, and what belongs to which is decided by
`dataset_version_id`. A run's record points to its silver version until it succeeds and to
the gold one from then on (`pipeline/service.py:284`), so silver has the failed runs and
gold the others (`RunsIn`); incidents and check results stay with silver. A batch may come
again and keeps its silver version (`version` of a run). `failures`
says that a check failed, a critical one or only a warning.

A report loads one to four contexts (`part`): an export two, an analytics report four, of
which the third, a region's detail, is of every contract (`Contracts`) and the others of
the indicators asked for (`Indicators`).

Abstracted: the bronze data set, whose summary has no run, incident or check to show;
`PeriodsOf` says how many reference periods a gold version has in the year asked for (422
without a version, 409 unless it is one); "resolved" and "ignored-with-reason" are
treated alike by the code and are one value.

### Calculations and the modules it calls

Pure code, as operators over small inputs. `Numbers` keeps decimals as integers of the
last place with ROUND_HALF_UP, so ties and rounding are the code's.
`OpportunityScore` is `score_regions` and `sensitivity_analysis`; `RegionalAnalytics` is
feature preparation, nearest regions, farthest-first seeds, Lloyd's iterations,
silhouette, agreement of seeds and the decision to publish. `RegulationText` reads lines
that are already classified into sections with hierarchies, and compares two versions;
a line has a length, since only a longer repetition completes an ayat that was cut off,
and a number apart from its form ("Pasal 12", "Pasal 12A", "Pasal XII"), since only the
first counts as an article where the explanation is looked for.
`Retrieval` is both chunkers, the refusal of short queries and of limits out of range, and
the four ranking methods; `Grounding` chooses quotes,
numbers them, validates the markers, and refuses. `Calculations` makes one call with
inputs chosen by `MCCalculations` and states what the result is for, independently
of how it was computed.

Abstracted: a section's size is its number of lines, words of a query weigh the same, what rarity,
length and hashed letters add to a score is a number of the chunk, sentences are sets of
words, and the wording of explanations and cluster descriptions is left out. A score is
one fraction rounded once; `engine.py` rounds each step to Decimal's 28 digits before, far
below the last of the six places that are kept.

## 3. The runs

| Run | Instance | Shows |
|---|---|---|
| `pipeline_replicas` | 2 workers, 2 faults, sources that move forward through clean, sparse, malformed and stray payloads | `OneScheduledRun`; `PublishedInSourceOrder`: a version processed later was fetched no earlier; `SourceGetsServed`: after crashes and failed fetches a clean payload gets served unless the source moves on |
| `pipeline_cli` | a worker whose lock connection may drop, an operator with live and fixture runs, 1 fault | `TypeOK`, `PublishedHasLineage`, `OnePublicationPerChecksum`, `OutcomeIsCommitted`, and the refinement `PublishesAtomically` |
| `pipeline_exceptions` | worker and operator, a waivable check granted and expiring, fairness | `PublishedPassedGate`, `LastKnownGoodKept`; `RunsEnd`: waits for keys form no cycle |
| `pipeline_idempotence` | violation, see 6 | `IdempotentByChecksum` |
| `pipeline_rejection` | violation, see 6 | `RejectionIsMarked` |
| `corpus_sequential` | 1 operator, 3 runs, 3 manifests (two urls, two documents), 2 parser versions, 1 death | `OnePublished`, `KnownIsShown`, `RelationsOfOneManifest` |
| `corpus_overlap` | 2 operators, 3 runs over one document, 3 manifests | `PublishedIsGoverned`, `RejectionAudited`, `KnownStaysPublished`, `ServedStays` |
| `corpus_runs_end` | 2 operators, 2 documents in opposite orders, fairness | `RunsEnd` through real deadlocks |
| `api_process` | 3 requests in three mixes, 1 place, 2 documents, 1 restart, fairness | `PlacesAddUp`, `LockHeldByReader`, `IndexIsASnapshot`, `FailsClosed`, `MetricsAddUp`; `RequestsEnd`: answers end though the database never replies, every request ends while it does |
| `answer_limit` | 3 clients, 2 buckets, limit 2, 2 s windows, half-second ticks | `WindowBound`, `MemoryBounded`, `RetryAfterSuffices` |
| `dashboards` | 1 reader of any summary or report, 2 indicators of which 1 is asked for, 3 runs, 2 operators, 2 incident updates, 1 tick | `OpenIncidentIsCritical`, `FailureShows`, `VersionsAreGoodAndCurrent`, `PartsAreOfOneVersion`, `ResolutionIsStamped` |
| `calculations` | 2 and 3 regions, 5 regions with 3 features, regulations of three pages, 13 kinds of lines, indexes of up to three chunks, questions and limits in and out of range | `RankingIsFair`, `SensitivityIsComplete`, `SimilarityIsMutual`, `ClustersAreAgreed`, `TextIsKept`, `HitsAreEarned`, `AnswersAreCited` |

Bounds. `MaxFaults`, `MaxRuns`, `MaxUpdates`, `MaxVersions`, `MaxRestarts` and `MaxTime`
bound crashes, started runs, updates, texts, restarts and the clock; a feed has at most
three payloads.

- Pipeline: two processes are what it takes to race on a key, and the keys of one run
  are independent of any third; the feeds pair the payloads that share a batch (reworded
  bytes, a stray row before or after), that replace one another, and that fail at each of
  the gates.
- Corpus: the hazards take a publication, a candidate and a third run that looks back
  (A, B, A), so three runs; overlap is explored on one document because documents share
  only the catalogue transaction, which `corpus_runs_end` explores with two.
- API process: with one place, two answers and a search a request waits for a place, one
  for the lock and one holds it, and any of them may be cancelled; two documents make a
  mixture of two corpus states possible; the safety properties are proved for all values.
- Limiter: three clients for two buckets reach purge and eviction, and six ticks reach
  past a window and a half; the theorems of section 5 hold for all values.
- Dashboards: three runs give a rejected batch that returns after a clean one; a second
  gold version with two periods and a third with none reach every refusal; two updates
  resolve and reopen; all are proved for all values. A score and an export select the
  first statements of a compare and of an analytics report, so those two are not loaded
  separately. `SomebodyReads` stops a behaviour when the response is complete: no property
  speaks of what comes later, and what the writers do alone is explored before anybody asks.
  `SeenByReport` leaves out, beside each report, the writes it cannot see: incident updates
  beside one that counts no incidents, and likewise the clock, runs of the second indicator,
  failed warnings and batches that come again.
  The theorems have neither constraint.
- Calculations: values are few, so that ties, constant features, missing values,
  coinciding points, zero weights and halves at rounding all occur (`Unit` is 100 instead
  of 10^6; the size of the last place decides no branch). What a larger input would add
  is more of the same comparisons, and nothing else: all seven properties are proved for
  all values.

`CHECK_DEADLOCK FALSE` stands where the bounds stop the instance. Symmetry is declared
over clients, and over operators where no liveness is checked.

## 4. Fairness

`Pipeline!Fairness`: a started run goes on (WF of `Progress`), since nothing in `run`
blocks but the database; a waiting INSERT is woken when its holder ends (SF of
`Insert`), since PostgreSQL queues waiters and the next interval is far longer than the
hand-over; the worker loop attempts a run at every interval (WF of `Attempt`). Nobody
has to start the command line, no fault has to happen, the source need not change and
exceptions need not expire. `Corpus!FairSpec`: started runs go on, a request to the
source ends by its 30-second timeout at the latest, and the deadlock detector runs
(WF of each operator's `Settle`). Nobody has to start a run, and no process dies in that
instance. `ApiProcess!FairSpec`: the event loop runs tasks that are ready and fires
timeouts (WF of `Progress`); the database owes nothing. `RequestsEnd` says in its first
part that answers end all the same, and assumes only in its second, as a hypothesis, that
the database replies.

## 5. The proofs

For all values of the constants that satisfy the named assumptions
(`ConstantsAssumption`, `CorpusAssumption`, `ApiAssumption`, `LimiterAssumption`,
`DashboardAssumption`, `IndicatorsDiffer`, `CalculationsAssumption`):

`PipelineProofs`. `TypeCorrect` is an invariant by itself; the difficult part is that
forgetting a timestamp keeps the ranks distinct. The safety properties are not inductive:
a commit publishes whatever the transaction holds, so one must know *what* it holds. The
strengthening is `TransactionInv`: at each stage which keys p's transaction may
hold (`HoldsOwnKeys`), which are written for it to see (`HasWritten`), that nothing held
is committed yet, that no two transactions hold one key, and that every succeeded run
left its gold edge. `SafetyInv` adds `PublishedHasLineage`, `PublishedPassedGate` and
`OnePublicationPerChecksum`; `SafetyHolds` proves it with one lemma per kind of step, and
`LineageOfPublished`, `GateOfPublished`, `PublishedOnce`, `TransactionsHoldTheirOwn`
are its conjuncts. What a new run's row says is the same whether or not it repeats another
(`RecordGives`), so the proof goes by keys and not by rows being equal. `OnePublicationPerChecksum` follows from the unique
gold edge, which the code inserts without looking: the same fact that causes the first
finding of section 6.

Its second part. `ImplementsPublication`: `CommitBronze` maps to `Keep` or a
stutter, `CommitRun` to `Publish` or `Reject`, every other step to a stutter.
`AnswersAreCommitted`: what a run answered stays true while committed rows only grow.
`OneRunAtATime`: with `Flaky = {}`, an assumption of the theorem, any number of replicas
never overlap; with a lock connection that drops they can, which is why that assumption
is there.

Its third part is the version consumers read. `LastKnownGoodStays` (an action property): forgetting a timestamp keeps
the others in their order, only published versions have one, and what
`TransactionInv` says of a held gold key makes the record of the run that commits it a new
one. `ServedInSourceOrder` assumes `OnlyWorkers` (no operator, no dropped lock connection):
`OrderInv` says that a run past its fetch has the newest retrieval of all and, from
`Normalize` on, the newest timestamp; a publication keeps that because by `LockInv` no
other run is under way.

`CorpusProofs`. Overlapping runs, any number of operators. Two things make the
properties inductive. Nobody but the holder of a version's row changes its status, and no
transaction takes "published" back, so what a run read as published stays so. And a
run's stage determines which rows its transaction holds and what its text is
(`RunInv`, `RowsHeldOnce`); what was processed before now has a rank below the clock's
(`ProcessedByNow`). `CorpusInvariant` is the conjunction; from it follow
`GovernedPublication`, `RejectionsAreAudited`, `KnownStays` (an action property: a known
file's version is never demoted) and `ServedTextsStay`: a document with a published text
keeps one, because only `Commit` withdraws texts, and only while it publishes a text that
was read well.

Runs that follow each other, the second part. The theorems have the form `Spec /\ []OneAtATime => []P`:
a run starts only when none is under way, whoever's it is; the run may still fail or die
at every statement. That hypothesis is what the properties need and no more
(section 6 tells what overlap does), and it is met by every behaviour of one operator. The
invariant `AloneInv` says of the tables that, of a document's published versions, the one
whose text is published was processed last, and of the one transaction there is that
nothing it read has changed: its stamp is the greatest, what it withdraws is all that is
published, and the relations it deletes are all there are. `OneTextIsPublished`,
`KnownFileIsShown` and `RelationsAreOfOneManifest` follow from it.

`ApiProcessProofs`. `PlacesNeverLeak` rests on exactly the answers under the timeout
holding a place: each step moves at most one request into or out of that set, and the
semaphore's value by as much the other way. `LockIsOfTheReader`, `IndexesAreSnapshots`
(the rows a builder read are a state of the corpus since the restart) and
`SearchFailsClosed` are inductive with `ApiTypes`. `CountersAgree` needs what a sum is:
the library's fold is the value of a recursive function chosen on the subsets of a set, so
`FiniteLemmas` first shows that this function exists and then that one more request at a
status makes the sum one more, by taking a subset of least cardinality that is a counterexample
(the well-founded form of an induction that the prover cannot instantiate).

`AnswerRateLimitProofs`. A bucket is the end of the client's log and whatever of the log
is not in it has expired (`Remembers`); so an admission that finds fewer than the limit
in the bucket comes a window after the one that many places before. `LimiterInv`
adds `Ordered` and `Owes`, and gives `WindowBounded`, `MemoryStaysBounded`,
`RetryContract`, `LimiterTypes`.

`DashboardsProofs`. Runs are only appended, so a version a SELECT found stays good, and
what was good before the request is still there to be found: `LastKnownGoodIsShown`. For
incidents the lemmas compare three sets, those open throughout, those open now and those
ever open since the request came (`FollowsIncidents`): the count lies between the first
and the last whenever it is made, which gives `OpenIncidentsShow`.
`FailuresShow` is about silver: of its data set only failed runs are selected (`RunsIn`),
and runs are appended, so a run that had failed before
the request makes the third SELECT find one, the last or a later one, whatever else has
been published (`ThirdFindsFailure`); and the sixth goes by the version the first returned,
whose failed checks do not go away (`SixthFindsFailure`). Types need that
every script selects a version before it selects by its id (`NamesVersionFirst`).
`ResolutionsAreStamped` goes by the row an operator read: as long as it is still the row,
the update stamps it, and an update from an older one marks the incident as raced.
`ReportsAreOfOneVersion`: a statement names its indicator and its context, and in every
script a context asks once for each indicator's version, before anything that goes by it
(`NamesVersionOnce`, `ScriptShape`). So what a statement returned is what the one SELECT
of its version returned (`Follows`, `PartHasItsVersion`), that had one period or the
request gave up (`Complete`), and it never ceases to be a published version
(`VersionsKept`). It is the reason for `IndicatorsDiffer`: the contracts are a dict, and
the request schemas and `validate_weights` refuse an indicator named twice.

`CalculationsProofs`. `ListsMutual`, for every table of finitely many features and
regions with integers (decimals of the last place, or None) in it: what is prepared has
an integer for every region and feature selected, because a sum of integers is one
(`SumIsNumber`) and the scale divided by is a root of something positive, not 0
(`RootIsNumber`, by the existence of the function `Root` iterates). Then squares of
differences, and so distances, are the same both ways (`DistanceIsMutual`); a list is
the beginning of the strict total order by distance and code (`SimilarGives`), and two
lists are compared (`TwoLists`).

`RankingsFair` and `SensitivitiesComplete`, for every request whose series are finite and
have every region asked for (`load_context` reads them so). `min_max` and `percentile`
each keep the order of the observations, for both directions (`MinMaxGives`,
`PercentileGives`: equal values share the mean of the first and last of their places, and
of two different values the better has the later places), because division with halves
up is monotone (`QuotientGrows`) and a multiple of the divisor comes out as it went in
(`QuotientOfMultiple`): the best of what a region has is 1 everywhere, so its score is
100 whatever is missing (`ScoreOfBest`, `SumIsScaled`). Regions with the same indicators
divide by the same weight, so the order survives the sum (`ScoreGrows`, `SumGrows`). A
set that begins a list has the list's first places (`FirstPlaces`); that gives both halves
of the ranking: those with a score come first, and the place of the first of equals is one
more than the number of those above (`Standing`). For the sensitivity, a rescaled request
weighs exactly what it calls 100 percent, so no scenario is refused
(`AdjustedIsScorable`); factors between a half and one and a half leave an available
weight positive or zero as it was (`SameAreScored`), so each scenario ranks the same
regions, and a region's ranks map one to one to the scenarios (`RanksAreCounted`).

`ClusteringsAgreed`, for every table, set of candidates, seeds and limits. A run is followed
round by round (`StartsAreRegions`, `RoundGives`, `SettledGives`): an empty cluster takes
a region whose own cluster has more than one, which exists because there are no more
clusters than regions (`FarthestGives`, `FilledGives`), so no cluster is empty after a
round, whether the last was the hundredth or one that changed nothing. Means are compared
by sum and size; the comparison orders them weakly (`MeansOrder`), so with old numbers
for ties there is one canonical numbering of the clusters (`CanonicalGives`); two runs
that put the same regions together have it in common unless two clusters have one mean
(`NumbersAgree`), and then `_canonicalize_labels` indeed goes by the numbers the seed
left.

For the agreement, the couples of regions a run puts together are counted both ways
round, class by class (`PairsAreCounted`, `ClassesAreCounted`). Of t pairs of regions, an
adjusted Rand index of two runs that do not put the same together is at least 1/t below
one (`AgreementIsOne`). A mean that rounds to `Unit` leaves each of its numbers above
`Unit` less as many as they are (`AverageIsNear`, `SumOfLess`), so while pairs of regions
times pairs of runs are fewer than `Unit`, no disagreement is rounded away and all runs
put the same regions together (`StabilityGives`). That bound and `Rounds` above 0 are in
`CalculationsAssumption`: 38 provinces have 703 pairs, the ten seeds a request may name
(`regional_analytics/schemas.py:30`) 90 both ways round, and the code keeps six decimals.

`RegulationProofs`. `TextsKept`, for every two versions, each a sequence of pages and each
page a sequence of lines (`CalculationsAssumption`). The parser and both chunkings are
one step per element, so each is a run: a function from the number of elements read to
the state then (`SteppingsExist`), and what holds at the start and survives one step holds
at the end (`StepByStep`, by a smallest counterexample). For the parser, what reading one
line does is stated once (`ReadGives`: nothing, a preamble, one more line of the last
section, or a section of its own); each adds the line to the end of the lines of all
sections (`ReadingKeepsLines`, `LineIsRead`), and each keeps the hierarchy equal to the
first lines of the sections the last section stands under (`Hierarchical`, `LineStands`),
whole headings and not only their kinds. That needs
that a heading leaves open exactly the headings of lower levels and itself
(`OpenAt`, `Under`, `OpenOneMore`, `UnderOneMore`), and that picking places of an ascending
list picks numbers in that order, as `_update_hierarchy` picks what it keeps out of what
was kept before. A section's heading is its first line, or, where that is a cut ayat, a
longer line of the section (`Headed`, `HeadedExtends`), and its hierarchy does not follow
it (section 6). For the chunks, what was kept and what is being filled are together what
has been seen (`Keeping`); closing a chunk moves sections from one to the other
(`JoiningKeeps`, `ClosingKeeps`), and the chunks of two documents are put together
(`ChunksAreKept`). The last part, `ComparingShows`, uses that identities are unique, as
the property does.

`HitsEarned` and `AnswersCited`, for every index, query, question, method and limit;
`CalculationsAssumption` says that they are finite, that sentences are lists, and that
rarity and letters subtract nothing from a score (`retrieval.py:361`, `:456`: logarithms
of one plus something positive). A list sorted by a strict total order of a finite set
has every element at one place: the numbers of elements that come before are all
different (`PlacesAreTaken`, `ListIsInOrder`), so the CHOOSEs of `InOrder` find what
they look for, and so does `BestSentence`. Both orders used are total because they end
with the position. A score above zero is then followed back, through fusion,
normalisation and the reranker's parts, to a shared word, a likeness or a named document
(`ScoresGive`). What a diversified ranking has chosen is one place longer or unchanged
after each choice; `ChoicesExist` shows that the recursive function `Iterated` stands
for exists, again by least counterexamples. Of an answer, the markers and the coverage
are what the code validates before it returns; that quotes are of the evidence they cite
and of different texts comes from `Quotes` and survives sorting and cutting.

Only model-checked: what is temporal under fairness (`SourceGetsServed`, `RequestsEnd`, both
`RunsEnd`), which this prover does not reach. Every other property of a passing run is a
theorem.

## 6. Disagreements

1. `docs/architecture.md:57` "Publication is immutable and idempotent by checksum". A
   response whose bytes changed while its observations did not reuses the published
   silver and gold versions, and the silver-to-gold edge is inserted again: the run
   violates `uq_lineage_edges_versions_transform` and fails, at every interval
   (`pipeline_idempotence`, `pipeline/service.py:268`).
2. `docs/phase-3-status.md:38` "Critical non-waived failures reject a Silver version".
   The status of a silver version is written only with a new row. When a response holds
   the observations of a published one beside a row nobody recognises, its run is rejected
   and opens its incident, but finds the silver version by checksum and leaves it
   `validated` (`pipeline_rejection`, `pipeline/service.py:539`).

Read while modelling, without a run of their own:

- A run that succeeds is moved to its gold version and one that fails is not
  (`pipeline/service.py:284`), while a summary looks for runs by the versions of its data
  set (`control_tower/service.py:313-329`). So the gold data set of an indicator stays
  healthy after the indicator's last run has failed, a silver data set that ever had a
  failed run stays at warning after later successes, and its `last_successful_run_at` is
  never set. `FailureShows` claims what is left of it: silver does not forget a failure.
- A longer repetition of an ayat that was cut off by ". . ." replaces its section's heading
  (`parser.py:97-107`), while the hierarchy recorded when the section was opened keeps the
  cut one: the last of the hierarchy, elsewhere the heading itself
  (`tests/test_regulation_parser.py:46` expects it of a pasal), then is not. Both are
  part of the identity by which versions are compared, so an ayat that is cut in one version
  only is shown as removed and added. `TextIsKept` says so of the two.
- A manifest that goes back to an earlier file is answered `unchanged` while the later
  file's text stays published (`regulasilens/service.py:780`), and a feed that goes back to
  an earlier payload likewise (`pipeline/service.py:371`). No document says which one should
  be served then.
- `docs/architecture.md:96` and `docs/adr/0008` call the limiter fixed-window; the window
  slides (`middleware.py:93`), which admits no more.
- `docs/erd.md:279`: exports name the versions they use. `export_report` scores from one
  context, analyses sensitivity from a second (`opportunity/service.py:174-177`) and names
  the versions of the first. `PartsAreOfOneVersion` holds of each part.
- Two operators who update one incident at once can leave it acknowledged with a time of
  resolution (`control_tower/service.py:243`); `ResolutionIsStamped` excludes such rows.
- Overlapping manifest runs can leave two published texts of one document (each withdraws
  what was committed when its UPDATE started), and a document's metadata and relations of
  different manifests (a run that changes no metadata waits for nobody).
- The route of the evaluation manifest has no handler for an empty corpus: its ValueError
  becomes a 500 where search answers 422.
- A malformed payload raises after bronze was committed and before a run record exists
  (`pipeline/service.py:71`): that failure is in the log only.
- `is_ayat` asks for a heading `(1)` where a word character follows the parenthesis, so
  structure chunks do not join an ayat to its article (`retrieval.py:492`).
- Two sections with one identity overwrite each other when versions are compared
  (`comparison.py:26`): changes of all but the last are not reported. `TextIsKept`
  claims nothing of them.
- Two clusters with one mean are numbered by what the seed left them
  (`regional_analytics/engine.py:199` sorts by mean alone), so runs in complete agreement
  may differ in their numbers; `ClustersAreAgreed` claims the same numbers otherwise.
- The rank of the request itself may lie outside the range of ranks over the
  scenarios, which leave the unperturbed weights out (`opportunity/engine.py:248`).

## 7. Not modelled

- The web frontend, deployment and release scripts: presentation, configuration and
  smoke tests, with no protocol of their own.
- The retry loop, back-off and minimum interval of `bps/client.py`: the loop of one
  caller between two outcomes the pipeline model has (a payload or a failed fetch); its
  numbers are delays, which nothing else depends on.
- Which contract rules fail for which rows: they appear as the set of checks a batch
  fails; each rule is a comparison of one row with a constant.
- The latency window and percentiles, request ids, logs; migrations; catalogue and
  listing queries, which are single SELECTs.
- Patterns of headings and words, PDF extraction, logarithms and hashed vectors of the
  ranking, and wording: data below what the properties tell apart.

## 8. What is left

1. `ApiProcess` composed with `Corpus`, so that the states of the corpus an index may be
   built from are those overlapping runs leave.
2. `BPSClient` as a component, should its delays come to matter (a shared client, a quota).
