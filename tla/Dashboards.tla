----------------------------- MODULE Dashboards -----------------------------
(***************************************************************************)
(* Reading dashboards while ingestion and operators write.  A response is  *)
(* put together from several SELECTs, each of which sees what is committed *)
(* when it runs (READ COMMITTED); a run commits its silver and gold        *)
(* versions, its record and its incidents at once (Pipeline).  An operator *)
(* reads an incident, then writes the columns that differ from what was    *)
(* read.  Run n of an indicator stands for its record and its gold version; *)
(* a silver version has the number of the run that first saw its batch.    *)
(* A run's record points to its silver version while it runs and when it   *)
(* fails, and to its gold version once it has succeeded; its incidents and *)
(* check results stay with silver.  What a SELECT returns is such a number, *)
(* 0 for no row.                                                           *)
(***************************************************************************)
EXTENDS Integers, Sequences, FiniteSets, SequencesExt, FiniteSetsExt

CONSTANTS Contracts,    \* the codes of all indicators, sorted
          Indicators,   \* those of the request, in its order
          Readers,      \* requests for a dashboard or report, each once
          Loads,        \* what they ask: functions from Readers to Reports
          Operators,    \* operators who update incidents
          ClosedStatuses, \* of "resolved" and "ignored-with-reason", treated alike
          PeriodsOf(_, _), \* reference periods a gold version has in the year
          MaxRuns,      \* bound: runs of all indicators
          MaxUpdates,   \* bound: incident updates
          FreshnessSla, \* freshness_sla_seconds
          MaxTime       \* bound of the clock

Codes == ToSet(Contracts)
(* Published with coverage at its minimum, published though it is below     *)
(* (waived), or not published.                                             *)
Verdicts == {"clean", "waived", "rejected"}
OpenStatuses == {"open", "acknowledged"}
UpdateStatuses == {"acknowledged"} \union ClosedStatuses
(* The summary of the silver or of the gold data set of an indicator, the   *)
(* indicator's page, and what is computed from observations.               *)
Reports == {"silver", "gold", "indicator", "score", "compare", "export", "analytics"}

ASSUME DashboardAssumption ==
  /\ Contracts \in Seq(Codes) /\ Indicators \in Seq(Codes) /\ Indicators # <<>>
  /\ Loads \subseteq [Readers -> Reports]
  /\ ClosedStatuses \intersect {"none", "open", "acknowledged"} = {}
  /\ MaxRuns \in Nat /\ MaxUpdates \in Nat /\ FreshnessSla \in Nat /\ MaxTime \in Nat
  /\ \A c \in Codes, n \in 1..MaxRuns : PeriodsOf(c, n) \in Nat

(* The contracts are a dict.  A comparison or an analytics request that     *)
(* names an indicator twice is refused, and a score of one ends in an error *)
(* (validate_weights).                                                     *)
ASSUME IndicatorsDiffer ==
  \A codes \in {Contracts, Indicators} : \A i, j \in 1..Len(codes) :
    codes[i] = codes[j] => i = j

VARIABLES runs,       \* committed runs of each indicator, in order
          incidents,  \* the incident a rejected run opened
          now,
          report,     \* what each reader asks
          got,        \* the results of its SELECTs so far
          outcome,    \* "asking", "reading", then the health or HTTP status
          saw,        \* the incident row an operator read
          updates,    \* updates begun, for the bound
          start,      \* history: runs committed when the reading began
          throughout, \* history: incidents open ever since then
          ever,       \* history: incidents open at some time since then
          raced       \* history: incidents updated from an outdated row

tables  == <<runs, incidents, now>>
reading == <<report, got, outcome, start, throughout, ever>>
editing == <<saw, updates, raced>>
vars    == <<tables, reading, editing>>

Rows == Codes \X (1..MaxRuns)
NoRow == [status |-> "none", stamped |-> FALSE]
Nobody == [row |-> <<>>, was |-> NoRow]

Init ==
  /\ runs = [c \in Codes |-> <<>>]
  /\ incidents = [row \in Rows |-> NoRow]
  /\ now = 0
  /\ report \in Loads
  /\ got = [r \in Readers |-> <<>>]
  /\ outcome = [r \in Readers |-> "asking"]
  /\ saw = [o \in Operators |-> Nobody]
  /\ updates = 0
  /\ start = [r \in Readers |-> runs]
  /\ throughout = [r \in Readers |-> {}]
  /\ ever = [r \in Readers |-> {}]
  /\ raced = {}
-----------------------------------------------------------------------------
(* What the SELECTs return. *)

OpenOnlyWhenNew(c) ==    \* mutant of Open: acknowledged incidents are not counted
  {row \in Rows : row[1] = c /\ incidents[row].status = "open"}
Open(c) == {row \in Rows : row[1] = c /\ incidents[row].status \in OpenStatuses}

(* The runs of s that published a gold version. *)
GoodWhateverVerdict(s) == DOMAIN s    \* mutant of Good
Good(s) == {n \in DOMAIN s : s[n].verdict # "rejected"}

(* The silver versions of s; the first run with a batch gave it its status. *)
Versions(s) == {s[n].version : n \in DOMAIN s}
Validated(s) == Versions(s) \intersect Good(s)

(* A check result with status "failed": of a rejected run, or a warning of  *)
(* one that was published.                                                 *)
HasFailedChecks(s, v) == \E n \in DOMAIN s : s[n].version = v /\ s[n].failures

(* What belongs to a data set by its layer. *)
VersionsIn(layer, s) == IF layer = "silver" THEN Versions(s) ELSE Good(s)
GoodIn(layer, s) == IF layer = "silver" THEN Validated(s) ELSE Good(s)
RunsIn(layer, s) == IF layer = "silver" THEN DOMAIN s \ Good(s) ELSE Good(s)

(* ORDER BY ... DESC LIMIT 1 *)
Newest(S) == IF S = {} THEN 0 ELSE CHOOSE n \in S : \A k \in S : k <= n

Statement(what, code, part) == [what |-> what, code |-> code, part |-> part]

(* load_context asks for the version and then the observations of each code; *)
(* it is the part-th context of its report.                                *)
Context(part, codes) ==
  [k \in 1..(2 * Len(codes)) |->
    Statement(IF k % 2 = 1 THEN "version" ELSE "observations", codes[(k + 1) \div 2], part)]

Trends == [i \in DOMAIN Indicators |-> Statement("trends", Indicators[i], 1)]

(* The SELECTs of _dataset_summary and _indicator_summary. *)
Summary(c) == [i \in 1..6 |-> Statement(<<"latest", "last good", "last run",
                 "last success", "incidents", "failed checks">>[i], c, 1)]
Indicator(c) == [i \in 1..3 |-> Statement(<<"version", "coverage", "incidents">>[i], c, 1)]

(* An analytics report is similarity, clusters, the detail of a region (of  *)
(* every contract) and a map.                                              *)
Script(kind) ==
  CASE kind \in {"silver", "gold"} -> Summary(Indicators[1])
    [] kind = "indicator" -> Indicator(Indicators[1])
    [] kind = "score"     -> Context(1, Indicators)
    [] kind = "compare"   -> Context(1, Indicators) \o Trends
    [] kind = "export"    -> Context(1, Indicators) \o Context(2, Indicators)
    [] kind = "analytics" -> Context(1, Indicators) \o Context(2, Indicators)
                             \o Context(3, Contracts) \o Context(4, Indicators)

(* What the statement so named, of the indicator and part of the statement  *)
(* at position i, returned before it.                                      *)
Returned(r, i, what) ==
  LET script == Script(report[r])
      named == Statement(what, script[i].code, script[i].part)
  IN  got[r][Newest({k \in 1..(i - 1) : script[k] = named})]

(* Observations and trends are selected by the id of the version.          *)
RowsOfNewest(r, i) ==    \* mutant of RowsOf
  LET c == Script(report[r])[i].code IN Newest(Good(runs[c]))
RowsOf(r, i) == Returned(r, i, "version")

Result(r, i) ==
  LET s == Script(report[r])[i]
      layer == report[r]
      of == runs[s.code]
  IN  CASE s.what \in {"version", "last good"} -> Newest(GoodIn(layer, of))
        [] s.what = "latest" -> Newest(VersionsIn(layer, of))
        [] s.what = "last run" -> Newest(RunsIn(layer, of))
        [] s.what = "last success" -> Newest(RunsIn(layer, of) \intersect Good(of))
        [] s.what \in {"observations", "trends", "coverage"} -> RowsOf(r, i)
        [] s.what = "incidents" -> IF layer = "gold" THEN 0 ELSE Cardinality(Open(s.code))
        [] s.what = "failed checks" ->
             IF layer = "silver" /\ HasFailedChecks(of, Returned(r, i, "latest")) THEN 1 ELSE 0
-----------------------------------------------------------------------------
(* What a reader makes of them. *)

Fresh(c, n) == now - runs[c][n].at <= FreshnessSla

HealthByIncidents(c, s) ==    \* mutant of Health: failed runs and checks are forgotten
  IF s[5] > 0 THEN "critical"
  ELSE IF s[1] = 0 THEN "unknown"
  ELSE IF Fresh(c, s[1]) THEN "healthy" ELSE "warning"

(* _dataset_summary: results are latest, last good, last run, last success, *)
(* open incidents and failed checks.                                       *)
Health(c, s) ==
  LET latest == s[1]
      stale == latest # 0 /\ ~Fresh(c, latest)
      lastFailed == s[3] # 0 /\ runs[c][s[3]].verdict = "rejected"
  IN  IF s[5] > 0 THEN "critical"
      ELSE IF stale \/ s[6] > 0 \/ lastFailed THEN "warning"
      ELSE IF latest = 0 THEN "unknown" ELSE "healthy"

(* _indicator_summary: version, the version of the coverage rows, open      *)
(* incidents.                                                              *)
QualityStatus(c, s) ==
  IF s[3] > 0 THEN "critical"
  ELSE IF s[1] # 0 /\ runs[c][s[2]].verdict = "clean" THEN "healthy" ELSE "warning"

(* load_context gives up: no published version (422), no observations of    *)
(* the year or several reference periods (409).                            *)
GivesUp(s, n) ==
  CASE s.what = "version" /\ n = 0 -> "422"
    [] s.what = "observations" /\ PeriodsOf(s.code, n) # 1 -> "409"
    [] OTHER -> "reading"

Answer(r, results) ==
  CASE report[r] \in {"silver", "gold"} -> Health(Indicators[1], results)
    [] report[r] = "indicator" -> QualityStatus(Indicators[1], results)
    [] OTHER -> "200"

(* Open incidents of what the reader asks about, for its histories.         *)
Watched(r) ==
  {row \in Rows : /\ report[r] \in {"silver", "indicator"} /\ row[1] = Indicators[1]
                  /\ incidents[row].status \in OpenStatuses}

Ask(r) ==
  /\ outcome[r] = "asking"
  /\ outcome' = [outcome EXCEPT ![r] = "reading"]
  /\ start' = [start EXCEPT ![r] = runs]
  /\ throughout' = [throughout EXCEPT ![r] = Watched(r)]
  /\ ever' = [ever EXCEPT ![r] = Watched(r)]
  /\ UNCHANGED <<tables, report, got, editing>>

(* The next SELECT; the response follows the last without an await.        *)
Select(r) ==
  LET i == Len(got[r]) + 1
      script == Script(report[r])
      results == Append(got[r], Result(r, i))
      goesOn == IF report[r] = "indicator" THEN "reading" ELSE GivesUp(script[i], results[i])
  IN  /\ outcome[r] = "reading"
      /\ got' = [got EXCEPT ![r] = results]
      /\ outcome' = [outcome EXCEPT ![r] =
           IF goesOn # "reading" THEN goesOn
           ELSE IF i = Len(script) THEN Answer(r, results) ELSE "reading"]
      /\ UNCHANGED <<tables, report, start, throughout, ever, editing>>
-----------------------------------------------------------------------------
(* The writers. *)

(* The readers' histories follow the incidents. *)
Observe ==
  /\ throughout' = [r \in Readers |->
       IF outcome[r] = "reading" THEN throughout[r] \intersect Watched(r)' ELSE throughout[r]]
  /\ ever' = [r \in Readers |->
       IF outcome[r] = "reading" THEN ever[r] \union Watched(r)' ELSE ever[r]]

RunsCommitted == MapThenSumSet(LAMBDA c : Len(runs[c]), Codes)

(* PipelineService.run commits: a rejected run opens its incident, and a    *)
(* critical check of it has failed.  A batch may come again and keeps its   *)
(* silver version; one that was published is not published again (the run  *)
(* answers unchanged, or fails), but may be rejected for other rows of its *)
(* response.                                                               *)
CommitRun(c, verdict, failures, version) ==
  LET n == Len(runs[c]) + 1
  IN  /\ RunsCommitted < MaxRuns
      /\ verdict = "rejected" => failures
      /\ verdict # "rejected" => \A k \in Good(runs[c]) : runs[c][k].version # version
      /\ version \in Versions(runs[c]) \union {n}
      /\ runs' = [runs EXCEPT ![c] =
           Append(@, [verdict |-> verdict, failures |-> failures, version |-> version,
                      at |-> now])]
      /\ incidents' = IF verdict = "rejected"
                      THEN [incidents EXCEPT ![<<c, n>>] =
                              [status |-> "open", stamped |-> FALSE]]
                      ELSE incidents
      /\ UNCHANGED <<now, report, got, outcome, start, editing>>
      /\ Observe

(* resolve_incident: session.get, then UPDATE at the flush. *)
GetIncident(o, row) ==
  /\ saw[o] = Nobody /\ incidents[row] # NoRow /\ updates < MaxUpdates
  /\ updates' = updates + 1
  /\ saw' = [saw EXCEPT ![o] = [row |-> row, was |-> incidents[row]]]
  /\ UNCHANGED <<tables, reading, raced>>

(* resolved_at after the assignment. *)
StampedForever(status, was) == status \in ClosedStatuses \/ was    \* mutant of Stamped
Stamped(status, was) == status \in ClosedStatuses

(* A column is written when the object differs from what was read; a new   *)
(* resolved_at always does, and so does a note (left out: nothing reads it). *)
Written(current, was, new) == IF new # was THEN new ELSE current

UpdateIncident(o, status) ==
  LET row == saw[o].row
      was == saw[o].was
      stamped == Stamped(status, was.stamped)
  IN  /\ saw[o] # Nobody
      /\ incidents' = [incidents EXCEPT ![row] =
           [status |-> Written(@.status, was.status, status),
            stamped |-> IF stamped THEN TRUE ELSE Written(@.stamped, was.stamped, FALSE)]]
      /\ saw' = [saw EXCEPT ![o] = Nobody]
      /\ raced' = IF incidents[row] # was THEN raced \union {row} ELSE raced
      /\ UNCHANGED <<runs, now, report, got, outcome, start, updates>>
      /\ Observe

Tick == now < MaxTime /\ now' = now + 1 /\ UNCHANGED <<runs, incidents, reading, editing>>

Next ==
  \/ \E r \in Readers : Ask(r) \/ Select(r)
  \/ \E c \in Codes, verdict \in Verdicts, failures \in BOOLEAN, version \in 1..MaxRuns :
       CommitRun(c, verdict, failures, version)
  \/ \E o \in Operators :
       \/ \E row \in Rows : GetIncident(o, row)
       \/ \E status \in UpdateStatuses : UpdateIncident(o, status)
  \/ Tick

Spec == Init /\ [][Next]_vars
-----------------------------------------------------------------------------
Healths == {"critical", "warning", "unknown", "healthy"}
IncidentRow == [status : {"none", "open"} \union UpdateStatuses,
                stamped : BOOLEAN]

RunRow == [verdict : Verdicts, failures : BOOLEAN, version : 1..MaxRuns, at : 0..MaxTime]

(* The type of every variable. *)
TypeOK ==
  /\ runs \in [Codes -> Seq(RunRow)]
  /\ start \in [Readers -> [Codes -> Seq(RunRow)]]
  /\ incidents \in [Rows -> IncidentRow]
  /\ now \in 0..MaxTime
  /\ report \in [Readers -> Reports]
  /\ got \in [Readers -> Seq(Nat)]
  /\ outcome \in [Readers -> Healths \union {"asking", "reading", "200", "409", "422"}]
  /\ saw \in [Operators -> {Nobody} \union [row : Rows, was : IncidentRow]]
  /\ throughout \in [Readers -> SUBSET Rows] /\ ever \in [Readers -> SUBSET Rows]
  /\ raced \subseteq Rows /\ updates \in 0..MaxUpdates

(* An incident that is open, or acknowledged, from before the first SELECT  *)
(* of a summary or of an indicator's page to its end makes the silver data  *)
(* set, or the indicator, critical, whatever runs and other updates commit  *)
(* between the SELECTs; and nothing is called critical while none was open. *)
OpenIncidentIsCritical ==
  \A r \in Readers :
    outcome[r] \in Healths =>
      /\ throughout[r] # {} => outcome[r] = "critical"
      /\ outcome[r] = "critical" => ever[r] # {}

(* A silver data set is shown healthy only if none of its runs had failed    *)
(* when its summary was asked for, and no check of the version it names,     *)
(* though its incidents are closed and runs commit between the SELECTs.  (A  *)
(* gold data set never shows a failed run: it has none, RunsIn.)            *)
FailureShows ==
  \A r \in Readers :
    LET before == start[r][Indicators[1]]
    IN  report[r] = "silver" /\ outcome[r] = "healthy" =>
          /\ \A n \in DOMAIN before : before[n].verdict # "rejected"
          /\ ~HasFailedChecks(before, got[r][1])

(* Positions in r's script whose SELECT was made and is so named. *)
Selected(r, what) == {i \in DOMAIN got[r] : Script(report[r])[i].what \in what}

(* "Last-known-good remains served": a version a response names was         *)
(* published (or, for silver, validated), and none that was published       *)
(* before the request is newer.                                             *)
VersionsAreGoodAndCurrent ==
  \A r \in Readers :
    \A i \in Selected(r, {"version", "last good"}) :
      LET c == Script(report[r])[i].code
          n == got[r][i]
      IN  /\ n # 0 => runs[c][n].verdict # "rejected"
          /\ \A k \in GoodIn(report[r], start[r][c]) : k <= n

(* docs/erd.md: reports name the versions they use.  What a report computes *)
(* of an indicator from one context, its scores, ranks, features and trends,*)
(* is of one published version, with one period in the year asked for,      *)
(* though newer ones may be published between any two of its SELECTs; and   *)
(* an indicator is shown healthy only by the coverage of its own version.   *)
PartsAreOfOneVersion ==
  \A r \in Readers :
    LET script == Script(report[r])
    IN  /\ outcome[r] = "200" => \A i, j \in DOMAIN script :
             script[i].code = script[j].code /\ script[i].part = script[j].part =>
               /\ got[r][i] = got[r][j] /\ got[r][i] \in Good(runs[script[i].code])
               /\ PeriodsOf(script[i].code, got[r][i]) = 1
        /\ report[r] = "indicator" /\ outcome[r] = "healthy" => got[r][2] = got[r][1]

(* docs/phase-3-status.md: "Incident resolution is auditable: status,       *)
(* resolution note, and resolved_at are persisted".  Unless two operators    *)
(* updated it at once, an incident has a time of resolution if and only if  *)
(* it is closed, through every sequence of updates and reopenings.           *)
ResolutionIsStamped ==
  \A row \in Rows \ raced :
    incidents[row].stamped <=> incidents[row].status \in ClosedStatuses
=============================================================================
