------------------------------ MODULE Pipeline ------------------------------
(***************************************************************************)
(* Ingestion of one BPS indicator: scheduled worker replicas and operators *)
(* running the command line drive PipelineService.run against one          *)
(* PostgreSQL database (READ COMMITTED, unique constraints).               *)
(*                                                                         *)
(* A run is four phases: fetch the source, commit the raw evidence         *)
(* (bronze), look for an already published result, and one transaction     *)
(* that gates and publishes.  Rows that a unique constraint protects are   *)
(* keys; a transaction holds its inserted keys in pend[p] until it commits *)
(* them to rows, and an INSERT of a key another transaction holds waits.   *)
(*                                                                         *)
(* processed_at is kept as a rank: stamp[x] is the position of x's         *)
(* timestamp among those in use (0: none), x being a run in flight or a    *)
(* published version.                                                      *)
(***************************************************************************)
EXTENDS Naturals, Sequences

CONSTANTS
  Workers,        \* scheduled worker replicas
  Operators,      \* people running app.pipeline.cli, outside the schedule lock
  Payloads,       \* raw responses, told apart by source identity and byte checksum
  Batches,        \* normalised observations, by source identity and checksum
  BatchOf,        \* [Payloads -> Batches]: what normalize_payload makes of a body
  Malformed,      \* payloads whose metadata breaks the contract (BPSPayloadError)
  Quarantined,    \* payloads with rows no region or composite key recognises
  Checks,         \* codes of the critical checks
  BatchFailures,  \* [Batches -> SUBSET Checks]: checks the observations fail
  Waivable,       \* checks for which an operator may grant an exception
  Feeds,          \* the successions of payloads the source may publish
  Fixtures,       \* payloads of --fixture runs, whose source identity is their own
  Flaky,          \* workers whose lock connection may drop
  MaxFaults       \* bound on crashes, failed fetches and dropped connections

Procs == Workers \union Operators

NoProc == "no process"
NoPayload == "no payload"
QuarantineCheck == "no_quarantined_rows"

ASSUME ConstantsAssumption ==
  /\ Workers \intersect Operators = {}
  /\ NoProc \notin Procs
  /\ BatchOf \in [Payloads -> Batches]
  /\ Malformed \subseteq Payloads
  /\ Quarantined \subseteq Payloads
  /\ NoPayload \notin Payloads
  /\ BatchFailures \in [Batches -> SUBSET Checks]
  /\ QuarantineCheck \in Checks
  /\ Waivable \subseteq Checks
  /\ Feeds \subseteq Seq(Payloads)
  /\ \A f \in Feeds : Len(f) > 0
  /\ Fixtures \subseteq Payloads
  /\ \A f \in Feeds : \A n \in 1..Len(f) : f[n] \notin Fixtures
  /\ \A x \in Fixtures, pl \in Payloads \ Fixtures : BatchOf[x] # BatchOf[pl]
  /\ Flaky \subseteq Workers
  /\ MaxFaults \in Nat
  /\ Procs \intersect Batches = {}

(* Unique keys of the tables a run writes. *)
CatalogKey == <<"catalog">>
DimensionsKey == <<"dimensions">>
BronzeKey(pl) == <<"bronze", pl>>
SilverKey(b) == <<"silver", b>>
QuarantineKey(b) == <<"quarantine", b>>
GoldKey(b) == <<"gold", b>>
BronzeEdge(pl) == <<"bronze to silver", pl, BatchOf[pl]>>
GoldEdge(b) == <<"silver to gold", b, b>>

Keys == {CatalogKey, DimensionsKey}
        \union {BronzeKey(pl) : pl \in Payloads}
        \union {SilverKey(b) : b \in Batches}
        \union {QuarantineKey(b) : b \in Batches}
        \union {GoldKey(b) : b \in Batches}
        \union {BronzeEdge(pl) : pl \in Payloads}
        \union {GoldEdge(b) : b \in Batches}

(* Critical checks a payload fails: evaluate_quality and evaluate_contract. *)
Failing(pl) ==
  BatchFailures[BatchOf[pl]] \union
  (IF pl \in Quarantined THEN {QuarantineCheck} ELSE {})

VARIABLES
  feed,          \* the succession of payloads this source publishes
  revision,      \* index in feed of the payload it serves now
  waivers,       \* checks with an active quality exception
  lockHolder,    \* session holding the schedule advisory lock
  faults,        \* environment faults so far
  rows,          \* committed unique keys
  silverStatus,  \* status column of committed silver versions
  retrievedAt,   \* source revision a published gold version was fetched at (0: none)
  stamp, latest, \* processed_at ranks in use, and how many
  runs,          \* committed pipeline runs with the check results they recorded;
                 \* again: this row repeats an earlier one
  incidents,     \* <<payload, check>> of committed incidents
  pc, got, gotAt, missed, pend, gate, outcome  \* per process

db == <<rows, silverStatus, retrievedAt, runs, incidents>>
clock == <<stamp, latest>>
env == <<feed, revision, waivers, faults>>
local == <<pc, got, gotAt, missed, pend, gate, outcome>>
vars == <<env, lockHolder, db, clock, local>>

(* Stages that SELECT before they INSERT, and those that only INSERT. *)
LookupStagesWithEdges ==    \* mutant of LookupStages
  {"catalog", "bronze", "dimensions", "silver", "quarantine", "gold",
   "bronze edge", "gold edge"}
LookupStages == {"catalog", "bronze", "dimensions", "silver", "quarantine", "gold"}
InsertStages == LookupStages \union {"bronze edge", "gold edge"}
Stages == InsertStages \union
          {"idle", "fetch", "commit bronze", "lookup", "normalize", "gate",
           "commit run", "release"}
Outcomes == {"none", "published", "unchanged", "rejected", "failed", "skipped_locked"}

RunRecords == [payload : Payloads, status : {"succeeded", "failed"},
               waived : SUBSET Checks, failed : SUBSET Checks, again : BOOLEAN]

Init ==
  /\ feed \in Feeds
  /\ revision = 1
  /\ waivers = {}
  /\ lockHolder = NoProc
  /\ faults = 0
  /\ rows = {}
  /\ silverStatus = [b \in Batches |-> "none"]
  /\ retrievedAt = [b \in Batches |-> 0]
  /\ stamp = [x \in Procs \union Batches |-> 0]
  /\ latest = 0
  /\ runs = {}
  /\ incidents = {}
  /\ pc = [p \in Procs |-> "idle"]
  /\ got = [p \in Procs |-> NoPayload]
  /\ gotAt = [p \in Procs |-> 0]
  /\ missed = [p \in Procs |-> FALSE]
  /\ pend = [p \in Procs |-> {}]
  /\ gate = [p \in Procs |-> {}]
  /\ outcome = [p \in Procs |-> "none"]
-----------------------------------------------------------------------------
(* What a run knows of the payload it is processing. *)
Batch(p) == BatchOf[got[p]]
Unwaived(p) == Failing(got[p]) \ gate[p]
Publishable(p) == Unwaived(p) = {}

GoTo(p, stage) == pc' = [pc EXCEPT ![p] = stage]

(* The run's now is kept by no version: the ranks above it close up.      *)
ForgetStamp(p) ==
  IF stamp[p] = 0 THEN UNCHANGED clock
  ELSE /\ stamp' = [x \in DOMAIN stamp |->
                      IF x = p THEN 0
                      ELSE IF stamp[x] > stamp[p] THEN stamp[x] - 1 ELSE stamp[x]]
       /\ latest' = latest - 1

(* The open transaction of p ends, by commit or rollback. *)
LeftOpen(p) == pend    \* mutant of Closed
Closed(p) == [pend EXCEPT ![p] = {}]

(* The run is over for process p: an answer, or an exception on its way out. *)
EndRun(p, result) ==
  /\ GoTo(p, "release")
  /\ outcome' = [outcome EXCEPT ![p] = result]
  /\ missed' = [missed EXCEPT ![p] = FALSE]
  /\ pend' = Closed(p)
  /\ UNCHANGED <<got, gotAt, gate>>

(* An exception rolls the open transaction back. *)
Fail(p) ==
  /\ EndRun(p, "failed")
  /\ ForgetStamp(p)
  /\ UNCHANGED <<env, lockHolder, db>>

-----------------------------------------------------------------------------
(* Scheduling: pg_try_advisory_lock, and the command line without it. *)
LockIgnored == TRUE    \* mutant of LockFree
LockFree == lockHolder = NoProc

(* The lock once the session of p unlocked or ended. *)
NeverUnlocked(p) == lockHolder    \* mutant of Unlocked
Unlocked(p) == IF lockHolder = p THEN NoProc ELSE lockHolder

Acquire(p) ==
  /\ p \in Workers
  /\ pc[p] = "idle"
  /\ LockFree
  /\ lockHolder' = p
  /\ GoTo(p, "fetch")
  /\ UNCHANGED <<env, db, clock, got, gotAt, missed, pend, gate, outcome>>

Skip(p) ==
  /\ p \in Workers
  /\ pc[p] = "idle"
  /\ ~LockFree
  /\ EndRun(p, "skipped_locked")
  /\ UNCHANGED <<env, lockHolder, db, clock>>

StartCli(p) ==
  /\ p \in Operators
  /\ pc[p] = "idle"
  /\ GoTo(p, "fetch")
  /\ UNCHANGED <<env, lockHolder, db, clock, got, gotAt, missed, pend, gate, outcome>>

Retrieve(p, pl) ==
  /\ pc[p] = "fetch"
  /\ got' = [got EXCEPT ![p] = pl]
  /\ gotAt' = [gotAt EXCEPT ![p] = revision]
  /\ GoTo(p, "catalog")
  /\ UNCHANGED <<env, lockHolder, db, clock, missed, pend, gate, outcome>>

Fetch(p) == Retrieve(p, feed[revision])

FetchFixture(p) ==
  /\ p \in Operators
  /\ \E pl \in Fixtures : Retrieve(p, pl)

(* BPSClient gave up: nothing was written. *)
FetchFails(p) ==
  /\ pc[p] = "fetch"
  /\ faults < MaxFaults
  /\ faults' = faults + 1
  /\ EndRun(p, "failed")
  /\ UNCHANGED <<feed, revision, waivers, lockHolder, db, clock>>

-----------------------------------------------------------------------------
(* The get-or-create idiom: a SELECT, then an INSERT if it found nothing. *)
KeyAt(p) ==
  CASE pc[p] = "catalog"     -> CatalogKey
    [] pc[p] = "bronze"      -> BronzeKey(got[p])
    [] pc[p] = "dimensions"  -> DimensionsKey
    [] pc[p] = "silver"      -> SilverKey(Batch(p))
    [] pc[p] = "quarantine"  -> QuarantineKey(Batch(p))
    [] pc[p] = "gold"        -> GoldKey(Batch(p))
    [] pc[p] = "bronze edge" -> BronzeEdge(got[p])
    [] pc[p] = "gold edge"   -> GoldEdge(Batch(p))

AfterSilverUngated(p) == "gold"    \* mutant of AfterSilver
AfterSilver(p) == IF Publishable(p) THEN "gold" ELSE "commit run"

NextStage(p) ==
  CASE pc[p] = "catalog"     -> "bronze"
    [] pc[p] = "bronze"      -> "commit bronze"
    [] pc[p] = "dimensions"  -> "gate"
    [] pc[p] = "silver"      -> IF got[p] \in Quarantined THEN "quarantine" ELSE AfterSilver(p)
    [] pc[p] = "quarantine"  -> AfterSilver(p)
    [] pc[p] = "gold"        -> "bronze edge"
    [] pc[p] = "bronze edge" -> "gold edge"
    [] pc[p] = "gold edge"   -> "commit run"

(* READ COMMITTED: the committed rows and the transaction's own. *)
Visible(p) == rows \union pend[p]

Find(p) ==
  /\ pc[p] \in LookupStages
  /\ ~missed[p]
  /\ IF KeyAt(p) \in Visible(p)
     THEN GoTo(p, NextStage(p)) /\ UNCHANGED missed
     ELSE missed' = [missed EXCEPT ![p] = TRUE] /\ UNCHANGED pc
  /\ UNCHANGED <<env, lockHolder, db, clock, got, gotAt, pend, gate, outcome>>

(* Lineage edges are added without a SELECT. *)
MustInsert(p) == pc[p] \in InsertStages /\ (pc[p] \in LookupStages => missed[p])

(* PostgreSQL makes the INSERT wait while another transaction holds the key. *)
WaitsFor(p, q) == p # q /\ MustInsert(p) /\ KeyAt(p) \in pend[q]

InsertCommitted(p) ==    \* mutant of Insert: no transaction around the inserts
  /\ MustInsert(p)
  /\ KeyAt(p) \notin rows
  /\ rows' = rows \union {KeyAt(p)}
  /\ missed' = [missed EXCEPT ![p] = FALSE]
  /\ GoTo(p, NextStage(p))
  /\ UNCHANGED <<env, lockHolder, silverStatus, retrievedAt, runs, incidents, clock,
                 got, gotAt, pend, gate, outcome>>
Insert(p) ==
  /\ MustInsert(p)
  /\ \A q \in Procs : ~WaitsFor(p, q)
  /\ KeyAt(p) \notin rows
  /\ pend' = [pend EXCEPT ![p] = @ \union {KeyAt(p)}]
  /\ missed' = [missed EXCEPT ![p] = FALSE]
  /\ GoTo(p, NextStage(p))
  /\ UNCHANGED <<env, lockHolder, db, clock, got, gotAt, gate, outcome>>

(* Unique violation: the key was committed since the SELECT. *)
Conflict(p) ==
  /\ MustInsert(p)
  /\ KeyAt(p) \in rows
  /\ Fail(p)
-----------------------------------------------------------------------------
CommitBronze(p) ==
  /\ pc[p] = "commit bronze"
  /\ rows' = rows \union pend[p]
  /\ pend' = Closed(p)
  /\ GoTo(p, "lookup")
  /\ UNCHANGED <<env, lockHolder, silverStatus, retrievedAt, runs, incidents, clock,
                 got, gotAt, missed, gate, outcome>>

(* The lineage of this bronze version reaches a published gold version. *)
SameChecksumPublished(p) == GoldKey(Batch(p)) \in rows    \* mutant of AlreadyPublished
AlreadyPublished(p) == {BronzeEdge(got[p]), GoldEdge(Batch(p))} \subseteq rows

Unchanged(p) ==
  /\ pc[p] = "lookup"
  /\ AlreadyPublished(p)
  /\ EndRun(p, "unchanged")
  /\ UNCHANGED <<env, lockHolder, db, clock>>

NotPublished(p) ==
  /\ pc[p] = "lookup"
  /\ ~AlreadyPublished(p)
  /\ GoTo(p, "normalize")
  /\ UNCHANGED <<env, lockHolder, db, clock, got, gotAt, missed, pend, gate, outcome>>

(* now is read here, before the publishing transaction begins. *)
Normalize(p) ==
  /\ pc[p] = "normalize"
  /\ got[p] \notin Malformed
  /\ stamp' = [stamp EXCEPT ![p] = latest + 1]
  /\ latest' = latest + 1
  /\ GoTo(p, "dimensions")
  /\ UNCHANGED <<env, lockHolder, db, got, gotAt, missed, pend, gate, outcome>>

NormalizeFails(p) ==
  /\ pc[p] = "normalize"
  /\ got[p] \in Malformed
  /\ Fail(p)

(* The active exceptions are read once; the verdict rests on that reading. *)
Gate(p) ==
  /\ pc[p] = "gate"
  /\ gate' = [gate EXCEPT ![p] = waivers]
  /\ GoTo(p, "silver")
  /\ UNCHANGED <<env, lockHolder, db, clock, got, gotAt, missed, pend, outcome>>

(* Every run has a row of its own, so a second one with the same contents   *)
(* is another row; a third is kept as the second (bound).                  *)
RunRecord(p) ==
  LET first == [payload |-> got[p],
                status  |-> IF Publishable(p) THEN "succeeded" ELSE "failed",
                waived  |-> Failing(got[p]) \intersect gate[p],
                failed  |-> Unwaived(p),
                again   |-> FALSE]
  IN  IF first \in runs THEN [first EXCEPT !.again = TRUE] ELSE first

(* A silver version's status is written only by the run that creates it. *)
SilverStatusOfGold(p) ==    \* mutant of SilverStatusOf
  IF Publishable(p) THEN "published" ELSE "rejected"
SilverStatusOf(p) == IF Publishable(p) THEN "validated" ELSE "rejected"

(* Only a new gold version takes this run's timestamps. *)
TouchesGold(p) == GoldKey(Batch(p)) \in rows \union pend[p]    \* mutant of CreatesGold
CreatesGold(p) == GoldKey(Batch(p)) \in pend[p]

CommitRun(p) ==
  /\ pc[p] = "commit run"
  /\ rows' = rows \union pend[p]
  /\ silverStatus' = IF SilverKey(Batch(p)) \in pend[p]
                     THEN [silverStatus EXCEPT ![Batch(p)] = SilverStatusOf(p)]
                     ELSE silverStatus
  /\ runs' = runs \union {RunRecord(p)}
  /\ incidents' = incidents \union {<<got[p], c>> : c \in Unwaived(p)}
  /\ EndRun(p, IF Publishable(p) THEN "published" ELSE "rejected")
  /\ IF CreatesGold(p)
     THEN /\ retrievedAt' = [retrievedAt EXCEPT ![Batch(p)] = gotAt[p]]
          /\ stamp' = [stamp EXCEPT ![Batch(p)] = stamp[p], ![p] = 0]
          /\ UNCHANGED latest
     ELSE ForgetStamp(p) /\ UNCHANGED retrievedAt
  /\ UNCHANGED <<env, lockHolder>>

(* The lock session unlocks in its finally block; the process sleeps or exits. *)
Release(p) ==
  /\ pc[p] = "release"
  /\ lockHolder' = Unlocked(p)
  /\ GoTo(p, "idle")
  /\ got' = [got EXCEPT ![p] = NoPayload]
  /\ gotAt' = [gotAt EXCEPT ![p] = 0]
  /\ gate' = [gate EXCEPT ![p] = {}]
  /\ outcome' = [outcome EXCEPT ![p] = "none"]
  /\ UNCHANGED <<env, db, clock, missed, pend>>
-----------------------------------------------------------------------------
(* The environment: the source, the operators' exceptions, and faults. *)
Revise ==
  /\ revision < Len(feed)
  /\ revision' = revision + 1
  /\ UNCHANGED <<feed, waivers, faults, lockHolder, db, clock, local>>

GrantException(c) ==
  /\ c \in Waivable \ waivers
  /\ waivers' = waivers \union {c}
  /\ UNCHANGED <<feed, revision, faults, lockHolder, db, clock, local>>

ExceptionExpires(c) ==
  /\ c \in waivers
  /\ waivers' = waivers \ {c}
  /\ UNCHANGED <<feed, revision, faults, lockHolder, db, clock, local>>

(* The process dies: its sessions end, its transaction and lock with them. *)
Crash(p) ==
  /\ faults < MaxFaults
  /\ pc[p] # "idle"
  /\ faults' = faults + 1
  /\ lockHolder' = Unlocked(p)
  /\ ForgetStamp(p)
  /\ GoTo(p, "idle")
  /\ got' = [got EXCEPT ![p] = NoPayload]
  /\ gotAt' = [gotAt EXCEPT ![p] = 0]
  /\ missed' = [missed EXCEPT ![p] = FALSE]
  /\ pend' = Closed(p)
  /\ gate' = [gate EXCEPT ![p] = {}]
  /\ outcome' = [outcome EXCEPT ![p] = "none"]
  /\ UNCHANGED <<feed, revision, waivers, db>>

(* The connection of the lock session drops; the run goes on without it. *)
LoseLock(p) ==
  /\ p \in Flaky
  /\ faults < MaxFaults
  /\ lockHolder = p
  /\ lockHolder' = NoProc
  /\ faults' = faults + 1
  /\ UNCHANGED <<feed, revision, waivers, db, clock, local>>
-----------------------------------------------------------------------------
Attempt(p) == Acquire(p) \/ Skip(p)

Progress(p) ==
  \/ Fetch(p) \/ FetchFixture(p) \/ FetchFails(p)
  \/ Find(p) \/ Insert(p) \/ Conflict(p)
  \/ CommitBronze(p) \/ Unchanged(p) \/ NotPublished(p)
  \/ Normalize(p) \/ NormalizeFails(p) \/ Gate(p) \/ CommitRun(p)
  \/ Release(p)

Environment ==
  \/ Revise
  \/ \E c \in Checks : GrantException(c) \/ ExceptionExpires(c)
  \/ \E p \in Procs : Crash(p) \/ LoseLock(p)

Next ==
  \/ \E p \in Procs : Attempt(p) \/ StartCli(p) \/ Progress(p)
  \/ Environment

Spec == Init /\ [][Next]_vars

(* A started run keeps going, and the worker loop attempts a run at every  *)
(* interval.  A transaction that waits for a key is woken when its holder  *)
(* ends, long before that holder's next interval: strong fairness.         *)
(* Operators need not start anything, and faults need not come.            *)
Fairness ==
  /\ \A p \in Procs : WF_vars(Progress(p)) /\ SF_vars(Insert(p))
  /\ \A p \in Workers : WF_vars(Attempt(p))

FairSpec == Spec /\ Fairness
-----------------------------------------------------------------------------
(* The type of every variable. *)
TypeOK ==
  /\ feed \in Feeds
  /\ revision \in 1..Len(feed)
  /\ waivers \subseteq Waivable
  /\ lockHolder \in Workers \union {NoProc}
  /\ faults \in 0..MaxFaults
  /\ rows \subseteq Keys
  /\ silverStatus \in [Batches -> {"none", "validated", "rejected"}]
  /\ retrievedAt \in [Batches -> Nat]
  /\ stamp \in [Procs \union Batches -> Nat]
  /\ latest \in Nat
  /\ \A x \in Procs \union Batches : stamp[x] <= latest
  /\ \A x, y \in Procs \union Batches : x # y /\ stamp[x] # 0 => stamp[x] # stamp[y]
  /\ runs \subseteq RunRecords
  /\ incidents \subseteq Payloads \X Checks
  /\ pc \in [Procs -> Stages]
  /\ got \in [Procs -> Payloads \union {NoPayload}]
  /\ \A p \in Procs : pc[p] \notin {"idle", "fetch", "release"} => got[p] \in Payloads
  /\ gotAt \in [Procs -> Nat]
  /\ missed \in [Procs -> BOOLEAN]
  /\ pend \in [Procs -> SUBSET Keys]
  /\ gate \in [Procs -> SUBSET Waivable]
  /\ outcome \in [Procs -> Outcomes]

Published == {b \in Batches : GoldKey(b) \in rows}

(* "Lineage connects every published downstream version to upstream        *)
(* evidence": a committed gold version has its silver version, the edge    *)
(* between them, and a raw payload it was made from, whatever interleaving *)
(* of runs, conflicts and crashes committed them.                          *)
PublishedHasLineage ==
  \A b \in Published :
    /\ {SilverKey(b), GoldEdge(b)} \subseteq rows
    /\ \E pl \in Payloads :
         BatchOf[pl] = b /\ {BronzeKey(pl), BronzeEdge(pl)} \subseteq rows

(* A gold version exists only because a succeeded run found every critical *)
(* check of some payload of it passed or waived; a run that fails or dies, *)
(* or one that reads a waiver that expires meanwhile, never leaves one.    *)
PublishedPassedGate ==
  \A b \in Published :
    \E r \in runs : /\ BatchOf[r.payload] = b
                    /\ r.status = "succeeded"
                    /\ Failing(r.payload) \subseteq r.waived

(* One publication per checksum: however many processes run the same or an *)
(* equivalent payload at once, one run row succeeds for its gold; a second *)
(* row with the same contents would be marked again, and be another.       *)
OnePublicationPerChecksum ==
  \A r, s \in runs :
    /\ r.status = "succeeded"
    /\ s.status = "succeeded"
    /\ BatchOf[r.payload] = BatchOf[s.payload]
    => r = s

(* What run() answers is true of the committed tables when it answers:     *)
(* published and unchanged name a gold version with lineage from the very  *)
(* bytes this run fetched; rejected left the raw payload, the silver       *)
(* version, its quarantined rows and an incident per check not waived.     *)
OutcomeIsCommitted ==
  \A p \in Procs :
    /\ outcome[p] \in {"published", "unchanged"} =>
         {BronzeKey(got[p]), BronzeEdge(got[p]), GoldKey(Batch(p))} \subseteq rows
    /\ outcome[p] = "rejected" =>
         /\ {BronzeKey(got[p]), SilverKey(Batch(p))} \subseteq rows
         /\ got[p] \in Quarantined => QuarantineKey(Batch(p)) \in rows
         /\ Unwaived(p) # {}
         /\ \A c \in Unwaived(p) : <<got[p], c>> \in incidents

(* "holds a PostgreSQL advisory lock across fetch and publication": two    *)
(* replicas are never both between fetch and publication.                  *)
Busy(p) == pc[p] \notin {"idle", "release"}

OneScheduledRun ==
  \A p, q \in Workers : Busy(p) /\ Busy(q) => p = q

(* The version consumers read: the newest processed_at among published.    *)
Serves(b) == stamp[b] > 0 /\ \A c \in Batches : stamp[c] <= stamp[b]

(* While only lock-holding workers ingest, a version with a later          *)
(* processed_at was fetched no earlier: what consumers read never goes     *)
(* back to an older state of the source.                                   *)
PublishedInSourceOrder ==
  \A b, c \in Published : stamp[b] < stamp[c] => retrievedAt[b] <= retrievedAt[c]

(* "A failed candidate cannot replace the last-known-good Gold version":   *)
(* the served version changes only together with a run that passed.        *)
LastKnownGoodKept ==
  [][\A b \in Batches :
       Serves(b)' /\ ~Serves(b) =>
         \E r \in runs' \ runs : BatchOf[r.payload] = b /\ r.status = "succeeded"]_vars

(* A run that was started ends, whoever else holds its keys.               *)
RunsEnd == \A p \in Procs : Busy(p) ~> ~Busy(p)

(* The schedule catches up: whatever crashed before, the payload the       *)
(* source shows is served, or the source moves on, when it can be.         *)
Clean(pl) == pl \notin Malformed /\ Failing(pl) = {}

SourceGetsServed ==
  \A n \in 1..3 :
    (revision = n /\ Clean(feed[n])) ~> (revision # n \/ Serves(BatchOf[feed[n]]))

(* What an open transaction holds and has written at each stage, which is  *)
(* why its commit publishes a complete version: the strengthening that     *)
(* makes the invariants above inductive.                                   *)
AfterBronze == {"lookup", "normalize", "dimensions", "gate", "silver", "quarantine",
                "gold", "bronze edge", "gold edge", "commit run"}
SilverDone == {"quarantine", "gold", "bronze edge", "gold edge", "commit run"}

Publishes(p) == pc[p] = "commit run" /\ Publishable(p)

HoldsOwnKeys(p) ==
  \A k \in pend[p] :
    \/ pc[p] \in {"bronze", "commit bronze"} /\ k \in {CatalogKey, BronzeKey(got[p])}
    \/ pc[p] \in {"gate", "silver"} \union SilverDone /\ k = DimensionsKey
    \/ pc[p] \in SilverDone /\ k \in {SilverKey(Batch(p)), QuarantineKey(Batch(p))}
    \/ (pc[p] \in {"bronze edge", "gold edge"} \/ Publishes(p)) /\ k = GoldKey(Batch(p))
    \/ (pc[p] = "gold edge" \/ Publishes(p)) /\ k = BronzeEdge(got[p])
    \/ Publishes(p) /\ k = GoldEdge(Batch(p))

HasWritten(p) ==
  /\ pc[p] = "commit bronze" => BronzeKey(got[p]) \in Visible(p)
  /\ pc[p] \in AfterBronze => BronzeKey(got[p]) \in rows
  /\ pc[p] \in SilverDone => SilverKey(Batch(p)) \in Visible(p)
  /\ pc[p] \in SilverDone \ {"quarantine"} /\ got[p] \in Quarantined =>
       QuarantineKey(Batch(p)) \in Visible(p)
  /\ pc[p] \in {"gold", "bronze edge", "gold edge"} => Publishable(p)
  /\ pc[p] \in {"bronze edge", "gold edge"} \/ Publishes(p) => GoldKey(Batch(p)) \in Visible(p)
  /\ pc[p] = "gold edge" \/ Publishes(p) => BronzeEdge(got[p]) \in pend[p]
  /\ Publishes(p) => GoldEdge(Batch(p)) \in pend[p]

TransactionInv ==
  /\ \A p \in Procs : HoldsOwnKeys(p) /\ HasWritten(p) /\ pend[p] \intersect rows = {}
  /\ \A p, q \in Procs : p # q => pend[p] \intersect pend[q] = {}
  /\ \A r \in runs : r.status = "succeeded" => GoldEdge(BatchOf[r.payload]) \in rows

(* The run implements Publication: whatever the processes, conflicts and   *)
(* faults, the committed tables change only as one whole decision does.    *)
Promise == INSTANCE Publication WITH
  CriticalFailures <- [pl \in Payloads |-> Failing(pl)],
  evidence <- {pl \in Payloads : BronzeKey(pl) \in rows},
  catalogue <- Published,
  lineage <- {<<pl, BatchOf[pl]>> : pl \in {q \in Payloads : BronzeEdge(q) \in rows}},
  decisions <- runs,
  complaints <- incidents

PublishesAtomically == Promise!Spec

(* docs/phase-3-status.md: "Critical non-waived failures reject a Silver   *)
(* version": when a run answers rejected, its silver version says so.      *)
RejectionIsMarked ==
  \A p \in Procs : outcome[p] = "rejected" => silverStatus[Batch(p)] = "rejected"

(* docs/architecture.md: "Publication is immutable and idempotent by       *)
(* checksum": a run whose checksum is already published does not fail.     *)
IdempotentByChecksum ==
  \A p \in Procs :
    outcome[p] = "failed" /\ got[p] \in Payloads => Batch(p) \notin Published
=============================================================================
