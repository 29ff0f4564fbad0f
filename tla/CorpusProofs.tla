---------------------------- MODULE CorpusProofs ----------------------------
(***************************************************************************)
(* Proofs about Corpus for any documents, files, parsers, manifests and    *)
(* operators, and runs that overlap at every statement; at the end, what   *)
(* holds besides of runs that follow each other.                           *)
(*                                                                         *)
(* The argument: nobody but the transaction that holds a version's row     *)
(* changes its status, and no transaction takes "published" back.  So     *)
(* what a run reads as published stays so, and a text becomes published    *)
(* only in the commit that publishes its version too.                      *)
(***************************************************************************)
EXTENDS Corpus, WellFoundedInduction, NaturalsInduction, TLAPS

(* The types of the tables and of the runs.                                *)
TableType ==
  /\ catalog \in [Documents -> Manifests \union {NoManifest}]
  /\ relations \in [Documents -> SUBSET (Citations \X Nat)]
  /\ versions \in [Versions -> [status : {"none", "published", "rejected"}, processed : Nat,
                                raw : BOOLEAN]]
  /\ texts \in [Texts -> [version : Versions \union {<<>>}, published : BOOLEAN,
                          retrieved : Nat]]
  /\ outcomes \subseteq Versions \X {"succeeded", "failed"}
  /\ quarantine \subseteq Versions \X Reasons

RunType ==
  /\ clock \in Nat
  /\ stage \in [Operators -> Stages]
  /\ job \in [Operators -> Job]
  /\ tx \in [Operators -> Transaction]
  /\ answer \in [Operators -> [status : {"none", "unchanged", "rejected", "published"},
                               version : Versions \union {<<>>}]]

BoundType == started \in Nat /\ faults \in Nat

(* TypeOK in its parts, in this state and the next.                        *)
LEMMA TypeParts == TypeOK <=> TableType /\ RunType /\ BoundType
BY DEF TypeOK, TableType, RunType, BoundType

(* The parts of the type invariant, after a step.                         *)
LEMMA TypePartsPrimed == TypeOK' <=> TableType' /\ RunType' /\ BoundType'
BY DEF TypeOK, TableType, RunType, BoundType

-----------------------------------------------------------------------------
(* What is known of a run at each stage. *)

Storing == {"text", "textrow", "withdraw", "commit"}
Rejecting == {"reject", "rejectversion", "rejectread", "rejected"}
Outside == {"idle", "known", "fetch", "unchanged", "reject", "persist"}
Parsed == {"persist", "version"} \union Storing

VersionRow(o) == <<"version", VersionAt(o)>>

(* A run that goes on is at an entry of its manifest.                      *)
AtAnEntry(o) ==
  stage[o] # "idle" =>
    /\ job[o].manifest \in Manifests /\ job[o].parser \in Parsers
    /\ job[o].at \in 1..Len(EntriesOf(o))

(* Between transactions nothing is held.                                   *)
OutsideHoldsNothing(o) == stage[o] \in Outside => tx[o] = NoTx

(* What was read as new is new as long as its row is held.                 *)
HoldsItsVersion(o) ==
  /\ stage[o] \in Storing => VersionRow(o) \in tx[o].holds
  /\ stage[o] \in Storing \union {"rejectread", "rejected"} /\ tx[o].fresh =>
       VersionRow(o) \in tx[o].holds /\ versions[VersionAt(o)].status = "none"

(* Only the file the manifest names gets past the fetch.                   *)
FileIsReviewed(o) ==
  /\ stage[o] \in {"unchanged"} \union Parsed => job[o].file = EntryAt(o).file
  /\ stage[o] = "unchanged" => job[o].known = job[o].file

(* The known file is that of a version still published.                    *)
KnownIsPublished(o) ==
  stage[o] \in {"fetch", "unchanged"} /\ job[o].known # NoFile =>
    \E v \in Versions : v[1] = DocumentAt(o) /\ v[3] = job[o].known /\ versions[v].status = "published"

(* A rejection has its reason, and found only its own quarantine record.   *)
RejectsForAReason(o) ==
  /\ stage[o] \in Rejecting => job[o].reason \in Reasons
  /\ stage[o] = "rejected" => \A q \in tx[o].seen : q \in quarantine /\ q = <<VersionAt(o), job[o].reason>>

(* Only a well read text withdraws others, of its document, never itself.  *)
WithdrawsOthers(o) ==
  /\ stage[o] = "withdraw" => VerdictAt(o) = "good"
  /\ stage[o] = "commit" =>
       \A t \in tx[o].seen : VerdictAt(o) = "good" /\ t # TextAt(o) /\ t[1] = DocumentAt(o)

RunInv(o) ==
  /\ AtAnEntry(o) /\ OutsideHoldsNothing(o) /\ HoldsItsVersion(o) /\ FileIsReviewed(o)
  /\ KnownIsPublished(o) /\ RejectsForAReason(o) /\ WithdrawsOthers(o)

(* Rows are held by one transaction at a time.                             *)
RowsHeldOnce == \A o, p \in Operators : o # p => tx[o].holds \intersect tx[p].holds = {}

(* No version was processed later than now.                                *)
ProcessedByNow ==
  /\ \A v \in Versions : versions[v].processed <= clock
  /\ \A o \in Operators : tx[o].stamp <= clock

CorpusInv ==
  /\ TypeOK /\ RowsHeldOnce /\ ProcessedByNow /\ PublishedIsGoverned /\ RejectionAudited
  /\ \A o \in Operators : RunInv(o)

-----------------------------------------------------------------------------
(* Lemmas about one step of one run. *)

(* A run at an entry of its manifest is a job.                            *)
LEMMA JobAtType ==
  ASSUME NEW run \in Nat, NEW m \in Manifests \union {NoManifest}, NEW p \in Parsers \union {NoParser},
         NEW at \in Nat
  PROVE  JobAt(run, m, p, at) \in Job
BY DEF JobAt, Job

(* No job and no transaction have types, and hold nothing.                *)
LEMMA NothingTypes ==
  /\ NoJob \in Job /\ NoTx \in Transaction
  /\ NoJob.manifest = NoManifest /\ NoTx.holds = {} /\ NoTx.stamp = 0
BY DEF NoJob, JobAt, NoTx, Job, Transaction

(* At work, a run has an entry, a document and a version.                  *)
LEMMA EntryTypes ==
  ASSUME RunType, NEW o \in Operators, AtAnEntry(o), stage[o] # "idle"
  PROVE  /\ EntriesOf(o) \in Seq(Entry) /\ job[o].at \in 1..Len(EntriesOf(o))
         /\ EntryAt(o) \in Entry /\ DocumentAt(o) \in Documents
         /\ VersionAt(o) \in Versions /\ VersionRow(o) \in Row
         /\ job[o].manifest \in Manifests /\ job[o].parser \in Parsers
<1>1. job[o] \in Job /\ job[o].file \in Files \union {NoFile}
  BY DEF RunType, Job
<1>2. /\ EntriesOf(o) \in Seq(Entry) /\ job[o].at \in 1..Len(EntriesOf(o))
      /\ job[o].manifest \in Manifests /\ job[o].parser \in Parsers
  BY CorpusAssumption DEF AtAnEntry, EntriesOf
<1>3. EntryAt(o) \in Entry
  BY <1>2 DEF EntryAt
<1>4. DocumentAt(o) \in Documents /\ EntryAt(o).url \in Urls
  BY <1>3 DEF Entry, DocumentAt
<1>5. VersionAt(o) \in Versions
  BY <1>1, <1>4 DEF VersionAt, Versions
<1> QED
  BY <1>2, <1>3, <1>4, <1>5 DEF VersionRow, Row

(* A step of o that leads it to stage s with job j and transaction x.      *)
Moves(o, s, j, x) ==
  /\ stage' = [stage EXCEPT ![o] = s]
  /\ job' = [job EXCEPT ![o] = j]
  /\ tx' = [tx EXCEPT ![o] = x]

(* A step that moves one operator leaves the others where they are.       *)
LEMMA Moved ==
  ASSUME RunType, NEW o \in Operators, NEW s \in Stages, NEW j \in Job, NEW x \in Transaction,
         Moves(o, s, j, x)
  PROVE  /\ stage' \in [Operators -> Stages] /\ job' \in [Operators -> Job]
         /\ tx' \in [Operators -> Transaction]
         /\ stage'[o] = s /\ job'[o] = j /\ tx'[o] = x
         /\ \A p \in Operators : p # o => stage'[p] = stage[p] /\ job'[p] = job[p] /\ tx'[p] = tx[p]
BY DEF Moves, RunType

(* What the other runs know outlasts a step that takes no published        *)
(* version, no quarantine record and no held row's status away.            *)
LEMMA OthersKnow ==
  ASSUME NEW p \in Operators, RunInv(p), RunType,
         stage'[p] = stage[p], job'[p] = job[p], tx'[p] = tx[p],
         quarantine \subseteq quarantine',
         \A v \in Versions : versions[v].status = "published" => versions'[v].status = "published",
         VersionRow(p) \in tx[p].holds => versions'[VersionAt(p)].status = versions[VersionAt(p)].status
  PROVE  RunInv(p)'
<1>1. /\ EntriesOf(p)' = EntriesOf(p) /\ EntryAt(p)' = EntryAt(p) /\ DocumentAt(p)' = DocumentAt(p)
      /\ VersionAt(p)' = VersionAt(p) /\ VersionRow(p)' = VersionRow(p)
      /\ TextAt(p)' = TextAt(p) /\ VerdictAt(p)' = VerdictAt(p)
  BY DEF EntriesOf, EntryAt, DocumentAt, VersionAt, VersionRow, TextAt, VerdictAt
<1>2. AtAnEntry(p)' /\ OutsideHoldsNothing(p)' /\ FileIsReviewed(p)'
  BY <1>1 DEF RunInv, AtAnEntry, OutsideHoldsNothing, FileIsReviewed
<1>3. HoldsItsVersion(p)'
  BY <1>1 DEF RunInv, HoldsItsVersion
<1>4. KnownIsPublished(p)'
  BY <1>1 DEF RunInv, KnownIsPublished
<1>5. RejectsForAReason(p)' /\ WithdrawsOthers(p)'
  BY <1>1 DEF RunInv, RejectsForAReason, WithdrawsOthers
<1> QED
  BY <1>2, <1>3, <1>4, <1>5 DEF RunInv

(* A step takes only rows nobody else holds.                               *)
TakesFreeRows(o, x) ==
  x.holds \subseteq tx[o].holds \/ (~Blocked(o) /\ x.holds \subseteq tx[o].holds \union Wants(o))

(* Whoever takes only rows that nobody else holds keeps every row held    *)
(* once.                                                                  *)
LEMMA HeldOnceKept ==
  ASSUME RunType, RowsHeldOnce, NEW o \in Operators, NEW s \in Stages, NEW j \in Job,
         NEW x \in Transaction, Moves(o, s, j, x), TakesFreeRows(o, x)
  PROVE  RowsHeldOnce'
<1>1. ASSUME NEW p \in Operators, p # o PROVE x.holds \intersect tx[p].holds = {}
  BY <1>1 DEF RowsHeldOnce, TakesFreeRows, Blocked, WaitsFor
<1> QED
  BY <1>1, Moved DEF RowsHeldOnce

(* A step that leaves the tables of versions, texts and quarantine alone.  *)
LEMMA QuietStep ==
  ASSUME CorpusInv, NEW o \in Operators, NEW s \in Stages, NEW j \in Job, NEW x \in Transaction,
         Moves(o, s, j, x), TakesFreeRows(o, x), x.stamp <= clock', RunInv(o)',
         UNCHANGED <<versions, texts, quarantine>>,
         outcomes \subseteq outcomes', outcomes' \subseteq Versions \X {"succeeded", "failed"},
         clock' \in Nat, clock <= clock',
         answer' = answer \/ \E a \in [status : {"unchanged"}, version : Versions] :
                               answer' = [answer EXCEPT ![o] = a],
         catalog' \in [Documents -> Manifests \union {NoManifest}],
         relations' \in [Documents -> SUBSET (Citations \X Nat)],
         BoundType'
  PROVE  CorpusInv'
<1>0. TableType /\ RunType /\ RowsHeldOnce
  BY TypeParts DEF CorpusInv
<1>1. TableType'
  BY <1>0 DEF TableType
<1>2. answer' \in [Operators -> [status : {"none", "unchanged", "rejected", "published"},
                                version : Versions \union {<<>>}]]
  BY <1>0 DEF RunType
<1>3. RunType'
  BY <1>0, <1>2, Moved DEF RunType
<1>4. ProcessedByNow'
  <2>0. clock \in Nat /\ ProcessedByNow
    BY <1>0 DEF CorpusInv, RunType
  <2>1. ASSUME NEW v \in Versions PROVE versions'[v].processed <= clock'
    <3>1. versions[v].processed \in Nat /\ versions[v].processed <= clock
      BY <1>0, <2>0 DEF ProcessedByNow, TableType
    <3> QED
      BY <2>0, <3>1
  <2>2. ASSUME NEW p \in Operators PROVE tx'[p].stamp <= clock'
    <3>1. CASE p = o
      BY <1>0, <3>1, Moved
    <3>2. CASE p # o
      <4>1. tx[p].stamp \in Nat /\ tx[p].stamp <= clock /\ tx'[p] = tx[p]
        BY <1>0, <2>0, <3>2, Moved DEF ProcessedByNow, RunType, Transaction
      <4> QED
        BY <2>0, <4>1
    <3> QED
      BY <3>1, <3>2
  <2> QED
    BY <2>1, <2>2 DEF ProcessedByNow
<1>5. PublishedIsGoverned'
  BY DEF CorpusInv, PublishedIsGoverned
<1>6. RejectionAudited'
  BY <1>0 DEF CorpusInv, RejectionAudited, RunType
<1>7. ASSUME NEW p \in Operators PROVE RunInv(p)'
  <2>1. CASE p = o
    BY <2>1
  <2>2. CASE p # o
    <3>1. RunInv(p) /\ stage'[p] = stage[p] /\ job'[p] = job[p] /\ tx'[p] = tx[p]
      BY <1>0, <2>2, Moved DEF CorpusInv
    <3> QED
      BY <1>0, <3>1, OthersKnow
  <2> QED
    BY <2>1, <2>2
<1>8. RowsHeldOnce'
  BY <1>0, HeldOnceKept
<1> QED
  BY <1>1, <1>3, <1>4, <1>5, <1>6, <1>7, <1>8, TypePartsPrimed DEF CorpusInv

(* At the stages before a file is fetched little is known of a run.        *)
LEMMA LightRun ==
  ASSUME RunType, NEW o \in Operators,
         NEW s \in {"idle", "known", "sync", "document", "relations", "replace"},
         NEW j \in Job, NEW x \in Transaction, Moves(o, s, j, x),
         s # "idle" => /\ j.manifest \in Manifests /\ j.parser \in Parsers
                       /\ j.at \in 1..Len(Entries[j.manifest]),
         s \in {"idle", "known"} => x = NoTx
  PROVE  RunInv(o)'
<1>1. s \in Stages
  BY DEF Stages
<1>2. stage'[o] = s /\ job'[o] = j /\ tx'[o] = x
  BY <1>1, Moved
<1> QED
  BY <1>2 DEF RunInv, AtAnEntry, EntriesOf, OutsideHoldsNothing, HoldsItsVersion, FileIsReviewed,
    KnownIsPublished, RejectsForAReason, WithdrawsOthers, Storing, Rejecting, Outside, Parsed

(* A run that ends with an exception or dies disturbs nothing.             *)
LEMMA FailsKeeps ==
  ASSUME CorpusInv, NEW o \in Operators, Fails(o), BoundType'
  PROVE  CorpusInv'
<1>0. TableType /\ RunType
  BY TypeParts DEF CorpusInv
<1>1. Moves(o, "idle", NoJob, NoTx) /\ UNCHANGED <<tables, clock, answer>>
  BY DEF Fails, Goto, InTx, Moves
<1>2. RunInv(o)'
  BY <1>0, <1>1, LightRun, NothingTypes
<1>3. TakesFreeRows(o, NoTx) /\ NoTx.stamp <= clock' /\ clock' \in Nat /\ clock <= clock'
  BY <1>0, <1>1, NothingTypes DEF TakesFreeRows, RunType
<1>4. "idle" \in Stages
  BY DEF Stages
<1> QED
  BY <1>0, <1>1, <1>2, <1>3, <1>4, NothingTypes, QuietStep DEF tables, TableType

(* A run that answers goes on with the next document, or is done.          *)
LEMMA AnswersMoves ==
  ASSUME RunType, NEW o \in Operators, AtAnEntry(o), stage[o] # "idle",
         NEW status, NEW v, Answers(o, status, v)
  PROVE  /\ RunInv(o)'
         /\ \E s \in Stages, j \in Job : Moves(o, s, j, NoTx)
         /\ answer' = [answer EXCEPT ![o] = [status |-> status, version |-> v]]
<1>1. CASE More(o)
  <2> DEFINE j == JobAt(job[o].run, job[o].manifest, job[o].parser, job[o].at + 1)
  <2>0. job[o] \in Job /\ job[o].run \in Nat
    BY DEF RunType, Job
  <2>1. /\ job[o].at \in Nat /\ job[o].at + 1 \in 1..Len(Entries[job[o].manifest])
        /\ job[o].manifest \in Manifests /\ job[o].parser \in Parsers
    <3>1. /\ EntriesOf(o) \in Seq(Entry) /\ job[o].at \in 1..Len(EntriesOf(o))
          /\ job[o].manifest \in Manifests /\ job[o].parser \in Parsers
      BY EntryTypes
    <3>2. job[o].at < Len(EntriesOf(o)) /\ Len(EntriesOf(o)) \in Nat
      BY <1>1, <3>1 DEF More
    <3> QED
      BY <3>1, <3>2 DEF EntriesOf
  <2>2. j \in Job /\ j.manifest = job[o].manifest /\ j.parser = job[o].parser /\ j.at = job[o].at + 1
    <3>1. job[o].at + 1 \in Nat
      BY <2>1
    <3>2. j \in Job
      BY <2>0, <2>1, <3>1, JobAtType
    <3> QED
      BY <3>2 DEF JobAt
  <2>3. Moves(o, "known", j, NoTx)
    BY <1>1 DEF Answers, Goto, InTx, Moves
  <2> HIDE DEF j
  <2>4. RunInv(o)'
    BY <2>1, <2>2, <2>3, LightRun, NothingTypes
  <2> QED
    BY <2>2, <2>3, <2>4 DEF Answers, Stages
<1>2. CASE ~More(o)
  <2>1. Moves(o, "idle", NoJob, NoTx)
    BY <1>2 DEF Answers, Goto, InTx, Moves
  <2>2. RunInv(o)'
    BY <2>1, LightRun, NothingTypes
  <2> QED
    BY <2>1, <2>2, NothingTypes DEF Answers, Stages
<1> QED
  BY <1>1, <1>2

(* An answer "unchanged" adds a succeeded run and nothing else.            *)
LEMMA UnchangedKeeps ==
  ASSUME CorpusInv, NEW o \in Operators, stage[o] # "idle", NEW v \in Versions,
         outcomes' = outcomes \union {<<v, "succeeded">>}, Answers(o, "unchanged", v),
         UNCHANGED <<catalog, relations, versions, texts, quarantine, clock>>, BoundType'
  PROVE  CorpusInv'
<1>0. TableType /\ RunType /\ AtAnEntry(o)
  BY TypeParts DEF CorpusInv, RunInv
<1>1. PICK s \in Stages, j \in Job : Moves(o, s, j, NoTx)
  BY <1>0, AnswersMoves
<1>2. RunInv(o)' /\ answer' = [answer EXCEPT ![o] = [status |-> "unchanged", version |-> v]]
  BY <1>0, AnswersMoves
<1>3. TakesFreeRows(o, NoTx) /\ NoTx.stamp <= clock' /\ clock' \in Nat /\ clock <= clock'
  BY <1>0, NothingTypes DEF TakesFreeRows, RunType
<1>4. [status |-> "unchanged", version |-> v] \in [status : {"unchanged"}, version : Versions]
  OBVIOUS
<1>5. outcomes \subseteq outcomes' /\ outcomes' \subseteq Versions \X {"succeeded", "failed"}
  BY <1>0 DEF TableType
<1> QED
  BY <1>0, <1>1, <1>2, <1>3, <1>4, <1>5, NothingTypes, QuietStep DEF TableType

(* Of the published versions of a document one was processed last.         *)
LEMMA LatestExists ==
  ASSUME TableType, RunType, ProcessedByNow, NEW d \in Documents, PublishedVersions(d) # {}
  PROVE  LatestOf(d) # {}
<1> DEFINE Ages == {clock - versions[v].processed : v \in PublishedVersions(d)}
<1>1. clock \in Nat /\ \A v \in PublishedVersions(d) :
        versions[v].processed \in Nat /\ versions[v].processed <= clock
  BY DEF PublishedVersions, TableType, RunType, ProcessedByNow
<1>2. Ages \subseteq Nat /\ Ages # {}
  BY <1>1
<1> HIDE DEF Ages
<1>3. PICK a \in Ages : \A b \in Ages : ~(<<b, a>> \in OpToRel(<, Nat))
  BY <1>2, NatLessThanWellFounded, WFMin
<1>4. \A b \in Ages : ~(b < a)
  BY <1>2, <1>3, Zenon DEF OpToRel
<1>8. \A b \in Ages : a <= b
  BY <1>2, <1>4
<1>5. PICK v \in PublishedVersions(d) : a = clock - versions[v].processed
  BY DEF Ages
<1>6. \A w \in PublishedVersions(d) : clock - versions[v].processed <= clock - versions[w].processed
  BY <1>8, <1>5 DEF Ages
<1>7. v \in LatestOf(d)
  BY <1>1, <1>6 DEF LatestOf
<1> QED
  BY <1>7

(* A published version of a document has its known file.                   *)
LEMMA KnownIsOfPublished ==
  ASSUME TableType, RunType, ProcessedByNow, NEW d \in Documents, Known(d) # NoFile
  PROVE  /\ Known(d) \in Files \union {NoFile}
         /\ \E v \in Versions : v[1] = d /\ v[3] = Known(d) /\ versions[v].status = "published"
<1>1. PublishedVersions(d) # {}
  BY DEF Known
<1>2. LatestOf(d) # {}
  BY <1>1, LatestExists
<1> DEFINE v == CHOOSE w \in LatestOf(d) : TRUE
<1>3. v \in LatestOf(d)
  BY <1>2
<1>4. v \in Versions /\ v[1] = d /\ versions[v].status = "published"
  BY <1>3 DEF LatestOf, PublishedVersions
<1>5. Known(d) = v[3]
  BY <1>1 DEF Known
<1> HIDE DEF v
<1>6. v[3] \in Files \union {NoFile}
  BY <1>4 DEF Versions
<1> QED
  BY <1>4, <1>5, <1>6

(* A step within a transaction that changes no table.                      *)
LEMMA InnerStep ==
  ASSUME CorpusInv, NEW o \in Operators, NEW s \in Stages, NEW j \in Job, NEW x \in Transaction,
         Moves(o, s, j, x), TakesFreeRows(o, x), x.stamp = tx[o].stamp, RunInv(o)',
         UNCHANGED <<tables, clock, answer>>, BoundType'
  PROVE  CorpusInv'
<1>0. TableType /\ RunType /\ x.stamp <= clock
  BY TypeParts DEF CorpusInv, ProcessedByNow
<1>1. clock \in Nat /\ clock' = clock
  BY <1>0 DEF RunType
<1> QED
  BY <1>0, <1>1, QuietStep DEF tables, TableType

-----------------------------------------------------------------------------
(* The steps of the catalogue's transaction. *)

(* Starting a run keeps the invariant.                                    *)
LEMMA StartKeeps ==
  ASSUME CorpusInv, NEW o \in Operators, Start(o), UNCHANGED faults
  PROVE  CorpusInv'
<1>0. TableType /\ RunType /\ BoundType
  BY TypeParts DEF CorpusInv
<1>1. PICK m \in Manifests, p \in Parsers : job' = [job EXCEPT ![o] = JobAt(started + 1, m, p, 1)]
  BY DEF Start
<1> DEFINE j == JobAt(started + 1, m, p, 1)
<1>2. j \in Job /\ BoundType'
  BY <1>0, JobAtType DEF BoundType, Start
<1>3. j.manifest = m /\ j.parser = p /\ j.at = 1 /\ 1 \in 1..Len(Entries[m])
  BY CorpusAssumption DEF JobAt
<1>4. Moves(o, "sync", j, tx[o]) /\ tx[o] \in Transaction /\ "sync" \in Stages
  BY <1>0, <1>1 DEF Start, Goto, Moves, RunType, Stages
<1> HIDE DEF j
<1>5. RunInv(o)'
  BY <1>0, <1>2, <1>3, <1>4, LightRun
<1> QED
  BY <1>2, <1>4, <1>5, InnerStep DEF TakesFreeRows, Start

(* Going on to the next entry moves one operator, to a stage that fits it.*)
LEMMA NextEntryMoves ==
  ASSUME RunType, NEW o \in Operators, AtAnEntry(o), stage[o] # "idle",
         NEW x \in Transaction, NextEntry(o), tx' = [tx EXCEPT ![o] = x]
  PROVE  \E s \in Stages, j \in Job : Moves(o, s, j, x) /\ RunInv(o)'
<1>1. /\ EntriesOf(o) \in Seq(Entry) /\ job[o].at \in 1..Len(EntriesOf(o))
      /\ job[o].manifest \in Manifests /\ job[o].parser \in Parsers /\ job[o] \in Job
  BY EntryTypes DEF RunType
<1>2. CASE More(o)
  <2> DEFINE j == [job[o] EXCEPT !.at = @ + 1]
  <2>6. job[o].at \in Nat
    BY DEF RunType, Job
  <2>5. job[o].at + 1 \in Nat
    BY <2>6
  <2>1. j \in Job /\ j.manifest = job[o].manifest /\ j.parser = job[o].parser /\ j.at = job[o].at + 1
    BY <1>1, <2>5 DEF Job
  <2>2. j.at \in 1..Len(Entries[j.manifest])
    <3>1. job[o].at < Len(EntriesOf(o)) /\ Len(EntriesOf(o)) \in Nat
      BY <1>1, <1>2 DEF More
    <3> QED
      BY <1>1, <2>1, <3>1 DEF EntriesOf
  <2>3. Moves(o, "sync", j, x)
    BY <1>2 DEF NextEntry, Goto, Moves
  <2> HIDE DEF j
  <2>4. RunInv(o)'
    BY <1>1, <2>1, <2>2, <2>3, LightRun
  <2> QED
    BY <2>1, <2>3, <2>4 DEF Stages
<1>3. CASE ~More(o)
  <2> DEFINE j == [job[o] EXCEPT !.at = 1]
  <2>1. j \in Job /\ j.manifest = job[o].manifest /\ j.parser = job[o].parser /\ j.at = 1
    BY <1>1 DEF Job
  <2>2. j.at \in 1..Len(Entries[j.manifest])
    BY <1>1, <2>1 DEF EntriesOf
  <2>3. Moves(o, "relations", j, x)
    BY <1>3 DEF NextEntry, Goto, Moves
  <2> HIDE DEF j
  <2>4. RunInv(o)'
    BY <1>1, <2>1, <2>2, <2>3, LightRun
  <2> QED
    BY <2>1, <2>3, <2>4 DEF Stages
<1> QED
  BY <1>2, <1>3

(* Writing documents and reading relations keep the invariant.            *)
LEMMA CatalogueKeeps ==
  ASSUME CorpusInv, NEW o \in Operators, UNCHANGED <<started, faults>>,
         SyncDocument(o) \/ WriteDocument(o) \/ ReadRelations(o)
  PROVE  CorpusInv'
<1>0. /\ TableType /\ RunType /\ BoundType' /\ AtAnEntry(o)
      /\ tx[o] \in Transaction /\ job[o] \in Job
  BY TypeParts DEF CorpusInv, RunInv, RunType, BoundType
<1>1. CASE SyncDocument(o)
  <2>1. CASE NextEntry(o) /\ UNCHANGED tx
    <3>1. stage[o] = "sync" /\ tx' = [tx EXCEPT ![o] = tx[o]] /\ UNCHANGED <<tables, clock, answer>>
      BY <1>0, <1>1, <2>1 DEF SyncDocument, RunType
    <3>2. PICK s \in Stages, j \in Job : Moves(o, s, j, tx[o]) /\ RunInv(o)'
      BY <1>0, <2>1, <3>1, NextEntryMoves
    <3> QED
      BY <1>0, <3>1, <3>2, InnerStep DEF TakesFreeRows
  <2>2. CASE ~(NextEntry(o) /\ UNCHANGED tx)
    <3> DEFINE x == [tx[o] EXCEPT !.fresh = (catalog[DocumentAt(o)] = NoManifest)]
    <3>1. stage[o] = "sync" /\ Goto(o, "document") /\ InTx(o, x) /\ UNCHANGED <<job, tables, clock, answer>>
      BY <1>1, <2>2 DEF SyncDocument
    <3>2. x \in Transaction /\ x.holds = tx[o].holds /\ x.stamp = tx[o].stamp
      BY <1>0 DEF Transaction
    <3> HIDE DEF x
    <3>3. Moves(o, "document", job[o], x) /\ "document" \in Stages
      BY <1>0, <3>1 DEF Goto, InTx, Moves, RunType, Stages
    <3>4. stage'[o] = "document" /\ job'[o] = job[o]
      BY <1>0, <3>2, <3>3, Moved
    <3>5. RunInv(o)'
      BY <1>0, <3>1, <3>4 DEF RunInv, AtAnEntry, EntriesOf, OutsideHoldsNothing, HoldsItsVersion,
        FileIsReviewed, KnownIsPublished, RejectsForAReason, WithdrawsOthers, Storing, Rejecting,
        Outside, Parsed
    <3> QED
      BY <1>0, <3>1, <3>2, <3>3, <3>5, InnerStep DEF TakesFreeRows
  <2> QED
    BY <2>1, <2>2
<1>2. CASE WriteDocument(o)
  <2>1. CASE Fails(o)
    BY <1>0, <2>1, FailsKeeps
  <2>2. CASE ~Fails(o)
    <3>1. /\ stage[o] = "document" /\ ~Blocked(o) /\ InTx(o, Writing(o)) /\ NextEntry(o)
          /\ UNCHANGED <<tables, clock, answer>>
      BY <1>2, <2>2 DEF WriteDocument
    <3>2. DocumentAt(o) \in Documents /\ Wants(o) = {<<"document", DocumentAt(o)>>}
      BY <1>0, <3>1, EntryTypes DEF Wants
    <3>3. /\ Writing(o) \in Transaction /\ Writing(o).stamp = tx[o].stamp
          /\ Writing(o).holds = tx[o].holds \union Wants(o)
      BY <1>0, <3>2 DEF Writing, Transaction, Row
    <3>4. PICK s \in Stages, j \in Job : Moves(o, s, j, Writing(o)) /\ RunInv(o)'
      BY <1>0, <3>1, <3>3, NextEntryMoves DEF InTx
    <3> QED
      BY <1>0, <3>1, <3>3, <3>4, InnerStep DEF TakesFreeRows
  <2> QED
    BY <2>1, <2>2
<1>3. CASE ReadRelations(o)
  <2> DEFINE x == [tx[o] EXCEPT !.seen = ReadsRelations(o)]
  <2>1. stage[o] = "relations" /\ Goto(o, "replace") /\ InTx(o, x) /\ UNCHANGED <<tables, clock, job, answer>>
    BY <1>3 DEF ReadRelations
  <2>2. ReadsRelations(o) \subseteq Relations
    <3>1. \A d \in DocumentsOf(job[o].manifest) : d \in Documents
      <4>1. job[o].manifest \in Manifests /\ EntriesOf(o) \in Seq(Entry)
        BY <1>0, <2>1, EntryTypes
      <4>2. \A i \in 1..Len(EntriesOf(o)) : EntriesOf(o)[i] \in Entry
        BY <4>1
      <4>3. \A i \in 1..Len(EntriesOf(o)) : EntriesOf(o)[i].document \in Documents
        BY <4>2 DEF Entry
      <4> QED
        BY <4>3 DEF DocumentsOf, EntriesOf
    <3> QED
      BY <1>0, <3>1 DEF ReadsRelations, Relations, TableType
  <2>3. x \in Transaction /\ x.holds = tx[o].holds /\ x.stamp = tx[o].stamp
    BY <1>0, <2>2 DEF Transaction
  <2> HIDE DEF x
  <2>4. Moves(o, "replace", job[o], x) /\ "replace" \in Stages
    BY <1>0, <2>1 DEF Goto, InTx, Moves, RunType, Stages
  <2>5. RunInv(o)'
    BY <1>0, <2>1, <2>3, <2>4, LightRun DEF AtAnEntry, EntriesOf
  <2> QED
    BY <1>0, <2>1, <2>3, <2>4, <2>5, InnerStep DEF TakesFreeRows
<1> QED
  BY <1>1, <1>2, <1>3

(* A step that stays at the entry.                                         *)
LEMMA AtTheEntry ==
  ASSUME RunType, NEW o \in Operators, AtAnEntry(o), stage[o] # "idle",
         NEW s \in Stages, NEW j \in Job, NEW x \in Transaction, Moves(o, s, j, x),
         j.manifest = job[o].manifest, j.parser = job[o].parser, j.at = job[o].at
  PROVE  /\ AtAnEntry(o)' /\ EntryAt(o)' = EntryAt(o) /\ DocumentAt(o)' = DocumentAt(o)
         /\ stage'[o] = s /\ job'[o] = j /\ tx'[o] = x
         /\ VersionAt(o)' = <<DocumentAt(o), EntryAt(o).url, j.file>>
         /\ j.file = job[o].file =>
              /\ VersionAt(o)' = VersionAt(o) /\ VersionRow(o)' = VersionRow(o)
              /\ TextAt(o)' = TextAt(o) /\ VerdictAt(o)' = VerdictAt(o)
<1>1. stage'[o] = s /\ job'[o] = j /\ tx'[o] = x
  BY Moved
<1>2. EntriesOf(o)' = EntriesOf(o) /\ EntryAt(o)' = EntryAt(o) /\ DocumentAt(o)' = DocumentAt(o)
  BY <1>1 DEF EntriesOf, EntryAt, DocumentAt
<1> QED
  BY <1>1, <1>2 DEF AtAnEntry, VersionAt, VersionRow, TextAt, VerdictAt

(* Replacing the relations keeps the invariant.                           *)
LEMMA ReplaceKeeps ==
  ASSUME CorpusInv, NEW o \in Operators, ReplaceRelations(o), UNCHANGED <<started, faults>>
  PROVE  CorpusInv'
<1>0. TableType /\ RunType /\ BoundType' /\ AtAnEntry(o) /\ stage[o] = "replace" /\ job[o] \in Job
  BY TypeParts DEF CorpusInv, RunInv, RunType, BoundType, ReplaceRelations
<1>1. CASE Fails(o)
  BY <1>0, <1>1, FailsKeeps
<1>2. CASE ~Fails(o)
  <2> DEFINE m == job[o].manifest
  <2>1. /\ InTx(o, NoTx) /\ Goto(o, "known") /\ UNCHANGED <<versions, texts, outcomes, quarantine, clock, job, answer>>
        /\ catalog' = [d \in Documents |-> IF <<"document", d>> \in tx[o].holds THEN m ELSE catalog[d]]
        /\ relations' = [d \in Documents |->
             IF d \in DocumentsOf(m)
             THEN {r \in relations[d] : <<d, r>> \notin tx[o].seen}
                    \union {<<c, job[o].run>> : c \in RelationsOf[m][d]}
             ELSE relations[d]]
    BY <1>2 DEF ReplaceRelations
  <2>2. m \in Manifests /\ job[o].run \in Nat
    BY <1>0, EntryTypes DEF Job
  <2>3. \A d \in Documents : RelationsOf[m][d] \subseteq Citations
    BY <2>2, CorpusAssumption
  <2>4. catalog' \in [Documents -> Manifests \union {NoManifest}]
    BY <1>0, <2>1, <2>2 DEF TableType
  <2>5. relations' \in [Documents -> SUBSET (Citations \X Nat)]
    BY <1>0, <2>1, <2>2, <2>3 DEF TableType
  <2>6. Moves(o, "known", job[o], NoTx) /\ "known" \in Stages
    BY <1>0, <2>1 DEF Goto, InTx, Moves, RunType, Stages
  <2>7. RunInv(o)'
    BY <1>0, <2>6, LightRun, NothingTypes DEF AtAnEntry, EntriesOf
  <2>8. TakesFreeRows(o, NoTx) /\ NoTx.stamp <= clock' /\ clock' \in Nat /\ clock <= clock'
    BY <1>0, <2>1, NothingTypes DEF TakesFreeRows, RunType
  <2> QED
    BY <1>0, <2>1, <2>4, <2>5, <2>6, <2>7, <2>8, NothingTypes, QuietStep DEF TableType
<1> QED
  BY <1>1, <1>2

-----------------------------------------------------------------------------
(* The steps up to a decision about the document. *)

(* Looking for the known version keeps the invariant.                     *)
LEMMA ReadKnownKeeps ==
  ASSUME CorpusInv, NEW o \in Operators, ReadKnown(o), UNCHANGED <<started, faults>>
  PROVE  CorpusInv'
<1>0. /\ TableType /\ RunType /\ BoundType' /\ AtAnEntry(o) /\ ProcessedByNow
      /\ stage[o] = "known" /\ job[o] \in Job /\ tx[o] = NoTx
  BY TypeParts DEF CorpusInv, RunInv, RunType, BoundType, ReadKnown, OutsideHoldsNothing, Outside
<1> DEFINE known == Known(DocumentAt(o))
<1> DEFINE j == [job[o] EXCEPT !.known = known]
<1>1. DocumentAt(o) \in Documents
  BY <1>0, EntryTypes
<1>2. /\ known \in Files \union {NoFile}
      /\ known # NoFile => \E v \in Versions : v[1] = DocumentAt(o) /\ v[3] = known /\ versions[v].status = "published"
  BY <1>0, <1>1, KnownIsOfPublished
<1>3. /\ j \in Job /\ j.manifest = job[o].manifest /\ j.parser = job[o].parser /\ j.at = job[o].at
      /\ j.known = known
  BY <1>0, <1>2 DEF Job
<1>4. Moves(o, "fetch", j, NoTx) /\ "fetch" \in Stages /\ UNCHANGED <<tables, clock, answer>>
  BY <1>0 DEF ReadKnown, Goto, Moves, RunType, Stages
<1> HIDE DEF j, known
<1>5. /\ AtAnEntry(o)' /\ DocumentAt(o)' = DocumentAt(o)
      /\ stage'[o] = "fetch" /\ job'[o] = j /\ tx'[o] = NoTx
  BY <1>0, <1>3, <1>4, AtTheEntry, NothingTypes
<1>6. RunInv(o)'
  BY <1>2, <1>3, <1>4, <1>5 DEF tables, RunInv, OutsideHoldsNothing, HoldsItsVersion, FileIsReviewed,
    KnownIsPublished, RejectsForAReason, WithdrawsOthers, Storing, Rejecting, Parsed
<1> QED
  BY <1>0, <1>3, <1>4, <1>6, NothingTypes, InnerStep DEF TakesFreeRows

(* Whatever was fetched, the run rejects it, knows it or parses it.        *)
LEMMA FetchKeeps ==
  ASSUME CorpusInv, NEW o \in Operators, Fetch(o), UNCHANGED <<started, faults>>
  PROVE  CorpusInv'
<1>0. /\ TableType /\ RunType /\ BoundType' /\ AtAnEntry(o) /\ KnownIsPublished(o)
      /\ stage[o] = "fetch" /\ job[o] \in Job /\ tx[o] = NoTx /\ clock \in Nat
  BY TypeParts DEF CorpusInv, RunInv, RunType, BoundType, Fetch, OutsideHoldsNothing, Outside
<1>1. EntryAt(o).file \in Files /\ NoFile \notin Files
  BY <1>0, EntryTypes, CorpusAssumption DEF Entry
<1>2. UNCHANGED <<tables, tx, answer>>
  BY DEF Fetch
<1>3. ASSUME NEW s \in {"reject", "unchanged", "persist"}, NEW j \in Job, Moves(o, s, j, NoTx),
             j.manifest = job[o].manifest, j.parser = job[o].parser, j.at = job[o].at,
             j.known = job[o].known, s = "reject" => j.reason \in Reasons,
             s # "reject" => j.file = EntryAt(o).file, s = "unchanged" => j.known = j.file,
             clock' \in Nat, clock <= clock'
      PROVE  CorpusInv'
  <2>1. s \in Stages
    BY DEF Stages
  <2>2. /\ AtAnEntry(o)' /\ DocumentAt(o)' = DocumentAt(o) /\ EntryAt(o)' = EntryAt(o)
        /\ stage'[o] = s /\ job'[o] = j /\ tx'[o] = NoTx
    BY <1>0, <1>3, <2>1, AtTheEntry, NothingTypes
  <2>3. RunInv(o)'
    BY <1>0, <1>2, <1>3, <2>2 DEF tables, RunInv, OutsideHoldsNothing, HoldsItsVersion, FileIsReviewed,
      KnownIsPublished, RejectsForAReason, WithdrawsOthers, Storing, Rejecting, Parsed
  <2>4. TakesFreeRows(o, NoTx) /\ NoTx.stamp <= clock'
    BY <1>0, <1>3, NothingTypes DEF TakesFreeRows
  <2> QED
    BY <1>0, <1>2, <1>3, <2>1, <2>3, <2>4, NothingTypes, QuietStep DEF tables, TableType
<1>4. ASSUME NEW file \in Files \union {NoFile}, NEW reason \in Reasons \union {"none"},
             NEW s \in {"reject", "unchanged"}, Fetched(o, file, reason, s),
             s = "reject" => reason \in Reasons,
             s = "unchanged" => file = EntryAt(o).file /\ job[o].known = file
      PROVE  CorpusInv'
  <2> DEFINE j == [job[o] EXCEPT !.file = file, !.reason = reason]
  <2>1. /\ j \in Job /\ j.manifest = job[o].manifest /\ j.parser = job[o].parser /\ j.at = job[o].at
        /\ j.known = job[o].known /\ j.file = file /\ j.reason = reason
    BY <1>0 DEF Job
  <2>2. Moves(o, s, j, NoTx) /\ clock' = clock
    BY <1>0, <1>2, <1>4 DEF Fetched, Goto, Moves, RunType
  <2> HIDE DEF j
  <2>3. clock' \in Nat /\ clock <= clock'
    BY <1>0, <2>2
  <2>4. /\ s = "reject" => j.reason \in Reasons
        /\ s # "reject" => j.file = EntryAt(o).file
        /\ s = "unchanged" => j.known = j.file
    BY <1>4, <2>1
  <2>5. s \in {"reject", "unchanged", "persist"}
    OBVIOUS
  <2> QED
    BY <1>3, <2>1, <2>2, <2>3, <2>4, <2>5
<1>5. CASE /\ job' = [job EXCEPT ![o].file = EntryAt(o).file, ![o].retrieved = clock + 1]
           /\ Goto(o, "persist") /\ clock' = clock + 1
  <2> DEFINE j == [job[o] EXCEPT !.file = EntryAt(o).file, !.retrieved = clock + 1]
  <2>0. clock + 1 \in Nat
    BY <1>0
  <2>1. /\ j \in Job /\ j.manifest = job[o].manifest /\ j.parser = job[o].parser /\ j.at = job[o].at
        /\ j.known = job[o].known /\ j.file = EntryAt(o).file
    BY <1>0, <1>1, <2>0 DEF Job
  <2>2. Moves(o, "persist", j, NoTx)
    BY <1>0, <1>2, <1>5 DEF Goto, Moves, RunType
  <2>3. clock' \in Nat /\ clock <= clock'
    BY <1>0, <1>5, <2>0
  <2> HIDE DEF j
  <2> QED
    BY <1>3, <2>1, <2>2, <2>3
<1>6. {"retrieval_failed", "mismatch", "pdf_extraction_failed"} \subseteq Reasons
  BY DEF Reasons
<1>7. CASE Fetched(o, NoFile, "retrieval_failed", "reject")
  BY <1>4, <1>6, <1>7
<1>8. CASE \E file \in Files : Fetched(o, file, "mismatch", "reject")
  BY <1>4, <1>6, <1>8
<1>9. CASE job[o].known = EntryAt(o).file /\ Fetched(o, EntryAt(o).file, "none", "unchanged")
  BY <1>1, <1>4, <1>9
<1>10. CASE Fetched(o, EntryAt(o).file, "pdf_extraction_failed", "reject")
  BY <1>1, <1>4, <1>6, <1>10
<1> QED
  BY <1>5, <1>7, <1>8, <1>9, <1>10 DEF Fetch

(* What a run at work may rely on.                                         *)
LEMMA AtWorkFacts ==
  ASSUME CorpusInv, NEW o \in Operators, stage[o] # "idle"
  PROVE  /\ TableType /\ RunType /\ BoundType /\ RunInv(o) /\ AtAnEntry(o)
         /\ job[o] \in Job /\ tx[o] \in Transaction /\ clock \in Nat
         /\ DocumentAt(o) \in Documents /\ EntryAt(o) \in Entry
         /\ VersionAt(o) \in Versions /\ VersionRow(o) \in Row
         /\ stage[o] \in Parsed => TextAt(o) \in Texts /\ job[o].file \in Files
         /\ tx[o].stamp <= clock
<1>1. /\ TableType /\ RunType /\ BoundType /\ RunInv(o) /\ AtAnEntry(o)
      /\ job[o] \in Job /\ tx[o] \in Transaction /\ clock \in Nat /\ tx[o].stamp <= clock
  BY TypeParts DEF CorpusInv, RunInv, RunType, ProcessedByNow
<1>2. /\ DocumentAt(o) \in Documents /\ EntryAt(o) \in Entry /\ job[o].parser \in Parsers
      /\ VersionAt(o) \in Versions /\ VersionRow(o) \in Row
  BY <1>1, EntryTypes
<1>3. ASSUME stage[o] \in Parsed PROVE TextAt(o) \in Texts /\ job[o].file \in Files
  <2>1. job[o].file = EntryAt(o).file /\ EntryAt(o).file \in Files
    BY <1>1, <1>2, <1>3 DEF RunInv, FileIsReviewed, Entry
  <2> QED
    BY <1>2, <2>1 DEF TextAt, Texts
<1> QED
  BY <1>1, <1>2, <1>3

(* A step of a transaction that stays at the entry with the same job.      *)
LEMMA SameJobStep ==
  ASSUME CorpusInv, NEW o \in Operators, stage[o] # "idle", UNCHANGED <<started, faults>>,
         NEW s \in Stages, NEW x \in Transaction,
         Goto(o, s), InTx(o, x), UNCHANGED <<job, tables, answer>>,
         TakesFreeRows(o, x), x.stamp <= clock', clock' \in Nat, clock <= clock',
         s \notin {"idle", "known", "fetch", "unchanged", "reject", "persist"},
         s \in Parsed => stage[o] \in Parsed,
         s \in Rejecting => stage[o] \in Rejecting,
         s \in Storing => VersionRow(o) \in x.holds,
         s \in Storing \union {"rejectread", "rejected"} /\ x.fresh =>
           VersionRow(o) \in x.holds /\ versions[VersionAt(o)].status = "none",
         s = "rejected" => \A q \in x.seen : q \in quarantine /\ q = <<VersionAt(o), job[o].reason>>,
         s = "withdraw" => VerdictAt(o) = "good",
         s = "commit" => \A t \in x.seen : VerdictAt(o) = "good" /\ t # TextAt(o) /\ t[1] = DocumentAt(o)
  PROVE  CorpusInv'
<1>0. TableType /\ RunType /\ BoundType' /\ RunInv(o) /\ AtAnEntry(o) /\ job[o] \in Job
  BY AtWorkFacts DEF BoundType
<1>1. Moves(o, s, job[o], x)
  BY <1>0 DEF Goto, InTx, Moves, RunType
<1>2. /\ AtAnEntry(o)' /\ EntryAt(o)' = EntryAt(o) /\ DocumentAt(o)' = DocumentAt(o)
      /\ stage'[o] = s /\ job'[o] = job[o] /\ tx'[o] = x
      /\ VersionAt(o)' = VersionAt(o) /\ VersionRow(o)' = VersionRow(o)
      /\ TextAt(o)' = TextAt(o) /\ VerdictAt(o)' = VerdictAt(o)
  BY <1>0, <1>1, AtTheEntry
<1>3. OutsideHoldsNothing(o)' /\ KnownIsPublished(o)' /\ HoldsItsVersion(o)'
  BY <1>0, <1>2 DEF tables, OutsideHoldsNothing, KnownIsPublished, HoldsItsVersion, Outside
<1>4. FileIsReviewed(o)'
  BY <1>0, <1>2 DEF RunInv, FileIsReviewed
<1>5. RejectsForAReason(o)' /\ WithdrawsOthers(o)'
  BY <1>0, <1>2 DEF tables, RunInv, RejectsForAReason, WithdrawsOthers
<1>6. RunInv(o)'
  BY <1>2, <1>3, <1>4, <1>5 DEF RunInv
<1> QED
  BY <1>0, <1>1, <1>6, QuietStep DEF tables, TableType

(* Answering unchanged keeps the invariant.                               *)
LEMMA RecordUnchangedKeeps ==
  ASSUME CorpusInv, NEW o \in Operators, RecordUnchanged(o), UNCHANGED <<started, faults>>
  PROVE  CorpusInv'
<1>0. stage[o] # "idle" /\ BoundType'
  BY TypeParts DEF RecordUnchanged, CorpusInv, BoundType
<1>1. CASE Unchanged(o) = {}
  BY <1>0, <1>1, FailsKeeps DEF RecordUnchanged
<1>2. CASE Unchanged(o) # {}
  <2>1. PICK v \in Unchanged(o) :
          /\ outcomes' = outcomes \union {<<v, "succeeded">>} /\ Answers(o, "unchanged", v)
          /\ UNCHANGED <<catalog, relations, versions, texts, quarantine, clock>>
    BY <1>2 DEF RecordUnchanged
  <2>2. v \in Versions
    BY DEF Unchanged, PublishedVersions
  <2> QED
    BY <1>0, <2>1, <2>2, UnchangedKeeps
<1> QED
  BY <1>1, <1>2

(* The steps of a rejection before its commit.                             *)
LEMMA RejectKeeps ==
  ASSUME CorpusInv, NEW o \in Operators, UNCHANGED <<started, faults>>,
         Reject(o) \/ RejectVersion(o) \/ ReadQuarantine(o)
  PROVE  CorpusInv'
<1>0. stage[o] # "idle" /\ stage[o] \in Rejecting
  BY DEF Reject, RejectVersion, ReadQuarantine, Rejecting
<1>1. /\ TableType /\ RunType /\ BoundType' /\ RunInv(o) /\ tx[o] \in Transaction /\ clock \in Nat
      /\ VersionAt(o) \in Versions /\ VersionRow(o) \in Row /\ tx[o].stamp <= clock /\ clock <= clock
  BY <1>0, AtWorkFacts DEF BoundType
<1> USE DEF Stages, Storing, Rejecting, Parsed
<1>2. CASE Reject(o)
  <2>0. stage[o] = "reject" /\ tx[o] = NoTx /\ UNCHANGED <<tables, clock, job, answer>>
    BY <1>1, <1>2 DEF Reject, RunInv, OutsideHoldsNothing, Outside
  <2>1. CASE Goto(o, "rejectversion") /\ InTx(o, [tx[o] EXCEPT !.fresh = TRUE])
    <3> DEFINE x == [tx[o] EXCEPT !.fresh = TRUE]
    <3>1. x \in Transaction /\ x.holds = tx[o].holds /\ x.stamp = tx[o].stamp
      BY <1>1 DEF Transaction
    <3> HIDE DEF x
    <3> QED
      BY <1>0, <1>1, <2>0, <2>1, <3>1, SameJobStep DEF TakesFreeRows, x
  <2>2. CASE Goto(o, "rejectread") /\ UNCHANGED tx
    <3>1. InTx(o, tx[o]) /\ tx[o].fresh = FALSE
      BY <1>1, <2>0, <2>2 DEF InTx, RunType, NoTx
    <3> QED
      BY <1>0, <1>1, <2>0, <2>2, <3>1, SameJobStep DEF TakesFreeRows
  <2> QED
    BY <1>2, <2>1, <2>2 DEF Reject
<1>3. CASE RejectVersion(o)
  <2>1. CASE versions[VersionAt(o)].status # "none"
    BY <1>1, <1>3, <2>1, FailsKeeps DEF RejectVersion
  <2>2. CASE versions[VersionAt(o)].status = "none"
    <3>1. /\ stage[o] = "rejectversion" /\ ~Blocked(o) /\ InTx(o, Writing(o)) /\ Goto(o, "rejectread")
          /\ UNCHANGED <<tables, clock, job, answer>>
      BY <1>3, <2>2 DEF RejectVersion
    <3>2. Wants(o) = {VersionRow(o)}
      BY <3>1 DEF Wants, VersionRow
    <3>3. /\ Writing(o) \in Transaction /\ Writing(o).stamp = tx[o].stamp
          /\ Writing(o).holds = tx[o].holds \union Wants(o)
      BY <1>1, <3>2 DEF Writing, Transaction
    <3>4. TakesFreeRows(o, Writing(o)) /\ VersionRow(o) \in Writing(o).holds
      BY <3>1, <3>2, <3>3 DEF TakesFreeRows
    <3> QED
      BY <1>0, <1>1, <2>2, <3>1, <3>3, <3>4, SameJobStep
  <2> QED
    BY <2>1, <2>2
<1>4. CASE ReadQuarantine(o)
  <2> DEFINE x == [tx[o] EXCEPT !.seen = Quarantined(VersionAt(o), job[o].reason)]
  <2>1. /\ stage[o] = "rejectread" /\ Goto(o, "rejected") /\ InTx(o, x)
        /\ UNCHANGED <<tables, clock, job, answer>>
    BY <1>4 DEF ReadQuarantine
  <2>2. \A q \in Quarantined(VersionAt(o), job[o].reason) :
          q \in quarantine /\ q = <<VersionAt(o), job[o].reason>>
    BY DEF Quarantined
  <2>3. Quarantined(VersionAt(o), job[o].reason) \subseteq Versions \X Reasons
    BY <1>1, <2>2 DEF TableType
  <2>4. /\ x \in Transaction /\ x.holds = tx[o].holds /\ x.stamp = tx[o].stamp /\ x.fresh = tx[o].fresh
        /\ x.seen = Quarantined(VersionAt(o), job[o].reason)
    BY <1>1, <2>3 DEF Transaction
  <2> HIDE DEF x
  <2>5. x.fresh => VersionRow(o) \in x.holds /\ versions[VersionAt(o)].status = "none"
    BY <1>1, <2>1, <2>4 DEF RunInv, HoldsItsVersion
  <2> QED
    BY <1>0, <1>1, <2>1, <2>2, <2>4, <2>5, SameJobStep DEF TakesFreeRows
<1> QED
  BY <1>2, <1>3, <1>4

(* The steps of a publication before its commit.                           *)
LEMMA PersistKeeps ==
  ASSUME CorpusInv, NEW o \in Operators, Persist(o), UNCHANGED <<started, faults>>
  PROVE  CorpusInv'
<1>0. stage[o] # "idle" /\ stage[o] = "persist"
  BY DEF Persist
<1>1. /\ BoundType' /\ RunInv(o) /\ tx[o] \in Transaction /\ clock \in Nat /\ VersionAt(o) \in Versions
      /\ tx[o] = NoTx
  BY <1>0, AtWorkFacts DEF BoundType, RunInv, OutsideHoldsNothing, Outside
<1>2. CASE KnownVersion(o)
  BY <1>0, <1>1, <1>2, UnchangedKeeps DEF Persist
<1>3. CASE ~KnownVersion(o)
  <2> DEFINE x == [tx[o] EXCEPT !.fresh = (versions[VersionAt(o)].status = "none"), !.stamp = clock + 1]
  <2>1. InTx(o, x) /\ Goto(o, "version") /\ clock' = clock + 1 /\ UNCHANGED <<tables, job, answer>>
    BY <1>3 DEF Persist
  <2>2. clock + 1 \in Nat /\ clock <= clock + 1 /\ clock + 1 <= clock + 1
    BY <1>1
  <2>3. x \in Transaction /\ x.holds = tx[o].holds /\ x.stamp = clock + 1
    BY <1>1, <2>2 DEF Transaction
  <2> HIDE DEF x
  <2>4. TakesFreeRows(o, x) /\ x.stamp <= clock' /\ clock' \in Nat /\ clock <= clock'
    BY <2>1, <2>2, <2>3 DEF TakesFreeRows
  <2> QED
    BY <1>0, <2>1, <2>3, <2>4, SameJobStep DEF Stages, Storing, Rejecting, Parsed
<1> QED
  BY <1>2, <1>3

(* The statements before a publication's commit keep the invariant.       *)
LEMMA StoreKeeps ==
  ASSUME CorpusInv, NEW o \in Operators, UNCHANGED <<started, faults>>,
         WriteVersion(o) \/ ReadText(o) \/ WriteText(o) \/ Withdraw(o)
  PROVE  CorpusInv'
<1> USE DEF Stages, Storing, Rejecting, Parsed
<1>0. stage[o] # "idle" /\ stage[o] \in {"version", "text", "textrow", "withdraw"}
  BY DEF WriteVersion, ReadText, WriteText, Withdraw
<1>1. /\ TableType /\ RunType /\ BoundType' /\ RunInv(o) /\ tx[o] \in Transaction /\ clock \in Nat
      /\ VersionAt(o) \in Versions /\ VersionRow(o) \in Row /\ TextAt(o) \in Texts
      /\ tx[o].stamp <= clock /\ clock <= clock
  BY <1>0, AtWorkFacts DEF BoundType
<1>2. stage[o] # "version" =>
        /\ VersionRow(o) \in tx[o].holds
        /\ tx[o].fresh => versions[VersionAt(o)].status = "none"
  BY <1>0, <1>1 DEF RunInv, HoldsItsVersion
<1>3. CASE WriteVersion(o)
  <2>1. CASE tx[o].fresh /\ versions[VersionAt(o)].status # "none"
    BY <1>1, <1>3, <2>1, FailsKeeps DEF WriteVersion
  <2>2. CASE ~(tx[o].fresh /\ versions[VersionAt(o)].status # "none")
    <3>1. /\ stage[o] = "version" /\ ~Blocked(o) /\ InTx(o, Writing(o)) /\ Goto(o, "text")
          /\ UNCHANGED <<tables, clock, job, answer>>
      BY <1>3, <2>2 DEF WriteVersion
    <3>2. Wants(o) = {VersionRow(o)}
      BY <3>1 DEF Wants, VersionRow
    <3>3. /\ Writing(o) \in Transaction /\ Writing(o).stamp = tx[o].stamp /\ Writing(o).fresh = tx[o].fresh
          /\ Writing(o).holds = tx[o].holds \union Wants(o)
      BY <1>1, <3>2 DEF Writing, Transaction
    <3>4. TakesFreeRows(o, Writing(o)) /\ VersionRow(o) \in Writing(o).holds
      BY <3>1, <3>2, <3>3 DEF TakesFreeRows
    <3> QED
      BY <1>0, <1>1, <2>2, <3>1, <3>3, <3>4, SameJobStep
  <2> QED
    BY <2>1, <2>2
<1>4. CASE ReadText(o)
  <2> DEFINE seen == {t \in {TextAt(o)} : texts[t].version # <<>>}
  <2> DEFINE x == [tx[o] EXCEPT !.seen = seen]
  <2>1. stage[o] = "text" /\ Goto(o, "textrow") /\ InTx(o, x) /\ UNCHANGED <<tables, clock, job, answer>>
    BY <1>4 DEF ReadText
  <2>2. seen \subseteq Texts
    BY <1>1
  <2>3. /\ x \in Transaction /\ x.holds = tx[o].holds /\ x.stamp = tx[o].stamp /\ x.fresh = tx[o].fresh
    BY <1>1, <2>2 DEF Transaction
  <2> HIDE DEF x
  <2> QED
    BY <1>0, <1>1, <1>2, <2>1, <2>3, SameJobStep DEF TakesFreeRows
<1>5. CASE WriteText(o)
  <2>1. CASE Fails(o)
    BY <1>1, <2>1, FailsKeeps
  <2>2. CASE ~Fails(o)
    <3> DEFINE x == [Writing(o) EXCEPT !.seen = {}]
    <3>1. /\ stage[o] = "textrow" /\ ~Blocked(o) /\ InTx(o, x) /\ Goto(o, AfterText(o))
          /\ UNCHANGED <<tables, clock, job, answer>>
      BY <1>5, <2>2 DEF WriteText
    <3>2. Wants(o) = {<<"text", TextAt(o)>>}
      BY <3>1 DEF Wants
    <3>3. Wants(o) \subseteq Row
      BY <1>1, <3>2 DEF Row
    <3>4. /\ x \in Transaction /\ x.stamp = tx[o].stamp /\ x.fresh = tx[o].fresh
          /\ x.holds = tx[o].holds \union Wants(o) /\ x.seen = {}
      BY <1>1, <3>3 DEF Writing, Transaction
    <3> HIDE DEF x
    <3>5. TakesFreeRows(o, x) /\ VersionRow(o) \in x.holds
      BY <1>2, <3>1, <3>4 DEF TakesFreeRows
    <3>6. /\ AfterText(o) \in {"withdraw", "commit"}
          /\ AfterText(o) = "withdraw" => VerdictAt(o) = "good"
      BY DEF AfterText
    <3> QED
      BY <1>0, <1>1, <1>2, <3>1, <3>4, <3>5, <3>6, SameJobStep
  <2> QED
    BY <2>1, <2>2
<1>6. CASE Withdraw(o)
  <2> DEFINE x == [tx[o] EXCEPT !.seen = Withdrawn(o) \ {TextAt(o)}]
  <2>1. /\ stage[o] = "withdraw" /\ Goto(o, "commit") /\ InTx(o, x) /\ VerdictAt(o) = "good"
        /\ UNCHANGED <<tables, clock, job, answer>>
    BY <1>1, <1>6 DEF Withdraw, RunInv, WithdrawsOthers
  <2>2. \A t \in Withdrawn(o) : t \in Texts /\ t[1] = DocumentAt(o)
    BY DEF Withdrawn, Published
  <2>3. /\ x \in Transaction /\ x.holds = tx[o].holds /\ x.stamp = tx[o].stamp /\ x.fresh = tx[o].fresh
        /\ x.seen = Withdrawn(o) \ {TextAt(o)}
    BY <1>1, <2>2 DEF Transaction
  <2> HIDE DEF x
  <2> QED
    BY <1>0, <1>1, <1>2, <2>1, <2>2, <2>3, SameJobStep DEF TakesFreeRows
<1> QED
  BY <1>3, <1>4, <1>5, <1>6

-----------------------------------------------------------------------------
(* The commits that settle a document. *)

(* A step that ends an entry keeps the invariant, if it leaves what is    *)
(* published governed and what it rejects in quarantine.                  *)
LEMMA SettledStep ==
  ASSUME CorpusInv, NEW o \in Operators, stage[o] # "idle", NEW status \in {"rejected", "published"},
         Answers(o, status, VersionAt(o)), UNCHANGED <<catalog, relations, clock>>,
         TableType', BoundType', outcomes \subseteq outcomes', quarantine \subseteq quarantine',
         \A w \in Versions : /\ versions[w].status = "published" => versions'[w].status = "published"
                             /\ versions'[w].status # versions[w].status =>
                                  w = VersionAt(o) /\ VersionRow(o) \in tx[o].holds
                             /\ versions'[w].processed <= clock,
         PublishedIsGoverned',
         status = "rejected" => /\ <<VersionAt(o), "failed">> \in outcomes'
                                /\ \E reason \in Reasons : <<VersionAt(o), reason>> \in quarantine'
  PROVE  CorpusInv'
<1>0. TableType /\ RunType /\ AtAnEntry(o) /\ VersionAt(o) \in Versions /\ RowsHeldOnce
  BY AtWorkFacts DEF CorpusInv
<1>1. PICK s \in Stages, j \in Job : Moves(o, s, j, NoTx)
  BY <1>0, AnswersMoves
<1>2. RunInv(o)' /\ answer' = [answer EXCEPT ![o] = [status |-> status, version |-> VersionAt(o)]]
  BY <1>0, AnswersMoves
<1>3. /\ stage' \in [Operators -> Stages] /\ job' \in [Operators -> Job] /\ tx' \in [Operators -> Transaction]
      /\ tx'[o] = NoTx
      /\ \A p \in Operators : p # o => stage'[p] = stage[p] /\ job'[p] = job[p] /\ tx'[p] = tx[p]
  BY <1>0, <1>1, NothingTypes, Moved
<1>4. RunType'
  BY <1>0, <1>2, <1>3 DEF RunType
<1>5. RowsHeldOnce'
  BY <1>0, <1>1, NothingTypes, HeldOnceKept DEF TakesFreeRows
<1>6. ProcessedByNow'
  <2>1. \A p \in Operators : tx'[p].stamp <= clock
    <3>1. clock \in Nat /\ NoTx.stamp <= clock
      BY <1>0, NothingTypes DEF RunType
    <3> QED
      BY <1>3, <3>1 DEF CorpusInv, ProcessedByNow
  <2> QED
    BY <2>1 DEF ProcessedByNow
<1>7. RejectionAudited'
  <2> SUFFICES ASSUME NEW p \in Operators, answer'[p].status = "rejected"
               PROVE  /\ <<answer'[p].version, "failed">> \in outcomes'
                      /\ \E reason \in Reasons : <<answer'[p].version, reason>> \in quarantine'
    BY DEF RejectionAudited
  <2>1. CASE p = o
    BY <1>0, <1>2, <2>1 DEF RunType
  <2>2. CASE p # o
    <3>1. answer'[p] = answer[p]
      BY <1>0, <1>2, <2>2 DEF RunType
    <3> QED
      BY <3>1 DEF CorpusInv, RejectionAudited
  <2> QED
    BY <2>1, <2>2
<1>8. ASSUME NEW p \in Operators, p # o PROVE RunInv(p)'
  <2>1. RunInv(p) /\ stage'[p] = stage[p] /\ job'[p] = job[p] /\ tx'[p] = tx[p]
    BY <1>3, <1>8 DEF CorpusInv
  <2>2. ASSUME VersionRow(p) \in tx[p].holds
        PROVE  versions'[VersionAt(p)].status = versions[VersionAt(p)].status
    <3>1. tx[p].holds \subseteq Row
      BY <1>0 DEF RunType, Transaction
    <3>2. CASE stage[p] = "idle"
      BY <2>1, <2>2, <3>2 DEF RunInv, OutsideHoldsNothing, Outside, NoTx
    <3>3. CASE stage[p] # "idle"
      <4>1. VersionAt(p) \in Versions
        BY <3>3, AtWorkFacts
      <4>2. ASSUME versions'[VersionAt(p)].status # versions[VersionAt(p)].status PROVE FALSE
        <5>1. VersionAt(p) = VersionAt(o) /\ VersionRow(o) \in tx[o].holds
          BY <4>1, <4>2
        <5>2. VersionRow(p) \in tx[o].holds \intersect tx[p].holds
          BY <2>2, <5>1 DEF VersionRow
        <5> QED
          BY <1>0, <1>8, <5>2 DEF RowsHeldOnce
      <4> QED
        BY <4>2
    <3> QED
      BY <3>2, <3>3
  <2> QED
    BY <1>0, <2>1, <2>2, OthersKnow
<1> QED
  BY <1>2, <1>4, <1>5, <1>6, <1>7, <1>8, TypePartsPrimed DEF CorpusInv

(* A step that leaves the texts and the published versions alone.          *)
LEMMA GovernedKept ==
  ASSUME PublishedIsGoverned, texts' = texts, outcomes \subseteq outcomes',
         \A w \in Versions : versions[w].status = "published" => versions'[w] = versions[w]
  PROVE  PublishedIsGoverned'
<1> SUFFICES ASSUME NEW t \in Texts, texts[t].published
             PROVE  /\ texts[t].version \in Versions /\ texts[t].version[1] = t[1]
                    /\ texts[t].version[3] = t[2]
                    /\ versions'[texts[t].version].status = "published"
                    /\ versions'[texts[t].version].raw
                    /\ <<texts[t].version, "succeeded">> \in outcomes'
                    /\ Verdict[t[2]][t[3]] = "good"
                    /\ \E m \in Manifests : \E i \in 1..Len(Entries[m]) :
                         Entries[m][i] = [document |-> texts[t].version[1],
                                          url |-> texts[t].version[2], file |-> texts[t].version[3]]
  BY DEF PublishedIsGoverned
<1> DEFINE w == texts[t].version
<1>1. /\ w \in Versions /\ w[1] = t[1] /\ w[3] = t[2]
      /\ versions[w].status = "published" /\ versions[w].raw
      /\ <<w, "succeeded">> \in outcomes
      /\ Verdict[t[2]][t[3]] = "good"
      /\ \E m \in Manifests : \E i \in 1..Len(Entries[m]) :
           Entries[m][i] = [document |-> w[1], url |-> w[2], file |-> w[3]]
  BY DEF PublishedIsGoverned
<1> HIDE DEF w
<1>2. versions'[w] = versions[w]
  BY <1>1
<1>3. versions'[w].status = "published" /\ versions'[w].raw /\ <<w, "succeeded">> \in outcomes'
  BY <1>1, <1>2
<1> QED
  BY <1>1, <1>3 DEF w

(* Recording a rejection keeps the invariant.                             *)
LEMMA RejectedKeeps ==
  ASSUME CorpusInv, NEW o \in Operators, Rejected(o), UNCHANGED <<started, faults>>
  PROVE  CorpusInv'
<1> DEFINE v == VersionAt(o)
<1> DEFINE record == <<v, job[o].reason>>
<1>0. stage[o] = "rejected" /\ stage[o] # "idle"
  BY DEF Rejected
<1>1. /\ TableType /\ RunType /\ BoundType' /\ RunInv(o) /\ v \in Versions
      /\ job[o].reason \in Reasons /\ (\A q \in tx[o].seen : q \in quarantine /\ q = record)
      /\ tx[o].fresh => VersionRow(o) \in tx[o].holds /\ versions[v].status = "none"
  BY <1>0, AtWorkFacts DEF BoundType, RunInv, RejectsForAReason, HoldsItsVersion, Rejecting
<1>2. CASE Fails(o)
  BY <1>1, <1>2, FailsKeeps
<1>3. CASE ~Fails(o)
  <2>1. /\ versions' = IF tx[o].fresh
                       THEN [versions EXCEPT ![v] = [NoVersion EXCEPT !.status = "rejected"]]
                       ELSE versions
        /\ outcomes' = outcomes \union {<<v, "failed">>}
        /\ quarantine' = IF tx[o].seen = {} THEN quarantine \union {record} ELSE quarantine
        /\ Answers(o, "rejected", v)
        /\ UNCHANGED <<catalog, relations, texts, clock>>
    BY <1>3 DEF Rejected
  <2>2. record \in quarantine' /\ record \in Versions \X Reasons
    BY <1>1, <2>1
  <2> DEFINE new == [NoVersion EXCEPT !.status = "rejected"]
  <2>3. /\ new \in [status : {"none", "published", "rejected"}, processed : Nat, raw : BOOLEAN]
        /\ new.status = "rejected" /\ new.processed = 0
    BY DEF NoVersion
  <2> HIDE DEF new
  <2>4. \A w \in Versions : versions'[w] = IF tx[o].fresh /\ w = v THEN new ELSE versions[w]
    BY <1>1, <2>1 DEF TableType, new
  <2>5. TableType'
    <3>1. versions' \in [Versions -> [status : {"none", "published", "rejected"}, processed : Nat,
                                      raw : BOOLEAN]]
      BY <1>1, <2>1, <2>3 DEF TableType, new
    <3> QED
      BY <1>1, <2>1, <2>2, <3>1 DEF TableType
  <2>6. \A w \in Versions :
          /\ versions[w].status = "published" => versions'[w] = versions[w]
          /\ versions'[w].status # versions[w].status => w = v /\ VersionRow(o) \in tx[o].holds
          /\ versions'[w].processed <= clock
    <3>1. clock \in Nat /\ 0 <= clock /\ \A w \in Versions : versions[w].processed <= clock
      BY <1>1 DEF CorpusInv, ProcessedByNow, RunType
    <3>2. ASSUME NEW w \in Versions, tx[o].fresh /\ w = v
          PROVE  /\ versions[w].status = "published" => versions'[w] = versions[w]
                 /\ VersionRow(o) \in tx[o].holds /\ versions'[w].processed <= clock
      <4>1. versions'[w] = new /\ versions[w].status = "none" /\ VersionRow(o) \in tx[o].holds
        BY <1>1, <2>4, <3>2
      <4> QED
        BY <2>3, <3>1, <4>1
    <3>3. ASSUME NEW w \in Versions, ~(tx[o].fresh /\ w = v)
          PROVE  versions'[w] = versions[w]
      BY <2>4, <3>3
    <3> HIDE DEF v
    <3>4. ASSUME NEW w \in Versions
          PROVE  /\ versions[w].status = "published" => versions'[w] = versions[w]
                 /\ versions'[w].status # versions[w].status => w = v /\ VersionRow(o) \in tx[o].holds
                 /\ versions'[w].processed <= clock
      <4>1. CASE tx[o].fresh /\ w = v
        BY <3>2, <4>1
      <4>2. CASE ~(tx[o].fresh /\ w = v)
        BY <3>1, <3>3, <4>2
      <4> QED
        BY <4>1, <4>2
    <3> QED
      BY <3>4
  <2>7. PublishedIsGoverned'
    <3>1. PublishedIsGoverned /\ outcomes \subseteq outcomes' /\ texts' = texts
      BY <2>1 DEF CorpusInv
    <3> QED
      BY <2>6, <3>1, GovernedKept
  <2> HIDE DEF v, record
  <2>8. /\ <<v, "failed">> \in outcomes' /\ outcomes \subseteq outcomes' /\ quarantine \subseteq quarantine'
        /\ \E reason \in Reasons : <<v, reason>> \in quarantine'
    BY <1>1, <2>1, <2>2 DEF record
  <2> QED
    BY <1>0, <1>1, <2>1, <2>5, <2>6, <2>7, <2>8, SettledStep DEF v
<1> QED
  BY <1>2, <1>3

(* Committing a publication keeps the invariant.                          *)
LEMMA CommitKeeps ==
  ASSUME CorpusInv, NEW o \in Operators, Commit(o), UNCHANGED <<started, faults>>
  PROVE  CorpusInv'
<1> DEFINE v == VersionAt(o)
<1> DEFINE good == VerdictAt(o) = "good"
<1> DEFINE own == TextAt(o)
<1> DEFINE new == StoredVersion(o)
<1>0. stage[o] = "commit" /\ stage[o] # "idle" /\ stage[o] \in Storing /\ stage[o] \in Parsed
  BY DEF Commit, Storing, Parsed
<1>1. /\ TableType /\ RunType /\ BoundType' /\ RunInv(o) /\ v \in Versions /\ own \in Texts
      /\ EntryAt(o) \in Entry /\ AtAnEntry(o)
      /\ clock \in Nat /\ tx[o].stamp \in Nat /\ tx[o].stamp <= clock /\ job[o].retrieved \in Nat
      /\ tx[o].fresh \in BOOLEAN
  BY <1>0, AtWorkFacts DEF BoundType, Transaction, Job
<1>2. /\ VersionRow(o) \in tx[o].holds /\ job[o].file = EntryAt(o).file
      /\ tx[o].fresh => versions[v].status = "none"
  BY <1>0, <1>1 DEF RunInv, HoldsItsVersion, FileIsReviewed
<1>3. /\ versions' = [versions EXCEPT ![v] = new]
      /\ texts' = [t \in Texts |->
           IF t = own THEN [version |-> v, published |-> good, retrieved |-> job[o].retrieved]
           ELSE IF t \in tx[o].seen THEN [texts[t] EXCEPT !.published = FALSE] ELSE texts[t]]
      /\ outcomes' = outcomes \union {<<v, IF good THEN "succeeded" ELSE "failed">>}
      /\ quarantine' = IF good THEN quarantine ELSE quarantine \union {<<v, "parser_quality_failed">>}
      /\ Answers(o, IF good THEN "published" ELSE "rejected", v)
      /\ UNCHANGED <<catalog, relations, clock>>
  BY DEF Commit
<1>4. /\ new \in [status : {"none", "published", "rejected"}, processed : Nat, raw : BOOLEAN]
      /\ new.raw /\ new.processed = tx[o].stamp /\ (good => new.status = "published")
      /\ versions[v].status = "published" => new.status = "published"
  <2>1. versions[v].status \in {"none", "published", "rejected"}
    BY <1>1 DEF TableType
  <2> QED
    BY <1>1, <1>2, <2>1 DEF StoredVersion
<1>5. /\ versions' \in [Versions -> [status : {"none", "published", "rejected"}, processed : Nat,
                                     raw : BOOLEAN]]
      /\ versions'[v] = new /\ \A w \in Versions : w # v => versions'[w] = versions[w]
  BY <1>1, <1>3, <1>4 DEF TableType
<1> HIDE DEF new
<1>6. ASSUME NEW w \in Versions
      PROVE  /\ versions[w].status = "published" => versions'[w].status = "published"
             /\ versions'[w].status # versions[w].status => w = v /\ VersionRow(o) \in tx[o].holds
             /\ versions'[w].processed <= clock
  <2> HIDE DEF v, good, own
  <2>1. CASE w = v
    BY <1>1, <1>2, <1>4, <1>5, <2>1
  <2>2. CASE w # v
    BY <1>5, <2>2 DEF CorpusInv, ProcessedByNow
  <2> QED
    BY <2>1, <2>2
<1>7. ASSUME NEW t \in Texts
      PROVE  /\ texts'[t] \in [version : Versions \union {<<>>}, published : BOOLEAN, retrieved : Nat]
             /\ t = own => texts'[t].published = good /\ texts'[t].version = v
             /\ t # own /\ texts'[t].published => texts[t].published /\ texts'[t].version = texts[t].version
  <2>1. CASE t = own
    <3>1. texts'[t] = [version |-> v, published |-> good, retrieved |-> job[o].retrieved]
      BY <1>3, <2>1
    <3>2. good \in BOOLEAN
      OBVIOUS
    <3> HIDE DEF good, v, own
    <3> QED
      BY <1>1, <2>1, <3>1, <3>2
  <2>2. CASE t # own
    <3>1. texts'[t] = IF t \in tx[o].seen THEN [texts[t] EXCEPT !.published = FALSE] ELSE texts[t]
      BY <1>3, <2>2
    <3> HIDE DEF good, v, own
    <3> QED
      BY <1>1, <2>2, <3>1 DEF TableType
  <2> QED
    BY <2>1, <2>2
<1>8. TableType'
  <2>1. outcomes' \subseteq Versions \X {"succeeded", "failed"} /\ quarantine' \subseteq Versions \X Reasons
    BY <1>1, <1>3 DEF TableType, Reasons
  <2>2. texts' \in [Texts -> [version : Versions \union {<<>>}, published : BOOLEAN, retrieved : Nat]]
    <3>1. texts' = [t \in Texts |-> texts'[t]]
      BY <1>3
    <3> QED
      BY <1>7, <3>1
  <2> QED
    BY <1>1, <1>3, <1>5, <2>1, <2>2 DEF TableType
<1>9. PublishedIsGoverned'
  <2>1. \E m \in Manifests : \E i \in 1..Len(Entries[m]) :
          Entries[m][i] = [document |-> v[1], url |-> v[2], file |-> v[3]]
    <3>1. /\ EntryAt(o) = Entries[job[o].manifest][job[o].at] /\ job[o].manifest \in Manifests
          /\ job[o].at \in 1..Len(Entries[job[o].manifest])
      BY <1>0, <1>1 DEF EntryAt, EntriesOf, AtAnEntry
    <3>2. v[1] = EntryAt(o).document /\ v[2] = EntryAt(o).url /\ v[3] = EntryAt(o).file
      BY <1>2 DEF VersionAt, DocumentAt
    <3>3. EntryAt(o) = [document |-> EntryAt(o).document, url |-> EntryAt(o).url, file |-> EntryAt(o).file]
      BY <1>1 DEF Entry
    <3> HIDE DEF v
    <3> QED
      BY <3>1, <3>2, <3>3
  <2> SUFFICES ASSUME NEW t \in Texts, texts'[t].published
               PROVE  /\ texts'[t].version \in Versions /\ texts'[t].version[1] = t[1]
                      /\ texts'[t].version[3] = t[2]
                      /\ versions'[texts'[t].version].status = "published"
                      /\ versions'[texts'[t].version].raw
                      /\ <<texts'[t].version, "succeeded">> \in outcomes'
                      /\ Verdict[t[2]][t[3]] = "good"
                      /\ \E m \in Manifests : \E i \in 1..Len(Entries[m]) :
                           Entries[m][i] = [document |-> texts'[t].version[1],
                                            url |-> texts'[t].version[2], file |-> texts'[t].version[3]]
    BY DEF PublishedIsGoverned
  <2>2. CASE t = own
    <3>1. good /\ texts'[t].version = v
      BY <1>7, <2>2
    <3>2. v[1] = t[1] /\ v[3] = t[2]
      BY <2>2 DEF VersionAt, TextAt
    <3>3. Verdict[t[2]][t[3]] = "good"
      BY <2>2, <3>1 DEF TextAt, VerdictAt
    <3>4. <<v, "succeeded">> \in outcomes'
      BY <1>3, <3>1
    <3>5. versions'[v].status = "published" /\ versions'[v].raw
      <4> HIDE DEF v, good, own
      <4> QED
        BY <1>4, <1>5, <3>1
    <3> HIDE DEF v
    <3> QED
      BY <1>1, <2>1, <3>1, <3>2, <3>3, <3>4, <3>5
  <2>3. CASE t # own
    <3> DEFINE w == texts[t].version
    <3>1. texts[t].published /\ texts'[t].version = w
      BY <1>7, <2>3
    <3>2. /\ w \in Versions /\ w[1] = t[1] /\ w[3] = t[2]
          /\ versions[w].status = "published" /\ versions[w].raw
          /\ <<w, "succeeded">> \in outcomes
          /\ Verdict[t[2]][t[3]] = "good"
          /\ \E m \in Manifests : \E i \in 1..Len(Entries[m]) :
               Entries[m][i] = [document |-> w[1], url |-> w[2], file |-> w[3]]
      BY <3>1 DEF CorpusInv, PublishedIsGoverned
    <3> HIDE DEF w
    <3>3. versions'[w].status = "published"
      BY <1>6, <3>2
    <3>4. versions'[w].raw
      <4> HIDE DEF v, good, own
      <4>1. CASE w = v
        BY <1>4, <1>5, <4>1
      <4>2. CASE w # v
        BY <1>5, <3>2, <4>2
      <4> QED
        BY <4>1, <4>2
    <3>5. <<w, "succeeded">> \in outcomes'
      BY <1>3, <3>2
    <3> QED
      BY <3>1, <3>2, <3>3, <3>4, <3>5
  <2> QED
    BY <2>2, <2>3
<1>10. /\ outcomes \subseteq outcomes' /\ quarantine \subseteq quarantine'
       /\ ~good => /\ <<v, "failed">> \in outcomes'
                   /\ \E reason \in Reasons : <<v, reason>> \in quarantine'
  BY <1>3 DEF Reasons
<1> HIDE DEF good
<1> QED
  BY <1>0, <1>1, <1>3, <1>6, <1>8, <1>9, <1>10, SettledStep DEF v

-----------------------------------------------------------------------------
(* CorpusInv is inductive. *)

(* The invariant holds at the start.                                      *)
LEMMA InitCorpusInv == Init => CorpusInv
<1> SUFFICES ASSUME Init PROVE CorpusInv
  OBVIOUS
<1> USE DEF Init
<1>1. NoVersion \in [status : {"none", "published", "rejected"}, processed : Nat, raw : BOOLEAN]
  BY DEF NoVersion
<1>2. NoText \in [version : Versions \union {<<>>}, published : BOOLEAN, retrieved : Nat]
  BY DEF NoText
<1>3. NoAnswer \in [status : {"none", "unchanged", "rejected", "published"},
                    version : Versions \union {<<>>}] /\ NoAnswer.status = "none"
  BY DEF NoAnswer
<1>4. TableType
  BY <1>1, <1>2 DEF TableType
<1>5. RunType /\ BoundType
  BY <1>3, NothingTypes DEF RunType, BoundType, Stages
<1>6. RowsHeldOnce
  BY NothingTypes DEF RowsHeldOnce
<1>7. ProcessedByNow
  BY NothingTypes DEF ProcessedByNow, NoVersion
<1>8. PublishedIsGoverned
  BY DEF PublishedIsGoverned, NoText
<1>9. RejectionAudited
  BY <1>3 DEF RejectionAudited
<1>10. ASSUME NEW o \in Operators PROVE RunInv(o)
  BY DEF RunInv, AtAnEntry, OutsideHoldsNothing, HoldsItsVersion, FileIsReviewed, KnownIsPublished,
         RejectsForAReason, WithdrawsOthers, Storing, Rejecting, Parsed
<1> QED
  BY <1>4, <1>5, <1>6, <1>7, <1>8, <1>9, <1>10, TypeParts DEF CorpusInv

(* So does every end of an entry.                                         *)
LEMMA SettleKeeps ==
  ASSUME CorpusInv, NEW o \in Operators, Settle(o), UNCHANGED <<started, faults>>
  PROVE  CorpusInv'
<1>1. CASE BreakDeadlock(o)
  <2>1. BoundType'
    BY TypeParts DEF CorpusInv, BoundType
  <2> QED
    BY <1>1, <2>1, FailsKeeps DEF BreakDeadlock
<1>2. CASE SyncDocument(o) \/ WriteDocument(o) \/ ReadRelations(o)
  BY <1>2, CatalogueKeeps
<1>3. CASE ReplaceRelations(o) \/ ReadKnown(o) \/ Fetch(o) \/ RecordUnchanged(o)
  BY <1>3, ReplaceKeeps, ReadKnownKeeps, FetchKeeps, RecordUnchangedKeeps
<1>4. CASE Reject(o) \/ RejectVersion(o) \/ ReadQuarantine(o) \/ Rejected(o)
  BY <1>4, RejectKeeps, RejectedKeeps
<1>5. CASE Persist(o) \/ WriteVersion(o) \/ ReadText(o) \/ WriteText(o) \/ Withdraw(o) \/ Commit(o)
  BY <1>5, PersistKeeps, StoreKeeps, CommitKeeps
<1> QED
  BY <1>1, <1>2, <1>3, <1>4, <1>5 DEF Settle

(* Every step keeps the invariant.                                        *)
LEMMA NextKeeps == CorpusInv /\ [Next]_vars => CorpusInv'
<1> SUFFICES ASSUME CorpusInv, [Next]_vars PROVE CorpusInv'
  OBVIOUS
<1>1. CASE UNCHANGED vars
  <2> USE <1>1 DEF vars, tables
  <2>1. TypeOK' /\ RowsHeldOnce' /\ ProcessedByNow'
    BY DEF CorpusInv, TypeOK, RowsHeldOnce, ProcessedByNow
  <2>2. PublishedIsGoverned' /\ RejectionAudited'
    BY GovernedKept DEF CorpusInv, RejectionAudited
  <2>3. ASSUME NEW o \in Operators PROVE RunInv(o)'
    <3>1. RunInv(o) /\ RunType
      BY TypeParts DEF CorpusInv
    <3> QED
      BY <3>1, OthersKnow
  <2> QED
    BY <2>1, <2>2, <2>3 DEF CorpusInv
<1>2. ASSUME NEW o \in Operators, Settle(o), UNCHANGED <<started, faults>> PROVE CorpusInv'
  BY <1>2, SettleKeeps
<1>3. ASSUME NEW o \in Operators, Start(o), UNCHANGED faults PROVE CorpusInv'
  BY <1>3, StartKeeps
<1>4. ASSUME NEW o \in Operators, Die(o) PROVE CorpusInv'
  <2>1. BoundType'
    BY <1>4, TypeParts DEF CorpusInv, BoundType, Die
  <2> QED
    BY <1>4, <2>1, FailsKeeps DEF Die
<1> QED
  BY <1>1, <1>2, <1>3, <1>4 DEF Next

(* What no step of the runs, in any order, ever breaks.                    *)
THEOREM CorpusInvariant == Spec => []CorpusInv
<1>1. Init => CorpusInv
  BY InitCorpusInv
<1>2. CorpusInv /\ [Next]_vars => CorpusInv'
  BY NextKeeps
<1> QED
  BY <1>1, <1>2, PTL DEF Spec

(* Every variable keeps its type.                                          *)
THEOREM CorpusTypes == Spec => []TypeOK
<1>1. CorpusInv => TypeOK
  BY DEF CorpusInv
<1> QED
  BY <1>1, CorpusInvariant, PTL

(* However runs overlap, fail or die, a published text is of a reviewed    *)
(* file, well read, with its raw file, its run and its published version.  *)
THEOREM GovernedPublication == Spec => []PublishedIsGoverned
<1>1. CorpusInv => PublishedIsGoverned
  BY DEF CorpusInv
<1> QED
  BY <1>1, CorpusInvariant, PTL

(* Every rejection that is answered has its failed run and its quarantine  *)
(* record, also when runs reject the same candidate.                       *)
THEOREM RejectionsAreAudited == Spec => []RejectionAudited
<1>1. CorpusInv => RejectionAudited
  BY DEF CorpusInv
<1> QED
  BY <1>1, CorpusInvariant, PTL

(* What a run took for known is published when it records "unchanged".     *)
THEOREM KnownStays == Spec => []KnownStaysPublished
<1>1. ASSUME CorpusInv PROVE KnownStaysPublished
  <2> SUFFICES ASSUME NEW o \in Operators, stage[o] = "unchanged" PROVE Unchanged(o) # {}
    BY DEF KnownStaysPublished
  <2>1. RunInv(o) /\ EntryAt(o) \in Entry
    BY <1>1, AtWorkFacts
  <2>2. job[o].known = job[o].file /\ job[o].file \in Files
    BY <2>1 DEF RunInv, FileIsReviewed, Entry
  <2>3. job[o].known # NoFile
    BY <2>2, CorpusAssumption
  <2>4. PICK v \in Versions : v[1] = DocumentAt(o) /\ v[3] = job[o].known /\ versions[v].status = "published"
    BY <2>1, <2>3 DEF RunInv, KnownIsPublished
  <2> QED
    BY <2>2, <2>4 DEF Unchanged, PublishedVersions
<1> QED
  BY <1>1, CorpusInvariant, PTL

-----------------------------------------------------------------------------
(* A text is withdrawn only in the commit that publishes another. *)

(* A failure leaves the texts alone.                                      *)
LEMMA TextsOfFails ==
  ASSUME NEW o \in Operators, Fails(o)
  PROVE  UNCHANGED texts
BY DEF Fails, tables

(* Only a commit changes what texts are stored.                           *)
LEMMA OnlyCommitChangesTexts ==
  ASSUME [Next]_vars, texts' # texts
  PROVE  \E o \in Operators : Commit(o)
<1>1. CASE UNCHANGED vars
  BY <1>1 DEF vars, tables
<1>2. ASSUME NEW o \in Operators, Settle(o), ~Commit(o) PROVE UNCHANGED texts
  <2>1. CASE BreakDeadlock(o)
    BY <2>1, TextsOfFails DEF BreakDeadlock
  <2>2. CASE SyncDocument(o) \/ WriteDocument(o) \/ ReadRelations(o) \/ ReplaceRelations(o)
    BY <2>2, TextsOfFails DEF SyncDocument, WriteDocument, ReadRelations, ReplaceRelations, tables
  <2>3. CASE ReadKnown(o) \/ Fetch(o) \/ RecordUnchanged(o)
    BY <2>3, TextsOfFails DEF ReadKnown, Fetch, RecordUnchanged, tables
  <2>4. CASE Reject(o) \/ RejectVersion(o) \/ ReadQuarantine(o) \/ Rejected(o)
    BY <2>4, TextsOfFails DEF Reject, RejectVersion, ReadQuarantine, Rejected, tables
  <2>5. CASE Persist(o) \/ WriteVersion(o) \/ ReadText(o) \/ WriteText(o) \/ Withdraw(o)
    BY <2>5, TextsOfFails DEF Persist, WriteVersion, ReadText, WriteText, Withdraw, tables
  <2> QED
    BY <1>2, <2>1, <2>2, <2>3, <2>4, <2>5 DEF Settle
<1>3. ASSUME NEW o \in Operators, Start(o) PROVE UNCHANGED texts
  BY <1>3 DEF Start, tables
<1>4. ASSUME NEW o \in Operators, Die(o) PROVE UNCHANGED texts
  BY <1>4, TextsOfFails DEF Die
<1> QED
  BY <1>1, <1>2, <1>3, <1>4 DEF Next

(* No step of the runs leaves a document that had a published text without *)
(* one.                                                                    *)
THEOREM ServedTextsStay == Spec => ServedStays
<1> DEFINE Stays == \A d \in Documents : Published(d) # {} => Published(d)' # {}
<1>1. ASSUME CorpusInv, [Next]_vars PROVE Stays
  <2> SUFFICES ASSUME NEW d \in Documents, NEW t \in Texts, t[1] = d, texts[t].published
               PROVE  \E u \in Texts : u[1] = d /\ texts'[u].published
    BY DEF Published
  <2>1. CASE texts' = texts
    BY <2>1
  <2>2. ASSUME NEW o \in Operators, Commit(o) PROVE \E u \in Texts : u[1] = d /\ texts'[u].published
    <3> DEFINE good == VerdictAt(o) = "good"
    <3>1. /\ stage[o] = "commit"
          /\ \A u \in Texts : texts'[u] =
               IF u = TextAt(o)
               THEN [version |-> VersionAt(o), published |-> good, retrieved |-> job[o].retrieved]
               ELSE IF u \in tx[o].seen THEN [texts[u] EXCEPT !.published = FALSE] ELSE texts[u]
      BY <2>2 DEF Commit
    <3>2. TextAt(o) \in Texts /\ RunInv(o) /\ TextAt(o)[1] = DocumentAt(o)
      BY <1>1, <3>1, AtWorkFacts DEF Parsed, Storing, TextAt
    <3>6. texts'[TextAt(o)].published = good
      <4>1. texts'[TextAt(o)] =
              [version |-> VersionAt(o), published |-> good, retrieved |-> job[o].retrieved]
        BY <3>1, <3>2
      <4> HIDE DEF good
      <4> QED
        BY <4>1
    <3>3. CASE t = TextAt(o)
      <4>1. Verdict[t[2]][t[3]] = "good"
        BY <1>1 DEF CorpusInv, PublishedIsGoverned
      <4>2. VerdictAt(o) = "good"
        BY <3>3, <4>1 DEF VerdictAt, TextAt
      <4> QED
        BY <3>3, <3>6, <4>2
    <3>4. CASE t # TextAt(o) /\ t \in tx[o].seen
      <4>1. VerdictAt(o) = "good" /\ t[1] = DocumentAt(o)
        BY <3>1, <3>2, <3>4 DEF RunInv, WithdrawsOthers
      <4>2. texts'[TextAt(o)].published
        BY <3>6, <4>1
      <4> QED
        BY <3>2, <4>1, <4>2
    <3>5. CASE t # TextAt(o) /\ t \notin tx[o].seen
      <4>1. texts'[t] = texts[t]
        BY <3>1, <3>5
      <4> QED
        BY <4>1
    <3> QED
      BY <3>3, <3>4, <3>5
  <2> QED
    BY <1>1, <2>1, <2>2, OnlyCommitChangesTexts
<1>2. CorpusInv /\ [Next]_vars => [Stays]_vars
  BY <1>1
<1> HIDE DEF Stays
<1>3. Spec => [][Stays]_vars
  BY <1>2, CorpusInvariant, PTL DEF Spec
<1> QED
  BY <1>3 DEF ServedStays, Stays
-----------------------------------------------------------------------------
(***************************************************************************)
(* Runs that follow each other.                                            *)
(*                                                                         *)
(* The argument: the statements of a transaction are apart in time, but    *)
(* nobody else writes between them.  So what the withdrawal read is what   *)
(* is published at the commit, what the DELETE read is what the relations  *)
(* are, and the stamp drawn for a version is later than every other one.   *)
(***************************************************************************)

(* No two runs overlap: one has ended when another starts.                 *)
OneAtATime == \A o, p \in Operators : stage[o] # "idle" /\ stage[p] # "idle" => o = p

(* Of a document with a published text, the text's version was processed   *)
(* after every other published one; without one, no version is published.  *)
LatestIsPublished ==
  \A d \in Documents :
    /\ PublishedVersions(d) # {} => Published(d) # {}
    /\ \A t \in Published(d) : \A v \in PublishedVersions(d) :
         v # texts[t].version => versions[v].processed < versions[texts[t].version].processed

InStep == OnePublished /\ LatestIsPublished

(* From its stamp to its commit a transaction is the latest, and stores a  *)
(* version that is not published yet.                                      *)
Stamped == {"version", "text", "textrow", "withdraw", "commit"}

StampIsLatest(o) ==
  stage[o] \in Stamped =>
    /\ \A v \in Versions : versions[v].processed < tx[o].stamp
    /\ versions[VersionAt(o)].status # "published"

(* What is withdrawn is all that is published.                             *)
WithdrawsAll(o) ==
  stage[o] = "commit" /\ VerdictAt(o) = "good" =>
    tx[o].seen = Published(DocumentAt(o)) \ {TextAt(o)}

(* Each document before the entry has the manifest's metadata, or will get *)
(* it with the commit; only documents of the manifest are written.         *)
Cataloguing == {"sync", "document", "relations", "replace"}

Catalogued(o, d) == catalog[d] = job[o].manifest \/ <<"document", d>> \in tx[o].holds

CataloguedSoFar(o) ==
  /\ stage[o] \in {"sync", "document"} =>
       \A i \in 1..Len(EntriesOf(o)) :
         i < job[o].at => Catalogued(o, EntriesOf(o)[i].document)
  /\ stage[o] \in {"relations", "replace"} =>
       \A d \in DocumentsOf(job[o].manifest) : Catalogued(o, d)
  /\ stage[o] \in Cataloguing =>
       \A d \in Documents : <<"document", d>> \in tx[o].holds => d \in DocumentsOf(job[o].manifest)

(* What is deleted is all there is of the manifest's documents.            *)
DeletesAll(o) == stage[o] = "replace" => tx[o].seen = ReadsRelations(o)

AloneInv ==
  /\ CorpusInv /\ InStep /\ RelationsOfOneManifest
  /\ \A o \in Operators :
       StampIsLatest(o) /\ WithdrawsAll(o) /\ CataloguedSoFar(o) /\ DeletesAll(o)

-----------------------------------------------------------------------------
(* Which steps disturb what. *)

(* A failure changes no table and ends the run.                           *)
LEMMA FailsDisturbs ==
  ASSUME RunType, NEW o \in Operators, Fails(o)
  PROVE  UNCHANGED <<catalog, relations, versions, texts>> /\ stage'[o] = "idle"
BY DEF Fails, Goto, tables, RunType

(* An answered entry leads to the next or to the end.                     *)
LEMMA AnswersStage ==
  ASSUME RunType, NEW o \in Operators, NEW status, NEW v, Answers(o, status, v)
  PROVE  stage'[o] \in {"known", "idle"}
BY DEF Answers, Goto, RunType

Cataloguings(o) == SyncDocument(o) \/ WriteDocument(o) \/ ReadRelations(o)
Storings(o) == Persist(o) \/ WriteVersion(o) \/ ReadText(o) \/ WriteText(o) \/ Withdraw(o)

(* The steps of the catalogue's transaction lead to no other, and change   *)
(* no table before its commit.                                             *)
LEMMA CataloguingStep ==
  ASSUME RunType, NEW o \in Operators, Cataloguings(o)
  PROVE  UNCHANGED <<catalog, relations, versions, texts>> /\ stage'[o] \notin Stamped
<1>1. CASE SyncDocument(o)
  BY <1>1 DEF SyncDocument, NextEntry, Goto, tables, RunType, Stamped
<1>2. CASE WriteDocument(o)
  BY <1>2, FailsDisturbs DEF WriteDocument, NextEntry, Goto, tables, RunType, Stamped
<1>3. CASE ReadRelations(o)
  BY <1>3 DEF ReadRelations, Goto, tables, RunType, Stamped
<1> QED
  BY <1>1, <1>2, <1>3 DEF Cataloguings

(* The statements between change no table.                                *)
LEMMA StoringStep ==
  ASSUME RunType, NEW o \in Operators, Storings(o)
  PROVE  UNCHANGED <<catalog, relations, versions, texts>> /\ stage'[o] \notin Cataloguing
<1>1. CASE Persist(o)
  BY <1>1, AnswersStage DEF Persist, Goto, tables, RunType, Cataloguing
<1>2. CASE WriteVersion(o)
  BY <1>2, FailsDisturbs DEF WriteVersion, Goto, tables, RunType, Cataloguing
<1>3. CASE ReadText(o)
  BY <1>3 DEF ReadText, Goto, tables, RunType, Cataloguing
<1>4. CASE WriteText(o)
  BY <1>4, FailsDisturbs DEF WriteText, AfterText, Goto, tables, RunType, Cataloguing
<1>5. CASE Withdraw(o)
  BY <1>5 DEF Withdraw, Goto, tables, RunType, Cataloguing
<1> QED
  BY <1>1, <1>2, <1>3, <1>4, <1>5 DEF Storings

(* Steps outside both.                                                     *)
LEMMA PlainStep ==
  ASSUME RunType, NEW o \in Operators,
         ReadKnown(o) \/ Fetch(o) \/ RecordUnchanged(o) \/ Reject(o) \/ RejectVersion(o) \/ ReadQuarantine(o)
  PROVE  /\ UNCHANGED <<catalog, relations, versions, texts>>
         /\ stage'[o] \notin Stamped \union Cataloguing
<1>1. CASE ReadKnown(o)
  BY <1>1 DEF ReadKnown, Goto, tables, RunType, Stamped, Cataloguing
<1>2. CASE Fetch(o)
  <2>1. stage'[o] \in {"reject", "unchanged", "persist"}
    BY <1>2 DEF Fetch, Fetched, Goto, RunType
  <2> QED
    BY <1>2, <2>1 DEF Fetch, tables, Stamped, Cataloguing
<1>3. CASE RecordUnchanged(o)
  BY <1>3, FailsDisturbs, AnswersStage DEF RecordUnchanged, Stamped, Cataloguing
<1>4. CASE Reject(o)
  BY <1>4 DEF Reject, Goto, tables, RunType, Stamped, Cataloguing
<1>5. CASE RejectVersion(o)
  BY <1>5, FailsDisturbs DEF RejectVersion, Goto, tables, RunType, Stamped, Cataloguing
<1>6. CASE ReadQuarantine(o)
  BY <1>6 DEF ReadQuarantine, Goto, tables, RunType, Stamped, Cataloguing
<1> QED
  BY <1>1, <1>2, <1>3, <1>4, <1>5, <1>6

(* Elsewhere there is nothing to say of a run.                             *)
LEMMA NothingToSay ==
  ASSUME NEW o \in Operators
  PROVE  /\ stage'[o] \notin Stamped => StampIsLatest(o)' /\ WithdrawsAll(o)'
         /\ stage'[o] \notin Cataloguing => CataloguedSoFar(o)' /\ DeletesAll(o)'
BY DEF StampIsLatest, WithdrawsAll, CataloguedSoFar, DeletesAll, Stamped, Cataloguing

(* As long as the texts and the published versions stay, so does their     *)
(* order.                                                                  *)
LEMMA InStepKept ==
  ASSUME TableType, PublishedIsGoverned, InStep, texts' = texts,
         \A v \in Versions : versions[v].status = "published" \/ versions'[v].status = "published" =>
           versions'[v] = versions[v]
  PROVE  InStep'
<1>1. \A d \in Documents : Published(d)' = Published(d)
  BY DEF Published
<1>2. \A d \in Documents : PublishedVersions(d)' = PublishedVersions(d)
  BY DEF PublishedVersions
<1>3. OnePublished'
  BY <1>1 DEF InStep, OnePublished
<1>4. ASSUME NEW d \in Documents, NEW t \in Published(d), NEW v \in PublishedVersions(d), v # texts[t].version
      PROVE  versions'[v].processed < versions'[texts[t].version].processed
  <2>1. v \in Versions /\ versions[v].status = "published"
    BY <1>4 DEF PublishedVersions
  <2>2. texts[t].version \in Versions /\ versions[texts[t].version].status = "published"
    BY <1>4 DEF Published, PublishedIsGoverned
  <2>3. versions'[v] = versions[v] /\ versions'[texts[t].version] = versions[texts[t].version]
    BY <2>1, <2>2
  <2>4. versions[v].processed < versions[texts[t].version].processed
    BY <1>4 DEF InStep, LatestIsPublished
  <2> QED
    BY <2>3, <2>4
<1>5. LatestIsPublished'
  BY <1>1, <1>2, <1>4 DEF InStep, LatestIsPublished
<1> QED
  BY <1>3, <1>5 DEF InStep

-----------------------------------------------------------------------------
(* The catalogue. *)

(* Going on to the next document leaves those before catalogued.          *)
LEMMA NextEntryCatalogues ==
  ASSUME RunType, NEW o \in Operators, AtAnEntry(o), stage[o] \in {"sync", "document"},
         NEW x \in Transaction, tx' = [tx EXCEPT ![o] = x], catalog' = catalog,
         NextEntry(o), CataloguedSoFar(o), tx[o].holds \subseteq x.holds,
         \A d \in Documents : <<"document", d>> \in x.holds => d \in DocumentsOf(job[o].manifest),
         catalog[DocumentAt(o)] = job[o].manifest \/ <<"document", DocumentAt(o)>> \in x.holds
  PROVE  CataloguedSoFar(o)' /\ DeletesAll(o)'
<1>0. PICK m \in Manifests : m = job[o].manifest
  BY DEF AtAnEntry
<1>1. /\ job[o].at \in 1..Len(EntriesOf(o)) /\ Len(EntriesOf(o)) \in Nat /\ EntriesOf(o) = Entries[m]
      /\ job[o] \in Job /\ tx'[o] = x
  BY <1>0, EntryTypes DEF RunType, EntriesOf
<1>2. /\ job'[o].manifest = m /\ stage'[o] \in {"sync", "relations"}
      /\ stage'[o] = "sync" => job'[o].at = job[o].at + 1
      /\ stage'[o] = "relations" => job[o].at = Len(EntriesOf(o))
  <2>1. CASE More(o)
    BY <1>0, <1>1, <2>1 DEF NextEntry, Goto, RunType, Job
  <2>2. CASE ~More(o)
    <3>1. job[o].at = Len(EntriesOf(o))
      BY <1>1, <2>2 DEF More
    <3> QED
      BY <1>0, <1>1, <2>2, <3>1 DEF NextEntry, Goto, RunType, Job
  <2> QED
    BY <2>1, <2>2
<1>3. EntriesOf(o)' = Entries[m] /\ DocumentsOf(job[o].manifest)' = DocumentsOf(m)
  BY <1>2 DEF EntriesOf, DocumentsOf
<1>4. ASSUME NEW i \in 1..Len(Entries[m]), i <= job[o].at
      PROVE  Catalogued(o, Entries[m][i].document)'
  <2>1. CASE i < job[o].at
    <3>1. Catalogued(o, Entries[m][i].document)
      BY <1>1, <1>4, <2>1 DEF CataloguedSoFar
    <3> QED
      BY <1>0, <1>1, <1>2, <3>1 DEF Catalogued
  <2>2. CASE i = job[o].at
    <3>1. Entries[m][i].document = DocumentAt(o)
      BY <1>1, <2>2 DEF DocumentAt, EntryAt
    <3> QED
      BY <1>0, <1>1, <1>2, <3>1 DEF Catalogued
  <2> QED
    BY <1>1, <1>4, <2>1, <2>2
<1>5. ASSUME stage'[o] = "sync", NEW i \in 1..Len(Entries[m]), i < job'[o].at
      PROVE  Catalogued(o, Entries[m][i].document)'
  <2>1. i <= job[o].at
    BY <1>1, <1>2, <1>5
  <2> QED
    BY <1>4, <2>1
<1>6. ASSUME stage'[o] = "relations", NEW d \in DocumentsOf(m)
      PROVE  Catalogued(o, d)'
  <2>1. PICK i \in 1..Len(Entries[m]) : d = Entries[m][i].document
    BY DEF DocumentsOf
  <2>2. i <= job[o].at
    BY <1>1, <1>2, <1>6
  <2> QED
    BY <1>4, <2>1, <2>2
<1>7. \A d \in Documents : <<"document", d>> \in tx'[o].holds => d \in DocumentsOf(m)
  BY <1>0, <1>1
<1>8. DocumentsOf(job[o].manifest)' = DocumentsOf(m)
  BY <1>2 DEF DocumentsOf
<1>9. stage'[o] # "document" /\ stage'[o] # "replace"
  BY <1>2
<1>10. stage'[o] \in {"relations", "replace"} => \A d \in DocumentsOf(job[o].manifest)' : Catalogued(o, d)'
  BY <1>6, <1>8, <1>9
<1>11. (stage[o] \in {"sync", "document"} =>
          \A i \in 1..Len(EntriesOf(o)) : i < job[o].at => Catalogued(o, EntriesOf(o)[i].document))'
  BY <1>3, <1>5, <1>9
<1> QED
  BY <1>7, <1>8, <1>9, <1>10, <1>11 DEF CataloguedSoFar, DeletesAll

(* So does every statement of the catalogue's transaction.                *)
LEMMA CataloguingAdvances ==
  ASSUME CorpusInv, NEW o \in Operators, Cataloguings(o), CataloguedSoFar(o)
  PROVE  CataloguedSoFar(o)' /\ DeletesAll(o)'
<1>0. stage[o] \in {"sync", "document", "relations"}
  BY DEF Cataloguings, SyncDocument, WriteDocument, ReadRelations
<1>1. /\ RunType /\ AtAnEntry(o) /\ tx[o] \in Transaction /\ DocumentAt(o) \in Documents
      /\ UNCHANGED <<catalog, relations>> /\ stage[o] \in Cataloguing
      /\ job[o].at \in 1..Len(EntriesOf(o))
  BY <1>0, AtWorkFacts, CataloguingStep DEF Cataloguing, AtAnEntry
<1>2. \A d \in Documents : <<"document", d>> \in tx[o].holds => d \in DocumentsOf(job[o].manifest)
  BY <1>1 DEF CataloguedSoFar
<1>3. CASE SyncDocument(o) /\ catalog[DocumentAt(o)] = job[o].manifest
  <2>1. NextEntry(o) /\ tx' = [tx EXCEPT ![o] = tx[o]] /\ stage[o] = "sync"
    BY <1>1, <1>3 DEF SyncDocument, RunType
  <2> QED
    BY <1>1, <1>2, <1>3, <2>1, NextEntryCatalogues
<1>4. CASE SyncDocument(o) /\ catalog[DocumentAt(o)] # job[o].manifest
  <2>1. /\ stage'[o] = "document" /\ stage[o] = "sync" /\ job' = job
        /\ tx'[o] = [tx[o] EXCEPT !.fresh = (catalog[DocumentAt(o)] = NoManifest)]
    BY <1>1, <1>4 DEF SyncDocument, Goto, InTx, RunType
  <2>2. tx'[o].holds = tx[o].holds
    BY <1>1, <2>1 DEF Transaction
  <2>3. EntriesOf(o)' = EntriesOf(o)
    BY <2>1 DEF EntriesOf
  <2>4. \A d : Catalogued(o, d) => Catalogued(o, d)'
    BY <1>1, <2>1, <2>2 DEF Catalogued
  <2> QED
    BY <1>2, <2>1, <2>2, <2>3, <2>4 DEF CataloguedSoFar, DeletesAll
<1>5. CASE WriteDocument(o) /\ Fails(o)
  BY <1>1, <1>5, FailsDisturbs, NothingToSay DEF Cataloguing
<1>6. CASE WriteDocument(o) /\ ~Fails(o)
  <2>1. NextEntry(o) /\ tx' = [tx EXCEPT ![o] = Writing(o)] /\ stage[o] = "document"
    BY <1>6 DEF WriteDocument, InTx
  <2>2. Wants(o) = {<<"document", DocumentAt(o)>>}
    BY <2>1 DEF Wants
  <2>3. Writing(o) \in Transaction /\ Writing(o).holds = tx[o].holds \union Wants(o)
    BY <1>1, <2>2 DEF Writing, Transaction, Row
  <2>4. DocumentAt(o) \in DocumentsOf(job[o].manifest)
    BY <1>1 DEF DocumentsOf, DocumentAt, EntryAt, EntriesOf
  <2>5. \A d \in Documents : <<"document", d>> \in Writing(o).holds => d \in DocumentsOf(job[o].manifest)
    BY <1>2, <2>2, <2>3, <2>4
  <2> QED
    BY <1>1, <2>1, <2>2, <2>3, <2>5, NextEntryCatalogues
<1>7. CASE ReadRelations(o)
  <2>1. /\ stage'[o] = "replace" /\ stage[o] = "relations" /\ job' = job
        /\ tx'[o] = [tx[o] EXCEPT !.seen = ReadsRelations(o)]
    BY <1>1, <1>7 DEF ReadRelations, Goto, InTx, RunType
  <2>2. tx'[o].holds = tx[o].holds /\ tx'[o].seen = ReadsRelations(o)
    BY <1>1, <2>1 DEF Transaction
  <2>3. ReadsRelations(o)' = ReadsRelations(o)
    BY <1>1, <2>1 DEF ReadsRelations
  <2>4. \A d : Catalogued(o, d) => Catalogued(o, d)'
    BY <1>1, <2>1, <2>2 DEF Catalogued
  <2> QED
    BY <1>2, <2>1, <2>2, <2>3, <2>4 DEF CataloguedSoFar, DeletesAll
<1> QED
  BY <1>3, <1>4, <1>5, <1>6, <1>7 DEF Cataloguings

(* Citations with the run that inserts them.                               *)
LEMMA OfOneRun ==
  ASSUME NEW C, NEW run, NEW S,
         \A r \in S : r[1] \in C /\ r = <<r[1], run>>, \A c \in C : <<c, run>> \in S
  PROVE  {r[1] : r \in S} = C /\ \A r, s \in S : r[1] = s[1] => r = s
<1>1. C \subseteq {r[1] : r \in S}
  <2>1. \A c \in C : <<c, run>>[1] = c
    OBVIOUS
  <2> QED
    BY <2>1
<1> QED
  BY <1>1

(* The DELETE has seen every relation of the manifest's documents, so the  *)
(* new ones are all there are, and each of the documents gets the metadata *)
(* of the manifest or has it.                                              *)
LEMMA ReplaceKeepsRelations ==
  ASSUME CorpusInv, RelationsOfOneManifest, NEW o \in Operators, ReplaceRelations(o),
         CataloguedSoFar(o), DeletesAll(o)
  PROVE  RelationsOfOneManifest' /\ UNCHANGED <<versions, texts>> /\ stage'[o] \notin Stamped \union Cataloguing
<1>0. stage[o] = "replace"
  BY DEF ReplaceRelations
<1>1. RunType /\ TableType /\ job[o].manifest \in Manifests
  BY <1>0, AtWorkFacts DEF AtAnEntry
<1>2. CASE Fails(o)
  BY <1>1, <1>2, FailsDisturbs DEF RelationsOfOneManifest, Stamped, Cataloguing
<1>3. CASE ~Fails(o)
  <2>0. PICK m \in Manifests : m = job[o].manifest
    BY <1>1
  <2>1. /\ stage'[o] = "known" /\ UNCHANGED <<versions, texts>>
        /\ catalog' = [d \in Documents |-> IF <<"document", d>> \in tx[o].holds THEN m ELSE catalog[d]]
        /\ relations' = [d \in Documents |->
             IF d \in DocumentsOf(m)
             THEN {r \in relations[d] : <<d, r>> \notin tx[o].seen}
                    \union {<<c, job[o].run>> : c \in RelationsOf[m][d]}
             ELSE relations[d]]
    BY <1>1, <1>3, <2>0 DEF ReplaceRelations, Goto, RunType
  <2>2. tx[o].seen = UNION {{<<d, r>> : r \in relations[d]} : d \in DocumentsOf(m)}
    BY <1>0, <2>0 DEF DeletesAll, ReadsRelations
  <2>3. ASSUME NEW d \in Documents, d \in DocumentsOf(m)
        PROVE  relations'[d] = {<<c, job[o].run>> : c \in RelationsOf[m][d]} /\ catalog'[d] = m
    <3>1. {r \in relations[d] : <<d, r>> \notin tx[o].seen} = {}
      BY <2>2, <2>3
    <3>2. catalog[d] = m \/ <<"document", d>> \in tx[o].holds
      BY <1>0, <2>0, <2>3 DEF CataloguedSoFar, Catalogued
    <3> QED
      BY <2>1, <2>3, <3>1, <3>2
  <2>4. ASSUME NEW d \in Documents, d \notin DocumentsOf(m)
        PROVE  relations'[d] = relations[d] /\ catalog'[d] = catalog[d]
    <3>1. <<"document", d>> \notin tx[o].holds
      BY <1>0, <2>0, <2>4 DEF CataloguedSoFar, Cataloguing
    <3> QED
      BY <2>1, <2>4, <3>1
  <2>5. ASSUME NEW d \in Documents, catalog'[d] # NoManifest
        PROVE  /\ {r[1] : r \in relations'[d]} = RelationsOf[catalog'[d]][d]
               /\ \A r, s \in relations'[d] : r[1] = s[1] => r = s
    <3>1. CASE d \in DocumentsOf(m)
      <4>1. PICK S, C, run : S = relations'[d] /\ C = RelationsOf[m][d] /\ run = job[o].run
        OBVIOUS
      <4>2. S = {<<c, run>> : c \in C}
        BY <2>3, <3>1, <4>1
      <4>3. /\ \A r \in S : r[1] \in C /\ r = <<r[1], run>>
            /\ \A c \in C : <<c, run>> \in S
        BY <4>2
      <4>4. {r[1] : r \in S} = C /\ \A r, s \in S : r[1] = s[1] => r = s
        BY <4>3, OfOneRun, Zenon
      <4>5. RelationsOf[catalog'[d]][d] = C /\ relations'[d] = S
        BY <2>3, <3>1, <4>1
      <4> QED
        BY <4>4, <4>5, Zenon
    <3>2. CASE d \notin DocumentsOf(m)
      BY <2>4, <2>5, <3>2 DEF RelationsOfOneManifest
    <3> QED
      BY <3>1, <3>2
  <2>6. RelationsOfOneManifest'
    BY <2>5 DEF RelationsOfOneManifest
  <2> QED
    BY <2>1, <2>6 DEF Stamped, Cataloguing
<1> QED
  BY <1>2, <1>3

-----------------------------------------------------------------------------
(* Versions and texts. *)

(* Between its stamp and its commit a transaction stays the latest, since  *)
(* the tables do not change; and it withdraws what is published.           *)
LEMMA StoringAdvances ==
  ASSUME CorpusInv, NEW o \in Operators, Storings(o), StampIsLatest(o)
  PROVE  StampIsLatest(o)' /\ WithdrawsAll(o)'
<1>0. stage[o] \in {"persist", "version", "text", "textrow", "withdraw"}
  BY DEF Storings, Persist, WriteVersion, ReadText, WriteText, Withdraw
<1>1. /\ RunType /\ TableType /\ ProcessedByNow /\ clock \in Nat /\ tx[o] \in Transaction
      /\ VersionAt(o) \in Versions
  BY <1>0, AtWorkFacts DEF CorpusInv
<1>2. UNCHANGED <<versions, texts>>
  BY <1>1, StoringStep
<1>3. ASSUME NEW s \in Stages, stage'[o] = s, job'[o] = job[o]
      PROVE  VersionAt(o)' = VersionAt(o) /\ DocumentAt(o)' = DocumentAt(o)
             /\ TextAt(o)' = TextAt(o) /\ VerdictAt(o)' = VerdictAt(o)
  BY <1>3 DEF VersionAt, DocumentAt, TextAt, VerdictAt, EntryAt, EntriesOf
<1>4. Stamped \subseteq Stages /\ "commit" \in Stages
  BY DEF Stamped, Stages
<1>5. CASE Persist(o) /\ KnownVersion(o)
  <2>1. stage'[o] \in {"known", "idle"}
    BY <1>1, <1>5, AnswersStage DEF Persist
  <2> QED
    BY <2>1, NothingToSay DEF Stamped
<1>6. CASE Persist(o) /\ ~KnownVersion(o)
  <2>1. /\ stage'[o] = "version" /\ job' = job
        /\ tx'[o] = [tx[o] EXCEPT !.fresh = (versions[VersionAt(o)].status = "none"), !.stamp = clock + 1]
    BY <1>1, <1>6 DEF Persist, Goto, InTx, RunType
  <2>2. tx'[o].stamp = clock + 1
    BY <1>1, <2>1 DEF Transaction
  <2>3. ASSUME NEW v \in Versions PROVE versions'[v].processed < tx'[o].stamp
    <3>1. versions[v].processed \in Nat /\ versions[v].processed <= clock
      BY <1>1 DEF TableType, ProcessedByNow
    <3> QED
      BY <1>1, <1>2, <2>2, <3>1
  <2>4. VersionAt(o)' = VersionAt(o)
    BY <1>3, <1>4, <2>1 DEF Stamped
  <2>5. versions'[VersionAt(o)'].status # "published"
    BY <1>2, <1>6, <2>4 DEF KnownVersion
  <2> QED
    BY <2>1, <2>3, <2>5 DEF StampIsLatest, WithdrawsAll
<1>7. ASSUME stage[o] \in Stamped, stage'[o] \in Stamped, job' = job, tx'[o].stamp = tx[o].stamp
      PROVE  StampIsLatest(o)'
  <2>1. VersionAt(o)' = VersionAt(o)
    BY <1>3, <1>4, <1>7
  <2> QED
    BY <1>2, <1>7, <2>1 DEF StampIsLatest
<1>8. CASE (WriteVersion(o) \/ WriteText(o)) /\ Fails(o)
  BY <1>1, <1>8, FailsDisturbs, NothingToSay DEF Stamped
<1>9. CASE WriteVersion(o) /\ ~Fails(o)
  <2>1. stage'[o] = "text" /\ stage[o] = "version" /\ job' = job /\ tx'[o] = Writing(o)
    BY <1>1, <1>9 DEF WriteVersion, Goto, InTx, RunType
  <2>2. tx'[o].stamp = tx[o].stamp
    BY <1>1, <2>1 DEF Writing, Transaction
  <2> QED
    BY <1>7, <2>1, <2>2 DEF Stamped, WithdrawsAll
<1>10. CASE ReadText(o)
  <2>1. stage'[o] = "textrow" /\ stage[o] = "text" /\ job' = job /\ tx'[o].stamp = tx[o].stamp
    BY <1>1, <1>10 DEF ReadText, Goto, InTx, RunType, Transaction
  <2> QED
    BY <1>7, <2>1 DEF Stamped, WithdrawsAll
<1>11. CASE WriteText(o) /\ ~Fails(o)
  <2>1. /\ stage'[o] = AfterText(o) /\ stage[o] = "textrow" /\ job' = job
        /\ tx'[o] = [Writing(o) EXCEPT !.seen = {}]
    BY <1>1, <1>11 DEF WriteText, Goto, InTx, RunType
  <2>2. tx'[o].stamp = tx[o].stamp
    BY <1>1, <2>1 DEF Writing, Transaction
  <2>3. stage'[o] \in {"withdraw", "commit"} /\ (stage'[o] = "commit" => VerdictAt(o) # "good")
    BY <2>1 DEF AfterText
  <2>4. VerdictAt(o)' = VerdictAt(o)
    BY <1>3, <1>4, <2>1, <2>3 DEF Stamped
  <2> QED
    BY <1>7, <2>1, <2>2, <2>3, <2>4 DEF Stamped, WithdrawsAll
<1>12. CASE Withdraw(o)
  <2>1. /\ stage'[o] = "commit" /\ stage[o] = "withdraw" /\ job' = job /\ tx'[o].stamp = tx[o].stamp
        /\ tx'[o].seen = Withdrawn(o) \ {TextAt(o)}
    BY <1>1, <1>12 DEF Withdraw, Goto, InTx, RunType, Transaction
  <2>2. DocumentAt(o)' = DocumentAt(o) /\ TextAt(o)' = TextAt(o)
    BY <1>3, <1>4, <2>1
  <2>3. (Published(DocumentAt(o)))' = Published(DocumentAt(o))
    BY <1>2, <2>2 DEF Published
  <2> QED
    BY <1>7, <2>1, <2>2, <2>3 DEF Stamped, WithdrawsAll, Withdrawn
<1> QED
  BY <1>5, <1>6, <1>8, <1>9, <1>10, <1>11, <1>12 DEF Storings

(* A rejection adds a version that is not published, or none.              *)
LEMMA RejectedKeepsStep ==
  ASSUME CorpusInv, InStep, NEW o \in Operators, Rejected(o)
  PROVE  InStep' /\ UNCHANGED <<catalog, relations>> /\ stage'[o] \notin Stamped \union Cataloguing
<1>0. stage[o] = "rejected"
  BY DEF Rejected
<1>1. RunType /\ TableType /\ HoldsItsVersion(o) /\ PublishedIsGoverned /\ InStep
  BY <1>0, AtWorkFacts DEF RunInv, CorpusInv
<1>2. CASE Fails(o)
  <2>1. UNCHANGED <<catalog, relations, versions, texts>> /\ stage'[o] = "idle"
    BY <1>1, <1>2, FailsDisturbs
  <2> QED
    BY <1>1, <2>1, InStepKept DEF Stamped, Cataloguing
<1>3. CASE ~Fails(o)
  <2>1. /\ UNCHANGED <<catalog, relations, texts>> /\ stage'[o] \in {"known", "idle"}
        /\ versions' = IF tx[o].fresh
                       THEN [versions EXCEPT ![VersionAt(o)] = [NoVersion EXCEPT !.status = "rejected"]]
                       ELSE versions
    BY <1>1, <1>3, AnswersStage DEF Rejected
  <2>2. tx[o].fresh => versions[VersionAt(o)].status = "none"
    BY <1>0, <1>1 DEF HoldsItsVersion
  <2>3. [NoVersion EXCEPT !.status = "rejected"].status = "rejected"
    BY DEF NoVersion
  <2>4. ASSUME NEW v \in Versions, versions[v].status = "published" \/ versions'[v].status = "published"
        PROVE  versions'[v] = versions[v]
    BY <1>1, <2>1, <2>2, <2>3, <2>4 DEF TableType
  <2>5. InStep'
    BY <1>1, <2>1, <2>4, InStepKept
  <2> QED
    BY <2>1, <2>5 DEF Stamped, Cataloguing
<1> QED
  BY <1>2, <1>3

(* A commit of a well read text leaves it as the only published one of its *)
(* document, and its version as the latest; any other changes no published *)
(* text or version.                                                        *)
LEMMA CommitKeepsStep ==
  ASSUME CorpusInv, InStep, NEW o \in Operators, Commit(o), StampIsLatest(o), WithdrawsAll(o)
  PROVE  InStep' /\ UNCHANGED <<catalog, relations>> /\ stage'[o] \notin Stamped \union Cataloguing
<1> DEFINE good == VerdictAt(o) = "good"
<1>0. stage[o] = "commit" /\ stage[o] \in Stamped
  BY DEF Commit, Stamped
<1>1. /\ RunType /\ TableType /\ RunInv(o) /\ PublishedIsGoverned
      /\ DocumentAt(o) \in Documents /\ VersionAt(o) \in Versions /\ TextAt(o) \in Texts
      /\ tx[o] \in Transaction
  BY <1>0, AtWorkFacts DEF CorpusInv, Parsed, Storing
<1>2. /\ UNCHANGED <<catalog, relations>> /\ stage'[o] \in {"known", "idle"}
      /\ versions' = [versions EXCEPT ![VersionAt(o)] = StoredVersion(o)]
      /\ \A t \in Texts : texts'[t] =
           IF t = TextAt(o)
           THEN [version |-> VersionAt(o), published |-> good, retrieved |-> job[o].retrieved]
           ELSE IF t \in tx[o].seen THEN [texts[t] EXCEPT !.published = FALSE] ELSE texts[t]
  BY <1>1, AnswersStage DEF Commit
<1>3. /\ versions'[VersionAt(o)] = StoredVersion(o)
      /\ \A v \in Versions : v # VersionAt(o) => versions'[v] = versions[v]
  BY <1>1, <1>2 DEF TableType
<1>4. /\ VersionAt(o)[1] = DocumentAt(o) /\ TextAt(o)[1] = DocumentAt(o)
      /\ TextAt(o)[2] = job[o].file /\ TextAt(o)[3] = job[o].parser
  BY DEF VersionAt, TextAt
<1>5. /\ \A v \in Versions : versions[v].processed < tx[o].stamp
      /\ versions[VersionAt(o)].status # "published"
  BY <1>0 DEF StampIsLatest
<1>6. \A t \in tx[o].seen : good /\ t # TextAt(o) /\ t[1] = DocumentAt(o)
  BY <1>0, <1>1 DEF RunInv, WithdrawsOthers
<1>7. texts'[TextAt(o)].version = VersionAt(o) /\ texts'[TextAt(o)].published = good
  <2>1. texts'[TextAt(o)] = [version |-> VersionAt(o), published |-> good, retrieved |-> job[o].retrieved]
    BY <1>1, <1>2
  <2> HIDE DEF good
  <2> QED
    BY <2>1
<1>8. ASSUME NEW t \in Texts, t # TextAt(o)
      PROVE  /\ texts'[t].version = texts[t].version
             /\ texts'[t].published <=> texts[t].published /\ t \notin tx[o].seen
  <2>1. texts[t] \in [version : Versions \union {<<>>}, published : BOOLEAN, retrieved : Nat]
    BY <1>1 DEF TableType
  <2>2. CASE t \in tx[o].seen
    <3>1. texts'[t] = [texts[t] EXCEPT !.published = FALSE]
      BY <1>2, <1>8, <2>2
    <3> QED
      BY <2>1, <2>2, <3>1
  <2>3. CASE t \notin tx[o].seen
    <3>1. texts'[t] = texts[t]
      BY <1>2, <1>8, <2>3
    <3> QED
      BY <2>3, <3>1
  <2> QED
    BY <2>2, <2>3
<1>9. \A t \in Texts : texts[t].published =>
        /\ texts[t].version \in Versions /\ texts[t].version[1] = t[1]
        /\ versions[texts[t].version].status = "published" /\ Verdict[t[2]][t[3]] = "good"
  BY <1>1 DEF PublishedIsGoverned
<1>10. StoredVersion(o).processed = tx[o].stamp
  BY DEF StoredVersion
<1> HIDE DEF good
(* Of other documents nothing changes. *)
<1>11. ASSUME NEW d \in Documents, d # DocumentAt(o)
       PROVE  /\ Published(d)' = Published(d) /\ PublishedVersions(d)' = PublishedVersions(d)
              /\ \A t \in Published(d) : texts'[t].version = texts[t].version
              /\ \A v \in PublishedVersions(d) : versions'[v] = versions[v]
  <2>1. \A t \in Texts : t[1] = d =>
          texts'[t].version = texts[t].version /\ (texts'[t].published <=> texts[t].published)
    BY <1>4, <1>6, <1>8, <1>11
  <2>2. \A v \in Versions : v[1] = d => versions'[v] = versions[v]
    BY <1>3, <1>4, <1>11
  <2>3. Published(d)' = Published(d) /\ PublishedVersions(d)' = PublishedVersions(d)
    BY <2>1, <2>2 DEF Published, PublishedVersions
  <2> QED
    BY <2>1, <2>2, <2>3 DEF Published, PublishedVersions
<1>12. ASSUME NEW d \in Documents, d # DocumentAt(o)
       PROVE  /\ \A t, u \in Published(d)' : t = u
              /\ PublishedVersions(d)' # {} => Published(d)' # {}
              /\ \A t \in Published(d)' : \A v \in PublishedVersions(d)' :
                   v # texts'[t].version => versions'[v].processed < versions'[texts'[t].version].processed
  <2>1. /\ \A t, u \in Published(d) : t = u
        /\ PublishedVersions(d) # {} => Published(d) # {}
    BY DEF InStep, OnePublished, LatestIsPublished
  <2>2. ASSUME NEW t \in Published(d), NEW v \in PublishedVersions(d), v # texts[t].version
        PROVE  versions'[v].processed < versions'[texts[t].version].processed
    <3>1. versions[v].processed < versions[texts[t].version].processed
      BY <2>2 DEF InStep, LatestIsPublished
    <3>2. t \in Texts /\ texts[t].published /\ t[1] = d
      BY DEF Published
    <3>3. texts[t].version \in PublishedVersions(d)
      BY <1>9, <3>2 DEF PublishedVersions
    <3>4. versions'[v] = versions[v] /\ versions'[texts[t].version] = versions[texts[t].version]
      BY <1>11, <1>12, <3>3
    <3> QED
      BY <3>1, <3>4
  <2> QED
    BY <1>11, <1>12, <2>1, <2>2
<1>13. CASE good
  <2>1. tx[o].seen = Published(DocumentAt(o)) \ {TextAt(o)}
    BY <1>0, <1>13 DEF WithdrawsAll, good
  <2>2. TextAt(o) \in Texts /\ texts'[TextAt(o)].published /\ TextAt(o)[1] = DocumentAt(o)
    BY <1>1, <1>4, <1>7, <1>13
  <2>3. ASSUME NEW t \in Texts, t[1] = DocumentAt(o), texts'[t].published PROVE t = TextAt(o)
    <3>1. ASSUME t # TextAt(o) PROVE FALSE
      <4>1. texts[t].published /\ t \notin tx[o].seen
        BY <1>8, <2>3, <3>1
      <4>2. t \in Published(DocumentAt(o)) \ {TextAt(o)}
        BY <2>3, <3>1, <4>1 DEF Published
      <4> QED
        BY <2>1, <4>1, <4>2
    <3> QED
      BY <3>1
  <2>4. ASSUME NEW v \in Versions, v # VersionAt(o)
        PROVE  versions'[v].processed < versions'[VersionAt(o)].processed
    BY <1>3, <1>5, <1>10, <2>4
  <2>5. ASSUME NEW e \in Documents, e = DocumentAt(o)
        PROVE  /\ \A t, u \in Published(e)' : t = u
               /\ PublishedVersions(e)' # {} => Published(e)' # {}
               /\ \A t \in Published(e)' : \A v \in PublishedVersions(e)' :
                    v # texts'[t].version => versions'[v].processed < versions'[texts'[t].version].processed
    <3>1. Published(e)' = {TextAt(o)}
      BY <2>2, <2>3, <2>5 DEF Published
    <3>2. PublishedVersions(e)' \subseteq Versions
      BY DEF PublishedVersions
    <3> QED
      BY <1>7, <2>4, <3>1, <3>2
  <2>6. OnePublished' /\ LatestIsPublished'
    BY <1>12, <2>5 DEF OnePublished, LatestIsPublished
  <2> QED
    BY <1>2, <2>6 DEF InStep, Stamped, Cataloguing
<1>14. CASE ~good
  <2>1. tx[o].seen = {} /\ ~texts[TextAt(o)].published /\ ~texts'[TextAt(o)].published
    BY <1>1, <1>4, <1>6, <1>7, <1>9, <1>14 DEF good, VerdictAt, TableType
  <2>2. StoredVersion(o).status # "published"
    BY <1>5, <1>14 DEF StoredVersion, good
  <2>3. \A t \in Texts : texts'[t].published <=> texts[t].published
    BY <1>8, <2>1
  <2>4. \A v \in Versions : versions[v].status = "published" \/ versions'[v].status = "published" =>
          versions'[v] = versions[v]
    BY <1>3, <1>5, <2>2
  <2>5. \A d \in Documents : Published(d)' = Published(d) /\ PublishedVersions(d)' = PublishedVersions(d)
    BY <2>3, <2>4 DEF Published, PublishedVersions
  <2>6. ASSUME NEW d \in Documents, NEW t \in Published(d), NEW v \in PublishedVersions(d),
               v # texts'[t].version
        PROVE  versions'[v].processed < versions'[texts'[t].version].processed
    <3>1. t \in Texts /\ texts[t].published /\ t # TextAt(o)
      BY <2>1 DEF Published
    <3>2. texts'[t].version = texts[t].version
      BY <1>8, <3>1
    <3>3. versions[v].processed < versions[texts[t].version].processed
      BY <2>6, <3>2 DEF InStep, LatestIsPublished
    <3>4. versions'[v] = versions[v] /\ versions'[texts[t].version] = versions[texts[t].version]
      BY <1>9, <2>4, <3>1 DEF PublishedVersions
    <3> QED
      BY <3>2, <3>3, <3>4
  <2>7. OnePublished' /\ LatestIsPublished'
    BY <2>5, <2>6 DEF InStep, OnePublished, LatestIsPublished
  <2> QED
    BY <1>2, <2>7 DEF InStep, Stamped, Cataloguing
<1> QED
  BY <1>13, <1>14

-----------------------------------------------------------------------------
(* The inductive invariant of runs that follow each other. *)

(* Nobody runs at the start.                                              *)
LEMMA InitAloneInv == Init => AloneInv
<1> SUFFICES ASSUME Init PROVE AloneInv
  OBVIOUS
<1>1. CorpusInv
  BY InitCorpusInv
<1>2. /\ \A t \in Texts : ~texts[t].published
      /\ \A v \in Versions : versions[v].status # "published"
  BY DEF Init, NoText, NoVersion
<1>3. InStep
  BY <1>2 DEF InStep, OnePublished, LatestIsPublished, Published, PublishedVersions
<1>4. RelationsOfOneManifest
  BY DEF Init, RelationsOfOneManifest
<1>5. \A o \in Operators : stage[o] = "idle"
  BY DEF Init
<1>6. \A o \in Operators : StampIsLatest(o) /\ WithdrawsAll(o) /\ CataloguedSoFar(o) /\ DeletesAll(o)
  BY <1>5 DEF StampIsLatest, WithdrawsAll, CataloguedSoFar, DeletesAll, Stamped, Cataloguing
<1> QED
  BY <1>1, <1>3, <1>4, <1>6 DEF AloneInv

(* A step of a run's operator is a step of nobody else.                    *)
LEMMA FailsAlone ==
  ASSUME NEW o \in Operators, Fails(o)
  PROVE  \E s : stage' = [stage EXCEPT ![o] = s]
BY DEF Fails, Goto

(* An entry ends only in a run that goes on.                              *)
LEMMA SettlesAlone ==
  ASSUME NEW o \in Operators, Settle(o)
  PROVE  stage[o] # "idle" /\ \E s : stage' = [stage EXCEPT ![o] = s]
<1>1. ASSUME NEW status, NEW v, Answers(o, status, v) PROVE \E s : stage' = [stage EXCEPT ![o] = s]
  BY <1>1 DEF Answers, Goto
<1>2. CASE SyncDocument(o) \/ WriteDocument(o)
  BY <1>2, FailsAlone DEF SyncDocument, WriteDocument, NextEntry, Goto
<1>3. CASE ReadRelations(o) \/ ReplaceRelations(o) \/ ReadKnown(o)
  BY <1>3, FailsAlone DEF ReadRelations, ReplaceRelations, ReadKnown, Goto
<1>4. CASE Fetch(o) \/ RecordUnchanged(o) \/ Rejected(o)
  BY <1>1, <1>4, FailsAlone DEF Fetch, Fetched, RecordUnchanged, Rejected, Goto
<1>5. CASE Reject(o) \/ RejectVersion(o) \/ ReadQuarantine(o)
  BY <1>5, FailsAlone DEF Reject, RejectVersion, ReadQuarantine, Goto
<1>6. CASE Persist(o) \/ Commit(o)
  BY <1>1, <1>6 DEF Persist, Commit, Goto
<1>7. CASE WriteVersion(o) \/ ReadText(o) \/ WriteText(o) \/ Withdraw(o)
  BY <1>7, FailsAlone DEF WriteVersion, ReadText, WriteText, Withdraw, Goto
<1>8. CASE BreakDeadlock(o)
  <2>1. Wants(o) # {}
    BY <1>8 DEF BreakDeadlock, Deadlocked, WaitsFor
  <2>2. stage[o] # "idle"
    BY <2>1 DEF Wants
  <2> QED
    BY <1>8, <2>2, FailsAlone DEF BreakDeadlock
<1> QED
  BY <1>2, <1>3, <1>4, <1>5, <1>6, <1>7, <1>8 DEF Settle

(* What is to be shown of a step of o: the others are idle after it.       *)
LEMMA OneOperatorMoves ==
  ASSUME OneAtATime, OneAtATime', RunType, NEW o \in Operators,
         stage[o] # "idle" \/ stage'[o] # "idle", NEW s, stage' = [stage EXCEPT ![o] = s],
         CorpusInv', InStep', RelationsOfOneManifest',
         StampIsLatest(o)', WithdrawsAll(o)', CataloguedSoFar(o)', DeletesAll(o)'
  PROVE  AloneInv'
<1>1. ASSUME NEW p \in Operators, p # o
      PROVE  StampIsLatest(p)' /\ WithdrawsAll(p)' /\ CataloguedSoFar(p)' /\ DeletesAll(p)'
  <2>1. stage'[p] = "idle"
    BY <1>1 DEF OneAtATime, RunType
  <2> QED
    BY <2>1, NothingToSay DEF Stamped, Cataloguing
<1> QED
  BY <1>1 DEF AloneInv

(* The end of an entry, when no two run at once.                          *)
LEMMA SettleAlone ==
  ASSUME OneAtATime, OneAtATime', AloneInv, CorpusInv', NEW o \in Operators, Settle(o)
  PROVE  AloneInv'
<1>0. /\ CorpusInv /\ InStep /\ RelationsOfOneManifest /\ RunType /\ TableType /\ PublishedIsGoverned
      /\ StampIsLatest(o) /\ WithdrawsAll(o) /\ CataloguedSoFar(o) /\ DeletesAll(o)
  BY TypeParts DEF AloneInv, CorpusInv
<1>8. stage[o] # "idle" /\ \E s : stage' = [stage EXCEPT ![o] = s]
  BY SettlesAlone
<1>1. ASSUME UNCHANGED <<catalog, relations, versions, texts>>
      PROVE  InStep' /\ RelationsOfOneManifest'
  BY <1>0, <1>1, InStepKept DEF RelationsOfOneManifest
<1>2. CASE Cataloguings(o)
  BY <1>0, <1>8, <1>1, <1>2, CataloguingStep, CataloguingAdvances, NothingToSay, OneOperatorMoves
<1>3. CASE Storings(o)
  BY <1>0, <1>8, <1>1, <1>3, StoringStep, StoringAdvances, NothingToSay, OneOperatorMoves
<1>4. CASE ReadKnown(o) \/ Fetch(o) \/ RecordUnchanged(o) \/ Reject(o) \/ RejectVersion(o) \/ ReadQuarantine(o)
  BY <1>0, <1>8, <1>1, <1>4, PlainStep, NothingToSay, OneOperatorMoves
<1>5. CASE BreakDeadlock(o)
  <2>1. UNCHANGED <<catalog, relations, versions, texts>> /\ stage'[o] = "idle"
    BY <1>0, <1>5, FailsDisturbs DEF BreakDeadlock
  <2> QED
    BY <1>0, <1>8, <1>1, <2>1, NothingToSay, OneOperatorMoves DEF Stamped, Cataloguing
<1>6. CASE ReplaceRelations(o)
  <2>1. /\ RelationsOfOneManifest' /\ UNCHANGED <<versions, texts>>
        /\ stage'[o] \notin Stamped \union Cataloguing
    BY <1>0, <1>6, ReplaceKeepsRelations
  <2>2. InStep'
    BY <1>0, <2>1, InStepKept
  <2> QED
    BY <1>0, <1>8, <2>1, <2>2, NothingToSay, OneOperatorMoves
<1>7. CASE Rejected(o) \/ Commit(o)
  <2>1. InStep' /\ UNCHANGED <<catalog, relations>> /\ stage'[o] \notin Stamped \union Cataloguing
    BY <1>0, <1>7, RejectedKeepsStep, CommitKeepsStep
  <2>2. RelationsOfOneManifest'
    BY <1>0, <2>1 DEF RelationsOfOneManifest
  <2> QED
    BY <1>0, <1>8, <2>1, <2>2, NothingToSay, OneOperatorMoves
<1> QED
  BY <1>2, <1>3, <1>4, <1>5, <1>6, <1>7 DEF Settle, Cataloguings, Storings

(* The start of a run, when no two run at once.                           *)
LEMMA StartAlone ==
  ASSUME OneAtATime, OneAtATime', AloneInv, CorpusInv', NEW o \in Operators, Start(o)
  PROVE  AloneInv'
<1>0. /\ CorpusInv /\ InStep /\ RelationsOfOneManifest /\ RunType /\ TableType /\ PublishedIsGoverned
      /\ stage[o] = "idle" /\ tx[o] = NoTx
  BY TypeParts DEF AloneInv, CorpusInv, RunInv, OutsideHoldsNothing, Outside, Start
<1>1. PICK m \in Manifests, p \in Parsers : job' = [job EXCEPT ![o] = JobAt(started + 1, m, p, 1)]
  BY DEF Start
<1>2. stage'[o] = "sync" /\ job'[o].at = 1 /\ tx'[o] = tx[o] /\ UNCHANGED <<catalog, relations, versions, texts>>
  BY <1>0, <1>1 DEF Start, Goto, JobAt, tables, RunType
<1>3. tx'[o].holds = {}
  BY <1>0, <1>2 DEF NoTx
<1>4. Len(EntriesOf(o))' \in Nat
  <2>1. CorpusInv' /\ stage'[o] # "idle"
    BY <1>2
  <2>2. job'[o].manifest \in Manifests
    BY <2>1 DEF CorpusInv, RunInv, AtAnEntry
  <2> QED
    BY <2>2, CorpusAssumption DEF EntriesOf
<1>5. CataloguedSoFar(o)' /\ DeletesAll(o)'
  BY <1>2, <1>3, <1>4 DEF CataloguedSoFar, DeletesAll
<1>6. InStep' /\ RelationsOfOneManifest'
  BY <1>0, <1>2, InStepKept DEF RelationsOfOneManifest
<1>7. stage'[o] \notin Stamped
  BY <1>2 DEF Stamped
<1>8. stage' = [stage EXCEPT ![o] = "sync"] /\ stage'[o] # "idle"
  BY <1>2 DEF Start, Goto
<1> QED
  BY <1>0, <1>5, <1>6, <1>7, <1>8, NothingToSay, OneOperatorMoves

(* Every step, when no two run at once.                                   *)
LEMMA NextAlone == OneAtATime /\ OneAtATime' /\ AloneInv /\ [Next]_vars => AloneInv'
<1> SUFFICES ASSUME OneAtATime, OneAtATime', AloneInv, [Next]_vars PROVE AloneInv'
  OBVIOUS
<1>0. CorpusInv /\ CorpusInv'
  BY NextKeeps DEF AloneInv
<1>1. CASE UNCHANGED vars
  <2> USE <1>1 DEF vars, tables
  <2>1. InStep'
    <3>1. TableType /\ PublishedIsGoverned /\ InStep
      BY <1>0, TypeParts DEF CorpusInv, AloneInv
    <3> QED
      BY <3>1, InStepKept
  <2>2. RelationsOfOneManifest'
    BY DEF AloneInv, RelationsOfOneManifest
  <2>3. ASSUME NEW o \in Operators
        PROVE  StampIsLatest(o)' /\ WithdrawsAll(o)' /\ CataloguedSoFar(o)' /\ DeletesAll(o)'
    <3>1. StampIsLatest(o) /\ WithdrawsAll(o) /\ CataloguedSoFar(o) /\ DeletesAll(o)
      BY DEF AloneInv
    <3>2. StampIsLatest(o)' /\ WithdrawsAll(o)'
      BY <3>1 DEF StampIsLatest, WithdrawsAll, VersionAt, VerdictAt, TextAt, DocumentAt, EntryAt, EntriesOf,
        Published
    <3>3. CataloguedSoFar(o)' /\ DeletesAll(o)'
      BY <3>1 DEF CataloguedSoFar, DeletesAll, Catalogued, EntriesOf, ReadsRelations
    <3> QED
      BY <3>2, <3>3
  <2> QED
    BY <1>0, <2>1, <2>2, <2>3 DEF AloneInv
<1>2. ASSUME NEW o \in Operators, Settle(o) PROVE AloneInv'
  BY <1>0, <1>2, SettleAlone
<1>3. ASSUME NEW o \in Operators, Start(o) PROVE AloneInv'
  BY <1>0, <1>3, StartAlone
<1>4. ASSUME NEW o \in Operators, Die(o) PROVE AloneInv'
  <2>1. RunType /\ TableType /\ PublishedIsGoverned /\ InStep /\ RelationsOfOneManifest
    BY <1>0, TypeParts DEF CorpusInv, AloneInv
  <2>2. UNCHANGED <<catalog, relations, versions, texts>> /\ stage'[o] = "idle"
    BY <1>4, <2>1, FailsDisturbs DEF Die
  <2>3. InStep' /\ RelationsOfOneManifest'
    BY <2>1, <2>2, InStepKept DEF RelationsOfOneManifest
  <2>4. stage'[o] \notin Stamped \union Cataloguing
    BY <2>2 DEF Stamped, Cataloguing
  <2>5. stage[o] # "idle" /\ stage' = [stage EXCEPT ![o] = "idle"]
    BY <1>4 DEF Die, Fails, Goto
  <2> QED
    BY <1>0, <2>1, <2>3, <2>4, <2>5, NothingToSay, OneOperatorMoves
<1> QED
  BY <1>1, <1>2, <1>3, <1>4 DEF Next

(* Runs that follow each other keep the tables in step, at every statement *)
(* and wherever a run fails or dies.                                       *)
THEOREM AloneInvariant == Spec /\ []OneAtATime => []AloneInv
<1>1. Init => AloneInv
  BY InitAloneInv
<1>2. OneAtATime /\ OneAtATime' /\ AloneInv /\ [Next]_vars => AloneInv'
  BY NextAlone
<1> QED
  BY <1>1, <1>2, PTL DEF Spec

(* A document never has two published texts.                               *)
THEOREM OneTextIsPublished == Spec /\ []OneAtATime => []OnePublished
<1>1. AloneInv => OnePublished
  BY DEF AloneInv, InStep
<1> QED
  BY <1>1, AloneInvariant, PTL

(* The file a run takes for known is the file readers are shown.           *)
THEOREM KnownFileIsShown == Spec /\ []OneAtATime => []KnownIsShown
<1>1. ASSUME AloneInv PROVE KnownIsShown
  <2>0. TableType /\ PublishedIsGoverned /\ OnePublished /\ LatestIsPublished
    BY <1>1, TypeParts DEF AloneInv, CorpusInv, InStep
  <2> SUFFICES ASSUME NEW d \in Documents
               PROVE  /\ PublishedVersions(d) = {} <=> Published(d) = {}
                      /\ \A t \in Shown(d) : t[2] = Known(d)
    BY DEF KnownIsShown
  <2>1. ASSUME NEW t \in Published(d)
        PROVE  /\ texts[t].version \in PublishedVersions(d) /\ texts[t].version[3] = t[2]
               /\ \A v \in PublishedVersions(d) :
                    v # texts[t].version => versions[v].processed < versions[texts[t].version].processed
    <3>1. t \in Texts /\ t[1] = d /\ texts[t].published
      BY DEF Published
    <3>2. /\ texts[t].version \in Versions /\ texts[t].version[1] = d /\ texts[t].version[3] = t[2]
          /\ versions[texts[t].version].status = "published"
      BY <2>0, <3>1 DEF PublishedIsGoverned
    <3> QED
      BY <2>0, <3>2 DEF LatestIsPublished, PublishedVersions
  <2>2. PublishedVersions(d) = {} <=> Published(d) = {}
    BY <2>0, <2>1 DEF LatestIsPublished
  <2>3. ASSUME NEW t \in Shown(d) PROVE t[2] = Known(d)
    <3>1. t \in Published(d)
      BY DEF Shown
    <3>2. PICK v : v = texts[t].version
      OBVIOUS
    <3>3. /\ v \in PublishedVersions(d) /\ v[3] = t[2]
          /\ \A w \in PublishedVersions(d) : w # v => versions[w].processed < versions[v].processed
      BY <2>1, <3>1, <3>2
    <3>4. \A w \in PublishedVersions(d) : versions[w].processed \in Nat
      BY <2>0 DEF TableType, PublishedVersions
    <3>5. LatestOf(d) = {v}
      BY <3>3, <3>4 DEF LatestOf
    <3>6. (CHOOSE w \in LatestOf(d) : TRUE) = v
      BY <3>5
    <3> QED
      BY <3>3, <3>6 DEF Known
  <2> QED
    BY <2>2, <2>3
<1> QED
  BY <1>1, AloneInvariant, PTL

(* A document's relations are those of the manifest its metadata is of,    *)
(* each citation once.                                                     *)
THEOREM RelationsAreOfOneManifest == Spec /\ []OneAtATime => []RelationsOfOneManifest
<1>1. AloneInv => RelationsOfOneManifest
  BY DEF AloneInv
<1> QED
  BY <1>1, AloneInvariant, PTL
=============================================================================
