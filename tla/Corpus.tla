------------------------------- MODULE Corpus -------------------------------
(***************************************************************************)
(* RegulasiLens ingestion: operators run reviewed manifests against the    *)
(* published corpus (CorpusService.run_manifest, one process per run).     *)
(* A run synchronises the catalogue in one transaction and then settles    *)
(* each document in a transaction of its own: the source file is unchanged *)
(* or rejected, or its parsed text is published and the previous text      *)
(* withdrawn.  Runs may overlap, fail and die; no lock keeps them apart.   *)
(*                                                                         *)
(* Transactions are READ COMMITTED: a statement reads what was committed   *)
(* when it starts and waits for rows another transaction has written;      *)
(* inserting a key that exists by then raises IntegrityError, which ends   *)
(* the run.  A transaction is the sequence of its conflicting statements,  *)
(* its effects are applied at its commit.  The row of the source (BPK)     *)
(* exists; each manifest carries document metadata of its own.             *)
(***************************************************************************)
EXTENDS Naturals, Sequences, FiniteSets

CONSTANTS
  Documents,    \* regulation documents
  Urls,         \* content_url values (source_identity of a dataset version)
  Files,        \* contents a source can serve, told apart by their SHA-256
  Parsers,      \* parser versions that may be deployed
  Verdict,      \* [Files -> [Parsers -> {"unreadable", "poor", "good"}]]
  Manifests,    \* reviewed manifest versions
  Entries,      \* the sequence of documents of each manifest: document, url, file
  Citations,    \* target citations of relations
  RelationsOf,  \* [Manifests -> [Documents -> SUBSET Citations]]
  Operators,    \* processes that run manifests
  NoManifest, NoFile, NoParser,
  MaxRuns,      \* bound on the runs started
  MaxFaults     \* bound on the processes that die

Entry == [document : Documents, url : Urls, file : Files]

ASSUME CorpusAssumption ==
  /\ NoManifest \notin Manifests /\ NoFile \notin Files /\ NoParser \notin Parsers
  /\ Verdict \in [Files -> [Parsers -> {"unreadable", "poor", "good"}]]
  /\ RelationsOf \in [Manifests -> [Documents -> SUBSET Citations]]
  /\ \A m \in Manifests :
       /\ Entries[m] \in Seq(Entry) /\ Entries[m] # <<>>
       /\ \A i, j \in 1..Len(Entries[m]) :
            Entries[m][i].document = Entries[m][j].document => i = j
  /\ MaxRuns \in Nat /\ MaxFaults \in Nat

(* A version of a dataset is a file of a document at a url.  When no file  *)
(* was retrieved the checksum is made from document, reason and day: all   *)
(* failed retrievals of one url on one day share a version (one day here). *)
Versions == Documents \X Urls \X (Files \union {NoFile})
Texts == Documents \X Files \X Parsers
Reasons == {"retrieval_failed", "mismatch", "pdf_extraction_failed", "parser_quality_failed"}

VARIABLES
  catalog,      \* regulations.documents: the manifest each document's metadata is of
  relations,    \* regulations.relations: of each document, citation and inserting run
  versions,     \* ops.dataset_versions with bronze.regulation_documents (raw)
  texts,        \* regulations.document_versions with their sections
  outcomes,     \* ops.pipeline_runs: which outcomes the runs of a version had
  quarantine,   \* ops.quarantine_records: version and reason
  clock,        \* stamps retrieved_at and processed_at
  stage,        \* [Operators -> where its run is]
  job,          \* [Operators -> what its run knows]
  tx,           \* [Operators -> its open transaction]
  answer,       \* [Operators -> the last CorpusDocumentOutcome]
  started,      \* runs started
  faults        \* processes that died

tables == <<catalog, relations, versions, texts, outcomes, quarantine>>
vars == <<tables, clock, stage, job, tx, answer, started, faults>>

NoVersion == [status |-> "none", processed |-> 0, raw |-> FALSE]
NoText == [version |-> <<>>, published |-> FALSE, retrieved |-> 0]
JobAt(run, manifest, parser, at) ==
  [run |-> run, manifest |-> manifest, parser |-> parser, at |-> at,
   known |-> NoFile, file |-> NoFile, reason |-> "none", retrieved |-> 0]
NoJob == JobAt(0, NoManifest, NoParser, 0)
NoTx == [holds |-> {}, fresh |-> FALSE, seen |-> {}, stamp |-> 0]
NoAnswer == [status |-> "none", version |-> <<>>]

Init ==
  /\ catalog = [d \in Documents |-> NoManifest]
  /\ relations = [d \in Documents |-> {}]
  /\ versions = [v \in Versions |-> NoVersion]
  /\ texts = [t \in Texts |-> NoText]
  /\ outcomes = {} /\ quarantine = {} /\ clock = 0
  /\ stage = [o \in Operators |-> "idle"]
  /\ job = [o \in Operators |-> NoJob]
  /\ tx = [o \in Operators |-> NoTx]
  /\ answer = [o \in Operators |-> NoAnswer]
  /\ started = 0 /\ faults = 0
-----------------------------------------------------------------------------
EntriesOf(o) == Entries[job[o].manifest]
EntryAt(o) == EntriesOf(o)[job[o].at]
DocumentAt(o) == EntryAt(o).document
VersionAt(o) == <<DocumentAt(o), EntryAt(o).url, job[o].file>>
TextAt(o) == <<DocumentAt(o), job[o].file, job[o].parser>>
VerdictAt(o) == Verdict[job[o].file][job[o].parser]
DocumentsOf(m) == {Entries[m][i].document : i \in 1..Len(Entries[m])}

Published(d) == {t \in Texts : t[1] = d /\ texts[t].published}
PublishedVersions(d) == {v \in Versions : v[1] = d /\ versions[v].status = "published"}

(* _latest_published_version: the text the catalogue shows. *)
Shown(d) ==
  {t \in Published(d) : \A u \in Published(d) : texts[u].retrieved <= texts[t].retrieved}

(* _latest_published_checksum: the file a run takes for the known one. *)
LatestOf(d) ==
  {v \in PublishedVersions(d) :
     \A w \in PublishedVersions(d) : versions[w].processed <= versions[v].processed}
Known(d) ==
  IF PublishedVersions(d) = {} THEN NoFile ELSE (CHOOSE v \in LatestOf(d) : TRUE)[3]

(* The rows a transaction's next statement writes, and who keeps it waiting. *)
Wants(o) ==
  CASE stage[o] = "document" -> {<<"document", DocumentAt(o)>>}
    [] stage[o] \in {"version", "rejectversion"} -> {<<"version", VersionAt(o)>>}
    [] stage[o] = "textrow" -> {<<"text", TextAt(o)>>}
    [] stage[o] = "commit" -> {<<"text", t>> : t \in tx[o].seen}
    [] OTHER -> {}

WaitsFor(o, p) == p # o /\ tx[p].holds \intersect Wants(o) # {}
Blocked(o) == \E p \in Operators : WaitsFor(o, p)

(* The transaction writes the rows it wants and keeps them to its end. *)
Writing(o) == [tx[o] EXCEPT !.holds = @ \union Wants(o)]

Goto(o, s) == stage' = [stage EXCEPT ![o] = s]
InTx(o, record) == tx' = [tx EXCEPT ![o] = record]

(* An exception ends the run; its transaction is rolled back. *)
KeepsLocks(o) ==    \* mutant of Fails
  /\ Goto(o, "idle")
  /\ job' = [job EXCEPT ![o] = NoJob]
  /\ UNCHANGED <<tables, clock, tx, answer>>
Fails(o) ==
  /\ Goto(o, "idle")
  /\ job' = [job EXCEPT ![o] = NoJob]
  /\ InTx(o, NoTx)
  /\ UNCHANGED <<tables, clock, answer>>

(* The transaction commits; the run goes on with the next document. *)
More(o) == job[o].at < Len(EntriesOf(o))
Answers(o, status, version) ==
  /\ answer' = [answer EXCEPT ![o] = [status |-> status, version |-> version]]
  /\ InTx(o, NoTx)
  /\ IF More(o)
     THEN /\ Goto(o, "known")
          /\ job' = [job EXCEPT ![o] =
               JobAt(job[o].run, job[o].manifest, job[o].parser, job[o].at + 1)]
     ELSE /\ Goto(o, "idle")
          /\ job' = [job EXCEPT ![o] = NoJob]
-----------------------------------------------------------------------------
Start(o) ==
  /\ stage[o] = "idle" /\ started < MaxRuns
  /\ \E m \in Manifests, p \in Parsers :
       job' = [job EXCEPT ![o] = JobAt(started + 1, m, p, 1)]
  /\ started' = started + 1
  /\ Goto(o, "sync")
  /\ UNCHANGED <<tables, clock, tx, answer>>

(* Catalogue: after the last document, the relations. *)
NextEntry(o) ==
  IF More(o)
  THEN Goto(o, "sync") /\ job' = [job EXCEPT ![o].at = @ + 1]
  ELSE Goto(o, "relations") /\ job' = [job EXCEPT ![o].at = 1]

SyncDocument(o) ==
  /\ stage[o] = "sync"
  /\ IF catalog[DocumentAt(o)] = job[o].manifest
     THEN NextEntry(o) /\ UNCHANGED tx
     ELSE /\ Goto(o, "document")
          /\ InTx(o, [tx[o] EXCEPT !.fresh = (catalog[DocumentAt(o)] = NoManifest)])
          /\ UNCHANGED job
  /\ UNCHANGED <<tables, clock, answer>>

WriteDocument(o) ==
  /\ stage[o] = "document" /\ ~Blocked(o)
  /\ IF tx[o].fresh /\ catalog[DocumentAt(o)] # NoManifest
     THEN Fails(o)
     ELSE /\ InTx(o, Writing(o))
          /\ NextEntry(o)
          /\ UNCHANGED <<tables, clock, answer>>

(* The DELETE sees the relations committed when it starts. *)
ReadNoRelations(o) == {}    \* mutant of ReadsRelations
ReadsRelations(o) ==
  UNION {{<<d, r>> : r \in relations[d]} : d \in DocumentsOf(job[o].manifest)}
ReadRelations(o) ==
  /\ stage[o] = "relations"
  /\ InTx(o, [tx[o] EXCEPT !.seen = ReadsRelations(o)])
  /\ Goto(o, "replace")
  /\ UNCHANGED <<tables, clock, job, answer>>

(* Commit of _synchronize_catalog; of a document, a relation is unique by  *)
(* its type and citation (together a member of Citations).                 *)
ReplaceRelations(o) ==
  LET m == job[o].manifest
      kept(d) == {r \in relations[d] : <<d, r>> \notin tx[o].seen}
      added(d) == {<<c, job[o].run>> : c \in RelationsOf[m][d]}
  IN  /\ stage[o] = "replace"
      /\ IF \E d \in DocumentsOf(m) : \E r \in kept(d) : r[1] \in RelationsOf[m][d]
         THEN Fails(o)
         ELSE /\ relations' = [d \in Documents |->
                   IF d \in DocumentsOf(m) THEN kept(d) \union added(d) ELSE relations[d]]
              /\ catalog' = [d \in Documents |->
                   IF <<"document", d>> \in tx[o].holds THEN m ELSE catalog[d]]
              /\ InTx(o, NoTx)
              /\ Goto(o, "known")
              /\ UNCHANGED <<versions, texts, outcomes, quarantine, clock, job, answer>>
-----------------------------------------------------------------------------
ReadKnown(o) ==
  /\ stage[o] = "known"
  /\ job' = [job EXCEPT ![o].known = Known(DocumentAt(o))]
  /\ Goto(o, "fetch")
  /\ UNCHANGED <<tables, clock, tx, answer>>

(* fetch_regulation, with extract_pdf_pages and parse_regulation_pages: no *)
(* file, a file under wrong headers, another file than the manifest's, the *)
(* known file, or one to parse.                                            *)
Fetched(o, file, reason, s) ==
  /\ job' = [job EXCEPT ![o].file = file, ![o].reason = reason]
  /\ Goto(o, s)
  /\ UNCHANGED clock

Fetch(o) ==
  /\ stage[o] = "fetch"
  /\ \/ Fetched(o, NoFile, "retrieval_failed", "reject")
     \/ \E file \in Files : Fetched(o, file, "mismatch", "reject")
     \/ LET file == EntryAt(o).file
        IN  IF job[o].known = file THEN Fetched(o, file, "none", "unchanged")
            ELSE IF Verdict[file][job[o].parser] = "unreadable"
                 THEN Fetched(o, file, "pdf_extraction_failed", "reject")
                 ELSE /\ job' = [job EXCEPT ![o].file = file, ![o].retrieved = clock + 1]
                      /\ Goto(o, "persist")
                      /\ clock' = clock + 1
  /\ UNCHANGED <<tables, tx, answer>>

(* _record_unchanged: any published version of the file will do. *)
AtTheUrl(o) == {v \in PublishedVersions(DocumentAt(o)) : v = VersionAt(o)}    \* mutant of Unchanged
Unchanged(o) == {v \in PublishedVersions(DocumentAt(o)) : v[3] = job[o].file}
RecordUnchanged(o) ==
  /\ stage[o] = "unchanged"
  /\ IF Unchanged(o) = {}
     THEN Fails(o)    \* RuntimeError
     ELSE \E v \in Unchanged(o) :
            /\ outcomes' = outcomes \union {<<v, "succeeded">>}
            /\ Answers(o, "unchanged", v)
            /\ UNCHANGED <<catalog, relations, versions, texts, quarantine, clock>>
-----------------------------------------------------------------------------
(* _record_rejection *)
Reject(o) ==
  /\ stage[o] = "reject"
  /\ IF versions[VersionAt(o)].status = "none"
     THEN Goto(o, "rejectversion") /\ InTx(o, [tx[o] EXCEPT !.fresh = TRUE])
     ELSE Goto(o, "rejectread") /\ UNCHANGED tx
  /\ UNCHANGED <<tables, clock, job, answer>>

RejectVersion(o) ==
  /\ stage[o] = "rejectversion" /\ ~Blocked(o)
  /\ IF versions[VersionAt(o)].status # "none"
     THEN Fails(o)
     ELSE /\ InTx(o, Writing(o))
          /\ Goto(o, "rejectread")
          /\ UNCHANGED <<tables, clock, job, answer>>

(* The quarantine record of the version and reason, if there is one. *)
ByReason(v, reason) == {q \in quarantine : q[2] = reason}    \* mutant of Quarantined
Quarantined(v, reason) == {q \in quarantine : q = <<v, reason>>}

ReadQuarantine(o) ==
  /\ stage[o] = "rejectread"
  /\ InTx(o, [tx[o] EXCEPT !.seen = Quarantined(VersionAt(o), job[o].reason)])
  /\ Goto(o, "rejected")
  /\ UNCHANGED <<tables, clock, job, answer>>

Rejected(o) ==
  LET v == VersionAt(o)
      record == <<v, job[o].reason>>
  IN  /\ stage[o] = "rejected"
      /\ IF tx[o].seen = {} /\ record \in quarantine
         THEN Fails(o)
         ELSE /\ versions' = IF tx[o].fresh
                             THEN [versions EXCEPT ![v] = [NoVersion EXCEPT !.status = "rejected"]]
                             ELSE versions
              /\ outcomes' = outcomes \union {<<v, "failed">>}
              /\ quarantine' = IF tx[o].seen = {} THEN quarantine \union {record} ELSE quarantine
              /\ Answers(o, "rejected", v)
              /\ UNCHANGED <<catalog, relations, texts, clock>>
-----------------------------------------------------------------------------
(* _persist_parsed *)
KnownVersion(o) == versions[VersionAt(o)].status = "published"
Persist(o) ==
  /\ stage[o] = "persist"
  /\ IF KnownVersion(o)
     THEN /\ outcomes' = outcomes \union {<<VersionAt(o), "succeeded">>}
          /\ Answers(o, "unchanged", VersionAt(o))
          /\ UNCHANGED <<catalog, relations, versions, texts, quarantine, clock>>
     ELSE /\ InTx(o, [tx[o] EXCEPT !.fresh = (versions[VersionAt(o)].status = "none"),
                                   !.stamp = clock + 1])
          /\ Goto(o, "version")
          /\ clock' = clock + 1
          /\ UNCHANGED <<tables, job, answer>>

WriteVersion(o) ==
  /\ stage[o] = "version" /\ ~Blocked(o)
  /\ IF tx[o].fresh /\ versions[VersionAt(o)].status # "none"
     THEN Fails(o)
     ELSE /\ InTx(o, Writing(o))
          /\ Goto(o, "text")
          /\ UNCHANGED <<tables, clock, job, answer>>

ReadText(o) ==
  /\ stage[o] = "text"
  /\ InTx(o, [tx[o] EXCEPT !.seen = {t \in {TextAt(o)} : texts[t].version # <<>>}])
  /\ Goto(o, "textrow")
  /\ UNCHANGED <<tables, clock, job, answer>>

AlwaysWithdraws(o) == "withdraw"    \* mutant of AfterText
AfterText(o) == IF VerdictAt(o) = "good" THEN "withdraw" ELSE "commit"
WriteText(o) ==
  /\ stage[o] = "textrow" /\ ~Blocked(o)
  /\ IF tx[o].seen = {} /\ texts[TextAt(o)].version # <<>>
     THEN Fails(o)
     ELSE /\ InTx(o, [Writing(o) EXCEPT !.seen = {}])
          /\ Goto(o, AfterText(o))
          /\ UNCHANGED <<tables, clock, job, answer>>

(* The UPDATE that withdraws sees the texts published when it starts. *)
OfParser(o) == {t \in Published(DocumentAt(o)) : t[3] = job[o].parser}    \* mutant of Withdrawn
Withdrawn(o) == Published(DocumentAt(o))
Withdraw(o) ==
  /\ stage[o] = "withdraw"
  /\ InTx(o, [tx[o] EXCEPT !.seen = Withdrawn(o) \ {TextAt(o)}])
  /\ Goto(o, "commit")
  /\ UNCHANGED <<tables, clock, job, answer>>

(* A status that was read as rejected and stays so is not written: the row *)
(* keeps what it has by then.                                              *)
OldStamp(o) ==    \* mutant of StoredVersion
  [status |-> IF VerdictAt(o) = "good" THEN "published"
              ELSE IF tx[o].fresh THEN "rejected" ELSE versions[VersionAt(o)].status,
   processed |-> IF tx[o].fresh THEN tx[o].stamp ELSE versions[VersionAt(o)].processed,
   raw |-> TRUE]
RawWithInsert(o) ==    \* mutant of StoredVersion
  [status |-> IF VerdictAt(o) = "good" THEN "published"
              ELSE IF tx[o].fresh THEN "rejected" ELSE versions[VersionAt(o)].status,
   processed |-> tx[o].stamp,
   raw |-> tx[o].fresh \/ versions[VersionAt(o)].raw]
StoredVersion(o) ==
  [status |-> IF VerdictAt(o) = "good" THEN "published"
              ELSE IF tx[o].fresh THEN "rejected" ELSE versions[VersionAt(o)].status,
   processed |-> tx[o].stamp,
   raw |-> TRUE]

Commit(o) ==
  LET v == VersionAt(o)
      good == VerdictAt(o) = "good"
  IN  /\ stage[o] = "commit" /\ ~Blocked(o)
      /\ versions' = [versions EXCEPT ![v] = StoredVersion(o)]
      /\ texts' = [t \in Texts |->
           IF t = TextAt(o)
           THEN [version |-> v, published |-> good, retrieved |-> job[o].retrieved]
           ELSE IF t \in tx[o].seen THEN [texts[t] EXCEPT !.published = FALSE] ELSE texts[t]]
      /\ outcomes' = outcomes \union {<<v, IF good THEN "succeeded" ELSE "failed">>}
      /\ quarantine' = IF good THEN quarantine
                       ELSE quarantine \union {<<v, "parser_quality_failed">>}
      /\ Answers(o, IF good THEN "published" ELSE "rejected", v)
      /\ UNCHANGED <<catalog, relations, clock>>
-----------------------------------------------------------------------------
(* PostgreSQL ends a transaction of a cycle of waits. *)
Deadlocked(o) ==
  \E cycle \in SUBSET Operators :
    /\ o \in cycle
    /\ \A p \in cycle : /\ \E q \in cycle : WaitsFor(p, q)
                        /\ \E q \in cycle : WaitsFor(q, p)

BreakDeadlock(o) == Deadlocked(o) /\ Fails(o)

Settle(o) ==
  \/ SyncDocument(o) \/ WriteDocument(o) \/ ReadRelations(o) \/ ReplaceRelations(o)
  \/ ReadKnown(o) \/ Fetch(o) \/ RecordUnchanged(o)
  \/ Reject(o) \/ RejectVersion(o) \/ ReadQuarantine(o) \/ Rejected(o)
  \/ Persist(o) \/ WriteVersion(o) \/ ReadText(o) \/ WriteText(o) \/ Withdraw(o) \/ Commit(o)
  \/ BreakDeadlock(o)

(* The process dies at any time; the server rolls its transaction back. *)
Die(o) ==
  /\ stage[o] # "idle" /\ faults < MaxFaults
  /\ faults' = faults + 1
  /\ Fails(o)
  /\ UNCHANGED started

Next ==
  \/ \E o \in Operators : Settle(o) /\ UNCHANGED <<started, faults>>
  \/ \E o \in Operators : Start(o) /\ UNCHANGED faults
  \/ \E o \in Operators : Die(o)

Spec == Init /\ [][Next]_vars

(* Processes and the database go on, and a request to the source ends, by  *)
(* its timeout at the latest.  Nobody has to start a run.                  *)
FairSpec == Spec /\ \A o \in Operators : WF_vars(Settle(o) /\ UNCHANGED <<started, faults>>)
-----------------------------------------------------------------------------
Stages == {"idle", "sync", "document", "relations", "replace", "known", "fetch", "unchanged",
           "reject", "rejectversion", "rejectread", "rejected", "persist", "version", "text",
           "textrow", "withdraw", "commit"}
Row == {"document", "version", "text"} \X (Documents \union Versions \union Texts)
Job == [run : Nat, manifest : Manifests \union {NoManifest}, parser : Parsers \union {NoParser},
        at : Nat, known : Files \union {NoFile}, file : Files \union {NoFile},
        reason : Reasons \union {"none"}, retrieved : Nat]
Relations == Documents \X (Citations \X Nat)
Transaction == [holds : SUBSET Row, fresh : BOOLEAN, stamp : Nat,
                seen : SUBSET (Relations \union (Versions \X Reasons) \union Texts)]

(* The type of every variable. *)
TypeOK ==
  /\ catalog \in [Documents -> Manifests \union {NoManifest}]
  /\ relations \in [Documents -> SUBSET (Citations \X Nat)]
  /\ versions \in [Versions -> [status : {"none", "published", "rejected"}, processed : Nat,
                                raw : BOOLEAN]]
  /\ texts \in [Texts -> [version : Versions \union {<<>>}, published : BOOLEAN,
                          retrieved : Nat]]
  /\ outcomes \subseteq Versions \X {"succeeded", "failed"}
  /\ quarantine \subseteq Versions \X Reasons
  /\ clock \in Nat
  /\ stage \in [Operators -> Stages]
  /\ job \in [Operators -> Job]
  /\ tx \in [Operators -> Transaction]
  /\ answer \in [Operators -> [status : {"none", "unchanged", "rejected", "published"},
                               version : Versions \union {<<>>}]]
  /\ started \in Nat /\ faults \in Nat

(* A published text is governed: it is of a file a manifest names for the  *)
(* document, its parser read it well, and its dataset version is published *)
(* with the raw file and a succeeded run behind it, whatever rejections of *)
(* the same file came before or after.                                     *)
PublishedIsGoverned ==
  \A t \in Texts :
    texts[t].published =>
      LET v == texts[t].version
      IN  /\ v \in Versions /\ v[1] = t[1] /\ v[3] = t[2]
          /\ versions[v].status = "published" /\ versions[v].raw
          /\ <<v, "succeeded">> \in outcomes
          /\ Verdict[t[2]][t[3]] = "good"
          /\ \E m \in Manifests : \E i \in 1..Len(Entries[m]) :
               Entries[m][i] = [document |-> v[1], url |-> v[2], file |-> v[3]]

(* Runs that follow each other leave one published text of a document.     *)
OnePublished ==
  \A d \in Documents : \A t, u \in Published(d) : t = u

(* What ingestion takes for the known file is what readers are shown,      *)
(* though one is read from dataset versions by processed_at and the other  *)
(* from document versions by published: runs that follow each other keep   *)
(* the two tables in step.                                                 *)
KnownIsShown ==
  \A d \in Documents :
    /\ PublishedVersions(d) = {} <=> Published(d) = {}
    /\ \A t \in Shown(d) : t[2] = Known(d)

(* A document's relations are those of the manifest its metadata is of.    *)
RelationsOfOneManifest ==
  \A d \in Documents :
    catalog[d] # NoManifest =>
      /\ {r[1] : r \in relations[d]} = RelationsOf[catalog[d]][d]
      /\ \A r, s \in relations[d] : r[1] = s[1] => r = s

(* docs/runbook.md: a failure "preserves the previous published document   *)
(* version": no step of any of the overlapping runs leaves a document that *)
(* had a published text without one.                                       *)
ServedStays ==
  [][\A d \in Documents : Published(d) # {} => Published(d)' # {}]_vars

(* docs/runbook.md: a failure "creates auditable failure evidence": every  *)
(* rejection a run answers has its failed run and a quarantine record of   *)
(* that very version, also when two runs reject the same candidate.        *)
RejectionAudited ==
  \A o \in Operators :
    answer[o].status = "rejected" =>
      /\ <<answer[o].version, "failed">> \in outcomes
      /\ \E reason \in Reasons : <<answer[o].version, reason>> \in quarantine

(* The RuntimeError of _record_unchanged is out of reach: the published    *)
(* version a run took for known is there when it records it, whatever      *)
(* other runs committed in between.                                        *)
KnownStaysPublished ==
  \A o \in Operators : stage[o] = "unchanged" => Unchanged(o) # {}

(* Every started run ends, also when runs wait for each other's rows.      *)
RunsEnd == \A o \in Operators : stage[o] # "idle" ~> stage[o] = "idle"
=============================================================================
