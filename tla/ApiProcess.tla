----------------------------- MODULE ApiProcess -----------------------------
(***************************************************************************)
(* One API process: requests pass RuntimeMetricsMiddleware, the routes of  *)
(* api/routes/regulations.py and health.py call CorpusService, and all     *)
(* tasks share the answer semaphore, the retrieval lock and the cached     *)
(* indexes.  A step ends where the code awaits something that may suspend  *)
(* the task: a place, the lock, the database, the response's logging.      *)
(* Manifest runs are other processes: they change what is published        *)
(* (Publish) and clear only their own cache.                               *)
(***************************************************************************)
EXTENDS Integers, Sequences, FiniteSets, FiniteSetsExt, SequencesExt

CONSTANTS Requests,      \* the HTTP requests that may arrive, each once
          Loads,         \* what they ask: functions from Requests to Asks
          Chunkers,      \* retrieval.Chunker
          FixedChunker,  \* the one answers use ("fixed")
          Documents,     \* regulation documents
          MaxVersions,   \* bound: published texts of a document
          Places,        \* maximum_concurrent_answers
          MaxRestarts,   \* bound: restarts of the process
          None           \* no index, nobody

(* The routes.  POST /answer takes no chunker, answer() asks for "fixed".  *)
Kinds == {"answer", "search", "manifest", "ready", "metrics"}

Asks == {a \in [kind : Kinds, chunker : Chunkers] :
           a.kind \in {"search", "manifest"} \/ a.chunker = FixedChunker}

Statuses == {200, 422, 429, 500, 503, 504}

Snapshots == [Documents -> Nat]

ASSUME ApiAssumption ==
  /\ IsFiniteSet(Requests) /\ None \notin Requests /\ None \notin Snapshots
  /\ FixedChunker \in Chunkers /\ Loads \subseteq [Requests -> Asks]
  /\ Places \in Nat \ {0}
  /\ MaxVersions \in Nat /\ MaxRestarts \in Nat

VARIABLES published,   \* database: the published text of each document, 0 for none
          pc,          \* what each request waits for
          kind, chunker, \* what it asks
          free,        \* _answer_semaphore's value
          placeQueue,  \* its waiters, in order
          lock,        \* who holds _retrieval_lock
          lockQueue,   \* its waiters, in order
          index,       \* _retrieval_indexes: what each cached index was built from
          rows,        \* the sections a request's query returned
          used,        \* the index a request was answered from
          status,      \* the HTTP status of its response
          inFlight, total, failed, counts,  \* RuntimeMetrics
          restarts,
          seen         \* history: what was published since the process started

service == <<free, placeQueue, lock, lockQueue, index>>
request == <<pc, kind, chunker, rows, used, status>>
metrics == <<inFlight, total, failed, counts>>
world   == <<published, restarts, seen>>
vars    == <<service, request, metrics, world>>

Unpublished == [d \in Documents |-> 0]

NoIndex == [c \in Chunkers |-> None]
NoCounts == [s \in Statuses |-> 0]

Init ==
  /\ published = Unpublished
  /\ pc = [r \in Requests |-> "new"]
  /\ \E load \in Loads : /\ kind = [r \in Requests |-> load[r].kind]
                         /\ chunker = [r \in Requests |-> load[r].chunker]
  /\ rows = [r \in Requests |-> None]
  /\ used = [r \in Requests |-> None]
  /\ status = [r \in Requests |-> 200]
  /\ free = Places /\ placeQueue = <<>>
  /\ lock = None /\ lockQueue = <<>> /\ index = NoIndex
  /\ inFlight = 0 /\ total = 0 /\ failed = 0 /\ counts = NoCounts
  /\ restarts = 0 /\ seen = {published}
-----------------------------------------------------------------------------
(* RuntimeMetricsMiddleware around everything else. *)

Counted(r) == kind[r] # "metrics"   \* _metrics_path is passed on uncounted

Begin(r) ==
  /\ pc[r] = "new"
  /\ pc' = [pc EXCEPT ![r] = "begun"]
  /\ inFlight' = IF Counted(r) THEN inFlight + 1 ELSE inFlight
  /\ UNCHANGED <<service, world, kind, chunker, rows, used, status, total, failed, counts>>

IsFailure(s) == s >= 500

\* finish_request is called on a response and on an exception.
RecordedOnReturn(r) == Counted(r) /\ status[r] # 500    \* mutant of Recorded
Recorded(r) == Counted(r)

Finish(r) ==
  /\ pc[r] = "respond"
  /\ pc' = [pc EXCEPT ![r] = "done"]
  /\ IF Recorded(r)
     THEN /\ inFlight' = IF inFlight = 0 THEN 0 ELSE inFlight - 1
          /\ total' = total + 1
          /\ counts' = [counts EXCEPT ![status[r]] = @ + 1]
          /\ failed' = IF IsFailure(status[r]) THEN failed + 1 ELSE failed
     ELSE UNCHANGED metrics
  /\ UNCHANGED <<service, world, kind, chunker, rows, used, status>>
-----------------------------------------------------------------------------
(* The shared resources of CorpusService. *)

\* What leaving `async with self._answer_semaphore` gives back.
Returned(r) == IF kind[r] = "answer" THEN 1 ELSE 0

\* r's handler ends with status s; avail is the semaphore's value until then.
Respond(r, s, avail) ==
  /\ pc' = [pc EXCEPT ![r] = "respond"]
  /\ status' = [status EXCEPT ![r] = s]
  /\ free' = avail + Returned(r)

\* asyncio.Lock and asyncio.Semaphore let nobody overtake a waiter.
UnlockedWhenNobodyWaits == lockQueue = <<>>    \* mutant of LockFree
LockFree == lock = None /\ lockQueue = <<>>
PlaceFreeAtZero == free >= 0 /\ placeQueue = <<>>    \* mutant of PlaceFree
PlaceFree == free > 0 /\ placeQueue = <<>>

Cached(r) == index[chunker[r]] # None

\* _retrieval_index up to the wait for the lock or for the database.
AskIndex(r, avail) ==
  \/ /\ Cached(r)
     /\ Respond(r, 200, avail)
     /\ used' = [used EXCEPT ![r] = index[chunker[r]]]
     /\ UNCHANGED <<lock, lockQueue>>
  \/ /\ ~Cached(r) /\ LockFree
     /\ lock' = r
     /\ pc' = [pc EXCEPT ![r] = "reading"] /\ free' = avail
     /\ UNCHANGED <<lockQueue, used, status>>
  \/ /\ ~Cached(r) /\ ~LockFree
     /\ lockQueue' = Append(lockQueue, r)
     /\ pc' = [pc EXCEPT ![r] = "lock"] /\ free' = avail
     /\ UNCHANGED <<lock, used, status>>

\* AnswerRateLimitMiddleware refuses (its decision: AnswerRateLimit).
Refuse(r) ==
  /\ pc[r] = "begun" /\ kind[r] = "answer"
  /\ pc' = [pc EXCEPT ![r] = "respond"]
  /\ status' = [status EXCEPT ![r] = 429]
  /\ UNCHANGED <<service, world, metrics, kind, chunker, rows, used>>

\* The route calls the service, which runs to its first wait.
EnterAnswer(r) ==
  /\ pc[r] = "begun" /\ kind[r] = "answer"
  /\ \/ PlaceFree /\ AskIndex(r, free - 1) /\ UNCHANGED placeQueue
     \/ /\ ~PlaceFree
        /\ placeQueue' = Append(placeQueue, r)
        /\ pc' = [pc EXCEPT ![r] = "place"]
        /\ UNCHANGED <<free, lock, lockQueue, used, status>>
  /\ UNCHANGED <<world, metrics, kind, chunker, rows, index>>

EnterSearch(r) ==
  /\ pc[r] = "begun" /\ kind[r] \in {"search", "manifest"}
  /\ AskIndex(r, free)
  /\ UNCHANGED <<world, metrics, kind, chunker, rows, index, placeQueue>>

\* /metrics answers from memory, /ready asks the database.
EnterSystem(r) ==
  /\ pc[r] = "begun" /\ kind[r] \in {"ready", "metrics"}
  /\ pc' = [pc EXCEPT ![r] = IF kind[r] = "ready" THEN "probing" ELSE "respond"]
  /\ UNCHANGED <<service, world, metrics, kind, chunker, rows, used, status>>

\* The first waiter of the semaphore runs; only now its timeout starts.
TakePlace(r) ==
  /\ pc[r] = "place" /\ free > 0
  /\ placeQueue # <<>> /\ Head(placeQueue) = r
  /\ placeQueue' = Tail(placeQueue)
  /\ AskIndex(r, free - 1)
  /\ UNCHANGED <<world, metrics, kind, chunker, rows, index>>

\* The first waiter of the lock looks into the cache again.
TakeLock(r) ==
  /\ pc[r] = "lock" /\ lock = None
  /\ lockQueue # <<>> /\ Head(lockQueue) = r
  /\ lockQueue' = Tail(lockQueue)
  /\ \/ /\ Cached(r)
        /\ Respond(r, 200, free)
        /\ used' = [used EXCEPT ![r] = index[chunker[r]]]
        /\ UNCHANGED lock
     \/ /\ ~Cached(r)
        /\ lock' = r
        /\ pc' = [pc EXCEPT ![r] = "reading"]
        /\ UNCHANGED <<free, used, status>>
  /\ UNCHANGED <<world, metrics, kind, chunker, rows, index, placeQueue>>

\* What _published_source_sections may return: its one SELECT sees one state.
SectionsByDocument ==    \* mutant of Sections: one SELECT for each document
  {s \in [Documents -> 0..MaxVersions] : \A d \in Documents : \E t \in seen : s[d] = t[d]}
Sections == {published}

ReadSections(r) ==
  /\ pc[r] = "reading"
  /\ pc' = [pc EXCEPT ![r] = "read"]
  /\ \E s \in Sections : rows' = [rows EXCEPT ![r] = s]
  /\ UNCHANGED <<service, world, metrics, kind, chunker, used, status>>

\* What the route makes of an exception of the service.
FailureStatus(r, exception) ==
  CASE exception = "TimeoutError" -> 504
    [] exception = "ValueError" /\ kind[r] # "manifest" -> 422
    [] OTHER -> 500

Unchecked(s) == FALSE    \* mutant of Unusable
Unusable(s) == s = Unpublished

\* RetrievalIndex(sections) raises ValueError when there is none; nothing
\* awaits from here to the response.
Build(r) ==
  /\ pc[r] = "read"
  /\ lock' = None
  /\ rows' = [rows EXCEPT ![r] = None]
  /\ \/ /\ Unusable(rows[r])
        /\ Respond(r, FailureStatus(r, "ValueError"), free)
        /\ UNCHANGED <<index, used>>
     \/ /\ ~Unusable(rows[r])
        /\ index' = [index EXCEPT ![chunker[r]] = rows[r]]
        /\ used' = [used EXCEPT ![r] = rows[r]]
        /\ Respond(r, 200, free)
  /\ UNCHANGED <<world, metrics, kind, chunker, placeQueue, lockQueue>>

DatabaseFails(r) ==
  /\ pc[r] = "reading"
  /\ lock' = None
  /\ Respond(r, FailureStatus(r, "DBAPIError"), free)
  /\ UNCHANGED <<world, metrics, kind, chunker, rows, used, index, placeQueue, lockQueue>>

\* asyncio.timeout: what an answer awaits while the clock runs.
TimeoutOnLockOnly == {"lock"}    \* mutant of UnderTimeout
UnderTimeout == {"lock", "reading", "read"}

\* `async with self._retrieval_lock` releases on the way out of a cancellation.
LockKept(r) == lock    \* mutant of LockAfterCancel
LockAfterCancel(r) == IF lock = r THEN None ELSE lock

\* The queue of the lock without a waiter that is cancelled.
Without(queue, r) ==
  IF r \in ToSet(queue) THEN RemoveAt(queue, CHOOSE i \in DOMAIN queue : queue[i] = r) ELSE queue

\* asyncio.timeout cancels the task at whatever it awaits.
TimeOut(r) ==
  /\ kind[r] = "answer" /\ pc[r] \in UnderTimeout
  /\ lockQueue' = Without(lockQueue, r)
  /\ lock' = LockAfterCancel(r)
  /\ rows' = [rows EXCEPT ![r] = None]
  /\ Respond(r, FailureStatus(r, "TimeoutError"), free)
  /\ UNCHANGED <<world, metrics, kind, chunker, used, index, placeQueue>>

\* database_probe returns or raises.
Probe(r) ==
  /\ pc[r] = "probing"
  /\ pc' = [pc EXCEPT ![r] = "respond"]
  /\ \E s \in {200, 503} : status' = [status EXCEPT ![r] = s]
  /\ UNCHANGED <<service, world, metrics, kind, chunker, rows, used>>
-----------------------------------------------------------------------------
(* The rest of the world. *)

\* A manifest run commits a new text and withdraws the document's former one.
Publish(d) ==
  /\ published[d] < MaxVersions
  /\ published' = [published EXCEPT ![d] = @ + 1]
  /\ seen' = seen \union {published'}
  /\ UNCHANGED <<service, request, metrics, restarts>>

\* The process dies and starts again; requests under way get no response.
Restart ==
  /\ restarts < MaxRestarts
  /\ restarts' = restarts + 1
  /\ free' = Places /\ placeQueue' = <<>>
  /\ lock' = None /\ lockQueue' = <<>> /\ index' = NoIndex
  /\ inFlight' = 0 /\ total' = 0 /\ failed' = 0 /\ counts' = NoCounts
  /\ pc' = [r \in Requests |-> IF pc[r] \in {"new", "done"} THEN pc[r] ELSE "lost"]
  /\ rows' = [r \in Requests |-> None]
  /\ seen' = {published}
  /\ UNCHANGED <<published, kind, chunker, used, status>>

\* What goes on by itself: the event loop and the clock.
Progress(r) ==
  \/ Refuse(r) \/ EnterAnswer(r) \/ EnterSearch(r) \/ EnterSystem(r)
  \/ TakePlace(r) \/ TakeLock(r) \/ Build(r) \/ TimeOut(r) \/ Finish(r)

DatabaseReplies(r) == ReadSections(r) \/ DatabaseFails(r) \/ Probe(r)

Next ==
  \/ \E r \in Requests : Begin(r) \/ Progress(r) \/ DatabaseReplies(r)
  \/ \E d \in Documents : Publish(d)
  \/ Restart

Spec == Init /\ [][Next]_vars

\* The event loop runs what is ready and timeouts fire; the database owes nothing.
FairSpec == Spec /\ \A r \in Requests : WF_vars(Progress(r))
-----------------------------------------------------------------------------
PcValues == {"new", "begun", "place", "lock", "reading", "read", "probing", "respond",
              "done", "lost"}

(* The type of every variable. *)
TypeOK ==
  /\ published \in Snapshots /\ seen \subseteq Snapshots
  /\ pc \in [Requests -> PcValues]
  /\ kind \in [Requests -> Kinds] /\ chunker \in [Requests -> Chunkers]
  /\ free \in 0..Places
  /\ placeQueue \in Seq(Requests) /\ lockQueue \in Seq(Requests)
  /\ lock \in Requests \union {None}
  /\ index \in [Chunkers -> Snapshots \union {None}]
  /\ rows \in [Requests -> Snapshots \union {None}]
  /\ used \in [Requests -> Snapshots \union {None}]
  /\ status \in [Requests -> Statuses]
  /\ inFlight \in Nat /\ total \in Nat /\ failed \in Nat
  /\ counts \in [Statuses -> Nat]
  /\ restarts \in Nat

(* The answers that hold a place. *)
AtWork == {r \in Requests : kind[r] = "answer" /\ pc[r] \in UnderTimeout}

(* maximum_concurrent_answers: no more answers work at once than there are *)
(* places, and every place is free or held by an answer that works,        *)
(* through queues, timeouts, failing queries and empty indexes: none leaks. *)
PlacesAddUp == free >= 0 /\ free + Cardinality(AtWork) = Places

(* The lock is held only by the request whose query builds the index, and  *)
(* whoever runs that query holds it: a cancelled or failed build leaves it  *)
(* free, and never do two requests build at once.                           *)
LockHeldByReader == \A r \in Requests : lock = r <=> pc[r] \in {"reading", "read"}

(* The cache is never told of a manifest run.  What it may be: one whole    *)
(* state the corpus was in, not a mixture of several, and none from before  *)
(* the process started.                                                     *)
IndexIsASnapshot == \A c \in Chunkers : index[c] # None => index[c] \in seen

(* docs/runbook.md: "search fails closed when no published sections exist":*)
(* no successful response comes from an index of nothing, and none is kept. *)
FailsClosed ==
  /\ \A c \in Chunkers : index[c] # Unpublished
  /\ \A r \in Requests :
       pc[r] = "respond" /\ status[r] = 200 /\ kind[r] \in {"answer", "search", "manifest"}
         => used[r] \notin {None, Unpublished}

Failures == {500, 503, 504}

(* The counters of /metrics agree with each other and with the requests:   *)
(* in flight are exactly those begun and not answered, whatever exception   *)
(* ended them, and the failures are those counted with a failing status.    *)
MetricsAddUp ==
  /\ inFlight = Cardinality({r \in Requests :
                   Counted(r) /\ pc[r] \notin {"new", "done", "lost"}})
  /\ total = MapThenSumSet(LAMBDA s : counts[s], Statuses)
  /\ failed = MapThenSumSet(LAMBDA s : counts[s], Failures)

Ended(r) == pc[r] \in {"done", "lost"}

AnswersEnd == \A r \in Requests : pc[r] = "begun" /\ kind[r] = "answer" ~> Ended(r)

(* Every answer request ends even if the database never replies again and   *)
(* other requests wait for it holding the lock: the timeout bounds the work *)
(* of those with a place, so places come free for those that wait for one,  *)
(* though no timeout runs while they wait.  And while the database replies, *)
(* every request ends: nobody waits for a lock or place that a cancelled    *)
(* request took along.                                                      *)
RequestsEnd ==
  /\ AnswersEnd
  /\ (\A r \in Requests : WF_vars(DatabaseReplies(r)))
       => \A r \in Requests : pc[r] = "begun" ~> Ended(r)
=============================================================================
