-------------------------- MODULE ApiProcessProofs --------------------------
(***************************************************************************)
(* Proofs about ApiProcess for any requests, loads, documents and places.  *)
(*                                                                         *)
(* The argument: a step of a request moves it alone, and takes or gives    *)
(* back exactly what the place in the code it leaves or reaches holds: a   *)
(* place from the lock to the end of the build, the lock from the query    *)
(* on.  What a query returned is what was published when it ran, and only  *)
(* that becomes an index or an answer.  Beginning and finishing, and no    *)
(* other step, change who is under way and the counters, both alike.       *)
(***************************************************************************)
EXTENDS ApiProcess, FiniteLemmas

(* The type of the variables but the semaphore's, in three parts.          *)
ServiceType ==
  /\ placeQueue \in Seq(Requests) /\ lockQueue \in Seq(Requests)
  /\ lock \in Requests \union {None}
  /\ index \in [Chunkers -> Snapshots \union {None}]

RequestType ==
  /\ pc \in [Requests -> PcValues]
  /\ kind \in [Requests -> Kinds] /\ chunker \in [Requests -> Chunkers]
  /\ rows \in [Requests -> Snapshots \union {None}]
  /\ used \in [Requests -> Snapshots \union {None}]
  /\ status \in [Requests -> Statuses]

OtherType ==
  /\ published \in Snapshots /\ seen \subseteq Snapshots
  /\ inFlight \in Nat /\ total \in Nat /\ failed \in Nat
  /\ counts \in [Statuses -> Nat]
  /\ restarts \in Nat

(* TypeOK in its parts, so that a step need only mention those it touches. *)
LEMMA TypeParts == TypeOK <=> ServiceType /\ RequestType /\ OtherType /\ free \in 0..Places
BY DEF TypeOK, ServiceType, RequestType, OtherType

(* The same of the next state.                                             *)
LEMMA TypePartsPrimed ==
  TypeOK' <=> ServiceType' /\ RequestType' /\ OtherType' /\ (free \in 0..Places)'
BY DEF TypeOK, ServiceType, RequestType, OtherType

(* Only answers wait for places, only probes for the database's health.    *)
WaitsFit ==
  \A r \in Requests : /\ pc[r] = "place" => kind[r] = "answer"
                      /\ pc[r] = "probing" => kind[r] = "ready"

(* What a query returned was published since the process started.          *)
RowsAreSeen ==
  /\ published \in seen
  /\ \A r \in Requests : pc[r] = "read" => rows[r] \in seen

ApiInv ==
  /\ TypeOK /\ PlacesAddUp /\ LockHeldByReader /\ WaitsFit /\ RowsAreSeen
  /\ IndexIsASnapshot /\ FailsClosed

(* A cancelled waiter leaves a queue of requests.                          *)
LEMMA WithoutType ==
  ASSUME NEW queue \in Seq(Requests), NEW r
  PROVE  Without(queue, r) \in Seq(Requests)
<1>1. CASE r \in ToSet(queue)
  <2> DEFINE i == CHOOSE j \in DOMAIN queue : queue[j] = r
  <2>1. i \in DOMAIN queue
    BY <1>1 DEF ToSet
  <2>2. i \in 1..Len(queue) /\ Len(queue) \in Nat
    BY <2>1
  <2> HIDE DEF i
  <2>3. SubSeq(queue, 1, i - 1) \in Seq(Requests) /\ SubSeq(queue, i + 1, Len(queue)) \in Seq(Requests)
    BY <2>2
  <2>4. RemoveAt(queue, i) \in Seq(Requests)
    BY <2>3 DEF RemoveAt
  <2> QED
    BY <1>1, <2>4 DEF Without, i
<1>2. CASE r \notin ToSet(queue)
  BY <1>2 DEF Without
<1> QED
  BY <1>1, <1>2

(* Requests at work are finitely many.                                     *)
LEMMA AtWorkFinite == IsFiniteSet(AtWork) /\ Cardinality(AtWork) \in Nat
<1>1. AtWork \in SUBSET Requests
  BY DEF AtWork
<1> QED
  BY <1>1, ApiAssumption, FS_Subset, FS_CardinalityType

(* A step that moves one request to s gives back the place the request     *)
(* held and takes one if s holds one.                                      *)
Holds(r, s) == IF kind[r] = "answer" /\ s \in UnderTimeout THEN 1 ELSE 0

Moves(r, s) ==
  /\ pc' = [pc EXCEPT ![r] = s] /\ kind' = kind
  /\ free' = free + Holds(r, pc[r]) - Holds(r, s)
  /\ Holds(r, s) > Holds(r, pc[r]) => free > 0

(* Such a step keeps the places added up.                                  *)
LEMMA PlacesKept ==
  ASSUME RequestType, PlacesAddUp, free \in 0..Places,
         NEW r \in Requests, NEW s \in PcValues, Moves(r, s)
  PROVE  PlacesAddUp' /\ (free \in 0..Places)'
<1>1. AtWork' = IF kind[r] = "answer" /\ s \in UnderTimeout THEN AtWork \union {r} ELSE AtWork \ {r}
  BY DEF AtWork, RequestType, UnderTimeout, Moves
<1>2. r \in AtWork <=> kind[r] = "answer" /\ pc[r] \in UnderTimeout
  BY DEF AtWork
<1>3. /\ Cardinality(AtWork \union {r}) = IF r \in AtWork THEN Cardinality(AtWork) ELSE Cardinality(AtWork) + 1
      /\ Cardinality(AtWork \ {r}) = IF r \in AtWork THEN Cardinality(AtWork) - 1 ELSE Cardinality(AtWork)
  BY AtWorkFinite, FS_AddElement, FS_RemoveElement
<1>4. Cardinality(AtWork') = Cardinality(AtWork) + Holds(r, s) - Holds(r, pc[r])
  BY <1>1, <1>2, <1>3, AtWorkFinite DEF Holds
<1>5. Holds(r, s) \in 0..1 /\ Holds(r, pc[r]) \in 0..1
  BY DEF Holds
<1>6. free' \in Int /\ free' >= 0 /\ free' + Cardinality(AtWork') = Places
  BY <1>4, <1>5, AtWorkFinite, ApiAssumption DEF PlacesAddUp, Moves
<1>7. Cardinality(AtWork') \in Nat
  BY <1>4, <1>5, <1>1, AtWorkFinite, FS_AddElement, FS_RemoveElement, FS_CardinalityType
<1> QED
  BY <1>6, <1>7, ApiAssumption DEF PlacesAddUp

(* What asking for the index does: it answers from a cached one, or takes  *)
(* the lock, or waits for it.                                              *)
Reaches(r, avail, s) ==
  /\ pc' = [pc EXCEPT ![r] = s]
  /\ free' = IF s = "respond" THEN avail + Returned(r) ELSE avail
  /\ lock' = IF s = "reading" THEN r ELSE lock
  /\ s = "reading" => lock = None
  /\ lockQueue' \in Seq(Requests)
  /\ IF s = "respond"
     THEN /\ status' = [status EXCEPT ![r] = 200]
          /\ used' = [used EXCEPT ![r] = index[chunker[r]]]
          /\ index[chunker[r]] # None
     ELSE UNCHANGED <<status, used>>

(* Asking for the index is one of these three.                            *)
LEMMA AskIndexReaches ==
  ASSUME ServiceType, NEW r \in Requests, NEW avail, AskIndex(r, avail)
  PROVE  \E s \in {"respond", "reading", "lock"} : Reaches(r, avail, s)
<1>1. CASE Cached(r) /\ Respond(r, 200, avail) /\ used' = [used EXCEPT ![r] = index[chunker[r]]]
           /\ UNCHANGED <<lock, lockQueue>>
  <2>1. Reaches(r, avail, "respond")
    BY <1>1 DEF Reaches, Cached, Respond, ServiceType
  <2> QED
    BY <2>1
<1>2. CASE LockFree /\ lock' = r /\ pc' = [pc EXCEPT ![r] = "reading"] /\ free' = avail
           /\ UNCHANGED <<lockQueue, used, status>>
  <2>1. Reaches(r, avail, "reading")
    BY <1>2 DEF Reaches, LockFree, ServiceType
  <2> QED
    BY <2>1
<1>3. CASE lockQueue' = Append(lockQueue, r) /\ pc' = [pc EXCEPT ![r] = "lock"] /\ free' = avail
           /\ UNCHANGED <<lock, used, status>>
  <2>1. lockQueue' \in Seq(Requests)
    BY <1>3 DEF ServiceType
  <2>2. Reaches(r, avail, "lock")
    BY <1>3, <2>1 DEF Reaches
  <2> QED
    BY <2>2
<1> QED
  BY <1>1, <1>2, <1>3 DEF AskIndex

(* Every step of a request moves it alone, and settles its place.          *)
LEMMA RequestMoves ==
  ASSUME ApiInv, NEW r \in Requests, Begin(r) \/ Progress(r) \/ DatabaseReplies(r)
  PROVE  \E s \in PcValues : Moves(r, s)
<1> USE DEF PcValues, UnderTimeout
<1>0. ServiceType /\ RequestType /\ free \in 0..Places /\ WaitsFit
  BY TypeParts DEF ApiInv
<1>1. ASSUME Begin(r) PROVE Moves(r, "begun")
  BY <1>0, <1>1 DEF Begin, service, Holds, Moves
<1>2. ASSUME Refuse(r) PROVE Moves(r, "respond")
  BY <1>0, <1>2 DEF Refuse, service, Holds, Moves
<1>3. ASSUME EnterAnswer(r) PROVE \E s \in PcValues : Moves(r, s)
  <2>1. kind' = kind /\ pc[r] = "begun" /\ kind[r] = "answer"
    BY <1>3 DEF EnterAnswer
  <2>2. CASE PlaceFree /\ AskIndex(r, free - 1)
    <3>1. PICK s \in {"respond", "reading", "lock"} : Reaches(r, free - 1, s)
      BY <1>0, <2>2, AskIndexReaches
    <3>2. Moves(r, s)
      BY <1>0, <2>1, <2>2, <3>1 DEF Reaches, Moves, Returned, Holds, PlaceFree
    <3> QED
      BY <3>2
  <2>3. CASE pc' = [pc EXCEPT ![r] = "place"] /\ free' = free
    <3>1. Moves(r, "place")
      BY <1>0, <2>1, <2>3 DEF Holds, Moves
    <3> QED
      BY <3>1
  <2> QED
    BY <1>3, <2>2, <2>3 DEF EnterAnswer
<1>4. ASSUME EnterSearch(r) PROVE \E s \in PcValues : Moves(r, s)
  <2>1. kind' = kind /\ pc[r] = "begun" /\ kind[r] # "answer" /\ AskIndex(r, free)
    BY <1>4 DEF EnterSearch
  <2>2. PICK s \in {"respond", "reading", "lock"} : Reaches(r, free, s)
    BY <1>0, <2>1, AskIndexReaches
  <2>3. Moves(r, s)
    BY <1>0, <2>1, <2>2 DEF Reaches, Moves, Returned, Holds
  <2> QED
    BY <2>3
<1>5. ASSUME EnterSystem(r) PROVE \E s \in {"probing", "respond"} : Moves(r, s)
  <2>1. kind[r] = "ready" => Moves(r, "probing")
    BY <1>0, <1>5 DEF EnterSystem, service, Holds, Moves
  <2>2. kind[r] # "ready" => Moves(r, "respond")
    BY <1>0, <1>5 DEF EnterSystem, service, Holds, Moves
  <2> QED
    BY <2>1, <2>2
<1>6. ASSUME TakePlace(r) PROVE \E s \in PcValues : Moves(r, s)
  <2>1. kind' = kind /\ pc[r] = "place" /\ kind[r] = "answer" /\ free > 0 /\ AskIndex(r, free - 1)
    BY <1>0, <1>6 DEF TakePlace, WaitsFit
  <2>2. PICK s \in {"respond", "reading", "lock"} : Reaches(r, free - 1, s)
    BY <1>0, <2>1, AskIndexReaches
  <2>3. Moves(r, s)
    BY <1>0, <2>1, <2>2 DEF Reaches, Moves, Returned, Holds
  <2> QED
    BY <2>3
<1>7. ASSUME TakeLock(r) PROVE \E s \in {"respond", "reading"} : Moves(r, s)
  BY <1>0, <1>7 DEF TakeLock, Respond, Returned, Holds, Moves
<1>8. ASSUME Build(r) PROVE Moves(r, "respond")
  BY <1>0, <1>8 DEF Build, Respond, Returned, Holds, Moves
<1>9. ASSUME TimeOut(r) PROVE Moves(r, "respond")
  BY <1>0, <1>9 DEF TimeOut, Respond, Returned, Holds, Moves
<1>10. ASSUME Finish(r) PROVE Moves(r, "done")
  BY <1>0, <1>10 DEF Finish, service, Holds, Moves
<1>11. ASSUME ReadSections(r) PROVE Moves(r, "read")
  BY <1>0, <1>11 DEF ReadSections, service, Holds, Moves
<1>12. ASSUME DatabaseFails(r) PROVE Moves(r, "respond")
  BY <1>0, <1>12 DEF DatabaseFails, Respond, Returned, Holds, Moves
<1>13. ASSUME Probe(r) PROVE Moves(r, "respond")
  BY <1>0, <1>13 DEF Probe, service, Holds, Moves
<1> QED
  BY <1>1, <1>2, <1>3, <1>4, <1>5, <1>6, <1>7, <1>8, <1>9, <1>10, <1>11, <1>12, <1>13
  DEF Progress, DatabaseReplies

(* No step leaks a place or lets more answers work than there are places.  *)
LEMMA PlacesStep ==
  ASSUME ApiInv, [Next]_vars
  PROVE  PlacesAddUp' /\ (free \in 0..Places)'
<1>0. RequestType /\ PlacesAddUp /\ free \in 0..Places
  BY TypeParts DEF ApiInv
<1>1. ASSUME NEW r \in Requests, Begin(r) \/ Progress(r) \/ DatabaseReplies(r)
      PROVE  PlacesAddUp' /\ (free \in 0..Places)'
  BY <1>0, <1>1, RequestMoves, PlacesKept
<1>2. CASE Restart
  <2>1. AtWork' = {} /\ free' = Places
    BY <1>2 DEF Restart, AtWork, UnderTimeout
  <2>2. Cardinality(AtWork') = 0
    BY <2>1, FS_EmptySet
  <2> QED
    BY <2>1, <2>2, ApiAssumption DEF PlacesAddUp
<1>3. CASE \E d \in Documents : Publish(d)
  BY <1>0, <1>3 DEF Publish, service, request, PlacesAddUp, AtWork
<1>4. CASE UNCHANGED vars
  BY <1>0, <1>4 DEF vars, service, request, PlacesAddUp, AtWork
<1> QED
  BY <1>1, <1>2, <1>3, <1>4 DEF Next

(* What a step that asks for the index changes besides what it reaches.    *)
LeavesTheRest ==
  /\ UNCHANGED <<world, metrics, kind, chunker, rows, index>>
  /\ placeQueue' \in Seq(Requests)

(* The three steps that ask for the index.                                 *)
LEMMA AsksIndex ==
  ASSUME ApiInv, NEW r \in Requests,
         (EnterAnswer(r) /\ PlaceFree) \/ EnterSearch(r) \/ TakePlace(r)
  PROVE  /\ LeavesTheRest /\ pc[r] \in {"begun", "place"}
         /\ kind[r] \in {"answer", "search", "manifest"}
         /\ \E avail \in Int : \E s \in {"respond", "reading", "lock"} : Reaches(r, avail, s)
<1>0. ServiceType /\ free \in 0..Places /\ free \in Int /\ free - 1 \in Int /\ WaitsFit
  BY TypeParts DEF ApiInv
<1>1. CASE EnterAnswer(r) /\ PlaceFree
  <2>1. AskIndex(r, free - 1) /\ LeavesTheRest /\ pc[r] = "begun" /\ kind[r] = "answer"
    BY <1>0, <1>1 DEF EnterAnswer, LeavesTheRest, ServiceType
  <2> QED
    BY <1>0, <2>1, AskIndexReaches
<1>2. CASE EnterSearch(r)
  <2>1. AskIndex(r, free) /\ LeavesTheRest /\ pc[r] = "begun" /\ kind[r] \in {"search", "manifest"}
    BY <1>0, <1>2 DEF EnterSearch, LeavesTheRest, ServiceType
  <2> QED
    BY <1>0, <2>1, AskIndexReaches
<1>3. CASE TakePlace(r)
  <2>1. AskIndex(r, free - 1) /\ pc[r] = "place" /\ kind[r] = "answer"
    BY <1>0, <1>3 DEF TakePlace, WaitsFit
  <2>2. LeavesTheRest
    BY <1>0, <1>3 DEF TakePlace, LeavesTheRest, ServiceType
  <2> QED
    BY <1>0, <2>1, <2>2, AskIndexReaches
<1> QED
  BY <1>1, <1>2, <1>3

(* No step disturbs the types.                                             *)
LEMMA TypeStep ==
  ASSUME ApiInv, [Next]_vars
  PROVE  ServiceType' /\ RequestType' /\ OtherType'
<1> DEFINE Types == ServiceType' /\ RequestType' /\ OtherType'
<1>0. ServiceType /\ RequestType /\ OtherType /\ RowsAreSeen /\ LockHeldByReader
  BY TypeParts DEF ApiInv
<1>a. \A r \in Requests : \A e : FailureStatus(r, e) \in Statuses
  BY DEF FailureStatus, Statuses
<1>b. ASSUME UNCHANGED service PROVE ServiceType'
  BY <1>0, <1>b DEF service, ServiceType
<1>c. ASSUME UNCHANGED <<world, metrics>> PROVE OtherType'
  BY <1>0, <1>c DEF world, metrics, OtherType
<1>1. ASSUME NEW r \in Requests, Begin(r) PROVE Types
  <2>1. RequestType'
    BY <1>0, <1>1 DEF Begin, PcValues, RequestType
  <2>2. OtherType'
    BY <1>0, <1>1 DEF Begin, world, OtherType
  <2> QED
    BY <1>1, <1>b, <2>1, <2>2 DEF Begin
<1>2. ASSUME NEW r \in Requests, Refuse(r) PROVE Types
  <2>1. RequestType'
    BY <1>0, <1>2 DEF Refuse, PcValues, Statuses, RequestType
  <2> QED
    BY <1>2, <1>b, <1>c, <2>1 DEF Refuse
<1>3. ASSUME NEW r \in Requests, (EnterAnswer(r) /\ PlaceFree) \/ EnterSearch(r) \/ TakePlace(r)
      PROVE  Types
  <2>1. LeavesTheRest /\ \E avail \in Int : \E s \in {"respond", "reading", "lock"} : Reaches(r, avail, s)
    BY <1>3, AsksIndex
  <2>2. PICK avail \in Int, s \in {"respond", "reading", "lock"} : Reaches(r, avail, s)
    BY <2>1
  <2>3. ServiceType'
    BY <1>0, <2>1, <2>2 DEF LeavesTheRest, Reaches, ServiceType
  <2>4. index[chunker[r]] # None => index[chunker[r]] \in Snapshots
    BY <1>0 DEF ServiceType, RequestType
  <2>5. pc' \in [Requests -> PcValues]
    BY <1>0, <2>2 DEF Reaches, PcValues, RequestType
  <2>6. used' \in [Requests -> Snapshots \union {None}] /\ status' \in [Requests -> Statuses]
    <3>1. CASE s = "respond"
      BY <1>0, <2>2, <2>4, <3>1 DEF Reaches, Statuses, RequestType
    <3>2. CASE s # "respond"
      BY <1>0, <2>2, <3>2 DEF Reaches, RequestType
    <3> QED
      BY <3>1, <3>2
  <2>7. RequestType'
    BY <1>0, <2>1, <2>5, <2>6 DEF LeavesTheRest, RequestType
  <2> QED
    BY <1>c, <2>1, <2>3, <2>7 DEF LeavesTheRest
<1>4. ASSUME NEW r \in Requests, EnterAnswer(r), ~PlaceFree PROVE Types
  <2>0. /\ placeQueue' = Append(placeQueue, r) /\ pc' = [pc EXCEPT ![r] = "place"]
        /\ UNCHANGED <<lock, lockQueue, index, kind, chunker, rows, used, status>>
    BY <1>4 DEF EnterAnswer
  <2>1. ServiceType'
    BY <1>0, <2>0 DEF ServiceType
  <2>2. RequestType'
    BY <1>0, <2>0 DEF PcValues, RequestType
  <2> QED
    BY <1>4, <1>c, <2>1, <2>2 DEF EnterAnswer
<1>5. ASSUME NEW r \in Requests, EnterSystem(r) PROVE Types
  <2> DEFINE s == IF kind[r] = "ready" THEN "probing" ELSE "respond"
  <2>1. s \in PcValues /\ pc' = [pc EXCEPT ![r] = s] /\ UNCHANGED <<kind, chunker, rows, used, status>>
    BY <1>5 DEF EnterSystem, PcValues
  <2> HIDE DEF s
  <2>2. RequestType'
    BY <1>0, <2>1 DEF RequestType
  <2> QED
    BY <1>5, <1>b, <1>c, <2>2 DEF EnterSystem
<1>6. ASSUME NEW r \in Requests, TakeLock(r) PROVE Types
  <2>1. ServiceType'
    BY <1>0, <1>6 DEF TakeLock, ServiceType
  <2>2. index[chunker[r]] \in Snapshots \union {None}
    BY <1>0 DEF ServiceType, RequestType
  <2>3. RequestType'
    BY <1>0, <1>6, <2>2 DEF TakeLock, Respond, PcValues, Statuses, RequestType
  <2> QED
    BY <1>6, <1>c, <2>1, <2>3 DEF TakeLock
<1>7. ASSUME NEW r \in Requests, ReadSections(r) PROVE Types
  <2>1. published \in Snapshots /\ rows' = [rows EXCEPT ![r] = published]
    BY <1>0, <1>7 DEF ReadSections, Sections, OtherType
  <2>2. RequestType'
    BY <1>0, <1>7, <2>1 DEF ReadSections, PcValues, RequestType
  <2> QED
    BY <1>7, <1>b, <1>c, <2>2 DEF ReadSections
<1>8. ASSUME NEW r \in Requests, Build(r) PROVE Types
  <2>1. rows[r] \in Snapshots /\ chunker[r] \in Chunkers
    BY <1>0, <1>8 DEF Build, RowsAreSeen, OtherType, RequestType
  <2>2. ServiceType'
    BY <1>0, <1>8, <2>1 DEF Build, ServiceType
  <2>3. RequestType'
    BY <1>0, <1>a, <1>8, <2>1 DEF Build, Respond, PcValues, Statuses, RequestType
  <2> QED
    BY <1>8, <1>c, <2>2, <2>3 DEF Build
<1>9. ASSUME NEW r \in Requests, DatabaseFails(r) PROVE Types
  <2>1. ServiceType'
    BY <1>0, <1>9 DEF DatabaseFails, ServiceType
  <2>2. RequestType'
    BY <1>0, <1>a, <1>9 DEF DatabaseFails, Respond, PcValues, RequestType
  <2> QED
    BY <1>9, <1>c, <2>1, <2>2 DEF DatabaseFails
<1>10. ASSUME NEW r \in Requests, TimeOut(r) PROVE Types
  <2>1. ServiceType'
    BY <1>0, <1>10, WithoutType DEF TimeOut, LockAfterCancel, ServiceType
  <2>2. RequestType'
    BY <1>0, <1>a, <1>10 DEF TimeOut, Respond, PcValues, RequestType
  <2> QED
    BY <1>10, <1>c, <2>1, <2>2 DEF TimeOut
<1>11. ASSUME NEW r \in Requests, Probe(r) PROVE Types
  <2>1. RequestType'
    BY <1>0, <1>11 DEF Probe, PcValues, Statuses, RequestType
  <2> QED
    BY <1>11, <1>b, <1>c, <2>1 DEF Probe
<1>12. ASSUME NEW r \in Requests, Finish(r) PROVE Types
  <2>1. RequestType'
    BY <1>0, <1>12 DEF Finish, PcValues, RequestType
  <2>2. status[r] \in Statuses
    BY <1>0 DEF RequestType
  <2>3. OtherType'
    BY <1>0, <1>12, <2>2 DEF Finish, world, metrics, OtherType
  <2> QED
    BY <1>12, <1>b, <2>1, <2>3 DEF Finish
<1>13. ASSUME NEW d \in Documents, Publish(d) PROVE Types
  <2>1. published' \in Snapshots
    BY <1>0, <1>13 DEF Publish, OtherType, Snapshots
  <2>2. OtherType'
    BY <1>0, <1>13, <2>1 DEF Publish, metrics, OtherType
  <2>3. RequestType'
    BY <1>0, <1>13 DEF Publish, request, RequestType
  <2> QED
    BY <1>13, <1>b, <2>2, <2>3 DEF Publish
<1>14. CASE Restart
  <2>1. ServiceType'
    BY <1>0, <1>14 DEF Restart, NoIndex, ServiceType
  <2>2. \A r \in Requests : (IF pc[r] \in {"new", "done"} THEN pc[r] ELSE "lost") \in PcValues
    BY <1>0 DEF PcValues, RequestType
  <2>3. RequestType'
    BY <1>0, <1>14, <2>2 DEF Restart, RequestType
  <2>4. OtherType'
    BY <1>0, <1>14, ApiAssumption DEF Restart, NoCounts, OtherType
  <2> QED
    BY <2>1, <2>3, <2>4
<1>15. CASE UNCHANGED vars
  BY <1>0, <1>15, <1>b, <1>c DEF vars, request, RequestType
<1>16. ASSUME NEW r \in Requests, EnterAnswer(r) PROVE Types
  BY <1>3, <1>4, <1>16
<1>17. ASSUME NEW r \in Requests, EnterSearch(r) \/ TakePlace(r) PROVE Types
  BY <1>3, <1>17
<1> HIDE DEF Types
<1>18. ASSUME NEW r \in Requests, Begin(r) \/ Progress(r) \/ DatabaseReplies(r) PROVE Types
  BY <1>1, <1>2, <1>5, <1>6, <1>7, <1>8, <1>9, <1>10, <1>11, <1>12, <1>16, <1>17, <1>18
  DEF Progress, DatabaseReplies
<1> QED
  BY <1>13, <1>14, <1>15, <1>18 DEF Next, Types

(* How a step of r that leaves it at s handles the lock: what reads or has *)
(* read holds it, and only a free lock is taken.                           *)
Locks(r, s) ==
  /\ pc' = [pc EXCEPT ![r] = s]
  /\ IF s \in {"reading", "read"}
     THEN lock' = r /\ lock \in {None, r}
     ELSE lock' = IF lock = r THEN None ELSE lock

(* Every step of a request handles the lock like that.                     *)
LEMMA RequestLocks ==
  ASSUME ApiInv, NEW r \in Requests, Begin(r) \/ Progress(r) \/ DatabaseReplies(r)
  PROVE  \E s \in PcValues : Locks(r, s)
<1> USE DEF PcValues
<1>0. lock = r <=> pc[r] \in {"reading", "read"}
  BY DEF ApiInv, LockHeldByReader
<1>1. ASSUME Begin(r) PROVE Locks(r, "begun")
  BY <1>0, <1>1 DEF Begin, service, Locks
<1>2. ASSUME Refuse(r) PROVE Locks(r, "respond")
  BY <1>0, <1>2 DEF Refuse, service, Locks
<1>3. ASSUME (EnterAnswer(r) /\ PlaceFree) \/ EnterSearch(r) \/ TakePlace(r)
      PROVE  \E s \in PcValues : Locks(r, s)
  <2>1. pc[r] \in {"begun", "place"} /\ \E avail \in Int : \E s \in {"respond", "reading", "lock"} : Reaches(r, avail, s)
    BY <1>3, AsksIndex
  <2>2. PICK avail \in Int, s \in {"respond", "reading", "lock"} : Reaches(r, avail, s)
    BY <2>1
  <2>3. Locks(r, s)
    BY <1>0, <2>1, <2>2 DEF Reaches, Locks
  <2> QED
    BY <2>3
<1>4. ASSUME EnterAnswer(r), ~PlaceFree PROVE Locks(r, "place")
  <2>1. pc[r] = "begun" /\ pc' = [pc EXCEPT ![r] = "place"] /\ UNCHANGED lock
    BY <1>4 DEF EnterAnswer
  <2> QED
    BY <1>0, <2>1 DEF Locks
<1>5. ASSUME EnterSystem(r) PROVE \E s \in PcValues : Locks(r, s)
  <2>1. kind[r] = "ready" => Locks(r, "probing")
    BY <1>0, <1>5 DEF EnterSystem, service, Locks
  <2>2. kind[r] # "ready" => Locks(r, "respond")
    BY <1>0, <1>5 DEF EnterSystem, service, Locks
  <2> QED
    BY <2>1, <2>2
<1>6. ASSUME TakeLock(r) PROVE Locks(r, "respond") \/ Locks(r, "reading")
  BY <1>0, <1>6 DEF TakeLock, Respond, Locks
<1>7. ASSUME ReadSections(r) PROVE Locks(r, "read")
  BY <1>0, <1>7 DEF ReadSections, service, Locks
<1>8. ASSUME Build(r) PROVE Locks(r, "respond")
  BY <1>0, <1>8 DEF Build, Respond, Locks
<1>9. ASSUME DatabaseFails(r) PROVE Locks(r, "respond")
  BY <1>0, <1>9 DEF DatabaseFails, Respond, Locks
<1>10. ASSUME TimeOut(r) PROVE Locks(r, "respond")
  BY <1>10 DEF TimeOut, LockAfterCancel, Respond, Locks
<1>11. ASSUME Probe(r) PROVE Locks(r, "respond")
  BY <1>0, <1>11 DEF Probe, service, Locks
<1>12. ASSUME Finish(r) PROVE Locks(r, "done")
  BY <1>0, <1>12 DEF Finish, service, Locks
<1> QED
  BY <1>1, <1>2, <1>3, <1>4, <1>5, <1>6, <1>7, <1>8, <1>9, <1>10, <1>11, <1>12
  DEF Progress, DatabaseReplies

(* The lock stays with the one request that builds the index.              *)
LEMMA LockStep ==
  ASSUME ApiInv, [Next]_vars
  PROVE  LockHeldByReader'
<1>0. RequestType /\ LockHeldByReader
  BY TypeParts DEF ApiInv
<1>1. ASSUME NEW r \in Requests, Begin(r) \/ Progress(r) \/ DatabaseReplies(r)
      PROVE  LockHeldByReader'
  <2>1. PICK s \in PcValues : Locks(r, s)
    BY <1>1, RequestLocks
  <2> SUFFICES ASSUME NEW q \in Requests
               PROVE  lock' = q <=> pc'[q] \in {"reading", "read"}
    BY DEF LockHeldByReader
  <2>2. CASE q = r
    BY <1>0, <2>1, <2>2, ApiAssumption DEF Locks, RequestType
  <2>3. CASE q # r
    <3>1. pc'[q] = pc[q] /\ (lock = q <=> pc[q] \in {"reading", "read"})
      BY <1>0, <2>1, <2>3 DEF Locks, RequestType, LockHeldByReader
    <3>2. lock' = q <=> lock = q
      BY <2>1, <2>3, ApiAssumption DEF Locks
    <3> QED
      BY <3>1, <3>2
  <2> QED
    BY <2>2, <2>3
<1>2. CASE Restart
  BY <1>0, <1>2, ApiAssumption DEF Restart, LockHeldByReader, RequestType
<1>3. ASSUME NEW d \in Documents, Publish(d) PROVE LockHeldByReader'
  BY <1>0, <1>3 DEF Publish, service, request, LockHeldByReader
<1>4. CASE UNCHANGED vars
  BY <1>0, <1>4 DEF vars, service, request, LockHeldByReader
<1> QED
  BY <1>1, <1>2, <1>3, <1>4 DEF Next

(* No step lets anybody wait for what it does not use.                     *)
LEMMA WaitsStep ==
  ASSUME ApiInv, [Next]_vars
  PROVE  WaitsFit'
<1>0. RequestType /\ WaitsFit
  BY TypeParts DEF ApiInv
<1>1. ASSUME NEW r \in Requests, Begin(r) \/ Progress(r) \/ DatabaseReplies(r)
      PROVE  WaitsFit'
  <2>1. PICK s \in PcValues : Moves(r, s)
    BY <1>1, RequestMoves
  <2>2. /\ pc'[r] = "place" => kind[r] = "answer"
        /\ pc'[r] = "probing" => kind[r] = "ready"
    <3>1. ASSUME (EnterAnswer(r) /\ PlaceFree) \/ EnterSearch(r) \/ TakePlace(r)
          PROVE  pc'[r] \in {"respond", "reading", "lock"}
      BY <1>0, <3>1, AsksIndex DEF Reaches, RequestType
    <3>2. ASSUME EnterAnswer(r), ~PlaceFree PROVE pc'[r] = "place" /\ kind[r] = "answer"
      BY <1>0, <3>2 DEF EnterAnswer, RequestType
    <3>3. ASSUME EnterSystem(r) PROVE pc'[r] = IF kind[r] = "ready" THEN "probing" ELSE "respond"
      BY <1>0, <3>3 DEF EnterSystem, RequestType
    <3>4. ASSUME Begin(r) \/ Refuse(r) \/ TakeLock(r) \/ Build(r) \/ TimeOut(r) \/ Finish(r)
                 \/ DatabaseReplies(r)
          PROVE  pc'[r] \notin {"place", "probing"}
      BY <1>0, <3>4 DEF Begin, Refuse, TakeLock, Build, TimeOut, Finish, DatabaseReplies,
                        ReadSections, DatabaseFails, Probe, Respond, RequestType
    <3> QED
      BY <1>1, <3>1, <3>2, <3>3, <3>4 DEF Progress
  <2> QED
    BY <1>0, <2>1, <2>2 DEF Moves, WaitsFit, RequestType
<1>2. CASE Restart
  BY <1>0, <1>2 DEF Restart, WaitsFit, RequestType
<1>3. ASSUME NEW d \in Documents, Publish(d) PROVE WaitsFit'
  BY <1>0, <1>3 DEF Publish, request, WaitsFit
<1>4. CASE UNCHANGED vars
  BY <1>0, <1>4 DEF vars, request, WaitsFit
<1> QED
  BY <1>1, <1>2, <1>3, <1>4 DEF Next

Searches(r) == kind[r] \in {"answer", "search", "manifest"}

(* What a step of r that leaves it at s learns: rows of a published state, *)
(* an index of such rows that are not empty, an answer from such an index. *)
Learns(r, s) ==
  /\ pc' = [pc EXCEPT ![r] = s] /\ UNCHANGED <<world, kind, chunker>>
  /\ \A q \in Requests \ {r} : rows'[q] = rows[q] /\ used'[q] = used[q] /\ status'[q] = status[q]
  /\ s = "read" => rows'[r] = published
  /\ index' = index \/ \E v \in seen \ {Unpublished} : index' = [index EXCEPT ![chunker[r]] = v]
  /\ s = "respond" /\ status'[r] = 200 /\ Searches(r) => used'[r] \notin {None, Unpublished}

(* Every step of a request learns no more than that.                       *)
LEMMA RequestLearns ==
  ASSUME ApiInv, NEW r \in Requests, Begin(r) \/ Progress(r) \/ DatabaseReplies(r)
  PROVE  \E s \in PcValues : Learns(r, s)
<1> USE DEF PcValues
<1>0. RequestType /\ ServiceType /\ OtherType /\ WaitsFit /\ RowsAreSeen
  BY TypeParts DEF ApiInv
<1>a. /\ None # Unpublished /\ index[chunker[r]] # Unpublished
      /\ \A v \in seen : v # None
  BY <1>0, ApiAssumption DEF ApiInv, FailsClosed, Snapshots, Unpublished, OtherType, RequestType
<1>b. \A e : FailureStatus(r, e) # 200
  BY DEF FailureStatus
<1>1. ASSUME Begin(r) PROVE Learns(r, "begun")
  BY <1>1 DEF Begin, service, Learns
<1>2. ASSUME Refuse(r) PROVE Learns(r, "respond")
  BY <1>0, <1>2 DEF Refuse, service, Learns, RequestType
<1>3. ASSUME (EnterAnswer(r) /\ PlaceFree) \/ EnterSearch(r) \/ TakePlace(r)
      PROVE  \E s \in PcValues : Learns(r, s)
  <2>1. LeavesTheRest /\ \E avail \in Int : \E s \in {"respond", "reading", "lock"} : Reaches(r, avail, s)
    BY <1>3, AsksIndex
  <2>2. PICK avail \in Int, s \in {"respond", "reading", "lock"} : Reaches(r, avail, s)
    BY <2>1
  <2>3. CASE s = "respond"
    <3>1. used'[r] \notin {None, Unpublished}
      BY <1>0, <1>a, <2>2, <2>3 DEF Reaches, RequestType
    <3> QED
      BY <1>0, <2>1, <2>2, <2>3, <3>1 DEF LeavesTheRest, Reaches, Learns, RequestType
  <2>4. CASE s # "respond"
    BY <2>1, <2>2, <2>4 DEF LeavesTheRest, Reaches, Learns
  <2> QED
    BY <2>3, <2>4
<1>4. ASSUME EnterAnswer(r), ~PlaceFree PROVE Learns(r, "place")
  <2>1. /\ pc' = [pc EXCEPT ![r] = "place"]
        /\ UNCHANGED <<world, kind, chunker, rows, used, status, index>>
    BY <1>4 DEF EnterAnswer
  <2> QED
    BY <2>1 DEF Learns
<1>5. ASSUME EnterSystem(r) PROVE \E s \in PcValues : Learns(r, s)
  <2>1. kind[r] = "ready" => Learns(r, "probing")
    BY <1>5 DEF EnterSystem, service, Learns
  <2>2. kind[r] # "ready" => Learns(r, "respond")
    BY <1>5 DEF EnterSystem, service, Learns, Searches
  <2> QED
    BY <2>1, <2>2
<1>6. ASSUME TakeLock(r) PROVE Learns(r, "respond") \/ Learns(r, "reading")
  <2>1. CASE Cached(r) /\ Respond(r, 200, free) /\ used' = [used EXCEPT ![r] = index[chunker[r]]]
    <3>1. used'[r] \notin {None, Unpublished}
      BY <1>0, <1>a, <2>1 DEF Cached, RequestType
    <3> QED
      BY <1>0, <1>6, <2>1, <3>1 DEF TakeLock, Respond, Learns, RequestType
  <2>2. CASE pc' = [pc EXCEPT ![r] = "reading"] /\ UNCHANGED <<used, status>>
    BY <1>6, <2>2 DEF TakeLock, Learns
  <2> QED
    BY <1>6, <2>1, <2>2 DEF TakeLock
<1>7. ASSUME ReadSections(r) PROVE Learns(r, "read")
  BY <1>0, <1>7 DEF ReadSections, Sections, service, Learns, RequestType
<1>8. ASSUME Build(r) PROVE Learns(r, "respond")
  <2>0. pc[r] = "read"
    BY <1>8 DEF Build
  <2>1. /\ pc' = [pc EXCEPT ![r] = "respond"] /\ UNCHANGED <<world, kind, chunker>>
        /\ rows' = [rows EXCEPT ![r] = None]
    BY <1>8 DEF Build, Respond
  <2>2. CASE Unusable(rows[r])
    <3>1. UNCHANGED <<index, used>> /\ status' = [status EXCEPT ![r] = FailureStatus(r, "ValueError")]
      BY <1>8, <2>2 DEF Build, Respond
    <3> QED
      BY <1>0, <1>b, <2>1, <3>1 DEF Learns, RequestType
  <2>3. CASE ~Unusable(rows[r])
    <3>1. rows[r] \in seen \ {Unpublished, None}
      BY <1>0, <1>a, <2>0, <2>3 DEF RowsAreSeen, Unusable
    <3>2. /\ index' = [index EXCEPT ![chunker[r]] = rows[r]]
          /\ used' = [used EXCEPT ![r] = rows[r]] /\ status' = [status EXCEPT ![r] = 200]
      BY <1>8, <2>3 DEF Build, Respond
    <3>3. used'[r] \notin {None, Unpublished}
      BY <1>0, <3>1, <3>2 DEF RequestType
    <3>4. \E v \in seen \ {Unpublished} : index' = [index EXCEPT ![chunker[r]] = v]
      BY <3>1, <3>2
    <3>5. \A q \in Requests \ {r} : rows'[q] = rows[q] /\ used'[q] = used[q] /\ status'[q] = status[q]
      BY <1>0, <2>1, <3>2 DEF RequestType
    <3> QED
      BY <2>1, <3>3, <3>4, <3>5 DEF Learns
  <2> QED
    BY <2>2, <2>3
<1>9. ASSUME DatabaseFails(r) PROVE Learns(r, "respond")
  BY <1>0, <1>b, <1>9 DEF DatabaseFails, Respond, Learns, RequestType
<1>10. ASSUME TimeOut(r) PROVE Learns(r, "respond")
  BY <1>0, <1>b, <1>10 DEF TimeOut, Respond, Learns, RequestType
<1>11. ASSUME Probe(r) PROVE Learns(r, "respond")
  BY <1>0, <1>11 DEF Probe, service, Learns, Searches, WaitsFit, RequestType
<1>12. ASSUME Finish(r) PROVE Learns(r, "done")
  BY <1>12 DEF Finish, service, Learns
<1> QED
  BY <1>1, <1>2, <1>3, <1>4, <1>5, <1>6, <1>7, <1>8, <1>9, <1>10, <1>11, <1>12
  DEF Progress, DatabaseReplies

(* What is indexed and answered from stays published and not empty.        *)
LEMMA DataStep ==
  ASSUME ApiInv, [Next]_vars
  PROVE  RowsAreSeen' /\ IndexIsASnapshot' /\ FailsClosed'
<1>0. /\ RequestType /\ ServiceType /\ OtherType /\ RowsAreSeen /\ IndexIsASnapshot /\ FailsClosed
      /\ None # Unpublished
  BY TypeParts, ApiAssumption DEF ApiInv, Snapshots, Unpublished
<1>1. ASSUME NEW r \in Requests, Begin(r) \/ Progress(r) \/ DatabaseReplies(r)
      PROVE  RowsAreSeen' /\ IndexIsASnapshot' /\ FailsClosed'
  <2>1. PICK s \in PcValues : Learns(r, s)
    BY <1>1, RequestLearns
  <2>2. RowsAreSeen'
    BY <1>0, <2>1 DEF Learns, world, RowsAreSeen, RequestType
  <2>3. ASSUME NEW c \in Chunkers
        PROVE  (index'[c] # None => index'[c] \in seen') /\ index'[c] # Unpublished
    BY <1>0, <2>1 DEF Learns, world, IndexIsASnapshot, FailsClosed, ServiceType
  <2>4. ASSUME NEW q \in Requests, pc'[q] = "respond", status'[q] = 200,
               kind'[q] \in {"answer", "search", "manifest"}
        PROVE  used'[q] \notin {None, Unpublished}
    <3>1. CASE q = r
      BY <1>0, <2>1, <2>4, <3>1 DEF Learns, Searches, RequestType
    <3>2. CASE q # r
      BY <1>0, <2>1, <2>4, <3>2 DEF Learns, FailsClosed, RequestType
    <3> QED
      BY <3>1, <3>2
  <2> QED
    BY <2>2, <2>3, <2>4 DEF IndexIsASnapshot, FailsClosed
<1>2. CASE Restart
  <2>1. /\ \A r \in Requests : pc'[r] \notin {"read", "respond"}
        /\ \A c \in Chunkers : index'[c] = None
        /\ published' \in seen'
    BY <1>0, <1>2 DEF Restart, NoIndex, RequestType
  <2> QED
    BY <1>0, <2>1 DEF RowsAreSeen, IndexIsASnapshot, FailsClosed
<1>3. ASSUME NEW d \in Documents, Publish(d)
      PROVE  RowsAreSeen' /\ IndexIsASnapshot' /\ FailsClosed'
  <2>1. UNCHANGED <<pc, kind, rows, used, status, index>> /\ seen' = seen \union {published'}
    BY <1>3 DEF Publish, service, request
  <2> QED
    BY <1>0, <2>1 DEF RowsAreSeen, IndexIsASnapshot, FailsClosed
<1>4. CASE UNCHANGED vars
  BY <1>0, <1>4 DEF vars, service, request, world, RowsAreSeen, IndexIsASnapshot, FailsClosed
<1> QED
  BY <1>1, <1>2, <1>3, <1>4 DEF Next

(* The process starts in the invariant.                                    *)
LEMMA ApiStarts == Init => ApiInv
<1> SUFFICES ASSUME Init PROVE ApiInv
  OBVIOUS
<1>1. PICK load \in Loads : /\ kind = [r \in Requests |-> load[r].kind]
                            /\ chunker = [r \in Requests |-> load[r].chunker]
  BY DEF Init
<1>2. \A r \in Requests : load[r] \in Asks
  BY <1>1, ApiAssumption
<1>3. kind \in [Requests -> Kinds] /\ chunker \in [Requests -> Chunkers]
  BY <1>1, <1>2 DEF Asks
<1>4. Unpublished \in Snapshots /\ None # Unpublished
  BY ApiAssumption DEF Snapshots, Unpublished
<1>5. ServiceType
  BY DEF Init, NoIndex, ServiceType
<1>6. RequestType
  BY <1>3 DEF Init, PcValues, Statuses, RequestType
<1>7. OtherType
  BY <1>4, ApiAssumption DEF Init, NoCounts, OtherType
<1>8. free \in 0..Places /\ free = Places
  BY ApiAssumption DEF Init
<1>9. AtWork = {}
  BY DEF Init, AtWork, UnderTimeout
<1>10. PlacesAddUp
  BY <1>8, <1>9, FS_EmptySet, ApiAssumption DEF PlacesAddUp
<1>11. LockHeldByReader /\ WaitsFit /\ RowsAreSeen /\ IndexIsASnapshot /\ FailsClosed
  BY <1>4, ApiAssumption
  DEF Init, NoIndex, LockHeldByReader, WaitsFit, RowsAreSeen, IndexIsASnapshot, FailsClosed
<1> QED
  BY <1>5, <1>6, <1>7, <1>8, <1>10, <1>11, TypeParts DEF ApiInv

(* The invariant is inductive.                                             *)
LEMMA ApiStep == ApiInv /\ [Next]_vars => ApiInv'
BY PlacesStep, TypeStep, LockStep, WaitsStep, DataStep, TypePartsPrimed DEF ApiInv

(* The invariant of places, locks and queues holds always.                *)
LEMMA ApiInvariant == Spec => []ApiInv
BY ApiStarts, ApiStep, PTL DEF Spec

(* Every variable of the process keeps its type.                           *)
THEOREM ApiTypes == Spec => []TypeOK
<1>1. ApiInv => TypeOK
  BY DEF ApiInv
<1> QED
  BY <1>1, ApiInvariant, PTL

(* For any number of requests and places, whatever they ask and however    *)
(* they end, no answer takes a place along and none works without one.     *)
THEOREM PlacesNeverLeak == Spec => []PlacesAddUp
<1>1. ApiInv => PlacesAddUp
  BY DEF ApiInv
<1> QED
  BY <1>1, ApiInvariant, PTL

(* The index lock is held by whoever builds the index and by nobody else,  *)
(* through cancellations and failing queries.                              *)
THEOREM LockIsOfTheReader == Spec => []LockHeldByReader
<1>1. ApiInv => LockHeldByReader
  BY DEF ApiInv
<1> QED
  BY <1>1, ApiInvariant, PTL

(* A cached index is one state of the corpus since the process started.    *)
THEOREM IndexesAreSnapshots == Spec => []IndexIsASnapshot
<1>1. ApiInv => IndexIsASnapshot
  BY DEF ApiInv
<1> QED
  BY <1>1, ApiInvariant, PTL

(* No search or answer succeeds on an index of nothing.                    *)
THEOREM SearchFailsClosed == Spec => []FailsClosed
<1>1. ApiInv => FailsClosed
  BY DEF ApiInv
<1> QED
  BY <1>1, ApiInvariant, PTL
-----------------------------------------------------------------------------
(* The counters of /metrics.                                               *)

InFlight == {r \in Requests : Counted(r) /\ pc[r] \notin {"new", "done", "lost"}}

CountsInv ==
  /\ inFlight = Cardinality(InFlight)
  /\ total = Sums(counts, Statuses)[Statuses]
  /\ failed = Sums(counts, Failures)[Failures]

(* Finitely many requests are in flight.                                  *)
LEMMA InFlightFinite == IsFiniteSet(InFlight) /\ Cardinality(InFlight) \in Nat
<1>1. InFlight \in SUBSET Requests
  BY DEF InFlight
<1> QED
  BY <1>1, ApiAssumption, FS_Subset, FS_CardinalityType

(* There are finitely many statuses.                                      *)
LEMMA StatusesFinite == IsFiniteSet(Statuses) /\ IsFiniteSet(Failures) /\ Failures \in SUBSET Statuses
<1>0. PICK n : n = 1000
  OBVIOUS
<1>1. n \in Int /\ Statuses \subseteq 0..n
  BY <1>0 DEF Statuses
<1>2. Failures \in SUBSET Statuses
  BY DEF Statuses, Failures
<1>3. IsFiniteSet(0..n)
  BY <1>1, FS_Interval
<1>4. IsFiniteSet(Statuses)
  BY <1>1, <1>3, FS_Subset
<1> QED
  BY <1>2, <1>4, FS_Subset

(* Before the first request nothing is counted.                            *)
LEMMA NothingSums ==
  Sums(NoCounts, Statuses)[Statuses] = 0 /\ Sums(NoCounts, Failures)[Failures] = 0
<1>1. /\ \A s \in Statuses : NoCounts[s] = 0
      /\ \A s \in Failures : NoCounts[s] = 0
  BY StatusesFinite DEF NoCounts
<1> QED
  BY <1>1, StatusesFinite, SumOfNothing, Zenon

(* A step within the handler leaves the counters and what is in flight.     *)
Handles(r) ==
  /\ pc[r] \notin {"new", "done", "lost"} /\ UNCHANGED <<metrics, kind>>
  /\ \E s \in PcValues \ {"new", "done", "lost"} : pc' = [pc EXCEPT ![r] = s]

(* A step of a request begins it, ends it or leaves the counters alone.   *)
LEMMA RequestHandles ==
  ASSUME ApiInv, NEW r \in Requests, Begin(r) \/ Progress(r) \/ DatabaseReplies(r)
  PROVE  Begin(r) \/ Finish(r) \/ Handles(r)
<1> USE DEF PcValues
<1>1. ASSUME Refuse(r) PROVE Handles(r)
  BY <1>1 DEF Refuse, Handles
<1>2. ASSUME (EnterAnswer(r) /\ PlaceFree) \/ EnterSearch(r) \/ TakePlace(r)
      PROVE  Handles(r)
  <2>1. /\ LeavesTheRest /\ pc[r] \in {"begun", "place"}
        /\ \E avail \in Int : \E s \in {"respond", "reading", "lock"} : Reaches(r, avail, s)
    BY <1>2, AsksIndex
  <2>2. PICK avail \in Int, s \in {"respond", "reading", "lock"} : Reaches(r, avail, s)
    BY <2>1
  <2> QED
    BY <2>1, <2>2 DEF LeavesTheRest, Reaches, Handles
<1>3. ASSUME EnterAnswer(r), ~PlaceFree PROVE Handles(r)
  <2>1. pc[r] = "begun" /\ pc' = [pc EXCEPT ![r] = "place"] /\ UNCHANGED <<metrics, kind>>
    BY <1>3 DEF EnterAnswer
  <2> QED
    BY <2>1 DEF Handles
<1>4. ASSUME EnterSystem(r) PROVE Handles(r)
  BY <1>4 DEF EnterSystem, Handles
<1>5. ASSUME TakeLock(r) PROVE Handles(r)
  BY <1>5 DEF TakeLock, Respond, Handles
<1>6. ASSUME Build(r) PROVE Handles(r)
  BY <1>6 DEF Build, Respond, Handles
<1>7. ASSUME TimeOut(r) PROVE Handles(r)
  BY <1>7 DEF TimeOut, UnderTimeout, Respond, Handles
<1>8. ASSUME ReadSections(r) PROVE Handles(r)
  BY <1>8 DEF ReadSections, Handles
<1>9. ASSUME DatabaseFails(r) PROVE Handles(r)
  BY <1>9 DEF DatabaseFails, Respond, Handles
<1>10. ASSUME Probe(r) PROVE Handles(r)
  BY <1>10 DEF Probe, Handles
<1> QED
  BY <1>1, <1>2, <1>3, <1>4, <1>5, <1>6, <1>7, <1>8, <1>9, <1>10 DEF Progress, DatabaseReplies

(* Beginning and finishing count a request once each.                      *)
LEMMA BeginCounts ==
  ASSUME ApiInv, CountsInv, NEW r \in Requests, Begin(r)
  PROVE  CountsInv'
<1>0. RequestType
  BY TypeParts DEF ApiInv
<1>1. InFlight' = IF Counted(r) THEN InFlight \union {r} ELSE InFlight
  BY <1>0 DEF Begin, InFlight, Counted, RequestType
<1>2. r \notin InFlight
  BY DEF Begin, InFlight
<1>3. Cardinality(InFlight') = IF Counted(r) THEN Cardinality(InFlight) + 1 ELSE Cardinality(InFlight)
  BY <1>1, <1>2, InFlightFinite, FS_AddElement
<1> QED
  BY <1>3 DEF Begin, CountsInv

(* The end of a request is counted, once.                                 *)
LEMMA FinishCounts ==
  ASSUME ApiInv, CountsInv, NEW r \in Requests, Finish(r)
  PROVE  CountsInv'
<1>0. RequestType /\ OtherType /\ pc[r] = "respond" /\ pc' = [pc EXCEPT ![r] = "done"] /\ kind' = kind
  BY TypeParts DEF ApiInv, Finish
<1>1. InFlight' = InFlight \ {r}
  BY <1>0 DEF InFlight, Counted, RequestType
<1>2. CASE ~Counted(r)
  <2>1. r \notin InFlight
    BY <1>2 DEF InFlight
  <2>2. InFlight' = InFlight
    BY <1>1, <2>1
  <2> QED
    BY <1>2, <2>2 DEF Finish, Recorded, metrics, CountsInv
<1>3. CASE Counted(r)
  <2>1. r \in InFlight
    BY <1>0, <1>3 DEF InFlight
  <2>2. Cardinality(InFlight') = Cardinality(InFlight) - 1 /\ Cardinality(InFlight') \in Nat
    BY <1>1, <2>1, InFlightFinite, FS_RemoveElement, FS_CardinalityType
  <2>3. inFlight' = Cardinality(InFlight')
    BY <1>3, <2>2, InFlightFinite DEF Finish, Recorded, CountsInv
  <2>4. /\ counts' = [counts EXCEPT ![status[r]] = @ + 1] /\ total' = total + 1
        /\ failed' = IF IsFailure(status[r]) THEN failed + 1 ELSE failed
    BY <1>3 DEF Finish, Recorded
  <2>5. status[r] \in Statuses /\ counts \in [Statuses -> Nat]
    BY <1>0 DEF RequestType, OtherType
  <2>6. IsFailure(status[r]) <=> status[r] \in Failures
    BY <2>5 DEF IsFailure, Statuses, Failures
  <2>7. PICK h : h = counts'
    OBVIOUS
  <2>8. PICK c, e : c = counts /\ e = status[r]
    OBVIOUS
  <2>9. h = [c EXCEPT ![e] = @ + 1] /\ c \in [Statuses -> Nat] /\ e \in Statuses
    BY <2>4, <2>5, <2>7, <2>8
  <2>10. /\ Sums(c, Statuses)[Statuses] \in Nat
         /\ Sums(h, Statuses)[Statuses] =
              Sums(c, Statuses)[Statuses] + IF e \in Statuses THEN 1 ELSE 0
         /\ Sums(c, Failures)[Failures] \in Nat
         /\ Sums(h, Failures)[Failures] =
              Sums(c, Failures)[Failures] + IF e \in Failures THEN 1 ELSE 0
    <3>1. /\ Statuses \in SUBSET Statuses /\ IsFiniteSet(Statuses)
          /\ Failures \in SUBSET Statuses /\ IsFiniteSet(Failures)
      BY StatusesFinite, Zenon
    <3>2. ASSUME NEW S \in SUBSET Statuses, IsFiniteSet(S)
          PROVE  /\ Sums(c, S)[S] \in Nat
                 /\ Sums(h, S)[S] = Sums(c, S)[S] + IF e \in S THEN 1 ELSE 0
      <4>1. \A x \in S : c[x] \in Nat /\ h[x] = c[x] + IF x = e THEN 1 ELSE 0
        BY <2>9
      <4> QED
        BY <3>2, <4>1, SumOfOneMore
    <3> QED
      BY <3>1, <3>2, Zenon
  <2>11. total' = Sums(h, Statuses)[Statuses] /\ failed' = Sums(h, Failures)[Failures]
    BY <2>4, <2>6, <2>8, <2>9, <2>10 DEF CountsInv
  <2>12. total' = Sums(counts', Statuses)[Statuses] /\ failed' = Sums(counts', Failures)[Failures]
    BY <2>7, <2>11, Zenon
  <2> QED
    BY <2>3, <2>12 DEF CountsInv, Sums, Adds
<1> QED
  BY <1>2, <1>3

(* Every step keeps the counters in agreement with the requests.           *)
LEMMA CountsStep == ApiInv /\ CountsInv /\ [Next]_vars => CountsInv'
<1> SUFFICES ASSUME ApiInv, CountsInv, [Next]_vars
             PROVE  CountsInv'
  OBVIOUS
<1>0. RequestType
  BY TypeParts DEF ApiInv
<1>1. ASSUME UNCHANGED metrics, InFlight' = InFlight
      PROVE  CountsInv'
  BY <1>1 DEF metrics, CountsInv, Sums, Adds
<1>2. ASSUME NEW r \in Requests, Begin(r) \/ Progress(r) \/ DatabaseReplies(r)
      PROVE  CountsInv'
  <2>1. CASE Handles(r)
    <3>1. InFlight' = InFlight
      BY <1>0, <2>1 DEF Handles, InFlight, Counted, RequestType
    <3> QED
      BY <1>1, <2>1, <3>1 DEF Handles
  <2> QED
    BY <1>2, <2>1, RequestHandles, BeginCounts, FinishCounts
<1>3. CASE Restart
  <2>1. InFlight' = {}
    BY <1>0, <1>3 DEF Restart, InFlight, RequestType
  <2>2. inFlight' = 0 /\ total' = 0 /\ failed' = 0 /\ counts' = NoCounts
    BY <1>3 DEF Restart
  <2>3. Cardinality(InFlight') = 0
    BY <2>1, FS_EmptySet
  <2> QED
    BY <2>2, <2>3, NothingSums DEF CountsInv, Sums, Adds
<1>4. ASSUME NEW d \in Documents, Publish(d)
      PROVE  CountsInv'
  <2>1. UNCHANGED <<metrics, pc, kind>>
    BY <1>4 DEF Publish, request
  <2>2. InFlight' = InFlight
    BY <2>1 DEF InFlight, Counted
  <2> QED
    BY <1>1, <2>1, <2>2
<1>5. CASE UNCHANGED vars
  <2>1. UNCHANGED <<metrics, pc, kind>>
    BY <1>5 DEF vars, request
  <2>2. InFlight' = InFlight
    BY <2>1 DEF InFlight, Counted
  <2> QED
    BY <1>1, <2>1, <2>2
<1> QED
  BY <1>2, <1>3, <1>4, <1>5 DEF Next

(* At the start nothing is counted.                                       *)
LEMMA CountsStart == Init => CountsInv
<1> SUFFICES ASSUME Init PROVE CountsInv
  OBVIOUS
<1>1. InFlight = {}
  BY DEF Init, InFlight
<1>2. inFlight = 0 /\ total = 0 /\ failed = 0 /\ counts = NoCounts
  BY DEF Init
<1>3. Cardinality(InFlight) = 0
  BY <1>1, FS_EmptySet
<1> QED
  BY <1>2, <1>3, NothingSums DEF CountsInv

(* For any number of requests, however they end and however often the      *)
(* process restarts, the gauge of /metrics is the number of requests under *)
(* way, and the totals are the sums over the statuses.                     *)
THEOREM CountersAgree == Spec => []MetricsAddUp
<1>1. CountsInv => MetricsAddUp
  <2>1. /\ MapThenSumSet(LAMBDA s : counts[s], Statuses) = Sums(counts, Statuses)[Statuses]
        /\ MapThenSumSet(LAMBDA s : counts[s], Failures) = Sums(counts, Failures)[Failures]
    BY SumIsSums, Zenon
  <2> QED
    BY <2>1, Zenon DEF CountsInv, MetricsAddUp, InFlight
<1>2. ApiInv /\ CountsInv /\ [Next]_vars => ApiInv' /\ CountsInv'
  BY ApiStep, CountsStep
<1> QED
  BY <1>1, <1>2, ApiStarts, CountsStart, PTL DEF Spec
=============================================================================
