--------------------------- MODULE PipelineProofs ---------------------------
(***************************************************************************)
(* Proofs about Pipeline for every set of processes, payloads and batches: *)
(* what its committed tables keep, that it implements Publication, and     *)
(* what the schedule lock and run()'s answers guarantee.                   *)
(***************************************************************************)
EXTENDS Pipeline, TLAPS

USE DEF Stages, InsertStages, LookupStages

(* Conversions of the process-local part of TypeOK, used by every action. *)
LocalTypeOK ==
  /\ pc \in [Procs -> Stages]
  /\ got \in [Procs -> Payloads \union {NoPayload}]
  /\ \A p \in Procs : pc[p] \notin {"idle", "fetch", "release"} => got[p] \in Payloads
  /\ gotAt \in [Procs -> Nat]
  /\ missed \in [Procs -> BOOLEAN]
  /\ pend \in [Procs -> SUBSET Keys]
  /\ gate \in [Procs -> SUBSET Waivable]
  /\ outcome \in [Procs -> Outcomes]

ClockTypeOK ==
  /\ stamp \in [Procs \union Batches -> Nat]
  /\ latest \in Nat
  /\ \A x \in Procs \union Batches : stamp[x] <= latest
  /\ \A x, y \in Procs \union Batches : x # y /\ stamp[x] # 0 => stamp[x] # stamp[y]

DbTypeOK ==
  /\ rows \subseteq Keys
  /\ silverStatus \in [Batches -> {"none", "validated", "rejected"}]
  /\ retrievedAt \in [Batches -> Nat]
  /\ runs \subseteq RunRecords
  /\ incidents \subseteq Payloads \X Checks

EnvTypeOK ==
  /\ feed \in Feeds
  /\ revision \in 1..Len(feed)
  /\ waivers \subseteq Waivable
  /\ lockHolder \in Workers \union {NoProc}
  /\ faults \in 0..MaxFaults

(* TypeOK in four parts, so that a step need only mention those it touches. *)
LEMMA TypeParts == TypeOK <=> EnvTypeOK /\ DbTypeOK /\ ClockTypeOK /\ LocalTypeOK
BY DEF TypeOK, EnvTypeOK, DbTypeOK, ClockTypeOK, LocalTypeOK

(* The same of the next state.                                             *)
LEMMA TypePartsPrimed ==
  TypeOK' <=> EnvTypeOK' /\ DbTypeOK' /\ ClockTypeOK' /\ LocalTypeOK'
BY DEF TypeOK, EnvTypeOK, DbTypeOK, ClockTypeOK, LocalTypeOK

(* The types of a process's own variables after a step that moves it to s. *)
LEMMA LocalTypeKept ==
  ASSUME LocalTypeOK, NEW p \in Procs, NEW s \in Stages,
         pc' = [pc EXCEPT ![p] = s],
         got' \in [Procs -> Payloads \union {NoPayload}],
         \A q \in Procs \ {p} : got'[q] = got[q],
         s \in {"idle", "fetch", "release"} \/ got'[p] \in Payloads,
         gotAt' \in [Procs -> Nat], missed' \in [Procs -> BOOLEAN],
         pend' \in [Procs -> SUBSET Keys], gate' \in [Procs -> SUBSET Waivable],
         outcome' \in [Procs -> Outcomes]
  PROVE  LocalTypeOK'
<1>1. pc \in [Procs -> Stages]
  BY DEF LocalTypeOK
<1>2. pc' \in [Procs -> Stages] /\ pc'[p] = s /\ \A q \in Procs \ {p} : pc'[q] = pc[q]
  <2>. HIDE DEF Stages, InsertStages, LookupStages
  <2>. QED BY <1>1
<1>3. \A q \in Procs : pc'[q] \notin {"idle", "fetch", "release"} => got'[q] \in Payloads
  <2>. SUFFICES ASSUME NEW q \in Procs, pc'[q] \notin {"idle", "fetch", "release"}
                PROVE  got'[q] \in Payloads
    OBVIOUS
  <2>1. CASE q = p
    BY <1>2, <2>1
  <2>2. CASE q # p
    BY <1>2, <2>2 DEF LocalTypeOK
  <2>. QED BY <2>1, <2>2
<1>. QED BY <1>2, <1>3 DEF LocalTypeOK

(* Forgetting a timestamp keeps the ranks distinct and within latest.      *)
LEMMA ForgetStampType ==
  ASSUME ClockTypeOK, NEW p \in Procs, ForgetStamp(p)
  PROVE  ClockTypeOK'
<1>1. CASE stamp[p] = 0
  BY <1>1 DEF ClockTypeOK, ForgetStamp, clock
<1>2. CASE stamp[p] # 0
  <2>. DEFINE Stamped == Procs \union Batches
              f == [x \in Stamped |->
                      IF x = p THEN 0
                      ELSE IF stamp[x] > stamp[p] THEN stamp[x] - 1 ELSE stamp[x]]
  <2>1. stamp' = f /\ latest' = latest - 1
    BY <1>2 DEF ClockTypeOK, ForgetStamp
  <2>2. stamp[p] \in Nat /\ stamp[p] <= latest /\ latest \in Nat /\ latest - 1 \in Nat
    BY <1>2 DEF ClockTypeOK
  <2>3. ASSUME NEW x \in Stamped
        PROVE  f[x] \in Nat /\ f[x] <= latest - 1
    <3>1. stamp[x] \in Nat /\ stamp[x] <= latest /\ (x # p => stamp[x] # stamp[p])
      BY <1>2 DEF ClockTypeOK
    <3>2. CASE x = p
      BY <2>2, <3>2
    <3>3. CASE x # p /\ stamp[x] > stamp[p]
      BY <2>2, <3>1, <3>3
    <3>4. CASE x # p /\ ~(stamp[x] > stamp[p])
      BY <1>2, <2>2, <3>1, <3>4
    <3>. QED BY <3>2, <3>3, <3>4
  <2>4. ASSUME NEW x \in Stamped, NEW y \in Stamped, x # y, f[x] # 0
        PROVE  f[x] # f[y]
    <3>1. /\ stamp[x] \in Nat /\ stamp[y] \in Nat /\ stamp[p] \in Nat
          /\ stamp[x] # 0 => stamp[x] # stamp[y]
          /\ y # p => stamp[y] # stamp[p]
          /\ x # p => stamp[x] # stamp[p]
      BY <1>2, <2>4 DEF ClockTypeOK
    <3>2. x # p /\ stamp[x] # 0
      BY <1>2, <2>4, <3>1
    <3>3. CASE y = p
      BY <2>4, <3>3
    <3>4. CASE y # p
      BY <3>1, <3>2, <3>4
    <3>. QED BY <3>3, <3>4
  <2>. QED BY <2>1, <2>2, <2>3, <2>4 DEF ClockTypeOK
<1>. QED BY <1>1, <1>2

(* The end of a run keeps the types of the processes' own variables.       *)
LEMMA EndRunType ==
  ASSUME LocalTypeOK, NEW p \in Procs, NEW result \in Outcomes, EndRun(p, result)
  PROVE  LocalTypeOK'
BY DEF LocalTypeOK, EndRun, GoTo, Closed

(* At a stage that looks up or inserts, KeyAt is one of the unique keys.   *)
LEMMA KeyAtType ==
  ASSUME ConstantsAssumption, LocalTypeOK, NEW p \in Procs, pc[p] \in InsertStages
  PROVE  /\ KeyAt(p) \in Keys
         /\ NextStage(p) \in {"bronze", "commit bronze", "gate", "quarantine", "gold",
                              "bronze edge", "gold edge", "commit run"}
<1>1. got[p] \in Payloads /\ Batch(p) \in Batches
  BY DEF LocalTypeOK, Batch, ConstantsAssumption
<1>2. AfterSilver(p) \in {"gold", "commit run"}
  BY DEF AfterSilver
<1>3. KeyAt(p) \in Keys
  BY <1>1 DEF KeyAt, Keys
<1>. QED BY <1>2, <1>3 DEF NextStage

(* A failing run keeps every type.                                         *)
LEMMA FailType ==
  ASSUME TypeOK, NEW p \in Procs, Fail(p)
  PROVE  TypeOK'
<1>1. EnvTypeOK /\ DbTypeOK /\ ClockTypeOK /\ LocalTypeOK
  BY TypeParts
<1>2. LocalTypeOK'
  BY <1>1, EndRunType DEF Fail, Outcomes
<1>3. ClockTypeOK'
  BY <1>1, ForgetStampType DEF Fail
<1>4. EnvTypeOK' /\ DbTypeOK'
  BY <1>1 DEF Fail, EnvTypeOK, DbTypeOK, env, db
<1>. QED BY <1>2, <1>3, <1>4, TypePartsPrimed

(* Type correctness is inductive: the ranks of processed_at stay distinct. *)
LEMMA InitType == ASSUME ConstantsAssumption, Init PROVE TypeOK
<1>1. Len(feed) \in Nat /\ Len(feed) > 0
  BY DEF Init, ConstantsAssumption
<1>2. EnvTypeOK
  BY <1>1 DEF Init, EnvTypeOK, ConstantsAssumption
<1>3. DbTypeOK /\ ClockTypeOK
  BY DEF Init, DbTypeOK, ClockTypeOK
<1>4. LocalTypeOK
  BY DEF Init, LocalTypeOK, Outcomes
<1>. QED BY <1>2, <1>3, <1>4, TypeParts

(* Taking the schedule lock, skipping and starting keep every type.        *)
LEMMA AttemptType ==
  ASSUME ConstantsAssumption, TypeOK, NEW p \in Procs, Attempt(p) \/ StartCli(p)
  PROVE  TypeOK'
<1>. USE DEF env, db, clock
<1>1. EnvTypeOK /\ DbTypeOK /\ ClockTypeOK /\ LocalTypeOK
  BY TypeParts
<1>2. CASE Acquire(p)
  <2>1. LocalTypeOK'
    BY <1>1, <1>2 DEF Acquire, LocalTypeOK, GoTo
  <2>2. EnvTypeOK' /\ DbTypeOK' /\ ClockTypeOK'
    BY <1>1, <1>2 DEF Acquire, EnvTypeOK, DbTypeOK, ClockTypeOK
  <2>. QED BY <2>1, <2>2, TypePartsPrimed
<1>3. CASE Skip(p)
  <2>1. LocalTypeOK'
    BY <1>1, <1>3, EndRunType DEF Skip, Outcomes
  <2>2. EnvTypeOK' /\ DbTypeOK' /\ ClockTypeOK'
    BY <1>1, <1>3 DEF Skip, EnvTypeOK, DbTypeOK, ClockTypeOK
  <2>. QED BY <2>1, <2>2, TypePartsPrimed
<1>4. CASE StartCli(p)
  <2>1. LocalTypeOK'
    BY <1>1, <1>4 DEF StartCli, LocalTypeOK, GoTo
  <2>2. EnvTypeOK' /\ DbTypeOK' /\ ClockTypeOK'
    BY <1>1, <1>4 DEF StartCli, EnvTypeOK, DbTypeOK, ClockTypeOK
  <2>. QED BY <2>1, <2>2, TypePartsPrimed
<1>. QED BY <1>2, <1>3, <1>4 DEF Attempt

(* Fetching, or failing to, keeps every type.                              *)
LEMMA FetchType ==
  ASSUME ConstantsAssumption, TypeOK, NEW p \in Procs,
         Fetch(p) \/ FetchFixture(p) \/ FetchFails(p)
  PROVE  TypeOK'
<1>. USE DEF env, db, clock
<1>1. EnvTypeOK /\ DbTypeOK /\ ClockTypeOK /\ LocalTypeOK
  BY TypeParts
<1>2. ASSUME NEW pl \in Payloads, Retrieve(p, pl) PROVE TypeOK'
  <2>1. revision \in Nat
    BY <1>1 DEF EnvTypeOK, ConstantsAssumption
  <2>2. LocalTypeOK'
    BY <1>1, <1>2, <2>1 DEF Retrieve, LocalTypeOK, GoTo
  <2>3. EnvTypeOK' /\ DbTypeOK' /\ ClockTypeOK'
    BY <1>1, <1>2 DEF Retrieve, EnvTypeOK, DbTypeOK, ClockTypeOK
  <2>. QED BY <2>2, <2>3, TypePartsPrimed
<1>3. feed[revision] \in Payloads
  BY <1>1 DEF EnvTypeOK, ConstantsAssumption
<1>4. CASE FetchFails(p)
  <2>1. LocalTypeOK'
    BY <1>1, <1>4, EndRunType DEF FetchFails, Outcomes
  <2>2. EnvTypeOK' /\ DbTypeOK' /\ ClockTypeOK'
    BY <1>1, <1>4 DEF FetchFails, EnvTypeOK, DbTypeOK, ClockTypeOK, ConstantsAssumption
  <2>. QED BY <2>1, <2>2, TypePartsPrimed
<1>. QED BY <1>2, <1>3, <1>4 DEF Fetch, FetchFixture, ConstantsAssumption

(* Looking a key up, inserting it or losing it keeps every type.           *)
LEMMA KeyStepType ==
  ASSUME ConstantsAssumption, TypeOK, NEW p \in Procs,
         Find(p) \/ Insert(p) \/ Conflict(p) \/ CommitBronze(p)
  PROVE  TypeOK'
<1>. USE DEF env, db, clock
<1>1. EnvTypeOK /\ DbTypeOK /\ ClockTypeOK /\ LocalTypeOK
  BY TypeParts
<1>2. CASE Find(p)
  <2>1. LocalTypeOK'
    <3>1. NextStage(p) \in Stages \ {"idle", "fetch", "release"}
      BY <1>1, <1>2, KeyAtType DEF Find
    <3>2. CASE KeyAt(p) \in Visible(p)
      <4>1. /\ pc' = [pc EXCEPT ![p] = NextStage(p)]
            /\ UNCHANGED <<got, gotAt, missed, pend, gate, outcome>>
        BY <1>2, <3>2 DEF Find, GoTo
      <4>2. got[p] \in Payloads
        BY <1>1, <1>2 DEF Find, LocalTypeOK
      <4>3. /\ got \in [Procs -> Payloads \union {NoPayload}]
            /\ gotAt \in [Procs -> Nat] /\ missed \in [Procs -> BOOLEAN]
            /\ pend \in [Procs -> SUBSET Keys] /\ gate \in [Procs -> SUBSET Waivable]
            /\ outcome \in [Procs -> Outcomes]
        BY <1>1 DEF LocalTypeOK
      <4>. HIDE DEF Stages, InsertStages, LookupStages
      <4>. QED BY <1>1, <3>1, <4>1, <4>2, <4>3, LocalTypeKept
    <3>3. CASE KeyAt(p) \notin Visible(p)
      <4>1. missed' = [missed EXCEPT ![p] = TRUE] /\ UNCHANGED <<pc, got, gotAt, pend, gate, outcome>>
        BY <1>2, <3>3 DEF Find
      <4>. HIDE DEF Stages, InsertStages, LookupStages
      <4>2. missed' \in [Procs -> BOOLEAN]
        BY <1>1, <4>1 DEF LocalTypeOK
      <4>. QED BY <1>1, <4>1, <4>2 DEF LocalTypeOK
    <3>. QED BY <3>2, <3>3
  <2>2. EnvTypeOK' /\ DbTypeOK' /\ ClockTypeOK'
    BY <1>1, <1>2 DEF Find, EnvTypeOK, DbTypeOK, ClockTypeOK
  <2>. QED BY <2>1, <2>2, TypePartsPrimed
<1>3. CASE Insert(p)
  <2>1. LocalTypeOK'
    <3>1. NextStage(p) \in Stages \ {"idle", "fetch", "release"} /\ KeyAt(p) \in Keys
      BY <1>1, <1>3, KeyAtType DEF Insert, MustInsert
    <3>2. got[p] \in Payloads
      BY <1>1, <1>3 DEF Insert, MustInsert, LocalTypeOK
    <3>3. /\ pc' = [pc EXCEPT ![p] = NextStage(p)]
          /\ pend' = [pend EXCEPT ![p] = @ \union {KeyAt(p)}]
          /\ missed' = [missed EXCEPT ![p] = FALSE]
          /\ UNCHANGED <<got, gotAt, gate, outcome>>
      BY <1>3 DEF Insert, GoTo
    <3>4. /\ got \in [Procs -> Payloads \union {NoPayload}]
          /\ gotAt \in [Procs -> Nat] /\ missed \in [Procs -> BOOLEAN]
          /\ pend \in [Procs -> SUBSET Keys] /\ gate \in [Procs -> SUBSET Waivable]
          /\ outcome \in [Procs -> Outcomes]
      BY <1>1 DEF LocalTypeOK
    <3>. HIDE DEF Stages, InsertStages, LookupStages
    <3>5. pend' \in [Procs -> SUBSET Keys] /\ missed' \in [Procs -> BOOLEAN]
      BY <3>1, <3>3, <3>4
    <3>. QED BY <1>1, <3>1, <3>2, <3>3, <3>4, <3>5, LocalTypeKept
  <2>2. EnvTypeOK' /\ DbTypeOK' /\ ClockTypeOK'
    BY <1>1, <1>3 DEF Insert, EnvTypeOK, DbTypeOK, ClockTypeOK
  <2>. QED BY <2>1, <2>2, TypePartsPrimed
<1>4. CASE Conflict(p)
  BY <1>4, FailType DEF Conflict
<1>5. CASE CommitBronze(p)
  <2>1. LocalTypeOK'
    BY <1>1, <1>5 DEF CommitBronze, LocalTypeOK, GoTo, Closed
  <2>2. EnvTypeOK' /\ DbTypeOK' /\ ClockTypeOK'
    BY <1>1, <1>5 DEF CommitBronze, EnvTypeOK, DbTypeOK, ClockTypeOK, LocalTypeOK
  <2>. QED BY <2>1, <2>2, TypePartsPrimed
<1>. QED BY <1>2, <1>3, <1>4, <1>5

(* The steps between the two transactions and the gate keep every type.    *)
LEMMA DecideType ==
  ASSUME ConstantsAssumption, TypeOK, NEW p \in Procs,
         Unchanged(p) \/ NotPublished(p) \/ Normalize(p) \/ NormalizeFails(p) \/ Gate(p)
  PROVE  TypeOK'
<1>. USE DEF env, db, clock
<1>1. EnvTypeOK /\ DbTypeOK /\ ClockTypeOK /\ LocalTypeOK
  BY TypeParts
<1>2. CASE Unchanged(p)
  <2>1. LocalTypeOK'
    BY <1>1, <1>2, EndRunType DEF Unchanged, Outcomes
  <2>2. EnvTypeOK' /\ DbTypeOK' /\ ClockTypeOK'
    BY <1>1, <1>2 DEF Unchanged, EnvTypeOK, DbTypeOK, ClockTypeOK
  <2>. QED BY <2>1, <2>2, TypePartsPrimed
<1>3. CASE NotPublished(p)
  <2>1. LocalTypeOK'
    BY <1>1, <1>3 DEF NotPublished, LocalTypeOK, GoTo
  <2>2. EnvTypeOK' /\ DbTypeOK' /\ ClockTypeOK'
    BY <1>1, <1>3 DEF NotPublished, EnvTypeOK, DbTypeOK, ClockTypeOK
  <2>. QED BY <2>1, <2>2, TypePartsPrimed
<1>4. CASE Normalize(p)
  <2>1. LocalTypeOK'
    BY <1>1, <1>4 DEF Normalize, LocalTypeOK, GoTo
  <2>2. EnvTypeOK' /\ DbTypeOK'
    BY <1>1, <1>4 DEF Normalize, EnvTypeOK, DbTypeOK
  <2>3. ClockTypeOK'
    BY <1>1, <1>4 DEF Normalize, ClockTypeOK
  <2>. QED BY <2>1, <2>2, <2>3, TypePartsPrimed
<1>5. CASE NormalizeFails(p)
  BY <1>5, FailType DEF NormalizeFails
<1>6. CASE Gate(p)
  <2>1. LocalTypeOK'
    BY <1>1, <1>6 DEF Gate, LocalTypeOK, EnvTypeOK, GoTo
  <2>2. EnvTypeOK' /\ DbTypeOK' /\ ClockTypeOK'
    BY <1>1, <1>6 DEF Gate, EnvTypeOK, DbTypeOK, ClockTypeOK
  <2>. QED BY <2>1, <2>2, TypePartsPrimed
<1>. QED BY <1>2, <1>3, <1>4, <1>5, <1>6

(* The publishing commit keeps every type, new timestamp ranks included.   *)
LEMMA CommitRunType ==
  ASSUME ConstantsAssumption, TypeOK, NEW p \in Procs, CommitRun(p)
  PROVE  TypeOK'
<1>. USE DEF env, db, clock
<1>1. EnvTypeOK /\ DbTypeOK /\ ClockTypeOK /\ LocalTypeOK
  BY TypeParts
<1>2. got[p] \in Payloads /\ Batch(p) \in Batches
  BY <1>1 DEF CommitRun, LocalTypeOK, Batch, ConstantsAssumption
<1>3. LocalTypeOK'
  BY <1>1, EndRunType DEF CommitRun, Outcomes
<1>4. ClockTypeOK'
  <2>1. CASE CreatesGold(p)
    <3>1. Batch(p) # p /\ Batch(p) \in Procs \union Batches /\ p \in Procs \union Batches
      BY <1>2 DEF ConstantsAssumption
    <3>2. /\ stamp' = [stamp EXCEPT ![Batch(p)] = stamp[p], ![p] = 0]
          /\ latest' = latest
      BY <2>1 DEF CommitRun
    <3>3. \A x \in Procs \union Batches :
            stamp'[x] = IF x = p THEN 0 ELSE IF x = Batch(p) THEN stamp[p] ELSE stamp[x]
      BY <1>1, <3>1, <3>2 DEF ClockTypeOK
    <3>4. stamp' \in [Procs \union Batches -> Nat]
      BY <1>1, <3>1, <3>2 DEF ClockTypeOK
    <3>5. \A x \in Procs \union Batches : stamp'[x] <= latest'
      BY <1>1, <3>1, <3>2, <3>3 DEF ClockTypeOK
    <3>6. ASSUME NEW x \in Procs \union Batches, NEW y \in Procs \union Batches,
                 x # y, stamp'[x] # 0
          PROVE  stamp'[x] # stamp'[y]
      BY <1>1, <3>1, <3>3, <3>6 DEF ClockTypeOK
    <3>. QED BY <1>1, <3>2, <3>4, <3>5, <3>6 DEF ClockTypeOK
  <2>2. CASE ~CreatesGold(p)
    BY <1>1, <2>2, ForgetStampType DEF CommitRun
  <2>. QED BY <2>1, <2>2
<1>5. EnvTypeOK'
  BY <1>1 DEF CommitRun, EnvTypeOK
<1>6. DbTypeOK'
  <2>1. Failing(got[p]) \subseteq Checks
    BY <1>2 DEF Failing, Batch, ConstantsAssumption
  <2>2. RunRecord(p) \in RunRecords
    <3>1. /\ got[p] \in Payloads /\ Failing(got[p]) \intersect gate[p] \in SUBSET Checks
          /\ Unwaived(p) \in SUBSET Checks
      BY <1>2, <2>1 DEF Unwaived
    <3>. QED BY <3>1 DEF RunRecord, RunRecords
  <2>3. {<<got[p], c>> : c \in Unwaived(p)} \subseteq Payloads \X Checks
    BY <1>2, <2>1 DEF Unwaived
  <2>4. rows' \subseteq Keys
    <3>1. pend[p] \subseteq Keys /\ rows \subseteq Keys
      BY <1>1 DEF DbTypeOK, LocalTypeOK
    <3>2. rows' = rows \union pend[p]
      BY DEF CommitRun
    <3>. QED BY <3>1, <3>2
  <2>5. silverStatus' \in [Batches -> {"none", "validated", "rejected"}]
    BY <1>1 DEF CommitRun, DbTypeOK, SilverStatusOf
  <2>6. retrievedAt' \in [Batches -> Nat]
    <3>1. retrievedAt \in [Batches -> Nat] /\ gotAt[p] \in Nat
      BY <1>1 DEF DbTypeOK, LocalTypeOK
    <3>2. retrievedAt' = [retrievedAt EXCEPT ![Batch(p)] = gotAt[p]] \/ retrievedAt' = retrievedAt
      BY DEF CommitRun
    <3>. QED BY <3>1, <3>2
  <2>. QED BY <1>1, <2>2, <2>3, <2>4, <2>5, <2>6 DEF CommitRun, DbTypeOK
<1>. QED BY <1>3, <1>4, <1>5, <1>6, TypePartsPrimed

(* Release, crash and the loss of the lock keep every type.                *)
LEMMA EndsType ==
  ASSUME ConstantsAssumption, TypeOK, NEW p \in Procs, Release(p) \/ Crash(p) \/ LoseLock(p)
  PROVE  TypeOK'
<1>. USE DEF env, db, clock
<1>1. EnvTypeOK /\ DbTypeOK /\ ClockTypeOK /\ LocalTypeOK
  BY TypeParts
<1>2. CASE Release(p)
  <2>1. LocalTypeOK'
    <3>1. /\ pc' = [pc EXCEPT ![p] = "idle"]
          /\ got' = [got EXCEPT ![p] = NoPayload] /\ gotAt' = [gotAt EXCEPT ![p] = 0]
          /\ gate' = [gate EXCEPT ![p] = {}] /\ outcome' = [outcome EXCEPT ![p] = "none"]
          /\ UNCHANGED <<missed, pend>>
      BY <1>2 DEF Release, GoTo
    <3>2. /\ got' \in [Procs -> Payloads \union {NoPayload}]
          /\ \A q \in Procs \ {p} : got'[q] = got[q]
      BY <1>1, <3>1 DEF LocalTypeOK
    <3>3. /\ gotAt' \in [Procs -> Nat] /\ missed' \in [Procs -> BOOLEAN]
          /\ pend' \in [Procs -> SUBSET Keys] /\ gate' \in [Procs -> SUBSET Waivable]
          /\ outcome' \in [Procs -> Outcomes]
      BY <1>1, <3>1 DEF LocalTypeOK, Outcomes
    <3>4. "idle" \in Stages
      OBVIOUS
    <3>. HIDE DEF Stages, InsertStages, LookupStages
    <3>. QED BY <1>1, <3>1, <3>2, <3>3, <3>4, LocalTypeKept
  <2>2. EnvTypeOK' /\ DbTypeOK' /\ ClockTypeOK'
    BY <1>1, <1>2 DEF Release, EnvTypeOK, DbTypeOK, ClockTypeOK, Unlocked
  <2>. QED BY <2>1, <2>2, TypePartsPrimed
<1>3. CASE Crash(p)
  <2>1. LocalTypeOK'
    BY <1>1, <1>3 DEF Crash, LocalTypeOK, GoTo, Outcomes, Closed
  <2>2. EnvTypeOK' /\ DbTypeOK'
    BY <1>1, <1>3 DEF Crash, EnvTypeOK, DbTypeOK, Unlocked, ConstantsAssumption
  <2>3. ClockTypeOK'
    BY <1>1, <1>3, ForgetStampType DEF Crash
  <2>. QED BY <2>1, <2>2, <2>3, TypePartsPrimed
<1>4. CASE LoseLock(p)
  <2>1. LocalTypeOK'
    BY <1>1, <1>4 DEF LoseLock, local, LocalTypeOK
  <2>2. EnvTypeOK'
    BY <1>1, <1>4 DEF LoseLock, EnvTypeOK, ConstantsAssumption
  <2>3. DbTypeOK' /\ ClockTypeOK'
    BY <1>1, <1>4 DEF LoseLock, DbTypeOK, ClockTypeOK
  <2>. QED BY <2>1, <2>2, <2>3, TypePartsPrimed
<1>. QED BY <1>2, <1>3, <1>4

(* Steps of the source and of the exceptions keep every type.              *)
LEMMA SourceType ==
  ASSUME ConstantsAssumption, TypeOK,
         Revise \/ \E c \in Checks : GrantException(c) \/ ExceptionExpires(c)
  PROVE  TypeOK'
<1>. USE DEF env, db, clock, local
<1>1. EnvTypeOK /\ DbTypeOK /\ ClockTypeOK /\ LocalTypeOK
  BY TypeParts
<1>2. Len(feed) \in Nat
  BY <1>1 DEF EnvTypeOK, ConstantsAssumption
<1>3. EnvTypeOK'
  BY <1>1, <1>2 DEF Revise, GrantException, ExceptionExpires, EnvTypeOK
<1>4. UNCHANGED <<db, clock, local>>
  BY DEF Revise, GrantException, ExceptionExpires
<1>5. DbTypeOK' /\ ClockTypeOK'
  BY <1>1, <1>4 DEF DbTypeOK, ClockTypeOK
<1>6. LocalTypeOK'
  BY <1>1, <1>4 DEF LocalTypeOK
<1>. QED BY <1>3, <1>5, <1>6, TypePartsPrimed

(* A stuttering step keeps every type.                                     *)
LEMMA StutterType == ASSUME TypeOK, UNCHANGED vars PROVE TypeOK'
BY DEF TypeOK, vars, env, db, clock, local

(* Every step keeps every type.                                            *)
LEMMA StepType == ASSUME ConstantsAssumption, TypeOK, [Next]_vars PROVE TypeOK'
BY AttemptType, FetchType, KeyStepType, DecideType, CommitRunType, EndsType, SourceType,
   StutterType
   DEF Next, Progress, Environment

(* Every variable keeps its type, and no two runs or published versions    *)
(* ever share a processed_at rank.                                         *)
THEOREM TypeCorrect == Spec => []TypeOK
<1>1. Init => TypeOK
  BY InitType, ConstantsAssumption
<1>2. TypeOK /\ [Next]_vars => TypeOK'
  BY StepType, ConstantsAssumption
<1>. QED BY <1>1, <1>2, PTL DEF Spec
-----------------------------------------------------------------------------
(* The part of the invariant that is about one process, and its frame.     *)
ProcessInv(p) ==
  HoldsOwnKeys(p) /\ HasWritten(p) /\ pend[p] \intersect rows = {}

USE DEF AfterBronze, SilverDone

(* Steps of other processes leave ProcessInv(q) true as long as what they  *)
(* commit is not held by q.                                                *)
LEMMA OthersKeepProcessInv ==
  ASSUME NEW q \in Procs, ProcessInv(q),
         pc'[q] = pc[q], got'[q] = got[q], gate'[q] = gate[q], pend'[q] = pend[q],
         rows \subseteq rows', pend[q] \intersect rows' = {}
  PROVE  ProcessInv(q)'
<1>1. /\ Batch(q)' = Batch(q)
      /\ Publishable(q)' <=> Publishable(q)
      /\ Publishes(q)' <=> Publishes(q)
      /\ Visible(q) \subseteq Visible(q)'
  BY DEF Batch, Publishable, Unwaived, Failing, Publishes, Visible
<1>2. HoldsOwnKeys(q)'
  BY <1>1 DEF ProcessInv, HoldsOwnKeys
<1>3. HasWritten(q)'
  BY <1>1 DEF ProcessInv, HasWritten
<1>. QED BY <1>2, <1>3 DEF ProcessInv

(* A process that holds nothing and is outside a transaction.              *)
LEMMA OutsideProcessInv ==
  ASSUME NEW p \in Procs, pend'[p] = {},
         pc'[p] \in {"idle", "fetch", "catalog", "release"}
  PROVE  ProcessInv(p)'
BY DEF ProcessInv, HoldsOwnKeys, HasWritten, Publishes

(* The keys of different tables, and of different rows, differ.            *)
LEMMA KeysDiffer ==
  ASSUME NEW pl, NEW ql, NEW b, NEW c
  PROVE  /\ CatalogKey \notin {DimensionsKey, BronzeKey(pl), SilverKey(b), QuarantineKey(b),
                               GoldKey(b), BronzeEdge(pl), GoldEdge(b)}
         /\ DimensionsKey \notin {BronzeKey(pl), SilverKey(b), QuarantineKey(b), GoldKey(b),
                                  BronzeEdge(pl), GoldEdge(b)}
         /\ BronzeKey(pl) \notin {SilverKey(b), QuarantineKey(b), GoldKey(b), BronzeEdge(ql),
                                  GoldEdge(b)}
         /\ GoldKey(b) \notin {SilverKey(c), QuarantineKey(c), BronzeEdge(pl), GoldEdge(c)}
         /\ BronzeEdge(pl) \notin {SilverKey(b), QuarantineKey(b), GoldEdge(b)}
         /\ GoldEdge(b) \notin {SilverKey(c), QuarantineKey(c)}
         /\ BronzeKey(pl) = BronzeKey(ql) => pl = ql
         /\ GoldKey(b) = GoldKey(c) => b = c
         /\ BronzeEdge(pl) = BronzeEdge(ql) => pl = ql
         /\ GoldEdge(b) = GoldEdge(c) => b = c
BY DEF CatalogKey, DimensionsKey, BronzeKey, SilverKey, QuarantineKey, GoldKey, BronzeEdge,
       GoldEdge

(* KeyAt and NextStage, read as a table.                                   *)
LEMMA StageTable ==
  ASSUME NEW p \in Procs
  PROVE  /\ pc[p] = "catalog"     => KeyAt(p) = CatalogKey /\ NextStage(p) = "bronze"
         /\ pc[p] = "bronze"      => KeyAt(p) = BronzeKey(got[p]) /\ NextStage(p) = "commit bronze"
         /\ pc[p] = "dimensions"  => KeyAt(p) = DimensionsKey /\ NextStage(p) = "gate"
         /\ pc[p] = "silver"      =>
              /\ KeyAt(p) = SilverKey(Batch(p))
              /\ NextStage(p) = IF got[p] \in Quarantined THEN "quarantine" ELSE AfterSilver(p)
         /\ pc[p] = "quarantine"  =>
              KeyAt(p) = QuarantineKey(Batch(p)) /\ NextStage(p) = AfterSilver(p)
         /\ pc[p] = "gold"        => KeyAt(p) = GoldKey(Batch(p)) /\ NextStage(p) = "bronze edge"
         /\ pc[p] = "bronze edge" => KeyAt(p) = BronzeEdge(got[p]) /\ NextStage(p) = "gold edge"
         /\ pc[p] = "gold edge"   => KeyAt(p) = GoldEdge(Batch(p)) /\ NextStage(p) = "commit run"
BY DEF KeyAt, NextStage

(* Where a found or inserted key leads.                                    *)
LEMMA WrittenAtNextStage ==
  ASSUME TypeOK, NEW p \in Procs, ProcessInv(p), pc[p] \in InsertStages,
         pc' = [pc EXCEPT ![p] = NextStage(p)],
         UNCHANGED <<got, gate, rows>>,
         \/ pend' = pend /\ KeyAt(p) \in Visible(p) /\ pc[p] \in LookupStages
         \/ pend' = [pend EXCEPT ![p] = @ \union {KeyAt(p)}] /\ KeyAt(p) \notin rows
  PROVE  ProcessInv(p)'
<1>1. /\ Batch(p)' = Batch(p)
      /\ Publishable(p)' <=> Publishable(p)
      /\ got'[p] = got[p]
      /\ rows' = rows
  BY DEF TypeOK, Batch, Publishable, Unwaived, Failing
<1>2. pc'[p] = NextStage(p)
  BY DEF TypeOK
<1>3. /\ pend'[p] \subseteq pend[p] \union {KeyAt(p)}
      /\ pend[p] \subseteq pend'[p]
      /\ pc[p] \in {"bronze edge", "gold edge"} => KeyAt(p) \in pend'[p]
      /\ KeyAt(p) \in rows \union pend'[p]
  <2>1. pend \in [Procs -> SUBSET Keys]
    BY DEF TypeOK
  <2>2. CASE pend' = pend /\ KeyAt(p) \in Visible(p) /\ pc[p] \in LookupStages
    BY <2>2 DEF Visible
  <2>3. CASE pend' = [pend EXCEPT ![p] = @ \union {KeyAt(p)}]
    <3>1. pend'[p] = pend[p] \union {KeyAt(p)}
      BY <2>1, <2>3
    <3>. QED BY <3>1, Zenon
  <2>. QED BY <2>2, <2>3
<1>4. pend'[p] \intersect rows' = {}
  <2>1. pend[p] \intersect rows = {}
    BY DEF ProcessInv
  <2>2. pend'[p] = pend[p] \/ (pend'[p] = pend[p] \union {KeyAt(p)} /\ KeyAt(p) \notin rows)
    <3>1. pend \in [Procs -> SUBSET Keys]
      BY DEF TypeOK
    <3>2. CASE pend' = pend
      BY <3>2
    <3>3. CASE pend' = [pend EXCEPT ![p] = @ \union {KeyAt(p)}] /\ KeyAt(p) \notin rows
      <4>1. pend'[p] = pend[p] \union {KeyAt(p)}
        BY <3>1, <3>3, Zenon
      <4>. QED BY <3>3, <4>1
    <3>. QED BY <3>2, <3>3, Zenon
  <2>. QED BY <1>1, <2>1, <2>2
<1>5. /\ HoldsOwnKeys(p)
      /\ HasWritten(p)
  BY DEF ProcessInv
<1>6. HoldsOwnKeys(p)'
  <2>1. Publishes(p)' <=> pc'[p] = "commit run" /\ Publishable(p)
    BY <1>1 DEF Publishes
  <2>2. ~Publishes(p)
    BY DEF Publishes
  <2>3. pc[p] \in {"gold", "bronze edge", "gold edge"} => Publishable(p)
    BY <1>5 DEF HasWritten
  <2>. USE <1>1, <1>2, <1>3, <1>5, <2>1, <2>2, <2>3, StageTable DEF HoldsOwnKeys
  <2>4. CASE pc[p] = "catalog"
    BY <2>4
  <2>5. CASE pc[p] = "bronze"
    BY <2>5
  <2>6. CASE pc[p] = "dimensions"
    BY <2>6
  <2>7. CASE pc[p] = "silver"
    BY <2>7 DEF AfterSilver
  <2>8. CASE pc[p] = "quarantine"
    BY <2>8 DEF AfterSilver
  <2>9. CASE pc[p] = "gold"
    BY <2>9
  <2>10. CASE pc[p] = "bronze edge"
    BY <2>10
  <2>11. CASE pc[p] = "gold edge"
    BY <2>11
  <2>. QED BY <2>4, <2>5, <2>6, <2>7, <2>8, <2>9, <2>10, <2>11
<1>7. HasWritten(p)'
  <2>1. Visible(p)' = rows \union pend'[p] /\ Visible(p) = rows \union pend[p]
    BY <1>1 DEF Visible
  <2>2. Publishes(p)' <=> pc'[p] = "commit run" /\ Publishable(p)
    BY <1>1 DEF Publishes
  <2>3. ~Publishes(p)
    BY DEF Publishes
  <2>. USE <1>1, <1>2, <1>3, <1>5, <2>1, <2>2, <2>3, StageTable DEF HasWritten
  <2>4. CASE pc[p] = "catalog"
    BY <2>4
  <2>5. CASE pc[p] = "bronze"
    BY <2>5
  <2>6. CASE pc[p] = "dimensions"
    BY <2>6
  <2>7. CASE pc[p] = "silver"
    BY <2>7 DEF AfterSilver
  <2>8. CASE pc[p] = "quarantine"
    BY <2>8 DEF AfterSilver
  <2>9. CASE pc[p] = "gold"
    BY <2>9
  <2>10. CASE pc[p] = "bronze edge"
    BY <2>10
  <2>11. CASE pc[p] = "gold edge"
    BY <2>11
  <2>. QED BY <2>4, <2>5, <2>6, <2>7, <2>8, <2>9, <2>10, <2>11
<1>. QED BY <1>4, <1>6, <1>7 DEF ProcessInv

Disjoint == \A p, q \in Procs : p # q => pend[p] \intersect pend[q] = {}
Recorded == \A r \in runs : r.status = "succeeded" => GoldEdge(BatchOf[r.payload]) \in rows

DbInv ==
  PublishedHasLineage /\ PublishedPassedGate /\ OnePublicationPerChecksum /\ Recorded

(* The inductive invariant.                                                *)
SafetyInv == TypeOK /\ (\A p \in Procs : ProcessInv(p)) /\ Disjoint /\ DbInv

(* The inductive invariant gives each property a run checks.               *)
LEMMA SafetyInvParts == ASSUME SafetyInv
                        PROVE  /\ TransactionInv
                               /\ PublishedHasLineage
                               /\ PublishedPassedGate
                               /\ OnePublicationPerChecksum
BY DEF SafetyInv, ProcessInv, Disjoint, DbInv, Recorded, TransactionInv

(* Between transactions a process holds no key.                            *)
LEMMA NothingHeld ==
  ASSUME NEW p \in Procs, ProcessInv(p), TypeOK,
         pc[p] \in {"idle", "fetch", "catalog", "lookup", "normalize", "dimensions", "release"}
  PROVE  pend[p] = {}
BY DEF ProcessInv, HoldsOwnKeys, Publishes

(* A step of p that commits nothing.                                       *)
LocalStep(p) ==
  /\ UNCHANGED <<rows, runs>>
  /\ \A q \in Procs \ {p} : /\ pc'[q] = pc[q] /\ got'[q] = got[q]
                            /\ gate'[q] = gate[q] /\ pend'[q] = pend[q]

(* A process that moves, and at most reads the waivers, takes such a step.  *)
LEMMA MoveIsLocal ==
  ASSUME TypeOK, NEW p \in Procs, NEW s, pc' = [pc EXCEPT ![p] = s],
         UNCHANGED <<rows, runs, got, pend>>,
         \A q \in Procs \ {p} : gate'[q] = gate[q]
  PROVE  LocalStep(p) /\ pc'[p] = s
<1>1. pc \in [Procs -> Stages]
  BY DEF TypeOK
<1>2. pc'[p] = s /\ \A q \in Procs \ {p} : pc'[q] = pc[q]
  <2>. HIDE DEF Stages, InsertStages, LookupStages
  <2>. QED BY <1>1
<1>. QED BY <1>2 DEF LocalStep

(* A step that changes neither tables nor keys is safe if its process is.  *)
LEMMA LocalStepSafe ==
  ASSUME SafetyInv, TypeOK', NEW p \in Procs, LocalStep(p), ProcessInv(p)',
         \A q \in Procs \ {p} : pend'[p] \intersect pend[q] = {}
  PROVE  SafetyInv'
<1>1. \A q \in Procs : ProcessInv(q)'
  <2>. SUFFICES ASSUME NEW q \in Procs \ {p} PROVE ProcessInv(q)'
    OBVIOUS
  <2>1. ProcessInv(q) /\ pend[q] \intersect rows = {}
    BY DEF SafetyInv, ProcessInv
  <2>. QED BY <2>1, OthersKeepProcessInv DEF LocalStep
<1>2. Disjoint'
  BY DEF SafetyInv, Disjoint, LocalStep
<1>3. DbInv'
  BY DEF SafetyInv, DbInv, LocalStep, PublishedHasLineage, PublishedPassedGate, Published,
         OnePublicationPerChecksum, Recorded, Failing
<1>. QED BY <1>1, <1>2, <1>3 DEF SafetyInv

(* A step of p that leaves it outside any transaction.                     *)
LEMMA OutsideStepSafe ==
  ASSUME SafetyInv, TypeOK', NEW p \in Procs, LocalStep(p), pend'[p] = {},
         pc'[p] \in {"idle", "fetch", "catalog", "release"}
  PROVE  SafetyInv'
BY OutsideProcessInv, LocalStepSafe

(* What the end of a run does to the process that ends it.                 *)
LEMMA EndRunLocal ==
  ASSUME TypeOK, NEW p \in Procs, NEW result, EndRun(p, result), UNCHANGED <<rows, runs>>
  PROVE  LocalStep(p) /\ pend'[p] = {} /\ pc'[p] = "release"
BY DEF TypeOK, EndRun, GoTo, Closed, LocalStep

(* A rolled-back run leaves the invariant true.                            *)
LEMMA FailSafe ==
  ASSUME SafetyInv, TypeOK', NEW p \in Procs, Fail(p)
  PROVE  SafetyInv'
BY EndRunLocal, OutsideStepSafe DEF SafetyInv, Fail, db

(* Starting a run and fetching leave the invariant true.                   *)
LEMMA StartSafe ==
  ASSUME SafetyInv, TypeOK', NEW p \in Procs,
         Attempt(p) \/ StartCli(p) \/ Fetch(p) \/ FetchFixture(p) \/ FetchFails(p)
  PROVE  SafetyInv'
<1>. USE DEF db
<1>1. TypeOK /\ ProcessInv(p)
  BY DEF SafetyInv
<1>2. CASE Acquire(p) \/ StartCli(p)
  <2>1. pend[p] = {}
    BY <1>1, <1>2, NothingHeld DEF Acquire, StartCli
  <2>2. LocalStep(p) /\ pend'[p] = {} /\ pc'[p] = "fetch"
    BY <1>1, <1>2, <2>1 DEF Acquire, StartCli, GoTo, LocalStep, TypeOK
  <2>. QED BY <2>2, OutsideStepSafe
<1>3. CASE Skip(p)
  BY <1>1, <1>3, EndRunLocal, OutsideStepSafe DEF Skip
<1>4. ASSUME NEW pl \in Payloads \union {feed[revision]}, Retrieve(p, pl) PROVE SafetyInv'
  <2>1. pend[p] = {}
    BY <1>1, <1>4, NothingHeld DEF Retrieve
  <2>2. LocalStep(p) /\ pend'[p] = {} /\ pc'[p] = "catalog"
    BY <1>1, <1>4, <2>1 DEF Retrieve, GoTo, LocalStep, TypeOK
  <2>. QED BY <2>2, OutsideStepSafe
<1>5. CASE FetchFails(p)
  BY <1>1, <1>5, EndRunLocal, OutsideStepSafe DEF FetchFails
<1>. QED BY <1>2, <1>3, <1>4, <1>5, ConstantsAssumption
         DEF Attempt, Fetch, FetchFixture, ConstantsAssumption

(* A key looked up or inserted is the process's own, and nobody else's.    *)
LEMMA KeyStepSafe ==
  ASSUME SafetyInv, TypeOK', NEW p \in Procs, Find(p) \/ Insert(p) \/ Conflict(p)
  PROVE  SafetyInv'
<1>. USE DEF db
<1>1. TypeOK /\ ProcessInv(p)
  BY DEF SafetyInv
<1>2. CASE Find(p) /\ KeyAt(p) \in Visible(p)
  <2>1. /\ pc' = [pc EXCEPT ![p] = NextStage(p)]
        /\ UNCHANGED <<got, gate, rows, pend, runs>>
        /\ pc[p] \in LookupStages
    BY <1>2 DEF Find, GoTo
  <2>2. ProcessInv(p)'
    BY <1>1, <1>2, <2>1, WrittenAtNextStage
  <2>3. LocalStep(p)
    BY <1>1, <2>1 DEF LocalStep, TypeOK
  <2>. QED BY <2>1, <2>2, <2>3, LocalStepSafe DEF SafetyInv, Disjoint
<1>3. CASE Find(p) /\ KeyAt(p) \notin Visible(p)
  <2>1. UNCHANGED <<pc, got, gate, rows, pend, runs>>
    BY <1>3 DEF Find
  <2>2. ProcessInv(p)'
    BY <1>1, <2>1, OthersKeepProcessInv DEF ProcessInv
  <2>3. LocalStep(p)
    BY <2>1 DEF LocalStep
  <2>. QED BY <2>1, <2>2, <2>3, LocalStepSafe DEF SafetyInv, Disjoint
<1>4. CASE Insert(p)
  <2>1. /\ pc' = [pc EXCEPT ![p] = NextStage(p)]
        /\ UNCHANGED <<got, gate, rows, runs>>
        /\ pend' = [pend EXCEPT ![p] = @ \union {KeyAt(p)}]
        /\ KeyAt(p) \notin rows
        /\ pc[p] \in InsertStages
    BY <1>4 DEF Insert, MustInsert, GoTo
  <2>2. ProcessInv(p)'
    BY <1>1, <2>1, WrittenAtNextStage
  <2>3. LocalStep(p)
    <3>1. /\ pc \in [Procs -> Stages] /\ pend \in [Procs -> SUBSET Keys]
      BY <1>1 DEF TypeOK
    <3>. HIDE DEF Stages, InsertStages, LookupStages
    <3>2. \A q \in Procs \ {p} : pc'[q] = pc[q] /\ pend'[q] = pend[q]
      BY <2>1, <3>1
    <3>. QED BY <2>1, <3>2 DEF LocalStep
  <2>4. \A q \in Procs \ {p} : pend'[p] \intersect pend[q] = {}
    <3>1. pend'[p] = pend[p] \union {KeyAt(p)}
      BY <1>1, <2>1 DEF TypeOK
    <3>2. \A q \in Procs \ {p} : KeyAt(p) \notin pend[q]
      BY <1>4 DEF Insert, WaitsFor
    <3>. QED BY <3>1, <3>2 DEF SafetyInv, Disjoint
  <2>. QED BY <2>2, <2>3, <2>4, LocalStepSafe
<1>5. CASE Conflict(p)
  BY <1>5, FailSafe DEF Conflict
<1>. QED BY <1>2, <1>3, <1>4, <1>5

(* Lookup, normalisation and gate leave the invariant true.                *)
LEMMA DecideSafe ==
  ASSUME SafetyInv, TypeOK', NEW p \in Procs,
         Unchanged(p) \/ NotPublished(p) \/ Normalize(p) \/ NormalizeFails(p) \/ Gate(p)
  PROVE  SafetyInv'
<1>. USE DEF db
<1>1. TypeOK /\ ProcessInv(p)
  BY DEF SafetyInv
<1>2. CASE Unchanged(p)
  BY <1>1, <1>2, EndRunLocal, OutsideStepSafe DEF Unchanged
<1>3. CASE NotPublished(p) \/ Normalize(p)
  <2>1. pend[p] = {} /\ BronzeKey(got[p]) \in rows
    BY <1>1, <1>3, NothingHeld DEF NotPublished, Normalize, ProcessInv, HasWritten
  <2>2. /\ LocalStep(p)
        /\ UNCHANGED <<got, rows, pend>>
        /\ pc'[p] \in {"normalize", "dimensions"}
    <3>1. \E s \in {"normalize", "dimensions"} :
            pc' = [pc EXCEPT ![p] = s] /\ UNCHANGED <<rows, runs, got, pend, gate>>
      BY <1>3 DEF NotPublished, Normalize, GoTo
    <3>. QED BY <1>1, <3>1, MoveIsLocal
  <2>3. ProcessInv(p)'
    BY <2>1, <2>2 DEF ProcessInv, HoldsOwnKeys, HasWritten, Publishes
  <2>. QED BY <2>1, <2>2, <2>3, LocalStepSafe
<1>4. CASE NormalizeFails(p)
  BY <1>4, FailSafe DEF NormalizeFails
<1>5. CASE Gate(p)
  <2>1. /\ pend[p] \subseteq {DimensionsKey}
        /\ BronzeKey(got[p]) \in rows
        /\ pend[p] \intersect rows = {}
    BY <1>1, <1>5 DEF Gate, ProcessInv, HasWritten, HoldsOwnKeys, Publishes
  <2>2. /\ LocalStep(p)
        /\ UNCHANGED <<got, rows, pend>>
        /\ pc'[p] = "silver"
    <3>1. /\ pc' = [pc EXCEPT ![p] = "silver"] /\ UNCHANGED <<rows, runs, got, pend>>
          /\ gate' = [gate EXCEPT ![p] = waivers]
      BY <1>5 DEF Gate, GoTo
    <3>2. \A q \in Procs \ {p} : gate'[q] = gate[q]
      BY <1>1, <3>1 DEF TypeOK
    <3>. QED BY <1>1, <3>1, <3>2, MoveIsLocal
  <2>3. ProcessInv(p)'
    BY <2>1, <2>2 DEF ProcessInv, HoldsOwnKeys, HasWritten, Publishes
  <2>. QED BY <2>2, <2>3, LocalStepSafe DEF SafetyInv, Disjoint
<1>. QED BY <1>2, <1>3, <1>4, <1>5

(* Release, crash and the loss of the lock leave the invariant true.       *)
LEMMA EndsSafe ==
  ASSUME SafetyInv, TypeOK', NEW p \in Procs, Release(p) \/ Crash(p)
  PROVE  SafetyInv'
<1>. USE DEF db
<1>1. TypeOK /\ ProcessInv(p)
  BY DEF SafetyInv
<1>2. pend'[p] = {}
  BY <1>1, NothingHeld DEF Release, Crash, Closed, TypeOK
<1>3. LocalStep(p) /\ pc'[p] = "idle"
  <2>1. /\ pc' = [pc EXCEPT ![p] = "idle"] /\ got' = [got EXCEPT ![p] = NoPayload]
        /\ gate' = [gate EXCEPT ![p] = {}] /\ pend' \in {pend, [pend EXCEPT ![p] = {}]}
        /\ UNCHANGED <<rows, runs>>
    BY DEF Release, Crash, Closed, GoTo
  <2>2. /\ pc \in [Procs -> Stages] /\ got \in [Procs -> Payloads \union {NoPayload}]
        /\ gate \in [Procs -> SUBSET Waivable] /\ pend \in [Procs -> SUBSET Keys]
    BY <1>1 DEF TypeOK
  <2>. HIDE DEF Stages, InsertStages, LookupStages
  <2>3. pc'[p] = "idle" /\ \A q \in Procs \ {p} : pc'[q] = pc[q] /\ pend'[q] = pend[q]
    BY <2>1, <2>2
  <2>4. \A q \in Procs \ {p} : got'[q] = got[q] /\ gate'[q] = gate[q]
    BY <2>1, <2>2
  <2>. QED BY <2>1, <2>3, <2>4 DEF LocalStep
<1>. QED BY <1>2, <1>3, OutsideStepSafe

(* Steps that leave tables and processes alone leave the invariant true.   *)
LEMMA FrameSafe ==
  ASSUME SafetyInv, TypeOK', UNCHANGED <<db, local>>
  PROVE  SafetyInv'
<1>. USE DEF db, local
<1>1. \A p \in Procs : ProcessInv(p)'
  <2>. SUFFICES ASSUME NEW p \in Procs PROVE ProcessInv(p)'
    OBVIOUS
  <2>1. ProcessInv(p) /\ pend[p] \intersect rows = {}
    BY DEF SafetyInv, ProcessInv
  <2>. QED BY <2>1, OthersKeepProcessInv
<1>2. Disjoint'
  BY DEF SafetyInv, Disjoint
<1>3. DbInv'
  BY DEF SafetyInv, DbInv, PublishedHasLineage, PublishedPassedGate, Published,
         OnePublicationPerChecksum, Recorded, Failing
<1>. QED BY <1>1, <1>2, <1>3 DEF SafetyInv

(* A commit that publishes nothing new.                                    *)
LEMMA DbInvKept ==
  ASSUME DbInv, Published' = Published, rows \subseteq rows', runs \subseteq runs',
         \A r \in runs' \ runs : r.status # "succeeded"
  PROVE  DbInv'
<1>1. PublishedHasLineage'
  BY DEF DbInv, PublishedHasLineage
<1>2. PublishedPassedGate'
  BY DEF DbInv, PublishedPassedGate, Failing
<1>3. OnePublicationPerChecksum'
  BY DEF DbInv, OnePublicationPerChecksum
<1>4. Recorded'
  BY DEF DbInv, Recorded
<1>. QED BY <1>1, <1>2, <1>3, <1>4 DEF DbInv

(* Committing the raw evidence leaves the invariant true.                  *)
LEMMA CommitBronzeSafe ==
  ASSUME SafetyInv, TypeOK', NEW p \in Procs, CommitBronze(p)
  PROVE  SafetyInv'
<1>1. TypeOK /\ ProcessInv(p)
  BY DEF SafetyInv
<1>2. /\ pc[p] = "commit bronze"
      /\ rows' = rows \union pend[p]
      /\ pend' = [pend EXCEPT ![p] = {}]
      /\ pc' = [pc EXCEPT ![p] = "lookup"]
      /\ UNCHANGED <<got, gate, runs>>
  BY DEF CommitBronze, GoTo, Closed
<1>3. pend[p] \subseteq {CatalogKey, BronzeKey(got[p])}
  BY <1>1, <1>2 DEF ProcessInv, HoldsOwnKeys, Publishes
<1>4. ASSUME NEW q \in Procs PROVE ProcessInv(q)'
  <2>1. CASE q = p
    <3>1. BronzeKey(got[p]) \in rows'
      BY <1>1, <1>2 DEF ProcessInv, HasWritten, Visible
    <3>2. pend'[p] = {} /\ pc'[p] = "lookup" /\ got'[p] = got[p]
      BY <1>1, <1>2 DEF TypeOK
    <3>. QED BY <2>1, <3>1, <3>2 DEF ProcessInv, HoldsOwnKeys, HasWritten, Publishes
  <2>2. CASE q # p
    <3>1. ProcessInv(q) /\ pend[q] \intersect rows' = {}
      BY <1>2, <2>2 DEF SafetyInv, Disjoint, ProcessInv
    <3>. QED BY <1>1, <1>2, <2>2, <3>1, OthersKeepProcessInv DEF TypeOK
  <2>. QED BY <2>1, <2>2
<1>5. Disjoint'
  <2>1. \A q \in Procs : pend'[q] \subseteq pend[q]
    BY <1>1, <1>2 DEF TypeOK
  <2>. QED BY <2>1 DEF SafetyInv, Disjoint
<1>6. DbInv'
  <2>1. \A b \in Batches : GoldKey(b) \notin {CatalogKey, BronzeKey(got[p])}
    BY KeysDiffer
  <2>2. Published' = Published /\ rows \subseteq rows'
    BY <1>2, <1>3, <2>1 DEF Published
  <2>. QED BY <1>2, <2>2, DbInvKept DEF SafetyInv
<1>. QED BY <1>4, <1>5, <1>6 DEF SafetyInv

(* What a run's row says, whether or not it repeats another.               *)
LEMMA RecordGives ==
  ASSUME NEW p \in Procs
  PROVE  /\ RunRecord(p).payload = got[p]
         /\ RunRecord(p).status = "succeeded" <=> Publishable(p)
         /\ RunRecord(p).waived = Failing(got[p]) \intersect gate[p]
BY DEF RunRecord

(* The commit of a run: all of a publication, or a rejection's evidence.   *)
LEMMA CommitRunDb ==
  ASSUME ConstantsAssumption, SafetyInv, NEW p \in Procs, CommitRun(p)
  PROVE  DbInv'
<1>. DEFINE b == Batch(p)
            r == RunRecord(p)
<1>1. TypeOK /\ ProcessInv(p) /\ DbInv
  BY DEF SafetyInv
<1>2. got[p] \in Payloads /\ b \in Batches /\ b = BatchOf[got[p]]
  BY <1>1 DEF CommitRun, TypeOK, Batch, ConstantsAssumption
<1>3. /\ pc[p] = "commit run"
      /\ rows' = rows \union pend[p]
      /\ runs' = runs \union {r}
  BY DEF CommitRun
<1>4. /\ r.payload = got[p]
      /\ r.status = "succeeded" <=> Publishable(p)
      /\ r.waived = Failing(got[p]) \intersect gate[p]
  BY RecordGives
<1>5. CASE Publishable(p)
  <2>1. /\ BronzeKey(got[p]) \in rows'
        /\ {SilverKey(b), GoldEdge(b), BronzeEdge(got[p])} \subseteq rows'
        /\ GoldEdge(b) \notin rows
    BY <1>1, <1>3, <1>5 DEF ProcessInv, HasWritten, Publishes, Visible
  <2>2. ASSUME NEW c \in Published' PROVE c = b \/ c \in Published
    <3>1. GoldKey(c) \in rows \union pend[p] /\ c \in Batches
      BY <1>3 DEF Published
    <3>2. GoldKey(c) \notin {CatalogKey, DimensionsKey, BronzeKey(got[p]), SilverKey(b),
                             QuarantineKey(b), BronzeEdge(got[p]), GoldEdge(b)}
      BY KeysDiffer
    <3>3. GoldKey(c) \in pend[p] => GoldKey(c) = GoldKey(b)
      BY <1>1, <3>2 DEF ProcessInv, HoldsOwnKeys
    <3>. QED BY <3>1, <3>3, KeysDiffer DEF Published
  <2>3. PublishedHasLineage'
    <3>. SUFFICES ASSUME NEW c \in Published'
                  PROVE  /\ {SilverKey(c), GoldEdge(c)} \subseteq rows'
                         /\ \E pl \in Payloads :
                              /\ BatchOf[pl] = c
                              /\ {BronzeKey(pl), BronzeEdge(pl)} \subseteq rows'
      BY DEF PublishedHasLineage
    <3>1. CASE c = b
      BY <1>2, <2>1, <3>1
    <3>2. CASE c \in Published
      <4>1. {SilverKey(c), GoldEdge(c)} \subseteq rows
        BY <1>1, <3>2 DEF DbInv, PublishedHasLineage
      <4>2. PICK pl \in Payloads :
              BatchOf[pl] = c /\ {BronzeKey(pl), BronzeEdge(pl)} \subseteq rows
        BY <1>1, <3>2 DEF DbInv, PublishedHasLineage
      <4>. QED BY <1>3, <4>1, <4>2
    <3>. QED BY <2>2, <3>1, <3>2
  <2>4. Failing(r.payload) \subseteq r.waived
    BY <1>4, <1>5 DEF Publishable, Unwaived
  <2>5. PublishedPassedGate'
    <3>. SUFFICES ASSUME NEW c \in Published'
                  PROVE  \E s \in runs' : /\ BatchOf[s.payload] = c
                                          /\ s.status = "succeeded"
                                          /\ Failing(s.payload) \subseteq s.waived
      BY DEF PublishedPassedGate, Failing
    <3>. QED BY <1>1, <1>2, <1>3, <1>4, <1>5, <2>2, <2>4 DEF DbInv, PublishedPassedGate
  <2>6. \A s \in runs : s.status = "succeeded" => BatchOf[s.payload] # b
    BY <1>1, <2>1 DEF DbInv, Recorded
  <2>7. OnePublicationPerChecksum'
    <3>. SUFFICES ASSUME NEW s \in runs', NEW t \in runs',
                         s.status = "succeeded", t.status = "succeeded",
                         BatchOf[s.payload] = BatchOf[t.payload]
                  PROVE  s = t
      BY DEF OnePublicationPerChecksum
    <3>1. CASE s \in runs /\ t \in runs
      BY <1>1, <3>1 DEF DbInv, OnePublicationPerChecksum
    <3>2. CASE s = r \/ t = r
      BY <1>2, <1>3, <1>4, <2>6, <3>2
    <3>. QED BY <1>3, <3>1, <3>2
  <2>8. Recorded'
    BY <1>1, <1>2, <1>3, <1>4, <2>1 DEF DbInv, Recorded
  <2>. QED BY <2>3, <2>5, <2>7, <2>8 DEF DbInv
<1>6. CASE ~Publishable(p)
  <2>1. \A c \in Batches : GoldKey(c) \notin pend[p]
    BY <1>1, <1>3, <1>6, KeysDiffer DEF ProcessInv, HoldsOwnKeys, Publishes
  <2>2. Published' = Published /\ rows \subseteq rows'
    BY <1>3, <2>1 DEF Published
  <2>3. r.status # "succeeded"
    BY <1>4, <1>6
  <2>. QED BY <1>1, <1>3, <2>2, <2>3, DbInvKept
<1>. QED BY <1>5, <1>6

(* The publishing commit leaves the whole invariant true.                  *)
LEMMA CommitRunSafe ==
  ASSUME ConstantsAssumption, SafetyInv, TypeOK', NEW p \in Procs, CommitRun(p)
  PROVE  SafetyInv'
<1>1. TypeOK /\ ProcessInv(p)
  BY DEF SafetyInv
<1>2. /\ rows' = rows \union pend[p]
      /\ pend' = [pend EXCEPT ![p] = {}]
      /\ pc' = [pc EXCEPT ![p] = "release"]
      /\ UNCHANGED <<got, gate>>
  BY DEF CommitRun, EndRun, GoTo, Closed
<1>3. ASSUME NEW q \in Procs PROVE ProcessInv(q)'
  <2>1. CASE q = p
    BY <1>1, <1>2, <2>1, OutsideProcessInv DEF TypeOK
  <2>2. CASE q # p
    <3>1. ProcessInv(q) /\ pend[q] \intersect rows' = {}
      BY <1>2, <2>2 DEF SafetyInv, Disjoint, ProcessInv
    <3>. QED BY <1>1, <1>2, <2>2, <3>1, OthersKeepProcessInv DEF TypeOK
  <2>. QED BY <2>1, <2>2
<1>4. Disjoint'
  <2>1. \A q \in Procs : pend'[q] \subseteq pend[q]
    BY <1>1, <1>2 DEF TypeOK
  <2>. QED BY <2>1 DEF SafetyInv, Disjoint
<1>. QED BY <1>3, <1>4, CommitRunDb DEF SafetyInv

(* The invariant holds of the empty database.                              *)
LEMMA SafetyInit == ASSUME ConstantsAssumption, Init PROVE SafetyInv
<1>1. TypeOK
  BY InitType
<1>2. \A p \in Procs : ProcessInv(p)
  BY DEF Init, ProcessInv, HoldsOwnKeys, HasWritten, Publishes
<1>3. Disjoint /\ DbInv
  BY DEF Init, Disjoint, DbInv, PublishedHasLineage, PublishedPassedGate, Published,
         OnePublicationPerChecksum, Recorded
<1>. QED BY <1>1, <1>2, <1>3 DEF SafetyInv

(* Every step keeps the invariant.                                         *)
LEMMA SafetyStep == ASSUME ConstantsAssumption, SafetyInv, [Next]_vars PROVE SafetyInv'
<1>1. TypeOK'
  BY StepType DEF SafetyInv
<1>2. CASE \E p \in Procs : Attempt(p) \/ StartCli(p)
  BY <1>1, <1>2, StartSafe
<1>3. CASE \E p \in Procs : Progress(p)
  BY <1>1, <1>3, StartSafe, KeyStepSafe, CommitBronzeSafe, DecideSafe, CommitRunSafe, EndsSafe
     DEF Progress
<1>4. CASE Environment
  <2>1. CASE \E p \in Procs : Crash(p)
    BY <1>1, <2>1, EndsSafe
  <2>2. CASE UNCHANGED <<db, local>>
    BY <1>1, <2>2, FrameSafe
  <2>. QED BY <1>4, <2>1, <2>2
           DEF Environment, Revise, GrantException, ExceptionExpires, LoseLock
<1>5. CASE UNCHANGED vars
  BY <1>1, <1>5, FrameSafe DEF vars
<1>. QED BY <1>2, <1>3, <1>4, <1>5 DEF Next

(* The inductive invariant of PipelineService.run and the worker holds.    *)
THEOREM SafetyHolds == Spec => []SafetyInv
<1>1. Init => SafetyInv
  BY SafetyInit, ConstantsAssumption
<1>2. SafetyInv /\ [Next]_vars => SafetyInv'
  BY SafetyStep, ConstantsAssumption
<1>. QED BY <1>1, <1>2, PTL DEF Spec

(* Every published gold version has its silver version, its raw payload    *)
(* and both lineage edges, for any number of workers and operators, with   *)
(* and without the schedule lock, through conflicts and crashes.           *)
THEOREM LineageOfPublished == Spec => []PublishedHasLineage
<1>1. SafetyInv => PublishedHasLineage
  BY SafetyInvParts
<1>. QED BY <1>1, SafetyHolds, PTL

(* Nothing is published that some run did not find passing or waived.      *)
THEOREM GateOfPublished == Spec => []PublishedPassedGate
<1>1. SafetyInv => PublishedPassedGate
  BY SafetyInvParts
<1>. QED BY <1>1, SafetyHolds, PTL

(* At most one run ever succeeds for a checksum.                           *)
THEOREM PublishedOnce == Spec => []OnePublicationPerChecksum
<1>1. SafetyInv => OnePublicationPerChecksum
  BY SafetyInvParts
<1>. QED BY <1>1, SafetyHolds, PTL

(* What open transactions hold: the strengthening, itself checked by TLC.  *)
THEOREM TransactionsHoldTheirOwn == Spec => []TransactionInv
<1>1. SafetyInv => TransactionInv
  BY SafetyInvParts
<1>. QED BY <1>1, SafetyHolds, PTL

-----------------------------------------------------------------------------
(* Pipeline implements Publication. *)

HIDE DEF Stages

(* The state of Publication that a state of Pipeline shows.                *)
Evidence == {pl \in Payloads : BronzeKey(pl) \in rows}
Lineage == {<<pl, BatchOf[pl]>> : pl \in {q \in Payloads : BronzeEdge(q) \in rows}}

(* The empty database is Publication's initial state.                      *)
LEMMA InitialEvidence == Init => Promise!Init
BY DEF Init, Promise!Init, Published

(* A step that leaves the committed tables alone is a stutter.             *)
LEMMA QuietStutters == ASSUME UNCHANGED db PROVE UNCHANGED Promise!vars
BY DEF db, Promise!vars, Published

(* The commit of the raw evidence is Keep, or a stutter when it was there. *)
LEMMA CommitBronzeKeeps ==
  ASSUME SafetyInv, NEW p \in Procs, CommitBronze(p)
  PROVE  \E pl \in Payloads : Promise!Keep(pl)
<1>1. TypeOK /\ ProcessInv(p)
  BY DEF SafetyInv
<1>2. /\ pc[p] = "commit bronze"
      /\ rows' = rows \union pend[p]
      /\ UNCHANGED <<runs, incidents>>
  BY DEF CommitBronze
<1>3. got[p] \in Payloads
  BY <1>1, <1>2 DEF TypeOK
<1>4. /\ pend[p] \subseteq {CatalogKey, BronzeKey(got[p])}
      /\ BronzeKey(got[p]) \in rows'
  BY <1>1, <1>2 DEF ProcessInv, HoldsOwnKeys, HasWritten, Publishes, Visible
<1>5. Evidence' = Evidence \union {got[p]}
  <2>1. \A pl \in Payloads : BronzeKey(pl) \in pend[p] => pl = got[p]
    BY <1>4, KeysDiffer
  <2>. QED BY <1>2, <1>3, <1>4, <2>1 DEF Evidence
<1>6. Published' = Published
  <2>1. \A b \in Batches : GoldKey(b) \notin {CatalogKey, BronzeKey(got[p])}
    BY KeysDiffer
  <2>. QED BY <1>2, <1>4, <2>1 DEF Published
<1>7. Lineage' = Lineage
  <2>1. \A pl \in Payloads : BronzeEdge(pl) \notin {CatalogKey, BronzeKey(got[p])}
    BY KeysDiffer
  <2>. QED BY <1>2, <1>4, <2>1 DEF Lineage
<1>. QED BY <1>2, <1>3, <1>5, <1>6, <1>7 DEF Promise!Keep, Evidence, Lineage

(* The publishing commit is one Publish or one Reject of Publication.      *)
LEMMA CommitRunDecides ==
  ASSUME ConstantsAssumption, SafetyInv, NEW p \in Procs, CommitRun(p)
  PROVE  \E pl \in Payloads, waived \in SUBSET Checks :
           Promise!Publish(pl, waived) \/ Promise!Reject(pl, waived)
<1>1. TypeOK /\ ProcessInv(p) /\ DbInv /\ pc[p] = "commit run"
  BY DEF SafetyInv, CommitRun
<1>p. PICK pl \in Payloads : pl = got[p]
  BY <1>1 DEF TypeOK
<1>w. PICK waived \in SUBSET Checks : waived = gate[p]
  BY <1>1 DEF TypeOK, ConstantsAssumption
<1>. DEFINE b == BatchOf[pl]
            F == [q \in Payloads |-> Failing(q)]
<1>2. /\ rows' = rows \union pend[p]
      /\ runs' = runs \union {RunRecord(p)}
      /\ incidents' = incidents \union {<<pl, c>> : c \in Unwaived(p)}
  BY <1>p DEF CommitRun
<1>3. /\ b \in Batches /\ Batch(p) = b /\ F[pl] = Failing(pl)
      /\ Unwaived(p) = Failing(pl) \ waived
  BY <1>p, <1>w DEF Batch, Unwaived, ConstantsAssumption
<1>5. BronzeKey(pl) \in rows
  BY <1>1, <1>p DEF ProcessInv, HasWritten
<1>6. Evidence' = Evidence
  <2>1. \A q \in Payloads : BronzeKey(q) \notin {DimensionsKey, SilverKey(b), QuarantineKey(b),
                                                 GoldKey(b), BronzeEdge(pl), GoldEdge(b)}
    BY KeysDiffer
  <2>2. \A k \in pend[p] : k \in {DimensionsKey, SilverKey(b), QuarantineKey(b),
                                  GoldKey(b), BronzeEdge(pl), GoldEdge(b)}
    BY <1>1, <1>p, <1>3 DEF ProcessInv, HoldsOwnKeys
  <2>. QED BY <1>2, <2>1, <2>2 DEF Evidence
<1>7. CASE Publishable(p)
  <2>1. {GoldKey(b), BronzeEdge(pl), GoldEdge(b)} \subseteq rows' /\ GoldEdge(b) \notin rows
    BY <1>1, <1>p, <1>2, <1>3, <1>7 DEF ProcessInv, HasWritten, Publishes, Visible
  <2>2. b \notin Published
    BY <1>1, <2>1 DEF DbInv, PublishedHasLineage
  <2>3. Published' = Published \union {b}
    <3>1. ASSUME NEW c \in Batches, GoldKey(c) \in pend[p] PROVE c = b
      <4>1. GoldKey(c) \notin {CatalogKey, DimensionsKey, BronzeKey(pl), SilverKey(b),
                               QuarantineKey(b), BronzeEdge(pl), GoldEdge(b)}
        BY KeysDiffer
      <4>2. GoldKey(c) = GoldKey(b)
        BY <1>1, <1>p, <1>3, <3>1, <4>1 DEF ProcessInv, HoldsOwnKeys
      <4>. QED BY <4>2, KeysDiffer
    <3>. QED BY <1>2, <1>3, <2>1, <3>1 DEF Published
  <2>4. Lineage' = Lineage \union {<<pl, b>>}
    <3>1. ASSUME NEW q \in Payloads, BronzeEdge(q) \in pend[p] PROVE q = pl
      <4>1. BronzeEdge(q) \notin {CatalogKey, DimensionsKey, BronzeKey(pl), SilverKey(b),
                                  QuarantineKey(b), GoldKey(b), GoldEdge(b)}
        BY KeysDiffer
      <4>2. BronzeEdge(q) = BronzeEdge(pl)
        BY <1>1, <1>p, <1>3, <3>1, <4>1 DEF ProcessInv, HoldsOwnKeys
      <4>. QED BY <4>2, KeysDiffer
    <3>2. \A q \in Payloads : BronzeEdge(q) \in rows' <=> BronzeEdge(q) \in rows \/ q = pl
      BY <1>2, <2>1, <3>1
    <3>. QED BY <1>3, <3>2 DEF Lineage
  <2>5. F[pl] \subseteq waived /\ Unwaived(p) = {}
    BY <1>3, <1>7 DEF Publishable
  <2>6. RunRecord(p) = Promise!Decision(pl, waived, "succeeded")
    BY <1>p, <1>w, <1>3, <1>7 DEF RunRecord, Promise!Decision
  <2>7. incidents' = incidents
    BY <1>2, <2>5
  <2>8. runs' = runs \union {Promise!Decision(pl, waived, "succeeded")}
    BY <1>2, <2>6
  <2>9. Promise!Publish(pl, waived)
    BY <1>3, <1>5, <1>6, <2>2, <2>3, <2>4, <2>5, <2>7, <2>8
       DEF Promise!Publish, Evidence, Lineage
  <2>. QED BY <2>9
<1>8. CASE ~Publishable(p)
  <2>1. \A k \in pend[p] : k \in {DimensionsKey, SilverKey(b), QuarantineKey(b)}
    BY <1>1, <1>p, <1>3, <1>8 DEF ProcessInv, HoldsOwnKeys, Publishes
  <2>2. Published' = Published
    <3>1. \A c \in Batches : GoldKey(c) \notin {DimensionsKey, SilverKey(b), QuarantineKey(b)}
      BY KeysDiffer
    <3>. QED BY <1>2, <2>1, <3>1 DEF Published
  <2>3. Lineage' = Lineage
    <3>1. \A q \in Payloads : BronzeEdge(q) \notin {DimensionsKey, SilverKey(b), QuarantineKey(b)}
      BY KeysDiffer
    <3>. QED BY <1>2, <2>1, <3>1 DEF Lineage
  <2>4. ~(F[pl] \subseteq waived)
    BY <1>3, <1>8 DEF Publishable
  <2>5. RunRecord(p) = Promise!Decision(pl, waived, "failed")
    BY <1>p, <1>w, <1>3, <1>8 DEF RunRecord, Promise!Decision
  <2>6. {<<pl, c>> : c \in Unwaived(p)} = {<<pl, c>> : c \in F[pl] \ waived}
    BY <1>3
  <2>7. Promise!Reject(pl, waived)
    BY <1>2, <1>3, <1>5, <1>6, <2>2, <2>3, <2>4, <2>5, <2>6
       DEF Promise!Reject, Evidence, Lineage
  <2>. QED BY <2>7
<1>. QED BY <1>7, <1>8

(* Every step is a step of Publication or a stutter.                       *)
LEMMA StepRefines ==
  ASSUME ConstantsAssumption, SafetyInv, [Next]_vars
  PROVE  [Promise!Next]_(Promise!vars)
<1>1. CASE \E p \in Procs : CommitBronze(p)
  BY <1>1, CommitBronzeKeeps DEF Promise!Next
<1>2. CASE \E p \in Procs : CommitRun(p)
  BY <1>2, CommitRunDecides DEF Promise!Next
<1>3. CASE UNCHANGED db
  BY <1>3, QuietStutters
<1>. QED
  BY <1>1, <1>2, <1>3
     DEF Next, vars, Attempt, Progress, Environment, Acquire, Skip, StartCli, Fetch, FetchFixture,
         FetchFails, Retrieve, Find, Insert, Conflict, Fail, Unchanged, NotPublished, Normalize,
         NormalizeFails, Gate, Release, Revise, GrantException, ExceptionExpires, Crash, LoseLock

(* Every execution of the pipeline, seen through its committed tables, is  *)
(* an execution of Publication: decisions show whole or not at all, and a  *)
(* checksum is published once.                                             *)
THEOREM ImplementsPublication == Spec => PublishesAtomically
<1>1. Init => Promise!Init
  BY InitialEvidence
<1>2. SafetyInv /\ [Next]_vars => [Promise!Next]_(Promise!vars)
  BY StepRefines, ConstantsAssumption
<1>. QED BY <1>1, <1>2, SafetyHolds, PTL DEF Spec, PublishesAtomically, Promise!Spec
-----------------------------------------------------------------------------
(* What run() answered is true of the committed tables.                    *)
OutcomeOK(p) ==
  /\ outcome[p] \in {"published", "unchanged"} =>
       {BronzeKey(got[p]), BronzeEdge(got[p]), GoldKey(Batch(p))} \subseteq rows
  /\ outcome[p] = "rejected" =>
       /\ {BronzeKey(got[p]), SilverKey(Batch(p))} \subseteq rows
       /\ got[p] \in Quarantined => QuarantineKey(Batch(p)) \in rows
       /\ Unwaived(p) # {}
       /\ \A c \in Unwaived(p) : <<got[p], c>> \in incidents

EdgesHaveGold == \A b \in Batches : GoldEdge(b) \in rows => GoldKey(b) \in rows

AnswerInv ==
  /\ \A p \in Procs : OutcomeOK(p) /\ (outcome[p] # "none" => pc[p] = "release")
  /\ EdgesHaveGold

(* An answer that was true stays true while committed rows only grow.      *)
LEMMA OutcomeKept ==
  ASSUME NEW p \in Procs, OutcomeOK(p), rows \subseteq rows', incidents \subseteq incidents',
         got'[p] = got[p], gate'[p] = gate[p], outcome'[p] = outcome[p]
  PROVE  OutcomeOK(p)'
BY DEF OutcomeOK, Batch, Unwaived, Failing

(* A step of p that publishes and answers nothing.                         *)
LEMMA SilentStep ==
  ASSUME SafetyInv, AnswerInv, NEW p \in Procs, UNCHANGED db,
         \A q \in Procs \ {p} : /\ pc'[q] = pc[q] /\ got'[q] = got[q]
                                /\ gate'[q] = gate[q] /\ outcome'[q] = outcome[q],
         \/ outcome'[p] \in {"failed", "skipped_locked"} /\ pc'[p] = "release"
         \/ outcome'[p] = "none"
  PROVE  AnswerInv'
<1>1. \A q \in Procs : OutcomeOK(q)'
  <2>. SUFFICES ASSUME NEW q \in Procs PROVE OutcomeOK(q)'
    OBVIOUS
  <2>1. CASE q = p
    BY <2>1 DEF OutcomeOK
  <2>2. CASE q # p
    BY <2>2, OutcomeKept DEF AnswerInv, db
  <2>. QED BY <2>1, <2>2
<1>2. \A q \in Procs : outcome'[q] # "none" => pc'[q] = "release"
  BY DEF AnswerInv
<1>3. EdgesHaveGold'
  BY DEF AnswerInv, EdgesHaveGold, db
<1>. QED BY <1>1, <1>2, <1>3 DEF AnswerInv

(* A run that ends without publishing owes nothing but its own answer.     *)
LEMMA EndRunAnswers ==
  ASSUME TypeOK, NEW p \in Procs, NEW result, EndRun(p, result)
  PROVE  /\ \A q \in Procs \ {p} : /\ pc'[q] = pc[q] /\ got'[q] = got[q]
                                   /\ gate'[q] = gate[q] /\ outcome'[q] = outcome[q]
         /\ outcome'[p] = result /\ pc'[p] = "release"
         /\ got' = got /\ gate' = gate
BY DEF TypeOK, EndRun, GoTo

(* The answer unchanged names a version that is there.                     *)
LEMMA UnchangedAnswers ==
  ASSUME ConstantsAssumption, SafetyInv, AnswerInv, NEW p \in Procs, Unchanged(p)
  PROVE  AnswerInv'
<1>1. TypeOK /\ ProcessInv(p)
  BY DEF SafetyInv
<1>2. pc[p] = "lookup" /\ AlreadyPublished(p) /\ EndRun(p, "unchanged") /\ UNCHANGED db
  BY DEF Unchanged
<1>3. got[p] \in Payloads /\ Batch(p) \in Batches
  BY <1>1, <1>2 DEF TypeOK, Batch, ConstantsAssumption
<1>4. {BronzeKey(got[p]), BronzeEdge(got[p]), GoldKey(Batch(p))} \subseteq rows
  BY <1>1, <1>2, <1>3 DEF ProcessInv, HasWritten, AlreadyPublished, AnswerInv, EdgesHaveGold
<1>5. \A q \in Procs : OutcomeOK(q)'
  <2>. SUFFICES ASSUME NEW q \in Procs PROVE OutcomeOK(q)'
    OBVIOUS
  <2>1. CASE q = p
    BY <1>1, <1>2, <1>4, <2>1, EndRunAnswers DEF OutcomeOK, Batch, db
  <2>2. CASE q # p
    BY <1>1, <1>2, <2>2, EndRunAnswers, OutcomeKept DEF AnswerInv, db
  <2>. QED BY <2>1, <2>2
<1>6. \A q \in Procs : outcome'[q] # "none" => pc'[q] = "release"
  BY <1>1, <1>2, EndRunAnswers DEF AnswerInv
<1>7. EdgesHaveGold'
  BY <1>2 DEF AnswerInv, EdgesHaveGold, db
<1>. QED BY <1>5, <1>6, <1>7 DEF AnswerInv

(* The answers published and rejected are of what this commit wrote.       *)
LEMMA CommitRunAnswers ==
  ASSUME ConstantsAssumption, SafetyInv, AnswerInv, NEW p \in Procs, CommitRun(p)
  PROVE  AnswerInv'
<1>1. TypeOK /\ ProcessInv(p) /\ pc[p] = "commit run"
  BY DEF SafetyInv, CommitRun
<1>2. /\ rows' = rows \union pend[p]
      /\ incidents' = incidents \union {<<got[p], c>> : c \in Unwaived(p)}
      /\ EndRun(p, IF Publishable(p) THEN "published" ELSE "rejected")
  BY DEF CommitRun
<1>3. got'[p] = got[p] /\ Batch(p)' = Batch(p) /\ Unwaived(p)' = Unwaived(p)
  BY <1>1, <1>2, EndRunAnswers DEF Batch, Unwaived, Failing
<1>4. OutcomeOK(p)'
  <2>1. BronzeKey(got[p]) \in rows' /\ SilverKey(Batch(p)) \in rows'
    BY <1>1, <1>2 DEF ProcessInv, HasWritten, Visible
  <2>2. CASE Publishable(p)
    <3>1. outcome'[p] = "published"
      BY <1>1, <1>2, <2>2, EndRunAnswers
    <3>2. BronzeEdge(got[p]) \in rows' /\ GoldKey(Batch(p)) \in rows'
      BY <1>1, <1>2, <2>2 DEF ProcessInv, HasWritten, Publishes, Visible
    <3>. QED BY <1>3, <2>1, <3>1, <3>2 DEF OutcomeOK
  <2>3. CASE ~Publishable(p)
    <3>1. outcome'[p] = "rejected"
      BY <1>1, <1>2, <2>3, EndRunAnswers
    <3>2. got[p] \in Quarantined => QuarantineKey(Batch(p)) \in rows'
      BY <1>1, <1>2 DEF ProcessInv, HasWritten, Visible
    <3>3. Unwaived(p) # {} /\ \A c \in Unwaived(p) : <<got[p], c>> \in incidents'
      BY <1>2, <2>3 DEF Publishable
    <3>. QED BY <1>3, <2>1, <3>1, <3>2, <3>3 DEF OutcomeOK
  <2>. QED BY <2>2, <2>3
<1>5. \A q \in Procs \ {p} : OutcomeOK(q)'
  BY <1>1, <1>2, EndRunAnswers, OutcomeKept DEF AnswerInv
<1>6. \A q \in Procs : outcome'[q] # "none" => pc'[q] = "release"
  BY <1>1, <1>2, EndRunAnswers DEF AnswerInv
<1>7. EdgesHaveGold'
  <2>. SUFFICES ASSUME NEW b \in Batches, GoldEdge(b) \in rows' PROVE GoldKey(b) \in rows'
    BY DEF EdgesHaveGold
  <2>1. CASE GoldEdge(b) \in rows
    BY <1>2, <2>1 DEF AnswerInv, EdgesHaveGold
  <2>2. CASE GoldEdge(b) \in pend[p]
    <3>1. GoldEdge(b) \notin {CatalogKey, DimensionsKey, BronzeKey(got[p]), SilverKey(Batch(p)),
                              QuarantineKey(Batch(p)), GoldKey(Batch(p)), BronzeEdge(got[p])}
      BY KeysDiffer
    <3>2. GoldEdge(b) = GoldEdge(Batch(p)) /\ Publishes(p)
      BY <1>1, <2>2, <3>1 DEF ProcessInv, HoldsOwnKeys
    <3>3. b = Batch(p)
      BY <3>2, KeysDiffer
    <3>. QED BY <1>1, <1>2, <3>2, <3>3 DEF ProcessInv, HasWritten, Visible
  <2>. QED BY <1>2, <2>1, <2>2
<1>. QED BY <1>4, <1>5, <1>6, <1>7 DEF AnswerInv

(* Committing the raw evidence keeps every answer true.                    *)
LEMMA CommitBronzeAnswers ==
  ASSUME SafetyInv, AnswerInv, NEW p \in Procs, CommitBronze(p)
  PROVE  AnswerInv'
<1>1. TypeOK /\ ProcessInv(p)
  BY DEF SafetyInv
<1>2. /\ rows' = rows \union pend[p]
      /\ UNCHANGED <<incidents, got, gate, outcome>>
      /\ pc[p] = "commit bronze"
      /\ pc' = [pc EXCEPT ![p] = "lookup"]
  BY DEF CommitBronze, GoTo
<1>3. \A q \in Procs : OutcomeOK(q)'
  BY <1>2, OutcomeKept DEF AnswerInv
<1>4. \A q \in Procs : outcome'[q] # "none" => pc'[q] = "release"
  BY <1>1, <1>2 DEF AnswerInv, TypeOK
<1>5. EdgesHaveGold'
  <2>1. \A b \in Batches : GoldEdge(b) \notin {CatalogKey, BronzeKey(got[p])}
    BY KeysDiffer
  <2>2. pend[p] \subseteq {CatalogKey, BronzeKey(got[p])}
    BY <1>1, <1>2 DEF ProcessInv, HoldsOwnKeys, Publishes
  <2>. QED BY <1>2, <2>1, <2>2 DEF AnswerInv, EdgesHaveGold
<1>. QED BY <1>3, <1>4, <1>5 DEF AnswerInv

(* The steps that only move p along.                                       *)
LEMMA MovesAnswer ==
  ASSUME SafetyInv, AnswerInv, NEW p \in Procs,
         \/ Acquire(p) \/ StartCli(p) \/ Fetch(p) \/ FetchFixture(p)
         \/ Find(p) \/ Insert(p) \/ NotPublished(p) \/ Normalize(p) \/ Gate(p)
         \/ Release(p) \/ Crash(p)
  PROVE  AnswerInv'
<1>1. TypeOK
  BY DEF SafetyInv
<1>2. UNCHANGED db
  BY DEF Acquire, StartCli, Fetch, FetchFixture, Retrieve, Find, Insert, NotPublished, Normalize,
         Gate, Release, Crash
<1>3. \A q \in Procs \ {p} : /\ pc'[q] = pc[q] /\ got'[q] = got[q]
                             /\ gate'[q] = gate[q] /\ outcome'[q] = outcome[q]
  BY <1>1 DEF TypeOK, GoTo, Acquire, StartCli, Fetch, FetchFixture, Retrieve, Find, Insert,
              NotPublished, Normalize, Gate, Release, Crash
<1>4. outcome'[p] = "none"
  <2>1. CASE Release(p) \/ Crash(p)
    BY <1>1, <2>1 DEF TypeOK, Release, Crash
  <2>2. CASE ~(Release(p) \/ Crash(p))
    <3>1. pc[p] # "release" /\ outcome' = outcome
      BY <2>2 DEF Acquire, StartCli, Fetch, FetchFixture, Retrieve, Find, Insert, MustInsert,
                  NotPublished, Normalize, Gate
    <3>. QED BY <3>1 DEF AnswerInv
  <2>. QED BY <2>1, <2>2
<1>. QED BY <1>2, <1>3, <1>4, SilentStep

(* A failed or ended run keeps every answer true.                          *)
LEMMA FailuresAnswer ==
  ASSUME SafetyInv, AnswerInv, NEW p \in Procs,
         Skip(p) \/ FetchFails(p) \/ Conflict(p) \/ NormalizeFails(p)
  PROVE  AnswerInv'
<1>1. TypeOK /\ UNCHANGED db
  BY DEF SafetyInv, Skip, FetchFails, Conflict, NormalizeFails, Fail
<1>2. EndRun(p, "failed") \/ EndRun(p, "skipped_locked")
  BY DEF Skip, FetchFails, Conflict, NormalizeFails, Fail
<1>. QED BY <1>1, <1>2, EndRunAnswers, SilentStep

(* Every step keeps every answer true.                                     *)
LEMMA AnswerStep ==
  ASSUME ConstantsAssumption, SafetyInv, AnswerInv, [Next]_vars
  PROVE  AnswerInv'
<1>1. CASE \E p \in Procs : Attempt(p) \/ StartCli(p) \/ Progress(p)
  BY <1>1, MovesAnswer, FailuresAnswer, UnchangedAnswers, CommitRunAnswers, CommitBronzeAnswers
     DEF Attempt, Progress
<1>2. CASE \E p \in Procs : Crash(p)
  BY <1>2, MovesAnswer
<1>3. CASE UNCHANGED <<db, local>>
  <2>1. UNCHANGED <<rows, incidents, pc, got, gate, outcome>>
    BY <1>3 DEF db, local
  <2>2. \A p \in Procs : OutcomeOK(p)'
    BY <2>1, OutcomeKept DEF AnswerInv
  <2>. QED BY <2>1, <2>2 DEF AnswerInv, EdgesHaveGold
<1>. QED BY <1>1, <1>2, <1>3
         DEF Next, vars, Environment, Revise, GrantException, ExceptionExpires, LoseLock

(* The answers of run() hold of the committed tables: "published" and      *)
(* "unchanged" name a gold version traced to the fetched bytes, "rejected" *)
(* left its evidence and incidents.                                        *)
THEOREM AnswersAreCommitted == Spec => []OutcomeIsCommitted
<1>1. Init => AnswerInv
  BY DEF Init, AnswerInv, OutcomeOK, EdgesHaveGold
<1>2. AnswerInv /\ SafetyInv /\ [Next]_vars => AnswerInv'
  BY AnswerStep, ConstantsAssumption
<1>3. AnswerInv => OutcomeIsCommitted
  BY DEF AnswerInv, OutcomeOK, OutcomeIsCommitted
<1>. QED BY <1>1, <1>2, <1>3, SafetyHolds, PTL DEF Spec
-----------------------------------------------------------------------------
(* The schedule lock.  The holder of an unfinished scheduled run holds it. *)
LockInv == \A p \in Workers : Busy(p) => lockHolder = p

(* Without dropped connections a scheduled run keeps the lock to its end.  *)
LEMMA LockStep ==
  ASSUME ConstantsAssumption, Flaky = {}, TypeOK, LockInv, [Next]_vars
  PROVE  LockInv'
<1>. USE DEF LockInv, Busy
<1>1. ASSUME NEW p \in Procs, Acquire(p) PROVE LockInv'
  <2>1. \A q \in Workers : ~Busy(q)
    BY <1>1 DEF Acquire, LockFree, ConstantsAssumption, Procs
  <2>. QED BY <1>1, <2>1 DEF Acquire, GoTo, TypeOK, Procs
<1>2. ASSUME NEW p \in Procs, Release(p) \/ Crash(p) PROVE LockInv'
  <2>1. lockHolder' = Unlocked(p) /\ pc' = [pc EXCEPT ![p] = "idle"]
    BY <1>2 DEF Release, Crash, GoTo
  <2>. QED BY <2>1 DEF Unlocked, TypeOK, Procs
<1>3. ASSUME NEW p \in Procs, StartCli(p) PROVE LockInv'
  BY <1>3 DEF StartCli, GoTo, TypeOK, ConstantsAssumption, Procs
<1>4. ASSUME NEW p \in Procs, \E result : EndRun(p, result), UNCHANGED lockHolder
      PROVE  LockInv'
  BY <1>4 DEF EndRun, GoTo, TypeOK, Procs
<1>5. ASSUME NEW p \in Procs, NEW stage, GoTo(p, stage) \/ UNCHANGED pc, UNCHANGED lockHolder,
             Busy(p)
      PROVE  LockInv'
  BY <1>5 DEF GoTo, TypeOK, Procs
<1>6. ASSUME UNCHANGED <<pc, lockHolder>> PROVE LockInv'
  BY <1>6
<1>7. ASSUME NEW p \in Procs, Progress(p) PROVE LockInv'
  <2>1. CASE Release(p)
    BY <1>2, <2>1
  <2>2. CASE FetchFails(p) \/ Conflict(p) \/ NormalizeFails(p) \/ Unchanged(p) \/ CommitRun(p)
    BY <1>4, <2>2 DEF FetchFails, Conflict, NormalizeFails, Fail, Unchanged, CommitRun
  <2>3. CASE \/ Fetch(p) \/ FetchFixture(p) \/ Find(p) \/ Insert(p) \/ CommitBronze(p)
             \/ NotPublished(p) \/ Normalize(p) \/ Gate(p)
    <3>1. Busy(p) /\ UNCHANGED lockHolder
      BY <2>3 DEF Fetch, FetchFixture, Retrieve, Find, Insert, MustInsert, CommitBronze,
                  NotPublished, Normalize, Gate
    <3>2. (\E stage : GoTo(p, stage)) \/ UNCHANGED pc
      BY <2>3 DEF Fetch, FetchFixture, Retrieve, Find, Insert, CommitBronze, NotPublished,
                  Normalize, Gate
    <3>. QED BY <1>5, <3>1, <3>2
  <2>. QED BY <1>7, <2>1, <2>2, <2>3 DEF Progress
<1>8. ASSUME NEW p \in Procs, Skip(p) PROVE LockInv'
  BY <1>4, <1>8 DEF Skip
<1>. QED BY <1>1, <1>2, <1>3, <1>6, <1>7, <1>8
         DEF Next, vars, env, local, Attempt, Environment, Revise, GrantException,
             ExceptionExpires, LoseLock

(* As long as lock connections do not drop, at most one worker replica is  *)
(* between fetch and publication, however many replicas there are and      *)
(* whatever operators run beside them.                                     *)
THEOREM OneRunAtATime == ASSUME Flaky = {} PROVE Spec => []OneScheduledRun
<1>1. Init => LockInv
  BY DEF Init, LockInv, Busy, Procs
<1>2. LockInv /\ TypeOK /\ [Next]_vars => LockInv'
  BY LockStep, ConstantsAssumption
<1>3. LockInv => OneScheduledRun
  BY DEF LockInv, OneScheduledRun
<1>. QED BY <1>1, <1>2, <1>3, TypeCorrect, PTL DEF Spec
-----------------------------------------------------------------------------
(* The version that consumers read: what it is replaced by, and in which   *)
(* order versions succeed each other.                                      *)


(* A timestamp that is forgotten leaves the others in their order, and     *)
(* none of them becomes, or ceases to be, no timestamp.                    *)
LEMMA ForgetKeepsOrder ==
  ASSUME TypeOK, NEW p \in Procs, ForgetStamp(p)
  PROVE  /\ stamp'[p] = 0
         /\ \A x \in (Procs \union Batches) \ {p} : stamp'[x] = 0 <=> stamp[x] = 0
         /\ \A x, y \in (Procs \union Batches) \ {p} : stamp'[x] < stamp'[y] <=> stamp[x] < stamp[y]
<1>1. /\ stamp \in [Procs \union Batches -> Nat]
      /\ \A x \in Procs \union Batches : x # p /\ stamp[x] # 0 => stamp[x] # stamp[p]
  BY DEF TypeOK
<1>2. CASE stamp[p] = 0
  BY <1>2 DEF ForgetStamp, clock
<1>3. CASE stamp[p] # 0
  <2>1. \A x \in Procs \union Batches :
          stamp'[x] = IF x = p THEN 0
                      ELSE IF stamp[x] > stamp[p] THEN stamp[x] - 1 ELSE stamp[x]
    BY <1>1, <1>3 DEF ForgetStamp
  <2>2. \A x \in Procs \union Batches : stamp[x] \in Nat
    BY <1>1
  <2>3. stamp[p] \in Nat /\ stamp[p] > 0
    BY <1>3, <2>2
  <2>4. ASSUME NEW x \in (Procs \union Batches) \ {p}, NEW y \in (Procs \union Batches) \ {p}
        PROVE  /\ stamp'[x] = 0 <=> stamp[x] = 0
               /\ stamp'[x] < stamp'[y] <=> stamp[x] < stamp[y]
    <3>1. /\ stamp[x] \in Nat /\ stamp[y] \in Nat
          /\ stamp[x] # stamp[p] /\ stamp[y] # stamp[p]
      BY <1>1, <1>3, <2>2, <2>3
    <3>2. /\ stamp'[x] = IF stamp[x] > stamp[p] THEN stamp[x] - 1 ELSE stamp[x]
          /\ stamp'[y] = IF stamp[y] > stamp[p] THEN stamp[y] - 1 ELSE stamp[y]
      BY <2>1
    <3>. QED BY <2>3, <3>1, <3>2
  <2>. QED BY <2>1, <2>4
<1>. QED BY <1>2, <1>3
-----------------------------------------------------------------------------
(* Last-known-good.  Only published versions have a timestamp.             *)
StampsArePublished == \A b \in Batches : stamp[b] # 0 => GoldKey(b) \in rows

(* A publication whose gold version is new.                                *)
NewGold(p) == CommitRun(p) /\ CreatesGold(p)

(* Any other step leaves the timestamps of versions in their order.        *)
LEMMA VersionsKeepOrder ==
  ASSUME ConstantsAssumption, TypeOK, [Next]_vars, \A p \in Procs : ~NewGold(p)
  PROVE  /\ \A b \in Batches : stamp'[b] = 0 <=> stamp[b] = 0
         /\ \A b, c \in Batches : stamp'[b] < stamp'[c] <=> stamp[b] < stamp[c]
<1>. DEFINE Kept == /\ \A b \in Batches : stamp'[b] = 0 <=> stamp[b] = 0
                    /\ \A b, c \in Batches : stamp'[b] < stamp'[c] <=> stamp[b] < stamp[c]
<1>1. ASSUME UNCHANGED clock PROVE Kept
  BY <1>1 DEF clock
<1>2. ASSUME NEW p \in Procs, ForgetStamp(p) PROVE Kept
  <2>1. Batches \subseteq (Procs \union Batches) \ {p}
    BY DEF ConstantsAssumption
  <2>. QED BY <1>2, <2>1, ForgetKeepsOrder
<1>3. ASSUME NEW p \in Procs, Normalize(p) PROVE Kept
  <2>1. \A b \in Batches : stamp'[b] = stamp[b]
    BY <1>3 DEF Normalize, TypeOK, ConstantsAssumption
  <2>. QED BY <2>1
<1>4. ASSUME NEW p \in Procs, CommitRun(p) PROVE ForgetStamp(p)
  BY <1>4 DEF CommitRun, NewGold
<1>5. ASSUME NEW p \in Procs, Progress(p) PROVE Kept
  <2>1. CASE CommitRun(p)
    BY <1>2, <1>4, <2>1
  <2>2. CASE Conflict(p) \/ NormalizeFails(p)
    BY <1>2, <2>2 DEF Conflict, NormalizeFails, Fail
  <2>3. CASE Normalize(p)
    BY <1>3, <2>3
  <2>4. CASE \/ Fetch(p) \/ FetchFixture(p) \/ FetchFails(p) \/ Find(p) \/ Insert(p)
             \/ CommitBronze(p) \/ Unchanged(p) \/ NotPublished(p) \/ Gate(p) \/ Release(p)
    <3>1. UNCHANGED clock
      BY <2>4 DEF Fetch, FetchFixture, Retrieve, FetchFails, Find, Insert, CommitBronze,
                  Unchanged, NotPublished, Gate, Release
    <3>. QED BY <1>1, <3>1
  <2>. QED BY <1>5, <2>1, <2>2, <2>3, <2>4 DEF Progress
<1>6. ASSUME NEW p \in Procs, Attempt(p) \/ StartCli(p) PROVE Kept
  BY <1>1, <1>6 DEF Attempt, Acquire, Skip, StartCli
<1>7. ASSUME NEW p \in Procs, Crash(p) PROVE Kept
  BY <1>2, <1>7 DEF Crash
<1>8. \/ \E p \in Procs : Attempt(p) \/ StartCli(p)
      \/ \E p \in Procs : Progress(p)
      \/ \E p \in Procs : Crash(p)
      \/ UNCHANGED clock
  BY DEF Next, vars, Environment, Revise, GrantException, ExceptionExpires, LoseLock
<1>. HIDE DEF Kept
<1>9. Kept
  BY <1>1, <1>5, <1>6, <1>7, <1>8
<1>. QED BY <1>9 DEF Kept

(* Committed rows stay.                                                    *)
LEMMA RowsGrow == ASSUME [Next]_vars PROVE rows \subseteq rows'
<1>1. CASE UNCHANGED db
  BY <1>1 DEF db
<1>2. CASE \E p \in Procs : CommitBronze(p) \/ CommitRun(p)
  BY <1>2 DEF CommitBronze, CommitRun
<1>. QED
  BY <1>1, <1>2
     DEF Next, vars, Attempt, Progress, Environment, Acquire, Skip, StartCli, Fetch, FetchFixture,
         FetchFails, Retrieve, Find, Insert, Conflict, Fail, Unchanged, NotPublished, Normalize,
         NormalizeFails, Gate, Release, Revise, GrantException, ExceptionExpires, Crash, LoseLock

(* What a publication of a new gold version does to timestamps and rows.   *)
LEMMA NewGoldStamps ==
  ASSUME ConstantsAssumption, TypeOK, NEW p \in Procs, NewGold(p)
  PROVE  /\ Batch(p) \in Batches
         /\ rows' = rows \union pend[p] /\ GoldKey(Batch(p)) \in pend[p]
         /\ stamp'[Batch(p)] = stamp[p]
         /\ stamp'[p] = 0
         /\ \A x \in (Procs \union Batches) \ {p, Batch(p)} : stamp'[x] = stamp[x]
<1>1. Batch(p) \in Batches
  BY DEF NewGold, CommitRun, TypeOK, Batch, ConstantsAssumption
<1>2. /\ stamp' = [stamp EXCEPT ![Batch(p)] = stamp[p], ![p] = 0]
      /\ rows' = rows \union pend[p] /\ GoldKey(Batch(p)) \in pend[p]
  BY DEF NewGold, CommitRun, CreatesGold
<1>3. p # Batch(p) /\ stamp \in [Procs \union Batches -> Nat]
  BY <1>1 DEF ConstantsAssumption, TypeOK
<1>. QED BY <1>1, <1>2, <1>3

(* Every step keeps timestamps to published versions.                      *)
LEMMA StampsStep ==
  ASSUME ConstantsAssumption, TypeOK, StampsArePublished, [Next]_vars
  PROVE  StampsArePublished'
<1>1. rows \subseteq rows'
  BY RowsGrow
<1>2. CASE \A p \in Procs : ~NewGold(p)
  BY <1>1, <1>2, VersionsKeepOrder DEF StampsArePublished
<1>3. ASSUME NEW p \in Procs, NewGold(p) PROVE StampsArePublished'
  <2>. SUFFICES ASSUME NEW b \in Batches, stamp'[b] # 0 PROVE GoldKey(b) \in rows'
    BY DEF StampsArePublished
  <2>1. CASE b = Batch(p)
    BY <1>3, <2>1, NewGoldStamps
  <2>2. CASE b # Batch(p)
    <3>1. b # p
      BY DEF ConstantsAssumption
    <3>2. stamp'[b] = stamp[b]
      BY <1>3, <2>2, <3>1, NewGoldStamps
    <3>. QED BY <1>1, <3>2 DEF StampsArePublished
  <2>. QED BY <2>1, <2>2
<1>. QED BY <1>2, <1>3

(* A run that creates a gold version passed, and its record is a new one.  *)
LEMMA NewGoldPassed ==
  ASSUME ConstantsAssumption, SafetyInv, NEW p \in Procs, NewGold(p)
  PROVE  /\ \E r \in runs' \ runs : BatchOf[r.payload] = Batch(p) /\ r.status = "succeeded"
         /\ GoldKey(Batch(p)) \notin rows
<1>1. TypeOK /\ ProcessInv(p) /\ DbInv /\ pc[p] = "commit run"
  BY DEF SafetyInv, NewGold, CommitRun
<1>2. GoldKey(Batch(p)) \in pend[p] /\ runs' = runs \union {RunRecord(p)}
  BY DEF NewGold, CommitRun, CreatesGold
<1>3. Publishes(p)
  <2>1. GoldKey(Batch(p)) \notin {CatalogKey, DimensionsKey, BronzeKey(got[p]),
                                  SilverKey(Batch(p)), QuarantineKey(Batch(p)),
                                  BronzeEdge(got[p]), GoldEdge(Batch(p))}
    BY KeysDiffer
  <2>. QED BY <1>1, <1>2, <2>1 DEF ProcessInv, HoldsOwnKeys
<1>4. RunRecord(p).status = "succeeded" /\ BatchOf[RunRecord(p).payload] = Batch(p)
  BY <1>3, RecordGives DEF Publishes, Batch
<1>5. GoldEdge(Batch(p)) \notin rows /\ GoldKey(Batch(p)) \notin rows
  BY <1>1, <1>2, <1>3 DEF ProcessInv, HasWritten
<1>6. RunRecord(p) \notin runs
  BY <1>1, <1>4, <1>5 DEF DbInv, Recorded
<1>. QED BY <1>2, <1>4, <1>5, <1>6

(* A version that becomes the served one is the one just published.        *)
LEMMA ServedByPublication ==
  ASSUME ConstantsAssumption, SafetyInv, StampsArePublished, [Next]_vars,
         NEW b \in Batches, Serves(b)', ~Serves(b)
  PROVE  \E r \in runs' \ runs : BatchOf[r.payload] = b /\ r.status = "succeeded"
<1>1. TypeOK /\ TypeOK'
  BY StepType DEF SafetyInv
<1>2. \A c \in Batches : stamp[c] \in Nat /\ stamp'[c] \in Nat
  BY <1>1 DEF TypeOK
<1>3. stamp'[b] > 0 /\ \A c \in Batches : stamp'[c] <= stamp'[b]
  BY DEF Serves
<1>4. CASE \A p \in Procs : ~NewGold(p)
  <2>1. stamp[b] > 0
    BY <1>1, <1>2, <1>3, <1>4, VersionsKeepOrder
  <2>2. ASSUME NEW c \in Batches PROVE stamp[c] <= stamp[b]
    <3>1. ~(stamp'[b] < stamp'[c])
      BY <1>2, <1>3
    <3>2. ~(stamp[b] < stamp[c])
      BY <1>1, <1>4, <3>1, VersionsKeepOrder
    <3>. QED BY <1>2, <3>2
  <2>. QED BY <2>1, <2>2 DEF Serves
<1>5. ASSUME NEW p \in Procs, NewGold(p), b # Batch(p) PROVE FALSE
  <2>1. \A c \in Batches : c # p
    BY DEF ConstantsAssumption
  <2>2. \A c \in Batches : c # Batch(p) => stamp'[c] = stamp[c]
    BY <1>1, <1>5, <2>1, NewGoldStamps
  <2>3. Batch(p) \in Batches /\ stamp[Batch(p)] = 0
    BY <1>1, <1>5, NewGoldStamps, NewGoldPassed DEF StampsArePublished
  <2>4. stamp[b] > 0
    BY <1>3, <1>5, <2>2
  <2>5. ASSUME NEW c \in Batches PROVE stamp[c] <= stamp[b]
    <3>1. CASE c = Batch(p)
      BY <1>2, <2>3, <3>1
    <3>2. CASE c # Batch(p)
      BY <1>3, <1>5, <2>2, <3>2
    <3>. QED BY <3>1, <3>2
  <2>. QED BY <2>4, <2>5 DEF Serves
<1>. QED BY <1>4, <1>5, NewGoldPassed

(* The version consumers read is replaced only together with a run that    *)
(* passed its gate: rejected candidates, conflicts, crashes and runs that  *)
(* find everything published leave it, however they interleave.            *)
THEOREM LastKnownGoodStays == Spec => LastKnownGoodKept
<1>1. Init => StampsArePublished
  BY DEF Init, StampsArePublished
<1>2. SafetyInv /\ StampsArePublished /\ [Next]_vars => StampsArePublished'
  BY StampsStep, ConstantsAssumption DEF SafetyInv
<1>3. SafetyInv /\ StampsArePublished /\ [Next]_vars =>
        [\A b \in Batches : Serves(b)' /\ ~Serves(b) =>
           \E r \in runs' \ runs : BatchOf[r.payload] = b /\ r.status = "succeeded"]_vars
  BY ServedByPublication, ConstantsAssumption
<1>. QED BY <1>1, <1>2, <1>3, SafetyHolds, PTL DEF Spec, LastKnownGoodKept
-----------------------------------------------------------------------------
(* Source order.  When only workers ingest, and hold the lock while they   *)
(* do, a run that is past its fetch has the newest retrieval of all, and   *)
(* the newest timestamp from the moment it takes one.                      *)
Fetched(p) == pc[p] \notin {"idle", "fetch", "release"}
Timed == {"dimensions", "gate", "silver", "quarantine", "gold", "bronze edge", "gold edge",
          "commit run"}

RunIsNewest(p) ==
  /\ Fetched(p) => gotAt[p] <= revision /\ \A b \in Batches : retrievedAt[b] <= gotAt[p]
  /\ pc[p] \in Timed <=> stamp[p] # 0
  /\ pc[p] \in Timed => \A b \in Batches : stamp[b] < stamp[p]

InSourceOrder ==
  \A b, c \in Batches : stamp[b] < stamp[c] => retrievedAt[b] <= retrievedAt[c]

OrderInv ==
  /\ \A b \in Batches : /\ retrievedAt[b] <= revision
                        /\ stamp[b] = 0 => retrievedAt[b] = 0
  /\ \A p \in Procs : RunIsNewest(p)
  /\ InSourceOrder

(* Nobody runs beside the worker that holds the lock.                      *)
OnlyWorkers == Operators = {} /\ Flaky = {}

(* A step that takes no timestamp and publishes nothing.                   *)
LEMMA QuietOrder ==
  ASSUME TypeOK, TypeOK', OrderInv, UNCHANGED <<stamp, retrievedAt>>, revision <= revision',
         \A p \in Procs : /\ pc'[p] \in Timed <=> pc[p] \in Timed
                          /\ Fetched(p)' => \/ gotAt'[p] = revision
                                            \/ Fetched(p) /\ gotAt'[p] = gotAt[p]
  PROVE  OrderInv'
<1>1. /\ revision \in Nat /\ revision' \in Nat
      /\ \A b \in Batches : retrievedAt[b] \in Nat
      /\ \A p \in Procs : gotAt[p] \in Nat /\ gotAt'[p] \in Nat
  BY DEF TypeOK
<1>2. ASSUME NEW b \in Batches
      PROVE  retrievedAt'[b] <= revision' /\ (stamp'[b] = 0 => retrievedAt'[b] = 0)
  BY <1>1 DEF OrderInv
<1>3. ASSUME NEW p \in Procs PROVE RunIsNewest(p)'
  <2>1. RunIsNewest(p) /\ \A b \in Batches : retrievedAt[b] <= revision
    BY DEF OrderInv
  <2>2. ASSUME Fetched(p)'
        PROVE  gotAt'[p] <= revision' /\ \A b \in Batches : retrievedAt[b] <= gotAt'[p]
    BY <1>1, <2>1, <2>2 DEF RunIsNewest
  <2>. QED BY <2>1, <2>2 DEF RunIsNewest
<1>4. InSourceOrder'
  BY DEF OrderInv, InSourceOrder
<1>. QED BY <1>2, <1>3, <1>4 DEF OrderInv

(* The end of a run that leaves no version.                                *)
LEMMA ForgetOrder ==
  ASSUME ConstantsAssumption, TypeOK, OrderInv, NEW p \in Procs, ForgetStamp(p),
         UNCHANGED <<retrievedAt, revision>>, pc'[p] \in {"idle", "release"},
         \A q \in Procs \ {p} : pc'[q] = pc[q] /\ gotAt'[q] = gotAt[q]
  PROVE  OrderInv'
<1>1. Batches \subseteq (Procs \union Batches) \ {p}
  BY DEF ConstantsAssumption
<1>2. ASSUME NEW b \in Batches
      PROVE  retrievedAt'[b] <= revision' /\ (stamp'[b] = 0 => retrievedAt'[b] = 0)
  BY <1>1, ForgetKeepsOrder DEF OrderInv
<1>3. ASSUME NEW q \in Procs PROVE RunIsNewest(q)'
  <2>1. CASE q = p
    <3>1. stamp'[p] = 0
      BY ForgetKeepsOrder
    <3>. QED BY <2>1, <3>1 DEF RunIsNewest, Fetched, Timed
  <2>2. CASE q # p
    <3>1. RunIsNewest(q)
      BY DEF OrderInv
    <3>2. /\ stamp'[q] = 0 <=> stamp[q] = 0
          /\ \A b \in Batches : stamp'[b] < stamp'[q] <=> stamp[b] < stamp[q]
      BY <1>1, <2>2, ForgetKeepsOrder
    <3>. QED BY <2>2, <3>1, <3>2 DEF RunIsNewest, Fetched
  <2>. QED BY <2>1, <2>2
<1>4. InSourceOrder'
  BY <1>1, ForgetKeepsOrder DEF OrderInv, InSourceOrder
<1>. QED BY <1>2, <1>3, <1>4 DEF OrderInv

(* A run takes its timestamp: later than all there are.                    *)
LEMMA NormalizeOrder ==
  ASSUME ConstantsAssumption, TypeOK, OrderInv, NEW p \in Procs, Normalize(p)
  PROVE  OrderInv'
<1>1. /\ pc[p] = "normalize"
      /\ stamp' = [stamp EXCEPT ![p] = latest + 1]
      /\ pc' = [pc EXCEPT ![p] = "dimensions"]
      /\ UNCHANGED <<gotAt, retrievedAt, revision>>
  BY DEF Normalize, GoTo, env, db
<1>2. /\ pc'[p] = "dimensions" /\ \A q \in Procs \ {p} : pc'[q] = pc[q]
      /\ stamp'[p] = latest + 1
      /\ \A x \in (Procs \union Batches) \ {p} : stamp'[x] = stamp[x]
  BY <1>1 DEF TypeOK
<1>3. \A b \in Batches : b # p /\ stamp'[b] = stamp[b]
  BY <1>2 DEF ConstantsAssumption
<1>4. latest \in Nat /\ \A b \in Batches : stamp[b] \in Nat /\ stamp[b] <= latest
  BY DEF TypeOK
<1>5. ASSUME NEW q \in Procs PROVE RunIsNewest(q)'
  <2>1. RunIsNewest(q)
    BY DEF OrderInv
  <2>2. CASE q = p
    <3>1. Fetched(p)
      BY <1>1 DEF Fetched
    <3>2. stamp'[p] # 0 /\ \A b \in Batches : stamp'[b] < stamp'[p]
      BY <1>2, <1>3, <1>4
    <3>. QED BY <1>1, <1>2, <2>1, <2>2, <3>1, <3>2 DEF RunIsNewest, Timed
  <2>3. CASE q # p
    BY <1>1, <1>2, <1>3, <2>1, <2>3 DEF RunIsNewest, Fetched
  <2>. QED BY <2>2, <2>3
<1>6. InSourceOrder'
  BY <1>1, <1>3 DEF OrderInv, InSourceOrder
<1>. QED BY <1>1, <1>3, <1>5, <1>6 DEF OrderInv

(* A publication: its retrieval and its timestamp are the newest, and no   *)
(* other run is under way that could have an older one.                    *)
LEMMA NewGoldOrder ==
  ASSUME ConstantsAssumption, OnlyWorkers, TypeOK, LockInv, OrderInv, NEW p \in Procs, NewGold(p)
  PROVE  OrderInv'
<1>1. /\ pc[p] = "commit run"
      /\ pc' = [pc EXCEPT ![p] = "release"]
      /\ retrievedAt' = [retrievedAt EXCEPT ![Batch(p)] = gotAt[p]]
      /\ UNCHANGED <<gotAt, revision>>
  BY DEF NewGold, CommitRun, EndRun, GoTo, env
<1>2. /\ pc'[p] = "release" /\ \A q \in Procs \ {p} : pc'[q] = pc[q]
      /\ Batch(p) \in Batches
      /\ retrievedAt'[Batch(p)] = gotAt[p]
      /\ \A b \in Batches \ {Batch(p)} : retrievedAt'[b] = retrievedAt[b]
  <2>1. Batch(p) \in Batches
    BY NewGoldStamps
  <2>2. pc \in [Procs -> Stages] /\ retrievedAt \in [Batches -> Nat]
    BY DEF TypeOK
  <2>3. retrievedAt'[Batch(p)] = gotAt[p]
    BY <1>1, <2>1, <2>2
  <2>4. \A b \in Batches \ {Batch(p)} : retrievedAt'[b] = retrievedAt[b]
    BY <1>1, <2>2
  <2>5. pc'[p] = "release" /\ \A q \in Procs \ {p} : pc'[q] = pc[q]
    BY <1>1, <2>2
  <2>. QED BY <2>1, <2>3, <2>4, <2>5
<1>3. /\ stamp'[Batch(p)] = stamp[p] /\ stamp'[p] = 0
      /\ \A b \in Batches \ {Batch(p)} : stamp'[b] = stamp[b]
  <2>1. \A b \in Batches : b # p
    BY DEF ConstantsAssumption
  <2>. QED BY <2>1, NewGoldStamps
<1>4. /\ gotAt[p] <= revision /\ \A b \in Batches : retrievedAt[b] <= gotAt[p]
      /\ stamp[p] # 0 /\ \A b \in Batches : stamp[b] < stamp[p]
  BY <1>1 DEF OrderInv, RunIsNewest, Fetched, Timed
<1>5. /\ revision \in Nat /\ gotAt[p] \in Nat /\ stamp[p] \in Nat
      /\ \A b \in Batches : retrievedAt[b] \in Nat /\ stamp[b] \in Nat
  BY DEF TypeOK
<1>6. ASSUME NEW b \in Batches
      PROVE  retrievedAt'[b] <= revision' /\ (stamp'[b] = 0 => retrievedAt'[b] = 0)
  <2>0. revision' = revision
    BY <1>1
  <2>1. CASE b = Batch(p)
    <3>1. retrievedAt'[b] = gotAt[p] /\ stamp'[b] = stamp[p]
      BY <1>2, <1>3, <2>1
    <3>. QED BY <1>4, <2>0, <3>1
  <2>2. CASE b # Batch(p)
    <3>1. retrievedAt'[b] = retrievedAt[b] /\ stamp'[b] = stamp[b]
      BY <1>2, <1>3, <2>2
    <3>. QED BY <2>0, <3>1 DEF OrderInv
  <2>. QED BY <2>1, <2>2
<1>7. ASSUME NEW q \in Procs PROVE RunIsNewest(q)'
  <2>1. CASE q = p
    BY <1>2, <1>3, <2>1 DEF RunIsNewest, Fetched, Timed
  <2>2. CASE q # p
    <3>1. ~Busy(q)
      BY <1>1, <2>2 DEF OnlyWorkers, Procs, LockInv, Busy
    <3>2. pc[q] \in {"idle", "release"} /\ pc'[q] = pc[q]
      BY <1>2, <2>2, <3>1 DEF Busy
    <3>3. stamp[q] = 0
      BY <3>2 DEF OrderInv, RunIsNewest, Timed
    <3>4. stamp'[q] = 0
      <4>1. q # Batch(p)
        BY <1>2 DEF ConstantsAssumption
      <4>. QED BY <2>2, <3>3, <4>1, NewGoldStamps
    <3>. QED BY <3>2, <3>4 DEF RunIsNewest, Fetched, Timed
  <2>. QED BY <2>1, <2>2
<1>8. InSourceOrder'
  <2>. SUFFICES ASSUME NEW b \in Batches, NEW c \in Batches, stamp'[b] < stamp'[c]
                PROVE  retrievedAt'[b] <= retrievedAt'[c]
    BY DEF InSourceOrder
  <2>1. CASE b = Batch(p)
    BY <1>2, <1>3, <1>4, <1>5, <2>1
  <2>2. CASE b # Batch(p) /\ c = Batch(p)
    BY <1>2, <1>4, <2>2
  <2>3. CASE b # Batch(p) /\ c # Batch(p)
    BY <1>2, <1>3, <2>3 DEF OrderInv, InSourceOrder
  <2>. QED BY <2>1, <2>2, <2>3
<1>. QED BY <1>6, <1>7, <1>8 DEF OrderInv

(* Looking keys up and inserting them happens before the timestamp or      *)
(* after it, never across.                                                 *)
LEMMA KeyStepsStayTimed ==
  ASSUME TypeOK, NEW p \in Procs, Find(p) \/ Insert(p)
  PROVE  /\ \A q \in Procs : /\ pc'[q] \in Timed <=> pc[q] \in Timed
                             /\ Fetched(q)' => Fetched(q)
<1>1. pc[p] \in InsertStages
  BY DEF Find, Insert, MustInsert, InsertStages, LookupStages
<1>2. AfterSilver(p) \in {"gold", "commit run"}
  BY DEF AfterSilver
<1>3. NextStage(p) \in Timed <=> pc[p] \in Timed
  BY <1>1, <1>2, StageTable DEF Timed, InsertStages, LookupStages
<1>4. pc' = [pc EXCEPT ![p] = NextStage(p)] \/ pc' = pc
  BY DEF Find, Insert, GoTo
<1>5. /\ pc'[p] \in {NextStage(p), pc[p]}
      /\ \A q \in Procs \ {p} : pc'[q] = pc[q]
  BY <1>4 DEF TypeOK
<1>6. Fetched(p)
  BY <1>1 DEF Fetched, InsertStages, LookupStages
<1>. QED BY <1>3, <1>5, <1>6 DEF Fetched

(* Every step keeps the order.                                             *)
LEMMA OrderStep ==
  ASSUME ConstantsAssumption, OnlyWorkers, TypeOK, LockInv, OrderInv, [Next]_vars
  PROVE  OrderInv'
<1>1. TypeOK'
  BY StepType
<1>2. revision \in Nat
  BY DEF TypeOK
<1>. DEFINE Same(q) == pc'[q] = pc[q] /\ gotAt'[q] = gotAt[q]
<1>3. ASSUME NEW p \in Procs, Attempt(p) \/ StartCli(p) \/ FetchFails(p) \/ Unchanged(p)
                              \/ CommitBronze(p) \/ NotPublished(p)
      PROVE  OrderInv'
  <2>1. /\ UNCHANGED <<stamp, retrievedAt, revision, gotAt>>
        /\ pc[p] \notin Timed
        /\ \E s \in {"fetch", "release", "lookup", "normalize"} :
              /\ pc' = [pc EXCEPT ![p] = s]
              /\ s \in {"lookup", "normalize"} => Fetched(p)
    BY <1>3 DEF Attempt, Acquire, Skip, StartCli, FetchFails, Unchanged, CommitBronze,
                NotPublished, EndRun, GoTo, env, db, clock, Timed, Fetched
  <2>2. \A q \in Procs : /\ pc'[q] \in Timed <=> pc[q] \in Timed
                         /\ Fetched(q)' => Fetched(q)
    BY <2>1 DEF TypeOK, Timed, Fetched
  <2>. QED BY <1>1, <1>2, <2>1, <2>2, QuietOrder
<1>4. ASSUME NEW p \in Procs, Fetch(p) \/ FetchFixture(p) PROVE OrderInv'
  <2>1. /\ UNCHANGED <<stamp, retrievedAt, revision>>
        /\ pc[p] = "fetch" /\ pc' = [pc EXCEPT ![p] = "catalog"]
        /\ gotAt' = [gotAt EXCEPT ![p] = revision]
    BY <1>4 DEF Fetch, FetchFixture, Retrieve, GoTo, env, db, clock
  <2>2. \A q \in Procs : /\ pc'[q] \in Timed <=> pc[q] \in Timed
                         /\ Fetched(q)' => \/ gotAt'[q] = revision
                                           \/ Fetched(q) /\ gotAt'[q] = gotAt[q]
    BY <2>1 DEF TypeOK, Timed, Fetched
  <2>. QED BY <1>1, <1>2, <2>1, <2>2, QuietOrder
<1>5. ASSUME NEW p \in Procs, Find(p) \/ Insert(p) PROVE OrderInv'
  <2>1. UNCHANGED <<stamp, retrievedAt, revision, gotAt>>
    BY <1>5 DEF Find, Insert, env, db, clock
  <2>. QED BY <1>1, <1>2, <1>5, <2>1, KeyStepsStayTimed, QuietOrder
<1>6. ASSUME NEW p \in Procs, Gate(p) \/ Release(p) PROVE OrderInv'
  <2>1. UNCHANGED <<stamp, retrievedAt, revision>>
    BY <1>6 DEF Gate, Release, env, db, clock
  <2>2. /\ \A q \in Procs \ {p} : Same(q)
        /\ \/ pc[p] = "gate" /\ pc'[p] = "silver" /\ gotAt'[p] = gotAt[p]
           \/ pc[p] = "release" /\ pc'[p] = "idle"
    BY <1>6 DEF Gate, Release, GoTo, TypeOK
  <2>3. ASSUME NEW q \in Procs
        PROVE  /\ pc'[q] \in Timed <=> pc[q] \in Timed
               /\ Fetched(q)' => Fetched(q) /\ gotAt'[q] = gotAt[q]
    <3>1. CASE q = p
      BY <2>2, <3>1 DEF Timed, Fetched
    <3>2. CASE q # p
      BY <2>2, <3>2 DEF Fetched
    <3>. QED BY <3>1, <3>2
  <2>. QED BY <1>1, <1>2, <2>1, <2>3, QuietOrder
<1>7. ASSUME NEW p \in Procs, Conflict(p) \/ NormalizeFails(p) \/ Crash(p)
                              \/ (CommitRun(p) /\ ~NewGold(p))
      PROVE  OrderInv'
  <2>1. /\ ForgetStamp(p) /\ UNCHANGED <<retrievedAt, revision>>
        /\ pc' = [pc EXCEPT ![p] = "release"] \/ pc' = [pc EXCEPT ![p] = "idle"]
        /\ gotAt' = gotAt \/ gotAt' = [gotAt EXCEPT ![p] = 0]
    BY <1>7 DEF Conflict, NormalizeFails, Crash, CommitRun, NewGold, Fail, EndRun, GoTo, env, db
  <2>2. pc'[p] \in {"idle", "release"} /\ \A q \in Procs \ {p} : Same(q)
    BY <2>1 DEF TypeOK
  <2>. QED BY <2>1, <2>2, ForgetOrder
<1>8. ASSUME UNCHANGED <<clock, retrievedAt, pc, gotAt>>, revision' \in {revision, revision + 1}
      PROVE  OrderInv'
  BY <1>1, <1>2, <1>8, QuietOrder DEF clock, Fetched
<1>9. ASSUME NEW p \in Procs, Progress(p) PROVE OrderInv'
  BY <1>3, <1>4, <1>5, <1>6, <1>7, <1>9, NormalizeOrder, NewGoldOrder DEF Progress, NewGold
<1>10. ASSUME NEW p \in Procs, Attempt(p) \/ StartCli(p) PROVE OrderInv'
  BY <1>3, <1>10
<1>11. ASSUME NEW p \in Procs, Crash(p) PROVE OrderInv'
  BY <1>7, <1>11
<1>12. CASE /\ ~\E p \in Procs : Attempt(p) \/ StartCli(p) \/ Progress(p)
            /\ ~\E p \in Procs : Crash(p)
  <2>1. UNCHANGED <<clock, retrievedAt, pc, gotAt>> /\ revision' \in {revision, revision + 1}
    BY <1>12 DEF Next, vars, Environment, Revise, GrantException, ExceptionExpires, LoseLock,
                 env, db, local
  <2>. QED BY <1>8, <2>1
<1>. QED BY <1>9, <1>10, <1>11, <1>12

(* While only workers that keep their lock ingest, what consumers read     *)
(* never goes back to an older state of the source: a version with a later *)
(* processed_at was fetched no earlier, for any number of replicas, any    *)
(* feed and any crashes.                                                   *)
THEOREM ServedInSourceOrder == ASSUME OnlyWorkers PROVE Spec => []PublishedInSourceOrder
<1>1. Init => LockInv /\ OrderInv
  <2>. HAVE Init
  <2>1. LockInv
    BY DEF Init, LockInv, Busy, Procs
  <2>2. revision = 1 /\ \A b \in Batches : retrievedAt[b] = 0 /\ stamp[b] = 0
    BY DEF Init
  <2>3. \A p \in Procs : pc[p] = "idle" /\ stamp[p] = 0
    BY DEF Init
  <2>4. \A p \in Procs : RunIsNewest(p)
    BY <2>3 DEF RunIsNewest, Fetched, Timed
  <2>. QED BY <2>1, <2>2, <2>4 DEF OrderInv, InSourceOrder
<1>2. TypeOK /\ LockInv /\ OrderInv /\ [Next]_vars => LockInv' /\ OrderInv'
  BY LockStep, OrderStep, ConstantsAssumption DEF OnlyWorkers
<1>3. OrderInv => PublishedInSourceOrder
  BY DEF OrderInv, InSourceOrder, PublishedInSourceOrder, Published
<1>. QED BY <1>1, <1>2, <1>3, TypeCorrect, PTL DEF Spec
=============================================================================
