---------------------------- MODULE IngestProofs ----------------------------
(***************************************************************************)
(* Proofs about Ingest, for every set of jobs, datasets, events and        *)
(* requests, every pool size and every bound on ids.                       *)
(***************************************************************************)
EXTENDS Ingest, Induction, SequenceTheorems, TLAPS

-----------------------------------------------------------------------------
(* The rows and what an event does to them. *)

\* Every statement of ingest() upserts a row of the schema.
LEMMA StepsInKeys ==
    ASSUME NEW e \in Events
    PROVE  /\ e.job \in Jobs /\ e.run \in RunIds
           /\ <<JobKey(e.job), RunKey(e.job, e.run)>> \in Seq(Keys)
           /\ DatasetSteps(e.job, e.inputs, "input") \in Seq(Keys)
           /\ DatasetSteps(e.job, e.outputs, "output") \in Seq(Keys)
<1>1. e \in Event
  BY EventsAssumption
<1>2. ASSUME NEW ds \in Seq(Datasets), NEW dir \in Directions
      PROVE  DatasetSteps(e.job, ds, dir) \in Seq(Keys)
  <2>1. ASSUME NEW i \in 1 .. 3 * Len(ds)
        PROVE  DatasetSteps(e.job, ds, dir)[i] \in Keys
    <3>1. ds[(i + 2) \div 3] \in Datasets
      <4>1. (i + 2) \div 3 \in 1 .. Len(ds)
        OBVIOUS
      <4>2. QED BY <4>1
    <3>2. ConnOf[ds[(i + 2) \div 3]] \in Conns
      BY <3>1, DatasetsAssumption
    <3>3. e.job \in Jobs
      BY <1>1 DEF Event
    <3>4. /\ ConnKey(ConnOf[ds[(i + 2) \div 3]]) \in Keys
          /\ DatasetKey(ds[(i + 2) \div 3]) \in Keys
          /\ EdgeKey(e.job, ds[(i + 2) \div 3], dir) \in Keys
      BY <3>1, <3>2, <3>3 DEF Keys
    <3>5. QED BY <3>4 DEF DatasetSteps
  <2>2. DatasetSteps(e.job, ds, dir) \in [1 .. 3 * Len(ds) -> Keys]
    BY <2>1 DEF DatasetSteps
  <2>3. 3 * Len(ds) \in Nat
    OBVIOUS
  <2>4. QED BY <2>2, <2>3
<1>3. /\ e.inputs \in Seq(Datasets) /\ e.outputs \in Seq(Datasets)
      /\ e.job \in Jobs /\ e.run \in RunIds
  BY <1>1 DEF Event
<1>4. <<JobKey(e.job), RunKey(e.job, e.run)>> \in Seq(Keys)
  BY <1>3 DEF Keys
<1>5. /\ DatasetSteps(e.job, e.inputs, "input") \in Seq(Keys)
      /\ DatasetSteps(e.job, e.outputs, "output") \in Seq(Keys)
  BY <1>2, <1>3 DEF Directions
<1>6. QED BY <1>3, <1>4, <1>5

LEMMA PlanInKeys == ASSUME NEW e \in Events PROVE Plan(e) \in Seq(Keys)
BY StepsInKeys DEF Plan

\* Inference stays within the types the schema's CHECK constraints list.
LEMMA InferredJobType == ASSUME NEW e \in Events PROVE InferJobType(e) \in JobTypes
<1> DEFINE hits == {i \in 1..6 : Keywords[i] \in e.producer}
<1>1. CASE hits = {}
  BY <1>1 DEF InferJobType, JobTypes
<1>2. CASE hits # {}
  <2> DEFINE least == CHOOSE i \in hits : \A j \in hits : i <= j
  <2>1. \E i \in hits : \A j \in hits : i <= j
    <3>1. hits \subseteq 1..6
      OBVIOUS
    <3> HIDE DEF hits
    <3>2. ASSUME NEW n \in 1..6, n \in hits, \A m \in 1..6 : m < n => m \notin hits
          PROVE  \A j \in hits : n <= j
      BY <3>1, <3>2
    <3>3. \/ 1 \in hits \/ 2 \in hits \/ 3 \in hits
          \/ 4 \in hits \/ 5 \in hits \/ 6 \in hits
      <4>1. PICK n \in hits : TRUE
        BY <1>2
      <4>2. n \in 1..6
        BY <3>1
      <4>3. QED BY <4>1, <4>2
    <3>4. \E n \in 1..6 : n \in hits /\ \A m \in 1..6 : m < n => m \notin hits
      BY <3>3
    <3>5. QED BY <3>2, <3>4
  <2>2. least \in 1..6
    BY <2>1
  <2> HIDE DEF hits, least
  <2>3. <<"spark", "flink", "airflow_task", "fastapi", "trino_query", "python">>[least] \in JobTypes
    BY <2>2 DEF JobTypes
  <2>4. InferJobType(e) = <<"spark", "flink", "airflow_task", "fastapi", "trino_query", "python">>[least]
    BY <1>2 DEF InferJobType, hits, least
  <2>5. QED BY <2>3, <2>4
<1>3. QED BY <1>1, <1>2

\* An upsert leaves a row of its table, whatever it found there.
LEMMA UpsertType ==
    ASSUME NEW e \in Events, NEW k \in Keys, NEW old \in RowsOf(k) \cup {NULL}
    PROVE  Upsert(e, k, old) \in RowsOf(k)
<1>1. e \in Event
  BY EventsAssumption
<1>2. CASE k \in {JobKey(j) : j \in Jobs}
  <2>1. k.tbl = "job"
    BY <1>2 DEF JobKey
  <2>2. UpsertJob(e, old) \in JobRows
    BY <2>1, InferredJobType DEF UpsertJob, RowsOf, JobRows
  <2>3. QED BY <2>1, <2>2 DEF Upsert, RowsOf
<1>3. CASE k \in {RunKey(j, r) : j \in Jobs, r \in RunIds}
  <2>1. k.tbl = "job_run"
    BY <1>3 DEF RunKey
  <2>2. old \in RunRows \cup {NULL}
    BY <2>1 DEF RowsOf
  <2>3. /\ e.time \in Times \cup {NULL}
        /\ StartTime(e) \in Times \cup {NULL} /\ EndTime(e) \in Times \cup {NULL}
    BY <1>1 DEF Event, StartTime, EndTime
  <2>4. StatusOf(e) \in Statuses
    BY <1>1 DEF Event, EventTypes, StatusOf, Statuses
  <2>5. UpsertRun(e, old) \in RunRows
    BY <2>2, <2>3, <2>4 DEF UpsertRun, RunRows, Coalesce
  <2>6. QED BY <2>1, <2>5 DEF Upsert, RowsOf
<1>4. CASE k \in {ConnKey(c) : c \in Conns}
  <2>1. k.tbl = "connection"
    BY <1>4 DEF ConnKey
  <2>2. UpsertMinimal(old) \in ConnRows
    BY <2>1 DEF UpsertMinimal, RowsOf, ConnRows
  <2>3. QED BY <2>1, <2>2 DEF Upsert, RowsOf
<1>5. CASE k \in {DatasetKey(d) : d \in Datasets}
  <2>1. k.tbl = "dataset"
    BY <1>5 DEF DatasetKey
  <2>2. UpsertDataset(e, k.dataset, old) \in DatasetRows
    BY <2>1 DEF UpsertDataset, RowsOf, DatasetRows, InferDatasetType, DatasetTypes
  <2>3. QED BY <2>1, <2>2 DEF Upsert, RowsOf
<1>6. CASE k \in {EdgeKey(j, d, dir) : j \in Jobs, d \in Datasets, dir \in Directions}
  <2>1. k.tbl = "lineage_edge" /\ k.dataset \in Datasets
    BY <1>6 DEF EdgeKey
  <2>2. Mapping(e, k.dataset, k.direction) \in ColMaps \cup {NULL}
    BY <1>1, <2>1 DEF Event, Mapping
  <2>3. old \in EdgeRows \cup {NULL}
    BY <2>1 DEF RowsOf
  <2>4. UpsertEdge(e, k.dataset, k.direction, old) \in EdgeRows
    BY <2>2, <2>3 DEF UpsertEdge, EdgeRows, Coalesce
  <2>5. QED BY <2>1, <2>4 DEF Upsert, RowsOf
<1>7. QED BY <1>2, <1>3, <1>4, <1>5, <1>6 DEF Keys

\* A table's rows are rows, and none of them is NULL.
LEMMA RowsOfKey == ASSUME NEW k \in Keys PROVE RowsOf(k) \subseteq Row /\ NULL \notin RowsOf(k)
<1>1. k.tbl \in {"job", "job_run", "connection", "dataset", "lineage_edge"}
  BY DEF Keys, JobKey, RunKey, ConnKey, DatasetKey, EdgeKey
<1>2. QED BY <1>1, NullAssumption DEF RowsOf, Row

\* Naming a row twice in one event changes nothing: every upsert is idempotent.
LEMMA UpsertIdempotent ==
    ASSUME NEW e \in Events, NEW k \in Keys, NEW old \in RowsOf(k) \cup {NULL}
    PROVE  Upsert(e, k, Upsert(e, k, old)) = Upsert(e, k, old)
<1> DEFINE new == Upsert(e, k, old)
<1>1. new # NULL
  BY UpsertType, RowsOfKey
<1>2. k.tbl \in {"job", "job_run", "connection", "dataset", "lineage_edge"}
  BY DEF Keys, JobKey, RunKey, ConnKey, DatasetKey, EdgeKey
<1>3. CASE k.tbl = "job"
  BY <1>1, <1>3 DEF Upsert, UpsertJob
<1>4. CASE k.tbl = "job_run"
  BY <1>1, <1>4 DEF Upsert, UpsertRun, Coalesce, StartTime, EndTime, IsTerminal, TerminalTypes
<1>5. CASE k.tbl = "connection"
  BY <1>1, <1>5 DEF Upsert, UpsertMinimal
<1>6. CASE k.tbl = "dataset"
  BY <1>1, <1>6 DEF Upsert, UpsertDataset
<1>7. CASE k.tbl = "lineage_edge"
  BY <1>1, <1>7 DEF Upsert, UpsertEdge, Coalesce
<1>8. QED BY <1>2, <1>3, <1>4, <1>5, <1>6, <1>7

\* The first two statements are the job's and the run's.
LEMMA PlanHead ==
    ASSUME NEW e \in Events
    PROVE  /\ Len(Plan(e)) \in Nat /\ Len(Plan(e)) >= 2
           /\ Plan(e)[1] = JobKey(e.job) /\ Plan(e)[2] = RunKey(e.job, e.run)
<1> DEFINE head  == <<JobKey(e.job), RunKey(e.job, e.run)>>
           ins   == DatasetSteps(e.job, e.inputs, "input")
           outs  == DatasetSteps(e.job, e.outputs, "output")
           front == head \o ins
<1>1. head \in Seq(Keys) /\ ins \in Seq(Keys) /\ outs \in Seq(Keys)
  BY StepsInKeys
<1>2. Len(head) = 2 /\ head[1] = JobKey(e.job) /\ head[2] = RunKey(e.job, e.run)
  OBVIOUS
<1>3. Plan(e) = front \o outs
  BY DEF Plan
<1> HIDE DEF head, ins, outs
<1>4. /\ front \in Seq(Keys) /\ Len(front) \in Nat /\ Len(front) >= 2
      /\ front[1] = head[1] /\ front[2] = head[2]
  <2>1. Len(ins) \in Nat
    BY <1>1
  <2>2. front \in Seq(Keys) /\ Len(front) = Len(head) + Len(ins)
    BY <1>1, ConcatProperties
  <2>3. \A i \in 1 .. Len(head) + Len(ins) : i <= Len(head) => front[i] = head[i]
    BY <1>1, ConcatProperties
  <2>4. 1 \in 1 .. Len(head) + Len(ins) /\ 2 \in 1 .. Len(head) + Len(ins)
    BY <1>2, <2>1
  <2>5. QED BY <1>2, <2>1, <2>2, <2>3, <2>4
<1> HIDE DEF front
<1>5. /\ Len(front \o outs) \in Nat /\ Len(front \o outs) >= 2
      /\ (front \o outs)[1] = front[1] /\ (front \o outs)[2] = front[2]
  BY <1>1, <1>4, ConcatProperties
<1>6. QED BY <1>2, <1>3, <1>4, <1>5

\* The rows an event touches are those its statements name.
LEMMA PlanTouches ==
    ASSUME NEW e \in Events
    PROVE  /\ \A i \in 1 .. Len(Plan(e)) : Plan(e)[i] \in Keys /\ Plan(e)[i] \in Touched(e)
           /\ \A k \in Touched(e) : k \in Keys /\ \E i \in 1 .. Len(Plan(e)) : k = Plan(e)[i]
<1>1. Plan(e) \in Seq(Keys)
  BY PlanInKeys
<1>2. DOMAIN Plan(e) = 1 .. Len(Plan(e))
  BY <1>1
<1>3. Touched(e) = {Plan(e)[i] : i \in 1 .. Len(Plan(e))}
  BY <1>2 DEF Touched, ToSet
<1>4. \A i \in 1 .. Len(Plan(e)) : Plan(e)[i] \in Keys
  BY <1>1
<1>5. QED BY <1>3, <1>4

-----------------------------------------------------------------------------
(* The inductive invariant. *)

LEMMA InitIndInv == Init => IndInv
<1> SUFFICES ASSUME Init PROVE IndInv
  OBVIOUS
<1>1. \A k \in Keys : db[k] \in RowsOf(k) \cup {NULL}
  <2>1. PICK gone \in SUBSET Registered :
           db = [k \in Keys |-> IF IsRegistered(k)
                                 THEN [platform |-> "registered", deleted |-> k.conn \in gone]
                                 ELSE NULL]
    BY DEF Init, InitialTables
  <2>2. ASSUME NEW k \in Keys, IsRegistered(k) PROVE db[k] \in RowsOf(k)
    <3>1. (k.conn \in gone) \in BOOLEAN
      OBVIOUS
    <3> DEFINE del == k.conn \in gone
    <3>2. db[k] = [platform |-> "registered", deleted |-> del]
      BY <2>1, <2>2
    <3> HIDE DEF del
    <3>3. [platform |-> "registered", deleted |-> del] \in ConnRows
      BY <3>1 DEF ConnRows, del
    <3>4. QED BY <2>2, <3>2, <3>3 DEF IsRegistered, RowsOf
  <2>3. QED BY <2>1, <2>2
<1>2. db \in [Keys -> Row \cup {NULL}]
  <2>1. db = [k \in Keys |-> db[k]]
    BY DEF Init, InitialTables
  <2>2. QED BY <1>1, <2>1, RowsOfKey
<1>3. TypeOK
  BY <1>1, <1>2 DEF Init, TypeOK
<1>4. RowVersions
  BY DEF Init, RowVersions
<1>5. StepsInv
  BY DEF Init, StepsInv
<1>6. IdsInv
  BY PoolAssumption DEF Init, IdsInv
<1>7. QED BY <1>3, <1>4, <1>5, <1>6 DEF IndInv

LEMMA BeginKeepsInv == ASSUME IndInv, NEW t \in Requests, Begin(t) PROVE IndInv'
<1> USE DEF IndInv
<1>1. event[t] \in Events /\ Len(Plan(event[t])) \in Nat /\ Len(Plan(event[t])) >= 2
  BY PlanHead DEF TypeOK
<1>2. TypeOK'
  BY DEF TypeOK, Begin
<1>3. RowVersions'
  BY DEF TypeOK, RowVersions, Begin
<1>4. StepsInv'
  BY <1>1 DEF TypeOK, StepsInv, Begin
<1>5. IdsInv'
  <2>1. {u \in Requests : pc[u] = "committed"}' = {u \in Requests : pc[u] = "committed"}
    BY DEF TypeOK, Begin
  <2>2. outboxId[t] = 0
    BY DEF StepsInv, Begin
  <2>3. QED BY <2>1, <2>2 DEF TypeOK, IdsInv, Begin
<1>6. QED BY <1>2, <1>3, <1>4, <1>5

LEMMA UpsertRowKeepsInv == ASSUME IndInv, NEW t \in Requests, UpsertRow(t) PROVE IndInv'
<1> USE DEF IndInv
<1> DEFINE e == event[t]
           k == Plan(e)[step[t]]
           n == Len(Plan(e))
<1>1. e \in Events /\ n \in Nat /\ n >= 2
  BY PlanHead DEF TypeOK
<1>2. step[t] \in 1 .. n
  BY <1>1 DEF UpsertRow, Working, StepsInv
<1>3. k \in Keys /\ k \in Touched(e) /\ \A i \in 1 .. n : Plan(e)[i] \in Keys
  BY <1>1, <1>2, PlanTouches
<1>4. /\ wip' = [wip EXCEPT ![k] = Upsert(e, k, wip[k])]
      /\ owner' = [owner EXCEPT ![k] = t]
      /\ step' = [step EXCEPT ![t] = @ + 1]
      /\ UNCHANGED <<db, nextId, outbox, event, pc, outboxId, answer>>
      /\ pc[t] = "open" /\ owner[k] \in {NULL, t}
      /\ ~(k.tbl = "job_run" /\ e.time = NULL)
  BY DEF UpsertRow, Working, Blocked, BadTime, Target
<1>5. db[k] \in RowsOf(k) \cup {NULL} /\ wip[k] \in RowsOf(k) \cup {NULL}
  BY <1>3 DEF TypeOK
<1>6. Upsert(e, k, wip[k]) = Upsert(e, k, db[k]) /\ Upsert(e, k, wip[k]) \in RowsOf(k)
  <2>1. CASE owner[k] = NULL
    BY <1>1, <1>3, <1>5, <2>1, UpsertType DEF RowVersions
  <2>2. CASE owner[k] = t
    <3>1. wip[k] = Upsert(e, k, db[k])
      BY <1>3, <2>2, RequestsAssumption DEF RowVersions
    <3>2. QED BY <1>1, <1>3, <1>5, <3>1, UpsertType, UpsertIdempotent
  <2>3. QED BY <1>4, <2>1, <2>2
<1> HIDE DEF e, k, n
<1>7. TypeOK'
  <2>1. wip' \in [Keys -> Row \cup {NULL}] /\ \A q \in Keys : wip'[q] \in RowsOf(q) \cup {NULL}
    BY <1>3, <1>4, <1>6, RowsOfKey DEF TypeOK
  <2>2. owner' \in [Keys -> Requests \cup {NULL}] /\ step' \in [Requests -> Nat]
    BY <1>3, <1>4 DEF TypeOK
  <2>3. QED BY <1>4, <2>1, <2>2 DEF TypeOK
<1>8. RowVersions'
  <2> SUFFICES ASSUME NEW q \in Keys
               PROVE  IF owner'[q] = NULL
                        THEN wip'[q] = db[q]
                        ELSE /\ pc[owner'[q]] = "open" /\ q \in Touched(event[owner'[q]])
                             /\ wip'[q] = Upsert(event[owner'[q]], q, db[q])
    BY <1>4 DEF RowVersions
  <2>1. CASE q = k
    BY <1>3, <1>4, <1>6, <2>1, RequestsAssumption DEF TypeOK, e
  <2>2. CASE q # k
    BY <1>4, <2>2 DEF TypeOK, RowVersions
  <2>3. QED BY <2>1, <2>2
<1>9. StepsInv'
  <2> SUFFICES ASSUME NEW u \in Requests
               PROVE  /\ pc[u] = "posted" => step'[u] = 1 /\ outboxId[u] = 0
                      /\ pc[u] = "open" =>
                           /\ step'[u] \in 1 .. Len(Plan(event[u])) + 2
                           /\ outboxId[u] # 0 <=> step'[u] = Len(Plan(event[u])) + 2
                           /\ \A i \in 1 .. Len(Plan(event[u])) :
                                 i < step'[u] => owner'[Plan(event[u])[i]] = u
                           /\ step'[u] > 2 => event[u].time # NULL
                      /\ pc[u] = "committed" => outboxId[u] # 0 /\ event[u].time # NULL
                      /\ pc[u] = "aborted" => outboxId[u] = 0
    BY <1>4 DEF StepsInv
  <2>1. CASE u = t
    <3>1. step'[t] = step[t] + 1 /\ step'[t] \in 1 .. n + 1
      BY <1>1, <1>2, <1>4 DEF TypeOK
    <3>2. outboxId[t] = 0
      BY <1>1, <1>2, <1>4 DEF StepsInv, TypeOK, e, n
    <3>3. \A i \in 1 .. n : i < step'[t] => owner'[Plan(e)[i]] = t
      <4> SUFFICES ASSUME NEW i \in 1 .. n, i < step'[t] PROVE owner'[Plan(e)[i]] = t
        OBVIOUS
      <4>1. CASE i = step[t]
        BY <1>3, <1>4, <4>1 DEF TypeOK, k
      <4>2. CASE i # step[t]
        <5>1. owner[Plan(e)[i]] = t
          BY <1>1, <1>2, <1>4, <3>1, <4>2 DEF StepsInv, e, n
        <5>2. QED BY <1>3, <1>4, <5>1 DEF TypeOK
      <4>3. QED BY <4>1, <4>2
    <3>4. step'[t] > 2 => e.time # NULL
      <4>1. CASE step[t] = 2
        <5>1. k = RunKey(e.job, e.run)
          BY <1>1, <4>1, PlanHead DEF k
        <5>2. k.tbl = "job_run"
          BY <5>1 DEF RunKey
        <5>3. QED BY <1>4, <5>2
      <4>2. CASE step[t] # 2
        BY <1>1, <1>2, <1>4, <3>1, <4>2 DEF StepsInv, e
      <4>3. QED BY <4>1, <4>2
    <3>5. QED BY <1>1, <1>4, <2>1, <3>1, <3>2, <3>3, <3>4 DEF e, n
  <2>2. CASE u # t
    <3>1. step'[u] = step[u]
      BY <1>4, <2>2 DEF TypeOK
    <3>2. pc[u] = "open" =>
            \A i \in 1 .. Len(Plan(event[u])) :
               i < step'[u] => owner'[Plan(event[u])[i]] = u
      <4> SUFFICES ASSUME pc[u] = "open", NEW i \in 1 .. Len(Plan(event[u])), i < step'[u]
                   PROVE  owner'[Plan(event[u])[i]] = u
        OBVIOUS
      <4>1. owner[Plan(event[u])[i]] = u
        BY <3>1 DEF StepsInv
      <4>2. Plan(event[u])[i] # k
        BY <1>4, <2>2, <4>1, RequestsAssumption
      <4>3. Plan(event[u])[i] \in Keys
        BY PlanTouches DEF TypeOK
      <4>4. QED BY <1>4, <4>1, <4>2, <4>3 DEF TypeOK
    <3>3. QED BY <3>1, <3>2 DEF StepsInv
  <2>3. QED BY <2>1, <2>2
<1>10. IdsInv'
  BY <1>4 DEF IdsInv
<1>11. QED BY <1>7, <1>8, <1>9, <1>10

LEMMA AppendOutboxKeepsInv == ASSUME IndInv, NEW t \in Requests, AppendOutbox(t) PROVE IndInv'
<1> USE DEF IndInv
<1>1. event[t] \in Events /\ Len(Plan(event[t])) \in Nat /\ Len(Plan(event[t])) >= 2
  BY PlanHead DEF TypeOK
<1>2. /\ pc[t] = "open" /\ step[t] = Len(Plan(event[t])) + 1 /\ nextId <= MaxId
      /\ outboxId' = [outboxId EXCEPT ![t] = nextId] /\ nextId' = nextId + 1
      /\ step' = [step EXCEPT ![t] = @ + 1]
      /\ UNCHANGED <<db, wip, owner, outbox, event, pc, answer>>
  BY DEF AppendOutbox
<1>3. TypeOK'
  BY <1>2 DEF TypeOK
<1>4. RowVersions'
  BY <1>2 DEF RowVersions
<1>5. StepsInv'
  BY <1>1, <1>2 DEF TypeOK, StepsInv
<1>6. IdsInv'
  <2>1. \A u \in Requests : outboxId'[u] < nextId' /\ outboxId'[u] <= MaxId
    BY <1>2 DEF TypeOK, IdsInv
  <2>2. \A u, v \in Requests : u # v /\ outboxId'[u] # 0 => outboxId'[u] # outboxId'[v]
    BY <1>2 DEF TypeOK, IdsInv
  <2> DEFINE done == {u \in Requests : pc[u] = "committed"}
  <2>3. \A u \in done : outboxId'[u] = outboxId[u]
    BY <1>2 DEF TypeOK
  <2>4. outbox' = {[id |-> outboxId'[u], request |-> u, event |-> event[u]] : u \in done}
    BY <1>2, <2>3 DEF IdsInv
  <2>5. ASSUME NEW u \in Requests, pc[u] = "open", outboxId'[u] # 0,
               NEW o \in outbox, Conflict(o.event, event[u])
        PROVE  o.id < outboxId'[u]
    <3>1. PICK v \in done : o = [id |-> outboxId[v], request |-> v, event |-> event[v]]
      BY DEF IdsInv
    <3>2. CASE u = t
      BY <1>2, <3>1, <3>2 DEF TypeOK, IdsInv
    <3>3. CASE u # t
      BY <1>2, <2>5, <3>3 DEF TypeOK, IdsInv
    <3>4. QED BY <3>2, <3>3
  <2>6. QED BY <1>2, <2>1, <2>2, <2>4, <2>5 DEF IdsInv
<1>7. QED BY <1>3, <1>4, <1>5, <1>6

\* When a transaction commits it holds exactly the rows its event touches, and
\* their newest versions are what the event makes of the committed ones.
LEMMA CommitHoldsPlan ==
    ASSUME IndInv, NEW t \in Requests, Commit(t)
    PROVE  /\ \A k \in Keys : owner[k] = t <=> k \in Touched(event[t])
           /\ db' = ApplyEvent(event[t], db)
<1> USE DEF IndInv
<1>1. event[t] \in Events /\ Len(Plan(event[t])) \in Nat
  BY PlanHead DEF TypeOK
<1>2. pc[t] = "open" /\ step[t] = Len(Plan(event[t])) + 2
  BY DEF Commit
<1>3. ASSUME NEW k \in Keys, owner[k] = t
      PROVE  k \in Touched(event[t]) /\ wip[k] = Upsert(event[t], k, db[k])
  BY <1>3, RequestsAssumption DEF RowVersions
<1>4. ASSUME NEW k \in Keys, k \in Touched(event[t])
      PROVE  owner[k] = t
  <2>1. PICK i \in 1 .. Len(Plan(event[t])) : k = Plan(event[t])[i]
    BY <1>1, <1>4, PlanTouches
  <2>2. i < step[t]
    BY <1>1, <1>2
  <2>3. QED BY <1>2, <2>1, <2>2 DEF StepsInv
<1>5. db' = [k \in Keys |-> IF owner[k] = t THEN wip[k] ELSE db[k]]
  BY DEF Commit
<1>6. QED BY <1>3, <1>4, <1>5 DEF ApplyEvent

LEMMA CommitKeepsInv == ASSUME IndInv, NEW t \in Requests, Commit(t) PROVE IndInv'
<1> USE DEF IndInv
<1> DEFINE mine == [id |-> outboxId[t], request |-> t, event |-> event[t]]
<1>1. event[t] \in Events /\ Len(Plan(event[t])) \in Nat /\ Len(Plan(event[t])) >= 2
  BY PlanHead DEF TypeOK
<1>2. /\ pc[t] = "open" /\ step[t] = Len(Plan(event[t])) + 2
      /\ db' = [k \in Keys |-> IF owner[k] = t THEN wip[k] ELSE db[k]]
      /\ owner' = [k \in Keys |-> IF owner[k] = t THEN NULL ELSE owner[k]]
      /\ outbox' = outbox \cup {mine}
      /\ pc' = [pc EXCEPT ![t] = "committed"]
      /\ UNCHANGED <<wip, nextId, event, step, outboxId, answer>>
  BY DEF Commit
<1>3. outboxId[t] \in Nat \ {0} /\ event[t].time # NULL
  BY <1>1, <1>2 DEF TypeOK, StepsInv
<1>4. TypeOK'
  BY <1>1, <1>2, <1>3 DEF TypeOK
<1>5. RowVersions'
  <2> SUFFICES ASSUME NEW k \in Keys
               PROVE  IF owner'[k] = NULL
                        THEN wip[k] = db'[k]
                        ELSE /\ pc'[owner'[k]] = "open" /\ k \in Touched(event[owner'[k]])
                             /\ wip[k] = Upsert(event[owner'[k]], k, db'[k])
    BY <1>2 DEF RowVersions
  <2>1. CASE owner[k] = t
    BY <1>2, <2>1
  <2>2. CASE owner[k] # t
    BY <1>2, <2>2 DEF TypeOK, RowVersions
  <2>3. QED BY <2>1, <2>2
<1>6. StepsInv'
  <2>1. \A u \in Requests : u # t /\ pc[u] = "open" =>
           \A i \in 1 .. Len(Plan(event[u])) : i < step[u] => owner'[Plan(event[u])[i]] = u
    <3> SUFFICES ASSUME NEW u \in Requests, u # t, pc[u] = "open",
                        NEW i \in 1 .. Len(Plan(event[u])), i < step[u]
                 PROVE  owner'[Plan(event[u])[i]] = u
      OBVIOUS
    <3>1. owner[Plan(event[u])[i]] = u
      BY DEF StepsInv
    <3>2. Plan(event[u])[i] \in Keys
      BY PlanTouches DEF TypeOK
    <3>3. QED BY <1>2, <3>1, <3>2
  <2> SUFFICES ASSUME NEW u \in Requests
               PROVE  /\ pc'[u] = "posted" => step[u] = 1 /\ outboxId[u] = 0
                      /\ pc'[u] = "open" =>
                           /\ step[u] \in 1 .. Len(Plan(event[u])) + 2
                           /\ outboxId[u] # 0 <=> step[u] = Len(Plan(event[u])) + 2
                           /\ \A i \in 1 .. Len(Plan(event[u])) :
                                 i < step[u] => owner'[Plan(event[u])[i]] = u
                           /\ step[u] > 2 => event[u].time # NULL
                      /\ pc'[u] = "committed" => outboxId[u] # 0 /\ event[u].time # NULL
                      /\ pc'[u] = "aborted" => outboxId[u] = 0
    BY <1>2 DEF StepsInv
  <2>2. CASE u = t
    BY <1>2, <1>3, <2>2 DEF TypeOK
  <2>3. CASE u # t
    <3>1. pc'[u] = pc[u]
      BY <1>2, <2>3 DEF TypeOK
    <3>2. QED BY <2>1, <2>3, <3>1 DEF StepsInv
  <2>4. QED BY <2>2, <2>3
<1>7. IdsInv'
  <2> DEFINE done == {u \in Requests : pc[u] = "committed"}
  <2>1. done' = done \cup {t}
    BY <1>2 DEF TypeOK
  <2>2. outbox' = {[id |-> outboxId[u], request |-> u, event |-> event[u]] : u \in done'}
    BY <1>2, <2>1 DEF IdsInv
  <2>3. ASSUME NEW u \in Requests, pc'[u] = "open", outboxId[u] # 0,
               NEW o \in outbox', Conflict(o.event, event[u])
        PROVE  o.id < outboxId[u]
    <3>1. u # t /\ pc[u] = "open"
      BY <1>2, <2>3 DEF TypeOK
    <3>2. CASE o \in outbox
      BY <2>3, <3>1, <3>2 DEF IdsInv
    <3>3. CASE o = mine
      <4>1. PICK k \in Touched(event[t]) : k \in Touched(event[u])
        BY <2>3, <3>3 DEF Conflict
      <4>2. k \in Keys
        BY <1>1, <4>1, PlanTouches
      <4>3. owner[k] = t
        BY <4>1, <4>2, CommitHoldsPlan
      <4>4. event[u] \in Events /\ Len(Plan(event[u])) \in Nat
        BY PlanHead DEF TypeOK
      <4>5. PICK i \in 1 .. Len(Plan(event[u])) : k = Plan(event[u])[i]
        BY <4>1, <4>4, PlanTouches
      <4>6. step[u] = Len(Plan(event[u])) + 2
        BY <2>3, <3>1 DEF StepsInv
      <4>7. owner[k] = u
        BY <3>1, <4>4, <4>5, <4>6 DEF StepsInv
      <4>8. QED BY <3>1, <4>3, <4>7
    <3>4. QED BY <1>2, <3>2, <3>3
  <2>4. (\A u \in Requests : outboxId[u] < nextId /\ outboxId[u] <= MaxId)'
    BY <1>2 DEF IdsInv
  <2>5. (\A u, v \in Requests : u # v /\ outboxId[u] # 0 => outboxId[u] # outboxId[v])'
    BY <1>2 DEF IdsInv
  <2>6. QED BY <1>2, <2>2, <2>3, <2>4, <2>5 DEF IdsInv
<1>8. QED BY <1>4, <1>5, <1>6, <1>7

LEMMA AnswerKeepsInv ==
    ASSUME IndInv, NEW t \in Requests, Respond(t) \/ LoseCommitReply(t)
    PROVE  IndInv'
<1>1. /\ UNCHANGED <<db, wip, owner, nextId, outbox, event, pc, step, outboxId>>
      /\ answer' \in {[answer EXCEPT ![t] = "202"], [answer EXCEPT ![t] = "500"]}
  BY DEF Respond, LoseCommitReply
<1>2. TypeOK'
  BY <1>1 DEF IndInv, TypeOK, Answers
<1>3. QED BY <1>1, <1>2 DEF IndInv, RowVersions, StepsInv, IdsInv

\* Rolling back any set of open transactions keeps the invariant.
LEMMA RollbackKeepsInv ==
    ASSUME IndInv, NEW T \in SUBSET Open, Rollback(T),
           answer' \in [Requests -> Answers \cup {NULL}]
    PROVE  IndInv'
<1> USE DEF IndInv
<1>1. /\ wip' = [k \in Keys |-> IF owner[k] \in T THEN db[k] ELSE wip[k]]
      /\ owner' = [k \in Keys |-> IF owner[k] \in T THEN NULL ELSE owner[k]]
      /\ pc' = [t \in Requests |-> IF t \in T THEN "aborted" ELSE pc[t]]
      /\ outboxId' = [t \in Requests |-> IF t \in T THEN 0 ELSE outboxId[t]]
      /\ UNCHANGED <<db, nextId, outbox, event, step>>
  BY DEF Rollback
<1>2. T \subseteq Requests /\ \A t \in T : pc[t] = "open"
  BY DEF Open
<1>3. TypeOK'
  BY <1>1 DEF TypeOK
<1>4. RowVersions'
  <2> SUFFICES ASSUME NEW k \in Keys
               PROVE  IF owner'[k] = NULL
                        THEN wip'[k] = db[k]
                        ELSE /\ pc'[owner'[k]] = "open" /\ k \in Touched(event[owner'[k]])
                             /\ wip'[k] = Upsert(event[owner'[k]], k, db[k])
    BY <1>1 DEF RowVersions
  <2>1. CASE owner[k] \in T
    BY <1>1, <2>1
  <2>2. CASE owner[k] \notin T
    BY <1>1, <2>2 DEF TypeOK, RowVersions
  <2>3. QED BY <2>1, <2>2
<1>5. StepsInv'
  <2>1. \A u \in Requests \ T : pc[u] = "open" =>
           \A i \in 1 .. Len(Plan(event[u])) : i < step[u] => owner'[Plan(event[u])[i]] = u
    <3> SUFFICES ASSUME NEW u \in Requests \ T, pc[u] = "open",
                        NEW i \in 1 .. Len(Plan(event[u])), i < step[u]
                 PROVE  owner'[Plan(event[u])[i]] = u
      OBVIOUS
    <3>1. owner[Plan(event[u])[i]] = u
      BY DEF StepsInv
    <3>2. Plan(event[u])[i] \in Keys
      BY PlanTouches DEF TypeOK
    <3>3. QED BY <1>1, <3>1, <3>2
  <2> SUFFICES ASSUME NEW u \in Requests
               PROVE  /\ pc'[u] = "posted" => step[u] = 1 /\ outboxId'[u] = 0
                      /\ pc'[u] = "open" =>
                           /\ step[u] \in 1 .. Len(Plan(event[u])) + 2
                           /\ outboxId'[u] # 0 <=> step[u] = Len(Plan(event[u])) + 2
                           /\ \A i \in 1 .. Len(Plan(event[u])) :
                                 i < step[u] => owner'[Plan(event[u])[i]] = u
                           /\ step[u] > 2 => event[u].time # NULL
                      /\ pc'[u] = "committed" => outboxId'[u] # 0 /\ event[u].time # NULL
                      /\ pc'[u] = "aborted" => outboxId'[u] = 0
    BY <1>1 DEF StepsInv
  <2>2. CASE u \in T
    BY <1>1, <2>2
  <2>3. CASE u \notin T
    <3>1. pc'[u] = pc[u] /\ outboxId'[u] = outboxId[u]
      BY <1>1, <2>3
    <3>2. QED BY <2>1, <2>3, <3>1 DEF StepsInv
  <2>4. QED BY <2>2, <2>3
<1>6. IdsInv'
  <2> DEFINE done == {u \in Requests : pc[u] = "committed"}
  <2>1. done' = done
    BY <1>1, <1>2
  <2>2. \A u \in done : outboxId'[u] = outboxId[u]
    BY <1>1, <1>2
  <2>3. outbox' = {[id |-> outboxId'[u], request |-> u, event |-> event[u]] : u \in done}
    BY <1>1, <2>2 DEF IdsInv
  <2>4. \A u \in Requests : outboxId'[u] < nextId' /\ outboxId'[u] <= MaxId
    BY <1>1, PoolAssumption DEF TypeOK, IdsInv
  <2>5. \A u, v \in Requests : u # v /\ outboxId'[u] # 0 => outboxId'[u] # outboxId'[v]
    BY <1>1 DEF IdsInv
  <2>6. \A u \in Requests : pc'[u] = "open" /\ outboxId'[u] # 0 =>
           \A o \in outbox : Conflict(o.event, event[u]) => o.id < outboxId'[u]
    BY <1>1 DEF IdsInv
  <2>7. outbox' = {[id |-> outboxId'[u], request |-> u, event |-> event'[u]] :
                     u \in {v \in Requests : pc'[v] = "committed"}}
    BY <1>1, <2>1, <2>3
  <2> HIDE DEF done
  <2>8. QED BY <1>1, <2>4, <2>5, <2>6, <2>7 DEF IdsInv
<1>7. QED BY <1>3, <1>4, <1>5, <1>6

LEMMA RejectTimeKeepsInv == ASSUME IndInv, NEW t \in Requests, RejectTime(t) PROVE IndInv'
<1>1. {t} \in SUBSET Open /\ Rollback({t})
  BY DEF RejectTime, Working, Open
<1>2. answer' \in [Requests -> Answers \cup {NULL}]
  BY DEF IndInv, TypeOK, Answers, RejectTime
<1>3. QED BY <1>1, <1>2, RollbackKeepsInv

LEMMA DatabaseErrorKeepsInv == ASSUME IndInv, NEW t \in Requests, DatabaseError(t) PROVE IndInv'
<1>1. {t} \in SUBSET Open /\ Rollback({t})
  BY DEF DatabaseError, Open
<1>2. answer' \in [Requests -> Answers \cup {NULL}]
  BY DEF IndInv, TypeOK, Answers, DatabaseError
<1>3. QED BY <1>1, <1>2, RollbackKeepsInv

LEMMA CrashKeepsInv == ASSUME IndInv, Crash PROVE IndInv'
<1>1. Open \in SUBSET Open /\ Rollback(Open)
  BY DEF Crash
<1>2. answer' \in [Requests -> Answers \cup {NULL}]
  BY DEF IndInv, TypeOK, Answers, Crash
<1>3. QED BY <1>1, <1>2, RollbackKeepsInv

LEMMA StutterKeepsInv == IndInv /\ UNCHANGED vars => IndInv'
BY DEF IndInv, TypeOK, RowVersions, StepsInv, IdsInv, vars

LEMMA NextKeepsInv == IndInv /\ [Next]_vars => IndInv'
<1> SUFFICES ASSUME IndInv, [Next]_vars PROVE IndInv'
  OBVIOUS
<1>1. ASSUME NEW t \in Requests, Handler(t) \/ DatabaseError(t) \/ BreakDeadlock(t) \/ LoseCommitReply(t)
      PROVE  IndInv'
  <2>1. CASE Begin(t)
    BY <2>1, BeginKeepsInv
  <2>2. CASE UpsertRow(t)
    BY <2>2, UpsertRowKeepsInv
  <2>3. CASE AppendOutbox(t)
    BY <2>3, AppendOutboxKeepsInv
  <2>4. CASE Commit(t)
    BY <2>4, CommitKeepsInv
  <2>5. CASE Respond(t) \/ LoseCommitReply(t)
    BY <2>5, AnswerKeepsInv
  <2>6. CASE RejectTime(t)
    BY <2>6, RejectTimeKeepsInv
  <2>7. CASE DatabaseError(t) \/ BreakDeadlock(t)
    BY <2>7, DatabaseErrorKeepsInv DEF BreakDeadlock
  <2>8. QED BY <1>1, <2>1, <2>2, <2>3, <2>4, <2>5, <2>6, <2>7 DEF Handler
<1>2. CASE Crash
  BY <1>2, CrashKeepsInv
<1>3. CASE UNCHANGED vars
  BY <1>3, StutterKeepsInv
<1>4. QED BY <1>1, <1>2, <1>3 DEF Next

\* The inductive invariant of the ingest transactions: types, two-phase row
\* locking, and outbox ids that follow the locks.
THEOREM IndInvHolds == Spec => []IndInv
<1>1. Init => IndInv
  BY InitIndInv
<1>2. IndInv /\ [Next]_vars => IndInv'
  BY NextKeepsInv
<1>3. QED BY <1>1, <1>2, PTL DEF Spec

\* Rows, locks, ids and answers stay within their types: in particular every
\* status and job type is one the schema's CHECK constraints allow.
THEOREM TypeCorrect == Spec => []TypeOK
<1>1. IndInv => TypeOK
  BY DEF IndInv
<1>2. QED BY <1>1, IndInvHolds, PTL

-----------------------------------------------------------------------------
(* What the invariant gives. *)

\* An outbox entry becomes visible after every conflicting entry with a
\* smaller id, so a reader in id order sees conflicting events as applied.
THEOREM OutboxOrder == Spec => ConflictsCommitInIdOrder
<1> DEFINE InOrder == \A o \in outbox' \ outbox : \A p \in outbox :
                         Conflict(o.event, p.event) => p.id < o.id
<1>1. IndInv /\ [Next]_vars => InOrder
  <2> SUFFICES ASSUME IndInv, [Next]_vars, NEW o \in outbox' \ outbox, NEW p \in outbox,
                      Conflict(o.event, p.event)
               PROVE  p.id < o.id
    OBVIOUS
  <2>1. PICK t \in Requests : Commit(t)
    BY DEF Next, vars, Handler, Begin, UpsertRow, AppendOutbox, Commit, Respond, RejectTime,
           DatabaseError, BreakDeadlock, LoseCommitReply, Crash, Rollback
  <2>2. o = [id |-> outboxId[t], request |-> t, event |-> event[t]]
    BY <2>1 DEF Commit
  <2>3. pc[t] = "open" /\ outboxId[t] # 0
    <3>1. event[t] \in Events /\ Len(Plan(event[t])) \in Nat
      BY PlanHead DEF IndInv, TypeOK
    <3>2. QED BY <2>1, <3>1 DEF IndInv, StepsInv, Commit
  <2>4. Conflict(p.event, event[t])
    BY <2>2 DEF Conflict
  <2>5. QED BY <2>2, <2>3, <2>4 DEF IndInv, IdsInv
<1>2. IndInv /\ [Next]_vars => [InOrder]_vars
  BY <1>1
<1> HIDE DEF InOrder
<1>3. Spec => [][InOrder]_vars
  BY <1>2, IndInvHolds, PTL DEF Spec
<1>4. QED BY <1>3 DEF ConflictsCommitInIdOrder, InOrder

-----------------------------------------------------------------------------
(* Ingest implements AtomicIngest. *)

\* The instance's row semantics are this module's.
LEMMA SameRows ==
    /\ Abs!InitialTables = InitialTables
    /\ \A e, tables : Abs!ApplyEvent(e, tables) = ApplyEvent(e, tables)
    /\ \A e, f : Abs!Conflict(e, f) <=> Conflict(e, f)
<1>1. Abs!Keys = Keys
  BY DEF Abs!Keys, Keys, Abs!JobKey, JobKey, Abs!RunKey, RunKey, Abs!ConnKey, ConnKey,
         Abs!DatasetKey, DatasetKey, Abs!EdgeKey, EdgeKey, Abs!Directions, Directions
<1>2. Abs!InitialTables = InitialTables
  BY <1>1 DEF Abs!InitialTables, InitialTables, Abs!IsRegistered, IsRegistered
<1>3. \A e : Abs!Plan(e) = Plan(e)
  BY DEF Abs!Plan, Plan, Abs!DatasetSteps, DatasetSteps, Abs!JobKey, JobKey, Abs!RunKey, RunKey,
         Abs!ConnKey, ConnKey, Abs!DatasetKey, DatasetKey, Abs!EdgeKey, EdgeKey
<1>4. \A e : Abs!Touched(e) = Touched(e)
  BY <1>3 DEF Abs!Touched, Touched, Abs!ToSet, ToSet
<1>5. \A e, k, old : Abs!Upsert(e, k, old) = Upsert(e, k, old)
  BY DEF Abs!Upsert, Upsert, Abs!UpsertJob, UpsertJob, Abs!UpsertRun, UpsertRun,
         Abs!UpsertMinimal, UpsertMinimal, Abs!UpsertDataset, UpsertDataset,
         Abs!UpsertEdge, UpsertEdge, Abs!InferJobType, InferJobType, Abs!Keywords, Keywords,
         Abs!InferDatasetType, InferDatasetType, Abs!StatusOf, StatusOf,
         Abs!IsTerminal, IsTerminal, Abs!TerminalTypes, TerminalTypes, Abs!StartTime, StartTime,
         Abs!EndTime, EndTime, Abs!Mapping, Mapping, Abs!Coalesce, Coalesce
<1>6. \A e, tables : Abs!ApplyEvent(e, tables) = ApplyEvent(e, tables)
  BY <1>1, <1>4, <1>5 DEF Abs!ApplyEvent, ApplyEvent
<1>7. \A e, f : Abs!Conflict(e, f) <=> Conflict(e, f)
  BY <1>4 DEF Abs!Conflict, Conflict
<1>8. QED BY <1>2, <1>6, <1>7

LEMMA InitRefines == Init => Abs!Init
<1> SUFFICES ASSUME Init PROVE Abs!Init
  OBVIOUS
<1>1. Verdict = [t \in Requests |-> "pending"]
  BY DEF Init, Verdict
<1>2. QED BY <1>1, SameRows DEF Init, Abs!Init

\* A commit is the abstract Apply: the rows its transaction locked are the rows
\* of its event, and its id is larger than every conflicting one.
LEMMA CommitRefines == ASSUME IndInv, NEW t \in Requests, Commit(t) PROVE Abs!Apply(t)
<1> USE DEF IndInv
<1>1. pc[t] = "open" /\ step[t] = Len(Plan(event[t])) + 2 /\ pc' = [pc EXCEPT ![t] = "committed"]
      /\ outbox' = outbox \cup {[id |-> outboxId[t], request |-> t, event |-> event[t]]}
      /\ event' = event
  BY DEF Commit
<1>2. event[t] \in Events /\ Len(Plan(event[t])) \in Nat
  BY PlanHead DEF TypeOK
<1>3. Verdict[t] = "pending" /\ Verdict' = [Verdict EXCEPT ![t] = "applied"]
  BY <1>1 DEF Verdict, TypeOK
<1>4. db' = Abs!ApplyEvent(event[t], db)
  BY CommitHoldsPlan, SameRows
<1>5. outboxId[t] # 0 /\ outboxId[t] \in 1..MaxId
  BY <1>1, <1>2, PoolAssumption DEF StepsInv, IdsInv, TypeOK
<1>6. \A o \in outbox : o.id # outboxId[t] /\ (Abs!Conflict(o.event, event[t]) => o.id < outboxId[t])
  <2> SUFFICES ASSUME NEW o \in outbox
               PROVE  o.id # outboxId[t] /\ (Abs!Conflict(o.event, event[t]) => o.id < outboxId[t])
    OBVIOUS
  <2>1. PICK u \in Requests : pc[u] = "committed" /\ o.id = outboxId[u]
    BY DEF IdsInv
  <2>2. o.id # outboxId[t]
    BY <1>1, <1>5, <2>1 DEF IdsInv
  <2>3. Abs!Conflict(o.event, event[t]) => o.id < outboxId[t]
    BY <1>1, <1>5, SameRows DEF IdsInv
  <2>4. QED BY <2>2, <2>3
<1>7. QED BY <1>1, <1>3, <1>4, <1>5, <1>6 DEF Abs!Apply

\* A rollback is the abstract Refuse.
LEMMA RollbackRefines ==
    ASSUME IndInv, NEW T \in SUBSET Open, Rollback(T)
    PROVE  Abs!Refuse(T)
<1>1. T \subseteq Requests /\ \A t \in T : pc[t] = "open"
  BY DEF Open
<1>2. /\ pc' = [t \in Requests |-> IF t \in T THEN "aborted" ELSE pc[t]]
      /\ UNCHANGED <<db, outbox, event>>
  BY DEF Rollback
<1>3. \A t \in T : Verdict[t] = "pending"
  BY <1>1 DEF Verdict
<1>4. Verdict' = [t \in Requests |-> IF t \in T THEN "refused" ELSE Verdict[t]]
  BY <1>2 DEF Verdict
<1>5. QED BY <1>2, <1>3, <1>4 DEF Abs!Refuse

LEMMA NextRefines == IndInv /\ [Next]_vars => [Abs!Next]_Abs!vars
<1> SUFFICES ASSUME IndInv, [Next]_vars PROVE [Abs!Next]_Abs!vars
  OBVIOUS
<1>1. ASSUME UNCHANGED <<db, outbox, event>>, Verdict' = Verdict PROVE [Abs!Next]_Abs!vars
  BY <1>1 DEF Abs!vars
<1>2. ASSUME NEW T \in SUBSET Open, Rollback(T) PROVE [Abs!Next]_Abs!vars
  <2>1. T \in SUBSET Requests
    BY DEF Open
  <2>2. QED BY <1>2, <2>1, RollbackRefines DEF Abs!Next
<1>3. ASSUME NEW t \in Requests, Handler(t) \/ DatabaseError(t) \/ BreakDeadlock(t) \/ LoseCommitReply(t)
      PROVE  [Abs!Next]_Abs!vars
  <2>1. CASE Begin(t)
    <3>1. Verdict' = Verdict
      BY <2>1 DEF Begin, Verdict, IndInv, TypeOK
    <3>2. QED BY <1>1, <2>1, <3>1 DEF Begin
  <2>2. CASE UpsertRow(t) \/ AppendOutbox(t) \/ Respond(t) \/ LoseCommitReply(t)
    <3>1. UNCHANGED <<db, outbox, event, pc>>
      BY <2>2 DEF UpsertRow, AppendOutbox, Respond, LoseCommitReply
    <3>2. Verdict' = Verdict
      BY <3>1 DEF Verdict
    <3>3. QED BY <1>1, <3>1, <3>2
  <2>3. CASE Commit(t)
    BY <2>3, CommitRefines DEF Abs!Next
  <2>4. CASE RejectTime(t)
    BY <1>2, <2>4 DEF RejectTime, Working, Open
  <2>5. CASE DatabaseError(t) \/ BreakDeadlock(t)
    BY <1>2, <2>5 DEF DatabaseError, BreakDeadlock, Open
  <2>6. QED BY <1>3, <2>1, <2>2, <2>3, <2>4, <2>5 DEF Handler
<1>4. CASE Crash
  BY <1>2, <1>4 DEF Crash
<1>5. CASE UNCHANGED vars
  <2>1. Verdict' = Verdict
    BY <1>5 DEF Verdict, vars
  <2>2. QED BY <1>1, <1>5, <2>1 DEF vars
<1>6. QED BY <1>3, <1>4, <1>5 DEF Next

\* The transactions of any number of concurrent, failing or crashing requests
\* implement atomic ingestion: what everybody else sees is one request at a
\* time, applied whole or not at all, with outbox ids in conflict order.
THEOREM IngestIsAtomic == Spec => ImplementsAtomicIngest
<1>1. Init => Abs!Init
  BY InitRefines
<1>2. IndInv /\ [Next]_vars => [Abs!Next]_Abs!vars
  BY NextRefines
<1>3. Spec => Abs!Spec
  BY <1>1, <1>2, IndInvHolds, PTL DEF Spec, Abs!Spec
<1>4. QED BY <1>3 DEF ImplementsAtomicIngest

-----------------------------------------------------------------------------
(* The row of a run summarises its events. *)

\* Applying one more event, later than those already summarised, keeps the
\* summary: the COALESCE and CASE expressions of upsert_run are right.
LEMMA UpsertRunSummarises ==
    ASSUME NEW row \in RunRows \cup {NULL}, NEW A, NEW new,
           Summarises(row, A),
           new.event \in Events, new.event.time # NULL, new.id \in Nat,
           \A o \in A : o.id \in Nat /\ o.id < new.id /\ o.event.time # NULL
    PROVE  Summarises(UpsertRun(new.event, row), A \cup {new})
<1> DEFINE e       == new.event
           row2    == UpsertRun(e, row)
           A2      == A \cup {new}
           starts  == {o \in A : o.event.type = "START"}
           starts2 == {o \in A2 : o.event.type = "START"}
           ends    == {o \in A : IsTerminal(o.event)}
           ends2   == {o \in A2 : IsTerminal(o.event)}
<1>1. e.type \in EventTypes /\ e.time \in Times
  BY EventsAssumption DEF Event
<1>2. row2 \in RunRows /\ row2 # NULL
  <2>1. StatusOf(e) \in Statuses
    BY <1>1 DEF EventTypes, StatusOf, Statuses
  <2>2. StartTime(e) \in Times \cup {NULL} /\ EndTime(e) \in Times \cup {NULL}
    BY <1>1 DEF StartTime, EndTime
  <2>3. row2 \in RunRows
    BY <1>1, <2>1, <2>2 DEF UpsertRun, RunRows, Coalesce
  <2>4. QED BY <2>3, NullAssumption
<1>3. /\ row # NULL => row2.started = Coalesce(row.started, StartTime(e))
      /\ row # NULL => row2.ended = IF IsTerminal(e) THEN e.time ELSE row.ended
      /\ row # NULL => row2.status = IF IsTerminal(e) THEN StatusOf(e) ELSE row.status
      /\ row = NULL => /\ row2.started = StartTime(e) /\ row2.ended = EndTime(e)
                       /\ row2.status = StatusOf(e)
  BY NullAssumption DEF UpsertRun, RunRows
<1>4. row = NULL <=> A = {}
  BY DEF Summarises
<1>5. starts2 = starts \cup (IF e.type = "START" THEN {new} ELSE {})
  OBVIOUS
<1>6. ends2 = ends \cup (IF IsTerminal(e) THEN {new} ELSE {})
  OBVIOUS
<1>7. A2 # {}
  OBVIOUS
<1>8. starts2 = {} => row2.started = NULL
  BY <1>3, <1>4, <1>5 DEF Summarises, Coalesce, StartTime
<1>9. ASSUME NEW o \in starts2, First(o, starts2) PROVE row2.started = o.event.time
  <2>1. CASE o \in starts
    <3>1. First(o, starts) /\ row # NULL
      BY <1>4, <1>5, <1>9, <2>1 DEF First
    <3>2. row.started = o.event.time
      BY <2>1, <3>1 DEF Summarises
    <3>3. QED BY <1>3, <2>1, <3>1, <3>2 DEF Coalesce
  <2>2. CASE o \notin starts
    <3>1. o = new /\ e.type = "START"
      BY <1>5, <1>9, <2>2
    <3>2. starts = {}
      BY <1>5, <1>9, <3>1 DEF First
    <3>3. row # NULL => row.started = NULL
      BY <3>2 DEF Summarises
    <3>4. QED BY <1>3, <3>1, <3>3 DEF Coalesce, StartTime
  <2>3. QED BY <2>1, <2>2
<1>10. ends2 = {} => row2.ended = NULL
  BY <1>3, <1>4, <1>6 DEF Summarises, EndTime
<1>11. ASSUME ends2 = {}, NEW o \in A2, First(o, A2) PROVE row2.status = StatusOf(o.event)
  <2>1. ~IsTerminal(e) /\ ends = {}
    BY <1>6, <1>11
  <2>2. CASE o \in A
    <3>1. First(o, A) /\ row # NULL
      BY <1>4, <1>11, <2>2 DEF First
    <3>2. row.status = StatusOf(o.event)
      BY <2>1, <2>2, <3>1 DEF Summarises
    <3>3. QED BY <1>3, <2>1, <3>1, <3>2
  <2>3. CASE o \notin A
    <3>1. o = new /\ A = {}
      BY <1>11, <2>3 DEF First
    <3>2. QED BY <1>3, <1>4, <3>1
  <2>4. QED BY <2>2, <2>3
<1>12. ASSUME NEW o \in ends2, Latest(o, ends2)
       PROVE  row2.ended = o.event.time /\ row2.status = StatusOf(o.event)
  <2>1. CASE IsTerminal(e)
    <3>1. o = new
      BY <1>6, <1>12, <2>1 DEF Latest
    <3>2. QED BY <1>3, <2>1, <3>1 DEF EndTime
  <2>2. CASE ~IsTerminal(e)
    <3>1. o \in ends /\ Latest(o, ends) /\ row # NULL
      BY <1>4, <1>6, <1>12, <2>2
    <3>2. row.ended = o.event.time /\ row.status = StatusOf(o.event)
      BY <3>1 DEF Summarises
    <3>3. QED BY <1>3, <2>2, <3>1, <3>2
  <2>3. QED BY <2>1, <2>2
<1> HIDE DEF row2
<1>13. Summarises(row2, A2)
  BY <1>2, <1>7, <1>8, <1>9, <1>10, <1>11, <1>12 DEF Summarises
<1>14. QED BY <1>13 DEF row2

\* An event touches one run's row: its own.
LEMMA RunKeyTouched ==
    ASSUME NEW e \in Events, NEW j \in Jobs, NEW r \in RunIds
    PROVE  RunKey(j, r) \in Touched(e) <=> e.job = j /\ e.run = r
<1>1. ASSUME e.job = j, e.run = r PROVE RunKey(j, r) \in Touched(e)
  <2>1. Plan(e)[2] = RunKey(j, r) /\ 2 \in 1 .. Len(Plan(e))
    BY <1>1, PlanHead
  <2>2. QED BY <2>1, PlanTouches
<1>2. ASSUME RunKey(j, r) \in Touched(e) PROVE e.job = j /\ e.run = r
  <2> DEFINE head == <<JobKey(e.job), RunKey(e.job, e.run)>>
             ins  == DatasetSteps(e.job, e.inputs, "input")
             outs == DatasetSteps(e.job, e.outputs, "output")
             None(s) == \A i \in 1 .. Len(s) : s[i].tbl # "job_run"
  <2>1. head \in Seq(Keys) /\ ins \in Seq(Keys) /\ outs \in Seq(Keys)
    BY StepsInKeys
  <2>2. ASSUME NEW ds \in Seq(Datasets), NEW dir
        PROVE  \A i \in 1 .. Len(DatasetSteps(e.job, ds, dir)) :
                  DatasetSteps(e.job, ds, dir)[i].tbl # "job_run"
    <3>1. 3 * Len(ds) \in Nat
      OBVIOUS
    <3>2. Len(DatasetSteps(e.job, ds, dir)) = 3 * Len(ds)
      BY <3>1 DEF DatasetSteps
    <3>3. QED BY <3>2 DEF DatasetSteps, ConnKey, DatasetKey, EdgeKey
  <2>3. None(ins) /\ None(outs)
    BY <2>2, EventsAssumption DEF Event
  <2>4. PICK i \in 1 .. Len(Plan(e)) : RunKey(j, r) = Plan(e)[i]
    BY <1>2, PlanTouches
  <2>5. Plan(e) = (head \o ins) \o outs
    BY DEF Plan
  <2>6. RunKey(j, r).tbl = "job_run"
    BY DEF RunKey
  <2>7. Len(head) = 2 /\ head[1] = JobKey(e.job) /\ head[2] = RunKey(e.job, e.run)
    OBVIOUS
  <2> HIDE DEF head, ins, outs
  <2>8. /\ head \o ins \in Seq(Keys) /\ Len(head \o ins) = Len(head) + Len(ins)
        /\ \A n \in 1 .. Len(head) + Len(ins) :
              (head \o ins)[n] = IF n <= Len(head) THEN head[n] ELSE ins[n - Len(head)]
    BY <2>1, ConcatProperties
  <2> DEFINE front == head \o ins
  <2> HIDE DEF front
  <2>9. /\ Len(front \o outs) = Len(front) + Len(outs)
        /\ \A n \in 1 .. Len(front) + Len(outs) :
              (front \o outs)[n] = IF n <= Len(front) THEN front[n] ELSE outs[n - Len(front)]
    BY <2>1, <2>8, ConcatProperties DEF front
  <2>10. Len(ins) \in Nat /\ Len(outs) \in Nat /\ Len(front) = 2 + Len(ins)
    BY <2>1, <2>7, <2>8 DEF front
  <2>11. CASE i > Len(front)
    <3>1. RunKey(j, r) = outs[i - Len(front)] /\ i - Len(front) \in 1 .. Len(outs)
      BY <2>4, <2>5, <2>9, <2>10, <2>11 DEF front
    <3>2. QED BY <2>3, <2>6, <3>1
  <2>12. CASE i <= Len(front) /\ i > 2
    <3>1. RunKey(j, r) = front[i]
      BY <2>4, <2>5, <2>9, <2>10, <2>12 DEF front
    <3>2. front[i] = ins[i - 2] /\ i - 2 \in 1 .. Len(ins)
      BY <2>7, <2>8, <2>10, <2>12 DEF front
    <3>3. QED BY <2>3, <2>6, <3>1, <3>2
  <2>13. CASE i <= 2
    <3>1. RunKey(j, r) = front[i] /\ front[i] = head[i]
      BY <2>4, <2>5, <2>7, <2>8, <2>9, <2>10, <2>13 DEF front
    <3>2. JobKey(e.job).tbl # "job_run"
      BY DEF JobKey
    <3>3. RunKey(j, r) = RunKey(e.job, e.run)
      BY <2>4, <2>6, <2>7, <2>13, <3>1, <3>2
    <3>4. QED BY <3>3 DEF RunKey
  <2>14. QED BY <2>4, <2>10, <2>11, <2>12, <2>13
<1>3. QED BY <1>1, <1>2

\* Only a commit changes the tables or the outbox.
LEMMA OnlyCommitWrites ==
    ASSUME [Next]_vars
    PROVE  UNCHANGED <<db, outbox>> \/ \E t \in Requests : Commit(t)
BY DEF Next, vars, Handler, Begin, UpsertRow, AppendOutbox, Commit, Respond, RejectTime,
       DatabaseError, BreakDeadlock, LoseCommitReply, Crash, Rollback

LEMMA CommitKeepsSummary ==
    ASSUME IndInv, RunRowSummarisesEvents, NEW t \in Requests, Commit(t)
    PROVE  RunRowSummarisesEvents'
<1> SUFFICES ASSUME NEW j \in Jobs, NEW r \in RunIds
             PROVE  Summarises(db'[RunKey(j, r)],
                               {o \in outbox' : o.event.job = j /\ o.event.run = r})
  BY DEF RunRowSummarisesEvents
<1> DEFINE k   == RunKey(j, r)
           e   == event[t]
           new == [id |-> outboxId[t], request |-> t, event |-> e]
           A   == {o \in outbox : o.event.job = j /\ o.event.run = r}
<1>1. e \in Events /\ pc[t] = "open" /\ outbox' = outbox \cup {new}
  BY DEF IndInv, TypeOK, Commit
<1>2. db' = ApplyEvent(e, db)
  BY CommitHoldsPlan
<1>3. k \in Keys /\ k.tbl = "job_run" /\ db[k] \in RunRows \cup {NULL}
  <2>1. k \in Keys /\ k.tbl = "job_run"
    BY DEF Keys, RunKey
  <2>2. db[k] \in RowsOf(k) \cup {NULL}
    BY <2>1 DEF IndInv, TypeOK
  <2>3. QED BY <2>1, <2>2 DEF RowsOf
<1>4. outboxId[t] \in Nat \ {0} /\ e.time # NULL
  <2>1. Len(Plan(e)) \in Nat /\ Len(Plan(e)) >= 2
    BY <1>1, PlanHead
  <2>2. QED BY <1>1, <2>1 DEF IndInv, TypeOK, StepsInv, Commit
<1>5. Summarises(db[k], A)
  BY DEF RunRowSummarisesEvents
<1>6. CASE e.job = j /\ e.run = r
  <2>1. db'[k] = UpsertRun(e, db[k])
    BY <1>1, <1>2, <1>3, <1>6, RunKeyTouched DEF ApplyEvent, Upsert
  <2>2. ASSUME NEW o \in A PROVE o.id \in Nat /\ o.id < new.id /\ o.event.time # NULL
    <3>1. PICK u \in Requests : /\ pc[u] = "committed"
                               /\ o = [id |-> outboxId[u], request |-> u, event |-> event[u]]
      BY DEF IndInv, IdsInv
    <3>2. o.event \in Events /\ o.event.time # NULL /\ o.id \in Nat
      BY <3>1 DEF IndInv, TypeOK, StepsInv
    <3>3. k \in Touched(o.event) /\ k \in Touched(e)
      BY <1>1, <1>6, <3>2, RunKeyTouched
    <3>4. Conflict(o.event, event[t])
      BY <3>3 DEF Conflict
    <3>5. o.id < outboxId[t]
      BY <1>1, <1>4, <3>4 DEF IndInv, IdsInv
    <3>6. QED BY <3>2, <3>5
  <2>3. {o \in outbox' : o.event.job = j /\ o.event.run = r} = A \cup {new}
    BY <1>1, <1>6
  <2>4. /\ new.event = e /\ new.id = outboxId[t]
    OBVIOUS
  <2> HIDE DEF new, A, e, k
  <2>5. Summarises(UpsertRun(new.event, db[k]), A \cup {new})
    BY <1>1, <1>3, <1>4, <1>5, <2>2, <2>4, UpsertRunSummarises
  <2>6. QED BY <2>1, <2>3, <2>4, <2>5 DEF k
<1>7. CASE ~(e.job = j /\ e.run = r)
  <2>1. db'[k] = db[k]
    BY <1>1, <1>2, <1>3, <1>7, RunKeyTouched DEF ApplyEvent
  <2>2. {o \in outbox' : o.event.job = j /\ o.event.run = r} = A
    BY <1>1, <1>7
  <2> HIDE DEF A
  <2>3. QED BY <1>5, <2>1, <2>2
<1>8. QED BY <1>6, <1>7

\* Whatever the order and number of a run's events, its row is their summary:
\* the start time is written once, the last terminal event decides.
THEOREM RunRowIsSummary == Spec => []RunRowSummarisesEvents
<1>1. Init => RunRowSummarisesEvents
  <2> SUFFICES ASSUME Init, NEW j \in Jobs, NEW r \in RunIds
               PROVE  Summarises(db[RunKey(j, r)],
                                 {o \in outbox : o.event.job = j /\ o.event.run = r})
    BY DEF RunRowSummarisesEvents
  <2>1. db[RunKey(j, r)] = NULL
    <3>1. RunKey(j, r) \in Keys /\ ~IsRegistered(RunKey(j, r))
      BY DEF Keys, RunKey, IsRegistered
    <3>2. db \in InitialTables
      BY DEF Init
    <3>3. QED BY <3>1, <3>2 DEF InitialTables
  <2>2. outbox = {}
    BY DEF Init
  <2>3. QED BY <2>1, <2>2 DEF Summarises
<1>2. IndInv /\ RunRowSummarisesEvents /\ [Next]_vars => RunRowSummarisesEvents'
  <2> SUFFICES ASSUME IndInv, RunRowSummarisesEvents, [Next]_vars PROVE RunRowSummarisesEvents'
    OBVIOUS
  <2>1. CASE UNCHANGED <<db, outbox>>
    BY <2>1 DEF RunRowSummarisesEvents
  <2>2. CASE \E t \in Requests : Commit(t)
    BY <2>2, CommitKeepsSummary
  <2>3. QED BY <2>1, <2>2, OnlyCommitWrites
<1>3. QED BY <1>1, <1>2, IndInvHolds, PTL DEF Spec

-----------------------------------------------------------------------------
(* What the client is told. *)

\* An answer the client can rely on was given for a transaction that has ended
\* the way the answer says.
AnswersMatch ==
    \A t \in Requests :
        /\ answer[t] = "202" => pc[t] = "committed"
        /\ answer[t] = "400" => pc[t] = "aborted" /\ event[t].time = NULL

LEMMA NextKeepsAnswers == IndInv /\ AnswersMatch /\ [Next]_vars => AnswersMatch'
<1> SUFFICES ASSUME IndInv, AnswersMatch, [Next]_vars PROVE AnswersMatch'
  OBVIOUS
<1> USE DEF AnswersMatch
<1>1. \A t \in Requests : event'[t] = event[t]
  BY DEF Next, vars, Handler, Begin, UpsertRow, AppendOutbox, Commit, Respond, RejectTime,
         DatabaseError, BreakDeadlock, LoseCommitReply, Crash, Rollback
<1>2. ASSUME NEW t \in Requests, Handler(t) \/ DatabaseError(t) \/ BreakDeadlock(t) \/ LoseCommitReply(t)
      PROVE  AnswersMatch'
  <2>1. CASE Begin(t) \/ Commit(t)
    BY <1>1, <2>1 DEF Begin, Commit, IndInv, TypeOK
  <2>2. CASE UpsertRow(t) \/ AppendOutbox(t)
    BY <1>1, <2>2 DEF UpsertRow, AppendOutbox
  <2>3. CASE Respond(t) \/ LoseCommitReply(t)
    BY <1>1, <2>3 DEF Respond, LoseCommitReply, IndInv, TypeOK
  <2>4. CASE RejectTime(t)
    <3>1. event[t].time = NULL /\ pc' = [u \in Requests |-> IF u = t THEN "aborted" ELSE pc[u]]
          /\ answer' = [answer EXCEPT ![t] = "400"] /\ pc[t] = "open"
      BY <2>4 DEF RejectTime, BadTime, Working, Rollback
    <3>2. QED BY <1>1, <3>1 DEF IndInv, TypeOK
  <2>5. CASE DatabaseError(t) \/ BreakDeadlock(t)
    <3>1. pc' = [u \in Requests |-> IF u = t THEN "aborted" ELSE pc[u]]
          /\ answer' = [answer EXCEPT ![t] = "500"] /\ pc[t] = "open"
      BY <2>5 DEF DatabaseError, BreakDeadlock, Rollback
    <3>2. QED BY <1>1, <3>1 DEF IndInv, TypeOK
  <2>6. QED BY <1>2, <2>1, <2>2, <2>3, <2>4, <2>5 DEF Handler
<1>3. CASE Crash
  <2>1. /\ pc' = [u \in Requests |-> IF u \in Open THEN "aborted" ELSE pc[u]]
        /\ \A u \in Requests : answer'[u] \in {"lost", answer[u]}
    BY <1>3 DEF Crash, Rollback
  <2>2. QED BY <1>1, <2>1 DEF Open
<1>4. CASE UNCHANGED vars
  BY <1>4 DEF vars
<1>5. QED BY <1>2, <1>3, <1>4 DEF Next

\* 202 is only sent for an event that is in the outbox exactly once, 400 only
\* for one whose time did not parse and that left nothing there.
THEOREM AnswersAreTruthful == Spec => []AnswerTruthful
<1>1. Init => AnswersMatch
  BY RequestsAssumption DEF Init, AnswersMatch, Answers
<1>2. IndInv /\ AnswersMatch /\ [Next]_vars => AnswersMatch'
  BY NextKeepsAnswers
<1>3. IndInv /\ AnswersMatch => AnswerTruthful
  <2> SUFFICES ASSUME IndInv, AnswersMatch, NEW t \in Requests
               PROVE  LET mine == {o \in outbox : o.request = t}
                      IN  /\ answer[t] = "202" => \E o \in mine : mine = {o} /\ o.event = event[t]
                          /\ answer[t] = "400" => mine = {} /\ event[t].time = NULL
                          /\ mine # {} => event[t].time # NULL
    BY DEF AnswerTruthful
  <2> DEFINE mine == {o \in outbox : o.request = t}
             own  == [id |-> outboxId[t], request |-> t, event |-> event[t]]
  <2>1. outbox = {[id |-> outboxId[u], request |-> u, event |-> event[u]] :
                    u \in {v \in Requests : pc[v] = "committed"}}
    BY DEF IndInv, IdsInv
  <2>2. mine = IF pc[t] = "committed" THEN {own} ELSE {}
    BY <2>1
  <2>3. pc[t] = "committed" => event[t].time # NULL
    BY DEF IndInv, StepsInv
  <2> HIDE DEF mine
  <2>4. answer[t] = "202" => mine = {own} /\ own.event = event[t]
    BY <2>2 DEF AnswersMatch
  <2>5. answer[t] = "400" => mine = {} /\ event[t].time = NULL
    BY <2>2 DEF AnswersMatch
  <2>6. mine # {} => event[t].time # NULL
    BY <2>2, <2>3
  <2>7. QED BY <2>4, <2>5, <2>6 DEF mine
<1>4. QED BY <1>1, <1>2, <1>3, IndInvHolds, PTL DEF Spec

-----------------------------------------------------------------------------
(* The outbox replays to the tables.  Entries are replayed by ids, which need  *)
(* not be the order of the commits; but an entry that is committed out of the  *)
(* order of ids conflicts with no later id, so it can be moved there.          *)

Tables == {f \in [Keys -> Row \cup {NULL}] : \A k \in Keys : f[k] \in RowsOf(k) \cup {NULL}}

LEMMA ApplyType ==
    ASSUME NEW e \in Events, NEW tables \in Tables
    PROVE  ApplyEvent(e, tables) \in Tables
<1>1. ASSUME NEW k \in Keys
      PROVE  /\ ApplyEvent(e, tables)[k] \in RowsOf(k) \cup {NULL}
             /\ ApplyEvent(e, tables)[k] \in Row \cup {NULL}
  <2>1. ApplyEvent(e, tables)[k] = IF k \in Touched(e) THEN Upsert(e, k, tables[k]) ELSE tables[k]
    BY DEF ApplyEvent
  <2>2. tables[k] \in RowsOf(k) \cup {NULL}
    BY DEF Tables
  <2> QED
    BY <2>1, <2>2, UpsertType, RowsOfKey
<1>2. ApplyEvent(e, tables) \in [Keys -> Row \cup {NULL}]
  BY <1>1 DEF ApplyEvent
<1> QED
  BY <1>1, <1>2 DEF Tables

\* Events that share no row may be applied in either order.
LEMMA ApplyCommutes ==
    ASSUME NEW e, NEW f, NEW tables, ~Conflict(e, f)
    PROVE  ApplyEvent(f, ApplyEvent(e, tables)) = ApplyEvent(e, ApplyEvent(f, tables))
<1>1. ASSUME NEW k \in Keys
      PROVE  ApplyEvent(f, ApplyEvent(e, tables))[k] = ApplyEvent(e, ApplyEvent(f, tables))[k]
  BY DEF ApplyEvent, Conflict
<1> QED
  BY <1>1 DEF ApplyEvent

\* R applies the entry with id n, if A has one, in step n.
ReplaySteps(A, tables, R) ==
    /\ R[0] = tables
    /\ \A n \in 1 .. MaxId :
          R[n] = IF \A o \in A : o.id # n THEN R[n - 1]
                 ELSE ApplyEvent((CHOOSE o \in A : o.id = n).event, R[n - 1])

\* The recursive function Replay satisfies its equations.
LEMMA ReplayEquations ==
    ASSUME NEW A, \A o \in A : o.event \in Events, NEW tables \in Tables
    PROVE  ReplaySteps(A, tables, Replay(A, tables))
<1> DEFINE ev(n)   == (CHOOSE o \in A : o.id = n).event
           next    == [n \in Nat |-> [t \in Tables |->
                         IF \A o \in A : o.id # n THEN t ELSE ApplyEvent(ev(n), t)]]
           IsReplay(g) == g = [n \in 0 .. MaxId |->
                                  IF n = 0 THEN tables
                                  ELSE IF \A o \in A : o.id # n THEN g[n - 1]
                                  ELSE ApplyEvent(ev(n), g[n - 1])]
<1>1. next \in [Nat -> [Tables -> Tables]]
  <2>1. ASSUME NEW n \in Nat, NEW t \in Tables
        PROVE  (IF \A o \in A : o.id # n THEN t ELSE ApplyEvent(ev(n), t)) \in Tables
    BY ApplyType
  <2> QED
    BY <2>1
<1>2. MaxId \in Nat
  BY PoolAssumption
<1>3. PICK g \in [0 .. MaxId -> Tables] : Recursion(g, MaxId, tables, next)
  <2> HIDE DEF next
  <2> QED
    BY <1>1, <1>2, RecursionExists
<1>4. IsReplay(g)
  <2>1. ASSUME NEW n \in 1 .. MaxId
        PROVE  g[n] = IF \A o \in A : o.id # n THEN g[n - 1] ELSE ApplyEvent(ev(n), g[n - 1])
    <3>1. n \in Nat /\ n - 1 \in 0 .. MaxId
      BY <1>2, <2>1
    <3>2. g[n] = next[n][g[n - 1]]
      BY <1>3 DEF Recursion
    <3> QED
      BY <3>1, <3>2
  <2>2. g[0] = tables
    BY <1>3 DEF Recursion
  <2>3. \A n \in 0 .. MaxId : n = 0 \/ n \in 1 .. MaxId
    BY <1>2
  <2> QED
    BY <1>2, <2>1, <2>2, <2>3
<1>5. Replay(A, tables) = CHOOSE h : IsReplay(h)
  BY DEF Replay
<1>6. IsReplay(Replay(A, tables))
  <2> HIDE DEF IsReplay
  <2> QED
    BY <1>4, <1>5
<1> QED
  BY <1>2, <1>6 DEF ReplaySteps

\* An entry added to the outbox has the effect of its event on what the others
\* replay to, if no later id conflicts with it.
LEMMA ReplayInsert ==
    ASSUME NEW A, NEW o, NEW tables \in Tables,
           \A p \in A : p.event \in Events, o.event \in Events, o.id \in 1 .. MaxId,
           \A p, q \in A : p.id = q.id => p = q,
           \A p \in A : p.id # o.id /\ (Conflict(p.event, o.event) => p.id < o.id)
    PROVE  Replay(A \cup {o}, tables)[MaxId] = ApplyEvent(o.event, Replay(A, tables)[MaxId])
<1> DEFINE m  == o.id
           e  == o.event
           B  == A \cup {o}
           RA == Replay(A, tables)
           RB == Replay(B, tables)
           S  == {n \in 0 .. MaxId : RB[n] = IF n < m THEN RA[n] ELSE ApplyEvent(e, RA[n])}
<1>1. /\ RA[0] = tables
      /\ \A n \in 1 .. MaxId :
            /\ (\A p \in A : p.id # n) => RA[n] = RA[n - 1]
            /\ \A p \in A : p.id = n => RA[n] = ApplyEvent(p.event, RA[n - 1])
  <2> HIDE DEF RA
  <2>1. ReplaySteps(A, tables, RA)
    BY ReplayEquations DEF RA
  <2>2. ASSUME NEW n \in 1 .. MaxId, NEW p \in A, p.id = n
        PROVE  RA[n] = ApplyEvent(p.event, RA[n - 1])
    <3>1. (CHOOSE q \in A : q.id = n) = p
      BY <2>2
    <3> QED
      BY <2>1, <2>2, <3>1 DEF ReplaySteps
  <2> QED
    BY <2>1, <2>2 DEF ReplaySteps
<1>2. /\ RB[0] = tables
      /\ \A n \in 1 .. MaxId :
            /\ (\A p \in B : p.id # n) => RB[n] = RB[n - 1]
            /\ \A p \in B : p.id = n => RB[n] = ApplyEvent(p.event, RB[n - 1])
  <2>1. \A p \in B : p.event \in Events
    OBVIOUS
  <2>2. \A p, q \in B : p.id = q.id => p = q
    OBVIOUS
  <2> HIDE DEF RB, B
  <2>3. ReplaySteps(B, tables, RB)
    BY <2>1, ReplayEquations DEF RB
  <2>4. ASSUME NEW n \in 1 .. MaxId, NEW p \in B, p.id = n
        PROVE  RB[n] = ApplyEvent(p.event, RB[n - 1])
    <3>1. (CHOOSE q \in B : q.id = n) = p
      BY <2>2, <2>4
    <3> QED
      BY <2>3, <2>4, <3>1 DEF ReplaySteps
  <2> QED
    BY <2>3, <2>4 DEF ReplaySteps
<1> HIDE DEF RA, RB
<1>3. MaxId \in Nat
  BY PoolAssumption
<1>4. 0 \in S
  BY <1>1, <1>2, <1>3
<1>5. ASSUME NEW n \in 0 .. MaxId - 1, n \in S PROVE n + 1 \in S
  <2>1. n + 1 \in 1 .. MaxId /\ (n + 1) - 1 = n /\ n + 1 \in 0 .. MaxId
    BY <1>3
  <2>2. CASE n + 1 = m
    <3>1. RA[n + 1] = RA[n] /\ RB[n + 1] = ApplyEvent(e, RB[n])
      BY <1>1, <1>2, <2>1, <2>2
    <3>2. RB[n] = RA[n]
      BY <1>5, <2>2
    <3> QED
      BY <2>1, <2>2, <3>1, <3>2
  <2>3. CASE n + 1 # m /\ \A p \in A : p.id # n + 1
    <3>1. RA[n + 1] = RA[n] /\ RB[n + 1] = RB[n]
      BY <1>1, <1>2, <2>1, <2>3
    <3>2. n < m <=> n + 1 < m
      BY <2>3
    <3> QED
      BY <1>5, <2>1, <3>1, <3>2
  <2>4. ASSUME n + 1 # m, NEW p \in A, p.id = n + 1
        PROVE  n + 1 \in S
    <3>1. RA[n + 1] = ApplyEvent(p.event, RA[n]) /\ RB[n + 1] = ApplyEvent(p.event, RB[n])
      BY <1>1, <1>2, <2>1, <2>4
    <3>2. n < m <=> n + 1 < m
      BY <2>4
    <3>3. CASE n < m
      BY <1>5, <2>1, <3>1, <3>2, <3>3
    <3>4. CASE ~(n < m)
      <4>1. ~Conflict(e, p.event)
        BY <2>4, <3>2, <3>4 DEF Conflict
      <4>2. RB[n + 1] = ApplyEvent(e, RA[n + 1])
        BY <1>5, <3>1, <3>4, <4>1, ApplyCommutes
      <4> QED
        BY <2>1, <3>2, <3>4, <4>2
    <3> QED
      BY <3>3, <3>4
  <2> QED
    BY <2>2, <2>3, <2>4
<1>6. 0 .. MaxId \subseteq S
  <2> HIDE DEF S
  <2> QED
    BY <1>3, <1>4, <1>5, IntervalInSet
<1>7. MaxId \in S /\ ~(MaxId < m)
  BY <1>3, <1>6
<1> QED
  BY <1>7 DEF RA, RB

\* An empty outbox replays to the tables it started from.
LEMMA ReplayNothing ==
    ASSUME NEW tables \in Tables PROVE Replay({}, tables)[MaxId] = tables
<1> DEFINE R == Replay({}, tables)
           S == {n \in 0 .. MaxId : R[n] = tables}
<1>1. MaxId \in Nat
  BY PoolAssumption
<1>2. R[0] = tables /\ \A n \in 1 .. MaxId : R[n] = R[n - 1]
  <2> HIDE DEF R
  <2>1. ReplaySteps({}, tables, R)
    BY ReplayEquations DEF R
  <2> QED
    BY <2>1 DEF ReplaySteps
<1> HIDE DEF R
<1>3. 0 \in S
  BY <1>1, <1>2
<1>4. ASSUME NEW n \in 0 .. MaxId - 1, n \in S PROVE n + 1 \in S
  <2>1. n + 1 \in 1 .. MaxId /\ (n + 1) - 1 = n /\ n + 1 \in 0 .. MaxId
    BY <1>1
  <2> QED
    BY <1>2, <1>4, <2>1
<1>5. 0 .. MaxId \subseteq S
  <2> HIDE DEF S
  <2> QED
    BY <1>1, <1>3, <1>4, IntervalInSet
<1> QED
  BY <1>1, <1>5 DEF R

LEMMA InitialTablesType == InitialTables \subseteq Tables
<1> SUFFICES ASSUME NEW gone \in SUBSET Registered
             PROVE  [k \in Keys |-> IF IsRegistered(k)
                                      THEN [platform |-> "registered", deleted |-> k.conn \in gone]
                                      ELSE NULL] \in Tables
  BY DEF InitialTables
<1>1. ASSUME NEW k \in Keys, IsRegistered(k)
      PROVE  [platform |-> "registered", deleted |-> k.conn \in gone] \in RowsOf(k)
  BY <1>1 DEF IsRegistered, RowsOf, ConnRows
<1>2. \A k \in Keys : RowsOf(k) \subseteq Row
  BY RowsOfKey
<1> QED
  BY <1>1, <1>2 DEF Tables

LEMMA CommitKeepsReplay ==
    ASSUME IndInv, ReplayMatchesTables, NEW t \in Requests, Commit(t)
    PROVE  ReplayMatchesTables'
<1> DEFINE new == [id |-> outboxId[t], request |-> t, event |-> event[t]]
<1>1. event[t] \in Events /\ pc[t] = "open" /\ outbox' = outbox \cup {new}
  BY DEF IndInv, TypeOK, Commit
<1>2. db' = ApplyEvent(event[t], db)
  BY CommitHoldsPlan
<1>3. outboxId[t] \in 1 .. MaxId
  <2>1. Len(Plan(event[t])) \in Nat
    BY <1>1, PlanHead
  <2> QED
    BY <1>1, <2>1, PoolAssumption DEF IndInv, TypeOK, StepsInv, IdsInv, Commit
<1>4. \A p \in outbox : p.event \in Events
  BY DEF IndInv, TypeOK
<1>5. \A p, q \in outbox : p.id = q.id => p = q
  <2> SUFFICES ASSUME NEW p \in outbox, NEW q \in outbox, p.id = q.id PROVE p = q
    OBVIOUS
  <2>1. PICK u \in Requests : pc[u] = "committed"
                              /\ p = [id |-> outboxId[u], request |-> u, event |-> event[u]]
    BY DEF IndInv, IdsInv
  <2>2. PICK v \in Requests : pc[v] = "committed"
                              /\ q = [id |-> outboxId[v], request |-> v, event |-> event[v]]
    BY DEF IndInv, IdsInv
  <2>3. outboxId[u] = outboxId[v] /\ outboxId[u] # 0
    BY <2>1, <2>2 DEF IndInv, StepsInv
  <2>4. u = v
    BY <2>3 DEF IndInv, IdsInv
  <2> QED
    BY <2>1, <2>2, <2>4
<1>6. \A p \in outbox : p.id # new.id /\ (Conflict(p.event, new.event) => p.id < new.id)
  <2> SUFFICES ASSUME NEW p \in outbox
               PROVE  p.id # outboxId[t] /\ (Conflict(p.event, event[t]) => p.id < outboxId[t])
    OBVIOUS
  <2>1. PICK u \in Requests : pc[u] = "committed" /\ p.id = outboxId[u]
    BY DEF IndInv, IdsInv
  <2> QED
    BY <1>1, <1>3, <2>1 DEF IndInv, IdsInv
<1>7. PICK tables \in InitialTables : Replay(outbox, tables)[MaxId] = db
  BY DEF ReplayMatchesTables
<1>8. tables \in Tables /\ new.event \in Events /\ new.id \in 1 .. MaxId /\ new.event = event[t]
  BY <1>1, <1>3, InitialTablesType
<1> HIDE DEF new
<1>9. Replay(outbox', tables)[MaxId] = db'
  BY <1>1, <1>2, <1>4, <1>5, <1>6, <1>7, <1>8, ReplayInsert
<1> QED
  BY <1>9 DEF ReplayMatchesTables

\* Whatever interleaves, fails or crashes: the outbox entries, applied in id order
\* to the tables as they were before the first event, give the committed tables.
THEOREM OutboxReplays == Spec => []ReplayMatchesTables
<1>1. Init => ReplayMatchesTables
  BY ReplayNothing, InitialTablesType DEF Init, ReplayMatchesTables
<1>2. IndInv /\ ReplayMatchesTables /\ [Next]_vars => ReplayMatchesTables'
  <2>1. ASSUME ReplayMatchesTables, UNCHANGED <<db, outbox>> PROVE ReplayMatchesTables'
    BY <2>1 DEF ReplayMatchesTables
  <2> QED
    BY <2>1, OnlyCommitWrites, CommitKeepsReplay
<1> QED
  BY <1>1, <1>2, IndInvHolds, PTL DEF Spec
=============================================================================
