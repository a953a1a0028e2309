----------------------------- MODULE ProducerProofs -----------------------------
(***************************************************************************)
(* Proofs about Producer, for any collectors, start configurations, calls  *)
(* of configure() and other threads, any datasets and columns, and any     *)
(* number of with blocks and of recorded reads and writes.                 *)
(***************************************************************************)
EXTENDS Producer, Integers, SequenceTheorems, TLAPS

\* get_emitter() returns an emitter, whatever other threads store meanwhile: one has
\* been built when it is to be stored, and is there when an event is to be posted.
EmitterInv ==
    /\ config \in [url: Collectors \cup {NULL}, emit: BOOLEAN]
    /\ client \in Collectors \cup {NULL} /\ mine \in Collectors \cup {NULL}
    /\ theirs \in [Threads -> Collectors \cup {NULL}]
    /\ pc = "building" => mine # NULL
    /\ pc \in {"stored", "inside"} \cup Waiting => client # NULL

LEMMA StepKeepsEmitter == ASSUME EmitterInv, [Next]_vars PROVE EmitterInv'
<1>1. CASE UNCHANGED vars
  BY <1>1 DEF EmitterInv, Waiting, vars, setup
<1>2. ASSUME NEW c \in [url: Collectors \cup {NULL}, emit: BOOLEAN], Configure(c)
      PROVE  EmitterInv'
  BY <1>2 DEF EmitterInv, Waiting, Configure
<1>3. CASE Build
  BY <1>3 DEF EmitterInv, Waiting, Build
<1>4. CASE Store
  BY <1>4 DEF EmitterInv, Waiting, Store
<1>5. ASSUME NEW t \in Threads, TheyBuild(t) \/ TheyStore(t) PROVE EmitterInv'
  <2>1. CASE TheyBuild(t)
    <3>1. config.url \in Collectors \cup {NULL}
      BY DEF EmitterInv
    <3>2. theirs' \in [Threads -> Collectors \cup {NULL}]
      BY <2>1, <3>1 DEF EmitterInv, TheyBuild
    <3> QED
      BY <2>1, <3>2 DEF EmitterInv, Waiting, TheyBuild
  <2>2. CASE TheyStore(t)
    <3>1. theirs[t] \in Collectors \cup {NULL} /\ theirs' \in [Threads -> Collectors \cup {NULL}]
      BY <2>2 DEF EmitterInv, TheyStore
    <3> QED
      BY <2>2, <3>1 DEF EmitterInv, Waiting, TheyStore
  <2> QED
    BY <1>5, <2>1, <2>2
<1>6. CASE JobStep
  BY <1>6 DEF EmitterInv, Waiting, JobStep, Answered, TimedOut, Hear, Continue, setup
<1>7. CASE EnterRaises \/ Stop
  BY <1>7 DEF EmitterInv, Waiting, EnterRaises, Stop, setup
<1>8. CASE Enter
  <2>1. client # NULL /\ UNCHANGED setup /\ pc' # "building"
    BY <1>8 DEF EmitterInv, Enter, Emit
  <2> QED
    BY <2>1 DEF EmitterInv, setup
<1>9. ASSUME NEW type \in {"COMPLETE", "FAIL"}, Exit(type) PROVE EmitterInv'
  <2>1. client # NULL /\ UNCHANGED setup /\ pc' # "building"
    BY <1>9 DEF EmitterInv, Exit, Emit
  <2> QED
    BY <2>1 DEF EmitterInv, setup
<1>10. ASSUME NEW d \in Datasets,
              RecordRead(d) \/ \E m \in ColMaps \cup {NULL} : RecordWrite(d, m)
       PROVE  EmitterInv'
  BY <1>10 DEF EmitterInv, Waiting, RecordRead, RecordWrite, setup
<1>11. ASSUME NEW i \in DOMAIN sent, Apply(i) \/ Lose(i) PROVE EmitterInv'
  BY <1>11 DEF EmitterInv, Waiting, Apply, Lose, setup
<1> QED
  BY <1>1, <1>2, <1>3, <1>4, <1>5, <1>6, <1>7, <1>8, <1>9, <1>10, <1>11 DEF Next

-----------------------------------------------------------------------------
(* The types, and what a job's position says about the number of its posts. *)

\* The collectors' rows.
RowsTyped == /\ DOMAIN db = Collectors
             /\ \A u \in Collectors, k \in Keys : db[u][k] \in RowsOf(k) \cup {NULL}

\* An event of the Connection.
OwnEvent ==
    [job: {Job}, run: {Run}, type: {"START", "COMPLETE", "FAIL"}, time: Times, producer: {{}},
     inputs: Seq(Datasets), outputs: Seq(Datasets), iceberg: {{}},
     cols: [Datasets -> ColMaps \cup {NULL}]]

\* One entry of to, state and heard per post; a block that has been entered can
\* still post its outcome within the bound.
TypeInv ==
    /\ EmitterInv
    /\ pc \in {"outside", "inside"} \cup Building \cup Waiting \cup Gone
    /\ inputs \in Seq(Datasets) /\ outputs \in Seq(Datasets)
    /\ cols \in [Datasets -> ColMaps \cup {NULL}]
    /\ sent \in Seq(OwnEvent)
    /\ to \in Seq(Collectors) /\ Len(to) = Len(sent)
    /\ state \in Seq({"underway", "applied", "lost"}) /\ Len(state) = Len(sent)
    /\ heard \in Seq({"answer", "timeout", NULL}) /\ Len(heard) = Len(sent)
    /\ Len(sent) <= 2 * MaxEntries
    /\ pc \in Building => Len(sent) + 2 <= 2 * MaxEntries
    /\ pc \in {"starting", "inside"} => Len(sent) < 2 * MaxEntries
    /\ RowsTyped
    /\ owed \in [Collectors -> SUBSET Keys]

OwnTypes == {"START", "COMPLETE", "FAIL"}

\* An own event is an event, and posting one stays within the clock's bound.
LEMMA OwnEvents == OwnEvent \subseteq Event
BY ProducerAssumption DEF OwnEvent, Event, EventTypes

LEMMA RunEventIsOwn ==
    ASSUME TypeInv, Len(sent) < 2 * MaxEntries, NEW type \in OwnTypes
    PROVE  RunEvent(type) \in OwnEvent
<1>1. Len(sent) \in Nat /\ MaxEntries \in Nat
  BY ProducerAssumption DEF TypeInv
<1>2. Len(sent) + 1 \in 1 .. 2 * MaxEntries
  BY <1>1
<1>3. Len(sent) + 1 \in Times
  BY <1>2, ProducerAssumption
<1> QED
  BY <1>3 DEF RunEvent, OwnEvent, OwnTypes, TypeInv

\* The four things a step can do to the posts and the collectors' rows: nothing,
\* while the recorded datasets only grow; post an event to some collector; hear of
\* the last one; settle one.
Quiet ==
    /\ UNCHANGED <<sent, to, state, heard, db, owed>>
    /\ ToSet(inputs) \subseteq ToSet(inputs') /\ ToSet(outputs) \subseteq ToSet(outputs')

Post(type) ==
    /\ client \in Collectors
    /\ sent' = Append(sent, RunEvent(type)) /\ to' = Append(to, client)
    /\ state' = Append(state, "underway") /\ heard' = Append(heard, NULL)
    /\ UNCHANGED <<inputs, outputs, db>>
    /\ owed' = IF type = "START" THEN owed ELSE [owed EXCEPT ![client] = Recorded]

Learn(what) ==
    /\ what = "answer" => state[Len(sent)] # "underway"
    /\ heard' = [heard EXCEPT ![Len(sent)] = what]
    /\ UNCHANGED <<inputs, outputs, sent, to, state, db, owed>>

Settle(i) ==
    /\ state[i] = "underway"
    /\ \/ /\ state' = [state EXCEPT ![i] = "applied"]
          /\ db' = [db EXCEPT ![to[i]] = ApplyEvent(sent[i], @)]
       \/ state' = [state EXCEPT ![i] = "lost"] /\ UNCHANGED db
    /\ UNCHANGED <<inputs, outputs, sent, to, heard, owed>>

\* An element appended to a sequence joins its elements.
LEMMA ToSetAppend ==
    ASSUME NEW S, NEW s \in Seq(S), NEW x \in S
    PROVE  ToSet(Append(s, x)) = ToSet(s) \cup {x}
<1>1. Append(s, x) \in Seq(S) /\ Len(Append(s, x)) = Len(s) + 1 /\ Len(s) \in Nat
  OBVIOUS
<1>2. DOMAIN Append(s, x) = 1 .. Len(s) + 1 /\ DOMAIN s = 1 .. Len(s)
  BY <1>1
<1>3. \A i \in 1 .. Len(s) + 1 : Append(s, x)[i] = IF i = Len(s) + 1 THEN x ELSE s[i]
  BY <1>1
<1> QED
  BY <1>1, <1>2, <1>3 DEF ToSet

LEMMA StepKinds ==
    ASSUME TypeInv, [Next]_vars
    PROVE  \/ Quiet
           \/ \E type \in OwnTypes : Post(type) /\ Len(sent) < 2 * MaxEntries
           \/ \E what \in {"answer", "timeout"} : Learn(what)
           \/ \E i \in DOMAIN sent : Settle(i)
<1>1. ASSUME UNCHANGED <<posts, db, owed, inputs, outputs>> PROVE Quiet
  BY <1>1 DEF Quiet, posts
<1>2. CASE UNCHANGED vars
  BY <1>1, <1>2 DEF vars, block
<1>3. ASSUME NEW c \in [url: Collectors \cup {NULL}, emit: BOOLEAN], Configure(c) PROVE Quiet
  BY <1>1, <1>3 DEF Configure, block
<1>4. CASE EnterRaises \/ Stop \/ Build \/ Store \/ \E t \in Threads : TheyBuild(t) \/ TheyStore(t)
  BY <1>1, <1>4 DEF EnterRaises, Stop, Build, Store, TheyBuild, TheyStore, block
<1>5. CASE JobStep
  <2>1. \E what \in {"answer", "timeout"} : Learn(what)
    BY <1>5 DEF JobStep, Answered, TimedOut, Hear, Learn, Awaited, block
  <2> QED
    BY <2>1
<1>6. CASE Enter
  <2>1. CASE config.emit
    <3>1. client \in Collectors
      BY <1>6 DEF Enter, TypeInv, EmitterInv
    <3>2. Post("START")
      BY <1>6, <2>1, <3>1 DEF Enter, Emit, Post, block
    <3>3. Len(sent) < 2 * MaxEntries
      BY <1>6, ProducerAssumption DEF Enter, CanEnter, TypeInv, Building
    <3> QED
      BY <3>2, <3>3 DEF OwnTypes
  <2>2. CASE ~config.emit
    BY <1>1, <1>6, <2>2 DEF Enter, Emit, block
  <2> QED
    BY <2>1, <2>2
<1>7. ASSUME NEW type \in {"COMPLETE", "FAIL"}, Exit(type)
      PROVE  Quiet \/ \E tp \in OwnTypes : Post(tp) /\ Len(sent) < 2 * MaxEntries
  <2>1. CASE config.emit
    <3>1. client \in Collectors
      BY <1>7 DEF Exit, TypeInv, EmitterInv
    <3>2. Post(type)
      BY <1>7, <2>1, <3>1 DEF Exit, Emit, Post, block
    <3>3. Len(sent) < 2 * MaxEntries
      BY <1>7 DEF Exit, TypeInv
    <3> QED
      BY <3>2, <3>3 DEF OwnTypes
  <2>2. CASE ~config.emit
    BY <1>1, <1>7, <2>2 DEF Exit, Emit, block
  <2> QED
    BY <2>1, <2>2
<1>8. ASSUME NEW d \in Datasets, RecordRead(d) PROVE Quiet
  <2>1. ToSet(Append(inputs, d)) = ToSet(inputs) \cup {d}
    BY ToSetAppend DEF TypeInv
  <2> QED
    BY <1>8, <2>1 DEF RecordRead, Quiet, posts
<1>9. ASSUME NEW d \in Datasets, NEW m, RecordWrite(d, m) PROVE Quiet
  <2>1. ToSet(Append(outputs, d)) = ToSet(outputs) \cup {d}
    BY ToSetAppend DEF TypeInv
  <2> QED
    BY <1>9, <2>1 DEF RecordWrite, Quiet, posts
<1>10. ASSUME NEW i \in DOMAIN sent, Apply(i) \/ Lose(i) PROVE Settle(i)
  BY <1>10 DEF Apply, Lose, Settle, block
<1> QED
  BY <1>2, <1>3, <1>4, <1>5, <1>6, <1>7, <1>8, <1>9, <1>10 DEF Next

-----------------------------------------------------------------------------
(* What an event of the Connection does to the collector's rows. *)

\* The elements of a concatenation.
LEMMA ToSetConcat ==
    ASSUME NEW S, NEW s \in Seq(S), NEW t \in Seq(S)
    PROVE  s \o t \in Seq(S) /\ ToSet(s \o t) = ToSet(s) \cup ToSet(t)
<1>1. Len(s) \in Nat /\ Len(t) \in Nat /\ DOMAIN s = 1 .. Len(s) /\ DOMAIN t = 1 .. Len(t)
  OBVIOUS
<1>2. s \o t \in Seq(S) /\ Len(s \o t) = Len(s) + Len(t)
  BY ConcatProperties
<1>3. \A i \in 1 .. Len(s) + Len(t) : (s \o t)[i] = IF i <= Len(s) THEN s[i] ELSE t[i - Len(s)]
  BY ConcatProperties
<1>4. DOMAIN (s \o t) = 1 .. Len(s) + Len(t)
  BY <1>2
<1>5. ASSUME NEW i \in DOMAIN (s \o t) PROVE (s \o t)[i] \in ToSet(s) \cup ToSet(t)
  <2>1. i <= Len(s) => i \in DOMAIN s
    BY <1>1, <1>4
  <2>2. ~(i <= Len(s)) => i - Len(s) \in DOMAIN t
    BY <1>1, <1>4
  <2> QED
    BY <1>3, <1>4, <2>1, <2>2 DEF ToSet
<1>6. ASSUME NEW i \in DOMAIN s PROVE s[i] \in ToSet(s \o t)
  <2>1. i \in DOMAIN (s \o t) /\ (s \o t)[i] = s[i]
    BY <1>1, <1>3, <1>4
  <2> QED
    BY <2>1 DEF ToSet
<1>7. ASSUME NEW i \in DOMAIN t PROVE t[i] \in ToSet(s \o t)
  <2>1. i + Len(s) \in DOMAIN (s \o t) /\ (s \o t)[i + Len(s)] = t[i]
    BY <1>1, <1>3, <1>4
  <2> QED
    BY <2>1 DEF ToSet
<1> QED
  BY <1>2, <1>5, <1>6, <1>7 DEF ToSet

\* The statements for a list of datasets upsert an edge of each one, no others.
LEMMA DatasetStepsEdges ==
    ASSUME NEW ds \in Seq(Datasets), NEW dir \in Directions
    PROVE  /\ DatasetSteps(Job, ds, dir) \in Seq(Keys)
           /\ \A k \in ToSet(DatasetSteps(Job, ds, dir)) :
                 k.tbl = "lineage_edge" => k \in {EdgeKey(Job, d, dir) : d \in ToSet(ds)}
           /\ \A d \in ToSet(ds) : EdgeKey(Job, d, dir) \in ToSet(DatasetSteps(Job, ds, dir))
<1> DEFINE steps == DatasetSteps(Job, ds, dir)
<1>1. Len(ds) \in Nat /\ 3 * Len(ds) \in Nat /\ DOMAIN ds = 1 .. Len(ds)
  OBVIOUS
<1>2. ASSUME NEW i \in 1 .. 3 * Len(ds)
      PROVE  /\ (i + 2) \div 3 \in 1 .. Len(ds)
             /\ steps[i] \in {ConnKey(ConnOf[ds[(i + 2) \div 3]]), DatasetKey(ds[(i + 2) \div 3]),
                              EdgeKey(Job, ds[(i + 2) \div 3], dir)}
  <2>1. (i + 2) \div 3 \in 1 .. Len(ds)
    BY <1>1
  <2> QED
    BY <2>1 DEF DatasetSteps
<1>3. ASSUME NEW d \in Datasets
      PROVE  /\ ConnKey(ConnOf[d]) \in Keys /\ DatasetKey(d) \in Keys /\ EdgeKey(Job, d, dir) \in Keys
             /\ ConnKey(ConnOf[d]).tbl # "lineage_edge" /\ DatasetKey(d).tbl # "lineage_edge"
  BY DatasetsAssumption, ProducerAssumption DEF Keys, ConnKey, DatasetKey
<1>4. ASSUME NEW i \in 1 .. 3 * Len(ds)
      PROVE  /\ steps[i] \in Keys
             /\ steps[i].tbl = "lineage_edge" => steps[i] \in {EdgeKey(Job, d, dir) : d \in ToSet(ds)}
  <2> DEFINE d == ds[(i + 2) \div 3]
  <2>1. d \in Datasets /\ d \in ToSet(ds)
    BY <1>1, <1>2 DEF ToSet
  <2>2. steps[i] \in {ConnKey(ConnOf[d]), DatasetKey(d), EdgeKey(Job, d, dir)}
    BY <1>2
  <2> HIDE DEF d, steps
  <2> QED
    BY <1>3, <2>1, <2>2
<1>5. steps \in [1 .. 3 * Len(ds) -> Keys]
  BY <1>4 DEF DatasetSteps
<1>6. steps \in Seq(Keys) /\ DOMAIN steps = 1 .. 3 * Len(ds)
  BY <1>1, <1>5
<1>7. ASSUME NEW n \in 1 .. Len(ds) PROVE EdgeKey(Job, ds[n], dir) \in ToSet(steps)
  <2>1. 3 * n \in 1 .. 3 * Len(ds) /\ (3 * n + 2) \div 3 = n /\ (3 * n) % 3 = 0
    BY <1>1
  <2>2. steps[3 * n] = EdgeKey(Job, ds[n], dir)
    BY <2>1 DEF DatasetSteps
  <2> QED
    BY <1>6, <2>1, <2>2 DEF ToSet
<1> HIDE DEF steps
<1>8. \A k \in ToSet(steps) : k.tbl = "lineage_edge" => k \in {EdgeKey(Job, d, dir) : d \in ToSet(ds)}
  BY <1>4, <1>6 DEF ToSet
<1>9. \A d \in ToSet(ds) : EdgeKey(Job, d, dir) \in ToSet(steps)
  BY <1>1, <1>7 DEF ToSet
<1> QED
  BY <1>6, <1>8, <1>9 DEF steps

\* The edges an event of the Connection names.
EdgesIn(e) == {EdgeKey(Job, d, "input") : d \in ToSet(e.inputs)}
                \cup {EdgeKey(Job, d, "output") : d \in ToSet(e.outputs)}

\* An event of the Connection upserts the run's row and exactly its own edges.
LEMMA OwnTouched ==
    ASSUME NEW e \in OwnEvent
    PROVE  /\ RunKey(Job, Run) \in Touched(e)
           /\ \A k \in Touched(e) : k.tbl = "lineage_edge" => k \in EdgesIn(e)
           /\ EdgesIn(e) \subseteq Touched(e)
           /\ Touched(e) \subseteq Keys
<1> DEFINE head == <<JobKey(Job), RunKey(Job, Run)>>
           ins  == DatasetSteps(Job, e.inputs, "input")
           outs == DatasetSteps(Job, e.outputs, "output")
<1>1. /\ e.inputs \in Seq(Datasets) /\ e.outputs \in Seq(Datasets)
      /\ e.job = Job /\ e.run = Run
  BY DEF OwnEvent
<1>2. JobKey(Job) \in Keys /\ RunKey(Job, Run) \in Keys
  BY ProducerAssumption DEF Keys
<1>3. head \in Seq(Keys) /\ ToSet(head) = {JobKey(Job), RunKey(Job, Run)}
  <2>1. DOMAIN head = {1, 2}
    OBVIOUS
  <2> QED
    BY <1>2, <2>1 DEF ToSet
<1>4. /\ ins \in Seq(Keys)
      /\ \A k \in ToSet(ins) :
            k.tbl = "lineage_edge" => k \in {EdgeKey(Job, d, "input") : d \in ToSet(e.inputs)}
      /\ \A d \in ToSet(e.inputs) : EdgeKey(Job, d, "input") \in ToSet(ins)
  BY <1>1, DatasetStepsEdges DEF Directions
<1>5. /\ outs \in Seq(Keys)
      /\ \A k \in ToSet(outs) :
            k.tbl = "lineage_edge" => k \in {EdgeKey(Job, d, "output") : d \in ToSet(e.outputs)}
      /\ \A d \in ToSet(e.outputs) : EdgeKey(Job, d, "output") \in ToSet(outs)
  BY <1>1, DatasetStepsEdges DEF Directions
<1>6. Plan(e) = (head \o ins) \o outs
  BY <1>1 DEF Plan
<1> HIDE DEF head, ins, outs
<1> DEFINE front == head \o ins
<1>7. front \in Seq(Keys) /\ ToSet(front) = ToSet(head) \cup ToSet(ins)
  BY <1>3, <1>4, ToSetConcat
<1>8. Plan(e) \in Seq(Keys) /\ ToSet(Plan(e)) = ToSet(head) \cup ToSet(ins) \cup ToSet(outs)
  <2>1. Plan(e) = front \o outs
    BY <1>6
  <2> HIDE DEF front
  <2>2. front \o outs \in Seq(Keys) /\ ToSet(front \o outs) = ToSet(front) \cup ToSet(outs)
    BY <1>5, <1>7, ToSetConcat
  <2> QED
    BY <1>7, <2>1, <2>2
<1>9. Touched(e) = {JobKey(Job), RunKey(Job, Run)} \cup ToSet(ins) \cup ToSet(outs)
  BY <1>3, <1>8 DEF Touched
<1>10. JobKey(Job).tbl # "lineage_edge" /\ RunKey(Job, Run).tbl # "lineage_edge"
  BY DEF JobKey, RunKey
<1>11. Touched(e) \subseteq Keys
  BY <1>8 DEF Touched, ToSet
<1> QED
  BY <1>4, <1>5, <1>9, <1>10, <1>11 DEF EdgesIn

\* What it makes of any row is a row of the same table.
LEMMA OwnUpsertType ==
    ASSUME NEW e \in OwnEvent, NEW k \in Keys, NEW old \in RowsOf(k) \cup {NULL}
    PROVE  Upsert(e, k, old) \in RowsOf(k) /\ Upsert(e, k, old) # NULL
<1>1. /\ e.type \in {"START", "COMPLETE", "FAIL"} /\ e.time \in Times
      /\ e.producer = {} /\ e.cols \in [Datasets -> ColMaps \cup {NULL}]
  BY DEF OwnEvent
<1>2. CASE k \in {JobKey(j) : j \in Jobs}
  <2>1. k.tbl = "job"
    BY <1>2 DEF JobKey
  <2>2. InferJobType(e) \in JobTypes
    BY <1>1 DEF InferJobType, JobTypes
  <2>3. UpsertJob(e, old) \in JobRows
    BY <2>1, <2>2 DEF UpsertJob, RowsOf, JobRows
  <2> QED
    BY <2>1, <2>3, NullAssumption DEF Upsert, RowsOf
<1>3. CASE k \in {RunKey(j, r) : j \in Jobs, r \in RunIds}
  <2>1. k.tbl = "job_run"
    BY <1>3 DEF RunKey
  <2>2. old \in RunRows \cup {NULL}
    BY <2>1 DEF RowsOf
  <2>3. StartTime(e) \in Times \cup {NULL} /\ EndTime(e) \in Times \cup {NULL}
    BY <1>1 DEF StartTime, EndTime
  <2>4. StatusOf(e) \in Statuses
    BY <1>1 DEF StatusOf, Statuses
  <2>5. UpsertRun(e, old) \in RunRows
    BY <1>1, <2>2, <2>3, <2>4 DEF UpsertRun, RunRows, Coalesce
  <2> QED
    BY <2>1, <2>5, NullAssumption DEF Upsert, RowsOf
<1>4. CASE k \in {ConnKey(c) : c \in Conns}
  <2>1. k.tbl = "connection"
    BY <1>4 DEF ConnKey
  <2>2. UpsertMinimal(old) \in ConnRows
    BY <2>1 DEF UpsertMinimal, RowsOf, ConnRows
  <2> QED
    BY <2>1, <2>2, NullAssumption DEF Upsert, RowsOf
<1>5. CASE k \in {DatasetKey(d) : d \in Datasets}
  <2>1. k.tbl = "dataset"
    BY <1>5 DEF DatasetKey
  <2>2. UpsertDataset(e, k.dataset, old) \in DatasetRows
    BY <2>1 DEF UpsertDataset, RowsOf, DatasetRows, InferDatasetType, DatasetTypes
  <2> QED
    BY <2>1, <2>2, NullAssumption DEF Upsert, RowsOf
<1>6. CASE k \in {EdgeKey(j, d, dir) : j \in Jobs, d \in Datasets, dir \in Directions}
  <2>1. k.tbl = "lineage_edge" /\ k.dataset \in Datasets
    BY <1>6 DEF EdgeKey
  <2>2. Mapping(e, k.dataset, k.direction) \in ColMaps \cup {NULL}
    BY <1>1, <2>1 DEF Mapping
  <2>3. old \in EdgeRows \cup {NULL}
    BY <2>1 DEF RowsOf
  <2>4. UpsertEdge(e, k.dataset, k.direction, old) \in EdgeRows
    BY <2>2, <2>3 DEF UpsertEdge, EdgeRows, Coalesce
  <2> QED
    BY <2>1, <2>4, NullAssumption DEF Upsert, RowsOf
<1> QED
  BY <1>2, <1>3, <1>4, <1>5, <1>6 DEF Keys

\* Applying it keeps the rows typed, and no row disappears.
LEMMA OwnApply ==
    ASSUME NEW tables, \A k \in Keys : tables[k] \in RowsOf(k) \cup {NULL}, NEW e \in OwnEvent,
           NEW new, new = ApplyEvent(e, tables)
    PROVE  \A k \in Keys :
              /\ new[k] \in RowsOf(k) \cup {NULL}
              /\ k \in Touched(e) => new[k] = Upsert(e, k, tables[k]) /\ new[k] # NULL
              /\ k \notin Touched(e) => new[k] = tables[k]
<1>1. \A k \in Keys : new[k] = IF k \in Touched(e) THEN Upsert(e, k, tables[k]) ELSE tables[k]
  BY DEF ApplyEvent
<1>2. \A k \in Keys : Upsert(e, k, tables[k]) \in RowsOf(k) /\ Upsert(e, k, tables[k]) # NULL
  BY OwnUpsertType
<1> QED
  BY <1>1, <1>2

\* A post that is applied concerns the collector it went to and no other.
AppliedAt(i, u) ==
    /\ \A v \in Collectors : v # u => db'[v] = db[v]
    /\ \A k \in Keys :
          /\ k \in Touched(sent[i]) => db'[u][k] = Upsert(sent[i], k, db[u][k]) /\ db'[u][k] # NULL
          /\ k \notin Touched(sent[i]) => db'[u][k] = db[u][k]

LEMMA PostApply ==
    ASSUME TypeInv, NEW i \in DOMAIN sent, NEW u, u = to[i],
           db' = [db EXCEPT ![to[i]] = ApplyEvent(sent[i], @)]
    PROVE  RowsTyped' /\ AppliedAt(i, u)
<1>1. u \in Collectors /\ sent[i] \in OwnEvent
  BY DEF TypeInv
<1>2. \A k \in Keys : db[u][k] \in RowsOf(k) \cup {NULL}
  BY <1>1 DEF TypeInv, RowsTyped
<1>3. DOMAIN db = Collectors
  BY DEF TypeInv, RowsTyped
<1>4. PICK new : new = ApplyEvent(sent[i], db[u])
  OBVIOUS
<1>5. /\ DOMAIN db' = Collectors /\ db'[u] = new
      /\ \A v \in Collectors : v # u => db'[v] = db[v]
  BY <1>1, <1>3, <1>4
<1>6. \A k \in Keys :
         /\ new[k] \in RowsOf(k) \cup {NULL}
         /\ k \in Touched(sent[i]) => new[k] = Upsert(sent[i], k, db[u][k]) /\ new[k] # NULL
         /\ k \notin Touched(sent[i]) => new[k] = db[u][k]
  BY <1>1, <1>2, <1>4, OwnApply
<1>7. RowsTyped'
  <2>1. ASSUME NEW v \in Collectors, NEW k \in Keys PROVE db'[v][k] \in RowsOf(k) \cup {NULL}
    BY <1>5, <1>6 DEF TypeInv, RowsTyped
  <2> QED
    BY <1>5, <2>1 DEF RowsTyped
<1> QED
  BY <1>5, <1>6, <1>7 DEF AppliedAt

-----------------------------------------------------------------------------
(* Types. *)

\* The tables are typed before the first event, and only connections have rows.
LEMMA InitialRows ==
    ASSUME Init
    PROVE  RowsTyped /\ \A u \in Collectors, k \in Keys : k.tbl # "connection" => db[u][k] = NULL
<1>1. db \in [Collectors -> InitialTables]
  BY DEF Init
<1>2. ASSUME NEW u \in Collectors, NEW k \in Keys
      PROVE  /\ db[u][k] \in RowsOf(k) \cup {NULL}
             /\ k.tbl # "connection" => db[u][k] = NULL
  <2>1. PICK gone \in SUBSET Registered :
           db[u] = [l \in Keys |-> IF IsRegistered(l)
                                     THEN [platform |-> "registered", deleted |-> l.conn \in gone]
                                     ELSE NULL]
    BY <1>1 DEF InitialTables
  <2>2. ASSUME IsRegistered(k)
        PROVE  [platform |-> "registered", deleted |-> k.conn \in gone] \in RowsOf(k)
    BY <2>2 DEF IsRegistered, RowsOf, ConnRows
  <2> QED
    BY <2>1, <2>2 DEF IsRegistered
<1> QED
  BY <1>1, <1>2 DEF RowsTyped

LEMMA InitTypeInv == Init => TypeInv
<1> SUFFICES ASSUME Init PROVE TypeInv
  OBVIOUS
<1>1. RowsTyped
  BY InitialRows
<1>2. cols \in [Datasets -> ColMaps \cup {NULL}] /\ owed \in [Collectors -> SUBSET Keys]
  BY DEF Init
<1>3. EmitterInv
  BY ProducerAssumption DEF Init, EmitterInv, Waiting
<1> QED
  BY <1>1, <1>2, <1>3, ProducerAssumption DEF Init, TypeInv, Building

\* Replacing an element of a sequence.
LEMMA ExceptKeepsSeq ==
    ASSUME NEW S, NEW s \in Seq(S), NEW i, NEW x \in S
    PROVE  [s EXCEPT ![i] = x] \in Seq(S) /\ Len([s EXCEPT ![i] = x]) = Len(s)
<1> DEFINE t == [s EXCEPT ![i] = x]
<1>1. Len(s) \in Nat /\ s \in [1 .. Len(s) -> S]
  OBVIOUS
<1>2. t \in [1 .. Len(s) -> S]
  BY <1>1
<1> HIDE DEF t
<1>3. t \in Seq(S) /\ Len(t) = Len(s)
  BY <1>1, <1>2
<1> QED
  BY <1>3 DEF t

\* A post adds an entry to each list.
LEMMA EmitKeepsTypes ==
    ASSUME TypeInv, EmitterInv', client \in Collectors, UNCHANGED <<block, db>>,
           NEW type \in OwnTypes, NEW there, NEW next,
           Len(sent) < 2 * MaxEntries, Emit(type, there, next),
           owed' \in {owed, [owed EXCEPT ![client] = Recorded]},
           there \in Waiting, next \in {"inside", "outside"},
           pc' \in {"starting", "inside"} => Len(sent') < 2 * MaxEntries
    PROVE  TypeInv'
<1>1. RunEvent(type) \in OwnEvent
  BY RunEventIsOwn
<1>2. Recorded \subseteq Keys
  <2>1. \A d \in ToSet(inputs) \cup ToSet(outputs) : d \in Datasets
    BY DEF TypeInv, ToSet
  <2> QED
    BY <2>1, ProducerAssumption DEF Recorded, Keys, Directions
<1>3. RowsTyped'
  BY DEF TypeInv, RowsTyped
<1>4. owed' \in [Collectors -> SUBSET Keys]
  BY <1>2 DEF TypeInv
<1>5. /\ inputs' \in Seq(Datasets) /\ outputs' \in Seq(Datasets)
      /\ cols' \in [Datasets -> ColMaps \cup {NULL}]
      /\ pc' \in {"outside", "inside"} \cup Waiting
  BY DEF TypeInv, block, Emit
<1>6. /\ sent' \in Seq(OwnEvent) /\ to' \in Seq(Collectors) /\ Len(to') = Len(sent')
      /\ state' \in Seq({"underway", "applied", "lost"}) /\ Len(state') = Len(sent')
      /\ heard' \in Seq({"answer", "timeout", NULL}) /\ Len(heard') = Len(sent')
      /\ Len(sent') <= 2 * MaxEntries
  <2>1. CASE config.emit
    <3>1. /\ sent' = Append(sent, RunEvent(type)) /\ to' = Append(to, client)
          /\ state' = Append(state, "underway") /\ heard' = Append(heard, NULL)
      BY <2>1 DEF Emit
    <3>2. MaxEntries \in Nat
      BY ProducerAssumption
    <3> QED
      BY <1>1, <3>1, <3>2 DEF TypeInv
  <2>2. CASE ~config.emit
    BY <2>2 DEF Emit, posts, TypeInv
  <2> QED
    BY <2>1, <2>2
<1>7. pc' \notin Building
  BY <1>5 DEF Building, Waiting
<1> QED
  BY <1>3, <1>4, <1>5, <1>6, <1>7 DEF TypeInv

LEMMA StepKeepsTypes == ASSUME TypeInv, [Next]_vars PROVE TypeInv'
<1>1. EmitterInv'
  BY StepKeepsEmitter DEF TypeInv
<1> USE DEF Waiting, Building, Gone
<1>2. CASE UNCHANGED vars
  BY <1>1, <1>2 DEF TypeInv, RowsTyped, vars, setup, block, posts
<1>3. ASSUME NEW c \in [url: Collectors \cup {NULL}, emit: BOOLEAN], Configure(c) PROVE TypeInv'
  BY <1>1, <1>3 DEF Configure, TypeInv, RowsTyped, block, posts
<1>4. CASE EnterRaises \/ Stop
  BY <1>1, <1>4 DEF EnterRaises, Stop, TypeInv, RowsTyped, setup, block, posts
<1>5. CASE Build \/ Store \/ \E t \in Threads : TheyBuild(t) \/ TheyStore(t)
  BY <1>1, <1>5 DEF Build, CanEnter, Store, TheyBuild, TheyStore, TypeInv, RowsTyped, block, posts
<1>6. CASE JobStep
  <2>1. PICK what \in {"answer", "timeout"} : Hear(what)
    BY <1>6 DEF JobStep, Answered, TimedOut
  <2>2. /\ heard' = [heard EXCEPT ![Len(sent)] = what] /\ pc \in Waiting
        /\ pc' = IF pc = "starting" THEN "inside" ELSE "outside"
        /\ UNCHANGED <<setup, block, sent, to, state, db, owed>>
    BY <2>1 DEF Hear, Awaited, Continue
  <2>3. heard' \in Seq({"answer", "timeout", NULL}) /\ Len(heard') = Len(heard)
    <3>1. heard \in Seq({"answer", "timeout", NULL}) /\ what \in {"answer", "timeout", NULL}
      BY DEF TypeInv
    <3> QED
      BY <2>2, <3>1, ExceptKeepsSeq
  <2> QED
    BY <1>1, <2>2, <2>3 DEF TypeInv, RowsTyped, setup, block
<1>7. CASE Enter
  <2>1. Len(sent) + 2 <= 2 * MaxEntries /\ Len(sent) \in Nat /\ MaxEntries \in Nat
    BY <1>7, ProducerAssumption DEF Enter, CanEnter, TypeInv
  <2>2. client \in Collectors
    BY <1>7 DEF Enter, TypeInv, EmitterInv
  <2>3. /\ UNCHANGED <<block, db, owed>> /\ Emit("START", "starting", "inside")
        /\ "START" \in OwnTypes /\ Len(sent) < 2 * MaxEntries
    BY <1>7, <2>1 DEF Enter, OwnTypes
  <2>4. Len(sent') < 2 * MaxEntries
    BY <2>1, <2>3, RunEventIsOwn DEF Emit, posts, TypeInv
  <2> QED
    BY <1>1, <2>2, <2>3, <2>4, EmitKeepsTypes
<1>8. ASSUME NEW type \in {"COMPLETE", "FAIL"}, Exit(type) PROVE TypeInv'
  <2>1. client \in Collectors
    BY <1>8 DEF Exit, TypeInv, EmitterInv
  <2>2. /\ UNCHANGED <<block, db>> /\ owed' \in {owed, [owed EXCEPT ![client] = Recorded]}
        /\ Emit(type, "ending", "outside") /\ Len(sent) < 2 * MaxEntries
    BY <1>8 DEF Exit, TypeInv
  <2>3. type \in OwnTypes /\ pc' \notin {"starting", "inside"}
    BY <2>2 DEF OwnTypes, Emit
  <2> QED
    BY <1>1, <2>1, <2>2, <2>3, EmitKeepsTypes
<1>9. ASSUME NEW d \in Datasets,
             RecordRead(d) \/ \E m \in ColMaps \cup {NULL} : RecordWrite(d, m)
      PROVE  TypeInv'
  <2>1. CASE RecordRead(d)
    BY <1>1, <2>1 DEF RecordRead, TypeInv, RowsTyped, setup, posts
  <2>2. ASSUME NEW m \in ColMaps \cup {NULL}, RecordWrite(d, m) PROVE TypeInv'
    <3>1. cols' \in [Datasets -> ColMaps \cup {NULL}]
      BY <2>2 DEF RecordWrite, Coalesce, TypeInv
    <3> QED
      BY <1>1, <2>2, <3>1 DEF RecordWrite, TypeInv, RowsTyped, setup, posts
  <2> QED
    BY <1>9, <2>1, <2>2
<1>10. ASSUME NEW i \in DOMAIN sent, Apply(i) \/ Lose(i) PROVE TypeInv'
  <2>1. RowsTyped'
    BY <1>10, PostApply DEF Apply, Lose, TypeInv, RowsTyped
  <2>2. state' \in Seq({"underway", "applied", "lost"}) /\ Len(state') = Len(state)
    <3>1. state \in Seq({"underway", "applied", "lost"})
      BY DEF TypeInv
    <3>2. PICK what \in {"applied", "lost"} : state' = [state EXCEPT ![i] = what]
      BY <1>10 DEF Apply, Lose
    <3> QED
      BY <3>1, <3>2, ExceptKeepsSeq
  <2> QED
    BY <1>1, <1>10, <2>1, <2>2 DEF Apply, Lose, TypeInv, setup, block
<1> QED
  BY <1>2, <1>3, <1>4, <1>5, <1>6, <1>7, <1>8, <1>9, <1>10 DEF Next

LEMMA TypeInvHolds == Spec => []TypeInv
<1>1. Init => TypeInv
  BY InitTypeInv
<1>2. TypeInv /\ [Next]_vars => TypeInv'
  BY StepKeepsTypes
<1> QED
  BY <1>1, <1>2, PTL DEF Spec

\* Every post has a collector, a fate and what the job heard of it; the posts stay
\* within the clock's bound although a block that is left posts once more.
THEOREM TypeCorrect == Spec => []TypeOK
<1>1. TypeInv => TypeOK
  <2> SUFFICES ASSUME TypeInv PROVE TypeOK
    OBVIOUS
  <2>1. sent \in Seq(Event)
    BY OwnEvents DEF TypeInv
  <2>2. /\ to \in [DOMAIN sent -> Collectors]
        /\ state \in [DOMAIN sent -> {"underway", "applied", "lost"}]
        /\ heard \in [DOMAIN sent -> {"answer", "timeout", NULL}]
    BY DEF TypeInv
  <2>3. \A u \in Collectors, k \in Keys : db[u][k] \in RowsOf(k) \cup {NULL}
    BY DEF TypeInv, RowsTyped
  <2> QED
    BY <2>1, <2>2, <2>3 DEF TypeInv, TypeOK, EmitterInv
<1> QED
  BY <1>1, TypeInvHolds, PTL

-----------------------------------------------------------------------------
(* Lineage. *)

\* The edges a collector shows.
Shown(u) == {k \in Keys : k.tbl = "lineage_edge" /\ db[u][k] # NULL}

\* A post names recorded edges only, an applied one has made its edges visible at
\* its collector, and what is owed there is what the last outcome posted there named.
LineageInv ==
    /\ \A u \in Collectors : Shown(u) \subseteq Recorded
    /\ \A i \in DOMAIN sent : EdgesIn(sent[i]) \subseteq Recorded
    /\ \A i \in DOMAIN sent, u \in Collectors :
          state[i] = "applied" /\ to[i] = u => EdgesIn(sent[i]) \subseteq Shown(u)
    /\ \A i \in Terminals : LastAt(i) => owed[to[i]] = EdgesIn(sent[i])

LEMMA StepKeepsLineage == ASSUME TypeInv, LineageInv, [Next]_vars PROVE LineageInv'
<1>1. /\ Len(sent) \in Nat /\ DOMAIN sent = 1 .. Len(sent) /\ DOMAIN to = DOMAIN sent
      /\ \A i \in DOMAIN sent : sent[i] \in OwnEvent /\ to[i] \in Collectors
  BY DEF TypeInv
<1>2. CASE Quiet
  <2>1. Recorded \subseteq Recorded'
    BY <1>2 DEF Quiet, Recorded
  <2>2. /\ \A u \in Collectors : Shown(u)' = Shown(u)
        /\ Terminals' = Terminals /\ UNCHANGED <<sent, to, state, owed>>
    BY <1>2 DEF Quiet, Shown, Terminals
  <2> QED
    BY <2>1, <2>2 DEF LineageInv, LastAt
<1>3. ASSUME NEW type \in OwnTypes, Post(type), Len(sent) < 2 * MaxEntries PROVE LineageInv'
  <2> DEFINE n == Len(sent) + 1
             e == RunEvent(type)
  <2>1. e \in OwnEvent
    BY <1>3, RunEventIsOwn
  <2>2. EdgesIn(e) = Recorded /\ e.type = type
    BY DEF EdgesIn, Recorded, RunEvent
  <2>3. Recorded' = Recorded /\ \A u \in Collectors : Shown(u)' = Shown(u)
    BY <1>3 DEF Post, Recorded, Shown
  <2>4. /\ sent' = Append(sent, e) /\ state' = Append(state, "underway") /\ to' = Append(to, client)
        /\ client \in Collectors
        /\ owed' = IF type = "START" THEN owed ELSE [owed EXCEPT ![client] = Recorded]
    BY <1>3 DEF Post
  <2> HIDE DEF e
  <2>5. /\ DOMAIN sent' = 1 .. n /\ sent'[n] = e /\ state'[n] = "underway" /\ to'[n] = client
        /\ \A i \in DOMAIN sent : sent'[i] = sent[i] /\ state'[i] = state[i] /\ to'[i] = to[i]
    BY <1>1, <2>1, <2>4 DEF TypeInv
  <2>6. ASSUME NEW i \in DOMAIN sent'
        PROVE  /\ EdgesIn(sent'[i]) \subseteq Recorded'
               /\ \A u \in Collectors :
                     state'[i] = "applied" /\ to'[i] = u => EdgesIn(sent'[i]) \subseteq Shown(u)'
    <3>1. CASE i = n
      BY <2>2, <2>3, <2>5, <3>1
    <3>2. CASE i # n
      <4>1. i \in DOMAIN sent
        BY <1>1, <2>5, <3>2
      <4> QED
        BY <2>3, <2>5, <4>1 DEF LineageInv
    <3> QED
      BY <3>1, <3>2
  <2>7. ASSUME NEW i \in Terminals', \A k \in Terminals' : to'[k] = to'[i] => k <= i
        PROVE  owed'[to'[i]] = EdgesIn(sent'[i])
    <3>1. Terminals \subseteq Terminals' /\ Terminals' \subseteq Terminals \cup {n}
      BY <1>1, <2>5 DEF Terminals
    <3>2. ASSUME i \in Terminals PROVE LastAt(i) /\ i \in DOMAIN sent
      BY <1>1, <2>5, <2>7, <3>1, <3>2 DEF LastAt, Terminals
    <3>3. CASE type = "START"
      <4>1. n \notin Terminals'
        BY <2>2, <2>5, <3>3 DEF Terminals, IsTerminal, TerminalTypes
      <4>2. i \in Terminals /\ owed' = owed
        BY <2>4, <2>7, <3>1, <3>3, <4>1
      <4> QED
        BY <2>5, <3>2, <4>2 DEF LineageInv
    <3>4. CASE type # "START"
      <4>1. n \in Terminals'
        BY <1>1, <2>2, <2>5, <3>4 DEF Terminals, IsTerminal, TerminalTypes, OwnTypes
      <4>2. DOMAIN owed = Collectors /\ owed' = [owed EXCEPT ![client] = Recorded]
        BY <2>4, <3>4 DEF TypeInv
      <4>3. CASE i = n
        BY <2>2, <2>4, <2>5, <4>2, <4>3
      <4>4. CASE i # n
        <5>1. i \in Terminals /\ i < n
          BY <1>1, <3>1, <4>4 DEF Terminals
        <5>2. to'[i] # client
          <6>1. n \in Nat /\ i \in Nat /\ ~(n <= i)
            BY <1>1, <5>1 DEF Terminals
          <6> QED
            BY <2>5, <2>7, <4>1, <6>1
        <5>3. i \in DOMAIN sent /\ LastAt(i)
          BY <3>2, <5>1
        <5>4. owed'[to'[i]] = owed[to[i]]
          BY <1>1, <2>5, <4>2, <5>2, <5>3
        <5> QED
          BY <2>5, <5>1, <5>3, <5>4 DEF LineageInv
      <4> QED
        BY <4>3, <4>4
    <3> QED
      BY <3>3, <3>4
  <2> QED
    BY <2>3, <2>6, <2>7 DEF LineageInv, LastAt
<1>4. ASSUME NEW what \in {"answer", "timeout"}, Learn(what) PROVE LineageInv'
  BY <1>4 DEF Learn, LineageInv, Recorded, Shown, Terminals, LastAt
<1>5. ASSUME NEW i \in DOMAIN sent, Settle(i) PROVE LineageInv'
  <2>1. Recorded' = Recorded /\ Terminals' = Terminals /\ UNCHANGED <<sent, to, owed>>
    BY <1>5 DEF Settle, Recorded, Terminals
  <2>2. CASE /\ db' = [db EXCEPT ![to[i]] = ApplyEvent(sent[i], @)]
             /\ state' = [state EXCEPT ![i] = "applied"]
    <3>1. PICK c \in Collectors : c = to[i]
      BY <1>1
    <3>2. AppliedAt(i, c)
      BY <2>2, <3>1, PostApply
    <3>3. Shown(c)' = Shown(c) \cup EdgesIn(sent[i])
      <4>1. /\ \A k \in Touched(sent[i]) : k.tbl = "lineage_edge" => k \in EdgesIn(sent[i])
            /\ EdgesIn(sent[i]) \subseteq Touched(sent[i]) /\ Touched(sent[i]) \subseteq Keys
        BY <1>1, OwnTouched
      <4>2. \A k \in EdgesIn(sent[i]) : k.tbl = "lineage_edge"
        BY DEF EdgesIn, EdgeKey
      <4> QED
        BY <3>2, <4>1, <4>2 DEF Shown, AppliedAt
    <3>4. \A v \in Collectors : v # c => Shown(v)' = Shown(v)
      BY <3>2 DEF Shown, AppliedAt
    <3>5. \A k \in DOMAIN sent : state'[k] = "applied" => k = i \/ state[k] = "applied"
      BY <2>2 DEF TypeInv
    <3>6. \A v \in Collectors : Shown(v) \subseteq Shown(v)' /\ Shown(v)' \subseteq Recorded
      BY <3>3, <3>4 DEF LineageInv
    <3>7. ASSUME NEW k \in DOMAIN sent, NEW u \in Collectors, state'[k] = "applied", to[k] = u
          PROVE  EdgesIn(sent[k]) \subseteq Shown(u)'
      BY <3>1, <3>3, <3>5, <3>6, <3>7 DEF LineageInv
    <3> QED
      BY <2>1, <3>6, <3>7 DEF LineageInv, LastAt
  <2>3. CASE UNCHANGED db /\ state' = [state EXCEPT ![i] = "lost"]
    <3>1. \A k \in DOMAIN sent : state'[k] = "applied" => state[k] = "applied"
      BY <2>3 DEF TypeInv
    <3>2. \A u \in Collectors : Shown(u)' = Shown(u)
      BY <2>3 DEF Shown
    <3> QED
      BY <2>1, <3>1, <3>2 DEF LineageInv, LastAt
  <2> QED
    BY <1>5, <2>2, <2>3 DEF Settle
<1> QED
  BY <1>2, <1>3, <1>4, <1>5, StepKinds

\* No collector shows an edge the job did not record, and one that has applied the
\* last outcome posted to it shows everything that was recorded by then, whatever was
\* lost, late, reordered or posted to another collector before it.
THEOREM LineageIsWhatWasRecorded == Spec => []LineageIsRecorded
<1>1. Init => LineageInv
  <2> SUFFICES ASSUME Init PROVE LineageInv
    OBVIOUS
  <2>1. \A u \in Collectors : Shown(u) = {}
    BY InitialRows DEF Shown
  <2> QED
    BY <2>1 DEF Init, LineageInv, Terminals
<1>2. TypeInv /\ LineageInv /\ [Next]_vars => LineageInv'
  BY StepKeepsLineage
<1>3. TypeInv /\ LineageInv => LineageIsRecorded
  BY DEF TypeInv, LineageInv, LineageIsRecorded, Shown, Terminals
<1> QED
  BY <1>1, <1>2, <1>3, TypeInvHolds, PTL DEF Spec

-----------------------------------------------------------------------------
(* The outcome. *)

\* i is the last outcome posted to its collector, and the job heard of every
\* earlier one posted there.
Decides(i) == \A k \in Terminals \ {i} : to[k] = to[i] => k <= i /\ heard[k] = "answer"

\* A START that the collector has applied.
StartedAt(u) == \E k \in DOMAIN sent :
                    sent[k].type = "START" /\ state[k] = "applied" /\ to[k] = u

\* The job hears of a post only when it is settled.  The run's row exists at a
\* collector once a post is applied there, its start is that of an applied START,
\* and an outcome that decides is not overwritten once it is applied.
OutcomeInv ==
    /\ \A i \in DOMAIN sent : heard[i] = "answer" => state[i] # "underway"
    /\ \A u \in Collectors :
          RunRow(u) = NULL <=> \A i \in DOMAIN sent : to[i] = u => state[i] # "applied"
    /\ \A u \in Collectors : RunRow(u) # NULL => (RunRow(u).started # NULL <=> StartedAt(u))
    /\ \A i \in Terminals, u \in Collectors : Decides(i) /\ state[i] = "applied" /\ to[i] = u =>
          RunRow(u).status = StatusOf(sent[i]) /\ RunRow(u).ended = sent[i].time

\* What an event of the Connection makes of its run's row.
LEMMA OwnRunRow ==
    ASSUME NEW e \in OwnEvent, NEW old \in RunRows \cup {NULL}
    PROVE  LET new == UpsertRun(e, old)
           IN  /\ (IF old = NULL THEN NULL ELSE old.started) # NULL \/ e.type = "START"
                     <=> new.started # NULL
               /\ IsTerminal(e) => new.status = StatusOf(e) /\ new.ended = e.time
               /\ ~IsTerminal(e) /\ old # NULL => new.status = old.status /\ new.ended = old.ended
<1>1. e.time # NULL
  BY NullAssumption DEF OwnEvent
<1>2. ~IsTerminal(e) /\ old # NULL => old.status # NULL
  BY NullAssumption DEF RunRows
<1> QED
  BY <1>1, <1>2 DEF UpsertRun, Coalesce, StartTime, EndTime, IsTerminal, TerminalTypes

LEMMA StepKeepsOutcome == ASSUME TypeInv, OutcomeInv, [Next]_vars PROVE OutcomeInv'
<1>1. /\ Len(sent) \in Nat /\ DOMAIN sent = 1 .. Len(sent) /\ DOMAIN to = DOMAIN sent
      /\ DOMAIN state = DOMAIN sent /\ DOMAIN heard = DOMAIN sent
      /\ \A i \in DOMAIN sent : sent[i] \in OwnEvent /\ to[i] \in Collectors
  BY DEF TypeInv
<1>2. CASE Quiet
  BY <1>2 DEF Quiet, OutcomeInv, Terminals, RunRow, StartedAt, Decides
<1>3. ASSUME NEW type \in OwnTypes, Post(type), Len(sent) < 2 * MaxEntries PROVE OutcomeInv'
  <2> DEFINE n == Len(sent) + 1
             e == RunEvent(type)
  <2>1. e \in OwnEvent
    BY <1>3, RunEventIsOwn
  <2>2. /\ sent' = Append(sent, e) /\ state' = Append(state, "underway")
        /\ heard' = Append(heard, NULL) /\ to' = Append(to, client) /\ client \in Collectors
        /\ \A u \in Collectors : RunRow(u)' = RunRow(u)
    BY <1>3 DEF Post, RunRow
  <2> HIDE DEF e
  <2>3. /\ DOMAIN sent' = 1 .. n /\ state'[n] = "underway" /\ heard'[n] = NULL
        /\ \A i \in DOMAIN sent : /\ sent'[i] = sent[i] /\ state'[i] = state[i]
                                  /\ heard'[i] = heard[i] /\ to'[i] = to[i]
    BY <1>1, <2>1, <2>2 DEF TypeInv
  <2>4. DOMAIN sent' = DOMAIN sent \cup {n} /\ n \notin DOMAIN sent /\ Terminals \subseteq DOMAIN sent
    BY <1>1, <2>3 DEF Terminals
  <2>5. NULL # "answer"
    BY ProducerAssumption
  <2>6. Terminals \subseteq Terminals' /\ Terminals' \subseteq Terminals \cup {n}
    BY <2>3, <2>4 DEF Terminals
  <2>7. ASSUME NEW i \in Terminals', NEW u \in Collectors,
               \A k \in Terminals' \ {i} : to'[k] = to'[i] => k <= i /\ heard'[k] = "answer",
               state'[i] = "applied", to'[i] = u
        PROVE  RunRow(u)'.status = StatusOf(sent'[i]) /\ RunRow(u)'.ended = sent'[i].time
    <3>1. i \in Terminals
      BY <2>3, <2>6, <2>7
    <3>2. Decides(i)
      BY <2>3, <2>4, <2>6, <2>7, <3>1 DEF Decides
    <3>3. i \in DOMAIN sent /\ state[i] = "applied" /\ to[i] = u /\ sent'[i] = sent[i]
      BY <2>3, <2>4, <2>7, <3>1
    <3>4. RunRow(u).status = StatusOf(sent[i]) /\ RunRow(u).ended = sent[i].time
      BY <3>1, <3>2, <3>3 DEF OutcomeInv
    <3> QED
      BY <2>2, <3>3, <3>4
  <2>8. \A i \in DOMAIN sent' : heard'[i] = "answer" => state'[i] # "underway"
    BY <2>3, <2>4, <2>5 DEF OutcomeInv
  <2>9. ASSUME NEW u \in Collectors
        PROVE  /\ (\A i \in DOMAIN sent' : to'[i] = u => state'[i] # "applied")
                    <=> \A i \in DOMAIN sent : to[i] = u => state[i] # "applied"
               /\ StartedAt(u)' <=> StartedAt(u)
    BY <2>3, <2>4 DEF StartedAt
  <2>10. ASSUME NEW u \in Collectors
         PROVE  /\ RunRow(u)' = NULL <=> \A i \in DOMAIN sent' : to'[i] = u => state'[i] # "applied"
                /\ RunRow(u)' # NULL => (RunRow(u)'.started # NULL <=> StartedAt(u)')
    <3>1. /\ RunRow(u) = NULL <=> \A i \in DOMAIN sent : to[i] = u => state[i] # "applied"
          /\ RunRow(u) # NULL => (RunRow(u).started # NULL <=> StartedAt(u))
      BY DEF OutcomeInv
    <3>2. RunRow(u)' = RunRow(u)
      BY <2>2
    <3> QED
      BY <2>9, <3>1, <3>2
  <2> QED
    BY <2>7, <2>8, <2>10 DEF OutcomeInv, Decides
<1>4. ASSUME NEW what \in {"answer", "timeout"}, Learn(what) PROVE OutcomeInv'
  <2>1. /\ UNCHANGED <<sent, to, state>> /\ Terminals' = Terminals
        /\ \A u \in Collectors : RunRow(u)' = RunRow(u) /\ StartedAt(u)' = StartedAt(u)
        /\ what = "answer" => state[Len(sent)] # "underway"
        /\ \A i \in DOMAIN sent : heard'[i] = IF i = Len(sent) THEN what ELSE heard[i]
    BY <1>1, <1>4 DEF Learn, Terminals, RunRow, StartedAt
  <2>2. \A i \in Terminals : Decides(i)' => Decides(i)
    BY <1>1, <2>1 DEF Decides, Terminals
  <2> QED
    BY <2>1, <2>2 DEF OutcomeInv, Terminals
<1>5. ASSUME NEW i \in DOMAIN sent, Settle(i) PROVE OutcomeInv'
  <2>1. /\ UNCHANGED <<sent, to, heard>> /\ Terminals' = Terminals /\ state[i] = "underway"
        /\ \A k \in Terminals : Decides(k)' = Decides(k)
    BY <1>5 DEF Settle, Terminals, Decides
  <2>2. CASE /\ db' = [db EXCEPT ![to[i]] = ApplyEvent(sent[i], @)]
             /\ state' = [state EXCEPT ![i] = "applied"]
    <3> DEFINE e == sent[i]
               k == RunKey(Job, Run)
    <3>1. k \in Keys /\ k.tbl = "job_run"
      BY ProducerAssumption DEF Keys, RunKey
    <3>2. PICK c \in Collectors : c = to[i]
      BY <1>1
    <3>3. /\ db'[c][k] = Upsert(e, k, db[c][k]) /\ db'[c][k] # NULL
          /\ \A v \in Collectors : v # c => db'[v] = db[v]
      <4>1. k \in Touched(e)
        BY <1>1, OwnTouched
      <4>2. AppliedAt(i, c)
        BY <2>2, <3>2, PostApply
      <4> HIDE DEF k
      <4> QED
        BY <3>1, <4>1, <4>2 DEF AppliedAt
    <3>4. db[c][k] \in RunRows \cup {NULL}
      BY <3>1 DEF TypeInv, RowsTyped, RowsOf
    <3>5. /\ RunRow(c)' = UpsertRun(e, RunRow(c)) /\ RunRow(c)' # NULL
          /\ RunRow(c) \in RunRows \cup {NULL}
          /\ \A v \in Collectors : v # c => RunRow(v)' = RunRow(v)
      BY <3>1, <3>3, <3>4 DEF RunRow, Upsert
    <3>6. \A m \in DOMAIN sent : state'[m] = IF m = i THEN "applied" ELSE state[m]
      BY <1>1, <2>2
    <3>7. /\ (IF RunRow(c) = NULL THEN NULL ELSE RunRow(c).started) # NULL \/ e.type = "START"
                <=> RunRow(c)'.started # NULL
          /\ IsTerminal(e) => RunRow(c)'.status = StatusOf(e) /\ RunRow(c)'.ended = e.time
          /\ ~IsTerminal(e) /\ RunRow(c) # NULL =>
                RunRow(c)'.status = RunRow(c).status /\ RunRow(c)'.ended = RunRow(c).ended
      BY <1>1, <3>5, OwnRunRow
    <3>8. RunRow(c)'.started # NULL <=> StartedAt(c)'
      <4>1. RunRow(c) = NULL => ~StartedAt(c)
        BY DEF OutcomeInv, StartedAt
      <4>2. RunRow(c) # NULL => (RunRow(c).started # NULL <=> StartedAt(c))
        BY DEF OutcomeInv
      <4>3. StartedAt(c)' <=> StartedAt(c) \/ e.type = "START"
        BY <2>1, <3>2, <3>6 DEF StartedAt
      <4> QED
        BY <3>7, <4>1, <4>2, <4>3
    <3>9. \A v \in Collectors : v # c => StartedAt(v)' = StartedAt(v)
      BY <2>1, <3>2, <3>6 DEF StartedAt
    <3>10. ASSUME NEW v \in Collectors
           PROVE  /\ RunRow(v)' = NULL <=> \A m \in DOMAIN sent : to[m] = v => state'[m] # "applied"
                  /\ RunRow(v)' # NULL => (RunRow(v)'.started # NULL <=> StartedAt(v)')
      <4>1. CASE v = c
        BY <3>2, <3>5, <3>6, <3>8, <4>1
      <4>2. CASE v # c
        BY <3>2, <3>5, <3>6, <3>9, <4>2 DEF OutcomeInv
      <4> QED
        BY <4>1, <4>2
    <3>11. ASSUME NEW m \in Terminals, NEW v \in Collectors,
                  Decides(m), state'[m] = "applied", to[m] = v
           PROVE  RunRow(v)'.status = StatusOf(sent[m]) /\ RunRow(v)'.ended = sent[m].time
      <4>1. CASE m = i
        BY <3>2, <3>7, <3>11, <4>1 DEF Terminals
      <4>2. CASE m # i
        <5>1. m \in DOMAIN sent /\ state[m] = "applied" /\ RunRow(v) # NULL
          BY <3>6, <3>11, <4>2 DEF Terminals, OutcomeInv
        <5>2. CASE v = c
          <6>1. i \notin Terminals
            BY <2>1, <3>2, <3>11, <4>2, <5>2 DEF Decides, OutcomeInv, Terminals
          <6>2. ~IsTerminal(e)
            BY <6>1 DEF Terminals
          <6> QED
            BY <3>7, <3>11, <5>1, <5>2, <6>2 DEF OutcomeInv
        <5>3. CASE v # c
          BY <3>5, <3>11, <5>1, <5>3 DEF OutcomeInv
        <5> QED
          BY <5>2, <5>3
      <4> QED
        BY <4>1, <4>2
    <3>12. \A m \in DOMAIN sent : heard[m] = "answer" => state'[m] # "underway"
      BY <3>6 DEF OutcomeInv
    <3> QED
      BY <2>1, <3>10, <3>11, <3>12 DEF OutcomeInv
  <2>3. CASE UNCHANGED db /\ state' = [state EXCEPT ![i] = "lost"]
    <3>1. /\ \A m \in DOMAIN sent : state'[m] = "applied" <=> state[m] = "applied"
          /\ \A m \in DOMAIN sent : state'[m] = "underway" => state[m] = "underway"
          /\ \A u \in Collectors : RunRow(u)' = RunRow(u)
      BY <1>1, <2>1, <2>3 DEF RunRow
    <3>2. \A u \in Collectors : StartedAt(u)' = StartedAt(u)
      BY <2>1, <3>1 DEF StartedAt
    <3> QED
      BY <2>1, <3>1, <3>2 DEF OutcomeInv, Terminals
  <2> QED
    BY <1>5, <2>2, <2>3 DEF Settle
<1> QED
  BY <1>2, <1>3, <1>4, <1>5, StepKinds

\* At every collector the run shows the last outcome posted there once it is applied:
\* no earlier outcome the job heard of can still arrive, and a START never overwrites it.
THEOREM LastOutcomeIsShown == Spec => []OutcomeIsShown
<1>1. Init => OutcomeInv
  <2> SUFFICES ASSUME Init PROVE OutcomeInv
    OBVIOUS
  <2>1. RunKey(Job, Run) \in Keys /\ RunKey(Job, Run).tbl = "job_run"
    BY ProducerAssumption DEF Keys, RunKey
  <2>2. \A u \in Collectors : RunRow(u) = NULL
    BY <2>1, InitialRows DEF RunRow
  <2> QED
    BY <2>2 DEF Init, OutcomeInv, Terminals
<1>2. TypeInv /\ OutcomeInv /\ [Next]_vars => OutcomeInv'
  BY StepKeepsOutcome
<1>3. TypeInv /\ OutcomeInv => OutcomeIsShown
  <2> SUFFICES ASSUME TypeInv, OutcomeInv, NEW i \in Terminals, LastAt(i), state[i] = "applied",
                      \A k \in Terminals \ {i} : to[k] = to[i] => heard[k] = "answer"
               PROVE  /\ RunRow(to[i]).status = StatusOf(sent[i]) /\ RunRow(to[i]).ended = sent[i].time
                      /\ RunRow(to[i]).started # NULL <=> StartedAt(to[i])
    BY DEF OutcomeIsShown, StartedAt
  <2>1. Decides(i)
    BY DEF Decides, LastAt
  <2>2. i \in DOMAIN sent /\ to[i] \in Collectors
    BY DEF Terminals, TypeInv
  <2>3. RunRow(to[i]) # NULL
    BY <2>2 DEF OutcomeInv
  <2> QED
    BY <2>1, <2>2, <2>3 DEF OutcomeInv
<1> QED
  BY <1>1, <1>2, <1>3, TypeInvHolds, PTL DEF Spec
=============================================================================
