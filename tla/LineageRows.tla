----------------------------- MODULE LineageRows -----------------------------
(***************************************************************************)
(* The rows of the lineage tables and what one OpenLineage RunEvent does   *)
(* to each of them: the INSERT ... ON CONFLICT statements of the           *)
(* collector's repositories as operators on row values.                    *)
(*                                                                         *)
(* A row is addressed by its natural key, the one its UNIQUE constraint    *)
(* names; NULL is both SQL's NULL and "there is no such row".  Timestamps  *)
(* of the database's own clock (created_at, updated_at, last_seen_at) and  *)
(* the JSON bags (properties, facets) are left out.  No code of the        *)
(* collector ever sets deleted_at of a job or of a dataset, so only        *)
(* connections carry it.                                                   *)
(***************************************************************************)
EXTENDS Naturals, SequencesExt

CONSTANTS
    Jobs,        \* (namespace, name) pairs of jobs
    RunIds,      \* run.runId values
    Conns,       \* dataset namespaces, that is logical names of connections
    Datasets,    \* datasets; one is identified by its connection and its name
    ConnOf,      \* [Datasets -> Conns], the namespace of a dataset
    NsTraits,    \* [Conns -> SUBSET {"kafka", "iceberg", "path"}], see InferDatasetType
    Times,       \* instants an eventTime can parse to
    ColMaps,     \* column-level mappings extracted from a columnLineage facet
    Events,      \* the RunEvents clients send
    Registered,  \* connections an administrator registered beforehand
    NULL

EventTypes    == {"START", "RUNNING", "COMPLETE", "FAIL", "ABORT", "OTHER"}
TerminalTypes == {"COMPLETE", "FAIL", "ABORT"}
Keywords      == <<"spark", "flink", "airflow", "fastapi", "trino", "python">>
Directions    == {"input", "output"}

\* An event as the handler receives it.  producer is the set of keywords the
\* producer string contains, time is NULL when datetime.fromisoformat raises,
\* iceberg the datasets whose storage facet names Iceberg, cols the column
\* mapping of each output.  A dataset may be listed twice with different facets;
\* then iceberg tells about the first listing and cols about the last one that
\* has a mapping, which are the ones whose effect outlives the transaction.
Event == [job: Jobs, run: RunIds, type: EventTypes, time: Times \cup {NULL},
          producer: SUBSET {Keywords[i] : i \in 1..6},
          inputs: Seq(Datasets), outputs: Seq(Datasets),
          iceberg: SUBSET Datasets, cols: [Datasets -> ColMaps \cup {NULL}]]

ASSUME EventsAssumption   == Events \subseteq Event
ASSUME DatasetsAssumption == /\ ConnOf \in [Datasets -> Conns]
                             /\ NsTraits \in [Conns -> SUBSET {"kafka", "iceberg", "path"}]
                             /\ Registered \subseteq Conns

-----------------------------------------------------------------------------
(* Keys: one per UNIQUE constraint of the schema. *)

JobKey(j)          == [tbl |-> "job", job |-> j]
RunKey(j, r)       == [tbl |-> "job_run", job |-> j, run |-> r]
ConnKey(c)         == [tbl |-> "connection", conn |-> c]
DatasetKey(d)      == [tbl |-> "dataset", dataset |-> d]
EdgeKey(j, d, dir) == [tbl |-> "lineage_edge", job |-> j, dataset |-> d, direction |-> dir]

Keys == {JobKey(j) : j \in Jobs}
          \cup {RunKey(j, r) : j \in Jobs, r \in RunIds}
          \cup {ConnKey(c) : c \in Conns}
          \cup {DatasetKey(d) : d \in Datasets}
          \cup {EdgeKey(j, d, dir) : j \in Jobs, d \in Datasets, dir \in Directions}

(* Rows: the columns a property can tell apart. *)

JobTypes     == {"airflow_task", "spark", "flink", "python", "fastapi", "trino_query", "unknown"}
Statuses     == {"started", "running", "completed", "failed", "aborted", "other"}
DatasetTypes == {"table", "topic", "file", "iceberg_table"}

JobRows     == [type: JobTypes]
RunRows     == [started: Times \cup {NULL}, ended: Times \cup {NULL}, status: Statuses]
ConnRows    == [platform: {"unknown", "registered"}, deleted: BOOLEAN]
DatasetRows == [type: DatasetTypes]
EdgeRows    == [cols: ColMaps \cup {NULL}]

RowsOf(k) == CASE k.tbl = "job"          -> JobRows
               [] k.tbl = "job_run"      -> RunRows
               [] k.tbl = "connection"   -> ConnRows
               [] k.tbl = "dataset"      -> DatasetRows
               [] k.tbl = "lineage_edge" -> EdgeRows

ASSUME NullAssumption ==
    /\ NULL \notin Times /\ NULL \notin ColMaps /\ NULL \notin Statuses
    /\ NULL \notin JobRows \cup RunRows \cup ConnRows \cup DatasetRows \cup EdgeRows

\* The tables before the first event: only the connections an administrator
\* registered through the connection API, alive or soft-deleted.
IsRegistered(k) == k.tbl = "connection" /\ k.conn \in Registered
InitialTables ==
    {[k \in Keys |-> IF IsRegistered(k) THEN [platform |-> "registered", deleted |-> k.conn \in gone]
                                        ELSE NULL] : gone \in SUBSET Registered}

-----------------------------------------------------------------------------
(* What the ingestion service infers from an event. *)

\* The first keyword, in the order the code tests them, that producer contains.
InferJobType(e) ==
    LET hits    == {i \in 1..6 : Keywords[i] \in e.producer}
        typeOf  == <<"spark", "flink", "airflow_task", "fastapi", "trino_query", "python">>
    IN  IF hits = {} THEN "unknown"
                     ELSE typeOf[CHOOSE i \in hits : \A j \in hits : i <= j]

InferDatasetType(e, d) ==
    LET traits == NsTraits[ConnOf[d]]
    IN  IF "kafka" \in traits                        THEN "topic"
        ELSE IF "iceberg" \in traits \/ d \in e.iceberg THEN "iceberg_table"
        ELSE IF "path" \in traits                    THEN "file"
        ELSE "table"

\* A bug, for mutation: the event type stored without the status map.
StatusUnmapped(e) == e.type
StatusOf(e) == CASE e.type = "START"    -> "started"
                 [] e.type = "RUNNING"  -> "running"
                 [] e.type = "COMPLETE" -> "completed"
                 [] e.type = "FAIL"     -> "failed"
                 [] e.type = "ABORT"    -> "aborted"
                 [] e.type = "OTHER"    -> "other"
IsTerminal(e) == e.type \in TerminalTypes
StartTime(e)  == IF e.type = "START" THEN e.time ELSE NULL
EndTime(e)    == IF IsTerminal(e) THEN e.time ELSE NULL
Mapping(e, d, dir) == IF dir = "output" THEN e.cols[d] ELSE NULL

Coalesce(a, b) == IF a # NULL THEN a ELSE b

-----------------------------------------------------------------------------
(* The upserts.  old is the row ON CONFLICT finds, NULL if it inserts. *)

UpsertJob(e, old) ==
    IF old = NULL \/ old.type = "unknown" THEN [type |-> InferJobType(e)] ELSE old

\* A bug, for mutation: the arguments of COALESCE swapped.
UpsertRunLastStartWins(e, old) ==
    IF old = NULL
      THEN [started |-> StartTime(e), ended |-> EndTime(e), status |-> StatusOf(e)]
      ELSE [started |-> Coalesce(StartTime(e), old.started),
            ended   |-> IF IsTerminal(e) THEN e.time ELSE old.ended,
            status  |-> IF IsTerminal(e) \/ old.status = NULL THEN StatusOf(e) ELSE old.status]

\* A bug, for mutation: the status of whatever event comes last.
UpsertRunLatestStatus(e, old) ==
    IF old = NULL
      THEN [started |-> StartTime(e), ended |-> EndTime(e), status |-> StatusOf(e)]
      ELSE [started |-> Coalesce(old.started, StartTime(e)),
            ended   |-> IF IsTerminal(e) THEN e.time ELSE old.ended,
            status  |-> StatusOf(e)]

UpsertRun(e, old) ==
    IF old = NULL
      THEN [started |-> StartTime(e), ended |-> EndTime(e), status |-> StatusOf(e)]
      ELSE [started |-> Coalesce(old.started, StartTime(e)),
            ended   |-> IF IsTerminal(e) THEN e.time ELSE old.ended,
            status  |-> IF IsTerminal(e) \/ old.status = NULL THEN StatusOf(e) ELSE old.status]

UpsertMinimal(old) ==
    IF old = NULL THEN [platform |-> "unknown", deleted |-> FALSE] ELSE old

UpsertDataset(e, d, old) ==
    IF old = NULL THEN [type |-> InferDatasetType(e, d)] ELSE old

UpsertEdge(e, d, dir, old) ==
    IF old = NULL THEN [cols |-> Mapping(e, d, dir)]
                  ELSE [cols |-> Coalesce(Mapping(e, d, dir), old.cols)]

\* What event e makes of the row with key k.
Upsert(e, k, old) ==
    CASE k.tbl = "job"          -> UpsertJob(e, old)
      [] k.tbl = "job_run"      -> UpsertRun(e, old)
      [] k.tbl = "connection"   -> UpsertMinimal(old)
      [] k.tbl = "dataset"      -> UpsertDataset(e, k.dataset, old)
      [] k.tbl = "lineage_edge" -> UpsertEdge(e, k.dataset, k.direction, old)

-----------------------------------------------------------------------------
(* The statements of ingest(), in order, by the key each one upserts: the  *)
(* job, the run, then connection, dataset and edge of every input and of   *)
(* every output.                                                           *)

DatasetSteps(j, ds, dir) ==
    [i \in 1 .. 3 * Len(ds) |->
        LET d == ds[(i + 2) \div 3]
        IN  IF i % 3 = 1 THEN ConnKey(ConnOf[d])
            ELSE IF i % 3 = 2 THEN DatasetKey(d)
            ELSE EdgeKey(j, d, dir)]

Plan(e) == <<JobKey(e.job), RunKey(e.job, e.run)>>
             \o DatasetSteps(e.job, e.inputs, "input")
             \o DatasetSteps(e.job, e.outputs, "output")

Touched(e) == ToSet(Plan(e))

\* The tables once e is applied to them.
ApplyEvent(e, tables) ==
    LET touched == Touched(e)
    IN  [k \in Keys |-> IF k \in touched THEN Upsert(e, k, tables[k]) ELSE tables[k]]

\* Two events conflict when some row is upserted by both.
Conflict(e, f) == Touched(e) \cap Touched(f) # {}
=============================================================================
