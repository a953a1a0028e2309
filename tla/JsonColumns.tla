------------------------------ MODULE JsonColumns ------------------------------
(***************************************************************************)
(* The JSONB columns of the collector, which the other modules leave out:  *)
(* what the repositories hand to asyncpg, what its codec makes of it, what *)
(* Postgres keeps and what a reader gets back.                             *)
(*                                                                         *)
(* The codec that init_pool registers for the type jsonb encodes a         *)
(* parameter with json.dumps and decodes a column with json.loads.  The    *)
(* connection repository passes dicts; the others pass a str that is       *)
(* already the json.dumps of a dict, which the codec encodes once more.    *)
(* The upserts of an event that meet the same row run one after the other  *)
(* (module Ingest), so an event is one step here.                          *)
(***************************************************************************)
EXTENDS Naturals, Sequences

CONSTANTS Keys,       \* keys of facets and properties
          Values,     \* what they map to
          Rows,       \* the connections, jobs, runs and datasets of an instance, by name
          MaxEvents,  \* bound on the number of events
          NULL

VARIABLES
    connection,  \* [Rows -> connection.properties, or NULL without the row]
    job,         \* [Rows -> job.properties]
    run,         \* [Rows -> job_run.facets]
    dataset,     \* [Rows -> dataset.properties]
    outbox       \* Seq of outbox.payload

vars == <<connection, job, run, dataset, outbox>>

Dicts == UNION {[K -> Values] : K \in SUBSET Keys}

\* A Python or JSON value; the text of a string is the value it was dumped from.
Object(d)     == [kind |-> "dict", dict |-> d]
String(v)     == [kind |-> "str", text |-> v]
Array(values) == [kind |-> "list", items |-> values]

Dumps(v) == String(v)
Parse(s) == s.text

\* The codec: a parameter is dumped, and Postgres parses the text; a column is
\* written out by Postgres, and json.loads parses it.
Stored(parameter) == Parse(Dumps(parameter))
Loaded(column)    == Parse(Dumps(column))

\* jsonb || jsonb: two objects are merged, anything else is concatenated after
\* a value that is no array has been wrapped into one.
Items(v) == IF v.kind = "list" THEN v.items ELSE <<v>>
Concat(a, b) ==
    IF a.kind = "dict" /\ b.kind = "dict"
      THEN Object([k \in DOMAIN a.dict \cup DOMAIN b.dict |->
                      IF k \in DOMAIN b.dict THEN b.dict[k] ELSE a.dict[k]])
      ELSE Array(Items(a) \o Items(b))

Init ==
    /\ connection = [r \in Rows |-> NULL] /\ job = [r \in Rows |-> NULL]
    /\ run = [r \in Rows |-> NULL] /\ dataset = [r \in Rows |-> NULL]
    /\ outbox = <<>>

\* INSERT ... ON CONFLICT DO UPDATE SET properties = properties || EXCLUDED.properties
Upserted(column, r, facets) ==
    LET new == Stored(Dumps(Object(facets)))
    IN  [column EXCEPT ![r] = IF @ = NULL THEN new ELSE Concat(@, new)]

\* POST or PUT /connections/{r} with properties.
SetProperties(r, d) ==
    /\ connection' = [connection EXCEPT ![r] = Stored(Object(d))]
    /\ UNCHANGED <<job, run, dataset, outbox>>

\* An event of job r, run r, with dataset r, which is on connection r.
Ingest(r, facets) ==
    /\ Len(outbox) < MaxEvents
    /\ job' = Upserted(job, r, facets)
    /\ run' = Upserted(run, r, facets)
    /\ connection' = [connection EXCEPT ![r] = IF @ = NULL THEN Object(<<>>) ELSE @]
    /\ dataset' = Upserted(dataset, r, facets)
    /\ outbox' = Append(outbox, Stored(Dumps(Object(facets))))

Next == \E r \in Rows : \/ \E d \in Dicts : SetProperties(r, d)
                        \/ \E facets \in Dicts : Ingest(r, facets)

Spec == Init /\ [][Next]_vars

\* db.py:16 registers the codec "so JSONB is returned as dict, not str".  Every
\* jsonb column that holds a value is returned as a dict.
JsonbIsReturnedAsDict ==
    /\ \A r \in Rows : \A column \in {connection, job, run, dataset} :
           column[r] # NULL => Loaded(column[r]).kind = "dict"
    /\ \A i \in DOMAIN outbox : Loaded(outbox[i]).kind = "dict"
=============================================================================
