# A TLA+ model of metadata-platform

metadata-platform records which data jobs read and write which datasets.  Jobs
use the Python library `bank_conn` to look up connections and to emit
OpenLineage events; the FastAPI service `metadata_collector` stores the events
in PostgreSQL, keeps the registry of connections and answers lineage queries.
This directory holds a specification of its core logic in TLA+, the TLC
configurations that check it on small instances, and proofs checked by TLAPS.

Every definition is translated from the source; `PROJECT.json` maps it to the
lines it stands for, lists the runs with their properties, the mutation that
shows each property can fail, the hazards of the code and the findings.

    tlc -workers 2 -config MCIngest.cfg MCIngest          # any run of PROJECT.json
    tlapm IngestProofs.tla                                # any module *Proofs

## 1. Inventory

Paths are relative to `src/collector/src/metadata_collector` (collector),
`src/bank-conn/src/bank_conn` (library) or the repository.

**Lineage ingestion** (`services/ingestion_service.py`, `api/lineage_router.py`,
`repositories/{job,dataset,lineage,connection,outbox}_repo.py`).  State: the
tables job, job_run, connection, dataset, lineage_edge, outbox.  Operation: POST
/lineage, one transaction of upserts in the order of the event, ended by an
outbox entry.  Hard: transactions of several events interleave statement by
statement and lock rows in the order each event lists them; an unparsable
eventTime raises after the first upsert; deadlocks, database errors, the death of
the process, a reply lost at COMMIT; events of one run late, twice, out of order;
ids that are drawn before commits; the pool of 10 connections.  Correct when:
each event is applied once and completely or not at all; the outbox is exactly
the applied events and its id order is an order in which they were applied; a
run's row is the summary of its events; the client is not lied to; every request
is answered.

**Connection registry** (`api/connection_router.py`,
`repositories/connection_repo.py`).  State: the connection row of a logical name
and its audit_log entries.  Operations: POST (insert, or upgrade of a stub), PUT,
DELETE (soft), and the stub that ingestion inserts.  Hard: every handler reads
without a lock, decides and writes later; audit ids are drawn before the commit.
Correct when: each call takes effect once on the row as it then is; a deleted row
never changes again; concurrent PUTs of different columns all survive; the newest
audit entry shows the row, and what an entry gives as the state before was committed.

**Queries** (`api/search_router.py`, `repositories/{lineage,dataset,connection}_repo.py`).
No state.  FR-1 (jobs touching a connection, with a summary), FR-2 (jobs of a
dataset), related connections, upstream and downstream, search of datasets and of
connections.  Hard: FR-1 reads three snapshots; the recursive queries meet cycles
and a depth cap; two datasets can have one FQN; soft-deleted connections keep
their datasets.  Correct when: a traversal is reachability within the hop limit
and ends; the views of one graph agree with each other.

**JSON columns** (`db.py`, every repository).  State: the JSONB columns of the
tables.  The codec of the pool encodes parameters that most repositories have
encoded already.  Correct when: what was put in as a dict comes out as one.

**Migrations** (`src/migrations/`).  State: the schema and schema_migrations.
Hard: statements commit one by one, the record of a file is a later session, two
containers run the script at once.  Correct when: what is recorded is applied, in
order, and a collector only starts on a complete schema.

**Resolver** (`resolver.py`).  State: a cache of connections shared by the
threads of a job.  Operations: resolve, invalidate.  Hard: both fetches happen
outside the lock, and the metadata and the secret change meanwhile.  Correct
when: staleness is bounded by the TTL and an invalidation is final.

**Connection, emitter and configuration** (`connection.py`, `emitter.py`,
`config.py`).  State: a job's recorded inputs and outputs, the run id; the
process's configuration and the emitter its threads share.  Operations: the with
block (START, then COMPLETE or FAIL), record_read, record_write, configure().  Hard:
events are posted once with a 10 s timeout and dropped on error, the collector may
apply one long after the client gave up on it, blocks are entered again with one run
id; get_emitter() checks and sets a global without a lock, and an emitter keeps the
URL it was built with, so that with configure() in between two threads can use two
collectors, and one run too.  Correct when: the job is never held up or broken by
lineage, and a collector ends up showing the last outcome that was posted to it, with
the lineage recorded by then.

**Metadata scanner** (`src/tools/metadata_scanner.py`).  State: the result that
four scanners append to, one after the other.  Its output is reviewed and then
pushed to the collector by a client outside the repository's code
(`docs/SKILLS.md`).  Hard: the files come in the order of the file system, one
scanner can fail in the middle, names collapse into one slug, a push is repeated
after a partial failure while others use the collector.  Correct when: the finding
kept for a name does not depend on that order beyond what the program leaves open;
a failure costs only what it must; datasets are on connections of the result; a
repeated push settles.

**The rest**: `schemas.py` validates requests (its shapes are the sets of
requests, its rules for properties and names are guards); `config.py` and
`settings.py` read environment and YAML; `api/deps.py` compares a token; `main.py`
wires the application; `src/samples`, `src/docker`, tests and documents.

How they interact: the library calls the collector over HTTP (events, GET of
connection metadata) and Vault, and so does whoever pushes a scan; within the collector every handler takes a pooled
connection and opens one transaction; ingestion and the registry share the
connection rows; queries read what ingestion writes; the migration script runs
before the collector in the same container.

## 2. Modules

| Module | What it is |
|---|---|
| `LineageRows` | keys and rows of the lineage tables, the upserts, the plan of statements of an event |
| `AtomicIngest` | abstract: an event is applied in one step or refused |
| `Ingest` | the transactions of POST /lineage, statement by statement |
| `IngestProofs` | theorems about `Ingest` |
| `ConnectionRow` | one connection row and what each call makes of it |
| `AtomicRegistry` | abstract: a call takes effect in one step or not at all |
| `Registry`, `RegistryProofs` | the handlers of /connections and stub creation as transactions, and theorems about them |
| `LineageQueries`, `LineageQueriesProofs` | the lineage queries as operators, the FR-1 request as three steps, and theorems about them |
| `JsonColumns` | the JSONB columns: what the codec, the repositories and the operator `\|\|` make of a dict |
| `Resolver`, `ResolverProofs` | resolve() and invalidate() of several threads, and theorems about them |
| `Producer`, `ProducerProofs` | a job's with blocks, configure() and emitter, composed with the upserts of `LineageRows` as the collector, and theorems |
| `Scanner`, `ScannerProofs` | the scan of a project and the push of its result to the connection rows of `ConnectionRow`, and theorems about them |
| `Migrate`, `MigrateProofs` | migrate.sh run concurrently and killed, and theorems about it |
| `Induction` | induction over the naturals, stated for sets, and what it gives for recursive functions; used by the proofs |
| `MC*` | the instances |

Composition: `Ingest` and `Producer` extend `LineageRows`, and `Producer` relies
on `Ingest` implementing `AtomicIngest` when it applies an event in one step.
`Registry` contains the one statement of ingestion that touches a connection row.
`Scanner` extends `ConnectionRow` and answers each POST with what `Registry` shows
a call does in one step.

### Correspondence of state and actions

*Ingest.*  `db[k]` is the committed row with natural key `k`, `wip[k]` its newest
version, `owner[k]` the transaction that holds its row lock.  `Begin` is
`pool.acquire()` and BEGIN; `UpsertRow` is the next INSERT ... ON CONFLICT DO
UPDATE of `Plan(event)`, enabled when nobody else has the row; `RejectTime` is the
ValueError of `datetime.fromisoformat` between the first and second statement and
the 400 it becomes; `AppendOutbox` draws the id; `Commit`; `Respond`.
`DatabaseError` is any PostgresError (500), `BreakDeadlock` the one Postgres
raises in a transaction on a cycle of waits, `LoseCommitReply` a connection that
drops after Postgres committed, `Crash` the end of the process.

*Registry.*  `Decide` and `Reject` are the unlocked read and what the handler
makes of it; `Write` is INSERT, UPDATE or soft delete once the row lock is free,
on the version it then finds; `WriteFails` is what happens when that version does
not fit (404, UniqueViolationError or a failed assertion); `ReadAgain` is the PUT
without columns; then `AppendAudit`, `Commit`, or `Fail` at any point before.  A
body whose properties do not fit its platform is answered 422 (`Invalid`); a PUT
that gives one of the two columns is checked against nothing.

*Resolver.*  `Begin` reads the clock before taking the lock; `Hit` and `Miss` are
the first critical section, `FetchMetadata` and `FetchSecrets` the calls outside
it, `Store` the second.  Versions of metadata and secret are numbers; the instant
each one was replaced is recorded for the properties.  `token` says since when the
process has a Vault token; without one `FetchSecrets` yields no credentials, which
is cached like any answer.

*LineageQueries.*  The edges determine the job and dataset tables, because no
code deletes either and a dataset is only created with an edge.  A row of a
recursive query is its path and the job of each hop.  `FindConnection`,
`ListJobs` and `Summarise` are the three statements of FR-1.  Names are sequences
of parts, so that an FQN can be the concatenation of two pairs.  `ActualDepth` is the
depth the router passes on: what was asked for, or the default, but at most
max_lineage_depth, whose values are `Caps`.

*JsonColumns.*  A JSON value is a dict, a list or a str that holds the value it was
dumped from.  `Stored` and `Loaded` are the two ways through the codec, `Concat` is
the operator of the upserts.

*Producer.*  `sent`, `state` and `heard` follow each POST: what was sent, whether
the collector has applied or lost it, what the job was told.  `Answered`,
`TimedOut` end the wait; `Apply` and `Lose` belong to the network and collector
and can come long after `TimedOut`.  `config` is what configure() changes, `client`
the URL the stored emitter was built with, `to` the collector each event was posted
to, `db` the tables of each collector.  `Build` and `Store` are the two halves of
get_emitter() in the thread of the job, `TheyBuild` and `TheyStore` the same in other
threads, which matter to the job by nothing else.

*Scanner.*  A project is a set of files and a file is what the regular expressions
find in it; `todo` is the part of `rglob`'s answer the current scanner has not
visited, and only files of equal `Rank` may come in either order.  `ParseEnv`,
`ParseCompose`, `ScanPython` and `ScanDag` visit one file, `Unreadable` is the
OSError (or YAML error) that skips it, a `Crashes` file ends its scanner.
`Deduplicate` ends scan().  `PostConnection` and `PostJob` are the push, one request
at a time, each of which may lose its answer or (`PostLost`) not arrive; `PushAgain`
starts over; `OthersStub` and `OthersDelete` are the rest of the world.

*Migrate.*  `Check` is the head of the loop, `Execute` a statement of a file,
`Record` the INSERT into schema_migrations, `Conflicts` the error that ends the
script, `Kill` the container stopping.

## 3. Runs

| Run | Bound | Shows |
|---|---|---|
| `ingest` | 3 requests, pool of 2; 2 jobs and 2 datasets read and written crosswise and one event whose time does not parse, or any 3 of 5 events of one run | the invariant the proof uses, truthful answers, replay of the outbox gives the tables, refinement of `AtomicIngest`; the run row summarises its events; conflicting outbox entries become visible in id order |
| `ingest_live` | 2 requests that can deadlock and a third, on a pool of 2 | every request is answered |
| `registry` | 4 calls of every kind on one name | refinement of `AtomicRegistry`; the audit log as a history that ends with the row, what an entry gives as the state before, PUT columns, deleted rows, answers; only half updates break the rule for properties |
| `resolver` | 2 threads, TTL 1, clock to 2, one change of each value and of the token | staleness bound, order of secret and metadata, final invalidation when no fetch races it |
| `migrate` | 4 executions, 3 at once, files of 3 and 2 statements | the invariant of the script, recorded means applied, order, complete schema |
| `queries` | every graph of 2 jobs and 3 datasets, two of them with one FQN, a connection deletable, with an FR-1 request under way | traversals are reachability by hops, for a limit of 1 and 3 and every depth asked for, end by themselves, mirror each other; the views agree; FR-1 never contradicts itself |
| `producer` | 2 with blocks, one recorded read or write, 1 configure(), 2 collectors, 1 other thread | each collector shows the last outcome and the lineage posted to it; the job is never held up |
| `scanner` | 5 projects of 2 to 4 files | the first finding is kept in any order of files, failures stay local, datasets are on known connections, a repeated push settles |

The bounds are the smallest at which each hazard occurs: two transactions are
needed for a deadlock and a third to find what it leaves behind, also in the pool;
three events make a run with a late START and two contradictory ends; four calls
make a stub, a registration, a deletion, and one that has read an older version;
a TTL of one tick lets a fetch outlast it within two; three executions of the
script race while a fourth finds their remains; three datasets are the smallest
graph with a cycle, a self-loop and a shortcut, and as a job links all its inputs to
all its outputs, two jobs make all of these (a third multiplies the states beyond
what a run may take); two with blocks let the START of the second overtake the
outcome of the first, one configure() falls between any two steps, and one other
thread is enough to replace the emitter between the START and the outcome of a run,
which the run reaches.  The limits 1 and 3 lie below and at the default depth.  The projects
of `MCScanner` hold two env files with one name, names that differ only before they
become slugs, a service that breaks the scanner, a connection without required
properties and a Python file that is also a DAG.  `MaxId` equals the number of requests,
so the bound on ids never disables an append.  `MaxVersion`, `MaxClock`,
`MaxEntries`, `MaxRecords` and `MaxEvents` are the other bounds on counters; the one
call of configure() is a guard of `Configure`.  The invariants `IndInv` of `Ingest`
and `Migrate` contain their `TypeOK`.
Deadlock checking is off (`CHECK_DEADLOCK FALSE`) because every instance is a
finite set of requests, calls or executions that ends, and bounded counters stop.

### Where documents and code disagree

Four runs check one statement of a document or comment each, and TLC finds the
code violating it.  The findings of `PROJECT.json` quote the lines.

| Run | Statement | What the code does |
|---|---|---|
| `registry_upgrade` | POST of a registered name answers 409 (`docs/API.md:250`) | two POSTs that read one stub both succeed |
| `resolver_rotation` | after a rotation, invalidate() clears the cache (`docs/DESIGN.md:280`) | a fetch under way stores the credentials from before the rotation afterwards, and the next resolve() returns them |
| `migrate_rerun` | the script is safe to run again (`README.md:75`) | after a kill inside a file every later run fails |
| `json_columns` | JSONB is returned as dict, not str (`db.py:16`) | values are encoded twice: a str is returned, and a list once `\|\|` has joined two |

Other disagreements met while modelling are visible in the modules and need no
search to be seen, so they have no run:

* every event upserts its edges, also a RUNNING one (`docs/INTEGRATION.md:416`
  says it creates none): `Plan`;
* no connection is stubbed for the namespace of a job (`docs/API.md:658`): `Plan`;
* stubs are not audited, and before_state is what an unlocked read saw
  (`docs/DESIGN.md:295`): `UpsertStub`, `Decide` and `Entry`;
* a POST that loses the race for a name, or meets a soft-deleted row, answers 500
  and not 409 (`docs/API.md:250`): `WriteFails`;
* two datasets of different connections can have one FQN (`docs/DESIGN.md:345`
  calls it a natural key): `Fqn`, `ByFqn`;
* an unparsable collector_url raises from the with statement
  (`docs/DESIGN.md:234` says lineage errors never crash the job): `EnterRaises`;
* configure() says it overrides values at runtime, with collector_url as its example
  (`config.py:146-149`), but an emitter that exists keeps the URL and token it was built
  with, while the resolver uses the new ones; and as get_emitter() takes no lock, the
  emitter meant to be one per process can be replaced once: `Configure`, `Build`,
  `TheyStore`;
* max_lineage_depth (10) silently caps a depth of up to 20 that `docs/API.md:457`
  allows: `ActualDepth`;
* `_slugify` promises a valid logical_name (`metadata_scanner.py:112`), but a name
  that begins with "." or "_" is refused with 422: `ValidName`, `Verdict`;
* the scanner reports platform "postgresql", but `connection.py:90` and the places
  like it know only "postgres": `PlatformOrder`;
* `DB_HOST` variables are collected and never used (`docs/SKILLS.md:68` lists them as
  a source): `FromEnv`;
* an import counts as a table, since `FROM` matches in any case (`docs/SKILLS.md:70`
  speaks of SQL tables): `FromPython`;
* a schema is matched by `\w+`, so no connection with "-" in its name, which is
  every one found in an env file, can be the namespace of a table: `Dataset`;
* the upgrade of a stub answers 201 (`docs/SKILLS.md:238` says 200), and no namespace
  is refused (`docs/SKILLS.md:252` shows a 422): `Verdict`, `PostJob`.

## 4. Fairness

`Ingest!FairSpec` assumes weak fairness of each request's handler and of
`BreakDeadlock`: the event loop schedules every runnable coroutine, asyncpg's pool
serves waiters, and Postgres looks for a cycle after deadlock_timeout.  Errors and
crashes are never forced; a waiting request gets on because the transaction it
waits for ends.  `BreakDeadlock(t)` is fair for every t on a cycle, which is
stronger than "one of them" only until the first abort dissolves the cycle.
`Producer!FairSpec` assumes that a POST returns, with an answer or by httpx's timeout.
The collector may be silent, refuse or fail; but `timeout=10.0` bounds each connect,
write and read and not the whole call, so the assumption excludes a collector that
goes on sending its answer a few bytes at a time.  The other modules state safety only.

## 5. Proofs

`IngestProofs` proves, for any set of jobs, datasets, events, requests and any
pool size, from the assumptions on the constants declared in `LineageRows` and
`Ingest`:

* `IndInvHolds`: the inductive invariant `IndInv`.  The safety properties are not
  inductive: that a commit equals applying the event atomically needs to know what
  the transaction has written so far, and that nobody else has.  `RowVersions`
  says an unlocked row has one version and a locked row's newest version is
  `Upsert(event, k, committed version)`, *however often the event names the row*,
  which rests on the upserts being idempotent (`UpsertIdempotent`).  `StepsInv`
  says the rows of all executed statements are locked.  `IdsInv` says that a
  transaction with an id has committed no later than a conflicting smaller id,
  because it got its id after all its locks.
* `IngestIsAtomic`: `Ingest` implements `AtomicIngest`: a commit maps to `Apply`, a
  rollback to `Refuse`, everything else stutters.
* `OutboxOrder`, `RunRowIsSummary`, `AnswersAreTruthful`, `TypeCorrect`: the
  properties the runs check under the names given in `PROJECT.json`.
* `OutboxReplays`: replaying the outbox by id gives the tables, although commits
  come in another order.  Two lemmas carry it: events that do not conflict commute
  (`ApplyCommutes`, which rests on the upserts touching only rows the event names),
  and an entry added with an id above every conflicting one has the effect of its
  event on what the whole outbox replays to (`ReplayInsert`, by induction over the
  ids).  That a commit is such an entry is `IdsInv`.

`MigrateProofs` proves `IndInvHolds`, `RecordedVersionsAreApplied`,
`FilesTakeEffectInOrder` and `SchemaIsComplete` for any number of files,
statements and executions.  The invariant adds `RunsInv`: what an execution has
found recorded or applied before its current place stays so, since nothing is
ever dropped or unrecorded.

`ResolverProofs` proves `TypeCorrect`, `StalenessIsBounded`, `SecretsAreInOrder` and
`QuietInvalidations` for any number of threads and names, any TTL and any clock.
None of the properties is inductive: they speak of the value a call returns, which
may have been fetched by another thread long before.  The invariant therefore says
of every value in flight, whether fetched, cached or returned, since which instant
`s` it is good: metadata and secret were each current at `s` or later, and the secret
was still in Vault when the metadata's version took effect.  A fetch gives `s` the start of its own call
(`Fetched`), a cache entry carries it in `expires - TTL` (`Cached`), and a hit is only
possible while that is less than a TTL before the call (`Returned`).  `Calls` keeps
the marks of invalidations in step with the calls.  That versions are only ever
replaced at the end of their sequence, at the current instant, makes every one of
these facts stable under the world's steps.

`ProducerProofs` is about any number of with blocks, reads and writes, any
collectors, any number of other threads and any time of configure().  `EmitterInv`: a thread
inside get_emitter() holds an emitter with a parsed URL, and whoever posts finds one
stored; nothing is known of which.  So everything is said for each collector:
`LineageIsWhatWasRecorded` (invariant `LineageInv`): records only grow, a post names
what was recorded when it was made, a post applied at a collector has made its edges
visible there, and nothing else makes any visible.  `LastOutcomeIsShown` (`OutcomeInv`): the job hears of a
post only once it is settled, so if it was answered on every outcome before the last,
none of them can still arrive, and what arrives late, a START, leaves status and end
as they are.  The run's row at a collector is tied to the posts applied there.  The proof showed
that `OutcomeIsShown` holds while another post is under way, and the property now says so.

`LineageQueriesProofs` is about every finite set of jobs and datasets, every sequence of
events and deletions, every depth asked for and every limit.

* `TraversalsAreReachability`: the rows of level `n` are exactly the walks of `n` hops
  that visit no dataset twice (`LevelsAreWalks`, by induction over the levels), and
  what such walks reach within `n` hops is what breadth-first search reaches
  (`BallIsReached`).  The step that needs the guard against cycles is
  `OneHopFurther`: a hop to a dataset the walk has been to is covered by the shorter
  walk that ends there.
* `RecursionAlwaysEnds`: a walk of as many hops as there are datasets would visit one
  of them twice.  `MirrorAlways`: a walk backwards is a walk of the other direction,
  also between datasets that share an FQN.
* `SummaryIsNeverShort`: edges are only ever added, so each later snapshot contains
  the jobs and datasets of the list; the invariant `RequestInv` keeps what the list
  was made from.  `ViewsAlwaysAgree` and `RelatedBothWays` hold in every well typed state;
  `TypeCorrect` gives that counts are of finite sets.

`RegistryProofs` proves `RegistryIsAtomic`, that `Registry` implements
`AtomicRegistry`, and from the same invariant `LogIsTheHistory`,
`AuditsStartFromShownStates`, `AnswersMatchAudit`, `UpdatesKeepOtherColumns`,
`DeletedRowsAreFrozen` and `OnlyHalfUpdatesBreakTheRule`, for
any set of calls on a name.  A handler decides on an unlocked read, so the
invariant says nothing of what it read; it rests on the row lock.  `LockInv`: the
holder's version is its call applied to the *committed* row, and the call applies
to that row.  `StepsInv`: a call that has written and not ended is the holder, and
was told a row with the columns it gave.  `IdsInv`: the log is what the calls that
ended wrote, and a change that has drawn its id, which it does under the lock, is
above all changes that ended.  `RowInv`: the change with the largest id made the
row what it is.  `LogIsTheHistory` adds to this that there is a newest entry
(`HistoryInv`): the entry of a committed change comes after all others
(`ChangeIsNewest`) and its call was applied to the row as the newest of them shows it
(`ChangeFollows`); so after_state is a history although before_state is not.  Of
before_state, `AuditsStartFromShownStates` says what remains true (`ReadsInv`): the
newest entry shows the committed row at the time of the read (`RowWasShown`), entries
stay, and the call's own id is drawn later.  A commit
is then `Take`, `Note` or `Stub` of the abstract specification, a rollback is `Refuse`, and every other step stutters.  Besides the
assumptions on the constants of `ConnectionRow` and `Registry` nothing is used.

`ScannerProofs` is about every set of projects, every order in which the file system may
list files of equal rank, every failure of a file and every push.

* `TypeCorrect` rests on what each parser returns (`FromEnvType`, `FromComposeType`,
  `FromPythonType`, `FromDagType`): a finding has a name that is not empty, a platform the
  collector's rows can hold, and no properties except Kafka's.
* `FirstFindingIsAlwaysKept` (invariant `FoundInv`): while connections are looked for, no
  file still to visit comes before one that anything was found in, so whatever a parsed
  file has found was found there or in a file it does not precede.  That deduplication
  then keeps exactly the first finding of every name is `FirstOfKeepsFirst`.
* `FailuresAlwaysStayLocal` and `NamespacesAreAlwaysConnections` (`MissInv`, `JobInv`): what
  is visited stays visited, so the compose file at which the scanner broke is never itself
  among the missed; the names are complete before the first Python file is read, and
  deduplication loses none (`FirstOfNames`), so a job is what the *final* names imply.  `InferIoFinds` gives what
  the loop of `_infer_io` computes: every table at its first mention, an output at a later one.
* `PushAlwaysSettles` (`PushInv`): each answer the client has had in the present round
  still describes the row, because a row never disappears, others only create stubs or
  delete, and the names posted are distinct, which is the part of `FoundInv` the push needs.

`Induction` states induction for sets (`NatInSet`: a set with 0 and the successor of each
of its numbers contains all of `Nat`), which follows from the pigeonhole principle for
finite sets; the induction theorems of the library take a predicate as a parameter,
which the provers cannot instantiate.  `RecursionExists` derives from it that a function
defined by recursion up to a bound exists, so that `Replay`, `Levels`, `Ball`, `Pick`, `Variables`
and `InferIo` satisfy the equations they are written with.

The assumptions on constants are the types of the inputs, that `NULL` is none of the
values it stands next to, for the queries, that there are finitely many jobs and
datasets, and, for the scanner, that a project is a set of files and the platforms it
knows are some of those callers register.

Every invariant and action property of the runs expected to pass is a theorem.  Only
model-checked: liveness (`EveryRequestAnswered`, `NeverHeldUp`), which needs fairness and
ENABLED, and the four counterexamples.

## 6. Abstractions, and what is not modelled

* The database's clock columns are left out.  The JSON bags (properties, facets) are
  in `JsonColumns` alone; elsewhere only what the code reads from a facet (storage
  layer, column mapping) and, in `ConnectionRow`, the platform whose required keys
  the properties hold.
  A producer string is the set of keywords it contains, a namespace the set of
  its traits.  eventTime is an instant or NULL when it does not parse.
* Requests FastAPI refuses with 401, and bodies of POST /lineage it refuses with
  422, change nothing and are not modelled.
* `Registry` covers one logical name, since calls on different names share only
  the sequence of audit ids; host and owner stand for the seven columns that the
  platform does not constrain.
* `Scanner`: what the regular expressions match is given with each file; job_type,
  warnings, ports and the review of the scan file are left out.  Its push answers a
  POST in one step, since `Registry` shows that calls take effect in one.
* `Producer`: one Connection object, used by one thread; other threads matter to it
  only as builders of the emitter, and the events of their own Connections are left out.
  `Resolver`: the singleton is built when the module is imported, before any thread
  can ask for it.
* READ COMMITTED is modelled by what it means for these statements: reads see the
  committed row, writes wait for the row lock and work on the newest version.
  That `INSERT ... ON CONFLICT` and a plain INSERT wait for an uncommitted row of
  the same key is part of it.
* Not modelled: the searches of datasets and connections, each a single statement that
  returns the best matches by a trigram score up to a limit (50, at most 200), so that
  little can be said of a result but that each row matches; list endpoints; the layers of the configuration at import (environment, YAML, default),
  which are read once and keep no state; the URL builders of the adapters, which are
  formatting; authentication, settings and the wiring of the application; samples
  and containers.

## 7. Plan

1. Done: ingestion with its proofs, registry with the rules for properties and its
   proofs, resolver with its proofs and the missing token, migrations with proofs, queries
   with proofs, the producer with configure(), other threads and its proofs, the JSON
   columns, the scanner and its push with its proofs.
2. Next modules: `Registry` composed with `Resolver` and a Connection that keeps what
   it resolved, so that a PUT becomes visible to a job within a TTL and to a
   Connection never; the layers of `BankConnConfig` as pure operators.
3. Next theorems: those of the composition of item 2.
