-------------------------------- MODULE Scanner --------------------------------
(***************************************************************************)
(* tools/metadata_scanner.py and what becomes of its output: four scanners *)
(* go over the files of a project, one after the other, each in the order  *)
(* the file system gives; the connections they find are deduplicated; then *)
(* a client posts the connections and the jobs to the collector, while     *)
(* others use the same collector.                                          *)
(*                                                                         *)
(* A file is what the regular expressions of the scanners get out of it.   *)
(* Names are sequences of tokens: a separator, or a run of letters and     *)
(* digits; a schema that differs in case is another name.                  *)
(***************************************************************************)
EXTENDS ConnectionRow, Naturals, FiniteSets, SequencesExt

CONSTANTS
    Projects,   \* sets of files
    Home,       \* the namespace of the project's jobs and unresolved tables
    SourceLike  \* the tables whose name contains "src", "raw" or "stg"

\* The platforms in the order their keywords are looked for.
PlatformOrder == <<"postgresql", "mysql", "oracle", "kafka", "redis", "mongodb", "s3",
                   "iceberg", "trino", "clickhouse">>

\* Of a line what its variable is for, of a service what is odd about it.  hints are
\* the platforms with a keyword in the text; schema and dag may be missing.
Lines    == [var: {"url", "brokers", "host"}, prefix: Seq(STRING), parses: BOOLEAN,
             hints: SUBSET ToSet(PlatformOrder), host: Hosts \cup {NULL}]
Services == [name: Seq(STRING), odd: {"no", "null", "ports"}, host: Hosts,
             hints: SUBSET ToSet(PlatformOrder)]
Mentions == [by: {"sql", "table", "import"}, schema: {NULL} \cup Seq(STRING), table: STRING]
Files    == [kind: {"env"}, skipped: BOOLEAN, plain: BOOLEAN, lines: Seq(Lines)]
            \cup [kind: {"compose"}, skipped: BOOLEAN, fname: 1 .. 4, services: Seq(Services)]
            \cup [kind: {"py"}, skipped: BOOLEAN, place: {"dags", "root", "other"},
                  stem: Seq(STRING), imports: BOOLEAN, reads: BOOLEAN, writes: BOOLEAN,
                  dag: {NULL} \cup Seq(STRING), mentions: Seq(Mentions)]

ASSUME ScannerAssumption ==
    /\ Projects \subseteq SUBSET Files
    /\ ToSet(PlatformOrder) \subseteq Platforms

VARIABLES
    project,  \* the files of the scanned project
    phase,    \* the scanner that runs, then "publish"
    todo,     \* the files it has not visited
    conns,    \* result.connections
    jobs,     \* result.jobs
    missed,   \* history: <<scanner, file>> never read, or left when the scanner failed
    table,    \* the collector's connection table
    edges,    \* its lineage: [job, ns, table, direction]
    next,     \* the position of the client in connections, then jobs
    told      \* [DOMAIN conns -> the last answer to its POST, or NULL]

scan == <<project, phase, todo, conns, jobs, missed>>
push == <<table, edges, next, told>>
vars == <<scan, push>>

-----------------------------------------------------------------------------
(* Names. *)

Dashed(s) ==
    LET append(acc, c) == IF c \in {" ", "-"} /\ (acc = <<>> \/ Last(acc) = "-") THEN acc
                          ELSE Append(acc, IF c = " " THEN "-" ELSE c)
        slug == FoldLeft(append, <<>>, s)
    IN  IF slug # <<>> /\ Last(slug) = "-" THEN Front(slug) ELSE slug

\* A bug, for mutation: a name of dashes only becomes empty.
SlugifyEmpties(s) == Dashed(s)

\* Whatever is not a letter, a digit, ".", "_" or "-" (here " ") becomes a dash;
\* runs of dashes collapse; dashes at the ends go.
Slugify(s) == IF Dashed(s) = <<>> THEN <<"unknown">> ELSE Dashed(s)

\* The pattern of ConnectionCreate.logical_name: a letter or digit comes first.
ValidName(n) == n[1] \notin {".", "_", "-"}

\* The elements of s at the positions in I, in their order.
Pick(s, I) ==
    LET kept[n \in 0 .. Len(s)] == IF n = 0 THEN <<>>
                                   ELSE IF n \in I THEN Append(kept[n - 1], s[n]) ELSE kept[n - 1]
    IN  kept[Len(s)]

InferPlatform(hints) ==
    LET found == Pick(PlatformOrder, {i \in DOMAIN PlatformOrder : PlatformOrder[i] \in hints})
    IN  IF found = <<>> THEN "unknown" ELSE Head(found)

-----------------------------------------------------------------------------
(* What one file yields. *)

Found(name, platform, props, host, source) ==
    [name |-> name, platform |-> platform, props |-> props, host |-> host, source |-> source]

\* A dict: a later value replaces an earlier one of its prefix, in its place.
Put(acc, e) ==
    IF \E i \in DOMAIN acc : acc[i].prefix = e.prefix
      THEN [i \in DOMAIN acc |-> IF acc[i].prefix = e.prefix THEN e ELSE acc[i]]
      ELSE Append(acc, e)

Variables(f, var) ==
    LET dict[n \in 0 .. Len(f.lines)] ==
            IF n = 0 THEN <<>>
            ELSE IF f.lines[n].var = var THEN Put(dict[n - 1], f.lines[n]) ELSE dict[n - 1]
    IN  dict[Len(f.lines)]

\* A URL that does not parse is dropped; *_HOST variables are collected and not
\* used.  hints are of the URL's scheme.
FromEnv(f) ==
    LET all     == Variables(f, "url")
        urls    == Pick(all, {i \in DOMAIN all : all[i].parses})
        brokers == Variables(f, "brokers")
    IN  [i \in DOMAIN urls |->
            LET platform == InferPlatform(urls[i].hints)
            IN  Found(Slugify(<<platform, "-">> \o urls[i].prefix), platform, "empty",
                      urls[i].host, f)]
        \o [i \in DOMAIN brokers |->
            Found(Slugify(<<"kafka", "-">> \o brokers[i].prefix), "kafka", "kafka", NULL, f)]

\* The first service the loop stumbles over: one without a body, or one of a
\* known platform whose ports are no strings.
Breaks(s) == s.odd = "null" \/ (s.odd = "ports" /\ InferPlatform(s.hints) # "unknown")
Reached(f) == LET bad == {i \in DOMAIN f.services : Breaks(f.services[i])}
              IN  {i \in DOMAIN f.services : \A b \in bad : i < b}
Crashes(f) == \E i \in DOMAIN f.services : Breaks(f.services[i])

FromCompose(f) ==
    LET kept == Pick(f.services, {i \in Reached(f) : InferPlatform(f.services[i].hints) # "unknown"})
    IN  [i \in DOMAIN kept |-> Found(Slugify(kept[i].name), InferPlatform(kept[i].hints),
                                     "empty", kept[i].host, f)]

NamesOf(found) == {found[i].name : i \in DOMAIN found}

\* A bug, for mutation: every schema is taken for a namespace.
DatasetAnySchema(m, known) ==
    [ns |-> IF m.schema # NULL THEN m.schema ELSE Home, table |-> m.table]

\* A mention is what follows FROM, JOIN, INTO or TABLE, in either case: SQL, or
\* the module of a Python import.  Its schema counts when it is the name of a
\* connection found so far.
Dataset(m, known) ==
    [ns |-> IF m.schema # NULL /\ m.schema \in known THEN m.schema ELSE Home, table |-> m.table]

\* A table becomes an input at its first mention if the file reads anything,
\* otherwise an output if the file writes anything.
InferIo(f, known) ==
    LET place(d, io) ==
            IF f.reads /\ d \notin io.inputs THEN [io EXCEPT !.inputs = @ \cup {d}]
            ELSE IF f.writes THEN [io EXCEPT !.outputs = @ \cup {d}] ELSE io
        io[n \in 0 .. Len(f.mentions)] ==
            IF n = 0 THEN [inputs |-> {}, outputs |-> {}]
                     ELSE place(Dataset(f.mentions[n], known), io[n - 1])
    IN  io[Len(f.mentions)]

Job(name, io, source) ==
    [name |-> name, inputs |-> io.inputs, outputs |-> io.outputs, source |-> source]

FromPython(f, known) ==
    LET io == InferIo(f, known)
    IN  IF f.imports /\ io.inputs \cup io.outputs # {}
          THEN <<Job(Slugify(f.stem), io, f)>> ELSE <<>>

\* dag_id is taken as it is; TABLE is no keyword here, and a schema is dropped.
FromDag(f) ==
    LET tables == {f.mentions[i].table : i \in {k \in DOMAIN f.mentions : f.mentions[k].by # "table"}}
        side(T) == {[ns |-> Home, table |-> t] : t \in T}
    IN  IF f.dag # NULL /\ tables # {}
          THEN <<Job(f.dag, [inputs  |-> side(tables \cap SourceLike),
                             outputs |-> side(tables \ SourceLike)], f)>>
          ELSE <<>>

-----------------------------------------------------------------------------
(* scan() *)

Scanners == <<"env", "compose", "python", "dags">>

\* The files a scanner goes over.  skipped: the path contains one of the
\* substrings it excludes, such as ".venv", or for Python "test_"; the DAG
\* scanner excludes nothing and takes the root and every directory dags.
Covers(scanner, f) ==
    CASE scanner \in {"env", "compose"} -> f.kind = scanner /\ ~f.skipped
      [] scanner = "python"             -> f.kind = "py" /\ ~f.skipped
      [] scanner = "dags"               -> f.kind = "py" /\ f.place # "other"
      [] OTHER                          -> FALSE

\* The order that does not depend on the file system: .env before .env.*, the
\* four names of a compose file, directories dags before the root.
Rank(scanner, f) == CASE scanner = "env"     -> IF f.plain THEN 1 ELSE 2
                      [] scanner = "compose" -> f.fname
                      [] scanner = "python"  -> 1
                      [] scanner = "dags"    -> IF f.place = "dags" THEN 1 ELSE 2

AllFound == UNION {UNION {IF f.kind = "env" THEN NamesOf(FromEnv(f))
                          ELSE IF f.kind = "compose" THEN NamesOf(FromCompose(f)) ELSE {}
                             : f \in p} : p \in Projects}
Names    == AllFound \cup {Home}
Tables   == UNION {UNION {IF f.kind = "py" THEN {f.mentions[i].table : i \in DOMAIN f.mentions}
                                          ELSE {} : f \in p} : p \in Projects}
JobNames == UNION {UNION {IF f.kind = "py" THEN {Slugify(f.stem)} \cup ({f.dag} \ {NULL}) ELSE {}
                             : f \in p} : p \in Projects}
Edge     == [job: JobNames, ns: Names, table: Tables, direction: {"input", "output"}]

TypeOK ==
    /\ project \in Projects
    /\ phase \in ToSet(Scanners) \cup {"publish"} /\ todo \subseteq project
    /\ \A i \in DOMAIN conns :
          /\ conns[i].name \in Names /\ conns[i].name # <<>> /\ conns[i].source \in project
          /\ conns[i].platform \in ToSet(PlatformOrder) \cup {"unknown"}
          /\ conns[i].props \in Props /\ conns[i].host \in Hosts \cup {NULL}
    /\ \A i \in DOMAIN jobs : /\ jobs[i].name \in JobNames /\ jobs[i].source \in project
                              /\ \A d \in jobs[i].inputs \cup jobs[i].outputs : d.table \in Tables
    /\ missed \subseteq [scanner: ToSet(Scanners), file: project, why: {"unreadable", "left"}]
    /\ table \in [Names -> Rows \cup {NULL}] /\ edges \subseteq Edge
    /\ next \in 1 .. Len(told) + 1
    /\ \A i \in DOMAIN told : told[i] \in {"201", "202", "409", "422", "500", "lost", NULL}

Init ==
    /\ project \in Projects
    /\ phase = "env" /\ todo = {f \in project : Covers("env", f)}
    /\ conns = <<>> /\ jobs = <<>> /\ missed = {}
    /\ table = [n \in Names |-> NULL] /\ edges = {}
    /\ next = 1 /\ told = <<>>

\* The files of equal rank come in the order of the file system.
Visiting(scanner, f) ==
    /\ phase = scanner /\ f \in todo
    /\ \A g \in todo : Rank(scanner, f) <= Rank(scanner, g)

Unreadable(f) ==
    /\ Visiting(phase, f)
    /\ todo' = todo \ {f}
    /\ missed' = missed \cup {[scanner |-> phase, file |-> f, why |-> "unreadable"]}
    /\ UNCHANGED <<project, phase, conns, jobs, push>>

ParseEnv(f) ==
    /\ Visiting("env", f)
    /\ todo' = todo \ {f}
    /\ conns' = conns \o FromEnv(f)
    /\ UNCHANGED <<project, phase, jobs, missed, push>>

\* An exception ends this scanner; what it had appended stays.
ParseCompose(f) ==
    /\ Visiting("compose", f)
    /\ conns' = conns \o FromCompose(f)
    /\ todo' = IF Crashes(f) THEN {} ELSE todo \ {f}
    /\ missed' = IF ~Crashes(f) THEN missed
                 ELSE missed \cup {[scanner |-> "compose", file |-> g, why |-> "left"]
                                      : g \in todo \ {f}}
    /\ UNCHANGED <<project, phase, jobs, push>>

ScanPython(f) ==
    /\ Visiting("python", f)
    /\ todo' = todo \ {f}
    /\ jobs' = jobs \o FromPython(f, NamesOf(conns))
    /\ UNCHANGED <<project, phase, conns, missed, push>>

ScanDag(f) ==
    /\ Visiting("dags", f)
    /\ todo' = todo \ {f}
    /\ jobs' = jobs \o FromDag(f)
    /\ UNCHANGED <<project, phase, conns, missed, push>>

\* A bug, for mutation: once a scanner has failed, the others do not run.
EndScannerStops(k) ==
    /\ phase = Scanners[k] /\ todo = {} /\ k < Len(Scanners)
    /\ phase' = Scanners[k + 1]
    /\ todo' = IF \E m \in missed : m.why = "left" THEN {}
               ELSE {f \in project : Covers(phase', f)}
    /\ UNCHANGED <<project, conns, jobs, missed, push>>

EndScanner(k) ==
    /\ phase = Scanners[k] /\ todo = {} /\ k < Len(Scanners)
    /\ phase' = Scanners[k + 1]
    /\ todo' = {f \in project : Covers(phase', f)}
    /\ UNCHANGED <<project, conns, jobs, missed, push>>

\* A bug, for mutation: the last finding of a name is kept.
FirstOfLast(found) ==
    Pick(found, {i \in DOMAIN found : \A k \in i + 1 .. Len(found) : found[k].name # found[i].name})

\* The first finding of every name.
FirstOf(found) ==
    Pick(found, {i \in DOMAIN found : \A k \in 1 .. i - 1 : found[k].name # found[i].name})

\* The end of scan(); main() writes the result.
Deduplicate ==
    /\ phase = "dags" /\ todo = {}
    /\ conns' = FirstOf(conns)
    /\ phase' = "publish"
    /\ told' = [i \in 1 .. Len(conns') + Len(jobs) |-> NULL]
    /\ UNCHANGED <<project, todo, jobs, missed, table, edges, next>>

-----------------------------------------------------------------------------
(* The client posts what was written, connections first. *)

Payload(c) == [op |-> "create", platform |-> c.platform, props |-> c.props, host |-> c.host,
               owner |-> NULL]

\* A bug, for mutation: a stub counts as registered.
VerdictRefusesStubs(c, row) ==
    IF ~ValidName(c.name) \/ Invalid(Payload(c)) THEN "422"
    ELSE IF Live(row) # NULL THEN "409"
    ELSE IF row # NULL /\ row.deleted THEN "500" ELSE "201"

\* What POST /connections answers; module Registry has the steps.
Verdict(c, row) ==
    IF ~ValidName(c.name) \/ Invalid(Payload(c)) THEN "422"
    ELSE IF Live(row) # NULL /\ ~IsStub(row) THEN "409"
    ELSE IF row # NULL /\ row.deleted THEN "500" ELSE "201"

\* The request is applied and answered, or the answer or the request is lost.
Deliver(answer) ==
    /\ next' = next + 1
    /\ \E heard \in {answer, "lost"} : told' = [told EXCEPT ![next] = heard]

PostConnection ==
    /\ phase = "publish" /\ next \in DOMAIN conns
    /\ LET c == conns[next]
           answer == Verdict(c, table[c.name])
       IN  /\ Deliver(answer)
           /\ table' = IF answer = "201" THEN [table EXCEPT ![c.name] = Outcome(Payload(c), @)]
                                         ELSE table
    /\ UNCHANGED <<scan, edges>>

EdgesOf(j) == {[job |-> j.name, ns |-> d.ns, table |-> d.table, direction |-> "input"] : d \in j.inputs}
              \cup {[job |-> j.name, ns |-> d.ns, table |-> d.table, direction |-> "output"] : d \in j.outputs}

\* The event is a COMPLETE with the job's inputs and outputs.
PostJob ==
    /\ phase = "publish" /\ next \in DOMAIN told \ DOMAIN conns
    /\ LET new == EdgesOf(jobs[next - Len(conns)])
       IN  /\ edges' = edges \cup new
           /\ table' = [n \in Names |-> IF \E e \in new : e.ns = n THEN UpsertMinimal(table[n])
                                                                   ELSE table[n]]
    /\ Deliver("202")
    /\ UNCHANGED scan

PostLost ==
    /\ phase = "publish" /\ next \in DOMAIN told
    /\ next' = next + 1 /\ told' = [told EXCEPT ![next] = "lost"]
    /\ UNCHANGED <<scan, table, edges>>

\* The client ends or dies, and is started again on the same file.
PushAgain ==
    /\ phase = "publish" /\ next > 1
    /\ next' = 1 /\ told' = [i \in DOMAIN told |-> NULL]
    /\ UNCHANGED <<scan, table, edges>>

\* Others name a connection in an event, or delete it.
OthersStub(n) ==
    /\ phase = "publish" /\ n \in NamesOf(conns)
    /\ table' = [table EXCEPT ![n] = UpsertMinimal(@)]
    /\ UNCHANGED <<scan, edges, next, told>>

OthersDelete(n) ==
    /\ phase = "publish" /\ n \in NamesOf(conns) /\ Live(table[n]) # NULL
    /\ table' = [table EXCEPT ![n].deleted = TRUE]
    /\ UNCHANGED <<scan, edges, next, told>>

Next ==
    \/ \E f \in project : \/ Unreadable(f)
                          \/ ParseEnv(f)
                          \/ ParseCompose(f)
                          \/ ScanPython(f)
                          \/ ScanDag(f)
    \/ \E k \in DOMAIN Scanners : EndScanner(k)
    \/ Deduplicate
    \/ PostConnection
    \/ PostJob
    \/ PostLost
    \/ PushAgain
    \/ \E n \in Names : OthersStub(n) \/ OthersDelete(n)

Spec == Init /\ [][Next]_vars

-----------------------------------------------------------------------------
(* Correctness. *)

Missed(scanner, f) == \E m \in missed : m.scanner = scanner /\ m.file = f
Yield(f) == IF f.kind = "env" THEN FromEnv(f) ELSE FromCompose(f)

\* Whatever order the file system lists the files in, the finding kept for a name
\* is one of the first in the order the program fixes: .env, .env.*, the compose
\* file names; and no name is found without one finding being kept, once.
FirstFindingIsKept ==
    LET earlier(f, g) == \/ f.kind = "env" /\ g.kind = "compose"
                         \/ f.kind = g.kind /\ Rank(f.kind, f) < Rank(f.kind, g)
    IN  phase = "publish" =>
            /\ \A i, k \in DOMAIN conns : conns[i].name = conns[k].name => i = k
            /\ \A f \in project : f.kind # "py" /\ Covers(f.kind, f) /\ ~Missed(f.kind, f) =>
                  \A n \in NamesOf(Yield(f)) :
                      \E i \in DOMAIN conns : conns[i].name = n /\ ~earlier(f, conns[i].source)

\* A file that cannot be read costs its own findings; a compose file that makes
\* its scanner fail also costs the compose files after it, and nothing else: all
\* other files give every connection and job they should, with the inputs and
\* outputs that the names in the final result imply.  For a file that reads, every
\* table it mentions is an input, and one mentioned again is an output as well if
\* the file also writes; for one that only writes, every table is an output.
FailuresStayLocal ==
    LET known      == NamesOf(conns)
        of(f)      == {Dataset(f.mentions[i], known) : i \in DOMAIN f.mentions}
        twice(f)   == {d \in of(f) : \E i, k \in DOMAIN f.mentions :
                          i # k /\ Dataset(f.mentions[i], known) = d /\ Dataset(f.mentions[k], known) = d}
        inputs(f)  == IF f.reads THEN of(f) ELSE {}
        outputs(f) == IF ~f.writes THEN {} ELSE IF f.reads THEN twice(f) ELSE of(f)
    IN  phase = "publish" =>
            /\ \A m \in missed : m.why = "left" =>
                  \E g \in project : /\ m.scanner = "compose" /\ g.kind = "compose" /\ Crashes(g)
                                     /\ ~Missed("compose", g) /\ g.fname <= m.file.fname
            /\ \A f \in project :
                  Covers("python", f) /\ f.imports /\ ~Missed("python", f) /\ inputs(f) \cup outputs(f) # {} =>
                      \E i \in DOMAIN jobs : jobs[i] = [name |-> Slugify(f.stem), inputs |-> inputs(f),
                                                        outputs |-> outputs(f), source |-> f]

\* A dataset is on the project's namespace or on a connection of the result, also
\* when that connection was found twice or its file was left half read.
NamespacesAreConnections ==
    phase = "publish" => \A i \in DOMAIN jobs : \A d \in jobs[i].inputs \cup jobs[i].outputs :
                             d.ns \in NamesOf(conns) \cup {Home}

\* After a push without lost requests or answers, first or repeated, whatever the
\* others did: a scanned connection is a live stub only if the collector refused
\* it or no platform was recognised, every other refusal is explained, and the
\* lineage of every job is there, under names that have a row.
PushSettles ==
    (phase = "publish" /\ next > Len(told) /\ \A i \in DOMAIN told : told[i] # "lost") =>
        /\ \A i \in DOMAIN conns :
              LET c == conns[i]
                  row == table[c.name]
              IN  /\ told[i] = "422" <=> ~ValidName(c.name) \/ (c.platform \in Strict /\ c.props = "empty")
                  /\ told[i] = "500" => row.deleted
                  /\ told[i] \in {"201", "409"} =>
                         row # NULL /\ (IsStub(row) => c.platform = "unknown" \/ row.deleted)
        /\ \A i \in DOMAIN jobs : EdgesOf(jobs[i]) \subseteq edges
        /\ \A e \in edges : table[e.ns] # NULL
=============================================================================
