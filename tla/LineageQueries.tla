---------------------------- MODULE LineageQueries ----------------------------
(***************************************************************************)
(* The queries over the lineage graph: which jobs touch a connection       *)
(* (FR-1) or a dataset (FR-2), which connections are related, and the      *)
(* upstream and downstream traversals.  Each query is one SQL statement on *)
(* one snapshot of the tables, so it is an operator on the state; the FR-1 *)
(* endpoint executes three statements outside a transaction, so it is      *)
(* three steps between which events are ingested and connections deleted.  *)
(*                                                                         *)
(* A dataset is given by its namespace and its name, both sequences of the *)
(* parts between their dots.  Jobs and datasets are never deleted by the   *)
(* code and a dataset is only ever created together with an edge, so the   *)
(* edges determine both tables.                                            *)
(***************************************************************************)
EXTENDS Naturals, Sequences, FiniteSets

CONSTANTS
    Jobs,
    Datasets,    \* [ns: logical name of a connection, name: name in it]
    Registered,  \* connections an administrator registered
    Events,      \* ingested events: [job, inputs, outputs]
    Asked,       \* connections the FR-1 request may ask about
    Deletable,   \* connections that may be deleted
    Caps,        \* values of settings.max_lineage_depth
    MaxAsked,    \* upper bound of the depth parameter (20)
    NULL

Conns == Registered \cup {d.ns : d \in Datasets}

ASSUME QueriesAssumption ==
    /\ Events \subseteq [job: Jobs, inputs: SUBSET Datasets, outputs: SUBSET Datasets]
    /\ Asked \subseteq Conns /\ Deletable \subseteq Conns
    /\ Caps \subseteq Nat \ {0} /\ MaxAsked \in Nat \ {0}
    /\ NULL \notin Conns /\ NULL \notin [datasets: Nat, jobs: Nat]
    /\ IsFiniteSet(Jobs) /\ IsFiniteSet(Datasets)

VARIABLES
    edges,    \* [job, dataset, direction]
    gone,     \* soft-deleted connections
    pc,       \* of one FR-1 request: "idle", "found", "listed" or "answered"
    conn,     \* the connection it asks about
    jobs,     \* its answer: jobs with their roles ...
    summary   \* ... and the counts, NULL if the connection is gone by then

vars == <<edges, gone, pc, conn, jobs, summary>>

Edge  == [job: Jobs, dataset: Datasets, direction: {"input", "output"}]
Roles == {"reader", "writer", "both"}

TypeOK ==
    /\ edges \subseteq Edge /\ gone \subseteq Conns
    /\ pc \in {"idle", "found", "listed", "answered"}
    /\ conn \in Conns \cup {NULL}
    /\ jobs \subseteq [job: Jobs, role: Roles, datasets: Nat \ {0}]
    /\ summary \in [datasets: Nat, jobs: Nat] \cup {NULL}

Init == edges = {} /\ gone = {} /\ pc = "idle" /\ conn = NULL /\ jobs = {} /\ summary = NULL

-----------------------------------------------------------------------------
(* The tables behind the edges. *)

Fqn(d)     == d.ns \o d.name
Known      == {e.dataset : e \in edges}
Live(c)    == c \notin gone /\ (c \in Registered \/ \E d \in Known : d.ns = c)
ByFqn(fqn) == {d \in Known : Fqn(d) = fqn}

In(j)  == {e.dataset : e \in {x \in edges : x.job = j /\ x.direction = "input"}}
Out(j) == {e.dataset : e \in {x \in edges : x.job = j /\ x.direction = "output"}}

\* A bug, for mutation: a job that reads and writes is neither.
RoleOfOne(dirs) == IF dirs = {"input"} THEN "reader" ELSE IF dirs = {"output"} THEN "writer"
                   ELSE "unknown"

Role(dirs) == IF dirs = {"input", "output"} THEN "both"
              ELSE IF dirs = {"input"} THEN "reader" ELSE "writer"

\* A bug, for mutation: only the reading side is joined.
EdgesOfReaders(c) ==
    IF Live(c) THEN {e \in edges : e.dataset.ns = c /\ e.direction = "input"} ELSE {}

\* The edges of datasets of a live connection, by connection.
EdgesOf(c) == IF Live(c) THEN {e \in edges : e.dataset.ns = c} ELSE {}

JobsTouching(c) ==
    {LET mine == {e \in EdgesOf(c) : e.job = j}
     IN  [job |-> j, role |-> Role({e.direction : e \in mine}),
          datasets |-> Cardinality({e.dataset : e \in mine})]
        : j \in {e.job : e \in EdgesOf(c)}}

\* A bug, for mutation: the summary counts the writing jobs.
ImpactOfWriters(c) ==
    IF Live(c) THEN [datasets |-> Cardinality({d \in Known : d.ns = c}),
                     jobs |-> Cardinality({e.job : e \in {x \in EdgesOf(c) : x.direction = "output"}})]
               ELSE NULL

ImpactSummary(c) ==
    IF Live(c) THEN [datasets |-> Cardinality({d \in Known : d.ns = c}),
                     jobs |-> Cardinality({e.job : e \in EdgesOf(c)})]
               ELSE NULL

\* A bug, for mutation: connections of deleted rows are counted too.
RelatedToDeleted(c) ==
    LET bridging == {e.job : e \in EdgesOf(c)}
    IN  {[conn |-> o, bridges |-> Cardinality({j \in bridging : o \in {d.ns : d \in In(j) \cup Out(j)}})]
            : o \in {d.ns : d \in UNION {In(j) \cup Out(j) : j \in bridging}} \ {c}}

Related(c) ==
    LET bridging == {e.job : e \in EdgesOf(c)}
        jobsOn(o) == {j \in bridging : \E e \in EdgesOf(o) : e.job = j}
    IN  {[conn |-> o, bridges |-> Cardinality(jobsOn(o))]
            : o \in {x \in Conns \ {c} : jobsOn(x) # {}}}

JobsForDataset(fqn) ==
    LET mine == {e \in edges : e.dataset \in ByFqn(fqn)}
    IN  {[job |-> j, role |-> Role({e.direction : e \in {x \in mine : x.job = j}})]
            : j \in {e.job : e \in mine}}

-----------------------------------------------------------------------------
(* The recursive CTEs.  A row is the path it has taken and the job of each   *)
(* hop; level[n] holds the rows of depth n.                                  *)

\* A bug, for mutation: upstream follows the job's input edges as well.
FromsEither(dir, j) == IF dir = "upstream" THEN Out(j) \cup In(j) ELSE In(j)

Froms(dir, j) == IF dir = "upstream" THEN Out(j) ELSE In(j)
Tos(dir, j)   == IF dir = "upstream" THEN In(j) ELSE Out(j)

OnPath(d, row) == \E i \in DOMAIN row.path : row.path[i] = d
\* A bug, for mutation: the guard only keeps a row from standing still.
GuardedAtEnd(d, row) == d # row.path[Len(row.path)]
Guarded(d, row) == ~OnPath(d, row)

Extend(row, j, d) == [path |-> Append(row.path, d), via |-> Append(row.via, j)]

Step(dir, rows) ==
    UNION {UNION {{Extend(row, j, d) : d \in {x \in Tos(dir, j) : Guarded(x, row)}}
                     : j \in {x \in Jobs : row.path[Len(row.path)] \in Froms(dir, x)}}
              : row \in rows}

Levels(dir, fqn, depth) ==
    LET level[n \in 0..depth] ==
            IF n = 0 THEN {[path |-> <<d>>, via |-> <<>>] : d \in ByFqn(fqn)}
                     ELSE Step(dir, level[n - 1])
    IN  level

\* depth or default_lineage_depth, 0 standing for an absent parameter, capped.
DefaultDepth    == 3
Least(a, b)     == IF a <= b THEN a ELSE b
Wanted(asked)   == IF asked = 0 THEN DefaultDepth ELSE asked
\* A bug, for mutation: only the default is capped.
CappedByDefault(asked, cap) == IF asked = 0 THEN Least(DefaultDepth, cap) ELSE asked
ActualDepth(asked, cap) == Least(Wanted(asked), cap)

\* The response: a node per row, without the root.  Rows that differ only in
\* earlier hops give equal nodes, which the response repeats.
Traverse(dir, fqn, asked, cap) ==
    LET depth == ActualDepth(asked, cap)
        level == Levels(dir, fqn, depth)
    IN  UNION {{[dataset |-> row.path[n + 1], depth |-> n, via |-> row.via[n]]
                   : row \in level[n]} : n \in 1..depth}

-----------------------------------------------------------------------------
(* The tables change ... *)

\* The transaction of an event commits.
Ingest(ev) ==
    /\ edges' = edges \cup {[job |-> ev.job, dataset |-> d, direction |-> "input"] : d \in ev.inputs}
                      \cup {[job |-> ev.job, dataset |-> d, direction |-> "output"] : d \in ev.outputs}
    /\ UNCHANGED <<gone, pc, conn, jobs, summary>>

DeleteConnection(c) ==
    /\ Live(c)
    /\ gone' = gone \cup {c}
    /\ UNCHANGED <<edges, pc, conn, jobs, summary>>

(* ... while GET /search/connections/{logical_name}/jobs is answered. *)

FindConnection(c) ==
    /\ pc = "idle" /\ Live(c)
    /\ pc' = "found" /\ conn' = c
    /\ UNCHANGED <<edges, gone, jobs, summary>>

ListJobs ==
    /\ pc = "found"
    /\ pc' = "listed" /\ jobs' = JobsTouching(conn)
    /\ UNCHANGED <<edges, gone, conn, summary>>

Summarise ==
    /\ pc = "listed"
    /\ pc' = "answered" /\ summary' = ImpactSummary(conn)
    /\ UNCHANGED <<edges, gone, conn, jobs>>

Next == \/ \E ev \in Events : Ingest(ev)
        \/ \E c \in Deletable : DeleteConnection(c)
        \/ \E c \in Asked : FindConnection(c)
        \/ ListJobs \/ Summarise

Spec == Init /\ [][Next]_vars

-----------------------------------------------------------------------------
(* Correctness. *)

Directions == {"upstream", "downstream"}

\* The traversals depend on the edges alone, so what follows about them is
\* evaluated in one state per graph.
OncePerGraph == pc = "idle" /\ gone = {}

Fqns       == {Fqn(d) : d \in Known}

\* Hop distance, defined by breadth-first search rather than by paths: the
\* datasets within n hops of the roots.
Hop(dir, D) == UNION {Tos(dir, j) : j \in {x \in Jobs : Froms(dir, x) \cap D # {}}}
Ball(dir, roots, depth) ==
    LET ball[n \in 0..depth] == IF n = 0 THEN roots ELSE ball[n - 1] \cup Hop(dir, ball[n - 1])
    IN  ball

\* A traversal returns exactly the datasets within as many hops of a dataset with
\* the FQN as were asked for and as the cap allows, each one at its shortest distance
\* (and possibly at longer ones), never the dataset it started from, on every graph:
\* cycles, self-loops, shared jobs, two datasets of one FQN.
TraversalIsReachability ==
    OncePerGraph => \A fqn \in Fqns, dir \in Directions, asked \in 0..MaxAsked, cap \in Caps :
        LET nodes == Traverse(dir, fqn, asked, cap)
            ball  == [d \in ByFqn(fqn) |-> Ball(dir, {d}, cap)]
        IN  /\ \A n \in 1..cap : n <= Wanted(asked) =>
                  {x.dataset : x \in {y \in nodes : y.depth <= n}}
                      = UNION {ball[d][n] \ {d} : d \in ByFqn(fqn)}
            /\ \A x \in nodes : x.depth <= cap /\ x.depth <= Wanted(asked)

\* The recursion ends by itself, whatever max_depth: a path visits no dataset
\* twice, so there is none as long as the number of datasets.
RecursionEnds ==
    OncePerGraph => \A fqn \in Fqns, dir \in Directions :
        Levels(dir, fqn, Cardinality(Datasets))[Cardinality(Datasets)] = {}

\* d reaches e downstream in n hops exactly when e reaches d upstream in n hops,
\* also between two datasets of one FQN.
UpstreamMirrorsDownstream ==
    OncePerGraph => \A f, g \in Fqns, cap \in Caps :
        LET reaches(dir, from, to) == {x.depth : x \in {y \in Traverse(dir, from, MaxAsked, cap) :
                                                           y.dataset \in ByFqn(to)}}
        IN  reaches("downstream", f, g) = reaches("upstream", g, f)

\* The connection view and the dataset view agree: a job touches a live
\* connection when it touches one of its datasets, and the summary counts the
\* listed jobs.  Unless another dataset has the FQN of one of them, it reads
\* (writes) there when it reads (writes) one of them.
ViewsAgree ==
    \A c \in Conns : Live(c) =>
        LET datasets == {d \in Known : d.ns = c}
            roles(j) == {r \in Roles : \E d \in datasets :
                                          [job |-> j, role |-> r] \in JobsForDataset(Fqn(d))}
            ambiguous == \E d \in datasets : ByFqn(Fqn(d)) # {d}
        IN  /\ \A x \in JobsTouching(c) :
                  /\ roles(x.job) # {}
                  /\ ~ambiguous => /\ x.role = "reader" <=> roles(x.job) = {"reader"}
                                   /\ x.role = "writer" <=> roles(x.job) = {"writer"}
            /\ ~ambiguous => \A d \in datasets : \A x \in JobsForDataset(Fqn(d)) :
                  \E y \in JobsTouching(c) : x.job = y.job
            /\ ImpactSummary(c).jobs = Cardinality(JobsTouching(c))

\* If one connection is listed as related to another, with a number of bridging
\* jobs, so is the other to the one, also next to deleted connections.
RelatedIsSymmetric ==
    \A c, o \in Conns : \A n \in 1..Cardinality(Jobs) :
        [conn |-> o, bridges |-> n] \in Related(c) <=> [conn |-> c, bridges |-> n] \in Related(o)

\* The answer of FR-1 is put together from three snapshots, yet its summary
\* never counts fewer jobs than it lists, nor fewer datasets than one of them
\* touches; only a connection deleted in between leaves the list without one.
SummaryCoversJobs ==
    pc = "answered" =>
        IF summary = NULL THEN conn \in gone
        ELSE /\ summary.jobs >= Cardinality(jobs)
             /\ \A x \in jobs : summary.datasets >= x.datasets
=============================================================================
