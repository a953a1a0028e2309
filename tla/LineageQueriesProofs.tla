-------------------------- MODULE LineageQueriesProofs --------------------------
(***************************************************************************)
(* Proofs about LineageQueries: the views and the traversals are right on  *)
(* every lineage graph the events can build, for any finite sets of jobs   *)
(* and datasets, any depth limit and any deleted connections.              *)
(***************************************************************************)
EXTENDS LineageQueries, Integers, Induction, FiniteSetTheorems, SequenceTheorems, TLAPS

-----------------------------------------------------------------------------
(* What is known is finite, so it can be counted. *)

\* A part is finite and no larger than the whole.
LEMMA Counted ==
    ASSUME NEW S, NEW T, S \subseteq T, T \subseteq Jobs \/ T \subseteq Datasets
    PROVE  /\ Cardinality(S) \in Nat /\ Cardinality(T) \in Nat
           /\ Cardinality(S) <= Cardinality(T)
           /\ S # {} => Cardinality(S) # 0
<1>1. IsFiniteSet(T)
  BY QueriesAssumption, FS_Subset
<1>2. IsFiniteSet(S) /\ Cardinality(S) <= Cardinality(T)
  BY <1>1, FS_Subset
<1>3. Cardinality(S) \in Nat /\ Cardinality(T) \in Nat
  BY <1>1, <1>2, FS_CardinalityType
<1>4. S # {} => Cardinality(S) # 0
  BY <1>2, FS_EmptySet
<1> QED
  BY <1>2, <1>3, <1>4

-----------------------------------------------------------------------------
(* The views. *)

\* The datasets of a connection, and the jobs with an edge to one of them.
DatasetsOn(c) == {d \in Known : d.ns = c}
JobsOn(c)     == {e.job : e \in {x \in edges : x.dataset.ns = c}}

LEMMA OnTyped ==
    ASSUME edges \subseteq Edge
    PROVE  /\ Known \subseteq Datasets
           /\ \A c : DatasetsOn(c) \subseteq Datasets /\ JobsOn(c) \subseteq Jobs
           /\ \A d \in Known : d.ns \in Conns
BY DEF Edge, Known, DatasetsOn, JobsOn, Conns

\* One entry of the job list, as a function of the job.
Entry(c, j) ==
    LET mine == {e \in EdgesOf(c) : e.job = j}
    IN  [job |-> j, role |-> Role({e.direction : e \in mine}),
         datasets |-> Cardinality({e.dataset : e \in mine})]

\* The list has one entry per job with an edge to the connection, if it is live.
LEMMA ListIsEntries ==
    ASSUME NEW c
    PROVE  /\ JobsTouching(c) = {Entry(c, j) : j \in IF Live(c) THEN JobsOn(c) ELSE {}}
           /\ {e.job : e \in EdgesOf(c)} = IF Live(c) THEN JobsOn(c) ELSE {}
<1>1. {e.job : e \in EdgesOf(c)} = IF Live(c) THEN JobsOn(c) ELSE {}
  BY DEF EdgesOf, JobsOn
<1>2. JobsTouching(c) = {Entry(c, j) : j \in {e.job : e \in EdgesOf(c)}}
  BY DEF JobsTouching, Entry
<1> QED
  BY <1>1, <1>2

\* Each entry is typed, and counts no more datasets than the connection has.
LEMMA EntryBounds ==
    ASSUME edges \subseteq Edge, NEW c, NEW x \in JobsTouching(c)
    PROVE  /\ x \in [job: Jobs, role: Roles, datasets: Nat \ {0}]
           /\ x.job \in JobsOn(c) /\ x = Entry(c, x.job)
           /\ x.datasets <= Cardinality(DatasetsOn(c))
<1>1. PICK j \in JobsOn(c) : x = Entry(c, j) /\ Live(c)
  BY ListIsEntries
<1> DEFINE mine == {e \in EdgesOf(c) : e.job = j}
           ds   == {e.dataset : e \in mine}
<1>2. ds \subseteq DatasetsOn(c) /\ ds # {}
  <2>1. EdgesOf(c) = {e \in edges : e.dataset.ns = c}
    BY <1>1 DEF EdgesOf
  <2>2. PICK e \in edges : e.dataset.ns = c /\ e.job = j
    BY DEF JobsOn
  <2>3. e \in mine
    BY <2>1, <2>2
  <2> QED
    BY <2>1, <2>3 DEF DatasetsOn, Known
<1>3. DatasetsOn(c) \subseteq Datasets /\ j \in Jobs
  BY OnTyped
<1>4. /\ Cardinality(ds) \in Nat /\ Cardinality(ds) # 0
      /\ Cardinality(ds) <= Cardinality(DatasetsOn(c))
  BY <1>2, <1>3, Counted
<1>5. Role({e.direction : e \in mine}) \in Roles
  BY DEF Role, Roles
<1>6. x = [job |-> j, role |-> Role({e.direction : e \in mine}), datasets |-> Cardinality(ds)]
  BY <1>1 DEF Entry
<1> HIDE DEF mine, ds
<1>7. x.job = j /\ x.datasets = Cardinality(ds) /\ x = Entry(c, x.job)
  <2>1. x.job = j /\ x.datasets = Cardinality(ds)
    BY <1>6
  <2> QED
    BY <1>1, <2>1
<1>8. Cardinality(ds) \in Nat \ {0}
  BY <1>4
<1>9. x \in [job: Jobs, role: Roles, datasets: Nat \ {0}]
  BY <1>3, <1>5, <1>6, <1>8
<1> QED
  BY <1>4, <1>7, <1>9

\* There are as many entries as jobs.
LEMMA EntriesCounted ==
    ASSUME edges \subseteq Edge, NEW c, Live(c)
    PROVE  /\ IsFiniteSet(JobsOn(c)) /\ IsFiniteSet(JobsTouching(c))
           /\ Cardinality(JobsTouching(c)) = Cardinality(JobsOn(c))
<1> DEFINE f == [j \in JobsOn(c) |-> Entry(c, j)]
<1>1. IsFiniteSet(JobsOn(c))
  BY OnTyped, QueriesAssumption, FS_Subset
<1>2. \A j \in JobsOn(c) : f[j].job = j
  BY DEF Entry
<1>3. JobsTouching(c) = {f[j] : j \in JobsOn(c)}
  BY ListIsEntries
<1>4. f \in Bijection(JobsOn(c), JobsTouching(c))
  <2>1. f \in [JobsOn(c) -> JobsTouching(c)]
    BY <1>3
  <2>2. \A i, j \in JobsOn(c) : f[i] = f[j] => i = j
    BY <1>2
  <2>3. \A x \in JobsTouching(c) : \E j \in JobsOn(c) : f[j] = x
    BY <1>3
  <2> HIDE DEF f
  <2>4. f \in Injection(JobsOn(c), JobsTouching(c))
    BY <2>1, <2>2 DEF Injection, IsInjective
  <2>5. f \in Surjection(JobsOn(c), JobsTouching(c))
    BY <2>1, <2>3 DEF Surjection
  <2> QED
    BY <2>4, <2>5 DEF Bijection
<1>5. ExistsBijection(JobsOn(c), JobsTouching(c))
  BY <1>4 DEF ExistsBijection
<1> QED
  BY <1>1, <1>5, FS_Bijection

-----------------------------------------------------------------------------
(* The FR-1 request and the changes around it. *)

LEMMA IngestTyped ==
    ASSUME edges \subseteq Edge, NEW ev \in Events, Ingest(ev)
    PROVE  edges' \subseteq Edge
<1>1. ev.job \in Jobs /\ ev.inputs \subseteq Datasets /\ ev.outputs \subseteq Datasets
  BY QueriesAssumption
<1> QED
  BY <1>1 DEF Ingest, Edge

LEMMA SummaryTyped ==
    ASSUME edges \subseteq Edge, NEW c
    PROVE  /\ ImpactSummary(c) \in [datasets: Nat, jobs: Nat] \cup {NULL}
           /\ ImpactSummary(c) = IF Live(c) THEN [datasets |-> Cardinality(DatasetsOn(c)),
                                                  jobs |-> Cardinality(JobsOn(c))] ELSE NULL
<1>1. Cardinality(DatasetsOn(c)) \in Nat /\ Cardinality(JobsOn(c)) \in Nat
  BY OnTyped, Counted
<1>2. ImpactSummary(c) = IF Live(c) THEN [datasets |-> Cardinality(DatasetsOn(c)),
                                          jobs |-> Cardinality(JobsOn(c))] ELSE NULL
  BY ListIsEntries DEF ImpactSummary, DatasetsOn
<1> QED
  BY <1>1, <1>2

LEMMA StepKeepsTypes == ASSUME TypeOK, [Next]_vars PROVE TypeOK'
<1> USE DEF TypeOK
<1>1. ASSUME NEW ev \in Events, Ingest(ev) PROVE TypeOK'
  BY <1>1, IngestTyped DEF Ingest
<1>2. ASSUME NEW c \in Deletable, DeleteConnection(c) PROVE TypeOK'
  BY <1>2, QueriesAssumption DEF DeleteConnection
<1>3. ASSUME NEW c \in Asked, FindConnection(c) PROVE TypeOK'
  BY <1>3, QueriesAssumption DEF FindConnection
<1>4. CASE ListJobs
  <2>1. JobsTouching(conn) \subseteq [job: Jobs, role: Roles, datasets: Nat \ {0}]
    BY EntryBounds
  <2> QED
    BY <1>4, <2>1 DEF ListJobs
<1>5. CASE Summarise
  BY <1>5, SummaryTyped DEF Summarise
<1>6. CASE UNCHANGED vars
  BY <1>6 DEF vars
<1> QED
  BY <1>1, <1>2, <1>3, <1>4, <1>5, <1>6 DEF Next

\* The answer's lists, counts and roles stay within their ranges: no job is
\* listed without a dataset, and no count is of an infinite set.
THEOREM TypeCorrect == Spec => []TypeOK
<1>1. Init => TypeOK
  BY DEF Init, TypeOK
<1>2. TypeOK /\ [Next]_vars => TypeOK'
  BY StepKeepsTypes
<1> QED
  BY <1>1, <1>2, PTL DEF Spec

\* What was listed stays covered by the tables, which only grow: the connection
\* that was found still has a row, and what is on it has not become less.
RequestInv ==
    /\ pc # "idle" => conn \in Registered \/ DatasetsOn(conn) # {}
    /\ IsFiniteSet(jobs)
    /\ pc = "listed" => /\ Cardinality(jobs) <= Cardinality(JobsOn(conn))
                        /\ \A x \in jobs : x.datasets <= Cardinality(DatasetsOn(conn))
    /\ SummaryCoversJobs

LEMMA EdgesOnlyGrow ==
    ASSUME TypeOK, [Next]_vars
    PROVE  edges \subseteq edges' /\ gone \subseteq gone'
BY DEF Next, vars, Ingest, DeleteConnection, FindConnection, ListJobs, Summarise

LEMMA StepKeepsRequest == ASSUME TypeOK, RequestInv, [Next]_vars PROVE RequestInv'
<1>1. edges \subseteq edges' /\ gone \subseteq gone' /\ edges \subseteq Edge /\ edges' \subseteq Edge
  BY EdgesOnlyGrow, StepKeepsTypes DEF TypeOK
<1>2. ASSUME UNCHANGED conn
      PROVE  /\ DatasetsOn(conn) \subseteq DatasetsOn(conn)' /\ DatasetsOn(conn)' \subseteq Datasets
             /\ JobsOn(conn) \subseteq JobsOn(conn)' /\ JobsOn(conn)' \subseteq Jobs
  BY <1>1, <1>2 DEF DatasetsOn, JobsOn, Known, Edge
<1>3. ASSUME UNCHANGED conn
      PROVE  /\ Cardinality(DatasetsOn(conn)) \in Nat /\ Cardinality(DatasetsOn(conn)') \in Nat
             /\ Cardinality(DatasetsOn(conn)) <= Cardinality(DatasetsOn(conn)')
             /\ Cardinality(JobsOn(conn)) \in Nat /\ Cardinality(JobsOn(conn)') \in Nat
             /\ Cardinality(JobsOn(conn)) <= Cardinality(JobsOn(conn)')
  BY <1>2, <1>3, Counted
<1>4. ASSUME UNCHANGED <<pc, conn, jobs, summary>> PROVE RequestInv'
  <2>1. Cardinality(jobs) \in Nat /\ \A x \in jobs : x.datasets \in Nat
    BY FS_CardinalityType DEF RequestInv, TypeOK
  <2>2. (pc # "idle" => conn \in Registered \/ DatasetsOn(conn) # {})' /\ IsFiniteSet(jobs')
    BY <1>2, <1>4 DEF RequestInv
  <2>3. (pc = "listed" => /\ Cardinality(jobs) <= Cardinality(JobsOn(conn))
                          /\ \A x \in jobs : x.datasets <= Cardinality(DatasetsOn(conn)))'
    BY <1>3, <1>4, <2>1 DEF RequestInv
  <2>4. SummaryCoversJobs'
    BY <1>1, <1>4 DEF RequestInv, SummaryCoversJobs
  <2> QED
    BY <2>2, <2>3, <2>4 DEF RequestInv
<1>5. ASSUME NEW c \in Asked, FindConnection(c) PROVE RequestInv'
  <2>1. c \in Registered \/ DatasetsOn(c) # {}
    BY <1>5 DEF FindConnection, Live, DatasetsOn
  <2>2. pc' = "found" /\ conn' = c /\ jobs' = jobs /\ edges' = edges
    BY <1>5 DEF FindConnection
  <2>3. (conn \in Registered \/ DatasetsOn(conn) # {})'
    BY <2>1, <2>2 DEF DatasetsOn, Known
  <2> QED
    BY <2>2, <2>3 DEF RequestInv, SummaryCoversJobs
<1>6. CASE ListJobs
  <2>1. /\ pc = "found" /\ pc' = "listed" /\ jobs' = JobsTouching(conn)
        /\ UNCHANGED <<edges, gone, conn, summary>>
    BY <1>6 DEF ListJobs
  <2>2. DatasetsOn(conn)' = DatasetsOn(conn) /\ JobsOn(conn)' = JobsOn(conn)
    BY <2>1 DEF DatasetsOn, JobsOn, Known
  <2>3. IsFiniteSet(jobs') /\ Cardinality(jobs') <= Cardinality(JobsOn(conn))
    <3>1. CASE Live(conn)
      <4>1. IsFiniteSet(JobsOn(conn)) /\ Cardinality(jobs') = Cardinality(JobsOn(conn))
        BY <1>1, <2>1, <3>1, EntriesCounted
      <4>2. Cardinality(JobsOn(conn)) \in Nat
        BY <4>1, FS_CardinalityType
      <4>3. IsFiniteSet(jobs')
        BY <1>1, <2>1, <3>1, EntriesCounted
      <4> QED
        BY <4>1, <4>2, <4>3
    <3>2. CASE ~Live(conn)
      <4>1. jobs' = {}
        BY <2>1, <3>2, ListIsEntries
      <4> QED
        BY <1>3, <2>1, <4>1, FS_EmptySet
    <3> QED
      BY <3>1, <3>2
  <2>4. \A x \in jobs' : x.datasets <= Cardinality(DatasetsOn(conn))
    BY <1>1, <2>1, EntryBounds
  <2>5. SummaryCoversJobs'
    BY <2>1 DEF SummaryCoversJobs
  <2> QED
    BY <2>1, <2>2, <2>3, <2>4, <2>5 DEF RequestInv
<1>7. CASE Summarise
  <2>1. /\ pc = "listed" /\ pc' = "answered" /\ summary' = ImpactSummary(conn)
        /\ UNCHANGED <<edges, gone, conn, jobs>>
    BY <1>7 DEF Summarise
  <2>2. DatasetsOn(conn)' = DatasetsOn(conn)
    BY <2>1 DEF DatasetsOn, Known
  <2>3. CASE Live(conn)
    <3>1. summary' = [datasets |-> Cardinality(DatasetsOn(conn)), jobs |-> Cardinality(JobsOn(conn))]
      BY <1>1, <2>1, <2>3, SummaryTyped
    <3>2. summary' # NULL
      BY <1>3, <2>1, <3>1, QueriesAssumption
    <3> QED
      BY <1>3, <2>1, <2>2, <3>1, <3>2, FS_CardinalityType DEF RequestInv, SummaryCoversJobs, TypeOK
  <2>4. CASE ~Live(conn)
    <3>1. summary' = NULL /\ conn \in gone
      BY <1>1, <2>1, <2>4, SummaryTyped DEF RequestInv, Live, DatasetsOn
    <3> QED
      BY <2>1, <2>2, <3>1 DEF RequestInv, SummaryCoversJobs
  <2> QED
    BY <2>3, <2>4
<1>8. ASSUME NEW ev \in Events, Ingest(ev) PROVE RequestInv'
  BY <1>4, <1>8 DEF Ingest
<1>9. ASSUME NEW c \in Deletable, DeleteConnection(c) PROVE RequestInv'
  BY <1>4, <1>9 DEF DeleteConnection
<1>10. CASE UNCHANGED vars
  BY <1>4, <1>10 DEF vars
<1> QED
  BY <1>5, <1>6, <1>7, <1>8, <1>9, <1>10 DEF Next

\* The three statements of FR-1 see three snapshots, yet the counts never fall
\* short of the list, and they are missing only if the connection was deleted.
THEOREM SummaryIsNeverShort == Spec => []SummaryCoversJobs
<1>1. Init => RequestInv
  BY FS_EmptySet DEF Init, RequestInv, SummaryCoversJobs
<1>2. TypeOK /\ RequestInv /\ [Next]_vars => RequestInv'
  BY StepKeepsRequest
<1>3. RequestInv => SummaryCoversJobs
  BY DEF RequestInv
<1> QED
  BY <1>1, <1>2, <1>3, TypeCorrect, PTL DEF Spec

-----------------------------------------------------------------------------
(* The views agree. *)

\* The jobs two connections share are the same from both ends.
LEMMA RelatedByJobs ==
    ASSUME NEW c \in Conns, NEW o, NEW n
    PROVE  [conn |-> o, bridges |-> n] \in Related(c) <=>
              LET shared == {e.job : e \in EdgesOf(c)} \cap {e.job : e \in EdgesOf(o)}
              IN  o \in Conns \ {c} /\ shared # {} /\ n = Cardinality(shared)
<1> DEFINE bridging  == {e.job : e \in EdgesOf(c)}
           jobsOn(x) == {j \in bridging : \E e \in EdgesOf(x) : e.job = j}
<1>1. Related(c) = {[conn |-> x, bridges |-> Cardinality(jobsOn(x))]
                       : x \in {y \in Conns \ {c} : jobsOn(y) # {}}}
  BY DEF Related
<1>2. \A x : jobsOn(x) = bridging \cap {e.job : e \in EdgesOf(x)}
  OBVIOUS
<1> HIDE DEF jobsOn
<1>3. [conn |-> o, bridges |-> n] \in Related(c) <=>
         \E x \in Conns \ {c} : jobsOn(x) # {} /\ x = o /\ n = Cardinality(jobsOn(x))
  BY <1>1
<1>4. [conn |-> o, bridges |-> n] \in Related(c) <=>
         o \in Conns \ {c} /\ jobsOn(o) # {} /\ n = Cardinality(jobsOn(o))
  BY <1>3
<1> QED
  BY <1>2, <1>4

\* Being related is symmetric, with the same number of bridging jobs.
THEOREM RelatedBothWays == Spec => []RelatedIsSymmetric
<1>1. RelatedIsSymmetric
  <2> SUFFICES ASSUME NEW c \in Conns, NEW o \in Conns, NEW n
               PROVE  [conn |-> o, bridges |-> n] \in Related(c)
                         <=> [conn |-> c, bridges |-> n] \in Related(o)
    BY DEF RelatedIsSymmetric
  <2> DEFINE Jc == {e.job : e \in EdgesOf(c)}
             Jo == {e.job : e \in EdgesOf(o)}
  <2>1. [conn |-> o, bridges |-> n] \in Related(c) <=>
           o \in Conns \ {c} /\ Jc \cap Jo # {} /\ n = Cardinality(Jc \cap Jo)
    BY RelatedByJobs
  <2>2. [conn |-> c, bridges |-> n] \in Related(o) <=>
           c \in Conns \ {o} /\ Jo \cap Jc # {} /\ n = Cardinality(Jo \cap Jc)
    BY RelatedByJobs
  <2>3. Jc \cap Jo = Jo \cap Jc
    OBVIOUS
  <2> HIDE DEF Jc, Jo
  <2> QED
    BY <2>1, <2>2, <2>3
<1> QED
  BY <1>1, PTL

\* The dataset view lists a job of the dataset's edges with its role there.
DirsOn(j, d) == {e.direction : e \in {x \in edges : x.job = j /\ x.dataset = d}}

LEMMA DatasetViewOf ==
    ASSUME NEW d \in Known, ByFqn(Fqn(d)) = {d}, NEW j, NEW r
    PROVE  [job |-> j, role |-> r] \in JobsForDataset(Fqn(d))
              <=> DirsOn(j, d) # {} /\ r = Role(DirsOn(j, d))
<1> DEFINE mine == {e \in edges : e.dataset = d}
<1>1. JobsForDataset(Fqn(d)) =
         {[job |-> i, role |-> Role({e.direction : e \in {x \in mine : x.job = i}})]
             : i \in {e.job : e \in mine}}
  BY DEF JobsForDataset
<1>2. \A i : {e.direction : e \in {x \in mine : x.job = i}} = DirsOn(i, d)
  BY DEF DirsOn
<1>3. \A i : i \in {e.job : e \in mine} <=> DirsOn(i, d) # {}
  BY DEF DirsOn
<1>4. JobsForDataset(Fqn(d)) = {[job |-> i, role |-> Role(DirsOn(i, d))] : i \in {e.job : e \in mine}}
  BY <1>1, <1>2
<1> HIDE DEF mine
<1> QED
  BY <1>3, <1>4

\* Every job that touches a known dataset is listed by the dataset's view.
LEMMA DatasetViewLists ==
    ASSUME NEW e \in edges
    PROVE  \E r \in Roles : [job |-> e.job, role |-> r] \in JobsForDataset(Fqn(e.dataset))
<1> DEFINE mine == {x \in edges : x.dataset \in ByFqn(Fqn(e.dataset))}
           r    == Role({x.direction : x \in {y \in mine : y.job = e.job}})
<1>1. e \in mine
  BY DEF ByFqn, Known
<1>2. [job |-> e.job, role |-> r] \in JobsForDataset(Fqn(e.dataset))
  BY <1>1 DEF JobsForDataset
<1>3. r \in Roles
  BY DEF Role, Roles
<1> QED
  BY <1>2, <1>3

\* The roles of a job by directions.
LEMMA RoleIs ==
    ASSUME NEW D, D \subseteq {"input", "output"}, D # {}
    PROVE  /\ Role(D) = "reader" <=> D = {"input"}
           /\ Role(D) = "writer" <=> D = {"output"}
           /\ Role(D) \in Roles
<1>1. D \in {{"input"}, {"output"}, {"input", "output"}}
  OBVIOUS
<1> QED
  BY <1>1 DEF Role, Roles

\* One direction only at the connection is that direction at every dataset.
LEMMA OneDirection ==
    ASSUME edges \subseteq Edge, NEW c, Live(c), NEW j \in JobsOn(c), NEW role \in {"reader", "writer"},
           \A d \in DatasetsOn(c) : ByFqn(Fqn(d)) = {d}
    PROVE  Entry(c, j).role = role <=>
              {r \in Roles : \E d \in DatasetsOn(c) :
                                [job |-> j, role |-> r] \in JobsForDataset(Fqn(d))} = {role}
<1> DEFINE dir   == IF role = "reader" THEN "input" ELSE "output"
           dirs  == {e.direction : e \in {x \in EdgesOf(c) : x.job = j}}
           roles == {r \in Roles : \E d \in DatasetsOn(c) :
                                      [job |-> j, role |-> r] \in JobsForDataset(Fqn(d))}
           mine  == {x \in edges : x.dataset.ns = c /\ x.job = j}
<1>1. EdgesOf(c) = {e \in edges : e.dataset.ns = c}
  BY DEF EdgesOf
<1>2. dirs = {e.direction : e \in mine}
  BY <1>1
<1>3. dirs \subseteq {"input", "output"} /\ dirs # {}
  BY <1>2 DEF Edge, JobsOn
<1>4. Entry(c, j).role = Role(dirs)
  BY DEF Entry
<1>5. \A d \in DatasetsOn(c) : DirsOn(j, d) = {e.direction : e \in {x \in mine : x.dataset = d}}
  BY DEF DirsOn, DatasetsOn
<1>6. \A d \in DatasetsOn(c) : DirsOn(j, d) \subseteq {"input", "output"}
  BY DEF DirsOn, Edge
<1>7. roles = {Role(DirsOn(j, d)) : d \in {x \in DatasetsOn(c) : DirsOn(j, x) # {}}}
  <2>1. ASSUME NEW d \in DatasetsOn(c), NEW r
        PROVE  [job |-> j, role |-> r] \in JobsForDataset(Fqn(d))
                  <=> DirsOn(j, d) # {} /\ r = Role(DirsOn(j, d))
    BY DatasetViewOf DEF DatasetsOn
  <2>2. \A d \in DatasetsOn(c) : DirsOn(j, d) # {} => Role(DirsOn(j, d)) \in Roles
    BY <1>6, RoleIs
  <2> QED
    BY <2>1, <2>2
<1>8. \A e \in mine : e.dataset \in DatasetsOn(c) /\ e.direction \in DirsOn(j, e.dataset)
  BY DEF DatasetsOn, Known, DirsOn
<1> HIDE DEF roles
<1>9. dirs = {dir} => roles = {role}
  <2> SUFFICES ASSUME dirs = {dir} PROVE roles = {role}
    OBVIOUS
  <2>1. \A d \in DatasetsOn(c) : DirsOn(j, d) # {} => DirsOn(j, d) = {dir}
    BY <1>2, <1>5
  <2>2. \A d \in DatasetsOn(c) : DirsOn(j, d) # {} => Role(DirsOn(j, d)) = role
    BY <2>1, RoleIs
  <2>3. \E d \in DatasetsOn(c) : DirsOn(j, d) # {}
    BY <1>2, <1>3, <1>8
  <2> HIDE DEF dirs, mine
  <2> QED
    BY <1>7, <2>2, <2>3
<1>10. roles = {role} => dirs = {dir}
  <2> SUFFICES ASSUME roles = {role} PROVE dirs = {dir}
    OBVIOUS
  <2>1. \A d \in DatasetsOn(c) : DirsOn(j, d) # {} => Role(DirsOn(j, d)) = role
    BY <1>7
  <2>2. \A d \in DatasetsOn(c) : DirsOn(j, d) # {} => DirsOn(j, d) = {dir}
    BY <1>6, <2>1, RoleIs
  <2>3. \A e \in mine : e.direction = dir
    BY <1>8, <2>2
  <2> QED
    BY <1>2, <1>3, <2>3
<1>11. Role(dirs) = role <=> dirs = {dir}
  BY <1>3, RoleIs
<1> QED
  BY <1>4, <1>9, <1>10, <1>11 DEF roles

\* The connection view, the dataset view and the summary agree on every graph.
THEOREM ViewsAlwaysAgree == Spec => []ViewsAgree
<1>1. TypeOK => ViewsAgree
  <2> SUFFICES ASSUME edges \subseteq Edge, NEW c \in Conns, Live(c)
               PROVE  LET datasets == {d \in Known : d.ns = c}
                          roles(j) == {r \in Roles : \E d \in datasets :
                                        [job |-> j, role |-> r] \in JobsForDataset(Fqn(d))}
                          ambiguous == \E d \in datasets : ByFqn(Fqn(d)) # {d}
                      IN  /\ \A x \in JobsTouching(c) :
                                /\ roles(x.job) # {}
                                /\ ~ambiguous => /\ x.role = "reader" <=> roles(x.job) = {"reader"}
                                                 /\ x.role = "writer" <=> roles(x.job) = {"writer"}
                          /\ ~ambiguous => \A d \in datasets : \A x \in JobsForDataset(Fqn(d)) :
                                \E y \in JobsTouching(c) : x.job = y.job
                          /\ ImpactSummary(c).jobs = Cardinality(JobsTouching(c))
    BY DEF ViewsAgree, TypeOK
  <2> DEFINE roles(j)  == {r \in Roles : \E d \in DatasetsOn(c) :
                              [job |-> j, role |-> r] \in JobsForDataset(Fqn(d))}
             ambiguous == \E d \in DatasetsOn(c) : ByFqn(Fqn(d)) # {d}
  <2>1. ASSUME NEW x \in JobsTouching(c)
        PROVE  /\ roles(x.job) # {}
               /\ ~ambiguous => /\ x.role = "reader" <=> roles(x.job) = {"reader"}
                                /\ x.role = "writer" <=> roles(x.job) = {"writer"}
    <3>1. x.job \in JobsOn(c) /\ x = Entry(c, x.job)
      BY EntryBounds
    <3>2. PICK e \in edges : e.job = x.job /\ e.dataset.ns = c
      BY <3>1 DEF JobsOn
    <3>3. \E r \in Roles : [job |-> x.job, role |-> r] \in JobsForDataset(Fqn(e.dataset))
      BY <3>2, DatasetViewLists
    <3>4. e.dataset \in DatasetsOn(c)
      BY <3>2 DEF DatasetsOn, Known
    <3>5. roles(x.job) # {}
      BY <3>3, <3>4
    <3>6. ASSUME ~ambiguous
          PROVE  /\ x.role = "reader" <=> roles(x.job) = {"reader"}
                 /\ x.role = "writer" <=> roles(x.job) = {"writer"}
      <4> DEFINE j == x.job
      <4>0. j \in JobsOn(c) /\ \A d \in DatasetsOn(c) : ByFqn(Fqn(d)) = {d}
        BY <3>1, <3>6
      <4> HIDE DEF j
      <4>1. Entry(c, j).role = "reader" <=> roles(j) = {"reader"}
        BY <4>0, OneDirection
      <4>2. Entry(c, j).role = "writer" <=> roles(j) = {"writer"}
        BY <4>0, OneDirection
      <4> QED
        BY <3>1, <4>1, <4>2 DEF j
    <3> QED
      BY <3>5, <3>6
  <2>2. ASSUME ~ambiguous, NEW d \in DatasetsOn(c), NEW x \in JobsForDataset(Fqn(d))
        PROVE  \E y \in JobsTouching(c) : x.job = y.job
    <3>1. PICK e \in edges : e.dataset \in ByFqn(Fqn(d)) /\ e.job = x.job
      <4> DEFINE mine    == {e \in edges : e.dataset \in ByFqn(Fqn(d))}
                 role(j) == Role({e.direction : e \in {y \in mine : y.job = j}})
      <4>1. JobsForDataset(Fqn(d)) = {[job |-> j, role |-> role(j)] : j \in {e.job : e \in mine}}
        BY DEF JobsForDataset
      <4> HIDE DEF role
      <4>2. PICK j \in {e.job : e \in mine} : x = [job |-> j, role |-> role(j)]
        BY <4>1
      <4>3. x.job = j
        BY <4>2
      <4> QED
        BY <4>3
    <3>2. e.dataset = d /\ d.ns = c
      BY <2>2, <3>1 DEF DatasetsOn
    <3>3. x.job \in JobsOn(c)
      BY <3>1, <3>2 DEF JobsOn
    <3>4. Entry(c, x.job) \in JobsTouching(c) /\ Entry(c, x.job).job = x.job
      BY <3>3, ListIsEntries DEF Entry
    <3> QED
      BY <3>4
  <2>3. ImpactSummary(c).jobs = Cardinality(JobsTouching(c))
    BY SummaryTyped, EntriesCounted
  <2> QED
    BY <2>1, <2>2, <2>3 DEF DatasetsOn
<1> QED
  BY <1>1, TypeCorrect, PTL

-----------------------------------------------------------------------------
(* The traversals.  A row of depth n is a walk of n hops that visits no      *)
(* dataset twice; level n holds all of them.                                 *)

Walks(dir, roots, n) ==
    {row \in [path: [1 .. n + 1 -> Datasets], via: [1 .. n -> Jobs]] :
        /\ row.path[1] \in roots
        /\ \A i, k \in 1 .. n + 1 : row.path[i] = row.path[k] => i = k
        /\ \A i \in 1 .. n : /\ row.path[i] \in Froms(dir, row.via[i])
                             /\ row.path[i + 1] \in Tos(dir, row.via[i])}

\* The walk's first n hops.
Prefix(row, n) == [path |-> [i \in 1 .. n + 1 |-> row.path[i]], via |-> [i \in 1 .. n |-> row.via[i]]]

\* t is s, a function on 1 .. n, with x at n + 1.
IsAppend(t, s, n, x, S) ==
    t \in [1 .. n + 1 -> S] /\ \A i \in 1 .. n + 1 : t[i] = IF i = n + 1 THEN x ELSE s[i]

LEMMA AppendIsFunction ==
    ASSUME NEW S, NEW n \in Nat, NEW s \in [1 .. n -> S], NEW x \in S
    PROVE  IsAppend(Append(s, x), s, n, x, S)
<1>1. s \in Seq(S) /\ Len(s) = n
  OBVIOUS
<1>2. Append(s, x) \in Seq(S) /\ Len(Append(s, x)) = n + 1
  BY <1>1
<1>3. Append(s, x) \in [1 .. n + 1 -> S]
  BY <1>2, LenProperties
<1>4. \A i \in 1 .. n + 1 : Append(s, x)[i] = IF i = n + 1 THEN x ELSE s[i]
  BY <1>1
<1> QED
  BY <1>3, <1>4 DEF IsAppend

LEMMA NeighboursTyped ==
    ASSUME edges \subseteq Edge, NEW dir, NEW j
    PROVE  Froms(dir, j) \subseteq Datasets /\ Tos(dir, j) \subseteq Datasets
BY DEF Edge, Froms, Tos, In, Out

\* A walk that goes one hop further, to a dataset it has not visited.
LEMMA WalkExtends ==
    ASSUME edges \subseteq Edge, NEW dir, NEW roots, NEW n \in Nat, NEW row \in Walks(dir, roots, n),
           NEW j \in Jobs, row.path[n + 1] \in Froms(dir, j),
           NEW d \in Tos(dir, j), \A i \in 1 .. n + 1 : row.path[i] # d
    PROVE  /\ Extend(row, j, d) \in Walks(dir, roots, n + 1)
           /\ Extend(row, j, d).path[(n + 1) + 1] = d
<1> DEFINE p == Append(row.path, d)
           v == Append(row.via, j)
<1>1. row.path \in [1 .. n + 1 -> Datasets] /\ row.via \in [1 .. n -> Jobs] /\ d \in Datasets
  BY NeighboursTyped DEF Walks
<1>2. n + 1 \in Nat
  OBVIOUS
<1>3. /\ p \in [1 .. (n + 1) + 1 -> Datasets]
      /\ \A i \in 1 .. (n + 1) + 1 : p[i] = IF i = (n + 1) + 1 THEN d ELSE row.path[i]
  <2> DEFINE q == row.path
             m == n + 1
  <2>1. m \in Nat /\ q \in [1 .. m -> Datasets] /\ d \in Datasets
    BY <1>1
  <2> HIDE DEF q, m
  <2>2. IsAppend(Append(q, d), q, m, d, Datasets)
    BY <2>1, AppendIsFunction
  <2> QED
    BY <2>2 DEF q, m, IsAppend
<1>4. /\ v \in [1 .. n + 1 -> Jobs]
      /\ \A i \in 1 .. n + 1 : v[i] = IF i = n + 1 THEN j ELSE row.via[i]
  <2> DEFINE q == row.via
  <2>1. q \in [1 .. n -> Jobs]
    BY <1>1
  <2> HIDE DEF q
  <2>2. IsAppend(Append(q, j), q, n, j, Jobs)
    BY <2>1, AppendIsFunction
  <2> QED
    BY <2>2 DEF q, IsAppend
<1> HIDE DEF p, v
<1>5. p[1] \in roots /\ p[(n + 1) + 1] = d
  BY <1>3 DEF Walks
<1>6. \A i, k \in 1 .. (n + 1) + 1 : p[i] = p[k] => i = k
  <2>1. \A i \in 1 .. (n + 1) + 1 : i = (n + 1) + 1 \/ i \in 1 .. n + 1
    OBVIOUS
  <2>2. \A i \in 1 .. n + 1 : p[i] = row.path[i] /\ p[i] # d
    BY <1>3
  <2>3. \A i, k \in 1 .. n + 1 : row.path[i] = row.path[k] => i = k
    BY DEF Walks
  <2> QED
    BY <1>5, <2>1, <2>2, <2>3
<1>7. ASSUME NEW i \in 1 .. n + 1 PROVE p[i] \in Froms(dir, v[i]) /\ p[i + 1] \in Tos(dir, v[i])
  <2>1. CASE i = n + 1
    BY <1>3, <1>4, <1>5, <2>1
  <2>2. CASE i # n + 1
    <3>1. i \in 1 .. n /\ i + 1 \in 1 .. n + 1
      BY <2>2
    <3>2. p[i] = row.path[i] /\ p[i + 1] = row.path[i + 1] /\ v[i] = row.via[i]
      BY <1>3, <1>4, <3>1
    <3> QED
      BY <3>1, <3>2 DEF Walks
  <2> QED
    BY <2>1, <2>2
<1>8. [path |-> p, via |-> v] \in Walks(dir, roots, n + 1)
  BY <1>3, <1>4, <1>5, <1>6, <1>7 DEF Walks
<1>9. Extend(row, j, d) = [path |-> p, via |-> v]
  BY DEF Extend, p, v
<1> QED
  BY <1>5, <1>8, <1>9

\* A part of a walk from its start is a walk.
LEMMA PrefixIsWalk ==
    ASSUME NEW dir, NEW roots, NEW m \in Nat, NEW n \in 0 .. m, NEW row \in Walks(dir, roots, m)
    PROVE  Prefix(row, n) \in Walks(dir, roots, n) /\ Prefix(row, n).path[n + 1] = row.path[n + 1]
<1> DEFINE p == [i \in 1 .. n + 1 |-> row.path[i]]
           v == [i \in 1 .. n |-> row.via[i]]
<1>1. /\ row.path \in [1 .. m + 1 -> Datasets] /\ row.via \in [1 .. m -> Jobs]
      /\ row.path[1] \in roots
      /\ \A i, k \in 1 .. m + 1 : row.path[i] = row.path[k] => i = k
      /\ \A i \in 1 .. m : /\ row.path[i] \in Froms(dir, row.via[i])
                           /\ row.path[i + 1] \in Tos(dir, row.via[i])
  BY DEF Walks
<1>2. 1 .. n + 1 \subseteq 1 .. m + 1 /\ 1 .. n \subseteq 1 .. m /\ 1 \in 1 .. n + 1 /\ n + 1 \in 1 .. n + 1
  OBVIOUS
<1>3. \A i \in 1 .. n : i \in 1 .. n + 1 /\ i + 1 \in 1 .. n + 1
  OBVIOUS
<1>4. /\ p \in [1 .. n + 1 -> Datasets] /\ v \in [1 .. n -> Jobs]
      /\ \A i \in 1 .. n + 1 : p[i] = row.path[i]
      /\ \A i \in 1 .. n : v[i] = row.via[i]
  BY <1>1, <1>2
<1> HIDE DEF p, v
<1>5. [path |-> p, via |-> v] \in Walks(dir, roots, n)
  BY <1>1, <1>2, <1>3, <1>4 DEF Walks
<1>6. Prefix(row, n) = [path |-> p, via |-> v]
  BY DEF Prefix, p, v
<1> QED
  BY <1>2, <1>4, <1>5, <1>6

\* A walk of n + 1 hops is a walk of n hops and a last hop.
LEMMA WalkSplits ==
    ASSUME NEW dir, NEW roots, NEW n \in Nat, NEW row \in Walks(dir, roots, n + 1)
    PROVE  \E j \in Jobs, d \in Datasets :
              /\ Prefix(row, n) \in Walks(dir, roots, n)
              /\ Prefix(row, n).path[n + 1] \in Froms(dir, j)
              /\ d \in Tos(dir, j) /\ d = row.path[(n + 1) + 1]
              /\ \A i \in 1 .. n + 1 : Prefix(row, n).path[i] # d
              /\ row = Extend(Prefix(row, n), j, d)
<1> DEFINE p == Prefix(row, n).path
           v == Prefix(row, n).via
           j == row.via[n + 1]
           d == row.path[(n + 1) + 1]
<1>1. /\ row = [path |-> row.path, via |-> row.via]
      /\ row.path \in [1 .. (n + 1) + 1 -> Datasets] /\ row.via \in [1 .. n + 1 -> Jobs]
      /\ \A i, k \in 1 .. (n + 1) + 1 : row.path[i] = row.path[k] => i = k
      /\ \A i \in 1 .. n + 1 : /\ row.path[i] \in Froms(dir, row.via[i])
                               /\ row.path[i + 1] \in Tos(dir, row.via[i])
  BY DEF Walks
<1>2. n + 1 \in Nat /\ n \in 0 .. n + 1 /\ n + 1 \in 1 .. n + 1 /\ (n + 1) + 1 \in 1 .. (n + 1) + 1
  OBVIOUS
<1>3. Prefix(row, n) \in Walks(dir, roots, n)
  BY <1>2, PrefixIsWalk
<1>4. /\ \A i \in 1 .. n + 1 : p[i] = row.path[i]
      /\ \A i \in 1 .. n : v[i] = row.via[i]
  BY DEF Prefix
<1>5. p \in [1 .. n + 1 -> Datasets] /\ v \in [1 .. n -> Jobs]
  BY <1>3 DEF Walks
<1>6. j \in Jobs /\ d \in Datasets /\ p[n + 1] \in Froms(dir, j) /\ d \in Tos(dir, j)
  BY <1>1, <1>2, <1>4
<1>7. \A i \in 1 .. n + 1 : p[i] # d
  <2>1. \A i \in 1 .. n + 1 : i \in 1 .. (n + 1) + 1 /\ i # (n + 1) + 1
    OBVIOUS
  <2> QED
    BY <1>1, <1>2, <1>4, <2>1
<1>8. Append(p, d) = row.path
  <2> HIDE DEF p, d
  <2>1. /\ Append(p, d) \in [1 .. (n + 1) + 1 -> Datasets]
        /\ \A i \in 1 .. (n + 1) + 1 : Append(p, d)[i] = IF i = (n + 1) + 1 THEN d ELSE p[i]
    <3> DEFINE m == n + 1
    <3>1. m \in Nat /\ p \in [1 .. m -> Datasets] /\ d \in Datasets
      BY <1>2, <1>5, <1>6
    <3> HIDE DEF m
    <3>2. IsAppend(Append(p, d), p, m, d, Datasets)
      BY <3>1, AppendIsFunction
    <3> QED
      BY <3>2 DEF m, IsAppend
  <2>2. \A i \in 1 .. (n + 1) + 1 : row.path[i] = IF i = (n + 1) + 1 THEN d ELSE p[i]
    <3>1. \A i \in 1 .. (n + 1) + 1 : i = (n + 1) + 1 \/ i \in 1 .. n + 1
      OBVIOUS
    <3> QED
      BY <1>4, <3>1 DEF d
  <2>3. \A i \in 1 .. (n + 1) + 1 : Append(p, d)[i] = row.path[i]
    BY <2>1, <2>2
  <2>4. /\ row.path \in [1 .. (n + 1) + 1 -> Datasets]
        /\ Append(p, d) \in [1 .. (n + 1) + 1 -> Datasets]
    BY <1>1, <2>1
  <2> QED
    BY <2>3, <2>4
<1>9. Append(v, j) = row.via
  <2> HIDE DEF v, j
  <2>1. /\ Append(v, j) \in [1 .. n + 1 -> Jobs]
        /\ \A i \in 1 .. n + 1 : Append(v, j)[i] = IF i = n + 1 THEN j ELSE v[i]
    <3>1. IsAppend(Append(v, j), v, n, j, Jobs)
      BY <1>5, <1>6, AppendIsFunction
    <3> QED
      BY <3>1 DEF IsAppend
  <2>2. \A i \in 1 .. n + 1 : row.via[i] = IF i = n + 1 THEN j ELSE v[i]
    <3>1. \A i \in 1 .. n + 1 : i = n + 1 \/ i \in 1 .. n
      OBVIOUS
    <3> QED
      BY <1>4, <3>1 DEF j
  <2>3. \A i \in 1 .. n + 1 : Append(v, j)[i] = row.via[i]
    BY <2>1, <2>2
  <2>4. row.via \in [1 .. n + 1 -> Jobs] /\ Append(v, j) \in [1 .. n + 1 -> Jobs]
    BY <1>1, <2>1
  <2> QED
    BY <2>3, <2>4
<1>10. row = Extend(Prefix(row, n), j, d)
  BY <1>1, <1>8, <1>9 DEF Extend
<1> HIDE DEF p, v, j, d
<1> QED
  BY <1>3, <1>6, <1>7, <1>10 DEF p, d

LEMMA RowLength ==
    ASSUME NEW S, NEW n \in Nat, NEW s \in [1 .. n -> S]
    PROVE  s \in Seq(S) /\ Len(s) = n /\ DOMAIN s = 1 .. n
OBVIOUS

\* The rows of depth n + 1 that the recursive part of the CTE finds from walks of
\* n hops are the walks of n + 1 hops.
LEMMA StepOnWalks ==
    ASSUME edges \subseteq Edge, NEW dir, NEW roots, NEW n \in Nat
    PROVE  Step(dir, Walks(dir, roots, n)) = Walks(dir, roots, n + 1)
<1> DEFINE W == Walks(dir, roots, n)
<1>1. ASSUME NEW row \in W
      PROVE  /\ row.path[Len(row.path)] = row.path[n + 1]
             /\ \A d : Guarded(d, row) <=> (\A i \in 1 .. n + 1 : row.path[i] # d)
  <2>1. n + 1 \in Nat /\ row.path \in [1 .. n + 1 -> Datasets]
    BY <1>1 DEF Walks
  <2>2. Len(row.path) = n + 1 /\ DOMAIN row.path = 1 .. n + 1
    BY <2>1, RowLength
  <2> QED
    BY <2>2 DEF Guarded, OnPath
<1>2. ASSUME NEW new \in Step(dir, W) PROVE new \in Walks(dir, roots, n + 1)
  <2>1. PICK row \in W, j \in Jobs, d \in Datasets :
           /\ d \in Tos(dir, j)
           /\ row.path[Len(row.path)] \in Froms(dir, j)
           /\ Guarded(d, row)
           /\ new = Extend(row, j, d)
    BY <1>2, NeighboursTyped DEF Step
  <2> QED
    BY <1>1, <2>1, WalkExtends
<1>3. ASSUME NEW new \in Walks(dir, roots, n + 1) PROVE new \in Step(dir, W)
  <2> DEFINE row == Prefix(new, n)
  <2>1. PICK j \in Jobs, d \in Datasets :
           /\ row \in W
           /\ row.path[n + 1] \in Froms(dir, j)
           /\ d \in Tos(dir, j)
           /\ \A i \in 1 .. n + 1 : row.path[i] # d
           /\ new = Extend(row, j, d)
    BY <1>3, WalkSplits
  <2> HIDE DEF row, W
  <2>2. row.path[Len(row.path)] \in Froms(dir, j) /\ Guarded(d, row)
    BY <1>1, <2>1
  <2> QED
    BY <2>1, <2>2 DEF Step
<1> QED
  BY <1>2, <1>3

\* The first rows are the walks of no hop.
LEMMA RootsAreWalks ==
    ASSUME NEW dir, NEW roots, roots \subseteq Datasets
    PROVE  {[path |-> <<d>>, via |-> <<>>] : d \in roots} = Walks(dir, roots, 0)
<1>1. ASSUME NEW d \in roots PROVE [path |-> <<d>>, via |-> <<>>] \in Walks(dir, roots, 0)
  <2>1. <<d>> \in [1 .. 0 + 1 -> Datasets] /\ <<>> \in [1 .. 0 -> Jobs]
    OBVIOUS
  <2>2. \A i, k \in 1 .. 0 + 1 : i = k
    OBVIOUS
  <2> QED
    BY <2>1, <2>2 DEF Walks
<1>2. ASSUME NEW row \in Walks(dir, roots, 0)
      PROVE  \E d \in roots : row = [path |-> <<d>>, via |-> <<>>]
  <2>1. /\ row = [path |-> row.path, via |-> row.via] /\ row.path[1] \in roots
        /\ row.path \in [1 .. 0 + 1 -> Datasets] /\ row.via \in [1 .. 0 -> Jobs]
    BY DEF Walks
  <2>2. row.path = <<row.path[1]>>
    BY <2>1
  <2>3. row.via = <<>>
    BY <2>1
  <2> QED
    BY <2>1, <2>2, <2>3
<1> QED
  BY <1>1, <1>2

LevelSteps(dir, fqn, depth, level) ==
    /\ level[0] = {[path |-> <<d>>, via |-> <<>>] : d \in ByFqn(fqn)}
    /\ \A n \in 1 .. depth : level[n] = Step(dir, level[n - 1])

\* Levels is the function its recursive definition describes.
LEMMA LevelEquations ==
    ASSUME edges \subseteq Edge, NEW dir, NEW fqn, NEW depth \in Nat
    PROVE  LevelSteps(dir, fqn, depth, Levels(dir, fqn, depth))
<1> DEFINE Rows == [path: Seq(Datasets), via: Seq(Jobs)]
           V    == SUBSET Rows
           base == {[path |-> <<d>>, via |-> <<>>] : d \in ByFqn(fqn)}
           next == [n \in Nat |-> [rows \in V |-> Step(dir, rows)]]
           IsLevels(g) == g = [n \in 0 .. depth |-> IF n = 0 THEN base ELSE Step(dir, g[n - 1])]
<1>1. base \in V
  <2>1. ASSUME NEW d \in ByFqn(fqn) PROVE [path |-> <<d>>, via |-> <<>>] \in Rows
    <3>1. d \in Datasets
      BY DEF ByFqn, Known, Edge
    <3>2. <<d>> \in Seq(Datasets) /\ <<>> \in Seq(Jobs)
      BY <3>1
    <3> QED
      BY <3>2
  <2> QED
    BY <2>1
<1>2. next \in [Nat -> [V -> V]]
  <2>1. ASSUME NEW rows \in V PROVE Step(dir, rows) \in V
    <3>1. ASSUME NEW new \in Step(dir, rows) PROVE new \in Rows
      <4>1. PICK row \in rows, j \in Jobs, d \in Datasets : new = Extend(row, j, d)
        BY <3>1, NeighboursTyped DEF Step
      <4>2. row \in Rows /\ d \in Datasets
        BY NeighboursTyped
      <4>3. Append(row.path, d) \in Seq(Datasets) /\ Append(row.via, j) \in Seq(Jobs)
        BY <4>2
      <4> QED
        BY <4>1, <4>3 DEF Extend
    <3> QED
      BY <3>1
  <2> HIDE DEF V
  <2> QED
    BY <2>1
<1>3. PICK g \in [0 .. depth -> V] : Recursion(g, depth, base, next)
  <2> HIDE DEF next, base, V
  <2> QED
    BY <1>1, <1>2, RecursionExists
<1>4. IsLevels(g)
  <2> HIDE DEF V, base
  <2>1. ASSUME NEW n \in 1 .. depth PROVE g[n] = Step(dir, g[n - 1])
    <3>1. n \in Nat /\ n - 1 \in 0 .. depth
      OBVIOUS
    <3>2. g[n] = next[n][g[n - 1]]
      BY <1>3 DEF Recursion
    <3> QED
      BY <3>1, <3>2
  <2>2. g[0] = base
    BY <1>3 DEF Recursion
  <2>3. \A n \in 0 .. depth : n = 0 \/ n \in 1 .. depth
    OBVIOUS
  <2> QED
    BY <2>1, <2>2, <2>3
<1>5. Levels(dir, fqn, depth) = CHOOSE h : IsLevels(h)
  BY DEF Levels
<1>6. IsLevels(Levels(dir, fqn, depth))
  <2> HIDE DEF IsLevels
  <2> QED
    BY <1>4, <1>5
<1> DEFINE L == Levels(dir, fqn, depth)
<1>7. L[0] = base /\ \A n \in 1 .. depth : L[n] = Step(dir, L[n - 1])
  <2> HIDE DEF L, base
  <2>1. 0 \in 0 .. depth /\ \A n \in 1 .. depth : n \in 0 .. depth /\ n # 0
    OBVIOUS
  <2> QED
    BY <1>6, <2>1 DEF L
<1> QED
  BY <1>7 DEF LevelSteps

\* The rows of level n are exactly the walks of n hops.
LEMMA LevelsAreWalks ==
    ASSUME edges \subseteq Edge, NEW dir, NEW fqn, NEW depth \in Nat
    PROVE  \A n \in 0 .. depth : Levels(dir, fqn, depth)[n] = Walks(dir, ByFqn(fqn), n)
<1> DEFINE L == Levels(dir, fqn, depth)
           W(n) == Walks(dir, ByFqn(fqn), n)
           S == {n \in 0 .. depth : L[n] = W(n)}
<1>1. LevelSteps(dir, fqn, depth, L)
  BY LevelEquations
<1>2. 0 \in S
  <2>1. ByFqn(fqn) \subseteq Datasets
    BY DEF ByFqn, Known, Edge
  <2>2. L[0] = W(0)
    BY <1>1, <2>1, RootsAreWalks DEF LevelSteps
  <2> QED
    BY <2>2
<1>3. ASSUME NEW n \in 0 .. depth - 1, n \in S PROVE n + 1 \in S
  <2>1. n \in Nat /\ n + 1 \in 1 .. depth /\ n + 1 \in 0 .. depth /\ (n + 1) - 1 = n
    BY <1>3
  <2>2. L[n + 1] = Step(dir, L[n])
    BY <1>1, <2>1 DEF LevelSteps
  <2>3. Step(dir, W(n)) = W(n + 1)
    BY <2>1, StepOnWalks
  <2> QED
    BY <1>3, <2>1, <2>2, <2>3
<1>4. 0 .. depth \subseteq S
  <2> HIDE DEF S
  <2> QED
    BY <1>2, <1>3, IntervalInSet
<1> QED
  BY <1>4

\* No walk visits as many datasets after the first as there are.
LEMMA WalksEnd ==
    ASSUME NEW dir, NEW roots
    PROVE  Cardinality(Datasets) \in Nat /\ Walks(dir, roots, Cardinality(Datasets)) = {}
<1> DEFINE N == Cardinality(Datasets)
<1>1. IsFiniteSet(Datasets) /\ N \in Nat
  BY QueriesAssumption, FS_CardinalityType
<1> SUFFICES ASSUME NEW row \in Walks(dir, roots, N) PROVE FALSE
  BY <1>1
<1> HIDE DEF N
<1>2. IsFiniteSet(1 .. N + 1) /\ Cardinality(1 .. N + 1) = N + 1
  BY <1>1, FS_Interval
<1>3. N < Cardinality(1 .. N + 1)
  BY <1>1, <1>2
<1>4. row.path \in [1 .. N + 1 -> Datasets]
      /\ \A i, k \in 1 .. N + 1 : row.path[i] = row.path[k] => i = k
  BY DEF Walks
<1>5. \E i, k \in 1 .. N + 1 : i # k /\ row.path[i] = row.path[k]
  <2> DEFINE T == 1 .. N + 1
             f == row.path
  <2>1. IsFiniteSet(T) /\ Cardinality(Datasets) < Cardinality(T) /\ f \in [T -> Datasets]
    BY <1>2, <1>3, <1>4 DEF N
  <2> HIDE DEF T, f
  <2>2. \E i, k \in T : i # k /\ f[i] = f[k]
    BY <1>1, <2>1, FS_PigeonHole
  <2> QED
    BY <2>2 DEF T, f
<1> QED
  BY <1>4, <1>5

\* The recursive query ends whatever the depth limit: on every graph the rows run
\* out after as many levels as there are datasets.
THEOREM RecursionAlwaysEnds == Spec => []RecursionEnds
<1>1. ASSUME TypeOK PROVE RecursionEnds
  <2> DEFINE N == Cardinality(Datasets)
  <2>1. edges \subseteq Edge
    BY <1>1 DEF TypeOK
  <2>2. ASSUME NEW dir, NEW fqn PROVE Levels(dir, fqn, N)[N] = {}
    <3>1. N \in Nat /\ Walks(dir, ByFqn(fqn), N) = {}
      BY WalksEnd
    <3>2. N \in 0 .. N
      BY <3>1
    <3> QED
      BY <2>1, <3>1, <3>2, LevelsAreWalks
  <2> QED
    BY <2>2 DEF RecursionEnds
<1> QED
  BY <1>1, TypeCorrect, PTL

\* Some walk of n hops from a root ends in d.
Reaches(dir, roots, n, d) == \E row \in Walks(dir, roots, n) : row.path[n + 1] = d

LEMMA ActualDepthType ==
    ASSUME NEW asked \in Nat, NEW cap \in Caps
    PROVE  /\ ActualDepth(asked, cap) \in Nat /\ cap \in Nat
           /\ \A n \in Nat : n <= ActualDepth(asked, cap) <=> n <= cap /\ n <= Wanted(asked)
BY QueriesAssumption DEF ActualDepth, Wanted, DefaultDepth, Least

\* The nodes of a response are what walks within the hop limit reach.
LEMMA NodesAreReached ==
    ASSUME edges \subseteq Edge, NEW dir, NEW fqn, NEW asked \in Nat, NEW cap \in Caps
    PROVE  /\ \A x \in Traverse(dir, fqn, asked, cap) :
                 x.depth \in 1 .. ActualDepth(asked, cap) /\ Reaches(dir, ByFqn(fqn), x.depth, x.dataset)
           /\ \A n \in 1 .. ActualDepth(asked, cap) : \A d : Reaches(dir, ByFqn(fqn), n, d) =>
                 \E x \in Traverse(dir, fqn, asked, cap) : x.depth = n /\ x.dataset = d
<1> DEFINE depth == ActualDepth(asked, cap)
           L     == Levels(dir, fqn, depth)
           node(row, n) == [dataset |-> row.path[n + 1], depth |-> n, via |-> row.via[n]]
<1>1. depth \in Nat
  BY ActualDepthType
<1>2. Traverse(dir, fqn, asked, cap) = UNION {{node(row, n) : row \in L[n]} : n \in 1 .. depth}
  BY DEF Traverse
<1>3. \A n \in 1 .. depth : L[n] = Walks(dir, ByFqn(fqn), n)
  <2> HIDE DEF depth
  <2>1. \A n \in 1 .. depth : n \in 0 .. depth
    BY <1>1
  <2> QED
    BY <1>1, <2>1, LevelsAreWalks
<1>4. \A row, n : node(row, n).dataset = row.path[n + 1] /\ node(row, n).depth = n
  OBVIOUS
<1> HIDE DEF node, L
<1>5. ASSUME NEW x \in Traverse(dir, fqn, asked, cap)
      PROVE  x.depth \in 1 .. depth /\ Reaches(dir, ByFqn(fqn), x.depth, x.dataset)
  <2>1. PICK n \in 1 .. depth : \E row \in Walks(dir, ByFqn(fqn), n) : x = node(row, n)
    BY <1>2, <1>3
  <2> QED
    BY <1>4, <2>1 DEF Reaches
<1>6. ASSUME NEW n \in 1 .. depth, NEW d, Reaches(dir, ByFqn(fqn), n, d)
      PROVE  \E x \in Traverse(dir, fqn, asked, cap) : x.depth = n /\ x.dataset = d
  <2>1. PICK row \in Walks(dir, ByFqn(fqn), n) : row.path[n + 1] = d
    BY <1>6 DEF Reaches
  <2>2. node(row, n) \in Traverse(dir, fqn, asked, cap)
    BY <1>2, <1>3, <2>1
  <2> QED
    BY <1>4, <2>1, <2>2
<1> QED
  BY <1>5, <1>6

-----------------------------------------------------------------------------
(* Upstream and downstream. *)

Opposite(dir) == IF dir = "upstream" THEN "downstream" ELSE "upstream"

\* A walk backwards is a walk of the opposite direction.
LEMMA WalkBack ==
    ASSUME NEW dir \in Directions, NEW A, NEW B, NEW n \in Nat,
           NEW row \in Walks(dir, A, n), row.path[n + 1] \in B
    PROVE  \E back \in Walks(Opposite(dir), B, n) : back.path[n + 1] \in A
<1> DEFINE p == [i \in 1 .. n + 1 |-> row.path[(n + 2) - i]]
           v == [i \in 1 .. n |-> row.via[(n + 1) - i]]
<1>1. \A j : Froms(Opposite(dir), j) = Tos(dir, j) /\ Tos(Opposite(dir), j) = Froms(dir, j)
  BY DEF Directions, Opposite, Froms, Tos
<1>2. /\ row.path \in [1 .. n + 1 -> Datasets] /\ row.via \in [1 .. n -> Jobs]
      /\ row.path[1] \in A
      /\ \A i, k \in 1 .. n + 1 : row.path[i] = row.path[k] => i = k
      /\ \A i \in 1 .. n : /\ row.path[i] \in Froms(dir, row.via[i])
                           /\ row.path[i + 1] \in Tos(dir, row.via[i])
  BY DEF Walks
<1>3. \A i \in 1 .. n + 1 : (n + 2) - i \in 1 .. n + 1
  OBVIOUS
<1>4. \A i \in 1 .. n : /\ (n + 1) - i \in 1 .. n /\ i \in 1 .. n + 1 /\ i + 1 \in 1 .. n + 1
                        /\ (n + 2) - (i + 1) = (n + 1) - i /\ ((n + 1) - i) + 1 = (n + 2) - i
  OBVIOUS
<1>5. /\ p \in [1 .. n + 1 -> Datasets] /\ v \in [1 .. n -> Jobs]
      /\ \A i \in 1 .. n + 1 : p[i] = row.path[(n + 2) - i]
      /\ \A i \in 1 .. n : v[i] = row.via[(n + 1) - i]
  BY <1>2, <1>3, <1>4
<1> HIDE DEF p, v
<1>6. p[1] \in B /\ p[n + 1] \in A
  <2>1. 1 \in 1 .. n + 1 /\ n + 1 \in 1 .. n + 1 /\ (n + 2) - 1 = n + 1 /\ (n + 2) - (n + 1) = 1
    OBVIOUS
  <2> QED
    BY <1>2, <1>5, <2>1
<1>7. ASSUME NEW i \in 1 .. n + 1, NEW k \in 1 .. n + 1, p[i] = p[k] PROVE i = k
  <2> DEFINE a == (n + 2) - i
             b == (n + 2) - k
  <2>1. a \in 1 .. n + 1 /\ b \in 1 .. n + 1 /\ row.path[a] = row.path[b]
    BY <1>3, <1>5, <1>7
  <2>2. i = (n + 2) - a /\ k = (n + 2) - b
    OBVIOUS
  <2> HIDE DEF a, b
  <2>3. a = b
    BY <1>2, <2>1
  <2> QED
    BY <2>2, <2>3
<1>8. ASSUME NEW i \in 1 .. n
      PROVE  p[i] \in Froms(Opposite(dir), v[i]) /\ p[i + 1] \in Tos(Opposite(dir), v[i])
  <2> DEFINE k == (n + 1) - i
  <2>1. k \in 1 .. n /\ v[i] = row.via[k] /\ p[i] = row.path[k + 1] /\ p[i + 1] = row.path[k]
    BY <1>4, <1>5
  <2> HIDE DEF k
  <2> QED
    BY <1>1, <1>2, <2>1
<1>9. [path |-> p, via |-> v] \in Walks(Opposite(dir), B, n)
  BY <1>5, <1>6, <1>7, <1>8 DEF Walks
<1> QED
  BY <1>6, <1>9

\* If one dataset is found downstream of another, in some number of hops, the
\* other is found upstream of it in as many: the two recursive queries follow one
\* relation, on every graph.
THEOREM MirrorAlways == Spec => []UpstreamMirrorsDownstream
<1>1. ASSUME TypeOK PROVE UpstreamMirrorsDownstream
  <2> SUFFICES ASSUME NEW cap \in Caps
               PROVE  \A f, g \in Fqns :
                         LET reaches(dir, from, to) ==
                                {x.depth : x \in {y \in Traverse(dir, from, MaxAsked, cap) :
                                                     y.dataset \in ByFqn(to)}}
                         IN  reaches("downstream", f, g) = reaches("upstream", g, f)
    BY DEF UpstreamMirrorsDownstream
  <2> DEFINE reaches(dir, from, to) == {x.depth : x \in {y \in Traverse(dir, from, MaxAsked, cap) :
                                                            y.dataset \in ByFqn(to)}}
  <2>1. edges \subseteq Edge
    BY <1>1 DEF TypeOK
  <2>2. MaxAsked \in Nat
    BY QueriesAssumption
  <2>3. ASSUME NEW dir \in Directions, NEW f, NEW g, NEW n \in reaches(dir, f, g)
        PROVE  n \in reaches(Opposite(dir), g, f)
    <3>1. PICK x \in Traverse(dir, f, MaxAsked, cap) : x.dataset \in ByFqn(g) /\ n = x.depth
      BY <2>3
    <3>2. n \in 1 .. ActualDepth(MaxAsked, cap) /\ Reaches(dir, ByFqn(f), n, x.dataset)
      BY <2>1, <2>2, <3>1, NodesAreReached
    <3>3. n \in Nat
      BY <3>2
    <3>4. PICK row \in Walks(dir, ByFqn(f), n) : row.path[n + 1] \in ByFqn(g)
      BY <3>1, <3>2 DEF Reaches
    <3>5. PICK back \in Walks(Opposite(dir), ByFqn(g), n) : back.path[n + 1] \in ByFqn(f)
      BY <3>3, <3>4, WalkBack
    <3>6. Reaches(Opposite(dir), ByFqn(g), n, back.path[n + 1])
      BY DEF Reaches
    <3>7. \E y \in Traverse(Opposite(dir), g, MaxAsked, cap) : y.depth = n /\ y.dataset = back.path[n + 1]
      BY <2>1, <2>2, <3>2, <3>6, NodesAreReached
    <3> QED
      BY <3>5, <3>7
  <2>4. /\ "downstream" \in Directions /\ Opposite("downstream") = "upstream"
        /\ "upstream" \in Directions /\ Opposite("upstream") = "downstream"
    BY DEF Directions, Opposite
  <2>5. \A f, g : reaches("downstream", f, g) = reaches("upstream", g, f)
    <3> HIDE DEF reaches
    <3> QED
      BY <2>3, <2>4
  <2> QED
    BY <2>5
<1> QED
  BY <1>1, TypeCorrect, PTL

-----------------------------------------------------------------------------
(* Walks and hop distance. *)

BallSteps(dir, roots, depth, ball) ==
    /\ ball[0] = roots
    /\ \A n \in 1 .. depth : ball[n] = ball[n - 1] \cup Hop(dir, ball[n - 1])

\* Ball is the function its recursive definition describes.
LEMMA BallEquations ==
    ASSUME edges \subseteq Edge, NEW dir, NEW roots, roots \subseteq Datasets, NEW depth \in Nat
    PROVE  BallSteps(dir, roots, depth, Ball(dir, roots, depth))
<1> DEFINE V    == SUBSET Datasets
           next == [n \in Nat |-> [D \in V |-> D \cup Hop(dir, D)]]
           IsBall(g) == g = [n \in 0 .. depth |-> IF n = 0 THEN roots
                                                  ELSE g[n - 1] \cup Hop(dir, g[n - 1])]
<1>1. roots \in V
  OBVIOUS
<1>2. next \in [Nat -> [V -> V]]
  <2>1. ASSUME NEW D \in V PROVE D \cup Hop(dir, D) \in V
    BY NeighboursTyped DEF Hop
  <2> HIDE DEF V
  <2> QED
    BY <2>1
<1>3. PICK g \in [0 .. depth -> V] : Recursion(g, depth, roots, next)
  <2> HIDE DEF next, V
  <2> QED
    BY <1>1, <1>2, RecursionExists
<1>4. IsBall(g)
  <2> HIDE DEF V
  <2>1. ASSUME NEW n \in 1 .. depth PROVE g[n] = g[n - 1] \cup Hop(dir, g[n - 1])
    <3>1. n \in Nat /\ n - 1 \in 0 .. depth
      OBVIOUS
    <3>2. g[n] = next[n][g[n - 1]]
      BY <1>3 DEF Recursion
    <3> QED
      BY <3>1, <3>2
  <2>2. g[0] = roots
    BY <1>3 DEF Recursion
  <2>3. \A n \in 0 .. depth : n = 0 \/ n \in 1 .. depth
    OBVIOUS
  <2> QED
    BY <2>1, <2>2, <2>3
<1>5. Ball(dir, roots, depth) = CHOOSE h : IsBall(h)
  BY DEF Ball
<1>6. IsBall(Ball(dir, roots, depth))
  <2> HIDE DEF IsBall
  <2> QED
    BY <1>4, <1>5
<1> DEFINE B == Ball(dir, roots, depth)
<1>7. B[0] = roots /\ \A n \in 1 .. depth : B[n] = B[n - 1] \cup Hop(dir, B[n - 1])
  <2> HIDE DEF B
  <2>1. 0 \in 0 .. depth /\ \A n \in 1 .. depth : n \in 0 .. depth /\ n # 0
    OBVIOUS
  <2> QED
    BY <1>6, <2>1 DEF B
<1> QED
  BY <1>7 DEF BallSteps

LEMMA ReachedFromRoot ==
    ASSUME NEW dir, NEW d \in Datasets, NEW e, NEW n \in Nat, Reaches(dir, {d}, n, e)
    PROVE  e \in Datasets /\ (n = 0 <=> e = d)
<1>1. PICK row \in Walks(dir, {d}, n) : row.path[n + 1] = e
  BY DEF Reaches
<1>2. /\ row.path \in [1 .. n + 1 -> Datasets] /\ row.path[1] = d
      /\ \A i, k \in 1 .. n + 1 : row.path[i] = row.path[k] => i = k
  BY DEF Walks
<1>3. 1 \in 1 .. n + 1 /\ n + 1 \in 1 .. n + 1
  OBVIOUS
<1> QED
  BY <1>1, <1>2, <1>3

LEMMA RootReached ==
    ASSUME NEW dir, NEW d \in Datasets
    PROVE  Reaches(dir, {d}, 0, d)
<1>1. [path |-> <<d>>, via |-> <<>>] \in Walks(dir, {d}, 0)
  BY RootsAreWalks
<1>2. [path |-> <<d>>, via |-> <<>>].path[0 + 1] = d
  OBVIOUS
<1> QED
  BY <1>1, <1>2 DEF Reaches

\* One hop from what is reached within n hops leads to what is reached within
\* n + 1: either further, or to a dataset the walk has been to.
LEMMA OneHopFurther ==
    ASSUME edges \subseteq Edge, NEW dir, NEW roots, NEW m \in Nat, NEW c, Reaches(dir, roots, m, c),
           NEW j \in Jobs, c \in Froms(dir, j), NEW e \in Tos(dir, j)
    PROVE  \E k \in 0 .. m + 1 : Reaches(dir, roots, k, e)
<1>1. PICK row \in Walks(dir, roots, m) : row.path[m + 1] = c
  BY DEF Reaches
<1>2. CASE \E i \in 1 .. m + 1 : row.path[i] = e
  <2>1. PICK i \in 1 .. m + 1 : row.path[i] = e
    BY <1>2
  <2> DEFINE k == i - 1
  <2>2. k \in 0 .. m /\ k \in 0 .. m + 1 /\ k + 1 = i
    OBVIOUS
  <2> HIDE DEF k
  <2>3. Prefix(row, k) \in Walks(dir, roots, k) /\ Prefix(row, k).path[k + 1] = row.path[k + 1]
    BY <2>2, PrefixIsWalk
  <2> QED
    BY <2>1, <2>2, <2>3 DEF Reaches
<1>3. CASE \A i \in 1 .. m + 1 : row.path[i] # e
  <2>1. /\ Extend(row, j, e) \in Walks(dir, roots, m + 1)
        /\ Extend(row, j, e).path[(m + 1) + 1] = e
    BY <1>1, <1>3, WalkExtends
  <2>2. m + 1 \in 0 .. m + 1
    OBVIOUS
  <2> QED
    BY <2>1, <2>2 DEF Reaches
<1> QED
  BY <1>2, <1>3

\* What walks of at most n hops reach from d.
Within(dir, d, n) == {e \in Datasets : \E m \in 0 .. n : Reaches(dir, {d}, m, e)}

\* Breadth-first search finds what walks reach.
LEMMA BallIsReached ==
    ASSUME edges \subseteq Edge, NEW dir, NEW d \in Datasets, NEW depth \in Nat
    PROVE  \A n \in 0 .. depth : Ball(dir, {d}, depth)[n] = Within(dir, d, n)
<1> DEFINE B == Ball(dir, {d}, depth)
           R(n) == {e \in Datasets : \E m \in 0 .. n : Reaches(dir, {d}, m, e)}
           S == {n \in 0 .. depth : B[n] = R(n)}
<1>1. BallSteps(dir, {d}, depth, B)
  BY BallEquations
<1>2. 0 \in S
  <2>1. R(0) = {d}
    <3>1. \A m \in 0 .. 0 : m = 0
      OBVIOUS
    <3>2. 0 \in 0 .. 0
      OBVIOUS
    <3> QED
      BY <3>1, <3>2, RootReached, ReachedFromRoot
  <2>2. 0 \in 0 .. depth
    OBVIOUS
  <2> HIDE DEF B, R
  <2>3. B[0] = {d}
    BY <1>1 DEF BallSteps
  <2> QED
    BY <2>1, <2>2, <2>3
<1>3. ASSUME NEW n \in 0 .. depth - 1, n \in S PROVE n + 1 \in S
  <2>1. n \in Nat /\ n + 1 \in 1 .. depth /\ n + 1 \in 0 .. depth /\ (n + 1) - 1 = n
    BY <1>3
  <2>2. B[n + 1] = B[n] \cup Hop(dir, B[n])
    BY <1>1, <2>1 DEF BallSteps
  <2>3. ASSUME NEW e \in R(n + 1) PROVE e \in R(n) \cup Hop(dir, R(n))
    <3>1. PICK m \in 0 .. n + 1 : Reaches(dir, {d}, m, e)
      BY <2>3
    <3>2. CASE m \in 0 .. n
      BY <2>3, <3>1, <3>2
    <3>3. CASE m = n + 1
      <4>1. PICK row \in Walks(dir, {d}, n + 1) : row.path[(n + 1) + 1] = e
        BY <3>1, <3>3 DEF Reaches
      <4>2. PICK j \in Jobs : /\ Prefix(row, n) \in Walks(dir, {d}, n)
                              /\ Prefix(row, n).path[n + 1] \in Froms(dir, j)
                              /\ e \in Tos(dir, j)
        BY <2>1, <4>1, WalkSplits
      <4> DEFINE c == Prefix(row, n).path[n + 1]
      <4>3. Reaches(dir, {d}, n, c)
        BY <4>2 DEF Reaches
      <4>4. n \in 0 .. n /\ c \in Datasets
        BY <2>1, <4>3, ReachedFromRoot
      <4> HIDE DEF c
      <4>5. c \in R(n)
        BY <4>3, <4>4
      <4>6. c \in Froms(dir, j)
        BY <4>2 DEF c
      <4> HIDE DEF R
      <4> QED
        BY <4>2, <4>5, <4>6 DEF Hop
    <3> QED
      BY <2>1, <3>2, <3>3
  <2>4. ASSUME NEW e \in R(n) PROVE e \in R(n + 1)
    <3>1. \A m \in 0 .. n : m \in 0 .. n + 1
      BY <2>1
    <3> QED
      BY <2>4, <3>1
  <2>5. ASSUME NEW e \in Hop(dir, R(n)) PROVE e \in R(n + 1)
    <3>1. PICK j \in Jobs, c \in R(n) : c \in Froms(dir, j) /\ e \in Tos(dir, j)
      <4> HIDE DEF R
      <4> QED
        BY <2>5 DEF Hop
    <3>2. PICK m \in 0 .. n : Reaches(dir, {d}, m, c)
      BY <3>1
    <3>3. PICK k \in 0 .. m + 1 : Reaches(dir, {d}, k, e)
      BY <3>1, <3>2, OneHopFurther
    <3>4. k \in 0 .. n + 1
      BY <2>1, <3>2, <3>3
    <3>5. e \in Datasets
      BY <3>1, NeighboursTyped
    <3> QED
      BY <3>3, <3>4, <3>5
  <2>6. R(n + 1) = R(n) \cup Hop(dir, R(n))
    <3> HIDE DEF R
    <3> QED
      BY <2>3, <2>4, <2>5
  <2> QED
    BY <1>3, <2>1, <2>2, <2>6
<1>4. 0 .. depth \subseteq S
  <2> HIDE DEF S
  <2> QED
    BY <1>2, <1>3, IntervalInSet
<1> QED
  BY <1>4 DEF Within

LEMMA ReachedFromSome ==
    ASSUME NEW dir, NEW roots, NEW n, NEW e
    PROVE  Reaches(dir, roots, n, e) <=> \E d \in roots : Reaches(dir, {d}, n, e)
<1>1. Walks(dir, roots, n) = UNION {Walks(dir, {d}, n) : d \in roots}
  BY DEF Walks
<1> QED
  BY <1>1 DEF Reaches

\* A traversal answers with the datasets within the hop limit, and with nothing
\* else: the paths the recursive query enumerates, with its guard against cycles,
\* find what breadth-first search finds, on every graph and for every limit.
THEOREM TraversalsAreReachability == Spec => []TraversalIsReachability
<1>1. ASSUME TypeOK PROVE TraversalIsReachability
  <2> SUFFICES ASSUME NEW fqn \in Fqns, NEW dir \in Directions, NEW asked \in 0 .. MaxAsked,
                      NEW cap \in Caps
               PROVE  LET nodes == Traverse(dir, fqn, asked, cap)
                          ball  == [d \in ByFqn(fqn) |-> Ball(dir, {d}, cap)]
                      IN  /\ \A n \in 1..cap : n <= Wanted(asked) =>
                                {x.dataset : x \in {y \in nodes : y.depth <= n}}
                                    = UNION {ball[d][n] \ {d} : d \in ByFqn(fqn)}
                          /\ \A x \in nodes : x.depth <= cap /\ x.depth <= Wanted(asked)
    BY DEF TraversalIsReachability
  <2> DEFINE nodes == Traverse(dir, fqn, asked, cap)
             depth == ActualDepth(asked, cap)
             roots == ByFqn(fqn)
             ball  == [d \in roots |-> Ball(dir, {d}, cap)]
  <2>1. edges \subseteq Edge /\ roots \subseteq Datasets
    BY <1>1 DEF TypeOK, Edge, ByFqn, Known
  <2>2. asked \in Nat
    BY QueriesAssumption
  <2>3. /\ depth \in Nat /\ cap \in Nat
        /\ \A n \in Nat : n <= depth <=> n <= cap /\ n <= Wanted(asked)
    BY <2>2, ActualDepthType
  <2>4. /\ \A x \in nodes : x.depth \in 1 .. depth /\ Reaches(dir, roots, x.depth, x.dataset)
        /\ \A n \in 1 .. depth : \A e : Reaches(dir, roots, n, e) =>
              \E x \in nodes : x.depth = n /\ x.dataset = e
    BY <2>1, <2>2, NodesAreReached
  <2>5. \A d \in roots : ball[d] = Ball(dir, {d}, cap)
    OBVIOUS
  <2> HIDE DEF nodes, depth, roots, ball
  <2>6. ASSUME NEW n \in 1 .. cap, n <= Wanted(asked)
        PROVE  {x.dataset : x \in {y \in nodes : y.depth <= n}} = UNION {ball[d][n] \ {d} : d \in roots}
    <3>1. n \in 0 .. cap /\ n \in 0 .. depth
      BY <2>3, <2>6
    <3>2. \A d \in roots : ball[d][n] = Within(dir, d, n)
      <4> SUFFICES ASSUME NEW d \in roots
                   PROVE  ball[d][n] = Within(dir, d, n)
        OBVIOUS
      <4>1. d \in Datasets
        BY <2>1
      <4>2. Ball(dir, {d}, cap)[n] = Within(dir, d, n)
        BY <2>1, <2>3, <3>1, <4>1, BallIsReached
      <4> QED
        BY <2>5, <4>2
    <3>3. ASSUME NEW x \in nodes, x.depth <= n
          PROVE  \E d \in roots : x.dataset \in ball[d][n] \ {d}
      <4>1. x.depth \in 1 .. depth /\ x.depth \in Nat /\ x.depth \in 0 .. n /\ x.depth # 0
        BY <2>3, <2>4, <3>3
      <4>2. PICK d \in roots : Reaches(dir, {d}, x.depth, x.dataset)
        BY <2>4, ReachedFromSome
      <4>3. x.dataset \in Datasets /\ x.dataset # d
        BY <2>1, <4>1, <4>2, ReachedFromRoot
      <4> QED
        BY <3>2, <4>1, <4>2, <4>3 DEF Within
    <3>4. ASSUME NEW d \in roots, NEW e \in ball[d][n] \ {d}
          PROVE  \E x \in nodes : x.depth <= n /\ x.dataset = e
      <4>1. PICK m \in 0 .. n : Reaches(dir, {d}, m, e)
        BY <3>2, <3>4 DEF Within
      <4>2. m \in Nat
        BY <3>1, <4>1
      <4>3. m # 0
        BY <2>1, <3>4, <4>1, <4>2, ReachedFromRoot
      <4>4. m \in 1 .. depth /\ m <= n
        BY <2>3, <3>1, <4>1, <4>3
      <4>5. Reaches(dir, roots, m, e)
        BY <4>1, ReachedFromSome
      <4> QED
        BY <2>4, <4>4, <4>5
    <3> QED
      BY <3>3, <3>4
  <2>7. \A x \in nodes : x.depth <= cap /\ x.depth <= Wanted(asked)
    BY <2>3, <2>4
  <2> QED
    BY <2>6, <2>7 DEF nodes, depth, roots, ball
<1> QED
  BY <1>1, TypeCorrect, PTL
=============================================================================
