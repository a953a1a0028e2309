------------------------------- MODULE Producer -------------------------------
(***************************************************************************)
(* A data job with a bank_conn Connection: the with block that emits START *)
(* and COMPLETE or FAIL, the emitter that posts them, and the collector at *)
(* the other end.                                                          *)
(*                                                                         *)
(* A POST blocks the job until the answer, an error or the client's        *)
(* timeout of 10 s; it is never repeated.  After a timeout the request may *)
(* still be under way (a statement may take 30 s in the collector), so it  *)
(* can be applied after later ones.  The collector applies a request in    *)
(* one step or not at all, as module Ingest shows.                         *)
(*                                                                         *)
(* The process keeps one emitter, but get_emitter() checks, builds and     *)
(* stores it without a lock: other threads of the process, which use       *)
(* Connections of their own, can build and store one meanwhile, and with   *)
(* configure() in between the two post to different collectors.            *)
(***************************************************************************)
EXTENDS LineageRows, FiniteSets

CONSTANTS Job, Run,    \* of the Connection object
          Collectors,  \* the collector URLs that httpx can parse
          Startup,     \* configurations at import
          NewUrls,     \* values of collector_url given to configure()
          Threads,     \* the other threads of the process that use a Connection
          MaxEntries,  \* bound on the with blocks: each may post twice
          MaxRecords   \* bound on the calls of record_read and record_write

ASSUME ProducerAssumption == /\ Job \in Jobs /\ Run \in RunIds
                             /\ MaxEntries \in Nat /\ MaxRecords \in Nat
                             /\ NULL \notin Collectors \cup {"answer", "timeout"}
                             /\ NewUrls \subseteq Collectors
                             /\ Startup \subseteq [url: Collectors \cup {NULL}, emit: BOOLEAN]
                             /\ 1 .. 2 * MaxEntries \subseteq Times

VARIABLES
    config,   \* [url, emit]: collector_url, NULL if httpx cannot parse it; emit_lineage
    client,   \* the URL _global_emitter was built with, NULL while it is None
    mine,     \* the URL of the emitter the job has built and not yet stored, or NULL
    theirs,   \* the same for each other thread
    pc,       \* "outside", "building", "stored", "starting", "inside", "ending",
              \* "over", "crashed"
    inputs,   \* Connection._inputs
    outputs,  \* Connection._outputs
    cols,     \* the column mapping recorded last for each output, or NULL
    sent,     \* the events posted
    to,       \* history: the collector each was posted to
    state,    \* of each post: "underway", "applied" or "lost"
    heard,    \* of each post: NULL while the job waits for it, then "answer" or "timeout"
    db,       \* the tables of each collector
    owed      \* history: for each collector, the edges recorded when an outcome
              \* was last posted to it

setup == <<config, client, mine, theirs>>
block == <<inputs, outputs, cols>>
posts == <<sent, to, state, heard>>
vars  == <<setup, pc, block, posts, db, owed>>

Waiting  == {"starting", "ending"}
Building == {"building", "stored"}   \* in get_emitter(), having found None
Gone     == {"over", "crashed"}

TypeOK ==
    /\ config \in [url: Collectors \cup {NULL}, emit: BOOLEAN]
    /\ client \in Collectors \cup {NULL} /\ mine \in Collectors \cup {NULL}
    /\ theirs \in [Threads -> Collectors \cup {NULL}]
    /\ pc \in {"outside", "inside"} \cup Building \cup Waiting \cup Gone
    /\ inputs \in Seq(Datasets) /\ outputs \in Seq(Datasets)
    /\ cols \in [Datasets -> ColMaps \cup {NULL}]
    /\ sent \in Seq(Event)
    /\ to \in [DOMAIN sent -> Collectors]
    /\ state \in [DOMAIN sent -> {"underway", "applied", "lost"}]
    /\ heard \in [DOMAIN sent -> {"answer", "timeout", NULL}]
    /\ \A u \in Collectors, k \in Keys : db[u][k] \in RowsOf(k) \cup {NULL}
    /\ owed \in [Collectors -> SUBSET Keys]

Init ==
    /\ config \in Startup /\ client = NULL /\ mine = NULL
    /\ theirs = [t \in Threads |-> NULL]
    /\ pc = "outside"
    /\ inputs = <<>> /\ outputs = <<>>
    /\ cols = [d \in Datasets |-> NULL]
    /\ sent = <<>> /\ to = <<>> /\ state = <<>> /\ heard = <<>>
    /\ db \in [Collectors -> InitialTables]
    /\ owed = [u \in Collectors |-> {}]

-----------------------------------------------------------------------------
(* The emitter. *)

\* configure(collector_url = u) or configure(emit_lineage = False), called by any
\* thread; one call, which is a bound.
Configure(c) ==
    /\ pc \notin Gone /\ config \in Startup
    /\ c \in {[config EXCEPT !.url = u] : u \in NewUrls} \cup {[config EXCEPT !.emit = FALSE]}
    /\ c \notin Startup
    /\ config' = c
    /\ UNCHANGED <<client, mine, theirs, pc, block, posts, db, owed>>

CanEnter == pc = "outside" /\ Len(sent) + 2 <= 2 * MaxEntries

\* get_emitter() finds None and builds an emitter with the configuration of that
\* moment, whether or not emission is enabled.  A store of another thread between
\* the check and the construction has the effect it has after them.
Build ==
    /\ CanEnter
    /\ client = NULL /\ config.url # NULL
    /\ mine' = config.url
    /\ pc' = "building"
    /\ UNCHANGED <<config, client, theirs, block, posts, db, owed>>

\* Stored over whatever is there by now; what is returned is read once more.
Store ==
    /\ pc = "building"
    /\ client' = mine /\ mine' = NULL
    /\ pc' = "stored"
    /\ UNCHANGED <<config, theirs, block, posts, db, owed>>

\* Another thread in the same function.
TheyBuild(t) ==
    /\ pc \notin Gone
    /\ client = NULL /\ config.url # NULL /\ theirs[t] = NULL
    /\ theirs' = [theirs EXCEPT ![t] = config.url]
    /\ UNCHANGED <<config, client, mine, pc, block, posts, db, owed>>

TheyStore(t) ==
    /\ pc \notin Gone /\ theirs[t] # NULL
    /\ client' = theirs[t] /\ theirs' = [theirs EXCEPT ![t] = NULL]
    /\ UNCHANGED <<config, mine, pc, block, posts, db, owed>>

\* The event as it is at the call; the producer string contains no keyword of
\* a job type, and the clock of eventTime moves between two posts.
RunEvent(type) ==
    [job |-> Job, run |-> Run, type |-> type, time |-> Len(sent) + 1, producer |-> {},
     inputs |-> inputs, outputs |-> outputs, iceberg |-> {}, cols |-> cols]

\* A bug, for mutation: the event carries the outputs only.
EmitWithoutInputs(type, there, next) ==
    IF config.emit
      THEN /\ sent' = Append(sent, [RunEvent(type) EXCEPT !.inputs = <<>>])
           /\ to' = Append(to, client)
           /\ state' = Append(state, "underway") /\ heard' = Append(heard, NULL)
           /\ pc' = there
      ELSE pc' = next /\ UNCHANGED posts

\* Post an event with the emitter get_emitter() returns and wait at there, or go on
\* to next if emission is disabled.
Emit(type, there, next) ==
    IF config.emit
      THEN /\ sent' = Append(sent, RunEvent(type))
           /\ to' = Append(to, client)
           /\ state' = Append(state, "underway") /\ heard' = Append(heard, NULL)
           /\ pc' = there
      ELSE pc' = next /\ UNCHANGED posts

Awaited  == Len(sent)
Continue == pc' = IF pc = "starting" THEN "inside" ELSE "outside"

Hear(what) ==
    /\ pc \in Waiting
    /\ heard' = [heard EXCEPT ![Awaited] = what]
    /\ Continue
    /\ UNCHANGED <<setup, block, sent, to, state, db, owed>>

\* A status of any kind or a connection error; errors are logged.
Answered == pc \in Waiting /\ state[Awaited] # "underway" /\ Hear("answer")

\* A bug, for mutation: the client waits as long as it takes.
NoTimeout == FALSE /\ Hear("timeout")
TimedOut  == Hear("timeout")

-----------------------------------------------------------------------------
(* The with block. *)

\* With an emitter that was there or has just been stored.
Enter ==
    /\ \/ CanEnter /\ client # NULL
       \/ pc = "stored"
    /\ Emit("START", "starting", "inside")
    /\ UNCHANGED <<setup, block, db, owed>>

\* The emitter cannot be built: httpx.InvalidURL is no HTTPError, nor is the
\* constructor inside the try block.
EnterRaises ==
    /\ pc = "outside" /\ client = NULL /\ config.url = NULL
    /\ pc' = "crashed"
    /\ UNCHANGED <<setup, block, posts, db, owed>>

Recorded == {EdgeKey(Job, d, "input") : d \in ToSet(inputs)}
              \cup {EdgeKey(Job, d, "output") : d \in ToSet(outputs)}

CanRecord == pc \in {"outside", "inside"} /\ Len(inputs) + Len(outputs) < MaxRecords

RecordRead(d) ==
    /\ CanRecord
    /\ inputs' = Append(inputs, d)
    /\ UNCHANGED <<setup, pc, outputs, cols, posts, db, owed>>

\* d may be on another connection than the Connection's own.
RecordWrite(d, m) ==
    /\ CanRecord
    /\ outputs' = Append(outputs, d)
    /\ cols' = [cols EXCEPT ![d] = Coalesce(m, @)]
    /\ UNCHANGED <<setup, pc, inputs, posts, db, owed>>

\* The body ends, normally or with an exception; Enter has left an emitter, though
\* perhaps not the one of START.
Exit(type) ==
    /\ pc = "inside"
    /\ Emit(type, "ending", "outside")
    /\ owed' = IF config.emit THEN [owed EXCEPT ![client] = Recorded] ELSE owed
    /\ UNCHANGED <<setup, block, db>>

\* The job's process ends or is killed, and its emitters with it; what it recorded
\* stays as history.
Stop ==
    /\ pc \notin Gone
    /\ pc' = "over"
    /\ client' = NULL /\ mine' = NULL /\ theirs' = [t \in Threads |-> NULL]
    /\ UNCHANGED <<config, block, posts, db, owed>>

-----------------------------------------------------------------------------
(* The collectors. *)

Apply(i) ==
    /\ state[i] = "underway"
    /\ state' = [state EXCEPT ![i] = "applied"]
    /\ db' = [db EXCEPT ![to[i]] = ApplyEvent(sent[i], @)]
    /\ UNCHANGED <<setup, pc, block, sent, to, heard, owed>>

\* Refused connection, lost request, database error, crash of the collector.
Lose(i) ==
    /\ state[i] = "underway"
    /\ state' = [state EXCEPT ![i] = "lost"]
    /\ UNCHANGED <<setup, pc, block, sent, to, heard, db, owed>>

JobStep == Answered \/ TimedOut

Next == \/ \E c \in [url: Collectors \cup {NULL}, emit: BOOLEAN] : Configure(c)
        \/ Build \/ Store \/ \E t \in Threads : TheyBuild(t) \/ TheyStore(t)
        \/ JobStep \/ Enter \/ EnterRaises \/ Stop
        \/ \E d \in Datasets : RecordRead(d) \/ \E m \in ColMaps \cup {NULL} : RecordWrite(d, m)
        \/ \E type \in {"COMPLETE", "FAIL"} : Exit(type)
        \/ \E i \in DOMAIN sent : Apply(i) \/ Lose(i)

Spec == Init /\ [][Next]_vars

\* httpx's timeout fires.  It counts for each read of the socket and not for the
\* whole call, so the collector may refuse, fail, be silent or answer, but is taken
\* not to trickle its answer.
FairSpec == Spec /\ WF_vars(JobStep)

-----------------------------------------------------------------------------
(* Correctness. *)

\* The job is never held up by a slow, dead or failing collector.
NeverHeldUp == [](pc \in Waiting => <>(pc \notin Waiting))

Terminals  == {i \in DOMAIN sent : IsTerminal(sent[i])}
RunRow(u)  == db[u][RunKey(Job, Run)]
LastAt(i)  == \A k \in Terminals : to[k] = to[i] => k <= i

\* At each collector that has applied the last outcome posted to it, the run shows
\* that outcome, even if START is still under way, arrived after it, never did or
\* went to another collector; with several blocks, provided the job did not give up
\* on an earlier outcome posted there.
OutcomeIsShown ==
    \A i \in Terminals :
        (/\ LastAt(i) /\ state[i] = "applied"
         /\ \A k \in Terminals \ {i} : to[k] = to[i] => heard[k] = "answer") =>
            /\ RunRow(to[i]).status = StatusOf(sent[i]) /\ RunRow(to[i]).ended = sent[i].time
            /\ RunRow(to[i]).started # NULL <=>
                  \E k \in DOMAIN sent :
                      sent[k].type = "START" /\ state[k] = "applied" /\ to[k] = to[i]

\* No collector shows lineage the job did not record, and one that has applied the
\* last outcome posted to it shows all that was recorded by then, for successful and
\* failed blocks alike and even if it never saw the START.
LineageIsRecorded ==
    LET shown(u) == {k \in Keys : k.tbl = "lineage_edge" /\ db[u][k] # NULL}
    IN  /\ \A u \in Collectors : shown(u) \subseteq Recorded
        /\ \A i \in Terminals :
              LastAt(i) /\ state[i] = "applied" => owed[to[i]] \subseteq shown(to[i])
=============================================================================
