-------------------------------- MODULE Ingest --------------------------------
(***************************************************************************)
(* POST /lineage: LineageIngestionService.ingest() as it runs, statement   *)
(* by statement, when several requests are in flight over one connection   *)
(* pool.                                                                   *)
(*                                                                         *)
(* Every statement of a transaction is an INSERT ... ON CONFLICT DO UPDATE *)
(* on one row.  Under READ COMMITTED it waits until no other open          *)
(* transaction has written that row (or inserted that key), then works on  *)
(* the newest version, and the row stays locked until the transaction      *)
(* ends.  So a row has a committed version, db[k], and a newest one,       *)
(* wip[k], which only differ while owner[k] is a transaction.              *)
(*                                                                         *)
(* A transaction ends by commit; by the ValueError an unparsable eventTime *)
(* raises between the first and the second statement; by a database error  *)
(* (a deadlock Postgres breaks, a timeout, a lost connection); or by the   *)
(* death of the collector process.                                         *)
(***************************************************************************)
EXTENDS LineageRows, FiniteSets

CONSTANTS Requests,  \* the POST /lineage calls of a behaviour
          MaxId,     \* bound on outbox.id, a BIGSERIAL
          PoolSize   \* database connections (db.init_pool: 10)

\* HTTP status codes, and "lost" for a connection that dropped unanswered.
Answers == {"202", "400", "500", "lost"}

ASSUME PoolAssumption     == PoolSize \in Nat \ {0} /\ MaxId \in Nat
ASSUME RequestsAssumption == NULL \notin Requests \cup Answers

VARIABLES
    db,        \* [Keys -> row or NULL], committed
    wip,       \* [Keys -> row or NULL], newest version
    owner,     \* [Keys -> request whose transaction has locked the row, or NULL]
    nextId,    \* the sequence behind outbox.id; a rollback does not return ids
    outbox,    \* committed outbox entries
    event,     \* [Requests -> Events], the body of each request
    pc,        \* "posted", "open" (in the transaction), "committed" or "aborted"
    step,      \* the next statement of the transaction
    outboxId,  \* the id the transaction's outbox INSERT was given, 0 before it
    answer     \* [Requests -> Answers or NULL]

vars == <<db, wip, owner, nextId, outbox, event, pc, step, outboxId, answer>>

Row == JobRows \cup RunRows \cup ConnRows \cup DatasetRows \cup EdgeRows

TypeOK ==
    /\ db \in [Keys -> Row \cup {NULL}] /\ \A k \in Keys : db[k] \in RowsOf(k) \cup {NULL}
    /\ wip \in [Keys -> Row \cup {NULL}] /\ \A k \in Keys : wip[k] \in RowsOf(k) \cup {NULL}
    /\ owner \in [Keys -> Requests \cup {NULL}]
    /\ nextId \in Nat \ {0}
    /\ outbox \subseteq [id: Nat \ {0}, request: Requests, event: Events]
    /\ event \in [Requests -> Events]
    /\ pc \in [Requests -> {"posted", "open", "committed", "aborted"}]
    /\ step \in [Requests -> Nat]
    /\ outboxId \in [Requests -> Nat]
    /\ answer \in [Requests -> Answers \cup {NULL}]

Init ==
    /\ db \in InitialTables
    /\ wip = db
    /\ owner = [k \in Keys |-> NULL]
    /\ nextId = 1
    /\ outbox = {}
    /\ event \in [Requests -> Events]
    /\ pc = [t \in Requests |-> "posted"]
    /\ step = [t \in Requests |-> 1]
    /\ outboxId = [t \in Requests |-> 0]
    /\ answer = [t \in Requests |-> NULL]

-----------------------------------------------------------------------------
(* The handler, one action per statement it awaits. *)

Open == {t \in Requests : pc[t] = "open"}

\* pool.acquire() and BEGIN
Begin(t) ==
    /\ pc[t] = "posted" /\ answer[t] = NULL
    /\ Cardinality(Open) < PoolSize
    /\ pc' = [pc EXCEPT ![t] = "open"]
    /\ UNCHANGED <<db, wip, owner, nextId, outbox, event, step, outboxId, answer>>

Working(t)    == pc[t] = "open" /\ step[t] <= Len(Plan(event[t]))
Target(t)     == Plan(event[t])[step[t]]
BadTime(t)    == Target(t).tbl = "job_run" /\ event[t].time = NULL

\* A bug, for mutation: read-modify-write without a row lock.
NeverBlocked(t) == FALSE
Blocked(t)      == owner[Target(t)] \notin {NULL, t}

\* The next upsert: of the job, the run, a connection, a dataset or an edge.
UpsertRow(t) ==
    /\ Working(t) /\ ~BadTime(t) /\ ~Blocked(t)
    /\ LET k == Target(t)
       IN  /\ wip' = [wip EXCEPT ![k] = Upsert(event[t], k, wip[k])]
           /\ owner' = [owner EXCEPT ![k] = t]
    /\ step' = [step EXCEPT ![t] = @ + 1]
    /\ UNCHANGED <<db, nextId, outbox, event, pc, outboxId, answer>>

\* A bug, for mutation: the outbox entry is written outside the transaction.
AppendOutboxOutside(t) ==
    /\ pc[t] = "open" /\ step[t] = Len(Plan(event[t])) + 1
    /\ nextId <= MaxId
    /\ outboxId' = [outboxId EXCEPT ![t] = nextId]
    /\ nextId' = nextId + 1
    /\ step' = [step EXCEPT ![t] = @ + 1]
    /\ outbox' = outbox \cup {[id |-> nextId, request |-> t, event |-> event[t]]}
    /\ UNCHANGED <<db, wip, owner, event, pc, answer>>

AppendOutbox(t) ==
    /\ pc[t] = "open" /\ step[t] = Len(Plan(event[t])) + 1
    /\ nextId <= MaxId
    /\ outboxId' = [outboxId EXCEPT ![t] = nextId]
    /\ nextId' = nextId + 1
    /\ step' = [step EXCEPT ![t] = @ + 1]
    /\ UNCHANGED <<db, wip, owner, outbox, event, pc, answer>>

Commit(t) ==
    /\ pc[t] = "open" /\ step[t] = Len(Plan(event[t])) + 2
    /\ db' = [k \in Keys |-> IF owner[k] = t THEN wip[k] ELSE db[k]]
    /\ owner' = [k \in Keys |-> IF owner[k] = t THEN NULL ELSE owner[k]]
    /\ outbox' = outbox \cup {[id |-> outboxId[t], request |-> t, event |-> event[t]]}
    /\ pc' = [pc EXCEPT ![t] = "committed"]
    /\ UNCHANGED <<wip, nextId, event, step, outboxId, answer>>

\* A bug, for mutation: 202 is sent before the transaction has committed.
RespondEarly(t) ==
    /\ pc[t] \in {"open", "committed"} /\ answer[t] = NULL
    /\ answer' = [answer EXCEPT ![t] = "202"]
    /\ UNCHANGED <<db, wip, owner, nextId, outbox, event, pc, step, outboxId>>

Respond(t) ==
    /\ pc[t] = "committed" /\ answer[t] = NULL
    /\ answer' = [answer EXCEPT ![t] = "202"]
    /\ UNCHANGED <<db, wip, owner, nextId, outbox, event, pc, step, outboxId>>

-----------------------------------------------------------------------------
(* Failures.  The transactions in T are rolled back. *)

\* A bug, for mutation: the connection goes back to the pool mid-transaction.
RollbackForgotten(T) ==
    /\ pc' = [t \in Requests |-> IF t \in T THEN "aborted" ELSE pc[t]]
    /\ UNCHANGED <<db, wip, owner, nextId, outbox, event, step, outboxId>>

Rollback(T) ==
    /\ wip' = [k \in Keys |-> IF owner[k] \in T THEN db[k] ELSE wip[k]]
    /\ owner' = [k \in Keys |-> IF owner[k] \in T THEN NULL ELSE owner[k]]
    /\ pc' = [t \in Requests |-> IF t \in T THEN "aborted" ELSE pc[t]]
    /\ outboxId' = [t \in Requests |-> IF t \in T THEN 0 ELSE outboxId[t]]
    /\ UNCHANGED <<db, nextId, outbox, event, step>>

\* A bug, for mutation: the exception leaves the block that would roll back.
RejectTimeKeepsWrites(t) ==
    /\ Working(t) /\ BadTime(t)
    /\ db' = [k \in Keys |-> IF owner[k] = t THEN wip[k] ELSE db[k]]
    /\ owner' = [k \in Keys |-> IF owner[k] = t THEN NULL ELSE owner[k]]
    /\ pc' = [pc EXCEPT ![t] = "aborted"]
    /\ answer' = [answer EXCEPT ![t] = "400"]
    /\ UNCHANGED <<wip, nextId, outbox, event, step, outboxId>>

\* datetime.fromisoformat raises ValueError once the job has been upserted.
RejectTime(t) ==
    /\ Working(t) /\ BadTime(t)
    /\ Rollback({t})
    /\ answer' = [answer EXCEPT ![t] = "400"]

\* A PostgresError from any statement, or from COMMIT.
DatabaseError(t) ==
    /\ pc[t] = "open"
    /\ Rollback({t})
    /\ answer' = [answer EXCEPT ![t] = "500"]

\* The connection drops after Postgres committed and before the handler hears
\* of it: the client is told of an error although the event was applied.
LoseCommitReply(t) ==
    /\ pc[t] = "committed" /\ answer[t] = NULL
    /\ answer' = [answer EXCEPT ![t] = "500"]
    /\ UNCHANGED <<db, wip, owner, nextId, outbox, event, pc, step, outboxId>>

\* t waits on a row of u's.
WaitsFor(t, u) == Working(t) /\ ~BadTime(t) /\ t # u /\ owner[Target(t)] = u

\* t is on a cycle of transactions that wait for each other.
Deadlocked(t) ==
    \E C \in SUBSET Requests : /\ t \in C
                               /\ \A u \in C : \E v \in C : WaitsFor(u, v)
                               /\ \A v \in C : \E u \in C : WaitsFor(u, v)

\* Postgres aborts one transaction of such a cycle after deadlock_timeout.
BreakDeadlock(t) == Deadlocked(t) /\ DatabaseError(t)

\* The collector process dies: Postgres rolls back what was open, and the
\* clients of the requests in flight see the connection drop.
Crash ==
    LET inFlight == {t \in Requests : answer[t] = NULL /\ pc[t] # "posted"}
    IN  /\ inFlight # {}
        /\ Rollback(Open)
        /\ answer' = [t \in Requests |-> IF t \in inFlight THEN "lost" ELSE answer[t]]

-----------------------------------------------------------------------------
Handler(t) == \/ Begin(t) \/ UpsertRow(t) \/ AppendOutbox(t) \/ Commit(t) \/ Respond(t)
              \/ RejectTime(t)

Next == \/ \E t \in Requests : Handler(t) \/ DatabaseError(t) \/ BreakDeadlock(t)
                               \/ LoseCommitReply(t)
        \/ Crash

\* The handlers are scheduled by the event loop and Postgres detects every
\* deadlock; errors and crashes need not happen.
Fairness == \A t \in Requests : WF_vars(Handler(t)) /\ WF_vars(BreakDeadlock(t))

Spec     == Init /\ [][Next]_vars
FairSpec == Spec /\ Fairness

-----------------------------------------------------------------------------
(* Correctness. *)

\* A request's fate as its database transaction decided it.
Verdict == [t \in Requests |-> CASE pc[t] = "committed" -> "applied"
                                 [] pc[t] = "aborted"   -> "refused"
                                 [] OTHER               -> "pending"]

Abs == INSTANCE AtomicIngest WITH verdict <- Verdict

\* Concurrent, failing and crashing transactions look to everybody else like
\* requests applied one at a time, all or nothing, with outbox ids that
\* follow the order in which conflicting events were applied.
ImplementsAtomicIngest == Abs!Spec

\* Two-phase locking: a row nobody has locked has one version; a locked row
\* belongs to a running transaction, and its newest version is what that
\* transaction's event makes of the committed one, however often the event
\* names the row.
RowVersions ==
    \A k \in Keys :
        IF owner[k] = NULL
          THEN wip[k] = db[k]
          ELSE /\ pc[owner[k]] = "open"
               /\ k \in Touched(event[owner[k]])
               /\ wip[k] = Upsert(event[owner[k]], k, db[k])

\* A transaction holds the rows of the statements it has executed, gets its
\* outbox id after the last of them, and passes the job_run statement only if
\* the event's time parses.
StepsInv ==
    \A t \in Requests :
        LET plan == Plan(event[t])
        IN  /\ pc[t] = "posted" => step[t] = 1 /\ outboxId[t] = 0
            /\ pc[t] = "open" =>
                 /\ step[t] \in 1 .. Len(plan) + 2
                 /\ outboxId[t] # 0 <=> step[t] = Len(plan) + 2
                 /\ \A i \in 1 .. Len(plan) : i < step[t] => owner[plan[i]] = t
                 /\ step[t] > 2 => event[t].time # NULL
            /\ pc[t] = "committed" => outboxId[t] # 0 /\ event[t].time # NULL
            /\ pc[t] = "aborted" => outboxId[t] = 0

\* Outbox ids are distinct, the outbox holds the committed transactions, and a
\* transaction that has its id commits after every conflicting smaller id.
IdsInv ==
    /\ \A t \in Requests : outboxId[t] < nextId /\ outboxId[t] <= MaxId
    /\ \A t, u \in Requests : t # u /\ outboxId[t] # 0 => outboxId[t] # outboxId[u]
    /\ outbox = {[id |-> outboxId[t], request |-> t, event |-> event[t]] :
                    t \in {u \in Requests : pc[u] = "committed"}}
    /\ \A t \in Requests : pc[t] = "open" /\ outboxId[t] # 0 =>
          \A o \in outbox : Conflict(o.event, event[t]) => o.id < outboxId[t]

\* The inductive invariant: what locks and ids guarantee between statements.
IndInv == TypeOK /\ RowVersions /\ StepsInv /\ IdsInv

\* The tables after the entries of A with ids up to n are applied to tables, one
\* after the other in id order.
Replay(A, tables) ==
    LET replay[n \in 0 .. MaxId] ==
            IF n = 0 THEN tables
            ELSE IF \A o \in A : o.id # n THEN replay[n - 1]
            ELSE ApplyEvent((CHOOSE o \in A : o.id = n).event, replay[n - 1])
    IN  replay

\* Replaying the outbox in id order from the tables as they were before the
\* first event gives exactly the committed tables: the transactional outbox
\* loses nothing, invents nothing, and its ids are a valid order.
ReplayMatchesTables == \E tables \in InitialTables : Replay(outbox, tables)[MaxId] = db

\* A downstream worker that reads the outbox in id order never meets, after an
\* entry, an earlier id of an event that shares a row with it.
ConflictsCommitInIdOrder ==
    [][\A o \in outbox' \ outbox : \A p \in outbox :
           Conflict(o.event, p.event) => p.id < o.id]_vars

\* What the client is told agrees with the database: 202 means applied, 400
\* means nothing was kept, and only an applied event is in the outbox, once.
\* (500 and a dropped connection leave the client in doubt.)
AnswerTruthful ==
    \A t \in Requests :
        LET mine == {o \in outbox : o.request = t}
        IN  /\ answer[t] = "202" => \E o \in mine : mine = {o} /\ o.event = event[t]
            /\ answer[t] = "400" => mine = {} /\ event[t].time = NULL
            /\ mine # {} => event[t].time # NULL

\* row is the summary of a run to which the outbox entries A were applied: the
\* first START dates the start, the last terminal event decides end and
\* status, and without a terminal event the first event's status stands.
First(o, A)  == \A p \in A : o.id <= p.id
Latest(o, A) == \A p \in A : p.id <= o.id

Summarises(row, A) ==
    LET starts == {o \in A : o.event.type = "START"}
        ends   == {o \in A : IsTerminal(o.event)}
    IN  /\ row = NULL <=> A = {}
        /\ row # NULL =>
             /\ starts = {} => row.started = NULL
             /\ \A o \in starts : First(o, starts) => row.started = o.event.time
             /\ ends = {} => row.ended = NULL
             /\ ends = {} => \A o \in A : First(o, A) => row.status = StatusOf(o.event)
             /\ \A o \in ends : Latest(o, ends) =>
                   row.ended = o.event.time /\ row.status = StatusOf(o.event)

\* A run's row is the summary of the events applied to it, whatever their order
\* and number: late, duplicated, contradictory, a START after the COMPLETE.
RunRowSummarisesEvents ==
    \A j \in Jobs, r \in RunIds :
        Summarises(db[RunKey(j, r)],
                   {o \in outbox : o.event.job = j /\ o.event.run = r})

\* No request waits forever, neither for a connection of the pool nor for a
\* row: waiting transactions form no cycle that outlives deadlock detection.
EveryRequestAnswered == \A t \in Requests : <>(answer[t] # NULL)
=============================================================================
