------------------------------- MODULE Registry -------------------------------
(***************************************************************************)
(* The connection API (POST, PUT and DELETE /connections) and the stubs    *)
(* that lineage ingestion creates, as concurrent transactions on the row   *)
(* of one logical name.  Calls on different names share only the sequence  *)
(* of audit ids.                                                           *)
(*                                                                         *)
(* Each handler first reads the row without locking it, decides, and then  *)
(* writes.  Under READ COMMITTED the read sees the committed row; the      *)
(* write waits for the transaction that has written the row, if any, and   *)
(* evaluates its WHERE clause on the version that one leaves.              *)
(***************************************************************************)
EXTENDS ConnectionRow, Naturals, FiniteSets

CONSTANTS Requests,  \* the calls of a behaviour
          MaxId      \* bound on audit_log.id, a BIGSERIAL

\* HTTP status codes, or the reply that never arrives.
Answers == {"200", "201", "202", "204", "404", "409", "422", "500", "lost"}

ASSUME RegistryAssumption == MaxId \in Nat /\ NULL \notin Requests \cup Answers

VARIABLES
    row,      \* the committed row of the name, or NULL
    wip,      \* its newest version
    locker,   \* the request whose transaction has written it, or NULL
    nextId,   \* the sequence behind audit_log.id
    log,      \* committed audit entries
    call,     \* [Requests -> Calls]
    pc,       \* "posted", "decided", "written", "logged", "done" or "refused"
    before,   \* the live row the handler read, or NULL
    after,    \* the live row its write returned, or NULL
    auditId,  \* the id of the transaction's audit entry, 0 without one
    answer    \* HTTP status, "lost" for a reply that never arrives, or NULL

vars == <<row, wip, locker, nextId, log, call, pc, before, after, auditId, answer>>

TypeOK ==
    /\ row \in Rows \cup {NULL} /\ wip \in Rows \cup {NULL}
    /\ locker \in Requests \cup {NULL}
    /\ nextId \in Nat \ {0}
    /\ log \subseteq [id: Nat \ {0}, request: Requests, before: Rows \cup {NULL},
                      after: Rows \cup {NULL}]
    /\ call \in [Requests -> Calls]
    /\ pc \in [Requests -> {"posted", "decided", "written", "logged", "done", "refused"}]
    /\ before \in [Requests -> Rows \cup {NULL}]
    /\ after \in [Requests -> Rows \cup {NULL}]
    /\ auditId \in [Requests -> Nat]
    /\ answer \in [Requests -> Answers \cup {NULL}]

Init ==
    /\ row = NULL /\ wip = NULL /\ locker = NULL
    /\ nextId = 1 /\ log = {}
    /\ call \in [Requests -> Calls]
    /\ pc = [t \in Requests |-> "posted"]
    /\ before = [t \in Requests |-> NULL]
    /\ after = [t \in Requests |-> NULL]
    /\ auditId = [t \in Requests |-> 0]
    /\ answer = [t \in Requests |-> NULL]

-----------------------------------------------------------------------------
(* The end of a call that leaves nothing behind: ROLLBACK and an answer. *)

Refuse(t, status) ==
    /\ wip' = IF locker = t THEN row ELSE wip
    /\ locker' = IF locker = t THEN NULL ELSE locker
    /\ pc' = [pc EXCEPT ![t] = "refused"]
    /\ answer' = [answer EXCEPT ![t] = status]
    /\ UNCHANGED <<row, log, call, before, after, auditId>>

(* The validation, the first read of the handler and the decision it takes on it. *)

NameTaken(t) == /\ call[t].op = "create"
                /\ Live(row) # NULL /\ ~IsStub(Live(row))
NotFound(t)  == call[t].op \in {"update", "delete"} /\ Live(row) = NULL

Reject(t) ==
    /\ pc[t] = "posted" /\ call[t].op # "stub"
    /\ \/ Invalid(call[t]) /\ Refuse(t, "422")
       \/ ~Invalid(call[t]) /\ NameTaken(t) /\ Refuse(t, "409")
       \/ ~Invalid(call[t]) /\ NotFound(t) /\ Refuse(t, "404")
    /\ UNCHANGED nextId

\* A bug, for mutation: the read also sees what is not committed.
DecideDirty(t) ==
    /\ pc[t] = "posted" /\ call[t].op # "stub"
    /\ ~Invalid(call[t]) /\ ~NameTaken(t) /\ ~NotFound(t)
    /\ before' = [before EXCEPT ![t] = Live(wip)]
    /\ pc' = [pc EXCEPT ![t] = "decided"]
    /\ UNCHANGED <<row, wip, locker, nextId, log, call, after, auditId, answer>>

Decide(t) ==
    /\ pc[t] = "posted" /\ call[t].op # "stub"
    /\ ~Invalid(call[t]) /\ ~NameTaken(t) /\ ~NotFound(t)
    /\ before' = [before EXCEPT ![t] = Live(row)]
    /\ pc' = [pc EXCEPT ![t] = "decided"]
    /\ UNCHANGED <<row, wip, locker, nextId, log, call, after, auditId, answer>>

-----------------------------------------------------------------------------
(* The write. *)

\* A bug, for mutation: the write goes ahead on the version it sees.
NeverBlocked(t) == FALSE
Blocked(t)      == locker \notin {NULL, t}

\* create() is a plain INSERT, chosen when the read found no live row.
Inserts(t) == call[t].op = "create" /\ before[t] = NULL

\* A bug, for mutation: UPDATE and soft delete without AND deleted_at IS NULL.
CanWriteDeleted(t) == IF Inserts(t) THEN wip = NULL ELSE wip # NULL

\* INSERT succeeds if no row has the name, dead or alive; UPDATE and the soft
\* delete find a row if it is alive.
CanWrite(t) == IF Inserts(t) THEN wip = NULL ELSE Live(wip) # NULL

\* A bug, for mutation: the new row is computed from the one the handler read.
WriteFromRead(t) ==
    /\ pc[t] = "decided" /\ Changes(call[t]) /\ ~Blocked(t)
    /\ CanWrite(t)
    /\ wip' = Outcome(call[t], before[t])
    /\ locker' = t
    /\ after' = [after EXCEPT ![t] = Live(wip')]
    /\ pc' = [pc EXCEPT ![t] = "written"]
    /\ UNCHANGED <<row, nextId, log, call, before, auditId, answer>>

Write(t) ==
    /\ pc[t] = "decided" /\ Changes(call[t]) /\ ~Blocked(t)
    /\ CanWrite(t)
    /\ wip' = Outcome(call[t], wip)
    /\ locker' = t
    /\ after' = [after EXCEPT ![t] = Live(wip')]
    /\ pc' = [pc EXCEPT ![t] = "written"]
    /\ UNCHANGED <<row, nextId, log, call, before, auditId, answer>>

\* The row is not what the read promised.  A delete answers 404; INSERT raises
\* UniqueViolationError; an update that returns no row fails an assertion, for
\* the upgrade of a stub only after its audit entry was inserted.
WriteFails(t) ==
    /\ pc[t] = "decided" /\ Changes(call[t]) /\ ~Blocked(t)
    /\ ~CanWrite(t)
    /\ Refuse(t, IF call[t].op = "delete" THEN "404" ELSE "500")
    /\ nextId' = IF call[t].op = "create" /\ before[t] # NULL THEN nextId + 1 ELSE nextId
    /\ nextId' <= MaxId + 1

\* A PUT that names no column reads the row a second time instead.
ReadAgain(t) ==
    /\ pc[t] = "decided" /\ ~Changes(call[t])
    /\ IF Live(row) = NULL
         THEN Refuse(t, "500") /\ UNCHANGED nextId
         ELSE /\ after' = [after EXCEPT ![t] = Live(row)]
              /\ pc' = [pc EXCEPT ![t] = "written"]
              /\ UNCHANGED <<row, wip, locker, nextId, log, call, before, auditId, answer>>

AppendAudit(t) ==
    /\ pc[t] = "written" /\ nextId <= MaxId
    /\ auditId' = [auditId EXCEPT ![t] = nextId]
    /\ nextId' = nextId + 1
    /\ pc' = [pc EXCEPT ![t] = "logged"]
    /\ UNCHANGED <<row, wip, locker, log, call, before, after, answer>>

\* An ingest transaction upserts the connection of a dataset it names, and
\* keeps the row locked while it works on other tables.
UpsertStub(t) ==
    /\ pc[t] = "posted" /\ call[t].op = "stub" /\ ~Blocked(t)
    /\ wip' = UpsertMinimal(wip)
    /\ locker' = t
    /\ pc' = [pc EXCEPT ![t] = "logged"]
    /\ UNCHANGED <<row, nextId, log, call, before, after, auditId, answer>>

-----------------------------------------------------------------------------
Entry(t) == [id |-> auditId[t], request |-> t, before |-> before[t], after |-> after[t]]

Success(t) == CASE call[t].op = "create" -> "201"
                [] call[t].op = "update" -> "200"
                [] call[t].op = "delete" -> "204"
                [] call[t].op = "stub"   -> "202"

\* A bug, for mutation: the audit entry is written in its own transaction.
CommitUnaudited(t) ==
    /\ pc[t] = "logged"
    /\ row' = IF locker = t THEN wip ELSE row
    /\ locker' = IF locker = t THEN NULL ELSE locker
    /\ pc' = [pc EXCEPT ![t] = "done"]
    /\ \E status \in {Success(t), "lost"} : answer' = [answer EXCEPT ![t] = status]
    /\ UNCHANGED <<wip, nextId, log, call, before, after, auditId>>

\* The connection may drop after the commit: the caller then sees no reply.
Commit(t) ==
    /\ pc[t] = "logged"
    /\ row' = IF locker = t THEN wip ELSE row
    /\ locker' = IF locker = t THEN NULL ELSE locker
    /\ log' = IF auditId[t] = 0 THEN log ELSE log \cup {Entry(t)}
    /\ pc' = [pc EXCEPT ![t] = "done"]
    /\ \E status \in {Success(t), "lost"} : answer' = [answer EXCEPT ![t] = status]
    /\ UNCHANGED <<wip, nextId, call, before, after, auditId>>

\* A database error, or the death of the collector, before the commit.
Fail(t) ==
    /\ pc[t] \notin {"done", "refused"}
    /\ \E status \in {"500", "lost"} : Refuse(t, status)
    /\ UNCHANGED nextId

Next == \E t \in Requests :
            \/ Reject(t) \/ Decide(t) \/ Write(t) \/ WriteFails(t) \/ ReadAgain(t)
            \/ AppendAudit(t) \/ UpsertStub(t) \/ Commit(t) \/ Fail(t)

Spec == Init /\ [][Next]_vars

-----------------------------------------------------------------------------
(* Correctness. *)

Fate == [t \in Requests |-> CASE pc[t] = "done"    -> "done"
                              [] pc[t] = "refused" -> "refused"
                              [] OTHER             -> "pending"]

Shown == {[id |-> o.id, request |-> o.request, after |-> o.after] : o \in log}

Abs == INSTANCE AtomicRegistry WITH fate <- Fate, log <- Shown

\* Read, decide, wait, write, log and commit look to everybody else like one
\* step on the row as it is when the step is taken.
ImplementsAtomicRegistry == Abs!Spec

\* The audit entries of calls that change the row; a PUT that names no column
\* leaves one that shows what it read.
ChangeEntries == {o \in log : Changes(call[o.request])}

\* The audit entry with the largest id, leaving aside PUTs that name no column,
\* shows the connection as it is now, although ids are given out before the
\* commit and entries become visible at the commit; a connection without such
\* an entry is unused or an untouched stub.
LatestAuditShowsRow ==
    /\ ChangeEntries = {} => row \in {NULL, UpsertMinimal(NULL)}
    /\ \A o \in ChangeEntries : (\A p \in ChangeEntries : p.id <= o.id) => o.after = Live(row)

\* Entry p comes just before entry o.
Precedes(p, o) == p.id < o.id /\ \A q \in ChangeEntries : q.id < o.id => q.id <= p.id

\* Entry o shows what its call makes of the state the entry just before shows or, if
\* it is the first, of nothing or a stub.
Continues(o) ==
    \/ /\ \A p \in ChangeEntries : o.id <= p.id
       /\ o.after = Live(Outcome(call[o.request], UpsertMinimal(NULL)))
    \/ \E p \in ChangeEntries : /\ Precedes(p, o) /\ p.after # NULL
                                 /\ o.after = Live(Outcome(call[o.request], p.after))

\* Read by id, the log is the history of the connection: each change was applied
\* to the state that the entry before it shows, none follows a deletion, and the
\* last one shows the connection as it is now.
LogIsHistory == LatestAuditShowsRow /\ \A o \in ChangeEntries : Continues(o)

\* The "before" of an audit entry need not be the state its call replaced, since
\* the handler reads the row without locking it; but it is a state that an entry
\* with a smaller id shows, or a stub, and never the work of a call that was rolled
\* back or that is numbered later.
WasShown(r, id) ==
    \/ r \in {NULL, UpsertMinimal(NULL)}
    \/ \E p \in ChangeEntries : p.id < id /\ p.after = r

BeforeWasShown == \A o \in log : WasShown(o.before, o.id)

\* A PUT changes only the columns it names, with respect to the row it finds when
\* it takes effect and not to the one its handler read: concurrent PUTs of
\* different columns all survive.
UpdateKeepsOtherColumns ==
    [][\A t \in Requests :
           call[t].op = "update" /\ pc[t] # "done" /\ pc'[t] = "done" =>
               \A col \in Columns :
                   call[t][col] = NULL => row'[col] = row[col]]_vars

\* A deleted connection stays deleted and keeps its last columns: neither a
\* call that read it alive, nor a new registration, nor an event that names it
\* changes the row again.
DeletedRowIsFrozen == [][row # NULL /\ row.deleted => row' = row]_vars

\* A caller that is told of success finds its call in the audit log, once, with
\* every column it gave; one that is told 404, 409 or 422 left no trace.
AnswerMatchesAudit ==
    \A t \in Requests :
        LET mine == {o \in log : o.request = t}
        IN  /\ answer[t] \in {"200", "201"} =>
                 \E o \in mine : /\ mine = {o} /\ o.after # NULL
                                 /\ \A col \in Columns :
                                       call[t][col] # NULL => o.after[col] = call[t][col]
            /\ answer[t] = "204" => \E o \in mine : mine = {o} /\ o.after = NULL
            /\ answer[t] \in {"404", "409", "422"} => mine = {}

\* A registered connection has the properties its platform requires, unless a PUT
\* gave one of the two columns without the other; no race of two calls that are
\* both checked, and no upgrade of a stub, breaks the rule.
HalfUpdatesBreakTheRule ==
    [][LET Broken(r) == r # NULL /\ ~Conforms(r.platform, r.props)
           Half(c)   == c.op = "update" /\ (c.platform = NULL) # (c.props = NULL)
       IN  Broken(row') /\ ~Broken(row) =>
               \E t \in Requests : pc[t] # "done" /\ pc'[t] = "done" /\ Half(call[t])]_vars

-----------------------------------------------------------------------------
(* What a document says and the code does not do. *)

\* docs/API.md:250 says POST answers 409 for a name that exists and is no stub.
\* Two callers that both read a stub both upgrade it.
RegistrationIsNotReplaced ==
    [][\A t \in Requests : call[t].op = "create" /\ pc[t] # "done" /\ pc'[t] = "done" =>
           Live(row) = NULL \/ IsStub(Live(row))]_vars
=============================================================================
