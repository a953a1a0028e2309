----------------------------- MODULE AtomicIngest -----------------------------
(***************************************************************************)
(* What the collector promises its clients about POST /lineage, whatever   *)
(* runs concurrently: every request is either applied once, in one step    *)
(* that upserts all its rows and appends its outbox entry, or refused and  *)
(* leaves nothing behind; and the ids of the outbox entries of events that *)
(* touch a common row follow the order in which the events were applied.   *)
(* Ingest implements this specification.                                   *)
(***************************************************************************)
EXTENDS LineageRows

CONSTANTS Requests,  \* the POST /lineage calls of a behaviour
          MaxId      \* bound on outbox.id, a BIGSERIAL

VARIABLES db,       \* the committed rows, [Keys -> row or NULL]
          outbox,   \* the committed outbox entries
          event,    \* the body of each request
          verdict   \* of each request: "pending", "applied" or "refused"

vars == <<db, outbox, event, verdict>>

Init == /\ db \in InitialTables
        /\ outbox = {}
        /\ event \in [Requests -> Events]
        /\ verdict = [t \in Requests |-> "pending"]

Apply(t) ==
    /\ verdict[t] = "pending"
    /\ db' = ApplyEvent(event[t], db)
    /\ \E id \in 1..MaxId :
         /\ \A o \in outbox : o.id # id /\ (Conflict(o.event, event[t]) => o.id < id)
         /\ outbox' = outbox \cup {[id |-> id, request |-> t, event |-> event[t]]}
    /\ verdict' = [verdict EXCEPT ![t] = "applied"]
    /\ UNCHANGED event

\* A crash refuses several requests at once.
Refuse(T) ==
    /\ \A t \in T : verdict[t] = "pending"
    /\ verdict' = [t \in Requests |-> IF t \in T THEN "refused" ELSE verdict[t]]
    /\ UNCHANGED <<db, outbox, event>>

Next == \/ \E t \in Requests : Apply(t)
        \/ \E T \in SUBSET Requests : Refuse(T)

Spec == Init /\ [][Next]_vars
=============================================================================
