---------------------------- MODULE AtomicRegistry ----------------------------
(***************************************************************************)
(* What the connection API promises about one logical name, whatever runs  *)
(* concurrently: every call takes effect once, in one step, on the row as  *)
(* it then is, or not at all; the row of a deleted connection never        *)
(* changes again; and each effective call appends one audit entry whose id *)
(* is above those of the calls that took effect before it.                 *)
(*                                                                         *)
(* It does not promise what a caller might expect: a create may replace a  *)
(* connection another create has just registered, and the before_state of  *)
(* an audit entry need not be the state the call replaced.                 *)
(***************************************************************************)
EXTENDS ConnectionRow, Naturals

CONSTANTS Requests,  \* the calls of a behaviour
          MaxId      \* bound on audit_log.id, a BIGSERIAL

VARIABLES row,   \* the row of the name, or NULL
          log,   \* the audit entries of the name
          call,  \* [Requests -> Calls]
          fate   \* of each call: "pending", "done" or "refused"

vars == <<row, log, call, fate>>

Init == /\ row = NULL
        /\ log = {}
        /\ call \in [Requests -> Calls]
        /\ fate = [t \in Requests |-> "pending"]

\* An audit entry of t that shows the row as r.
Append(t, r, ids) ==
    \E id \in ids : log' = log \cup {[id |-> id, request |-> t, after |-> r]}

Unused == {id \in 1..MaxId : \A o \in log : o.id # id}
Later  == {id \in Unused : \A o \in log : Changes(call[o.request]) => o.id < id}

\* A call that changes the row: a create of an absent or live name, an update
\* or a delete of a live one.
Take(t) ==
    /\ Changes(call[t])
    /\ Live(row) # NULL \/ (row = NULL /\ call[t].op = "create")
    /\ row' = Outcome(call[t], row)
    /\ Append(t, Live(row'), Later)

\* An update that names no column only writes down a version it has seen.
Note(t) ==
    /\ call[t].op = "update" /\ ~Changes(call[t])
    /\ row # NULL /\ UNCHANGED row
    /\ \E r \in Rows : ~r.deleted /\ Append(t, r, Unused)

\* The ingestion of an event creates the stub of a name nobody has used.
Stub(t) == call[t].op = "stub" /\ row' = UpsertMinimal(row) /\ UNCHANGED log

Effect(t) == /\ fate[t] = "pending"
             /\ Take(t) \/ Note(t) \/ Stub(t)
             /\ fate' = [fate EXCEPT ![t] = "done"]
             /\ UNCHANGED call

Refuse(t) == /\ fate[t] = "pending"
             /\ fate' = [fate EXCEPT ![t] = "refused"]
             /\ UNCHANGED <<row, log, call>>

Next == \E t \in Requests : Effect(t) \/ Refuse(t)

Spec == Init /\ [][Next]_vars
=============================================================================
