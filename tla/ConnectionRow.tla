----------------------------- MODULE ConnectionRow -----------------------------
(***************************************************************************)
(* One row of the connection table and what the statements of the          *)
(* connection API and of the ingestion make of it.                         *)
(*                                                                         *)
(* Two nullable columns, host and owner, stand for the seven that the      *)
(* platform does not constrain.  logical_name is the key and never         *)
(* changes; created_at and updated_at are left out; of deleted_at only     *)
(* whether it is set.  Of properties only this matters: the platform whose *)
(* required keys they hold, or "empty" (no keys, or those of none).        *)
(***************************************************************************)
CONSTANTS
    Platforms,  \* values of platform that callers register
    Hosts,      \* values of host
    Owners,     \* values of owner_team
    Calls,      \* what callers ask for
    NULL

\* The platforms whose properties have required keys.
Strict == {"kafka", "oracle", "trino", "iceberg"}
Props  == Strict \cup {"empty"}

\* A stub is a row with platform "unknown"; nothing keeps a caller from
\* registering that platform.
Rows == [platform: Platforms \cup {"unknown"}, props: Props, host: Hosts \cup {NULL},
         owner: Owners \cup {NULL}, deleted: BOOLEAN]

\* A column a PUT leaves out, or gives as null, is NULL; a POST gives every
\* column, platform is required and properties default to {}.  "stub" is an
\* ingested event that names the connection as the namespace of a dataset.
Call == [op: {"create"}, platform: Platforms \cup {"unknown"}, props: Props,
         host: Hosts \cup {NULL}, owner: Owners \cup {NULL}]
        \cup [op: {"update"}, platform: Platforms \cup {"unknown", NULL},
              props: Props \cup {NULL}, host: Hosts \cup {NULL}, owner: Owners \cup {NULL}]
        \cup [op: {"delete", "stub"}]

ASSUME CallsAssumption    == Calls \subseteq Call
ASSUME NullRowAssumption  == NULL \notin Rows \cup Platforms \cup Hosts \cup Owners \cup Props \cup {"unknown"}

\* What a reader sees of a row: WHERE deleted_at IS NULL.
Live(r) == IF r = NULL \/ r.deleted THEN NULL ELSE r

IsStub(r) == r.platform = "unknown"

Columns == {"platform", "props", "host", "owner"}

\* The properties hold the keys the platform requires.
Conforms(platform, props) == platform \in Strict => props = platform

\* A bug, for mutation: only POST validates the properties.
InvalidCreate(c) == c.op = "create" /\ ~Conforms(c.platform, c.props)

\* The body does not validate (422).  A PUT that gives only one of the two
\* columns is not checked against the other.
Invalid(c) == /\ c.op \in {"create", "update"}
              /\ c.platform # NULL /\ c.props # NULL /\ ~Conforms(c.platform, c.props)

\* The call writes the row; a PUT that names no column does not.
Changes(c) == \/ c.op \in {"create", "delete"}
              \/ c.op = "update" /\ \E col \in Columns : c[col] # NULL

Given(value, old) == IF value # NULL THEN value ELSE old

\* A bug, for mutation: the update writes the columns the call leaves out too.
OutcomeOverwrites(c, r) ==
    CASE c.op \in {"create", "update"} ->
             [platform |-> Given(c.platform, "unknown"), props |-> Given(c.props, "empty"),
              host |-> c.host, owner |-> c.owner, deleted |-> FALSE]
      [] c.op = "delete" -> [r EXCEPT !.deleted = TRUE]

\* The row after INSERT, UPDATE ... SET or the soft delete.  The upgrade of a
\* stub sets every column, to NULL where the caller gave nothing.
Outcome(c, r) ==
    CASE c.op = "create" -> [platform |-> c.platform, props |-> c.props, host |-> c.host,
                             owner |-> c.owner, deleted |-> FALSE]
      [] c.op = "update" -> [r EXCEPT !.platform = Given(c.platform, @),
                                      !.props = Given(c.props, @),
                                      !.host = Given(c.host, @),
                                      !.owner = Given(c.owner, @)]
      [] c.op = "delete" -> [r EXCEPT !.deleted = TRUE]

\* A bug, for mutation: the stub is inserted without its default platform.
UpsertWithoutPlatform(r) ==
    IF r = NULL THEN [platform |-> NULL, props |-> "empty", host |-> NULL, owner |-> NULL,
                      deleted |-> FALSE]
                ELSE r

UpsertMinimal(r) ==
    IF r = NULL THEN [platform |-> "unknown", props |-> "empty", host |-> NULL, owner |-> NULL,
                      deleted |-> FALSE]
                ELSE r
=============================================================================
