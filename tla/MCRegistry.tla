------------------------------ MODULE MCRegistry ------------------------------
(* Small instances of Registry: four calls on one name, of every kind, so     *)
(* that a name can be stubbed, registered, changed and deleted while another  *)
(* call has read an older version of it.                                      *)
EXTENDS Registry, TLC

\* PUT may set the platform to "unknown": the next POST then upgrades the row.
Create   == [op |-> "create", platform |-> "kafka", props |-> "kafka", host |-> NULL,
             owner |-> "o1"]
SetHost  == [op |-> "update", platform |-> NULL, props |-> "empty", host |-> "h2", owner |-> NULL]
SetOwner == [op |-> "update", platform |-> "unknown", props |-> NULL, host |-> NULL,
             owner |-> "o2"]
SetNone  == [op |-> "update", platform |-> NULL, props |-> NULL, host |-> NULL, owner |-> NULL]
SetBoth  == [SetNone EXCEPT !.platform = "kafka", !.props = "empty"]
Delete   == [op |-> "delete"]
Stub     == [op |-> "stub"]

AllCalls    == {Create, SetHost, SetOwner, SetNone, SetBoth, Delete, Stub}
CreateCalls == {Create, [Create EXCEPT !.owner = "o2"], Stub}

Symmetry == Permutations(Requests)
=============================================================================
