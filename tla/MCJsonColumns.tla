----------------------------- MODULE MCJsonColumns -----------------------------
(* One row of each table and two events for it.                               *)
EXTENDS JsonColumns
=============================================================================
