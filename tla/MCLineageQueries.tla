--------------------------- MODULE MCLineageQueries ---------------------------
(* Every lineage graph of two jobs and three datasets on two connections: each *)
(* event of the instance adds an edge or two, in any order.  A job links all    *)
(* its inputs to all its outputs, so two jobs suffice for self-loops, cycles,   *)
(* diamonds and shortcuts over three datasets.  Two of the datasets have one    *)
(* FQN, t24.core.txn.                                                           *)
EXTENDS LineageQueries, TLC

D(ns, name) == [ns |-> ns, name |-> name]

MCDatasets == {D(<<"t24">>, <<"stmt">>), D(<<"t24">>, <<"core", "txn">>), D(<<"t24", "core">>, <<"txn">>)}
MCAsked    == {<<"t24">>}
MCDeleted  == {<<"t24">>}

OneEdge == [job: Jobs, inputs: {{d} : d \in Datasets}, outputs: {{}}]
             \cup [job: Jobs, inputs: {{}}, outputs: {{d} : d \in Datasets}]
\* An event that copies one dataset to another connection.
Copies  == [job: Jobs, inputs: {{D(<<"t24">>, <<"stmt">>)}}, outputs: {{D(<<"t24", "core">>, <<"txn">>)}}]

MCEvents == OneEdge \cup Copies

Symmetry == Permutations(Jobs)
=============================================================================
