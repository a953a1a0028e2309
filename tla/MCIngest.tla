------------------------------- MODULE MCIngest -------------------------------
(* Small instances of Ingest: two jobs, one run each, two datasets on two    *)
(* connections that the two jobs read and write in opposite directions, so   *)
(* their transactions lock shared rows in opposite orders.                   *)
EXTENDS Ingest, TLC

CONSTANTS j1, j2, r1, c1, c2, d1, d2, m1, m2, q1, q2, q3

MCConnOf   == (d1 :> c1) @@ (d2 :> c2)
MCNsTraits == (c1 :> {"kafka", "iceberg"}) @@ (c2 :> {})

Ev(j, type, time, producer, ins, outs, iceberg, col) ==
    [job |-> j, run |-> r1, type |-> type, time |-> time, producer |-> producer,
     inputs |-> ins, outputs |-> outs, iceberg |-> iceberg,
     cols |-> [d \in Datasets |-> col]]

\* j1 reads d1 and writes d2; j2 the other way round.
Start1    == Ev(j1, "START", 1, {"airflow", "python"}, <<d1>>, <<d2>>, {}, NULL)
Running1  == Ev(j1, "RUNNING", 2, {}, <<>>, <<>>, {}, NULL)
Complete1 == Ev(j1, "COMPLETE", 3, {"spark"}, <<d1>>, <<d2>>, {d2}, m1)
Fail1     == Ev(j1, "FAIL", 2, {}, <<>>, <<d2, d2>>, {}, m2)
Start2    == Ev(j2, "START", 1, {"python"}, <<d2>>, <<d1>>, {}, NULL)
Garbled2  == Ev(j2, "COMPLETE", NULL, {"flink"}, <<d2>>, <<>>, {}, NULL)

\* The same run again at other instants.
Restart1  == Ev(j1, "START", 2, {}, <<>>, <<>>, {}, NULL)
Abort1    == Ev(j1, "ABORT", 1, {}, <<>>, <<>>, {}, NULL)

CrossEvents  == {Complete1, Start2, Garbled2}
OneRunEvents == {Running1, Restart1, Abort1, Fail1, [Start1 EXCEPT !.inputs = <<>>]}

\* Either three events that lock the same rows in opposite orders, or three of
\* one run, which do not touch the connection c1; never a mixture.
AllEvents  == CrossEvents \cup OneRunEvents
SafetyInit == /\ Init
              /\ \/ \A t \in Requests : event[t] \in CrossEvents
                 \/ /\ \A t \in Requests : event[t] \in OneRunEvents
                    /\ ~db[ConnKey(c1)].deleted
SafetySpec == SafetyInit /\ [][Next]_vars

\* Two transactions that may deadlock and a third that waits for the pool.
LiveEvents == {Start1, Start2, Restart1}
LiveInit   == Init /\ event = (q1 :> Start1) @@ (q2 :> Start2) @@ (q3 :> Restart1)
LiveSpec   == LiveInit /\ [][Next]_vars /\ Fairness

Symmetry == Permutations(Requests)
=============================================================================
