------------------------------ MODULE MCProducer ------------------------------
(* One Connection object whose with block is entered up to twice, with the    *)
(* same run id as an Airflow retry has it.                                    *)
EXTENDS Producer, TLC

CONSTANTS j1, r1, c1, d1, u1, u2, t1

MCConnOf   == d1 :> c1
MCNsTraits == c1 :> {}

\* The process starts with or without a usable configuration.
MCStartup == {[url |-> u1, emit |-> TRUE], [url |-> NULL, emit |-> FALSE]}
=============================================================================
