------------------------------- MODULE MCScanner -------------------------------
(* Small projects with the cases that are hard to get right: two env files    *)
(* that define one name, names that only differ before they become slugs, a   *)
(* compose file with a service that breaks the scanner, a connection without  *)
(* the properties its platform requires, a Python file that is also a DAG.    *)
EXTENDS Scanner, TLC

Url(prefix, hints, host) ==
    [var |-> "url", prefix |-> prefix, hints |-> hints, parses |-> TRUE, host |-> host]
Brokers(prefix) ==
    [var |-> "brokers", prefix |-> prefix, hints |-> {}, parses |-> TRUE, host |-> NULL]
Host(prefix, host) ==
    [var |-> "host", prefix |-> prefix, hints |-> {}, parses |-> TRUE, host |-> host]

Env(plain, lines) == [kind |-> "env", skipped |-> FALSE, plain |-> plain, lines |-> lines]
Compose(fname, services) ==
    [kind |-> "compose", skipped |-> FALSE, fname |-> fname, services |-> services]
Service(name, hints, odd) == [name |-> name, hints |-> hints, odd |-> odd, host |-> "h3"]

Mention(by, schema, t) == [by |-> by, schema |-> schema, table |-> t]
Py(stem, place, reads, writes, dag, mentions) ==
    [kind |-> "py", skipped |-> FALSE, place |-> place, stem |-> stem, imports |-> TRUE,
     reads |-> reads, writes |-> writes, dag |-> dag, mentions |-> mentions]

\* The same prefix in two files, and twice in one of them; a host alone.
DotEnv    == Env(TRUE, <<Url(<<"dwh">>, {"postgresql"}, "h1"), Brokers(<<"cdc">>),
                         Url(<<"dwh">>, {"postgresql"}, "h2"), Host(<<"crm">>, "h1")>>)
DotEnvDev == Env(FALSE, <<Url(<<"dwh">>, {"postgresql"}, "h3"), Url(<<"core">>, {"oracle"}, "h1"),
                          [Url(<<"bad">>, {"mysql"}, "h1") EXCEPT !.parses = FALSE]>>)
DotEnvQa  == [DotEnvDev EXCEPT !.lines = <<Url(<<"core">>, {"mysql"}, "h2"),
                                           Url(<<"core">>, {"oracle"}, "h2")>>]

\* "stg db" and "stg-db" are one name; "_cache" is one the collector refuses; ports
\* that are numbers matter only for a known platform; "-" leaves nothing.
Yml  == Compose(1, <<Service(<<"stg", " ", "db">>, {"kafka", "mysql"}, "no"),
                     Service(<<"web">>, {}, "ports"),
                     Service(<<"_", "cache">>, {"redis"}, "no")>>)
Yaml == Compose(2, <<Service(<<"pg">>, {"postgresql"}, "no"), Service(<<"x">>, {}, "null"),
                     Service(<<"stg", "-", "db">>, {"postgresql"}, "no")>>)
Last4 == Compose(4, <<Service(<<"stg", "-", "db">>, {"postgresql"}, "no"),
                      Service(<<"-">>, {"redis"}, "no")>>)

\* Reads and writes; the table of the connection pg is mentioned twice, and the
\* import line counts as a table.
Etl  == Py(<<"load", " ", "stmt">>, "other", TRUE, TRUE, NULL,
           <<Mention("import", NULL, "pyspark"), Mention("sql", <<"pg">>, "stmt"),
             Mention("table", <<"pg">>, "stmt"), Mention("sql", <<"hr">>, "stmt")>>)
\* The other file of that slug only writes.
Etl2 == Py(<<"load", "-", "stmt">>, "other", FALSE, TRUE, NULL, <<Mention("sql", NULL, "raw_txn")>>)
\* A DAG in the root, which both Python scanners read.
Dag  == Py(<<"daily">>, "root", TRUE, FALSE, <<"daily">>,
           <<Mention("import", NULL, "airflow"), Mention("sql", <<"pg">>, "raw_txn"),
             Mention("table", NULL, "stmt")>>)
Dag2 == [Dag EXCEPT !.place = "dags", !.stem = <<"t">>, !.skipped = TRUE,
                    !.mentions = <<Mention("sql", NULL, "stmt")>>]

MCHome == <<"home">>

MCProjects == {{DotEnv, DotEnvDev, DotEnvQa}, {DotEnvDev, Yml, Last4}, {Yml, Yaml, Last4, Etl},
               {Yaml, Etl, Etl2, Dag}, {Dag, Dag2}}
=============================================================================
