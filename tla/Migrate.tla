-------------------------------- MODULE Migrate --------------------------------
(***************************************************************************)
(* migrations/migrate.sh: applies the SQL files in order and records each  *)
(* one in schema_migrations.  The container of the collector runs it on    *)
(* every start (migrate.sh && uvicorn), so it is killed and run again, and *)
(* two containers run it at once.                                          *)
(*                                                                         *)
(* psql commits every statement of a file on its own, the check, the file  *)
(* and the record are three sessions, and nothing locks out a second run.  *)
(* A statement is its place in its file; all of them create an object.     *)
(***************************************************************************)
EXTENDS Naturals, FiniteSets

CONSTANTS
    Runs,        \* the executions of the script
    MaxActive,   \* bound on the executions under way at once
    NFiles,      \* number of files V*.sql
    NStatements, \* [1..NFiles -> number of statements]
    Tolerant     \* the statements IF NOT EXISTS or OR REPLACE lets succeed again

Files      == 1..NFiles
Statements == UNION {{f} \X (1..NStatements[f]) : f \in Files}

ASSUME MigrateAssumption == /\ NFiles \in Nat /\ MaxActive \in Nat
                            /\ NStatements \in [Files -> Nat \ {0}]
                            /\ Tolerant \subseteq Statements

VARIABLES
    objects,   \* statements whose object exists
    recorded,  \* versions in schema_migrations
    pc,        \* "new", "check", "apply", "record", "done", "failed" or "killed"
    file,      \* the file the loop is at
    next       \* the statement psql executes next

vars == <<objects, recorded, pc, file, next>>

Running(r) == pc[r] \in {"check", "apply", "record"}

TypeOK ==
    /\ objects \subseteq Statements /\ recorded \subseteq Files
    /\ pc \in [Runs -> {"new", "check", "apply", "record", "done", "failed", "killed"}]
    /\ file \in [Runs -> 1..NFiles + 1]
    /\ next \in [Runs -> Nat \ {0}]
    /\ \A r \in Runs : Running(r) /\ pc[r] # "check" => file[r] \in Files

Init ==
    /\ objects = {} /\ recorded = {}
    /\ pc = [r \in Runs |-> "new"]
    /\ file = [r \in Runs |-> 1]
    /\ next = [r \in Runs |-> 1]

Go(r, place) == pc' = [pc EXCEPT ![r] = place]

\* CREATE TABLE IF NOT EXISTS schema_migrations
Start(r) == /\ pc[r] = "new"
            /\ Cardinality({s \in Runs : Running(s)}) < MaxActive
            /\ Go(r, "check")
            /\ UNCHANGED <<objects, recorded, file, next>>

\* A bug, for mutation: a file is entered where the last one was left.
CheckKeepsNext(r) ==
    /\ pc[r] = "check"
    /\ \/ file[r] > NFiles /\ Go(r, "done") /\ UNCHANGED file
       \/ /\ file[r] \in recorded
          /\ file' = [file EXCEPT ![r] = @ + 1]
          /\ UNCHANGED pc
       \/ file[r] \in Files \ recorded /\ Go(r, "apply") /\ UNCHANGED file
    /\ UNCHANGED <<objects, recorded, next>>

\* The head of the loop: skip a recorded version, apply any other.
Check(r) ==
    /\ pc[r] = "check"
    /\ \/ file[r] > NFiles /\ Go(r, "done") /\ UNCHANGED <<file, next>>
       \/ /\ file[r] \in recorded
          /\ file' = [file EXCEPT ![r] = @ + 1]
          /\ UNCHANGED <<pc, next>>
       \/ /\ file[r] \in Files \ recorded
          /\ next' = [next EXCEPT ![r] = 1]
          /\ Go(r, "apply") /\ UNCHANGED file
    /\ UNCHANGED <<objects, recorded>>

Statement(r) == <<file[r], next[r]>>
CanCreate(r) == Statement(r) \in Tolerant \/ Statement(r) \notin objects

Advance(r) == IF next[r] = NStatements[file[r]]
                THEN Go(r, "record") /\ UNCHANGED next
                ELSE next' = [next EXCEPT ![r] = @ + 1] /\ UNCHANGED pc

\* A bug, for mutation: psql without ON_ERROR_STOP, the script without set -e.
FailGoesOn(r) ==
    /\ pc[r] \in {"apply", "record"}
    /\ pc' = [pc EXCEPT ![r] = "check"]
    /\ file' = [file EXCEPT ![r] = @ + 1]
    /\ UNCHANGED <<objects, recorded, next>>

\* psql exits with an error (ON_ERROR_STOP) and takes the script with it.
Fail(r) == Go(r, "failed") /\ UNCHANGED <<objects, recorded, file, next>>

\* A bug, for mutation: the version is recorded before its file is applied.
ExecuteRecordingFirst(r) ==
    /\ pc[r] = "apply" /\ CanCreate(r)
    /\ objects' = objects \cup {Statement(r)}
    /\ recorded' = recorded \cup {file[r]}
    /\ Advance(r)
    /\ UNCHANGED file

Execute(r) ==
    /\ pc[r] = "apply" /\ CanCreate(r)
    /\ objects' = objects \cup {Statement(r)}
    /\ Advance(r)
    /\ UNCHANGED <<recorded, file>>

Record(r) ==
    /\ pc[r] = "record" /\ file[r] \notin recorded
    /\ recorded' = recorded \cup {file[r]}
    /\ file' = [file EXCEPT ![r] = @ + 1]
    /\ Go(r, "check")
    /\ UNCHANGED <<objects, next>>

\* The object exists, or another run has inserted the version first.
Conflicts(r) == /\ \/ pc[r] = "apply" /\ ~CanCreate(r)
                   \/ pc[r] = "record" /\ file[r] \in recorded
                /\ Fail(r)

\* The container stops, or the database goes away.
Kill(r) == Running(r) /\ Go(r, "killed") /\ UNCHANGED <<objects, recorded, file, next>>

Next == \E r \in Runs : Start(r) \/ Check(r) \/ Execute(r) \/ Record(r) \/ Conflicts(r) \/ Kill(r)

Spec == Init /\ [][Next]_vars

-----------------------------------------------------------------------------
(* Correctness. *)

FileApplied(f) == \A i \in 1..NStatements[f] : <<f, i>> \in objects

\* A recorded version is in the database completely, however many runs were
\* killed half-way or raced each other: the next run never skips a file of
\* which only some statements took effect.
RecordedIsApplied == \A f \in recorded : FileApplied(f)

\* No statement of a file takes effect before every earlier file is recorded.
FilesInOrder == \A s \in objects : \A f \in Files : f < s[1] => f \in recorded

\* What a run has seen to before it gets where it is, whatever the other runs do
\* meanwhile: every file before its own is recorded, and the statements of its
\* own file before the next one have taken effect.
RunsInv ==
    \A r \in Runs :
        /\ pc[r] = "new" => file[r] = 1
        /\ Running(r) => \A f \in Files : f < file[r] => f \in recorded
        /\ pc[r] = "apply" => /\ next[r] <= NStatements[file[r]]
                              /\ \A i \in 1..next[r] - 1 : <<file[r], i>> \in objects
        /\ pc[r] = "record" => FileApplied(file[r])
        /\ pc[r] = "done" => recorded = Files

\* The inductive invariant: a run never builds on work another run has not done.
IndInv == TypeOK /\ RecordedIsApplied /\ FilesInOrder /\ RunsInv

\* migrate.sh && uvicorn: a collector only serves on a complete schema.
ServesOnCompleteSchema ==
    \A r \in Runs : pc[r] = "done" => recorded = Files /\ objects = Statements

\* docs/DESIGN.md:311 and README.md:75 say that the script is idempotent and
\* safe to run several times.  After a run that was killed inside a file, or
\* between the file and its record, every later run fails.
LaterRunsSucceed == \A r \in Runs : pc[r] # "failed"
=============================================================================
