----------------------------- MODULE MigrateProofs -----------------------------
(***************************************************************************)
(* What holds of migrate.sh for any number of files, statements and runs   *)
(* at once, each of which may be killed anywhere.                          *)
(*                                                                         *)
(* Nothing is ever dropped and no record is taken back, so whatever a run  *)
(* has found done stays done (RunsInv), however many others are at work:   *)
(* this is why the races of the script can make a run fail but not record  *)
(* a file that is not applied.                                             *)
(***************************************************************************)
EXTENDS Migrate, TLAPS

\* The empty database satisfies the invariant.
LEMMA InitIndInv == Init => IndInv
<1> SUFFICES ASSUME Init PROVE IndInv
  OBVIOUS
<1>1. TypeOK
  BY MigrateAssumption DEF Init, TypeOK, Running
<1>2. RecordedIsApplied /\ FilesInOrder /\ RunsInv
  BY DEF Init, RecordedIsApplied, FilesInOrder, RunsInv, Running
<1> QED
  BY <1>1, <1>2 DEF IndInv

\* A run that only moves to a place where it owes nothing keeps the invariant.
LEMMA MoveKeepsInv ==
  ASSUME IndInv, NEW r \in Runs, NEW place \in {"failed", "killed"}, Go(r, place),
         UNCHANGED <<objects, recorded, file, next>>
  PROVE  IndInv'
<1> USE DEF Go
<1>1. TypeOK'
  BY DEF IndInv, TypeOK, Running
<1>2. RecordedIsApplied' /\ FilesInOrder'
  BY DEF IndInv, RecordedIsApplied, FilesInOrder, FileApplied
<1>3. RunsInv'
  BY DEF IndInv, TypeOK, RunsInv, Running, FileApplied
<1> QED
  BY <1>1, <1>2, <1>3 DEF IndInv

\* A run starts at the first file, before which there is none.
LEMMA StartKeepsInv == ASSUME IndInv, NEW r \in Runs, Start(r) PROVE IndInv'
<1> USE DEF Go
<1>1. TypeOK'
  BY DEF IndInv, TypeOK, Running, Start
<1>2. RecordedIsApplied' /\ FilesInOrder'
  BY DEF IndInv, RecordedIsApplied, FilesInOrder, FileApplied, Start
<1>3. RunsInv'
  BY DEF IndInv, TypeOK, RunsInv, Running, FileApplied, Start, Files
<1> QED
  BY <1>1, <1>2, <1>3 DEF IndInv

\* The loop moves past a file only if it is recorded.
LEMMA CheckKeepsInv == ASSUME IndInv, NEW r \in Runs, Check(r) PROVE IndInv'
<1> USE DEF Go
<1>1. TypeOK'
  <2>1. file' \in [Runs -> 1..NFiles + 1]
    <3>1. CASE file[r] \in recorded /\ file' = [file EXCEPT ![r] = @ + 1]
      <4>1. file[r] + 1 \in 1..NFiles + 1
        BY <3>1, MigrateAssumption DEF IndInv, TypeOK, Files
      <4> QED
        BY <3>1, <4>1 DEF IndInv, TypeOK
    <3> QED
      BY <3>1 DEF IndInv, TypeOK, Check
  <2>2. \A s \in Runs : s # r => pc'[s] = pc[s] /\ file'[s] = file[s]
    BY DEF IndInv, TypeOK, Check
  <2>3. pc'[r] \in {"check", "done"} \/ file'[r] \in Files
    BY DEF IndInv, TypeOK, Check
  <2>4. /\ pc' \in [Runs -> {"new", "check", "apply", "record", "done", "failed", "killed"}]
        /\ next' \in [Runs -> Nat \ {0}]
        /\ UNCHANGED <<objects, recorded>>
    BY DEF IndInv, TypeOK, Check
  <2> QED
    BY <2>1, <2>2, <2>3, <2>4 DEF IndInv, TypeOK, Running
<1>2. RecordedIsApplied' /\ FilesInOrder'
  BY DEF IndInv, RecordedIsApplied, FilesInOrder, FileApplied, Check
<1>3. CASE file[r] > NFiles /\ Go(r, "done") /\ UNCHANGED <<file, next>>
  <2>1. \A f \in Files : f \in recorded
    BY <1>3, MigrateAssumption DEF IndInv, TypeOK, RunsInv, Running, Check, Files
  <2>2. recorded = Files
    BY <2>1 DEF IndInv, TypeOK
  <2> QED
    BY <1>1, <1>2, <1>3, <2>2 DEF IndInv, TypeOK, RunsInv, Running, FileApplied, Check
<1>4. CASE /\ file[r] \in recorded
           /\ file' = [file EXCEPT ![r] = @ + 1]
           /\ UNCHANGED <<pc, next>>
  <2>1. RunsInv'
    BY <1>4, MigrateAssumption DEF IndInv, TypeOK, RunsInv, Running, FileApplied, Check, Files
  <2> QED
    BY <1>1, <1>2, <2>1 DEF IndInv
<1>5. CASE /\ file[r] \in Files \ recorded
           /\ next' = [next EXCEPT ![r] = 1]
           /\ Go(r, "apply") /\ UNCHANGED file
  <2>1. NStatements[file[r]] \in Nat \ {0}
    BY <1>5, MigrateAssumption
  <2>2. RunsInv'
    BY <1>5, <2>1 DEF IndInv, TypeOK, RunsInv, Running, FileApplied, Check
  <2> QED
    BY <1>1, <1>2, <2>2 DEF IndInv
<1> QED
  BY <1>3, <1>4, <1>5 DEF Check

\* A statement takes effect after everything before it.
LEMMA ExecuteKeepsInv == ASSUME IndInv, NEW r \in Runs, Execute(r) PROVE IndInv'
<1> DEFINE n == NStatements[file[r]]
<1>1. /\ pc[r] = "apply" /\ file[r] \in Files /\ n \in Nat \ {0}
      /\ next[r] \in 1..n
      /\ \A i \in 1..next[r] - 1 : <<file[r], i>> \in objects
      /\ \A f \in Files : f < file[r] => f \in recorded
  BY MigrateAssumption DEF IndInv, TypeOK, RunsInv, Running, Execute
<1>2. Statement(r) \in Statements
  BY <1>1 DEF Statement, Statements
<1>3. objects' = objects \cup {<<file[r], next[r]>>} /\ UNCHANGED <<recorded, file>>
  BY DEF Execute, Statement
<1>4. TypeOK'
  BY <1>1, <1>2, <1>3 DEF IndInv, TypeOK, Running, Execute, Advance, Go, Statement
<1>5. RecordedIsApplied'
  BY <1>3 DEF IndInv, RecordedIsApplied, FileApplied
<1>6. FilesInOrder'
  BY <1>1, <1>3 DEF IndInv, FilesInOrder
<1>7. ASSUME NEW s \in Runs, s # r
      PROVE  pc'[s] = pc[s] /\ next'[s] = next[s]
  BY <1>7 DEF IndInv, TypeOK, Execute, Advance, Go
<1>8. CASE next[r] = n
  <2>1. pc'[r] = "record" /\ FileApplied(file[r])'
    BY <1>1, <1>3, <1>8 DEF IndInv, TypeOK, FileApplied, Execute, Advance, Go
  <2>2. RunsInv'
    BY <1>1, <1>3, <1>7, <2>1 DEF IndInv, RunsInv, Running, FileApplied
  <2> QED
    BY <1>4, <1>5, <1>6, <2>2 DEF IndInv
<1>9. CASE next[r] # n
  <2>1. pc'[r] = "apply" /\ next'[r] = next[r] + 1
    BY <1>1, <1>9 DEF IndInv, TypeOK, Execute, Advance
  <2>2. /\ next'[r] <= n
        /\ \A i \in 1..next'[r] - 1 : <<file[r], i>> \in objects'
    BY <1>1, <1>3, <1>9, <2>1
  <2>3. RunsInv'
    BY <1>1, <1>3, <1>7, <2>1, <2>2 DEF IndInv, RunsInv, Running, FileApplied
  <2> QED
    BY <1>4, <1>5, <1>6, <2>3 DEF IndInv
<1> QED
  BY <1>8, <1>9

\* A version is recorded by a run that has applied its file.
LEMMA RecordKeepsInv == ASSUME IndInv, NEW r \in Runs, Record(r) PROVE IndInv'
<1> USE DEF Go
<1>1. file[r] \in Files /\ FileApplied(file[r])
  BY DEF IndInv, TypeOK, RunsInv, Running, Record
<1>2. TypeOK'
  <2>1. file[r] + 1 \in 1..NFiles + 1
    BY <1>1, MigrateAssumption DEF Files
  <2>2. file' \in [Runs -> 1..NFiles + 1]
    BY <2>1 DEF IndInv, TypeOK, Record
  <2> QED
    BY <1>1, <2>2 DEF IndInv, TypeOK, Running, Record
<1>3. RecordedIsApplied' /\ FilesInOrder'
  BY <1>1 DEF IndInv, RecordedIsApplied, FilesInOrder, FileApplied, Record
<1>4. RunsInv'
  <2>1. ASSUME NEW s \in Runs, s # r
        PROVE  pc'[s] = pc[s] /\ next'[s] = next[s] /\ file'[s] = file[s]
    BY <2>1 DEF IndInv, TypeOK, Record
  <2>2. pc'[r] = "check" /\ file'[r] = file[r] + 1
    BY DEF IndInv, TypeOK, Record
  <2>3. \A f \in Files : f < file'[r] => f \in recorded'
    BY <1>1, <2>2, MigrateAssumption DEF IndInv, TypeOK, RunsInv, Running, Record, Files
  <2>4. recorded = Files => recorded' = Files
    BY <1>1 DEF Record
  <2> QED
    BY <2>1, <2>2, <2>3, <2>4 DEF IndInv, RunsInv, Running, FileApplied, Record
<1> QED
  BY <1>2, <1>3, <1>4 DEF IndInv

LEMMA NextKeepsInv == IndInv /\ [Next]_vars => IndInv'
<1> SUFFICES ASSUME IndInv, [Next]_vars PROVE IndInv'
  OBVIOUS
<1>1. CASE UNCHANGED vars
  BY <1>1 DEF vars, IndInv, TypeOK, Running, RecordedIsApplied, FilesInOrder, RunsInv, FileApplied
<1>2. ASSUME NEW r \in Runs, Conflicts(r) \/ Kill(r) PROVE IndInv'
  BY <1>2, MoveKeepsInv DEF Conflicts, Fail, Kill
<1> QED
  BY <1>1, <1>2, StartKeepsInv, CheckKeepsInv, ExecuteKeepsInv, RecordKeepsInv DEF Next

-----------------------------------------------------------------------------
\* The invariant of the script, for any number of runs, files and statements.
THEOREM IndInvHolds == Spec => []IndInv
<1> QED
  BY InitIndInv, NextKeepsInv, PTL DEF Spec

\* A recorded version is in the database completely: no later run skips a file
\* of which only some statements took effect.
THEOREM RecordedVersionsAreApplied == Spec => []RecordedIsApplied
<1>1. IndInv => RecordedIsApplied
  BY DEF IndInv
<1> QED
  BY <1>1, IndInvHolds, PTL

\* No statement of a file takes effect before every earlier file is recorded.
THEOREM FilesTakeEffectInOrder == Spec => []FilesInOrder
<1>1. IndInv => FilesInOrder
  BY DEF IndInv
<1> QED
  BY <1>1, IndInvHolds, PTL

\* A collector that starts after the script finds the complete schema.
THEOREM SchemaIsComplete == Spec => []ServesOnCompleteSchema
<1>1. ASSUME IndInv, NEW r \in Runs, pc[r] = "done"
      PROVE  recorded = Files /\ objects = Statements
  <2>1. recorded = Files
    BY <1>1 DEF IndInv, RunsInv
  <2>2. \A f \in Files : \A i \in 1..NStatements[f] : <<f, i>> \in objects
    BY <1>1, <2>1 DEF IndInv, RecordedIsApplied, FileApplied
  <2>3. Statements \subseteq objects
    BY <2>2 DEF Statements
  <2> QED
    BY <1>1, <2>1, <2>3 DEF IndInv, TypeOK
<1>2. IndInv => ServesOnCompleteSchema
  BY <1>1 DEF ServesOnCompleteSchema
<1> QED
  BY <1>2, IndInvHolds, PTL
===============================================================================
