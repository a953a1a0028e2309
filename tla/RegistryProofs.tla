----------------------------- MODULE RegistryProofs -----------------------------
(***************************************************************************)
(* The connection API, for any calls and any number of them: the row, its  *)
(* audit log and the answers, and that the handlers implement the atomic   *)
(* registry.                                                               *)
(*                                                                         *)
(* The handlers decide on an unlocked read, so nothing follows from what   *)
(* they read.  What counts is the row lock: whoever holds it has made its  *)
(* version from the committed one, and an audit id drawn under the lock is *)
(* above all ids that are visible.                                         *)
(***************************************************************************)
EXTENDS Registry, TLAPS

Writes(c) == Changes(c) \/ c.op = "stub"

\* The change c can be applied to row r.
Applies(c, r) == Changes(c) /\ (Live(r) # NULL \/ (r = NULL /\ c.op = "create"))

\* The holder of the row lock has written its version over the committed one.
LockInv ==
    IF locker = NULL THEN wip = row
    ELSE LET c == call[locker]
         IN  /\ pc[locker] \in {"written", "logged"}
             /\ c.op = "stub" => wip = UpsertMinimal(row)
             /\ c.op # "stub" => /\ Applies(c, row) /\ wip = Outcome(c, row)
                                 /\ after[locker] = Live(wip)

\* What the write of c returned: the live row as the caller wanted it.
Told(c, r) ==
    IF c.op = "delete" THEN r = NULL
    ELSE /\ r \in Rows /\ ~r.deleted
         /\ \A col \in Columns : c[col] # NULL => r[col] = c[col]

StepsInv == \A t \in Requests :
    /\ pc[t] \in {"written", "logged"} /\ Writes(call[t]) => locker = t
    /\ call[t].op = "stub" => pc[t] \notin {"decided", "written"} /\ auditId[t] = 0
    /\ call[t].op # "stub" =>
          /\ pc[t] \in {"decided", "written", "logged"} => ~Invalid(call[t])
          /\ pc[t] = "decided" /\ before[t] = NULL => call[t].op = "create"
          /\ pc[t] \in {"written", "logged"} => (Changes(call[t]) \/ row # NULL)
          /\ pc[t] \in {"written", "logged", "done"} => Told(call[t], after[t])
          /\ pc[t] \in {"logged", "done"} => auditId[t] # 0

Ended == {t \in Requests : pc[t] = "done" /\ call[t].op # "stub"}

\* Ids are drawn in order and used once; the log is what the calls that ended
\* wrote, and an id drawn under the row lock is the largest of a change.
IdsInv ==
    /\ \A t \in Requests : auditId[t] < nextId /\ auditId[t] <= MaxId
    /\ \A t, u \in Requests : t # u /\ auditId[t] = auditId[u] => auditId[t] = 0
    /\ log = {Entry(t) : t \in Ended}
    /\ \A t \in Requests, u \in Ended :
          pc[t] = "logged" /\ Changes(call[t]) /\ Changes(call[u]) => auditId[u] < auditId[t]

\* The change with the largest id made the row what it is.
RowInv ==
    /\ (\E u \in Ended : Changes(call[u])) => row # NULL
    /\ (\A u \in Ended : ~Changes(call[u])) => row \in {NULL, UpsertMinimal(NULL)}
    /\ \A t \in Ended :
          Changes(call[t]) /\ (\A u \in Ended : Changes(call[u]) => auditId[u] <= auditId[t])
              => after[t] = Live(row)

AnswersInv == \A t \in Requests :
    /\ answer[t] \in {"200", "201"} => pc[t] = "done" /\ call[t].op \in {"create", "update"}
    /\ answer[t] = "204" => pc[t] = "done" /\ call[t].op = "delete"
    /\ answer[t] \in {"404", "409", "422"} => pc[t] = "refused"

IndInv == TypeOK /\ LockInv /\ StepsInv /\ IdsInv /\ RowInv /\ AnswersInv

-----------------------------------------------------------------------------
(* What the operators on rows yield. *)

LEMMA CallShape ==
    ASSUME NEW c \in Call
    PROVE  /\ c.op \in {"create", "update", "delete", "stub"}
           /\ c.op = "create" => /\ c.platform \in Platforms \cup {"unknown"} /\ c.props \in Props
                                 /\ c.host \in Hosts \cup {NULL} /\ c.owner \in Owners \cup {NULL}
           /\ c.op = "update" => /\ c.platform \in Platforms \cup {"unknown", NULL}
                                 /\ c.props \in Props \cup {NULL}
                                 /\ c.host \in Hosts \cup {NULL} /\ c.owner \in Owners \cup {NULL}
BY DEF Call

LEMMA LiveShape ==
    ASSUME NEW r \in Rows \cup {NULL}
    PROVE  /\ Live(r) \in Rows \cup {NULL}
           /\ Live(r) # NULL <=> r \in Rows /\ ~r.deleted
           /\ Live(r) # NULL => Live(r) = r
           /\ r # NULL <=> r \in Rows
BY NullRowAssumption DEF Live, Rows

LEMMA StubShape ==
    ASSUME NEW r \in Rows \cup {NULL}
    PROVE  /\ UpsertMinimal(r) \in Rows
           /\ r # NULL => UpsertMinimal(r) = r
           /\ r = NULL => UpsertMinimal(r) = UpsertMinimal(NULL) /\ UpsertMinimal(r).platform = "unknown"
BY NullRowAssumption DEF UpsertMinimal, Rows, Props

\* A call that applies gives a row, with the columns the call names, and, for an
\* update, those of before elsewhere.
LEMMA OutcomeShape ==
    ASSUME NEW c \in Call, NEW r \in Rows \cup {NULL}, Applies(c, r)
    PROVE  /\ Outcome(c, r) \in Rows
           /\ Told(c, Live(Outcome(c, r)))
           /\ c.op = "update" => \A col \in Columns : c[col] = NULL => Outcome(c, r)[col] = r[col]
<1> DEFINE o == Outcome(c, r)
<1>1. c.op \in {"create", "update", "delete"}
  BY DEF Applies, Changes
<1>2. CASE c.op = "create"
  <2>1. o = [platform |-> c.platform, props |-> c.props, host |-> c.host, owner |-> c.owner,
             deleted |-> FALSE]
    BY <1>2 DEF Outcome
  <2>2. o \in Rows
    BY <1>2, <2>1, CallShape DEF Rows
  <2>3. Live(o) = o
    BY <2>1, <2>2, LiveShape
  <2>4. ~o.deleted /\ \A col \in Columns : o[col] = c[col]
    BY <2>1 DEF Columns
  <2>5. Told(c, o)
    <3> HIDE DEF o
    <3> QED
      BY <1>2, <2>2, <2>4 DEF Told
  <2> QED
    BY <1>2, <2>2, <2>3, <2>5
<1>3. CASE c.op = "update"
  <2>1. r \in Rows /\ ~r.deleted
    BY <1>3, LiveShape DEF Applies
  <2>2. o = [r EXCEPT !.platform = Given(c.platform, @), !.props = Given(c.props, @),
                      !.host = Given(c.host, @), !.owner = Given(c.owner, @)]
    BY <1>3 DEF Outcome
  <2>3. /\ o.platform = Given(c.platform, r.platform) /\ o.props = Given(c.props, r.props)
        /\ o.host = Given(c.host, r.host) /\ o.owner = Given(c.owner, r.owner)
        /\ o.deleted = FALSE
    BY <2>1, <2>2 DEF Rows
  <2>4. o \in Rows
    <3>1. /\ Given(c.platform, r.platform) \in Platforms \cup {"unknown"}
          /\ Given(c.props, r.props) \in Props
          /\ Given(c.host, r.host) \in Hosts \cup {NULL}
          /\ Given(c.owner, r.owner) \in Owners \cup {NULL}
      BY <1>3, <2>1, CallShape DEF Given, Rows
    <3> QED
      BY <2>1, <2>2, <3>1 DEF Rows
  <2>5. Live(o) = o
    BY <2>3, <2>4, LiveShape
  <2>6. \A col \in Columns : /\ c[col] # NULL => o[col] = c[col]
                             /\ c[col] = NULL => o[col] = r[col]
    BY <2>3 DEF Columns, Given
  <2> QED
    BY <1>3, <2>3, <2>4, <2>5, <2>6 DEF Told
<1>4. CASE c.op = "delete"
  <2>1. r \in Rows
    BY <1>4, LiveShape DEF Applies
  <2>2. o = [r EXCEPT !.deleted = TRUE]
    BY <1>4 DEF Outcome
  <2>3. o \in Rows /\ o.deleted
    BY <2>1, <2>2 DEF Rows
  <2> QED
    BY <1>4, <2>3 DEF Told, Live
<1> QED
  BY <1>1, <1>2, <1>3, <1>4

\* What applies does not break the rule for properties, unless it is half an update.
LEMMA OutcomeConforms ==
    ASSUME NEW c \in Call, NEW r \in Rows \cup {NULL}, Applies(c, r), ~Invalid(c),
           r # NULL => Conforms(r.platform, r.props),
           ~(c.op = "update" /\ (c.platform = NULL) # (c.props = NULL))
    PROVE  Conforms(Outcome(c, r).platform, Outcome(c, r).props)
<1> DEFINE o == Outcome(c, r)
<1>1. CASE c.op = "create"
  <2>1. o.platform = c.platform /\ o.props = c.props
    BY <1>1 DEF Outcome
  <2>2. c.platform # NULL /\ c.props # NULL
    BY <1>1, CallShape, NullRowAssumption
  <2> QED
    BY <1>1, <2>1, <2>2 DEF Invalid
<1>2. CASE c.op = "update"
  <2>1. r \in Rows
    BY <1>2, LiveShape DEF Applies
  <2>2. o.platform = Given(c.platform, r.platform) /\ o.props = Given(c.props, r.props)
    BY <1>2, <2>1 DEF Outcome, Rows
  <2>3. CASE c.platform = NULL /\ c.props = NULL
    BY <2>1, <2>2, <2>3, NullRowAssumption DEF Given
  <2>4. CASE c.platform # NULL /\ c.props # NULL
    BY <1>2, <2>2, <2>4 DEF Given, Invalid
  <2> QED
    BY <1>2, <2>3, <2>4
<1>3. CASE c.op = "delete"
  <2>1. r \in Rows
    BY <1>3, LiveShape DEF Applies
  <2>2. o.platform = r.platform /\ o.props = r.props
    BY <1>3, <2>1 DEF Outcome, Rows
  <2> QED
    BY <2>1, <2>2, NullRowAssumption
<1> QED
  BY <1>1, <1>2, <1>3 DEF Applies, Changes

-----------------------------------------------------------------------------
(* Types. *)

LEMMA CallsAreCalls == ASSUME TypeOK, NEW t \in Requests PROVE call[t] \in Call
BY CallsAssumption DEF TypeOK

LEMMA RefuseTypes ==
    ASSUME TypeOK, NEW t \in Requests, NEW status \in {"404", "409", "422", "500", "lost"},
           Refuse(t, status), nextId' \in Nat \ {0}
    PROVE  TypeOK'
BY DEF TypeOK, Refuse, Answers

\* A write is made on a row the call applies to.
LEMMA WriteApplies ==
    ASSUME TypeOK, NEW t \in Requests, Changes(call[t]), CanWrite(t)
    PROVE  Applies(call[t], wip)
BY DEF CanWrite, Inserts, Applies

LEMMA InitTypes == Init => TypeOK
BY DEF Init, TypeOK

LEMMA NextTypes == ASSUME TypeOK, [Next]_vars PROVE TypeOK'
<1>1. CASE UNCHANGED vars
  BY <1>1 DEF TypeOK, vars
<1>2. ASSUME NEW t \in Requests, Reject(t) PROVE TypeOK'
  <2>1. PICK status \in {"409", "404", "422"} : Refuse(t, status)
    BY <1>2 DEF Reject
  <2> QED
    BY <1>2, <2>1, RefuseTypes DEF Reject, TypeOK
<1>3. ASSUME NEW t \in Requests, Decide(t) PROVE TypeOK'
  <2>1. Live(row) \in Rows \cup {NULL}
    BY LiveShape DEF TypeOK
  <2> QED
    BY <1>3, <2>1 DEF Decide, TypeOK
<1>4. ASSUME NEW t \in Requests, Write(t) PROVE TypeOK'
  <2>1. wip' \in Rows
    BY <1>4, WriteApplies, CallsAreCalls, OutcomeShape DEF Write, TypeOK
  <2>2. Live(wip') \in Rows \cup {NULL}
    BY <2>1, LiveShape
  <2> QED
    BY <1>4, <2>1, <2>2 DEF Write, TypeOK
<1>5. ASSUME NEW t \in Requests, WriteFails(t) PROVE TypeOK'
  <2>1. PICK status \in {"404", "500"} : Refuse(t, status)
    BY <1>5 DEF WriteFails
  <2>2. nextId' \in Nat \ {0}
    BY <1>5 DEF WriteFails, TypeOK
  <2> QED
    BY <2>1, <2>2, RefuseTypes
<1>6. ASSUME NEW t \in Requests, ReadAgain(t) PROVE TypeOK'
  <2>1. Live(row) \in Rows \cup {NULL}
    BY LiveShape DEF TypeOK
  <2>2. CASE Live(row) = NULL
    BY <1>6, <2>2, RefuseTypes DEF ReadAgain, TypeOK
  <2>3. CASE Live(row) # NULL
    BY <1>6, <2>1, <2>3 DEF ReadAgain, TypeOK
  <2> QED
    BY <2>2, <2>3
<1>7. ASSUME NEW t \in Requests, AppendAudit(t) PROVE TypeOK'
  BY <1>7 DEF AppendAudit, TypeOK
<1>8. ASSUME NEW t \in Requests, UpsertStub(t) PROVE TypeOK'
  <2>1. UpsertMinimal(wip) \in Rows
    BY StubShape DEF TypeOK
  <2> QED
    BY <1>8, <2>1 DEF UpsertStub, TypeOK
<1>9. ASSUME NEW t \in Requests, Commit(t) PROVE TypeOK'
  <2>1. Success(t) \in Answers
    BY CallsAreCalls, CallShape DEF Success, Answers
  <2>2. answer' \in [Requests -> Answers \cup {NULL}]
    BY <1>9, <2>1 DEF Commit, TypeOK, Answers
  <2>3. row' \in Rows \cup {NULL} /\ locker' \in Requests \cup {NULL}
    BY <1>9 DEF Commit, TypeOK
  <2>4. log' \subseteq [id: Nat \ {0}, request: Requests, before: Rows \cup {NULL},
                        after: Rows \cup {NULL}]
    BY <1>9 DEF Commit, TypeOK, Entry
  <2> QED
    BY <1>9, <2>2, <2>3, <2>4 DEF Commit, TypeOK
<1>10. ASSUME NEW t \in Requests, Fail(t) PROVE TypeOK'
  <2>1. PICK status \in {"500", "lost"} : Refuse(t, status)
    BY <1>10 DEF Fail
  <2> QED
    BY <1>10, <2>1, RefuseTypes DEF Fail, TypeOK
<1> QED
  BY <1>1, <1>2, <1>3, <1>4, <1>5, <1>6, <1>7, <1>8, <1>9, <1>10 DEF Next

-----------------------------------------------------------------------------
(* The inductive invariant. *)

LEMMA InitInv == Init => IndInv
<1> SUFFICES ASSUME Init PROVE IndInv
  OBVIOUS
<1>1. TypeOK
  BY InitTypes
<1>2. Ended = {}
  BY DEF Init, Ended
<1>3. LockInv /\ StepsInv /\ AnswersInv
  <2>1. \A t \in Requests : pc[t] = "posted" /\ answer[t] \notin Answers
    BY RegistryAssumption DEF Init
  <2>2. LockInv
    BY DEF Init, LockInv
  <2>3. StepsInv
    BY <2>1 DEF Init, StepsInv
  <2>4. AnswersInv
    BY <2>1 DEF AnswersInv, Answers
  <2> QED
    BY <2>2, <2>3, <2>4
<1>4. IdsInv
  BY <1>2, RegistryAssumption DEF Init, IdsInv
<1>5. RowInv
  BY <1>2 DEF Init, RowInv
<1> QED
  BY <1>1, <1>3, <1>4, <1>5 DEF IndInv

\* A step of t that neither ends it successfully nor touches the row or the log
\* leaves what is known of those that ended.
LEMMA EndedIsKept ==
    ASSUME IndInv, NEW t \in Requests, NEW x, x # "done", pc[t] # "done",
           pc' = [pc EXCEPT ![t] = x], UNCHANGED <<row, log, call>>,
           \A u \in Requests \ {t} : /\ auditId'[u] = auditId[u]
                                     /\ after'[u] = after[u] /\ before'[u] = before[u]
    PROVE  /\ Ended' = Ended /\ t \notin Ended
           /\ log' = {Entry(u)' : u \in Ended'}
           /\ RowInv'
<1>1. Ended' = Ended /\ t \notin Ended
  BY DEF Ended, IndInv, TypeOK
<1>2. \A u \in Ended : u \in Requests \ {t}
  BY <1>1 DEF Ended
<1>3. \A u \in Ended : Entry(u)' = Entry(u)
  BY <1>2 DEF Entry
<1>4. {Entry(u)' : u \in Ended'} = {Entry(u) : u \in Ended}
  BY <1>1, <1>3
<1>5. log' = {Entry(u)' : u \in Ended'}
  BY <1>4 DEF IndInv, IdsInv
<1>6. RowInv'
  BY <1>1, <1>2 DEF IndInv, RowInv
<1> QED
  BY <1>1, <1>5, <1>6

\* A call that ends without effect gives back the row as it was committed.
LEMMA RefuseKeeps ==
    ASSUME IndInv, NEW t \in Requests, NEW status \in {"404", "409", "422", "500", "lost"},
           pc[t] \notin {"done", "refused"}, Refuse(t, status),
           nextId' \in Nat \ {0}, nextId' >= nextId
    PROVE  IndInv'
<1>1. TypeOK'
  BY RefuseTypes DEF IndInv
<1>2. /\ \A u \in Requests \ {t} : pc'[u] = pc[u] /\ answer'[u] = answer[u]
      /\ pc'[t] = "refused" /\ answer'[t] = status
  BY DEF Refuse, IndInv, TypeOK
<1>3. UNCHANGED <<row, log, call, before, after, auditId>>
  BY DEF Refuse
<1>4. LockInv'
  <2>1. CASE locker = t
    BY <1>3, <2>1, RegistryAssumption DEF Refuse, LockInv
  <2>2. CASE locker # t
    BY <1>2, <1>3, <2>2 DEF Refuse, LockInv, IndInv, TypeOK
  <2> QED
    BY <2>1, <2>2
<1>5. StepsInv'
  <2>1. ASSUME NEW u \in Requests, locker = u, u # t PROVE locker' = u
    BY <2>1 DEF Refuse
  <2> QED
    BY <1>2, <1>3, <2>1 DEF StepsInv, IndInv
<1>6. Ended' = Ended /\ log' = {Entry(u)' : u \in Ended'} /\ RowInv'
  BY <1>3, EndedIsKept DEF Refuse
<1>7. IdsInv'
  BY <1>1, <1>2, <1>3, <1>6 DEF IdsInv, IndInv, TypeOK
<1>8. AnswersInv'
  BY <1>2, <1>3 DEF AnswersInv, IndInv
<1> QED
  BY <1>1, <1>4, <1>5, <1>6, <1>7, <1>8 DEF IndInv

LEMMA DecideKeeps == ASSUME IndInv, NEW t \in Requests, Decide(t) PROVE IndInv'
<1>1. TypeOK'
  BY NextTypes DEF IndInv, Next
<1>2. /\ \A u \in Requests \ {t} : pc'[u] = pc[u] /\ before'[u] = before[u]
      /\ pc'[t] = "decided" /\ before'[t] = Live(row) /\ pc[t] = "posted"
  BY DEF Decide, IndInv, TypeOK
<1>3. UNCHANGED <<row, wip, locker, nextId, log, call, after, auditId, answer>>
  BY DEF Decide
<1>4. LockInv'
  BY <1>2, <1>3 DEF LockInv, IndInv, TypeOK
<1>5. StepsInv'
  <2>1. ~Invalid(call[t]) /\ call[t].op # "stub"
    BY DEF Decide
  <2>2. Live(row) = NULL => call[t].op = "create"
    <3>1. call[t].op \in {"create", "update", "delete"}
      BY <2>1, CallsAreCalls, CallShape DEF IndInv
    <3> QED
      BY <3>1 DEF Decide, NotFound
  <2> QED
    BY <1>2, <1>3, <2>1, <2>2 DEF StepsInv, IndInv
<1>6. Ended' = Ended /\ log' = {Entry(u)' : u \in Ended'} /\ RowInv'
  BY <1>2, <1>3, EndedIsKept DEF Decide
<1>7. IdsInv'
  BY <1>2, <1>3, <1>6 DEF IdsInv, IndInv
<1>8. AnswersInv'
  BY <1>2, <1>3 DEF AnswersInv, IndInv
<1> QED
  BY <1>1, <1>4, <1>5, <1>6, <1>7, <1>8 DEF IndInv

\* Whoever has not written yet and is not blocked finds the row unlocked.
LEMMA Unlocked ==
    ASSUME IndInv, NEW t \in Requests, pc[t] \in {"posted", "decided"}, ~Blocked(t)
    PROVE  locker = NULL /\ wip = row
BY DEF Blocked, IndInv, LockInv

LEMMA WriteKeeps == ASSUME IndInv, NEW t \in Requests, Write(t) PROVE IndInv'
<1>1. TypeOK'
  BY NextTypes DEF IndInv, Next
<1>2. /\ \A u \in Requests \ {t} : pc'[u] = pc[u] /\ after'[u] = after[u]
      /\ pc'[t] = "written" /\ after'[t] = Live(wip') /\ pc[t] = "decided"
  BY DEF Write, IndInv, TypeOK
<1>3. locker = NULL /\ wip = row
  BY Unlocked DEF Write
<1>4. UNCHANGED <<row, nextId, log, call, before, auditId, answer>> /\ locker' = t
  BY DEF Write
<1>5. call[t].op # "stub" /\ Changes(call[t]) /\ ~Invalid(call[t])
  BY DEF Write, IndInv, StepsInv
<1>6. Applies(call[t], row) /\ wip' = Outcome(call[t], row)
  BY <1>3, WriteApplies DEF Write, IndInv
<1>7. Told(call[t], after'[t])
  <2>1. row \in Rows \cup {NULL} /\ call[t] \in Call
    BY CallsAreCalls DEF IndInv, TypeOK
  <2> QED
    BY <1>2, <1>6, <2>1, OutcomeShape
<1>8. LockInv'
  BY <1>2, <1>4, <1>5, <1>6, RegistryAssumption DEF LockInv
<1>9. StepsInv'
  <2>1. ASSUME NEW u \in Requests, u # t, pc[u] \in {"written", "logged"} PROVE ~Writes(call[u])
    BY <1>3, <2>1, RegistryAssumption DEF IndInv, StepsInv
  <2> QED
    BY <1>2, <1>4, <1>5, <1>7, <2>1 DEF StepsInv, IndInv
<1>10. Ended' = Ended /\ log' = {Entry(u)' : u \in Ended'} /\ RowInv'
  BY <1>2, <1>4, EndedIsKept DEF Write
<1>11. IdsInv'
  BY <1>2, <1>4, <1>10 DEF IdsInv, IndInv
<1>12. AnswersInv'
  BY <1>2, <1>4 DEF AnswersInv, IndInv
<1> QED
  BY <1>1, <1>8, <1>9, <1>10, <1>11, <1>12 DEF IndInv

\* A PUT that names no column is told what its second read sees.
LEMMA ReadAgainKeeps == ASSUME IndInv, NEW t \in Requests, ReadAgain(t) PROVE IndInv'
<1>1. CASE Live(row) = NULL
  BY <1>1, RefuseKeeps DEF ReadAgain, IndInv, TypeOK
<1>2. CASE Live(row) # NULL
  <2>1. TypeOK'
    BY NextTypes DEF IndInv, Next
  <2>2. /\ \A u \in Requests \ {t} : pc'[u] = pc[u] /\ after'[u] = after[u]
        /\ pc'[t] = "written" /\ after'[t] = Live(row) /\ pc[t] = "decided"
    BY <1>2 DEF ReadAgain, IndInv, TypeOK
  <2>3. UNCHANGED <<row, wip, locker, nextId, log, call, before, auditId, answer>>
    BY <1>2 DEF ReadAgain
  <2>4. call[t].op = "update" /\ ~Invalid(call[t]) /\ \A col \in Columns : call[t][col] = NULL
    <3>1. call[t].op \in {"create", "update", "delete"}
      BY <2>2, CallsAreCalls, CallShape DEF IndInv, StepsInv
    <3> QED
      BY <2>2, <3>1 DEF ReadAgain, Changes, IndInv, StepsInv
  <2>5. row # NULL /\ Told(call[t], Live(row))
    BY <1>2, <2>4, LiveShape DEF Told, IndInv, TypeOK
  <2>6. LockInv'
    BY <2>2, <2>3 DEF LockInv, IndInv, TypeOK
  <2>7. StepsInv'
    BY <2>2, <2>3, <2>4, <2>5 DEF StepsInv, IndInv, ReadAgain, Writes
  <2>8. Ended' = Ended /\ log' = {Entry(u)' : u \in Ended'} /\ RowInv'
    BY <1>2, <2>2, <2>3, EndedIsKept DEF ReadAgain
  <2>9. IdsInv'
    BY <2>2, <2>3, <2>8 DEF IdsInv, IndInv
  <2>10. AnswersInv'
    BY <2>2, <2>3 DEF AnswersInv, IndInv
  <2> QED
    BY <2>1, <2>6, <2>7, <2>8, <2>9, <2>10 DEF IndInv
<1> QED
  BY <1>1, <1>2

\* The new id is above all others, so above those of the changes that ended.
LEMMA AppendAuditKeeps == ASSUME IndInv, NEW t \in Requests, AppendAudit(t) PROVE IndInv'
<1>1. TypeOK'
  BY NextTypes DEF IndInv, Next
<1>2. /\ \A u \in Requests \ {t} : pc'[u] = pc[u] /\ auditId'[u] = auditId[u]
      /\ pc'[t] = "logged" /\ auditId'[t] = nextId /\ pc[t] = "written"
  BY DEF AppendAudit, IndInv, TypeOK
<1>3. UNCHANGED <<row, wip, locker, log, call, before, after, answer>>
  BY DEF AppendAudit
<1>4. nextId' = nextId + 1 /\ nextId <= MaxId /\ nextId \in Nat \ {0}
  BY DEF AppendAudit, IndInv, TypeOK
<1>5. LockInv'
  BY <1>2, <1>3 DEF LockInv, IndInv, TypeOK
<1>6. StepsInv'
  BY <1>2, <1>3, <1>4 DEF StepsInv, IndInv
<1>7. Ended' = Ended /\ t \notin Ended /\ log' = {Entry(u)' : u \in Ended'} /\ RowInv'
  BY <1>2, <1>3, EndedIsKept DEF AppendAudit
<1>8. IdsInv'
  <2>1. \A u \in Requests : auditId[u] \in Nat /\ auditId[u] < nextId /\ auditId[u] <= MaxId
    BY DEF IndInv, IdsInv, TypeOK
  <2>2. \A u \in Requests : auditId'[u] < nextId' /\ auditId'[u] <= MaxId
    BY <1>2, <1>4, <2>1
  <2>3. \A u, v \in Requests : u # v /\ auditId'[u] = auditId'[v] => auditId'[u] = 0
    BY <1>2, <1>4, <2>1 DEF IndInv, IdsInv
  <2>4. \A u \in Ended : u \in Requests \ {t}
    BY <1>7 DEF Ended
  <2>5. \A v \in Requests, u \in Ended' :
           pc'[v] = "logged" /\ Changes(call'[v]) /\ Changes(call'[u]) => auditId'[u] < auditId'[v]
    BY <1>2, <1>3, <1>7, <2>1, <2>4 DEF IndInv, IdsInv
  <2> QED
    BY <1>7, <2>2, <2>3, <2>5 DEF IdsInv
<1>9. AnswersInv'
  BY <1>2, <1>3 DEF AnswersInv, IndInv
<1> QED
  BY <1>1, <1>5, <1>6, <1>7, <1>8, <1>9 DEF IndInv

LEMMA UpsertStubKeeps == ASSUME IndInv, NEW t \in Requests, UpsertStub(t) PROVE IndInv'
<1>1. TypeOK'
  BY NextTypes DEF IndInv, Next
<1>2. /\ \A u \in Requests \ {t} : pc'[u] = pc[u]
      /\ pc'[t] = "logged" /\ pc[t] = "posted" /\ call[t].op = "stub"
  BY DEF UpsertStub, IndInv, TypeOK
<1>3. locker = NULL /\ wip = row
  BY Unlocked DEF UpsertStub
<1>4. /\ UNCHANGED <<row, nextId, log, call, before, after, auditId, answer>>
      /\ locker' = t /\ wip' = UpsertMinimal(row)
  BY <1>3 DEF UpsertStub
<1>5. LockInv'
  BY <1>2, <1>4, RegistryAssumption DEF LockInv
<1>6. StepsInv'
  <2>1. ASSUME NEW u \in Requests, u # t, pc[u] \in {"written", "logged"} PROVE ~Writes(call[u])
    BY <1>3, <2>1, RegistryAssumption DEF IndInv, StepsInv
  <2> QED
    BY <1>2, <1>4, <2>1 DEF StepsInv, IndInv
<1>7. Ended' = Ended /\ log' = {Entry(u)' : u \in Ended'} /\ RowInv'
  BY <1>2, <1>4, EndedIsKept DEF UpsertStub
<1>8. IdsInv'
  <2>1. ~Changes(call[t])
    BY <1>2 DEF Changes
  <2> QED
    BY <1>2, <1>4, <1>7, <2>1 DEF IdsInv, IndInv
<1>9. AnswersInv'
  BY <1>2, <1>4 DEF AnswersInv, IndInv
<1> QED
  BY <1>1, <1>5, <1>6, <1>7, <1>8, <1>9 DEF IndInv

\* What a commit does: a change is applied to the row as it is at the commit.
LEMMA CommitShape ==
    ASSUME IndInv, NEW t \in Requests, Commit(t)
    PROVE  /\ Changes(call[t]) => /\ locker = t /\ Applies(call[t], row)
                                  /\ row' = Outcome(call[t], row) /\ after[t] = Live(row')
           /\ call[t].op = "stub" => locker = t /\ row' = UpsertMinimal(row)
           /\ ~Writes(call[t]) => locker # t /\ row' = row /\ row # NULL
           /\ call[t].op = "stub" => log' = log /\ Ended' = Ended
           /\ call[t].op # "stub" => /\ auditId[t] # 0 /\ log' = log \cup {Entry(t)}
                                     /\ Ended' = Ended \cup {t}
           /\ t \notin Ended
           /\ row # NULL => row' # NULL
<1>1. pc[t] = "logged" /\ call[t] \in Call /\ row \in Rows \cup {NULL}
  BY CallsAreCalls DEF Commit, IndInv, TypeOK
<1>2. locker = t => row' = wip
  BY DEF Commit
<1>3. locker # t => row' = row
  BY DEF Commit
<1>4. ASSUME Changes(call[t])
      PROVE  /\ locker = t /\ Applies(call[t], row)
             /\ row' = Outcome(call[t], row) /\ after[t] = Live(row') /\ row' # NULL
  <2>1. locker = t /\ call[t].op # "stub"
    BY <1>1, <1>4 DEF IndInv, StepsInv, Writes, Changes
  <2>2. /\ Applies(call[t], row) /\ wip = Outcome(call[t], row) /\ after[t] = Live(wip)
    BY <2>1, RegistryAssumption DEF IndInv, LockInv
  <2>3. Outcome(call[t], row) # NULL
    BY <1>1, <2>2, OutcomeShape, NullRowAssumption
  <2> QED
    BY <1>2, <2>1, <2>2, <2>3
<1>5. ASSUME call[t].op = "stub"
      PROVE  locker = t /\ row' = UpsertMinimal(row) /\ row' # NULL
  <2>1. locker = t
    BY <1>1, <1>5 DEF IndInv, StepsInv, Writes
  <2>2. wip = UpsertMinimal(row)
    BY <1>5, <2>1, RegistryAssumption DEF IndInv, LockInv
  <2> QED
    BY <1>1, <1>2, <2>1, <2>2, StubShape, NullRowAssumption
<1>6. ASSUME ~Writes(call[t]) PROVE locker # t /\ row' = row /\ row # NULL
  <2>1. locker # t
    BY <1>6, RegistryAssumption DEF IndInv, LockInv, Applies, Writes
  <2>2. row # NULL
    BY <1>1, <1>6 DEF IndInv, StepsInv, Writes
  <2> QED
    BY <1>3, <2>1, <2>2
<1>7. t \notin Ended /\ UNCHANGED call /\ \A u \in Requests : pc'[u] = IF u = t THEN "done" ELSE pc[u]
  BY <1>1 DEF Ended, Commit, IndInv, TypeOK
<1>8. call[t].op = "stub" => log' = log /\ Ended' = Ended
  <2>1. call[t].op = "stub" => auditId[t] = 0
    BY DEF IndInv, StepsInv
  <2> QED
    BY <1>7, <2>1 DEF Commit, Ended
<1>9. call[t].op # "stub" => /\ auditId[t] # 0 /\ log' = log \cup {Entry(t)}
                             /\ Ended' = Ended \cup {t}
  <2>1. call[t].op # "stub" => auditId[t] # 0
    BY <1>1 DEF IndInv, StepsInv
  <2> QED
    BY <1>7, <2>1 DEF Commit, Ended
<1>10. row # NULL => row' # NULL
  BY <1>4, <1>5, <1>6 DEF Writes
<1> QED
  BY <1>4, <1>5, <1>6, <1>7, <1>8, <1>9, <1>10

LEMMA CommitKeeps == ASSUME IndInv, NEW t \in Requests, Commit(t) PROVE IndInv'
<1>1. TypeOK'
  BY NextTypes DEF IndInv, Next
<1>2. /\ \A u \in Requests \ {t} : pc'[u] = pc[u] /\ answer'[u] = answer[u]
      /\ pc'[t] = "done" /\ pc[t] = "logged" /\ answer'[t] \in {Success(t), "lost"}
  BY DEF Commit, IndInv, TypeOK
<1>3. UNCHANGED <<wip, nextId, call, before, after, auditId>>
  BY DEF Commit
<1>4. \A u \in Ended : u \in Requests
  BY DEF Ended
<1>5. ASSUME NEW u \in Requests, u # t, Changes(call[t]) PROVE ~(pc[u] = "logged" /\ Changes(call[u]))
  BY <1>5, CommitShape DEF IndInv, StepsInv, Writes
<1>6. LockInv'
  <2>1. CASE locker = t
    BY <1>3, <2>1 DEF Commit, LockInv
  <2>2. CASE locker # t
    BY <1>2, <1>3, <2>2 DEF Commit, LockInv, IndInv, TypeOK
  <2> QED
    BY <2>1, <2>2
<1>7. StepsInv'
  <2>1. ASSUME NEW u \in Requests, locker = u, u # t PROVE locker' = u
    BY <2>1 DEF Commit
  <2>2. row # NULL => row' # NULL
    BY CommitShape
  <2> QED
    BY <1>2, <1>3, <2>1, <2>2 DEF StepsInv, IndInv
<1>8. IdsInv'
  <2>1. log' = {Entry(u)' : u \in Ended'}
    <3>1. \A u \in Requests : Entry(u)' = Entry(u)
      BY <1>3 DEF Entry
    <3>2. log = {Entry(u) : u \in Ended}
      BY DEF IndInv, IdsInv
    <3>3. {Entry(u)' : u \in Ended'} = {Entry(u) : u \in Ended'}
      <4>1. \A u \in Ended' : u \in Requests
        BY <1>4, CommitShape
      <4> QED
        BY <3>1, <4>1
    <3>4. CASE call[t].op = "stub"
      BY <3>2, <3>3, <3>4, CommitShape
    <3>5. CASE call[t].op # "stub"
      <4>1. {Entry(u) : u \in Ended \cup {t}} = {Entry(u) : u \in Ended} \cup {Entry(t)}
        OBVIOUS
      <4> QED
        BY <3>2, <3>3, <3>5, <4>1, CommitShape
    <3> QED
      BY <3>4, <3>5
  <2>2. ASSUME NEW v \in Requests, NEW u \in Ended',
               pc'[v] = "logged", Changes(call'[v]), Changes(call'[u])
        PROVE  auditId'[u] < auditId'[v]
    <3>1. v # t /\ pc[v] = "logged" /\ Changes(call[v]) /\ Changes(call[u])
      BY <1>2, <1>3, <2>2
    <3>2. u # t
      BY <1>5, <3>1
    <3>3. u \in Ended
      BY <3>2, CommitShape
    <3> QED
      BY <1>3, <3>1, <3>3 DEF IndInv, IdsInv
  <2> QED
    BY <1>3, <2>1, <2>2 DEF IdsInv, IndInv
<1>9. RowInv'
  <2>1. CASE call[t].op = "stub"
    <3>1. Ended' = Ended /\ row' = UpsertMinimal(row) /\ row \in Rows \cup {NULL}
      BY <2>1, CommitShape DEF IndInv, TypeOK
    <3>2. (\E u \in Ended : Changes(call[u])) => row' = row /\ row # NULL
      BY <3>1, StubShape DEF IndInv, RowInv
    <3>3. (\A u \in Ended : ~Changes(call[u])) => row' \in {NULL, UpsertMinimal(NULL)}
      BY <3>1, StubShape DEF IndInv, RowInv
    <3> QED
      BY <1>3, <3>1, <3>2, <3>3 DEF IndInv, RowInv
  <2>2. CASE call[t].op # "stub" /\ ~Changes(call[t])
    <3>1. Ended' = Ended \cup {t} /\ row' = row /\ UNCHANGED <<call, auditId, after>>
      BY <1>3, <2>2, CommitShape DEF Writes
    <3> QED
      BY <2>2, <3>1 DEF IndInv, RowInv
  <2>3. CASE Changes(call[t])
    <3>1. Ended' = Ended \cup {t} /\ after[t] = Live(row') /\ row' # NULL
      <4>1. call[t].op # "stub" /\ row \in Rows \cup {NULL} /\ call[t] \in Call
        BY <2>3, CallsAreCalls DEF Changes, IndInv, TypeOK
      <4>2. Outcome(call[t], row) # NULL
        BY <2>3, <4>1, CommitShape, OutcomeShape, NullRowAssumption
      <4> QED
        BY <2>3, <4>1, <4>2, CommitShape
    <3>2. \A u \in Ended : Changes(call[u]) => auditId[u] < auditId[t]
      BY <1>2, <2>3 DEF IndInv, IdsInv
    <3>3. \A u \in Requests : auditId[u] \in Nat
      BY DEF IndInv, TypeOK
    <3>4. ASSUME NEW u \in Ended', Changes(call'[u]),
                 \A v \in Ended' : Changes(call'[v]) => auditId'[v] <= auditId'[u]
          PROVE  u = t
      <4>1. auditId[t] <= auditId[u]
        BY <1>3, <2>3, <3>1, <3>4
      <4> QED
        BY <1>3, <1>4, <3>1, <3>2, <3>3, <3>4, <4>1
    <3>5. t \in Ended' /\ Changes(call'[t])
      BY <1>3, <2>3, <3>1
    <3> QED
      BY <1>3, <3>1, <3>4, <3>5 DEF RowInv
  <2> QED
    BY <2>1, <2>2, <2>3 DEF Changes
<1>10. AnswersInv'
  <2>1. /\ Success(t) \in {"200", "201", "202", "204"}
        /\ Success(t) \in {"200", "201"} => call[t].op \in {"create", "update"}
        /\ Success(t) = "204" => call[t].op = "delete"
    BY CallsAreCalls, CallShape DEF Success, IndInv
  <2> QED
    BY <1>2, <1>3, <2>1 DEF AnswersInv, IndInv
<1> QED
  BY <1>1, <1>6, <1>7, <1>8, <1>9, <1>10 DEF IndInv

LEMMA NextInv == ASSUME IndInv, [Next]_vars PROVE IndInv'
<1>1. CASE UNCHANGED vars
  <2> USE <1>1 DEF vars
  <2>1. TypeOK' /\ LockInv' /\ StepsInv'
    BY DEF IndInv, TypeOK, LockInv, StepsInv
  <2>2. Ended' = Ended /\ {Entry(u)' : u \in Ended'} = {Entry(u) : u \in Ended}
    BY DEF Ended, Entry
  <2>3. IdsInv' /\ RowInv' /\ AnswersInv'
    BY <2>2 DEF IndInv, IdsInv, RowInv, AnswersInv
  <2> QED
    BY <2>1, <2>3 DEF IndInv
<1>2. ASSUME NEW t \in Requests, Reject(t) PROVE IndInv'
  <2>1. PICK status \in {"409", "404", "422"} : Refuse(t, status)
    BY <1>2 DEF Reject
  <2> QED
    BY <1>2, <2>1, RefuseKeeps DEF Reject, IndInv, TypeOK
<1>3. ASSUME NEW t \in Requests, WriteFails(t) PROVE IndInv'
  <2>1. PICK status \in {"404", "500"} : Refuse(t, status)
    BY <1>3 DEF WriteFails
  <2>2. nextId' \in Nat \ {0} /\ nextId' >= nextId
    BY <1>3 DEF WriteFails, IndInv, TypeOK
  <2> QED
    BY <1>3, <2>1, <2>2, RefuseKeeps DEF WriteFails
<1>4. ASSUME NEW t \in Requests, Fail(t) PROVE IndInv'
  <2>1. PICK status \in {"500", "lost"} : Refuse(t, status)
    BY <1>4 DEF Fail
  <2> QED
    BY <1>4, <2>1, RefuseKeeps DEF Fail, IndInv, TypeOK
<1> QED
  BY <1>1, <1>2, <1>3, <1>4, DecideKeeps, WriteKeeps, ReadAgainKeeps, AppendAuditKeeps,
     UpsertStubKeeps, CommitKeeps DEF Next

LEMMA Inductive == Spec => []IndInv
BY InitInv, NextInv, PTL DEF Spec

-----------------------------------------------------------------------------
(* Theorems. *)

\* Every variable keeps its type.
THEOREM TypeCorrect == Spec => []TypeOK
BY Inductive, PTL DEF IndInv

LEMMA LogShape ==
    ASSUME IndInv
    PROVE  /\ \A o \in log : \E t \in Ended : o = Entry(t)
           /\ \A t \in Ended : Entry(t) \in log
           /\ \A t \in Ended : /\ t \in Requests /\ pc[t] = "done" /\ call[t].op # "stub"
                                /\ Entry(t).id = auditId[t] /\ Entry(t).request = t
                                /\ Entry(t).after = after[t]
BY DEF IndInv, IdsInv, Entry, Ended

\* The newest audit entry of a change shows the connection as it is.
LEMMA LatestFollows == ASSUME IndInv PROVE LatestAuditShowsRow
<1>1. ASSUME ChangeEntries = {} PROVE row \in {NULL, UpsertMinimal(NULL)}
  <2>1. \A u \in Ended : ~Changes(call[u])
    BY <1>1, LogShape DEF ChangeEntries
  <2> QED
    BY <2>1 DEF IndInv, RowInv
<1>2. ASSUME NEW o \in ChangeEntries, \A p \in ChangeEntries : p.id <= o.id PROVE o.after = Live(row)
  <2>1. PICK t \in Ended : o = Entry(t)
    BY LogShape DEF ChangeEntries
  <2>2. ASSUME NEW u \in Ended, Changes(call[u]) PROVE auditId[u] <= auditId[t]
    <3>1. Entry(u) \in ChangeEntries
      BY <2>2, LogShape DEF ChangeEntries
    <3> QED
      BY <1>2, <2>1, <3>1, LogShape
  <2>3. Changes(call[t])
    BY <2>1, LogShape DEF ChangeEntries
  <2> QED
    BY <2>1, <2>2, <2>3, LogShape DEF IndInv, RowInv
<1> QED
  BY <1>1, <1>2 DEF LatestAuditShowsRow

\* An answer of success means one audit entry with every column the caller gave;
\* a 404, 409 or 422 means none.
THEOREM AnswersMatchAudit == Spec => []AnswerMatchesAudit
<1>1. IndInv => AnswerMatchesAudit
  <2> SUFFICES ASSUME IndInv, NEW t \in Requests
               PROVE  LET mine == {o \in log : o.request = t}
                      IN  /\ answer[t] \in {"200", "201"} =>
                               \E o \in mine : /\ mine = {o} /\ o.after # NULL
                                               /\ \A col \in Columns :
                                                     call[t][col] # NULL => o.after[col] = call[t][col]
                          /\ answer[t] = "204" => \E o \in mine : mine = {o} /\ o.after = NULL
                          /\ answer[t] \in {"404", "409", "422"} => mine = {}
    BY DEF AnswerMatchesAudit
  <2> DEFINE mine == {o \in log : o.request = t}
  <2>1. t \in Ended => mine = {Entry(t)}
    BY LogShape
  <2>2. t \notin Ended => mine = {}
    BY LogShape
  <2>3. t \in Ended => Told(call[t], Entry(t).after)
    BY LogShape DEF IndInv, StepsInv
  <2>4. ASSUME answer[t] \in {"200", "201"}
        PROVE  /\ t \in Ended /\ Entry(t).after # NULL
               /\ \A col \in Columns : call[t][col] # NULL => Entry(t).after[col] = call[t][col]
    <3>1. t \in Ended /\ call[t].op \in {"create", "update"}
      BY <2>4 DEF IndInv, AnswersInv, Ended
    <3> QED
      BY <2>3, <3>1, NullRowAssumption DEF Told
  <2>5. ASSUME answer[t] = "204" PROVE t \in Ended /\ Entry(t).after = NULL
    <3>1. t \in Ended /\ call[t].op = "delete"
      BY <2>5 DEF IndInv, AnswersInv, Ended
    <3> QED
      BY <2>3, <3>1 DEF Told
  <2>6. answer[t] \in {"404", "409", "422"} => t \notin Ended
    BY DEF IndInv, AnswersInv, Ended
  <2> HIDE DEF mine
  <2> QED
    BY <2>1, <2>2, <2>4, <2>5, <2>6 DEF mine
<1> QED
  BY <1>1, Inductive, PTL

\* Only a commit ends a call successfully, and only a commit changes the row.
LEMMA OnlyCommits ==
    ASSUME IndInv, [Next]_vars
    PROVE  /\ \A t \in Requests : pc[t] # "done" /\ pc'[t] = "done" => Commit(t)
           /\ UNCHANGED <<row, log>> \/ \E t \in Requests : Commit(t)
<1>1. CASE UNCHANGED vars
  BY <1>1 DEF vars
<1>2. ASSUME NEW u \in Requests, NEW status, Refuse(u, status)
      PROVE  /\ \A t \in Requests : pc[t] # "done" => pc'[t] # "done"
             /\ UNCHANGED <<row, log>>
  BY <1>2 DEF Refuse, IndInv, TypeOK
<1>3. ASSUME NEW u \in Requests,
             Reject(u) \/ WriteFails(u) \/ Fail(u)
      PROVE  \E status : Refuse(u, status)
  BY <1>3 DEF Reject, WriteFails, Fail
<1>4. ASSUME NEW u \in Requests,
             Decide(u) \/ Write(u) \/ ReadAgain(u) \/ AppendAudit(u) \/ UpsertStub(u)
      PROVE  /\ \A t \in Requests : pc[t] # "done" => pc'[t] # "done"
             /\ UNCHANGED <<row, log>>
  <2>1. ASSUME ReadAgain(u), Live(row) = NULL PROVE Refuse(u, "500")
    BY <2>1 DEF ReadAgain
  <2> QED
    BY <1>2, <1>4, <2>1 DEF Decide, Write, ReadAgain, AppendAudit, UpsertStub, IndInv, TypeOK
<1>5. ASSUME NEW u \in Requests, Commit(u)
      PROVE  \A t \in Requests : pc[t] # "done" /\ pc'[t] = "done" => t = u
  BY <1>5 DEF Commit, IndInv, TypeOK
<1>6. CASE Next
  <2>1. PICK u \in Requests : \/ Reject(u) \/ WriteFails(u) \/ Fail(u)
                              \/ Decide(u) \/ Write(u) \/ ReadAgain(u) \/ AppendAudit(u)
                              \/ UpsertStub(u) \/ Commit(u)
    BY <1>6 DEF Next
  <2>2. CASE Reject(u) \/ WriteFails(u) \/ Fail(u)
    BY <1>2, <1>3, <2>2
  <2>3. CASE Decide(u) \/ Write(u) \/ ReadAgain(u) \/ AppendAudit(u) \/ UpsertStub(u)
    BY <1>4, <2>3
  <2>4. CASE Commit(u)
    BY <1>5, <2>4
  <2> QED
    BY <2>1, <2>2, <2>3, <2>4
<1> QED
  BY <1>1, <1>6

\* A PUT leaves the columns it does not name as it finds them.
THEOREM UpdatesKeepOtherColumns == Spec => UpdateKeepsOtherColumns
<1>1. ASSUME IndInv, [Next]_vars, NEW t \in Requests,
             call[t].op = "update", pc[t] # "done", pc'[t] = "done",
             NEW col \in Columns, call[t][col] = NULL
      PROVE  row'[col] = row[col]
  <2>1. Commit(t) /\ call[t] \in Call /\ row \in Rows \cup {NULL}
    BY <1>1, OnlyCommits, CallsAreCalls DEF IndInv, TypeOK
  <2>2. CASE Changes(call[t])
    BY <1>1, <2>1, <2>2, CommitShape, OutcomeShape
  <2>3. CASE ~Changes(call[t])
    BY <1>1, <2>1, <2>3, CommitShape DEF Writes
  <2> QED
    BY <2>2, <2>3
<1>2. IndInv /\ [Next]_vars =>
         [\A t \in Requests : call[t].op = "update" /\ pc[t] # "done" /\ pc'[t] = "done" =>
             \A col \in Columns : call[t][col] = NULL => row'[col] = row[col]]_vars
  BY <1>1
<1> QED
  BY <1>2, Inductive, PTL DEF Spec, UpdateKeepsOtherColumns

\* The row of a deleted connection never changes again.
THEOREM DeletedRowsAreFrozen == Spec => DeletedRowIsFrozen
<1>1. ASSUME IndInv, [Next]_vars, row # NULL, row.deleted PROVE row' = row
  <2>1. CASE UNCHANGED row
    BY <2>1
  <2>2. ASSUME NEW t \in Requests, Commit(t) PROVE row' = row
    <3>1. ~Changes(call[t])
      BY <1>1, <2>2, CommitShape DEF Applies, Live
    <3>2. CASE call[t].op = "stub"
      <4>1. row \in Rows \cup {NULL}
        BY <1>1 DEF IndInv, TypeOK
      <4> QED
        BY <1>1, <2>2, <3>2, <4>1, CommitShape, StubShape
    <3>3. CASE call[t].op # "stub"
      BY <1>1, <2>2, <3>1, <3>3, CommitShape DEF Writes
    <3> QED
      BY <3>2, <3>3
  <2> QED
    BY <1>1, <2>1, <2>2, OnlyCommits
<1>2. IndInv /\ [Next]_vars => [row # NULL /\ row.deleted => row' = row]_vars
  BY <1>1
<1> QED
  BY <1>2, Inductive, PTL DEF Spec, DeletedRowIsFrozen

\* Only a PUT of one of platform and properties takes away the keys the platform
\* requires.
THEOREM OnlyHalfUpdatesBreakTheRule == Spec => HalfUpdatesBreakTheRule
<1> DEFINE Broken(r) == r # NULL /\ ~Conforms(r.platform, r.props)
           Half(c)   == c.op = "update" /\ (c.platform = NULL) # (c.props = NULL)
<1>1. ASSUME IndInv, [Next]_vars, Broken(row'), ~Broken(row)
      PROVE  \E t \in Requests : pc[t] # "done" /\ pc'[t] = "done" /\ Half(call[t])
  <2>1. PICK t \in Requests : Commit(t)
    BY <1>1, OnlyCommits
  <2>2. /\ pc[t] = "logged" /\ pc'[t] = "done"
        /\ call[t] \in Call /\ row \in Rows \cup {NULL}
    <3>1. pc[t] = "logged" /\ pc' = [pc EXCEPT ![t] = "done"]
      BY <2>1 DEF Commit
    <3> QED
      BY <1>1, <3>1, CallsAreCalls DEF IndInv, TypeOK
  <2>3. Changes(call[t])
    <3>1. CASE call[t].op = "stub"
      <4>1. row = NULL /\ row' = UpsertMinimal(row)
        BY <1>1, <2>1, <2>2, <3>1, CommitShape, StubShape
      <4>2. row'.platform = "unknown"
        BY <2>2, <4>1, StubShape
      <4> QED
        BY <1>1, <4>2 DEF Conforms, Strict
    <3> QED
      BY <1>1, <2>1, <3>1, CommitShape DEF Writes
  <2>4. ~Invalid(call[t])
    <3>1. call[t].op # "stub"
      BY <2>3 DEF Changes
    <3> QED
      BY <1>1, <2>2, <3>1 DEF IndInv, StepsInv
  <2>5. Applies(call[t], row) /\ row' = Outcome(call[t], row)
    BY <1>1, <2>1, <2>3, CommitShape
  <2>6. Half(call[t])
    BY <1>1, <2>2, <2>4, <2>5, OutcomeConforms
  <2> QED
    BY <2>2, <2>6
<1>2. IndInv /\ [Next]_vars =>
         [Broken(row') /\ ~Broken(row) =>
             \E t \in Requests : pc[t] # "done" /\ pc'[t] = "done" /\ Half(call[t])]_vars
  BY <1>1
<1> QED
  BY <1>2, Inductive, PTL DEF Spec, HalfUpdatesBreakTheRule

-----------------------------------------------------------------------------
(* The log is a history.  Entries of changes become visible in the order of   *)
(* their ids, for a change draws its id under the row lock: the newest one at *)
(* a commit is the one before the new entry, and the row is as it shows it.   *)

HistoryInv ==
    /\ \A o \in ChangeEntries : Continues(o)
    /\ ChangeEntries # {} => \E p \in ChangeEntries : \A q \in ChangeEntries : q.id <= p.id

\* The entry of a committed change comes after all others.
LEMMA ChangeIsNewest ==
    ASSUME IndInv, NEW t \in Requests, Commit(t), Changes(call[t])
    PROVE  /\ ChangeEntries' = ChangeEntries \cup {Entry(t)}
           /\ \A p \in ChangeEntries : p.id < Entry(t).id
           /\ \A p \in ChangeEntries \cup {Entry(t)} : p.id \in Nat
<1>1. log' = log \cup {Entry(t)} /\ UNCHANGED call
  <2>1. call[t].op # "stub"
    BY DEF Changes
  <2>2. log' = log \cup {Entry(t)}
    BY <2>1, CommitShape
  <2> QED
    BY <2>2 DEF Commit
<1>2. ChangeEntries' = ChangeEntries \cup {Entry(t)}
  BY <1>1 DEF ChangeEntries, Entry
<1>3. ASSUME NEW p \in ChangeEntries PROVE p.id < Entry(t).id /\ p.id \in Nat
  <2>1. PICK u \in Ended : p = Entry(u) /\ Changes(call[u])
    BY LogShape DEF ChangeEntries
  <2>2. pc[t] = "logged" /\ u \in Requests
    BY DEF Commit, Ended
  <2> QED
    BY <2>1, <2>2 DEF IndInv, IdsInv, TypeOK, Entry
<1> QED
  BY <1>2, <1>3 DEF Entry, IndInv, TypeOK

\* A change is applied to the row as the newest entry shows it.
LEMMA ChangeFollows ==
    ASSUME IndInv, NEW t \in Requests, Commit(t), Changes(call[t])
    PROVE  /\ ChangeEntries = {} => after[t] = Live(Outcome(call[t], UpsertMinimal(NULL)))
           /\ \A p \in ChangeEntries :
                 (\A q \in ChangeEntries : q.id <= p.id) =>
                     p.after # NULL /\ after[t] = Live(Outcome(call[t], p.after))
<1>1. /\ Applies(call[t], row) /\ after[t] = Live(Outcome(call[t], row))
      /\ row \in Rows \cup {NULL}
  BY CommitShape DEF IndInv, TypeOK
<1>2. LatestAuditShowsRow
  BY LatestFollows
<1>3. ASSUME ChangeEntries = {} PROVE after[t] = Live(Outcome(call[t], UpsertMinimal(NULL)))
  <2>1. CASE row = UpsertMinimal(NULL)
    BY <1>1, <2>1
  <2>2. CASE row = NULL
    <3>1. call[t].op = "create"
      BY <1>1, <2>2 DEF Applies, Live
    <3> QED
      BY <1>1, <3>1 DEF Outcome
  <2> QED
    BY <1>2, <1>3, <2>1, <2>2 DEF LatestAuditShowsRow
<1>4. ASSUME NEW p \in ChangeEntries, \A q \in ChangeEntries : q.id <= p.id
      PROVE  p.after # NULL /\ after[t] = Live(Outcome(call[t], p.after))
  <2>1. p.after = Live(row)
    BY <1>2, <1>4 DEF LatestAuditShowsRow
  <2>2. row # NULL
    <3>1. PICK u \in Ended : p = Entry(u) /\ Changes(call[u])
      BY LogShape DEF ChangeEntries
    <3> QED
      BY <3>1 DEF IndInv, RowInv
  <2>3. Live(row) # NULL /\ Live(row) = row
    BY <1>1, <2>2, LiveShape DEF Applies
  <2> QED
    BY <1>1, <2>1, <2>3
<1> QED
  BY <1>3, <1>4

\* What the entries in the log follow does not depend on later ones.
LEMMA CommitKeepsHistory ==
    ASSUME IndInv, HistoryInv, NEW t \in Requests, Commit(t)
    PROVE  HistoryInv'
<1>1. UNCHANGED call
  BY DEF Commit
<1>2. CASE ~Changes(call[t])
  <2>1. ChangeEntries' = ChangeEntries
    BY <1>1, <1>2 DEF ChangeEntries, Commit, Entry
  <2> QED
    BY <1>1, <2>1 DEF HistoryInv, Continues, Precedes
<1>3. CASE Changes(call[t])
  <2>1. PICK e : e = Entry(t)
    OBVIOUS
  <2>2. /\ ChangeEntries' = ChangeEntries \cup {e} /\ e \in ChangeEntries'
        /\ \A p \in ChangeEntries : p.id < e.id
        /\ \A p \in ChangeEntries' : p.id \in Nat
    BY <1>3, <2>1, ChangeIsNewest
  <2>3. e.request = t /\ e.after = after[t]
    BY <2>1 DEF Entry
  <2>4. \A q \in ChangeEntries' : q.id <= e.id
    BY <2>2
  <2>5. ASSUME NEW o \in ChangeEntries
        PROVE  Continues(o)'
    <3>1. CASE /\ \A p \in ChangeEntries : o.id <= p.id
               /\ o.after = Live(Outcome(call[o.request], UpsertMinimal(NULL)))
      BY <1>1, <2>2, <3>1 DEF Continues
    <3>2. CASE \E p \in ChangeEntries : /\ Precedes(p, o) /\ p.after # NULL
                                        /\ o.after = Live(Outcome(call[o.request], p.after))
      <4>1. PICK p \in ChangeEntries : /\ Precedes(p, o) /\ p.after # NULL
                                       /\ o.after = Live(Outcome(call[o.request], p.after))
        BY <3>2
      <4>2. p.id < o.id /\ \A q \in ChangeEntries' : q.id < o.id => q.id <= p.id
        BY <2>2, <4>1 DEF Precedes
      <4> QED
        BY <1>1, <2>2, <4>1, <4>2 DEF Continues, Precedes
    <3> QED
      BY <3>1, <3>2 DEF HistoryInv, Continues
  <2>6. Continues(e)'
    <3>1. CASE ChangeEntries = {}
      BY <1>1, <1>3, <2>2, <2>3, <3>1, ChangeFollows DEF Continues
    <3>2. CASE ChangeEntries # {}
      <4>1. PICK p \in ChangeEntries : \A q \in ChangeEntries : q.id <= p.id
        BY <3>2 DEF HistoryInv
      <4>2. p.after # NULL /\ e.after = Live(Outcome(call'[e.request], p.after))
        BY <1>1, <1>3, <2>3, <4>1, ChangeFollows
      <4>3. p.id < e.id /\ \A q \in ChangeEntries' : q.id < e.id => q.id <= p.id
        BY <2>2, <4>1
      <4> QED
        BY <2>2, <4>2, <4>3 DEF Continues, Precedes
    <3> QED
      BY <3>1, <3>2
  <2>7. \A o \in ChangeEntries' : Continues(o)'
    BY <2>2, <2>5, <2>6
  <2> QED
    BY <2>2, <2>4, <2>7 DEF HistoryInv
<1> QED
  BY <1>2, <1>3

LEMMA CallsStay == ASSUME [Next]_vars PROVE UNCHANGED call
BY DEF Next, vars, Reject, Decide, Write, WriteFails, ReadAgain, AppendAudit, UpsertStub, Commit,
       Fail, Refuse

LEMMA HistoryHolds == Spec => []HistoryInv
<1>1. Init => HistoryInv
  <2> SUFFICES ASSUME Init PROVE HistoryInv
    OBVIOUS
  <2>1. ChangeEntries = {}
    BY DEF Init, ChangeEntries
  <2> QED
    BY <2>1 DEF HistoryInv
<1>2. IndInv /\ HistoryInv /\ [Next]_vars => HistoryInv'
  <2> SUFFICES ASSUME IndInv, HistoryInv, [Next]_vars PROVE HistoryInv'
    OBVIOUS
  <2>1. CASE UNCHANGED log
    <3>1. UNCHANGED call
      BY CallsStay
    <3>2. ChangeEntries' = ChangeEntries
      BY <2>1, <3>1 DEF ChangeEntries
    <3> QED
      BY <3>1, <3>2 DEF HistoryInv, Continues, Precedes
  <2> QED
    BY <2>1, OnlyCommits, CommitKeepsHistory
<1> QED
  BY <1>1, <1>2, Inductive, PTL DEF Spec

\* Whatever calls are made and however they interleave, the audit log is the
\* history of the connection, and its last entry shows the connection as it is.
THEOREM LogIsTheHistory == Spec => []LogIsHistory
<1>1. IndInv /\ HistoryInv => LogIsHistory
  BY LatestFollows DEF HistoryInv, LogIsHistory
<1> QED
  BY <1>1, HistoryHolds, Inductive, PTL

-----------------------------------------------------------------------------
(* What a handler read, it read from the committed row, which the newest      *)
(* entry of a change shows; its own id is drawn after the read.               *)

ReadsInv == \A t \in Requests :
    /\ pc[t] \in {"posted", "decided", "written"} => auditId[t] = 0
    /\ WasShown(before[t], nextId)
    /\ auditId[t] # 0 => WasShown(before[t], auditId[t])

\* An entry stays in the log.
LEMMA ShownStays ==
    ASSUME IndInv, [Next]_vars, NEW r, NEW i \in Nat, NEW j \in Nat, i <= j, WasShown(r, i)
    PROVE  WasShown(r, j)'
<1>1. ChangeEntries \subseteq ChangeEntries'
  <2>1. UNCHANGED call /\ log \subseteq log'
    BY CallsStay, OnlyCommits DEF Commit
  <2> QED
    BY <2>1 DEF ChangeEntries
<1>2. CASE r \in {NULL, UpsertMinimal(NULL)}
  BY <1>2 DEF WasShown
<1>3. ASSUME NEW p \in ChangeEntries, p.id < i, p.after = r PROVE WasShown(r, j)'
  <2>1. p.id \in Nat
    BY DEF ChangeEntries, IndInv, TypeOK
  <2> QED
    BY <1>1, <1>3, <2>1 DEF WasShown
<1> QED
  BY <1>2, <1>3 DEF WasShown

\* The committed row is as an entry in the log shows it.
LEMMA RowWasShown == ASSUME IndInv, HistoryInv PROVE WasShown(Live(row), nextId)
<1>1. LatestAuditShowsRow
  BY LatestFollows
<1>2. CASE ChangeEntries = {}
  <2>1. row \in {NULL, UpsertMinimal(NULL)}
    BY <1>1, <1>2 DEF LatestAuditShowsRow
  <2> QED
    BY <2>1 DEF WasShown, Live
<1>3. CASE ChangeEntries # {}
  <2>1. PICK p \in ChangeEntries : \A q \in ChangeEntries : q.id <= p.id
    BY <1>3 DEF HistoryInv
  <2>2. PICK t \in Ended : p = Entry(t)
    BY LogShape DEF ChangeEntries
  <2>3. p.id < nextId
    BY <2>2 DEF Ended, Entry, IndInv, IdsInv
  <2> QED
    BY <1>1, <2>1, <2>3 DEF LatestAuditShowsRow, WasShown
<1> QED
  BY <1>2, <1>3

\* Which step draws ids and remembers reads.
LEMMA ReadsAndIds ==
    ASSUME IndInv, [Next]_vars, NEW t \in Requests
    PROVE  /\ nextId \in Nat /\ nextId' \in Nat /\ nextId <= nextId'
           /\ \/ UNCHANGED <<before[t], auditId[t]>>
              \/ Decide(t) /\ before'[t] = Live(row) /\ UNCHANGED auditId[t]
              \/ AppendAudit(t) /\ UNCHANGED before[t] /\ auditId'[t] = nextId
           /\ pc'[t] \in {"posted", "decided", "written"} =>
                 pc[t] \in {"posted", "decided", "written"} /\ ~AppendAudit(t)
<1>1. CASE UNCHANGED vars
  BY <1>1 DEF vars, IndInv, TypeOK, AppendAudit
<1>2. ASSUME NEW u \in Requests, NEW status, Refuse(u, status)
      PROVE  UNCHANGED <<before, auditId>> /\ pc' = [pc EXCEPT ![u] = "refused"]
  BY <1>2 DEF Refuse
<1>3. CASE Next
  <2>1. PICK u \in Requests : \/ Reject(u) \/ Decide(u) \/ Write(u) \/ WriteFails(u) \/ ReadAgain(u)
                              \/ AppendAudit(u) \/ UpsertStub(u) \/ Commit(u) \/ Fail(u)
    BY <1>3 DEF Next
  <2>2. CASE Reject(u) \/ WriteFails(u) \/ Fail(u)
    <3>1. \E status : Refuse(u, status)
      BY <2>2 DEF Reject, WriteFails, Fail
    <3>2. UNCHANGED <<before, auditId>> /\ pc' = [pc EXCEPT ![u] = "refused"]
      BY <1>2, <3>1
    <3>3. nextId' \in {nextId, nextId + 1}
      BY <2>2 DEF Reject, WriteFails, Fail
    <3> QED
      BY <3>2, <3>3 DEF IndInv, TypeOK, AppendAudit
  <2>3. CASE Decide(u)
    <3>1. /\ before' = [before EXCEPT ![u] = Live(row)] /\ pc' = [pc EXCEPT ![u] = "decided"]
          /\ UNCHANGED <<auditId, nextId>> /\ pc[u] = "posted"
      BY <2>3 DEF Decide
    <3>2. ~AppendAudit(t)
      BY <3>1 DEF AppendAudit, IndInv, TypeOK
    <3> QED
      BY <2>3, <3>1, <3>2 DEF IndInv, TypeOK
  <2>4. CASE Write(u) \/ UpsertStub(u) \/ Commit(u)
    BY <2>4 DEF Write, UpsertStub, Commit, IndInv, TypeOK, AppendAudit
  <2>5. CASE ReadAgain(u)
    <3>1. CASE Live(row) = NULL
      <4>1. UNCHANGED nextId /\ UNCHANGED <<before, auditId>> /\ pc' = [pc EXCEPT ![u] = "refused"]
        BY <1>2, <2>5, <3>1 DEF ReadAgain
      <4> QED
        BY <4>1 DEF IndInv, TypeOK, AppendAudit
    <3> QED
      BY <2>5, <3>1 DEF ReadAgain, IndInv, TypeOK, AppendAudit
  <2>6. CASE AppendAudit(u)
    <3>1. /\ auditId' = [auditId EXCEPT ![u] = nextId] /\ pc' = [pc EXCEPT ![u] = "logged"]
          /\ nextId' = nextId + 1 /\ UNCHANGED before
      BY <2>6 DEF AppendAudit
    <3>2. t # u => ~AppendAudit(t)
      BY <3>1 DEF AppendAudit, IndInv, TypeOK
    <3> QED
      BY <2>6, <3>1, <3>2 DEF IndInv, TypeOK
  <2> QED
    BY <2>1, <2>2, <2>3, <2>4, <2>5, <2>6
<1> QED
  BY <1>1, <1>3

LEMMA ReadsKept == ASSUME IndInv, HistoryInv, ReadsInv, [Next]_vars PROVE ReadsInv'
<1> SUFFICES ASSUME NEW t \in Requests
             PROVE  /\ pc'[t] \in {"posted", "decided", "written"} => auditId'[t] = 0
                    /\ WasShown(before[t], nextId)'
                    /\ auditId'[t] # 0 => WasShown(before[t], auditId[t])'
  BY DEF ReadsInv
<1>1. PICK r : r = before'[t]
  OBVIOUS
<1>2. PICK i, j, k : i = nextId /\ j = nextId' /\ k = auditId'[t]
  OBVIOUS
<1>3. i \in Nat /\ j \in Nat /\ k \in Nat /\ i <= j
  BY <1>2, ReadsAndIds, NextInv DEF IndInv, TypeOK
<1>4. WasShown(r, i)
  <2>1. before'[t] \in {before[t], Live(row)}
    BY ReadsAndIds
  <2> QED
    BY <1>1, <1>2, <2>1, RowWasShown DEF ReadsInv
<1>5. WasShown(r, j)'
  BY <1>3, <1>4, ShownStays
<1>6. ASSUME k # 0 PROVE WasShown(r, k)'
  <2>1. CASE AppendAudit(t)
    <3>1. k = i
      BY <1>2, <2>1 DEF AppendAudit, IndInv, TypeOK
    <3> QED
      BY <1>3, <1>4, <3>1, ShownStays
  <2>2. CASE ~AppendAudit(t)
    <3>1. auditId[t] = k
      BY <1>2, <2>2, ReadsAndIds
    <3>2. ~Decide(t)
      BY <1>6, <3>1 DEF Decide, ReadsInv
    <3>3. WasShown(r, k)
      BY <1>1, <1>6, <2>2, <3>1, <3>2, ReadsAndIds DEF ReadsInv
    <3> QED
      BY <1>3, <3>3, ShownStays
  <2> QED
    BY <2>1, <2>2
<1>7. pc'[t] \in {"posted", "decided", "written"} => k = 0
  BY <1>2, ReadsAndIds DEF ReadsInv
<1> QED
  BY <1>1, <1>2, <1>5, <1>6, <1>7

\* The "before" of an audit entry is a state that an earlier entry shows, however
\* stale, and never one that was rolled back or that no entry accounts for.
THEOREM AuditsStartFromShownStates == Spec => []BeforeWasShown
<1>1. Init => ReadsInv
  BY DEF Init, ReadsInv, WasShown
<1>2. IndInv /\ HistoryInv /\ ReadsInv /\ [Next]_vars => ReadsInv'
  BY ReadsKept
<1>3. IndInv /\ ReadsInv => BeforeWasShown
  <2> SUFFICES ASSUME IndInv, ReadsInv, NEW o \in log PROVE WasShown(o.before, o.id)
    BY DEF BeforeWasShown
  <2>1. PICK t \in Ended : o = Entry(t)
    BY LogShape
  <2>2. auditId[t] # 0 /\ o.before = before[t] /\ o.id = auditId[t]
    BY <2>1 DEF Ended, Entry, IndInv, StepsInv
  <2> QED
    BY <2>1, <2>2 DEF ReadsInv, Ended
<1> QED
  BY <1>1, <1>2, <1>3, HistoryHolds, Inductive, PTL DEF Spec

-----------------------------------------------------------------------------
(* Registry implements AtomicRegistry. *)

\* The instance's row semantics are this module's.
LEMMA SameRows ==
    /\ \A r : Abs!Live(r) = Live(r) /\ Abs!UpsertMinimal(r) = UpsertMinimal(r)
    /\ \A c : Abs!Changes(c) <=> Changes(c)
    /\ \A c, r : Abs!Outcome(c, r) = Outcome(c, r)
    /\ Abs!Rows = Rows
<1>1. /\ \A r : Abs!Live(r) = Live(r) /\ Abs!UpsertMinimal(r) = UpsertMinimal(r)
      /\ \A c : Abs!Changes(c) <=> Changes(c)
  BY DEF Abs!Live, Live, Abs!UpsertMinimal, UpsertMinimal, Abs!Changes, Changes, Abs!Columns, Columns
<1>2. \A c, r : Abs!Outcome(c, r) = Outcome(c, r)
  BY DEF Abs!Outcome, Outcome, Abs!Given, Given
<1>3. Abs!Rows = Rows
  BY DEF Abs!Rows, Rows, Abs!Props, Props, Abs!Strict, Strict
<1> QED
  BY <1>1, <1>2, <1>3

LEMMA InitRefines == Init => Abs!Init
<1> SUFFICES ASSUME Init PROVE Abs!Init
  OBVIOUS
<1>1. Fate = [t \in Requests |-> "pending"]
  BY DEF Init, Fate
<1>2. Shown = {}
  BY DEF Init, Shown
<1> QED
  BY <1>1, <1>2 DEF Init, Abs!Init

LEMMA RefuseRefines ==
    ASSUME IndInv, NEW t \in Requests, NEW status, pc[t] \notin {"done", "refused"},
           Refuse(t, status)
    PROVE  Abs!Refuse(t)
<1>1. Fate[t] = "pending"
  BY DEF Fate
<1>2. pc' = [pc EXCEPT ![t] = "refused"] /\ UNCHANGED <<row, log, call>>
  BY DEF Refuse
<1>3. Fate' = [Fate EXCEPT ![t] = "refused"]
  <2>1. \A u \in Requests : pc'[u] = IF u = t THEN "refused" ELSE pc[u]
    BY <1>2 DEF IndInv, TypeOK
  <2> QED
    BY <2>1 DEF Fate
<1>4. Shown' = Shown
  BY <1>2 DEF Shown
<1> QED
  BY <1>1, <1>2, <1>3, <1>4 DEF Abs!Refuse

\* A commit is the effect of the call on the row as it is at that moment.
LEMMA CommitRefines == ASSUME IndInv, NEW t \in Requests, Commit(t) PROVE Abs!Effect(t)
<1> DEFINE show(r) == [id |-> auditId[t], request |-> t, after |-> r]
<1>1. pc[t] = "logged" /\ pc' = [pc EXCEPT ![t] = "done"] /\ call' = call
  BY DEF Commit
<1>2. Fate[t] = "pending"
  BY <1>1 DEF Fate
<1>3. Fate' = [Fate EXCEPT ![t] = "done"]
  <2>1. \A u \in Requests : pc'[u] = IF u = t THEN "done" ELSE pc[u]
    BY <1>1 DEF IndInv, TypeOK
  <2> QED
    BY <2>1 DEF Fate
<1>4. ASSUME call[t].op # "stub"
      PROVE  /\ Shown' = Shown \cup {show(after[t])}
             /\ auditId[t] \in Abs!Unused
             /\ Changes(call[t]) => auditId[t] \in Abs!Later
  <2>1. auditId[t] # 0 /\ log' = log \cup {Entry(t)}
    BY <1>4, CommitShape
  <2>2. [id |-> Entry(t).id, request |-> Entry(t).request, after |-> Entry(t).after] = show(after[t])
    BY DEF Entry
  <2>3. Shown' = Shown \cup {show(after[t])}
    BY <2>1, <2>2 DEF Shown
  <2>4. auditId[t] \in 1..MaxId
    BY <2>1, RegistryAssumption DEF IndInv, IdsInv, TypeOK
  <2>5. ASSUME NEW o \in Shown
        PROVE  /\ o.id # auditId[t]
               /\ Changes(call[t]) /\ Changes(call[o.request]) => o.id < auditId[t]
    <3>1. PICK p \in log : o = [id |-> p.id, request |-> p.request, after |-> p.after]
      BY <2>5 DEF Shown
    <3>2. PICK u \in Ended : p = Entry(u)
      BY LogShape
    <3>3. o.id = auditId[u] /\ o.request = u /\ u \in Requests
      BY <3>1, <3>2, LogShape
    <3>4. u # t
      BY CommitShape
    <3> QED
      BY <1>1, <2>1, <3>3, <3>4 DEF IndInv, IdsInv
  <2> QED
    BY <2>3, <2>4, <2>5, SameRows DEF Abs!Unused, Abs!Later
<1>5. CASE Changes(call[t])
  <2>1. /\ Applies(call[t], row) /\ row' = Outcome(call[t], row) /\ after[t] = Live(row')
        /\ call[t].op # "stub"
    BY <1>5, CommitShape DEF Changes
  <2>2. Abs!Append(t, Live(row'), Abs!Later)
    BY <1>4, <1>5, <2>1 DEF Abs!Append
  <2>3. Abs!Take(t)
    BY <1>5, <2>1, <2>2, SameRows DEF Abs!Take, Applies
  <2> QED
    BY <1>1, <1>2, <1>3, <2>3 DEF Abs!Effect
<1>6. CASE call[t].op = "stub"
  <2>1. row' = UpsertMinimal(row) /\ Shown' = Shown
    BY <1>6, CommitShape DEF Shown
  <2>2. Abs!Stub(t)
    BY <1>6, <2>1, SameRows DEF Abs!Stub
  <2> QED
    BY <1>1, <1>2, <1>3, <2>2 DEF Abs!Effect
<1>7. CASE ~Changes(call[t]) /\ call[t].op # "stub"
  <2>1. call[t].op = "update" /\ row' = row /\ row # NULL
    BY <1>7, CallsAreCalls, CallShape, CommitShape DEF Changes, Writes, IndInv
  <2>2. after[t] \in Rows /\ ~after[t].deleted
    BY <1>1, <2>1 DEF IndInv, StepsInv, Told
  <2>3. Abs!Append(t, after[t], Abs!Unused)
    BY <1>4, <1>7 DEF Abs!Append
  <2>4. Abs!Note(t)
    BY <1>7, <2>1, <2>2, <2>3, SameRows DEF Abs!Note
  <2> QED
    BY <1>1, <1>2, <1>3, <2>4 DEF Abs!Effect
<1> QED
  BY <1>5, <1>6, <1>7

LEMMA NextRefines == IndInv /\ [Next]_vars => [Abs!Next]_Abs!vars
<1> SUFFICES ASSUME IndInv, [Next]_vars PROVE [Abs!Next]_Abs!vars
  OBVIOUS
<1>1. ASSUME NEW t \in Requests, NEW status, pc[t] \notin {"done", "refused"}, Refuse(t, status)
      PROVE  Abs!Next
  BY <1>1, RefuseRefines DEF Abs!Next
<1>2. ASSUME NEW t \in Requests, NEW x \in {"decided", "written", "logged"},
             pc[t] \in {"posted", "decided", "written"}, pc' = [pc EXCEPT ![t] = x],
             UNCHANGED <<row, log, call>>
      PROVE  UNCHANGED Abs!vars
  <2>1. \A u \in Requests : pc'[u] = IF u = t THEN x ELSE pc[u]
    BY <1>2 DEF IndInv, TypeOK
  <2>2. Fate' = Fate
    BY <1>2, <2>1 DEF Fate
  <2>3. Shown' = Shown
    BY <1>2 DEF Shown
  <2> QED
    BY <1>2, <2>2, <2>3 DEF Abs!vars
<1>3. ASSUME NEW t \in Requests, Reject(t) \/ WriteFails(t) \/ Fail(t) PROVE Abs!Next
  BY <1>1, <1>3 DEF Reject, WriteFails, Fail
<1>4. ASSUME NEW t \in Requests, ReadAgain(t) PROVE [Abs!Next]_Abs!vars
  BY <1>1, <1>2, <1>4 DEF ReadAgain
<1>5. ASSUME NEW t \in Requests,
             Decide(t) \/ Write(t) \/ AppendAudit(t) \/ UpsertStub(t)
      PROVE  UNCHANGED Abs!vars
  BY <1>2, <1>5 DEF Decide, Write, AppendAudit, UpsertStub
<1>6. ASSUME NEW t \in Requests, Commit(t) PROVE Abs!Next
  BY <1>6, CommitRefines DEF Abs!Next
<1>7. CASE UNCHANGED vars
  BY <1>7 DEF vars, Abs!vars, Fate, Shown
<1> QED
  BY <1>3, <1>4, <1>5, <1>6, <1>7 DEF Next

\* For any calls and any number of them, what everybody else sees of reading,
\* deciding, waiting, writing, logging and committing is one step on the row.
THEOREM RegistryIsAtomic == Spec => ImplementsAtomicRegistry
<1>1. Spec => Abs!Spec
  BY InitRefines, NextRefines, Inductive, PTL DEF Spec, Abs!Spec
<1> QED
  BY <1>1 DEF ImplementsAtomicRegistry
=============================================================================
