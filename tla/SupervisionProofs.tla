--------------------------- MODULE SupervisionProofs ---------------------------
(***************************************************************************)
(* Start-up and job execution, for any number of processes, jobs, columns  *)
(* and attempts: types, the atomicity of the migration, that no process    *)
(* works on an incomplete schema, that no backlog grows, that job rows     *)
(* tell the truth and stay, and what recovery leaves behind.               *)
(***************************************************************************)
EXTENDS Supervision, FiniteSetTheorems, TLAPS

-----------------------------------------------------------------------------
(***************************************************************************)
(* What a savepoint p holds.  One that has written nothing sees the        *)
(* committed table; a writer keeps the articles in one of its two tables,  *)
(* and the indexes and triggers there or in the list it took.              *)
(***************************************************************************)
Copied(t) == Complete(t) /\ t.rows = table.rows

Holds(p) ==
    LET c == change[p]
    IN  /\ writer = p => c.step # "none"
        /\ writer # p /\ c.step # "none" => c.step = "columns" /\ c.articles = table
        /\ c.step = "columns" =>
              c.articles.exists /\ c.articles.rows = table.rows /\ c.articles.objects = table.objects
        /\ c.step = "copy" => Copied(c.spare) /\ c.spare.objects = {} /\ c.objects = table.objects
        /\ c.step = "rename" => Copied(c.spare) /\ c.spare.objects = {} /\ c.objects = table.objects
        /\ c.step = "objects" =>
              Copied(c.articles) /\ c.articles.objects \cup c.objects = table.objects

Change ==
    [step : {"none", "columns", "copy", "rename", "objects"},
     articles : Table, spare : Table, objects : SUBSET Object]

SchemaInv ==
    /\ SchemaTypeOK
    /\ ~table.exists => table.rows = {} /\ table.objects = {}
    /\ \A p \in Process : Holds(p)

LEMMA NoTableType == NoTable \in Table /\ NoTable.rows = {} /\ NoTable.objects = {} /\ ~NoTable.exists
BY DEF NoTable, Table

LEMMA NewTableType ==
    /\ NewTable \in Table /\ Complete(NewTable)
    /\ NewTable.rows = {} /\ NewTable.objects = {}
BY DEF NewTable, NoTable, Table, Complete

LEMMA NoChangeType == NoChange \in Change /\ NoChange.step = "none"
BY NoTableType DEF NoChange, Change

LEMMA SchemaStarts == SchemaInit => SchemaInv
<1> SUFFICES ASSUME SchemaInit PROVE SchemaInv
  OBVIOUS
<1>1. table \in Table /\ (~table.exists => table.rows = {} /\ table.objects = {})
  BY NoTableType DEF SchemaInit, OlderTable
<1>2. SchemaTypeOK
  BY <1>1, NoChangeType DEF SchemaInit, SchemaTypeOK, Change
<1>3. \A p \in Process : Holds(p)
  BY NoChangeType, SchemaAssumption DEF SchemaAssumption, SchemaInit, Holds
<1> QED
  BY <1>1, <1>2, <1>3 DEF SchemaInv

(***************************************************************************)
(* A statement of p: the others have written nothing.                      *)
(***************************************************************************)
LEMMA Executes ==
    ASSUME SchemaInv, NEW p \in Process, NEW c \in Change, Execute(p, c),
           c.step # "none",
           c.step = "columns" =>
              c.articles.exists /\ c.articles.rows = table.rows /\ c.articles.objects = table.objects,
           c.step \in {"copy", "rename"} =>
              Copied(c.spare) /\ c.spare.objects = {} /\ c.objects = table.objects,
           c.step = "objects" =>
              Copied(c.articles) /\ c.articles.objects \cup c.objects = table.objects
    PROVE  SchemaInv' /\ UNCHANGED table
<1>1. change' = [change EXCEPT ![p] = c] /\ UNCHANGED table /\ writer' = p /\ writer \in {NoProcess, p}
  BY DEF Execute, MayWrite
<1>2. SchemaTypeOK'
  BY <1>1 DEF SchemaInv, SchemaTypeOK, Change
<1>3. \A q \in Process : change'[q] = IF q = p THEN c ELSE change[q]
  BY <1>1 DEF SchemaInv, SchemaTypeOK
<1>4. Holds(p)'
  BY <1>1, <1>3 DEF Holds, Copied
<1>5. ASSUME NEW q \in Process, q # p PROVE Holds(q)'
  <2>1. writer # q /\ writer' # q /\ change'[q] = change[q]
    BY <1>1, <1>3, <1>5, SchemaAssumption DEF SchemaAssumption
  <2>2. Holds(q)
    BY DEF SchemaInv
  <2> QED
    BY <1>1, <2>1, <2>2 DEF Holds, Copied
<1> QED
  BY <1>1, <1>2, <1>4, <1>5 DEF SchemaInv

LEMMA MigrateStepInv ==
    ASSUME SchemaInv, NEW p \in Process, MigrateStep(p)
    PROVE  SchemaInv' /\ UNCHANGED table
<1>0. change[p] \in Change /\ table \in Table /\ Holds(p)
  BY DEF SchemaInv, SchemaTypeOK, Change
<1>1. CASE CreateTable(p)
  <2>1. CASE table.exists
    <3> DEFINE c == [change[p] EXCEPT !.step = "columns", !.articles = table]
    <3>1. c \in Change /\ c.step = "columns" /\ c.articles = table
      BY <1>0 DEF Change
    <3>2. change' = [change EXCEPT ![p] = c] /\ UNCHANGED <<table, writer>>
      BY <1>1, <2>1 DEF CreateTable
    <3>3. writer # p
      BY <1>0, <1>1 DEF CreateTable, Holds
    <3> HIDE DEF c
    <3>4. \A q \in Process : change'[q] = IF q = p THEN c ELSE change[q]
      BY <3>2 DEF SchemaInv, SchemaTypeOK
    <3>5. Holds(p)'
      BY <2>1, <3>1, <3>2, <3>3, <3>4 DEF Holds
    <3>6. \A q \in Process : Holds(q)'
      BY <3>2, <3>4, <3>5 DEF SchemaInv, Holds, Copied
    <3>7. SchemaTypeOK'
      BY <3>1, <3>2 DEF SchemaInv, SchemaTypeOK, Change
    <3> QED
      BY <3>2, <3>6, <3>7 DEF SchemaInv
  <2>2. CASE ~table.exists
    <3> DEFINE c == [change[p] EXCEPT !.step = "columns", !.articles = NewTable]
    <3>1. c \in Change /\ c.step = "columns" /\ c.articles = NewTable
      BY <1>0, NewTableType DEF Change
    <3>2. Execute(p, c)
      BY <1>1, <2>2 DEF CreateTable
    <3>3. table.rows = {} /\ table.objects = {}
      BY <2>2 DEF SchemaInv
    <3> HIDE DEF c
    <3> QED
      BY <3>1, <3>2, <3>3, NewTableType, Executes DEF Complete
  <2> QED
    BY <2>1, <2>2
<1>2. CASE AddColumn(p)
  <2>1. PICK col \in Missing(p) :
          Execute(p, [change[p] EXCEPT !.articles.columns = @ \cup {col}])
    BY <1>2 DEF AddColumn
  <2> DEFINE c == [change[p] EXCEPT !.articles.columns = @ \cup {col}]
  <2>2. c \in Change /\ c.step = "columns" /\ c.articles.exists
        /\ c.articles.rows = table.rows /\ c.articles.objects = table.objects
    BY <1>0, <1>2, <2>1 DEF AddColumn, Change, Table, Missing, Holds
  <2> HIDE DEF c
  <2>3. Execute(p, c)
    BY <2>1 DEF c
  <2> QED
    BY <2>2, <2>3, Executes
<1>3. CASE CopyTable(p)
  <2> DEFINE s == [change[p].articles EXCEPT !.dated = FALSE, !.objects = {}]
             c == [change[p] EXCEPT !.step = "copy", !.spare = s,
                                    !.objects = change[p].articles.objects]
  <2>1. Execute(p, c)
    BY <1>3 DEF CopyTable
  <2>2. change[p].articles \in Table /\ change[p].articles.columns = Column
        /\ change[p].articles.exists
        /\ change[p].articles.rows = table.rows /\ change[p].articles.objects = table.objects
    BY <1>0, <1>3 DEF CopyTable, Missing, Change, Table, Holds
  <2>3. s \in Table /\ Copied(s) /\ s.objects = {}
    BY <2>2 DEF Table, Copied, Complete
  <2>4. c \in Change /\ c.step = "copy" /\ c.spare = s /\ c.objects = table.objects
    BY <1>0, <2>2, <2>3 DEF Change, Table
  <2> HIDE DEF c, s
  <2> QED
    BY <2>1, <2>3, <2>4, Executes
<1>4. CASE DropTable(p)
  <2> DEFINE c == [change[p] EXCEPT !.step = "rename", !.articles = NoTable]
  <2>1. Execute(p, c)
    BY <1>4 DEF DropTable
  <2>2. c \in Change /\ c.step = "rename" /\ c.spare = change[p].spare /\ c.objects = change[p].objects
    BY <1>0, NoTableType DEF Change
  <2>3. Copied(change[p].spare) /\ change[p].spare.objects = {} /\ change[p].objects = table.objects
    BY <1>0, <1>4 DEF DropTable, Holds
  <2> HIDE DEF c
  <2> QED
    BY <2>1, <2>2, <2>3, Executes
<1>5. CASE RenameTable(p)
  <2> DEFINE c == [change[p] EXCEPT !.step = "objects", !.articles = change[p].spare,
                                    !.spare = NoTable]
  <2>1. Execute(p, c)
    BY <1>5 DEF RenameTable
  <2>2. c \in Change /\ c.step = "objects" /\ c.articles = change[p].spare
        /\ c.objects = change[p].objects
    BY <1>0, NoTableType DEF Change
  <2>3. Copied(change[p].spare) /\ change[p].spare.objects = {} /\ change[p].objects = table.objects
    BY <1>0, <1>5 DEF RenameTable, Holds
  <2> HIDE DEF c
  <2> QED
    BY <2>1, <2>2, <2>3, Executes
<1>6. CASE CreateObject(p)
  <2>1. PICK o \in change[p].objects :
          Execute(p, [change[p] EXCEPT !.articles.objects = @ \cup {o}, !.objects = @ \ {o}])
    BY <1>6 DEF CreateObject
  <2> DEFINE c == [change[p] EXCEPT !.articles.objects = @ \cup {o}, !.objects = @ \ {o}]
  <2>2. c \in Change /\ c.step = "objects"
        /\ c.articles = [change[p].articles EXCEPT !.objects = @ \cup {o}]
        /\ c.objects = change[p].objects \ {o}
    BY <1>0, <1>6, <2>1 DEF CreateObject, Change, Table
  <2>3. Copied(c.articles) /\ c.articles.objects \cup c.objects = table.objects
    <3>1. Copied(change[p].articles) /\ change[p].articles.objects \cup change[p].objects = table.objects
      BY <1>0, <1>6 DEF CreateObject, Holds
    <3>2. change[p].articles \in Table
      BY <1>0 DEF Change
    <3> HIDE DEF c
    <3> QED
      BY <2>1, <2>2, <3>1, <3>2 DEF Copied, Complete, Table
  <2> HIDE DEF c
  <2>4. Execute(p, c)
    BY <2>1 DEF c
  <2> QED
    BY <2>2, <2>3, <2>4, Executes
<1> QED
  BY <1>1, <1>2, <1>3, <1>4, <1>5, <1>6 DEF MigrateStep

(***************************************************************************)
(* The commit: the table is now complete, and nothing that hung on it or   *)
(* was stored in it is missing.                                            *)
(***************************************************************************)
LEMMA ReleaseInv ==
    ASSUME SchemaInv, NEW p \in Process, Release(p)
    PROVE  /\ SchemaInv' /\ Complete(table')
           /\ table'.rows = table.rows /\ table'.objects = table.objects
<1>0. change[p] \in Change /\ table \in Table /\ Holds(p)
  BY DEF SchemaInv, SchemaTypeOK, Change
<1>1. /\ change[p].articles \in Table /\ Complete(change[p].articles)
      /\ change[p].articles.rows = table.rows /\ change[p].articles.objects = table.objects
  <2>1. change[p].articles \in Table /\ Migrated(p)
    BY <1>0 DEF Release, Change
  <2>2. CASE change[p].step = "columns" /\ Missing(p) = {} /\ ~change[p].articles.dated
    <3>1. change[p].articles.columns = Column
      BY <2>1, <2>2 DEF Missing, Table
    <3> QED
      BY <1>0, <2>1, <2>2, <3>1 DEF Holds, Complete
  <2>3. CASE change[p].step = "objects" /\ change[p].objects = {}
    BY <1>0, <2>1, <2>3 DEF Holds, Copied
  <2> QED
    BY <2>1, <2>2, <2>3 DEF Migrated
<1>2. \A q \in Process : change'[q] = IF q = p THEN NoChange ELSE change[q]
  BY DEF Release, SchemaInv, SchemaTypeOK
<1>3. change' \in [Process -> Change]
  BY NoChangeType DEF Release, SchemaInv, SchemaTypeOK, Change
<1>4. CASE writer = p
  <2>1. /\ \A q \in Process \ {p} : change[q].step = "none"
        /\ table' = change[p].articles /\ writer' = NoProcess
    BY <1>4 DEF Release
  <2>2. \A q \in Process : change'[q].step = "none" /\ writer' # q
    BY <1>2, <2>1, NoChangeType, SchemaAssumption DEF SchemaAssumption
  <2>3. \A q \in Process : Holds(q)'
    BY <2>2 DEF Holds
  <2>4. SchemaTypeOK' /\ table'.exists
    BY <1>1, <1>3, <2>1 DEF SchemaTypeOK, Change, Complete
  <2> QED
    BY <1>1, <2>1, <2>3, <2>4 DEF SchemaInv
<1>5. CASE writer # p
  <2>1. UNCHANGED <<table, writer>>
    BY <1>5 DEF Release
  <2>2. change[p].articles = table
    BY <1>0, <1>5 DEF Release, Migrated, Holds
  <2>3. \A q \in Process : Holds(q)'
    BY <1>2, <1>5, <2>1, NoChangeType DEF SchemaInv, Holds, Copied
  <2>4. SchemaTypeOK'
    BY <1>3, <2>1 DEF SchemaInv, SchemaTypeOK, Change
  <2> QED
    BY <1>1, <2>1, <2>2, <2>3, <2>4 DEF SchemaInv
<1> QED
  BY <1>4, <1>5

LEMMA RollbackInv ==
    ASSUME SchemaInv, NEW p \in Process, Rollback(p)
    PROVE  SchemaInv' /\ UNCHANGED table
<1>1. \A q \in Process : change'[q] = IF q = p THEN NoChange ELSE change[q]
  BY DEF Rollback, SchemaInv, SchemaTypeOK
<1>2. writer' = (IF writer = p THEN NoProcess ELSE writer) /\ UNCHANGED table
  BY DEF Rollback
<1>3. \A q \in Process : Holds(q)'
  BY <1>1, <1>2, NoChangeType, SchemaAssumption DEF SchemaAssumption, SchemaInv, Holds, Copied
<1>4. SchemaTypeOK'
  BY <1>2, NoChangeType DEF Rollback, SchemaInv, SchemaTypeOK, Change
<1> QED
  BY <1>2, <1>3, <1>4 DEF SchemaInv

LEMMA SchemaStays == ASSUME SchemaInv, UNCHANGED schemaVars PROVE SchemaInv'
BY DEF schemaVars, SchemaInv, SchemaTypeOK, Holds, Copied

-----------------------------------------------------------------------------
(***************************************************************************)
(* What a process holds: at most one job, queued or executed, and attempts *)
(* only of the one that is executed.                                       *)
(***************************************************************************)
ProcessState ==
    [step : ProcessStep, seen : [Job -> JobRow], queue : SUBSET Job,
     job : Job \cup {NoJob}, tries : 0 .. Attempts, wait : 0 .. Interval, stopped : BOOLEAN]

Executing == {"run"} \cup Finished

OneJob(s) ==
    /\ s.queue = {} \/ (s.step = "pick" /\ \E j \in Job : s.queue = {j})
    /\ s.job # NoJob => s.step \in Executing
    /\ s.tries # 0 => s.step \in Executing
    /\ s.step = "run" => s.tries < Attempts

Started(s) == s.step \notin {"off", "migrate"}

ProcessInv ==
    /\ process \in [Process -> ProcessState]
    /\ \A p \in Process : OneJob(process[p]) /\ (Started(process[p]) => Complete(table))

RecordInv == rows \in [Job -> JobRow] /\ handled \in [Job -> Nat]

IInv == SchemaInv /\ ProcessInv /\ RecordInv

LEMMA OffType == Off \in ProcessState /\ OneJob(Off) /\ Off.step = "off"
<1>1. NoRow \in JobRow
  BY SupervisionAssumption DEF SupervisionAssumption, NoRow, JobRow
<1>2. [j \in Job |-> NoRow] \in [Job -> JobRow]
  BY <1>1
<1>3. 0 \in 0 .. Attempts /\ 0 \in 0 .. Interval
  BY SupervisionAssumption DEF SupervisionAssumption
<1>4. Off \in ProcessState /\ Off.step = "off"
  BY <1>2, <1>3 DEF Off, ProcessState, ProcessStep
<1>5. OneJob(Off)
  BY DEF Off, OneJob
<1> QED
  BY <1>4, <1>5

LEMMA InitInv == Init => IInv
<1> SUFFICES ASSUME Init PROVE IInv
  OBVIOUS
<1>1. NoRow \in JobRow
  BY SupervisionAssumption DEF SupervisionAssumption, NoRow, JobRow
<1>2. RecordInv
  BY <1>1 DEF Init, RecordInv
<1>3. ProcessInv
  BY OffType DEF Init, ProcessInv, Started
<1> QED
  BY <1>2, <1>3, SchemaStarts DEF Init, IInv

(***************************************************************************)
(* A step of one process that starts nobody on another table.              *)
(***************************************************************************)
LEMMA Moves ==
    ASSUME IInv, NEW p \in Process, NEW s \in ProcessState, OneJob(s),
           process' = [process EXCEPT ![p] = s],
           SchemaInv', RecordInv',
           Complete(table) => Complete(table'),
           Started(s) => Started(process[p]) \/ Complete(table')
    PROVE  IInv'
<1>1. \A q \in Process : process'[q] = IF q = p THEN s ELSE process[q]
  BY DEF IInv, ProcessInv
<1>2. process' \in [Process -> ProcessState]
  BY DEF IInv, ProcessInv
<1>3. ASSUME NEW q \in Process
      PROVE  OneJob(process'[q]) /\ (Started(process'[q]) => Complete(table'))
  BY <1>1 DEF IInv, ProcessInv
<1> QED
  BY <1>2, <1>3 DEF IInv, ProcessInv

(***************************************************************************)
(* A step of one process that has to do with jobs only.                    *)
(***************************************************************************)
LEMMA Works ==
    ASSUME IInv, NEW p \in Process, NEW s \in ProcessState, OneJob(s),
           process' = [process EXCEPT ![p] = s],
           UNCHANGED schemaVars, RecordInv',
           Started(s) => Started(process[p])
    PROVE  IInv'
<1>1. SchemaInv' /\ UNCHANGED table
  BY SchemaStays DEF IInv, schemaVars
<1> QED
  BY <1>1, Moves

LEMMA Saves ==
    ASSUME RecordInv, NEW j \in Job, NEW status \in {"pending", "running", "succeeded", "failed"},
           NEW n \in 0 .. Attempts, Save(j, status, n), UNCHANGED handled
    PROVE  RecordInv'
BY DEF Save, RecordInv, JobRow

LEMMA RecordsStay == ASSUME RecordInv, UNCHANGED <<rows, handled>> PROVE RecordInv'
BY DEF RecordInv

LEMMA MigrateInv == ASSUME IInv, NEW p \in Process, Migrate(p) PROVE IInv'
<1>1. RecordInv'
  BY RecordsStay DEF Migrate, IInv
<1>2. CASE MigrateStep(p) /\ UNCHANGED process
  <2>1. SchemaInv' /\ UNCHANGED table
    BY <1>2, MigrateStepInv DEF IInv
  <2> QED
    BY <1>1, <1>2, <2>1 DEF IInv, ProcessInv
<1>3. CASE Release(p) /\ Goto(p, "check")
  <2> DEFINE s == [process[p] EXCEPT !.step = "check"]
  <2>1. s \in ProcessState /\ OneJob(s)
    BY DEF Migrate, IInv, ProcessInv, ProcessState, ProcessStep, OneJob, Executing, Finished
  <2>2. process' = [process EXCEPT ![p] = s]
    BY <1>3 DEF Goto
  <2>3. SchemaInv' /\ Complete(table')
    BY <1>3, ReleaseInv DEF IInv
  <2> HIDE DEF s
  <2> QED
    BY <1>1, <2>1, <2>2, <2>3, Moves
<1>4. CASE Rollback(p) /\ process' = [process EXCEPT ![p] = Off]
  <2>1. SchemaInv' /\ UNCHANGED table
    BY <1>4, RollbackInv DEF IInv
  <2>2. ~Started(Off)
    BY OffType DEF Started
  <2> QED
    BY <1>1, <1>4, <2>1, <2>2, OffType, Moves
<1> QED
  BY <1>2, <1>3, <1>4 DEF Migrate

LEMMA StartInv == ASSUME IInv, NEW p \in Process, Start(p) PROVE IInv'
<1> DEFINE s == [process[p] EXCEPT !.step = "migrate"]
<1>1. s \in ProcessState /\ OneJob(s) /\ ~Started(s)
  BY DEF Start, IInv, ProcessInv, ProcessState, ProcessStep, OneJob, Executing, Finished, Started
<1>2. process' = [process EXCEPT ![p] = s] /\ UNCHANGED <<schemaVars, rows, handled>>
  BY DEF Start, Goto
<1> HIDE DEF s
<1> QED
  BY <1>1, <1>2, Works, RecordsStay DEF IInv

LEMMA CheckDatabaseInv == ASSUME IInv, NEW p \in Process, CheckDatabase(p) PROVE IInv'
<1> DEFINE f == [j \in Job |-> IF j \in Interrupted THEN rows[j] ELSE NoRow]
           s == [process[p] EXCEPT !.step = "recover", !.seen = f]
<1>1. NoRow \in JobRow
  BY SupervisionAssumption DEF SupervisionAssumption, NoRow, JobRow
<1>2. f \in [Job -> JobRow]
  BY <1>1 DEF IInv, RecordInv
<1>3. process' = [process EXCEPT ![p] = s] /\ UNCHANGED <<schemaVars, rows, handled>>
  BY DEF CheckDatabase, IInv, ProcessInv
<1> HIDE DEF f
<1>4. s \in ProcessState /\ OneJob(s) /\ Started(process[p])
  BY <1>2 DEF CheckDatabase, IInv, ProcessInv, ProcessState, ProcessStep, OneJob, Executing,
              Finished, Started
<1> HIDE DEF s
<1> QED
  BY <1>3, <1>4, Works, RecordsStay DEF IInv

LEMMA RecoverJobInv == ASSUME IInv, NEW p \in Process, RecoverJob(p) PROVE IInv'
<1>1. PICK j \in ToRecover(p) : /\ Save(j, "pending", process[p].seen[j].attempts)
                               /\ process' = [process EXCEPT ![p].seen[j] = NoRow]
  BY DEF RecoverJob
<1> DEFINE s == [process[p] EXCEPT !.seen[j] = NoRow]
<1>2. NoRow \in JobRow
  BY SupervisionAssumption DEF SupervisionAssumption, NoRow, JobRow
<1>3. j \in Job /\ process[p] \in ProcessState /\ OneJob(process[p])
  BY DEF ToRecover, IInv, ProcessInv
<1>4. s \in ProcessState /\ OneJob(s) /\ Started(process[p])
  BY <1>2, <1>3 DEF RecoverJob, ProcessState, OneJob, Executing, Finished, Started
<1>5. process' = [process EXCEPT ![p] = s]
  BY <1>1 DEF IInv, ProcessInv
<1>6. UNCHANGED <<schemaVars, handled>>
  BY DEF RecoverJob
<1>7. process[p].seen[j].attempts \in 0 .. Attempts
  BY <1>3 DEF ProcessState, JobRow
<1>8. RecordInv'
  BY <1>1, <1>3, <1>6, <1>7, Saves DEF IInv
<1> HIDE DEF s
<1> QED
  BY <1>4, <1>5, <1>6, <1>8, Works

LEMMA FinishStartInv == ASSUME IInv, NEW p \in Process, FinishStart(p) PROVE IInv'
<1> DEFINE s == IF p \in Runner THEN [Off EXCEPT !.step = "due"] ELSE Off
<1>1. s \in ProcessState /\ OneJob(s)
  BY OffType DEF ProcessState, ProcessStep, OneJob, Executing, Finished
<1>2. process' = [process EXCEPT ![p] = s] /\ UNCHANGED <<schemaVars, rows, handled>>
      /\ Started(process[p])
  BY DEF FinishStart, Started
<1> HIDE DEF s
<1> QED
  BY <1>1, <1>2, Works, RecordsStay DEF IInv

LEMMA RunDueInv == ASSUME IInv, NEW p \in Process, RunDue(p) PROVE IInv'
<1>1. /\ process[p] \in ProcessState /\ OneJob(process[p]) /\ Started(process[p])
      /\ process[p].queue = {} /\ process[p].step = "due"
      /\ UNCHANGED <<schemaVars, handled>>
      /\ Interval \in 0 .. Interval
  BY SupervisionAssumption
  DEF SupervisionAssumption, RunDue, IInv, ProcessInv, OneJob, Started
<1>2. ASSUME NEW j \in Fresh, Submit(p, j) PROVE IInv'
  <2> DEFINE s == [process[p] EXCEPT !.step = "pick", !.queue = @ \cup {j}, !.wait = Interval]
  <2>1. j \in Job
    BY DEF Fresh
  <2>2. s \in ProcessState /\ OneJob(s)
    BY <1>1, <2>1 DEF ProcessState, ProcessStep, OneJob, Executing, Finished
  <2>3. process' = [process EXCEPT ![p] = s] /\ Save(j, "pending", 0)
    BY <1>2 DEF Submit, IInv, ProcessInv
  <2>4. RecordInv'
    BY <1>1, <2>1, <2>3, Saves, SupervisionAssumption DEF SupervisionAssumption, IInv
  <2> HIDE DEF s
  <2> QED
    BY <1>1, <2>2, <2>3, <2>4, Works
<1>3. ASSUME process' = [process EXCEPT ![p].step = "pick", ![p].wait = Interval], UNCHANGED rows
      PROVE  IInv'
  <2> DEFINE s == [process[p] EXCEPT !.step = "pick", !.wait = Interval]
  <2>1. s \in ProcessState /\ OneJob(s)
    BY <1>1 DEF ProcessState, ProcessStep, OneJob, Executing, Finished
  <2>2. process' = [process EXCEPT ![p] = s]
    BY <1>3 DEF IInv, ProcessInv
  <2> HIDE DEF s
  <2> QED
    BY <1>1, <1>3, <2>1, <2>2, Works, RecordsStay DEF IInv
<1>4. ASSUME Goto(p, "pick"), UNCHANGED rows PROVE IInv'
  <2> DEFINE s == [process[p] EXCEPT !.step = "pick"]
  <2>1. s \in ProcessState /\ OneJob(s)
    BY <1>1 DEF ProcessState, ProcessStep, OneJob, Executing, Finished
  <2>2. process' = [process EXCEPT ![p] = s]
    BY <1>4 DEF Goto
  <2> HIDE DEF s
  <2> QED
    BY <1>1, <1>4, <2>1, <2>2, Works, RecordsStay DEF IInv
<1> QED
  BY <1>2, <1>3, <1>4 DEF RunDue, FailToSubmit

LEMMA PickInv == ASSUME IInv, NEW p \in Process, Pick(p) PROVE IInv'
<1>1. /\ process[p] \in ProcessState /\ OneJob(process[p]) /\ Started(process[p])
      /\ process[p].tries = 0 /\ process[p].step = "pick" /\ 0 < Attempts /\ 0 \in 0 .. Attempts
      /\ UNCHANGED <<schemaVars, handled>>
  <2>1. process[p] \in ProcessState /\ OneJob(process[p]) /\ process[p].step = "pick"
        /\ UNCHANGED <<schemaVars, handled>>
    BY DEF Pick, IInv, ProcessInv
  <2>2. 0 < Attempts /\ 0 \in 0 .. Attempts
    BY SupervisionAssumption DEF SupervisionAssumption
  <2> QED
    BY <2>1, <2>2 DEF OneJob, Started, Executing, Finished
<1>2. CASE process[p].queue = {}
  <2> DEFINE s == [process[p] EXCEPT !.step = "cycle"]
  <2>1. s \in ProcessState /\ OneJob(s)
    BY <1>1, <1>2 DEF ProcessState, ProcessStep, OneJob, Executing, Finished
  <2>2. process' = [process EXCEPT ![p] = s] /\ UNCHANGED rows
    BY <1>2 DEF Pick, Goto
  <2> HIDE DEF s
  <2> QED
    BY <1>1, <2>1, <2>2, Works, RecordsStay DEF IInv
<1>3. ASSUME NEW j \in process[p].queue PROVE j \in Job /\ process[p].queue \ {j} = {}
  BY <1>1, <1>3 DEF OneJob, ProcessState
<1>4. ASSUME NEW j \in process[p].queue, Save(j, "running", 0),
             process' = [process EXCEPT ![p].step = "run", ![p].queue = @ \ {j}, ![p].job = j]
      PROVE  IInv'
  <2> DEFINE s == [process[p] EXCEPT !.step = "run", !.queue = @ \ {j}, !.job = j]
  <2>1. s \in ProcessState /\ OneJob(s)
    BY <1>1, <1>3 DEF ProcessState, ProcessStep, OneJob, Executing, Finished
  <2>2. process' = [process EXCEPT ![p] = s]
    BY <1>4 DEF IInv, ProcessInv
  <2>3. RecordInv'
    BY <1>1, <1>3, <1>4, Saves DEF IInv
  <2> HIDE DEF s
  <2> QED
    BY <1>1, <2>1, <2>2, <2>3, Works
<1>5. ASSUME NEW j \in process[p].queue, UNCHANGED rows,
             process' = [process EXCEPT ![p].step = "due", ![p].queue = @ \ {j}]
      PROVE  IInv'
  <2> DEFINE s == [process[p] EXCEPT !.step = "due", !.queue = @ \ {j}]
  <2>1. s \in ProcessState /\ OneJob(s)
    BY <1>1, <1>3 DEF ProcessState, ProcessStep, OneJob, Executing, Finished
  <2>2. process' = [process EXCEPT ![p] = s]
    BY <1>5 DEF IInv, ProcessInv
  <2> HIDE DEF s
  <2> QED
    BY <1>1, <1>5, <2>1, <2>2, Works, RecordsStay DEF IInv
<1> QED
  BY <1>2, <1>4, <1>5 DEF Pick

LEMMA AttemptInv == ASSUME IInv, NEW p \in Process, Attempt(p) PROVE IInv'
<1>1. /\ process[p] \in ProcessState /\ OneJob(process[p]) /\ Started(process[p])
      /\ process[p].step = "run" /\ process[p].queue = {}
      /\ UNCHANGED <<schemaVars, rows>>
  BY DEF Attempt, IInv, ProcessInv, OneJob, Started
<1>2. Tried(p) \in 0 .. Attempts
  BY <1>1, SupervisionAssumption DEF SupervisionAssumption, Tried, OneJob, ProcessState
<1>3. RecordInv'
  BY <1>1 DEF Attempt, IInv, RecordInv
<1>4. ASSUME NEW step \in Executing, step = "run" => Tried(p) < Attempts,
             process' = [process EXCEPT ![p].tries = Tried(p), ![p].step = step]
      PROVE  IInv'
  <2> DEFINE s == [process[p] EXCEPT !.tries = Tried(p), !.step = step]
  <2>1. s \in ProcessState /\ OneJob(s)
    BY <1>1, <1>2, <1>4 DEF ProcessState, ProcessStep, OneJob, Executing, Finished
  <2>2. process' = [process EXCEPT ![p] = s]
    BY <1>4 DEF IInv, ProcessInv
  <2> HIDE DEF s
  <2> QED
    BY <1>1, <1>3, <2>1, <2>2, Works
<1> QED
  BY <1>4 DEF Attempt, Executing, Finished

LEMMA EndTickInv ==
    ASSUME IInv, NEW p \in Process, NEW step \in {"due", "cycle"},
           process[p].step \in Finished \cup {"cycle"},
           process' = [process EXCEPT ![p] = [@ EXCEPT !.step = step, !.job = NoJob, !.tries = 0]],
           UNCHANGED schemaVars, RecordInv'
    PROVE  IInv'
<1> DEFINE s == [process[p] EXCEPT !.step = step, !.job = NoJob, !.tries = 0]
<1>1. process[p] \in ProcessState /\ OneJob(process[p]) /\ process[p].queue = {}
      /\ Started(process[p])
  BY DEF IInv, ProcessInv, OneJob, Started, Finished
<1>2. s \in ProcessState /\ OneJob(s)
  <2>1. 0 \in 0 .. Attempts /\ step \in ProcessStep /\ step # "run"
    BY SupervisionAssumption DEF SupervisionAssumption, ProcessStep
  <2>2. s \in ProcessState
    BY <1>1, <2>1 DEF ProcessState
  <2>3. s.queue = {} /\ s.job = NoJob /\ s.tries = 0 /\ s.step = step
    BY <1>1 DEF ProcessState
  <2> QED
    BY <2>1, <2>2, <2>3 DEF OneJob
<1>3. process' = [process EXCEPT ![p] = s]
  OBVIOUS
<1> HIDE DEF s
<1> QED
  BY <1>1, <1>2, <1>3, Works

LEMMA SaveResultInv == ASSUME IInv, NEW p \in Process, SaveResult(p) PROVE IInv'
<1>1. process[p].step \in Finished /\ UNCHANGED <<schemaVars, handled>>
      /\ process[p] \in ProcessState
  BY DEF SaveResult, IInv, ProcessInv
<1>2. ASSUME Save(process[p].job, process[p].step, process[p].tries) PROVE RecordInv'
  <2>1. [status |-> process[p].step, attempts |-> process[p].tries] \in JobRow
    BY <1>1 DEF JobRow, ProcessState, Finished
  <2> QED
    BY <1>1, <1>2, <2>1 DEF Save, IInv, RecordInv
<1>3. ASSUME UNCHANGED rows PROVE RecordInv'
  BY <1>1, <1>3, RecordsStay DEF IInv
<1> QED
  BY <1>1, <1>2, <1>3, EndTickInv DEF SaveResult, EndTick

LEMMA NextInv == IInv /\ [Next]_vars => IInv'
<1> SUFFICES ASSUME IInv, [Next]_vars PROVE IInv'
  OBVIOUS
<1>1. CASE PassTime
  <2>1. process' = [p \in Process |->
                      [process[p] EXCEPT !.wait = IF @ > 0 THEN @ - 1 ELSE 0]]
        /\ UNCHANGED <<schemaVars, rows, handled>>
    BY <1>1 DEF PassTime
  <2>2. ASSUME NEW p \in Process
        PROVE  /\ process'[p] \in ProcessState /\ OneJob(process'[p])
               /\ Started(process'[p]) => Complete(table)
    <3>1. process[p] \in ProcessState /\ OneJob(process[p])
          /\ (Started(process[p]) => Complete(table))
      BY DEF IInv, ProcessInv
    <3>2. (IF process[p].wait > 0 THEN process[p].wait - 1 ELSE 0) \in 0 .. Interval
      BY <3>1, SupervisionAssumption DEF SupervisionAssumption, ProcessState
    <3>3. process'[p] = [process[p] EXCEPT !.wait = IF @ > 0 THEN @ - 1 ELSE 0]
      BY <2>1
    <3> QED
      BY <3>1, <3>2, <3>3 DEF ProcessState, OneJob, Started
  <2>3. process' \in [Process -> ProcessState]
    BY <2>1, <2>2
  <2>4. SchemaInv' /\ RecordInv' /\ UNCHANGED table
    BY <2>1, SchemaStays, RecordsStay DEF IInv, schemaVars
  <2> QED
    BY <2>2, <2>3, <2>4 DEF IInv, ProcessInv
<1>2. ASSUME NEW p \in Process, Stop(p) PROVE IInv'
  <2> DEFINE s == [process[p] EXCEPT !.stopped = TRUE]
  <2>1. s \in ProcessState /\ OneJob(s) /\ (Started(s) => Started(process[p]))
    BY DEF IInv, ProcessInv, ProcessState, OneJob, Started
  <2>2. process' = [process EXCEPT ![p] = s] /\ UNCHANGED <<schemaVars, rows, handled>>
    BY <1>2 DEF Stop, IInv, ProcessInv
  <2> HIDE DEF s
  <2> QED
    BY <2>1, <2>2, Works, RecordsStay DEF IInv
<1>3. ASSUME NEW p \in Process, Close(p) PROVE IInv'
  <2>1. process' = [process EXCEPT ![p] = Off] /\ UNCHANGED <<schemaVars, rows, handled>>
    BY <1>3 DEF Close
  <2> QED
    BY <2>1, OffType, Works, RecordsStay DEF IInv, Started
<1>4. ASSUME NEW p \in Process, Die(p) PROVE IInv'
  <2>1. process' = [process EXCEPT ![p] = Off] /\ UNCHANGED <<rows, handled>> /\ Rollback(p)
    BY <1>4 DEF Die
  <2>2. SchemaInv' /\ UNCHANGED table
    BY <2>1, RollbackInv DEF IInv
  <2> QED
    BY <2>1, <2>2, OffType, Moves, RecordsStay DEF IInv, Started
<1>5. ASSUME NEW p \in Process, ProcessCycle(p) PROVE IInv'
  BY <1>5, EndTickInv, RecordsStay DEF ProcessCycle, EndTick, IInv
<1>6. CASE UNCHANGED vars
  <2>1. SchemaInv' /\ RecordInv' /\ UNCHANGED <<table, process>>
    BY <1>6, SchemaStays, RecordsStay DEF vars, schemaVars, IInv
  <2> QED
    BY <2>1 DEF IInv, ProcessInv
<1> QED
  BY <1>1, <1>2, <1>3, <1>4, <1>5, <1>6, StartInv, MigrateInv, CheckDatabaseInv, RecoverJobInv,
     FinishStartInv, RunDueInv, PickInv, AttemptInv, SaveResultInv
  DEF Next, Advance

LEMMA Inductive == Spec => []IInv
BY InitInv, NextInv, PTL DEF Spec

-----------------------------------------------------------------------------
(***************************************************************************)
(* Types hold; in particular no job is attempted more often than its       *)
(* policy says.                                                            *)
(***************************************************************************)
THEOREM TypeCorrect == Spec => []TypeOK
<1>1. IInv => TypeOK
  BY DEF IInv, SchemaInv, ProcessInv, RecordInv, ProcessState, TypeOK
<1> QED
  BY <1>1, Inductive, PTL

(***************************************************************************)
(* No process gets beyond its start while the schema is incomplete.        *)
(***************************************************************************)
THEOREM NobodyStartsIncomplete == Spec => []StartedComplete
<1>1. IInv => StartedComplete
  BY DEF IInv, ProcessInv, Started, StartedComplete
<1> QED
  BY <1>1, Inductive, PTL

(***************************************************************************)
(* Whoever migrates and dies at whatever statement: the committed table    *)
(* changes only into a complete one, with all it had.                      *)
(***************************************************************************)
THEOREM MigrationsAreAtomic == Spec => MigrationAtomic
<1>1. IInv /\ [Next]_vars =>
        [table' # table =>
           Complete(table') /\ table'.rows = table.rows /\ table'.objects = table.objects]_schemaVars
  <2> SUFFICES ASSUME IInv, [Next]_vars, table' # table
               PROVE  /\ Complete(table') /\ table'.rows = table.rows
                      /\ table'.objects = table.objects
    OBVIOUS
  <2>1. \E p \in Process : Migrate(p) \/ Die(p)
    BY DEF Next, Advance, PassTime, Start, CheckDatabase, RecoverJob, FinishStart, RunDue, Pick,
           Attempt, SaveResult, ProcessCycle, Close, Stop, vars, schemaVars
  <2>2. PICK p \in Process : Migrate(p) \/ Die(p)
    BY <2>1
  <2>3. SchemaInv
    BY DEF IInv
  <2>4. ~MigrateStep(p) /\ ~Rollback(p)
    BY <2>3, MigrateStepInv, RollbackInv
  <2>5. Release(p)
    BY <2>2, <2>4 DEF Migrate, Die
  <2> QED
    BY <2>3, <2>5, ReleaseInv
<1> QED
  BY <1>1, Inductive, PTL DEF Spec, MigrationAtomic

LEMMA AtMostOne == ASSUME NEW S, S = {} \/ \E x : S = {x} PROVE Cardinality(S) <= 1
<1>1. Cardinality({}) = 0
  BY FS_EmptySet
<1>2. \A x : Cardinality({x}) = 1
  BY FS_Singleton
<1>3. Cardinality(S) = 0 \/ Cardinality(S) = 1
  BY <1>1, <1>2, Zenon
<1> QED
  BY <1>3

(***************************************************************************)
(* A process never has more than one job on its hands.                     *)
(***************************************************************************)
THEOREM BacklogIsBounded == Spec => []BacklogBounded
<1>1. IInv => BacklogBounded
  <2> SUFFICES ASSUME IInv, NEW p \in Process
               PROVE  Cardinality(process[p].queue \cup ({process[p].job} \ {NoJob})) <= 1
    BY DEF BacklogBounded
  <2>1. OneJob(process[p])
    BY DEF IInv, ProcessInv
  <2>2. LET held == process[p].queue \cup ({process[p].job} \ {NoJob})
        IN  held = {} \/ \E j : held = {j}
    BY <2>1 DEF OneJob, Executing, Finished
  <2> QED
    BY <2>2, AtMostOne
<1> QED
  BY <1>1, Inductive, PTL

-----------------------------------------------------------------------------
(***************************************************************************)
(* The truth of job rows.  A job is in the hands of one process, which     *)
(* counts its attempts there, until its row says how it ended; a row that  *)
(* was recovered meanwhile is pending, which claims nothing.               *)
(***************************************************************************)
Hands(s) == s.queue \cup ({s.job} \ {NoJob})

\* What a process state says of the job it executes.
Truthful(s) ==
    /\ s.step \in Executing => s.job \in Job
    /\ s.step = "failed" => s.tries = Attempts

\* A job that is executed has completed when it has succeeded, and not before.
Completed(s, j) == s.job = j /\ s.step = "succeeded"

HandsInv ==
    \A p \in Process :
        /\ Truthful(process[p])
        /\ \A j \in Hands(process[p]) :
              /\ rows[j].status \notin Finished \cup {"absent"}
              /\ handled[j] = IF Completed(process[p], j) THEN 1 ELSE 0
              /\ \A q \in Process \ {p} : j \notin Hands(process[q])

RowsInv ==
    \A j \in Job :
        /\ rows[j].status = "absent" => handled[j] = 0
        /\ handled[j] <= 1
        /\ rows[j].status = "succeeded" => handled[j] = 1
        /\ rows[j].status = "failed" => handled[j] = 0 /\ rows[j].attempts = Attempts

SeenRunning ==
    \A p \in Process, j \in Job : process[p].seen[j] # NoRow => process[p].seen[j].status = "running"

TruthInv == HandsInv /\ RowsInv /\ SeenRunning

LEMMA HandsType ==
    ASSUME IInv, NEW p \in Process
    PROVE  /\ process[p] \in ProcessState /\ OneJob(process[p])
           /\ Hands(process[p]) \subseteq Job
BY DEF IInv, ProcessInv, Hands, ProcessState

LEMMA TruthStarts == Init => TruthInv
<1> SUFFICES ASSUME Init PROVE TruthInv
  OBVIOUS
<1>1. \A p \in Process : process[p] = Off
  BY DEF Init
<1>2. Off.step = "off" /\ Hands(Off) = {} /\ \A j \in Job : Off.seen[j] = NoRow
  BY DEF Off, Hands
<1>3. HandsInv
  BY <1>1, <1>2 DEF HandsInv, Truthful, Executing, Finished
<1>4. RowsInv
  BY DEF Init, RowsInv, NoRow
<1>5. SeenRunning
  BY <1>1, <1>2 DEF SeenRunning
<1> QED
  BY <1>3, <1>4, <1>5 DEF TruthInv

(***************************************************************************)
(* A step of one process that touches no row and takes no job.             *)
(***************************************************************************)
LEMMA KeepsTruth ==
    ASSUME IInv, TruthInv, NEW p \in Process, NEW s,
           process' = [process EXCEPT ![p] = s],
           Hands(s) \subseteq Hands(process[p]), Truthful(s),
           \A j \in Hands(s) : Completed(s, j) <=> Completed(process[p], j),
           \A j \in Job : s.seen[j] # NoRow => s.seen[j].status = "running",
           UNCHANGED <<rows, handled>>
    PROVE  TruthInv'
<1>1. \A q \in Process : process'[q] = IF q = p THEN s ELSE process[q]
  BY DEF IInv, ProcessInv
<1>2. \A q \in Process : Hands(process'[q]) \subseteq Hands(process[q])
  BY <1>1
<1>3. ASSUME NEW q \in Process
      PROVE  /\ Truthful(process'[q])
             /\ \A j \in Hands(process'[q]) :
                  /\ rows[j].status \notin Finished \cup {"absent"}
                  /\ handled[j] = IF Completed(process'[q], j) THEN 1 ELSE 0
                  /\ \A r \in Process \ {q} : j \notin Hands(process'[r])
  <2>1. Truthful(process'[q])
    BY <1>1 DEF TruthInv, HandsInv
  <2>2. ASSUME NEW j \in Hands(process'[q])
        PROVE  /\ rows[j].status \notin Finished \cup {"absent"}
               /\ handled[j] = IF Completed(process'[q], j) THEN 1 ELSE 0
               /\ \A r \in Process \ {q} : j \notin Hands(process'[r])
    <3>1. j \in Hands(process[q]) /\ (Completed(process'[q], j) <=> Completed(process[q], j))
      BY <1>1, <1>2
    <3> QED
      BY <1>2, <3>1 DEF TruthInv, HandsInv
  <2> QED
    BY <2>1, <2>2
<1>4. HandsInv'
  BY <1>3 DEF HandsInv, Truthful, Hands, Completed
<1>5. RowsInv' /\ SeenRunning'
  BY <1>1 DEF TruthInv, RowsInv, SeenRunning
<1> QED
  BY <1>4, <1>5 DEF TruthInv

(***************************************************************************)
(* A step of one process that saves a row: of a job no process has, or one *)
(* that claims neither an end nor a job that was never submitted.          *)
(***************************************************************************)
LEMMA SavesTruth ==
    ASSUME IInv, TruthInv, NEW p \in Process, NEW s, NEW j \in Job,
           NEW status \in {"pending", "running", "succeeded", "failed"}, NEW n,
           process' = [process EXCEPT ![p] = s], Save(j, status, n), UNCHANGED handled,
           Truthful(s), \A i \in Job : s.seen[i] # NoRow => s.seen[i].status = "running",
           Hands(s) \subseteq Hands(process[p]) \cup {j},
           \A i \in Hands(s) : handled[i] = IF Completed(s, i) THEN 1 ELSE 0,
           j \in Hands(s) => status \notin Finished /\ \A q \in Process \ {p} : j \notin Hands(process[q]),
           status \in Finished => \A q \in Process \ {p} : j \notin Hands(process[q]),
           status = "succeeded" => handled[j] = 1,
           status = "failed" => handled[j] = 0 /\ n = Attempts
    PROVE  TruthInv'
<1>1. \A q \in Process : process'[q] = IF q = p THEN s ELSE process[q]
  BY DEF IInv, ProcessInv
<1>2. \A i \in Job : rows'[i] = IF i = j THEN [status |-> status, attempts |-> n] ELSE rows[i]
  BY DEF Save, IInv, RecordInv
<1>3. rows'[j].status = status /\ rows'[j].attempts = n
  BY <1>2
<1>4. ASSUME NEW q \in Process
      PROVE  /\ Truthful(process'[q])
             /\ \A i \in Hands(process'[q]) :
                  /\ rows'[i].status \notin Finished \cup {"absent"}
                  /\ handled[i] = IF Completed(process'[q], i) THEN 1 ELSE 0
                  /\ \A r \in Process \ {q} : i \notin Hands(process'[r])
  <2>1. Truthful(process'[q])
    BY <1>1 DEF TruthInv, HandsInv
  <2>2. ASSUME NEW i \in Hands(process'[q])
        PROVE  /\ rows'[i].status \notin Finished \cup {"absent"}
               /\ handled[i] = IF Completed(process'[q], i) THEN 1 ELSE 0
               /\ \A r \in Process \ {q} : i \notin Hands(process'[r])
    <3>1. i \in Job
      BY <1>1, <2>2, HandsType
    <3>2. CASE q = p /\ i = j
      BY <1>1, <1>3, <2>2, <3>2 DEF Finished
    <3>3. CASE q # p /\ i = j
      <4>1. j \in Hands(process[q]) /\ j \notin Hands(s) /\ status \notin Finished
        BY <1>1, <2>2, <3>3
      <4>2. /\ handled[j] = IF Completed(process[q], j) THEN 1 ELSE 0
            /\ \A r \in Process \ {q} : j \notin Hands(process[r])
        BY <4>1 DEF TruthInv, HandsInv
      <4> QED
        BY <1>1, <1>3, <3>3, <4>1, <4>2 DEF Finished
    <3>4. CASE i # j
      <4>1. i \in Hands(process[q]) /\ (q = p => i \in Hands(s))
        BY <1>1, <2>2, <3>4
      <4>2. /\ rows[i].status \notin Finished \cup {"absent"}
            /\ handled[i] = IF Completed(process[q], i) THEN 1 ELSE 0
            /\ \A r \in Process \ {q} : i \notin Hands(process[r])
        BY <4>1 DEF TruthInv, HandsInv
      <4>3. \A r \in Process \ {q} : i \notin Hands(process'[r])
        BY <1>1, <3>4, <4>2
      <4>4. handled[i] = IF Completed(process'[q], i) THEN 1 ELSE 0
        BY <1>1, <4>1, <4>2
      <4> QED
        BY <1>2, <3>1, <3>4, <4>2, <4>3, <4>4
    <3> QED
      BY <3>2, <3>3, <3>4
  <2> QED
    BY <2>1, <2>2
<1>5. HandsInv'
  BY <1>4 DEF HandsInv, Truthful, Hands, Completed
<1>6. RowsInv'
  BY <1>2, <1>3 DEF TruthInv, RowsInv
<1>7. SeenRunning'
  BY <1>1 DEF TruthInv, SeenRunning
<1> QED
  BY <1>5, <1>6, <1>7 DEF TruthInv

LEMMA OffTruth ==
    ASSUME IInv, TruthInv, NEW p \in Process, NEW s \in {Off, [Off EXCEPT !.step = "due"]},
           process' = [process EXCEPT ![p] = s], UNCHANGED <<rows, handled>>
    PROVE  TruthInv'
<1>1. Hands(s) = {} /\ s.step \in {"off", "due"} /\ \A j \in Job : s.seen[j] = NoRow
  BY DEF Off, Hands
<1>2. Truthful(s)
  BY <1>1 DEF Truthful, Executing, Finished
<1> QED
  BY <1>1, <1>2, KeepsTruth

(***************************************************************************)
(* A step of one process that leaves its job and its attempts alone.       *)
(***************************************************************************)
LEMMA StepsTruth ==
    ASSUME IInv, TruthInv, NEW p \in Process, NEW s,
           process' = [process EXCEPT ![p] = s], UNCHANGED <<rows, handled>>,
           s.seen = process[p].seen, s.queue \subseteq process[p].queue,
           \/ s.job = NoJob /\ s.step \notin Executing
           \/ s.job = process[p].job /\ s.step = process[p].step /\ s.tries = process[p].tries
    PROVE  TruthInv'
<1>1. Hands(s) \subseteq Hands(process[p])
  BY DEF Hands
<1>2. Truthful(s)
  BY DEF TruthInv, HandsInv, Truthful, Executing, Finished
<1>3. \A j \in Job : s.seen[j] # NoRow => s.seen[j].status = "running"
  BY DEF TruthInv, SeenRunning
<1>4. \A j \in Hands(s) : Completed(s, j) <=> Completed(process[p], j)
  <2>1. CASE s.job = NoJob /\ s.step \notin Executing
    <3>1. ASSUME NEW j \in Hands(s) PROVE ~Completed(s, j) /\ ~Completed(process[p], j)
      <4>1. j \in process[p].queue /\ process[p].step \notin Finished
        BY <2>1, <3>1, HandsType DEF Hands, OneJob, Finished
      <4> QED
        BY <2>1, <4>1 DEF Completed, Executing, Finished
    <3> QED
      BY <3>1
  <2>2. CASE s.job = process[p].job /\ s.step = process[p].step
    BY <2>2 DEF Completed
  <2> QED
    BY <2>1, <2>2
<1> QED
  BY <1>1, <1>2, <1>3, <1>4, KeepsTruth

LEMMA StartUpTruth ==
    ASSUME IInv, TruthInv, NEW p \in Process,
           Start(p) \/ Migrate(p) \/ CheckDatabase(p) \/ FinishStart(p) \/ Close(p) \/ Die(p)
    PROVE  TruthInv'
<1>1. process[p] \in ProcessState /\ OneJob(process[p]) /\ UNCHANGED <<rows, handled>>
  BY HandsType DEF Start, Migrate, CheckDatabase, FinishStart, Close, Die
<1>2. ASSUME NEW step \in {"migrate", "check"}, process[p].step \in {"off", "migrate"}, Goto(p, step)
      PROVE  TruthInv'
  <2> DEFINE s == [process[p] EXCEPT !.step = step]
  <2>1. /\ process' = [process EXCEPT ![p] = s] /\ s.step \notin Executing
        /\ s.seen = process[p].seen /\ s.queue = process[p].queue /\ s.job = process[p].job
        /\ process[p].step \notin Executing
    BY <1>1, <1>2 DEF Goto, ProcessState, Executing, Finished
  <2>2. s.job = NoJob
    BY <1>1, <2>1 DEF OneJob
  <2> HIDE DEF s
  <2> QED
    BY <1>1, <2>1, <2>2, StepsTruth
<1>3. ASSUME UNCHANGED process PROVE TruthInv'
  <2>1. HandsInv' /\ RowsInv' /\ SeenRunning'
    BY <1>1, <1>3 DEF TruthInv, HandsInv, Truthful, Hands, Completed, RowsInv, SeenRunning
  <2> QED
    BY <2>1 DEF TruthInv
<1>4. ASSUME CheckDatabase(p) PROVE TruthInv'
  <2> DEFINE f == [j \in Job |-> IF j \in Interrupted THEN rows[j] ELSE NoRow]
             s == [process[p] EXCEPT !.step = "recover", !.seen = f]
  <2>1. process' = [process EXCEPT ![p] = s]
    BY <1>4 DEF CheckDatabase, IInv, ProcessInv
  <2>2. \A j \in Job : f[j] # NoRow => f[j].status = "running"
    BY DEF Interrupted
  <2> HIDE DEF f
  <2>3. /\ s.seen = f /\ s.step = "recover" /\ s.queue = process[p].queue
        /\ s.job = process[p].job /\ process[p].step = "check"
    BY <1>1, <1>4 DEF CheckDatabase, ProcessState
  <2> HIDE DEF s
  <2>4. Hands(s) = Hands(process[p]) /\ Truthful(s)
        /\ \A j : ~Completed(s, j) /\ ~Completed(process[p], j)
    BY <2>3 DEF Hands, Truthful, Completed, Executing, Finished
  <2> QED
    BY <1>1, <2>1, <2>2, <2>3, <2>4, KeepsTruth
<1>5. ASSUME process' = [process EXCEPT ![p] = Off] PROVE TruthInv'
  BY <1>1, <1>5, OffTruth
<1>6. ASSUME FinishStart(p) PROVE TruthInv'
  BY <1>1, <1>6, OffTruth DEF FinishStart
<1> QED
  BY <1>2, <1>3, <1>4, <1>5, <1>6 DEF Start, Migrate, Close, Die

LEMMA RecoverJobTruth == ASSUME IInv, TruthInv, NEW p \in Process, RecoverJob(p) PROVE TruthInv'
<1>1. PICK j \in ToRecover(p) : /\ Save(j, "pending", process[p].seen[j].attempts)
                               /\ process' = [process EXCEPT ![p].seen[j] = NoRow]
  BY DEF RecoverJob
<1> DEFINE s == [process[p] EXCEPT !.seen[j] = NoRow]
<1>2. j \in Job /\ process[p] \in ProcessState /\ UNCHANGED handled
  BY HandsType DEF ToRecover, RecoverJob
<1>3. process' = [process EXCEPT ![p] = s]
  BY <1>1 DEF IInv, ProcessInv
<1>4. /\ s.queue = process[p].queue /\ s.job = process[p].job /\ s.step = process[p].step
      /\ s.tries = process[p].tries
      /\ \A i \in Job : s.seen[i] = IF i = j THEN NoRow ELSE process[p].seen[i]
  BY <1>2 DEF ProcessState
<1> HIDE DEF s
<1>5. Hands(s) = Hands(process[p]) /\ \A i : Completed(s, i) <=> Completed(process[p], i)
  BY <1>4 DEF Hands, Completed
<1>6. Truthful(s) /\ \A i \in Job : s.seen[i] # NoRow => s.seen[i].status = "running"
  BY <1>4 DEF TruthInv, HandsInv, SeenRunning, Truthful
<1>7. \A i \in Hands(s) : /\ handled[i] = IF Completed(s, i) THEN 1 ELSE 0
                          /\ \A q \in Process \ {p} : i \notin Hands(process[q])
  BY <1>5 DEF TruthInv, HandsInv
<1> QED
  BY <1>1, <1>2, <1>3, <1>5, <1>6, <1>7, SavesTruth DEF Finished

LEMMA RunDueTruth == ASSUME IInv, TruthInv, NEW p \in Process, RunDue(p) PROVE TruthInv'
<1>1. /\ process[p] \in ProcessState /\ process[p].step = "due" /\ UNCHANGED handled
      /\ process[p].queue = {} /\ process[p].job = NoJob /\ Hands(process[p]) = {}
  BY HandsType DEF RunDue, OneJob, Executing, Finished, Hands
<1>2. ASSUME NEW j \in Fresh, Submit(p, j) PROVE TruthInv'
  <2> DEFINE s == [process[p] EXCEPT !.step = "pick", !.queue = @ \cup {j}, !.wait = Interval]
  <2>1. /\ process' = [process EXCEPT ![p] = s] /\ Save(j, "pending", 0)
        /\ j \in Job /\ rows[j].status = "absent"
    BY <1>2 DEF Submit, Fresh, IInv, ProcessInv
  <2>2. s.step = "pick" /\ s.queue = {j} /\ s.job = NoJob /\ s.seen = process[p].seen
    BY <1>1 DEF ProcessState
  <2> HIDE DEF s
  <2>3. Hands(s) = {j} /\ Truthful(s) /\ ~Completed(s, j)
    BY <2>2 DEF Hands, Truthful, Completed, Executing, Finished
  <2>4. handled[j] = 0 /\ \A q \in Process : j \notin Hands(process[q])
    BY <2>1 DEF TruthInv, RowsInv, HandsInv
  <2>5. \A i \in Job : s.seen[i] # NoRow => s.seen[i].status = "running"
    BY <2>2 DEF TruthInv, SeenRunning
  <2> QED
    BY <1>1, <2>1, <2>3, <2>4, <2>5, SavesTruth DEF Finished
<1>3. ASSUME process' = [process EXCEPT ![p].step = "pick", ![p].wait = Interval], UNCHANGED rows
      PROVE  TruthInv'
  <2> DEFINE s == [process[p] EXCEPT !.step = "pick", !.wait = Interval]
  <2>1. process' = [process EXCEPT ![p] = s]
    BY <1>3 DEF IInv, ProcessInv
  <2>2. /\ s.step = "pick" /\ s.queue = process[p].queue /\ s.job = NoJob
        /\ s.seen = process[p].seen
    BY <1>1 DEF ProcessState
  <2> HIDE DEF s
  <2> QED
    BY <1>1, <1>3, <2>1, <2>2, StepsTruth DEF Executing, Finished
<1>4. ASSUME Goto(p, "pick"), UNCHANGED rows PROVE TruthInv'
  <2> DEFINE s == [process[p] EXCEPT !.step = "pick"]
  <2>1. process' = [process EXCEPT ![p] = s]
    BY <1>4 DEF Goto
  <2>2. /\ s.step = "pick" /\ s.queue = process[p].queue /\ s.job = NoJob
        /\ s.seen = process[p].seen
    BY <1>1 DEF ProcessState
  <2> HIDE DEF s
  <2> QED
    BY <1>1, <1>4, <2>1, <2>2, StepsTruth DEF Executing, Finished
<1> QED
  BY <1>2, <1>3, <1>4 DEF RunDue, FailToSubmit

LEMMA PickTruth == ASSUME IInv, TruthInv, NEW p \in Process, Pick(p) PROVE TruthInv'
<1>1. /\ process[p] \in ProcessState /\ process[p].step = "pick" /\ UNCHANGED handled
      /\ process[p].job = NoJob /\ Hands(process[p]) = process[p].queue
  BY HandsType DEF Pick, OneJob, Executing, Finished, Hands
<1>2. CASE process[p].queue = {}
  <2> DEFINE s == [process[p] EXCEPT !.step = "cycle"]
  <2>1. process' = [process EXCEPT ![p] = s] /\ UNCHANGED rows
    BY <1>2 DEF Pick, Goto
  <2>2. /\ s.step = "cycle" /\ s.queue = process[p].queue /\ s.job = NoJob
        /\ s.seen = process[p].seen
    BY <1>1 DEF ProcessState
  <2> HIDE DEF s
  <2> QED
    BY <1>1, <2>1, <2>2, StepsTruth DEF Executing, Finished
<1>3. ASSUME NEW j \in process[p].queue, Save(j, "running", 0),
             process' = [process EXCEPT ![p].step = "run", ![p].queue = @ \ {j}, ![p].job = j]
      PROVE  TruthInv'
  <2> DEFINE s == [process[p] EXCEPT !.step = "run", !.queue = @ \ {j}, !.job = j]
  <2>1. process' = [process EXCEPT ![p] = s] /\ j \in Job
    BY <1>1, <1>3 DEF IInv, ProcessInv, ProcessState
  <2>2. /\ s.step = "run" /\ s.queue = process[p].queue \ {j} /\ s.job = j
        /\ s.seen = process[p].seen
    BY <1>1 DEF ProcessState
  <2> HIDE DEF s
  <2>3. Hands(s) \subseteq Hands(process[p]) /\ Truthful(s) /\ \A i : ~Completed(s, i)
    BY <1>1, <1>3, <2>1, <2>2 DEF Hands, Truthful, Completed, Executing, Finished
  <2>4. \A i \in Hands(process[p]) : /\ handled[i] = 0
                                     /\ \A q \in Process \ {p} : i \notin Hands(process[q])
    BY <1>1 DEF TruthInv, HandsInv, Completed
  <2>5. \A i \in Job : s.seen[i] # NoRow => s.seen[i].status = "running"
    BY <2>2 DEF TruthInv, SeenRunning
  <2> QED
    BY <1>1, <1>3, <2>1, <2>3, <2>4, <2>5, SavesTruth DEF Finished
<1>4. ASSUME NEW j \in process[p].queue, UNCHANGED rows,
             process' = [process EXCEPT ![p].step = "due", ![p].queue = @ \ {j}]
      PROVE  TruthInv'
  <2> DEFINE s == [process[p] EXCEPT !.step = "due", !.queue = @ \ {j}]
  <2>1. process' = [process EXCEPT ![p] = s]
    BY <1>4 DEF IInv, ProcessInv
  <2>2. /\ s.step = "due" /\ s.queue \subseteq process[p].queue /\ s.job = NoJob
        /\ s.seen = process[p].seen
    BY <1>1 DEF ProcessState
  <2> HIDE DEF s
  <2> QED
    BY <1>1, <1>4, <2>1, <2>2, StepsTruth DEF Executing, Finished
<1> QED
  BY <1>2, <1>3, <1>4 DEF Pick

(***************************************************************************)
(* An attempt: nobody but p has its job, so no other claim is touched.     *)
(***************************************************************************)
LEMMA AttemptTruth == ASSUME IInv, TruthInv, NEW p \in Process, Attempt(p) PROVE TruthInv'
<1>1. /\ process[p] \in ProcessState /\ process[p].step = "run" /\ UNCHANGED rows
      /\ process[p].queue = {} /\ process[p].job \in Job /\ Tried(p) \in 0 .. Attempts
      /\ handled \in [Job -> Nat]
  <2>1. /\ process[p] \in ProcessState /\ process[p].step = "run" /\ UNCHANGED rows
        /\ process[p].queue = {} /\ process[p].tries < Attempts
    BY HandsType DEF Attempt, OneJob
  <2>2. process[p].job \in Job /\ handled \in [Job -> Nat]
    BY <2>1 DEF TruthInv, HandsInv, Truthful, Executing, IInv, RecordInv
  <2> QED
    BY <2>1, <2>2, SupervisionAssumption DEF SupervisionAssumption, Tried, ProcessState
<1> DEFINE j == process[p].job
<1>2. PICK j0 \in Job : j0 = process[p].job
  BY <1>1
<1>3. Hands(process[p]) = {j0}
  BY <1>1, <1>2, SupervisionAssumption DEF SupervisionAssumption, Hands
<1>4. /\ handled[j0] = 0 /\ rows[j0].status \notin Finished \cup {"absent"}
      /\ \A q \in Process \ {p} : j0 \notin Hands(process[q])
  BY <1>1, <1>3 DEF TruthInv, HandsInv, Completed
<1>5. ASSUME handled' = [handled EXCEPT ![process[p].job] = @ + 1],
             process' = [process EXCEPT ![p].tries = Tried(p), ![p].step = "succeeded"]
      PROVE  TruthInv'
  <2> DEFINE s == [process[p] EXCEPT !.tries = Tried(p), !.step = "succeeded"]
  <2>1. process' = [process EXCEPT ![p] = s]
    BY <1>5 DEF IInv, ProcessInv
  <2>2. s.step = "succeeded" /\ s.job = j0 /\ s.queue = {} /\ s.seen = process[p].seen
    BY <1>1, <1>2 DEF ProcessState
  <2> HIDE DEF s
  <2>3. \A q \in Process : process'[q] = IF q = p THEN s ELSE process[q]
    BY <2>1 DEF IInv, ProcessInv
  <2>4. \A i \in Job : handled'[i] = IF i = j0 THEN 1 ELSE handled[i]
    BY <1>1, <1>2, <1>4, <1>5
  <2>5. Hands(s) = {j0} /\ Truthful(s) /\ Completed(s, j0)
    BY <1>2, <2>2, SupervisionAssumption
    DEF SupervisionAssumption, Hands, Truthful, Completed, Executing, Finished
  <2>6. ASSUME NEW q \in Process
        PROVE  /\ Truthful(process'[q])
               /\ \A i \in Hands(process'[q]) :
                    /\ rows[i].status \notin Finished \cup {"absent"}
                    /\ handled'[i] = IF Completed(process'[q], i) THEN 1 ELSE 0
                    /\ \A r \in Process \ {q} : i \notin Hands(process'[r])
    <3>1. CASE q = p
      BY <1>2, <1>4, <2>3, <2>4, <2>5, <3>1
    <3>2. CASE q # p
      <4>1. process'[q] = process[q] /\ Truthful(process[q])
        BY <2>3, <3>2 DEF TruthInv, HandsInv
      <4>2. ASSUME NEW i \in Hands(process[q])
            PROVE  /\ rows[i].status \notin Finished \cup {"absent"}
                   /\ handled'[i] = IF Completed(process[q], i) THEN 1 ELSE 0
                   /\ \A r \in Process \ {q} : i \notin Hands(process'[r])
        <5>1. i \in Job /\ i # j0
          BY <1>4, <3>2, HandsType
        <5>2. /\ rows[i].status \notin Finished \cup {"absent"}
              /\ handled[i] = IF Completed(process[q], i) THEN 1 ELSE 0
              /\ \A r \in Process \ {q} : i \notin Hands(process[r])
          BY DEF TruthInv, HandsInv
        <5> QED
          BY <2>3, <2>4, <2>5, <5>1, <5>2
      <4> QED
        BY <4>1, <4>2
    <3> QED
      BY <3>1, <3>2
  <2>7. HandsInv'
    BY <1>1, <2>6 DEF HandsInv, Truthful, Hands, Completed
  <2>8. RowsInv'
    BY <1>1, <1>4, <2>4 DEF TruthInv, RowsInv, Finished
  <2>9. SeenRunning'
    BY <2>2, <2>3 DEF TruthInv, SeenRunning
  <2> QED
    BY <2>7, <2>8, <2>9 DEF TruthInv
<1>6. ASSUME process' = [process EXCEPT ![p].tries = Tried(p),
                                        ![p].step = IF Tried(p) < Attempts THEN "run" ELSE "failed"],
             UNCHANGED handled
      PROVE  TruthInv'
  <2> DEFINE step == IF Tried(p) < Attempts THEN "run" ELSE "failed"
             s == [process[p] EXCEPT !.tries = Tried(p), !.step = step]
  <2>1. process' = [process EXCEPT ![p] = s]
    BY <1>6 DEF IInv, ProcessInv
  <2>2. s.step = step /\ s.tries = Tried(p) /\ s.job = j0 /\ s.queue = {} /\ s.seen = process[p].seen
    BY <1>1, <1>2 DEF ProcessState
  <2>3. step \in {"run", "failed"} /\ (step = "failed" => Tried(p) = Attempts)
    BY <1>1, SupervisionAssumption DEF SupervisionAssumption
  <2> HIDE DEF s, step
  <2>4. Hands(s) \subseteq Hands(process[p]) /\ Truthful(s)
    BY <1>1, <1>2, <1>3, <2>2, <2>3 DEF Hands, Truthful, Executing, Finished
  <2>5. \A i \in Hands(s) : Completed(s, i) <=> Completed(process[p], i)
    BY <1>1, <2>2, <2>3 DEF Completed
  <2>6. \A i \in Job : s.seen[i] # NoRow => s.seen[i].status = "running"
    BY <2>2 DEF TruthInv, SeenRunning
  <2> QED
    BY <1>1, <1>6, <2>1, <2>4, <2>5, <2>6, KeepsTruth
<1> QED
  BY <1>5, <1>6 DEF Attempt

LEMMA EndTickTruth ==
    ASSUME IInv, TruthInv, NEW p \in Process, EndTick(p), UNCHANGED <<rows, handled>>
    PROVE  TruthInv'
<1> DEFINE s == [process[p] EXCEPT !.step = "due", !.job = NoJob, !.tries = 0]
<1>1. process' = [process EXCEPT ![p] = s]
  BY DEF EndTick
<1>2. s.step = "due" /\ s.job = NoJob /\ s.queue = process[p].queue /\ s.seen = process[p].seen
  BY HandsType DEF ProcessState
<1> HIDE DEF s
<1> QED
  BY <1>1, <1>2, StepsTruth DEF Executing, Finished

LEMMA SaveResultTruth == ASSUME IInv, TruthInv, NEW p \in Process, SaveResult(p) PROVE TruthInv'
<1>1. /\ process[p] \in ProcessState /\ process[p].step \in Finished /\ UNCHANGED handled
      /\ process[p].queue = {} /\ process[p].job \in Job
  BY HandsType DEF SaveResult, OneJob, Finished, TruthInv, HandsInv, Truthful, Executing
<1>2. ASSUME Save(process[p].job, process[p].step, process[p].tries),
             process' = [process EXCEPT ![p] = [@ EXCEPT !.step = "cycle", !.job = NoJob,
                                                         !.tries = 0]]
      PROVE  TruthInv'
  <2> DEFINE s == [process[p] EXCEPT !.step = "cycle", !.job = NoJob, !.tries = 0]
  <2>1. process' = [process EXCEPT ![p] = s]
    BY <1>2
  <2>2. s.step = "cycle" /\ s.job = NoJob /\ s.queue = {} /\ s.seen = process[p].seen
    BY <1>1 DEF ProcessState
  <2> HIDE DEF s
  <2>3. Hands(s) = {} /\ Truthful(s)
    BY <2>2 DEF Hands, Truthful, Executing, Finished
  <2>4. process[p].job \in Hands(process[p])
    BY <1>1, SupervisionAssumption DEF SupervisionAssumption, Hands
  <2>5. /\ handled[process[p].job] = IF process[p].step = "succeeded" THEN 1 ELSE 0
        /\ \A q \in Process \ {p} : process[p].job \notin Hands(process[q])
        /\ process[p].step = "failed" => process[p].tries = Attempts
    BY <2>4 DEF TruthInv, HandsInv, Completed, Truthful
  <2>6. \A i \in Job : s.seen[i] # NoRow => s.seen[i].status = "running"
    BY <2>2 DEF TruthInv, SeenRunning
  <2>7. PICK status \in Finished, j \in Job, n \in 0 .. Attempts :
          status = process[p].step /\ j = process[p].job /\ n = process[p].tries
    BY <1>1 DEF ProcessState
  <2>8. /\ Save(j, status, n) /\ status \in {"pending", "running", "succeeded", "failed"}
        /\ \A q \in Process \ {p} : j \notin Hands(process[q])
        /\ status = "succeeded" => handled[j] = 1
        /\ status = "failed" => handled[j] = 0 /\ n = Attempts
    BY <1>2, <2>5, <2>7 DEF Finished
  <2> QED
    BY <1>1, <2>1, <2>3, <2>6, <2>8, SavesTruth
<1> QED
  BY <1>1, <1>2, EndTickTruth DEF SaveResult

LEMMA NextTruth == IInv /\ TruthInv /\ [Next]_vars => TruthInv'
<1> SUFFICES ASSUME IInv, TruthInv, [Next]_vars PROVE TruthInv'
  OBVIOUS
<1>1. CASE PassTime
  <2>1. ASSUME NEW p \in Process
        PROVE  /\ process'[p].seen = process[p].seen /\ process'[p].queue = process[p].queue
               /\ process'[p].job = process[p].job /\ process'[p].step = process[p].step
               /\ process'[p].tries = process[p].tries
    BY <1>1, HandsType DEF PassTime, ProcessState
  <2>2. ASSUME NEW p \in Process
        PROVE  /\ Hands(process'[p]) = Hands(process[p])
               /\ Truthful(process'[p]) <=> Truthful(process[p])
               /\ \A j : Completed(process'[p], j) <=> Completed(process[p], j)
    BY <2>1 DEF Hands, Truthful, Completed
  <2>3. UNCHANGED <<rows, handled>>
    BY <1>1 DEF PassTime
  <2>4. ASSUME NEW p \in Process
        PROVE  /\ Truthful(process'[p])
               /\ \A j \in Hands(process'[p]) :
                    /\ rows[j].status \notin Finished \cup {"absent"}
                    /\ handled[j] = IF Completed(process'[p], j) THEN 1 ELSE 0
                    /\ \A q \in Process \ {p} : j \notin Hands(process'[q])
    BY <2>2 DEF TruthInv, HandsInv
  <2>5. HandsInv'
    BY <2>3, <2>4 DEF HandsInv, Truthful, Hands, Completed
  <2>6. RowsInv' /\ SeenRunning'
    BY <2>1, <2>3 DEF TruthInv, RowsInv, SeenRunning
  <2> QED
    BY <2>5, <2>6 DEF TruthInv
<1>2. ASSUME NEW p \in Process, Stop(p) PROVE TruthInv'
  <2> DEFINE s == [process[p] EXCEPT !.stopped = TRUE]
  <2>1. process' = [process EXCEPT ![p] = s] /\ UNCHANGED <<rows, handled>>
    BY <1>2 DEF Stop, IInv, ProcessInv
  <2>2. /\ s.seen = process[p].seen /\ s.queue = process[p].queue
        /\ s.job = process[p].job /\ s.step = process[p].step /\ s.tries = process[p].tries
    BY HandsType DEF ProcessState
  <2> HIDE DEF s
  <2>3. s.queue \subseteq process[p].queue
    BY <2>2
  <2> QED
    BY <2>1, <2>2, <2>3, StepsTruth
<1>3. ASSUME NEW p \in Process, ProcessCycle(p) PROVE TruthInv'
  BY <1>3, EndTickTruth DEF ProcessCycle
<1>4. CASE UNCHANGED vars
  <2> UNCHANGED <<rows, handled, process>>
    BY <1>4 DEF vars
  <2>1. HandsInv' /\ RowsInv' /\ SeenRunning'
    BY DEF TruthInv, HandsInv, Truthful, Hands, Completed, RowsInv, SeenRunning
  <2> QED
    BY <2>1 DEF TruthInv
<1> QED
  BY <1>1, <1>2, <1>3, <1>4, StartUpTruth, RecoverJobTruth, RunDueTruth, PickTruth, AttemptTruth,
     SaveResultTruth
  DEF Next, Advance

LEMMA TruthHolds == Spec => [](IInv /\ TruthInv)
BY InitInv, NextInv, TruthStarts, NextTruth, PTL DEF Spec

(***************************************************************************)
(* No row tells a lie about its job, whatever processes recover, execute,  *)
(* fail to save and die.                                                   *)
(***************************************************************************)
THEOREM RecordsAreTruthful == Spec => []RecordedTruthfully
<1>1. TruthInv => RecordedTruthfully
  BY DEF TruthInv, RowsInv, RecordedTruthfully
<1> QED
  BY <1>1, TruthHolds, PTL

(***************************************************************************)
(* Only a start-up that read a row while its job ran takes back what the   *)
(* row says of its end.                                                    *)
(***************************************************************************)
THEOREM RecordsAreStable == Spec => RecordsStable
<1>1. IInv /\ TruthInv /\ [Next]_vars =>
        [\A j \in Job : rows[j].status \in Finished /\ rows'[j] # rows[j] =>
           \E p \in Process : process[p].seen[j].status = "running"]_vars
  <2> SUFFICES ASSUME IInv, TruthInv, [Next]_vars,
                      NEW j \in Job, rows[j].status \in Finished, rows'[j] # rows[j]
               PROVE  \E p \in Process : process[p].seen[j].status = "running"
    OBVIOUS
  <2>1. PICK p \in Process : RecoverJob(p) \/ RunDue(p) \/ Pick(p) \/ SaveResult(p)
    BY DEF Next, Advance, PassTime, Start, Migrate, CheckDatabase, FinishStart, Attempt,
           ProcessCycle, Close, Stop, Die, vars
  <2>2. ASSUME NEW i, NEW status, NEW n, Save(i, status, n) PROVE i = j
    BY <2>2 DEF Save, IInv, RecordInv
  <2>3. process[p] \in ProcessState /\ OneJob(process[p])
    BY HandsType
  <2>4. CASE RecoverJob(p)
    <3>1. j \in ToRecover(p)
      BY <2>2, <2>4 DEF RecoverJob
    <3> QED
      BY <3>1 DEF ToRecover, TruthInv, SeenRunning
  <2>5. ~RunDue(p)
    BY <2>2 DEF RunDue, Submit, FailToSubmit, Fresh, Finished
  <2>6. ~Pick(p)
    <3> SUFFICES ASSUME Pick(p) PROVE FALSE
      OBVIOUS
    <3>1. j \in process[p].queue
      BY <2>2 DEF Pick
    <3>2. j \in Hands(process[p])
      BY <3>1 DEF Hands
    <3> QED
      BY <3>2 DEF TruthInv, HandsInv
  <2>7. ~SaveResult(p)
    <3> SUFFICES ASSUME SaveResult(p) PROVE FALSE
      OBVIOUS
    <3>1. process[p].job = j
      BY <2>2 DEF SaveResult
    <3>2. j \in Hands(process[p])
      BY <3>1, SupervisionAssumption DEF SupervisionAssumption, Hands
    <3> QED
      BY <3>2 DEF TruthInv, HandsInv
  <2> QED
    BY <2>1, <2>4, <2>5, <2>6, <2>7
<1> QED
  BY <1>1, TruthHolds, PTL DEF Spec, RecordsStable

-----------------------------------------------------------------------------
(***************************************************************************)
(* Recovery.  While a runner recovers, it has seen every job that runs:    *)
(* only a runner ever starts one.  With a second runner this is false: it  *)
(* may start a job, and die, after the first has read the rows.            *)
(***************************************************************************)
RunnersLoop == \A p \in Process : InLoop(p) => p \in Runner

SeenAll ==
    \A p \in Runner : process[p].step = "recover" =>
        \A j \in Job : rows[j].status = "running" => j \in ToRecover(p)

RecoverInv == RunnersLoop /\ SeenAll

OneRunner == \A p, q \in Runner : p = q

LEMMA RecoverStarts == Init => RecoverInv
<1> SUFFICES ASSUME Init PROVE RecoverInv
  OBVIOUS
<1>1. \A p \in Process : process[p].step = "off"
  BY OffType DEF Init
<1> QED
  BY <1>1, SupervisionAssumption
  DEF SupervisionAssumption, RecoverInv, RunnersLoop, SeenAll, InLoop, Finished

(***************************************************************************)
(* A step that saves no running row and lets nobody into the loop or into  *)
(* recovery.                                                               *)
(***************************************************************************)
LEMMA KeepsRecovery ==
    ASSUME IInv, RecoverInv,
           \A p \in Process : /\ InLoop(p)' => InLoop(p)
                              /\ process'[p].step = "recover" =>
                                   process[p].step = "recover" /\ process'[p].seen = process[p].seen,
           UNCHANGED rows
    PROVE  RecoverInv'
<1>1. RunnersLoop'
  BY DEF RecoverInv, RunnersLoop, InLoop
<1>2. SeenAll'
  BY SupervisionAssumption DEF SupervisionAssumption, RecoverInv, SeenAll, ToRecover
<1> QED
  BY <1>1, <1>2 DEF RecoverInv

(***************************************************************************)
(* A step of a runner in its loop: there is no other that recovers.        *)
(***************************************************************************)
LEMMA LoopsRecovery ==
    ASSUME OneRunner, IInv, RecoverInv, NEW p \in Process, InLoop(p),
           process'[p].step # "recover", \A q \in Process \ {p} : process'[q] = process[q]
    PROVE  RecoverInv'
<1>1. p \in Runner
  BY DEF RecoverInv, RunnersLoop
<1>2. RunnersLoop'
  BY <1>1 DEF RecoverInv, RunnersLoop, InLoop
<1>3. \A q \in Runner : process'[q].step # "recover"
  BY <1>1 DEF OneRunner
<1>4. SeenAll'
  BY <1>3 DEF SeenAll
<1> QED
  BY <1>2, <1>4 DEF RecoverInv

LEMMA OthersStay ==
    ASSUME process \in [Process -> ProcessState], NEW p \in Process,
           Start(p) \/ Advance(p) \/ Stop(p) \/ Die(p)
    PROVE  \A q \in Process \ {p} : process'[q] = process[q]
<1>1. CASE Migrate(p) \/ CheckDatabase(p) \/ RecoverJob(p) \/ FinishStart(p)
  BY <1>1 DEF Migrate, CheckDatabase, RecoverJob, FinishStart, Goto
<1>2. CASE RunDue(p) \/ Pick(p)
  BY <1>2 DEF RunDue, Submit, FailToSubmit, Pick, Goto
<1>3. CASE Attempt(p) \/ SaveResult(p) \/ ProcessCycle(p)
  BY <1>3 DEF Attempt, SaveResult, ProcessCycle, EndTick
<1>4. CASE Start(p) \/ Close(p) \/ Stop(p) \/ Die(p)
  BY <1>4 DEF Start, Close, Stop, Die, Goto
<1> QED
  BY <1>1, <1>2, <1>3, <1>4 DEF Advance

LEMMA NextRecovery == OneRunner /\ IInv /\ RecoverInv /\ [Next]_vars => RecoverInv'
<1> SUFFICES ASSUME OneRunner, IInv, RecoverInv, [Next]_vars PROVE RecoverInv'
  OBVIOUS
<1>0. process \in [Process -> ProcessState]
  BY DEF IInv, ProcessInv
<1>1. CASE PassTime
  <2>1. \A p \in Process : process'[p].step = process[p].step /\ process'[p].seen = process[p].seen
    BY <1>0, <1>1 DEF PassTime, ProcessState
  <2>2. UNCHANGED rows
    BY <1>1 DEF PassTime
  <2> QED
    BY <2>1, <2>2, KeepsRecovery DEF InLoop
<1>2. ASSUME NEW p \in Process, Start(p) \/ Migrate(p) PROVE RecoverInv'
  <2>1. process[p].step \in {"off", "migrate"} /\ UNCHANGED rows
    BY <1>2 DEF Start, Migrate
  <2>2. /\ process'[p].step \in {"off", "migrate", "check"}
        /\ \A q \in Process \ {p} : process'[q] = process[q]
    BY <1>0, <1>2, OffType DEF Start, Migrate, Goto, ProcessState
  <2> QED
    BY <2>1, <2>2, KeepsRecovery DEF InLoop, Finished
<1>3. ASSUME NEW p \in Process, CheckDatabase(p) PROVE RecoverInv'
  <2>1. /\ process'[p].step = "recover" /\ UNCHANGED rows
        /\ \A j \in Job : process'[p].seen[j] = IF j \in Interrupted THEN rows[j] ELSE NoRow
        /\ \A q \in Process \ {p} : process'[q] = process[q]
    BY <1>0, <1>3 DEF CheckDatabase, ProcessState
  <2>2. \A j \in Job : rows[j].status = "running" => process'[p].seen[j] # NoRow
    BY <2>1 DEF Interrupted, NoRow
  <2>3. RunnersLoop'
    BY <2>1 DEF RecoverInv, RunnersLoop, InLoop, Finished
  <2>4. SeenAll'
    BY <2>1, <2>2, SupervisionAssumption
    DEF SupervisionAssumption, RecoverInv, SeenAll, ToRecover
  <2> QED
    BY <2>3, <2>4 DEF RecoverInv
<1>4. ASSUME NEW p \in Process, RecoverJob(p) PROVE RecoverInv'
  <2>1. PICK j \in ToRecover(p) : /\ Save(j, "pending", process[p].seen[j].attempts)
                                 /\ process' = [process EXCEPT ![p].seen[j] = NoRow]
    BY <1>4 DEF RecoverJob
  <2>2. /\ \A q \in Process : process'[q].step = process[q].step
        /\ \A q \in Process, i \in Job \ {j} : process'[q].seen[i] = process[q].seen[i]
    BY <1>0, <2>1 DEF ProcessState
  <2>3. j \in Job /\ rows'[j].status = "pending" /\ \A i \in Job \ {j} : rows'[i] = rows[i]
    BY <2>1 DEF ToRecover, Save, IInv, RecordInv
  <2>4. RunnersLoop'
    BY <2>2 DEF RecoverInv, RunnersLoop, InLoop
  <2>5. SeenAll'
    BY <2>2, <2>3, SupervisionAssumption DEF SupervisionAssumption, RecoverInv, SeenAll, ToRecover
  <2> QED
    BY <2>4, <2>5 DEF RecoverInv
<1>5. ASSUME NEW p \in Process, FinishStart(p) PROVE RecoverInv'
  <2>1. /\ \A q \in Process \ {p} : process'[q] = process[q]
        /\ process'[p].step = IF p \in Runner THEN "due" ELSE "off"
        /\ UNCHANGED rows
    BY <1>0, <1>5, OffType DEF FinishStart, ProcessState
  <2>2. RunnersLoop'
    BY <2>1 DEF RecoverInv, RunnersLoop, InLoop, Finished
  <2>3. SeenAll'
    BY <2>1, SupervisionAssumption DEF SupervisionAssumption, RecoverInv, SeenAll, ToRecover
  <2> QED
    BY <2>2, <2>3 DEF RecoverInv
<1>6. ASSUME NEW p \in Process,
             RunDue(p) \/ Pick(p) \/ Attempt(p) \/ SaveResult(p) \/ ProcessCycle(p)
      PROVE  RecoverInv'
  <2>1. InLoop(p)
    BY <1>6 DEF RunDue, Pick, Attempt, SaveResult, ProcessCycle, InLoop, Finished
  <2>2. \A q \in Process \ {p} : process'[q] = process[q]
    BY <1>0, <1>6, OthersStay DEF Advance, vars
  <2>3. process'[p].step # "recover"
    <3>1. CASE RunDue(p)
      BY <1>0, <3>1 DEF RunDue, Submit, FailToSubmit, Goto, ProcessState
    <3>2. CASE Pick(p)
      <4>1. PICK step \in {"cycle", "run", "due"} :
              \/ process' = [process EXCEPT ![p].step = step]
              \/ \E j \in process[p].queue :
                    \/ process' = [process EXCEPT ![p].step = step, ![p].queue = @ \ {j},
                                                 ![p].job = j]
                    \/ process' = [process EXCEPT ![p].step = step, ![p].queue = @ \ {j}]
        BY <3>2 DEF Pick, Goto
      <4>2. process'[p].step = step
        BY <1>0, <4>1 DEF ProcessState
      <4> QED
        BY <4>2
    <3>3. CASE Attempt(p)
      BY <1>0, <3>3 DEF Attempt, ProcessState
    <3>4. CASE SaveResult(p) \/ ProcessCycle(p)
      BY <1>0, <3>4 DEF SaveResult, ProcessCycle, EndTick, ProcessState
    <3> QED
      BY <1>6, <3>1, <3>2, <3>3, <3>4
  <2> QED
    BY <2>1, <2>2, <2>3, LoopsRecovery
<1>7. ASSUME NEW p \in Process, Close(p) \/ Die(p) \/ Stop(p) PROVE RecoverInv'
  <2>1. /\ UNCHANGED rows /\ \A q \in Process \ {p} : process'[q] = process[q]
        /\ \/ process'[p].step = "off"
           \/ process'[p].step = process[p].step /\ process'[p].seen = process[p].seen
    BY <1>0, <1>7, OffType DEF Close, Die, Stop, ProcessState
  <2> QED
    BY <2>1, KeepsRecovery DEF InLoop, Finished
<1>8. CASE UNCHANGED vars
  BY <1>8, KeepsRecovery DEF vars, InLoop
<1> QED
  BY <1>1, <1>2, <1>3, <1>4, <1>5, <1>6, <1>7, <1>8 DEF Next, Advance

(***************************************************************************)
(* When the loop of the only runner starts, no row claims to run that      *)
(* nobody executes, whatever other commands start, recover and die         *)
(* meanwhile.                                                              *)
(***************************************************************************)
THEOREM RecoveryIsComplete == ASSUME OneRunner PROVE Spec => RecoveryComplete
<1>1. IInv /\ RecoverInv /\ [Next]_vars =>
        [\A p \in Runner : process[p].step = "recover" /\ process'[p].step = "due" =>
           \A j \in Job : rows[j].status = "running" =>
              \E q \in Process \ {p} : process[q].job = j]_vars
  <2> SUFFICES ASSUME IInv, RecoverInv, [Next]_vars, NEW p \in Runner,
                      process[p].step = "recover", process'[p].step = "due",
                      NEW j \in Job, rows[j].status = "running"
               PROVE  FALSE
    OBVIOUS
  <2>0. p \in Process /\ process \in [Process -> ProcessState]
    BY SupervisionAssumption DEF SupervisionAssumption, IInv, ProcessInv
  <2>1. ~PassTime /\ process' # process
    BY <2>0 DEF PassTime, ProcessState
  <2>2. PICK q \in Process : Start(q) \/ Advance(q) \/ Stop(q) \/ Die(q)
    BY <2>1 DEF Next, vars
  <2>3. q = p
    BY <2>0, <2>2, OthersStay
  <2>4. FinishStart(p)
    <3>1. ~Start(p) /\ ~Stop(p) /\ ~Die(p) /\ ~Close(p)
      BY <2>0, OffType DEF Start, Stop, Die, Close, InLoop, Finished
    <3>2. ~Migrate(p) /\ ~CheckDatabase(p) /\ ~RecoverJob(p)
      BY <2>0 DEF Migrate, CheckDatabase, RecoverJob, ProcessState
    <3>3. ~RunDue(p) /\ ~Pick(p) /\ ~Attempt(p) /\ ~SaveResult(p) /\ ~ProcessCycle(p)
      BY DEF RunDue, Pick, Attempt, SaveResult, ProcessCycle, Finished
    <3> QED
      BY <2>2, <2>3, <3>1, <3>2, <3>3 DEF Advance
  <2> QED
    BY <2>4 DEF FinishStart, RecoverInv, SeenAll
<1>2. Spec => [](IInv /\ RecoverInv)
  BY InitInv, NextInv, RecoverStarts, NextRecovery, PTL DEF Spec
<1> QED
  BY <1>1, <1>2, PTL DEF Spec, RecoveryComplete

=============================================================================
