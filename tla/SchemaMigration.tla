--------------------------- MODULE SchemaMigration ---------------------------
(***************************************************************************)
(* migrate: what every process does to the articles table before anything  *)
(* else.  One savepoint holds all statements; the connection that changed  *)
(* something keeps the others from writing until it is released.           *)
(***************************************************************************)
EXTENDS Naturals, FiniteSets

CONSTANTS
    Process,     \* the processes that open the database
    Column,      \* the columns that later versions added
    Row,         \* the articles an older version stored
    Object,      \* the indexes and triggers on the table
    NoProcess    \* nobody

ASSUME SchemaAssumption == NoProcess \notin Process

VARIABLES
    table,     \* the committed articles table
    writer,    \* the process whose savepoint has changed something
    change     \* Process -> the state of its savepoint

schemaVars == <<table, writer, change>>

Table ==
    [exists : BOOLEAN, columns : SUBSET Column, dated : BOOLEAN,
     rows : SUBSET Row, objects : SUBSET Object]

NoTable == [exists |-> FALSE, columns |-> {}, dated |-> FALSE, rows |-> {}, objects |-> {}]

\* CREATE TABLE IF NOT EXISTS: all columns, published_at may be NULL.
NewTable == [NoTable EXCEPT !.exists = TRUE, !.columns = Column]

\* Tables of older versions: columns may be missing, published_at be required.
OlderTable ==
    {t \in Table : t.exists /\ t.rows = Row /\ t.objects = Object}

NoChange == [step |-> "none", articles |-> NoTable, spare |-> NoTable, objects |-> {}]

SchemaTypeOK ==
    /\ table \in Table
    /\ writer \in Process \cup {NoProcess}
    /\ change \in [Process -> [step : {"none", "columns", "copy", "rename", "objects"},
                               articles : Table, spare : Table, objects : SUBSET Object]]

SchemaInit ==
    /\ table \in OlderTable \cup {NoTable}
    /\ writer = NoProcess
    /\ change = [p \in Process |-> NoChange]

Complete(t) == t.exists /\ t.columns = Column /\ ~t.dated

-----------------------------------------------------------------------------
(***************************************************************************)
(* A statement inside the savepoint changes what only its process sees.    *)
(***************************************************************************)
MayWrite(p) == writer \in {NoProcess, p}

\* Mutant: no savepoint, every statement commits.
ExecuteAutocommit(p, c) ==
    /\ MayWrite(p)
    /\ writer' = p
    /\ change' = [change EXCEPT ![p] = c]
    /\ table' = c.articles

Execute(p, c) ==
    /\ MayWrite(p)
    /\ writer' = p
    /\ change' = [change EXCEPT ![p] = c]
    /\ UNCHANGED table

CreateTable(p) ==
    /\ change[p].step = "none"
    /\ IF table.exists
       THEN /\ change' = [change EXCEPT ![p] = [@ EXCEPT !.step = "columns", !.articles = table]]
            /\ UNCHANGED <<table, writer>>
       ELSE Execute(p, [change[p] EXCEPT !.step = "columns", !.articles = NewTable])

Missing(p) == Column \ change[p].articles.columns

AddColumn(p) ==
    /\ change[p].step = "columns"
    /\ \E c \in Missing(p) : Execute(p, [change[p] EXCEPT !.articles.columns = @ \cup {c}])

(***************************************************************************)
(* A table that requires published_at is copied to one that does not, the  *)
(* copy takes its name, and what hung on the dropped table is made again.  *)
(***************************************************************************)
CopyTable(p) ==
    /\ change[p].step = "columns" /\ Missing(p) = {} /\ change[p].articles.dated
    /\ Execute(p, [change[p] EXCEPT
          !.step = "copy",
          !.spare = [change[p].articles EXCEPT !.dated = FALSE, !.objects = {}],
          !.objects = change[p].articles.objects])

DropTable(p) ==
    /\ change[p].step = "copy"
    /\ Execute(p, [change[p] EXCEPT !.step = "rename", !.articles = NoTable])

RenameTable(p) ==
    /\ change[p].step = "rename"
    /\ Execute(p, [change[p] EXCEPT !.step = "objects",
                                   !.articles = change[p].spare, !.spare = NoTable])

CreateObject(p) ==
    /\ change[p].step = "objects"
    /\ \E o \in change[p].objects :
          Execute(p, [change[p] EXCEPT !.articles.objects = @ \cup {o}, !.objects = @ \ {o}])

Migrated(p) ==
    \/ change[p].step = "columns" /\ Missing(p) = {} /\ ~change[p].articles.dated
    \/ change[p].step = "objects" /\ change[p].objects = {}

(***************************************************************************)
(* The commit of a writer waits for the savepoints that have read.         *)
(***************************************************************************)
Release(p) ==
    /\ Migrated(p)
    /\ IF writer = p
       THEN /\ \A q \in Process \ {p} : change[q].step = "none"
            /\ table' = change[p].articles
            /\ writer' = NoProcess
       ELSE UNCHANGED <<table, writer>>
    /\ change' = [change EXCEPT ![p] = NoChange]

(***************************************************************************)
(* Any statement may raise: the database is locked or full, or the text of *)
(* the legacy definition is not understood.                                *)
(***************************************************************************)
Rollback(p) ==
    /\ change' = [change EXCEPT ![p] = NoChange]
    /\ writer' = IF writer = p THEN NoProcess ELSE writer
    /\ UNCHANGED table

MigrateStep(p) ==
    \/ CreateTable(p) \/ AddColumn(p) \/ CopyTable(p) \/ DropTable(p)
    \/ RenameTable(p) \/ CreateObject(p)

-----------------------------------------------------------------------------
(***************************************************************************)
(* Whoever migrates, fails or dies at whatever statement, the committed    *)
(* table changes once, into the complete one, and keeps every article,     *)
(* index and trigger ("atomically and idempotently", migrations.py:154).   *)
(***************************************************************************)
MigrationAtomic ==
    [][table' # table =>
         Complete(table') /\ table'.rows = table.rows /\ table'.objects = table.objects]_schemaVars

=============================================================================
