---------------------------- MODULE RuntimeSchema ----------------------------
(***************************************************************************)
(* data/database.py, init_db, and data/schema_runtime.py: what every       *)
(* process that starts on the database file (the server of main.py, a      *)
(* command of agent/cli.py) does to its tables, several of them at a time. *)
(*                                                                         *)
(* The driver opens a transaction at the first INSERT: a DDL statement     *)
(* before it is committed at once, one after it is part of the             *)
(* transaction.  So the migration of forward_theses to its new key is      *)
(* atomic from the copy of the rows on, and not before.  A process may die *)
(* at any step and is started again (restart: unless-stopped).             *)
(*                                                                         *)
(* Of the many tables, one column that old files lack and the table        *)
(* forward_theses are followed, with the theses that requests create once  *)
(* a process is up.                                                        *)
(***************************************************************************)
EXTENDS FiniteSets

CONSTANTS
  Procs,       \* processes that start on the file
  Theses,      \* forward theses, created or asked for
  Dated,       \* those with a horizon date and a symbol
  ThesisKey,   \* (symbol, statement, horizon) of a thesis, NULLs as values
  NoProc, NoThesis

ASSUME DatedAssumption == Dated \subseteq Theses
ASSUME NoProcAssumption == NoProc \notin Procs
ASSUME NoThesisAssumption == NoThesis \notin Theses

VARIABLES
  db,          \* the file, as the process that holds the write lock sees it
  tx,          \* the process with a transaction, and the file before it
  proc,        \* where each process is
  asked,       \* the thesis that a request has looked up and not found
  known        \* history: theses that were committed

Steps ==
  {"down", "tables", "create", "column", "add_column", "key", "drop_temp",
   "make_temp", "copy", "drop", "rename", "check", "index", "up"}

Same(t, u) == ThesisKey[t] = ThesisKey[u]
Duplicates(rows) == \E t, u \in rows : t # u /\ Same(t, u)

\* UNIQUE(symbol, statement, horizon_date), to which NULLs are all different.
Clashes(rows) == \E t, u \in rows \cap Dated : t # u /\ Same(t, u)

\* A file is new, or an older version has made it.
NoTable == [key |-> "absent", rows |-> {}]
MadeFiles ==
  [table : [key : {"legacy", "symbol"}, rows : {R \in SUBSET Theses : ~Clashes(R)}],
   temp : {NoTable}, index : {FALSE}, column : BOOLEAN]
NewFile == [table |-> NoTable, temp |-> NoTable, index |-> FALSE, column |-> FALSE]

NoTx == [by |-> NoProc, before |-> NewFile]

SchemaInit ==
  /\ db \in MadeFiles \cup {NewFile}
  /\ tx = NoTx
  /\ proc = [p \in Procs |-> "down"]
  /\ asked = [p \in Procs |-> NoThesis]
  /\ known = db.table.rows

\* What a reader sees: a transaction under way is not visible to the others.
Committed == IF tx.by = NoProc THEN db ELSE tx.before
View(p) == IF tx.by = p THEN db ELSE Committed

\* A statement that writes waits for the lock.
MayWrite(p) == tx.by \in {NoProc, p}

AtStep(p, s) == proc[p] = s
Step(p, s) == proc' = [proc EXCEPT ![p] = s]

\* The exception ends the process, and what it did not commit is undone.
Aborted(p) ==
  /\ Step(p, "down")
  /\ asked' = [asked EXCEPT ![p] = NoThesis]
  /\ db' = Committed
  /\ tx' = NoTx
  /\ UNCHANGED known

Raise(p) == IF tx.by = p THEN Aborted(p)
            ELSE /\ Step(p, "down")
                 /\ asked' = [asked EXCEPT ![p] = NoThesis]
                 /\ UNCHANGED <<db, tx, known>>

\* p writes the file with new, and goes to s.
Put(p, new, s) ==
  /\ MayWrite(p)
  /\ db' = new
  /\ Step(p, s)
  /\ UNCHANGED <<tx, asked, known>>

Go(p, s) == Step(p, s) /\ UNCHANGED <<db, tx, asked, known>>

-----------------------------------------------------------------------------
(* Base.metadata.create_all looks which tables there are, and creates the  *)
(* others with all their columns.                                          *)
StartProcess(p) == AtStep(p, "down") /\ Go(p, "tables")

LookTables(p) ==
  /\ AtStep(p, "tables")
  /\ Go(p, IF Committed.table.key = "absent" THEN "create" ELSE "column")

CreateTables(p) ==
  /\ AtStep(p, "create")
  /\ IF db.table.key # "absent" THEN MayWrite(p) /\ Raise(p)
     ELSE Put(p, [db EXCEPT !.table.key = "symbol", !.column = TRUE], "column")

(* _ensure_runtime_schema of schema_runtime: a column that PRAGMA          *)
(* table_info does not show is added, which raises when it is there.       *)
LookColumn(p) ==
  /\ AtStep(p, "column")
  /\ Go(p, IF Committed.column THEN "key" ELSE "add_column")

AddColumn(p) ==
  /\ AtStep(p, "add_column")
  /\ IF db.column THEN MayWrite(p) /\ Raise(p)
     ELSE Put(p, [db EXCEPT !.column = TRUE], "key")

-----------------------------------------------------------------------------
(* _migrate_forward_theses_legacy_unique.                                  *)
LookKey(p) ==
  /\ AtStep(p, "key")
  /\ Go(p, IF Committed.table.key = "legacy" THEN "drop_temp" ELSE "check")

DropTemp(p) ==
  /\ AtStep(p, "drop_temp")
  /\ Put(p, [db EXCEPT !.temp = NoTable], "make_temp")

MakeTemp(p) ==
  /\ AtStep(p, "make_temp")
  /\ IF db.temp # NoTable THEN MayWrite(p) /\ Raise(p)
     ELSE Put(p, [db EXCEPT !.temp.key = "symbol"], "copy")

\* Variant for mutation: the driver commits statement by statement.
BeginTx_None(p) == tx' = tx
\* The INSERT opens the transaction that the end of init_db commits.
BeginTx(p) == tx' = [by |-> p, before |-> db]

CopyRows(p) ==
  /\ AtStep(p, "copy")
  /\ tx.by = NoProc
  /\ IF db.temp = NoTable THEN Raise(p)
     ELSE /\ BeginTx(p)
          /\ db' = [db EXCEPT !.temp.rows = db.table.rows]
          /\ Step(p, "drop")
          /\ UNCHANGED <<asked, known>>

DropTable(p) ==
  /\ AtStep(p, "drop")
  /\ Put(p, [db EXCEPT !.table = NoTable, !.index = FALSE], "rename")

RenameTemp(p) ==
  /\ AtStep(p, "rename")
  /\ Put(p, [db EXCEPT !.table = db.temp, !.temp = NoTable], "check")

-----------------------------------------------------------------------------
\* Variant for mutation: the constraint of the table is deemed enough.
IndexRefuses_Clashes(rows) == Clashes(rows)
\* The index treats NULLs as values.
IndexRefuses(rows) == Duplicates(rows)

(* _ensure_forward_theses_normalized_unique_index: duplicates are left to  *)
(* the operator, and the start fails.                                      *)
CheckDuplicates(p) ==
  /\ AtStep(p, "check")
  /\ IF IndexRefuses(View(p).table.rows) THEN Raise(p) ELSE Go(p, "index")

(* CREATE UNIQUE INDEX IF NOT EXISTS, which looks at the rows again, and   *)
(* the end of the transaction, if there is one.                            *)
BuildIndex(p) ==
  /\ AtStep(p, "index")
  /\ MayWrite(p)
  /\ IF IndexRefuses(db.table.rows) THEN Raise(p)
     ELSE /\ db' = [db EXCEPT !.index = TRUE]
          /\ tx' = NoTx
          /\ Step(p, "up")
          /\ UNCHANGED <<asked, known>>

-----------------------------------------------------------------------------
(* create_forward_thesis: a request of a process that is up looks for the  *)
(* key, and inserts a row when there is none.                              *)
LookThesis(p, t) ==
  /\ AtStep(p, "up") /\ asked[p] = NoThesis
  /\ \A u \in Committed.table.rows : ~Same(t, u)
  /\ asked' = [asked EXCEPT ![p] = t]
  /\ UNCHANGED <<db, tx, proc, known>>

Refused(rows) == Clashes(rows) \/ (db.index /\ IndexRefuses(rows))

InsertThesis(p, t) ==
  /\ AtStep(p, "up") /\ asked[p] = t
  /\ tx.by = NoProc
  /\ LET rows == db.table.rows \cup {t} IN
       IF Refused(rows) THEN UNCHANGED <<db, known>>
       ELSE db' = [db EXCEPT !.table.rows = rows] /\ known' = known \cup {t}
  /\ asked' = [asked EXCEPT ![p] = NoThesis]
  /\ UNCHANGED <<tx, proc>>

\* The lock was not free in time (database is locked), or the process dies.
Kill(p) == proc[p] # "down" /\ Raise(p)

InitDb(p) ==
  \/ LookTables(p) \/ CreateTables(p) \/ LookColumn(p) \/ AddColumn(p)
  \/ LookKey(p) \/ DropTemp(p) \/ MakeTemp(p) \/ CopyRows(p) \/ DropTable(p)
  \/ RenameTemp(p) \/ CheckDuplicates(p) \/ BuildIndex(p)

SchemaNext ==
  \E p \in Procs :
    \/ StartProcess(p) \/ InitDb(p) \/ Kill(p)
    \/ \E t \in Theses : LookThesis(p, t) \/ InsertThesis(p, t)

SchemaVars == <<db, tx, proc, asked, known>>
SchemaSpec == SchemaInit /\ [][SchemaNext]_SchemaVars

-----------------------------------------------------------------------------
(* "init_db() ... never drops data" (scripts/reproduce_evidence.py): a     *)
(* thesis that was committed is in the table, whichever step of the        *)
(* migration a process dies at and whoever migrates beside it.             *)
NoThesisIsLost == known \subseteq Committed.table.rows

(* Once a process is up a key has one thesis, NULL horizons and symbols    *)
(* included, also when two requests create it at once                      *)
(* (_ensure_forward_theses_normalized_unique_index).                       *)
OneThesisPerKey ==
  (\E p \in Procs : proc[p] = "up") => ~Duplicates(Committed.table.rows)
=============================================================================
