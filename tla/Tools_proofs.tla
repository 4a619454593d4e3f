----------------------------- MODULE Tools_proofs -----------------------------
(***************************************************************************)
(* The schema that a process checks as it starts, and the tools that are   *)
(* run by hand or at night.                                                *)
(***************************************************************************)
EXTENDS RuntimeSchema, GateTracker, SentimentCache, KronosTraining, KronosData, NumberLemmas,
        SequenceTheorems

-----------------------------------------------------------------------------
(***************************************************************************)
(* RuntimeSchema: the theses, however many processes start at once and     *)
(* wherever they die.                                                      *)
(***************************************************************************)
Tables == [key : {"absent", "legacy", "symbol"}, rows : SUBSET Theses]
Files == [table : Tables, temp : Tables, index : BOOLEAN, column : BOOLEAN]

\* The steps of the migration that its transaction may be at.
InTx == {"drop", "rename", "check", "index"}

SchemaTypes ==
  /\ db \in Files /\ tx \in [by : Procs \cup {NoProc}, before : Files]
  /\ proc \in [Procs -> Steps]

\* Between the drop and the rename the theses are those of the copy.
TxInv(p) ==
  /\ proc[p] \in InTx
  /\ proc[p] \in {"drop", "rename"} => known \subseteq db.temp.rows
  /\ proc[p] \in {"check", "index"} => known \subseteq db.table.rows

SchemaInv ==
  /\ SchemaTypes
  /\ known \subseteq Committed.table.rows
  /\ Committed.index => ~ Duplicates(Committed.table.rows)
  /\ \A p \in Procs : proc[p] = "up" => Committed.index
  /\ \A p \in Procs : proc[p] \in {"drop", "rename"} => tx.by = p
  /\ \A p \in Procs : tx.by = p => TxInv(p)

-----------------------------------------------------------------------------
(* What a statement leaves of a file.                                      *)
LEMMA CreateFields ==
  ASSUME NEW f \in Files
  PROVE  LET g == [f EXCEPT !.table.key = "symbol", !.column = TRUE]
         IN  g \in Files /\ g.table.rows = f.table.rows /\ g.index = f.index
BY DEF Files, Tables

(* A column is added.                                                      *)
LEMMA ColumnFields ==
  ASSUME NEW f \in Files
  PROVE  LET g == [f EXCEPT !.column = TRUE]
         IN  g \in Files /\ g.table = f.table /\ g.index = f.index
BY DEF Files, Tables

(* The table of the migration is dropped.                                  *)
LEMMA NoTempFields ==
  ASSUME NEW f \in Files
  PROVE  LET g == [f EXCEPT !.temp = NoTable]
         IN  g \in Files /\ g.table = f.table /\ g.index = f.index
BY DEF Files, Tables, NoTable

(* The table of the migration is made.                                     *)
LEMMA TempKeyFields ==
  ASSUME NEW f \in Files
  PROVE  LET g == [f EXCEPT !.temp.key = "symbol"]
         IN  g \in Files /\ g.table = f.table /\ g.index = f.index
BY DEF Files, Tables

(* The rows are copied.                                                    *)
LEMMA CopyFields ==
  ASSUME NEW f \in Files, NEW rows \in SUBSET Theses
  PROVE  LET g == [f EXCEPT !.temp.rows = rows]
         IN  g \in Files /\ g.temp.rows = rows
BY DEF Files, Tables

(* The old table is dropped, and its index with it.                        *)
LEMMA DropFields ==
  ASSUME NEW f \in Files
  PROVE  LET g == [f EXCEPT !.table = NoTable, !.index = FALSE]
         IN  g \in Files /\ g.temp = f.temp
BY DEF Files, Tables, NoTable

(* The table of the migration takes its place.                             *)
LEMMA RenameFields ==
  ASSUME NEW f \in Files
  PROVE  LET g == [f EXCEPT !.table = f.temp, !.temp = NoTable]
         IN  g \in Files /\ g.table = f.temp
BY DEF Files, Tables, NoTable

(* The index is built.                                                     *)
LEMMA IndexFields ==
  ASSUME NEW f \in Files
  PROVE  LET g == [f EXCEPT !.index = TRUE]
         IN  g \in Files /\ g.table = f.table /\ g.index = TRUE
BY DEF Files, Tables

(* A row is inserted.                                                      *)
LEMMA RowsFields ==
  ASSUME NEW f \in Files, NEW rows \in SUBSET Theses
  PROVE  LET g == [f EXCEPT !.table.rows = rows]
         IN  g \in Files /\ g.table.rows = rows /\ g.index = f.index
BY DEF Files, Tables

-----------------------------------------------------------------------------
(* A process goes to a step, and nothing is written.                       *)
LEMMA GoPreserves ==
  ASSUME SchemaInv, NEW p \in Procs, NEW s \in Steps, Go(p, s),
         s \notin {"drop", "rename", "up"},
         tx.by = p => proc[p] \in {"check", "index"} /\ s \in {"check", "index"}
  PROVE  SchemaInv'
<1>1. /\ proc' \in [Procs -> Steps] /\ proc'[p] = s
      /\ \A q \in Procs : q # p => proc'[q] = proc[q]
      /\ UNCHANGED <<db, tx, asked, known>> /\ Committed' = Committed
  BY DEF SchemaInv, SchemaTypes, Go, Step, Committed
<1>2. \A q \in Procs : tx.by = q => TxInv(q)'
  BY <1>1 DEF SchemaInv, TxInv, InTx
<1>3. QED
  BY <1>1, <1>2 DEF SchemaInv, SchemaTypes

(* The file is written with no transaction open.                           *)
LEMMA FreePut ==
  ASSUME SchemaInv, NEW p \in Procs, NEW s \in Steps, tx.by = NoProc,
         NEW new \in Files, db' = new, tx' = tx \/ tx' = NoTx, Step(p, s),
         s \notin {"drop", "rename"}, s = "up" => new.index,
         known' \subseteq new.table.rows,
         db.index => new.index,
         new.index => ~ Duplicates(new.table.rows)
  PROVE  SchemaInv'
<1>1. /\ proc' \in [Procs -> Steps] /\ proc'[p] = s
      /\ \A q \in Procs : q # p => proc'[q] = proc[q]
  BY DEF SchemaInv, SchemaTypes, Step
<1>2. tx'.by = NoProc /\ Committed' = new /\ Committed = db
  <2>1. NoTx.by = NoProc
    BY DEF NoTx
  <2>2. tx'.by = NoProc
    BY <2>1
  <2>3. QED
    BY <2>2 DEF Committed
<1>3. tx' \in [by : Procs \cup {NoProc}, before : Files]
  <2>1. NoTx \in [by : Procs \cup {NoProc}, before : Files]
    BY DEF NoTx, NewFile, NoTable, Files, Tables
  <2>2. tx \in [by : Procs \cup {NoProc}, before : Files]
    BY DEF SchemaInv, SchemaTypes
  <2>3. QED
    BY <2>1, <2>2
<1>4. \A q \in Procs : proc'[q] \notin {"drop", "rename"}
  BY <1>1, NoProcAssumption DEF SchemaInv
<1>5. QED
  BY <1>1, <1>2, <1>3, <1>4, NoProcAssumption DEF SchemaInv, SchemaTypes

(* What the process of the transaction writes stays in it.                 *)
LEMMA TxPut ==
  ASSUME SchemaInv, NEW p \in Procs, NEW s \in InTx, tx.by = p,
         NEW new \in Files, db' = new, tx' = tx, known' = known, Step(p, s),
         s \in {"drop", "rename"} => known \subseteq new.temp.rows,
         s \in {"check", "index"} => known \subseteq new.table.rows
  PROVE  SchemaInv'
<1>1. /\ proc' \in [Procs -> Steps] /\ proc'[p] = s
      /\ \A q \in Procs : q # p => proc'[q] = proc[q]
  BY DEF SchemaInv, SchemaTypes, Step, InTx, Steps
<1>2. Committed' = Committed
  BY NoProcAssumption DEF Committed
<1>3. TxInv(p)'
  BY <1>1 DEF TxInv
<1>4. QED
  BY <1>1, <1>2, <1>3 DEF SchemaInv, SchemaTypes, InTx

(* An exception or a death undoes the transaction of its process.          *)
LEMMA RaisePreserves ==
  ASSUME SchemaInv, NEW p \in Procs, Raise(p)
  PROVE  SchemaInv'
<1>1. /\ proc' \in [Procs -> Steps] /\ proc'[p] = "down"
      /\ \A q \in Procs : q # p => proc'[q] = proc[q]
      /\ known' = known
  BY DEF SchemaInv, SchemaTypes, Raise, Aborted, Step, Steps
<1>2. CASE tx.by = p
  <2>1. db' = Committed /\ tx' = NoTx
    BY <1>2 DEF Raise, Aborted
  <2>2. tx'.by = NoProc /\ Committed' = Committed
    BY <2>1 DEF NoTx, Committed
  <2>3. /\ Committed \in Files
        /\ tx' \in [by : Procs \cup {NoProc}, before : Files]
    BY <2>1 DEF SchemaInv, SchemaTypes, Committed, NoTx, NewFile, NoTable, Files, Tables
  <2>4. \A q \in Procs : proc'[q] \notin {"drop", "rename"}
    BY <1>1, <1>2 DEF SchemaInv
  <2>5. QED
    BY <1>1, <2>1, <2>2, <2>3, <2>4, NoProcAssumption DEF SchemaInv, SchemaTypes
<1>3. CASE tx.by # p
  <2>1. db' = db /\ tx' = tx /\ Committed' = Committed
    BY <1>3 DEF Raise, Committed
  <2>2. \A q \in Procs : tx.by = q => TxInv(q)'
    BY <1>1, <1>3, <2>1 DEF SchemaInv, TxInv
  <2>3. QED
    BY <1>1, <2>1, <2>2 DEF SchemaInv, SchemaTypes
<1>4. QED
  BY <1>2, <1>3

-----------------------------------------------------------------------------
(* Before the copy a process has no transaction.                           *)
LEMMA BeforeCopy ==
  ASSUME SchemaInv, NEW p \in Procs, proc[p] \notin InTx, MayWrite(p)
  PROVE  /\ tx.by = NoProc /\ Committed = db /\ db \in Files
         /\ known \subseteq db.table.rows
         /\ db.index => ~ Duplicates(db.table.rows)
BY DEF SchemaInv, SchemaTypes, TxInv, MayWrite, Committed

(* The tables are created.                                                 *)
LEMMA CreateTablesPreserves ==
  ASSUME SchemaInv, NEW p \in Procs, CreateTables(p)
  PROVE  SchemaInv'
<1>1. CASE db.table.key # "absent"
  BY <1>1, RaisePreserves DEF CreateTables
<1>2. CASE ~ (db.table.key # "absent")
  <2> DEFINE new == [db EXCEPT !.table.key = "symbol", !.column = TRUE]
  <2>1. Put(p, new, "column") /\ proc[p] = "create"
    BY <1>2 DEF CreateTables, AtStep
  <2>2. /\ tx.by = NoProc /\ db \in Files /\ known \subseteq db.table.rows
        /\ db.index => ~ Duplicates(db.table.rows)
    BY <2>1, BeforeCopy DEF Put, InTx
  <2>3. new \in Files /\ new.table.rows = db.table.rows /\ new.index = db.index
    BY <2>2, CreateFields
  <2> HIDE DEF new
  <2>4. db' = new /\ tx' = tx /\ known' = known /\ Step(p, "column") /\ "column" \in Steps
    BY <2>1 DEF Put, Steps
  <2>5. QED
    BY <2>2, <2>3, <2>4, FreePut
<1>3. QED
  BY <1>1, <1>2

(* The column is added.                                                    *)
LEMMA AddColumnPreserves ==
  ASSUME SchemaInv, NEW p \in Procs, AddColumn(p)
  PROVE  SchemaInv'
<1>1. CASE db.column
  BY <1>1, RaisePreserves DEF AddColumn
<1>2. CASE ~ (db.column)
  <2> DEFINE new == [db EXCEPT !.column = TRUE]
  <2>1. Put(p, new, "key") /\ proc[p] = "add_column"
    BY <1>2 DEF AddColumn, AtStep
  <2>2. /\ tx.by = NoProc /\ db \in Files /\ known \subseteq db.table.rows
        /\ db.index => ~ Duplicates(db.table.rows)
    BY <2>1, BeforeCopy DEF Put, InTx
  <2>3. new \in Files /\ new.table.rows = db.table.rows /\ new.index = db.index
    BY <2>2, ColumnFields
  <2> HIDE DEF new
  <2>4. db' = new /\ tx' = tx /\ known' = known /\ Step(p, "key") /\ "key" \in Steps
    BY <2>1 DEF Put, Steps
  <2>5. QED
    BY <2>2, <2>3, <2>4, FreePut
<1>3. QED
  BY <1>1, <1>2

(* The table of a migration that was cut off is dropped.                   *)
LEMMA DropTempPreserves ==
  ASSUME SchemaInv, NEW p \in Procs, DropTemp(p)
  PROVE  SchemaInv'
<1> DEFINE new == [db EXCEPT !.temp = NoTable]
<1>1. Put(p, new, "make_temp") /\ proc[p] = "drop_temp"
  BY DEF DropTemp, AtStep
<1>2. /\ tx.by = NoProc /\ db \in Files /\ known \subseteq db.table.rows
      /\ db.index => ~ Duplicates(db.table.rows)
  BY <1>1, BeforeCopy DEF Put, InTx
<1>3. new \in Files /\ new.table.rows = db.table.rows /\ new.index = db.index
  BY <1>2, NoTempFields
<1> HIDE DEF new
<1>4. db' = new /\ tx' = tx /\ known' = known /\ Step(p, "make_temp") /\ "make_temp" \in Steps
  BY <1>1 DEF Put, Steps
<1>5. QED
  BY <1>2, <1>3, <1>4, FreePut

(* The table of the migration is made.                                     *)
LEMMA MakeTempPreserves ==
  ASSUME SchemaInv, NEW p \in Procs, MakeTemp(p)
  PROVE  SchemaInv'
<1>1. CASE db.temp # NoTable
  BY <1>1, RaisePreserves DEF MakeTemp
<1>2. CASE ~ (db.temp # NoTable)
  <2> DEFINE new == [db EXCEPT !.temp.key = "symbol"]
  <2>1. Put(p, new, "copy") /\ proc[p] = "make_temp"
    BY <1>2 DEF MakeTemp, AtStep
  <2>2. /\ tx.by = NoProc /\ db \in Files /\ known \subseteq db.table.rows
        /\ db.index => ~ Duplicates(db.table.rows)
    BY <2>1, BeforeCopy DEF Put, InTx
  <2>3. new \in Files /\ new.table.rows = db.table.rows /\ new.index = db.index
    BY <2>2, TempKeyFields
  <2> HIDE DEF new
  <2>4. db' = new /\ tx' = tx /\ known' = known /\ Step(p, "copy") /\ "copy" \in Steps
    BY <2>1 DEF Put, Steps
  <2>5. QED
    BY <2>2, <2>3, <2>4, FreePut
<1>3. QED
  BY <1>1, <1>2

(* A process starts, and looks.                                            *)
LEMMA LookPreserves ==
  ASSUME SchemaInv, NEW p \in Procs,
         StartProcess(p) \/ LookTables(p) \/ LookColumn(p) \/ LookKey(p)
  PROVE  SchemaInv'
<1>1. proc[p] \in {"down", "tables", "column", "key"}
  BY DEF StartProcess, LookTables, LookColumn, LookKey, AtStep
<1>2. tx.by # p
  BY <1>1 DEF SchemaInv, TxInv, InTx
<1>3. PICK s \in {"tables", "create", "column", "key", "add_column", "drop_temp", "check"} :
        Go(p, s)
  BY DEF StartProcess, LookTables, LookColumn, LookKey
<1>4. s \in Steps
  BY DEF Steps
<1>5. QED
  BY <1>2, <1>3, <1>4, GoPreserves

(* The copy opens the transaction.                                         *)
LEMMA CopyRowsPreserves ==
  ASSUME SchemaInv, NEW p \in Procs, CopyRows(p)
  PROVE  SchemaInv'
<1>1. tx.by = NoProc /\ proc[p] = "copy"
  BY DEF CopyRows, AtStep
<1>2. CASE db.temp = NoTable
  BY <1>2, RaisePreserves DEF CopyRows
<1>3. CASE db.temp # NoTable
  <2>1. PICK rows : rows = db.table.rows
    OBVIOUS
  <2> DEFINE new == [db EXCEPT !.temp.rows = rows]
  <2>2. /\ tx' = [by |-> p, before |-> db] /\ db' = new /\ Step(p, "drop")
        /\ known' = known
    BY <1>3, <2>1 DEF CopyRows, BeginTx
  <2>3. db \in Files /\ rows \in SUBSET Theses
    BY <2>1 DEF SchemaInv, SchemaTypes, Files, Tables
  <2>4. new \in Files /\ new.temp.rows = rows
    BY <2>3, CopyFields
  <2> HIDE DEF new
  <2>5. /\ proc' \in [Procs -> Steps] /\ proc'[p] = "drop"
        /\ \A q \in Procs : q # p => proc'[q] = proc[q]
    BY <2>2 DEF SchemaInv, SchemaTypes, Step, Steps
  <2>6. tx'.by = p /\ Committed' = db /\ Committed = db
    BY <1>1, <2>2, NoProcAssumption DEF Committed
  <2>7. tx' \in [by : Procs \cup {NoProc}, before : Files]
    BY <2>2, <2>3
  <2>8. known \subseteq rows
    BY <2>1, <2>6 DEF SchemaInv
  <2>9. TxInv(p)'
    BY <2>2, <2>4, <2>5, <2>8 DEF TxInv, InTx
  <2>10. \A q \in Procs : proc'[q] \in {"drop", "rename"} => q = p
    BY <1>1, <2>5, NoProcAssumption DEF SchemaInv
  <2>11. QED
    BY <2>2, <2>4, <2>5, <2>6, <2>7, <2>9, <2>10 DEF SchemaInv, SchemaTypes
<1>4. QED
  BY <1>2, <1>3

(* The old table is dropped.                                               *)
LEMMA DropTablePreserves ==
  ASSUME SchemaInv, NEW p \in Procs, DropTable(p)
  PROVE  SchemaInv'
<1> DEFINE new == [db EXCEPT !.table = NoTable, !.index = FALSE]
<1>1. Put(p, new, "rename") /\ proc[p] = "drop"
  BY DEF DropTable, AtStep
<1>2. tx.by = p /\ known \subseteq db.temp.rows /\ db \in Files
  BY <1>1 DEF SchemaInv, SchemaTypes, TxInv
<1>3. new \in Files /\ new.temp = db.temp
  BY <1>2, DropFields
<1> HIDE DEF new
<1>4. db' = new /\ tx' = tx /\ known' = known /\ Step(p, "rename") /\ "rename" \in InTx
  BY <1>1 DEF Put, InTx
<1>5. QED
  BY <1>2, <1>3, <1>4, TxPut

(* The table of the migration takes its place.                             *)
LEMMA RenameTempPreserves ==
  ASSUME SchemaInv, NEW p \in Procs, RenameTemp(p)
  PROVE  SchemaInv'
<1> DEFINE new == [db EXCEPT !.table = db.temp, !.temp = NoTable]
<1>1. Put(p, new, "check") /\ proc[p] = "rename"
  BY DEF RenameTemp, AtStep
<1>2. tx.by = p /\ known \subseteq db.temp.rows /\ db \in Files
  BY <1>1 DEF SchemaInv, SchemaTypes, TxInv
<1>3. new \in Files /\ new.table = db.temp
  BY <1>2, RenameFields
<1> HIDE DEF new
<1>4. db' = new /\ tx' = tx /\ known' = known /\ Step(p, "check") /\ "check" \in InTx
  BY <1>1 DEF Put, InTx
<1>5. QED
  BY <1>2, <1>3, <1>4, TxPut

(* The rows are looked at for duplicates.                                  *)
LEMMA CheckDuplicatesPreserves ==
  ASSUME SchemaInv, NEW p \in Procs, CheckDuplicates(p)
  PROVE  SchemaInv'
<1>1. CASE Raise(p)
  BY <1>1, RaisePreserves
<1>2. CASE Go(p, "index")
  <2>1. proc[p] = "check" /\ "index" \in Steps
    BY DEF CheckDuplicates, AtStep, Steps
  <2>2. QED
    BY <1>2, <2>1, GoPreserves
<1>3. QED
  BY <1>1, <1>2 DEF CheckDuplicates

(* The index is built on rows without duplicates, and the transaction, if  *)
(* there is one, is committed.                                             *)
LEMMA BuildIndexPreserves ==
  ASSUME SchemaInv, NEW p \in Procs, BuildIndex(p)
  PROVE  SchemaInv'
<1>1. CASE IndexRefuses(db.table.rows)
  BY <1>1, RaisePreserves DEF BuildIndex
<1>2. CASE ~ IndexRefuses(db.table.rows)
  <2> DEFINE new == [db EXCEPT !.index = TRUE]
  <2>1. /\ db' = new /\ tx' = NoTx /\ known' = known /\ Step(p, "up")
        /\ proc[p] = "index" /\ MayWrite(p)
    BY <1>2 DEF BuildIndex, AtStep
  <2>2. db \in Files /\ ~ Duplicates(db.table.rows)
    BY <1>2 DEF SchemaInv, SchemaTypes, IndexRefuses
  <2>3. new \in Files /\ new.table = db.table /\ new.index = TRUE
    BY <2>2, IndexFields
  <2> HIDE DEF new
  <2>4. known \subseteq db.table.rows
    BY <2>1 DEF SchemaInv, TxInv, MayWrite, Committed
  <2>5. /\ proc' \in [Procs -> Steps] /\ proc'[p] = "up"
        /\ \A q \in Procs : q # p => proc'[q] = proc[q]
    BY <2>1 DEF SchemaInv, SchemaTypes, Step, Steps
  <2>6. tx'.by = NoProc /\ Committed' = new
    BY <2>1 DEF NoTx, Committed
  <2>7. tx' \in [by : Procs \cup {NoProc}, before : Files]
    BY <2>1 DEF NoTx, NewFile, NoTable, Files, Tables
  <2>8. \A q \in Procs : proc'[q] \notin {"drop", "rename"}
    BY <2>1, <2>5, NoProcAssumption DEF SchemaInv, MayWrite
  <2>9. QED
    BY <2>1, <2>2, <2>3, <2>4, <2>5, <2>6, <2>7, <2>8, NoProcAssumption
       DEF SchemaInv, SchemaTypes
<1>3. QED
  BY <1>1, <1>2

(* A request looks for a thesis.                                           *)
LEMMA LookThesisPreserves ==
  ASSUME SchemaInv, NEW p \in Procs, NEW t \in Theses, LookThesis(p, t)
  PROVE  SchemaInv'
<1>1. UNCHANGED <<db, tx, proc, known>>
  BY DEF LookThesis
<1>2. QED
  BY <1>1 DEF SchemaInv, SchemaTypes, TxInv, Committed

(* A request inserts its thesis, unless the constraint or the index        *)
(* refuses it.                                                             *)
LEMMA InsertThesisPreserves ==
  ASSUME SchemaInv, NEW p \in Procs, NEW t \in Theses, InsertThesis(p, t)
  PROVE  SchemaInv'
<1>1. /\ tx.by = NoProc /\ proc[p] = "up" /\ UNCHANGED <<tx, proc>>
      /\ Committed = db /\ Committed' = db'
  BY DEF InsertThesis, AtStep, Committed
<1>2. PICK rows : rows = db.table.rows \cup {t}
  OBVIOUS
<1>3. CASE Refused(rows)
  <2>1. db' = db /\ known' = known
    BY <1>2, <1>3 DEF InsertThesis
  <2>2. QED
    BY <1>1, <2>1 DEF SchemaInv, SchemaTypes, TxInv
<1>4. CASE ~ Refused(rows)
  <2> DEFINE new == [db EXCEPT !.table.rows = rows]
  <2>1. db' = new /\ known' = known \cup {t}
    BY <1>2, <1>4 DEF InsertThesis
  <2>2. db \in Files /\ rows \in SUBSET Theses
    BY <1>2 DEF SchemaInv, SchemaTypes, Files, Tables
  <2>3. new \in Files /\ new.table.rows = rows /\ new.index = db.index
    BY <2>2, RowsFields
  <2> HIDE DEF new
  <2>4. db.index => ~ Duplicates(rows)
    BY <1>4 DEF Refused, IndexRefuses
  <2>5. known' \subseteq rows
    BY <1>1, <1>2, <2>1 DEF SchemaInv
  <2>6. QED
    BY <1>1, <2>1, <2>3, <2>4, <2>5, NoProcAssumption DEF SchemaInv, SchemaTypes
<1>5. QED
  BY <1>3, <1>4

-----------------------------------------------------------------------------
(* At the start no process runs, and the theses are those of the file.     *)
LEMMA SchemaInitInv == SchemaInit => SchemaInv
<1> SUFFICES ASSUME SchemaInit PROVE SchemaInv
  OBVIOUS
<1>1. db \in Files /\ ~ db.index
  <2>1. NoTable \in Tables
    BY DEF NoTable, Tables
  <2>2. CASE db = NewFile
    BY <2>1, <2>2 DEF NewFile, Files
  <2>3. CASE db \in MadeFiles
    BY <2>1, <2>3 DEF MadeFiles, Files, Tables
  <2>4. QED
    BY <2>2, <2>3 DEF SchemaInit
<1>2. /\ tx = NoTx /\ proc = [p \in Procs |-> "down"] /\ known = db.table.rows
  BY DEF SchemaInit
<1>3. tx.by = NoProc /\ Committed = db
  BY <1>2 DEF NoTx, Committed
<1>4. tx \in [by : Procs \cup {NoProc}, before : Files]
  BY <1>2 DEF NoTx, NewFile, NoTable, Files, Tables
<1>5. proc \in [Procs -> Steps] /\ \A p \in Procs : proc[p] = "down"
  BY <1>2 DEF Steps
<1>6. QED
  BY <1>1, <1>2, <1>3, <1>4, <1>5, NoProcAssumption DEF SchemaInv, SchemaTypes

(* The invariant is kept by every step.                                    *)
LEMMA SchemaStep == SchemaInv /\ [SchemaNext]_SchemaVars => SchemaInv'
<1> SUFFICES ASSUME SchemaInv, [SchemaNext]_SchemaVars PROVE SchemaInv'
  OBVIOUS
<1>1. CASE UNCHANGED SchemaVars
  BY <1>1 DEF SchemaVars, SchemaInv, SchemaTypes, TxInv, Committed
<1>2. ASSUME NEW p \in Procs, InitDb(p) PROVE SchemaInv'
  BY <1>2, LookPreserves, CreateTablesPreserves, AddColumnPreserves, DropTempPreserves,
     MakeTempPreserves, CopyRowsPreserves, DropTablePreserves, RenameTempPreserves,
     CheckDuplicatesPreserves, BuildIndexPreserves DEF InitDb
<1>3. ASSUME NEW p \in Procs, StartProcess(p) \/ Kill(p) PROVE SchemaInv'
  BY <1>3, LookPreserves, RaisePreserves DEF Kill
<1>4. ASSUME NEW p \in Procs, NEW t \in Theses, LookThesis(p, t) \/ InsertThesis(p, t)
      PROVE  SchemaInv'
  BY <1>4, LookThesisPreserves, InsertThesisPreserves
<1>5. QED
  BY <1>1, <1>2, <1>3, <1>4 DEF SchemaNext

(* Whichever step of the migration a process dies at and whoever migrates  *)
(* beside it, a thesis that was committed is in the table: for any number  *)
(* of processes and theses.                                                *)
THEOREM TheThesesAreKept == SchemaSpec => []NoThesisIsLost
<1>1. SchemaInv => NoThesisIsLost
  BY DEF SchemaInv, NoThesisIsLost
<1>2. QED
  BY <1>1, SchemaInitInv, SchemaStep, PTL DEF SchemaSpec

(* Once a process is up a key has one thesis, however processes start and  *)
(* requests insert beside each other.                                      *)
THEOREM AKeyHasOneThesis == SchemaSpec => []OneThesisPerKey
<1>1. SchemaInv => OneThesisPerKey
  BY DEF SchemaInv, OneThesisPerKey
<1>2. QED
  BY <1>1, SchemaInitInv, SchemaStep, PTL DEF SchemaSpec

-----------------------------------------------------------------------------
(***************************************************************************)
(* GateTracker: observations that are due, for any days, closes and cut-   *)
(* offs.                                                                   *)
(***************************************************************************)
ObservationRecord == [status : {"absent", "pending"} \cup Decided, entry : Closes]
PassRecord == [kind : {"none", "record", "realize"}, asOf : Nat, left : SUBSET SignalDays,
               due : SUBSET SignalDays]

\* Enough closes after day d, as they are now.
Enough(d, asOf) == Cardinality(Later(d, asOf)) >= Horizon

\* An observation that was due is decided, or its turn is to come and the
\* closes that made it due are still there.
DueIsKept ==
  pass.kind = "realize" =>
    \A d \in pass.due :
      \/ d \in pass.left /\ observed[d].entry # "none" /\ Enough(d, pass.asOf)
      \/ d \notin pass.left /\ observed[d].status \in Decided

TrackerInv ==
  /\ today \in Nat \ {0}
  /\ close \in [CalendarDays -> Closes]
  /\ observed \in [SignalDays -> ObservationRecord]
  /\ pass \in PassRecord /\ pass.asOf <= today
  /\ DueIsKept

LEMMA LaterIsFinite ==
  ASSUME NEW d, NEW asOf
  PROVE  Later(d, asOf) \subseteq Nat /\ IsFiniteSet(Later(d, asOf))
<1>1. CalendarDays \subseteq Nat /\ IsFiniteSet(CalendarDays)
  BY CalendarAssumption, FS_Interval DEF CalendarDays
<1>2. Later(d, asOf) \in SUBSET CalendarDays
  BY DEF Later
<1>3. QED
  BY <1>1, <1>2, FS_Subset

\* With enough closes the window is full.
LEMMA EnoughIsMatured ==
  ASSUME NEW d, Enough(d, pass.asOf)
  PROVE  Matured(d)
<1> DEFINE S == Later(d, pass.asOf)
<1>1. S \subseteq Nat /\ IsFiniteSet(S) /\ Horizon \in Nat /\ Horizon <= Cardinality(S)
  <2>1. IsFiniteSet(S) /\ S \subseteq Nat
    BY LaterIsFinite
  <2>2. Cardinality(S) \in Nat
    BY <2>1, FS_CardinalityType
  <2>3. QED
    BY <2>1, <2>2, HorizonAssumption DEF Enough
<1>2. Window(d) = FirstOnes(S, Horizon)
  BY DEF Window, FirstOnes, Rank
<1> HIDE DEF S
<1>3. QED
  BY <1>1, <1>2, FirstOnesCount DEF Matured

\* Where closes come and change, and none goes.
LEMMA EnoughStays ==
  ASSUME TrackerInv, NEW d, NEW asOf \in Nat, Enough(d, asOf), asOf <= today,
         \A e \in CalendarDays : e <= today /\ close[e] # "none" => close'[e] # "none"
  PROVE  Enough(d, asOf)'
<1>1. Later(d, asOf) \subseteq Later(d, asOf)'
  <2>1. ASSUME NEW e \in CalendarDays, e <= asOf, close[e] # "none" PROVE close'[e] # "none"
    <3>1. e \in Nat /\ today \in Nat
      BY CalendarAssumption DEF CalendarDays, TrackerInv
    <3>2. e <= today
      BY <2>1, <3>1
    <3>3. QED
      BY <2>1, <3>2
  <2>2. QED
    BY <2>1 DEF Later
<1>2. IsFiniteSet(Later(d, asOf)) /\ IsFiniteSet(Later(d, asOf)')
  <2>1. IsFiniteSet(CalendarDays) /\ Later(d, asOf)' \in SUBSET CalendarDays
    BY CalendarAssumption, FS_Interval DEF CalendarDays, Later
  <2>2. QED
    BY <2>1, LaterIsFinite, FS_Subset
<1>3. Cardinality(Later(d, asOf)) <= Cardinality(Later(d, asOf)')
  BY <1>1, <1>2, FS_Subset
<1>4. Cardinality(Later(d, asOf)) \in Nat /\ Cardinality(Later(d, asOf)') \in Nat
  BY <1>2, FS_CardinalityType
<1>5. QED
  BY <1>3, <1>4, HorizonAssumption DEF Enough

-----------------------------------------------------------------------------
LEMMA GateInvInit == GateInit => TrackerInv
<1> SUFFICES ASSUME GateInit PROVE TrackerInv
  OBVIOUS
<1>1. today \in Nat \ {0} /\ close \in [CalendarDays -> Closes]
  BY DEF GateInit, Closes
<1>2. observed \in [SignalDays -> ObservationRecord]
  BY DEF GateInit, NoObservation, ObservationRecord, Closes
<1>3. pass \in PassRecord /\ pass.asOf = 0 /\ pass.kind = "none"
  BY DEF GateInit, NoPass, PassRecord
<1>4. QED
  BY <1>1, <1>2, <1>3 DEF TrackerInv, DueIsKept, GateInit

\* The prices go on, and no close of a day that is over goes.
LEMMA PricesPreserve ==
  ASSUME TrackerInv, observed' = observed, pass' = pass,
         today' \in Nat, today <= today', close' \in [CalendarDays -> Closes],
         \A e \in CalendarDays : e <= today /\ close[e] # "none" => close'[e] # "none"
  PROVE  TrackerInv'
<1>1. today' \in Nat \ {0} /\ pass'.asOf <= today'
  BY DEF TrackerInv, PassRecord
<1>2. pass.asOf \in Nat /\ pass.asOf <= today
  BY DEF TrackerInv, PassRecord
<1>3. ASSUME NEW d, Enough(d, pass.asOf) PROVE Enough(d, pass.asOf)'
  <2>1. PICK asOf \in Nat : asOf = pass.asOf
    BY <1>2
  <2>2. Enough(d, asOf)'
    BY <1>2, <1>3, <2>1, EnoughStays
  <2>3. asOf = pass'.asOf
    BY <2>1
  <2>4. QED
    BY <2>2, <2>3 DEF Enough, Later
<1>4. DueIsKept'
  BY <1>3 DEF DueIsKept, TrackerInv
<1>5. QED
  BY <1>1, <1>4 DEF TrackerInv

LEMMA NextDayPreserves == ASSUME TrackerInv, NEW c \in {"none", "plain"}, NextDay(c) PROVE TrackerInv'
<1>1. today \in Nat /\ today' = today + 1 /\ today <= today'
  BY DEF TrackerInv, NextDay
<1>2. close' \in [CalendarDays -> Closes]
  BY DEF TrackerInv, NextDay, Closes
<1>3. \A e \in CalendarDays : e <= today => close'[e] = close[e]
  BY <1>1 DEF NextDay, TrackerInv
<1>4. QED
  BY <1>1, <1>2, <1>3, PricesPreserve DEF NextDay

\* Where a close goes, what is no longer due is no longer asked for.
LEMMA RemovePreserves ==
  ASSUME TrackerInv, NEW d \in CalendarDays, Remove(d) PROVE TrackerInv'
<1>1. /\ today' = today /\ observed' = observed /\ pass \in PassRecord
      /\ pass' = [pass EXCEPT !.due = StillDue(d)]
  BY DEF TrackerInv, Remove
<1>2. StillDue(d) \subseteq pass.due
  BY DEF StillDue
<1>3. /\ pass' \in PassRecord /\ pass'.kind = pass.kind /\ pass'.asOf = pass.asOf
      /\ pass'.left = pass.left /\ pass'.due = StillDue(d)
  BY <1>1, <1>2 DEF PassRecord
<1>4. close' \in [CalendarDays -> Closes]
      /\ \A e \in CalendarDays : close'[e] = IF e = d THEN "none" ELSE close[e]
  BY DEF TrackerInv, Remove, Closes
<1>5. \A e : Later(e, pass.asOf)' = Later(e, pass.asOf) \ {d}
  BY <1>3, <1>4 DEF Later
<1>6. \A e \in StillDue(d) : e \in pass.left => Enough(e, pass.asOf)'
  BY <1>5 DEF StillDue, Enough
<1>7. DueIsKept'
  BY <1>1, <1>2, <1>3, <1>6 DEF DueIsKept, TrackerInv
<1>8. QED
  BY <1>1, <1>3, <1>4, <1>7 DEF TrackerInv

LEMMA ClosesPreserve ==
  ASSUME TrackerInv, NEW d \in CalendarDays, FillGap(d) \/ Rescale(d)
  PROVE  TrackerInv'
<1>1. today \in Nat /\ today' = today /\ observed' = observed /\ pass' = pass
  BY DEF TrackerInv, FillGap, Rescale
<1>2. close' \in [CalendarDays -> Closes]
  BY DEF TrackerInv, FillGap, Rescale, Closes
<1>3. \A e \in CalendarDays : close[e] # "none" => close'[e] # "none"
  BY DEF FillGap, Rescale, TrackerInv
<1>4. QED
  BY <1>1, <1>2, <1>3, PricesPreserve

-----------------------------------------------------------------------------
\* A pass that does not realize keeps no account.
LEMMA OtherPass ==
  ASSUME TrackerInv, today' = today, close' = close,
         observed' \in [SignalDays -> ObservationRecord],
         pass' \in PassRecord, pass'.kind # "realize", pass'.asOf <= today
  PROVE  TrackerInv'
BY DEF TrackerInv, DueIsKept

LEMMA RecordPreserves ==
  ASSUME TrackerInv, StartRecord \/ EndPass \/ \E d \in SignalDays : RecordOne(d)
  PROVE  TrackerInv'
<1>1. today' = today /\ close' = close /\ pass \in PassRecord /\ pass.asOf <= today
  BY DEF TrackerInv, StartRecord, EndPass, RecordOne
<1>2. today \in Nat
  BY DEF TrackerInv
<1>3. CASE StartRecord
  <2>1. pass' \in PassRecord /\ pass'.kind = "record" /\ pass'.asOf = today
    BY <1>2, <1>3 DEF StartRecord, NoPass, PassRecord
  <2>2. QED
    BY <1>1, <1>2, <1>3, <2>1, OtherPass DEF StartRecord, TrackerInv
<1>4. CASE EndPass
  <2>1. pass' \in PassRecord /\ pass'.kind = "none" /\ pass'.asOf = 0
    BY <1>4 DEF EndPass, NoPass, PassRecord
  <2>2. QED
    BY <1>1, <1>2, <1>4, <2>1, OtherPass DEF EndPass, TrackerInv
<1>5. ASSUME NEW d \in SignalDays, RecordOne(d) PROVE TrackerInv'
  <2>1. pass' \in PassRecord /\ pass'.kind = "record" /\ pass'.asOf = pass.asOf
    BY <1>1, <1>5 DEF RecordOne, Rest, PassRecord
  <2>2. d \in CalendarDays
    BY CalendarAssumption DEF CalendarDays
  <2>3. observed' \in [SignalDays -> ObservationRecord]
    BY <1>5, <2>2 DEF RecordOne, TrackerInv, ObservationRecord
  <2>4. QED
    BY <1>1, <2>1, <2>3, OtherPass
<1>6. QED
  BY <1>3, <1>4, <1>5

LEMMA StartRealizePreserves == ASSUME TrackerInv, StartRealize PROVE TrackerInv'
<1>1. today \in Nat /\ UNCHANGED <<today, close, observed>>
  BY DEF TrackerInv, StartRealize
<1> DEFINE due == {d \in Pending : observed[d].entry # "none"
                                     /\ Cardinality(Later(d, today)) >= Horizon}
<1>2. /\ pass' \in PassRecord /\ pass'.kind = "realize" /\ pass'.asOf = today
      /\ pass'.left = Pending /\ pass'.due = due
  BY <1>1 DEF StartRealize, PassRecord, Pending
<1>3. \A d \in due : d \in Pending /\ observed[d].entry # "none" /\ Enough(d, today)
  BY DEF Enough
<1> HIDE DEF due
<1>4. \A d \in pass'.due : d \in pass'.left /\ observed'[d].entry # "none" /\ Enough(d, pass.asOf)'
  BY <1>1, <1>2, <1>3 DEF Enough, Later
<1>5. QED
  BY <1>1, <1>2, <1>4 DEF TrackerInv, DueIsKept

LEMMA OutcomeIsStatus == ASSUME NEW d PROVE Outcome(d) \in {"absent", "pending"} \cup Decided
BY DEF Outcome, Decided

LEMMA RealizePreserves == ASSUME TrackerInv, NEW d \in SignalDays, RealizeOne(d) PROVE TrackerInv'
<1>1. UNCHANGED <<today, close>> /\ pass \in PassRecord /\ pass.kind = "realize" /\ pass.left # {}
  BY DEF TrackerInv, RealizeOne
<1>2. d \in pass.left
  <2>1. pass.left \subseteq Nat
    <3>1. SignalDays \subseteq Nat
      BY CalendarAssumption
    <3>2. QED
      BY <1>1, <3>1 DEF PassRecord
  <2>2. \E x \in pass.left : \A y \in pass.left : x <= y
    BY <1>1, <2>1, LeastNumber
  <2>3. Min(pass.left) \in pass.left
    BY <2>2 DEF Min
  <2>4. QED
    BY <2>3 DEF RealizeOne, Next1
<1>3. /\ pass' \in PassRecord /\ pass'.kind = "realize" /\ pass'.asOf = pass.asOf
      /\ pass'.due = pass.due /\ pass'.left = pass.left \ {d}
  BY <1>1 DEF RealizeOne, PassOver, Rest, PassRecord
<1>4. PICK result \in {"absent", "pending"} \cup Decided : result = Outcome(d)
  BY OutcomeIsStatus
<1>5. observed' = IF observed[d].entry = "none" THEN observed
                  ELSE [observed EXCEPT ![d].status = result]
  BY <1>4 DEF RealizeOne
<1>6. /\ observed' \in [SignalDays -> ObservationRecord]
      /\ \A e \in SignalDays : e # d => observed'[e] = observed[e]
      /\ observed[d].entry # "none" => observed'[d].status = result
  BY <1>4, <1>5 DEF TrackerInv, ObservationRecord
<1>7. ASSUME NEW e \in pass.due
      PROVE  \/ e \in pass'.left /\ observed'[e].entry # "none" /\ Enough(e, pass.asOf)'
             \/ e \notin pass'.left /\ observed'[e].status \in Decided
  <2>1. e \in SignalDays
    BY <1>1 DEF PassRecord
  <2>2. \/ e \in pass.left /\ observed[e].entry # "none" /\ Enough(e, pass.asOf)
        \/ e \notin pass.left /\ observed[e].status \in Decided
    BY <1>1 DEF TrackerInv, DueIsKept
  <2>3. CASE e = d
    <3>1. Matured(d)
      BY <1>2, <2>2, <2>3, EnoughIsMatured
    <3>2. Outcome(d) \in Decided
      BY <3>1 DEF Outcome, Decided
    <3>3. QED
      BY <1>2, <1>3, <1>4, <1>6, <2>2, <2>3, <3>2
  <2>4. CASE e # d
    <3>1. Enough(e, pass.asOf)' <=> Enough(e, pass.asOf)
      BY <1>1, <1>3 DEF Enough, Later
    <3>2. QED
      BY <1>3, <1>6, <2>1, <2>2, <2>4, <3>1
  <2>5. QED
    BY <2>3, <2>4
<1>8. DueIsKept'
  BY <1>3, <1>7 DEF DueIsKept
<1>9. QED
  BY <1>1, <1>3, <1>6, <1>8 DEF TrackerInv

LEMMA TrackerInvNext == TrackerInv /\ [TrackerNext]_TrackerVars => TrackerInv'
<1> SUFFICES ASSUME TrackerInv, [TrackerNext]_TrackerVars PROVE TrackerInv'
  OBVIOUS
<1>1. CASE UNCHANGED TrackerVars
  BY <1>1 DEF TrackerVars, TrackerInv, DueIsKept, Enough, Later
<1>2. QED
  BY <1>1, NextDayPreserves, ClosesPreserve, RemovePreserves, RecordPreserves, StartRealizePreserves,
     RealizePreserves DEF TrackerNext

(* A pass that comes to its end has decided all that was due when it began *)
(* and still at its turn, whatever closes come, are filled in, change      *)
(* their scale or go meanwhile.                                            *)
THEOREM DueIsDecided == TrackerSpec => []MaturedIsDecided
<1>1. TrackerInv => MaturedIsDecided
  BY DEF TrackerInv, DueIsKept, MaturedIsDecided
<1>2. QED
  BY <1>1, GateInvInit, TrackerInvNext, PTL DEF TrackerSpec

-----------------------------------------------------------------------------
(***************************************************************************)
(* SentimentCache: the manifests, for any number of runs, batches and      *)
(* keys.                                                                   *)
(***************************************************************************)
RunAt == {"idle", "ask", "insert", "commit", "file", "ended", "broken"}
RunRecord == [at : RunAt, batch : 0 .. MaxBatches, calls : Nat, todo : SUBSET DOMAIN KeyPlan,
              wrote : SUBSET Titles]
FileRecord == [state : {"none", "kept", "used"}, keys : SUBSET Titles]

\* What a run has inserted, and what its files list.
Own(table, r) == {k \in Titles : table[k] = r}
InFiles(files, r) == UNION {files[<<r, b>>].keys : b \in 1 .. MaxBatches}

\* The files of a run list what it inserted, but for the batch it is at: that
\* one is listed nowhere, and until the commit nobody else can write.
FilesInv(table, files, r, q) ==
  /\ InFiles(files, r) \subseteq Own(table, r)
  /\ \A b, c \in 1 .. MaxBatches : b # c => files[<<r, b>>].keys \cap files[<<r, c>>].keys = {}
  /\ \A b \in 1 .. MaxBatches :
       b > q.batch \/ (b = q.batch /\ q.at \in {"ask", "insert", "commit", "file"})
         => files[<<r, b>>].keys = {}

BatchInv(table, files, r, q) ==
  /\ q.at = "idle" => q.batch < MaxBatches
  /\ q.at \notin {"idle", "ended", "broken"} => q.batch > 0
  /\ q.at \in {"ask", "insert"} => q.todo # {}
  /\ q.at \in {"idle", "ended", "ask", "insert", "commit"} => Own(table, r) \subseteq InFiles(files, r)
  /\ q.at \in {"ask", "insert", "commit"} => \A k \in q.wrote : table[k] = NoRow
  /\ q.at = "file" => /\ Own(table, r) = InFiles(files, r) \cup q.wrote
                      /\ InFiles(files, r) \cap q.wrote = {}

LockInv(lock, r, q) ==
  /\ q.at = "commit" \/ (q.at \in {"ask", "insert"} /\ q.wrote # {}) => lock = r
  /\ lock = r => q.at \in {"ask", "insert", "commit"}

RunInv(table, files, lock, r, q) ==
  FilesInv(table, files, r, q) /\ BatchInv(table, files, r, q) /\ LockInv(lock, r, q)

SentimentInv ==
  /\ cached \in [Titles -> {NoRow, "service"} \cup Runs]
  /\ holder \in Runs \cup {Free}
  /\ manifest \in [Runs \X (1 .. MaxBatches) -> FileRecord]
  /\ run \in [Runs -> RunRecord]
  /\ \A r \in Runs : RunInv(cached, manifest, holder, r, run[r])

LEMMA NamesDiffer == ASSUME NEW r \in Runs PROVE r # NoRow /\ r # "service" /\ r # Free
BY NamesAssumption DEF NoRow, Free

-----------------------------------------------------------------------------
LEMMA SentimentInvInit == SentimentInit => SentimentInv
<1> SUFFICES ASSUME SentimentInit PROVE SentimentInv
  OBVIOUS
<1>1. NewRun \in RunRecord /\ NewRun.at = "idle" /\ NewRun.batch = 0 /\ NewRun.wrote = {}
  <2>1. 0 \in 0 .. MaxBatches
    BY LimitsAssumption
  <2>2. QED
    BY <2>1 DEF NewRun, RunRecord, RunAt
<1>2. NoFile \in FileRecord /\ NoFile.keys = {}
  BY DEF NoFile, FileRecord
<1>3. cached \in [Titles -> {NoRow, "service"}] /\ holder = Free
  BY DEF SentimentInit
<1>4. run = [r \in Runs |-> NewRun] /\ manifest = [f \in Runs \X (1 .. MaxBatches) |-> NoFile]
  BY DEF SentimentInit
<1>5. ASSUME NEW r \in Runs PROVE RunInv(cached, manifest, holder, r, run[r])
  <2>1. \A b \in 1 .. MaxBatches : manifest[<<r, b>>].keys = {}
    BY <1>2, <1>4
  <2>2. Own(cached, r) = {} /\ InFiles(manifest, r) = {}
    BY <1>3, <2>1, NamesDiffer DEF Own, InFiles
  <2>3. run[r] = NewRun /\ holder # r
    BY <1>3, <1>4, NamesDiffer
  <2>4. 0 < MaxBatches
    BY LimitsAssumption
  <2>5. FilesInv(cached, manifest, r, run[r])
    BY <2>1, <2>2 DEF FilesInv
  <2>6. BatchInv(cached, manifest, r, run[r]) /\ LockInv(holder, r, run[r])
    BY <1>1, <2>2, <2>3, <2>4 DEF BatchInv, LockInv
  <2>7. QED
    BY <2>5, <2>6 DEF RunInv
<1>6. QED
  BY <1>1, <1>2, <1>3, <1>4, <1>5 DEF SentimentInv

\* A run that takes a step and writes nothing that another one reads.
LEMMA RunStep ==
  ASSUME SentimentInv, NEW r \in Runs, NEW q \in RunRecord,
         run' = [run EXCEPT ![r] = q],
         cached' \in [Titles -> {NoRow, "service"} \cup Runs],
         holder' \in Runs \cup {Free},
         manifest' \in [Runs \X (1 .. MaxBatches) -> FileRecord],
         RunInv(cached', manifest', holder', r, q),
         \A s \in Runs : s # r => RunInv(cached', manifest', holder', s, run[s])
  PROVE  SentimentInv'
<1>1. run' \in [Runs -> RunRecord]
  BY DEF SentimentInv
<1>2. \A s \in Runs : run'[s] = IF s = r THEN q ELSE run[s]
  BY DEF SentimentInv
<1>3. \A s \in Runs : RunInv(cached', manifest', holder', s, run'[s])
  BY <1>2
<1>4. QED
  BY <1>1, <1>3 DEF SentimentInv

LEMMA StartPreserves == ASSUME SentimentInv, NEW r \in Runs, StartBatch(r) PROVE SentimentInv'
<1> DEFINE todo == Selected(BatchLimit(run[r]))
           at == IF todo = {} THEN "file" ELSE "ask"
           q == [run[r] EXCEPT !.batch = @ + 1, !.todo = todo, !.wrote = {}, !.at = at]
<1>1. run[r] \in RunRecord /\ run[r].at = "idle" /\ RunInv(cached, manifest, holder, r, run[r])
  BY DEF SentimentInv, StartBatch
<1>2. todo \subseteq DOMAIN KeyPlan
  BY DEF Selected, Missing
<1>3. run[r].batch + 1 \in 0 .. MaxBatches /\ run[r].batch \in Nat
  BY <1>1, LimitsAssumption DEF RunRecord, RunInv, BatchInv
<1>4. run' = [run EXCEPT ![r] = q]
  BY <1>1 DEF StartBatch, SentimentInv
<1>5. at \in {"file", "ask"} /\ (at = "ask" => todo # {})
  OBVIOUS
<1> HIDE DEF todo, at
<1>6. /\ q \in RunRecord /\ q.at = at /\ q.batch = run[r].batch + 1 /\ q.todo = todo
      /\ q.wrote = {}
  BY <1>1, <1>2, <1>3, <1>5 DEF RunRecord, RunAt
<1> HIDE DEF q
<1>7. FilesInv(cached, manifest, r, q)
  <2>1. \A b \in 1 .. MaxBatches : b > q.batch \/ b = q.batch => b > run[r].batch
    BY <1>3, <1>6
  <2>2. QED
    BY <1>1, <2>1 DEF FilesInv, RunInv
<1>8. BatchInv(cached, manifest, r, q)
  <2>1. Own(cached, r) \subseteq InFiles(manifest, r) /\ InFiles(manifest, r) \subseteq Own(cached, r)
    BY <1>1 DEF RunInv, BatchInv, FilesInv
  <2>2. q.batch > 0
    BY <1>3, <1>6
  <2>3. QED
    BY <1>5, <1>6, <2>1, <2>2 DEF BatchInv
<1>9. LockInv(holder, r, q)
  BY <1>1, <1>5, <1>6 DEF RunInv, LockInv
<1>10. UNCHANGED <<cached, holder, manifest>>
  BY DEF StartBatch
<1>11. RunInv(cached', manifest', holder', r, q)
  BY <1>7, <1>8, <1>9, <1>10 DEF RunInv
<1>12. QED
  BY <1>4, <1>6, <1>10, <1>11, RunStep DEF SentimentInv

LEMMA AskPreserves == ASSUME SentimentInv, NEW r \in Runs, AskForKey(r) PROVE SentimentInv'
<1>0. PICK n \in Nat : n = run[r].calls + 1
  BY DEF SentimentInv, RunRecord
<1> DEFINE q == [run[r] EXCEPT !.at = "insert", !.calls = n]
<1>1. run[r] \in RunRecord /\ run[r].at = "ask" /\ RunInv(cached, manifest, holder, r, run[r])
  BY DEF SentimentInv, AskForKey
<1>2. run' = [run EXCEPT ![r] = q] /\ UNCHANGED <<cached, holder, manifest>>
  BY <1>0 DEF AskForKey, SentimentInv
<1>3. /\ q \in RunRecord /\ q.at = "insert" /\ q.batch = run[r].batch /\ q.todo = run[r].todo
      /\ q.wrote = run[r].wrote
  BY <1>1 DEF RunRecord, RunAt
<1> HIDE DEF q
<1>4. RunInv(cached', manifest', holder', r, q)
  BY <1>1, <1>2, <1>3 DEF RunInv, FilesInv, BatchInv, LockInv
<1>5. QED
  BY <1>2, <1>3, <1>4, RunStep DEF SentimentInv

\* While a run holds the lock, or none does, nobody else has rows to commit.
LEMMA OthersWait ==
  ASSUME SentimentInv, NEW r \in Runs, NEW s \in Runs, s # r, holder \in {Free, r}
  PROVE  run[s].at # "commit" /\ (run[s].at \in {"ask", "insert"} => run[s].wrote = {})
BY NamesDiffer DEF SentimentInv, RunInv, LockInv

LEMMA InsertPreserves == ASSUME SentimentInv, NEW r \in Runs, InsertKey(r) PROVE SentimentInv'
<1> DEFINE i == Min(run[r].todo)
           todo == run[r].todo \ {i}
           added == Added(KeyPlan[i])
           at == IF todo = {} THEN "commit" ELSE "ask"
           q == [run[r] EXCEPT !.todo = todo, !.wrote = @ \cup added, !.at = at]
<1>1. /\ run[r] \in RunRecord /\ run[r].at = "insert" /\ RunInv(cached, manifest, holder, r, run[r])
      /\ holder \in {Free, r} /\ holder' = r /\ UNCHANGED <<cached, manifest>>
  BY DEF SentimentInv, InsertKey
<1>2. i \in DOMAIN KeyPlan
  <2>1. run[r].todo \subseteq DOMAIN KeyPlan /\ run[r].todo # {}
    BY <1>1 DEF RunRecord, RunInv, BatchInv
  <2>2. \E x \in run[r].todo : \A y \in run[r].todo : x <= y
    BY <2>1, LeastNumber, PlanAssumption
  <2>3. i \in run[r].todo
    BY <2>2 DEF Min
  <2>4. QED
    BY <2>1, <2>3
<1>3. added \subseteq Titles /\ \A k \in added : cached[k] = NoRow
  BY <1>2 DEF Added, Titles
<1>4. run' = [run EXCEPT ![r] = q]
  BY <1>1 DEF InsertKey, SentimentInv
<1>5. at \in {"commit", "ask"} /\ (at = "ask" => todo # {})
  OBVIOUS
<1>6. todo \subseteq DOMAIN KeyPlan
  BY <1>1 DEF RunRecord
<1> HIDE DEF todo, at, added
<1>7. /\ q \in RunRecord /\ q.at = at /\ q.batch = run[r].batch /\ q.todo = todo
      /\ q.wrote = run[r].wrote \cup added
  BY <1>1, <1>3, <1>5, <1>6 DEF RunRecord, RunAt
<1> HIDE DEF q
<1>8. FilesInv(cached, manifest, r, q)
  BY <1>1, <1>5, <1>7 DEF FilesInv, RunInv
<1>9. BatchInv(cached, manifest, r, q)
  BY <1>1, <1>3, <1>5, <1>7 DEF BatchInv, RunInv
<1>10. RunInv(cached', manifest', holder', r, q)
  BY <1>1, <1>5, <1>7, <1>8, <1>9 DEF RunInv, LockInv
<1>11. ASSUME NEW s \in Runs, s # r PROVE RunInv(cached', manifest', holder', s, run[s])
  BY <1>1, <1>11, OthersWait DEF SentimentInv, RunInv, LockInv
<1>12. QED
  BY <1>1, <1>4, <1>7, <1>10, <1>11, RunStep DEF SentimentInv

LEMMA CommitPreserves == ASSUME SentimentInv, NEW r \in Runs, CommitBatch(r) PROVE SentimentInv'
<1> DEFINE wrote == run[r].wrote
           q == [run[r] EXCEPT !.at = "file"]
<1>1. /\ run[r] \in RunRecord /\ run[r].at = "commit" /\ RunInv(cached, manifest, holder, r, run[r])
      /\ holder' = Free /\ manifest' = manifest
  BY DEF SentimentInv, CommitBatch
<1>2. holder = r /\ wrote \subseteq Titles /\ \A k \in wrote : cached[k] = NoRow
  BY <1>1 DEF RunInv, LockInv, BatchInv, RunRecord
<1>3. cached' = [k \in Titles |-> IF k \in wrote THEN r ELSE cached[k]]
  BY <1>2 DEF CommitBatch
<1>4. run' = [run EXCEPT ![r] = q]
  BY DEF CommitBatch, SentimentInv
<1> HIDE DEF wrote
<1>5. q \in RunRecord /\ q.at = "file" /\ q.batch = run[r].batch /\ q.wrote = wrote
  BY <1>1 DEF RunRecord, RunAt, wrote
<1> HIDE DEF q
<1>6. cached' \in [Titles -> {NoRow, "service"} \cup Runs]
  BY <1>3 DEF SentimentInv
<1>7. Own(cached', r) = Own(cached, r) \cup wrote /\ Own(cached, r) \cap wrote = {}
  BY <1>2, <1>3, NamesDiffer DEF Own
<1>8. FilesInv(cached', manifest, r, q)
  BY <1>1, <1>5, <1>7 DEF RunInv, FilesInv
<1>9. BatchInv(cached', manifest, r, q)
  <2>1. Own(cached, r) = InFiles(manifest, r)
    BY <1>1 DEF RunInv, FilesInv, BatchInv
  <2>2. q.batch > 0
    BY <1>1, <1>5 DEF RunInv, BatchInv
  <2>3. QED
    BY <1>5, <1>7, <2>1, <2>2 DEF BatchInv
<1>10. RunInv(cached', manifest', holder', r, q)
  BY <1>1, <1>5, <1>8, <1>9, NamesDiffer DEF RunInv, LockInv
<1>11. ASSUME NEW s \in Runs, s # r PROVE RunInv(cached', manifest', holder', s, run[s])
  <2>1. RunInv(cached, manifest, holder, s, run[s])
    BY DEF SentimentInv
  <2>2. Own(cached', s) = Own(cached, s)
    BY <1>2, <1>3, <1>11, NamesDiffer DEF Own
  <2>3. run[s].at # "commit" /\ (run[s].at \in {"ask", "insert"} => run[s].wrote = {})
    BY <1>2, <1>11, OthersWait
  <2>4. FilesInv(cached', manifest, s, run[s])
    BY <2>1, <2>2 DEF RunInv, FilesInv
  <2>5. BatchInv(cached', manifest, s, run[s])
    BY <2>1, <2>2, <2>3 DEF RunInv, BatchInv
  <2>6. LockInv(Free, s, run[s])
    BY <2>3, NamesDiffer DEF LockInv
  <2>7. QED
    BY <1>1, <2>4, <2>5, <2>6 DEF RunInv
<1>12. QED
  BY <1>1, <1>4, <1>5, <1>6, <1>10, <1>11, RunStep DEF SentimentInv

LEMMA ManifestPreserves == ASSUME SentimentInv, NEW r \in Runs, WriteManifest(r) PROVE SentimentInv'
<1> DEFINE n == run[r].batch
           wrote == run[r].wrote
           at == IF IsLast(run[r]) THEN "ended" ELSE "idle"
           q == [run[r] EXCEPT !.at = at]
<1>1. /\ run[r] \in RunRecord /\ run[r].at = "file" /\ RunInv(cached, manifest, holder, r, run[r])
      /\ UNCHANGED <<cached, holder>>
  BY DEF SentimentInv, WriteManifest
<1>2. n \in 1 .. MaxBatches /\ wrote \subseteq Titles
  BY <1>1, LimitsAssumption DEF RunInv, BatchInv, RunRecord
<1>3. at \in {"ended", "idle"} /\ (at = "idle" => n < MaxBatches)
  BY <1>2, LimitsAssumption DEF IsLast
<1>4. run' = [run EXCEPT ![r] = q]
  BY DEF WriteManifest, SentimentInv
<1>5. manifest' = [manifest EXCEPT ![<<r, n>>] = [state |-> "kept", keys |-> wrote]]
  BY DEF WriteManifest
<1>6. /\ InFiles(manifest, r) \cup wrote = Own(cached, r) /\ InFiles(manifest, r) \cap wrote = {}
      /\ manifest[<<r, n>>].keys = {}
  <2>1. manifest[<<r, n>>].keys = {}
    BY <1>1, <1>2 DEF RunInv, FilesInv
  <2>2. QED
    BY <1>1, <2>1 DEF RunInv, BatchInv
<1> HIDE DEF n, wrote, at
<1>7. q \in RunRecord /\ q.at = at /\ q.batch = n /\ q.wrote = wrote
  BY <1>1, <1>3 DEF RunRecord, RunAt, n, wrote
<1> HIDE DEF q
<1>8. manifest' \in [Runs \X (1 .. MaxBatches) -> FileRecord]
  <2>1. [state |-> "kept", keys |-> wrote] \in FileRecord
    BY <1>2 DEF FileRecord
  <2>2. QED
    BY <1>5, <2>1 DEF SentimentInv
<1>9. \A s \in Runs : \A b \in 1 .. MaxBatches :
        manifest'[<<s, b>>].keys = IF s = r /\ b = n THEN wrote ELSE manifest[<<s, b>>].keys
  BY <1>5 DEF SentimentInv
<1>10. InFiles(manifest', r) = InFiles(manifest, r) \cup wrote
  <2>1. ASSUME NEW k \in InFiles(manifest', r) PROVE k \in InFiles(manifest, r) \cup wrote
    BY <1>9, <2>1 DEF InFiles
  <2>2. ASSUME NEW k \in InFiles(manifest, r) PROVE k \in InFiles(manifest', r)
    <3>1. PICK b \in 1 .. MaxBatches : k \in manifest[<<r, b>>].keys
      BY DEF InFiles
    <3>2. b # n
      BY <1>6, <3>1
    <3>3. k \in manifest'[<<r, b>>].keys
      BY <1>9, <3>1, <3>2
    <3>4. QED
      BY <3>3 DEF InFiles
  <2>3. wrote \subseteq InFiles(manifest', r)
    BY <1>2, <1>9 DEF InFiles
  <2>4. QED
    BY <2>1, <2>2, <2>3
<1>11. FilesInv(cached, manifest', r, q)
  <2>1. InFiles(manifest', r) \subseteq Own(cached, r)
    BY <1>6, <1>10
  <2>2. \A b \in 1 .. MaxBatches : manifest[<<r, b>>].keys \cap wrote = {}
    BY <1>6 DEF InFiles
  <2>3. ASSUME NEW b \in 1 .. MaxBatches, NEW c \in 1 .. MaxBatches, b # c
        PROVE  manifest'[<<r, b>>].keys \cap manifest'[<<r, c>>].keys = {}
    <3>1. manifest[<<r, b>>].keys \cap manifest[<<r, c>>].keys = {}
      BY <1>1, <2>3 DEF RunInv, FilesInv
    <3>2. QED
      BY <1>9, <2>2, <2>3, <3>1
  <2>4. ASSUME NEW b \in 1 .. MaxBatches, b > n PROVE manifest'[<<r, b>>].keys = {}
    <3>1. b # n
      BY <1>2, <2>4
    <3>2. manifest[<<r, b>>].keys = {}
      BY <1>1, <2>4 DEF RunInv, FilesInv, n
    <3>3. QED
      BY <1>9, <3>1, <3>2
  <2>5. q.at \notin {"ask", "insert", "commit", "file"}
    BY <1>3, <1>7
  <2>6. QED
    BY <1>7, <2>1, <2>3, <2>4, <2>5 DEF FilesInv
<1>12. BatchInv(cached, manifest', r, q)
  BY <1>3, <1>6, <1>7, <1>10 DEF BatchInv
<1>13. LockInv(holder, r, q)
  BY <1>1, <1>3, <1>7 DEF RunInv, LockInv
<1>14. ASSUME NEW s \in Runs, s # r PROVE RunInv(cached', manifest', holder', s, run[s])
  <2>1. \A b \in 1 .. MaxBatches : manifest'[<<s, b>>].keys = manifest[<<s, b>>].keys
    BY <1>9, <1>14
  <2>2. InFiles(manifest', s) = InFiles(manifest, s)
    BY <2>1 DEF InFiles
  <2>3. RunInv(cached, manifest, holder, s, run[s])
    BY DEF SentimentInv
  <2>4. FilesInv(cached, manifest', s, run[s])
    BY <2>1, <2>2, <2>3 DEF RunInv, FilesInv
  <2>5. BatchInv(cached, manifest', s, run[s])
    BY <2>2, <2>3 DEF RunInv, BatchInv
  <2>6. QED
    BY <1>1, <2>3, <2>4, <2>5 DEF RunInv
<1>15. RunInv(cached', manifest', holder', r, q)
  BY <1>1, <1>11, <1>12, <1>13 DEF RunInv
<1>16. QED
  BY <1>1, <1>4, <1>7, <1>8, <1>14, <1>15, RunStep DEF SentimentInv

LEMMA BreakPreserves == ASSUME SentimentInv, NEW r \in Runs, BreakRunOff(r) PROVE SentimentInv'
<1> DEFINE q == [run[r] EXCEPT !.at = "broken"]
<1>1. /\ run[r] \in RunRecord /\ RunInv(cached, manifest, holder, r, run[r])
      /\ UNCHANGED <<cached, manifest>> /\ holder' = IF holder = r THEN Free ELSE holder
  BY DEF SentimentInv, BreakRunOff
<1>2. run' = [run EXCEPT ![r] = q]
  BY DEF BreakRunOff, SentimentInv
<1>3. q \in RunRecord /\ q.at = "broken" /\ q.batch = run[r].batch
  BY <1>1 DEF RunRecord, RunAt
<1> HIDE DEF q
<1>4. holder' # r
  BY <1>1, NamesDiffer
<1>5. RunInv(cached', manifest', holder', r, q)
  BY <1>1, <1>3, <1>4 DEF RunInv, FilesInv, BatchInv, LockInv
<1>6. ASSUME NEW s \in Runs, s # r PROVE RunInv(cached', manifest', holder', s, run[s])
  <2>1. RunInv(cached, manifest, holder, s, run[s])
    BY DEF SentimentInv
  <2>2. holder' = s <=> holder = s
    BY <1>1, <1>6, NamesDiffer
  <2>3. QED
    BY <1>1, <2>1, <2>2 DEF RunInv, LockInv
<1>7. QED
  BY <1>1, <1>2, <1>3, <1>5, <1>6, RunStep DEF SentimentInv

\* An operator takes back what a file lists, and that is nobody else's.
LEMMA RollBackPreserves ==
  ASSUME SentimentInv, NEW f \in DOMAIN manifest, RollBack(f)
  PROVE  SentimentInv'
<1>1. PICK r \in Runs, n \in 1 .. MaxBatches : f = <<r, n>>
  BY DEF SentimentInv
<1> DEFINE keys == manifest[<<r, n>>].keys
<1>2. /\ holder = Free /\ run[r].at \in {"idle", "ended", "broken"}
      /\ cached' = [k \in Titles |-> IF k \in keys THEN NoRow ELSE cached[k]]
      /\ manifest' = [manifest EXCEPT ![<<r, n>>] = [state |-> "used", keys |-> {}]]
      /\ UNCHANGED <<holder, run>>
  BY <1>1 DEF RollBack
<1>3. RunInv(cached, manifest, holder, r, run[r])
  BY DEF SentimentInv
<1>4. keys \subseteq Own(cached, r)
  BY <1>3 DEF RunInv, FilesInv, InFiles
<1> HIDE DEF keys
<1>5. cached' \in [Titles -> {NoRow, "service"} \cup Runs]
  BY <1>2 DEF SentimentInv
<1>6. manifest' \in [Runs \X (1 .. MaxBatches) -> FileRecord]
  <2>1. [state |-> "used", keys |-> {}] \in FileRecord
    BY DEF FileRecord
  <2>2. QED
    BY <1>2, <2>1 DEF SentimentInv
<1>7. \A s \in Runs : \A b \in 1 .. MaxBatches :
        manifest'[<<s, b>>].keys = IF s = r /\ b = n THEN {} ELSE manifest[<<s, b>>].keys
  BY <1>2 DEF SentimentInv
<1>8. Own(cached', r) = Own(cached, r) \ keys
  BY <1>2, NamesDiffer DEF Own
<1>9. InFiles(manifest', r) = InFiles(manifest, r) \ keys
  <2>1. ASSUME NEW k \in InFiles(manifest', r) PROVE k \in InFiles(manifest, r) /\ k \notin keys
    <3>1. PICK b \in 1 .. MaxBatches : k \in manifest'[<<r, b>>].keys
      BY DEF InFiles
    <3>2. b # n /\ k \in manifest[<<r, b>>].keys
      BY <1>7, <3>1
    <3>3. manifest[<<r, b>>].keys \cap keys = {}
      BY <1>3, <3>2 DEF RunInv, FilesInv, keys
    <3>4. QED
      BY <3>2, <3>3 DEF InFiles
  <2>2. ASSUME NEW k \in InFiles(manifest, r), k \notin keys PROVE k \in InFiles(manifest', r)
    <3>1. PICK b \in 1 .. MaxBatches : k \in manifest[<<r, b>>].keys
      BY DEF InFiles
    <3>2. b # n
      BY <2>2, <3>1 DEF keys
    <3>3. k \in manifest'[<<r, b>>].keys
      BY <1>7, <3>1, <3>2
    <3>4. QED
      BY <3>3 DEF InFiles
  <2>3. QED
    BY <2>1, <2>2
<1>10. RunInv(cached', manifest', holder', r, run[r])
  <2>1. FilesInv(cached', manifest', r, run[r])
    <3>1. InFiles(manifest', r) \subseteq Own(cached', r)
      BY <1>3, <1>8, <1>9 DEF RunInv, FilesInv
    <3>2. \A b \in 1 .. MaxBatches : manifest'[<<r, b>>].keys \subseteq manifest[<<r, b>>].keys
      BY <1>7
    <3>3. QED
      BY <1>3, <3>1, <3>2 DEF RunInv, FilesInv
  <2>2. BatchInv(cached', manifest', r, run[r])
    BY <1>2, <1>3, <1>8, <1>9 DEF RunInv, BatchInv
  <2>3. QED
    BY <1>2, <1>3, <2>1, <2>2 DEF RunInv
<1>11. ASSUME NEW s \in Runs, s # r PROVE RunInv(cached', manifest', holder', s, run[s])
  <2>1. \A b \in 1 .. MaxBatches : manifest'[<<s, b>>].keys = manifest[<<s, b>>].keys
    BY <1>7, <1>11
  <2>2. InFiles(manifest', s) = InFiles(manifest, s)
    BY <2>1 DEF InFiles
  <2>3. RunInv(cached, manifest, holder, s, run[s])
    BY DEF SentimentInv
  <2>4. Own(cached', s) = Own(cached, s)
    BY <1>2, <1>4, <1>11, NamesDiffer DEF Own
  <2>5. run[s].at # "commit" /\ (run[s].at \in {"ask", "insert"} => run[s].wrote = {})
    BY <1>2, <2>3, NamesDiffer DEF RunInv, LockInv
  <2>6. FilesInv(cached', manifest', s, run[s])
    BY <2>1, <2>2, <2>3, <2>4 DEF RunInv, FilesInv
  <2>7. BatchInv(cached', manifest', s, run[s])
    BY <2>2, <2>3, <2>4, <2>5 DEF RunInv, BatchInv
  <2>8. QED
    BY <1>2, <2>3, <2>6, <2>7 DEF RunInv
<1>12. \A s \in Runs : RunInv(cached', manifest', holder', s, run'[s])
  BY <1>2, <1>10, <1>11
<1>13. QED
  BY <1>2, <1>5, <1>6, <1>12 DEF SentimentInv

\* The service inserts a row only where there is none and the database is free.
LEMMA SavePreserves ==
  ASSUME SentimentInv, UNCHANGED <<holder, manifest, run>>,
         NEW key, holder = Free, cached[key] = NoRow, cached' = [cached EXCEPT ![key] = "service"]
  PROVE  SentimentInv'
<1>1. cached' \in [Titles -> {NoRow, "service"} \cup Runs]
  BY DEF SentimentInv
<1>2. ASSUME NEW s \in Runs PROVE RunInv(cached', manifest', holder', s, run'[s])
  <2>1. RunInv(cached, manifest, holder, s, run[s])
    BY DEF SentimentInv
  <2>2. Own(cached', s) = Own(cached, s)
    BY NamesDiffer DEF Own, SentimentInv
  <2>3. run[s].at # "commit" /\ (run[s].at \in {"ask", "insert"} => run[s].wrote = {})
    BY <2>1, NamesDiffer DEF RunInv, LockInv
  <2>4. FilesInv(cached', manifest, s, run[s])
    BY <2>1, <2>2 DEF RunInv, FilesInv
  <2>5. BatchInv(cached', manifest, s, run[s])
    BY <2>1, <2>2, <2>3 DEF RunInv, BatchInv
  <2>6. QED
    BY <2>1, <2>4, <2>5 DEF RunInv
<1>3. QED
  BY <1>1, <1>2 DEF SentimentInv

LEMMA SentimentInvNext == SentimentInv /\ [SentimentNext]_SentimentVars => SentimentInv'
<1> SUFFICES ASSUME SentimentInv, [SentimentNext]_SentimentVars PROVE SentimentInv'
  OBVIOUS
<1>1. CASE UNCHANGED <<cached, holder, manifest, run>>
  BY <1>1 DEF SentimentInv
<1>2. CASE UNCHANGED SentimentVars
  BY <1>1, <1>2 DEF SentimentVars
<1>3. ASSUME NEW t \in Threads, SaveRow(t) PROVE SentimentInv'
  <2>1. PICK key : key = analysis[t].key
    OBVIOUS
  <2>2. CASE cached' = cached
    BY <1>1, <1>3, <2>2 DEF SaveRow
  <2>3. CASE cached' # cached
    <3>1. /\ UNCHANGED <<holder, manifest, run>> /\ holder = Free /\ cached[key] = NoRow
          /\ cached' = [cached EXCEPT ![key] = "service"]
      BY <1>3, <2>1, <2>3 DEF SaveRow
    <3>2. QED
      BY <3>1, SavePreserves
  <2>4. QED
    BY <2>2, <2>3
<1>4. ASSUME NEW t \in Threads, Analyse(t) \/ LookStored(t) \/ AskModel(t) \/ LookRow(t)
      PROVE  SentimentInv'
  BY <1>1, <1>4 DEF Analyse, LookStored, AskModel, LookRow
<1>5. QED
  BY <1>2, <1>3, <1>4, StartPreserves, AskPreserves, InsertPreserves, CommitPreserves,
     ManifestPreserves, BreakPreserves, RollBackPreserves DEF SentimentNext

(* However runs of the tool, threads of the service and rollbacks follow   *)
(* each other: a manifest names rows of its own run and of no one else,    *)
(* and a run that was not broken off has named all of them.                *)
THEOREM ManifestsNameTheirRows == SentimentSpec => []ManifestsAreTrue
<1>1. SentimentInv => ManifestsAreTrue
  <2> SUFFICES ASSUME SentimentInv, NEW r \in Runs
               PROVE  /\ Listed(r) \subseteq InsertedBy(r)
                      /\ run[r].at \in {"idle", "ended"} => InsertedBy(r) \subseteq Listed(r)
    BY DEF ManifestsAreTrue
  <2>1. InsertedBy(r) = Own(cached, r) /\ Listed(r) = InFiles(manifest, r)
    BY DEF InsertedBy, Listed, Own, InFiles
  <2>2. RunInv(cached, manifest, holder, r, run[r])
    BY DEF SentimentInv
  <2>3. QED
    BY <2>1, <2>2 DEF RunInv, FilesInv, BatchInv
<1>2. QED
  BY <1>1, SentimentInvInit, SentimentInvNext, PTL DEF SentimentSpec

-----------------------------------------------------------------------------
(***************************************************************************)
(* KronosTraining: checkpoints and the published model, for any number of  *)
(* launches, of steps and of losses.                                       *)
(***************************************************************************)
Places == {"idle", "train", "look", "make", "model", "manifest", "rename", "publish",
           "copy", "skipped", "completed", "failed"}
AnyLoss == Losses \cup {0, Infinite}
SomeModel == [by : Launches \cup {"none"}, step : 0 .. MaxSteps, loss : AnyLoss, bestLoss : AnyLoss]
SomeDir == [there : BOOLEAN, model : SomeModel, manifest : SomeModel]
SomeLaunch ==
  [at : Places, from : 0 .. MaxSteps, step : 0 .. MaxSteps, loss : AnyLoss, bestLoss : AnyLoss,
   chosenLoss : AnyLoss, bestStep : 0 .. MaxSteps, lastSaved : 0 .. MaxSteps, over : BOOLEAN]

Types ==
  /\ kind \in {"smoke", "real"}
  /\ tmp \in [StepNumbers -> SomeDir] /\ saved \in [StepNumbers -> SomeDir]
  /\ launch \in [Launches -> SomeLaunch]

\* The launch whose directory tmp[s] is.
Owns(l, s) == launch[l].at \in {"model", "manifest", "rename"} /\ launch[l].step = s

\* Only its owner fills a temporary directory, and it is as full as the
\* owner has come.
Filled(l, d) ==
  /\ d.there
  /\ launch[l].at = "model" => d.model = NoModel
  /\ launch[l].at \in {"manifest", "rename"} => d.model = TheModel(l)
  /\ launch[l].at \in {"model", "manifest"} => d.manifest = NoModel
  /\ launch[l].at = "rename" => d.manifest = TheModel(l)

Stepped(l) ==
  /\ launch[l].from <= launch[l].step
  /\ launch[l].at \in {"look", "make", "model", "manifest", "rename"} => launch[l].step \in StepNumbers

OneOwner == \A l, m \in Launches : \A s \in StepNumbers : Owns(l, s) /\ Owns(m, s) => l = m
OwnersFill == \A l \in Launches : \A s \in StepNumbers : Owns(l, s) => Filled(l, tmp[s])
OneRealLaunch ==
  kind = "real" => \A l, m \in Launches : Live(l) /\ Live(m) => l = m
RealHasRoom ==
  kind = "real" => \A l \in Launches : launch[l].at = "make" => ~tmp[launch[l].step].there
AbsentIsEmpty == \A s \in StepNumbers : ~tmp[s].there => tmp[s] = NoDir

TrainingInv ==
  /\ Types /\ OneOwner /\ OwnersFill /\ OneRealLaunch /\ RealHasRoom /\ AbsentIsEmpty
  /\ \A l \in Launches : Stepped(l)
  /\ CheckpointsAreWhole

-----------------------------------------------------------------------------
LEMMA EmptyTypes ==
  NoModel \in SomeModel /\ NoDir \in SomeDir /\ EmptyDir \in SomeDir /\ NewLaunch \in SomeLaunch
<1>1. 0 \in 0 .. MaxSteps
  BY TrainingAssumption
<1>2. NoModel \in SomeModel
  BY <1>1 DEF NoModel, SomeModel, AnyLoss
<1>3. NoDir \in SomeDir
  BY <1>2 DEF NoDir, SomeDir
<1>4. EmptyDir \in SomeDir
  BY <1>3 DEF EmptyDir, SomeDir
<1>5. NewLaunch \in SomeLaunch
  BY <1>1 DEF NewLaunch, SomeLaunch, AnyLoss, Places
<1> QED
  BY <1>2, <1>3, <1>4, <1>5

LEMMA InitHolds == TrainingInit => TrainingInv
<1> SUFFICES ASSUME TrainingInit PROVE TrainingInv
  OBVIOUS
<1>1. Types
  BY EmptyTypes DEF TrainingInit, Types
<1>2. \A l \in Launches : launch[l].at = "idle" /\ launch[l].from = 0 /\ launch[l].step = 0
  BY DEF TrainingInit, NewLaunch
<1>3. \A s \in StepNumbers : tmp[s] = NoDir /\ ~saved[s].there
  BY DEF TrainingInit, NoDir
<1>4. OneOwner /\ OwnersFill /\ OneRealLaunch /\ RealHasRoom /\ \A l \in Launches : Stepped(l)
  BY <1>2 DEF OneOwner, OwnersFill, OneRealLaunch, RealHasRoom, Stepped, Owns, Live
<1>5. AbsentIsEmpty /\ CheckpointsAreWhole
  BY <1>3 DEF AbsentIsEmpty, CheckpointsAreWhole
<1> QED
  BY <1>1, <1>4, <1>5 DEF TrainingInv

\* A launch moves, and owns no temporary directory afterwards.
LEMMA MoveKeepsInv ==
  ASSUME TrainingInv, UNCHANGED <<kind, tmp, saved>>,
         NEW l \in Launches, NEW q \in SomeLaunch, Now(l, q),
         q.at \notin {"model", "manifest", "rename"},
         q.at = "make" => ~tmp[q.step].there,
         q.from <= q.step,
         q.at \in {"look", "make"} => q.step \in StepNumbers,
         kind = "real" /\ q.at \notin {"idle", "skipped", "completed", "failed"} =>
           \A m \in Launches \ {l} : ~Live(m)
  PROVE  TrainingInv'
<1>1. /\ launch[l] \in SomeLaunch /\ launch'[l] = q
      /\ \A m \in Launches \ {l} : launch'[m] = launch[m]
  BY DEF Now, TrainingInv, Types
<1>2. Types'
  BY DEF TrainingInv, Types, Now
<1>3. OneOwner'
  BY <1>1 DEF TrainingInv, OneOwner, Owns
<1>4. OwnersFill'
  <2> SUFFICES ASSUME NEW m \in Launches, NEW s \in StepNumbers, Owns(m, s)' PROVE Filled(m, tmp[s])'
    BY DEF OwnersFill
  <2>1. m # l /\ Owns(m, s)
    BY <1>1 DEF Owns
  <2> QED
    BY <2>1, <1>1 DEF TrainingInv, OwnersFill, Filled, TheModel
<1>5. OneRealLaunch'
  BY <1>1 DEF TrainingInv, OneRealLaunch, Live
<1>6. RealHasRoom'
  BY <1>1 DEF TrainingInv, RealHasRoom
<1>7. AbsentIsEmpty' /\ CheckpointsAreWhole'
  BY DEF TrainingInv, AbsentIsEmpty, CheckpointsAreWhole
<1>8. (\A m \in Launches : Stepped(m))'
  BY <1>1 DEF TrainingInv, Stepped
<1> QED
  BY <1>2, <1>3, <1>4, <1>5, <1>6, <1>7, <1>8 DEF TrainingInv

LEMMA GoesToIsNow ==
  ASSUME Types, NEW l \in Launches, NEW place \in Places, GoesTo(l, place)
  PROVE  /\ Now(l, [launch[l] EXCEPT !.at = place])
         /\ [launch[l] EXCEPT !.at = place] \in SomeLaunch
BY DEF Types, GoesTo, Now, SomeLaunch

\* A launch that goes to an end, or on to a place where it owns nothing.
LEMMA GoingKeepsInv ==
  ASSUME TrainingInv, UNCHANGED <<kind, tmp, saved>>, NEW l \in Launches,
         NEW place \in Places, GoesTo(l, place),
         \/ place \in {"skipped", "completed", "failed"}
         \/ place \in {"publish", "copy"} /\ Live(l)
  PROVE  TrainingInv'
<1> DEFINE q == [launch[l] EXCEPT !.at = place]
<1>1. q \in SomeLaunch /\ Now(l, q)
  BY GoesToIsNow DEF TrainingInv
<1>2. q.at = place /\ q.from = launch[l].from /\ q.step = launch[l].step
  BY DEF TrainingInv, Types, SomeLaunch
<1>3. q.from <= q.step
  BY <1>2 DEF TrainingInv, Stepped
<1>4. kind = "real" /\ q.at \notin {"idle", "skipped", "completed", "failed"} =>
        \A m \in Launches \ {l} : ~Live(m)
  BY <1>2 DEF TrainingInv, OneRealLaunch
<1> HIDE DEF q
<1> QED
  BY <1>1, <1>2, <1>3, <1>4, MoveKeepsInv

-----------------------------------------------------------------------------
(* The loop.                                                               *)

LEMMA StartLaunchKeepsInv ==
  ASSUME TrainingInv, NEW l \in Launches, StartLaunch(l)
  PROVE  TrainingInv'
<1>1. UNCHANGED <<kind, tmp, saved>> /\ (kind = "real" => \A m \in Launches : ~Live(m))
  BY DEF StartLaunch
<1>2. CASE Now(l, [NewLaunch EXCEPT !.at = "train"])
  <2> DEFINE q == [NewLaunch EXCEPT !.at = "train"]
  <2>1. q \in SomeLaunch
    BY EmptyTypes DEF SomeLaunch, Places
  <2>2. q.at = "train" /\ q.from <= q.step
    BY DEF NewLaunch
  <2> HIDE DEF q
  <2>3. Now(l, q)
    BY <1>2 DEF q
  <2> QED
    BY <1>1, <2>1, <2>2, <2>3, MoveKeepsInv
<1>3. ASSUME NEW s \in StepNumbers,
             Now(l, [NewLaunch EXCEPT !.at = "train", !.from = saved[s].model.step,
                                      !.step = saved[s].model.step,
                                      !.bestLoss = saved[s].model.bestLoss])
      PROVE  TrainingInv'
  <2> DEFINE q1 == [NewLaunch EXCEPT !.at = "train"]
             q2 == [q1 EXCEPT !.from = saved[s].model.step]
             q3 == [q2 EXCEPT !.step = saved[s].model.step]
             q == [q3 EXCEPT !.bestLoss = saved[s].model.bestLoss]
  <2>1. saved[s].model.step \in 0 .. MaxSteps /\ saved[s].model.bestLoss \in AnyLoss
    BY DEF TrainingInv, Types, SomeDir, SomeModel
  <2>2. q1 \in SomeLaunch /\ q1.at = "train"
    BY EmptyTypes DEF SomeLaunch, Places
  <2>3. Now(l, q)
    BY <1>3
  <2> HIDE DEF q1
  <2>4. q2 \in SomeLaunch /\ q2.at = "train" /\ q2.from = saved[s].model.step
    BY <2>1, <2>2 DEF SomeLaunch
  <2> HIDE DEF q2
  <2>5. /\ q3 \in SomeLaunch /\ q3.at = "train"
        /\ q3.from = saved[s].model.step /\ q3.step = saved[s].model.step
    BY <2>1, <2>4 DEF SomeLaunch
  <2> HIDE DEF q3
  <2>6. q \in SomeLaunch /\ q.at = "train" /\ q.from <= q.step
    BY <2>1, <2>5 DEF SomeLaunch
  <2> HIDE DEF q
  <2> QED
    BY <1>1, <2>3, <2>6, MoveKeepsInv
<1> QED
  BY <1>2, <1>3 DEF StartLaunch

LEMMA TrainStepKeepsInv ==
  ASSUME TrainingInv, NEW l \in Launches, TrainStep(l)
  PROVE  TrainingInv'
<1> DEFINE p == launch[l]
<1>1. PICK x \in Losses :
        Now(l, [p EXCEPT !.step = p.step + 1, !.loss = x,
                         !.bestLoss = IF kind = "real" THEN Lower(x, p.bestLoss) ELSE p.bestLoss,
                         !.at = IF Checkpoints(p.step + 1) THEN "look" ELSE "train"])
  BY DEF TrainStep
<1> DEFINE q1 == [p EXCEPT !.step = p.step + 1]
           q2 == [q1 EXCEPT !.loss = x]
           q3 == [q2 EXCEPT !.bestLoss = IF kind = "real" THEN Lower(x, p.bestLoss) ELSE p.bestLoss]
           q == [q3 EXCEPT !.at = IF Checkpoints(p.step + 1) THEN "look" ELSE "train"]
<1>2. p \in SomeLaunch /\ p.from <= p.step /\ p.step < MaxSteps /\ p.at = "train"
  BY DEF TrainingInv, Types, Stepped, TrainStep
<1>3. p.step + 1 \in 0 .. MaxSteps /\ p.step + 1 \in StepNumbers /\ p.from <= p.step + 1
  <2>1. p.step \in 0 .. MaxSteps /\ p.from \in 0 .. MaxSteps
    BY <1>2 DEF SomeLaunch
  <2> QED
    BY <1>2, <2>1, TrainingAssumption DEF StepNumbers
<1>4. Now(l, q)
  BY <1>1
<1>5. q1 \in SomeLaunch /\ q1.step = p.step + 1 /\ q1.from = p.from /\ p.bestLoss \in AnyLoss
  BY <1>2, <1>3 DEF SomeLaunch
<1> HIDE DEF q1
<1>6. q2 \in SomeLaunch /\ q2.step = p.step + 1 /\ q2.from = p.from
  BY <1>5 DEF SomeLaunch, AnyLoss
<1> HIDE DEF q2
<1>7. (IF kind = "real" THEN Lower(x, p.bestLoss) ELSE p.bestLoss) \in AnyLoss
  BY <1>5 DEF Lower, AnyLoss
<1>8. q3 \in SomeLaunch /\ q3.step = p.step + 1 /\ q3.from = p.from
  BY <1>6, <1>7 DEF SomeLaunch
<1> HIDE DEF q3
<1>9. q \in SomeLaunch /\ q.at \in {"look", "train"} /\ q.step = p.step + 1 /\ q.from = p.from
  BY <1>8 DEF SomeLaunch, Places
<1>10. kind = "real" => \A m \in Launches \ {l} : ~Live(m)
  BY <1>2 DEF TrainingInv, OneRealLaunch, Live
<1>11. UNCHANGED <<kind, tmp, saved>>
  BY DEF TrainStep
<1> HIDE DEF q
<1> QED
  BY <1>3, <1>4, <1>9, <1>10, <1>11, MoveKeepsInv

LEMMA EndEpochsKeepsInv ==
  ASSUME TrainingInv, NEW l \in Launches, EndEpochs(l)
  PROVE  TrainingInv'
<1> DEFINE p == launch[l]
           at_ == IF p.lastSaved = p.step THEN "publish" ELSE "look"
           q == [[p EXCEPT !.over = TRUE] EXCEPT !.at = at_]
<1>1. p \in SomeLaunch /\ p.from <= p.step /\ p.step # p.from /\ p.at = "train" /\ kind = "smoke"
  BY DEF TrainingInv, Types, Stepped, EndEpochs
<1>2. p.step \in StepNumbers
  <2>1. p.step \in 0 .. MaxSteps /\ p.from \in 0 .. MaxSteps
    BY <1>1 DEF SomeLaunch
  <2> QED
    BY <1>1, <2>1, TrainingAssumption DEF StepNumbers
<1>3. q \in SomeLaunch /\ q.at \in {"publish", "look"} /\ q.from = p.from /\ q.step = p.step
  BY <1>1 DEF SomeLaunch, Places
<1>4. Now(l, q) /\ UNCHANGED <<kind, tmp, saved>>
  BY <1>1 DEF EndEpochs, Now, SomeLaunch
<1> HIDE DEF q
<1> QED
  BY <1>1, <1>2, <1>3, <1>4, MoveKeepsInv

-----------------------------------------------------------------------------
(* Saving a checkpoint.                                                    *)

LEMMA LookForRoomKeepsInv ==
  ASSUME TrainingInv, NEW l \in Launches, LookForRoom(l)
  PROVE  TrainingInv'
<1> DEFINE s == launch[l].step
           q == [launch[l] EXCEPT !.at = "make"]
<1>1. launch[l].at = "look" /\ Live(l) /\ UNCHANGED <<kind, tmp, saved>>
  BY DEF LookForRoom, Live
<1>2. CASE saved[s].there \/ tmp[s].there
  <2>1. GoesTo(l, "failed") /\ "failed" \in Places
    BY <1>2 DEF LookForRoom, Places
  <2> QED
    BY <1>1, <2>1, GoingKeepsInv
<1>3. CASE ~(saved[s].there \/ tmp[s].there)
  <2>1. GoesTo(l, "make") /\ "make" \in Places
    BY <1>3 DEF LookForRoom, Places
  <2>2. q \in SomeLaunch /\ Now(l, q)
    BY <2>1, GoesToIsNow DEF TrainingInv
  <2>3. q.at = "make" /\ q.step = s /\ q.from <= q.step /\ q.step \in StepNumbers
    BY <1>1 DEF TrainingInv, Types, SomeLaunch, Stepped
  <2>4. kind = "real" => \A m \in Launches \ {l} : ~Live(m)
    BY <1>1 DEF TrainingInv, OneRealLaunch
  <2>5. ~tmp[q.step].there
    BY <1>3, <2>3
  <2> HIDE DEF q
  <2> QED
    BY <1>1, <2>2, <2>3, <2>4, <2>5, MoveKeepsInv
<1> QED
  BY <1>2, <1>3

\* An owner, or a launch that becomes one, fills its directory with d.
LEMMA OwnerKeepsInv ==
  ASSUME TrainingInv, UNCHANGED <<kind, saved>>, NEW l \in Launches, Live(l),
         NEW s \in StepNumbers, s = launch[l].step,
         NEW place \in {"model", "manifest", "rename"}, GoesTo(l, place),
         NEW d \in SomeDir, d.there, tmp' = [tmp EXCEPT ![s] = d],
         \A m \in Launches \ {l} : ~Owns(m, s),
         place = "model" => d.model = NoModel,
         place \in {"manifest", "rename"} => d.model = TheModel(l),
         place \in {"model", "manifest"} => d.manifest = NoModel,
         place = "rename" => d.manifest = TheModel(l)
  PROVE  TrainingInv'
<1> DEFINE q == [launch[l] EXCEPT !.at = place]
<1>1. /\ launch' = [launch EXCEPT ![l] = q] /\ q \in SomeLaunch /\ launch[l] \in SomeLaunch
      /\ launch \in [Launches -> SomeLaunch] /\ tmp \in [StepNumbers -> SomeDir]
  BY GoesToIsNow DEF TrainingInv, Types, Places, Now
<1>2. /\ q.at = place /\ q.step = s /\ q.from = launch[l].from
      /\ q.loss = launch[l].loss /\ q.bestLoss = launch[l].bestLoss
  BY <1>1 DEF SomeLaunch
<1> HIDE DEF q
<1>3. launch'[l] = q /\ \A m \in Launches \ {l} : launch'[m] = launch[m]
  BY <1>1
<1>4. tmp'[s] = d /\ \A t \in StepNumbers \ {s} : tmp'[t] = tmp[t]
  BY <1>1
<1>5. Types'
  BY <1>1 DEF TrainingInv, Types
<1>6. OneOwner'
  BY <1>2, <1>3 DEF TrainingInv, OneOwner, Owns
<1>7. OwnersFill'
  <2> SUFFICES ASSUME NEW m \in Launches, NEW t \in StepNumbers, Owns(m, t)' PROVE Filled(m, tmp[t])'
    BY DEF OwnersFill
  <2>1. CASE m = l
    <3>1. t = s /\ TheModel(m)' = TheModel(l)
      BY <2>1, <1>2, <1>3 DEF Owns, TheModel
    <3> QED
      BY <3>1, <2>1, <1>2, <1>3, <1>4 DEF Filled
  <2>2. CASE m # l
    <3>1. launch'[m] = launch[m] /\ Owns(m, t) /\ t # s
      BY <2>2, <1>3 DEF Owns
    <3>2. Filled(m, tmp[t]) /\ tmp'[t] = tmp[t]
      BY <3>1, <1>4 DEF TrainingInv, OwnersFill
    <3> QED
      BY <3>1, <3>2 DEF Filled, TheModel
  <2> QED
    BY <2>1, <2>2
<1>8. OneRealLaunch'
  BY <1>3 DEF TrainingInv, OneRealLaunch, Live
<1>9. RealHasRoom'
  BY <1>2, <1>3 DEF TrainingInv, RealHasRoom, OneRealLaunch, Live
<1>10. AbsentIsEmpty'
  BY <1>4 DEF TrainingInv, AbsentIsEmpty
<1>11. (\A m \in Launches : Stepped(m))'
  BY <1>2, <1>3 DEF TrainingInv, Stepped
<1>12. CheckpointsAreWhole'
  BY DEF TrainingInv, CheckpointsAreWhole
<1> QED
  BY <1>5, <1>6, <1>7, <1>8, <1>9, <1>10, <1>11, <1>12 DEF TrainingInv

LEMMA TheModelTypes ==
  ASSUME Types, NEW l \in Launches
  PROVE  TheModel(l) \in SomeModel
<1>1. launch[l] \in SomeLaunch
  BY DEF Types
<1>2. launch[l].step \in 0 .. MaxSteps /\ launch[l].loss \in AnyLoss /\ launch[l].bestLoss \in AnyLoss
  BY <1>1 DEF SomeLaunch
<1> QED
  BY <1>2 DEF TheModel, SomeModel, Lower

LEMMA MakeTmpKeepsInv ==
  ASSUME TrainingInv, NEW l \in Launches, MakeTmp(l)
  PROVE  TrainingInv'
<1> DEFINE s == launch[l].step
<1>1. launch[l].at = "make" /\ Live(l) /\ UNCHANGED <<kind, saved>>
  BY DEF MakeTmp, Live
<1>2. CASE TakesDirectory(s)
  <2>1. s \in StepNumbers
    BY <1>1 DEF TrainingInv, Stepped
  <2>2. ~tmp[s].there
    BY <1>1, <1>2 DEF TrainingInv, RealHasRoom, TakesDirectory
  <2>3. tmp[s] = NoDir /\ tmp \in [StepNumbers -> SomeDir]
    BY <2>1, <2>2 DEF TrainingInv, AbsentIsEmpty, Types
  <2>4. tmp' = [tmp EXCEPT ![s] = EmptyDir] /\ GoesTo(l, "model")
    <3>1. tmp' = [tmp EXCEPT ![s] = [tmp[s] EXCEPT !.there = TRUE]] /\ GoesTo(l, "model")
      BY <1>2 DEF MakeTmp
    <3> QED
      BY <3>1, <2>3 DEF EmptyDir
  <2>5. \A m \in Launches : ~Owns(m, s)
    <3> SUFFICES ASSUME NEW m \in Launches, Owns(m, s) PROVE tmp[s].there
      BY <2>2
    <3>1. Filled(m, tmp[s])
      BY <2>1 DEF TrainingInv, OwnersFill
    <3>2. launch[m].at \in {"model", "manifest", "rename"}
      BY DEF Owns
    <3> HIDE DEF s
    <3> QED
      BY <3>1, <3>2 DEF Filled
  <2>6. EmptyDir \in SomeDir /\ EmptyDir.there /\ EmptyDir.model = NoModel /\ EmptyDir.manifest = NoModel
    BY EmptyTypes DEF EmptyDir, NoDir
  <2> HIDE DEF s
  <2> QED
    BY <1>1, <2>1, <2>4, <2>5, <2>6, OwnerKeepsInv DEF s
<1>3. CASE ~TakesDirectory(s)
  <2>1. GoesTo(l, "failed") /\ UNCHANGED tmp /\ "failed" \in Places
    BY <1>3 DEF MakeTmp, Places
  <2> QED
    BY <1>1, <2>1, GoingKeepsInv
<1> QED
  BY <1>2, <1>3

LEMMA SaveModelKeepsInv ==
  ASSUME TrainingInv, NEW l \in Launches, SaveModel(l)
  PROVE  TrainingInv'
<1> DEFINE s == launch[l].step
           d == [tmp[s] EXCEPT !.model = TheModel(l)]
<1>1. launch[l].at = "model" /\ Live(l) /\ UNCHANGED <<kind, saved>> /\ s \in StepNumbers
  BY DEF SaveModel, Live, TrainingInv, Stepped
<1>2. Filled(l, tmp[s]) /\ \A m \in Launches \ {l} : ~Owns(m, s)
  BY <1>1 DEF TrainingInv, OwnersFill, OneOwner, Owns
<1>3. tmp[s] \in SomeDir /\ tmp[s].there /\ tmp[s].manifest = NoModel
  BY <1>1, <1>2 DEF TrainingInv, Types, Filled
<1>4. GoesTo(l, "manifest") /\ tmp' = [tmp EXCEPT ![s] = d]
  BY <1>3 DEF SaveModel
<1>5. TheModel(l) \in SomeModel
  BY TheModelTypes DEF TrainingInv
<1> HIDE DEF s
<1>6. d \in SomeDir /\ d.there /\ d.model = TheModel(l) /\ d.manifest = NoModel
  BY <1>3, <1>5 DEF SomeDir
<1> HIDE DEF d
<1> QED
  BY <1>1, <1>2, <1>4, <1>6, OwnerKeepsInv DEF s

LEMMA SaveManifestKeepsInv ==
  ASSUME TrainingInv, NEW l \in Launches, SaveManifest(l)
  PROVE  TrainingInv'
<1> DEFINE s == launch[l].step
           d == [tmp[s] EXCEPT !.manifest = TheModel(l)]
<1>1. launch[l].at = "manifest" /\ Live(l) /\ UNCHANGED <<kind, saved>> /\ s \in StepNumbers
  BY DEF SaveManifest, Live, TrainingInv, Stepped
<1>2. Filled(l, tmp[s]) /\ \A m \in Launches \ {l} : ~Owns(m, s)
  BY <1>1 DEF TrainingInv, OwnersFill, OneOwner, Owns
<1>3. tmp[s] \in SomeDir /\ tmp[s].there /\ tmp[s].model = TheModel(l)
  BY <1>1, <1>2 DEF TrainingInv, Types, Filled
<1>4. GoesTo(l, "rename") /\ tmp' = [tmp EXCEPT ![s] = d]
  BY <1>3 DEF SaveManifest
<1>5. TheModel(l) \in SomeModel
  BY TheModelTypes DEF TrainingInv
<1> HIDE DEF s
<1>6. d \in SomeDir /\ d.there /\ d.model = TheModel(l) /\ d.manifest = TheModel(l)
  BY <1>3, <1>5 DEF SomeDir
<1> HIDE DEF d
<1> QED
  BY <1>1, <1>2, <1>4, <1>6, OwnerKeepsInv DEF s

\* The directory that is renamed is full, and the launch owns none after.
LEMMA RenameTmpKeepsInv ==
  ASSUME TrainingInv, NEW l \in Launches, RenameTmp(l)
  PROVE  TrainingInv'
<1> DEFINE p == launch[l]
           s == launch[l].step
           at_ == IF p.over THEN "publish" ELSE "train"
           q1 == [p EXCEPT !.at = at_]
           q2 == [q1 EXCEPT !.lastSaved = s]
           q3 == [q2 EXCEPT !.bestLoss = Lower(p.loss, p.bestLoss)]
           q4 == [q3 EXCEPT !.bestStep = s]
           q5 == [q4 EXCEPT !.chosenLoss = p.loss]
<1>1. p.at = "rename" /\ Live(l) /\ UNCHANGED kind /\ s \in StepNumbers
  BY DEF RenameTmp, Live, TrainingInv, Stepped
<1>2. tmp[s].there /\ tmp[s].model = TheModel(l) /\ tmp[s].manifest = TheModel(l)
  BY <1>1 DEF TrainingInv, OwnersFill, Filled, Owns
<1>3. CASE saved[s].there
  <2>1. GoesTo(l, "failed") /\ UNCHANGED <<tmp, saved>> /\ "failed" \in Places
    BY <1>3 DEF RenameTmp, Places
  <2> QED
    BY <1>1, <2>1, GoingKeepsInv
<1>4. CASE ~saved[s].there
  <2>1. saved' = [saved EXCEPT ![s] = tmp[s]] /\ tmp' = [tmp EXCEPT ![s] = NoDir]
    BY <1>2, <1>4 DEF RenameTmp
  <2>2. Now(l, IF IsBest(p) THEN q5 ELSE q3)
    BY <1>2, <1>4 DEF RenameTmp
  <2>3. p \in SomeLaunch /\ s \in 0 .. MaxSteps /\ p.loss \in AnyLoss /\ p.bestLoss \in AnyLoss
    BY DEF TrainingInv, Types, SomeLaunch
  <2>4. q1 \in SomeLaunch /\ q1.at \in {"publish", "train"} /\ q1.step = s /\ q1.from = p.from
    BY <2>3 DEF SomeLaunch, Places
  <2> HIDE DEF q1
  <2>5. q2 \in SomeLaunch /\ q2.at \in {"publish", "train"} /\ q2.step = s /\ q2.from = p.from
    BY <2>3, <2>4 DEF SomeLaunch
  <2> HIDE DEF q2
  <2>6. q3 \in SomeLaunch /\ q3.at \in {"publish", "train"} /\ q3.step = s /\ q3.from = p.from
    BY <2>3, <2>5 DEF SomeLaunch, Lower
  <2> HIDE DEF q3
  <2>7. q4 \in SomeLaunch /\ q4.at \in {"publish", "train"} /\ q4.step = s /\ q4.from = p.from
    BY <2>3, <2>6 DEF SomeLaunch
  <2> HIDE DEF q4
  <2>8. q5 \in SomeLaunch /\ q5.at \in {"publish", "train"} /\ q5.step = s /\ q5.from = p.from
    BY <2>3, <2>7 DEF SomeLaunch
  <2> HIDE DEF q5
  <2>9. PICK q \in SomeLaunch : Now(l, q) /\ q.at \in {"publish", "train"} /\ q.step = s /\ q.from = p.from
    BY <2>2, <2>6, <2>8
  <2>10. /\ launch'[l] = q /\ \A m \in Launches \ {l} : launch'[m] = launch[m]
         /\ launch' \in [Launches -> SomeLaunch]
    BY <2>9 DEF Now, TrainingInv, Types
  <2>11. /\ tmp'[s] = NoDir /\ saved'[s] = tmp[s]
         /\ \A t \in StepNumbers \ {s} : tmp'[t] = tmp[t] /\ saved'[t] = saved[t]
    BY <1>1, <2>1 DEF TrainingInv, Types
  <2>12. Types'
    BY <1>1, <2>1, <2>10, EmptyTypes DEF TrainingInv, Types
  <2>13. OneOwner'
    BY <2>9, <2>10 DEF TrainingInv, OneOwner, Owns
  <2>14. OwnersFill'
    <3> SUFFICES ASSUME NEW m \in Launches, NEW t \in StepNumbers, Owns(m, t)' PROVE Filled(m, tmp[t])'
      BY DEF OwnersFill
    <3>1. m # l /\ launch'[m] = launch[m] /\ Owns(m, t)
      BY <2>9, <2>10 DEF Owns
    <3>2. t # s
      BY <1>1, <3>1 DEF TrainingInv, OneOwner, Owns
    <3>3. Filled(m, tmp[t]) /\ tmp'[t] = tmp[t]
      BY <3>1, <3>2, <2>11 DEF TrainingInv, OwnersFill
    <3> QED
      BY <3>1, <3>3 DEF Filled, TheModel
  <2>15. OneRealLaunch'
    BY <1>1, <2>10 DEF TrainingInv, OneRealLaunch, Live
  <2>16. RealHasRoom'
    BY <1>1, <2>9, <2>10 DEF TrainingInv, RealHasRoom, OneRealLaunch, Live
  <2>17. AbsentIsEmpty'
    BY <2>11 DEF TrainingInv, AbsentIsEmpty
  <2>18. (\A m \in Launches : Stepped(m))'
    BY <2>9, <2>10 DEF TrainingInv, Stepped
  <2>19. CheckpointsAreWhole'
    <3>1. TheModel(l) # NoModel /\ TheModel(l).step = s
      BY <1>1, TrainingAssumption DEF TheModel, NoModel, StepNumbers
    <3>2. saved'[s].model = TheModel(l) /\ saved'[s].manifest = TheModel(l)
      BY <1>2, <2>11
    <3> HIDE DEF s
    <3> QED
      BY <3>1, <3>2, <2>11 DEF TrainingInv, CheckpointsAreWhole
  <2> QED
    BY <2>12, <2>13, <2>14, <2>15, <2>16, <2>17, <2>18, <2>19 DEF TrainingInv
<1> QED
  BY <1>3, <1>4

-----------------------------------------------------------------------------
LEMMA RestKeepsInv ==
  ASSUME TrainingInv, NEW l \in Launches,
         FindPublished(l) \/ EndSteps(l) \/ Publish(l) \/ CopyFile(l) \/ DieTraining(l)
  PROVE  TrainingInv'
<1>1. /\ UNCHANGED <<kind, tmp, saved>>
      /\ \/ GoesTo(l, "skipped") \/ GoesTo(l, "completed") \/ GoesTo(l, "failed")
         \/ (GoesTo(l, "publish") \/ GoesTo(l, "copy")) /\ Live(l)
  BY DEF FindPublished, EndSteps, Publish, CopyFile, DieTraining, Live
<1>2. {"skipped", "completed", "failed", "publish", "copy"} \subseteq Places
  BY DEF Places
<1> QED
  BY <1>1, <1>2, GoingKeepsInv

LEMMA NextKeepsInv == TrainingInv /\ [TrainingNext]_TrainingVars => TrainingInv'
<1> SUFFICES ASSUME TrainingInv, [TrainingNext]_TrainingVars PROVE TrainingInv'
  OBVIOUS
<1>1. ASSUME NEW l \in Launches,
             \/ FindPublished(l) \/ StartLaunch(l) \/ TrainStep(l) \/ EndEpochs(l) \/ EndSteps(l)
             \/ LookForRoom(l) \/ MakeTmp(l) \/ SaveModel(l) \/ SaveManifest(l) \/ RenameTmp(l)
             \/ Publish(l) \/ CopyFile(l) \/ DieTraining(l)
      PROVE  TrainingInv'
  BY <1>1, StartLaunchKeepsInv, TrainStepKeepsInv, EndEpochsKeepsInv, LookForRoomKeepsInv,
     MakeTmpKeepsInv, SaveModelKeepsInv, SaveManifestKeepsInv, RenameTmpKeepsInv, RestKeepsInv
<1>2. CASE UNCHANGED TrainingVars
  BY <1>2 DEF TrainingVars, TrainingInv, Types, OneOwner, OwnersFill, OneRealLaunch, RealHasRoom,
              AbsentIsEmpty, CheckpointsAreWhole, Stepped, Owns, Filled, Live, TheModel
<1> QED
  BY <1>1, <1>2 DEF TrainingNext

(* A checkpoint that a launch leaves under its name is a model and its     *)
(* manifest, of one launch and one step: _save_checkpoint and              *)
(* _save_kronos_pretrained_checkpoint, for any number of launches that     *)
(* share the directory and die anywhere.                                   *)
THEOREM CheckpointsAlwaysWhole == TrainingSpec => []CheckpointsAreWhole
<1>1. TrainingInv => CheckpointsAreWhole
  BY DEF TrainingInv
<1> QED
  BY InitHolds, NextKeepsInv, <1>1, PTL DEF TrainingSpec

-----------------------------------------------------------------------------
(* The checkpoints that a launch has left, and the one it has chosen.      *)
SavedBy(dirs, l) == {s \in StepNumbers : dirs[s].model.by = l}

\* A launch has chosen none as long as it has left none, and otherwise one of
\* them; when it began at the start, one with the lowest loss.  A smoke launch
\* then knows that loss as its best.
Chosen(k, dirs, l, q) ==
  /\ q.bestStep = 0 => /\ SavedBy(dirs, l) = {} /\ q.lastSaved = 0 /\ q.chosenLoss = Infinite
                       /\ k = "smoke" /\ q.from = 0 => q.bestLoss = Infinite
  /\ q.bestStep # 0 => /\ q.bestStep \in SavedBy(dirs, l) /\ dirs[q.bestStep].there
                       /\ dirs[q.bestStep].model.loss = q.chosenLoss
                       /\ k = "smoke" /\ q.from = 0 => q.bestLoss = q.chosenLoss
  /\ q.from = 0 => \A s \in SavedBy(dirs, l) : q.chosenLoss <= dirs[s].model.loss

Saving == {"look", "make", "model", "manifest", "rename"}
Reached(q) ==
  /\ q.at = "idle" => q.bestStep = 0
  /\ q.step # q.from \/ q.at \in Saving => q.loss \in Losses
  /\ q.at = "train" /\ q.step = MaxSteps => q.lastSaved # 0
  /\ q.at \in {"publish", "copy"} => q.bestStep # 0

\* What is published is copied from the checkpoint that its launch has chosen.
Copies(dir, dirs, q) ==
  /\ q.at \in {"copy", "completed", "failed"} /\ q.bestStep # 0
  /\ dir.model \in {NoModel, dirs[q.bestStep].model}
  /\ dir.manifest \in {NoModel, dirs[q.bestStep].manifest}

Copying(l) == launch[l].at = "copy"
BestInv ==
  /\ best \in SomeDir /\ (~best.there => best = NoDir)
  /\ \A s \in StepNumbers : ~saved[s].there => saved[s] = NoDir
  /\ \A l \in Launches : Chosen(kind, saved, l, launch[l]) /\ Reached(launch[l])
  /\ best.there => \E l \in Launches : Copies(best, saved, launch[l])
  /\ \A l \in Launches : Copying(l) => best.there /\ Copies(best, saved, launch[l])
  /\ \A l, m \in Launches : Copying(l) /\ Copying(m) => l = m

-----------------------------------------------------------------------------
LEMMA InfiniteIsAbove ==
  /\ Infinite \in Nat \ {0} /\ Infinite \notin Losses
  /\ \A x \in Losses : x \in Nat /\ x <= Infinite
<1> DEFINE m == CHOOSE x \in Losses : \A y \in Losses : y <= x
<1>1. m \in Losses /\ \A y \in Losses : y <= m
  BY TrainingAssumption
<1>2. Infinite = 1 + m
  BY DEF Infinite
<1> HIDE DEF m
<1>3. \A x \in Losses : x \in Nat \ {0}
  BY TrainingAssumption
<1>4. QED
  BY <1>1, <1>2, <1>3

LEMMA AnyLossIsNat == \A x \in AnyLoss : x \in Nat
BY InfiniteIsAbove DEF AnyLoss

LEMMA BestInvInit == TrainingInit => BestInv
<1> SUFFICES ASSUME TrainingInit PROVE BestInv
  OBVIOUS
<1>1. best = NoDir /\ NoDir \in SomeDir /\ ~NoDir.there
  BY EmptyTypes DEF TrainingInit, NoDir
<1>2. \A s \in StepNumbers : saved[s] = NoDir
  BY DEF TrainingInit
<1>3. \A l \in Launches : launch[l] = NewLaunch
  BY DEF TrainingInit
<1>4. ASSUME NEW l \in Launches PROVE SavedBy(saved, l) = {}
  <2>1. NoDir.model.by = "none" /\ l # "none"
    BY TrainingAssumption DEF NoDir, NoModel
  <2>2. QED
    BY <1>2, <2>1 DEF SavedBy
<1>5. ASSUME NEW l \in Launches PROVE Chosen(kind, saved, l, NewLaunch) /\ Reached(NewLaunch)
  BY <1>4 DEF Chosen, Reached, NewLaunch, Saving
<1>6. \A l \in Launches : ~Copying(l)
  BY <1>3 DEF Copying, NewLaunch
<1>7. QED
  BY <1>1, <1>2, <1>3, <1>5, <1>6 DEF BestInv

\* A launch that moves on before it copies anything.
LEMMA MoveKeepsBest ==
  ASSUME TrainingInv, BestInv, NEW l \in Launches, NEW q \in SomeLaunch, Now(l, q),
         UNCHANGED <<kind, saved, best>>,
         launch[l].at \notin {"copy", "completed", "failed"}, q.at # "copy",
         Chosen(kind, saved, l, q), Reached(q)
  PROVE  BestInv'
<1>1. \A m \in Launches : launch'[m] = IF m = l THEN q ELSE launch[m]
  BY DEF Now, TrainingInv, Types
<1>2. \A m \in Launches : Chosen(kind', saved', m, launch'[m]) /\ Reached(launch'[m])
  BY <1>1 DEF BestInv
<1>3. \A m \in Launches : Copying(m)' => m # l /\ Copying(m)
  BY <1>1 DEF Copying
<1>4. \A m \in Launches : Copies(best, saved, launch[m]) => Copies(best', saved', launch'[m])
  <2>1. \A m \in Launches : Copies(best, saved, launch[m]) => m # l
    BY DEF Copies
  <2>2. QED
    BY <1>1, <2>1
<1>5. QED
  BY <1>2, <1>3, <1>4 DEF BestInv

\* Only its place changes.
LEMMA GoingKeepsBest ==
  ASSUME TrainingInv, BestInv, NEW l \in Launches, NEW place \in Places, GoesTo(l, place),
         UNCHANGED <<kind, saved, best>>,
         launch[l].at \notin {"copy", "completed", "failed"},
         place \notin {"copy", "idle", "train"},
         place \in Saving => launch[l].at \in Saving,
         place = "publish" => launch[l].bestStep # 0
  PROVE  BestInv'
<1> DEFINE q == [launch[l] EXCEPT !.at = place]
<1>1. q \in SomeLaunch /\ Now(l, q)
  BY GoesToIsNow DEF TrainingInv
<1>2. /\ q.at = place /\ q.from = launch[l].from /\ q.step = launch[l].step
      /\ q.loss = launch[l].loss /\ q.bestLoss = launch[l].bestLoss
      /\ q.chosenLoss = launch[l].chosenLoss /\ q.bestStep = launch[l].bestStep
      /\ q.lastSaved = launch[l].lastSaved
  BY DEF TrainingInv, Types, SomeLaunch
<1> HIDE DEF q
<1>3. Chosen(kind, saved, l, launch[l]) /\ Reached(launch[l])
  BY DEF BestInv
<1>4. Chosen(kind, saved, l, q)
  BY <1>2, <1>3 DEF Chosen
<1>5. Reached(q)
  BY <1>2, <1>3 DEF Reached
<1>6. QED
  BY <1>1, <1>2, <1>4, <1>5, MoveKeepsBest

LEMMA StartLaunchKeepsBest ==
  ASSUME TrainingInv, BestInv, NEW l \in Launches, StartLaunch(l)
  PROVE  BestInv'
<1>1. /\ UNCHANGED <<kind, saved, best>> /\ launch[l].at = "idle" /\ 0 < MaxSteps
      /\ SavedBy(saved, l) = {}
  <2>1. UNCHANGED <<kind, saved, best>> /\ launch[l].at = "idle"
    BY DEF StartLaunch
  <2>2. Chosen(kind, saved, l, launch[l]) /\ Reached(launch[l])
    BY DEF BestInv
  <2>3. launch[l].bestStep = 0
    BY <2>1, <2>2 DEF Reached
  <2>4. SavedBy(saved, l) = {}
    BY <2>2, <2>3 DEF Chosen
  <2>5. 0 < MaxSteps
    BY TrainingAssumption
  <2>6. QED
    BY <2>1, <2>4, <2>5
<1>2. CASE Now(l, [NewLaunch EXCEPT !.at = "train"])
  <2> DEFINE q == [NewLaunch EXCEPT !.at = "train"]
  <2>1. q \in SomeLaunch
    BY EmptyTypes DEF SomeLaunch, Places
  <2>2. /\ q.at = "train" /\ q.from = 0 /\ q.step = 0 /\ q.bestStep = 0 /\ q.lastSaved = 0
        /\ q.chosenLoss = Infinite /\ q.bestLoss = Infinite
    BY DEF NewLaunch
  <2> HIDE DEF q
  <2>3. Now(l, q)
    BY <1>2 DEF q
  <2>4. Chosen(kind, saved, l, q)
    BY <1>1, <2>2 DEF Chosen
  <2>5. Reached(q)
    BY <1>1, <2>2 DEF Reached, Saving
  <2>6. QED
    BY <1>1, <2>1, <2>2, <2>3, <2>4, <2>5, MoveKeepsBest
<1>3. ASSUME NEW s \in StepNumbers, saved[s].model # NoModel, saved[s].model.step < MaxSteps,
             Now(l, [NewLaunch EXCEPT !.at = "train", !.from = saved[s].model.step,
                                      !.step = saved[s].model.step,
                                      !.bestLoss = saved[s].model.bestLoss])
      PROVE  BestInv'
  <2> DEFINE q1 == [NewLaunch EXCEPT !.at = "train"]
             q2 == [q1 EXCEPT !.from = saved[s].model.step]
             q3 == [q2 EXCEPT !.step = saved[s].model.step]
             q == [q3 EXCEPT !.bestLoss = saved[s].model.bestLoss]
  <2>1. saved[s].model.step \in 0 .. MaxSteps /\ saved[s].model.bestLoss \in AnyLoss
    BY DEF TrainingInv, Types, SomeDir, SomeModel
  <2>2. saved[s].model.step = s /\ s # 0
    <3>1. saved[s].there
      BY <1>3 DEF BestInv, NoDir
    <3>2. QED
      BY <3>1 DEF TrainingInv, CheckpointsAreWhole, StepNumbers
  <2>3. Now(l, q)
    BY <1>3
  <2>4. q1 \in SomeLaunch /\ q1.at = "train" /\ q1.bestStep = 0 /\ q1.lastSaved = 0
        /\ q1.chosenLoss = Infinite
    BY EmptyTypes DEF SomeLaunch, Places, NewLaunch
  <2> HIDE DEF q1
  <2>5. q2 \in SomeLaunch /\ q2.at = "train" /\ q2.bestStep = 0 /\ q2.lastSaved = 0
        /\ q2.chosenLoss = Infinite /\ q2.from = saved[s].model.step
    BY <2>1, <2>4 DEF SomeLaunch
  <2> HIDE DEF q2
  <2>6. q3 \in SomeLaunch /\ q3.at = "train" /\ q3.bestStep = 0 /\ q3.lastSaved = 0
        /\ q3.chosenLoss = Infinite /\ q3.from = saved[s].model.step
        /\ q3.step = saved[s].model.step
    BY <2>1, <2>5 DEF SomeLaunch
  <2> HIDE DEF q3
  <2>7. q \in SomeLaunch /\ q.at = "train" /\ q.bestStep = 0 /\ q.lastSaved = 0
        /\ q.chosenLoss = Infinite /\ q.from = s /\ q.step = s
    BY <2>1, <2>2, <2>6 DEF SomeLaunch
  <2> HIDE DEF q
  <2>8. Chosen(kind, saved, l, q)
    BY <1>1, <2>2, <2>7 DEF Chosen
  <2>9. s # MaxSteps
    BY <1>3, <2>1, <2>2, TrainingAssumption
  <2>10. Reached(q)
    BY <2>7, <2>9 DEF Reached, Saving
  <2>11. QED
    BY <1>1, <2>3, <2>7, <2>8, <2>10, MoveKeepsBest
<1>4. QED
  BY <1>2, <1>3 DEF StartLaunch

LEMMA TrainStepKeepsBest ==
  ASSUME TrainingInv, BestInv, NEW l \in Launches, TrainStep(l)
  PROVE  BestInv'
<1> DEFINE p == launch[l]
<1>1. PICK x \in Losses :
        Now(l, [p EXCEPT !.step = p.step + 1, !.loss = x,
                         !.bestLoss = IF kind = "real" THEN Lower(x, p.bestLoss) ELSE p.bestLoss,
                         !.at = IF Checkpoints(p.step + 1) THEN "look" ELSE "train"])
  BY DEF TrainStep
<1>2. p \in SomeLaunch /\ p.step < MaxSteps /\ p.at = "train" /\ p.from <= p.step
      /\ UNCHANGED <<kind, saved, best>>
  BY DEF TrainingInv, Types, TrainStep, Stepped
<1>3. p.step + 1 \in 0 .. MaxSteps
  <2>1. p.step \in 0 .. MaxSteps
    BY <1>2 DEF SomeLaunch
  <2>2. QED
    BY <1>2, <2>1, TrainingAssumption
<1>4. PICK n \in 0 .. MaxSteps : n = p.step + 1
  BY <1>3
<1>5. PICK low \in AnyLoss : low = IF kind = "real" THEN Lower(x, p.bestLoss) ELSE p.bestLoss
  BY <1>2 DEF SomeLaunch, Lower, AnyLoss
<1>6. PICK at_ \in {"look", "train"} : at_ = IF Checkpoints(n) THEN "look" ELSE "train"
  OBVIOUS
<1> DEFINE q == [p EXCEPT !.step = n, !.loss = x, !.bestLoss = low, !.at = at_]
<1>7. Now(l, q)
  BY <1>1, <1>4, <1>5, <1>6
<1>8. /\ q \in SomeLaunch /\ q.at = at_ /\ q.step = n /\ q.loss = x /\ q.bestLoss = low
      /\ q.from = p.from /\ q.chosenLoss = p.chosenLoss /\ q.bestStep = p.bestStep
      /\ q.lastSaved = p.lastSaved
  BY <1>2 DEF SomeLaunch, Places, AnyLoss
<1> HIDE DEF q
<1>9. Chosen(kind, saved, l, p)
  BY DEF BestInv
<1>10. kind = "smoke" => low = p.bestLoss
  BY <1>5
<1> HIDE DEF p
<1>11. Chosen(kind, saved, l, q)
  BY <1>8, <1>9, <1>10 DEF Chosen
<1>12. Reached(q)
  <2>1. n = MaxSteps => at_ = "look"
    BY <1>6 DEF Checkpoints
  <2>2. QED
    BY <1>8, <2>1 DEF Reached
<1>13. QED
  BY <1>2, <1>7, <1>8, <1>11, <1>12, MoveKeepsBest DEF p

LEMMA EndEpochsKeepsBest ==
  ASSUME TrainingInv, BestInv, NEW l \in Launches, EndEpochs(l)
  PROVE  BestInv'
<1> DEFINE p == launch[l]
<1>1. PICK at_ \in {"publish", "look"} : at_ = IF p.lastSaved = p.step THEN "publish" ELSE "look"
  OBVIOUS
<1> DEFINE q == [p EXCEPT !.over = TRUE, !.at = at_]
<1>2. /\ p \in SomeLaunch /\ p.from <= p.step /\ p.step # p.from /\ p.at = "train"
      /\ UNCHANGED <<kind, saved, best>>
  BY DEF TrainingInv, Types, Stepped, EndEpochs
<1>3. p.step # 0
  <2>1. p.step \in 0 .. MaxSteps /\ p.from \in 0 .. MaxSteps
    BY <1>2 DEF SomeLaunch
  <2>2. QED
    BY <1>2, <2>1
<1>4. Now(l, q)
  BY <1>1 DEF EndEpochs
<1>5. /\ q \in SomeLaunch /\ q.at = at_ /\ q.step = p.step /\ q.loss = p.loss
      /\ q.bestLoss = p.bestLoss /\ q.from = p.from /\ q.chosenLoss = p.chosenLoss
      /\ q.bestStep = p.bestStep /\ q.lastSaved = p.lastSaved
  BY <1>2 DEF SomeLaunch, Places
<1>6. Chosen(kind, saved, l, p) /\ Reached(p)
  BY DEF BestInv
<1> HIDE DEF q, p
<1>7. Chosen(kind, saved, l, q)
  BY <1>5, <1>6 DEF Chosen
<1>8. at_ = "publish" => p.bestStep # 0
  BY <1>1, <1>3, <1>6 DEF Chosen
<1>9. Reached(q)
  BY <1>2, <1>5, <1>6, <1>8 DEF Reached
<1>10. QED
  BY <1>2, <1>4, <1>5, <1>7, <1>9, MoveKeepsBest DEF p

\* Going on without a checkpoint, or ending.
LEMMA GoOnKeepsBest ==
  ASSUME TrainingInv, BestInv, NEW l \in Launches,
         \/ FindPublished(l) \/ EndSteps(l) \/ LookForRoom(l) \/ MakeTmp(l) \/ SaveModel(l)
         \/ SaveManifest(l) \/ (DieTraining(l) /\ launch[l].at # "copy")
  PROVE  BestInv'
<1>1. UNCHANGED <<kind, saved, best>>
  BY DEF FindPublished, EndSteps, LookForRoom, MakeTmp, SaveModel, SaveManifest, DieTraining
<1>2. Chosen(kind, saved, l, launch[l]) /\ Reached(launch[l])
  BY DEF BestInv
<1>3. {"skipped", "failed", "publish", "make", "model", "manifest", "rename"} \subseteq Places
  BY DEF Places
<1>4. CASE FindPublished(l)
  BY <1>1, <1>3, <1>4, GoingKeepsBest DEF FindPublished, Saving
<1>5. CASE EndSteps(l)
  <2>1. launch[l].at = "train" /\ launch[l].step = MaxSteps /\ GoesTo(l, "publish")
    BY <1>5 DEF EndSteps
  <2>2. launch[l].bestStep # 0
    BY <1>2, <2>1 DEF Chosen, Reached
  <2>3. QED
    BY <1>1, <1>3, <2>1, <2>2, GoingKeepsBest DEF Saving
<1>6. ASSUME launch[l].at \in {"look", "make", "model", "manifest"},
             NEW place \in {"failed", "make", "model", "manifest", "rename"}, GoesTo(l, place)
      PROVE  BestInv'
  BY <1>1, <1>3, <1>6, GoingKeepsBest DEF Saving
<1>7. CASE LookForRoom(l) \/ MakeTmp(l) \/ SaveModel(l) \/ SaveManifest(l)
  BY <1>6, <1>7 DEF LookForRoom, MakeTmp, SaveModel, SaveManifest
<1>8. CASE DieTraining(l) /\ launch[l].at # "copy"
  BY <1>1, <1>3, <1>8, GoingKeepsBest DEF DieTraining, Live, Saving
<1>9. QED
  BY <1>4, <1>5, <1>7, <1>8

\* A launch leaves a checkpoint: d at the place s, where there was none.
LEMMA LeaveKeepsBest ==
  ASSUME TrainingInv, BestInv, NEW l \in Launches, NEW q \in SomeLaunch, Now(l, q),
         UNCHANGED <<kind, best>>, launch[l].at = "rename", q.at \in {"train", "publish"},
         NEW s \in StepNumbers, s = launch[l].step, ~saved[s].there,
         NEW d \in SomeDir, d.there, d.model.by = l, d.model.loss = launch[l].loss,
         saved' = [saved EXCEPT ![s] = d],
         q.from = launch[l].from, q.step = s, q.loss = launch[l].loss, q.lastSaved = s,
         q.bestLoss = Lower(launch[l].loss, launch[l].bestLoss),
         IF IsBest(launch[l]) THEN q.bestStep = s /\ q.chosenLoss = launch[l].loss
                              ELSE /\ q.bestStep = launch[l].bestStep
                                   /\ q.chosenLoss = launch[l].chosenLoss
  PROVE  BestInv'
<1>1. /\ \A m \in Launches : launch'[m] = IF m = l THEN q ELSE launch[m]
      /\ \A t \in StepNumbers : saved'[t] = IF t = s THEN d ELSE saved[t]
  BY DEF Now, TrainingInv, Types
<1>2. saved[s] = NoDir /\ s # 0
  BY DEF BestInv, StepNumbers
<1>3. \A m \in Launches : saved[s].model.by # m
  BY <1>2, TrainingAssumption DEF NoDir, NoModel
<1>4. /\ SavedBy(saved', l) = SavedBy(saved, l) \cup {s} /\ s \notin SavedBy(saved, l)
      /\ \A m \in Launches \ {l} : SavedBy(saved', m) = SavedBy(saved, m) /\ s \notin SavedBy(saved, m)
  BY <1>1, <1>3 DEF SavedBy
<1>5. \A m \in Launches : Chosen(kind, saved, m, launch[m]) /\ Reached(launch[m])
  BY DEF BestInv
<1>6. ASSUME NEW m \in Launches \ {l} PROVE Chosen(kind, saved', m, launch[m])
  <2>1. \A t \in SavedBy(saved, m) : saved'[t] = saved[t]
    BY <1>1, <1>4 DEF SavedBy
  <2>2. QED
    BY <1>4, <1>5, <2>1 DEF Chosen
<1>7. Chosen(kind, saved', l, q)
  <2> DEFINE p == launch[l]
  <2>1. Chosen(kind, saved, l, p) /\ p.loss \in Losses /\ p \in SomeLaunch
    BY <1>5 DEF Reached, Saving, TrainingInv, Types
  <2>2. /\ p.loss \in Nat /\ p.loss <= Infinite /\ p.bestLoss \in Nat /\ p.chosenLoss \in Nat
        /\ p.loss # Infinite /\ Infinite \in Nat
    BY <2>1, InfiniteIsAbove, AnyLossIsNat DEF SomeLaunch
  <2>3. \A t \in SavedBy(saved, l) : saved'[t] = saved[t]
    BY <1>1, <1>4 DEF SavedBy
  <2>4. saved'[s] = d
    BY <1>1
  <2>5. kind \in {"smoke", "real"}
    BY DEF TrainingInv, Types
  <2>6. \A t \in SavedBy(saved, l) : saved[t].model.loss \in Nat
    <3> SUFFICES ASSUME NEW t \in SavedBy(saved, l) PROVE saved[t].model.loss \in Nat
      OBVIOUS
    <3>1. saved[t] \in SomeDir
      BY DEF SavedBy, TrainingInv, Types
    <3>2. QED
      BY <3>1, AnyLossIsNat DEF SomeDir, SomeModel
  <2> HIDE DEF p
  <2>7. CASE IsBest(p)
    <3>1. q.bestStep = s /\ q.chosenLoss = p.loss
      BY <2>7 DEF p
    <3>2. p.from = 0 => \A t \in SavedBy(saved, l) : p.loss <= saved[t].model.loss
      <4> SUFFICES ASSUME p.from = 0, NEW t \in SavedBy(saved, l)
                   PROVE  p.loss <= saved[t].model.loss
        OBVIOUS
      <4>1. p.bestStep # 0 /\ p.chosenLoss <= saved[t].model.loss
        BY <2>1 DEF Chosen
      <4>2. p.loss <= p.chosenLoss
        BY <2>1, <2>5, <2>7, <4>1 DEF Chosen, IsBest
      <4>3. QED
        BY <2>2, <2>6, <4>1, <4>2
    <3>3. kind = "smoke" /\ p.from = 0 => Lower(p.loss, p.bestLoss) = p.loss
      <4>1. kind = "smoke" /\ p.from = 0 => p.loss <= p.bestLoss
        BY <2>1, <2>2, <2>7 DEF Chosen, IsBest
      <4>2. QED
        BY <4>1 DEF Lower
    <3>4. s \in SavedBy(saved', l) /\ saved'[s].there /\ saved'[s].model.loss = p.loss
      BY <1>4, <2>4 DEF p
    <3>5. q.from = 0 => \A t \in SavedBy(saved', l) : q.chosenLoss <= saved'[t].model.loss
      <4>1. p.loss <= saved'[s].model.loss
        BY <2>2, <3>4
      <4>2. q.from = p.from
        BY DEF p
      <4>3. QED
        BY <1>4, <2>3, <3>1, <3>2, <4>1, <4>2
    <3>6. q.bestLoss = Lower(p.loss, p.bestLoss) /\ q.from = p.from
      BY DEF p
    <3>7. QED
      BY <1>2, <3>1, <3>3, <3>4, <3>5, <3>6 DEF Chosen
  <2>8. CASE ~IsBest(p)
    <3>1. q.bestStep = p.bestStep /\ q.chosenLoss = p.chosenLoss /\ q.from = p.from
      BY <2>8 DEF p
    <3>2. p.bestStep # 0
      <4>1. p.bestStep = 0 => p.chosenLoss = Infinite
        BY <2>1 DEF Chosen
      <4>2. QED
        BY <2>2, <2>8, <4>1 DEF IsBest
    <3>3. p.from = 0 => p.chosenLoss <= p.loss
      <4>1. kind = "smoke" /\ p.from = 0 => p.bestLoss = p.chosenLoss
        BY <2>1, <3>2 DEF Chosen
      <4>2. QED
        BY <2>2, <2>8, <4>1 DEF IsBest
    <3>4. kind = "smoke" /\ p.from = 0 => Lower(p.loss, p.bestLoss) = p.chosenLoss
      <4>1. kind = "smoke" /\ p.from = 0 => p.bestLoss = p.chosenLoss /\ ~(p.loss <= p.bestLoss)
        BY <2>1, <2>8, <3>2 DEF Chosen, IsBest
      <4>2. QED
        BY <4>1 DEF Lower
    <3>5. /\ p.bestStep \in SavedBy(saved', l) /\ saved'[p.bestStep].there
          /\ saved'[p.bestStep].model.loss = p.chosenLoss
      BY <1>4, <2>1, <2>3, <3>2 DEF Chosen
    <3>6. p.from = 0 => \A t \in SavedBy(saved', l) : p.chosenLoss <= saved'[t].model.loss
      <4>1. p.from = 0 => p.chosenLoss <= saved'[s].model.loss
        BY <2>4, <3>3 DEF p
      <4>2. p.from = 0 => \A t \in SavedBy(saved, l) : p.chosenLoss <= saved'[t].model.loss
        BY <2>1, <2>3 DEF Chosen
      <4>3. QED
        BY <1>4, <4>1, <4>2
    <3>7. q.bestLoss = Lower(p.loss, p.bestLoss)
      BY DEF p
    <3>8. QED
      BY <3>1, <3>2, <3>4, <3>5, <3>6, <3>7 DEF Chosen
  <2>9. QED
    BY <2>7, <2>8
<1>8. Reached(q)
  <2>1. launch[l].loss \in Losses
    BY <1>5 DEF Reached, Saving
  <2>2. q.at = "publish" => q.bestStep # 0
    BY <1>2, <1>7 DEF Chosen
  <2>3. QED
    BY <1>2, <2>1, <2>2 DEF Reached
<1>9. \A m \in Launches : Chosen(kind', saved', m, launch'[m]) /\ Reached(launch'[m])
  <2>1. \A m \in Launches \ {l} : launch'[m] = launch[m]
    BY <1>1
  <2>2. launch'[l] = q
    BY <1>1
  <2>3. QED
    BY <1>5, <1>6, <1>7, <1>8, <2>1, <2>2
<1>10. \A m \in Launches : Copies(best, saved, launch[m]) =>
         m # l /\ Copies(best', saved', launch'[m])
  <2> SUFFICES ASSUME NEW m \in Launches, Copies(best, saved, launch[m])
               PROVE  m # l /\ Copies(best', saved', launch'[m])
    OBVIOUS
  <2>1. m # l /\ launch[m].bestStep # 0
    BY DEF Copies
  <2>2. launch[m].bestStep \in SavedBy(saved, m)
    BY <1>5, <2>1 DEF Chosen
  <2>3. saved'[launch[m].bestStep] = saved[launch[m].bestStep]
    BY <1>1, <1>4, <2>1, <2>2 DEF SavedBy
  <2>4. launch'[m] = launch[m]
    BY <1>1, <2>1
  <2>5. QED
    BY <2>1, <2>3, <2>4 DEF Copies
<1>11. \A m \in Launches : Copying(m)' => Copying(m) /\ m # l
  BY <1>1 DEF Copying
<1>12. \A t \in StepNumbers : ~saved'[t].there => saved'[t] = NoDir
  BY <1>1 DEF BestInv
<1>13. QED
  BY <1>9, <1>10, <1>11, <1>12 DEF BestInv

LEMMA RenameTmpKeepsBest ==
  ASSUME TrainingInv, BestInv, NEW l \in Launches, RenameTmp(l)
  PROVE  BestInv'
<1> DEFINE p == launch[l]
           s == launch[l].step
<1>1. p.at = "rename" /\ UNCHANGED <<kind, best>> /\ s \in StepNumbers
  BY DEF RenameTmp, TrainingInv, Stepped
<1>2. tmp[s].there /\ tmp[s].model = TheModel(l)
  BY <1>1 DEF TrainingInv, OwnersFill, Filled, Owns
<1>3. CASE saved[s].there
  <2>1. GoesTo(l, "failed") /\ UNCHANGED <<kind, saved, best>> /\ "failed" \in Places
    BY <1>1, <1>3 DEF RenameTmp, Places
  <2>2. QED
    BY <1>1, <2>1, GoingKeepsBest DEF Saving
<1>4. CASE ~saved[s].there
  <2> DEFINE at_ == IF p.over THEN "publish" ELSE "train"
             q1 == [p EXCEPT !.at = at_]
             q2 == [q1 EXCEPT !.lastSaved = s]
             q3 == [q2 EXCEPT !.bestLoss = Lower(p.loss, p.bestLoss)]
             q4 == [q3 EXCEPT !.bestStep = s]
             q5 == [q4 EXCEPT !.chosenLoss = p.loss]
             Kept(q) == /\ q \in SomeLaunch /\ q.at \in {"publish", "train"} /\ q.from = p.from
                        /\ q.step = s /\ q.loss = p.loss
             SameChoice(q) == q.bestStep = p.bestStep /\ q.chosenLoss = p.chosenLoss
  <2>1. saved' = [saved EXCEPT ![s] = tmp[s]]
    BY <1>2, <1>4 DEF RenameTmp
  <2>2. Now(l, IF IsBest(p) THEN q5 ELSE q3)
    BY <1>2, <1>4 DEF RenameTmp
  <2>3. p \in SomeLaunch /\ s \in 0 .. MaxSteps /\ p.loss \in AnyLoss /\ p.bestLoss \in AnyLoss
        /\ p.step = s
    BY DEF TrainingInv, Types, SomeLaunch
  <2>4. Kept(q1) /\ SameChoice(q1)
    BY <2>3 DEF SomeLaunch, Places
  <2> HIDE DEF q1
  <2>5. Kept(q2) /\ SameChoice(q2) /\ q2.lastSaved = s
    BY <2>3, <2>4 DEF SomeLaunch
  <2> HIDE DEF q2
  <2>6. PICK low \in AnyLoss : low = Lower(p.loss, p.bestLoss)
    BY <2>3 DEF Lower
  <2>7. q3 = [q2 EXCEPT !.bestLoss = low]
    BY <2>6
  <2> HIDE DEF q3
  <2>8. Kept(q3) /\ SameChoice(q3) /\ q3.lastSaved = s /\ q3.bestLoss = low
    BY <2>5, <2>7 DEF SomeLaunch
  <2>9. Kept(q4) /\ q4.lastSaved = s /\ q4.bestLoss = low /\ q4.bestStep = s
    BY <2>3, <2>8 DEF SomeLaunch
  <2> HIDE DEF q4
  <2>10. Kept(q5) /\ q5.lastSaved = s /\ q5.bestLoss = low /\ q5.bestStep = s
         /\ q5.chosenLoss = p.loss
    BY <2>3, <2>9 DEF SomeLaunch
  <2> HIDE DEF q5
  <2>11. PICK q \in SomeLaunch :
           /\ Now(l, q) /\ Kept(q) /\ q.lastSaved = s /\ q.bestLoss = low
           /\ IF IsBest(p) THEN q.bestStep = s /\ q.chosenLoss = p.loss
                           ELSE q.bestStep = p.bestStep /\ q.chosenLoss = p.chosenLoss
    BY <2>2, <2>8, <2>10
  <2>12. tmp[s] \in SomeDir /\ tmp[s].model.by = l /\ tmp[s].model.loss = p.loss
    BY <1>1, <1>2 DEF TrainingInv, Types, TheModel
  <2>13. QED
    BY <1>1, <1>2, <1>4, <2>1, <2>6, <2>11, <2>12, LeaveKeepsBest
<1>5. QED
  BY <1>3, <1>4

-----------------------------------------------------------------------------
(* Publishing the checkpoint that was chosen.                              *)

LEMMA CopyingKeepsBest ==
  ASSUME TrainingInv, BestInv, NEW l \in Launches, NEW place \in {"copy", "completed", "failed"},
         GoesTo(l, place), UNCHANGED <<kind, saved>>, launch[l].bestStep # 0,
         launch[l].at \notin {"idle", "completed", "failed"},
         best' \in SomeDir, best'.there, Copies(best', saved, [launch[l] EXCEPT !.at = place]),
         \A m \in Launches \ {l} : ~Copying(m)
  PROVE  BestInv'
<1> DEFINE q == [launch[l] EXCEPT !.at = place]
<1>1. q \in SomeLaunch /\ Now(l, q)
  BY GoesToIsNow DEF TrainingInv, Places
<1>2. /\ q.at = place /\ q.from = launch[l].from /\ q.step = launch[l].step
      /\ q.loss = launch[l].loss /\ q.bestLoss = launch[l].bestLoss
      /\ q.chosenLoss = launch[l].chosenLoss /\ q.bestStep = launch[l].bestStep
      /\ q.lastSaved = launch[l].lastSaved
  BY DEF TrainingInv, Types, SomeLaunch
<1>3. Copies(best', saved', q)
  OBVIOUS
<1> HIDE DEF q
<1>4. \A m \in Launches : Chosen(kind, saved, m, launch[m]) /\ Reached(launch[m])
  BY DEF BestInv
<1>5. Chosen(kind, saved, l, q)
  BY <1>2, <1>4 DEF Chosen
<1>6. Reached(q)
  BY <1>2, <1>4 DEF Reached, Saving
<1>7. \A m \in Launches : launch'[m] = IF m = l THEN q ELSE launch[m]
  BY <1>1 DEF Now, TrainingInv, Types
<1>8. \A m \in Launches : Chosen(kind', saved', m, launch'[m]) /\ Reached(launch'[m])
  BY <1>4, <1>5, <1>6, <1>7
<1>9. \A m \in Launches : Copying(m)' => m = l
  BY <1>7 DEF Copying
<1>10. \E m \in Launches : Copies(best', saved', launch'[m])
  BY <1>3, <1>7
<1>11. \A m \in Launches : Copying(m)' => Copies(best', saved', launch'[m])
  BY <1>3, <1>7, <1>9
<1>12. \A t \in StepNumbers : ~saved'[t].there => saved'[t] = NoDir
  BY DEF BestInv
<1>13. QED
  BY <1>8, <1>9, <1>10, <1>11, <1>12 DEF BestInv

LEMMA PublishKeepsBest ==
  ASSUME TrainingInv, BestInv, NEW l \in Launches, Publish(l)
  PROVE  BestInv'
<1>1. launch[l].at = "publish" /\ UNCHANGED <<kind, saved>>
  BY DEF Publish
<1>2. launch[l].bestStep # 0
  BY <1>1 DEF BestInv, Reached
<1>3. CASE best.there
  <2>1. GoesTo(l, "failed") /\ UNCHANGED <<kind, saved, best>> /\ "failed" \in Places
    BY <1>1, <1>3 DEF Publish, Places
  <2>2. QED
    BY <1>1, <2>1, GoingKeepsBest DEF Saving
<1>4. CASE ~best.there
  <2>1. best' = EmptyDir /\ GoesTo(l, "copy")
    BY <1>4 DEF Publish
  <2>2. /\ EmptyDir \in SomeDir /\ EmptyDir.there /\ EmptyDir.model = NoModel
        /\ EmptyDir.manifest = NoModel
    BY EmptyTypes DEF EmptyDir, NoDir
  <2>3. \A m \in Launches : ~Copying(m)
    BY <1>4 DEF BestInv
  <2>4. launch[l] \in SomeLaunch
    BY DEF TrainingInv, Types
  <2>5. Copies(EmptyDir, saved, [launch[l] EXCEPT !.at = "copy"])
    BY <1>2, <2>2, <2>4 DEF Copies, SomeLaunch
  <2>6. QED
    BY <1>1, <1>2, <2>1, <2>2, <2>3, <2>5, CopyingKeepsBest
<1>5. QED
  BY <1>3, <1>4

LEMMA CopyFileKeepsBest ==
  ASSUME TrainingInv, BestInv, NEW l \in Launches, CopyFile(l)
  PROVE  BestInv'
<1> DEFINE from == saved[launch[l].bestStep]
<1>1. /\ launch[l].at = "copy" /\ UNCHANGED <<kind, saved>>
      /\ best' \in {[best EXCEPT !.model = from.model], [best EXCEPT !.manifest = from.manifest]}
  BY DEF CopyFile
<1>2. PICK place \in {"copy", "completed"} : GoesTo(l, place)
  BY DEF CopyFile
<1>3. /\ best \in SomeDir /\ best.there /\ Copies(best, saved, launch[l])
      /\ \A m \in Launches \ {l} : ~Copying(m)
  BY <1>1 DEF BestInv, Copying
<1>4. launch[l].bestStep # 0
  BY <1>3 DEF Copies
<1>5. launch[l].bestStep \in StepNumbers
  BY <1>4 DEF BestInv, Chosen, SavedBy
<1>6. from \in SomeDir /\ from.model \in SomeModel /\ from.manifest \in SomeModel
  BY <1>5 DEF TrainingInv, Types, SomeDir
<1> DEFINE q == [launch[l] EXCEPT !.at = place]
<1>7. q.at = place /\ q.bestStep = launch[l].bestStep
  BY DEF TrainingInv, Types, SomeLaunch
<1>8. from = saved[q.bestStep]
  BY <1>7
<1> HIDE DEF from, q
<1>9. /\ best' \in SomeDir /\ best'.there
      /\ best'.model \in {best.model, from.model} /\ best'.manifest \in {best.manifest, from.manifest}
  BY <1>1, <1>3, <1>6 DEF SomeDir
<1>10. Copies(best', saved, q)
  BY <1>3, <1>4, <1>7, <1>8, <1>9 DEF Copies
<1>11. QED
  BY <1>1, <1>2, <1>3, <1>4, <1>9, <1>10, CopyingKeepsBest DEF q

\* A launch that dies while it copies leaves what it has copied.
LEMMA DieCopyingKeepsBest ==
  ASSUME TrainingInv, BestInv, NEW l \in Launches, DieTraining(l), launch[l].at = "copy"
  PROVE  BestInv'
<1>1. GoesTo(l, "failed") /\ UNCHANGED <<kind, saved, best>>
  BY DEF DieTraining
<1>2. /\ best \in SomeDir /\ best.there /\ Copies(best, saved, launch[l])
      /\ \A m \in Launches \ {l} : ~Copying(m)
  BY DEF BestInv, Copying
<1>3. launch[l].bestStep # 0
  BY <1>2 DEF Copies
<1> DEFINE q == [launch[l] EXCEPT !.at = "failed"]
<1>4. q.at = "failed" /\ q.bestStep = launch[l].bestStep
  BY DEF TrainingInv, Types, SomeLaunch
<1> HIDE DEF q
<1>5. Copies(best', saved, q)
  BY <1>1, <1>2, <1>4 DEF Copies
<1>6. QED
  BY <1>1, <1>2, <1>3, <1>5, CopyingKeepsBest DEF q

LEMMA BestInvNext == TrainingInv /\ BestInv /\ [TrainingNext]_TrainingVars => BestInv'
<1> SUFFICES ASSUME TrainingInv, BestInv, [TrainingNext]_TrainingVars PROVE BestInv'
  OBVIOUS
<1>1. ASSUME NEW l \in Launches,
             \/ FindPublished(l) \/ StartLaunch(l) \/ TrainStep(l) \/ EndEpochs(l) \/ EndSteps(l)
             \/ LookForRoom(l) \/ MakeTmp(l) \/ SaveModel(l) \/ SaveManifest(l) \/ RenameTmp(l)
             \/ Publish(l) \/ CopyFile(l) \/ DieTraining(l)
      PROVE  BestInv'
  <2>1. CASE DieTraining(l)
    BY <2>1, GoOnKeepsBest, DieCopyingKeepsBest
  <2>2. CASE StartLaunch(l) \/ TrainStep(l) \/ EndEpochs(l)
    BY <2>2, StartLaunchKeepsBest, TrainStepKeepsBest, EndEpochsKeepsBest
  <2>3. CASE \/ FindPublished(l) \/ EndSteps(l) \/ LookForRoom(l) \/ MakeTmp(l)
             \/ SaveModel(l) \/ SaveManifest(l)
    BY <2>3, GoOnKeepsBest
  <2>4. CASE RenameTmp(l) \/ Publish(l) \/ CopyFile(l)
    BY <2>4, RenameTmpKeepsBest, PublishKeepsBest, CopyFileKeepsBest
  <2>5. QED
    BY <1>1, <2>1, <2>2, <2>3, <2>4
<1>2. CASE UNCHANGED TrainingVars
  BY <1>2 DEF TrainingVars, BestInv, Copying
<1>3. QED
  BY <1>1, <1>2 DEF TrainingNext

LEMMA BestInvShowsBest == TrainingInv /\ BestInv => PublishedIsBest
<1> SUFFICES ASSUME TrainingInv, BestInv, best.model # NoModel, best.manifest # NoModel
             PROVE  /\ best.manifest = best.model
                    /\ launch[best.model.by].from = 0 =>
                         \A s \in StepNumbers : saved[s].model.by = best.model.by =>
                           best.model.loss <= saved[s].model.loss
  BY DEF PublishedIsBest
<1>1. best.there
  BY DEF BestInv, NoDir
<1>2. PICK l \in Launches : Copies(best, saved, launch[l])
  BY <1>1 DEF BestInv
<1> DEFINE b == launch[l].bestStep
<1>3. b # 0 /\ best.model = saved[b].model /\ best.manifest = saved[b].manifest
  BY <1>2 DEF Copies
<1>4. Chosen(kind, saved, l, launch[l])
  BY DEF BestInv
<1>5. /\ b \in StepNumbers /\ saved[b].there /\ saved[b].model.by = l
      /\ saved[b].model.loss = launch[l].chosenLoss
      /\ launch[l].from = 0 => \A s \in SavedBy(saved, l) : launch[l].chosenLoss <= saved[s].model.loss
  BY <1>3, <1>4 DEF Chosen, SavedBy
<1>6. saved[b].manifest = saved[b].model
  BY <1>5 DEF TrainingInv, CheckpointsAreWhole
<1>7. QED
  BY <1>3, <1>5, <1>6 DEF SavedBy

(* What best_model holds, once both its files are there, is one model, and *)
(* no checkpoint of its launch from the start on has a lower loss:         *)
(* _save_checkpoint, _save_kronos_pretrained_checkpoint and the copy at    *)
(* the end, for any number of launches and any losses.                     *)
THEOREM PublishedModelIsBest == TrainingSpec => []PublishedIsBest
BY InitHolds, NextKeepsInv, BestInvInit, BestInvNext, BestInvShowsBest, PTL DEF TrainingSpec

-----------------------------------------------------------------------------
(***************************************************************************)
(* KronosData: what a launch trains on, for any days and lengths, however  *)
(* preparations and launches overlap.                                      *)
(***************************************************************************)
Position(panel, d) == Cardinality({x \in panel : x < d})

\* A panel that holds every day before a day of its own.
Prefix(panel, days) ==
  panel \subseteq days /\ \A x \in panel : \A y \in days : y < x => y \in panel

TrainWindows(panel) == Windows(panel, 1, TrainEnd)

-----------------------------------------------------------------------------
LEMMA SplitFacts ==
  /\ LastTradingDay \in Nat /\ Context \in Nat /\ Context >= 1 /\ PredLen \in Nat /\ PredLen >= 1
  /\ TrainEnd \in Nat
BY SplitsAssumption

LEMMA PanelIsFinite ==
  ASSUME NEW panel, panel \subseteq TradingDays
  PROVE  panel \subseteq Nat /\ (\A d \in panel : d >= 1) /\ IsFiniteSet(panel)
         /\ Cardinality(panel) \in Nat
<1>1. TradingDays \subseteq Nat /\ (\A d \in TradingDays : d >= 1) /\ IsFiniteSet(TradingDays)
  BY SplitFacts, FS_Interval DEF TradingDays
<1>2. IsFiniteSet(panel)
  BY <1>1, FS_Subset
<1>3. Cardinality(panel) \in Nat
  BY <1>2, FS_CardinalityType
<1>4. panel \subseteq Nat
  BY <1>1
<1>5. QED
  BY <1>1, <1>2, <1>3, <1>4

\* The rank of a member is its position plus one.
LEMMA PositionRank ==
  ASSUME NEW panel, panel \subseteq Nat, IsFiniteSet(panel), NEW d \in panel
  PROVE  Position(panel, d) \in Nat /\ Rank(panel, d) = Position(panel, d) + 1
<1> DEFINE B == {x \in panel : x < d}
<1>1. IsFiniteSet(B) /\ Cardinality(B) \in Nat
  BY FS_Subset, FS_CardinalityType
<1>2. d \notin B
  OBVIOUS
<1>3. {x \in panel : x <= d} = B \cup {d}
  <2>1. \A x \in panel : x \in Nat
    OBVIOUS
  <2>2. \A x \in panel : x <= d <=> x < d \/ x = d
    BY <2>1
  <2>3. QED
    BY <2>2
<1>4. Cardinality(B \cup {d}) = Cardinality(B) + 1
  BY <1>1, <1>2, FS_AddElement
<1>5. QED
  BY <1>1, <1>3, <1>4 DEF Position, Rank

LEMMA PositionGrows ==
  ASSUME NEW panel, panel \subseteq Nat, IsFiniteSet(panel), NEW d \in panel, NEW e \in panel, d < e
  PROVE  Position(panel, d) < Position(panel, e)
<1>1. Rank(panel, d) + 1 <= Rank(panel, e)
  BY RankGrows
<1>2. /\ Position(panel, d) \in Nat /\ Rank(panel, d) = Position(panel, d) + 1
      /\ Position(panel, e) \in Nat /\ Rank(panel, e) = Position(panel, e) + 1
  BY PositionRank
<1>3. QED
  BY <1>1, <1>2

\* Each position of a panel has a day.
LEMMA DayAtIs ==
  ASSUME NEW panel, panel \subseteq Nat, IsFiniteSet(panel), NEW k \in Nat,
         k < Cardinality(panel)
  PROVE  DayAt(panel, k) \in panel /\ Position(panel, DayAt(panel, k)) = k
<1>1. Cardinality(panel) \in Nat
  BY FS_CardinalityType
<1>2. k + 1 \in Nat /\ k + 1 <= Cardinality(panel) /\ k <= Cardinality(panel)
  BY <1>1
<1>3. Cardinality(FirstOnes(panel, k)) = k /\ Cardinality(FirstOnes(panel, k + 1)) = k + 1
  BY <1>2, FirstOnesCount
<1>4. PICK d \in panel : Rank(panel, d) <= k + 1 /\ ~(Rank(panel, d) <= k)
  <2>1. FirstOnes(panel, k) # FirstOnes(panel, k + 1)
    BY <1>3
  <2>2. \A d \in panel : Rank(panel, d) <= k => Rank(panel, d) <= k + 1
    <3>1. \A d \in panel : Rank(panel, d) \in Nat
      BY RankType
    <3>2. QED
      BY <3>1
  <2>3. QED
    BY <2>1, <2>2 DEF FirstOnes
<1>5. Position(panel, d) = k
  <2>1. Position(panel, d) \in Nat /\ Rank(panel, d) = Position(panel, d) + 1
    BY PositionRank
  <2>2. QED
    BY <1>4, <2>1
<1>6. QED
  BY <1>5 DEF DayAt, Position

-----------------------------------------------------------------------------
LEMMA PrefixOfPrefix ==
  ASSUME NEW days, NEW panel, Prefix(panel, days), NEW part, Prefix(part, panel)
  PROVE  Prefix(part, days)
BY DEF Prefix

\* As far as a prefix goes, it has the days that the whole has.
LEMMA PrefixDaysAt ==
  ASSUME NEW days, days \subseteq TradingDays, NEW panel, Prefix(panel, days),
         NEW i \in Nat, NEW j \in Nat, j < Cardinality(panel)
  PROVE  DaysAt(panel, i, j) = DaysAt(days, i, j)
<1>1. panel \subseteq days /\ days \subseteq Nat /\ IsFiniteSet(days)
      /\ IsFiniteSet(panel) /\ Cardinality(panel) \in Nat
  BY PanelIsFinite DEF Prefix
<1>2. ASSUME NEW d \in panel
      PROVE  {x \in panel : x < d} = {x \in days : x < d}
  BY <1>1 DEF Prefix
<1>3. ASSUME NEW d \in days, d \notin panel
      PROVE  Cardinality({x \in days : x < d}) \notin i .. j
  <2>1. ASSUME NEW x \in panel PROVE x < d
    <3>1. ~(d < x)
      BY <1>3 DEF Prefix
    <3>2. x \in Nat /\ d \in Nat /\ x # d
      BY <1>1, <1>3
    <3>3. QED
      BY <3>1, <3>2
  <2>2. panel \subseteq {x \in days : x < d}
    BY <1>1, <2>1
  <2>3. IsFiniteSet({x \in days : x < d})
    BY <1>1, FS_Subset
  <2>4. /\ Cardinality({x \in days : x < d}) \in Nat
        /\ Cardinality(panel) <= Cardinality({x \in days : x < d})
    BY <2>2, <2>3, FS_Subset, FS_CardinalityType
  <2>5. QED
    BY <1>1, <2>4
<1>4. QED
  BY <1>1, <1>2, <1>3 DEF DaysAt

-----------------------------------------------------------------------------
SomeWindow == [start : Nat, anchor : Nat, end : Nat, days : SUBSET TradingDays]

\* A window of the training split is some rows of its panel, no day of which is
\* after the end of the split.
LEMMA WindowFacts ==
  ASSUME NEW panel, panel \subseteq TradingDays, NEW w \in TrainWindows(panel)
  PROVE  /\ w \in SomeWindow /\ w.end < Cardinality(panel)
         /\ w.days = DaysAt(panel, w.start, w.end)
         /\ w.days \subseteq panel
         /\ \A d \in w.days : d <= TrainEnd
<1>1. PICK k \in (Context - 1) .. Cardinality(panel) :
        /\ k + PredLen < Cardinality(panel) /\ DayAt(panel, k + PredLen) <= TrainEnd
        /\ w = [start |-> k + 1 - Context, anchor |-> k, end |-> k + PredLen,
                days |-> DaysAt(panel, k + 1 - Context, k + PredLen)]
  BY DEF TrainWindows, Windows
<1>2. /\ panel \subseteq Nat /\ IsFiniteSet(panel) /\ Cardinality(panel) \in Nat
  BY PanelIsFinite
<1>3. k \in Nat /\ k + 1 - Context \in Nat /\ k + PredLen \in Nat
  BY <1>1, <1>2, SplitFacts
<1>4. DaysAt(panel, k + 1 - Context, k + PredLen) \subseteq panel
  BY DEF DaysAt
<1>5. w \in SomeWindow
  BY <1>1, <1>3, <1>4 DEF SomeWindow
<1>6. ASSUME NEW d \in DaysAt(panel, k + 1 - Context, k + PredLen) PROVE d <= TrainEnd
  <2>1. PICK e \in panel : e = DayAt(panel, k + PredLen) /\ Position(panel, e) = k + PredLen
    BY <1>1, <1>2, <1>3, DayAtIs
  <2>2. d \in panel /\ Position(panel, d) <= k + PredLen
    BY <1>2, <1>3 DEF DaysAt, Position
  <2>3. ~(e < d)
    <3>1. SUFFICES ASSUME e < d PROVE FALSE
      OBVIOUS
    <3>2. Position(panel, e) < Position(panel, d) /\ Position(panel, d) \in Nat
      BY <1>2, <2>2, <3>1, PositionGrows, PositionRank
    <3>3. QED
      BY <1>3, <2>1, <2>2, <3>2
  <2>4. d \in Nat /\ e \in Nat /\ e <= TrainEnd
    BY <1>1, <1>2, <2>1, <2>2
  <2>5. QED
    BY <2>3, <2>4, SplitFacts
<1>7. QED
  BY <1>1, <1>4, <1>5, <1>6

\* If a panel has windows, its first rows are in one.
LEMMA FirstRowsAreInAWindow ==
  ASSUME NEW panel, panel \subseteq TradingDays, TrainWindows(panel) # {}, NEW y \in panel
  PROVE  \E x \in UNION {w.days : w \in TrainWindows(panel)} : x <= y
<1>1. PICK k \in (Context - 1) .. Cardinality(panel) :
        /\ k + PredLen < Cardinality(panel) /\ DayAt(panel, k + PredLen) <= TrainEnd
  BY DEF TrainWindows, Windows
<1>2. /\ panel \subseteq Nat /\ IsFiniteSet(panel) /\ Cardinality(panel) \in Nat
      /\ \A d \in panel : d >= 1
  BY PanelIsFinite
<1> DEFINE a == Context - 1
           w == [start |-> a + 1 - Context, anchor |-> a, end |-> a + PredLen,
                 days |-> DaysAt(panel, a + 1 - Context, a + PredLen)]
<1>3. /\ a \in (Context - 1) .. Cardinality(panel) /\ a \in Nat /\ a + PredLen \in Nat
      /\ a + PredLen < Cardinality(panel) /\ a < Cardinality(panel) /\ a + 1 - Context = 0
      /\ a + PredLen <= k + PredLen /\ k + PredLen \in Nat
  BY <1>1, <1>2, SplitFacts
<1>4. DayAt(panel, a) >= 1
  BY <1>2, <1>3, DayAtIs
<1>5. DayAt(panel, a + PredLen) <= TrainEnd
  <2>1. PICK d \in panel : d = DayAt(panel, a + PredLen) /\ Position(panel, d) = a + PredLen
    BY <1>2, <1>3, DayAtIs
  <2>2. PICK e \in panel : e = DayAt(panel, k + PredLen) /\ Position(panel, e) = k + PredLen
    BY <1>1, <1>2, <1>3, DayAtIs
  <2>3. ~(e < d)
    <3>1. SUFFICES ASSUME e < d PROVE FALSE
      OBVIOUS
    <3>2. Position(panel, e) < Position(panel, d)
      BY <1>2, <3>1, PositionGrows
    <3>3. QED
      BY <1>3, <2>1, <2>2, <3>2
  <2>4. d \in Nat /\ e \in Nat /\ e <= TrainEnd
    BY <1>1, <1>2, <2>2
  <2>5. QED
    BY <2>1, <2>3, <2>4, SplitFacts
<1>6. w \in TrainWindows(panel)
  BY <1>3, <1>4, <1>5 DEF TrainWindows, Windows
<1>7. PICK x \in panel : Position(panel, x) = 0
  <2>1. 0 \in Nat /\ 0 < Cardinality(panel)
    BY <1>2, <1>3
  <2>2. QED
    BY <1>2, <2>1, DayAtIs
<1>8. x \in w.days
  <2>1. 0 \in 0 .. (a + PredLen)
    BY <1>3
  <2>2. QED
    BY <1>3, <1>7, <2>1 DEF DaysAt, Position
<1>9. x <= y
  <2>1. ~(y < x)
    <3>1. SUFFICES ASSUME y < x PROVE FALSE
      OBVIOUS
    <3>2. Position(panel, y) < Position(panel, x) /\ Position(panel, y) \in Nat
      BY <1>2, <3>1, PositionGrows, PositionRank
    <3>3. QED
      BY <1>7, <3>2
  <2>2. x \in Nat /\ y \in Nat
    BY <1>2
  <2>3. QED
    BY <2>1, <2>2
<1> HIDE DEF w
<1>10. QED
  BY <1>6, <1>8, <1>9

\* What is kept of a panel for the training is its beginning.
LEMMA SpanIsPrefix ==
  ASSUME NEW panel, panel \subseteq TradingDays
  PROVE  /\ Prefix(Span(panel, TrainWindows(panel)), panel)
         /\ \A d \in Span(panel, TrainWindows(panel)) : d <= TrainEnd
<1> DEFINE days == UNION {w.days : w \in TrainWindows(panel)}
           span == Span(panel, TrainWindows(panel))
<1>1. panel \subseteq Nat
  BY PanelIsFinite
<1>2. span = {d \in panel : (\E x \in days : x <= d) /\ (\E x \in days : x >= d)}
  BY DEF Span
<1>3. \A x \in days : x \in panel /\ x <= TrainEnd
  BY WindowFacts
<1>4. ASSUME TrainWindows(panel) # {}, NEW y \in panel PROVE \E x \in days : x <= y
  BY <1>4, FirstRowsAreInAWindow
<1>5. days # {} => TrainWindows(panel) # {}
  OBVIOUS
<1> HIDE DEF days, span
<1>6. ASSUME NEW d \in span PROVE d <= TrainEnd
  <2>1. PICK x \in days : x >= d
    BY <1>2
  <2>2. x \in Nat /\ d \in Nat /\ x <= TrainEnd
    BY <1>1, <1>2, <1>3
  <2>3. QED
    BY <2>1, <2>2, SplitFacts
<1>7. ASSUME NEW d \in span, NEW y \in panel, y < d PROVE y \in span
  <2>1. PICK x \in days : x >= d
    BY <1>2
  <2>2. x \in Nat /\ d \in Nat /\ y \in Nat
    BY <1>1, <1>2, <1>3
  <2>3. x >= y
    BY <1>7, <2>1, <2>2
  <2>4. \E z \in days : z <= y
    BY <1>4, <1>5, <2>1
  <2>5. QED
    BY <1>2, <2>1, <2>3, <2>4
<1>8. Prefix(span, panel)
  BY <1>2, <1>7 DEF Prefix
<1>9. QED
  BY <1>6, <1>8 DEF span

-----------------------------------------------------------------------------
SomeFile == [state : {"absent", "torn", "whole"}, of : SUBSET TradingDays, partial : BOOLEAN]
SomeReading == [at : {"idle", "panel", "windows", "training", "failed"},
                panel : SUBSET TradingDays, windows : SUBSET SomeWindow]
SomePreparation ==
  [at : 0 .. 4, open : BOOLEAN, panel : SUBSET TradingDays, partial : BOOLEAN, made : Nat]

\* What a launch has read was cut from panels of the stock, maybe of two.
IsCut(cut, days) ==
  \E panel : Prefix(panel, days) /\ cut = Span(panel, TrainWindows(panel))
AreWindows(windows, days) ==
  \E panel : Prefix(panel, days) /\ windows \subseteq TrainWindows(panel)
Fits(r, days) ==
  /\ r.at \in {"windows", "training"} => IsCut(r.panel, days)
  /\ r.at = "training" => AreWindows(r.windows, days)

DataInv ==
  /\ traded \subseteq TradingDays
  /\ file \in [FileIds -> SomeFile]
  /\ preparing \in SomePreparation
  /\ preparing.open => preparing.at # 0
  /\ reading \in [Launchers -> SomeReading]
  /\ Prefix(preparing.panel, traded)
  /\ \A f \in FileIds : Prefix(file[f].of, traded)
  /\ \A l \in Launchers : Fits(reading[l], traded)

\* A launch that has read two panels finds each window's days, or nothing.
LEMMA CutMatchesWindow ==
  ASSUME NEW days, days \subseteq TradingDays, NEW cut, IsCut(cut, days),
         NEW windows, AreWindows(windows, days), NEW w \in windows
  PROVE  /\ Sequence(cut, w) \in {{}, w.days}
         /\ \A d \in Sequence(cut, w) \cup Example(cut, w) : d <= TrainEnd
<1>1. PICK p : Prefix(p, days) /\ cut = Span(p, TrainWindows(p))
  BY DEF IsCut
<1>2. PICK q : Prefix(q, days) /\ windows \subseteq TrainWindows(q)
  BY DEF AreWindows
<1>3. p \subseteq TradingDays /\ q \subseteq TradingDays
  BY <1>1, <1>2 DEF Prefix
<1>4. Prefix(cut, days) /\ \A d \in cut : d <= TrainEnd
  BY <1>1, <1>3, SpanIsPrefix, PrefixOfPrefix
<1>5. /\ w \in SomeWindow /\ w.end < Cardinality(q) /\ w.days = DaysAt(q, w.start, w.end)
      /\ \A d \in w.days : d <= TrainEnd
  BY <1>2, <1>3, WindowFacts
<1>6. w.start \in Nat /\ w.end \in Nat
  BY <1>5 DEF SomeWindow
<1>7. w.days = DaysAt(days, w.start, w.end)
  BY <1>2, <1>5, <1>6, PrefixDaysAt
<1>8. w.end < Cardinality(cut) => DaysAt(cut, w.start, w.end) = w.days
  BY <1>4, <1>6, <1>7, PrefixDaysAt
<1>9. Sequence(cut, w) \in {{}, w.days}
  BY <1>8 DEF Sequence
<1>10. \A d \in Example(cut, w) : d \in w.days
  BY DEF Example
<1>11. QED
  BY <1>5, <1>9, <1>10

LEMMA DataInvShowsMatch == DataInv => SequencesMatchWindows
<1> SUFFICES ASSUME DataInv, NEW l \in Launchers, reading[l].at = "training",
                    NEW w \in reading[l].windows
             PROVE  /\ Sequence(reading[l].panel, w) \in {{}, w.days}
                    /\ \A d \in Sequence(reading[l].panel, w) \cup Example(reading[l].panel, w) :
                         d <= TrainEnd
  BY DEF SequencesMatchWindows
<1>1. traded \subseteq TradingDays /\ Fits(reading[l], traded)
  BY DEF DataInv
<1>2. IsCut(reading[l].panel, traded) /\ AreWindows(reading[l].windows, traded)
  BY <1>1 DEF Fits
<1>3. QED
  BY <1>1, <1>2, CutMatchesWindow

-----------------------------------------------------------------------------
LEMMA NoPanelIsPrefix == \A days : Prefix({}, days)
BY DEF Prefix

LEMMA DataInvInit == DataInit => DataInv
<1> SUFFICES ASSUME DataInit PROVE DataInv
  OBVIOUS
<1>1. NoFileYet \in SomeFile /\ NoFileYet.of = {}
  BY DEF NoFileYet, SomeFile
<1>2. file \in [FileIds -> SomeFile] /\ \A f \in FileIds : file[f].of = {}
  BY <1>1 DEF DataInit
<1>3. NotPreparing \in SomePreparation /\ NotPreparing.panel = {} /\ ~NotPreparing.open
  BY DEF NotPreparing, SomePreparation
<1>4. NotReading \in SomeReading /\ NotReading.at = "idle"
  BY DEF NotReading, SomeReading
<1>5. reading \in [Launchers -> SomeReading] /\ \A l \in Launchers : reading[l].at = "idle"
  BY <1>4 DEF DataInit
<1>6. traded \subseteq TradingDays
  BY DEF DataInit
<1>7. QED
  BY <1>2, <1>3, <1>5, <1>6, NoPanelIsPrefix DEF DataInit, DataInv, Fits

\* A later day leaves the beginning of the stock what it was.
LEMMA LaterDayKeeps ==
  ASSUME NEW days, days \subseteq TradingDays, NEW d \in TradingDays, \A x \in days : x < d,
         NEW panel, Prefix(panel, days)
  PROVE  Prefix(panel, days \cup {d})
<1>1. TradingDays \subseteq Nat
  BY PanelIsFinite
<1>2. \A x \in panel : x \in Nat /\ x < d /\ ~(d < x)
  BY <1>1 DEF Prefix
<1>3. QED
  BY <1>2 DEF Prefix

LEMMA NextCloseKeepsInv ==
  ASSUME DataInv, NextClose
  PROVE  DataInv'
<1>1. PICK d \in TradingDays : (\A x \in traded : x < d) /\ traded' = traded \cup {d}
  BY DEF NextClose
<1>2. \A panel : Prefix(panel, traded) => Prefix(panel, traded')
  BY <1>1, LaterDayKeeps DEF DataInv
<1>3. traded' \subseteq TradingDays
  BY <1>1 DEF DataInv
<1>4. \A l \in Launchers : Fits(reading[l], traded')
  BY <1>2 DEF DataInv, Fits, IsCut, AreWindows
<1>5. QED
  BY <1>2, <1>3, <1>4 DEF NextClose, DataInv

LEMMA PrepareKeepsInv ==
  ASSUME DataInv, Prepare
  PROVE  DataInv'
<1>1. Prefix(Loaded(traded), traded)
  <2>1. \A x \in traded : x \in Nat
    BY PanelIsFinite DEF DataInv
  <2>2. ValidEnd \in Nat
    BY SplitsAssumption
  <2>3. \A x \in traded : \A y \in traded : x <= ValidEnd /\ y < x => y <= ValidEnd
    BY <2>1, <2>2
  <2>4. QED
    BY <2>3 DEF Prefix, Loaded
<1>2. Loaded(traded) \subseteq TradingDays
  BY DEF Loaded, DataInv
<1>3. PICK partial \in BOOLEAN :
        preparing' = [at |-> 1, open |-> FALSE, panel |-> Loaded(traded), partial |-> partial,
                      made |-> preparing.made + 1]
  BY DEF Prepare
<1>4. preparing.made + 1 \in Nat
  BY DEF DataInv, SomePreparation
<1>5. preparing' \in SomePreparation /\ preparing'.panel = Loaded(traded) /\ ~preparing'.open
  BY <1>2, <1>3, <1>4 DEF SomePreparation
<1>6. QED
  BY <1>1, <1>5 DEF Prepare, DataInv

LEMMA FileStep ==
  ASSUME DataInv, NEW f \in FileIds, NEW g \in SomeFile, Prefix(g.of, traded),
         file' = [file EXCEPT ![f] = g], UNCHANGED <<traded, reading>>,
         preparing' \in SomePreparation, preparing'.panel = preparing.panel,
         preparing'.open => preparing'.at # 0
  PROVE  DataInv'
<1>1. file' \in [FileIds -> SomeFile] /\ \A h \in FileIds : file'[h] = IF h = f THEN g ELSE file[h]
  BY DEF DataInv
<1>2. \A h \in FileIds : Prefix(file'[h].of, traded')
  BY <1>1 DEF DataInv
<1>3. QED
  BY <1>1, <1>2 DEF DataInv

LEMMA FileIdsAre == FileIds = 1 .. 4
BY DEF FileIds, FileNames

LEMMA OpenFileKeepsInv ==
  ASSUME DataInv, OpenFile
  PROVE  DataInv'
<1> DEFINE g == [state |-> "torn", of |-> preparing.panel, partial |-> preparing.partial]
<1>1. preparing.at \in 0 .. 4 /\ preparing.at # 0
  BY DEF DataInv, SomePreparation, OpenFile
<1>2. preparing.at \in FileIds
  BY <1>1, FileIdsAre
<1>3. g \in SomeFile /\ g.of = preparing.panel
  BY DEF DataInv, SomePreparation, SomeFile
<1>4. /\ preparing' \in SomePreparation /\ preparing'.panel = preparing.panel
      /\ preparing'.at = preparing.at
  BY DEF DataInv, SomePreparation, OpenFile
<1>5. file' = [file EXCEPT ![preparing.at] = g] /\ UNCHANGED <<traded, reading>>
  BY DEF OpenFile
<1>6. Prefix(g.of, traded)
  BY <1>3 DEF DataInv
<1> HIDE DEF g
<1>7. QED
  BY <1>1, <1>2, <1>3, <1>4, <1>5, <1>6, FileStep

LEMMA WriteFileKeepsInv ==
  ASSUME DataInv, WriteFile
  PROVE  DataInv'
<1>1. preparing.at \in 0 .. 4 /\ preparing.at # 0
  BY DEF DataInv, SomePreparation, WriteFile
<1>2. preparing.at \in FileIds
  BY <1>1, FileIdsAre
<1>3. PICK g : g = [file[preparing.at] EXCEPT !.state = "whole"]
  OBVIOUS
<1>4. g \in SomeFile /\ g.of = file[preparing.at].of
  BY <1>2, <1>3 DEF DataInv, SomeFile
<1>5. PICK n \in 0 .. 4 : n = IF preparing.at = 4 THEN 0 ELSE preparing.at + 1
  BY <1>1
<1>6. preparing' = [preparing EXCEPT !.open = FALSE, !.at = n]
  BY <1>5 DEF WriteFile
<1>7. /\ preparing' \in SomePreparation /\ preparing'.panel = preparing.panel /\ ~preparing'.open
  BY <1>6 DEF DataInv, SomePreparation
<1>8. file' = [file EXCEPT ![preparing.at] = g] /\ UNCHANGED <<traded, reading>>
  <2>1. file' = [file EXCEPT ![preparing.at].state = "whole"]
    BY DEF WriteFile
  <2>2. QED
    BY <1>2, <1>3, <2>1 DEF WriteFile, DataInv
<1>9. Prefix(g.of, traded)
  BY <1>2, <1>4 DEF DataInv
<1>10. QED
  BY <1>2, <1>4, <1>7, <1>8, <1>9, FileStep

LEMMA DiePreparingKeepsInv ==
  ASSUME DataInv, DiePreparing
  PROVE  DataInv'
<1>1. PICK n \in 0 .. 4 : n = 0
  OBVIOUS
<1>2. preparing' = [preparing EXCEPT !.at = n, !.open = FALSE]
  BY <1>1 DEF DiePreparing
<1>3. preparing' \in SomePreparation /\ preparing'.panel = preparing.panel /\ ~preparing'.open
  BY <1>2 DEF DataInv, SomePreparation
<1>4. QED
  BY <1>3 DEF DataInv, DiePreparing

-----------------------------------------------------------------------------
LEMMA ReadsKeepsInv ==
  ASSUME DataInv, NEW l \in Launchers, NEW r \in SomeReading, Fits(r, traded),
         reading' = [reading EXCEPT ![l] = r], UNCHANGED <<traded, file, preparing>>
  PROVE  DataInv'
<1>1. /\ reading' \in [Launchers -> SomeReading]
      /\ \A m \in Launchers : reading'[m] = IF m = l THEN r ELSE reading[m]
  BY DEF DataInv
<1>2. \A m \in Launchers : Fits(reading'[m], traded')
  BY <1>1 DEF DataInv
<1>3. QED
  BY <1>1, <1>2 DEF DataInv

LEMMA FailedFits ==
  [NotReading EXCEPT !.at = "failed"] \in SomeReading
  /\ \A days : Fits([NotReading EXCEPT !.at = "failed"], days)
BY DEF NotReading, SomeReading, Fits

LEMMA ValidateDatasetKeepsInv ==
  ASSUME DataInv, NEW l \in Launchers, ValidateDataset(l)
  PROVE  DataInv'
<1>1. PICK r : r = [NotReading EXCEPT !.at = "panel"]
  OBVIOUS
<1>2. r \in SomeReading /\ r.at = "panel"
  BY <1>1 DEF NotReading, SomeReading
<1>3. Fits(r, traded)
  BY <1>2 DEF Fits
<1>4. QED
  BY <1>1, <1>2, <1>3, ReadsKeepsInv DEF ValidateDataset, Reads

LEMMA ReadPanelKeepsInv ==
  ASSUME DataInv, NEW l \in Launchers, ReadPanel(l)
  PROVE  DataInv'
<1>1. CASE file[1].state = "torn"
  BY <1>1, FailedFits, ReadsKeepsInv DEF ReadPanel, Reads
<1>2. CASE file[1].state # "torn"
  <2>1. PICK panel : panel = file[1].of
    OBVIOUS
  <2>2. Prefix(panel, traded) /\ panel \subseteq TradingDays
    BY <2>1, FileIdsAre DEF DataInv, SomeFile
  <2>3. PICK cut : cut = Span(panel, TrainWindows(panel))
    OBVIOUS
  <2>4. cut \subseteq TradingDays
    BY <2>2, <2>3 DEF Span
  <2>5. PICK r : r = [NotReading EXCEPT !.at = "windows", !.panel = cut]
    OBVIOUS
  <2>6. r \in SomeReading /\ r.at = "windows" /\ r.panel = cut
    BY <2>4, <2>5 DEF NotReading, SomeReading
  <2>7. IsCut(cut, traded)
    BY <2>2, <2>3 DEF IsCut
  <2>8. Fits(r, traded)
    BY <2>6, <2>7 DEF Fits
  <2>9. Contents(panel)[1] = cut
    BY <2>3 DEF Contents, TrainWindows
  <2>10. reading' = [reading EXCEPT ![l] = r]
    BY <1>2, <2>1, <2>5, <2>9 DEF ReadPanel, Reads
  <2>11. QED
    BY <2>6, <2>8, <2>10, ReadsKeepsInv DEF ReadPanel
<1>3. QED
  BY <1>1, <1>2

LEMMA ReadWindowsKeepsInv ==
  ASSUME DataInv, NEW l \in Launchers, ReadWindows(l)
  PROVE  DataInv'
<1>1. PICK all : all = Contents(file[3].of)[3]
  OBVIOUS
<1>2. PICK panel : panel = file[3].of
  OBVIOUS
<1>3. Prefix(panel, traded) /\ panel \subseteq TradingDays
  BY <1>2, FileIdsAre DEF DataInv, SomeFile
<1>4. all = TrainWindows(panel)
  BY <1>1, <1>2 DEF Contents, TrainWindows
<1>5. PICK n \in 0 .. LastTradingDay :
        LET read == {w \in all : file[3].state = "torn" => w.anchor < n}
        IN  Reads(l, IF read = {} THEN [NotReading EXCEPT !.at = "failed"]
                     ELSE [reading[l] EXCEPT !.at = "training", !.windows = read])
  BY <1>1 DEF ReadWindows
<1>6. PICK read : read = {w \in all : file[3].state = "torn" => w.anchor < n}
  OBVIOUS
<1>7. CASE read = {}
  BY <1>5, <1>6, <1>7, FailedFits, ReadsKeepsInv DEF ReadWindows, Reads
<1>8. CASE read # {}
  <2>1. PICK r : r = [reading[l] EXCEPT !.at = "training", !.windows = read]
    OBVIOUS
  <2>2. read \subseteq SomeWindow
    BY <1>3, <1>4, <1>6, WindowFacts
  <2>3. r \in SomeReading /\ r.at = "training" /\ r.panel = reading[l].panel /\ r.windows = read
    BY <2>1, <2>2 DEF DataInv, SomeReading
  <2>4. AreWindows(read, traded)
    BY <1>3, <1>4, <1>6 DEF AreWindows
  <2>5. IsCut(reading[l].panel, traded)
    BY DEF ReadWindows, DataInv, Fits
  <2>6. Fits(r, traded)
    BY <2>3, <2>4, <2>5 DEF Fits
  <2>7. reading' = [reading EXCEPT ![l] = r]
    BY <1>5, <1>6, <1>8, <2>1 DEF Reads
  <2>8. QED
    BY <2>3, <2>6, <2>7, ReadsKeepsInv DEF ReadWindows
<1>9. QED
  BY <1>7, <1>8

LEMMA DataInvNext == DataInv /\ [DataNext]_DataVars => DataInv'
<1> SUFFICES ASSUME DataInv, [DataNext]_DataVars PROVE DataInv'
  OBVIOUS
<1>1. CASE NextClose
  BY <1>1, NextCloseKeepsInv
<1>2. CASE Prepare
  BY <1>2, PrepareKeepsInv
<1>3. CASE OpenFile
  BY <1>3, OpenFileKeepsInv
<1>4. CASE WriteFile
  BY <1>4, WriteFileKeepsInv
<1>5. CASE DiePreparing
  BY <1>5, DiePreparingKeepsInv
<1>6. CASE \E l \in Launchers : ValidateDataset(l) \/ ReadPanel(l) \/ ReadWindows(l)
  BY <1>6, ValidateDatasetKeepsInv, ReadPanelKeepsInv, ReadWindowsKeepsInv
<1>7. CASE UNCHANGED DataVars
  BY <1>7 DEF DataVars, DataInv
<1>8. QED
  BY <1>1, <1>2, <1>3, <1>4, <1>5, <1>6, <1>7 DEF DataNext

(* Whichever preparations the files of a data set are of, and whenever a   *)
(* launch reads them, each sequence of a training is the days of its       *)
(* window, and no day is after the end of the split (_window_sequence).    *)
THEOREM LaunchesReadTheirWindows == DataSpec => []SequencesMatchWindows
BY DataInvInit, DataInvNext, DataInvShowsMatch, PTL DEF DataSpec

=============================================================================
