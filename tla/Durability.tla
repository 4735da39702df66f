----------------------------- MODULE Durability -----------------------------
(***************************************************************************)
(* What survives a crash.  One QueryExecutor: CatalogEngine and DmlEngine  *)
(* change the database in memory and log what they did, TxnSession defers  *)
(* the log records of a transaction, RecoveryService flushes them at       *)
(* COMMIT and replays snapshot and log when the process starts again.      *)
(*                                                                         *)
(* A statement first changes memory and leaves its disk operations in      *)
(* `todo'; DiskStep performs them one by one and the last one acknowledges *)
(* the statement.  The executor's write lock keeps other statements out    *)
(* meanwhile, but a crash may come before, within or after each of them.   *)
(*                                                                         *)
(* A row is represented by its number of columns; a heap is one page.  An  *)
(* UPDATE logs the same page image as a DELETE or INSERT and is left out.  *)
(***************************************************************************)
EXTENDS Naturals, Sequences, FiniteSets, SequencesExt, FiniteSetsExt, TLC

CONSTANTS DbNames, TableNames, IndexNames,
          InitialTables,   \* the tables of the database when the model starts
          Workloads,       \* what the client issues and where the process dies
          MaxRows,         \* bound on the slots of a heap
          MaxWidth,        \* bound on the columns of a table
          MaxStatements,   \* bound on the statements of a behaviour
          MaxSaves,        \* bound on its SAVE DATABASE statements
          NoDb             \* no active database, no snapshot file

Ddl == {"CreateDatabase", "CreateTable", "DropTable", "RenameTable", "AlterTable",
        "CreateIndex", "DropIndex"}
Dml == {"Insert", "Delete"}
Commands == Ddl \cup Dml

ASSUME NamesAssumption == InitialTables \subseteq TableNames /\ DbNames # {}
(* A workload: the kinds of statement issued outside and inside a          *)
(* transaction, where the process may crash and how often, how an append   *)
(* of COMMIT may fail and how often, and the RENAMEs of a transaction.     *)
ASSUME WorkloadsAssumption ==
  Workloads \subseteq
    [statements : SUBSET (Commands \cup {"DropDatabase", "SaveDatabase", "LoadDatabase", "Begin"}),
     inTxn : SUBSET (Commands \cup {"SaveDatabase", "LoadDatabase"}),
     crashPoints : SUBSET {"idle", "disk", "torn"},
     maxCrashes : Nat,
     faults : SUBSET {"open", "write", "sync"},
     maxFaults : Nat,
     maxRenames : Nat]

VARIABLES
  workload,   \* the one of Workloads this behaviour is about
  mem,        \* database_: the active database or NoDb
  active,     \* a transaction is open
  undo,       \* undoLog_
  pending,    \* pendingWal_
  todo,       \* the disk operations the current statement still has to do
  wal,        \* the records of the log file
  snapshots,  \* the snapshot file of each database name, or NoDb
  committed,  \* history: the database of the last acknowledged commit
  statements, saves, crashes, faults  \* how many so far

session == <<active, undo, pending>>
disk == <<wal, snapshots>>
counts == <<statements, saves, crashes, faults>>
vars == <<workload, mem, session, todo, disk, committed, counts>>

-----------------------------------------------------------------------------
(* Databases and tables                                                    *)

Without(f, x) == [y \in DOMAIN f \ {x} |-> f[y]]
EmptyDb(name) == [name |-> name, tables |-> <<>>]
EmptyTable == [width |-> 1, heap |-> <<>>, free |-> <<>>, idx |-> <<>>]

HasTable(db, t) == db # NoDb /\ t \in DOMAIN db.tables
LiveRows(heap) == {r \in DOMAIN heap : heap[r] # 0}
Rebuilt(table) == [table EXCEPT !.idx = [i \in DOMAIN @ |-> LiveRows(table.heap)]]
PutTable(db, t, table) == [db EXCEPT !.tables = (t :> table) @@ @]

(* What a client can see of a database: the free list and the capacity of  *)
(* a heap are not part of it.                                              *)
Logical(db) ==
  IF db = NoDb THEN NoDb
  ELSE [name |-> db.name,
        tables |-> [t \in DOMAIN db.tables |->
          LET table == db.tables[t] IN
          [width |-> table.width, idx |-> table.idx,
           rows |-> [r \in LiveRows(table.heap) |-> table.heap[r]]]]]

InsertRow(table) ==
  Rebuilt(IF table.free = <<>> THEN [table EXCEPT !.heap = Append(@, table.width)]
          ELSE [table EXCEPT !.heap[Last(table.free)] = table.width, !.free = Front(@)])
DeleteRow(table, r) ==
  Rebuilt([table EXCEPT !.heap[r] = 0, !.free = Append(@, r)])
ReviveRow(table, r, row) ==
  Rebuilt([table EXCEPT !.heap[r] = row, !.free = Remove(@, r)])
SetWidth(table, w) ==
  [table EXCEPT !.width = w, !.heap = [r \in DOMAIN @ |-> IF @[r] = 0 THEN 0 ELSE w]]
RenameTable(db, from, to) ==
  [db EXCEPT !.tables = (to :> @[from]) @@ Without(@, from)]

-----------------------------------------------------------------------------
(* The statements: op, the name they are about and one more argument       *)

CanExecute(db, st) ==
  CASE st.op = "CreateDatabase" -> TRUE
    [] st.op = "CreateTable" -> db # NoDb /\ ~HasTable(db, st.on)
    [] st.op = "RenameTable" -> HasTable(db, st.on) /\ ~HasTable(db, st.arg)
    [] st.op \in {"DropTable", "AlterTable", "Insert"} -> HasTable(db, st.on)
    [] st.op = "Delete" -> HasTable(db, st.on) /\ st.arg \in LiveRows(db.tables[st.on].heap)
    [] st.op = "CreateIndex" -> HasTable(db, st.on) /\ st.arg \notin DOMAIN db.tables[st.on].idx
    [] st.op = "DropIndex" -> HasTable(db, st.on) /\ st.arg \in DOMAIN db.tables[st.on].idx

Effect(db, st) ==
  LET table == db.tables[st.on] IN
  CASE st.op = "CreateDatabase" -> EmptyDb(st.on)
    [] st.op = "CreateTable" -> PutTable(db, st.on, EmptyTable)
    [] st.op = "DropTable" -> [db EXCEPT !.tables = Without(@, st.on)]
    [] st.op = "RenameTable" -> RenameTable(db, st.on, st.arg)
    [] st.op = "AlterTable" -> PutTable(db, st.on, SetWidth(table, table.width + 1))
    [] st.op = "CreateIndex" ->
         PutTable(db, st.on, Rebuilt([table EXCEPT !.idx = (st.arg :> {}) @@ @]))
    [] st.op = "DropIndex" -> PutTable(db, st.on, [table EXCEPT !.idx = Without(@, st.arg)])
    [] st.op = "Insert" -> PutTable(db, st.on, InsertRow(table))
    [] st.op = "Delete" -> PutTable(db, st.on, DeleteRow(table, st.arg))

(* A DDL statement is logged as itself, DML as the image of the page and   *)
(* the index pages it dirtied.                                             *)
Image(db, t) ==
  [on |-> t, heap |-> db.tables[t].heap, free |-> db.tables[t].free, idx |-> db.tables[t].idx]
LogRecord(db, st) ==
  IF st.op \in Dml THEN [op |-> "PageImageRedo", images |-> <<Image(Effect(db, st), st.on)>>]
  ELSE st

(* What ROLLBACK needs: the deleted row, the dropped table with the name   *)
(* it had, the previous database, or the row id of an insert.              *)
UndoRecord(db, st) ==
  [op |-> st.op, on |-> st.on,
   arg |-> IF st.op = "Insert"
             THEN (LET table == db.tables[st.on] IN
                   IF table.free = <<>> THEN Len(table.heap) + 1 ELSE Last(table.free))
             ELSE IF st.op = "DropTable" THEN st.on ELSE st.arg,
   saved |-> CASE st.op = "CreateDatabase" -> db
               [] st.op = "DropTable" -> db.tables[st.on]
               [] st.op = "Delete" -> db.tables[st.on].heap[st.arg]
               [] OTHER -> NoDb]

-----------------------------------------------------------------------------
(* TxnSession: RENAME TABLE renames the table in what is already logged    *)

Renamed(name, from, to) == IF name = from THEN to ELSE name

RewriteUndo(log, from, to) ==
  [i \in DOMAIN log |->
    [log[i] EXCEPT !.on = Renamed(@, from, to),
                   !.arg = IF log[i].op = "RenameTable" THEN Renamed(@, from, to) ELSE @]]

RewritePending(log, from, to) ==
  [i \in DOMAIN log |->
    CASE log[i].op = "PageImageRedo" ->
           [log[i] EXCEPT !.images =
              [j \in DOMAIN @ |-> [@[j] EXCEPT !.on = Renamed(@, from, to)]]]
      [] log[i].op = "RenameTable" ->
           [log[i] EXCEPT !.on = Renamed(@, from, to), !.arg = Renamed(@, from, to)]
      [] log[i].op = "CreateDatabase" -> log[i]
      [] OTHER -> [log[i] EXCEPT !.on = Renamed(@, from, to)]]

(* applyUndoRecord throws when the table, row or index is not what the     *)
(* record expects.                                                         *)
UndoFails(db, u) ==
  LET table == db.tables[u.on] IN
  CASE u.op = "CreateDatabase" -> FALSE
    [] u.op = "DropTable" -> HasTable(db, u.arg)
    [] u.op = "RenameTable" -> ~HasTable(db, u.arg) \/ HasTable(db, u.on)
    [] OTHER -> \/ ~HasTable(db, u.on)
                \/ u.op = "Insert" /\ u.arg \notin LiveRows(table.heap)
                \/ u.op = "Delete" /\ (u.arg \notin Range(table.free) \/ u.saved # table.width)
                \/ u.op = "CreateIndex" /\ u.arg \notin DOMAIN table.idx
                \/ u.op = "DropIndex" /\ u.arg \in DOMAIN table.idx

Undo(db, u) ==
  LET table == db.tables[u.on] IN
  CASE u.op = "CreateDatabase" -> u.saved
    [] u.op = "CreateTable" -> [db EXCEPT !.tables = Without(@, u.on)]
    [] u.op = "DropTable" -> PutTable(db, u.arg, u.saved)
    [] u.op = "RenameTable" -> RenameTable(db, u.arg, u.on)
    [] u.op = "AlterTable" -> PutTable(db, u.on, SetWidth(table, table.width - 1))
    [] u.op = "CreateIndex" -> PutTable(db, u.on, [table EXCEPT !.idx = Without(@, u.arg)])
    [] u.op = "DropIndex" ->
         PutTable(db, u.on, Rebuilt([table EXCEPT !.idx = (u.arg :> {}) @@ @]))
    [] u.op = "Insert" -> PutTable(db, u.on, DeleteRow(table, u.arg))
    [] u.op = "Delete" -> PutTable(db, u.on, ReviveRow(table, u.arg, u.saved))

UndoStep(s) ==
  LET u == Last(s.undo)
      rest == Front(s.undo)
      renamed == u.op = "RenameTable"
  IN IF s.failed THEN s
     ELSE IF UndoFails(s.db, u) THEN [s EXCEPT !.undo = rest, !.failed = TRUE]
     ELSE [db |-> Undo(s.db, u),
           undo |-> IF renamed THEN RewriteUndo(rest, u.arg, u.on) ELSE rest,
           pending |-> IF renamed THEN RewritePending(s.pending, u.arg, u.on) ELSE s.pending,
           failed |-> FALSE]

(* Mutant of UndoAll: the oldest record is left.                           *)
UndoAllButOldest ==
  FoldLeft(LAMBDA s, i : UndoStep(s),
           [db |-> mem, undo |-> undo, pending |-> pending, failed |-> FALSE],
           [i \in 1..(IF undo = <<>> THEN 0 ELSE Len(undo) - 1) |-> i])

UndoAll ==
  FoldLeft(LAMBDA s, i : UndoStep(s),
           [db |-> mem, undo |-> undo, pending |-> pending, failed |-> FALSE],
           [i \in 1..Len(undo) |-> i])

-----------------------------------------------------------------------------
(* RecoveryService                                                         *)

DiskOp(op, what) == [op |-> op, what |-> what]

(* Mutant of FlushPendingWal: the page images go first.                    *)
FlushImagesFirst ==
  LET ddl == SelectSeq(pending, LAMBDA rec : rec.op # "PageImageRedo")
      dml == SelectSeq(pending, LAMBDA rec : rec.op = "PageImageRedo")
      all == dml \o ddl
  IN [i \in DOMAIN all |-> DiskOp("append", all[i])]

(* flushPendingWal: the DDL records one append each, in order, and then    *)
(* all page images in one record.                                          *)
FlushPendingWal ==
  LET ddl == SelectSeq(pending, LAMBDA rec : rec.op # "PageImageRedo")
      dml == SelectSeq(pending, LAMBDA rec : rec.op = "PageImageRedo")
      batch == [op |-> "PageImageRedo",
                images |-> FlattenSeq([i \in DOMAIN dml |-> dml[i].images])]
  IN [i \in DOMAIN ddl |-> DiskOp("append", ddl[i])]
       \o IF dml = <<>> THEN <<>> ELSE <<DiskOp("append", batch)>>

(* WriteAheadLog::readAll stops at the first record that is not whole.     *)
Torn == [op |-> "Torn"]
ReadAll(log) ==
  LET torn == {i \in DOMAIN log : log[i] = Torn}
  IN IF torn = {} THEN log ELSE SubSeq(log, 1, Min(torn) - 1)

ImageFails(db, image) ==
  \/ ~HasTable(db, image.on)
  \/ Len(image.heap) < Len(db.tables[image.on].heap)
  \/ ~(DOMAIN image.idx \subseteq DOMAIN db.tables[image.on].idx)

(* Mutant of ApplyImage: the index pages are not installed.                *)
ApplyHeapImage(s, image) ==
  IF s.failed \/ ImageFails(s.db, image) THEN [s EXCEPT !.failed = TRUE]
  ELSE [s EXCEPT !.db = PutTable(@, image.on,
                          [@.tables[image.on] EXCEPT !.heap = image.heap, !.free = image.free])]

(* The indexes an image does not mention are left as they are.             *)
ApplyImage(s, image) ==
  IF s.failed THEN s
  ELSE IF ImageFails(s.db, image) THEN [s EXCEPT !.failed = TRUE]
  ELSE [s EXCEPT !.db = PutTable(@, image.on,
                          [@.tables[image.on] EXCEPT !.heap = image.heap, !.free = image.free,
                                                     !.idx = image.idx @@ @])]

(* A replayed statement that is refused is passed over, but CREATE and     *)
(* DROP INDEX throw when there is no such table, and the parser throws at  *)
(* a record that lost its text (see CommitFails).                          *)
Replay(s, rec) ==
  IF s.failed THEN s ELSE
  CASE rec.op = "SaveDatabase" -> s
    [] rec.op \in Ddl \ {"CreateDatabase"} /\ rec.on = "" -> [s EXCEPT !.failed = TRUE]
    [] rec.op = "PageImageRedo" -> FoldLeft(ApplyImage, s, rec.images)
    [] rec.op = "DropDatabase" ->
         [s EXCEPT !.db = IF @ # NoDb /\ @.name = rec.on THEN NoDb ELSE @,
                   !.snapshots[rec.on] = NoDb]
    [] rec.op \in {"CreateIndex", "DropIndex"} /\ ~HasTable(s.db, rec.on) ->
         [s EXCEPT !.failed = TRUE]
    [] OTHER -> IF CanExecute(s.db, rec) THEN [s EXCEPT !.db = Effect(@, rec)] ELSE s

(* recoverFromStorage: the file loadFirstDatabase meets first, and the log *)
(* after its last SaveDatabase record, or the whole log without a file.    *)
Recovered(log, first) ==
  LET records == ReadAll(log)
      saved == {i \in DOMAIN records : records[i].op = "SaveDatabase"}
      start == IF first = NoDb \/ saved = {} THEN 1 ELSE Max(saved) + 1
      end == FoldLeft(Replay, [db |-> first, snapshots |-> snapshots, failed |-> FALSE],
                      SubSeq(records, start, Len(records)))
  IN [end EXCEPT !.db = IF end.failed THEN NoDb ELSE @]

SnapshotFiles == {snapshots[n] : n \in DbNames} \ {NoDb}
FirstDatabase == IF SnapshotFiles = {} THEN {NoDb} ELSE SnapshotFiles

-----------------------------------------------------------------------------
(* The executor's statements                                               *)

Free == todo = <<>>
Issue(kind) ==
  /\ Free
  /\ kind \in IF active THEN workload.inTxn ELSE workload.statements
  /\ statements < MaxStatements
  /\ statements' = statements + 1

(* A DDL or DML statement, logged at once or when the transaction commits. *)
Execute(st) ==
  /\ Issue(st.op)
  /\ CanExecute(mem, st)
  /\ mem' = Effect(mem, st)
  /\ IF active
       THEN LET rename == st.op = "RenameTable"
                undone == IF rename THEN RewriteUndo(undo, st.on, st.arg) ELSE undo
                logged == IF rename THEN RewritePending(pending, st.on, st.arg) ELSE pending
            IN /\ undo' = Append(undone, UndoRecord(mem, st))
               /\ pending' = Append(logged, LogRecord(mem, st))
               /\ UNCHANGED todo
       ELSE /\ todo' = <<DiskOp("append", LogRecord(mem, st))>>
            /\ UNCHANGED <<undo, pending>>
  /\ UNCHANGED <<workload, active, disk, committed, saves, crashes, faults>>

Stmt(op, on, arg) == [op |-> op, on |-> on, arg |-> arg]

CreateDatabase == \E n \in DbNames : Execute(Stmt("CreateDatabase", n, 0))
CreateTable == \E t \in TableNames : Execute(Stmt("CreateTable", t, 0))
DropTable == \E t \in TableNames : Execute(Stmt("DropTable", t, 0))
RenameTableStmt ==
  /\ Len(SelectSeq(undo, LAMBDA u : u.op = "RenameTable")) < workload.maxRenames
  /\ \E t, to \in TableNames : Execute(Stmt("RenameTable", t, to))
AlterTable ==
  \E t \in TableNames : /\ HasTable(mem, t) /\ mem.tables[t].width < MaxWidth
                        /\ Execute(Stmt("AlterTable", t, 0))
CreateIndex == \E t \in TableNames, i \in IndexNames : Execute(Stmt("CreateIndex", t, i))
DropIndex == \E t \in TableNames, i \in IndexNames : Execute(Stmt("DropIndex", t, i))
Insert ==
  \E t \in TableNames : /\ HasTable(mem, t)
                        /\ mem.tables[t].free # <<>> \/ Len(mem.tables[t].heap) < MaxRows
                        /\ Execute(Stmt("Insert", t, 0))
Delete == \E t \in TableNames, r \in 1..MaxRows : Execute(Stmt("Delete", t, r))

(* Memory is reset after the record is logged, then the file goes.         *)
DropDatabase ==
  /\ Issue("DropDatabase")
  /\ mem # NoDb
  /\ mem' = NoDb
  /\ todo' = <<DiskOp("append", Stmt("DropDatabase", mem.name, 0)), DiskOp("delete", mem.name)>>
  /\ UNCHANGED <<workload, session, disk, committed, saves, crashes, faults>>

Begin ==
  /\ Issue("Begin")
  /\ ~active /\ mem # NoDb
  /\ active' = TRUE
  /\ undo' = <<>> /\ pending' = <<>>
  /\ UNCHANGED <<workload, mem, todo, disk, committed, saves, crashes, faults>>

CommitOps == FlushPendingWal \o <<DiskOp("commit", 0)>>

Commit ==
  /\ Free /\ active
  /\ todo' = CommitOps
  /\ UNCHANGED <<workload, mem, session, disk, committed, counts>>

(* An undo record that throws leaves the transaction open.                 *)
Rollback ==
  /\ Free /\ active
  /\ mem' = UndoAll.db
  /\ active' = UndoAll.failed
  /\ undo' = UndoAll.undo
  /\ pending' = IF UndoAll.failed THEN UndoAll.pending ELSE <<>>
  /\ UNCHANGED <<workload, todo, disk, committed, counts>>

(* SAVE commits an open transaction first; the marker is logged before the *)
(* snapshot is published and the log is reset after it.                    *)
SaveDatabase ==
  /\ Issue("SaveDatabase")
  /\ mem # NoDb /\ saves < MaxSaves
  /\ saves' = saves + 1
  /\ todo' = (IF active THEN CommitOps ELSE <<>>)
               \o <<DiskOp("append", Stmt("SaveDatabase", mem.name, 0)),
                    DiskOp("publish", 0), DiskOp("reset", 0)>>
  /\ UNCHANGED <<workload, mem, session, disk, committed, crashes, faults>>

(* LOAD rolls back first (a rollback that throws ends it as Rollback does) *)
(* and logs nothing.                                                       *)
LoadDatabase ==
  /\ Issue("LoadDatabase")
  /\ ~UndoAll.failed
  /\ \E db \in SnapshotFiles : mem' = db
  /\ active' = FALSE /\ undo' = <<>> /\ pending' = <<>>
  /\ committed' = Logical(mem')
  /\ UNCHANGED <<workload, todo, disk, saves, crashes, faults>>

-----------------------------------------------------------------------------
(* The disk                                                                *)

(* The next disk operation of the statement; the last one acknowledges it. *)
DiskStep ==
  /\ ~Free
  /\ LET op == Head(todo).op
         what == Head(todo).what
     IN /\ wal' = CASE op = "append" -> Append(wal, what)
                    [] op = "reset" -> <<>>
                    [] OTHER -> wal
        /\ snapshots' = CASE op = "publish" -> [snapshots EXCEPT ![mem.name] = mem]
                          [] op = "delete" -> [snapshots EXCEPT ![what] = NoDb]
                          [] OTHER -> snapshots
        /\ active' = (active /\ op # "commit")
        /\ undo' = IF op = "commit" THEN <<>> ELSE undo
        /\ pending' = IF op = "commit" THEN <<>> ELSE pending
  /\ todo' = Tail(todo)
  /\ committed' = IF todo' = <<>> THEN Logical(mem) ELSE committed
  /\ UNCHANGED <<workload, mem, counts>>

(* An append of flushPendingWal throws: the file cannot be opened, the     *)
(* record is written in part, or it is written and the sync fails.  COMMIT *)
(* ends there and the transaction stays open, but the texts of the DDL     *)
(* records it got to were moved out of pendingWal_ (page images are not).  *)
CommitFails ==
  /\ ~Free /\ active /\ Head(todo).op = "append"
  /\ faults < workload.maxFaults
  /\ faults' = faults + 1
  /\ \E fault \in workload.faults :
       wal' = CASE fault = "open" -> wal
                [] fault = "write" -> Append(wal, Torn)
                [] fault = "sync" -> Append(wal, Head(todo).what)
  /\ LET ddl == {i \in DOMAIN pending : pending[i].op \in Ddl}
         ahead == {i \in DOMAIN Tail(todo) : Tail(todo)[i].op = "append"
                                              /\ Tail(todo)[i].what.op \in Ddl}
         isMoved(i) == i \in ddl /\ Cardinality({j \in ddl : j > i}) >= Cardinality(ahead)
     IN pending' = [i \in DOMAIN pending |->
                      IF isMoved(i) THEN [pending[i] EXCEPT !.on = "", !.arg = ""] ELSE pending[i]]
  /\ todo' = <<>>
  /\ UNCHANGED <<workload, mem, active, undo, snapshots, committed, statements, saves, crashes>>

(* The process dies with `log' on disk, and a new executor recovers.       *)
Crash(point, log) ==
  /\ point \in workload.crashPoints
  /\ crashes < workload.maxCrashes
  /\ crashes' = crashes + 1
  /\ \E first \in FirstDatabase :
       /\ mem' = Recovered(log, first).db
       /\ snapshots' = Recovered(log, first).snapshots
  /\ wal' = log
  /\ active' = FALSE /\ undo' = <<>> /\ pending' = <<>> /\ todo' = <<>>
  /\ committed' = Logical(mem')
  /\ UNCHANGED <<workload, statements, saves, faults>>

CrashIdle == Free /\ Crash("idle", wal)
CrashBetweenWrites == ~Free /\ Crash("disk", wal)
CrashMidAppend == ~Free /\ Head(todo).op = "append" /\ Crash("torn", Append(wal, Torn))

-----------------------------------------------------------------------------

Init ==
  /\ workload \in Workloads
  /\ \E n \in DbNames :
       /\ mem = [name |-> n, tables |-> [t \in InitialTables |-> EmptyTable]]
       /\ wal = <<Stmt("CreateDatabase", n, 0)>>
                  \o SetToSeq({Stmt("CreateTable", t, 0) : t \in InitialTables})
  /\ active = FALSE /\ undo = <<>> /\ pending = <<>> /\ todo = <<>>
  /\ snapshots = [n \in DbNames |-> NoDb]
  /\ committed = Logical(mem)
  /\ statements = 0 /\ saves = 0 /\ crashes = 0 /\ faults = 0

Next ==
  \/ CreateDatabase \/ DropDatabase \/ CreateTable \/ DropTable \/ RenameTableStmt
  \/ AlterTable \/ CreateIndex \/ DropIndex \/ Insert \/ Delete
  \/ Begin \/ Commit \/ Rollback \/ SaveDatabase \/ LoadDatabase
  \/ DiskStep \/ CommitFails \/ CrashIdle \/ CrashBetweenWrites \/ CrashMidAppend

Spec == Init /\ [][Next]_vars

-----------------------------------------------------------------------------
(* Properties                                                              *)

(* After a crash the executor recovers exactly the database of the last    *)
(* acknowledged commit, or, when it died while a statement was writing,    *)
(* that statement's result as a whole: nothing acknowledged is lost,       *)
(* nothing uncommitted survives and no statement or transaction is half    *)
(* done (recoverFromStorage, flushPendingWal, executeSaveDatabase), also   *)
(* when a COMMIT failed before and was repeated or rolled back.            *)
RecoveredIsCommitted ==
  [][crashes' # crashes =>
       Logical(mem') \in {committed} \cup (IF todo = <<>> THEN {} ELSE {Logical(mem)})]_vars

(* At any point of a transaction the undo log can be applied to its end    *)
(* and gives back the database of BEGIN: tables, columns, rows and indexes *)
(* (applyUndoRecord and the renaming of the records below a RENAME).       *)
RollbackRestoresDatabase ==
  active /\ Free => ~UndoAll.failed /\ Logical(UndoAll.db) = committed

(* Every index covers exactly the live rows, of the table's width, also    *)
(* after recovery put index pages, heap pages and replayed DDL together.   *)
TablesAreConsistent ==
  mem # NoDb => \A t \in DOMAIN mem.tables :
    LET table == mem.tables[t] IN
    /\ \A i \in DOMAIN table.idx : table.idx[i] = LiveRows(table.heap)
    /\ \A r \in LiveRows(table.heap) : table.heap[r] = table.width
    /\ Range(table.free) = DOMAIN table.heap \ LiveRows(table.heap)

=============================================================================
