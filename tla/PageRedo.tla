------------------------------ MODULE PageRedo ------------------------------
(***************************************************************************)
(* Page-image redo of one table, page by page: DmlEngine clears the dirty  *)
(* marks, changes the page store and takes the dirty pages into a redo     *)
(* record, which an open transaction defers; ROLLBACK undoes the changes   *)
(* in memory; after a crash RecoveryService applies the logged records, in *)
(* order, to an empty store.                                               *)
(***************************************************************************)
EXTENDS PageRowStore

CONSTANTS MaxLog,       \* bound on the redo records ever taken
          MaxRollbacks  \* bound on the rollbacks

VARIABLES
  phase,      \* what the executor is doing
  inTxn,      \* a transaction is open
  undo,       \* its undo records
  pending,    \* its redo records
  log,        \* the redo records on disk
  applied,    \* how many of them recovery has applied
  rollbacks,  \* how many rollbacks so far
  committed,  \* history: the rows of the last acknowledged commit
  refusal     \* history: "none", or an INSERT was "refused" for its slot, and
              \* then the process "crashed"

txnVars == <<inTxn, undo, pending>>
redoVars == <<pageVars, phase, txnVars, log, applied, rollbacks, committed, refusal>>

(* The rows that get returns.                                              *)
LiveRows ==
  Restrict(DirectoryRows, {r \in DOMAIN slots : slots[r].live /\ HasPosition(r)})

Goto(from, to) == phase = from /\ phase' = to

-----------------------------------------------------------------------------
(* A statement that changes one row                                        *)

StartStatement ==
  /\ Goto("ready", "cleared")
  /\ Len(log) + Len(pending) < MaxLog
  /\ ClearDirtyPages
  /\ UNCHANGED <<txnVars, log, applied, rollbacks, committed, refusal>>

PushUndo(kind, r, before) ==
  undo' = IF inTxn THEN Append(undo, [kind |-> kind, row |-> r, before |-> before]) ELSE undo

AppendedRow == IF freeList = <<>> THEN Len(slots) + 1 ELSE Back(freeList)

Change ==
  /\ Goto("cleared", "changed")
  /\ \/ \E row \in Rows : Append1(row) /\ PushUndo("Insert", AppendedRow, NoRow)
     \/ \E r \in DOMAIN slots, row \in Rows :
          Update(r, row) /\ PushUndo("Update", r, DirectoryRows[r])
     \/ \E r \in DOMAIN slots : Erase(r) /\ PushUndo("Delete", r, DirectoryRows[r])
  /\ UNCHANGED <<inTxn, pending, log, applied, rollbacks, committed, refusal>>

(* An INSERT that append refuses: Table::insert and DmlEngine let the      *)
(* exception pass, so that the statement ends without an undo record and   *)
(* without a redo record, and an open transaction stays open.              *)
RefusedInsert ==
  /\ Goto("cleared", "ready")
  /\ AppendRefused
  /\ refusal' = IF refusal = "none" THEN "refused" ELSE refusal
  /\ UNCHANGED <<txnVars, log, applied, rollbacks, committed>>

LogChange ==
  /\ Goto("changed", "ready")
  /\ dirtyPages' = {}
  /\ IF inTxn THEN pending' = Append(pending, Capture) /\ UNCHANGED <<log, committed>>
              ELSE log' = Append(log, Capture) /\ committed' = LiveRows /\ UNCHANGED pending
  /\ UNCHANGED <<heapVars, cacheVars, inTxn, undo, applied, rollbacks, refusal>>

-----------------------------------------------------------------------------
(* Transactions                                                            *)

Begin ==
  /\ Goto("ready", "ready")
  /\ ~inTxn
  /\ inTxn' = TRUE /\ undo' = <<>> /\ pending' = <<>>
  /\ UNCHANGED <<pageVars, log, applied, rollbacks, committed, refusal>>

(* Mutant of Commit: only the last statement's images are logged.          *)
CommitLastImage ==
  /\ Goto("ready", "ready")
  /\ inTxn
  /\ inTxn' = FALSE /\ undo' = <<>> /\ pending' = <<>>
  /\ log' = IF pending = <<>> THEN log ELSE Append(log, Back(pending))
  /\ committed' = LiveRows
  /\ UNCHANGED <<pageVars, applied, rollbacks, refusal>>

Commit ==
  /\ Goto("ready", "ready")
  /\ inTxn
  /\ inTxn' = FALSE /\ undo' = <<>> /\ pending' = <<>>
  /\ log' = log \o pending
  /\ committed' = LiveRows
  /\ UNCHANGED <<pageVars, applied, rollbacks, refusal>>

StartRollback ==
  /\ Goto("ready", "undoing")
  /\ inTxn /\ rollbacks < MaxRollbacks
  /\ rollbacks' = rollbacks + 1
  /\ UNCHANGED <<pageVars, txnVars, log, applied, committed, refusal>>

UndoStep ==
  /\ Goto("undoing", "undoing")
  /\ undo # <<>>
  /\ LET u == Back(undo) IN
     \/ u.kind = "Insert" /\ Erase(u.row)
     \/ u.kind = "Update" /\ Update(u.row, u.before)
     \/ u.kind = "Delete" /\ Revive(u.row, u.before)
  /\ undo' = PopBack(undo)
  /\ UNCHANGED <<inTxn, pending, log, applied, rollbacks, committed, refusal>>

EndRollback ==
  /\ Goto("undoing", "ready")
  /\ undo = <<>>
  /\ inTxn' = FALSE /\ pending' = <<>>
  /\ UNCHANGED <<pageVars, undo, log, applied, rollbacks, committed, refusal>>

-----------------------------------------------------------------------------
(* Crash and recovery                                                      *)

Crash ==
  /\ phase # "recovering"
  /\ phase' = "recovering"
  /\ slots' = <<>> /\ freeList' = <<>> /\ liveCount' = 0
  /\ pageDirectory' = <<>> /\ bufferPool' = <<>> /\ decodedRows' = <<>> /\ dirtyPages' = {}
  /\ inTxn' = FALSE /\ undo' = <<>> /\ pending' = <<>>
  /\ applied' = 0
  /\ refusal' = IF refusal = "none" THEN "none" ELSE "crashed"
  /\ UNCHANGED <<log, rollbacks, committed>>

(* Mutant of Redo: it never gets past the record it applied.               *)
RedoSameRecord ==
  /\ Goto("recovering", "recovering")
  /\ applied < Len(log)
  /\ ApplyPageImages(log[applied + 1])
  /\ UNCHANGED <<applied, txnVars, log, rollbacks, committed, refusal>>

Redo ==
  /\ Goto("recovering", "recovering")
  /\ applied < Len(log)
  /\ ApplyPageImages(log[applied + 1])
  /\ applied' = applied + 1
  /\ UNCHANGED <<txnVars, log, rollbacks, committed, refusal>>

EndRecovery ==
  /\ Goto("recovering", "ready")
  /\ applied = Len(log)
  /\ applied' = 0
  /\ UNCHANGED <<pageVars, txnVars, log, rollbacks, committed, refusal>>

RedoInit ==
  /\ Init
  /\ phase = "ready"
  /\ inTxn = FALSE /\ undo = <<>> /\ pending = <<>>
  /\ log = <<>> /\ applied = 0 /\ rollbacks = 0
  /\ committed = <<>> /\ refusal = "none"

RedoNext ==
  \/ StartStatement \/ Change \/ RefusedInsert \/ LogChange
  \/ Begin \/ Commit \/ StartRollback \/ UndoStep \/ EndRollback
  \/ Crash \/ Redo \/ EndRecovery

(* Recovery runs to its end once it has begun.                             *)
RedoSpec == RedoInit /\ [][RedoNext]_redoVars /\ WF_redoVars(Redo \/ EndRecovery)

-----------------------------------------------------------------------------
(* Properties                                                              *)

(* Outside a transaction the table holds exactly the rows of the last      *)
(* commit, after any mix of commits, rollbacks and crashes: dirty pages    *)
(* taken per statement, with capacity and free list, are enough to rebuild *)
(* the heap although rolled-back changes were never logged.  An INSERT     *)
(* that append refuses changes no row; but the records of later statements *)
(* describe a heap whose rows are not in the cells of their row ids, so    *)
(* that this holds up to the next crash.                                   *)
RowsAreCommitted ==
  phase = "ready" /\ ~inTxn /\ refusal # "crashed" => LiveRows = committed

(* As long as nothing was rolled back, a recovered page store is one that  *)
(* exportPages can save and replaceFromPages will load again               *)
(* (validatePageStoreLayout) and whose free slots can be reused (append).  *)
(* A rolled back INSERT may have opened a page that no record holds.       *)
RecoveredLayoutIsValid == phase = "ready" /\ rollbacks = 0 => LayoutIsValid

(* Recovery always finishes: no logged image is refused ("page image       *)
(* capacity cannot shrink below current slots").                           *)
RecoveryFinishes == phase = "recovering" ~> phase = "ready"

=============================================================================
