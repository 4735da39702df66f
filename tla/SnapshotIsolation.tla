-------------------------- MODULE SnapshotIsolation --------------------------
(***************************************************************************)
(* One table shared by interleaved transactions: Table (heap row store,    *)
(* free list, MVCC version chains) driven together with the                *)
(* TransactionManager, the composition that src/docs/si_anomaly_wedge.md   *)
(* and the SI/SSI tests use.  Every Table operation is atomic (Table's     *)
(* mutex); operations of different transactions interleave.  Aborting      *)
(* changes the manager only, as TransactionManager::rollback does: the     *)
(* versions of an aborted writer stay in the chains.                       *)
(*                                                                         *)
(* Row ids are the conflict keys, numbered from 1, and a row is a function *)
(* from columns to values.  An std::optional<TransactionId> is a set with  *)
(* at most one element.                                                    *)
(***************************************************************************)
EXTENDS TransactionManager, Vectors, Integers, Sequences, FiniteSets, FiniteSetsExt, Functions

CONSTANTS Cols, Vals,   \* columns of the table and their values
          Loaded,       \* the tables to start from: sequences of rows
          MaxRows,      \* bound on the number of row ids
          MaxVersions,  \* bound on the versions transactions write
          NoRow         \* an empty heap slot, or no visible version

ASSUME ImagesAssumption == Images = [Cols -> Vals]
ASSUME KeysAssumption == MaxRows \in Nat /\ Keys = 1..MaxRows
ASSUME LoadedAssumption ==
  \A rows \in Loaded : rows \in Seq(Images) /\ Len(rows) <= MaxRows
ASSUME NoRowAssumption == NoRow \notin Images

VARIABLES heap,       \* rows_: a slot per row id
          freeList,   \* freeList_, used from the back
          versions    \* versions_: the chain of each row id, oldest first

tableVars == <<heap, freeList, versions>>
allVars == <<vars, tableVars>>

RowIds == Keys
System == 0

(* A table as it is created or loaded: refreshVersionsFromStore gives each *)
(* row of the snapshot one version of the system transaction.              *)
TableInit ==
  /\ Init
  /\ heap \in Loaded
  /\ freeList = <<>>
  /\ versions = [r \in RowIds |->
       IF r \in DOMAIN heap
         THEN <<[createdBy |-> System, deletedBy |-> {}, row |-> heap[r]]>>
         ELSE <<>>]

-----------------------------------------------------------------------------
(* Visibility                                                              *)

(* Mutant of IsCreatorVisible: the watermark is not compared.              *)
IsCreatorVisibleLatest(id, self, max) ==
  id = System \/ id = self \/ (id \in TxnIds /\ state[id] = "Committed")

IsCreatorVisible(id, self, max) ==
  \/ id = System
  \/ id = self
  \/ id \in TxnIds /\ state[id] = "Committed" /\ commitSeq[id] <= max

IsVisible(version, self, max) ==
  /\ IsCreatorVisible(version.createdBy, self, max)
  /\ \A d \in version.deletedBy : ~IsCreatorVisible(d, self, max)

(* MVCCRowStore::read: the newest visible version of the chain.            *)
Read(r, self, max) ==
  LET visible == {i \in DOMAIN versions[r] : IsVisible(versions[r][i], self, max)}
  IN IF visible = {} THEN NoRow ELSE versions[r][Max(visible)].row

(* What transaction t sees, and what the commits up to a sequence left.    *)
View(t, r) == Read(r, t, snapshotMaxCommitSeq[t])
CommittedAt(r, seq) == Read(r, System, seq)

-----------------------------------------------------------------------------
(* The row store and the version chains                                    *)

(* MVCCRowStore::write closes the prior live version, then pushes.         *)
WriteVersion(chain, row, writer) ==
  LET closed == IF chain # <<>> /\ Back(chain).deletedBy = {}
                  THEN [chain EXCEPT ![Len(chain)].deletedBy = {writer}]
                  ELSE chain
  IN Append(closed, [createdBy |-> writer, deletedBy |-> {}, row |-> row])

(* MVCCRowStore::erase                                                     *)
EraseVersion(chain, writer) ==
  IF chain = <<>> THEN chain ELSE [chain EXCEPT ![Len(chain)].deletedBy = {writer}]

(* The versions transactions have written.                                 *)
VersionCount ==
  Cardinality({p \in RowIds \X (1..MaxVersions + 1) :
                 /\ p[2] \in DOMAIN versions[p[1]]
                 /\ versions[p[1]][p[2]].createdBy # System})

(* RowStore::get                                                           *)
Live(r) == r \in DOMAIN heap /\ heap[r] # NoRow

(* The slot RowStore::append fills.                                        *)
AppendSlot == IF freeList # <<>> THEN Back(freeList) ELSE Len(heap) + 1

InsertRow(writer, r, row) ==
  /\ VersionCount < MaxVersions
  /\ r = AppendSlot
  /\ r \in RowIds
  /\ heap' = IF r \in DOMAIN heap THEN [heap EXCEPT ![r] = row] ELSE Append(heap, row)
  /\ freeList' = IF freeList # <<>> THEN PopBack(freeList) ELSE freeList
  /\ versions' = [versions EXCEPT ![r] = WriteVersion(@, row, writer)]

UpdateRow(writer, r, row) ==
  /\ VersionCount < MaxVersions
  /\ Live(r)
  /\ heap' = [heap EXCEPT ![r] = row]
  /\ versions' = [versions EXCEPT ![r] = WriteVersion(@, row, writer)]
  /\ UNCHANGED freeList

(* Mutant of EraseRow: the slot does not reach the free list.              *)
EraseRowLosesSlot(writer, r) ==
  /\ Live(r)
  /\ versions' = [versions EXCEPT ![r] = EraseVersion(@, writer)]
  /\ heap' = [heap EXCEPT ![r] = NoRow]
  /\ UNCHANGED freeList

EraseRow(writer, r) ==
  /\ Live(r)
  /\ versions' = [versions EXCEPT ![r] = EraseVersion(@, writer)]
  /\ heap' = [heap EXCEPT ![r] = NoRow]
  /\ freeList' = Append(freeList, r)

(* Table::update changes one column of the row the heap holds.             *)
UpdatedRow(r, c, v) == [heap[r] EXCEPT ![c] = v]

-----------------------------------------------------------------------------
(* Operations of an active transaction                                     *)

(* recordWrite and recordInsert, called by Table with the lock held.       *)
RecordChange(t, r, images) ==
  /\ activeWrites' = [activeWrites EXCEPT ![t] = @ \cup {r}]
  /\ everWrites' = [everWrites EXCEPT ![t] = @ \cup {r}]
  /\ activeInserts' = [activeInserts EXCEPT ![t] = @ \cup images]
  /\ everInserts' = [everInserts EXCEPT ![t] = @ \cup images]
  /\ UNCHANGED <<counters, records, activeReads, activePredicateReads, retained,
                 refused, everReads, everPredicates>>

Insert(t, row) ==
  /\ IsActive(t)
  /\ \E r \in RowIds : InsertRow(t, r, row) /\ RecordChange(t, r, {row})

Update(t, r, c, v) ==
  /\ IsActive(t)
  /\ UpdateRow(t, r, UpdatedRow(r, c, v))
  /\ RecordChange(t, r, {UpdatedRow(r, c, v)})

Erase(t, r) ==
  /\ IsActive(t)
  /\ EraseRow(t, r)
  /\ RecordChange(t, r, {})

(* Mutant of Scan: the predicate is not recorded, only the rows seen.      *)
ScanWithoutPredicate(t, p) ==
  LET seen == {r \in RowIds : View(t, r) # NoRow} IN
  /\ IsActive(t)
  /\ everPredicates' = [everPredicates EXCEPT ![t] = @ \cup {p}]
  /\ activeReads' = [activeReads EXCEPT ![t] = @ \cup seen]
  /\ everReads' = [everReads EXCEPT ![t] = @ \cup seen]
  /\ UNCHANGED <<counters, records, activeWrites, activePredicateReads, activeInserts,
                 retained, refused, everWrites, everInserts, tableVars>>

(* A scan with a predicate: collectVisibleEntries records the predicate    *)
(* and Table::visibleEntries records a read of every visible row.          *)
Scan(t, p) ==
  LET seen == {r \in RowIds : View(t, r) # NoRow} IN
  /\ IsActive(t)
  /\ activePredicateReads' = [activePredicateReads EXCEPT ![t] = @ \cup {p}]
  /\ everPredicates' = [everPredicates EXCEPT ![t] = @ \cup {p}]
  /\ activeReads' = [activeReads EXCEPT ![t] = @ \cup seen]
  /\ everReads' = [everReads EXCEPT ![t] = @ \cup seen]
  /\ UNCHANGED <<counters, records, activeWrites, activeInserts, retained, refused,
                 everWrites, everInserts, tableVars>>

(* rowsById of one row: a read is recorded only when the row is visible.   *)
RowById(t, r) ==
  /\ View(t, r) # NoRow
  /\ RecordRead(t, r)
  /\ UNCHANGED tableVars

(* Autocommit statements: the writer id is committed before the change.    *)
AutoInsert(row) == \E r \in RowIds : InsertRow(nextId, r, row) /\ Autocommit({r}, {row})

AutoUpdate(r, c, v) ==
  UpdateRow(nextId, r, UpdatedRow(r, c, v)) /\ Autocommit({r}, {UpdatedRow(r, c, v)})

AutoErase(r) == EraseRow(nextId, r) /\ Autocommit({r}, {})

Manager(t) ==
  /\ RollbackTxn(t) \/ CommitTxn(t) \/ CommitRefused(t)
  /\ UNCHANGED tableVars

TableNext ==
  \/ Begin /\ UNCHANGED tableVars
  \/ \E t \in TxnIds :
       \/ Manager(t)
       \/ \E row \in Images : Insert(t, row)
       \/ \E r \in RowIds, c \in Cols, v \in Vals : Update(t, r, c, v)
       \/ \E r \in RowIds : Erase(t, r) \/ RowById(t, r)
       \/ \E p \in Predicates : Scan(t, p)
  \/ \E row \in Images : AutoInsert(row)
  \/ \E r \in RowIds, c \in Cols, v \in Vals : AutoUpdate(r, c, v)
  \/ \E r \in RowIds : AutoErase(r)

TableSpec == TableInit /\ [][TableNext]_allVars

-----------------------------------------------------------------------------
(* Properties                                                              *)

Version == [createdBy : TxnIds \cup {System}, deletedBy : SUBSET TxnIds, row : Images]

(* The heap, the free list and the chains are well formed: the free slots  *)
(* are exactly the ones in the free list, each once, a live slot is backed *)
(* by a chain whose newest version nobody deleted.                         *)
TableOK ==
  /\ TypeOK
  /\ \A r \in RowIds : \A i \in DOMAIN versions[r] : versions[r][i] \in Version
  /\ Range(freeList) = {r \in DOMAIN heap : heap[r] = NoRow}
  /\ IsInjective(freeList)
  /\ \A r \in DOMAIN heap :
       Live(r) => versions[r] # <<>> /\ Back(versions[r]).deletedBy = {}

(* The places of a chain that carry the id of t.                           *)
Stamps(t, r) == {i \in DOMAIN versions[r] : versions[r][i].createdBy = t}
                  \cup {-i : i \in {j \in DOMAIN versions[r] : t \in versions[r][j].deletedBy}}

(* Non-repeatable reads and mid-transaction phantoms are prevented: while  *)
(* t is active, a step that does not stamp a version of r with t (so every *)
(* step of another transaction, commits included) leaves what t sees of r. *)
RepeatableReads ==
  [][\A t \in TxnIds, r \in RowIds :
       IsActive(t) /\ IsActive(t)' /\ Stamps(t, r)' \subseteq Stamps(t, r)
         => View(t, r)' = View(t, r)]_allVars

(* SSI over MVCC: what a committed transaction read by row id, and the     *)
(* rows its scans matched or would have matched, are in the state just     *)
(* before its commit what they were in its snapshot.  Its reads could have *)
(* happened at its commit, so the commit order explains them.              *)
ReadsCurrentAtCommit ==
  \A t \in TxnIds, r \in RowIds :
    state[t] = "Committed" =>
      LET old == CommittedAt(r, snapshotMaxCommitSeq[t])
          new == CommittedAt(r, commitSeq[t] - 1)
      IN (r \in everReads[t] \/ \E p \in everPredicates[t] : {old, new} \cap p # {})
           => old = new

=============================================================================
