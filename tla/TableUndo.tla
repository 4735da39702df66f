------------------------------ MODULE TableUndo ------------------------------
(***************************************************************************)
(* The tables a QueryExecutor works on, each with its heap, free list and  *)
(* MVCC chains, and the undo log that ROLLBACK applies backwards.          *)
(*                                                                         *)
(* The executor runs one statement at a time and at most one transaction,  *)
(* so a version needs no transaction id, only what a snapshot can tell: it *)
(* was written by the open transaction, by one rolled back, by a statement *)
(* that has ended, or by the running statement outside a transaction,      *)
(* which takes several ids and snapshots in turn.  COMMIT, ROLLBACK and    *)
(* the end of a statement settle the stamps.                               *)
(*                                                                         *)
(* The operators map a state s to the next one: a record of heap, free,    *)
(* chains and undo, and of what belongs to the running statement: error    *)
(* (it threw), clock (the ids it took), and the visiting and deleted sets  *)
(* of a cascade.                                                           *)
(***************************************************************************)
EXTENDS Integers, Sequences, FiniteSets, SequencesExt, FiniteSetsExt

CONSTANTS Vals,        \* values of a column
          Workloads,   \* schemas with the statements issued and the bounds
          Null,        \* SQL NULL
          NoRow        \* an empty slot, no visible version, no before image

Actions == {"NoAction", "Cascade", "SetNull"}

ASSUME MarkersAssumption == Null \notin Vals
ASSUME WorkloadsAssumption ==
  \A w \in Workloads :
    /\ w.vals \subseteq Vals                    \* values of the statements
    /\ \A t \in w.tables :
         /\ w.width[t] \in Nat \ {0}            \* number of columns
         /\ w.notNull[t] \subseteq 1..w.width[t]
         /\ \A cols \in w.unique[t] : cols \in Seq(1..w.width[t])
    /\ \A i \in DOMAIN w.fks :                  \* validateForeignKeyDefinitions
         LET fk == w.fks[i] IN
         /\ fk.columns \in Seq(1..w.width[fk.child])
         /\ Len(fk.columns) = Len(fk.references)
         /\ fk.references \in w.unique[fk.parent]
         /\ fk.onDelete \in Actions /\ fk.onUpdate \in Actions
         /\ "SetNull" \in {fk.onDelete, fk.onUpdate}
              => Range(fk.columns) \cap w.notNull[fk.child] = {}
    /\ w.maxRows \in Nat        \* bound on the slots of each heap
    /\ w.maxVersions \in Nat    \* bound on the length of a version chain
    /\ w.maxUndo \in Nat        \* bound on the undo log

VARIABLE schema   \* the schema, the statements and the bounds: one of Workloads

RowIds == 1..schema.maxRows
Cols(t) == 1..schema.width[t]

(* The members of a set of naturals up to n in increasing order.           *)
Ascending(S, n) == SelectSeq([i \in 1..n |-> i], LAMBDA i : i \in S)

Fail(s) == [s EXCEPT !.error = TRUE]

-----------------------------------------------------------------------------
(* Reading                                                                 *)

Live(s, t, r) == r \in DOMAIN s.heap[t] /\ s.heap[t][r] # NoRow
HeapRow(s, t, r) == IF Live(s, t, r) THEN s.heap[t][r] ELSE NoRow

(* Stamps: 1, 2, ... are the ids of the running statement.                 *)
Committed == 0
Aborted == -1
Active == -2

(* A snapshot is the number of ids taken before it.                        *)
IsCreatorVisible(stamp, snapshot) == stamp # Aborted /\ stamp <= snapshot

IsVisible(version, snapshot) ==
  /\ IsCreatorVisible(version.createdBy, snapshot)
  /\ \A d \in version.deletedBy : ~IsCreatorVisible(d, snapshot)

ReadRow(s, t, r, snapshot) ==
  LET seen == {i \in DOMAIN s.chains[t][r] : IsVisible(s.chains[t][r][i], snapshot)}
  IN IF seen = {} THEN NoRow ELSE s.chains[t][r][Max(seen)].row

VisibleRow(s, t, r) == ReadRow(s, t, r, s.clock)

HeapRows(s) == [t \in schema.tables |-> [r \in RowIds |-> HeapRow(s, t, r)]]
VisibleRows(s) == [t \in schema.tables |-> [r \in RowIds |-> VisibleRow(s, t, r)]]

-----------------------------------------------------------------------------
(* Constraints of one table                                                *)

KeyOf(row, cols) == [i \in DOMAIN cols |-> row[cols[i]]]
HasNullPart(key) == \E i \in DOMAIN key : key[i] = Null

(* validateRow: the types and CHECKs are not modelled here.                *)
IsValidRow(t, row) == \A c \in schema.notNull[t] : row[c] # Null

RowsConflictOnUnique(t, left, right) ==
  \E cols \in schema.unique[t] :
    KeyOf(left, cols) = KeyOf(right, cols) /\ ~HasNullPart(KeyOf(left, cols))

(* enforceUniqueConstraints: another live row has a key of this one.       *)
KeyTaken(s, t, row, exclude) ==
  \E r \in RowIds \ exclude : Live(s, t, r) /\ RowsConflictOnUnique(t, row, s.heap[t][r])

-----------------------------------------------------------------------------
(* Table and MVCCRowStore                                                  *)

WriteVersion(chain, row, w) ==
  LET closed == IF chain # <<>> /\ Last(chain).deletedBy = {}
                  THEN [chain EXCEPT ![Len(chain)].deletedBy = {w}] ELSE chain
  IN Append(closed, [createdBy |-> w, deletedBy |-> {}, row |-> row])

(* popLatestVersion revives whatever version is left at the end.           *)
PopLatestVersion(chain) ==
  IF Len(chain) <= 1 THEN <<>>
  ELSE [Front(chain) EXCEPT ![Len(chain) - 1].deletedBy = {}]

ClearLatestDeletedBy(chain) ==
  IF chain = <<>> THEN chain ELSE [chain EXCEPT ![Len(chain)].deletedBy = {}]

AppendSlot(s, t) == IF s.free[t] # <<>> THEN Last(s.free[t]) ELSE Len(s.heap[t]) + 1

(* Mutant of TableInsert: the reused slot stays in the free list.          *)
TableInsertKeepsFree(s, t, row, w) ==
  LET r == AppendSlot(s, t) IN
  [s EXCEPT
    !.heap[t] = IF r \in DOMAIN @ THEN [@ EXCEPT ![r] = row] ELSE Append(@, row),
    !.chains[t][r] = WriteVersion(@, row, w)]

TableInsert(s, t, row, w) ==
  LET r == AppendSlot(s, t) IN
  [s EXCEPT
    !.heap[t] = IF r \in DOMAIN @ THEN [@ EXCEPT ![r] = row] ELSE Append(@, row),
    !.free[t] = IF @ = <<>> THEN @ ELSE Front(@),
    !.chains[t][r] = WriteVersion(@, row, w)]

(* Mutant of TableUpdate: no version is written.                           *)
TableUpdateHeapOnly(s, t, r, c, v, w) ==
  IF ~Live(s, t, r) THEN s ELSE [s EXCEPT !.heap[t][r][c] = v]

(* Table::update of one column of the row on the heap, which it validates  *)
(* again; it does nothing to a row the heap lacks.                         *)
TableUpdate(s, t, r, c, v, w) ==
  LET row == [s.heap[t][r] EXCEPT ![c] = v] IN
  IF s.error \/ ~Live(s, t, r) THEN s
  ELSE IF ~IsValidRow(t, row) \/ KeyTaken(s, t, row, {r}) THEN Fail(s)
  ELSE [s EXCEPT !.heap[t][r] = row, !.chains[t][r] = WriteVersion(@, row, w)]

TableErase(s, t, r, w) ==
  IF ~Live(s, t, r) THEN s
  ELSE [s EXCEPT !.heap[t][r] = NoRow,
                 !.free[t] = Append(@, r),
                 !.chains[t][r] = IF @ = <<>> THEN @
                                  ELSE [@ EXCEPT ![Len(@)].deletedBy = {w}]]

-----------------------------------------------------------------------------
(* Undo: the three compensating operations of Table, and their failures.   *)

UndoFails(s, u) ==
  CASE u.kind = "Insert" -> ~Live(s, u.table, u.row)
    [] u.kind = "Update" -> \/ ~Live(s, u.table, u.row)
                            \/ KeyTaken(s, u.table, u.before, {u.row})
    [] u.kind = "Delete" -> \/ u.row \notin Range(s.free[u.table])
                            \/ KeyTaken(s, u.table, u.before, {u.row})

UndoRecord(s, u) ==
  CASE u.kind = "Insert" ->      \* eraseDiscardingVersion
         [s EXCEPT !.heap[u.table][u.row] = NoRow,
                   !.free[u.table] = Append(@, u.row),
                   !.chains[u.table][u.row] = PopLatestVersion(@)]
    [] u.kind = "Update" ->      \* replaceRow
         [s EXCEPT !.heap[u.table][u.row] = u.before,
                   !.chains[u.table][u.row] = PopLatestVersion(@)]
    [] u.kind = "Delete" ->      \* revive
         [s EXCEPT !.heap[u.table][u.row] = u.before,
                   !.free[u.table] = Remove(@, u.row),
                   !.chains[u.table][u.row] = ClearLatestDeletedBy(@)]

(* Mutant of UndoAll: the records are applied oldest first.                *)
UndoAllForwards(s) ==
  FoldLeft(LAMBDA acc, u :
             IF acc.error \/ UndoFails(acc, u) THEN Fail(acc) ELSE UndoRecord(acc, u),
           s, s.undo)

(* ROLLBACK pops and applies the records until one throws; that one is     *)
(* popped as well.                                                         *)
UndoAll(s) ==
  FoldLeft(LAMBDA acc, u :
             LET popped == [acc EXCEPT !.undo = Front(@)] IN
             IF acc.error THEN acc
             ELSE IF UndoFails(popped, u) THEN Fail(popped)
             ELSE UndoRecord(popped, u),
           s, Reverse(s.undo))

=============================================================================
