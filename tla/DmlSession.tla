----------------------------- MODULE DmlSession -----------------------------
(***************************************************************************)
(* One QueryExecutor with an SQL transaction: DmlEngine executing INSERTs  *)
(* of several rows, and UPDATEs and DELETEs of the rows a WHERE clause     *)
(* picks, on tables joined by FOREIGN KEYs with every ON DELETE and ON     *)
(* UPDATE action (references of a table to itself, chains and several      *)
(* references to one table included), and TxnSession with its undo log.    *)
(*                                                                         *)
(* A statement is one step.  UPDATE and DELETE collect the rows first and  *)
(* then work on them one by one with the images they collected; so do the  *)
(* referential actions.  A statement that throws keeps what it changed.    *)
(* With no concurrent commit isSerializable is always true here.           *)
(***************************************************************************)
EXTENDS TableUndo

CONSTANTS MaxDepth,        \* kMaxReferentialActionDepth
          Databases(_)     \* the databases a workload starts from

ASSUME MaxDepthAssumption == MaxDepth \in Nat \ {0}

VARIABLES
  db,         \* [heap, free, chains, undo, error, clock, visiting, deleted]
  active,     \* a transaction is open
  beginHeap,  \* history: the live rows when it began
  beginView   \* history: the visible rows when it began

vars == <<schema, db, active, beginHeap, beginView>>

fks == schema.fks
Values(t, c) == schema.vals \cup (IF c \in schema.notNull[t] THEN {} ELSE {Null})
Rows(t) == {row \in [Cols(t) -> schema.vals \cup {Null}] : IsValidRow(t, row)}

-----------------------------------------------------------------------------
(* Foreign keys                                                            *)

(* The parent's key has an index over the rows on the heap; the visible    *)
(* versions are scanned only when the index has no hit.                    *)
ParentKeyVisible(s, fk, key, snapshot) ==
  LET p    == fk.parent
      hits == {r \in RowIds : Live(s, p, r) /\ KeyOf(s.heap[p][r], fk.references) = key}
      row(r) == ReadRow(s, p, r, snapshot)
  IN IF hits # {} THEN \E r \in hits : row(r) # NoRow
     ELSE \E r \in RowIds : row(r) # NoRow /\ KeyOf(row(r), fk.references) = key

(* assertForeignKeysOnChildRow.  MATCH SIMPLE: a key with a NULL part      *)
(* refers to nothing.                                                      *)
ForeignKeysHold(s, t, row, snapshot) ==
  \A i \in DOMAIN fks :
    LET key == KeyOf(row, fks[i].columns) IN
    fks[i].child = t => HasNullPart(key) \/ ParentKeyVisible(s, fks[i], key, snapshot)

(* The rows of the child with a key, from the index over its columns if    *)
(* they are a key of the child, otherwise from the visible versions.       *)
VisibleChildrenForKey(s, fk, key, snapshot) ==
  LET t == fk.child
      found(row) == row # NoRow /\ KeyOf(row, fk.columns) = key
  IN {r \in RowIds :
        IF fk.columns \in schema.unique[t]
          THEN found(HeapRow(s, t, r)) /\ ReadRow(s, t, r, snapshot) # NoRow
          ELSE found(ReadRow(s, t, r, snapshot))}

(* Mutant of HitsOf: it stops at the first child.                          *)
FirstHitOf(s, fk, key, snapshot) ==
  LET all == Ascending(VisibleChildrenForKey(s, fk, key, snapshot), schema.maxRows)
  IN IF all = <<>> THEN <<>>
     ELSE <<[fk |-> fk, id |-> all[1], row |-> ReadRow(s, fk.child, all[1], snapshot)]>>

HitsOf(s, fk, key, snapshot) ==
  LET all == Ascending(VisibleChildrenForKey(s, fk, key, snapshot), schema.maxRows)
  IN [i \in DOMAIN all |-> [fk |-> fk, id |-> all[i],
                            row |-> ReadRow(s, fk.child, all[i], snapshot)]]

(* collectReferencingChildren: what refers to a row that loses the key it  *)
(* has and gets the one of the new image, if there is one.                 *)
ReferencingChildren(s, t, row, new, snapshot) ==
  LET lost(fk) == /\ fk.parent = t
                  /\ ~HasNullPart(KeyOf(row, fk.references))
                  /\ new # NoRow => KeyOf(new, fk.references) # KeyOf(row, fk.references)
  IN FlattenSeq([i \in DOMAIN fks |->
       IF lost(fks[i]) THEN HitsOf(s, fks[i], KeyOf(row, fks[i].references), snapshot)
       ELSE <<>>])

-----------------------------------------------------------------------------
(* DmlEngine                                                               *)

(* writeTransactionId: outside a transaction it takes a new id, which is   *)
(* committed at once.                                                      *)
TakeId(s) == IF active THEN s ELSE [s EXCEPT !.clock = @ + 1]
Writer(s) == IF active THEN Active ELSE s.clock

PushUndo(s, t, kind, r, before) ==
  IF active
    THEN [s EXCEPT !.undo = Append(@, [table |-> t, kind |-> kind, row |-> r,
                                       before |-> before])]
    ELSE s

(* Set columns of a row of which a statement collected an image: the       *)
(* constraints are tested on that image, the columns are written one       *)
(* Table::update at a time, and one undo record has the image.             *)
SetColumns(s, t, r, image, cols, v, writer, snapshot) ==
  LET new == [c \in DOMAIN image |-> IF c \in Range(cols) THEN v ELSE image[c]]
      after == FoldLeft(LAMBDA x, c : TableUpdate(x, t, r, c, v, writer), s, cols)
  IN CASE s.error -> s
       [] ~s.error /\ \/ ~IsValidRow(t, new)
                      \/ KeyTaken(s, t, new, {r})
                      \/ ~ForeignKeysHold(s, t, new, snapshot) -> Fail(s)
       [] OTHER -> IF after.error \/ ~Live(s, t, r) THEN after
                   ELSE PushUndo(after, t, "Update", r, image)

(* The referential actions of one kind on the children found, all columns  *)
(* of the key for SET NULL and the one that changes for CASCADE.           *)
ApplyChildFkUpdates(s, refs, wanted, c, v) ==
  LET started == TakeId(s)
      mapped(fk) == IF wanted = "SetNull" THEN fk.columns
                    ELSE <<fk.columns[Min({i \in DOMAIN fk.references : fk.references[i] = c})]>>
  IN IF s.error THEN s
     ELSE FoldLeft(LAMBDA x, hit :
                     IF hit.fk.onUpdate # wanted THEN x
                     ELSE SetColumns(x, hit.fk.child, hit.id, hit.row, mapped(hit.fk), v,
                                     Writer(started), s.clock),
                   started, refs)

(* ON UPDATE SET NULL works on the children before the parent changes, and *)
(* CASCADE after it, when the new key is visible.                          *)
UpdateRow(s, t, r, row, c, v, writer, snapshot) ==
  LET new    == [row EXCEPT ![c] = v]
      refs   == ReferencingChildren(s, t, row, new, snapshot)
      nulled == ApplyChildFkUpdates(s, refs, "SetNull", c, Null)
      parent == TableUpdate(nulled, t, r, c, v, writer)
      logged == IF parent.error \/ ~Live(nulled, t, r) THEN parent
                ELSE PushUndo(parent, t, "Update", r, row)
  IN CASE s.error -> s
       [] ~s.error /\ \/ ~IsValidRow(t, new)
                      \/ KeyTaken(s, t, new, {r})
                      \/ ~ForeignKeysHold(s, t, new, snapshot)
                      \/ \E i \in DOMAIN refs : refs[i].fk.onUpdate = "NoAction" -> Fail(s)
       [] OTHER -> ApplyChildFkUpdates(logged, refs, "Cascade", c, v)

(* Mutant of IsTooDeep: the deepest level allowed is refused.              *)
IsTooDeepByOne(depth) == depth >= MaxDepth

IsTooDeep(depth) == depth > MaxDepth

(* Mutant of LogErase: a cascaded delete is not undone.                    *)
LogEraseOfTargets(s, t, r, row, depth) ==
  IF depth = 1 THEN PushUndo(s, t, "Delete", r, row) ELSE s

LogErase(s, t, r, row, depth) == PushUndo(s, t, "Delete", r, row)

(* eraseRowWithReferentialActions: the children that CASCADE, with theirs, *)
(* then the ones SET NULL, then the row itself.                            *)
RECURSIVE EraseRow(_, _, _, _, _)
EraseRow(s, t, r, row, depth) ==
  LET key      == <<t, r>>
      snapshot == s.clock
      started  == TakeId([s EXCEPT !.visiting = @ \cup {key}])
      refs     == ReferencingChildren(s, t, row, NoRow, snapshot)
      Cascade(x, hit) ==
        IF hit.fk.onDelete # "Cascade" THEN x
        ELSE EraseRow(x, hit.fk.child, hit.id, hit.row, depth + 1)
      SetNull(x, hit) ==
        IF hit.fk.onDelete # "SetNull" \/ <<hit.fk.child, hit.id>> \in x.deleted THEN x
        ELSE SetColumns(x, hit.fk.child, hit.id, hit.row, hit.fk.columns, Null,
                        Writer(started), snapshot)
      cascaded == FoldLeft(Cascade, started, refs)
      nulled   == FoldLeft(SetNull, cascaded, refs)
      erased   == IF key \in nulled.deleted \/ ~Live(nulled, t, r) THEN nulled
                  ELSE [LogErase(TableErase(nulled, t, r, Writer(started)), t, r, row, depth)
                          EXCEPT !.deleted = @ \cup {key}]
  IN IF s.error THEN s
     ELSE IF IsTooDeep(depth) THEN Fail(s)
     ELSE IF key \in s.deleted \cup s.visiting THEN s
     ELSE IF \E i \in DOMAIN refs : refs[i].fk.onDelete = "NoAction" THEN Fail(s)
     ELSE IF nulled.error THEN nulled
     ELSE [erased EXCEPT !.visiting = @ \ {key}]

(* The rows a WHERE clause picks, in an order a plan may return them in:   *)
(* rows that are equal are picked together.                                *)
Targets(t) ==
  LET visible == {r \in RowIds : VisibleRow(db, t, r) # NoRow}
      picked(images) == {r \in visible : VisibleRow(db, t, r) \in images}
      images == {VisibleRow(db, t, r) : r \in visible}
  IN UNION {SetToSeqs(picked(I)) : I \in (SUBSET images) \ {{}}}

(* UPDATE takes its id before its snapshot, which so includes its changes. *)
UpdateRows(t, targets, c, v) ==
  LET started == TakeId(db) IN
  FoldLeft(LAMBDA x, r : UpdateRow(x, t, r, VisibleRow(db, t, r), c, v,
                                   Writer(started), started.clock),
           started, targets)

DeleteRows(t, targets) ==
  FoldLeft(LAMBDA x, r : EraseRow(x, t, r, VisibleRow(db, t, r), 1), db, targets)

(* executeInsert tests all rows before it inserts the first.               *)
InsertRows(t, rows) ==
  LET InsertRow(x, row) ==
        PushUndo(TableInsert(x, t, row, Writer(x)), t, "Insert", AppendSlot(x, t), NoRow)
  IN IF \A i \in DOMAIN rows :
          /\ ~KeyTaken(db, t, rows[i], {})
          /\ ForeignKeysHold(db, t, rows[i], db.clock)
          /\ \A j \in 1..(i - 1) : ~RowsConflictOnUnique(t, rows[i], rows[j])
       THEN FoldLeft(InsertRow, TakeId(db), rows)
       ELSE Fail(db)

(* Every version with one of the stamps has another one from now on.       *)
Restamp(s, stamps, outcome) ==
  LET stamp(x) == IF x \in stamps THEN outcome ELSE x
      settle(version) == [version EXCEPT !.createdBy = stamp(@),
                                         !.deletedBy = {stamp(x) : x \in @}]
  IN [s EXCEPT
       !.chains = [t \in schema.tables |-> [r \in RowIds |->
                     [i \in DOMAIN s.chains[t][r] |-> settle(s.chains[t][r][i])]]]]

(* The statement ends, having thrown or not, within the bounds of the      *)
(* instance.                                                               *)
EndStatement(s) ==
  /\ Len(s.undo) <= schema.maxUndo
  /\ \A t \in schema.tables : \A r \in RowIds : Len(s.chains[t][r]) <= schema.maxVersions
  /\ LET settled == IF active THEN s ELSE Restamp(s, 1..s.clock, Committed) IN
     db' = [settled EXCEPT !.error = FALSE, !.clock = 0, !.visiting = {}, !.deleted = {}]
  /\ UNCHANGED <<schema, active, beginHeap, beginView>>

Insert ==
  \E t \in schema.insert : \E rows \in BoundedSeq(Rows(t), schema.maxBatch) :
    /\ rows # <<>>
    /\ Len(db.heap[t]) - Len(db.free[t]) + Len(rows) <= schema.maxRows
    /\ EndStatement(InsertRows(t, rows))

Update ==
  \E t \in schema.update : \E targets \in Targets(t), c \in Cols(t) :
    \E v \in Values(t, c) : EndStatement(UpdateRows(t, targets, c, v))

Delete ==
  \E t \in schema.delete : \E targets \in Targets(t) : EndStatement(DeleteRows(t, targets))

-----------------------------------------------------------------------------
(* TxnSession, and executeCommit and executeRollback of QueryExecutor      *)

(* The versions of the open transaction become committed or aborted.       *)
EndTransaction(s, outcome) == [Restamp(s, {Active}, outcome) EXCEPT !.undo = <<>>]

Begin ==
  /\ ~active
  /\ active' = TRUE
  /\ beginHeap' = HeapRows(db)
  /\ beginView' = VisibleRows(db)
  /\ db' = [db EXCEPT !.undo = <<>>]
  /\ UNCHANGED schema

Commit ==
  /\ active
  /\ active' = FALSE
  /\ db' = EndTransaction(db, Committed)
  /\ UNCHANGED <<schema, beginHeap, beginView>>

(* A record that throws leaves the transaction open.                       *)
Rollback ==
  LET undone == UndoAll(db) IN
  /\ active
  /\ active' = undone.error
  /\ db' = IF undone.error THEN [undone EXCEPT !.error = FALSE]
           ELSE EndTransaction(undone, Aborted)
  /\ UNCHANGED <<schema, beginHeap, beginView>>

-----------------------------------------------------------------------------
(* A database that was just loaded: every row is one system version.       *)
Loaded(rows) ==
  [heap   |-> rows,
   free   |-> [t \in schema.tables |-> <<>>],
   chains |-> [t \in schema.tables |-> [r \in RowIds |->
                 IF r \in DOMAIN rows[t]
                   THEN <<[createdBy |-> Committed, deletedBy |-> {}, row |-> rows[t][r]]>>
                   ELSE <<>>]],
   undo   |-> <<>>,
   error  |-> FALSE, clock |-> 0, visiting |-> {}, deleted |-> {}]

(* No two rows share a key, and no row refers to a parent that is missing. *)
IsConsistent(s) ==
  \A t \in schema.tables : \A r \in DOMAIN s.heap[t] :
    Live(s, t, r) => /\ ~KeyTaken(s, t, s.heap[t][r], {r})
                     /\ ForeignKeysHold(s, t, s.heap[t][r], s.clock)

Init ==
  /\ schema \in Workloads
  /\ \E rows \in Databases(schema) : db = Loaded(rows)
  /\ IsConsistent(db)
  /\ active = FALSE
  /\ beginHeap = HeapRows(db)
  /\ beginView = VisibleRows(db)

Next == Insert \/ Update \/ Delete \/ Begin \/ Commit \/ Rollback

Spec == Init /\ [][Next]_vars

-----------------------------------------------------------------------------
(* Properties                                                              *)

(* The state Rollback would leave now.                                     *)
Undone == EndTransaction(UndoAll(db), Aborted)

(* The free list holds exactly the dead slots, each once: append, erase,   *)
(* revive and the undo of an insert keep PageRowStore's freeList_ in step  *)
(* with its slots, so no live row is ever overwritten by an insert.        *)
FreeListExact ==
  \A t \in schema.tables :
    /\ IsInjective(db.free[t])
    /\ Range(db.free[t]) = {r \in DOMAIN db.heap[t] : db.heap[t][r] = NoRow}

(* Every live row with a complete key has a live parent, and keys are      *)
(* unique among the live rows.                                             *)
KeysAreUnique ==
  \A t \in schema.tables : \A r \in RowIds :
    Live(db, t, r) => ~KeyTaken(db, t, db.heap[t][r], {r})

ReferenceHolds(fk) ==
  \A k \in RowIds :
    LET key == KeyOf(db.heap[fk.child][k], fk.columns) IN
    Live(db, fk.child, k) /\ ~HasNullPart(key)
      => \E r \in RowIds : /\ Live(db, fk.parent, r)
                           /\ KeyOf(db.heap[fk.parent][r], fk.references) = key

(* Exception: the key referred to is itself written by a referential       *)
(* action, and the actions on what refers to it are not taken.             *)
KeyIsWrittenByAction(fk) ==
  \E i \in DOMAIN fks :
    /\ fks[i].child = fk.parent
    /\ Range(fks[i].columns) \cap Range(fk.references) # {}
    /\ fks[i].onUpdate # "NoAction" \/ fks[i].onDelete = "SetNull"

(* Exception: ON UPDATE CASCADE meets a constraint of the child after the  *)
(* parent was updated: a key of its own, a NOT NULL column, or another     *)
(* reference, of which the image collected still has the old key.          *)
CascadeMayBeRefused(fk) ==
  /\ fk.onUpdate = "Cascade"
  /\ \/ \E cols \in schema.unique[fk.child] : Range(cols) \cap Range(fk.columns) # {}
     \/ /\ Range(fk.columns) \cap schema.notNull[fk.child] # {}
        /\ ~(Range(fk.references) \subseteq schema.notNull[fk.parent])
     \/ \E i \in DOMAIN fks :
          /\ fks[i] # fk /\ fks[i].child = fk.child
          /\ \/ fks[i].parent = fk.parent
             \/ Range(fks[i].columns) \cap Range(fk.columns) # {}

(* Keys are unique among the live rows, and every live row with a complete *)
(* key has a live parent: through cascades, SET NULL, statements that stop *)
(* in the middle and rollbacks (eraseRowWithReferentialActions,            *)
(* applyChildFkUpdates), up to the two exceptions above.                   *)
ReferentialIntegrity ==
  /\ KeysAreUnique
  /\ \A i \in DOMAIN fks :
       \/ ReferenceHolds(fks[i])
       \/ KeyIsWrittenByAction(fks[i])
       \/ CascadeMayBeRefused(fks[i])

(* At any point of a transaction the undo log can be applied to its end:   *)
(* no applyUndoRecord throws "failed to undo ..." or a unique violation.   *)
RollbackNeverFails == active => ~UndoAll(db).error

(* At any point of a transaction ROLLBACK would put the heap back to the   *)
(* rows it had at BEGIN, row by row and at the same row ids, whatever the  *)
(* statements before it had changed when they threw.                       *)
RollbackRestoresHeap == active => HeapRows(Undone) = beginHeap

(* At any point of a transaction ROLLBACK would make exactly the rows      *)
(* visible at BEGIN visible again (table.hpp: the undo helpers "reverse    *)
(* INSERT/UPDATE/DELETE without leaving abort residue in MVCC").           *)
RollbackRestoresView == active => VisibleRows(Undone) = beginView

(* A live row is visible with the contents the heap and the indexes give   *)
(* it, so an index probe and a scan agree on every row that exists.        *)
LiveRowsAreVisible ==
  \A t \in schema.tables : \A r \in RowIds :
    Live(db, t, r) => VisibleRow(db, t, r) = HeapRow(db, t, r)

-----------------------------------------------------------------------------
(* What a DELETE means                                                     *)

LiveKeys == {k \in schema.tables \X RowIds : Live(db, k[1], k[2])}

(* Row k refers to row p by a foreign key with this action.                *)
RefersTo(k, p, fk) ==
  LET key == KeyOf(db.heap[k[1]][k[2]], fk.columns) IN
  /\ fk.child = k[1] /\ fk.parent = p[1]
  /\ ~HasNullPart(key)
  /\ key = KeyOf(db.heap[p[1]][p[2]], fk.references)

ChildrenOf(S, action) ==
  {k \in LiveKeys : \E p \in S : \E i \in DOMAIN fks :
     fks[i].onDelete = action /\ RefersTo(k, p, fks[i])}

(* The rows n levels of CASCADE below, and all rows that go with S.        *)
Level(S, n) == FoldLeft(LAMBDA X, i : ChildrenOf(X, "Cascade"), S, [i \in 1..n |-> i])
Doomed(S) == UNION {Level(S, n) : n \in 0..Cardinality(LiveKeys)}

(* The rows left, without their references to the ones that go.            *)
RowsWithout(D) ==
  [t \in schema.tables |-> [r \in RowIds |->
     IF <<t, r>> \notin LiveKeys \ D THEN NoRow
     ELSE [c \in Cols(t) |->
             IF \E i \in DOMAIN fks : /\ c \in Range(fks[i].columns)
                                      /\ fks[i].onDelete = "SetNull"
                                      /\ \E p \in D : RefersTo(<<t, r>>, p, fks[i])
               THEN Null ELSE db.heap[t][r][c]]]]

(* Exception: in a transaction, a row to be SET NULL has a second          *)
(* reference to a row that goes, and is tested with the image from before  *)
(* that one was set NULL.                                                  *)
HasSecondReference(D) ==
  active /\ \E k \in ChildrenOf(D, "SetNull") \ D :
    Cardinality({i \in DOMAIN fks : \E p \in D : RefersTo(k, p, fks[i])}) > 1

(* A DELETE that does not throw removes the rows picked and all that       *)
(* CASCADE from them, cycles included and no other, and empties exactly    *)
(* the references SET NULL to them.  It throws only for a reference with   *)
(* NO ACTION to one of these rows or for cascades MaxDepth levels deep     *)
(* (executeDelete, eraseRowWithReferentialActions).                        *)
DeletesAreExact ==
  \A t \in schema.delete : \A targets \in Targets(t) :
    LET S == {<<t, r>> : r \in Range(targets)}
        D == Doomed(S)
        after == DeleteRows(t, targets)
    IN IF after.error
         THEN \/ ChildrenOf(D, "NoAction") # {}
              \/ Level(S, MaxDepth) # {}
              \/ HasSecondReference(D)
         ELSE HeapRows(after) = RowsWithout(D)

=============================================================================
