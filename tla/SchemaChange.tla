---------------------------- MODULE SchemaChange ----------------------------
(***************************************************************************)
(* ALTER TABLE ADD, DROP [CASCADE] and RENAME COLUMN on a table with rows, *)
(* version chains, CHECK, UNIQUE and PRIMARY KEY constraints, indexes and  *)
(* foreign keys, between INSERT, UPDATE, DELETE, CREATE and DROP INDEX, in *)
(* and out of a transaction.                                               *)
(*                                                                         *)
(* The code stores a column as a position in rows and plain indexes and as *)
(* a name in constraints, expression indexes and foreign keys of any       *)
(* table, and each ALTER shifts the one and rewrites the other.  To say    *)
(* that they still mean the same columns every column carries an id the    *)
(* code does not have.                                                     *)
(*                                                                         *)
(* A column name is a sequence of words, so that joining names with "_" is *)
(* concatenation.  Which slot an INSERT takes is RowStore's matter, and    *)
(* referential actions are DmlSession's: no row refers to the subject.  A  *)
(* CHECK is one comparison.  A chain is the rows of its versions.          *)
(***************************************************************************)
EXTENDS Integers, Sequences, FiniteSets, SequencesExt, FiniteSetsExt

CONSTANTS Subject,       \* the table the statements are about
          Catalogs,      \* CREATE TABLE commands and rows by table
          NewColumns,    \* columns for ADD COLUMN: name, nullable and fill
          NewNames,      \* names for RENAME COLUMN
          NewIndexes,    \* CREATE INDEX: name, columns or an expression's column
          Vals,          \* integers
          MaxRows,       \* bound on the slots of the heap
          MaxStatements, \* bound on the statements of a behaviour
          Null, NoRow, NoName, NoFill

VARIABLES
  db,         \* [tables, undo, failed]: the tables, the undo log, an internal error
  active,     \* a transaction is open
  atBegin,    \* history: the tables when it began
  statements  \* statements so far

vars == <<db, active, atBegin, statements>>

RowIds == 1..MaxRows

-----------------------------------------------------------------------------
(* Columns, keys and indexes                                               *)

Position(schema, name) ==
  LET at == {i \in DOMAIN schema : schema[i].name = name}
  IN IF at = {} THEN 0 ELSE Min(at)

Names(schema) == {schema[i].name : i \in DOMAIN schema}
Positions(schema, names) == [k \in DOMAIN names |-> Position(schema, names[k])]
LiveRows(t) == {r \in RowIds : t.rows[r] # NoRow}

(* evaluateIndexExpression throws for a NULL.  The catalogs keep NULL out  *)
(* of a column that NewIndexes negates, so that v is a number.             *)
Negate(v) == -v

(* indexKeyForRow: positions for a plain index, the name for an expression.*)
IndexKey(schema, index, row) ==
  IF index.expression # NoName
    THEN <<Negate(row[Position(schema, index.expression)])>>
    ELSE [k \in DOMAIN index.columns |-> row[index.columns[k]]]

RebuildIndexes(t) ==
  [t EXCEPT !.indexes = [n \in DOMAIN @ |->
    [@[n] EXCEPT !.entries = {<<IndexKey(t.schema, t.indexes[n], t.rows[r]), r>> :
                                r \in LiveRows(t)}]]]

AddRowToIndexes(t, r) ==
  [t EXCEPT !.indexes = [n \in DOMAIN @ |->
    [@[n] EXCEPT !.entries = @ \cup {<<IndexKey(t.schema, t.indexes[n], t.rows[r]), r>>}]]]

RegisterIndex(t, name, columns, expression) ==
  [t EXCEPT !.indexes =
    name :> [columns |-> columns, expression |-> expression, entries |-> {}] @@ @]

DropIndexes(t, names) ==
  [t EXCEPT !.indexes = [n \in DOMAIN @ \ names |-> @[n]]]

(* Plain indexes over exactly these columns, in this order.                *)
Matching(t, names) ==
  {n \in DOMAIN t.indexes :
     /\ t.indexes[n].expression = NoName
     /\ t.indexes[n].columns = Positions(t.schema, names)}

-----------------------------------------------------------------------------
(* Constraints                                                             *)

AllUniqueConstraints(t) ==
  t.uniques \cup
  {[columns |-> <<c.name>>, primaryKey |-> c.primaryKey] :
     c \in {x \in Range(t.schema) : /\ x.unique \/ x.primaryKey
                                    /\ \A u \in t.uniques : u.columns # <<x.name>>}}

ConstraintIndexName(u) ==
  [kind |-> IF u.primaryKey THEN "pk" ELSE "uq", words |-> FlattenSeq(u.columns)]

(* The index std::map meets first: "__pk_" and "__uq_" before user names.  *)
FirstOf(names) ==
  LET rank(n) == CASE n.kind = "pk" -> 0 [] n.kind = "uq" -> 1 [] n.kind = "user" -> 2
  IN CHOOSE n \in names : \A m \in names : rank(n) <= rank(m)

(* Every UNIQUE gets an index unless one over its columns exists; it is an *)
(* error if the index's name is taken.                                     *)
Unindexed(t) == {u \in AllUniqueConstraints(t) : Matching(t, u.columns) = {}}

ConstraintIndexesFail(t) ==
  \E u \in Unindexed(t) :
    \/ ConstraintIndexName(u) \in DOMAIN t.indexes
    \/ \E w \in Unindexed(t) \ {u} : ConstraintIndexName(u) = ConstraintIndexName(w)

EnsureConstraintIndexes(t) ==
  LET missing == Unindexed(t)
      indexes == [n \in {ConstraintIndexName(u) : u \in missing} |->
                    LET u == CHOOSE x \in missing : ConstraintIndexName(x) = n
                    IN [columns |-> Positions(t.schema, u.columns),
                        expression |-> NoName, entries |-> {}]]
  IN RebuildIndexes([t EXCEPT !.indexes = indexes @@ @])

(* A comparison with NULL is unknown, and a CHECK that is not false holds. *)
CheckHolds(schema, check, row) ==
  LET left  == row[Position(schema, check.column)]
      right == IF check.rhsColumn = NoName THEN check.value
               ELSE row[Position(schema, check.rhsColumn)]
  IN Null \notin {left, right} => left < right

(* An index over the columns answers for the table; without one the rows   *)
(* are compared.                                                           *)
UniqueHolds(t, u, row, exclude) ==
  LET key  == [k \in DOMAIN u.columns |-> row[Position(t.schema, u.columns[k])]]
      with == Matching(t, u.columns)
      hits == IF with # {}
                THEN {e[2] : e \in {x \in t.indexes[FirstOf(with)].entries : x[1] = key}}
                ELSE {r \in LiveRows(t) : \A k \in DOMAIN key :
                        t.rows[r][Position(t.schema, u.columns[k])] = key[k]}
  IN Null \in Range(key) \/ hits \subseteq exclude

(* validateRow and enforceUniqueConstraints.                               *)
Admits(t, row, exclude) ==
  /\ Len(row) = Len(t.schema)
  /\ \A i \in DOMAIN row : row[i] = Null => t.schema[i].nullable
  /\ \A check \in t.checks : CheckHolds(t.schema, check, row)
  /\ \A u \in AllUniqueConstraints(t) : UniqueHolds(t, u, row, exclude)

(* assertForeignKeysOnChildRow.                                            *)
ForeignKeysHold(tables, t, row) ==
  \A fk \in t.fks :
    LET key    == [k \in DOMAIN fk.child |-> row[Position(t.schema, fk.child[k])]]
        parent == tables[fk.parentTable]
    IN \/ Null \in Range(key)
       \/ \E r \in LiveRows(parent) : \A k \in DOMAIN key :
            parent.rows[r][Position(parent.schema, fk.parent[k])] = key[k]

-----------------------------------------------------------------------------
(* ADD COLUMN                                                              *)

(* The pad of the existing rows and versions.                              *)
Pad(new) == IF new.fill = NoFill THEN Null ELSE new.fill

(* Mutant of AddRefused: live rows may go without a value.                 *)
AddRefusedByName(t, new) ==
  Position(t.schema, new.name) # 0 \/ (~new.nullable /\ new.fill = Null)

AddRefused(t, new) ==
  \/ Position(t.schema, new.name) # 0
  \/ ~new.nullable /\ new.fill = Null
  \/ ~new.nullable /\ new.fill = NoFill /\ LiveRows(t) # {}

(* transformRows of the version chains with the pad.                       *)
PadVersions(chains, v) == [r \in RowIds |-> [i \in DOMAIN chains[r] |-> Append(chains[r][i], v)]]

AddColumn(t, new, id) ==
  [t EXCEPT
    !.schema = Append(@, [id |-> id, name |-> new.name, nullable |-> new.nullable,
                          unique |-> FALSE, primaryKey |-> FALSE]),
    !.rows = [r \in RowIds |-> IF @[r] = NoRow THEN NoRow ELSE Append(@[r], Pad(new))],
    !.chains = PadVersions(@, Pad(new))]

-----------------------------------------------------------------------------
(* DROP COLUMN, and its undo                                               *)

IndexesOn(t, name) ==
  {n \in DOMAIN t.indexes :
     LET index == t.indexes[n]
     IN /\ n.kind = "user"
        /\ IF index.expression # NoName THEN index.expression = name
           ELSE Position(t.schema, name) \in Range(index.columns)}
ChecksOn(t, name) == {c \in t.checks : name \in {c.column, c.rhsColumn}}
ForeignKeysOn(t, name) == {fk \in t.fks : name \in Range(fk.child)}

(* Mutant of UniquesOn: the column's own UNIQUE flag is forgotten.         *)
TableUniquesOn(t, name) == {u \in t.uniques : name \in Range(u.columns)}

UniquesOn(t, name) == {u \in AllUniqueConstraints(t) : name \in Range(u.columns)}

ColumnIsForeignKeyParent(tables, table, name) ==
  \E other \in DOMAIN tables : \E fk \in tables[other].fks :
    fk.parentTable = table /\ name \in Range(fk.parent)

HasDependents(t, name) ==
  \/ IndexesOn(t, name) # {} \/ ChecksOn(t, name) # {}
  \/ ForeignKeysOn(t, name) # {} \/ UniquesOn(t, name) # {}

DropRefused(tables, table, name, cascade) ==
  LET t == tables[table] IN
  \/ Position(t.schema, name) = 0
  \/ Len(t.schema) <= 1
  \/ ColumnIsForeignKeyParent(tables, table, name)
  \/ ~cascade /\ HasDependents(t, name)

(* An index as a command names it.                                         *)
Definition(t, n) ==
  [name |-> n, expression |-> t.indexes[n].expression,
   columns |-> [k \in DOMAIN t.indexes[n].columns |-> t.schema[t.indexes[n].columns[k]].name]]

(* DroppedColumnCapture: what the undo of DROP COLUMN needs.               *)
Capture(t, name, cascade) ==
  LET at == Position(t.schema, name) IN
  [column |-> t.schema[at], at |-> at, cascaded |-> cascade,
   heap     |-> [r \in LiveRows(t) |-> t.rows[r][at]],
   versions |-> [r \in RowIds |-> [i \in DOMAIN t.chains[r] |-> t.chains[r][i][at]]],
   indexes  |-> {Definition(t, n) : n \in IndexesOn(t, name)},
   checks |-> ChecksOn(t, name), fks |-> ForeignKeysOn(t, name), uniques |-> UniquesOn(t, name)]

(* Plain indexes hold positions: those behind a dropped column move.       *)
ShiftDown(p, at) == IF p > at THEN p - 1 ELSE p
ShiftUp(p, at) == IF p >= at THEN p + 1 ELSE p

(* extractColumn and insertColumn of the version chains.                   *)
ExtractColumn(chains, at) ==
  [r \in RowIds |-> [i \in DOMAIN chains[r] |-> RemoveAt(chains[r][i], at)]]
InsertColumn(chains, at, values) ==
  [r \in RowIds |-> [i \in DOMAIN chains[r] |-> InsertAt(chains[r][i], at, values[r][i])]]

DropColumn(t, name) ==
  LET at   == Position(t.schema, name)
      kept == DropIndexes(t, IndexesOn(t, name) \cup
                             {ConstraintIndexName(u) : u \in UniquesOn(t, name)})
  IN RebuildIndexes(
       [kept EXCEPT
         !.schema  = RemoveAt(@, at),
         !.rows    = [r \in RowIds |-> IF @[r] = NoRow THEN NoRow ELSE RemoveAt(@[r], at)],
         !.chains  = ExtractColumn(@, at),
         !.checks  = @ \ ChecksOn(t, name),
         !.fks     = @ \ ForeignKeysOn(t, name),
         !.uniques = @ \ UniquesOn(t, name),
         !.indexes = [n \in DOMAIN @ |->
            [@[n] EXCEPT !.columns = [k \in DOMAIN @ |-> ShiftDown(@[k], at)]]]])

(* "index still references dropped column", thrown halfway.                *)
DropFails(t, name) ==
  LET gone == IndexesOn(t, name) \cup {ConstraintIndexName(u) : u \in UniquesOn(t, name)}
  IN \E n \in DOMAIN t.indexes \ gone : Position(t.schema, name) \in Range(t.indexes[n].columns)

(* Mutant of RestoreColumn: the positions of the other indexes stay.       *)
RestoreColumnUnshifted(t, capture) ==
  [t EXCEPT
    !.schema = InsertAt(@, capture.at, capture.column),
    !.rows   = [r \in RowIds |-> IF @[r] = NoRow THEN NoRow
                                 ELSE InsertAt(@[r], capture.at, capture.heap[r])],
    !.chains = InsertColumn(@, capture.at, capture.versions)]

(* restoreDroppedColumn: first the column in schema, rows and versions,    *)
RestoreColumn(t, capture) ==
  [t EXCEPT
    !.schema  = InsertAt(@, capture.at, capture.column),
    !.rows    = [r \in RowIds |-> IF @[r] = NoRow THEN NoRow
                                  ELSE InsertAt(@[r], capture.at, capture.heap[r])],
    !.chains  = InsertColumn(@, capture.at, capture.versions),
    !.indexes = [n \in DOMAIN @ |->
       [@[n] EXCEPT !.columns = [k \in DOMAIN @ |-> ShiftUp(@[k], capture.at)]]]]

(* then what CASCADE took: a one-column UNIQUE is a flag of the column.    *)
RestoreDependents(t, capture) ==
  LET constrained ==
        [t EXCEPT !.checks = @ \cup capture.checks,
                  !.fks = @ \cup capture.fks,
                  !.uniques = @ \cup {u \in capture.uniques :
                                        u.columns # <<capture.column.name>>}]
      indexed ==
        FoldSet(LAMBDA d, acc :
                  RegisterIndex(acc, d.name,
                    IF d.expression = NoName THEN Positions(t.schema, d.columns)
                    ELSE <<Position(t.schema, d.expression)>>, d.expression),
                constrained, capture.indexes)
  IN IF capture.cascaded THEN indexed ELSE t

RestoreDroppedColumn(t, capture) ==
  LET restored == RestoreDependents(RestoreColumn(t, capture), capture)
  IN IF capture.cascaded THEN EnsureConstraintIndexes(restored) ELSE RebuildIndexes(restored)

RestoreFails(t, capture) ==
  \/ capture.at > Len(t.schema) + 1
  \/ Position(t.schema, capture.column.name) # 0
  \/ \E r \in RowIds : /\ t.chains[r] # <<>>
                       /\ Len(t.chains[r]) # Len(capture.versions[r])
  \/ ~(LiveRows(t) \subseteq DOMAIN capture.heap)
  \/ \E d \in capture.indexes : d.name \in DOMAIN t.indexes
  \/ capture.cascaded
     /\ ConstraintIndexesFail(RestoreDependents(RestoreColumn(t, capture), capture))

-----------------------------------------------------------------------------
(* RENAME COLUMN                                                           *)

RenameIn(names, old, new) == [k \in DOMAIN names |-> IF names[k] = old THEN new ELSE names[k]]
RenameOne(name, old, new) == IF name = old THEN new ELSE name

(* A rename to the same name does nothing, whether there is such a column. *)
RenameRefused(t, old, new) ==
  old # new /\ (Position(t.schema, old) = 0 \/ Position(t.schema, new) # 0)

(* Constraint indexes are named after their columns: those over the        *)
(* renamed column are dropped and made anew, if they exist.                *)
RenamedIndexes(t, old, new) ==
  {<<ConstraintIndexName(u), ConstraintIndexName([u EXCEPT !.columns = RenameIn(@, old, new)])>> :
     u \in {x \in UniquesOn(t, old) : old # new /\ ConstraintIndexName(x) \in DOMAIN t.indexes}}

(* "failed to recreate constraint index", thrown after the rename.         *)
RenameFails(t, old, new) == \E p \in RenamedIndexes(t, old, new) : p[2] \in DOMAIN t.indexes

RenameInTable(t, old, new) ==
  LET pairs == RenamedIndexes(t, old, new)
      moved == [n \in {p[2] : p \in pairs} |->
                  t.indexes[CHOOSE o \in DOMAIN t.indexes : <<o, n>> \in pairs]]
      kept  == DropIndexes(t, {p[1] : p \in pairs})
      renamed ==
        [kept EXCEPT
          !.schema  = [i \in DOMAIN @ |-> [@[i] EXCEPT !.name = RenameOne(@, old, new)]],
          !.checks  = {[c EXCEPT !.column = RenameOne(@, old, new),
                                 !.rhsColumn = RenameOne(@, old, new)] : c \in @},
          !.uniques = {[u EXCEPT !.columns = RenameIn(@, old, new)] : u \in @},
          !.fks     = {[fk EXCEPT !.child = RenameIn(@, old, new)] : fk \in @},
          !.indexes = moved @@ [n \in DOMAIN @ |->
                                  [@[n] EXCEPT !.expression = RenameOne(@, old, new)]]]
  IN IF pairs = {} THEN renamed ELSE RebuildIndexes(renamed)

(* Mutant of RenameInParents: the other tables keep the old name.          *)
RenameOnlyHere(tables, table, old, new) == tables

(* rewriteForeignKeyParentColumn in every table but the renamed one.       *)
RenameInParents(tables, table, old, new) ==
  [other \in DOMAIN tables |->
     IF other = table THEN tables[other]
     ELSE [tables[other] EXCEPT !.fks =
             {IF fk.parentTable = table THEN [fk EXCEPT !.parent = RenameIn(@, old, new)]
              ELSE fk : fk \in @}]]

RenameColumn(tables, table, old, new) ==
  RenameInParents([tables EXCEPT ![table] = RenameInTable(@, old, new)], table, old, new)

-----------------------------------------------------------------------------
(* Undo: applyUndoRecord, newest record first, until one throws            *)

PopLatest(chain) == IF chain = <<>> THEN chain ELSE Front(chain)

UndoFails(tables, u) ==
  LET t == tables[Subject] IN
  CASE u.kind = "Insert" -> t.rows[u.row] = NoRow
    [] u.kind = "Update" -> t.rows[u.row] = NoRow \/ ~Admits(t, u.before, {u.row})
    [] u.kind = "Delete" -> t.rows[u.row] # NoRow \/ ~Admits(t, u.before, {u.row})
    [] u.kind = "CreateIndex" -> u.name \notin DOMAIN t.indexes
    [] u.kind = "DropIndex" -> \/ u.index.name \in DOMAIN t.indexes
                               \/ ~(Range(u.index.columns) \subseteq Names(t.schema))
    [] u.kind = "AlterAddColumn" -> \/ DropRefused(tables, Subject, u.name, FALSE)
                                    \/ DropFails(t, u.name)
    [] u.kind = "AlterDropColumn" -> RestoreFails(t, u.capture)
    [] u.kind = "AlterRenameColumn" -> \/ RenameRefused(t, u.new, u.old)
                                       \/ RenameFails(t, u.new, u.old)

(* CREATE INDEX, also as the undo of DROP INDEX.                           *)
CreateIndex(t, index) ==
  RebuildIndexes(RegisterIndex(t, index.name, Positions(t.schema, index.columns),
                               index.expression))

UndoRecord(tables, u) ==
  LET t == tables[Subject] IN
  IF u.kind = "AlterRenameColumn" THEN RenameColumn(tables, Subject, u.new, u.old)
  ELSE [tables EXCEPT ![Subject] =
    CASE u.kind = "Insert" ->
           RebuildIndexes([t EXCEPT !.rows[u.row] = NoRow, !.chains[u.row] = PopLatest(@)])
      [] u.kind = "Update" ->
           RebuildIndexes([t EXCEPT !.rows[u.row] = u.before, !.chains[u.row] = PopLatest(@)])
      [] u.kind = "Delete" -> RebuildIndexes([t EXCEPT !.rows[u.row] = u.before])
      [] u.kind = "CreateIndex" -> DropIndexes(t, {u.name})
      [] u.kind = "DropIndex" -> CreateIndex(t, u.index)
      [] u.kind = "AlterAddColumn" -> DropColumn(t, u.name)
      [] u.kind = "AlterDropColumn" -> RestoreDroppedColumn(t, u.capture)]

UndoAll(d) ==
  FoldRight(LAMBDA u, acc :
              IF acc.failed THEN acc
              ELSE IF UndoFails(acc.tables, u)
                THEN [acc EXCEPT !.failed = TRUE, !.undo = Front(@)]
                ELSE [acc EXCEPT !.tables = UndoRecord(@, u), !.undo = Front(@)],
            d.undo, d)

-----------------------------------------------------------------------------
(* Statements                                                              *)

T == db.tables[Subject]

(* A statement that succeeds, with the undo record of a transaction.       *)
Execute(tables, undo) ==
  /\ db' = [db EXCEPT !.tables = tables, !.undo = IF active THEN Append(@, undo) ELSE @]
  /\ statements' = statements + 1
  /\ UNCHANGED <<active, atBegin>>

(* An internal error, thrown with the work half done; what becomes of the  *)
(* table is not followed.                                                  *)
Fail ==
  /\ db' = [db EXCEPT !.failed = TRUE]
  /\ statements' = statements + 1
  /\ UNCHANGED <<active, atBegin>>

Put(t) == [db.tables EXCEPT ![Subject] = t]
Running == ~db.failed /\ statements < MaxStatements

AlterAddColumn ==
  /\ Running
  /\ \E new \in NewColumns :
       /\ ~AddRefused(T, new)
       /\ Execute(Put(AddColumn(T, new, <<Subject, Len(T.schema) + 1, statements>>)),
                  [kind |-> "AlterAddColumn", name |-> new.name])

AlterDropColumn ==
  /\ Running
  /\ \E name \in Names(T.schema), cascade \in BOOLEAN :
       /\ ~DropRefused(db.tables, Subject, name, cascade)
       /\ IF DropFails(T, name) THEN Fail
          ELSE Execute(Put(DropColumn(T, name)),
                       [kind |-> "AlterDropColumn", capture |-> Capture(T, name, cascade)])

AlterRenameColumn ==
  /\ Running
  /\ \E old \in Names(T.schema), new \in NewNames :
       /\ ~RenameRefused(T, old, new)
       /\ IF RenameFails(T, old, new) THEN Fail
          ELSE Execute(RenameColumn(db.tables, Subject, old, new),
                       [kind |-> "AlterRenameColumn", old |-> old, new |-> new])

CreateIndexStmt ==
  /\ Running
  /\ \E index \in NewIndexes :
       /\ index.name \notin DOMAIN T.indexes
       /\ Range(index.columns) \subseteq Names(T.schema)
       /\ Execute(Put(CreateIndex(T, index)), [kind |-> "CreateIndex", name |-> index.name])

DropIndexStmt ==
  /\ Running
  /\ \E n \in DOMAIN T.indexes :
       /\ n.kind = "user"
       /\ Execute(Put(DropIndexes(T, {n})), [kind |-> "DropIndex", index |-> Definition(T, n)])

Insert ==
  /\ Running
  /\ \E r \in RowIds \ LiveRows(T) : \E row \in [DOMAIN T.schema -> Vals \cup {Null}] :
       /\ Admits(T, row, {})
       /\ ForeignKeysHold(db.tables, T, row)
       /\ Execute(Put(AddRowToIndexes([T EXCEPT !.rows[r] = row,
                                                !.chains[r] = Append(@, row)], r)),
                  [kind |-> "Insert", row |-> r])

Update ==
  /\ Running
  /\ \E r \in LiveRows(T), i \in DOMAIN T.schema, v \in Vals \cup {Null} :
       LET row == [T.rows[r] EXCEPT ![i] = v] IN
       /\ Admits(T, row, {r})
       /\ ForeignKeysHold(db.tables, T, row)
       /\ Execute(Put(RebuildIndexes([T EXCEPT !.rows[r] = row, !.chains[r] = Append(@, row)])),
                  [kind |-> "Update", row |-> r, before |-> T.rows[r]])

Delete ==
  /\ Running
  /\ \E r \in LiveRows(T) :
       Execute(Put(RebuildIndexes([T EXCEPT !.rows[r] = NoRow])),
               [kind |-> "Delete", row |-> r, before |-> T.rows[r]])

Begin ==
  /\ ~active /\ Running
  /\ active' = TRUE
  /\ atBegin' = db.tables
  /\ db' = [db EXCEPT !.undo = <<>>]
  /\ UNCHANGED statements

Commit ==
  /\ active /\ ~db.failed
  /\ active' = FALSE
  /\ db' = [db EXCEPT !.undo = <<>>]
  /\ UNCHANGED <<atBegin, statements>>

Rollback ==
  /\ active /\ ~db.failed
  /\ db' = UndoAll(db)
  /\ active' = db'.failed
  /\ UNCHANGED <<atBegin, statements>>

-----------------------------------------------------------------------------
(* CREATE TABLE.  The parser turns a one-column UNIQUE into a flag, and    *)
(* the columns of a PRIMARY KEY become NOT NULL.                           *)
CreateTable(table, command) ==
  LET keyed(name) == \E u \in command.uniques : u.primaryKey /\ name \in Range(u.columns)
  IN EnsureConstraintIndexes(
       [schema  |-> [i \in DOMAIN command.columns |->
                       LET c == command.columns[i] IN
                       [id |-> <<table, i, 0>>, name |-> c.name,
                        nullable |-> c.nullable /\ ~keyed(c.name),
                        unique |-> c.unique, primaryKey |-> c.primaryKey]],
        rows    |-> [r \in RowIds |-> NoRow],
        chains  |-> [r \in RowIds |-> <<>>],
        checks  |-> command.checks,
        uniques |-> command.uniques,
        fks     |-> command.fks,
        indexes |-> [n \in {} |-> NoName]])

Load(t, rows) ==
  RebuildIndexes([t EXCEPT !.rows = [r \in RowIds |-> IF r \in DOMAIN rows THEN rows[r] ELSE NoRow],
                           !.chains = [r \in RowIds |-> IF r \in DOMAIN rows THEN <<rows[r]>>
                                                        ELSE <<>>]])

Init ==
  /\ \E catalog \in Catalogs :
       db = [tables |-> [table \in DOMAIN catalog.tables |->
                Load(CreateTable(table, catalog.tables[table]), catalog.rows[table])],
             undo |-> <<>>, failed |-> FALSE]
  /\ active = FALSE
  /\ atBegin = db.tables
  /\ statements = 0

Next ==
  \/ AlterAddColumn \/ AlterDropColumn \/ AlterRenameColumn
  \/ CreateIndexStmt \/ DropIndexStmt
  \/ Insert \/ Update \/ Delete
  \/ Begin \/ Commit \/ Rollback

Spec == Init /\ [][Next]_vars

-----------------------------------------------------------------------------
(* What names and positions mean: the ids of the columns.  A name that is  *)
(* no column means nothing.                                                *)

IdOf(schema, name) ==
  IF Position(schema, name) = 0 THEN NoName ELSE schema[Position(schema, name)].id
IdsOf(schema, names) == [k \in DOMAIN names |-> IdOf(schema, names[k])]
Ids(schema) == {schema[i].id : i \in DOMAIN schema}

Values(schema, row) ==
  [id \in Ids(schema) |-> row[CHOOSE i \in DOMAIN schema : schema[i].id = id]]

(* Constraints and indexes of all tables, each with the columns it is over.*)
Meanings(tables) ==
  UNION {
    LET s == tables[n].schema IN
    {[of |-> n, what |-> <<"check", c.value>>, over |-> IdsOf(s, <<c.column>> \o
        IF c.rhsColumn = NoName THEN <<>> ELSE <<c.rhsColumn>>)] : c \in tables[n].checks}
    \cup {[of |-> n, what |-> <<"unique", u.primaryKey>>, over |-> IdsOf(s, u.columns)] :
            u \in AllUniqueConstraints(tables[n])}
    \cup {[of |-> n, what |-> <<"foreign key">>, over |-> IdsOf(s, fk.child) \o
             IdsOf(tables[fk.parentTable].schema, fk.parent)] : fk \in tables[n].fks}
    \cup {LET index == tables[n].indexes[i] IN
          [of |-> n, what |-> <<"index", i.kind>>, over |->
             IF index.expression # NoName THEN <<IdOf(s, index.expression)>>
             ELSE [k \in DOMAIN index.columns |-> s[index.columns[k]].id]] :
            i \in DOMAIN tables[n].indexes}
    : n \in DOMAIN tables}

-----------------------------------------------------------------------------
(* Properties                                                              *)

Altered == active' = active /\ db'.tables[Subject].schema # T.schema

(* An ALTER TABLE (Table::addColumn, dropColumn, renameColumn) leaves      *)
(* every value of the columns that stay where it was, in live rows and in  *)
(* versions, and it leaves exactly the constraints, indexes and foreign    *)
(* keys of all tables that are over columns that stay, meaning the same    *)
(* columns under their new names and positions.                            *)
AlterKeepsTheRest ==
  [][Altered =>
      LET t    == db'.tables[Subject]
          stay == Ids(T.schema) \cap Ids(t.schema)
          gone == Ids(T.schema) \ stay
          same(old, new) == \A id \in stay : Values(T.schema, old)[id] = Values(t.schema, new)[id]
      IN /\ LiveRows(t) = LiveRows(T)
         /\ \A r \in LiveRows(T) : same(T.rows[r], t.rows[r])
         /\ \A r \in RowIds : /\ Len(t.chains[r]) = Len(T.chains[r])
                              /\ \A i \in DOMAIN T.chains[r] : same(T.chains[r][i], t.chains[r][i])
         /\ Meanings(db'.tables) = {m \in Meanings(db.tables) : Range(m.over) \cap gone = {}}]_vars

(* At any point of a transaction its undo log, applied backwards, gives    *)
(* back the tables of BEGIN: columns, rows, versions, constraints, foreign *)
(* keys of other tables, indexes and their entries.                        *)
RollbackRestoresTables == active /\ ~db.failed => UndoAll(db).tables = atBegin

(* No ALTER TABLE is stopped halfway by an internal error (an index that   *)
(* still refers to the dropped column, a constraint index that cannot be   *)
(* made), and no undo record throws at any point of a transaction.         *)
NoInternalError == ~db.failed /\ (active => ~UndoAll(db).failed)

(* Live rows have the schema's width and satisfy NOT NULL, CHECK and       *)
(* UNIQUE (compared row by row), though enforceUniqueConstraints asks      *)
(* indexes that ALTER TABLE shifted, renamed or rebuilt; versions have the *)
(* schema's width.                                                         *)
ConstraintsHold ==
  /\ \A r \in LiveRows(T) :
       /\ Len(T.rows[r]) = Len(T.schema)
       /\ \A i \in DOMAIN T.schema : T.rows[r][i] = Null => T.schema[i].nullable
       /\ \A check \in T.checks : CheckHolds(T.schema, check, T.rows[r])
       /\ \A u \in AllUniqueConstraints(T), other \in LiveRows(T) \ {r} :
            LET key(row) == [k \in DOMAIN u.columns |-> row[Position(T.schema, u.columns[k])]]
            IN Null \in Range(key(T.rows[r])) \/ key(T.rows[r]) # key(T.rows[other])
  /\ \A r \in RowIds : \A i \in DOMAIN T.chains[r] : Len(T.chains[r][i]) = Len(T.schema)

=============================================================================
