---------------------------- MODULE MCDmlSession ----------------------------
(* Model-checking instances of DmlSession.                                 *)
EXTENDS DmlSession, TLC

CONSTANTS v1, v2, v3

TwoVals == {v1, v2}
ThreeVals == {v1, v2, v3}
ValSymmetry == Permutations(TwoVals)

ForeignKey(child, columns, parent, references, del, upd) ==
  [child |-> child, columns |-> columns, parent |-> parent, references |-> references,
   onDelete |-> del, onUpdate |-> upd]

(* A parent with a key of all its columns and a child with a nullable      *)
(* reference to it.                                                        *)
ParentAndChild(width, del, upd) ==
  LET key == [c \in 1..width |-> c] IN
  [vals    |-> TwoVals,
   tables  |-> {"parent", "child"},
   width   |-> [t \in {"parent", "child"} |-> width],
   unique  |-> [parent |-> {key}, child |-> {}],
   notNull |-> [parent |-> 1..width, child |-> {}],
   fks     |-> <<ForeignKey("child", key, "parent", key, del, upd)>>,
   insert  |-> {}, update |-> {}, delete |-> {}, maxBatch |-> 1,
   maxRows |-> 2, maxVersions |-> 2, maxUndo |-> 2]

Both == {"parent", "child"}

(* Keys of one column, two rows in each table.                             *)
OneColumn(del, upd, inserted, updated, deleted) ==
  [ParentAndChild(1, del, upd) EXCEPT !.insert = inserted, !.update = updated,
                                      !.delete = deleted]

(* Keys of two columns, one row in each table: SET NULL writes two         *)
(* versions for one undo record.                                           *)
TwoColumns(del, upd, updated, deleted) ==
  [ParentAndChild(2, del, upd) EXCEPT !.update = updated, !.delete = deleted,
                                      !.maxRows = 1, !.maxVersions = 3]

(* Rows (id, parent) of a table that refers to itself.                     *)
Nodes(del, upd, updated, rows) ==
  [vals |-> TwoVals,
   tables |-> {"nodes"}, width |-> [nodes |-> 2], unique |-> [nodes |-> {<<1>>}],
   notNull |-> [nodes |-> {1}],
   fks |-> <<ForeignKey("nodes", <<2>>, "nodes", <<1>>, del, upd)>>,
   insert |-> {}, update |-> updated, delete |-> {"nodes"}, maxBatch |-> 1,
   maxRows |-> rows, maxVersions |-> 3, maxUndo |-> rows]

(* a (id), b (id, a) and c (a, b): c refers to a directly and through b.   *)
Triangle(toA, cToB) ==
  [vals    |-> TwoVals,
   tables  |-> {"a", "b", "c"},
   width   |-> [a |-> 1, b |-> 2, c |-> 2],
   unique  |-> [a |-> {<<1>>}, b |-> {<<1>>}, c |-> {}],
   notNull |-> [a |-> {1}, b |-> {1}, c |-> {}],
   fks     |-> <<ForeignKey("b", <<2>>, "a", <<1>>, "Cascade", "NoAction"),
                 ForeignKey("c", <<1>>, "a", <<1>>, toA, "Cascade"),
                 ForeignKey("c", <<2>>, "b", <<1>>, cToB, "NoAction")>>,
   insert  |-> {}, update |-> {"a"}, delete |-> {"a", "b"}, maxBatch |-> 1,
   maxRows |-> 1, maxVersions |-> 3, maxUndo |-> 4]

EachAction ==
  {OneColumn("Cascade", "SetNull", {}, {"parent"}, {"parent"}),
   OneColumn("SetNull", "NoAction", {}, {"parent"}, Both),
   OneColumn("NoAction", "Cascade", {}, {"parent"}, Both),
   [OneColumn("NoAction", "NoAction", Both, {"child"}, {"child"})
      EXCEPT !.maxBatch = 2],
   TwoColumns("SetNull", "Cascade", Both, {"parent"}),
   TwoColumns("NoAction", "SetNull", {"parent"}, {}),
   [Nodes("Cascade", "NoAction", {}, 3) EXCEPT !.vals = ThreeVals],
   Nodes("SetNull", "Cascade", {"nodes"}, 2),
   Nodes("Cascade", "SetNull", {"nodes"}, 2),
   Triangle("SetNull", "Cascade"),
   Triangle("Cascade", "SetNull"),
   Triangle("SetNull", "SetNull")}

ParentsOnly ==
  {[OneColumn("NoAction", "NoAction", {"parent"}, {}, {"parent"})
      EXCEPT !.maxRows = 1]}

(* A parent of a parent, and two references to one parent.                 *)
Chain ==
  {[Triangle("NoAction", "NoAction") EXCEPT
     !.update = {"a", "c"},
     !.fks = <<ForeignKey("b", <<1>>, "a", <<1>>, "NoAction", "Cascade"),
               ForeignKey("c", <<2>>, "b", <<1>>, "NoAction", "NoAction")>>]}
TwoReferences ==
  {[Triangle("NoAction", "NoAction") EXCEPT
     !.update = {"a", "c"},
     !.fks = <<ForeignKey("c", <<1>>, "a", <<1>>, "NoAction", "Cascade"),
               ForeignKey("c", <<2>>, "a", <<1>>, "NoAction", "Cascade")>>]}

(* Every database of the schema; Init takes the consistent ones.           *)
AllDatabases(x) ==
  LET rows(t) == {row \in [1..x.width[t] -> x.vals \cup {Null}] :
                    \A c \in x.notNull[t] : row[c] # Null}
  IN FoldLeft(LAMBDA D, t : {d @@ (t :> s) : d \in D, s \in BoundedSeq(rows(t), x.maxRows)},
              {<<>>}, SetToSeq(x.tables))

(* References hold without exception.                                      *)
NoDanglingReference == \A i \in DOMAIN fks : ReferenceHolds(fks[i])

(* What BEGIN recorded means nothing once the transaction is over.         *)
StateView == IF active THEN vars ELSE <<schema, db>>

=============================================================================
