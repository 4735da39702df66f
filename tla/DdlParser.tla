----------------------------- MODULE DdlParser -----------------------------
(***************************************************************************)
(* The DDL statements of Parser, and the text of CHECK constraints and     *)
(* index definitions in a snapshot.  Tokens, literals and predicates are   *)
(* DdlText's.                                                              *)
(***************************************************************************)
EXTENDS DdlText

-----------------------------------------------------------------------------
(* FOREIGN KEY                                                             *)

ActionAt(s, i) ==
  CASE AtWords(s, i, <<"NO", "ACTION">>) -> Got(i + 2, "NoAction")
    [] AtWord(s, i, "CASCADE") -> Got(i + 1, "Cascade")
    [] AtWords(s, i, <<"SET", "NULL">>) -> Got(i + 2, "SetNull")
    [] OTHER -> Bad

RECURSIVE ParseForeignKeyActions(_, _, _)
ParseForeignKeyActions(s, i, fk) ==
  LET action == ActionAt(s, i + 2) IN
  CASE ~AtWord(s, i, "ON") -> Got(i, fk)
    [] AtWords(s, i, <<"ON", "DELETE">>) /\ action.at # 0 ->
         ParseForeignKeyActions(s, action.at, [fk EXCEPT !.onDelete = action.got])
    [] AtWords(s, i, <<"ON", "UPDATE">>) /\ action.at # 0 ->
         ParseForeignKeyActions(s, action.at, [fk EXCEPT !.onUpdate = action.got])
    [] OTHER -> Bad

ForeignKeyOf(child, table, parent) ==
  [childColumns |-> child, parentTable |-> table, parentColumns |-> parent,
   onDelete |-> "NoAction", onUpdate |-> "NoAction"]

(* parseReferencesClause and the actions behind it.                        *)
ParseReferencesClause(s, i, child) ==
  LET parent == ParseColumnList(s, i + 1) IN
  IF ~At(s, i, "Identifier") \/ parent.at = 0 THEN Bad
  ELSE IF Len(parent.got) # Len(child) THEN Bad
  ELSE ParseForeignKeyActions(s, parent.at, ForeignKeyOf(child, s[i].lexeme, parent.got))

-----------------------------------------------------------------------------
(* CREATE TABLE.  t is what has been read so far.                          *)

WithCheck(t, r) == [t EXCEPT !.checks = Append(@, r.got)]
WithForeignKey(t, r) == [t EXCEPT !.fks = Append(@, r.got)]
WithUnique(t, r, primaryKey) ==
  [t EXCEPT !.uniques = Append(@, [columns |-> r.got, primaryKey |-> primaryKey]),
            !.sawPrimaryKey = @ \/ primaryKey]

EndColumn(i, c, t) ==
  IF c.primaryKey /\ (c.nullable \/ t.sawPrimaryKey) THEN Bad
  ELSE Got(i, [t EXCEPT !.columns = Append(@, c), !.sawPrimaryKey = @ \/ c.primaryKey])

Types == {"INT", "DOUBLE", "STRING"}
PlainColumn(name, type) ==
  [name |-> name, type |-> type, nullable |-> FALSE, unique |-> FALSE, primaryKey |-> FALSE]

RECURSIVE ParseAttributes(_, _, _, _, _)

AttributeCheck(s, r, c, saw, t) ==
  IF r.at = 0 THEN Bad ELSE ParseAttributes(s, r.at, c, saw, WithCheck(t, r))
AttributeReferences(s, r, c, saw, t) ==
  IF r.at = 0 THEN Bad ELSE ParseAttributes(s, r.at, c, saw, WithForeignKey(t, r))

(* The attributes of a column in any order; saw: its nullability is given. *)
ParseAttributes(s, i, c, saw, t) ==
  CASE AtWords(s, i, <<"NOT", "NULL">>) ->
         IF saw THEN Bad ELSE ParseAttributes(s, i + 2, [c EXCEPT !.nullable = FALSE], TRUE, t)
    [] AtWord(s, i, "NULL") ->
         IF saw THEN Bad ELSE ParseAttributes(s, i + 1, [c EXCEPT !.nullable = TRUE], TRUE, t)
    [] AtWords(s, i, <<"PRIMARY", "KEY">>) ->
         IF c.primaryKey THEN Bad
         ELSE ParseAttributes(s, i + 2, [c EXCEPT !.primaryKey = TRUE, !.unique = TRUE], saw, t)
    [] AtWord(s, i, "UNIQUE") -> ParseAttributes(s, i + 1, [c EXCEPT !.unique = TRUE], saw, t)
    [] AtWord(s, i, "CHECK") ->
         AttributeCheck(s, ParseCheckConstraintBody(s, i + 1), c, saw, t)
    [] AtWord(s, i, "REFERENCES") ->
         AttributeReferences(s, ParseReferencesClause(s, i + 1, <<c.name>>), c, saw, t)
    [] OTHER -> EndColumn(i, c, t)

ItemCheck(r, t) == IF r.at = 0 THEN Bad ELSE Got(r.at, WithCheck(t, r))
ItemUnique(r, t, primaryKey) ==
  IF r.at = 0 \/ (primaryKey /\ t.sawPrimaryKey) THEN Bad
  ELSE Got(r.at, WithUnique(t, r, primaryKey))
ItemReferences(s, child, t) ==
  LET r == ParseReferencesClause(s, PastWord(s, child.at, "REFERENCES"), child.got)
  IN IF child.at = 0 \/ r.at = 0 THEN Bad ELSE Got(r.at, WithForeignKey(t, r))

(* One item between commas.                                                *)
ParseItem(s, i, t) ==
  CASE AtWord(s, i, "CHECK") -> ItemCheck(ParseCheckConstraintBody(s, i + 1), t)
    [] AtWord(s, i, "FOREIGN") ->
         ItemReferences(s, ParseColumnList(s, PastWord(s, i + 1, "KEY")), t)
    [] AtWord(s, i, "PRIMARY") ->
         ItemUnique(ParseColumnList(s, PastWord(s, i + 1, "KEY")), t, TRUE)
    [] AtWord(s, i, "UNIQUE") -> ItemUnique(ParseColumnList(s, i + 1), t, FALSE)
    [] OTHER ->
         IF At(s, i, "Identifier") /\ \E type \in Types : AtWord(s, i + 1, type)
           THEN ParseAttributes(s, i + 2, PlainColumn(s[i].lexeme, s[i + 1].lexeme), FALSE, t)
           ELSE Bad

RECURSIVE MoreItems(_, _)
MoreItems(s, r) ==
  IF At(s, r.at, ",") THEN MoreItems(s, ParseItem(s, r.at + 1, r.got)) ELSE Closed(s, r)

ColumnNames(t) == {t.columns[i].name : i \in DOMAIN t.columns}

RECURSIVE CheckColumns(_)
CheckColumns(p) ==
  IF p.kind \in {"AND", "OR"} THEN CheckColumns(p.left) \cup CheckColumns(p.right)
  ELSE {p.column} \cup (IF p.rhsColumn = Nothing THEN {} ELSE {p.rhsColumn})

(* A PRIMARY KEY column may not be declared NULL, and every name that a    *)
(* constraint uses is a column.                                            *)
ConstraintsAreValid(t) ==
  /\ \A i \in DOMAIN t.uniques :
       /\ Range(t.uniques[i].columns) \subseteq ColumnNames(t)
       /\ t.uniques[i].primaryKey =>
            \A k \in DOMAIN t.columns :
              t.columns[k].name \in Range(t.uniques[i].columns) => ~t.columns[k].nullable
  /\ \A i \in DOMAIN t.checks : CheckColumns(t.checks[i]) \subseteq ColumnNames(t)
  /\ \A i \in DOMAIN t.fks : Range(t.fks[i].childColumns) \subseteq ColumnNames(t)

(* Constraints on one column become flags of the column.                   *)
Flagged(t, c) ==
  [c EXCEPT !.unique = @ \/ \E u \in Range(t.uniques) : u.columns = <<c.name>>,
            !.primaryKey = @ \/ \E u \in Range(t.uniques) : u.primaryKey /\ u.columns = <<c.name>>]

CreateTableCommand(name, t) ==
  [kind |-> "CREATE TABLE", table |-> name,
   columns |-> [i \in DOMAIN t.columns |-> Flagged(t, t.columns[i])],
   checks |-> t.checks, fks |-> t.fks,
   uniques |-> SelectSeq(t.uniques, LAMBDA u : Len(u.columns) # 1)]

NoItems == [columns |-> <<>>, checks |-> <<>>, fks |-> <<>>, uniques |-> <<>>,
            sawPrimaryKey |-> FALSE]

CreateTableFrom(name, r) ==
  IF r.at = 0 THEN Bad
  ELSE IF ~ConstraintsAreValid(r.got) THEN Bad
  ELSE Got(r.at, CreateTableCommand(name, r.got))

ParseCreateTable(s, i) ==
  IF At(s, i, "Identifier") /\ At(s, i + 1, "(")
    THEN CreateTableFrom(s[i].lexeme, MoreItems(s, ParseItem(s, i + 2, NoItems)))
    ELSE Bad

-----------------------------------------------------------------------------
(* ALTER TABLE                                                             *)

AddCommand(table, column, default) ==
  [kind |-> "ADD", table |-> table, column |-> column, default |-> default]

(* DEFAULT NULL needs a nullable column, another default its type.         *)
AddWithDefault(table, column, r) ==
  IF r.at = 0 THEN Bad
  ELSE IF (r.got.type = "NULL" /\ column.nullable) \/ r.got.type = column.type
    THEN Got(r.at, AddCommand(table, column, <<r.got>>))
    ELSE Bad

AddColumnFrom(s, i, table, column) ==
  IF AtWord(s, i, "DEFAULT") THEN AddWithDefault(table, column, ParseValue(s, i + 1))
  ELSE Got(i, AddCommand(table, column, <<>>))

ParseAddColumn(s, i, table) ==
  IF ~(At(s, i, "Identifier") /\ \E type \in Types : AtWord(s, i + 1, type)) THEN Bad
  ELSE CASE AtWords(s, i + 2, <<"NOT", "NULL">>) ->
              AddColumnFrom(s, i + 4, table, PlainColumn(s[i].lexeme, s[i + 1].lexeme))
         [] AtWord(s, i + 2, "NULL") ->
              AddColumnFrom(s, i + 3, table,
                [PlainColumn(s[i].lexeme, s[i + 1].lexeme) EXCEPT !.nullable = TRUE])
         [] OTHER -> Bad

ParseDropColumn(s, i, table) ==
  IF ~At(s, i, "Identifier") THEN Bad
  ELSE Got(IF AtWord(s, i + 1, "CASCADE") THEN i + 2 ELSE i + 1,
           [kind |-> "DROP", table |-> table, column |-> s[i].lexeme,
            cascade |-> AtWord(s, i + 1, "CASCADE")])

(* name word name, as in a TO b and i ON t.                                *)
AtPair(s, i, word) ==
  At(s, i, "Identifier") /\ AtWord(s, i + 1, word) /\ At(s, i + 2, "Identifier")

ParseRenameColumn(s, i, table) ==
  IF ~AtPair(s, i, "TO") THEN Bad
  ELSE Got(i + 3, [kind |-> "RENAME", table |-> table, oldName |-> s[i].lexeme,
                   newName |-> s[i + 2].lexeme])

ParseAlterTable(s, i) ==
  CASE ~At(s, i, "Identifier") -> Bad
    [] AtWords(s, i + 1, <<"ADD", "COLUMN">>) -> ParseAddColumn(s, i + 3, s[i].lexeme)
    [] AtWords(s, i + 1, <<"DROP", "COLUMN">>) -> ParseDropColumn(s, i + 3, s[i].lexeme)
    [] AtWords(s, i + 1, <<"RENAME", "COLUMN">>) -> ParseRenameColumn(s, i + 3, s[i].lexeme)
    [] OTHER -> Bad

-----------------------------------------------------------------------------
(* Indexes, and the other statements                                       *)

IndexCommand(name, table, columns, expression) ==
  [kind |-> "CREATE INDEX", name |-> name, table |-> table, columns |-> columns,
   expression |-> expression]

IndexOnExpression(s, i, r) ==
  IF ~(At(s, r.at, ")") /\ At(s, r.at + 1, ")")) THEN Bad
  ELSE Got(r.at + 2, IndexCommand(s[i].lexeme, s[i + 2].lexeme, <<r.got.column>>, r.got))

IndexOnColumns(s, i, r) ==
  IF r.at = 0 THEN Bad
  ELSE Got(r.at, IndexCommand(s[i].lexeme, s[i + 2].lexeme, r.got, Nothing))

ParseCreateIndex(s, i) ==
  CASE ~(AtPair(s, i, "ON") /\ At(s, i + 3, "(")) -> Bad
    [] AtPair(s, i, "ON") /\ At(s, i + 4, "(") ->
         IndexOnExpression(s, i, ParseIndexExpression(s, i + 5))
    [] OTHER -> IndexOnColumns(s, i, ParseColumnList(s, i + 3))

ParseDropIndex(s, i) ==
  IF ~AtPair(s, i, "ON") THEN Bad
  ELSE Got(i + 3, [kind |-> "DROP INDEX", name |-> s[i].lexeme, table |-> s[i + 2].lexeme])

ParseDropTable(s, i) ==
  IF ~At(s, i, "Identifier") THEN Bad
  ELSE Got(i + 1, [kind |-> "DROP TABLE", table |-> s[i].lexeme])

ParseRenameTable(s, i) ==
  IF ~AtPair(s, i, "TO") THEN Bad
  ELSE Got(i + 3, [kind |-> "RENAME TABLE", oldName |-> s[i].lexeme,
                   newName |-> s[i + 2].lexeme])

(* A semicolon may follow, and nothing else.                               *)
IsStatementEnd(s, i) == i = Len(s) + 1 \/ (i = Len(s) /\ At(s, i, ";"))
Finished(s, r) == IF IsStatementEnd(s, r.at) THEN r ELSE Bad

ParseStatement(s) ==
  Finished(s,
    CASE AtWords(s, 1, <<"CREATE", "TABLE">>) -> ParseCreateTable(s, 3)
      [] AtWords(s, 1, <<"CREATE", "INDEX">>) -> ParseCreateIndex(s, 3)
      [] AtWords(s, 1, <<"DROP", "INDEX">>) -> ParseDropIndex(s, 3)
      [] AtWords(s, 1, <<"DROP", "TABLE">>) -> ParseDropTable(s, 3)
      [] AtWords(s, 1, <<"RENAME", "TABLE">>) -> ParseRenameTable(s, 3)
      [] AtWords(s, 1, <<"ALTER", "TABLE">>) -> ParseAlterTable(s, 3)
      [] OTHER -> Bad)

-----------------------------------------------------------------------------
(* The texts of a snapshot                                                 *)

ParseCheckConstraintExpression(s) ==
  LET r == ParseOrPredicate(s, 1) IN IF r.at = Len(s) + 1 THEN r ELSE Bad

(* Mutant of EncodeIndexDefinitionColumns: only the first column.          *)
EncodeFirstColumn(columns, expression) ==
  IF expression # Nothing THEN Words(<<"expr:">>) \o IndexExpressionToString(expression)
  ELSE Words(<<columns[1]>>)

EncodeIndexDefinitionColumns(columns, expression) ==
  CASE expression # Nothing -> Words(<<"expr:">>) \o IndexExpressionToString(expression)
    [] expression = Nothing /\ Len(columns) = 1 -> Words(columns)
    [] OTHER -> Words(<<"cols:">>) \o NameListText(columns)

(* stod reads an exponent, from_chars does not; what is no number is a     *)
(* string again.                                                           *)
ExponentAt(s, i) ==
  IF ~AtWord(s, i, "e") THEN 0
  ELSE IF At(s, i + 1, "-") THEN -s[i + 2].number[1] ELSE s[i + 2].number[1]

UnsignedLiteral(s, i, negative) ==
  CASE At(s, i, "Number") /\ s[i].number[3] ->
         Got(Len(s) + 1, Value("DOUBLE", negative, s[i].number[1],
                               s[i].number[2] + ExponentAt(s, i + 1), <<>>))
    [] At(s, i, "Number") /\ ~s[i].number[3] ->
         IF i = Len(s) THEN Got(i + 1, NumberValue(s[i], negative)) ELSE Bad
    [] AtWord(s, i, "NULL") -> Got(i + 1, NullValue)
    [] OTHER -> Got(i + 1, Value("STRING", FALSE, 0, 0, s[i].chars))

ParseExpressionLiteral(s, i) ==
  IF At(s, i, "-") THEN UnsignedLiteral(s, i + 1, TRUE) ELSE UnsignedLiteral(s, i, FALSE)

ParseIndexExpressionString(s, i) ==
  CASE At(s, i, "-") -> Got(i + 2, Expression("Negate", s[i + 1].lexeme, NullValue))
    [] AtWord(s, i, "TRIGRAM") /\ At(s, i + 1, "(") ->
         Got(i + 4, Expression("Trigram", s[i + 2].lexeme, NullValue))
    [] At(s, i + 1, "+") ->
         ExpressionWith("Add", s[i].lexeme, ParseExpressionLiteral(s, i + 2))
    [] At(s, i + 1, "-") /\ At(s, i, "Identifier") ->
         ExpressionWith("Subtract", s[i].lexeme, ParseExpressionLiteral(s, i + 2))
    [] OTHER -> Got(i + 1, Expression("Column", s[i].lexeme, NullValue))

IndexDefinition(columns, expression) == [columns |-> columns, expression |-> expression]

DefinitionOf(r) ==
  IF r.at = 0 THEN Bad ELSE Got(r.at, IndexDefinition(<<r.got.column>>, r.got))

DecodeIndexDefinitionColumns(s) ==
  CASE AtWord(s, 1, "expr:") -> DefinitionOf(ParseIndexExpressionString(s, 2))
    [] AtWord(s, 1, "cols:") ->
         LET r == NamesFrom(s, 2, <<>>) IN Got(r.at, IndexDefinition(r.got, Nothing))
    [] OTHER -> Got(2, IndexDefinition(<<s[1].lexeme>>, Nothing))

=============================================================================
