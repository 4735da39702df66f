------------------------------ MODULE DdlText ------------------------------
(***************************************************************************)
(* DDL as text.  The log holds a DDL statement as SQL that recovery parses *)
(* again, and a snapshot holds CHECK constraints and index definitions as  *)
(* text: the operators that write it (sql_literal, check_eval,             *)
(* index_expression) and the ones that read it (Tokenizer, Parser,         *)
(* parseIndexExpressionString).                                            *)
(*                                                                         *)
(* A text is a sequence of tokens.  A name is a word without dots.  A      *)
(* number is digits * 10^exp, with or without a decimal point in the text; *)
(* a string is a sequence of characters, of which the quote and the        *)
(* backslash are special.  A parser takes a text and a position and        *)
(* returns what it read and the position behind it, 0 if it throws.        *)
(***************************************************************************)
EXTENDS Integers, Sequences, SequencesExt

CONSTANTS Quote, Backslash,  \* characters
          Nothing            \* no column on the right, no expression

-----------------------------------------------------------------------------
(* Tokens and values                                                       *)

Token(type, lexeme) ==
  [type |-> type, lexeme |-> lexeme, number |-> <<0, 0, FALSE>>, chars |-> <<>>]
Word(w) == Token("Identifier", w)
Words(ws) == [i \in DOMAIN ws |-> Word(ws[i])]
Sym(s) == <<Token(s, "")>>
Number(digits, exp, dot) == [Token("Number", "") EXCEPT !.number = <<digits, exp, dot>>]

Value(type, negative, digits, exp, chars) ==
  [type |-> type, negative |-> negative, digits |-> digits, exp |-> exp, chars |-> chars]
NullValue == Value("NULL", FALSE, 0, 0, <<>>)

-----------------------------------------------------------------------------
(* Numbers as an ostringstream writes them: six significant digits, with   *)
(* an exponent if the first digit stands for 10^6 or more or less than     *)
(* 10^-4.                                                                  *)

RECURSIVE Width(_)
Width(n) == IF n < 10 THEN 1 ELSE 1 + Width(n \div 10)

RECURSIVE Normal(_, _)
Normal(n, e) == IF n # 0 /\ n % 10 = 0 THEN Normal(n \div 10, e + 1) ELSE <<n, e>>

Rounded(n, e) ==
  LET drop == Width(n) - 6
  IN IF drop <= 0 THEN <<n, e>>
     ELSE Normal((n + 5 * 10^(drop - 1)) \div 10^drop, e + drop)

Leading(n, e) == Width(n) + e - 1
Magnitude(n) == IF n < 0 THEN -n ELSE n
InExponentForm(n, e) == Leading(n, e) < -4 \/ Leading(n, e) >= 6

(* The tokenizer takes 1.5e+06 for four tokens.                            *)
Numeral(n, e, whole) ==
  IF InExponentForm(n, e)
    THEN <<Number(n, 1 - Width(n), Width(n) > 1), Word("e")>>
         \o Sym(IF Leading(n, e) < 0 THEN "-" ELSE "+")
         \o <<Number(Magnitude(Leading(n, e)), 0, FALSE)>>
    ELSE <<Number(n, e, e < 0 \/ whole)>>

Sign(value) == IF value.negative THEN Sym("-") ELSE <<>>

DoubleText(value, whole) ==
  Sign(value) \o Numeral(Rounded(value.digits, value.exp)[1], Rounded(value.digits, value.exp)[2],
                         whole)
IntText(value) == Sign(value) \o <<Number(value.digits, value.exp, FALSE)>>

-----------------------------------------------------------------------------
(* Strings                                                                 *)

Escaped(chars) ==
  FlattenSeq([i \in DOMAIN chars |->
    IF chars[i] \in {Quote, Backslash} THEN <<Backslash, chars[i]>> ELSE <<chars[i]>>])

(* The tokenizer from behind the opening quote.  A literal whose text does *)
(* not end with its closing quote spoils the statement.                    *)
RECURSIVE ScanString(_, _, _)
ScanString(text, i, chars) ==
  CASE i > Len(text) -> Sym("unterminated")
    [] i = Len(text) /\ text[i] = Quote -> <<[Token("String", "") EXCEPT !.chars = chars]>>
    [] i < Len(text) /\ text[i] = Quote -> Sym("unterminated")
    [] i <= Len(text) /\ text[i] = Backslash ->
         IF i = Len(text) THEN Sym("unterminated")
         ELSE ScanString(text, i + 2, Append(chars, text[i + 1]))
    [] OTHER -> ScanString(text, i + 1, Append(chars, text[i]))

StringText(chars) == ScanString(Append(Escaped(chars), Quote), 1, <<>>)

-----------------------------------------------------------------------------
(* Writing literals, predicates and expressions                            *)

(* Mutant of SqlLiteral: a double without fraction is written as an int.   *)
SqlLiteralBare(value) ==
  CASE value.type = "NULL" -> Words(<<"NULL">>)
    [] value.type = "INT" -> IntText(value)
    [] value.type = "DOUBLE" -> DoubleText(value, FALSE)
    [] value.type = "STRING" -> StringText(value.chars)

(* sqlLiteral and literalForCheck.                                         *)
SqlLiteral(value) ==
  CASE value.type = "NULL" -> Words(<<"NULL">>)
    [] value.type = "INT" -> IntText(value)
    [] value.type = "DOUBLE" -> DoubleText(value, TRUE)
    [] value.type = "STRING" -> StringText(value.chars)

(* Value::toString, as an expression's literal is written: no quotes and   *)
(* no ".0".  A string of letters is taken for an identifier.               *)
ValueToString(value) ==
  CASE value.type = "NULL" -> Words(<<"NULL">>)
    [] value.type = "INT" -> IntText(value)
    [] value.type = "DOUBLE" -> DoubleText(value, FALSE)
    [] value.type = "STRING" -> <<[Word("") EXCEPT !.chars = value.chars]>>

Commas(texts) ==
  FlattenSeq([i \in DOMAIN texts |-> IF i = 1 THEN texts[i] ELSE Sym(",") \o texts[i]])
NameListText(names) == Commas([i \in DOMAIN names |-> Words(<<names[i]>>)])

RECURSIVE CheckConstraintLiteral(_)
CheckConstraintLiteral(p) ==
  IF p.kind \in {"AND", "OR"}
    THEN Sym("(") \o CheckConstraintLiteral(p.left) \o Words(<<p.kind>>)
         \o CheckConstraintLiteral(p.right) \o Sym(")")
    ELSE Words(<<p.column>>) \o Sym(p.op)
         \o (IF p.rhsColumn # Nothing THEN Words(<<p.rhsColumn>>) ELSE SqlLiteral(p.value))

IndexExpressionToString(e) ==
  CASE e.kind = "Column" -> Words(<<e.column>>)
    [] e.kind = "Negate" -> Sym("-") \o Words(<<e.column>>)
    [] e.kind = "Add" -> Words(<<e.column>>) \o Sym("+") \o ValueToString(e.literal)
    [] e.kind = "Subtract" -> Words(<<e.column>>) \o Sym("-") \o ValueToString(e.literal)
    [] e.kind = "Trigram" -> Words(<<"TRIGRAM">>) \o Sym("(") \o Words(<<e.column>>) \o Sym(")")

ActionWords(action) ==
  CASE action = "Cascade" -> <<"CASCADE">>
    [] action = "SetNull" -> <<"SET", "NULL">>
    [] action = "NoAction" -> <<"NO", "ACTION">>

ActionText(event, action) ==
  IF action = "NoAction" THEN <<>> ELSE Words(<<"ON", event>> \o ActionWords(action))

ForeignKeyLiteral(fk) ==
  Words(<<"FOREIGN", "KEY">>) \o Sym("(") \o NameListText(fk.childColumns) \o Sym(")")
  \o Words(<<"REFERENCES", fk.parentTable>>)
  \o Sym("(") \o NameListText(fk.parentColumns) \o Sym(")")
  \o ActionText("DELETE", fk.onDelete) \o ActionText("UPDATE", fk.onUpdate)

-----------------------------------------------------------------------------
(* Writing statements                                                      *)

NullabilityText(column) == Words(IF column.nullable THEN <<"NULL">> ELSE <<"NOT", "NULL">>)

ColumnText(column) ==
  Words(<<column.name, column.type>>)
  \o (IF column.primaryKey THEN Words(<<"PRIMARY", "KEY">>)
      ELSE NullabilityText(column) \o (IF column.unique THEN Words(<<"UNIQUE">>) ELSE <<>>))

UniqueText(u) ==
  Words(IF u.primaryKey THEN <<"PRIMARY", "KEY">> ELSE <<"UNIQUE">>)
  \o Sym("(") \o NameListText(u.columns) \o Sym(")")

CreateTableSql(c) ==
  Words(<<"CREATE", "TABLE", c.table>>) \o Sym("(")
  \o Commas([i \in DOMAIN c.columns |-> ColumnText(c.columns[i])]
            \o [i \in DOMAIN c.uniques |-> UniqueText(c.uniques[i])]
            \o [i \in DOMAIN c.checks |-> Words(<<"CHECK">>) \o Sym("(")
                                          \o CheckConstraintLiteral(c.checks[i]) \o Sym(")")]
            \o [i \in DOMAIN c.fks |-> ForeignKeyLiteral(c.fks[i])])
  \o Sym(")") \o Sym(";")

AlterTableSql(c) ==
  Words(<<"ALTER", "TABLE", c.table>>)
  \o (CASE c.kind = "ADD" ->
             Words(<<"ADD", "COLUMN", c.column.name, c.column.type>>) \o NullabilityText(c.column)
             \o (IF c.default = <<>> THEN <<>> ELSE Words(<<"DEFAULT">>) \o SqlLiteral(c.default[1]))
        [] c.kind = "DROP" ->
             Words(<<"DROP", "COLUMN", c.column>> \o IF c.cascade THEN <<"CASCADE">> ELSE <<>>)
        [] c.kind = "RENAME" -> Words(<<"RENAME", "COLUMN", c.oldName, "TO", c.newName>>))
  \o Sym(";")

CreateIndexSql(c) ==
  Words(<<"CREATE", "INDEX", c.name, "ON", c.table>>) \o Sym("(")
  \o (IF c.expression = Nothing THEN NameListText(c.columns)
      ELSE Sym("(") \o IndexExpressionToString(c.expression) \o Sym(")"))
  \o Sym(")") \o Sym(";")

(* What CatalogEngine appends to the log.                                  *)
LoggedText(c) ==
  CASE c.kind = "CREATE TABLE" -> CreateTableSql(c)
    [] c.kind \in {"ADD", "DROP", "RENAME"} -> AlterTableSql(c)
    [] c.kind = "CREATE INDEX" -> CreateIndexSql(c)
    [] c.kind = "DROP INDEX" -> Words(<<"DROP", "INDEX", c.name, "ON", c.table>>) \o Sym(";")
    [] c.kind = "DROP TABLE" -> Words(<<"DROP", "TABLE", c.table>>) \o Sym(";")
    [] c.kind = "RENAME TABLE" -> Words(<<"RENAME", "TABLE", c.oldName, "TO", c.newName>>) \o Sym(";")

-----------------------------------------------------------------------------
(* Reading: the cursor                                                     *)

Got(i, x) == [at |-> i, got |-> x]
Bad == [at |-> 0, got |-> Nothing]

At(s, i, type) == i \in DOMAIN s /\ s[i].type = type
AtWord(s, i, w) == At(s, i, "Identifier") /\ s[i].lexeme = w
AtWords(s, i, ws) == \A j \in DOMAIN ws : AtWord(s, i + j - 1, ws[j])
Past(s, i, type) == IF At(s, i, type) THEN i + 1 ELSE 0
PastWord(s, i, w) == IF AtWord(s, i, w) THEN i + 1 ELSE 0
Closed(s, r) == [r EXCEPT !.at = Past(s, @, ")")]

RECURSIVE NamesFrom(_, _, _)
NamesFrom(s, i, names) ==
  CASE ~At(s, i, "Identifier") -> Bad
    [] At(s, i, "Identifier") /\ At(s, i + 1, ",") ->
         NamesFrom(s, i + 2, Append(names, s[i].lexeme))
    [] OTHER -> Got(i + 1, Append(names, s[i].lexeme))

ParseColumnList(s, i) == Closed(s, NamesFrom(s, Past(s, i, "("), <<>>))

-----------------------------------------------------------------------------
(* Reading literals, expressions and predicates                            *)

(* A numeral with a point is a double, one without is an int.              *)
NumberValue(token, negative) ==
  Value(IF token.number[3] THEN "DOUBLE" ELSE "INT", negative,
        token.number[1], token.number[2], <<>>)

ParseValue(s, i) ==
  CASE At(s, i, "-") /\ At(s, i + 1, "Number") -> Got(i + 2, NumberValue(s[i + 1], TRUE))
    [] At(s, i, "Number") -> Got(i + 1, NumberValue(s[i], FALSE))
    [] At(s, i, "String") -> Got(i + 1, Value("STRING", FALSE, 0, 0, s[i].chars))
    [] AtWord(s, i, "NULL") -> Got(i + 1, NullValue)
    [] OTHER -> Bad

Expression(kind, column, literal) == [kind |-> kind, column |-> column, literal |-> literal]

ExpressionWith(kind, column, r) ==
  IF r.at = 0 THEN Bad ELSE Got(r.at, Expression(kind, column, r.got))

ParseIndexExpression(s, i) ==
  CASE At(s, i, "-") /\ At(s, i + 1, "Identifier") ->
         Got(i + 2, Expression("Negate", s[i + 1].lexeme, NullValue))
    [] AtWord(s, i, "TRIGRAM") ->
         LET r == ParseColumnList(s, i + 1)
         IN IF r.at = i + 4 THEN Got(r.at, Expression("Trigram", r.got[1], NullValue)) ELSE Bad
    [] At(s, i, "Identifier") /\ s[i].lexeme # "TRIGRAM" ->
         CASE At(s, i + 1, "+") -> ExpressionWith("Add", s[i].lexeme, ParseValue(s, i + 2))
           [] At(s, i + 1, "-") -> ExpressionWith("Subtract", s[i].lexeme, ParseValue(s, i + 2))
           [] OTHER -> Got(i + 1, Expression("Column", s[i].lexeme, NullValue))
    [] OTHER -> Bad

Operators == {"=", "<", ">"}
AtOperator(s, i) == \E op \in Operators : At(s, i, op)

Comparison(column, op, value, rhsColumn) ==
  [kind |-> "Comparison", column |-> column, op |-> op, value |-> value, rhsColumn |-> rhsColumn]
Joined(kind, left, right) ==
  IF right.at = 0 THEN Bad
  ELSE Got(right.at, [kind |-> kind, left |-> left.got, right |-> right.got])

CompareWith(s, i, r) ==
  IF r.at = 0 THEN Bad
  ELSE Got(r.at, Comparison(s[i].lexeme, s[i + 1].type, r.got, Nothing))

(* IN, LIKE and ~ are read and then refused by assertSimpleCheckConstraint.*)
ParseComparisonPredicate(s, i) ==
  CASE ~(At(s, i, "Identifier") /\ AtOperator(s, i + 1)) -> Bad
    [] At(s, i, "Identifier") /\ At(s, i + 2, "Identifier") /\ ~AtWord(s, i + 2, "NULL") ->
         Got(i + 3, Comparison(s[i].lexeme, s[i + 1].type, NullValue, s[i + 2].lexeme))
    [] OTHER -> CompareWith(s, i, ParseValue(s, i + 2))

(* (expression) op value, which no CHECK may hold.                         *)
IsExpressionComparison(s, i) ==
  LET r == ParseIndexExpression(s, i)
  IN At(s, r.at, ")") /\ AtOperator(s, r.at + 1) /\ ParseValue(s, r.at + 2).at # 0

RECURSIVE ParseOrPredicate(_, _), ParseAndPredicate(_, _), ParsePrimaryPredicate(_, _)
RECURSIVE OrRest(_, _), AndRest(_, _)

ParsePrimaryPredicate(s, i) ==
  CASE AtWord(s, i, "EXISTS") -> Bad
    [] At(s, i, "(") -> IF IsExpressionComparison(s, i + 1) THEN Bad
                        ELSE Closed(s, ParseOrPredicate(s, i + 1))
    [] OTHER -> ParseComparisonPredicate(s, i)

AndRest(s, left) ==
  IF AtWord(s, left.at, "AND")
    THEN AndRest(s, Joined("AND", left, ParsePrimaryPredicate(s, left.at + 1)))
    ELSE left
ParseAndPredicate(s, i) == AndRest(s, ParsePrimaryPredicate(s, i))

OrRest(s, left) ==
  IF AtWord(s, left.at, "OR")
    THEN OrRest(s, Joined("OR", left, ParseAndPredicate(s, left.at + 1)))
    ELSE left
ParseOrPredicate(s, i) == OrRest(s, ParseAndPredicate(s, i))

ParseCheckConstraintBody(s, i) == Closed(s, ParseOrPredicate(s, Past(s, i, "(")))

=============================================================================
