--------------------------- MODULE MCSchemaChange ---------------------------
(* Model-checking instance of SchemaChange and DdlReplay: a behaviour      *)
(* either alters tables or follows the text of one statement.              *)
EXTENDS SchemaChange, DdlReplay

Col(name, nullable, unique, primaryKey) ==
  [name |-> name, nullable |-> nullable, unique |-> unique, primaryKey |-> primaryKey]
Less(column, rhs) == [column |-> column, rhsColumn |-> rhs, value |-> 0]
Below2(column) == [column |-> column, rhsColumn |-> NoName, value |-> 2]
Key(child, table, parent) == [child |-> child, parentTable |-> table, parent |-> parent]

id == <<"id">>
a == <<"a">>
b == <<"b">>
c == <<"c">>
d == <<"d">>
k == <<"k">>

(* t(id PRIMARY KEY, a NULL, b, UNIQUE (a, b), CHECK (a < b)), with        *)
(* another table that references t(id).                                    *)
Pairs ==
  [tables |->
     [t |-> [columns |-> <<Col(id, FALSE, TRUE, TRUE), Col(a, TRUE, FALSE, FALSE),
                           Col(b, FALSE, FALSE, FALSE)>>,
             checks |-> {Less(a, b)}, uniques |-> {[columns |-> <<a, b>>, primaryKey |-> FALSE]},
             fks |-> {}],
      o |-> [columns |-> <<Col(k, TRUE, FALSE, FALSE)>>, checks |-> {}, uniques |-> {},
             fks |-> {Key(<<k>>, "t", <<id>>)}]],
   rows |-> [t |-> <<<<1, 1, 2>>>>, o |-> <<>>]]

(* t(a NULL REFERENCES o(k) CHECK (a < 2), id NULL UNIQUE, b, UNIQUE (b, a)) *)
Child ==
  [tables |->
     [t |-> [columns |-> <<Col(a, TRUE, FALSE, FALSE), Col(id, TRUE, TRUE, FALSE),
                           Col(b, FALSE, FALSE, FALSE)>>,
             checks |-> {Below2(a)}, uniques |-> {[columns |-> <<b, a>>, primaryKey |-> FALSE]},
             fks |-> {Key(<<a>>, "o", <<k>>)}],
      o |-> [columns |-> <<Col(k, FALSE, TRUE, TRUE)>>, checks |-> {}, uniques |-> {},
             fks |-> {}]],
   rows |-> [t |-> <<<<1, Null, 2>>>>, o |-> <<<<1>>, <<2>>>>]]

TwoCatalogs == {Pairs, Child}

Added == {[name |-> c, nullable |-> TRUE, fill |-> NoFill],
          [name |-> c, nullable |-> FALSE, fill |-> 1],
          [name |-> a, nullable |-> FALSE, fill |-> NoFill]}
Renamed == {d, a}

UserIndex(columns, expression) ==
  [name |-> [kind |-> "user", words |-> <<"i">>], columns |-> columns, expression |-> expression]
(* Of the columns b is never NULL and no other column gets its name, so    *)
(* that it can be negated.                                                 *)
Indexed == {UserIndex(<<a>>, NoName), UserIndex(<<b>>, b), UserIndex(<<c, id>>, NoName)}

-----------------------------------------------------------------------------
(* Statements as users write them.                                         *)

NoPoint(digits, exp) == <<Number(digits, exp, FALSE)>>
Point(digits, exp) == <<Number(digits, exp, TRUE)>>
String(chars) == <<[Token("String", "") EXCEPT !.chars = chars]>>

(* 5, -3, 1000000, 0; 2.0, -2.5, 100000.0, 0.0001, 123456.0; too long: 1234567.0, *)
(* 1234.5678, 999999.7; with an exponent: 1000000.0, -1500000.0, 0.00001,  *)
(* 0.000012.                                                               *)
Ints == {NoPoint(5, 0), Sym("-") \o NoPoint(3, 0), NoPoint(1, 6), NoPoint(0, 0)}
Doubles ==
  {Point(2, 0), Sym("-") \o Point(25, -1), Point(1, 5), Point(1, -4), Point(123456, 0),
   Point(1234567, 0), Point(12345678, -4), Point(9999997, -1),
   Point(1, 6), Sym("-") \o Point(15, 5), Point(1, -5), Point(12, -6)}
Strings ==
  {String(<<>>), String(<<"x">>), String(<<Quote, "x">>), String(<<"x", Backslash>>),
   String(<<Backslash, Quote>>)}
TypedLiterals == Ints \cup Doubles \cup Strings \cup {Words(<<"NULL">>)}

Parens(t) == Sym("(") \o t \o Sym(")")
And(p, q) == p \o Words(<<"AND">>) \o q
Or(p, q) == p \o Words(<<"OR">>) \o q

Atoms == {Words(<<"a">>) \o Sym("<") \o NoPoint(5, 0),
          Words(<<"a">>) \o Sym("=") \o Words(<<"b">>),
          Words(<<"b">>) \o Sym(">") \o Point(2, 0)}

(* CHECKs: every literal, and AND and OR with and without parentheses; the *)
(* last four are refused.                                                  *)
TypedChecks ==
  {Words(<<"a">>) \o Sym("=") \o v : v \in TypedLiterals}
  \cup UNION {{And(p, q), Or(p, Parens(q)), And(Parens(Or(p, q)), Parens(p)),
              And(p, Or(q, p)), Or(p, And(q, p)), Or(And(p, q), And(q, p)),
              And(p, Parens(Or(q, p))), Parens(Or(And(p, q), p))} : p, q \in Atoms}
  \cup {Parens(Words(<<"a">>)) \o Sym("<") \o NoPoint(5, 0),
        Words(<<"c">>) \o Sym("<") \o NoPoint(5, 0),
        Words(<<"a", "IN">>) \o Parens(NoPoint(5, 0)),
        Words(<<"EXISTS">>) \o Sym("<") \o NoPoint(5, 0)}

TableOf(items) == Words(<<"CREATE", "TABLE", "t">>) \o Parens(Commas(items))
References(columns) == Words(<<"REFERENCES", "p">>) \o Parens(NameListText(columns))
Under5 == Words(<<"CHECK">>) \o Parens(Words(<<"a">>) \o Sym("<") \o NoPoint(5, 0))

FirstColumns ==
  {Words(<<"a", "INT">> \o attributes) :
     attributes \in {<<>>, <<"NULL">>, <<"NOT", "NULL">>, <<"PRIMARY", "KEY">>, <<"UNIQUE", "NULL">>,
                     <<"UNIQUE", "PRIMARY", "KEY">>, <<"NULL", "NOT", "NULL">>,
                     <<"NULL", "PRIMARY", "KEY">>}}
  \cup {Words(<<"a", "INT", "NULL">>) \o Under5 \o References(<<"k">>)
        \o Words(<<"ON", "UPDATE", "SET", "NULL", "ON", "DELETE", "CASCADE">>),
        Words(<<"a", "INT">>) \o References(<<"k">>) \o Words(<<"UNIQUE">>) \o Under5,
        Words(<<"a", "BLOB">>)}
SecondColumns == {Words(<<"b", "DOUBLE">>), Words(<<"b", "DOUBLE", "NULL">>)}

OverBoth == Words(<<"FOREIGN", "KEY">>) \o Parens(NameListText(<<"a", "b">>))
Items ==
  {<<Words(w) \o Parens(NameListText(names))>> :
     w \in {<<"PRIMARY", "KEY">>, <<"UNIQUE">>}, names \in {<<"a">>, <<"b", "a">>, <<"c">>}}
  \cup {<<>>, <<Words(<<"PRIMARY", "KEY">>) \o Parens(Words(<<"a">>)), Words(<<"UNIQUE">>) \o
               Parens(Words(<<"a">>))>>,
        <<OverBoth \o References(<<"k", "l">>) \o Words(<<"ON", "DELETE", "CASCADE">>)>>,
        <<Under5, OverBoth \o References(<<"k", "l">>) \o Words(<<"ON", "UPDATE", "NO", "ACTION">>)>>,
        <<OverBoth \o References(<<"k">>)>>}

TypedExpressions ==
  {Words(<<"a">>), Sym("-") \o Words(<<"a">>), Words(<<"TRIGRAM">>),
   Words(<<"TRIGRAM">>) \o Parens(Words(<<"a">>))}
  \cup {Words(<<"a">>) \o Sym(op) \o v : op \in {"+", "-"},
          v \in Ints \cup Doubles \cup {String(<<"x">>), Words(<<"NULL">>)}}

TypedStatements ==
  {TableOf(<<x, y>> \o items) : x \in FirstColumns, y \in SecondColumns, items \in Items}
  \cup {TableOf(<<Words(<<"a", "INT">>), Words(<<"b", "DOUBLE">>),
                  Words(<<"CHECK">>) \o Parens(check)>>) : check \in TypedChecks}
  \cup {Words(<<"ALTER", "TABLE", "t", "ADD", "COLUMN", "c", type>> \o nulls) \o default :
          type \in Types, nulls \in {<<"NULL">>, <<"NOT", "NULL">>},
          default \in {<<>>} \cup {Words(<<"DEFAULT">>) \o v : v \in TypedLiterals}}
  \cup {Words(<<"ALTER", "TABLE", "t">> \o rest) :
          rest \in {<<"DROP", "COLUMN", "a">>, <<"DROP", "COLUMN", "a", "CASCADE">>,
                    <<"RENAME", "COLUMN", "a", "TO", "NULL">>, <<"RENAME", "COLUMN", "a">>,
                    <<"ADD", "COLUMN", "c", "INT">>}}
  \cup {Words(<<"CREATE", "INDEX", "i", "ON", "t">>) \o Parens(t) \o Sym(";") :
          t \in {NameListText(<<"a">>), NameListText(<<"b", "a">>)}
                \cup {Parens(e) : e \in TypedExpressions}}
  \cup {Words(w) : w \in {<<"DROP", "INDEX", "i", "ON", "t">>, <<"DROP", "TABLE", "t">>,
                          <<"RENAME", "TABLE", "t", "TO", "u">>, <<"DROP", "INDEX", "i">>}}

Keywords == {"z", "EXISTS", "NULL", "TRIGRAM"}

-----------------------------------------------------------------------------
NoText ==
  /\ stage = "none"
  /\ text = Nothing /\ command = Nothing /\ kept = Nothing /\ outcome = Nothing

(* Of the tables those of Pairs stand by while a text is followed.         *)
DdlInit ==
  \/ Init /\ NoText
  \/ Init /\ db.tables.o.rows[1] = NoRow /\ ReplayInit

DdlNext ==
  \/ stage = "none" /\ Next /\ UNCHANGED replayVars
  \/ ReplayNext /\ UNCHANGED vars

DdlSpec == DdlInit /\ [][DdlNext]_<<vars, replayVars>>

(* What BEGIN recorded means nothing once the transaction is over.         *)
StateView == <<IF active THEN vars ELSE <<db, statements>>, replayVars>>

=============================================================================
