--------------------------- MODULE MCSelectEngine ---------------------------
(* Model-checking instance of SelectEngine.                                *)
EXTENDS SelectEngine

Num(n) == <<1, n>>
Text(letters) == <<2>> \o letters

HeapsOf(slots, rows) == [1..slots -> rows \cup {NoRow}]

(* t(a, b NULL, c): every kind of path over integers.                      *)
a == On(<<1>>)
b == On(<<2>>)
c == On(<<3>>)
Eq(key, n) == Compares(key, "=", Num(n))
IntRows == {<<Num(1), Num(1), Num(1)>>, <<Num(1), Num(1), Num(2)>>, <<Num(1), Num(2), Num(1)>>,
            <<Num(2), Num(1), Num(2)>>, <<Num(2), Null, Num(1)>>, <<Num(2), Num(2), Num(2)>>}
IntCatalogs == {{}, {a}, {a, b}, {On(<<2, 1>>), a}, {Negated(1), b}}
IntSelects ==
  {None, Eq(a, 1), Compares(b, "<", Num(2)), And(Compares(a, ">", Num(1)), Eq(b, 1)),
   And(Eq(a, 1), Eq(b, 1)), And(Eq(a, 1), And(Eq(a, 2), Eq(b, 1))),
   Or(Eq(a, 1), Eq(b, 2)), Or(Eq(a, 1), Compares(c, ">", Num(1))), Or(Eq(a, 1), Eq(a, 2)),
   InList(a, <<Num(1), Num(1)>>), And(Eq(b, 1), Or(Eq(a, 1), Eq(a, 2))),
   And(Or(Eq(a, 1), Eq(b, 2)), Compares(c, ">", Num(1))),
   And(Eq(a, 1), Or(Eq(b, 1), Eq(c, 2))), And(Or(Eq(a, 1), Eq(c, 2)), Or(Eq(b, 1), Eq(c, 1))),
   Eq(Negated(1), -1), Compares(Negated(1), ">", Num(-2)), Or(Eq(Negated(1), -1), Eq(b, 1)),
   And(ComparesColumns(1, "<", 2), Eq(a, 1)),
   Or(Opaque({<<Num(2), Null, Num(1)>>, <<Num(1), Num(2), Num(1)>>}), Eq(b, 1))}

Integers3 ==
  [tables |-> {<<h>> : h \in HeapsOf(2, IntRows)}, indexes |-> {<<i>> : i \in IntCatalogs},
   rows |-> IntRows, selects |-> IntSelects, joins |-> {}, width |-> 3,
   names |-> <<>>, queries |-> {}]

(* t(s NULL): patterns over the letters 1 and 2.                           *)
Texts == {<<Null>>, <<Text(<<>>)>>, <<Text(<<1>>)>>, <<Text(<<1, 2>>)>>, <<Text(<<1, 2, 1>>)>>,
          <<Text(<<2, 1, 2, 1>>)>>, <<Text(<<1, 1, 1, 1>>)>>, <<Text(<<1, 2, 2, 1, 2, 1>>)>>}
TextSelects ==
  {Like(1, <<1, Percent>>), Like(1, <<1, 2, Percent>>), Like(1, <<1, Underscore, Percent>>),
   Like(1, <<Percent, 1, 2, 1, Percent>>), Like(1, <<Percent, 2, 1, 2, 1, Percent>>),
   Like(1, <<Percent, 1, 1, 1, Percent>>), Like(1, <<Percent, 1>>),
   Or(Like(1, <<2, Percent>>), Compares(a, "=", Text(<<1>>))),
   And(Like(1, <<1, Percent>>), Compares(a, ">", Text(<<1, 1>>)))}

Strings ==
  [tables |-> {<<h>> : h \in HeapsOf(2, Texts)},
   indexes |-> {<<i>> : i \in {{}, {a}, {TrigramsOf(1)}, {a, TrigramsOf(1)}}},
   rows |-> Texts, selects |-> TextSelects, joins |-> {}, width |-> 1,
   names |-> <<>>, queries |-> {}]

(* Three tables with one nullable column.                                  *)
Clause(kind, left, op, table) ==
  [kind |-> kind, left |-> left, op |-> op, right |-> 1, table |-> table]
Kinds == {"Inner", "LeftOuter", "RightOuter", "FullOuter", "Cross"}
JoinHeaps == {<<NoRow, NoRow>>, <<<<Num(1)>>, NoRow>>, <<<<Num(1)>>, <<Num(1)>>>>,
              <<<<Num(2)>>, <<Num(1)>>>>, <<NoRow, <<Null>>>>}
JoinQueries ==
  {[kind |-> "Join", joins |-> <<Clause(kind, 1, op, 2)>>, where |-> None] :
     kind \in Kinds, op \in {"=", "<"}}
  \cup {[kind |-> "Join", joins |-> <<Clause(k1, 1, "=", 2), Clause(k2, left, "=", 3)>>,
         where |-> where] :
          k1 \in Kinds, k2 \in Kinds, left \in {1, 2}, where \in {None, Eq(b, 1)}}

Joins ==
  [tables |-> {<<l, r, s>> : l \in JoinHeaps, r \in JoinHeaps, s \in {<<<<Num(1)>>, <<Null>>>>}},
   indexes |-> [1..3 -> {{}, {a}}], rows |-> {}, selects |-> {}, joins |-> JoinQueries, width |-> 1,
   names |-> <<>>, queries |-> {}]

AllWorkloads == {Integers3, Strings, Joins}

(* (a = 1 OR b = 2) AND c > 1 with indexes on a and b: no other conjunct   *)
(* has an index, so that the planner always chooses the union.             *)
OnlyConjunctUnion ==
  {[Integers3 EXCEPT !.indexes = {<<{a, b}>>},
                     !.selects = {And(Or(Eq(a, 1), Eq(b, 2)), Compares(c, ">", Num(1)))}]}

=============================================================================
