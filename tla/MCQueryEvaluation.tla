------------------------- MODULE MCQueryEvaluation -------------------------
(* Model-checking instance of SelectEngine and QueryEvaluation.            *)
EXTENDS MCSelectEngine, QuerySemantics

(* Queries                                                                 *)
From(table) ==
  [table |-> table, alias |-> "", joins |-> <<>>, columns |-> <<>>, where |-> None,
   groupBy |-> <<>>, orderBy |-> <<>>, limit |-> <<>>, recursive |-> FALSE, ctes |-> <<>>,
   setOps |-> <<>>]
Column(column) == [op |-> "", arg |-> column, name |-> <<>>]
Agg(op, column) == [op |-> op, arg |-> column, name |-> <<op>>]
Get(columns, q) == [q EXCEPT !.columns = [i \in DOMAIN columns |-> Column(columns[i])]]
Where(q, p) == [q EXCEPT !.where = p]
As(q, alias) == [q EXCEPT !.alias = alias]
JoinOn(q, kind, table, left, right) ==
  [q EXCEPT !.joins = Append(@, [kind |-> kind, table |-> table, alias |-> "", left |-> left,
                                 op |-> "=", right |-> right])]
Then(q, op, select) == [q EXCEPT !.setOps = Append(@, [op |-> op, select |-> select])]
Cte(name, body) == [name |-> name, body |-> body, mode |-> "DefaultInline", recursive |-> FALSE,
                    distinct |-> FALSE, accumulator |-> FALSE, arm |-> NoSelect]
Materialized(cte) == [cte EXCEPT !.mode = "Materialized"]
Accumulator(cte) == [cte EXCEPT !.accumulator = TRUE]
With(ctes, q) == [q EXCEPT !.ctes = ctes]
WithRecursive(ctes, q) == [q EXCEPT !.ctes = ctes, !.recursive = TRUE]
OrderBy(q, column, ascending) ==
  [q EXCEPT !.orderBy = <<[col |-> column, ascending |-> ascending]>>]
Limit(q, n) == [q EXCEPT !.limit = <<n>>]
Is(column, op, n) == CompareTo(column, op, Num(n))

(* Graphs e(f, g) with up to four nodes, and seeds s(n).                   *)
EdgeList == <<<<1, 2>>, <<2, 3>>, <<3, 4>>, <<2, 1>>, <<1, 3>>, <<2, 2>>>>
Graphs == {[i \in DOMAIN EdgeList |->
              IF i \in present THEN <<Num(EdgeList[i][1]), Num(EdgeList[i][2])>> ELSE NoRow] :
             present \in SUBSET DOMAIN EdgeList}
Seeds == {<<NoRow, NoRow>>, <<<<Num(1)>>, NoRow>>, <<<<Num(1)>>, <<Num(2)>>>>,
          <<<<Num(1)>>, <<Num(1)>>>>}

Seed == Get(<<<<"n">>>>, From("s"))
NoSeed == Where(Seed, Is(<<"n">>, ">", 9))
FollowFrom(table) ==
  Get(<<<<"e", "g">>>>, JoinOn(From(table), "Inner", "e", <<table, "n">>, <<"e", "f">>))
Reach(op) == Cte("r", Then(Seed, op, FollowFrom("r")))
All(table) == Get(<<<<"n">>>>, From(table))
Paths(op) ==
  Cte("p", Then(Get(<<<<"f">>, <<"g">>>>, From("e")), op,
                Get(<<<<"p", "f">>, <<"e", "g">>>>,
                    JoinOn(From("p"), "Inner", "e", <<"p", "g">>, <<"e", "f">>))))

GraphQueries ==
  {WithRecursive(<<Reach("Union")>>, All("r")),
   WithRecursive(<<Accumulator(Reach("Union"))>>, OrderBy(All("r"), <<"n">>, FALSE)),
   WithRecursive(<<Reach("UnionAll")>>, All("r")),
   WithRecursive(<<Accumulator(Reach("UnionAll"))>>, All("r")),
   WithRecursive(<<Paths("Union")>>, Limit(OrderBy(From("p"), <<"g">>, TRUE), 2)),
   WithRecursive(<<Cte("ev", Then(Seed, "Union", FollowFrom("od"))),
                   Cte("od", Then(NoSeed, "Union", FollowFrom("ev")))>>, All("od")),
   WithRecursive(<<Cte("ev", Then(Seed, "UnionAll", FollowFrom("od"))),
                   Cte("od", Then(NoSeed, "Union", FollowFrom("ev")))>>, All("od")),
   WithRecursive(<<Reach("Union")>>, Then(All("r"), "ExceptAll", Seed)),
   WithRecursive(<<Cte("q", Then(NoSeed, "Union", FollowFrom("r"))), Reach("Union")>>, All("q")),
   WithRecursive(<<Cte("q", Then(Seed, "Union", FollowFrom("r"))), Reach("Union")>>, All("q")),
   WithRecursive(<<Reach("Union"), Cte("x", Where(All("s"), Is(<<"n">>, "<", 2)))>>,
                 Get(<<<<"r", "n">>, <<"x", "n">>>>,
                     JoinOn(From("r"), "LeftOuter", "x", <<"r", "n">>, <<"x", "n">>))),
   WithRecursive(<<Reach("Union")>>,
                 [From("r") EXCEPT !.columns = <<Agg("CountStar", <<>>), Agg("Max", <<"n">>)>>]),
   WithRecursive(<<Cte("r", Then(Seed, "Union",
                     Get(<<<<"r", "n">>>>, JoinOn(From("r"), "Cross", "r", <<>>, <<>>))))>>, All("r")),
   WithRecursive(<<Cte("r", Then(All("r"), "Union", FollowFrom("r")))>>, All("r"))}

GraphWorkload ==
  [tables |-> {<<g, s>> : g \in Graphs, s \in Seeds}, indexes |-> {<<{}, {}>>},
   rows |-> {}, selects |-> {}, joins |-> {}, width |-> 2,
   names |-> <<[name |-> "e", cols |-> <<<<"f">>, <<"g">>>>],
             [name |-> "s", cols |-> <<<<"n">>>>]>>,
   queries |-> GraphQueries]

(* Tables t(a, b) and u(c, d), with duplicates and a NULL.                  *)
Pair(m, n) == <<Num(m), IF n = 0 THEN Null ELSE Num(n)>>
Ts == {<<NoRow, NoRow, NoRow>>, <<Pair(1, 2), Pair(1, 2), Pair(2, 1)>>,
       <<Pair(2, 0), Pair(1, 1), Pair(3, 1)>>, <<Pair(1, 0), NoRow, Pair(1, 0)>>,
       <<Pair(3, 3), Pair(2, 3), Pair(1, 2)>>}
Us == {<<NoRow, NoRow, NoRow>>, <<Pair(1, 1), Pair(2, 2), Pair(2, 2)>>,
       <<Pair(3, 0), Pair(1, 2), NoRow>>, <<Pair(2, 3), Pair(2, 3), Pair(2, 1)>>}

GetA == Get(<<<<"a">>>>, From("t"))
GetC == Get(<<<<"c">>>>, From("u"))
B1 == Is(<<"b">>, "=", 1)
SetOps == {"Union", "UnionAll", "Intersect", "IntersectAll", "Except", "ExceptAll"}

SetQueries ==
  {Then(GetA, op, GetC) : op \in SetOps}
  \cup {Limit(OrderBy(Then(Then(GetA, op, GetC), "ExceptAll", Get(<<<<"d">>>>, From("u"))),
                      <<"a">>, TRUE), 2) : op \in SetOps}
  \cup {Then(GetA, "Union", From("u"))}

GroupQueries ==
  {[From("t") EXCEPT !.columns = <<Column(<<"b">>), Agg("CountStar", <<>>), Agg(op, <<"a">>)>>,
                     !.groupBy = <<<<"b">>>>] : op \in {"Sum", "Avg", "Min"}}
  \cup {[From("t") EXCEPT !.columns = <<Agg("CountStar", <<>>), Agg(op, <<"b">>)>>] :
          op \in {"Count", "Sum", "Avg", "Min", "Max"}}
  \cup {Limit(OrderBy([JoinOn(From("t"), kind, "u", <<"t", "a">>, <<"u", "c">>) EXCEPT
                         !.columns = <<Column(<<"t", "b">>), Agg("Count", <<"u", "d">>)>>,
                         !.groupBy = <<<<"t", "b">>>>], <<"Count">>, FALSE), 1) :
          kind \in {"Inner", "LeftOuter", "FullOuter"}}
  \cup {Get(<<<<"a">>>>, [From("t") EXCEPT !.groupBy = <<<<"b">>>>])}
  \cup {Limit(OrderBy(From("t"), <<"a">>, up), n) : up \in BOOLEAN, n \in 0..2}

X == Cte("x", Where(Get(<<<<"a">>, <<"b">>>>, From("t")), B1))
CountX == Cte("x", [From("t") EXCEPT !.columns = <<Column(<<"a">>), Agg("CountStar", <<>>)>>,
                                     !.groupBy = <<<<"a">>>>])
Y == Cte("y", Where(Get(<<<<"a">>>>, From("x")), Is(<<"a">>, ">", 1)))
V == Cte("v", Then(GetA, "UnionAll", GetC))
FromX == Where(Get(<<<<"a">>>>, From("x")), Is(<<"a">>, "<", 3))

CteQueries ==
  {With(<<X>>, FromX), With(<<Materialized(X)>>, FromX),
   With(<<X, Y>>, Get(<<<<"a">>>>, From("y"))),
   With(<<Y, X>>, From("y")), With(<<X, Materialized(Y)>>, From("y")),
   With(<<Materialized(X), Y>>, From("y")), With(<<V>>, Where(From("v"), Is(<<"a">>, "<", 2))),
   With(<<X>>, Then(FromX, "UnionAll", FromX)), With(<<X>>, Then(GetA, "Except", FromX)),
   With(<<CountX>>, [From("x") EXCEPT !.columns = <<Agg("CountStar", <<>>)>>]),
   With(<<Materialized(CountX)>>, Where(From("x"), Is(<<"a">>, "=", 1))),
   With(<<Cte("w", With(<<X>>, Then(FromX, "UnionAll", GetC)))>>, From("w")),
   With(<<Materialized(Cte("w", With(<<Materialized(X)>>, FromX)))>>, From("w")),
   With(<<Cte("w", With(<<Materialized(Cte("x", GetC))>>, From("x"))), Materialized(X)>>,
        JoinOn(From("w"), "Cross", "x", <<>>, <<>>)),
   With(<<X>>, Get(<<<<"u", "d">>, <<"x", "a">>>>,
                   JoinOn(From("u"), "LeftOuter", "x", <<"u", "c">>, <<"x", "a">>))),
   With(<<Cte("x", From("x"))>>, From("x"))}

Sub(p) == Where(GetC, p)
Inner_(p) == Where(As(Get(<<<<"a">>>>, From("t")), "i"), p)
SubqueryQueries ==
  {Where(From("t"), p) : p \in
     {InSubquery(<<"a">>, GetC),
      InSubquery(<<"a">>, Then(GetC, "Except", Get(<<<<"d">>>>, From("u")))),
      And(B1, InSubquery(<<"a">>, Sub(CompareColumns(<<"u", "d">>, "=", <<"t", "b">>)))),
      Or(B1, Exists(Sub(CompareColumns(<<"u", "c">>, "=", <<"t", "a">>)))),
      Exists(Sub(CompareColumns(<<"c">>, "<", <<"a">>))),
      Exists(Sub(CompareColumns(<<"c">>, "=", <<"d">>))),
      Exists(Sub(Exists(Where(Get(<<<<"a">>>>, As(From("t"), "i")),
                              And(CompareColumns(<<"i", "a">>, "=", <<"u", "d">>),
                                  CompareColumns(<<"i", "b">>, "=", <<"t", "b">>)))))),
      Exists(With(<<Cte("w", Sub(CompareColumns(<<"c">>, "=", <<"t", "a">>)))>>, From("w"))),
      Exists(Then(Sub(CompareColumns(<<"c">>, "=", <<"t", "a">>)), "Union",
                  Sub(CompareColumns(<<"d">>, "=", <<"t", "b">>)))),
      Exists([Sub(CompareColumns(<<"c">>, "=", <<"t", "a">>)) EXCEPT
                !.columns = <<Agg("CountStar", <<>>)>>]),
      Exists(Inner_(CompareColumns(<<"i", "a">>, "=", <<"t", "b">>))),
      Exists(Inner_(CompareColumns(<<"t", "b">>, "=", <<"i", "a">>)))}}
  \cup {Where(As(From("t"), "o"), Exists(Inner_(CompareColumns(<<"i", "b">>, "=", <<"o", "a">>)))),
        Get(<<<<"o", "a">>, <<"k", "c">>>>,
            [JoinOn(As(From("t"), "o"), "Inner", "u", <<"o", "a">>, <<"k", "c">>) EXCEPT
               !.joins[1].alias = "k"]),
        Get(<<<<"o", "a">>, <<"k", "d">>>>,
            [JoinOn(As(From("t"), "o"), "RightOuter", "u", <<"o", "a">>, <<"k", "c">>) EXCEPT
               !.joins[1].alias = "k"])}

TableWorkload ==
  [tables |-> {<<t, u>> : t \in Ts, u \in Us}, indexes |-> {<<{}, {}>>},
   rows |-> {}, selects |-> {}, joins |-> {}, width |-> 2,
   names |-> <<[name |-> "t", cols |-> <<<<"a">>, <<"b">>>>],
               [name |-> "u", cols |-> <<<<"c">>, <<"d">>>>]>>,
   queries |-> SetQueries \cup GroupQueries \cup CteQueries \cup SubqueryQueries]

AllQueryWorkloads == AllWorkloads \cup {GraphWorkload, TableWorkload}
=============================================================================
