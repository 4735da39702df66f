--------------------------- MODULE QuerySemantics ---------------------------
(***************************************************************************)
(* What a SELECT means, and that QueryEvaluation computes it.              *)
(*                                                                         *)
(* The meaning of a query is a bag of rows, defined on the query as it is  *)
(* written: the name of a CTE stands for the meaning of its body, a        *)
(* recursive UNION for the least fixpoint of its arms, a recursive UNION   *)
(* ALL for the sum of what the arms make of the anchor, again and again,   *)
(* and a column for the innermost query that has it.                       *)
(***************************************************************************)
EXTENDS QueryEvaluation

Meaning(cols, bag) == [cols |-> cols, bag |-> bag]

(* The columns of the rows a query reads, by the name each table has in    *)
(* it, and a frame: such a row, with the frames of the enclosing queries.  *)
SourceName(q, i) ==
  IF i = 1 THEN ScopeName(q)
  ELSE IF q.joins[i - 1].alias = "" THEN q.joins[i - 1].table ELSE q.joins[i - 1].alias

Named(name, cols) == [i \in DOMAIN cols |-> <<name>> \o cols[i]]

IndexOf(cols, column) ==
  First({i \in DOMAIN cols : cols[i] = column \/ IsStrictSuffix(column, cols[i])})

ValueIn(frame, column) == frame.row[IndexOf(frame.cols, column)]

ValueOf(column, frames) ==
  ValueIn(frames[First({k \in DOMAIN frames : IndexOf(frames[k].cols, column) # 0})], column)

(* Bags of rows                                                            *)
Distinct(bag) == SetToBag(DOMAIN bag)

(* A join of bags whose rows have the given widths; `pairs` match.         *)
JoinBags(join, lefts, leftWidth, rights, rightWidth, pairs) ==
  LET left(row) == SubSeq(row, 1, leftWidth)
      right(row) == SubSeq(row, leftWidth + 1, leftWidth + rightWidth)
      lonelyLefts == {l \in DOMAIN lefts : PadsLeft(join) /\ \A p \in pairs : p[1] # l}
      lonelyRights == {r \in DOMAIN rights : PadsRight(join) /\ \A p \in pairs : p[2] # r}
  IN [row \in {p[1] \o p[2] : p \in pairs} |-> lefts[left(row)] * rights[right(row)]]
       (+) [row \in {l \o Nulls(rightWidth) : l \in lonelyLefts} |-> lefts[left(row)]]
       (+) [row \in {Nulls(leftWidth) \o r : r \in lonelyRights} |-> rights[right(row)]]

Copies(op, l, r) ==
  CASE op = "UnionAll" -> l + r
    [] op = "Union" -> 1
    [] op = "Intersect" -> IF l > 0 /\ r > 0 THEN 1 ELSE 0
    [] op = "IntersectAll" -> IF l < r THEN l ELSE r
    [] op = "Except" -> IF l > 0 /\ r = 0 THEN 1 ELSE 0
    [] op = "ExceptAll" -> IF l > r THEN l - r ELSE 0

Occurring(counts) == [row \in {x \in DOMAIN counts : counts[x] > 0} |-> counts[row]]

CombineBags(op, lefts, rights) ==
  Occurring([row \in DOMAIN lefts \cup DOMAIN rights |->
               Copies(op, CopiesIn(row, lefts), CopiesIn(row, rights))])

SumOf(values) == MapThenSumSet(LAMBDA v : v[2] * values[v], DOMAIN values)

AggregateOf(op, values) ==
  CASE op = "Count" -> <<1, BagCardinality(values)>>
    [] op # "Count" /\ DOMAIN values = {} -> Null
    [] op = "Sum" /\ DOMAIN values # {} -> <<1, SumOf(values)>>
    [] op = "Avg" /\ DOMAIN values # {} -> <<3, SumOf(values), BagCardinality(values)>>
    [] op = "Min" /\ DOMAIN values # {} ->
         CHOOSE v \in DOMAIN values : \A u \in DOMAIN values : ~Less(u, v)
    [] OTHER -> CHOOSE v \in DOMAIN values : \A u \in DOMAIN values : ~Less(v, u)

AggregateBag(op, bag, i) ==
  IF op = "CountStar" THEN <<1, BagCardinality(bag)>>
  ELSE AggregateOf(op, BagOfAll(LAMBDA row : row[i],
                                RestrictDomain(bag, LAMBDA row : row[i] # Null)))

(* A join of meanings: `on` compares two columns, by their positions.      *)
JoinAt(on, lefts, rights) ==
  Meaning(lefts.cols \o rights.cols,
          JoinBags(on, lefts.bag, Len(lefts.cols), rights.bag, Len(rights.cols),
                   {p \in (DOMAIN lefts.bag) \X (DOMAIN rights.bag) : Matches(on, p[1], p[2])}))

JoinMeanings(join, lefts, rights) ==
  JoinAt([join EXCEPT !.left = IndexOf(lefts.cols, @), !.right = IndexOf(rights.cols, @)],
         lefts, rights)

(* The rows of FROM and JOIN, and what SELECT and GROUP BY make of those   *)
(* that satisfy WHERE.                                                     *)
FromMeaning(q, sources) ==
  FoldLeft(LAMBDA lefts, i : JoinMeanings(q.joins[i], lefts, sources[i + 1]),
           sources[1], [i \in DOMAIN q.joins |-> i])

GroupRow(q, members, indexes_) ==
  [i \in DOMAIN q.columns |->
     IF q.columns[i].op = "" THEN (CHOOSE row \in DOMAIN members : TRUE)[indexes_[i]]
     ELSE AggregateBag(q.columns[i].op, members, indexes_[i])]

SelectGroups(q, bag, indexes_, by) ==
  BagOfAll(LAMBDA key : GroupRow(q, RestrictDomain(bag, LAMBDA row : KeyOfRow(row, by) = key),
                                 indexes_),
           SetToBag(GroupKeys(q, {KeyOfRow(row, by) : row \in DOMAIN bag})))

SelectColumns(q, cols, bag, indexes_) ==
  IF IsAggregation(q)
    THEN SelectGroups(q, bag, indexes_, [i \in DOMAIN q.groupBy |-> IndexOf(cols, q.groupBy[i])])
    ELSE IF q.columns = <<>> THEN bag ELSE BagOfAll(LAMBDA row : KeyOfRow(row, indexes_), bag)

NameOf(expr) == <<Last(IF expr.op = "" THEN expr.arg ELSE expr.name)>>

Selected(q, cols, bag) ==
  Meaning(IF q.columns = <<>> THEN [i \in DOMAIN cols |-> <<Last(cols[i])>>]
          ELSE [i \in DOMAIN q.columns |-> NameOf(q.columns[i])],
          SelectColumns(q, cols, bag, [i \in DOMAIN q.columns |-> IndexOf(cols, q.columns[i].arg)]))

-----------------------------------------------------------------------------
(* A scope is a sequence of names, innermost first: a CTE, which stands in *)
(* a WITH list in an outer scope, or a CTE of a recursive group, bound to  *)
(* a meaning while the group is computed.                                  *)

CteNamed(list, i, outer) == [name |-> list[i].name, bound |-> FALSE, list |-> list, index |-> i,
                             outer |-> outer]
BoundTo(name, meaning) == [name |-> name, bound |-> TRUE, meaning |-> meaning]

InSequence(list, indexSet) ==
  SelectSeq([i \in DOMAIN list |-> i], LAMBDA i : i \in indexSet)

Scope(list, indexSet, outer) ==
  FoldRight(LAMBDA i, scope : <<CteNamed(list, i, outer)>> \o scope,
            InSequence(list, indexSet), outer)

BoundScope(list, x, outer) ==
  FoldRight(LAMBDA i, scope : <<BoundTo(list[i].name, x[i])>> \o scope,
            InSequence(list, DOMAIN x), Scope(list, DOMAIN list \ DOMAIN x, outer))

RECURSIVE MeaningOf(_, _, _), TableMeaning(_, _, _), IsTrue(_, _, _), ArmsOn(_, _, _, _),
          LeastFixpoint(_, _, _, _, _, _), SumOfSteps(_, _, _, _, _, _), GroupMeaning(_, _, _, _)

(* The rows the arms of a recursive group make of given rows.              *)
ArmsIn(list, scope, frames, x) ==
  [i \in DOMAIN x |-> Meaning(x[i].cols, MeaningOf(list[i].arm, scope, frames).bag)]

ArmsOn(list, outer, frames, x) == ArmsIn(list, BoundScope(list, x, outer), frames, x)

CombineAll(op, x, y) == [i \in DOMAIN x |-> Meaning(x[i].cols, CombineBags(op, x[i].bag, y[i].bag))]

(* UNION: rows are added to the anchors while there are new ones (y is x   *)
(* and what the arms make of it).  The rounds that add one are counted,    *)
(* and more than MaxIterations of them are not taken.                      *)
LeastFixpoint(list, outer, frames, x, y, rounds) ==
  IF y = x \/ rounds > MaxIterations THEN [x |-> x, rounds |-> rounds]
  ELSE LeastFixpoint(list, outer, frames, y,
                     CombineAll("Union", y, ArmsOn(list, outer, frames, y)), rounds + 1)

(* UNION ALL: the anchors, what the arms make of them, and so on.          *)
SumOfSteps(list, outer, frames, total, step, rounds) ==
  IF rounds > MaxIterations \/ \A i \in DOMAIN step : DOMAIN step[i].bag = {}
    THEN [x |-> total, rounds |-> rounds]
    ELSE SumOfSteps(list, outer, frames, CombineAll("UnionAll", total, step),
                    ArmsOn(list, outer, frames, step), rounds + 1)

(* The recursive group of a CTE: its tables, and how many rounds they take.*)
FromAnchors(list, i, outer, frames, anchors) ==
  IF list[i].distinct
    THEN LeastFixpoint(list, outer, frames, anchors,
                       CombineAll("Union", anchors, ArmsOn(list, outer, frames, anchors)), 0)
    ELSE SumOfSteps(list, outer, frames, anchors, ArmsOn(list, outer, frames, anchors), 0)

AnchorOf(cte, meaning) ==
  IF cte.distinct THEN Meaning(meaning.cols, Distinct(meaning.bag)) ELSE meaning

GroupIn(list, i, members, outer, frames) ==
  FromAnchors(list, i, outer, frames,
              [k \in members |->
                 AnchorOf(list[k], MeaningOf(list[k].body, Scope(list, DOMAIN list \ members, outer),
                                             frames))])

GroupMeaning(list, i, outer, frames) == GroupIn(list, i, Component(list, i), outer, frames)

EntryMeaning(entry, frames) ==
  CASE entry.bound -> entry.meaning
    [] ~entry.bound /\ entry.list[entry.index].recursive ->
         GroupMeaning(entry.list, entry.index, entry.outer, frames).x[entry.index]
    [] OTHER -> MeaningOf(entry.list[entry.index].body,
                          Scope(entry.list, DOMAIN entry.list \ {entry.index}, entry.outer), frames)

TableMeaning(name, scope, frames) ==
  IF \E j \in DOMAIN scope : scope[j].name = name
    THEN EntryMeaning(scope[First({j \in DOMAIN scope : scope[j].name = name})], frames)
    ELSE Meaning(Database[name].cols, ToBag(Database[name].rows))

IsTrue(p, scope, frames) ==
  CASE p.kind = "None" -> TRUE
    [] p.kind = "And" -> IsTrue(p.left, scope, frames) /\ IsTrue(p.right, scope, frames)
    [] p.kind = "Or" -> IsTrue(p.left, scope, frames) \/ IsTrue(p.right, scope, frames)
    [] p.kind = "Exists" -> DOMAIN MeaningOf(p.select, scope, frames).bag # {}
    [] p.kind = "InSubquery" ->
         <<ValueOf(p.col, frames)>> \in DOMAIN MeaningOf(p.select, scope, frames).bag
    [] p.kind = "CompareColumns" ->
         CompareValues(ValueOf(p.col, frames), p.op, ValueOf(p.rhs, frames))
    [] OTHER -> CompareValues(ValueOf(p.col, frames), p.op, p.value)

(* The meaning of a query, without its ORDER BY and LIMIT.                 *)
Rename(name, meaning) == Meaning(Named(name, meaning.cols), meaning.bag)

RowsWhere(q, from, scope, frames) ==
  RestrictDomain(from.bag, LAMBDA row :
                   IsTrue(q.where, scope, <<[cols |-> from.cols, row |-> row]>> \o frames))

SelectFrom(q, from, scope, frames) == Selected(q, from.cols, RowsWhere(q, from, scope, frames))

MeaningIn(q, scope, frames) ==
  FoldLeft(LAMBDA m, op : Meaning(m.cols, CombineBags(op.op, m.bag,
                                                      MeaningOf(op.select, scope, frames).bag)),
           SelectFrom(q, FromMeaning(q, [i \in 1..(1 + Len(q.joins)) |->
                           Rename(SourceName(q, i),
                                  TableMeaning(IF i = 1 THEN q.table ELSE q.joins[i - 1].table,
                                               scope, frames))]), scope, frames),
           q.setOps)

MeaningOf(q, outer, frames) == MeaningIn(q, Scope(q.ctes, DOMAIN q.ctes, outer), frames)

-----------------------------------------------------------------------------
(* Where the code disagrees with the meaning, by what stands in a query.   *)

RECURSIVE Conditions(_), Selects(_)
Conditions(p) ==
  IF p.kind \in {"And", "Or"} THEN Conditions(p.left) \cup Conditions(p.right) ELSE {p}

(* A query and all queries in it.                                          *)
Selects(q) ==
  {q} \cup UNION {Selects(q.setOps[i].select) : i \in DOMAIN q.setOps}
      \cup UNION {Selects(q.ctes[i].body) : i \in DOMAIN q.ctes}
      \cup UNION {Selects(q.ctes[i].arm) : i \in RecursiveCtes(q.ctes)}
      \cup UNION {Selects(p.select) : p \in {c \in Conditions(q.where) :
                                               c.kind \in {"InSubquery", "Exists"}}}

(* projectWithLimit returns a row for LIMIT 0.                             *)
HasLimitZero(q) == q.limit = <<0>>

(* rewriteSelect inlines a body with its GROUP BY or aggregates, and then  *)
(* filters and projects before they apply.                                 *)
InlinesAggregation(q) ==
  q.joins = <<>> /\ \E i \in DOMAIN q.ctes :
    /\ q.ctes[i].mode # "Materialized" /\ ~q.ctes[i].recursive
    /\ IsAggregation(q.ctes[i].body)

(* rewriteSelect keeps the set operations of the inlined body in place of  *)
(* those of the body that reads it.                                        *)
LosesSetOperations(q) ==
  \E i \in DOMAIN q.ctes : RewriteBody(q.ctes[i].body).query.setOps # q.ctes[i].body.setOps

(* Materialized CTEs share one name space, whatever WITH they stand in.    *)
ReusesName(q) ==
  LET names(s) == {s.ctes[i].name : i \in DOMAIN s.ctes} IN
  \E s \in Selects(q) \ {q} : names(s) \cap (names(q) \cup DOMAIN Database) # {}

(* An arm may read another group only.  With an empty anchor it is not     *)
(* evaluated, and UNION ALL adds its rows in every iteration.              *)
ReadsOtherGroup(q) ==
  \E i, j \in RecursiveCtes(q.ctes) :
    /\ j \notin Component(q.ctes, i) /\ CountTableRefs(q.ctes[i].arm, q.ctes[j].name) > 0
    /\ \/ ~q.ctes[i].distinct
       \/ DOMAIN MeaningOf(q.ctes[i].body, Scope(q.ctes, DOMAIN q.ctes, <<>>), <<>>).bag = {}

(* A recursive UNION ALL sees the rows of all iterations with AS           *)
(* ACCUMULATOR, as documented; and a group may mix UNION and UNION ALL.    *)
HasOtherRecursion(q) ==
  \E i \in RecursiveCtes(q.ctes) :
    \/ q.ctes[i].accumulator /\ ~q.ctes[i].distinct
    \/ \E j \in Component(q.ctes, i) : q.ctes[i].distinct # q.ctes[j].distinct

(* bindOuterReferences binds the right column of a comparison only, and a  *)
(* subquery with an alias strips the name of its table from both.          *)
HasOuterColumnOnTheLeft(q) ==
  \E p \in Conditions(q.where) :
    p.kind = "CompareColumns" /\ RefersToOuterTable(p.col, ScopeName(q)) /\ q.joins = <<>>

(* evaluateExists and evaluateSubqueryValues do not aggregate.             *)
TestsAggregation(q) ==
  \E p \in Conditions(q.where) :
    p.kind \in {"Exists", "InSubquery"} /\ IsAggregation(p.select)

IsException(q) ==
  \E s \in Selects(q) :
    \/ HasLimitZero(s) \/ (s # q /\ s.limit # <<>>)
    \/ InlinesAggregation(s) \/ LosesSetOperations(s) \/ ReusesName(s)
    \/ ReadsOtherGroup(s) \/ HasOtherRecursion(s)
    \/ HasOuterColumnOnTheLeft(s) \/ TestsAggregation(s)

-----------------------------------------------------------------------------
(* Properties                                                              *)

IsAnswered == query.kind = "Query" /\ stage = "Done" /\ answer.ok

(* The answer is the meaning m, sorted by the column `key` and cut off.    *)
IsFirstOf(q, m, got, size, key) ==
  LET notAfter(r, s) == IF q.orderBy[1].ascending THEN ~Less(s[key], r[key])
                        ELSE ~Less(r[key], s[key])
  IN /\ Len(answer.cols) = Len(m.cols)
     /\ got \sqsubseteq m.bag
     /\ Len(answer.rows) = IF q.limit # <<>> /\ q.limit[1] < size THEN q.limit[1] ELSE size
     /\ key # 0 =>
          /\ \A i \in 1..(Len(answer.rows) - 1) : notAfter(answer.rows[i], answer.rows[i + 1])
          /\ \A row \in DOMAIN (m.bag (-) got), i \in DOMAIN answer.rows :
               notAfter(answer.rows[i], row)

AnswersAs(q, m) ==
  IsFirstOf(q, m, ToBag(answer.rows), BagCardinality(m.bag),
            IF q.orderBy = <<>> THEN 0 ELSE IndexOf(m.cols, <<Last(q.orderBy[1].col)>>))

(* A SELECT that returns rows returns what it means, whichever of its CTEs *)
(* were inlined, materialized or iterated and however its subqueries were  *)
(* evaluated: each row as often as it should be, in the order of ORDER BY, *)
(* and with LIMIT that many of the first rows.                             *)
QueryIsExact ==
  IsAnswered /\ ~IsException(query.select) =>
    AnswersAs(query.select, MeaningOf(query.select, <<>>, <<>>))

(* The recursive group that is computed, and the limits it may fail by.    *)
GroupCtes == [i \in DOMAIN group |-> group[i].cte]

OutsideGroup(scope) == SelectSeq(scope, LAMBDA e : \A i \in DOMAIN group : e.name # group[i].cte.name)

SizeOf(x) == MapThenSumSet(LAMBDA i : BagCardinality(x[i].bag), DOMAIN x)

FailsAs(meaning) ==
  /\ answer.why = "rows" => SizeOf(meaning.x) > MaxRows \/ meaning.rounds > MaxIterations
  /\ answer.why = "iterations" => meaning.rounds >= MaxIterations
  /\ RowsOf(group) <= MaxRows \/ iteration = 1

(* A recursive CTE fails by a limit only when what it means exceeds the    *)
(* limit, or takes that many iterations, and then no rows of the iteration *)
(* that was too large were inserted: materializeRecursiveGroup never gives *)
(* up on a recursion that would have ended within the limits.              *)
LimitsAreExact ==
  query.kind = "Query" /\ stage = "Done" /\ answer.why \in {"rows", "iterations"}
    /\ group # <<>> /\ ~IsException(query.select) =>
      FailsAs(GroupMeaning(GroupCtes, 1,
                           OutsideGroup(Scope(query.select.ctes, DOMAIN query.select.ctes, <<>>)),
                           <<>>))

=============================================================================
