--------------------------- MODULE QueryEvaluation ---------------------------
(***************************************************************************)
(* SELECT above the scan: set operations, common table expressions, their  *)
(* materialization and recursion, subqueries, aggregates, ORDER BY and     *)
(* LIMIT, over the tables of a SelectEngine workload that has queries.     *)
(*                                                                         *)
(* The code recurses on the SELECT; a behaviour here takes the top level   *)
(* of that recursion step by step (an arm of the set operations, a CTE, an *)
(* iteration of a recursive one), and evaluates what is nested at once.    *)
(* WHERE is applied to the rows of a table or of a join as it is written:  *)
(* AnswerIsExact and JoinIsExact are about the plans.                      *)
(***************************************************************************)
EXTENDS SelectEngine, QueryRewrite

CONSTANTS
  MaxIterations,   \* recursiveCteLimits
  MaxRows

VARIABLES
  stage,       \* "Idle", "Arm", "Materialize", "Iterate" or "Done"
  arm,         \* the arm of the set operations that is evaluated
  combined,    \* the result of the arms before it
  prepared,    \* the rewritten arm, and what it has materialized
  next,        \* the CTE to materialize next
  temps,       \* the materialized CTEs
  group,       \* the recursive CTEs that are iterated
  iteration

evaluation == <<stage, arm, combined, prepared, next, temps, group, iteration>>
queryVars == <<vars, evaluation>>

(* A result is a sequence of columns and one of rows, or a failure.        *)
Result(cols, rows) == [ok |-> TRUE, cols |-> cols, rows |-> rows, why |-> ""]
Failure(why) == [ok |-> FALSE, cols |-> <<>>, rows |-> <<>>, why |-> why]
NoTemps == <<>>

Database ==
  [name \in {work.names[i].name : i \in DOMAIN work.names} |->
     LET i == CHOOSE j \in DOMAIN work.names : work.names[j].name = name
     IN Result(work.names[i].cols, RowsSnapshot(tables[i]))]

RequireTable(name, temporaries) ==
  CASE name \in DOMAIN temporaries -> temporaries[name]
    [] name \in DOMAIN Database \ DOMAIN temporaries -> Database[name]
    [] OTHER -> Failure("unknown table")

-----------------------------------------------------------------------------
(* Columns by name: exactly, or else by what follows the qualifier of one  *)
(* column.  0 is an unknown or an ambiguous column.                        *)

First(found) == IF found = {} THEN 0 ELSE CHOOSE i \in found : \A j \in found : i <= j

ResolveResultColumn(cols, column) ==
  LET exact == {i \in DOMAIN cols : cols[i] = column}
      suffix == {i \in DOMAIN cols : IsStrictSuffix(column, cols[i])}
  IN IF exact # {} THEN First(exact)
     ELSE IF Cardinality(suffix) = 1 THEN First(suffix) ELSE 0

(* A column of the one table that a query reads.                           *)
ResolveLocalColumn(q, cols, column) ==
  LET name == IF Len(column) = 2 /\ column[1] \in {q.table, ScopeName(q)}
                THEN <<column[2]>> ELSE column
  IN First({i \in DOMAIN cols : cols[i] = name})

LookUp(q, cols, column) ==
  IF q.joins = <<>> THEN ResolveLocalColumn(q, cols, column)
  ELSE ResolveResultColumn(cols, column)

-----------------------------------------------------------------------------
(* Set operations                                                          *)

DeduplicateRows(rows) ==
  FoldLeft(LAMBDA unique, row : IF Contains(unique, row) THEN unique ELSE Append(unique, row),
           <<>>, rows)

CountIn(rows, row) == Len(SelectSeq(rows, LAMBDA other : other = row))

(* Whether a row of the left side is in the result.                        *)
Emits(op, left, i, right) ==
  LET earlier == CountIn(SubSeq(left, 1, i - 1), left[i])
      there == CountIn(right, left[i])
  IN CASE op = "Intersect" -> there > 0 /\ earlier = 0
       [] op = "Except" -> there = 0 /\ earlier = 0
       [] op = "IntersectAll" -> earlier < there
       [] op = "ExceptAll" -> earlier >= there

ApplySetOperation(op, left, right) ==
  LET emitted == SelectSeq([i \in DOMAIN left.rows |-> i],
                           LAMBDA i : Emits(op, left.rows, i, right.rows))
  IN CASE ~left.ok -> left
       [] left.ok /\ ~right.ok -> right
       [] left.ok /\ right.ok /\ Len(left.cols) # Len(right.cols) -> Failure("column counts")
       [] OTHER ->
            Result(left.cols,
                   CASE op = "UnionAll" -> left.rows \o right.rows
                     [] op = "Union" -> DeduplicateRows(left.rows \o right.rows)
                     [] OTHER -> [k \in DOMAIN emitted |-> left.rows[emitted[k]]])

-----------------------------------------------------------------------------
(* Aggregates, ORDER BY, projection and LIMIT                              *)

HasAggregates(q) == \E i \in DOMAIN q.columns : q.columns[i].op # ""
IsAggregation(q) == HasAggregates(q) \/ q.groupBy # <<>>

RowLess(r, s) ==
  \E i \in DOMAIN r : Less(r[i], s[i]) /\ \A j \in 1..(i - 1) : r[j] = s[j]

(* Insertion keeps rows with the same key in order; std::ranges::sort may  *)
(* not, and no property depends on it.                                     *)
InsertBefore(sorted, row, later) ==
  InsertAt(sorted, IF later = {} THEN Len(sorted) + 1 ELSE First(later), row)

SortRows(rows, i, ascending) ==
  FoldLeft(LAMBDA sorted, row :
             InsertBefore(sorted, row,
                          {k \in DOMAIN sorted : IF ascending THEN Less(row[i], sorted[k][i])
                                                 ELSE Less(sorted[k][i], row[i])}),
           <<>>, rows)

(* An average is kept as the sum and the count.                            *)
AggregateValues(op, values) ==
  CASE op = "Count" -> <<1, Len(values)>>
    [] op # "Count" /\ values = <<>> -> Null
    [] op \in {"Sum", "Avg"} /\ values # <<>> ->
         FoldLeft(LAMBDA total, v : [total EXCEPT ![2] = @ + v[2]],
                  IF op = "Sum" THEN <<1, 0>> ELSE <<3, 0, Len(values)>>, values)
    [] OTHER ->
         FoldLeft(LAMBDA best, v : IF (op = "Min" /\ Less(v, best)) \/ (op = "Max" /\ Less(best, v))
                                     THEN v ELSE best, Head(values), values)

Aggregate(op, rows, i) ==
  IF op = "CountStar" THEN <<1, Len(rows)>>
  ELSE AggregateValues(op, SelectSeq([k \in DOMAIN rows |-> rows[k][i]], LAMBDA v : v # Null))

GroupedBy(groupBy, column) ==
  First({i \in DOMAIN groupBy : IsSuffix(column, groupBy[i]) \/ IsSuffix(groupBy[i], column)})

IsGrouped(q, expr) == expr.op # "" \/ GroupedBy(q.groupBy, expr.arg) # 0

(* The groups: one for all rows, even if there are none, without GROUP BY. *)
GroupKeys(q, keys) == IF q.groupBy = <<>> THEN {<<>>} ELSE keys

KeyOfRow(row, by) == [i \in DOMAIN by |-> row[by[i]]]

AggregateGroup(q, key, members, args) ==
  [i \in DOMAIN q.columns |->
     IF q.columns[i].op = "" THEN key[GroupedBy(q.groupBy, q.columns[i].arg)]
     ELSE Aggregate(q.columns[i].op, members, args[i])]

AggregateGroups(q, rows, by, args, groups) ==
  Result([i \in DOMAIN q.columns |-> IF q.columns[i].op = "" THEN q.columns[i].arg
                                     ELSE q.columns[i].name],
         [g \in DOMAIN groups |->
            AggregateGroup(q, groups[g], SelectSeq(rows, LAMBDA row : KeyOfRow(row, by) = groups[g]),
                           args)])

AggregateResolved(q, rows, by, args) ==
  IF \/ \E i \in DOMAIN by : by[i] = 0
     \/ /\ q.groupBy = <<>> \/ rows # <<>>
        /\ \E i \in DOMAIN args : args[i] = 0 /\ q.columns[i].op \notin {"", "CountStar"}
    THEN Failure("unknown column")
    ELSE AggregateGroups(q, rows, by, args,
           SetToSortSeq(GroupKeys(q, {KeyOfRow(rows[k], by) : k \in DOMAIN rows}), RowLess))

AggregateRows(q, cols, rows) ==
  IF q.columns = <<>> \/ \E i \in DOMAIN q.columns : ~IsGrouped(q, q.columns[i])
    THEN Failure("not grouped")
    ELSE AggregateResolved(q, rows,
           [i \in DOMAIN q.groupBy |-> ResolveResultColumn(cols, q.groupBy[i])],
           [i \in DOMAIN q.columns |-> ResolveResultColumn(cols, q.columns[i].arg)])

Take(rows, n) == SubSeq(rows, 1, IF n < Len(rows) THEN n ELSE Len(rows))

ApplyOrder(result, orderBy, i) ==
  IF i = 0 THEN Failure("unknown column")
  ELSE [result EXCEPT !.rows = SortRows(@, i, orderBy.ascending)]

ApplyOrderBy(result, q) ==
  IF ~result.ok \/ q.orderBy = <<>> THEN result
  ELSE ApplyOrder(result, q.orderBy[1], ResolveResultColumn(result.cols, q.orderBy[1].col))

ApplyLimit(result, limit) ==
  IF limit = <<>> THEN result ELSE [result EXCEPT !.rows = Take(@, limit[1])]

ApplyOrderLimit(result, q) == ApplyLimit(ApplyOrderBy(result, q), q.limit)

(* projectWithLimit tests the limit after it added a row.                  *)
ProjectRows(rows, projection) ==
  [k \in DOMAIN rows |-> [i \in DOMAIN projection |-> rows[k][projection[i]]]]

ProjectWithLimit(source, projection, limit) ==
  IF ~source.ok THEN source
  ELSE Result([i \in DOMAIN projection |-> source.cols[projection[i]]],
              ProjectRows(IF limit = <<>> THEN source.rows
                          ELSE Take(source.rows, IF limit[1] = 0 THEN 1 ELSE limit[1]),
                          projection))

(* ORDER BY sorts the rows before they are projected, unless they are      *)
(* aggregated.                                                             *)
Project(q, source, projection) ==
  IF \E i \in DOMAIN projection : projection[i] = 0 THEN Failure("unknown column")
  ELSE ProjectWithLimit(ApplyOrderBy(source, q), projection, q.limit)

FinalizeSelectResult(q, source) ==
  IF ~source.ok THEN source
  ELSE IF IsAggregation(q) THEN ApplyOrderLimit(AggregateRows(q, source.cols, source.rows), q)
  ELSE Project(q, source,
               IF q.columns = <<>> THEN [i \in DOMAIN source.cols |-> i]
               ELSE [i \in DOMAIN q.columns |-> ResolveResultColumn(source.cols, q.columns[i].arg)])

-----------------------------------------------------------------------------
(* Correlation: the values of an enclosing row in a subquery               *)

RefersToCurrentOuter(column, outer, cols) ==
  IF Len(column) = 2 THEN column[1] \in {outer.table, ScopeName(outer)}
  ELSE \E i \in DOMAIN cols : cols[i] = column

(* A row of the table that the query `outer` reads; a column that is not   *)
(* one of its columns is left to an enclosing frame.                       *)
RECURSIVE BindOuterReferences(_, _, _, _), BindPredicate(_, _, _, _)
BindOuterReferences(q, outer, cols, row) ==
  [q EXCEPT
     !.where = BindPredicate(@, outer, cols, row),
     !.setOps = [i \in DOMAIN @ |->
                   [@[i] EXCEPT !.select = BindOuterReferences(@, outer, cols, row)]],
     !.ctes = [i \in DOMAIN @ |->
                 [@[i] EXCEPT !.body = BindOuterReferences(@, outer, cols, row),
                              !.arm = IF q.ctes[i].recursive
                                        THEN BindOuterReferences(@, outer, cols, row) ELSE @]]]

BindPredicate(p, outer, cols, row) ==
  CASE p.kind \in {"And", "Or"} ->
         [p EXCEPT !.left = BindPredicate(@, outer, cols, row),
                   !.right = BindPredicate(@, outer, cols, row)]
    [] p.kind \in {"InSubquery", "Exists"} ->
         [p EXCEPT !.select = BindOuterReferences(@, outer, cols, row)]
    [] p.kind = "CompareColumns" ->
         LET i == First({j \in DOMAIN cols : Last(cols[j]) = Last(p.rhs)}) IN
         IF ~p.outer \/ ~RefersToCurrentOuter(p.rhs, outer, cols) THEN p
         ELSE IF i = 0 THEN [kind |-> "Broken"]
         ELSE CompareTo(p.col, p.op, row[i])
    [] OTHER -> p

-----------------------------------------------------------------------------
(* Evaluation                                                              *)

(* The arms of a chain of set operations: the query without the chain, and *)
(* the others, which see its CTEs unless they have their own.              *)
ArmOf(q, i) ==
  CASE q.setOps = <<>> -> q
    [] q.setOps # <<>> /\ i = 0 -> [q EXCEPT !.setOps = <<>>, !.orderBy = <<>>, !.limit = <<>>]
    [] OTHER -> [q.setOps[i].select EXCEPT !.ctes = IF @ = <<>> THEN q.ctes ELSE @]

(* The joined rows, with the columns qualified by their tables.            *)
JoinTables(q, sources) ==
  LET qualified(name, cols) == [i \in DOMAIN cols |-> <<name>> \o cols[i]]
      joined[n \in 0..Len(q.joins)] ==
        IF n = 0 THEN Result(qualified(q.table, sources[1].cols), sources[1].rows)
        ELSE
          LET lefts == joined[n - 1]
              join == q.joins[n]
              rights == sources[n + 1]
              bare == IF Len(join.right) = 2 /\ join.right[1] = join.table
                        THEN <<join.right[2]>> ELSE join.right
              on == [join EXCEPT !.left = ResolveResultColumn(lefts.cols, @),
                                 !.right = First({i \in DOMAIN rights.cols :
                                                   rights.cols[i] = bare})]
              matching(left) == SelectSeq(rights.rows, LAMBDA right : Matches(on, left, right))
              alone == SelectSeq(rights.rows, LAMBDA right :
                         PadsRight(on) /\ \A i \in DOMAIN lefts.rows :
                                            ~Matches(on, lefts.rows[i], right))
          IN CASE ~lefts.ok -> lefts
               [] lefts.ok /\ join.kind # "Cross" /\ 0 \in {on.left, on.right} ->
                    Failure("unknown column")
               [] OTHER ->
                    Result(lefts.cols \o qualified(join.table, rights.cols),
                           ExtendLefts(lefts.rows,
                                       [i \in DOMAIN lefts.rows |-> matching(lefts.rows[i])],
                                       PadsLeft(on), Len(rights.cols))
                             \o [i \in DOMAIN alone |-> Nulls(Len(lefts.cols)) \o alone[i]])
  IN joined[Len(q.joins)]

(* Whether the evaluation of a subquery failed while WHERE was prepared.   *)
RECURSIVE IsBroken(_)
IsBroken(p) ==
  p.kind = "Broken" \/ (p.kind \in {"And", "Or"} /\ (IsBroken(p.left) \/ IsBroken(p.right)))

HasDelta(working) == \E i \in DOMAIN working : working[i].delta.rows # <<>>

RowsOf(working) == FoldLeft(LAMBDA n, w : n + Len(w.result.rows), 0, working)

(* The CTEs of a recursive group by name, as their arms see them.          *)
Bound(working, temporaries) ==
  [name \in {working[i].cte.name : i \in DOMAIN working} |->
     LET w == working[CHOOSE i \in DOMAIN working : working[i].cte.name = name]
     IN IF w.cte.accumulator THEN w.result ELSE w.delta] @@ temporaries

Finished(working, temporaries) ==
  temporaries @@ [name \in {working[i].cte.name : i \in DOMAIN working} |->
                    working[CHOOSE i \in DOMAIN working : working[i].cte.name = name].result]

(* A temporary table has the columns without their qualifiers.             *)
TableFromQueryResult(result) ==
  [result EXCEPT !.cols = [i \in DOMAIN @ |-> <<Last(@[i])>>]]

(* The recursive group of a CTE, without what is materialized already.     *)
PendingGroup(ctes, cte, temporaries) ==
  SelectSeq(RecursiveSccContaining(ctes, cte.name), LAMBDA c : c.name \notin DOMAIN temporaries)

RECURSIVE EvaluateSelectResult(_, _), CollectSelect(_, _), MaterializeCteList(_, _), Source(_, _),
          Holds(_, _, _, _), MaterializePredicate(_), RunGroup(_, _, _), SubqueryRows(_, _)

(* Uncorrelated IN subqueries become lists of values.                      *)
ValueList(col, result) ==
  IF result.ok THEN [kind |-> "InValues", col |-> col,
                     values |-> {result.rows[i][1] : i \in DOMAIN result.rows}]
  ELSE [kind |-> "Broken"]

MaterializePredicate(p) ==
  CASE p.kind \in {"And", "Or"} ->
         [p EXCEPT !.left = MaterializePredicate(@), !.right = MaterializePredicate(@)]
    [] p.kind = "InSubquery" /\ ~HasOuterRefs(p.select) ->
         ValueList(p.col, SubqueryRows("InSubquery", p.select))
    [] OTHER -> p

PrepareSelect(q) ==
  LET prepare(rewrite) == [rewrite EXCEPT !.query =
                             [NormalizeSelect(@) EXCEPT !.where = MaterializePredicate(@)]]
  IN prepare(RewriteSelect(q))

(* evaluateExists and evaluateSubqueryValues ignore GROUP BY unless there  *)
(* are joins or set operations, and EXISTS the aggregates too.             *)
SingleColumn(result) ==
  IF result.ok /\ Len(result.cols) # 1 THEN Failure("one column") ELSE result

RowsToTest(kind, collected) ==
  LET q == collected.query
      ungrouped == IF q.joins = <<>> THEN [q EXCEPT !.groupBy = <<>>] ELSE q
  IN CASE kind = "Exists" /\ q.joins = <<>> -> collected.source
       [] kind = "Exists" /\ q.joins # <<>> -> FinalizeSelectResult(q, collected.source)
       [] OTHER -> IF Len(q.columns) # 1 \/ HasAggregates(q) THEN Failure("one column")
                   ELSE FinalizeSelectResult(ungrouped, collected.source)

SubqueryRows(kind, q) ==
  IF q.setOps = <<>> THEN RowsToTest(kind, CollectSelect(q, NoTemps))
  ELSE IF kind = "Exists" THEN EvaluateSelectResult(q, NoTemps)
  ELSE SingleColumn(EvaluateSelectResult(q, NoTemps))

Truth(b) == IF b THEN "true" ELSE "false"

TestRows(p, value, found) ==
  CASE ~found.ok -> "error"
    [] found.ok /\ p.kind = "Exists" -> Truth(found.rows # <<>>)
    [] OTHER -> Truth(\E k \in DOMAIN found.rows : found.rows[k][1] = value)

(* "true", "false", or "error": evaluation goes from left to right and     *)
(* stops when the result is known.  A subquery does not see the temporary  *)
(* tables of its enclosing query, and a join evaluates none.               *)
Holds(p, q, cols, row) ==
  LET i == LookUp(q, cols, p.col)
      j == LookUp(q, cols, p.rhs)
  IN CASE p.kind = "None" -> "true"
       [] p.kind = "And" -> LET left == Holds(p.left, q, cols, row)
                            IN IF left = "true" THEN Holds(p.right, q, cols, row) ELSE left
       [] p.kind = "Or" -> LET left == Holds(p.left, q, cols, row)
                           IN IF left = "false" THEN Holds(p.right, q, cols, row) ELSE left
       [] p.kind \in {"Exists", "InSubquery"} ->
            IF q.joins # <<>> \/ (p.kind = "InSubquery" /\ i = 0) THEN "error"
            ELSE TestRows(p, IF p.kind = "Exists" THEN Null ELSE row[i],
                          SubqueryRows(p.kind, BindOuterReferences(p.select, q, cols, row)))
       [] p.kind = "CompareColumns" -> IF 0 \in {i, j} THEN "error"
                                       ELSE Truth(CompareValues(row[i], p.op, row[j]))
       [] p.kind = "Broken" -> "error"
       [] p.kind = "InValues" -> IF i = 0 THEN "error" ELSE Truth(row[i] \in p.values)
       [] OTHER -> IF i = 0 THEN "error" ELSE Truth(CompareValues(row[i], p.op, p.value))

(* The rows of the tables in FROM and JOIN that satisfy WHERE.             *)
ReadTables(q, sources) ==
  IF \E i \in DOMAIN sources : ~sources[i].ok THEN Failure("unknown table")
  ELSE IF q.joins = <<>> THEN sources[1] ELSE JoinTables(q, sources)

KeepTrue(from, verdicts) ==
  LET kept == SelectSeq([i \in DOMAIN from.rows |-> i], LAMBDA i : verdicts[i] = "true")
  IN IF \E i \in DOMAIN verdicts : verdicts[i] = "error" THEN Failure("predicate")
     ELSE Result(from.cols, [k \in DOMAIN kept |-> from.rows[kept[k]]])

Filter(q, from) ==
  IF ~from.ok THEN from
  ELSE KeepTrue(from, [i \in DOMAIN from.rows |-> Holds(q.where, q, from.cols, from.rows[i])])

Source(q, temporaries) ==
  Filter(q, ReadTables(q, <<RequireTable(q.table, temporaries)>>
                            \o [i \in DOMAIN q.joins |->
                                  RequireTable(q.joins[i].table, temporaries)]))

(* The prepared query, and the rows it reads.                              *)
Collected(q, source) == [query |-> q, source |-> source]

CollectWith(q, materialized) ==
  IF materialized.ok THEN Collected(q, Source(q, materialized.temps))
  ELSE Collected(q, Failure(materialized.why))

CollectPrepared(select, temporaries) ==
  IF IsBroken(select.query.where) THEN Collected(select.query, Failure("subquery"))
  ELSE CollectWith(select.query, MaterializeCteList(select.materialize, temporaries))

CollectSelect(q, temporaries) == CollectPrepared(PrepareSelect(q), temporaries)

EvaluateSelectResult(q, temporaries) ==
  LET armResult(i) == EvaluateSelectResult(ArmOf(q, i), temporaries)
      finalize(collected) == FinalizeSelectResult(collected.query, collected.source)
  IN IF q.setOps = <<>> THEN finalize(CollectSelect(q, temporaries))
     ELSE ApplyOrderLimit(
            FoldLeft(LAMBDA left, i : ApplySetOperation(q.setOps[i].op, left, armResult(i)),
                     armResult(0), [i \in DOMAIN q.setOps |-> i]), q)

(* The anchors of a recursive group.                                       *)
Anchored(ctes, anchors) ==
  LET working(cte, t) ==
        LET rows == IF cte.distinct THEN DeduplicateRows(t.rows) ELSE t.rows
        IN [cte |-> cte, result |-> [t EXCEPT !.rows = rows], delta |-> [t EXCEPT !.rows = rows]]
      failed == {i \in DOMAIN ctes : ~anchors[i].ok}
  IN IF failed # {} THEN [ok |-> FALSE, why |-> anchors[First(failed)].why, working |-> <<>>]
     ELSE [ok |-> TRUE, why |-> "",
           working |-> [i \in DOMAIN ctes |->
                          working(ctes[i], TableFromQueryResult(anchors[i]))]]

StartGroupOf(ctes, temporaries) ==
  Anchored(ctes, [i \in DOMAIN ctes |-> EvaluateSelectResult(ctes[i].body, temporaries)])

(* What an arm adds: for UNION only the rows that are not there yet.       *)
Fresh(w, rows) ==
  IF w.cte.distinct
    THEN SelectSeq(DeduplicateRows(rows), LAMBDA row : ~Contains(w.result.rows, row))
    ELSE rows

(* Mutant of ReachesCap: the last iteration fails, whatever it adds.       *)
ReachesCapAnyway(working, n) == n + 1 = MaxIterations

ReachesCap(working, n) == n + 1 = MaxIterations /\ HasDelta(working)

(* Iteration n of a recursive group, from 0: every arm sees the tables of  *)
(* the iteration before, and the limits are tested before any insertion    *)
(* (rows) and after all of them (iterations).                              *)
Grown(working, steps) ==
  LET grow(w, fresh) == [w EXCEPT !.result.rows = @ \o fresh, !.delta.rows = fresh]
  IN [i \in DOMAIN working |-> grow(working[i], Fresh(working[i], steps[i].rows))]

Limited(working, steps, grown, n) ==
  LET failed == {i \in DOMAIN steps : ~steps[i].ok}
      misfits == {i \in DOMAIN steps : /\ grown[i].delta.rows # <<>>
                                       /\ Len(steps[i].cols) # Len(working[i].result.cols)}
      stop(why, kept) == [ok |-> FALSE, why |-> why, working |-> kept]
  IN IF failed # {} THEN stop(steps[First(failed)].why, working)
     ELSE IF RowsOf(grown) > MaxRows THEN stop("rows", working)
     ELSE IF misfits # {} THEN stop("column counts", working)
     ELSE IF ReachesCap(grown, n) THEN stop("iterations", grown)
     ELSE [ok |-> TRUE, why |-> "", working |-> grown]

Stepped(working, steps, n) == Limited(working, steps, Grown(working, steps), n)

Iterated(working, temporaries, n) ==
  Stepped(working,
          [i \in DOMAIN working |->
             EvaluateSelectResult(working[i].cte.arm, Bound(working, temporaries))], n)

RunGroup(working, temporaries, n) ==
  LET continue(iterated) ==
        IF iterated.ok THEN RunGroup(iterated.working, temporaries, n + 1) ELSE iterated
  IN IF ~HasDelta(working) \/ n = MaxIterations
       THEN [ok |-> TRUE, why |-> "", working |-> working]
       ELSE continue(Iterated(working, temporaries, n))

(* A CTE that is not recursive is a group of its own that is not iterated. *)
MaterializeCteList(ctes, temporaries) ==
  LET groupOf(cte, temps_) == IF cte.recursive THEN PendingGroup(ctes, cte, temps_) ELSE <<cte>>
      run(cte, start, temps_) ==
        IF start.ok /\ cte.recursive THEN RunGroup(start.working, temps_, 0) ELSE start
      add(done, made) == IF made.ok THEN [done EXCEPT !.temps = Finished(made.working, @)]
                         ELSE [done EXCEPT !.ok = FALSE, !.why = made.why]
      materialize(done, cte) ==
        IF ~done.ok \/ cte.name \in DOMAIN done.temps THEN done
        ELSE add(done, run(cte, StartGroupOf(groupOf(cte, done.temps), done.temps), done.temps))
  IN FoldLeft(materialize, [ok |-> TRUE, why |-> "", temps |-> temporaries], ctes)

-----------------------------------------------------------------------------
(* The top level, step by step                                             *)

NoArm == [query |-> NoSelect, materialize |-> <<>>]

QueryInit ==
  /\ Init
  /\ stage = "Idle" /\ arm = 0
  /\ combined = Result(<<>>, <<>>)
  /\ prepared = NoArm /\ next = 1
  /\ temps = NoTemps
  /\ group = <<>> /\ iteration = 0

Keeps == UNCHANGED <<work, tables, indexes, plan, before, reads, sireads, writes, images>>

(* The statement ends with a result or a failure.                          *)
End(result) ==
  /\ stage' = "Done"
  /\ answer' = result

StartParsed(q) ==
  /\ IsAccepted(q)
  /\ query' = [kind |-> "Query", select |-> q]
  /\ stage' = "Arm"
  /\ UNCHANGED answer

RefuseParsed(q) ==
  /\ ~IsAccepted(q)
  /\ query' = [kind |-> "Query", select |-> q]
  /\ End(Failure("parser"))

StartQuery(q) ==
  /\ query = NoQuery
  /\ StartParsed(Parse(q, <<>>))
  /\ UNCHANGED <<arm, combined, prepared, next, temps, group, iteration>> /\ Keeps

RefuseQuery(q) ==
  /\ query = NoQuery
  /\ RefuseParsed(Parse(q, <<>>))
  /\ UNCHANGED <<arm, combined, prepared, next, temps, group, iteration>> /\ Keeps

UsePrepared(select) ==
  IF IsBroken(select.query.where)
    THEN End(Failure("subquery")) /\ UNCHANGED <<prepared, next, temps>>
    ELSE /\ stage' = "Materialize"
         /\ prepared' = select /\ next' = 1 /\ temps' = NoTemps
         /\ UNCHANGED answer

PrepareArm ==
  /\ stage = "Arm"
  /\ UsePrepared(PrepareSelect(ArmOf(query.select, arm)))
  /\ UNCHANGED <<query, arm, combined, group, iteration>> /\ Keeps

NextCte == prepared.materialize[next]
IsMaterialized == NextCte.name \in DOMAIN temps

SkipCte ==
  /\ stage = "Materialize" /\ next <= Len(prepared.materialize)
  /\ IsMaterialized
  /\ next' = next + 1
  /\ UNCHANGED <<query, answer, stage, arm, combined, prepared, temps, group, iteration>> /\ Keeps

AddTemporary(result) ==
  IF result.ok THEN /\ temps' = temps @@ (NextCte.name :> TableFromQueryResult(result))
                    /\ next' = next + 1
                    /\ UNCHANGED <<stage, answer>>
  ELSE End(result) /\ UNCHANGED <<next, temps>>

MaterializeCte ==
  /\ stage = "Materialize" /\ next <= Len(prepared.materialize)
  /\ ~IsMaterialized /\ ~NextCte.recursive
  /\ AddTemporary(EvaluateSelectResult(NextCte.body, temps))
  /\ UNCHANGED <<query, arm, combined, prepared, group, iteration>> /\ Keeps

UseAnchors(start) ==
  IF start.ok THEN stage' = "Iterate" /\ group' = start.working /\ UNCHANGED answer
  ELSE End(Failure(start.why)) /\ UNCHANGED group

StartGroup ==
  /\ stage = "Materialize" /\ next <= Len(prepared.materialize)
  /\ ~IsMaterialized /\ NextCte.recursive
  /\ UseAnchors(StartGroupOf(PendingGroup(prepared.materialize, NextCte, temps), temps))
  /\ iteration' = 0
  /\ UNCHANGED <<query, arm, combined, prepared, next, temps>> /\ Keeps

UseIteration(iterated) ==
  /\ group' = iterated.working
  /\ IF iterated.ok THEN UNCHANGED <<stage, answer>> ELSE End(Failure(iterated.why))

Iterate ==
  /\ stage = "Iterate"
  /\ HasDelta(group) /\ iteration < MaxIterations
  /\ UseIteration(Iterated(group, temps, iteration))
  /\ iteration' = iteration + 1
  /\ UNCHANGED <<query, arm, combined, prepared, next, temps>> /\ Keeps

FinishGroup ==
  /\ stage = "Iterate"
  /\ ~HasDelta(group) \/ iteration = MaxIterations
  /\ temps' = Finished(group, temps)
  /\ group' = <<>> /\ next' = next + 1
  /\ stage' = "Materialize"
  /\ UNCHANGED <<query, answer, arm, combined, prepared, iteration>> /\ Keeps

(* The arm itself, combined with those before it; after the last one ORDER *)
(* BY and LIMIT of the chain.                                              *)
UseArm(setOps, all) ==
  IF all.ok /\ arm < Len(setOps)
    THEN /\ combined' = all /\ arm' = arm + 1
         /\ stage' = "Arm"
         /\ UNCHANGED answer
    ELSE /\ End(IF setOps = <<>> THEN all ELSE ApplyOrderLimit(all, query.select))
         /\ UNCHANGED <<combined, arm>>

CombineArm(setOps, result) ==
  UseArm(setOps, IF arm = 0 THEN result ELSE ApplySetOperation(setOps[arm].op, combined, result))

EvaluateArm ==
  /\ stage = "Materialize" /\ next > Len(prepared.materialize)
  /\ CombineArm(query.select.setOps,
                FinalizeSelectResult(prepared.query, Source(prepared.query, temps)))
  /\ UNCHANGED <<query, prepared, next, temps, group, iteration>> /\ Keeps

EvaluationStep ==
  PrepareArm \/ SkipCte \/ MaterializeCte \/ StartGroup \/ Iterate \/ FinishGroup \/ EvaluateArm

QueryNext ==
  \/ Next /\ UNCHANGED evaluation
  \/ \E q \in work.queries : StartQuery(q) \/ RefuseQuery(q)
  \/ EvaluationStep

QuerySpec == QueryInit /\ [][QueryNext]_queryVars

=============================================================================
