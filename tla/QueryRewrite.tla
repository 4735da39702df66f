---------------------------- MODULE QueryRewrite ----------------------------
(***************************************************************************)
(* What happens to a SELECT before it is evaluated: the parser splits the  *)
(* recursive entries of a WITH list and marks the columns of enclosing     *)
(* queries, and the rewriter inlines common table expressions (CTEs) or    *)
(* lists them for materialization, recursive ones in dependency order.     *)
(*                                                                         *)
(* A SELECT is a record of table, alias, joins, columns, where, groupBy,   *)
(* orderBy, limit, recursive, ctes and setOps; an empty sequence is a      *)
(* missing clause, or * in place of the columns, and "" no alias.  A       *)
(* column is <<name>>, or <<qualifier, name>>.  A derived table in FROM is *)
(* a CTE to the parser, and so it is here.                                 *)
(***************************************************************************)
EXTENDS AccessPaths, Relation

NoSelect == [table |-> ""]

ScopeName(q) == IF q.alias = "" THEN q.table ELSE q.alias

References(q, name) == q.table = name \/ \E i \in DOMAIN q.joins : q.joins[i].table = name

RECURSIVE CountTableRefs(_, _)
CountTableRefs(q, name) ==
  FoldLeft(LAMBDA n, arm : n + CountTableRefs(arm.select, name),
           (IF q.table = name THEN 1 ELSE 0)
             + Len(SelectSeq(q.joins, LAMBDA join : join.table = name)),
           q.setOps)

-----------------------------------------------------------------------------
(* Predicates on named columns, besides the AND, OR and none of AccessPaths *)

CompareTo(col, op, value) == [kind |-> "Compare", col |-> col, op |-> op, value |-> value]
CompareColumns(col, op, rhs) ==
  [kind |-> "CompareColumns", col |-> col, op |-> op, rhs |-> rhs, outer |-> FALSE]
InSubquery(col, select) == [kind |-> "InSubquery", col |-> col, select |-> select]
Exists(select) == [kind |-> "Exists", select |-> select]

RECURSIVE PredicateReferencesOuter(_), HasOuterRefs(_)
PredicateReferencesOuter(p) ==
  CASE p.kind \in {"And", "Or"} ->
         PredicateReferencesOuter(p.left) \/ PredicateReferencesOuter(p.right)
    [] p.kind = "CompareColumns" -> p.outer
    [] p.kind \in {"InSubquery", "Exists"} -> HasOuterRefs(p.select)
    [] OTHER -> FALSE

HasOuterRefs(q) ==
  \/ PredicateReferencesOuter(q.where)
  \/ \E i \in DOMAIN q.setOps : HasOuterRefs(q.setOps[i].select)
  \/ \E i \in DOMAIN q.ctes : \/ HasOuterRefs(q.ctes[i].body)
                              \/ q.ctes[i].recursive /\ HasOuterRefs(q.ctes[i].arm)

AndPredicates(p, q) == IF p = None THEN q ELSE IF q = None THEN p ELSE And(p, q)

-----------------------------------------------------------------------------
(* Parsing                                                                 *)

(* Whether a comparison of two columns is taken to read an enclosing       *)
(* query: one column is qualified by another table, or the right one is    *)
(* not qualified.                                                          *)
RefersToOuterTable(column, innerTable) == Len(column) = 2 /\ column[1] # innerTable

ReferencesOuter(p, innerTable, outerTables) ==
  /\ outerTables # <<>>
  /\ \/ RefersToOuterTable(p.col, innerTable)
     \/ RefersToOuterTable(p.rhs, innerTable)
     \/ Len(p.rhs) = 1

(* One entry of WITH RECURSIVE: a single UNION [ALL] becomes an anchor and *)
(* a recursive arm.                                                        *)
IsPeeled(cte) ==
  Len(cte.body.setOps) = 1 /\ cte.body.setOps[1].op \in {"Union", "UnionAll"}

PeelRecursiveArm(cte) ==
  IF IsPeeled(cte)
    THEN [cte EXCEPT !.body.setOps = <<>>, !.recursive = TRUE,
                     !.arm = cte.body.setOps[1].select,
                     !.distinct = cte.body.setOps[1].op = "Union"]
    ELSE cte

RECURSIVE Parse(_, _), ParsePredicate(_, _, _)
Parse(q, outerTables) ==
  [q EXCEPT
     !.where = ParsePredicate(@, ScopeName(q), outerTables),
     !.setOps = [i \in DOMAIN @ |-> [@[i] EXCEPT !.select = Parse(@, outerTables)]],
     !.ctes = [i \in DOMAIN @ |->
                 LET cte == [@[i] EXCEPT !.body = Parse(@, outerTables)]
                 IN IF q.recursive THEN PeelRecursiveArm(cte) ELSE cte]]

ParsePredicate(p, innerTable, outerTables) ==
  CASE p.kind \in {"And", "Or"} ->
         [p EXCEPT !.left = ParsePredicate(@, innerTable, outerTables),
                   !.right = ParsePredicate(@, innerTable, outerTables)]
    [] p.kind = "CompareColumns" ->
         [p EXCEPT !.outer = ReferencesOuter(p, innerTable, outerTables)]
    [] p.kind \in {"InSubquery", "Exists"} ->
         [p EXCEPT !.select = Parse(@, Append(outerTables, innerTable))]
    [] OTHER -> p

-----------------------------------------------------------------------------
(* Recursive CTEs: which of them depend on which                           *)

RecursiveCtes(ctes) == {i \in DOMAIN ctes : ctes[i].recursive}

(* By index: the arm of the first references the second.                   *)
RecursiveRefGraph(ctes) ==
  [x, y \in RecursiveCtes(ctes) |-> CountTableRefs(ctes[x].arm, ctes[y].name) > 0]

DependsOn(ctes) == TransitiveClosure(RecursiveRefGraph(ctes), RecursiveCtes(ctes))

(* The strongly connected component of a recursive CTE.                    *)
ComponentOf(ctes, dependsOn, i) ==
  {j \in RecursiveCtes(ctes) : j = i \/ (dependsOn[i, j] /\ dependsOn[j, i])}

Component(ctes, i) == ComponentOf(ctes, DependsOn(ctes), i)

InOrder(ctes, order) == [k \in DOMAIN order |-> ctes[order[k]]]

RecursiveSccContaining(ctes, name) ==
  InOrder(ctes, SetToSortSeq(UNION {Component(ctes, i) : i \in {j \in RecursiveCtes(ctes) :
                                                                 ctes[j].name = name}}, <))

(* Components after those they depend on, their members together and as    *)
(* declared; a component depends on more CTEs than those it depends on.    *)
Rank(needed, component, i) ==
  <<Cardinality(needed \ component), CHOOSE j \in component : \A k \in component : j <= k, i>>

Ranks(ctes, dependsOn) ==
  [i \in RecursiveCtes(ctes) |-> Rank({j \in RecursiveCtes(ctes) : dependsOn[i, j]},
                                      ComponentOf(ctes, dependsOn, i), i)]

ByRank(ctes, ranks) ==
  InOrder(ctes, SetToSortSeq(DOMAIN ranks, LAMBDA i, j : Less(ranks[i], ranks[j])))

RecursiveMaterializationOrder(ctes) == ByRank(ctes, Ranks(ctes, DependsOn(ctes)))

(* What the parser refuses in a WITH list.                                 *)
IsValidRecursiveCte(ctes, cte) ==
  LET referenced == {j \in RecursiveCtes(ctes) : CountTableRefs(cte.arm, ctes[j].name) > 0}
  IN /\ cte.body.orderBy = <<>> /\ cte.body.limit = <<>> /\ cte.arm.setOps = <<>>
     /\ \A j \in RecursiveCtes(ctes) : CountTableRefs(cte.body, ctes[j].name) = 0
     /\ Cardinality(referenced) = 1
     /\ \A j \in referenced : CountTableRefs(cte.arm, ctes[j].name) = 1

IsValidWith(q) ==
  /\ \A i \in DOMAIN q.ctes : LET cte == q.ctes[i] IN
       IF cte.recursive THEN IsValidRecursiveCte(q.ctes, cte)
       ELSE /\ CountTableRefs(cte.body, cte.name) = 0
            /\ ~cte.accumulator
            /\ q.recursive => cte.body.setOps = <<>>
  /\ q.recursive => RecursiveCtes(q.ctes) # {}

(* In every part of the statement.  Its limits, 6 on WITH in the body of a *)
(* WITH and 8 on the queries around a correlated one, are left out: the    *)
(* statements checked stay below them.                                     *)
RECURSIVE IsAccepted(_), SubqueriesAreAccepted(_)
SubqueriesAreAccepted(p) ==
  CASE p.kind \in {"And", "Or"} -> SubqueriesAreAccepted(p.left) /\ SubqueriesAreAccepted(p.right)
    [] p.kind \in {"InSubquery", "Exists"} -> IsAccepted(p.select)
    [] OTHER -> TRUE

IsAccepted(q) ==
  /\ IsValidWith(q)
  /\ SubqueriesAreAccepted(q.where)
  /\ \A i \in DOMAIN q.ctes : /\ IsAccepted(q.ctes[i].body)
                               /\ q.ctes[i].recursive => IsAccepted(q.ctes[i].arm)
  /\ \A i \in DOMAIN q.setOps : IsAccepted(q.setOps[i].select)

-----------------------------------------------------------------------------
(* Rewriting: the query to evaluate and the CTEs to materialize before.    *)

Rewritten(q, materialize) == [query |-> q, materialize |-> materialize]

(* Mutant of Inline: the WHERE clause of the outer query replaces the one  *)
(* of the body.                                                            *)
InlineDroppingWhere(q, body) ==
  [body EXCEPT !.columns = IF q.columns # <<>> \/ @ = <<>> THEN q.columns ELSE @,
               !.where = IF q.where = None THEN @ ELSE q.where,
               !.groupBy = IF q.groupBy # <<>> THEN q.groupBy ELSE @,
               !.orderBy = IF q.orderBy # <<>> THEN q.orderBy ELSE @,
               !.limit = IF q.limit # <<>> THEN q.limit ELSE @]

(* The body of a CTE in place of the query that reads it.                  *)
Inline(q, body) ==
  [body EXCEPT !.columns = IF q.columns # <<>> \/ @ = <<>> THEN q.columns ELSE @,
               !.where = AndPredicates(@, q.where),
               !.groupBy = IF q.groupBy # <<>> THEN q.groupBy ELSE @,
               !.orderBy = IF q.orderBy # <<>> THEN q.orderBy ELSE @,
               !.limit = IF q.limit # <<>> THEN q.limit ELSE @]

RECURSIVE RewriteSelect(_), RewriteBody(_), MaterializeEntries(_)
RewriteBody(body) == IF body.ctes = <<>> THEN Rewritten(body, <<>>) ELSE RewriteSelect(body)

(* CTEs to materialize, each after what its body and its arm need.         *)
MaterializeEntry(cte, body, arm) ==
  body.materialize \o arm.materialize \o <<[cte EXCEPT !.body = body.query, !.arm = arm.query]>>

MaterializeEntries(ctes) ==
  FlattenSeq([i \in DOMAIN ctes |->
    MaterializeEntry(ctes[i], RewriteBody(ctes[i].body),
                     IF ctes[i].recursive THEN RewriteBody(ctes[i].arm)
                     ELSE Rewritten(ctes[i].arm, <<>>))])

(* What a query reads besides base tables; with joins all of it becomes    *)
(* temporary tables.                                                       *)
Targets(q) == SelectSeq(q.ctes, LAMBDA cte : References(q, cte.name))

RewriteJoins(q, targets) ==
  Rewritten([q EXCEPT !.ctes = <<>>],
            MaterializeEntries((IF \E i \in DOMAIN targets : targets[i].recursive
                                  THEN RecursiveMaterializationOrder(q.ctes) ELSE <<>>)
                                 \o SelectSeq(targets, LAMBDA cte : ~cte.recursive)))

After(materialize, rest) == Rewritten(rest.query, materialize \o rest.materialize)

(* Without joins the one CTE that is read: its rewritten body is inlined,  *)
(* unless it is recursive, MATERIALIZED or a chain of set operations.      *)
RewriteTarget(q, cte, body) ==
  CASE cte.recursive ->
         After(body.materialize
                 \o MaterializeEntries(RecursiveMaterializationOrder(
                      [i \in DOMAIN q.ctes |-> IF q.ctes[i] = cte THEN [cte EXCEPT !.body = body.query]
                                               ELSE q.ctes[i]])),
               RewriteSelect([q EXCEPT !.ctes = SelectSeq(@, LAMBDA c : ~c.recursive)]))
    [] ~cte.recursive /\ (cte.mode = "Materialized" \/ body.query.setOps # <<>>) ->
         After(MaterializeEntries(<<cte>>),
               RewriteSelect([q EXCEPT !.ctes = SelectSeq(@, LAMBDA c : c.name # q.table)]))
    [] OTHER ->
         After(body.materialize,
               RewriteSelect([Inline(q, body.query) EXCEPT
                                !.ctes = SelectSeq(q.ctes, LAMBDA c : c.name # q.table)]))

RewriteSelect(q) ==
  CASE Targets(q) = <<>> -> Rewritten([q EXCEPT !.ctes = <<>>], <<>>)
    [] Targets(q) # <<>> /\ q.joins # <<>> -> RewriteJoins(q, Targets(q))
    [] OTHER -> RewriteTarget(q, Targets(q)[1], RewriteBody(Targets(q)[1].body))

-----------------------------------------------------------------------------
(* Aliases: they become table names where there are joins, and are removed *)
(* with the table name where there are none.                               *)

NormalizeColumn(q, column) ==
  LET toTable(c, source) ==
        IF Len(c) = 2 /\ source.alias # "" /\ c[1] = source.alias
          THEN <<source.table, c[2]>> ELSE c
      isLocal == Len(column) = 2 /\ q.alias # "" /\ column[1] \in {q.alias, q.table}
  IN CASE q.joins # <<>> ->
            FoldLeft(toTable, column, <<[table |-> q.table, alias |-> q.alias]>> \o q.joins)
       [] q.joins = <<>> /\ isLocal -> <<column[2]>>
       [] OTHER -> column

RECURSIVE NormalizeSelect(_), NormalizePredicate(_, _)
NormalizeSelect(q) ==
  LET normalize(c) == NormalizeColumn(q, c) IN
  [q EXCEPT
     !.columns = [i \in DOMAIN @ |-> IF @[i].arg = <<>> THEN @[i]
                                     ELSE [@[i] EXCEPT !.arg = normalize(@)]],
     !.groupBy = [i \in DOMAIN @ |-> normalize(@[i])],
     !.orderBy = [i \in DOMAIN @ |-> [@[i] EXCEPT !.col = normalize(@)]],
     !.joins = [i \in DOMAIN @ |-> [@[i] EXCEPT !.left = normalize(@), !.right = normalize(@)]],
     !.where = NormalizePredicate(q, @),
     !.setOps = [i \in DOMAIN @ |-> [@[i] EXCEPT !.select = NormalizeSelect(@)]],
     !.ctes = [i \in DOMAIN @ |->
                 [@[i] EXCEPT !.body = NormalizeSelect(@),
                              !.arm = IF q.ctes[i].recursive THEN NormalizeSelect(@) ELSE @]]]

NormalizePredicate(q, p) ==
  CASE p.kind \in {"And", "Or"} ->
         [p EXCEPT !.left = NormalizePredicate(q, @), !.right = NormalizePredicate(q, @)]
    [] p.kind \in {"Compare", "InValues"} -> [p EXCEPT !.col = NormalizeColumn(q, @)]
    [] p.kind = "CompareColumns" ->
         [p EXCEPT !.col = NormalizeColumn(q, @), !.rhs = NormalizeColumn(q, @)]
    [] p.kind = "InSubquery" ->
         [p EXCEPT !.col = NormalizeColumn(q, @), !.select = NormalizeSelect(@)]
    [] p.kind = "Exists" -> [p EXCEPT !.select = NormalizeSelect(@)]
    [] OTHER -> p

=============================================================================
