---------------------------- MODULE SelectEngine ----------------------------
(***************************************************************************)
(* SELECT: a table read through the access path that the planner chose, or *)
(* several tables joined, at a snapshot; and what other transactions write *)
(* to the table that was read before the reader commits.                   *)
(*                                                                         *)
(* A workload fixes the tables a behaviour may start with, the indexes and *)
(* the queries.  `tables` is a sequence of heaps, and a query reads the    *)
(* first one, or joins the others to it.  Rows are visible as they are in  *)
(* the heap: snapshots and version chains are SnapshotIsolation's.  What   *)
(* is computed from the collected rows is in QueryEvaluation.              *)
(***************************************************************************)
EXTENDS AccessPaths

CONSTANTS
  Workloads,   \* records of tables, indexes, rows, selects, joins, width,
               \* and names and queries for QueryEvaluation
  MaxWrites    \* how many rows other transactions write

VARIABLES
  work,      \* the workload
  tables,    \* the heap of each table
  indexes,   \* the indexes of each table
  query,     \* the SELECT, once it ran
  plan,      \* its plan, or the plans of its joins
  answer,    \* how often each row was returned, or the joined rows
  before,    \* the tables as it read them
  reads,     \* the rows it recorded as read
  sireads,   \* the predicates it recorded as read
  writes,    \* the rows written since by other transactions, in order
  images     \* the images these writes recorded, one for each insert and update

vars == <<work, tables, indexes, query, plan, answer, before, reads, sireads, writes, images>>

NoQuery == [kind |-> "NoQuery"]

Init ==
  /\ work \in Workloads
  /\ tables \in work.tables
  /\ indexes \in work.indexes
  /\ query = NoQuery
  /\ plan = NoQuery
  /\ answer = <<>>
  /\ before = tables
  /\ reads = {}
  /\ sireads = {}
  /\ writes = <<>>
  /\ images = {}

-----------------------------------------------------------------------------
(* SELECT from one table                                                   *)

CollectRows(where) ==
  /\ query = NoQuery
  /\ \E p \in PlanSelect(where, indexes[1]) :
       /\ plan' = p
       /\ answer' = CollectVisibleEntries(p, where, tables[1])
       /\ reads' = {<<1, r>> : r \in RowsRead(p, tables[1])}
       /\ sireads' = RecordSsiScanPredicates(p, where)
  /\ query' = [kind |-> "Select", where |-> where]
  /\ UNCHANGED <<work, tables, indexes, before, writes, images>>

-----------------------------------------------------------------------------
(* Joins.  A clause joins a table on a column of the rows joined so far,   *)
(* and rows are sequences of values.                                       *)

RowsSnapshot(heap) == SelectSeq(heap, LAMBDA row : row # NoRow)

RowsById(heap, found) ==
  LET ids == SelectSeq([r \in DOMAIN heap |-> r], LAMBDA r : found[r] > 0)
  IN [i \in DOMAIN ids |-> heap[ids[i]]]

HashJoin == [algorithm |-> "HashJoin", outerIsLeft |-> TRUE, probes |-> FALSE]
NestedLoop == [algorithm |-> "NestedLoopIndexProbe", outerIsLeft |-> TRUE, probes |-> FALSE]
ProbeRight == [NestedLoop EXCEPT !.probes = TRUE]
ProbeLeft == [ProbeRight EXCEPT !.outerIsLeft = FALSE]

(* planJoin for the first clause, planJoinAgainstRows for the later ones:  *)
(* rows joined so far have no index.                                       *)
PlanJoin(join, n) ==
  LET probesRight == {p \in {ProbeRight} : On(<<join.right>>) \in indexes[join.table]}
      probesLeft == {p \in {ProbeLeft} : n = 1 /\ On(<<join.left>>) \in indexes[1]}
      probes == IF join.kind = "RightOuter" THEN probesLeft ELSE probesRight
  IN CASE join.kind = "Cross" \/ join.op # "=" -> {NestedLoop}
       [] join.kind = "Inner" /\ join.op = "=" -> {HashJoin} \cup probesRight \cup probesLeft
       [] OTHER -> IF probes = {} THEN {NestedLoop} ELSE probes

Nulls(width) == [i \in 1..width |-> Null]

(* The rows of the outer side, each with the rows that match it.           *)
ExtendLefts(lefts, matching, pad, width) ==
  FlattenSeq([i \in DOMAIN lefts |->
    IF matching[i] = <<>> /\ pad THEN <<lefts[i] \o Nulls(width)>>
    ELSE [k \in DOMAIN matching[i] |-> lefts[i] \o matching[i][k]]])

ExtendRights(rights, matching, pad, width) ==
  FlattenSeq([i \in DOMAIN rights |->
    IF matching[i] = <<>> /\ pad THEN <<Nulls(width) \o rights[i]>>
    ELSE [k \in DOMAIN matching[i] |-> matching[i][k] \o rights[i]]])

PadsLeft(join) == join.kind \in {"LeftOuter", "FullOuter"}
PadsRight(join) == join.kind \in {"RightOuter", "FullOuter"}

(* Mutant of IsProbeOfRight: a join that pads the right side probes, too.  *)
IsProbeOfRightAlways(join, p) ==
  join.kind # "Cross" /\ join.op = "=" /\ p.outerIsLeft /\ p.probes

(* When collectJoinRows follows the plan and probes an index.              *)
IsProbeOfRight(join, p) ==
  join.kind # "Cross" /\ join.op = "=" /\ p.outerIsLeft /\ p.probes /\ ~PadsRight(join)

IsProbeOfLeft(join, n, p) ==
  join.kind # "Cross" /\ join.op = "=" /\ ~p.outerIsLeft /\ n = 1 /\ ~PadsLeft(join)

Matches(join, left, right) ==
  join.kind = "Cross" \/ CompareValues(left[join.left], join.op, right[join.right])

ProbedRight(join, left) ==
  IndexedLookup(tables[join.table], On(<<join.right>>), left[join.left])

ProbedLeft(join, right) == IndexedLookup(tables[1], On(<<join.left>>), right[join.right])

(* One clause: a probe, or else a hash join or a nested loop, which differ *)
(* only in how they find the matching rows; `lefts` are the rows so far.   *)
JoinRows(lefts, join, n, p) ==
  LET rights == RowsSnapshot(tables[join.table])
      compared(left) == SelectSeq(rights, LAMBDA right : Matches(join, left, right))
      probedRight(left) == RowsById(tables[join.table], ProbedRight(join, left))
      probedLeft(right) == RowsById(tables[1], ProbedLeft(join, right))
      unmatched(right) == \A i \in DOMAIN lefts : ~Matches(join, lefts[i], right)
      rightOnly == IF PadsRight(join) THEN SelectSeq(rights, unmatched) ELSE <<>>
  IN CASE IsProbeOfRight(join, p) ->
            ExtendLefts(lefts, [i \in DOMAIN lefts |-> probedRight(lefts[i])],
                        PadsLeft(join), work.width)
       [] IsProbeOfLeft(join, n, p) ->
            ExtendRights(rights, [i \in DOMAIN rights |-> probedLeft(rights[i])],
                         PadsRight(join), n * work.width)
       [] OTHER ->
            ExtendLefts(lefts, [i \in DOMAIN lefts |-> compared(lefts[i])],
                        PadsLeft(join), work.width)
              \o [i \in DOMAIN rightOnly |-> Nulls(n * work.width) \o rightOnly[i]]

(* The rows of a table, named by the table and the row id.                 *)
LiveRows(t) == {<<t, r>> : r \in {i \in DOMAIN tables[t] : tables[t][i] # NoRow}}

RowsReadByJoin(lefts, join, p) ==
  IF IsProbeOfRight(join, p)
    THEN {<<join.table, r>> : r \in {i \in DOMAIN tables[join.table] :
                                       \E k \in DOMAIN lefts : ProbedRight(join, lefts[k])[i] > 0}}
    ELSE LiveRows(join.table)

(* The rows after each clause, before WHERE.                               *)
JoinedRows(q, plans) ==
  LET joined[n \in 0..Len(q.joins)] ==
        IF n = 0 THEN RowsSnapshot(tables[1])
        ELSE JoinRows(joined[n - 1], q.joins[n], n, plans[n])
  IN joined

CollectJoinRows(q) ==
  /\ query = NoQuery
  /\ \E plans \in [DOMAIN q.joins -> {HashJoin, NestedLoop, ProbeLeft, ProbeRight}] :
       LET joined == JoinedRows(q, plans) IN
       /\ \A n \in DOMAIN q.joins : plans[n] \in PlanJoin(q.joins[n], n)
       /\ plan' = plans
       /\ answer' = SelectSeq(joined[Len(q.joins)], LAMBDA row : EvalPredicate(q.where, row))
       /\ reads' = LiveRows(1) \cup UNION {RowsReadByJoin(joined[n - 1], q.joins[n], plans[n]) :
                                             n \in DOMAIN q.joins}
  /\ query' = q
  /\ UNCHANGED <<work, tables, indexes, before, sireads, writes, images>>

-----------------------------------------------------------------------------
(* Writes of other transactions to the first table, after the SELECT.      *)

Write(r, row) ==
  /\ query # NoQuery
  /\ Len(writes) < MaxWrites
  /\ tables' = [tables EXCEPT ![1][r] = row]
  /\ writes' = Append(writes, <<1, r>>)
  /\ UNCHANGED <<work, indexes, query, plan, answer, before, reads, sireads>>

Insert(r, row) ==
  /\ tables[1][r] = NoRow
  /\ Write(r, row)
  /\ images' = images \cup {row}

(* UPDATE assigns one column.                                              *)
Update(r, row) ==
  /\ tables[1][r] # NoRow
  /\ Cardinality({c \in DOMAIN row : row[c] # tables[1][r][c]}) = 1
  /\ Write(r, row)
  /\ images' = images \cup {row}

Erase(r) ==
  /\ tables[1][r] # NoRow
  /\ work.rows # {}
  /\ Write(r, NoRow)
  /\ UNCHANGED images

Next ==
  \/ \E where \in work.selects : CollectRows(where)
  \/ \E q \in work.joins : CollectJoinRows(q)
  \/ \E r \in DOMAIN tables[1], row \in work.rows : Insert(r, row) \/ Update(r, row)
  \/ \E r \in DOMAIN tables[1] : Erase(r)

Spec == Init /\ [][Next]_vars

-----------------------------------------------------------------------------
(* Properties                                                              *)

Returned == {r \in DOMAIN answer : answer[r] > 0}

Matching(where, heap) == {r \in DOMAIN heap : heap[r] # NoRow /\ EvalPredicate(where, heap[r])}

(* The plans whose answers the code gets wrong: a nested OR that drives    *)
(* the path together with other conjuncts; two nested ORs of which each    *)
(* has an arm without an index; a list with a repeated value or a trigram  *)
(* index, where a row may come twice.                                      *)
IsConjunctUnion ==
  query.where.kind = "And" /\ plan.path.kind = "Union" /\ IsPresent(plan.residual)

HasTwoPartialOrs ==
  LET conjuncts == Parts("And", query.where)
      isPartial(p) == HasOrUnionSplit(p, indexes[1]) /\ ~IsFullyIndexableOr(p, indexes[1])
  IN IsPresent(plan.complementary) /\ Len(SelectSeq(conjuncts, isPartial)) > 1

MayRepeat ==
  \/ plan.path.kind = "HashIn" /\ ~IsInjective(plan.path.values)
  \/ plan.path.kind = "Intersect" /\ \E p \in ToSet(plan.path.children) :
                                       p.kind = "Probe" /\ p.key.kind = "Trigram"

(* Whatever path the planner chooses, collectVisibleEntries returns every  *)
(* row that satisfies the WHERE clause, no other row, and none twice,      *)
(* except for the plans above, each of which breaks one of the three.      *)
AnswerIsExact ==
  query.kind = "Select" =>
    LET matching == Matching(query.where, before[1]) IN
    /\ ~IsConjunctUnion => Returned \subseteq matching
    /\ ~HasTwoPartialOrs => matching \subseteq Returned
    /\ ~MayRepeat => \A r \in Returned : answer[r] = 1

(* The rows a SELECT returns satisfy its WHERE clause, for every plan: the *)
(* conjuncts that do not drive the access path are filtered by the scan.   *)
OnlyMatchingRows == query.kind = "Select" => Returned \subseteq Matching(query.where, before[1])

(* What recordSsiScanPredicates and the scan record suffices for the test  *)
(* at COMMIT: if other transactions' writes change which rows satisfy the  *)
(* WHERE clause, or one of these rows, then they wrote a row recorded as   *)
(* read or an image that a recorded predicate matches.                     *)
ChangesConflict ==
  LET matching(heap) == [r \in Matching(query.where, heap) |-> heap[r]] IN
  query.kind = "Select" /\ matching(before[1]) # matching(tables[1]) =>
    \/ reads \cap ToSet(writes) # {}
    \/ \E image \in images, p \in sireads : InsertMatchesPredicate(image, p)

(* The join of the tables as SQL defines it: sequences with the row id of  *)
(* each table, or 0 where a side is padded.                                *)
TableOf(q, i) == IF i = 1 THEN 1 ELSE q.joins[i - 1].table

JoinedRow(q, ids) ==
  FlattenSeq([i \in DOMAIN ids |->
    IF ids[i] = 0 THEN Nulls(work.width) ELSE before[TableOf(q, i)][ids[i]]])

ReferenceJoin(q) ==
  LET live(i) == {r \in DOMAIN before[TableOf(q, i)] : before[TableOf(q, i)][r] # NoRow}
      on(n, ids, r) == Matches(q.joins[n], JoinedRow(q, ids), before[q.joins[n].table][r])
      upTo[n \in 0..Len(q.joins)] ==
        IF n = 0 THEN {<<r>> : r \in live(1)}
        ELSE LET pairs == {x \in upTo[n - 1] \X live(n + 1) : on(n, x[1], x[2])}
                 lonelyLefts == upTo[n - 1] \ {x[1] : x \in pairs}
                 lonelyRights == live(n + 1) \ {x[2] : x \in pairs}
             IN {Append(x[1], x[2]) : x \in pairs}
                  \cup {Append(ids, 0) : ids \in {i \in lonelyLefts : PadsLeft(q.joins[n])}}
                  \cup {Append([i \in 1..n |-> 0], r) :
                          r \in {i \in lonelyRights : PadsRight(q.joins[n])}}
  IN {ids \in upTo[Len(q.joins)] : EvalPredicate(q.where, JoinedRow(q, ids))}

(* However the planner has each clause executed (hash join, index probe    *)
(* from either side, nested loop), collectJoinRows gives the join as SQL   *)
(* defines it, padded rows included and each row as often as it should     *)
(* be, and every row of a table in the answer is recorded as read.         *)
JoinIsExact ==
  query.kind = "Join" =>
    LET expected == ReferenceJoin(query)
        sameRow(ids) == {x \in expected : JoinedRow(query, x) = JoinedRow(query, ids)}
    IN /\ Len(answer) = Cardinality(expected)
       /\ \A ids \in expected :
            Cardinality({i \in DOMAIN answer : answer[i] = JoinedRow(query, ids)})
              = Cardinality(sameRow(ids))
       /\ \A ids \in expected : \A i \in DOMAIN ids :
            ids[i] # 0 => <<TableOf(query, i), ids[i]>> \in reads

=============================================================================
