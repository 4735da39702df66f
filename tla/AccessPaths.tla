----------------------------- MODULE AccessPaths -----------------------------
(***************************************************************************)
(* How a WHERE clause on one table is planned and executed: the planner's  *)
(* access paths with their residual predicates, their execution on the     *)
(* indexes, and the predicate reads that SSI records for them.             *)
(*                                                                         *)
(* A value is a sequence of integers whose head is its type, so that the   *)
(* order of Values is lexicographic: NULL is <<0>>, an INT <<1, n>>, a     *)
(* STRING <<2, letters>>.  A heap maps row ids to rows, and a result maps  *)
(* them to how often the row is returned.  Costs are not modelled: the     *)
(* planner may choose any path it considers, as some statistics make it.   *)
(***************************************************************************)
EXTENDS Integers, Sequences, FiniteSets, SequencesExt

CONSTANT NoRow   \* an empty slot of the heap

-----------------------------------------------------------------------------
(* Values and rows                                                         *)

Null == <<0>>
IsString(v) == v[1] = 2

Less(u, v) ==
  \E i \in DOMAIN v :
    /\ \A j \in 1..(i - 1) : j \in DOMAIN u /\ u[j] = v[j]
    /\ i \in DOMAIN u => u[i] < v[i]

CompareValues(u, op, v) ==
  CASE op = "=" -> u = v
    [] op = ">" -> Less(v, u)
    [] op = "<" -> Less(u, v)

(* What an index is on: the columns of a plain index, or an expression     *)
(* over one column.  The left side of a comparison is such a key, too.     *)
On(cols) == [kind |-> "Columns", cols |-> cols]
Negated(col) == [kind |-> "Negate", cols |-> <<col>>]
TrigramsOf(col) == [kind |-> "Trigram", cols |-> <<col>>]

(* Negation throws for a NULL, which no row holds in a negated column.     *)
KeyOf(key, row) ==
  LET base == row[key.cols[1]] IN
  CASE Len(key.cols) > 1 -> [i \in DOMAIN key.cols |-> row[key.cols[i]]]
    [] key.kind = "Negate" -> <<1, -base[2]>>
    [] OTHER -> base

-----------------------------------------------------------------------------
(* Patterns: letters, "_" and "%"                                          *)

Underscore == 0
Percent == -1

RECURSIVE MatchLike(_, _)
MatchLike(text, pattern) ==
  IF pattern = <<>> THEN text = <<>>
  ELSE IF Head(pattern) = Percent
    THEN \E i \in 0..Len(text) : MatchLike(SubSeq(text, i + 1, Len(text)), Tail(pattern))
    ELSE /\ text # <<>>
         /\ Head(pattern) \in {Underscore, Head(text)}
         /\ MatchLike(Tail(text), Tail(pattern))

IsLiteral(text) == text # <<>> /\ ToSet(text) \cap {Underscore, Percent} = {}

(* The literal of "literal%".                                              *)
HasPrefixLiteral(pattern) ==
  pattern # <<>> /\ Last(pattern) = Percent /\ IsLiteral(Front(pattern))

(* The literal of "%literal%", if it is long enough for a trigram.         *)
ContainsLiteral(pattern) == SubSeq(pattern, 2, Len(pattern) - 1)

HasTrigramLiteral(pattern) ==
  /\ Len(pattern) >= 5
  /\ Head(pattern) = Percent /\ Last(pattern) = Percent
  /\ IsLiteral(ContainsLiteral(pattern))

ExtractTrigrams(text) ==
  IF Len(text) >= 3 THEN [i \in 1..(Len(text) - 2) |-> SubSeq(text, i, i + 2)]
  ELSE IF text = <<>> THEN <<>> ELSE <<text>>

-----------------------------------------------------------------------------
(* Predicates.  Regular expressions and subqueries are opaque: the set of  *)
(* rows they accept.  No predicate is an empty std::optional.              *)

None == [kind |-> "None"]
Compares(key, op, value) == [kind |-> "Comparison", key |-> key, op |-> op, value |-> value]
ComparesColumns(col, op, rhs) == [kind |-> "Columns", col |-> col, op |-> op, rhs |-> rhs]
InList(key, values) == [kind |-> "InList", key |-> key, values |-> values]
Like(col, pattern) == [kind |-> "Like", col |-> col, pattern |-> pattern]
Opaque(rows) == [kind |-> "Opaque", rows |-> rows]
And(p, q) == [kind |-> "And", left |-> p, right |-> q]
Or(p, q) == [kind |-> "Or", left |-> p, right |-> q]

RECURSIVE EvalPredicate(_, _)
EvalPredicate(p, row) ==
  CASE p.kind = "None" -> TRUE
    [] p.kind = "And" -> EvalPredicate(p.left, row) /\ EvalPredicate(p.right, row)
    [] p.kind = "Or" -> EvalPredicate(p.left, row) \/ EvalPredicate(p.right, row)
    [] p.kind = "Opaque" -> row \in p.rows
    [] p.kind = "Like" -> IsString(row[p.col]) /\ MatchLike(Tail(row[p.col]), p.pattern)
    [] p.kind = "InList" -> KeyOf(p.key, row) \in ToSet(p.values)
    [] p.kind = "Columns" -> CompareValues(row[p.col], p.op, row[p.rhs])
    [] OTHER -> CompareValues(KeyOf(p.key, row), p.op, p.value)

(* collectAndConjuncts and collectOrDisjuncts; buildAndTree, buildOrTree.  *)
RECURSIVE Parts(_, _)
Parts(kind, p) ==
  IF p.kind = kind THEN Parts(kind, p.left) \o Parts(kind, p.right) ELSE <<p>>

BuildTree(kind, parts) ==
  IF parts = <<>> THEN None
  ELSE FoldLeft(LAMBDA tree, p : [kind |-> kind, left |-> tree, right |-> p],
                Head(parts), Tail(parts))

IsEquality(p) == p.kind = "Comparison" /\ p.op = "="

TryRewriteSameColumnEqualityOrToIn(p) ==
  LET arms == Parts("Or", p) IN
  IF p.kind = "Or" /\ \A i \in DOMAIN arms : IsEquality(arms[i]) /\ arms[i].key = arms[1].key
    THEN InList(arms[1].key, [i \in DOMAIN arms |-> arms[i].value])
    ELSE p

-----------------------------------------------------------------------------
(* The planner.  A bitmap node is an equality probe or a union of probes.  *)

Probe(key, value) == [kind |-> "Probe", key |-> key, value |-> value]
UnionOf(children) == [kind |-> "Union", children |-> children]

IsEqualityIndexProbe(p, indexes) == IsEquality(p) /\ p.key \in indexes

ProbesOf(arms, indexes) ==
  LET probes == SelectSeq(arms, LAMBDA p : IsEqualityIndexProbe(p, indexes))
  IN [i \in DOMAIN probes |-> Probe(probes[i].key, probes[i].value)]

ResidualArms(arms, indexes) == SelectSeq(arms, LAMBDA p : ~IsEqualityIndexProbe(p, indexes))

(* tryMakeOrUnionSplit succeeds for an OR with at least one probe.         *)
HasOrUnionSplit(p, indexes) == p.kind = "Or" /\ ProbesOf(Parts("Or", p), indexes) # <<>>

IsFullyIndexableOr(p, indexes) ==
  HasOrUnionSplit(p, indexes) /\ ResidualArms(Parts("Or", p), indexes) = <<>>

FullScan == [kind |-> "FullScan"]
HashEq(key, value) == [kind |-> "HashEq", key |-> key, value |-> value]
OrderedRange(key, op, value) == [kind |-> "OrderedRange", key |-> key, op |-> op, value |-> value]
HashIn(key, values) == [kind |-> "HashIn", key |-> key, values |-> values]
PrefixLike(col, prefix) == [kind |-> "PrefixLike", col |-> col, prefix |-> prefix]
Intersect(children) == [kind |-> "Intersect", children |-> children]

(* A plan: its path, the residual, and the complementary residual.         *)
Plan(path, residual, complementary) ==
  [path |-> path, residual |-> residual, complementary |-> complementary]

TryPlanTopLevelOrUnion(where, indexes) ==
  LET arms == Parts("Or", where)
      probes == ProbesOf(arms, indexes)
  IN {Plan(FullScan, where, None)}
       \cup {Plan(UnionOf(ps), BuildTree("Or", ResidualArms(arms, indexes)), None) :
               ps \in {probes} \ {<<>>}}

(* The paths one conjunct offers: isIndexableComparison, isIndexableInList,*)
(* isIndexableLike and tryMakeFullyIndexableOrUnion.                       *)
IndexableComparison(p, indexes) ==
  IF p.kind = "Comparison" /\ p.key \in indexes
    THEN {IF p.op = "=" THEN HashEq(p.key, p.value) ELSE OrderedRange(p.key, p.op, p.value)}
    ELSE {}

IndexableInList(p, indexes) ==
  IF p.kind = "InList" /\ p.key \in indexes THEN {HashIn(p.key, p.values)} ELSE {}

IndexableLike(p, indexes) ==
  LET grams == ExtractTrigrams(ContainsLiteral(p.pattern)) IN
  CASE p.kind # "Like" -> {}
    [] p.kind = "Like" /\ HasPrefixLiteral(p.pattern) ->
         IF On(<<p.col>>) \in indexes THEN {PrefixLike(p.col, Front(p.pattern))} ELSE {}
    [] p.kind = "Like" /\ HasTrigramLiteral(p.pattern) /\ TrigramsOf(p.col) \in indexes ->
         {Intersect([i \in DOMAIN grams |-> Probe(TrigramsOf(p.col), <<2>> \o grams[i])])}
    [] OTHER -> {}

IndexableUnion(p, indexes) ==
  IF IsFullyIndexableOr(p, indexes) THEN {UnionOf(ProbesOf(Parts("Or", p), indexes))} ELSE {}

ConjunctPaths(p, indexes) ==
  IndexableComparison(p, indexes) \cup IndexableInList(p, indexes)
    \cup IndexableLike(p, indexes) \cup IndexableUnion(p, indexes)

(* The conjuncts other than those at some places.                          *)
Others(conjuncts, taken) ==
  LET places == SelectSeq([i \in DOMAIN conjuncts |-> i], LAMBDA i : i \notin taken)
  IN [k \in DOMAIN places |-> conjuncts[places[k]]]

(* Mutant of FinalizeBestAccessPath: a LIKE the path only approximates is  *)
(* not checked again.                                                      *)
FinalizeWithoutLike(conjuncts, i, path) ==
  Plan(path, BuildTree("And", Others(conjuncts, {i})), None)

(* One conjunct drives the path, the others are the residual, and so is a  *)
(* LIKE, which its path only approximates.                                 *)
FinalizeBestAccessPath(conjuncts, i, path) ==
  LET exact == path.kind \notin {"PrefixLike", "Intersect"}
  IN Plan(path, BuildTree("And", Others(conjuncts, IF exact THEN {i} ELSE {})), None)

(* The first equality conjunct on each column of a composite index.        *)
TryPlanCompositeHashEq(conjuncts, indexes) ==
  LET equalities(c) == {i \in DOMAIN conjuncts :
                          IsEquality(conjuncts[i]) /\ conjuncts[i].key = On(<<c>>)}
      first(c) == CHOOSE i \in equalities(c) : \A j \in equalities(c) : i <= j
      covered == {k \in indexes : Len(k.cols) > 1 /\ \A c \in ToSet(k.cols) : equalities(c) # {}}
  IN {Plan(HashEq(k, [n \in DOMAIN k.cols |-> conjuncts[first(k.cols[n])].value]),
           BuildTree("And", Others(conjuncts, {first(c) : c \in ToSet(k.cols)})), None) :
        k \in covered}

(* Equality conjuncts and ORs with indexable arms become children of an    *)
(* intersection.  If an OR has other arms as well, the rows of those are   *)
(* added by a complementary scan.                                          *)
TryPlanAndIntersect(conjuncts, indexes) ==
  LET isChild(p) == IsEqualityIndexProbe(p, indexes) \/ HasOrUnionSplit(p, indexes)
      absorbed == SelectSeq(conjuncts, isChild)
      residual == SelectSeq(conjuncts, LAMBDA p : ~isChild(p))
      child(p) == IF p.kind = "Or" THEN UnionOf(ProbesOf(Parts("Or", p), indexes))
                                   ELSE Probe(p.key, p.value)
      isPartial(p) == p.kind = "Or" /\ ~IsFullyIndexableOr(p, indexes)
      equalities == SelectSeq(absorbed, IsEquality)
      ors == SelectSeq(absorbed, LAMBDA p : p.kind = "Or")
      otherArms(p) ==
        IF isPartial(p) THEN BuildTree("Or", ResidualArms(Parts("Or", p), indexes)) ELSE p
      complementary ==
        IF \E i \in DOMAIN ors : isPartial(ors[i])
          THEN BuildTree("And", equalities \o [i \in DOMAIN ors |-> otherArms(ors[i])] \o residual)
          ELSE None
  IN IF Len(absorbed) < 2 THEN {}
     ELSE {Plan(Intersect([i \in DOMAIN absorbed |-> child(absorbed[i])]),
                BuildTree("And", residual), complementary)}

PlanSelect(where, indexes) ==
  LET rewritten == TryRewriteSameColumnEqualityOrToIn(where)
      raw == Parts("And", rewritten)
      conjuncts == [i \in DOMAIN raw |-> TryRewriteSameColumnEqualityOrToIn(raw[i])]
  IN CASE where.kind = "None" -> {Plan(FullScan, None, None)}
       [] rewritten.kind = "Or" -> TryPlanTopLevelOrUnion(rewritten, indexes)
       [] OTHER ->
            {Plan(FullScan, where, None)}
              \cup UNION {{FinalizeBestAccessPath(conjuncts, i, path) :
                             path \in ConjunctPaths(conjuncts[i], indexes)} :
                          i \in DOMAIN conjuncts}
              \cup TryPlanCompositeHashEq(conjuncts, indexes)
              \cup TryPlanAndIntersect(conjuncts, indexes)

-----------------------------------------------------------------------------
(* Execution on a heap.  A lookup says how often an index returns a row:   *)
(* the trigram index holds a row once for every occurrence of a gram.      *)

Entries(index, value, row) ==
  LET grams == ExtractTrigrams(Tail(row[index.cols[1]])) IN
  IF index.kind = "Trigram"
    THEN IF IsString(row[index.cols[1]])
           THEN Cardinality({i \in DOMAIN grams : <<2>> \o grams[i] = value}) ELSE 0
    ELSE IF KeyOf(index, row) = value THEN 1 ELSE 0

IndexedLookup(heap, index, value) ==
  [r \in DOMAIN heap |-> IF heap[r] = NoRow THEN 0 ELSE Entries(index, value, heap[r])]

OrderedLookup(heap, index, op, value) ==
  [r \in DOMAIN heap |->
     IF heap[r] # NoRow /\ CompareValues(KeyOf(index, heap[r]), op, value) THEN 1 ELSE 0]

(* One result after the other.                                             *)
Appended(results) ==
  [r \in DOMAIN Head(results) |-> FoldLeft(LAMBDA n, result : n + result[r], 0, results)]

(* std::set_union keeps the larger number of copies, std::set_intersection *)
(* the smaller one.                                                        *)
EvalBitmapChildren(op, results) ==
  [r \in DOMAIN Head(results) |->
     LET counts == {results[i][r] : i \in DOMAIN results}
     IN IF op = "Union" THEN Max(counts) ELSE Min(counts)]

EvalBitmapNode(node, heap) ==
  LET probed(p) == IndexedLookup(heap, p.key, p.value)
  IN IF node.kind = "Probe" THEN probed(node)
     ELSE EvalBitmapChildren("Union", [i \in DOMAIN node.children |-> probed(node.children[i])])

LookupPath(path, heap) ==
  CASE path.kind = "HashEq" -> IndexedLookup(heap, path.key, path.value)
    [] path.kind = "OrderedRange" -> OrderedLookup(heap, path.key, path.op, path.value)
    [] path.kind = "HashIn" ->
         Appended([i \in DOMAIN path.values |-> IndexedLookup(heap, path.key, path.values[i])])
    [] path.kind = "PrefixLike" ->
         Appended(<<IndexedLookup(heap, On(<<path.col>>), <<2>> \o path.prefix),
                    OrderedLookup(heap, On(<<path.col>>), ">", <<2>> \o path.prefix)>>)
    [] path.kind \in {"Intersect", "Union"} ->
         EvalBitmapChildren(path.kind,
           [i \in DOMAIN path.children |-> EvalBitmapNode(path.children[i], heap)])
    [] OTHER -> [r \in DOMAIN heap |-> 0]

IsPresent(p) == p.kind # "None"

(* applyResidual; and the complementary scan of the rows not yet seen.     *)
ApplyResidual(found, p, heap) ==
  [r \in DOMAIN heap |-> IF found[r] > 0 /\ EvalPredicate(p, heap[r]) THEN found[r] ELSE 0]

AddUnseen(out, p, heap) ==
  [r \in DOMAIN heap |->
     IF heap[r] # NoRow /\ out[r] = 0 /\ EvalPredicate(p, heap[r]) THEN 1 ELSE out[r]]

CollectVisibleEntries(plan, where, heap) ==
  LET found == LookupPath(plan.path, heap)
      filtered == ApplyResidual(found, plan.residual, heap)
  IN CASE plan.path.kind = "FullScan" -> AddUnseen(found, where, heap)
       [] plan.path.kind = "Union" ->
            IF IsPresent(plan.residual) THEN AddUnseen(found, plan.residual, heap) ELSE found
       [] OTHER ->
            IF IsPresent(plan.complementary) THEN AddUnseen(filtered, plan.complementary, heap)
                                             ELSE filtered

(* The rows recorded as read: those looked up, or all that are visible.    *)
RowsRead(plan, heap) ==
  LET scans == \/ plan.path.kind = "FullScan"
               \/ plan.path.kind = "Union" /\ IsPresent(plan.residual)
               \/ IsPresent(plan.complementary)
  IN {r \in DOMAIN heap : heap[r] # NoRow /\ (scans \/ LookupPath(plan.path, heap)[r] > 0)}

-----------------------------------------------------------------------------
(* Predicate reads                                                         *)

Relation == [kind |-> "Relation"]
ColumnRead(col, op, value) == [kind |-> "Column", col |-> col, op |-> op, value |-> value]
LikeRead(col, pattern) == [kind |-> "Like", col |-> col, pattern |-> pattern]

InsertMatchesPredicate(row, read) ==
  CASE read.kind = "Relation" -> TRUE
    [] read.kind = "Like" -> IsString(row[read.col]) /\ MatchLike(Tail(row[read.col]), read.pattern)
    [] OTHER -> CompareValues(row[read.col], read.op, read.value)

RECURSIVE CanRecordColumnSireads(_)
CanRecordColumnSireads(p) ==
  CASE p.kind \in {"And", "Or"} -> CanRecordColumnSireads(p.left) /\ CanRecordColumnSireads(p.right)
    [] p.kind \in {"Comparison", "InList"} -> p.key.kind = "Columns"
    [] OTHER -> p.kind = "Like"

(* What a key compared with a value records: one read for each column of a *)
(* plain key; an expression is recorded as the whole relation.             *)
KeyReads(key, op, value) ==
  CASE key.kind # "Columns" -> {Relation}
    [] key.kind = "Columns" /\ Len(key.cols) = 1 -> {ColumnRead(key.cols[1], op, value)}
    [] OTHER -> {ColumnRead(key.cols[i], op, value[i]) : i \in DOMAIN key.cols}

(* Mutant of PredicateReads: an OR records its left arm only.              *)
RECURSIVE PredicateReadsLeftArm(_)
PredicateReadsLeftArm(p) ==
  CASE p.kind = "And" -> PredicateReadsLeftArm(p.left) \cup PredicateReadsLeftArm(p.right)
    [] p.kind = "Or" /\ CanRecordColumnSireads(p) -> PredicateReadsLeftArm(p.left)
    [] p.kind = "Comparison" -> KeyReads(p.key, p.op, p.value)
    [] p.kind = "InList" -> UNION {KeyReads(p.key, "=", v) : v \in ToSet(p.values)}
    [] p.kind = "Like" -> {LikeRead(p.col, p.pattern)}
    [] OTHER -> {Relation}

RECURSIVE PredicateReads(_)
PredicateReads(p) ==
  CASE p.kind = "And" -> PredicateReads(p.left) \cup PredicateReads(p.right)
    [] p.kind = "Or" /\ CanRecordColumnSireads(p) ->
         PredicateReads(p.left) \cup PredicateReads(p.right)
    [] p.kind = "Comparison" -> KeyReads(p.key, p.op, p.value)
    [] p.kind = "InList" -> UNION {KeyReads(p.key, "=", v) : v \in ToSet(p.values)}
    [] p.kind = "Like" -> {LikeRead(p.col, p.pattern)}
    [] OTHER -> {Relation}

BitmapReads(node) ==
  IF node.kind = "Probe" THEN KeyReads(node.key, "=", node.value)
  ELSE UNION {KeyReads(p.key, "=", p.value) : p \in ToSet(node.children)}

PathReads(path, where) ==
  CASE path.kind = "HashEq" -> KeyReads(path.key, "=", path.value)
    [] path.kind = "OrderedRange" -> KeyReads(path.key, path.op, path.value)
    [] path.kind = "HashIn" -> UNION {KeyReads(path.key, "=", v) : v \in ToSet(path.values)}
    [] path.kind \in {"Intersect", "Union"} -> UNION {BitmapReads(c) : c \in ToSet(path.children)}
    [] path.kind = "PrefixLike" -> {}
    [] OTHER -> PredicateReads(where)

RecordSsiScanPredicates(plan, where) ==
  LET residuals == {p \in {plan.residual, plan.complementary} : IsPresent(p)}
  IN PathReads(plan.path, where) \cup UNION {PredicateReads(p) : p \in residuals}

=============================================================================
