------------------------ MODULE MCSnapshotIsolation ------------------------
(* Model-checking instance of SnapshotIsolation.                           *)
EXTENDS SnapshotIsolation

CONSTANTS x, y   \* column values

MCKeys == 1..MaxRows
MCVals == {x, y}
OneCol == {1}
MCImages == [Cols -> Vals]
EmptyOrOne == {<<>>, <<[c \in Cols |-> x]>>}
(* WHERE column 1 = x *)
MCPredicates == {{row \in Images : row[1] = x}}

(* States are told apart by what the actions and the properties read.  Of  *)
(* a transaction that rolled back, and was not refused its commit, only    *)
(* that a version is its own matters.                                      *)
Forgotten == {t \in TxnIds : state[t] = "RolledBack"} \ refused
Stamp(id) == IF id \in Forgotten THEN -1 ELSE id
Chain(r) == [i \in DOMAIN versions[r] |->
  [versions[r][i] EXCEPT !.createdBy = Stamp(@), !.deletedBy = {Stamp(d) : d \in @}]]

StateView ==
  <<counters, state, commitSeq, actives, retained, refused, heap, freeList,
    [r \in RowIds |-> Chain(r)],
    [t \in TxnIds \ Forgotten |-> <<snapshotMaxCommitSeq[t], everReads[t], everWrites[t],
                                    everPredicates[t], everInserts[t]>>]>>

(* Bounds: three transactions of which one records reads, or two which     *)
(* both do (write skew).  One that ends without a trace, rolled back       *)
(* without a write or committed without a read or a write, is not followed *)
(* further: it only uses up an id.                                         *)
Reads(t) == everReads[t] # {} \/ everPredicates[t] # {}
Bounded ==
  /\ Cardinality({t \in TxnIds : Reads(t)}) <= IF nextId <= 3 THEN 2 ELSE 1
  /\ \A t \in TxnIds :
       /\ state[t] = "RolledBack" => everWrites[t] # {}
       /\ state[t] = "Committed" => everWrites[t] # {} \/ Reads(t)

=============================================================================
