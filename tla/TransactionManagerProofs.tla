---------------------- MODULE TransactionManagerProofs ----------------------
(***************************************************************************)
(* The safety properties of TransactionManager, for every set of keys,     *)
(* images and predicates and every number of transactions.                 *)
(*                                                                         *)
(* None of the properties is inductive by itself.  Validation reads the    *)
(* active sets and the retained sets, the properties speak of what the     *)
(* transactions ever recorded, so the inductive invariant adds             *)
(*   - Lifecycle: ids below nextId are the born ones, committed            *)
(*     transactions have distinct sequences up to nextCommitSeq;           *)
(*   - SeqCount: one sequence per committed transaction (the counter       *)
(*     cannot pass the number of transactions);                            *)
(*   - ActiveIsHistory: the active sets are the history of the active      *)
(*     transactions;                                                       *)
(*   - Provenance: a retained set is part of the history of the            *)
(*     transaction that committed at its sequence.                         *)
(***************************************************************************)
EXTENDS TransactionManager, FiniteSets, FiniteSetTheorems, TLAPS

CommittedTxns == {t \in TxnIds : state[t] = "Committed"}

Lifecycle ==
  /\ \A t \in TxnIds : state[t] = "Unborn" <=> t >= nextId
  /\ \A t \in TxnIds : state[t] = "Committed" => commitSeq[t] \in 1..nextCommitSeq
  /\ \A t \in TxnIds : snapshotMaxCommitSeq[t] <= nextCommitSeq
  /\ \A t, u \in TxnIds :
       state[t] = "Committed" /\ state[u] = "Committed" /\ t # u
         => commitSeq[t] # commitSeq[u]
  /\ \A t \in refused : state[t] = "RolledBack"

SeqCount == nextCommitSeq = Cardinality(CommittedTxns)

ActiveIsHistory ==
  \A t \in TxnIds :
    /\ IsActive(t) => /\ activeReads[t] = everReads[t]
                      /\ activeWrites[t] = everWrites[t]
                      /\ activePredicateReads[t] = everPredicates[t]
                      /\ activeInserts[t] = everInserts[t]
    /\ ~IsActive(t) => /\ activeReads[t] = {} /\ activeWrites[t] = {}
                       /\ activePredicateReads[t] = {} /\ activeInserts[t] = {}
    /\ state[t] = "Unborn" => /\ everReads[t] = {} /\ everWrites[t] = {}
                              /\ everPredicates[t] = {} /\ everInserts[t] = {}

Empty(s) ==
  committedWriteSets[s] = {} /\ committedPredicateReads[s] = {} /\ committedInserts[s] = {}

Provenance ==
  \A s \in CommitSeqs :
    \/ Empty(s)
    \/ \E u \in TxnIds : /\ state[u] = "Committed" /\ commitSeq[u] = s
                         /\ committedWriteSets[s] \subseteq everWrites[u]
                         /\ committedPredicateReads[s] \subseteq everPredicates[u]
                         /\ committedInserts[s] \subseteq everInserts[u]

IInv == TypeOK /\ Lifecycle /\ SeqCount /\ ActiveIsHistory /\ Provenance
        /\ RetainedForActive /\ SerializableInCommitOrder
        /\ RefusedOnlyOnConflict /\ RetainedSetsAreNeeded

-----------------------------------------------------------------------------
(* The sequence counter counts the commits, so while some transaction is   *)
(* not committed there is a sequence left for it.                          *)

LEMMA FiniteTxns == IsFiniteSet(TxnIds) /\ Cardinality(TxnIds) = MaxTxns
BY MaxTxnsAssumption, FS_Interval, SMT DEF TxnIds

LEMMA SequenceLeft ==
  ASSUME TypeOK, SeqCount, NEW t \in TxnIds, state[t] # "Committed"
  PROVE  nextCommitSeq + 1 \in CommitSeqs
<1>1. /\ CommittedTxns \subseteq TxnIds \ {t}
      /\ IsFiniteSet(TxnIds \ {t})
      /\ Cardinality(TxnIds \ {t}) = MaxTxns - 1
  BY FiniteTxns, FS_RemoveElement DEF CommittedTxns
<1>2. Cardinality(CommittedTxns) <= MaxTxns - 1
  BY <1>1, FS_Subset
<1> QED
  BY <1>2, MaxTxnsAssumption DEF SeqCount, CommitSeqs, TypeOK

LEMMA NewCommitCounts ==
  ASSUME TypeOK, SeqCount, NEW t \in TxnIds, state[t] # "Committed",
         state' = [state EXCEPT ![t] = "Committed"],
         nextCommitSeq' = nextCommitSeq + 1
  PROVE  SeqCount'
<1>1. CommittedTxns' = CommittedTxns \cup {t} /\ t \notin CommittedTxns
  BY DEF CommittedTxns, TypeOK
<1>2. IsFiniteSet(CommittedTxns)
  BY FiniteTxns, FS_Subset DEF CommittedTxns
<1>3. Cardinality(CommittedTxns') = Cardinality(CommittedTxns) + 1
  BY ZenonT(30), <1>1, <1>2, FS_AddElement
<1> QED
  BY <1>3 DEF SeqCount

LEMMA OtherStepsCount ==
  ASSUME TypeOK, SeqCount, nextCommitSeq' = nextCommitSeq,
         CommittedTxns' = CommittedTxns
  PROVE  SeqCount'
BY DEF SeqCount

-----------------------------------------------------------------------------
(* One lemma per operation: it preserves the inductive invariant.          *)

LEMMA BeginPreserves ==
  ASSUME IInv, Begin
  PROVE  IInv'
<1>0. nextId \in TxnIds /\ state[nextId] = "Unborn"
  BY MaxTxnsAssumption DEF IInv, Begin, TypeOK, TxnIds, Lifecycle
<1>1. TypeOK'
  <2>1. nextId' \in 1..(MaxTxns + 1)
    BY MaxTxnsAssumption DEF IInv, Begin, TypeOK
  <2>2. state' \in [TxnIds -> States]
    BY ZenonT(30) DEF IInv, Begin, TypeOK, States
  <2>3. snapshotMaxCommitSeq' \in [TxnIds -> 0..MaxTxns]
    BY ZenonT(30) DEF IInv, Begin, TypeOK
  <2> QED BY <2>1, <2>2, <2>3 DEF IInv, Begin, TypeOK, actives, retained, history
<1>2. Lifecycle'
  BY <1>0, MaxTxnsAssumption DEF IInv, Begin, TypeOK, TxnIds, Lifecycle
<1>3. SeqCount'
  <2>1. CommittedTxns' = CommittedTxns
    BY <1>0 DEF IInv, Begin, TypeOK, CommittedTxns
  <2> QED BY <2>1, OtherStepsCount DEF IInv, Begin
<1>4. ActiveIsHistory'
  BY <1>0, ZenonT(30) DEF IInv, Begin, TypeOK, ActiveIsHistory, IsActive, actives, history
<1>5. Provenance'
  BY <1>0 DEF IInv, Begin, TypeOK, Provenance, Empty, retained, history
<1>6. RetainedForActive'
  BY <1>0 DEF IInv, Begin, TypeOK, RetainedForActive, CommittedDuring, Lifecycle, IsActive,
              retained, history
<1>7. SerializableInCommitOrder'
  BY <1>0 DEF IInv, Begin, TypeOK, SerializableInCommitOrder, CommittedDuring, Conflict, history
<1>8. RefusedOnlyOnConflict'
  <2>1. \A t \in refused : state[t] # "Unborn"
    BY DEF IInv, Lifecycle
  <2>2. \A t, u \in TxnIds : state[t] # "Unborn" /\ CommittedDuring(u, t) => CommittedDuring(u, t)'
    BY <1>0 DEF IInv, Begin, TypeOK, CommittedDuring
  <2>3. \A t, u \in TxnIds : Conflict(t, u)' = Conflict(t, u)
    BY DEF Begin, Conflict, history
  <2> QED BY <2>1, <2>2, <2>3 DEF IInv, RefusedOnlyOnConflict, TypeOK, Begin
<1>9. RetainedSetsAreNeeded'
  BY <1>0 DEF IInv, Begin, TypeOK, RetainedSetsAreNeeded, IsActive, retained
<1> QED
  BY <1>1, <1>2, <1>3, <1>4, <1>5, <1>6, <1>7, <1>8, <1>9 DEF IInv

(* The four recording calls leave everything alone except the active sets  *)
(* and the history of one active transaction.                              *)
Recording(t) ==
  /\ IsActive(t)
  /\ UNCHANGED <<counters, records, retained, refused>>
  /\ \A u \in TxnIds : u # t =>
       /\ everReads'[u] = everReads[u] /\ everWrites'[u] = everWrites[u]
       /\ everPredicates'[u] = everPredicates[u] /\ everInserts'[u] = everInserts[u]

LEMMA RecordingPreserves ==
  ASSUME IInv, NEW t \in TxnIds, Recording(t), TypeOK', ActiveIsHistory'
  PROVE  IInv'
<1>1. Lifecycle'
  BY DEF IInv, Recording, Lifecycle, counters, records
<1>2. SeqCount'
  <2>1. CommittedTxns' = CommittedTxns
    BY DEF Recording, CommittedTxns, records
  <2> QED BY <2>1, OtherStepsCount DEF IInv, Recording, counters
<1>3. \A u \in TxnIds : state[u] = "Committed" => u # t
  BY DEF Recording, IsActive
<1>4. Provenance'
  BY <1>3 DEF IInv, Recording, Provenance, Empty, retained, records
<1>5. RetainedForActive'
  BY <1>3 DEF IInv, Recording, RetainedForActive, CommittedDuring, IsActive, retained, records
<1>6. SerializableInCommitOrder'
  BY <1>3 DEF IInv, Recording, SerializableInCommitOrder, CommittedDuring, Conflict, records
<1>7. RefusedOnlyOnConflict'
  <2>1. t \notin refused
    BY DEF IInv, Lifecycle, Recording, IsActive
  <2> QED
    BY <1>3, <2>1 DEF IInv, RefusedOnlyOnConflict, CommittedDuring, Conflict, Recording, TypeOK, records
<1>8. RetainedSetsAreNeeded'
  BY DEF IInv, Recording, RetainedSetsAreNeeded, IsActive, retained, records, counters
<1> QED
  BY <1>1, <1>2, <1>4, <1>5, <1>6, <1>7, <1>8 DEF IInv

LEMMA RecordReadPreserves ==
  ASSUME IInv, NEW t \in TxnIds, NEW k \in Keys, RecordRead(t, k)
  PROVE  IInv'
<1>1. Recording(t)
  BY DEF IInv, TypeOK, RecordRead, Recording
<1>2. TypeOK'
  BY DEF IInv, TypeOK, RecordRead, counters, records, retained
<1>3. ActiveIsHistory'
  BY ZenonT(30) DEF IInv, TypeOK, RecordRead, ActiveIsHistory, IsActive, records
<1> QED
  BY <1>1, <1>2, <1>3, RecordingPreserves

LEMMA RecordWritePreserves ==
  ASSUME IInv, NEW t \in TxnIds, NEW k \in Keys, RecordWrite(t, k)
  PROVE  IInv'
<1>1. Recording(t)
  BY DEF IInv, TypeOK, RecordWrite, Recording
<1>2. TypeOK'
  BY DEF IInv, TypeOK, RecordWrite, counters, records, retained
<1>3. ActiveIsHistory'
  BY ZenonT(30) DEF IInv, TypeOK, RecordWrite, ActiveIsHistory, IsActive, records
<1> QED
  BY <1>1, <1>2, <1>3, RecordingPreserves

LEMMA RecordPredicateReadPreserves ==
  ASSUME IInv, NEW t \in TxnIds, NEW p \in Predicates, RecordPredicateRead(t, p)
  PROVE  IInv'
<1>1. Recording(t)
  BY DEF IInv, TypeOK, RecordPredicateRead, Recording
<1>2. TypeOK'
  BY DEF IInv, TypeOK, RecordPredicateRead, counters, records, retained
<1>3. ActiveIsHistory'
  BY ZenonT(30) DEF IInv, TypeOK, RecordPredicateRead, ActiveIsHistory, IsActive, records
<1> QED
  BY <1>1, <1>2, <1>3, RecordingPreserves

LEMMA RecordInsertPreserves ==
  ASSUME IInv, NEW t \in TxnIds, NEW i \in Images, RecordInsert(t, i)
  PROVE  IInv'
<1>1. Recording(t)
  BY DEF IInv, TypeOK, RecordInsert, Recording
<1>2. TypeOK'
  BY DEF IInv, TypeOK, RecordInsert, counters, records, retained
<1>3. ActiveIsHistory'
  BY ZenonT(30) DEF IInv, TypeOK, RecordInsert, ActiveIsHistory, IsActive, records
<1> QED
  BY <1>1, <1>2, <1>3, RecordingPreserves

(* A pruned map holds a subset of what it held, and all of what it held    *)
(* above the snapshot of a transaction that is still active.               *)
LEMMA PruneFacts ==
  ASSUME NEW map, NEW s \in CommitSeqs
  PROVE  /\ PruneSets(map)[s] \in {{}, map[s]}
         /\ \A v \in TxnIds :
              /\ state'[v] = "Active"
              /\ ~(s <= snapshotMaxCommitSeq[v])
              => PruneSets(map)[s] = map[s]
         /\ Prunable(s) => PruneSets(map)[s] = {}
BY DEF PruneSets, Prunable

LEMMA PruneType ==
  ASSUME NEW S, NEW map \in [CommitSeqs -> SUBSET S]
  PROVE  PruneSets(map) \in [CommitSeqs -> SUBSET S]
BY DEF PruneSets

(* Rolling back, whether asked for or forced by a refused commit.          *)
LEMMA RollbackPreserves ==
  ASSUME IInv, NEW t \in TxnIds, Rollback(t),
         refused' \in {refused, refused \cup {t}}, RefusedOnlyOnConflict'
  PROVE  IInv'
<1>0. state' = [state EXCEPT ![t] = "RolledBack"] /\ state[t] = "Active"
  BY DEF Rollback, IsActive
<1>1. TypeOK'
  <2>1. /\ committedWriteSets' \in [CommitSeqs -> SUBSET Keys]
        /\ committedPredicateReads' \in [CommitSeqs -> SUBSET Predicates]
        /\ committedInserts' \in [CommitSeqs -> SUBSET Images]
    BY PruneType, ZenonT(30) DEF IInv, Rollback, TypeOK
  <2>2. state' \in [TxnIds -> States] /\ refused' \in SUBSET TxnIds
    BY <1>0 DEF IInv, TypeOK, States
  <2> QED BY <2>1, <2>2 DEF IInv, Rollback, EraseActive, TypeOK, counters, history
<1>2. Lifecycle'
  BY <1>0 DEF IInv, Rollback, Lifecycle, TypeOK, counters
<1>3. SeqCount'
  <2>1. CommittedTxns' = CommittedTxns
    BY <1>0 DEF IInv, CommittedTxns, TypeOK
  <2> QED BY <2>1, OtherStepsCount DEF IInv, Rollback, counters
<1>4. ActiveIsHistory'
  BY <1>0 DEF IInv, Rollback, EraseActive, ActiveIsHistory, IsActive, TypeOK, history
<1>5. Provenance'
  <2> SUFFICES ASSUME NEW s \in CommitSeqs, ~Empty(s)'
               PROVE  \E u \in TxnIds :
                        (/\ state[u] = "Committed" /\ commitSeq[u] = s
                         /\ committedWriteSets[s] \subseteq everWrites[u]
                         /\ committedPredicateReads[s] \subseteq everPredicates[u]
                         /\ committedInserts[s] \subseteq everInserts[u])'
    BY DEF IInv, Provenance
  <2>1. /\ committedWriteSets'[s] \in {{}, committedWriteSets[s]}
        /\ committedPredicateReads'[s] \in {{}, committedPredicateReads[s]}
        /\ committedInserts'[s] \in {{}, committedInserts[s]}
    BY PruneFacts DEF Rollback
  <2> QED
    BY <1>0, <2>1 DEF IInv, Provenance, Empty, Rollback, TypeOK, history
<1>6. RetainedForActive'
  <2> SUFFICES ASSUME NEW v \in TxnIds, NEW u \in TxnIds,
                      IsActive(v)', CommittedDuring(u, v)'
               PROVE  (/\ committedWriteSets[commitSeq[u]] = everWrites[u]
                       /\ committedPredicateReads[commitSeq[u]] = everPredicates[u]
                       /\ committedInserts[commitSeq[u]] = everInserts[u])'
    BY DEF IInv, RetainedForActive
  <2>1. /\ IsActive(v) /\ CommittedDuring(u, v)
        /\ commitSeq[u] \in CommitSeqs
        /\ ~(commitSeq[u] <= snapshotMaxCommitSeq[v])
    BY <1>0 DEF IInv, IsActive, CommittedDuring, Rollback, TypeOK, Lifecycle, CommitSeqs
  <2>2. /\ committedWriteSets'[commitSeq[u]] = committedWriteSets[commitSeq[u]]
        /\ committedPredicateReads'[commitSeq[u]] = committedPredicateReads[commitSeq[u]]
        /\ committedInserts'[commitSeq[u]] = committedInserts[commitSeq[u]]
    BY <2>1, PruneFacts DEF Rollback, IsActive
  <2> QED
    BY SMTT(30), <2>1, <2>2 DEF IInv, RetainedForActive, Rollback, history
<1>7. SerializableInCommitOrder'
  BY <1>0 DEF IInv, SerializableInCommitOrder, CommittedDuring, Conflict, Rollback, TypeOK, history
<1>8. RetainedSetsAreNeeded'
  <2> SUFFICES ASSUME NEW s \in CommitSeqs, s # nextCommitSeq',
                      ~ \E v \in TxnIds : IsActive(v)' /\ snapshotMaxCommitSeq'[v] < s
               PROVE  Empty(s)'
    BY DEF IInv, RetainedSetsAreNeeded, Empty
  <2>1. CASE Prunable(s)
    BY <2>1, PruneFacts DEF Rollback, Empty
  <2>2. CASE ~Prunable(s)
    <3>1. s > nextCommitSeq
      BY <2>2 DEF IInv, Prunable, IsActive, Rollback, TypeOK, CommitSeqs, counters
    <3>2. Empty(s)
      BY <3>1 DEF IInv, Provenance, Lifecycle, TypeOK, CommitSeqs
    <3> QED
      BY <3>2, PruneFacts DEF Rollback, Empty
  <2> QED BY <2>1, <2>2
<1> QED
  BY <1>1, <1>2, <1>3, <1>4, <1>5, <1>6, <1>7, <1>8 DEF IInv

LEMMA RollbackTxnPreserves ==
  ASSUME IInv, NEW t \in TxnIds, RollbackTxn(t)
  PROVE  IInv'
<1>1. RefusedOnlyOnConflict'
  <2>1. \A u \in TxnIds : state[u] = "Committed" => state'[u] = "Committed"
    BY DEF IInv, RollbackTxn, Rollback, IsActive, TypeOK
  <2> QED
    BY <2>1 DEF IInv, RefusedOnlyOnConflict, CommittedDuring, Conflict, RollbackTxn,
                Rollback, TypeOK, history
<1> QED
  BY <1>1, RollbackPreserves DEF RollbackTxn

LEMMA CommitRefusedPreserves ==
  ASSUME IInv, NEW t \in TxnIds, CommitRefused(t)
  PROVE  IInv'
<1>1. PICK s \in CommitSeqs :
        /\ s > snapshotMaxCommitSeq[t]
        /\ \/ activeReads[t] \cap committedWriteSets[s] # {}
           \/ activeWrites[t] \cap committedWriteSets[s] # {}
           \/ PredicateConflictsWithInserts(activePredicateReads[t], committedInserts[s])
           \/ PredicateConflictsWithInserts(committedPredicateReads[s], activeInserts[t])
  BY DEF CommitRefused, IsSerializable
<1>2. ~Empty(s)
  BY <1>1 DEF Empty, PredicateConflictsWithInserts
<1>3. PICK u \in TxnIds : /\ state[u] = "Committed" /\ commitSeq[u] = s
                          /\ committedWriteSets[s] \subseteq everWrites[u]
                          /\ committedPredicateReads[s] \subseteq everPredicates[u]
                          /\ committedInserts[s] \subseteq everInserts[u]
  BY <1>2 DEF IInv, Provenance
<1>4. CommittedDuring(u, t) /\ Conflict(t, u)
  <2>1. /\ activeReads[t] = everReads[t] /\ activeWrites[t] = everWrites[t]
        /\ activePredicateReads[t] = everPredicates[t] /\ activeInserts[t] = everInserts[t]
    BY DEF IInv, ActiveIsHistory, CommitRefused
  <2>2. CASE (activeReads[t] \cup activeWrites[t]) \cap committedWriteSets[s] # {}
    BY <1>1, <1>3, <2>1, <2>2 DEF CommittedDuring, Conflict
  <2>3. CASE PredicateConflictsWithInserts(activePredicateReads[t], committedInserts[s])
    BY <1>1, <1>3, <2>1, <2>3 DEF CommittedDuring, Conflict, PredicateConflictsWithInserts
  <2>4. CASE PredicateConflictsWithInserts(committedPredicateReads[s], activeInserts[t])
    BY <1>1, <1>3, <2>1, <2>4 DEF CommittedDuring, Conflict, PredicateConflictsWithInserts
  <2> QED BY <1>1, <2>2, <2>3, <2>4
<1>5. RefusedOnlyOnConflict'
  <2>1. \A v \in TxnIds : state[v] = "Committed" => state'[v] = "Committed"
    BY DEF IInv, CommitRefused, Rollback, IsActive, TypeOK
  <2> QED
    BY <1>4, <2>1 DEF IInv, RefusedOnlyOnConflict, CommittedDuring, Conflict, CommitRefused,
                      Rollback, TypeOK, history
<1> QED
  BY <1>5, RollbackPreserves DEF CommitRefused

(* A new commit c at the next sequence: of an active transaction that      *)
(* validated, or of an autocommit statement.  The retained sets are what   *)
(* pruning leaves of the old ones, and at the new sequence the sets of c,  *)
(* unless nothing that is active needs them.                               *)
NewCommit(c) ==
  LET seq == nextCommitSeq + 1 IN
  /\ c \in TxnIds /\ state[c] \in {"Active", "Unborn"}
  /\ nextCommitSeq' = seq
  /\ state' = [state EXCEPT ![c] = "Committed"]
  /\ commitSeq' = [commitSeq EXCEPT ![c] = seq]
  /\ snapshotMaxCommitSeq'[c] \in 0..nextCommitSeq
  /\ \A u \in TxnIds : u # c =>
       /\ snapshotMaxCommitSeq'[u] = snapshotMaxCommitSeq[u]
       /\ everReads'[u] = everReads[u] /\ everWrites'[u] = everWrites[u]
       /\ everPredicates'[u] = everPredicates[u] /\ everInserts'[u] = everInserts[u]
  /\ refused' = refused
  /\ \A s \in CommitSeqs \ {seq} :
       /\ committedWriteSets'[s] = PruneSets(committedWriteSets)[s]
       /\ committedPredicateReads'[s] = PruneSets(committedPredicateReads)[s]
       /\ committedInserts'[s] = PruneSets(committedInserts)[s]
  /\ committedWriteSets'[seq] \in {{}, everWrites'[c]}
  /\ committedPredicateReads'[seq] \in {{}, everPredicates'[c]}
  /\ committedInserts'[seq] \in {{}, everInserts'[c]}
  /\ (\E v \in TxnIds : state'[v] = "Active") =>
       /\ committedWriteSets'[seq] = everWrites'[c]
       /\ committedPredicateReads'[seq] = everPredicates'[c]
       /\ committedInserts'[seq] = everInserts'[c]

LEMMA NewCommitPreserves ==
  ASSUME IInv, NEW c \in TxnIds, NewCommit(c), TypeOK', ActiveIsHistory',
         \A t \in TxnIds : state'[t] = "Unborn" <=> t >= nextId',
         \A u \in TxnIds : state[u] = "Committed" /\ commitSeq[u] > snapshotMaxCommitSeq'[c]
                            => ~Conflict(c, u)'
  PROVE  IInv'
<1> DEFINE seq == nextCommitSeq + 1
<1>0. /\ state' = [state EXCEPT ![c] = "Committed"] /\ state[c] \in {"Active", "Unborn"}
      /\ commitSeq' = [commitSeq EXCEPT ![c] = seq]
      /\ \A u \in TxnIds : u # c => snapshotMaxCommitSeq'[u] = snapshotMaxCommitSeq[u]
      /\ nextCommitSeq' = seq /\ refused' = refused
  BY DEF NewCommit
<1>1. seq \in CommitSeqs
  BY <1>0, SequenceLeft DEF IInv
<1>2. Lifecycle'
  <2>1. \A t \in refused : t # c
    BY <1>0 DEF IInv, Lifecycle
  <2>2. \A t \in TxnIds : state'[t] = "Committed" => commitSeq'[t] \in 1..nextCommitSeq'
    BY SMTT(30), <1>0, <1>1 DEF IInv, Lifecycle, TypeOK, CommitSeqs
  <2>3. \A t \in TxnIds : snapshotMaxCommitSeq'[t] <= nextCommitSeq'
    BY SMTT(30), <1>0 DEF IInv, Lifecycle, TypeOK, NewCommit
  <2>4. \A t, u \in TxnIds :
          state'[t] = "Committed" /\ state'[u] = "Committed" /\ t # u
            => commitSeq'[t] # commitSeq'[u]
    BY <1>0 DEF IInv, Lifecycle, TypeOK
  <2>5. \A t \in refused' : state'[t] = "RolledBack"
    BY <1>0, <2>1 DEF IInv, Lifecycle, TypeOK
  <2> QED
    BY <2>2, <2>3, <2>4, <2>5 DEF IInv, Lifecycle
<1>3. SeqCount'
  BY <1>0, NewCommitCounts, ZenonT(30) DEF IInv
<1>4. Provenance'
  <2> SUFFICES ASSUME NEW s \in CommitSeqs, ~Empty(s)'
               PROVE  \E u \in TxnIds :
                        (/\ state[u] = "Committed" /\ commitSeq[u] = s
                         /\ committedWriteSets[s] \subseteq everWrites[u]
                         /\ committedPredicateReads[s] \subseteq everPredicates[u]
                         /\ committedInserts[s] \subseteq everInserts[u])'
    BY DEF Provenance
  <2>1. CASE s = seq
    <3>1. (/\ state[c] = "Committed" /\ commitSeq[c] = s
           /\ committedWriteSets[s] \subseteq everWrites[c]
           /\ committedPredicateReads[s] \subseteq everPredicates[c]
           /\ committedInserts[s] \subseteq everInserts[c])'
      BY SMTT(30), <1>0, <2>1 DEF IInv, NewCommit, TypeOK
    <3> QED BY <3>1, ZenonT(30)
  <2>2. CASE s # seq
    <3>1. /\ committedWriteSets'[s] \in {{}, committedWriteSets[s]}
          /\ committedPredicateReads'[s] \in {{}, committedPredicateReads[s]}
          /\ committedInserts'[s] \in {{}, committedInserts[s]}
      BY SMTT(30), <2>2, PruneFacts DEF NewCommit
    <3>2. PICK u \in TxnIds : /\ state[u] = "Committed" /\ commitSeq[u] = s
                              /\ committedWriteSets[s] \subseteq everWrites[u]
                              /\ committedPredicateReads[s] \subseteq everPredicates[u]
                              /\ committedInserts[s] \subseteq everInserts[u]
      BY <3>1 DEF IInv, Provenance, Empty
    <3>3. u # c
      BY <1>0, <3>2
    <3>4. (/\ state[u] = "Committed" /\ commitSeq[u] = s
           /\ committedWriteSets[s] \subseteq everWrites[u]
           /\ committedPredicateReads[s] \subseteq everPredicates[u]
           /\ committedInserts[s] \subseteq everInserts[u])'
      BY SMTT(30), <1>0, <3>1, <3>2, <3>3 DEF IInv, NewCommit, TypeOK
    <3> QED BY <3>4, ZenonT(30)
  <2> QED BY <2>1, <2>2
<1>5. RetainedForActive'
  <2> SUFFICES ASSUME NEW v \in TxnIds, NEW u \in TxnIds,
                      IsActive(v)', CommittedDuring(u, v)'
               PROVE  (/\ committedWriteSets[commitSeq[u]] = everWrites[u]
                       /\ committedPredicateReads[commitSeq[u]] = everPredicates[u]
                       /\ committedInserts[commitSeq[u]] = everInserts[u])'
    BY Zenon DEF RetainedForActive
  <2>0. v # c /\ IsActive(v)
    <3>1. state \in [TxnIds -> States]
      BY DEF IInv, TypeOK
    <3> QED BY <1>0, <3>1 DEF IsActive
  <2>1. CASE u = c
    BY SMTT(30), <1>0, <2>0, <2>1 DEF IInv, NewCommit, IsActive, TypeOK
  <2>2. CASE u # c
    <3>1. /\ CommittedDuring(u, v) /\ commitSeq'[u] = commitSeq[u]
          /\ commitSeq[u] \in CommitSeqs \ {seq}
          /\ ~(commitSeq[u] <= snapshotMaxCommitSeq[v])
      BY SMTT(30), <1>0, <2>0, <2>2 DEF IInv, CommittedDuring, TypeOK, Lifecycle, CommitSeqs
    <3>2. /\ committedWriteSets'[commitSeq[u]] = committedWriteSets[commitSeq[u]]
          /\ committedPredicateReads'[commitSeq[u]] = committedPredicateReads[commitSeq[u]]
          /\ committedInserts'[commitSeq[u]] = committedInserts[commitSeq[u]]
      BY <3>1, PruneFacts DEF NewCommit, IsActive
    <3> QED
      BY SMTT(30), <2>0, <2>2, <3>1, <3>2 DEF IInv, RetainedForActive, NewCommit
  <2> QED BY <2>1, <2>2, ZenonT(30)
<1>6. SerializableInCommitOrder'
  <2> SUFFICES ASSUME NEW t \in TxnIds, NEW u \in TxnIds, state'[t] = "Committed",
                      CommittedDuring(u, t)', commitSeq'[u] < commitSeq'[t]
               PROVE  ~Conflict(t, u)'
    BY DEF SerializableInCommitOrder
  <2>1. u # c
    BY SMTT(30), <1>0 DEF IInv, Lifecycle, TypeOK
  <2>2. CASE t = c
    BY <1>0, <2>1, <2>2 DEF IInv, CommittedDuring, TypeOK
  <2>3. CASE t # c
    <3>1. ~Conflict(t, u)
      BY <1>0, <2>1, <2>3 DEF IInv, SerializableInCommitOrder, CommittedDuring, TypeOK
    <3> QED BY SMTT(30), <2>1, <2>3, <3>1 DEF Conflict, NewCommit
  <2> QED BY <2>2, <2>3
<1>7. RefusedOnlyOnConflict'
  <2> SUFFICES ASSUME NEW t \in refused
               PROVE  \E u \in TxnIds : (CommittedDuring(u, t) /\ Conflict(t, u))'
    BY <1>0 DEF IInv, RefusedOnlyOnConflict
  <2>1. PICK u \in TxnIds : CommittedDuring(u, t) /\ Conflict(t, u)
    BY SMTT(30) DEF IInv, RefusedOnlyOnConflict
  <2>2. t \in TxnIds /\ t # c /\ u # c
    BY SMTT(30), <1>0, <2>1 DEF IInv, Lifecycle, CommittedDuring, TypeOK
  <2>3. Conflict(t, u)'
    BY SMTT(30), <2>1, <2>2 DEF NewCommit, Conflict
  <2>4. CommittedDuring(u, t)'
    BY <1>0, <2>1, <2>2 DEF IInv, CommittedDuring, TypeOK
  <2> QED BY <2>3, <2>4
<1>8. RetainedSetsAreNeeded'
  <2> SUFFICES ASSUME NEW s \in CommitSeqs, s # nextCommitSeq',
                      ~ \E v \in TxnIds : IsActive(v)' /\ snapshotMaxCommitSeq'[v] < s
               PROVE  Empty(s)'
    BY ZenonT(30) DEF IInv, RetainedSetsAreNeeded, Empty
  <2>0. s \in CommitSeqs \ {seq}
    BY SMTT(30), <1>0
  <2>1. CASE Prunable(s)
    BY SMTT(30), <2>0, <2>1, PruneFacts DEF NewCommit, Empty
  <2>2. CASE ~Prunable(s)
    <3>1. \A v \in TxnIds : state'[v] = "Active" => s <= snapshotMaxCommitSeq[v]
      <4> SUFFICES ASSUME NEW v \in TxnIds, state'[v] = "Active"
                   PROVE  s <= snapshotMaxCommitSeq[v]
        BY SMTT(30)
      <4>1. v # c
        BY SMTT(30), <1>0 DEF IInv, TypeOK
      <4> QED BY <1>0, <4>1 DEF IInv, IsActive, TypeOK, CommitSeqs
    <3>2. s > nextCommitSeq
      BY SMTT(30), <1>0, <2>2, <3>1 DEF IInv, Prunable, TypeOK, CommitSeqs
    <3>3. Empty(s)
      BY <3>2 DEF IInv, Provenance, Lifecycle, TypeOK, CommitSeqs
    <3> QED
      BY SMTT(30), <2>0, <3>3, PruneFacts DEF NewCommit, Empty
  <2> QED BY SMTT(30), <2>1, <2>2
<1> QED
  BY SMTT(30), <1>2, <1>3, <1>4, <1>5, <1>6, <1>7, <1>8 DEF IInv

LEMMA CommitTxnPreserves ==
  ASSUME IInv, NEW t \in TxnIds, CommitTxn(t)
  PROVE  IInv'
<1> DEFINE seq == nextCommitSeq + 1
<1>0. state[t] = "Active" /\ seq \in CommitSeqs
  BY SequenceLeft DEF IInv, CommitTxn, IsSerializable, IsActive
<1>1. TypeOK'
  <2>1. /\ committedWriteSets' \in [CommitSeqs -> SUBSET Keys]
        /\ committedPredicateReads' \in [CommitSeqs -> SUBSET Predicates]
        /\ committedInserts' \in [CommitSeqs -> SUBSET Images]
    BY PruneType, ZenonT(30) DEF IInv, CommitTxn, TypeOK
  <2>2. state' \in [TxnIds -> States] /\ commitSeq' \in [TxnIds -> 0..MaxTxns]
        /\ nextCommitSeq' \in 0..MaxTxns
    BY <1>0, MaxTxnsAssumption DEF IInv, TypeOK, States, CommitTxn, CommitSeqs
  <2> QED BY <2>1, <2>2, ZenonT(30) DEF IInv, CommitTxn, EraseActive, TypeOK, history
<1>2. ActiveIsHistory'
  BY <1>0 DEF IInv, CommitTxn, EraseActive, ActiveIsHistory, IsActive, TypeOK, history
<1>3. NewCommit(t)
  <2>1. \A s \in CommitSeqs \ {seq} :
          /\ committedWriteSets'[s] = PruneSets(committedWriteSets)[s]
          /\ committedPredicateReads'[s] = PruneSets(committedPredicateReads)[s]
          /\ committedInserts'[s] = PruneSets(committedInserts)[s]
    BY DEF IInv, CommitTxn, PruneSets, TypeOK
  <2>2. /\ committedWriteSets'[seq] = IF Prunable(seq) THEN {} ELSE everWrites'[t]
        /\ committedPredicateReads'[seq] = IF Prunable(seq) THEN {} ELSE everPredicates'[t]
        /\ committedInserts'[seq] = IF Prunable(seq) THEN {} ELSE everInserts'[t]
    BY <1>0 DEF IInv, CommitTxn, PruneSets, TypeOK, ActiveIsHistory, IsActive, history
  <2>3. (\E v \in TxnIds : state'[v] = "Active") => ~Prunable(seq)
    <3> SUFFICES ASSUME NEW v \in TxnIds, state'[v] = "Active"
                 PROVE  ~Prunable(seq)
      OBVIOUS
    <3>1. ~(seq <= snapshotMaxCommitSeq[v])
      BY DEF IInv, Lifecycle, TypeOK
    <3> QED BY <3>1 DEF Prunable
  <2>4. snapshotMaxCommitSeq'[t] \in 0..nextCommitSeq
    BY DEF IInv, CommitTxn, Lifecycle, TypeOK
  <2> QED
    BY <1>0, <2>1, <2>2, <2>3, <2>4, ZenonT(30) DEF NewCommit, CommitTxn, history
<1>4. \A u \in TxnIds : state'[u] = "Unborn" <=> u >= nextId'
  BY SMTT(30), <1>0 DEF IInv, CommitTxn, Lifecycle, TypeOK
<1>5. \A u \in TxnIds : state[u] = "Committed" /\ commitSeq[u] > snapshotMaxCommitSeq'[t]
                        => ~Conflict(t, u)'
  <2> SUFFICES ASSUME NEW u \in TxnIds, CommittedDuring(u, t)
               PROVE  ~Conflict(t, u)
    BY DEF CommitTxn, CommittedDuring, Conflict, history
  <2>1. /\ committedWriteSets[commitSeq[u]] = everWrites[u]
        /\ committedPredicateReads[commitSeq[u]] = everPredicates[u]
        /\ committedInserts[commitSeq[u]] = everInserts[u]
    BY <1>0 DEF IInv, RetainedForActive, IsActive
  <2>2. commitSeq[u] \in CommitSeqs /\ commitSeq[u] > snapshotMaxCommitSeq[t]
    BY DEF IInv, Lifecycle, CommittedDuring, TypeOK, CommitSeqs
  <2>3. /\ activeReads[t] = everReads[t] /\ activeWrites[t] = everWrites[t]
        /\ activePredicateReads[t] = everPredicates[t] /\ activeInserts[t] = everInserts[t]
    BY <1>0 DEF IInv, ActiveIsHistory, IsActive
  <2> QED
    BY SMTT(30), <2>1, <2>2, <2>3 DEF CommitTxn, IsSerializable, Conflict
<1> QED
  BY <1>1, <1>2, <1>3, <1>4, <1>5, NewCommitPreserves

LEMMA AutocommitPreserves ==
  ASSUME IInv, NEW ks \in SUBSET Keys, NEW is \in SUBSET Images, Autocommit(ks, is)
  PROVE  IInv'
<1> DEFINE seq == nextCommitSeq + 1
<1>a. PICK t \in TxnIds : t = nextId
  BY MaxTxnsAssumption DEF IInv, Autocommit, TypeOK, TxnIds
<1>0. t = nextId /\ t \in TxnIds /\ state[t] = "Unborn"
  BY <1>a, MaxTxnsAssumption DEF IInv, TypeOK, TxnIds, Lifecycle
<1>1. seq \in CommitSeqs
  BY SMTT(30), <1>0, SequenceLeft DEF IInv
<1>2. TypeOK'
  <2>1. /\ committedWriteSets' \in [CommitSeqs -> SUBSET Keys]
        /\ committedPredicateReads' \in [CommitSeqs -> SUBSET Predicates]
        /\ committedInserts' \in [CommitSeqs -> SUBSET Images]
    BY PruneType, ZenonT(30) DEF IInv, Autocommit, TypeOK
  <2>2. /\ nextCommitSeq' \in 0..MaxTxns /\ nextId' \in 1..(MaxTxns + 1)
        /\ seq \in 0..MaxTxns
    BY <1>1, MaxTxnsAssumption DEF IInv, TypeOK, Autocommit, CommitSeqs
  <2>3. /\ state' \in [TxnIds -> States] /\ commitSeq' \in [TxnIds -> 0..MaxTxns]
        /\ snapshotMaxCommitSeq' \in [TxnIds -> 0..MaxTxns]
    BY <2>2, ZenonT(30) DEF IInv, TypeOK, States, Autocommit
  <2>4. everWrites' \in [TxnIds -> SUBSET Keys] /\ everInserts' \in [TxnIds -> SUBSET Images]
    BY ZenonT(30) DEF IInv, Autocommit, TypeOK
  <2> QED BY <2>1, <2>2, <2>3, <2>4 DEF IInv, Autocommit, TypeOK, actives
<1>3. ActiveIsHistory'
  BY SMTT(30), <1>0 DEF IInv, Autocommit, ActiveIsHistory, IsActive, TypeOK, actives
<1>4. NewCommit(t)
  <2>1. \A s \in CommitSeqs \ {seq} :
          /\ committedWriteSets'[s] = PruneSets(committedWriteSets)[s]
          /\ committedPredicateReads'[s] = PruneSets(committedPredicateReads)[s]
          /\ committedInserts'[s] = PruneSets(committedInserts)[s]
    BY SMTT(30), <1>1, PruneType DEF IInv, Autocommit, TypeOK
  <2>2. everWrites'[t] = ks /\ everPredicates'[t] = {} /\ everInserts'[t] = is
    BY <1>0 DEF IInv, Autocommit, TypeOK, ActiveIsHistory
  <2>3. committedPredicateReads[seq] = {}
    BY <1>1 DEF IInv, Provenance, Empty, Lifecycle, TypeOK
  <2>4. committedPredicateReads'[seq] = {}
    BY <1>1, <2>3, PruneFacts DEF Autocommit
  <2>5. committedWriteSets'[seq] = ks /\ committedInserts'[seq] = is
    BY <1>1, PruneType, ZenonT(30) DEF IInv, Autocommit, TypeOK
  <2>6. snapshotMaxCommitSeq'[t] \in 0..nextCommitSeq
    BY <1>0 DEF IInv, Autocommit, TypeOK
  <2>7. \A u \in TxnIds : u # t =>
          /\ snapshotMaxCommitSeq'[u] = snapshotMaxCommitSeq[u]
          /\ everReads'[u] = everReads[u] /\ everWrites'[u] = everWrites[u]
          /\ everPredicates'[u] = everPredicates[u] /\ everInserts'[u] = everInserts[u]
    BY <1>0 DEF IInv, Autocommit, TypeOK
  <2> QED
    BY SMTT(30), <1>0, <2>1, <2>2, <2>4, <2>5, <2>6, <2>7 DEF NewCommit, Autocommit
<1>5. \A u \in TxnIds : state'[u] = "Unborn" <=> u >= nextId'
  BY <1>0 DEF IInv, Autocommit, Lifecycle, TypeOK, TxnIds
<1>6. \A u \in TxnIds : state[u] = "Committed" /\ commitSeq[u] > snapshotMaxCommitSeq'[t]
                        => ~Conflict(t, u)'
  BY SMTT(30), <1>0 DEF IInv, Autocommit, Lifecycle, TypeOK
<1> QED
  BY <1>0, <1>2, <1>3, <1>4, <1>5, <1>6, NewCommitPreserves

-----------------------------------------------------------------------------
(* The theorems.                                                           *)

LEMMA InitInvariant == Init => IInv
<1> SUFFICES ASSUME Init PROVE IInv
  OBVIOUS
<1>1. TypeOK
  BY MaxTxnsAssumption DEF Init, TypeOK, Nothing, States, CommitSeqs, TxnIds
<1>2. Lifecycle
  BY DEF Init, Lifecycle, TxnIds
<1>3. SeqCount
  <2>1. CommittedTxns = {}
    BY DEF Init, CommittedTxns
  <2> QED BY <2>1, FS_EmptySet DEF Init, SeqCount
<1> QED
  BY <1>1, <1>2, <1>3 DEF Init, IInv, ActiveIsHistory, Provenance, Empty, RetainedForActive,
     SerializableInCommitOrder, RefusedOnlyOnConflict, RetainedSetsAreNeeded, Nothing,
     CommittedDuring, IsActive, TxnIds, CommitSeqs

LEMMA StepInvariant == IInv /\ [Next]_vars => IInv'
<1> SUFFICES ASSUME IInv, [Next]_vars PROVE IInv'
  OBVIOUS
<1>1. CASE Begin
  BY <1>1, BeginPreserves
<1>2. ASSUME NEW t \in TxnIds, NEW k \in Keys, RecordRead(t, k) PROVE IInv'
  BY <1>2, RecordReadPreserves
<1>3. ASSUME NEW t \in TxnIds, NEW k \in Keys, RecordWrite(t, k) PROVE IInv'
  BY <1>3, RecordWritePreserves
<1>4. ASSUME NEW t \in TxnIds, NEW p \in Predicates, RecordPredicateRead(t, p) PROVE IInv'
  BY <1>4, RecordPredicateReadPreserves
<1>5. ASSUME NEW t \in TxnIds, NEW i \in Images, RecordInsert(t, i) PROVE IInv'
  BY <1>5, RecordInsertPreserves
<1>6. ASSUME NEW t \in TxnIds, RollbackTxn(t) PROVE IInv'
  BY <1>6, RollbackTxnPreserves
<1>7. ASSUME NEW t \in TxnIds, CommitTxn(t) PROVE IInv'
  BY <1>7, CommitTxnPreserves
<1>8. ASSUME NEW t \in TxnIds, CommitRefused(t) PROVE IInv'
  BY <1>8, CommitRefusedPreserves
<1>9. ASSUME NEW ks \in SUBSET Keys, NEW is \in SUBSET Images, Autocommit(ks, is) PROVE IInv'
  BY <1>9, AutocommitPreserves
<1>10. CASE UNCHANGED vars
  <2>1. CommittedTxns' = CommittedTxns
    BY <1>10 DEF CommittedTxns, vars, records
  <2>2. /\ nextId' = nextId /\ nextCommitSeq' = nextCommitSeq /\ state' = state
        /\ commitSeq' = commitSeq /\ snapshotMaxCommitSeq' = snapshotMaxCommitSeq
        /\ refused' = refused
    BY <1>10 DEF vars, counters, records
  <2>3. /\ activeReads' = activeReads /\ activeWrites' = activeWrites
        /\ activePredicateReads' = activePredicateReads /\ activeInserts' = activeInserts
    BY <1>10 DEF vars, actives
  <2>4. /\ committedWriteSets' = committedWriteSets
        /\ committedPredicateReads' = committedPredicateReads
        /\ committedInserts' = committedInserts
    BY <1>10 DEF vars, retained
  <2>5. /\ everReads' = everReads /\ everWrites' = everWrites
        /\ everPredicates' = everPredicates /\ everInserts' = everInserts
    BY <1>10 DEF vars, history
  <2>6. TypeOK'
    BY <2>2, <2>3, <2>4, <2>5, ZenonT(30) DEF IInv, TypeOK
  <2>7. Lifecycle' /\ SeqCount'
    BY <2>1, <2>2, ZenonT(30) DEF IInv, Lifecycle, SeqCount
  <2>8. ActiveIsHistory'
    BY <2>2, <2>3, <2>5, ZenonT(30) DEF IInv, ActiveIsHistory, IsActive
  <2>9. Provenance'
    BY <2>2, <2>4, <2>5, ZenonT(30) DEF IInv, Provenance, Empty
  <2>10. RetainedForActive' /\ RetainedSetsAreNeeded'
    BY <2>2, <2>4, <2>5, ZenonT(30) DEF IInv, RetainedForActive, RetainedSetsAreNeeded,
       CommittedDuring, IsActive
  <2>11. SerializableInCommitOrder' /\ RefusedOnlyOnConflict'
    BY <2>2, <2>5, ZenonT(30) DEF IInv, SerializableInCommitOrder, RefusedOnlyOnConflict,
       CommittedDuring, Conflict
  <2> QED
    BY <2>6, <2>7, <2>8, <2>9, <2>10, <2>11 DEF IInv
<1> QED
  BY <1>1, <1>2, <1>3, <1>4, <1>5, <1>6, <1>7, <1>8, <1>9, <1>10 DEF Next

(* The inductive invariant holds in every reachable state.                 *)
THEOREM Invariance == Spec => []IInv
BY InitInvariant, StepInvariant, PTL DEF Spec

(* The manager's maps keep their types, and commit sequences stay within   *)
(* the number of transactions.                                             *)
THEOREM TypeCorrect == Spec => []TypeOK
<1>1. IInv => TypeOK
  BY DEF IInv
<1> QED
  BY <1>1, Invariance, PTL

(* Backward validation at commit makes the commit order a serialization    *)
(* order: no committed transaction read, wrote or probed anything that a   *)
(* transaction committing between its snapshot and its commit changed.     *)
THEOREM Serializability == Spec => []SerializableInCommitOrder
<1>1. IInv => SerializableInCommitOrder
  BY DEF IInv
<1> QED
  BY <1>1, Invariance, PTL

(* pruneCommittedConflictSets never drops a set that the validation of an  *)
(* active transaction still needs.                                         *)
THEOREM PruneIsSound == Spec => []RetainedForActive
<1>1. IInv => RetainedForActive
  BY DEF IInv
<1> QED
  BY <1>1, Invariance, PTL

(* SerializationFailure is thrown only for a conflict with a transaction   *)
(* that committed during the refused one.                                  *)
THEOREM RefusalsAreJustified == Spec => []RefusedOnlyOnConflict
<1>1. IInv => RefusedOnlyOnConflict
  BY DEF IInv
<1> QED
  BY <1>1, Invariance, PTL

(* pruneCommittedConflictSets drops every set that no active transaction   *)
(* needs, except the one attached to the newest commit.                    *)
THEOREM PruneIsComplete == Spec => []RetainedSetsAreNeeded
<1>1. IInv => RetainedSetsAreNeeded
  BY DEF IInv
<1> QED
  BY <1>1, Invariance, PTL

=============================================================================
