------------------------- MODULE TransactionManager -------------------------
(***************************************************************************)
(* The commit-sequence transaction manager (TransactionManager in          *)
(* src/src/transaction/transaction_manager.cpp): transaction states,       *)
(* snapshot watermarks, and serializable snapshot isolation by validating  *)
(* a committer against the conflict sets of the transactions that          *)
(* committed after its snapshot.                                           *)
(*                                                                         *)
(* A conflict key (relation and row id) is an element of Keys.  A row      *)
(* image (SsiInsert) is an element of Images, and a predicate              *)
(* (SsiPredicate) is the set of the images it matches, so that             *)
(* insertMatchesPredicate is membership.  A map entry of the code that is  *)
(* absent is an empty set here: every reader of the maps treats the two    *)
(* alike.  Commit sequence 0 stands for the missing commitSeq.             *)
(***************************************************************************)
EXTENDS Naturals

CONSTANTS Keys,        \* conflict keys
          Images,      \* row images produced by inserts and updates
          Predicates,  \* predicates, each the set of images it matches
          MaxTxns      \* bound on transaction ids, hence on commit sequences

ASSUME PredicatesAssumption == Predicates \subseteq SUBSET Images
ASSUME MaxTxnsAssumption == MaxTxns \in Nat

TxnIds == 1..MaxTxns
CommitSeqs == 1..MaxTxns
States == {"Unborn", "Active", "Committed", "RolledBack"}

VARIABLES
  nextId,                  \* next transaction id to hand out
  nextCommitSeq,           \* the last commit sequence assigned
  state,                   \* transactions_[id].state
  commitSeq,               \* transactions_[id].commitSeq
  snapshotMaxCommitSeq,    \* transactions_[id].snapshotMaxCommitSeq
  activeReads, activeWrites, activePredicateReads, activeInserts,
  committedWriteSets, committedPredicateReads, committedInserts,
  refused,                 \* transactions whose commit threw SerializationFailure
  everReads, everWrites, everPredicates, everInserts
                           \* history: all a transaction ever recorded

counters == <<nextId, nextCommitSeq>>
records == <<state, commitSeq, snapshotMaxCommitSeq>>
actives == <<activeReads, activeWrites, activePredicateReads, activeInserts>>
retained == <<committedWriteSets, committedPredicateReads, committedInserts>>
history == <<everReads, everWrites, everPredicates, everInserts>>
vars == <<counters, records, actives, retained, refused, history>>

-----------------------------------------------------------------------------

Nothing == [t \in TxnIds |-> {}]

Init ==
  /\ nextId = 1 /\ nextCommitSeq = 0
  /\ state = [t \in TxnIds |-> "Unborn"]
  /\ commitSeq = [t \in TxnIds |-> 0]
  /\ snapshotMaxCommitSeq = [t \in TxnIds |-> 0]
  /\ activeReads = Nothing /\ activeWrites = Nothing
  /\ activePredicateReads = Nothing /\ activeInserts = Nothing
  /\ committedWriteSets = Nothing
  /\ committedPredicateReads = Nothing
  /\ committedInserts = Nothing
  /\ refused = {}
  /\ everReads = Nothing /\ everWrites = Nothing
  /\ everPredicates = Nothing /\ everInserts = Nothing

IsActive(t) == state[t] = "Active"

(* Some predicate of ps matches some image of is. *)
PredicateConflictsWithInserts(ps, is) == \E p \in ps : p \cap is # {}

(* Mutants of IsSerializable: it forgets the scans of the transactions     *)
(* that committed, or it also looks at the commit its snapshot includes.   *)
IsSerializableForwardOnly(t) ==
  /\ IsActive(t)
  /\ \A s \in CommitSeqs : s > snapshotMaxCommitSeq[t] =>
       /\ (activeReads[t] \cup activeWrites[t]) \cap committedWriteSets[s] = {}
       /\ ~PredicateConflictsWithInserts(activePredicateReads[t], committedInserts[s])

IsSerializableOffByOne(t) ==
  /\ IsActive(t)
  /\ \A s \in CommitSeqs : s >= snapshotMaxCommitSeq[t] =>
       /\ (activeReads[t] \cup activeWrites[t]) \cap committedWriteSets[s] = {}
       /\ ~PredicateConflictsWithInserts(activePredicateReads[t], committedInserts[s])

(* Validation of an active transaction against every conflict set that is  *)
(* retained and was committed after its snapshot.                          *)
IsSerializable(t) ==
  /\ IsActive(t)
  /\ \A s \in CommitSeqs : s > snapshotMaxCommitSeq[t] =>
       /\ activeReads[t] \cap committedWriteSets[s] = {}
       /\ activeWrites[t] \cap committedWriteSets[s] = {}
       /\ ~PredicateConflictsWithInserts(activePredicateReads[t], committedInserts[s])
       /\ ~PredicateConflictsWithInserts(committedPredicateReads[s], activeInserts[t])

(* Mutant of Prunable: the first commit after the oldest snapshot goes.    *)
PrunableOffByOne(s) ==
  \A t \in TxnIds : state'[t] = "Active" => s <= snapshotMaxCommitSeq[t] + 1

(* The sets pruneCommittedConflictSets erases: all of them when nothing is *)
(* active, otherwise those at or below the oldest active snapshot.  It     *)
(* runs after the state change, on the new states and the new counter.     *)
Prunable(s) ==
  \/ \A t \in TxnIds : state'[t] # "Active"
  \/ /\ s <= nextCommitSeq'
     /\ \A t \in TxnIds : state'[t] = "Active" => s <= snapshotMaxCommitSeq[t]

PruneSets(map) == [s \in CommitSeqs |-> IF Prunable(s) THEN {} ELSE map[s]]

EraseActive(t) ==
  /\ activeReads' = [activeReads EXCEPT ![t] = {}]
  /\ activeWrites' = [activeWrites EXCEPT ![t] = {}]
  /\ activePredicateReads' = [activePredicateReads EXCEPT ![t] = {}]
  /\ activeInserts' = [activeInserts EXCEPT ![t] = {}]

-----------------------------------------------------------------------------
(* Operations                                                              *)

Begin ==
  /\ nextId <= MaxTxns
  /\ nextId' = nextId + 1
  /\ state' = [state EXCEPT ![nextId] = "Active"]
  /\ snapshotMaxCommitSeq' = [snapshotMaxCommitSeq EXCEPT ![nextId] = nextCommitSeq]
  /\ UNCHANGED <<nextCommitSeq, commitSeq, actives, retained, refused, history>>

(* The recording calls ignore a transaction that is not active.            *)
RecordRead(t, k) ==
  /\ IsActive(t)
  /\ activeReads' = [activeReads EXCEPT ![t] = @ \cup {k}]
  /\ everReads' = [everReads EXCEPT ![t] = @ \cup {k}]
  /\ UNCHANGED <<counters, records, activeWrites, activePredicateReads, activeInserts,
                 retained, refused, everWrites, everPredicates, everInserts>>

RecordWrite(t, k) ==
  /\ IsActive(t)
  /\ activeWrites' = [activeWrites EXCEPT ![t] = @ \cup {k}]
  /\ everWrites' = [everWrites EXCEPT ![t] = @ \cup {k}]
  /\ UNCHANGED <<counters, records, activeReads, activePredicateReads, activeInserts,
                 retained, refused, everReads, everPredicates, everInserts>>

RecordPredicateRead(t, p) ==
  /\ IsActive(t)
  /\ activePredicateReads' = [activePredicateReads EXCEPT ![t] = @ \cup {p}]
  /\ everPredicates' = [everPredicates EXCEPT ![t] = @ \cup {p}]
  /\ UNCHANGED <<counters, records, activeReads, activeWrites, activeInserts,
                 retained, refused, everReads, everWrites, everInserts>>

RecordInsert(t, i) ==
  /\ IsActive(t)
  /\ activeInserts' = [activeInserts EXCEPT ![t] = @ \cup {i}]
  /\ everInserts' = [everInserts EXCEPT ![t] = @ \cup {i}]
  /\ UNCHANGED <<counters, records, activeReads, activeWrites, activePredicateReads,
                 retained, refused, everReads, everWrites, everPredicates>>

(* Mutant of Rollback: it does not prune.                                  *)
RollbackWithoutPrune(t) ==
  /\ IsActive(t)
  /\ state' = [state EXCEPT ![t] = "RolledBack"]
  /\ EraseActive(t)
  /\ UNCHANGED <<counters, commitSeq, snapshotMaxCommitSeq, history, retained>>

Rollback(t) ==
  /\ IsActive(t)
  /\ state' = [state EXCEPT ![t] = "RolledBack"]
  /\ EraseActive(t)
  /\ UNCHANGED <<counters, commitSeq, snapshotMaxCommitSeq, history>>
  /\ committedWriteSets' = PruneSets(committedWriteSets)
  /\ committedPredicateReads' = PruneSets(committedPredicateReads)
  /\ committedInserts' = PruneSets(committedInserts)

(* An explicit ROLLBACK.                                                   *)
RollbackTxn(t) == Rollback(t) /\ UNCHANGED refused

(* commit of a transaction that validates.                                 *)
CommitTxn(t) ==
  LET seq == nextCommitSeq + 1 IN
  /\ IsSerializable(t)
  /\ nextCommitSeq' = seq
  /\ state' = [state EXCEPT ![t] = "Committed"]
  /\ commitSeq' = [commitSeq EXCEPT ![t] = seq]
  /\ UNCHANGED <<nextId, snapshotMaxCommitSeq, refused, history>>
  /\ EraseActive(t)
  /\ committedWriteSets' =
       PruneSets([committedWriteSets EXCEPT ![seq] = activeWrites[t]])
  /\ committedPredicateReads' =
       PruneSets([committedPredicateReads EXCEPT ![seq] = activePredicateReads[t]])
  /\ committedInserts' =
       PruneSets([committedInserts EXCEPT ![seq] = activeInserts[t]])

(* commit of a transaction that does not: it is rolled back and            *)
(* SerializationFailure is thrown.                                         *)
CommitRefused(t) ==
  /\ IsActive(t)
  /\ ~IsSerializable(t)
  /\ Rollback(t)
  /\ refused' = refused \cup {t}

(* An autocommit statement, which holds the executor's exclusive lock: it  *)
(* calls beginCommitted first, which prunes, and then stamps its rows with *)
(* the committed id, so that recordWrite and recordInsert attach to the    *)
(* commit that already happened.                                           *)
Autocommit(ks, is) ==
  LET seq == nextCommitSeq + 1 IN
  /\ nextId <= MaxTxns
  /\ nextId' = nextId + 1
  /\ nextCommitSeq' = seq
  /\ state' = [state EXCEPT ![nextId] = "Committed"]
  /\ commitSeq' = [commitSeq EXCEPT ![nextId] = seq]
  /\ snapshotMaxCommitSeq' = [snapshotMaxCommitSeq EXCEPT ![nextId] = nextCommitSeq]
  /\ committedWriteSets' = [PruneSets(committedWriteSets) EXCEPT ![seq] = ks]
  /\ committedPredicateReads' = PruneSets(committedPredicateReads)
  /\ committedInserts' = [PruneSets(committedInserts) EXCEPT ![seq] = is]
  /\ everWrites' = [everWrites EXCEPT ![nextId] = ks]
  /\ everInserts' = [everInserts EXCEPT ![nextId] = is]
  /\ UNCHANGED <<actives, refused, everReads, everPredicates>>

Next ==
  \/ Begin
  \/ \E t \in TxnIds :
       \/ \E k \in Keys : RecordRead(t, k) \/ RecordWrite(t, k)
       \/ \E p \in Predicates : RecordPredicateRead(t, p)
       \/ \E i \in Images : RecordInsert(t, i)
       \/ RollbackTxn(t) \/ CommitTxn(t) \/ CommitRefused(t)
  \/ \E ks \in SUBSET Keys, is \in SUBSET Images : Autocommit(ks, is)

Spec == Init /\ [][Next]_vars

-----------------------------------------------------------------------------
(* Properties                                                              *)

(* The variables hold values of their types; a transaction id is born      *)
(* before it is used and commit sequences are those handed out.            *)
TypeOK ==
  /\ nextId \in 1..(MaxTxns + 1)
  /\ nextCommitSeq \in 0..MaxTxns
  /\ state \in [TxnIds -> States]
  /\ commitSeq \in [TxnIds -> 0..MaxTxns]
  /\ snapshotMaxCommitSeq \in [TxnIds -> 0..MaxTxns]
  /\ activeReads \in [TxnIds -> SUBSET Keys]
  /\ activeWrites \in [TxnIds -> SUBSET Keys]
  /\ activePredicateReads \in [TxnIds -> SUBSET Predicates]
  /\ activeInserts \in [TxnIds -> SUBSET Images]
  /\ committedWriteSets \in [CommitSeqs -> SUBSET Keys]
  /\ committedPredicateReads \in [CommitSeqs -> SUBSET Predicates]
  /\ committedInserts \in [CommitSeqs -> SUBSET Images]
  /\ refused \in SUBSET TxnIds
  /\ everReads \in [TxnIds -> SUBSET Keys]
  /\ everWrites \in [TxnIds -> SUBSET Keys]
  /\ everPredicates \in [TxnIds -> SUBSET Predicates]
  /\ everInserts \in [TxnIds -> SUBSET Images]

(* u committed while t was running: after the snapshot t reads from.       *)
CommittedDuring(u, t) ==
  /\ state[u] = "Committed"
  /\ commitSeq[u] > snapshotMaxCommitSeq[t]

(* What makes t unable to commit after u: t read or wrote a row u wrote, a *)
(* predicate of one matches a row image of the other.                      *)
Conflict(t, u) ==
  \/ (everReads[t] \cup everWrites[t]) \cap everWrites[u] # {}
  \/ PredicateConflictsWithInserts(everPredicates[t], everInserts[u])
  \/ PredicateConflictsWithInserts(everPredicates[u], everInserts[t])

(* Commit order is a serialization order: a committed transaction          *)
(* conflicts with none of the transactions that committed between its      *)
(* snapshot and its own commit, so what it read was still current when it  *)
(* committed (write skew, lost update and insert phantoms are aborted).    *)
SerializableInCommitOrder ==
  \A t, u \in TxnIds :
    /\ state[t] = "Committed"
    /\ CommittedDuring(u, t)
    /\ commitSeq[u] < commitSeq[t]
    => ~Conflict(t, u)

(* pruneCommittedConflictSets and the moves at commit keep, for every      *)
(* active transaction, the complete conflict sets of every transaction     *)
(* that committed during it: validation never misses a conflict because a  *)
(* set was dropped too early.                                              *)
RetainedForActive ==
  \A t, u \in TxnIds :
    IsActive(t) /\ CommittedDuring(u, t) =>
      /\ committedWriteSets[commitSeq[u]] = everWrites[u]
      /\ committedPredicateReads[commitSeq[u]] = everPredicates[u]
      /\ committedInserts[commitSeq[u]] = everInserts[u]

(* A commit is refused only for a conflict with a transaction that really  *)
(* committed during it: no abort is caused by a set left over from an      *)
(* older commit or from a rolled back transaction.                         *)
RefusedOnlyOnConflict ==
  \A t \in refused : \E u \in TxnIds : CommittedDuring(u, t) /\ Conflict(t, u)

(* The retained sets do not pile up: besides the newest commit (whose set  *)
(* an autocommit attaches after its own prune), a set is kept only while   *)
(* some active transaction has a snapshot before it.                       *)
RetainedSetsAreNeeded ==
  \A s \in CommitSeqs :
    \/ s = nextCommitSeq
    \/ \E t \in TxnIds : IsActive(t) /\ snapshotMaxCommitSeq[t] < s
    \/ /\ committedWriteSets[s] = {}
       /\ committedPredicateReads[s] = {}
       /\ committedInserts[s] = {}

=============================================================================
