---------------------------- MODULE MCDurability ----------------------------
(* Model-checking instances of Durability.                                 *)
EXTENDS Durability

Workload(st, txn, points, max) ==
  [statements |-> st, inTxn |-> txn, crashPoints |-> points, maxCrashes |-> max,
   faults |-> {}, maxFaults |-> 0, maxRenames |-> 1]
Failing(w, kinds) == [w EXCEPT !.faults = kinds, !.maxFaults = 1]

(* Crashes anywhere, among autocommits, transactions of DML and one SAVE.  *)
Crashes == Workload(Commands \cup {"SaveDatabase", "Begin"}, Dml, {"idle", "disk", "torn"}, 1)

(* Restarts, with tables created and filled in one transaction.            *)
Restarts ==
  Workload(Commands \cup {"DropDatabase", "Begin"}, Dml \cup {"CreateTable"}, {"idle"}, 2)

(* Transactions of every kind of statement but RENAME, SAVE and LOAD in    *)
(* them, without crashes.                                                  *)
Rollbacks ==
  Workload({"Begin", "LoadDatabase", "SaveDatabase", "Insert"},
           (Commands \ {"RenameTable"}) \cup {"SaveDatabase", "LoadDatabase"}, {}, 0)

(* A table renamed between the DML of a transaction, and restarts.         *)
Renames == Workload({"Begin"}, Dml \cup {"RenameTable"}, {"idle"}, 1)

(* A COMMIT of DML that cannot open the log is repeated or rolled back.    *)
FailedCommits == Failing(Workload({"Begin", "Insert"}, Dml, {"idle", "disk"}, 1), {"open"})

Durable == {Crashes, Restarts, Rollbacks, Renames, FailedCommits}

SavesTwice == {Workload({"Insert", "SaveDatabase"}, {}, {"disk"}, 1)}
MixedCommit == {Workload({"Begin"}, {"Insert", "CreateTable"}, {"disk"}, 1)}
RenamedTwice ==
  {[Workload({"Begin"}, {"Insert", "RenameTable"}, {}, 0) EXCEPT !.maxRenames = 2]}
RenameAfterDdl == {Workload({"Begin"}, {"RenameTable", "AlterTable"}, {"idle"}, 1)}
RepeatedDdl == {Failing(Workload({"Begin"}, {"CreateTable"}, {"idle"}, 1), {"open"})}
FailedSync == {Failing(Workload({"Begin"}, {"Insert"}, {"idle"}, 1), {"sync"})}
TornThenRestart == {Workload({"Insert"}, {}, {"idle", "torn"}, 2)}

=============================================================================
