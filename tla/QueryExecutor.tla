---------------------------- MODULE QueryExecutor ----------------------------
(***************************************************************************)
(* QueryExecutor::execute, called by several threads.  A SELECT holds the  *)
(* shared lock of LockManager while it reads row after row, and any other  *)
(* statement holds the exclusive lock while it writes row after row and    *)
(* logs what it undoes.  EXECUTE copies the prepared statement under the   *)
(* shared lock, releases it, and calls execute() again.                    *)
(*                                                                         *)
(* UPDATE, which sets every row of a table, stands for the statements that *)
(* change data.  With one session there is no other transaction, so that   *)
(* isSerializable() never refuses a COMMIT.                                *)
(***************************************************************************)
EXTENDS ExecutorStatements, Vectors, Integers, FiniteSets, FiniteSetsExt

CONSTANTS Clients, NumRows, Statements, InitialValue, NoStatement,
          MaxCalls    \* bound on the calls of a client

ASSUME NumRowsAssumption == NumRows \in Nat

VARIABLES
  table,      \* the rows
  active,     \* whether the session has a transaction
  undoLog,    \* the old values of rows, in the order of the changes
  prepared,   \* PreparedStatementCatalog
  readers,    \* the clients that hold the shared lock
  writer,     \* the client that holds the exclusive lock, in a set
  pc,         \* of each client: "Idle", "Find", "Finding", "Lock", "Reading", "Writing"
  statement,  \* of each client: the statement to execute
  position,   \* of each client: the rows it has read or written
  seen,       \* of each client: the values it has read
  result,     \* of each client: what the last call returned
  calls,      \* of each client: how often it called, at most MaxCalls
  settled     \* the table before the statement that writes (history)

vars == <<table, active, undoLog, prepared, readers, writer, pc, statement, position, seen, result,
          calls, settled>>

session == <<table, active, undoLog, prepared, settled>>
locks == <<readers, writer>>

Rows == 1..NumRows

(* What the UndoRecords lead back to: of each row, the old value of the    *)
(* oldest record.                                                          *)
Undone(rows, log) ==
  [row \in Rows |->
     LET changes == {i \in DOMAIN log : log[i].row = row}
     IN IF changes = {} THEN rows[row] ELSE log[Min(changes)].old]

PhaseAt(step) ==
  CASE step = "Idle" -> "Idle" [] step \in {"Find", "Finding"} -> "Find" [] OTHER -> "Run"

Saved == IF active THEN {Undone(table, undoLog)} ELSE {}

Phase == [c \in Clients |-> PhaseAt(pc[c])]

Atomic == INSTANCE AtomicExecutor WITH table <- settled, saved <- Saved, phase <- Phase

Init ==
  /\ table = [row \in Rows |-> InitialValue] /\ settled = table
  /\ active = FALSE /\ undoLog = <<>>
  /\ prepared = [name \in Atomic!Names |-> NoStatement]
  /\ readers = {} /\ writer = {}
  /\ pc = [c \in Clients |-> "Idle"]
  /\ statement = [c \in Clients |-> NoStatement]
  /\ position = [c \in Clients |-> 0]
  /\ seen = [c \in Clients |-> <<>>]
  /\ result = [c \in Clients |-> Ok]
  /\ calls = [c \in Clients |-> 0]

-----------------------------------------------------------------------------
(* LockManager                                                             *)

(* Mutant of AcquireRead: a reader does not wait for the writer.           *)
AcquireReadAtOnce(c) == readers' = readers \cup {c} /\ UNCHANGED writer

AcquireRead(c) == writer = {} /\ readers' = readers \cup {c} /\ UNCHANGED writer

AcquireWrite(c) == writer = {} /\ readers = {} /\ writer' = {c} /\ UNCHANGED readers

Release(c) == readers' = readers \ {c} /\ writer' = writer \ {c}

(* Mutant of ReleaseFound: the lock is kept until EXECUTE returns.         *)
KeepFound(c) == UNCHANGED locks

(* The lock of executePrepared ends with the block that finds the          *)
(* statement.                                                              *)
ReleaseFound(c) == Release(c)

-----------------------------------------------------------------------------

StepOf(s) == IF s.kind = "Execute" THEN "Find" ELSE "Lock"

Goto(c, step) == pc' = [pc EXCEPT ![c] = step]

Return(c, r) == Goto(c, "Idle") /\ result' = [result EXCEPT ![c] = r]

Call(c, s) ==
  /\ pc[c] = "Idle" /\ calls[c] < MaxCalls
  /\ calls' = [calls EXCEPT ![c] = @ + 1]
  /\ statement' = [statement EXCEPT ![c] = s]
  /\ Goto(c, StepOf(s))
  /\ UNCHANGED <<session, locks, position, seen, result>>

(* executePrepared, which throws without a statement or with the wrong     *)
(* number of parameters.                                                   *)
LockToFind(c) ==
  /\ pc[c] = "Find"
  /\ AcquireRead(c)
  /\ Goto(c, "Finding")
  /\ UNCHANGED <<session, statement, position, seen, result, calls>>

FindPrepared(c) ==
  /\ pc[c] = "Finding"
  /\ ReleaseFound(c)
  /\ LET stored == prepared[statement[c].name]
         parameters == statement[c].parameters
         bound == BindQueryParameters(stored, parameters)
     IN IF stored = NoStatement \/ Len(parameters) # Arity(stored)
          THEN Return(c, Refused) /\ UNCHANGED statement
          ELSE /\ statement' = [statement EXCEPT ![c] = bound]
               /\ Goto(c, StepOf(bound))
               /\ UNCHANGED result
  /\ UNCHANGED <<session, position, seen, calls>>

LockToRead(c) ==
  /\ pc[c] = "Lock" /\ IsReadOnly(statement[c])
  /\ AcquireRead(c)
  /\ Goto(c, "Reading")
  /\ position' = [position EXCEPT ![c] = 0]
  /\ seen' = [seen EXCEPT ![c] = <<>>]
  /\ UNCHANGED <<session, statement, result, calls>>

LockToWrite(c) ==
  /\ pc[c] = "Lock" /\ ~IsReadOnly(statement[c])
  /\ AcquireWrite(c)
  /\ Goto(c, "Writing")
  /\ position' = [position EXCEPT ![c] = 0]
  /\ UNCHANGED <<session, statement, seen, result, calls>>

ReadRow(c) ==
  /\ pc[c] = "Reading" /\ position[c] < NumRows
  /\ position' = [position EXCEPT ![c] = @ + 1]
  /\ seen' = [seen EXCEPT ![c] = Append(@, table[position[c] + 1])]
  /\ UNCHANGED <<session, locks, pc, statement, result, calls>>

ReturnRows(c) ==
  /\ pc[c] = "Reading" /\ position[c] = NumRows
  /\ Return(c, Answer(seen[c]))
  /\ Release(c)
  /\ UNCHANGED <<session, statement, position, seen, calls>>

(* UPDATE of a row.  Only a transaction logs what it undoes.               *)
WriteRow(c) ==
  LET row == position[c] + 1 IN
  /\ pc[c] = "Writing" /\ statement[c].kind = "Update" /\ position[c] < NumRows
  /\ position' = [position EXCEPT ![c] = row]
  /\ table' = [table EXCEPT ![row] = statement[c].value]
  /\ undoLog' = IF active THEN Append(undoLog, [row |-> row, old |-> table[row]]) ELSE undoLog
  /\ UNCHANGED <<active, prepared, settled, locks, pc, statement, seen, result, calls>>

(* executeRollback undoes the last change.                                 *)
UndoRow(c) ==
  LET record == Back(undoLog) IN
  /\ pc[c] = "Writing" /\ statement[c] = Rollback /\ active /\ undoLog # <<>>
  /\ table' = [table EXCEPT ![record.row] = record.old]
  /\ undoLog' = PopBack(undoLog)
  /\ UNCHANGED <<active, prepared, settled, locks, pc, statement, position, seen, result, calls>>

(* The statement ends, and with it the exclusive lock.                     *)
Done(c, r) ==
  /\ Return(c, r)
  /\ Release(c)
  /\ settled' = table
  /\ UNCHANGED <<table, statement, position, seen, calls>>

EndUpdate(c) ==
  /\ pc[c] = "Writing" /\ statement[c].kind = "Update" /\ position[c] = NumRows
  /\ Done(c, Ok)
  /\ UNCHANGED <<active, undoLog, prepared>>

ExecuteBegin(c) ==
  /\ pc[c] = "Writing" /\ statement[c] = Begin
  /\ Done(c, IF active THEN Refused ELSE Ok)
  /\ active' = TRUE
  /\ undoLog' = IF active THEN undoLog ELSE <<>>
  /\ UNCHANGED prepared

ExecuteCommit(c) ==
  /\ pc[c] = "Writing" /\ statement[c] = Commit
  /\ Done(c, IF active THEN Ok ELSE Refused)
  /\ active' = FALSE
  /\ undoLog' = <<>>
  /\ UNCHANGED prepared

EndRollback(c) ==
  /\ pc[c] = "Writing" /\ statement[c] = Rollback /\ (active => undoLog = <<>>)
  /\ Done(c, IF active THEN Ok ELSE Refused)
  /\ active' = FALSE
  /\ UNCHANGED <<undoLog, prepared>>

ExecutePrepare(c) ==
  /\ pc[c] = "Writing" /\ statement[c].kind = "Prepare"
  /\ prepared' = [prepared EXCEPT ![statement[c].name] = statement[c].stored]
  /\ Done(c, Ok)
  /\ UNCHANGED <<active, undoLog>>

Step(c) ==
  \/ LockToFind(c) \/ FindPrepared(c) \/ LockToRead(c) \/ LockToWrite(c)
  \/ ReadRow(c) \/ ReturnRows(c) \/ WriteRow(c) \/ UndoRow(c) \/ EndUpdate(c)
  \/ ExecuteBegin(c) \/ ExecuteCommit(c) \/ EndRollback(c) \/ ExecutePrepare(c)

Next == \E c \in Clients : Step(c) \/ \E s \in Statements : Call(c, s)

(* A thread inside execute() goes on whenever the lock lets it.  Nothing   *)
(* is assumed of the order in which std::shared_mutex lets threads in.     *)
Spec == Init /\ [][Next]_vars /\ \A c \in Clients : WF_vars(Step(c))

-----------------------------------------------------------------------------
(* Properties                                                              *)

(* Concurrent calls of execute() behave as if each took effect at one      *)
(* moment between call and return, in the one session they share: no       *)
(* SELECT sees a statement half done, a ROLLBACK restores the table of     *)
(* BEGIN whoever wrote in between, and EXECUTE runs a statement that was   *)
(* stored under its name during the call, even if a PREPARE replaces it    *)
(* before it runs.                                                         *)
CallsAreAtomic == Atomic!Spec

(* A prepared statement that is EXECUTE of itself, perhaps through others, *)
(* makes executePrepared recurse without end.                              *)
Reaches(name, depth) ==
  LET next[n \in Atomic!Names, d \in 0..depth] ==
        IF d = 0 \/ prepared[n] = NoStatement \/ prepared[n].kind # "Execute" THEN n
        ELSE next[prepared[n].name, d - 1]
  IN next[name, depth]

HasCycle ==
  \E name \in Atomic!Names :
    LET last == Reaches(name, Cardinality(Atomic!Names))
    IN prepared[last] # NoStatement /\ prepared[last].kind = "Execute"

(* Every call of execute() returns: no order of the calls makes the        *)
(* threads wait for each other, in particular not EXECUTE of a statement   *)
(* that needs the exclusive lock.  Each thread makes finitely many calls   *)
(* (MaxCalls): std::shared_mutex does not promise that a writer gets its   *)
(* turn while readers come without end.                                    *)
CallsReturn == \A c \in Clients : pc[c] # "Idle" ~> pc[c] = "Idle" \/ HasCycle

=============================================================================
