--------------------------- MODULE AtomicExecutor ---------------------------
(***************************************************************************)
(* What QueryExecutor promises to the clients that share it: a statement   *)
(* takes effect at one moment between its call and its return.  EXECUTE    *)
(* takes two: it copies the prepared statement, and runs it later.         *)
(*                                                                         *)
(* All clients share one session.  A transaction contains the statements   *)
(* of every client between BEGIN and COMMIT or ROLLBACK.                   *)
(***************************************************************************)
EXTENDS ExecutorStatements, Naturals

CONSTANTS
  Clients,      \* threads that call execute()
  Rows,         \* the rows of a table
  Statements,   \* the statements that clients call
  InitialValue, \* what the rows hold at first
  NoStatement   \* a name that was not prepared

VARIABLES
  table,      \* the contents of the rows
  saved,      \* the table at BEGIN of the open transaction, in a set
  prepared,   \* the prepared statements by name
  phase,      \* of each client: "Idle", "Find" (EXECUTE) or "Run"
  statement,  \* of each client: the statement that it runs
  result      \* of each client: what its last call returned

vars == <<table, saved, prepared, phase, statement, result>>

Names == {s.name : s \in {t \in Statements : t.kind \in {"Prepare", "Execute"}}}

PhaseOf(s) == IF s.kind = "Execute" THEN "Find" ELSE "Run"

Return(c, r) ==
  /\ phase' = [phase EXCEPT ![c] = "Idle"]
  /\ result' = [result EXCEPT ![c] = r]

Init ==
  /\ table = [row \in Rows |-> InitialValue]
  /\ saved = {}
  /\ prepared = [name \in Names |-> NoStatement]
  /\ phase = [c \in Clients |-> "Idle"]
  /\ statement = [c \in Clients |-> NoStatement]
  /\ result = [c \in Clients |-> Ok]

Call(c, s) ==
  /\ phase[c] = "Idle"
  /\ phase' = [phase EXCEPT ![c] = PhaseOf(s)]
  /\ statement' = [statement EXCEPT ![c] = s]
  /\ UNCHANGED <<table, saved, prepared, result>>

(* The statement of EXECUTE is replaced by the prepared one.               *)
Find(c) ==
  LET stored == prepared[statement[c].name]
      parameters == statement[c].parameters
      bound == BindQueryParameters(stored, parameters)
  IN /\ phase[c] = "Find"
     /\ IF stored = NoStatement \/ Len(parameters) # Arity(stored)
          THEN Return(c, Refused) /\ UNCHANGED statement
          ELSE /\ statement' = [statement EXCEPT ![c] = bound]
               /\ phase' = [phase EXCEPT ![c] = PhaseOf(bound)]
               /\ UNCHANGED result
     /\ UNCHANGED <<table, saved, prepared>>

RunSelect(c) ==
  /\ IsReadOnly(statement[c])
  /\ Return(c, Answer(table))
  /\ UNCHANGED <<table, saved, prepared>>

RunUpdate(c) ==
  /\ statement[c].kind = "Update"
  /\ table' = [row \in Rows |-> statement[c].value]
  /\ Return(c, Ok)
  /\ UNCHANGED <<saved, prepared>>

RunBegin(c) ==
  /\ statement[c] = Begin
  /\ IF saved = {} THEN saved' = {table} /\ Return(c, Ok)
     ELSE Return(c, Refused) /\ UNCHANGED saved
  /\ UNCHANGED <<table, prepared>>

RunEnd(c) ==
  /\ statement[c] \in {Commit, Rollback}
  /\ IF saved = {} THEN Return(c, Refused) /\ UNCHANGED table
     ELSE /\ Return(c, Ok)
          /\ IF statement[c] = Rollback THEN table' \in saved ELSE UNCHANGED table
  /\ saved' = {}
  /\ UNCHANGED prepared

RunPrepare(c) ==
  /\ statement[c].kind = "Prepare"
  /\ prepared' = [prepared EXCEPT ![statement[c].name] = statement[c].stored]
  /\ Return(c, Ok)
  /\ UNCHANGED <<table, saved>>

Run(c) ==
  /\ phase[c] = "Run"
  /\ RunSelect(c) \/ RunUpdate(c) \/ RunBegin(c) \/ RunEnd(c) \/ RunPrepare(c)
  /\ UNCHANGED statement

Next == \E c \in Clients : Find(c) \/ Run(c) \/ \E s \in Statements : Call(c, s)

Spec == Init /\ [][Next]_vars

=============================================================================
