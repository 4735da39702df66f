------------------------- MODULE ExecutorStatements -------------------------
(***************************************************************************)
(* The statements that the models of the executor tell apart, and what     *)
(* execute() returns for them.                                             *)
(***************************************************************************)
EXTENDS Sequences

(* Statements.  A parameter is a value of UPDATE that EXECUTE gives.       *)
Parameter == "?"
Select == [kind |-> "Select"]
Update(value) == [kind |-> "Update", value |-> value]
Begin == [kind |-> "Begin"]
Commit == [kind |-> "Commit"]
Rollback == [kind |-> "Rollback"]
Prepare(name, stored) == [kind |-> "Prepare", name |-> name, stored |-> stored]
Execute(name, parameters) == [kind |-> "Execute", name |-> name, parameters |-> parameters]

(* Results                                                                 *)
Ok == [kind |-> "Ok"]
Refused == [kind |-> "Refused"]
Answer(rows) == [kind |-> "Answer", rows |-> rows]

IsReadOnly(s) == s.kind = "Select"

Arity(s) == IF s.kind = "Update" /\ s.value = Parameter THEN 1 ELSE 0

(* bindQueryParameters, with as many parameters as there are slots.        *)
BindQueryParameters(s, parameters) ==
  IF Arity(s) = 1 THEN Update(parameters[1]) ELSE s

=============================================================================
