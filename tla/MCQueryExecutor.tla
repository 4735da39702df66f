-------------------------- MODULE MCQueryExecutor --------------------------
(* Model-checking instance of QueryExecutor.                               *)
EXTENDS QueryExecutor

StatementSet ==
  {Select, Update(1), Begin, Commit, Rollback,
   Prepare("p", Update(Parameter)), Prepare("p", Select),
   Prepare("q", Execute("p", <<>>)), Prepare("p", Execute("q", <<>>)),
   Execute("p", <<2>>), Execute("q", <<>>)}

=============================================================================
