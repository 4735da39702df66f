----------------------------- MODULE DdlReplay -----------------------------
(***************************************************************************)
(* The life of one DDL statement as text.  Parser reads what the user      *)
(* wrote, CatalogEngine executes the command and logs it as text; after a  *)
(* crash recoverFromWal reads the text again, or SAVE DATABASE writes what *)
(* the table keeps as text (its CHECK constraints, an index definition),   *)
(* possibly after RENAME COLUMN, and LOAD or recovery reads that.  A text  *)
(* that cannot be read makes recoverFromWal drop the database.             *)
(***************************************************************************)
EXTENDS DdlParser

CONSTANTS Sources,   \* the statements users write
          NewWords   \* names for RENAME COLUMN

VARIABLES
  stage,    \* what became of the statement
  text,     \* the text in hand: typed, logged or saved
  command,  \* the command that was executed
  kept,     \* what the table keeps: checks and index definitions
  outcome   \* what recovery or LOAD reads

replayVars == <<stage, text, command, kept, outcome>>

Move(from, to) == stage \in from /\ stage' = to

(* The CHECK constraints or the index a command creates.                   *)
KeptOf(c) ==
  [checks  |-> IF c.kind = "CREATE TABLE" THEN c.checks ELSE <<>>,
   indexes |-> IF c.kind = "CREATE INDEX" THEN <<IndexDefinition(c.columns, c.expression)>>
               ELSE <<>>]

ExecuteStatement ==
  /\ Move({"typed"}, "executed")
  /\ LET parsed == ParseStatement(text) IN
     /\ parsed.at # 0
     /\ command' = parsed.got
     /\ text' = LoggedText(parsed.got)
     /\ kept' = KeptOf(parsed.got)
  /\ UNCHANGED outcome

RefuseStatement ==
  /\ Move({"typed"}, "refused")
  /\ ParseStatement(text).at = 0
  /\ UNCHANGED <<text, command, kept, outcome>>

(* recoverFromWal.                                                         *)
ReplayStatement ==
  /\ Move({"executed"}, "replayed")
  /\ outcome' = ParseStatement(text)
  /\ UNCHANGED <<text, command, kept>>

RenameWord(word, old, new) == IF word = old THEN new ELSE word

(* renameCheckColumn.                                                      *)
RECURSIVE RenameCheckColumn(_, _, _)
RenameCheckColumn(p, old, new) ==
  IF p.kind \in {"AND", "OR"}
    THEN [p EXCEPT !.left = RenameCheckColumn(@, old, new), !.right = RenameCheckColumn(@, old, new)]
    ELSE [p EXCEPT !.column = RenameWord(@, old, new), !.rhsColumn = RenameWord(@, old, new)]

RenameIndexColumn(d, old, new) ==
  [columns |-> [i \in DOMAIN d.columns |-> RenameWord(d.columns[i], old, new)],
   expression |-> IF d.expression = Nothing THEN Nothing
                  ELSE [d.expression EXCEPT !.column = RenameWord(@, old, new)]]

KeptColumns ==
  UNION ({CheckColumns(check) : check \in Range(kept.checks)} \cup
         {Range(d.columns) : d \in Range(kept.indexes)})

RenameKeptColumn ==
  /\ Move({"executed"}, "renamed")
  /\ \E old \in KeptColumns, new \in NewWords :
       kept' = [checks  |-> [i \in DOMAIN kept.checks |->
                               RenameCheckColumn(kept.checks[i], old, new)],
                indexes |-> [i \in DOMAIN kept.indexes |->
                               RenameIndexColumn(kept.indexes[i], old, new)]]
  /\ UNCHANGED <<text, command, outcome>>

(* SAVE DATABASE empties the log: from here only the snapshot counts.      *)
SaveKept ==
  /\ Move({"executed", "renamed"}, "saved")
  /\ kept.checks \o kept.indexes # <<>>
  /\ text' = [checks  |-> [i \in DOMAIN kept.checks |-> CheckConstraintLiteral(kept.checks[i])],
              indexes |-> [i \in DOMAIN kept.indexes |->
                             EncodeIndexDefinitionColumns(kept.indexes[i].columns,
                                                          kept.indexes[i].expression)]]
  /\ UNCHANGED <<command, kept, outcome>>

LoadKept ==
  /\ Move({"saved"}, "loaded")
  /\ outcome' = [checks  |-> [i \in DOMAIN text.checks |->
                                ParseCheckConstraintExpression(text.checks[i]).got],
                 indexes |-> [i \in DOMAIN text.indexes |->
                                DecodeIndexDefinitionColumns(text.indexes[i]).got]]
  /\ UNCHANGED <<text, command, kept>>

ReplayInit ==
  /\ stage = "typed"
  /\ text \in Sources
  /\ command = Nothing /\ kept = Nothing /\ outcome = Nothing

ReplayNext ==
  \/ ExecuteStatement \/ RefuseStatement \/ ReplayStatement
  \/ RenameKeptColumn \/ SaveKept \/ LoadKept

-----------------------------------------------------------------------------
(* Which texts carry their meaning                                         *)

(* Six digits and no exponent are enough.                                  *)
IsShort(value) ==
  value.type = "DOUBLE" => /\ Width(value.digits) <= 6
                           /\ ~InExponentForm(value.digits, value.exp)

RECURSIVE Literals(_)
Literals(p) ==
  IF p.kind \in {"AND", "OR"} THEN Literals(p.left) \cup Literals(p.right) ELSE {p.value}

ChecksAreShort(checks) == \A check \in Range(checks) : \A v \in Literals(check) : IsShort(v)

(* The literal of an expression is an int or NULL, or a short double with  *)
(* a fraction.                                                             *)
ExpressionIsShort(e) ==
  /\ e.literal.type # "STRING"
  /\ IsShort(e.literal)
  /\ e.literal.type = "DOUBLE" => e.literal.exp < 0

LoggedTextIsExact(c) ==
  CASE c.kind = "CREATE TABLE" -> ChecksAreShort(c.checks)
    [] c.kind = "ADD" -> \A v \in Range(c.default) : IsShort(v)
    [] c.kind = "CREATE INDEX" /\ c.expression # Nothing -> ExpressionIsShort(c.expression)
    [] OTHER -> TRUE

RECURSIVE Comparisons(_)
Comparisons(p) ==
  IF p.kind \in {"AND", "OR"} THEN Comparisons(p.left) \cup Comparisons(p.right) ELSE {p}

(* In a snapshot strings in expressions and mantissas with a point survive.*)
SavedExpressionIsExact(e) ==
  e.literal.type = "DOUBLE" =>
    /\ Width(e.literal.digits) <= 6
    /\ IF InExponentForm(e.literal.digits, e.literal.exp) THEN Width(e.literal.digits) > 1
       ELSE e.literal.exp < 0

SavedTextIsExact ==
  /\ ChecksAreShort(kept.checks)
  /\ \A check \in Range(kept.checks) : \A p \in Comparisons(check) :
       p.column # "EXISTS" /\ p.rhsColumn # "NULL"
  /\ \A d \in Range(kept.indexes) : d.expression # Nothing => SavedExpressionIsExact(d.expression)

-----------------------------------------------------------------------------
(* Properties                                                              *)

(* Recovery executes the command that was logged (createTableSql,          *)
(* alterTableSql, createIndexSql; Parser::parse), whichever way the user   *)
(* wrote it, unless it holds a double of more than six digits or one that  *)
(* is written with an exponent, or an index expression with a double       *)
(* without fraction or a string: then another command or none.             *)
ReplayIsExact == stage = "replayed" => (outcome.got = command <=> LoggedTextIsExact(command))

(* A snapshot gives back the CHECK constraints and index definitions of    *)
(* the table (checkConstraintLiteral, encodeIndexDefinitionColumns), with  *)
(* the same exceptions but for some expression literals, and but for a     *)
(* CHECK over a column that was renamed to EXISTS, or to NULL where it is  *)
(* the right side of a comparison.                                         *)
LoadIsExact == stage = "loaded" => (outcome = kept <=> SavedTextIsExact)

=============================================================================
