------------------------- MODULE QueryExecutorProofs -------------------------
(***************************************************************************)
(* Concurrent calls of execute() are atomic, for any number of clients,    *)
(* rows and calls and any statements: QueryExecutor implements             *)
(* AtomicExecutor.                                                         *)
(*                                                                         *)
(* The inductive invariant says who holds the lock (LockInv), what a       *)
(* reader has read so far (ReadInv), and how far a writer has got          *)
(* (WriteInv).  A row that is written or undone leaves what the undo log   *)
(* leads back to (UndoneByWrite, UndoneByUndo), so that only the step that *)
(* releases the lock changes what AtomicExecutor sees.                     *)
(***************************************************************************)
EXTENDS QueryExecutor, VectorsProofs

LogInv ==
  /\ undoLog \in Seq(Range(undoLog))
  /\ \A i \in DOMAIN undoLog : undoLog[i].row \in Rows

TypeInv ==
  /\ table = [row \in Rows |-> table[row]]
  /\ settled = [row \in Rows |-> settled[row]]
  /\ active \in BOOLEAN
  /\ LogInv
  /\ pc \in [Clients -> {"Idle", "Find", "Finding", "Lock", "Reading", "Writing"}]
  /\ position \in [Clients -> 0..NumRows]
  /\ DOMAIN statement = Clients /\ DOMAIN seen = Clients

(* The locks are held by those who are inside, and a writer is alone.      *)
LockInv ==
  /\ readers = {c \in Clients : pc[c] \in {"Finding", "Reading"}}
  /\ writer = {c \in Clients : pc[c] = "Writing"}
  /\ \A c \in writer : readers = {} /\ writer = {c}

ReadInv ==
  \A c \in Clients : pc[c] = "Reading" =>
    IsReadOnly(statement[c]) /\ seen[c] = [i \in 1..position[c] |-> table[i]]

Untouched(c) ==
  statement[c].kind # "Update" /\ ~(statement[c] = Rollback /\ active) => table = settled

WriteInv ==
  /\ writer = {} => table = settled
  /\ \A c \in Clients : pc[c] = "Writing" =>
       /\ ~IsReadOnly(statement[c])
       /\ Untouched(c)
       /\ statement[c].kind = "Update" =>
            \A row \in Rows :
              table[row] = IF row <= position[c] THEN statement[c].value ELSE settled[row]

IInv == TypeInv /\ LockInv /\ ReadInv /\ WriteInv

-----------------------------------------------------------------------------
(* The undo log.                                                           *)

LEMMA UndoneExtend ==
  ASSUME NEW short, NEW long, NEW before, NEW after,
         Len(short) \in Nat, Len(long) = Len(short) + 1,
         DOMAIN short = 1..Len(short), DOMAIN long = 1..Len(long),
         \A i \in 1..Len(short) : long[i] = short[i],
         before[Back(long).row] = Back(long).old,
         \A q \in Rows : q # Back(long).row => before[q] = after[q]
  PROVE  Undone(before, short) = Undone(after, long)
<1> DEFINE n == Len(short)
<1>0. /\ n \in Nat /\ DOMAIN short = 1..n /\ DOMAIN long = 1..(n + 1)
      /\ \A i \in 1..n : long[i] = short[i]
      /\ before[long[n + 1].row] = long[n + 1].old
      /\ \A q \in Rows : q # long[n + 1].row => before[q] = after[q]
  BY DEF Back
<1> HIDE DEF n
<1> USE <1>0
<1> DEFINE Changes(log, q) == {i \in DOMAIN log : log[i].row = q}
           At(rows, log, q) ==
             IF Changes(log, q) = {} THEN rows[q] ELSE log[Min(Changes(log, q))].old
<1>1. ASSUME NEW q \in Rows PROVE At(before, short, q) = At(after, long, q)
  <2> DEFINE S == Changes(short, q)
             L == Changes(long, q)
  <2>1. CASE S = {}
    <3>1. CASE q = long[n + 1].row
      <4>1. L = {n + 1}
        <5>1. \A i \in 1..n : i \notin L
          BY <2>1
        <5> QED BY <3>1, <5>1
      <4>2. Min(L) = n + 1
        BY <4>1 DEF Min
      <4> QED BY <2>1, <3>1, <4>1, <4>2
    <3>2. CASE q # long[n + 1].row
      <4>1. L = {}
        BY <2>1, <3>2
      <4> QED BY <2>1, <3>2, <4>1
    <3> QED BY <3>1, <3>2
  <2>2. CASE S # {}
    <3>1. S \subseteq Nat /\ S \subseteq 1..n
      OBVIOUS
    <3>2. Min(S) \in S /\ \A y \in S : Min(S) <= y
      <4> HIDE DEF S
      <4> QED BY <2>2, <3>1, MinIsSmallest, Zenon
    <3>3. Min(S) \in L /\ \A y \in L : Min(S) <= y
      <4> DEFINE m == Min(S)
      <4>1. m \in 1..n /\ short[m].row = q /\ \A y \in S : m <= y
        BY <3>2
      <4>2. \A y \in L : y \in S \/ y = n + 1
        OBVIOUS
      <4> HIDE DEF m
      <4>3. m \in L
        BY <4>1
      <4> HIDE DEF L, S
      <4>4. \A y \in L : m <= y
        BY <4>1, <4>2
      <4> QED BY <4>3, <4>4 DEF m
    <3>4. L \subseteq Nat
      OBVIOUS
    <3>5. Min(L) = Min(S)
      <4> HIDE DEF S, L
      <4> QED BY <3>3, <3>4, MinIsUnique, Zenon
    <3>6. L # {}
      BY <3>3
    <3>7. long[Min(L)] = short[Min(S)]
      <4> HIDE DEF L
      <4> QED BY <3>1, <3>2, <3>5, Zenon
    <3> HIDE DEF S, L
    <3> QED BY <2>2, <3>6, <3>7 DEF S, L
  <2> QED BY <2>1, <2>2
<1>2. \A rows, log : Undone(rows, log) = [q \in Rows |-> At(rows, log, q)]
  BY DEF Undone
<1> HIDE DEF At
<1> QED
  BY <1>1, <1>2

LEMMA UndoneByWrite ==
  ASSUME TypeInv, NEW row \in Rows, NEW value
  PROVE  /\ table' = [table EXCEPT ![row] = value]
         /\ undoLog' = Append(undoLog, [row |-> row, old |-> table[row]])
         => Undone(table, undoLog)' = Undone(table, undoLog) /\ LogInv'
<1>1. SUFFICES ASSUME table' = [table EXCEPT ![row] = value],
                      undoLog' = Append(undoLog, [row |-> row, old |-> table[row]])
               PROVE  Undone(table, undoLog)' = Undone(table, undoLog) /\ LogInv'
  OBVIOUS
<1> DEFINE record == [row |-> row, old |-> table[row]]
           S == Range(undoLog) \cup {record}
<1>2. /\ Len(undoLog) \in Nat /\ DOMAIN undoLog = 1..Len(undoLog)
      /\ undoLog \in Seq(S)
  BY LenProperties DEF TypeInv, LogInv
<1>3. /\ undoLog' \in Seq(S) /\ Len(undoLog') = Len(undoLog) + 1
      /\ DOMAIN undoLog' = 1..Len(undoLog')
      /\ \A i \in 1..Len(undoLog) : undoLog'[i] = undoLog[i]
      /\ Back(undoLog') = record /\ Back(undoLog') = undoLog'[Len(undoLog')]
  BY <1>1, <1>2, AppendProperties, LenProperties DEF Back
<1>4. /\ table[record.row] = record.old /\ record.row \in Rows
      /\ \A q \in Rows : q # record.row => table[q] = table'[q]
  BY <1>1 DEF TypeInv
<1> HIDE DEF record, S
<1>5. Undone(table, undoLog) = Undone(table', undoLog')
  BY <1>2, <1>3, <1>4, UndoneExtend
<1>6. LogInv'
  <2>1. undoLog' \in Seq(Range(undoLog'))
    BY <1>3, SeqOverRange
  <2>2. \A i \in DOMAIN undoLog' : undoLog'[i].row \in Rows
    BY <1>2, <1>3, <1>4 DEF TypeInv, LogInv
  <2> QED BY <2>1, <2>2 DEF LogInv
<1> QED
  BY <1>5, <1>6 DEF Undone

LEMMA UndoneByUndo ==
  ASSUME TypeInv, undoLog # <<>>
  PROVE  /\ table' = [table EXCEPT ![Back(undoLog).row] = Back(undoLog).old]
         /\ undoLog' = PopBack(undoLog)
         => Undone(table, undoLog)' = Undone(table, undoLog) /\ LogInv'
<1>1. SUFFICES ASSUME table' = [table EXCEPT ![Back(undoLog).row] = Back(undoLog).old],
                      undoLog' = PopBack(undoLog)
               PROVE  Undone(table, undoLog)' = Undone(table, undoLog) /\ LogInv'
  OBVIOUS
<1>2. /\ Len(undoLog) \in Nat /\ Len(undoLog) > 0 /\ DOMAIN undoLog = 1..Len(undoLog)
      /\ undoLog \in Seq(Range(undoLog))
  BY LenProperties, EmptySeq DEF TypeInv, LogInv
<1>3. /\ undoLog' \in Seq(Range(undoLog))
      /\ Len(undoLog') \in Nat /\ Len(undoLog) = Len(undoLog') + 1
      /\ DOMAIN undoLog' = 1..Len(undoLog')
      /\ \A i \in 1..Len(undoLog') : undoLog[i] = undoLog'[i]
  BY <1>1, <1>2, SubSeqProperties, LenProperties DEF PopBack
<1>4. Back(undoLog).row \in Rows
  <2>1. Len(undoLog) \in DOMAIN undoLog
    BY <1>2
  <2> QED BY <2>1 DEF Back, TypeInv, LogInv
<1>5. /\ table'[Back(undoLog).row] = Back(undoLog).old
      /\ \A q \in Rows : q # Back(undoLog).row => table'[q] = table[q]
  BY <1>1, <1>4 DEF TypeInv
<1>6. Undone(table', undoLog') = Undone(table, undoLog)
  BY <1>2, <1>3, <1>5, UndoneExtend
<1>7. LogInv'
  <2>1. undoLog' \in Seq(Range(undoLog'))
    BY <1>3, SeqOverRange
  <2>2. \A i \in DOMAIN undoLog' : undoLog'[i].row \in Rows
    BY <1>2, <1>3 DEF TypeInv, LogInv
  <2> QED BY <2>1, <2>2 DEF LogInv
<1> QED
  BY <1>6, <1>7 DEF Undone

-----------------------------------------------------------------------------
(* Steps of a client.                                                      *)

Steps == {"Idle", "Find", "Finding", "Lock", "Reading", "Writing"}

LEMMA PhaseGoto ==
  ASSUME TypeInv, NEW c \in Clients, NEW step \in Steps, Goto(c, step)
  PROVE  /\ pc' \in [Clients -> Steps] /\ pc'[c] = step
         /\ \A d \in Clients : d # c => pc'[d] = pc[d]
         /\ Phase' = [Phase EXCEPT ![c] = PhaseAt(step)]
         /\ Phase[c] = PhaseAt(pc[c])
<1>1. pc' \in [Clients -> Steps] /\ \A d \in Clients : pc'[d] = IF d = c THEN step ELSE pc[d]
  BY DEF TypeInv, Goto, Steps
<1> HIDE DEF Goto
<1>2. Phase' = [Phase EXCEPT ![c] = PhaseAt(step)]
  BY <1>1, Zenon DEF Phase
<1> QED
  BY <1>1, <1>2 DEF Phase

(* A step that leaves the data alone: only who holds which lock matters.   *)
LEMMA SameData ==
  ASSUME IInv, UNCHANGED <<table, settled, active, undoLog>>,
         pc' \in [Clients -> Steps], position' \in [Clients -> 0..NumRows],
         DOMAIN statement' = Clients, DOMAIN seen' = Clients, LockInv', ReadInv',
         writer' = {} => table = settled,
         \A c \in Clients : pc'[c] = "Writing" =>
           /\ pc[c] # "Writing" => ~IsReadOnly(statement'[c]) /\ table = settled
           /\ pc[c] = "Writing" => statement'[c] = statement[c] /\ position'[c] = position[c]
           /\ pc[c] # "Writing" => position'[c] = 0
  PROVE  IInv' /\ Saved' = Saved
<1>1. TypeInv'
  BY DEF IInv, TypeInv, LogInv, Steps
<1>2. WriteInv'
  <2> SUFFICES ASSUME NEW c \in Clients, pc'[c] = "Writing"
               PROVE  /\ ~IsReadOnly(statement[c])'
                      /\ Untouched(c)'
                      /\ statement'[c].kind = "Update" =>
                           \A row \in Rows :
                             table'[row] = IF row <= position'[c] THEN statement'[c].value
                                           ELSE settled'[row]
    BY DEF WriteInv
  <2>1. CASE pc[c] = "Writing"
    BY <2>1 DEF IInv, WriteInv, Untouched, IsReadOnly
  <2>2. CASE pc[c] # "Writing"
    BY <2>2 DEF IInv, Untouched, IsReadOnly, Rows
  <2> QED BY <2>1, <2>2
<1>3. Saved' = Saved
  BY DEF Saved, Undone
<1> QED
  BY <1>1, <1>2, <1>3 DEF IInv

LEMMA StepOfStatement ==
  ASSUME NEW s
  PROVE  /\ StepOf(s) \in {"Find", "Lock"}
         /\ PhaseAt(StepOf(s)) = Atomic!PhaseOf(s)
         /\ PhaseAt("Idle") = "Idle" /\ PhaseAt("Find") = "Find" /\ PhaseAt("Finding") = "Find"
         /\ PhaseAt("Lock") = "Run" /\ PhaseAt("Reading") = "Run" /\ PhaseAt("Writing") = "Run"
BY DEF StepOf, PhaseAt, Atomic!PhaseOf

LEMMA CallStep ==
  ASSUME IInv, NEW c \in Clients, NEW s \in Statements, Call(c, s)
  PROVE  IInv' /\ Atomic!Next
<1>1. /\ pc[c] = "Idle" /\ statement' = [statement EXCEPT ![c] = s]
      /\ Goto(c, StepOf(s)) /\ UNCHANGED <<session, locks, position, seen, result>>
  BY DEF Call
<1>2. /\ StepOf(s) \in {"Find", "Lock"} /\ PhaseAt(StepOf(s)) = Atomic!PhaseOf(s)
      /\ PhaseAt("Idle") = "Idle"
  BY StepOfStatement
<1>3. /\ pc' \in [Clients -> Steps] /\ pc'[c] = StepOf(s)
      /\ \A d \in Clients : d # c => pc'[d] = pc[d]
      /\ Phase' = [Phase EXCEPT ![c] = PhaseAt(StepOf(s))]
      /\ Phase[c] = PhaseAt(pc[c])
  BY <1>1, <1>2, PhaseGoto DEF IInv, Steps
<1>4. LockInv' /\ ReadInv'
  BY <1>1, <1>2, <1>3 DEF IInv, TypeInv, LockInv, ReadInv, IsReadOnly, locks, session
<1>5. IInv' /\ Saved' = Saved
  BY <1>1, <1>2, <1>3, <1>4, SameData, ZenonT(30) DEF IInv, TypeInv, WriteInv, locks, session
<1>6. Atomic!Call(c, s)
  BY <1>1, <1>2, <1>3, <1>5 DEF Atomic!Call, session
<1> QED
  BY <1>5, <1>6 DEF Atomic!Next

LEMMA LockToFindStep ==
  ASSUME IInv, NEW c \in Clients, LockToFind(c)
  PROVE  IInv' /\ UNCHANGED Atomic!vars
<1>1. /\ pc[c] = "Find" /\ AcquireRead(c) /\ Goto(c, "Finding")
      /\ UNCHANGED <<session, statement, position, seen, result>>
  BY DEF LockToFind
<1>2. /\ pc' \in [Clients -> Steps] /\ pc'[c] = "Finding"
      /\ \A d \in Clients : d # c => pc'[d] = pc[d]
      /\ Phase' = [Phase EXCEPT ![c] = PhaseAt("Finding")]
      /\ Phase[c] = PhaseAt(pc[c])
  BY <1>1, PhaseGoto DEF IInv, Steps
<1>3. LockInv' /\ ReadInv'
  BY <1>1, <1>2 DEF IInv, LockInv, ReadInv, IsReadOnly, AcquireRead, session
<1>4. IInv' /\ Saved' = Saved
  BY <1>1, <1>2, <1>3, SameData DEF IInv, TypeInv, WriteInv, AcquireRead, session
<1>5. Phase' = Phase
  BY <1>1, <1>2, StepOfStatement DEF Phase
<1> QED
  BY <1>1, <1>4, <1>5 DEF Atomic!vars, session

(* The two specifications mean the same statements and results.            *)
LEMMA SameStatements ==
  /\ \A s : Atomic!IsReadOnly(s) <=> IsReadOnly(s)
  /\ \A s : Atomic!Arity(s) = Arity(s)
  /\ \A s, p : Atomic!BindQueryParameters(s, p) = BindQueryParameters(s, p)
  /\ Atomic!Begin = Begin /\ Atomic!Commit = Commit /\ Atomic!Rollback = Rollback
  /\ Atomic!Ok = Ok /\ Atomic!Refused = Refused /\ \A rows : Atomic!Answer(rows) = Answer(rows)
BY DEF Atomic!IsReadOnly, IsReadOnly, Atomic!Arity, Arity, Atomic!Parameter, Parameter,
   Atomic!BindQueryParameters, BindQueryParameters, Atomic!Update, Update, Atomic!Begin, Begin,
   Atomic!Commit, Commit, Atomic!Rollback, Rollback, Atomic!Ok, Ok, Atomic!Refused, Refused,
   Atomic!Answer, Answer

(* The abstract Find, with the same prepared statement.                    *)
LEMMA FindPreparedStep ==
  ASSUME IInv, NEW c \in Clients, FindPrepared(c)
  PROVE  IInv' /\ Atomic!Next
<1> DEFINE stored == prepared[statement[c].name]
           parameters == statement[c].parameters
           bound == BindQueryParameters(stored, parameters)
           refused == stored = NoStatement \/ Len(parameters) # Arity(stored)
           step == IF refused THEN "Idle" ELSE StepOf(bound)
<1>1. /\ pc[c] = "Finding" /\ Release(c) /\ Goto(c, step)
      /\ UNCHANGED <<session, position, seen>>
      /\ statement' = IF refused THEN statement ELSE [statement EXCEPT ![c] = bound]
      /\ result' = IF refused THEN [result EXCEPT ![c] = Refused] ELSE result
  BY DEF FindPrepared, ReleaseFound, Return
<1>2. /\ step \in {"Idle", "Find", "Lock"}
      /\ PhaseAt(step) = IF refused THEN "Idle" ELSE Atomic!PhaseOf(bound)
  BY StepOfStatement
<1> HIDE DEF step, refused, bound
<1>3. /\ pc' \in [Clients -> Steps] /\ pc'[c] = step
      /\ \A d \in Clients : d # c => pc'[d] = pc[d]
      /\ Phase' = [Phase EXCEPT ![c] = PhaseAt(step)]
      /\ Phase[c] = PhaseAt(pc[c])
  BY <1>1, <1>2, PhaseGoto DEF IInv, Steps
<1>4. DOMAIN statement' = Clients /\ \A d \in Clients : d # c => statement'[d] = statement[d]
  BY <1>1 DEF IInv, TypeInv
<1>5. LockInv' /\ ReadInv'
  BY <1>1, <1>2, <1>3, <1>4 DEF IInv, LockInv, ReadInv, Release, IsReadOnly, session
<1>6. writer' = writer
  BY <1>1 DEF IInv, LockInv, Release
<1>7. IInv' /\ Saved' = Saved
  BY <1>1, <1>2, <1>3, <1>4, <1>5, <1>6, SameData DEF IInv, TypeInv, WriteInv, session
<1>8. Atomic!Find(c)
  <2>1. Phase[c] = "Find"
    BY <1>1, <1>3, StepOfStatement
  <2>2. UNCHANGED <<settled, Saved, prepared>>
    BY <1>1, <1>7 DEF session
  <2>3. CASE refused
    <3>1. Atomic!Return(c, Refused) /\ UNCHANGED statement
      BY <1>1, <1>2, <1>3, <2>3 DEF Atomic!Return
    <3> QED BY <2>1, <2>2, <2>3, <3>1, SameStatements DEF Atomic!Find, refused
  <2>4. CASE ~refused
    <3>1. /\ statement' = [statement EXCEPT ![c] = bound]
          /\ Phase' = [Phase EXCEPT ![c] = Atomic!PhaseOf(bound)]
          /\ UNCHANGED result
      BY <1>1, <1>2, <1>3, <2>4
    <3> QED BY <2>1, <2>2, <2>4, <3>1, SameStatements, ZenonT(30) DEF Atomic!Find, refused, bound
  <2> QED BY <2>3, <2>4
<1> QED
  BY <1>7, <1>8 DEF Atomic!Next

LEMMA LockToReadStep ==
  ASSUME IInv, NEW c \in Clients, LockToRead(c)
  PROVE  IInv' /\ UNCHANGED Atomic!vars
<1>1. /\ pc[c] = "Lock" /\ IsReadOnly(statement[c]) /\ AcquireRead(c) /\ Goto(c, "Reading")
      /\ position' = [position EXCEPT ![c] = 0] /\ seen' = [seen EXCEPT ![c] = <<>>]
      /\ UNCHANGED <<session, statement, result>>
  BY DEF LockToRead
<1>2. /\ pc' \in [Clients -> Steps] /\ pc'[c] = "Reading"
      /\ \A d \in Clients : d # c => pc'[d] = pc[d]
      /\ Phase' = [Phase EXCEPT ![c] = PhaseAt("Reading")]
      /\ Phase[c] = PhaseAt(pc[c])
  BY <1>1, PhaseGoto DEF IInv, Steps
<1>3. /\ position' \in [Clients -> 0..NumRows] /\ DOMAIN seen' = Clients
      /\ position'[c] = 0 /\ seen'[c] = <<>>
      /\ \A d \in Clients : d # c => position'[d] = position[d] /\ seen'[d] = seen[d]
  BY <1>1, NumRowsAssumption DEF IInv, TypeInv
<1>4. LockInv'
  BY <1>1, <1>2 DEF IInv, LockInv, AcquireRead
<1>5. ReadInv'
  <2>1. seen'[c] = [i \in 1..position'[c] |-> table'[i]]
    BY <1>3
  <2> QED BY <1>1, <1>2, <1>3, <2>1 DEF IInv, ReadInv, IsReadOnly, session
<1>6. IInv' /\ Saved' = Saved
  BY <1>1, <1>2, <1>3, <1>4, <1>5, SameData DEF IInv, TypeInv, WriteInv, AcquireRead, session
<1>7. Phase' = Phase
  BY <1>1, <1>2, StepOfStatement DEF Phase
<1> QED
  BY <1>1, <1>6, <1>7 DEF Atomic!vars, session

LEMMA LockToWriteStep ==
  ASSUME IInv, NEW c \in Clients, LockToWrite(c)
  PROVE  IInv' /\ UNCHANGED Atomic!vars
<1>1. /\ pc[c] = "Lock" /\ AcquireWrite(c) /\ Goto(c, "Writing") /\ ~IsReadOnly(statement[c])
      /\ position' = [position EXCEPT ![c] = 0]
      /\ UNCHANGED <<session, statement, seen, result>>
  BY DEF LockToWrite
<1>2. /\ pc' \in [Clients -> Steps] /\ pc'[c] = "Writing"
      /\ \A d \in Clients : d # c => pc'[d] = pc[d]
      /\ Phase' = [Phase EXCEPT ![c] = PhaseAt("Writing")]
      /\ Phase[c] = PhaseAt(pc[c])
  BY <1>1, PhaseGoto DEF IInv, Steps
<1>3. /\ position' \in [Clients -> 0..NumRows] /\ position'[c] = 0
      /\ \A d \in Clients : d # c => position'[d] = position[d]
  BY <1>1, NumRowsAssumption DEF IInv, TypeInv
<1>4. table = settled /\ \A d \in Clients : pc[d] # "Writing" /\ pc[d] # "Reading"
  BY <1>1 DEF IInv, LockInv, WriteInv, AcquireWrite
<1>5. LockInv'
  BY <1>1, <1>2, <1>4 DEF IInv, LockInv, AcquireWrite
<1>6. ReadInv'
  BY <1>2, <1>4 DEF ReadInv
<1>7. IInv' /\ Saved' = Saved
  BY <1>1, <1>2, <1>3, <1>4, <1>5, <1>6, SameData DEF IInv, TypeInv, IsReadOnly, session
<1>8. Phase' = Phase
  BY <1>1, <1>2, StepOfStatement DEF Phase
<1> QED
  BY <1>1, <1>7, <1>8 DEF Atomic!vars, session

LEMMA ReadRowStep ==
  ASSUME IInv, NEW c \in Clients, ReadRow(c)
  PROVE  IInv' /\ UNCHANGED Atomic!vars
<1> DEFINE p == position[c]
<1>1. /\ pc[c] = "Reading" /\ p < NumRows
      /\ position' = [position EXCEPT ![c] = p + 1]
      /\ seen' = [seen EXCEPT ![c] = Append(seen[c], table[p + 1])]
      /\ UNCHANGED <<session, locks, pc, statement, result>>
  BY DEF ReadRow
<1>2. p \in Nat /\ p + 1 \in 0..NumRows /\ p + 1 \in Rows
  BY <1>1, NumRowsAssumption DEF IInv, TypeInv, Rows
<1>3. /\ position' \in [Clients -> 0..NumRows] /\ DOMAIN seen' = Clients
      /\ position'[c] = p + 1 /\ seen'[c] = Append(seen[c], table[p + 1])
      /\ \A d \in Clients : d # c => position'[d] = position[d] /\ seen'[d] = seen[d]
  BY <1>1, <1>2 DEF IInv, TypeInv
<1>4. seen'[c] = [i \in 1..(p + 1) |-> table[i]]
  <2>1. seen[c] = [i \in 1..p |-> table[i]]
    BY <1>1 DEF IInv, ReadInv
  <2> DEFINE S == {table[i] : i \in 1..(p + 1)}
  <2>2. seen[c] \in [1..p -> S] /\ table[p + 1] \in S
    BY <1>2, <2>1
  <2> HIDE DEF S, p
  <2>3. seen[c] \in Seq(S) /\ Len(seen[c]) = p
    BY <1>2, <2>2, FunctionIsSeq
  <2>4. /\ seen'[c] \in Seq(S) /\ Len(seen'[c]) = p + 1
        /\ \A i \in 1..p : seen'[c][i] = seen[c][i]
        /\ seen'[c][p + 1] = table[p + 1]
    BY <1>3, <2>2, <2>3, AppendProperties
  <2>5. seen'[c] \in [1..(p + 1) -> S]
    BY <2>4, LenProperties
  <2>6. \A i \in 1..(p + 1) : seen'[c][i] = table[i]
    BY <1>2, <2>1, <2>4
  <2> QED BY <2>5, <2>6, Zenon
<1>5. LockInv'
  BY <1>1 DEF IInv, LockInv, locks
<1>6. ReadInv'
  <2>1. table' = table /\ pc' = pc /\ statement' = statement
    BY <1>1 DEF session
  <2>2. seen'[c] = [i \in 1..position'[c] |-> table'[i]]
    BY <1>3, <1>4, <2>1
  <2> SUFFICES ASSUME NEW d \in Clients, pc[d] = "Reading"
               PROVE  /\ IsReadOnly(statement[d])
                      /\ seen'[d] = [i \in 1..position'[d] |-> table'[i]]
    BY <2>1 DEF ReadInv, IsReadOnly
  <2>3. /\ IsReadOnly(statement[d])
        /\ seen[d] = [i \in 1..position[d] |-> table[i]]
    BY DEF IInv, ReadInv
  <2>4. CASE d # c
    BY <1>3, <2>1, <2>3, <2>4
  <2> QED BY <2>2, <2>3, <2>4, Zenon
<1>7. IInv' /\ Saved' = Saved
  BY <1>1, <1>3, <1>5, <1>6, SameData DEF IInv, TypeInv, WriteInv, Steps, locks, session
<1>8. Phase' = Phase
  BY <1>1 DEF Phase
<1> QED
  BY <1>1, <1>7, <1>8 DEF Atomic!vars, session

(* The whole SELECT takes effect when it returns.                          *)
LEMMA ReturnRowsStep ==
  ASSUME IInv, NEW c \in Clients, ReturnRows(c)
  PROVE  IInv' /\ Atomic!Next
<1>1. /\ pc[c] = "Reading" /\ position[c] = NumRows /\ Goto(c, "Idle") /\ Release(c)
      /\ result' = [result EXCEPT ![c] = Answer(seen[c])]
      /\ UNCHANGED <<session, statement, position, seen>>
  BY DEF ReturnRows, Return
<1>2. /\ pc' \in [Clients -> Steps] /\ pc'[c] = "Idle"
      /\ \A d \in Clients : d # c => pc'[d] = pc[d]
      /\ Phase' = [Phase EXCEPT ![c] = PhaseAt("Idle")]
      /\ Phase[c] = PhaseAt(pc[c])
  BY <1>1, PhaseGoto DEF IInv, Steps
<1>3. LockInv' /\ ReadInv'
  BY <1>1, <1>2 DEF IInv, LockInv, ReadInv, Release, IsReadOnly, session
<1>4. writer' = writer /\ table = settled
  BY <1>1 DEF IInv, LockInv, WriteInv, Release
<1>5. IInv' /\ Saved' = Saved
  BY <1>1, <1>2, <1>3, <1>4, SameData DEF IInv, TypeInv, WriteInv, session
<1>6. seen[c] = settled /\ IsReadOnly(statement[c])
  BY <1>1, <1>4, ZenonT(30) DEF IInv, TypeInv, ReadInv, Rows
<1>7. Atomic!RunSelect(c)
  BY <1>1, <1>2, <1>5, <1>6, SameStatements, StepOfStatement, Zenon
     DEF Atomic!RunSelect, Atomic!Return, session
<1>8. Atomic!Run(c)
  BY <1>1, <1>2, <1>7, StepOfStatement DEF Atomic!Run
<1> QED
  BY <1>5, <1>8 DEF Atomic!Next

LEMMA WriterAlone ==
  ASSUME IInv, NEW c \in Clients, pc[c] = "Writing"
  PROVE  \A d \in Clients : pc[d] \notin {"Reading", "Finding"} /\ (pc[d] = "Writing" => d = c)
BY DEF IInv, LockInv

LEMMA WriteRowStep ==
  ASSUME IInv, NEW c \in Clients, WriteRow(c)
  PROVE  IInv' /\ UNCHANGED Atomic!vars
<1> DEFINE row == position[c] + 1
           value == statement[c].value
<1>1. /\ pc[c] = "Writing" /\ statement[c].kind = "Update" /\ position[c] < NumRows
      /\ UNCHANGED <<active, prepared, settled, locks, pc, statement, seen, result>>
  BY DEF WriteRow
<1>2. position' = [position EXCEPT ![c] = row] /\ table' = [table EXCEPT ![row] = value]
  BY DEF WriteRow
<1>3. undoLog' = IF active THEN Append(undoLog, [row |-> row, old |-> table[row]]) ELSE undoLog
  BY DEF WriteRow
<1>4. row \in Rows /\ row \in 0..NumRows /\ position[c] \in Nat
  BY <1>1, NumRowsAssumption DEF IInv, TypeInv, Rows
<1> HIDE DEF value, row
<1>5. LogInv' /\ (active => Undone(table, undoLog)' = Undone(table, undoLog))
  <2>1. CASE active
    BY <1>2, <1>3, <1>4, <2>1, UndoneByWrite, Zenon DEF IInv
  <2>2. CASE ~active
    BY <1>3, <2>2 DEF IInv, TypeInv, LogInv
  <2> QED BY <2>1, <2>2
<1>6. Saved' = Saved
  BY <1>1, <1>5 DEF Saved
<1>7. /\ position' \in [Clients -> 0..NumRows] /\ position'[c] = row
      /\ table' = [q \in Rows |-> table'[q]]
      /\ \A q \in Rows : table'[q] = IF q = row THEN value ELSE table[q]
  BY <1>2, <1>4 DEF IInv, TypeInv
<1>8. TypeInv'
  BY <1>1, <1>5, <1>7 DEF IInv, TypeInv
<1>9. LockInv' /\ ReadInv'
  BY <1>1, WriterAlone DEF IInv, LockInv, ReadInv, locks
<1>10. \A q \in Rows : table'[q] = IF q <= row THEN value ELSE settled[q]
  <2>1. \A q \in Rows : table[q] = IF q <= position[c] THEN value ELSE settled[q]
    BY <1>1 DEF IInv, WriteInv, value
  <2> QED BY <1>4, <1>7, <2>1 DEF Rows, row
<1>11. WriteInv'
  <2>1. writer' # {}
    BY <1>1 DEF IInv, LockInv, locks
  <2>2. \A d \in Clients : pc'[d] = "Writing" => d = c
    BY <1>1, WriterAlone
  <2>3. ~IsReadOnly(statement[c])'
    BY <1>1 DEF IsReadOnly
  <2>4. Untouched(c)'
    BY <1>1 DEF Untouched
  <2>5. \A q \in Rows : table'[q] = IF q <= position'[c] THEN statement'[c].value ELSE settled'[q]
    BY <1>1, <1>7, <1>10 DEF value
  <2> QED BY <2>1, <2>2, <2>3, <2>4, <2>5 DEF WriteInv
<1>12. Phase' = Phase
  BY <1>1 DEF Phase
<1> QED
  BY <1>1, <1>6, <1>8, <1>9, <1>11, <1>12 DEF IInv, Atomic!vars

LEMMA UndoRowStep ==
  ASSUME IInv, NEW c \in Clients, UndoRow(c)
  PROVE  IInv' /\ UNCHANGED Atomic!vars
<1>1. /\ pc[c] = "Writing" /\ statement[c] = Rollback /\ active /\ undoLog # <<>>
      /\ UNCHANGED <<active, prepared, settled, locks, pc, statement, position, seen, result>>
  BY DEF UndoRow
<1>2. /\ table' = [table EXCEPT ![Back(undoLog).row] = Back(undoLog).old]
      /\ undoLog' = PopBack(undoLog)
  BY DEF UndoRow
<1>3. LogInv' /\ Undone(table, undoLog)' = Undone(table, undoLog)
  BY <1>1, <1>2, UndoneByUndo DEF IInv
<1>4. Saved' = Saved
  BY <1>1, <1>3 DEF Saved
<1>5. table' = [q \in Rows |-> table'[q]]
  BY <1>2 DEF IInv, TypeInv
<1>6. TypeInv'
  BY <1>1, <1>3, <1>5 DEF IInv, TypeInv
<1>7. LockInv' /\ ReadInv'
  BY <1>1, WriterAlone DEF IInv, LockInv, ReadInv, locks
<1>8. WriteInv'
  <2>1. writer' # {}
    BY <1>1 DEF IInv, LockInv, locks
  <2>2. \A d \in Clients : pc'[d] = "Writing" => d = c
    BY <1>1, WriterAlone
  <2>3. ~IsReadOnly(statement[c])' /\ statement'[c].kind # "Update"
    BY <1>1 DEF IsReadOnly, Rollback
  <2>4. Untouched(c)'
    BY <1>1 DEF Untouched
  <2> QED BY <2>1, <2>2, <2>3, <2>4 DEF WriteInv
<1>9. Phase' = Phase
  BY <1>1 DEF Phase
<1> QED
  BY <1>1, <1>4, <1>6, <1>7, <1>8, <1>9 DEF IInv, Atomic!vars

(* The end of a statement that wrote.                                      *)
LEMMA DoneStep ==
  ASSUME IInv, NEW c \in Clients, NEW r, pc[c] = "Writing", Done(c, r),
         active' \in BOOLEAN, LogInv'
  PROVE  /\ IInv' /\ Phase[c] = "Run" /\ table' = table /\ settled' = table
         /\ Atomic!Return(c, r) /\ UNCHANGED statement
<1>1. /\ Goto(c, "Idle") /\ result' = [result EXCEPT ![c] = r] /\ Release(c)
      /\ settled' = table /\ UNCHANGED <<table, statement, position, seen>>
  BY DEF Done, Return
<1>2. /\ pc' \in [Clients -> Steps] /\ pc'[c] = "Idle"
      /\ \A d \in Clients : d # c => pc'[d] = pc[d]
      /\ Phase' = [Phase EXCEPT ![c] = PhaseAt("Idle")]
      /\ Phase[c] = PhaseAt(pc[c])
  BY <1>1, PhaseGoto DEF IInv, Steps
<1>3. \A d \in Clients : pc'[d] \notin {"Reading", "Finding", "Writing"}
  BY <1>2, WriterAlone
<1>4. LockInv' /\ ReadInv' /\ WriteInv'
  BY <1>1, <1>3 DEF IInv, LockInv, ReadInv, WriteInv, Release
<1>5. TypeInv'
  BY <1>1, <1>2 DEF IInv, TypeInv, Steps
<1>6. Phase[c] = "Run" /\ Atomic!Return(c, r)
  BY <1>1, <1>2, StepOfStatement, Zenon DEF Atomic!Return
<1> QED
  BY <1>1, <1>4, <1>5, <1>6 DEF IInv

LEMMA UndoneNothing ==
  ASSUME TypeInv
  PROVE  Undone(table, <<>>) = table
BY DEF TypeInv, Undone

LEMMA EmptyLog ==
  ASSUME undoLog' = <<>>
  PROVE  LogInv'
BY DEF LogInv

LEMMA Kinds ==
  /\ Begin.kind # "Update" /\ Commit.kind # "Update" /\ Rollback.kind # "Update"
  /\ Rollback # Begin /\ Rollback # Commit /\ Rollback.kind # "Prepare"
BY DEF Begin, Commit, Rollback

LEMMA NothingWritten ==
  ASSUME IInv, NEW c \in Clients, pc[c] = "Writing", statement[c].kind # "Update",
         statement[c] # Rollback \/ ~active
  PROVE  table = settled
BY DEF IInv, WriteInv, Untouched

LEMMA EndUpdateStep ==
  ASSUME IInv, NEW c \in Clients, EndUpdate(c)
  PROVE  IInv' /\ Atomic!Next
<1>1. /\ pc[c] = "Writing" /\ statement[c].kind = "Update" /\ position[c] = NumRows
      /\ Done(c, Ok) /\ UNCHANGED <<active, undoLog, prepared>>
  BY DEF EndUpdate
<1>2. /\ IInv' /\ Phase[c] = "Run" /\ table' = table /\ settled' = table
      /\ Atomic!Return(c, Ok) /\ UNCHANGED statement
  BY <1>1, DoneStep DEF IInv, TypeInv, LogInv
<1>3. table = [row \in Rows |-> statement[c].value]
  BY <1>1 DEF IInv, TypeInv, WriteInv, Rows
<1>4. Saved' = Saved
  BY <1>1, <1>2 DEF Saved, Undone
<1>5. Atomic!RunUpdate(c)
  BY <1>1, <1>2, <1>3, <1>4, SameStatements, ZenonT(30) DEF Atomic!RunUpdate
<1> QED
  BY <1>2, <1>5 DEF Atomic!Next, Atomic!Run

LEMMA ExecuteBeginStep ==
  ASSUME IInv, NEW c \in Clients, ExecuteBegin(c)
  PROVE  IInv' /\ Atomic!Next
<1> DEFINE r == IF active THEN Refused ELSE Ok
<1>1. /\ pc[c] = "Writing" /\ statement[c] = Begin /\ Done(c, r)
      /\ active' = TRUE /\ undoLog' = (IF active THEN undoLog ELSE <<>>) /\ UNCHANGED prepared
  BY DEF ExecuteBegin
<1>2. LogInv'
  <2>1. CASE active
    BY <1>1, <2>1 DEF IInv, TypeInv, LogInv
  <2>2. CASE ~active
    BY <1>1, <2>2, EmptyLog
  <2> QED BY <2>1, <2>2
<1>3. /\ IInv' /\ Phase[c] = "Run" /\ table' = table /\ settled' = table
      /\ Atomic!Return(c, r) /\ UNCHANGED statement
  BY <1>1, <1>2, DoneStep
<1>4. table = settled
  BY <1>1, Kinds, NothingWritten
<1>5. CASE active
  <2>1. Saved' = Saved /\ Saved # {}
    BY <1>1, <1>3, <1>5, ZenonT(30) DEF Saved, Undone
  <2> QED
    BY <1>1, <1>3, <1>4, <1>5, <2>1, SameStatements, ZenonT(30)
       DEF Atomic!RunBegin, Atomic!Run, Atomic!Next
<1>6. CASE ~active
  <2>1. Saved = {} /\ Saved' = {table}
    BY <1>1, <1>3, <1>6, UndoneNothing, ZenonT(30) DEF Saved, IInv
  <2> QED
    BY <1>1, <1>3, <1>4, <1>6, <2>1, SameStatements, ZenonT(30)
       DEF Atomic!RunBegin, Atomic!Run, Atomic!Next
<1> QED
  BY <1>5, <1>6

LEMMA ExecuteCommitStep ==
  ASSUME IInv, NEW c \in Clients, ExecuteCommit(c)
  PROVE  IInv' /\ Atomic!Next
<1> DEFINE r == IF active THEN Ok ELSE Refused
<1>1. /\ pc[c] = "Writing" /\ statement[c] = Commit /\ Done(c, r)
      /\ active' = FALSE /\ undoLog' = <<>> /\ UNCHANGED prepared
  BY DEF ExecuteCommit
<1>2. /\ IInv' /\ Phase[c] = "Run" /\ table' = table /\ settled' = table
      /\ Atomic!Return(c, r) /\ UNCHANGED statement
  BY <1>1, DoneStep, EmptyLog, ZenonT(30)
<1>3. table = settled /\ statement[c] # Rollback
  BY <1>1, Kinds, NothingWritten
<1>4. Saved' = {} /\ (Saved = {} <=> ~active)
  BY <1>1 DEF Saved
<1>5. Atomic!RunEnd(c)
  <2>1. CASE active
    BY <1>1, <1>2, <1>3, <1>4, <2>1, SameStatements DEF Atomic!RunEnd
  <2>2. CASE ~active
    BY <1>1, <1>2, <1>3, <1>4, <2>2, SameStatements DEF Atomic!RunEnd
  <2> QED BY <2>1, <2>2
<1> QED
  BY <1>2, <1>5 DEF Atomic!Run, Atomic!Next

(* The rows of ROLLBACK are undone: the table is that of BEGIN.            *)
LEMMA EndRollbackStep ==
  ASSUME IInv, NEW c \in Clients, EndRollback(c)
  PROVE  IInv' /\ Atomic!Next
<1> DEFINE r == IF active THEN Ok ELSE Refused
<1>1. /\ pc[c] = "Writing" /\ statement[c] = Rollback /\ (active => undoLog = <<>>)
      /\ Done(c, r) /\ active' = FALSE /\ UNCHANGED <<undoLog, prepared>>
  BY DEF EndRollback
<1>2. LogInv'
  BY <1>1 DEF IInv, TypeInv, LogInv
<1>3. /\ IInv' /\ Phase[c] = "Run" /\ table' = table /\ settled' = table
      /\ Atomic!Return(c, r) /\ UNCHANGED statement
  BY <1>1, <1>2, DoneStep, Zenon
<1>4. Saved' = {}
  BY <1>1 DEF Saved
<1>5. Atomic!RunEnd(c)
  <2>1. CASE active
    <3>1. Saved = {table}
      BY <1>1, <2>1, UndoneNothing DEF Saved, IInv
    <3> QED
      BY <1>1, <1>3, <1>4, <2>1, <3>1, SameStatements DEF Atomic!RunEnd
  <2>2. CASE ~active
    <3>1. Saved = {} /\ table = settled
      BY <1>1, <2>2, Kinds, NothingWritten DEF Saved
    <3> QED
      BY <1>1, <1>3, <1>4, <2>2, <3>1, SameStatements DEF Atomic!RunEnd
  <2> QED BY <2>1, <2>2
<1> QED
  BY <1>3, <1>5 DEF Atomic!Run, Atomic!Next

LEMMA ExecutePrepareStep ==
  ASSUME IInv, NEW c \in Clients, ExecutePrepare(c)
  PROVE  IInv' /\ Atomic!Next
<1>1. /\ pc[c] = "Writing" /\ statement[c].kind = "Prepare"
      /\ prepared' = [prepared EXCEPT ![statement[c].name] = statement[c].stored]
      /\ Done(c, Ok) /\ UNCHANGED <<active, undoLog>>
  BY DEF ExecutePrepare
<1>2. /\ IInv' /\ Phase[c] = "Run" /\ table' = table /\ settled' = table
      /\ Atomic!Return(c, Ok) /\ UNCHANGED statement
  BY <1>1, DoneStep DEF IInv, TypeInv, LogInv
<1>3. table = settled
  BY <1>1, Kinds, NothingWritten
<1>4. Saved' = Saved
  BY <1>1, <1>2 DEF Saved, Undone
<1>5. Atomic!RunPrepare(c)
  BY <1>1, <1>2, <1>3, <1>4, SameStatements DEF Atomic!RunPrepare
<1> QED
  BY <1>2, <1>5 DEF Atomic!Next, Atomic!Run

-----------------------------------------------------------------------------
(* The theorems.                                                           *)

LEMMA InitInvariant == Init => IInv /\ Atomic!Init
<1> SUFFICES ASSUME Init PROVE IInv /\ Atomic!Init
  OBVIOUS
<1>1. TypeInv
  <2>1. table = [row \in Rows |-> table[row]] /\ settled = [row \in Rows |-> settled[row]]
    BY DEF Init
  <2>2. LogInv
    BY DEF Init, LogInv
  <2>3. active \in BOOLEAN /\ DOMAIN statement = Clients /\ DOMAIN seen = Clients
    BY Zenon DEF Init
  <2>4. pc \in [Clients -> {"Idle", "Find", "Finding", "Lock", "Reading", "Writing"}]
    BY DEF Init
  <2>5. position \in [Clients -> 0..NumRows]
    BY NumRowsAssumption DEF Init
  <2> QED BY <2>1, <2>2, <2>3, <2>4, <2>5 DEF TypeInv
<1>2. LockInv /\ ReadInv /\ WriteInv
  BY DEF Init, LockInv, ReadInv, WriteInv
<1>3. Phase = [c \in Clients |-> "Idle"] /\ Saved = {}
  BY StepOfStatement DEF Init, Phase, Saved
<1>4. Atomic!Init
  BY <1>3, SameStatements DEF Init, Atomic!Init
<1> QED
  BY <1>1, <1>2, <1>4 DEF IInv

LEMMA StepRefines == IInv /\ [Next]_vars => IInv' /\ [Atomic!Next]_Atomic!vars
<1> SUFFICES ASSUME IInv, [Next]_vars PROVE IInv' /\ [Atomic!Next]_Atomic!vars
  OBVIOUS
<1>1. CASE Next
  <2>1. PICK c \in Clients : Step(c) \/ \E s \in Statements : Call(c, s)
    BY <1>1 DEF Next
  <2>2. CASE \E s \in Statements : Call(c, s)
    BY <2>2, CallStep
  <2>3. CASE LockToFind(c) \/ LockToRead(c) \/ LockToWrite(c) \/ ReadRow(c) \/ WriteRow(c)
             \/ UndoRow(c)
    BY <2>3, LockToFindStep, LockToReadStep, LockToWriteStep, ReadRowStep, WriteRowStep,
       UndoRowStep
  <2>4. CASE FindPrepared(c) \/ ReturnRows(c) \/ EndUpdate(c) \/ ExecuteBegin(c)
             \/ ExecuteCommit(c) \/ EndRollback(c) \/ ExecutePrepare(c)
    BY <2>4, FindPreparedStep, ReturnRowsStep, EndUpdateStep, ExecuteBeginStep,
       ExecuteCommitStep, EndRollbackStep, ExecutePrepareStep
  <2> QED
    BY <2>1, <2>2, <2>3, <2>4 DEF Step
<1>2. CASE UNCHANGED vars
  <2>1. IInv'
    BY <1>2 DEF vars, IInv, TypeInv, LogInv, LockInv, ReadInv, WriteInv, Untouched, IsReadOnly
  <2>2. UNCHANGED Atomic!vars
    BY <1>2 DEF vars, Atomic!vars, Saved, Phase, Undone
  <2> QED BY <2>1, <2>2
<1> QED
  BY <1>1, <1>2

(* The locks of LockManager are held exactly by the clients inside, a      *)
(* SELECT has read the rows of one table, and a statement that writes has  *)
(* written a prefix of its rows: the inductive invariant.                  *)
THEOREM ExecutorInvariance == Spec => []IInv
<1>1. Init => IInv
  BY InitInvariant
<1>2. IInv /\ [Next]_vars => IInv'
  BY StepRefines
<1> QED
  BY <1>1, <1>2, PTL DEF Spec

(* While a client writes, nobody reads, finds a prepared statement or      *)
(* writes.                                                                 *)
WriterIsAlone ==
  \A c, d \in Clients :
    pc[c] = "Writing" /\ d # c => pc[d] \notin {"Finding", "Reading", "Writing"}

(* The shared lock of SELECT and EXECUTE and the exclusive lock of the     *)
(* other statements exclude each other, for any number of threads.         *)
THEOREM WritersExclude == Spec => []WriterIsAlone
<1>1. IInv => WriterIsAlone
  BY DEF IInv, LockInv, WriterIsAlone
<1> QED
  BY <1>1, ExecutorInvariance, PTL

(* Concurrent calls of execute() take effect one at a time, each at one    *)
(* moment between its call and its return: the executor with its locks,    *)
(* its row-by-row reads and writes and its undo log implements             *)
(* AtomicExecutor.                                                         *)
THEOREM ExecutorIsAtomic == Spec => CallsAreAtomic
<1>1. Init => Atomic!Init
  BY InitInvariant
<1>2. IInv /\ [Next]_vars => [Atomic!Next]_Atomic!vars
  BY StepRefines
<1> QED
  BY <1>1, <1>2, ExecutorInvariance, PTL DEF Spec, CallsAreAtomic, Atomic!Spec

=============================================================================
