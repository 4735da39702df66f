-------------------------- MODULE RedoLayoutProofs --------------------------
(***************************************************************************)
(* What the heap, the log and the undo records keep besides the rows: the  *)
(* layout of a table that never rolled back, the order of the log's        *)
(* capacities, and undo records that fit the rows.  Again for the steps of *)
(* PageRedo that do not change or rebuild a page.                          *)
(***************************************************************************)
EXTENDS RedoLogProofs

(* What a table that never rolled back has besides: no row id is without   *)
(* its cell, in the table and in what the log rebuilds.                    *)
Full(L) ==
  LET n == Len(L) IN
  \A r \in 1..CapAfter(L, n) :
    /\ Placed(DirAfter(L, n), r)
    /\ r \in Range(FreeAfter(L, n)) => Cell(DirAfter(L, n), r) = NoRow

(* The slots the log with the open transaction's records knows of.         *)
SlotsLogged ==
  \A r \in DOMAIN slots :
    PageOf(r) \notin Unlogged => r \in 1..CapAfter(log \o pending, Len(log \o pending))

(* An INSERT is only refused after a rollback.                             *)
RefusalInv == rollbacks = 0 => refusal = "none"

LayoutInv ==
  /\ rollbacks \in Nat
  /\ rollbacks = 0 =>
       /\ phase # "undoing" /\ Full(log)
       /\ phase # "recovering" => Whole /\ Full(log \o pending) /\ SlotsLogged

(* What replay relies on, also after an INSERT was refused: no record of   *)
(* the log is for a table of fewer slots than the one before.              *)
IsSequence(s) == \E S : s \in Seq(S)
Sized(L) == \E S : L \in Seq(S) /\ \A x \in S : x.capacity \in Nat
Ordered(L) == \A i, j \in 1..Len(L) : i <= j => L[i].capacity <= L[j].capacity
SizeInv ==
  /\ IsSequence(slots) /\ Sized(log) /\ Sized(pending)
  /\ inTxn \/ pending = <<>>
  /\ Ordered(log \o pending)
  /\ phase # "recovering" => CapAfter(log \o pending, Len(log \o pending)) <= Len(slots)
  /\ phase = "recovering" =>
       /\ pending = <<>> /\ applied \in 0..Len(log) /\ Len(slots) = CapAfter(log, applied)

(* The undo records on a row fit together, and the last one fits the row:  *)
(* a row is inserted where there was none and then updated or deleted.     *)
Latest(s, i) == \A k \in DOMAIN s : i < k => s[k].row # s[i].row
Adjacent(s, i, j) ==
  /\ i < j /\ s[i].row = s[j].row
  /\ \A k \in DOMAIN s : i < k /\ k < j => s[k].row # s[i].row
ChainInv ==
  /\ \A i \in DOMAIN undo :
       undo[i].row \in DOMAIN slots /\ slots[undo[i].row].page = PageOf(undo[i].row)
  /\ \A i \in DOMAIN undo, r \in RowIds :
       undo[i].row = r /\ Latest(undo, i) => (undo[i].kind = "Delete" <=> Value(r) = NoRow)
  /\ \A i, j \in DOMAIN undo :
       Adjacent(undo, i, j) => (undo[i].kind = "Delete" <=> undo[j].kind = "Insert")

-----------------------------------------------------------------------------
(* The pages of a table that never rolled back.                            *)

LEMMA PrimedFull ==
  /\ Full(log)' <=> Full(log')
  /\ Full(log \o pending)' <=> Full(log' \o pending')
BY DEF Full, CapAfter, FreeAfter, DirAfter, Held, Holders, Placed, Cell, PageOf, OffsetOf

LEMMA PrimedSlots ==
  SlotsLogged' <=>
    \A r \in DOMAIN slots' :
      PageOf(r) \notin Unlogged' => r \in 1..CapAfter(log' \o pending', Len(log' \o pending'))
BY DEF SlotsLogged, CapAfter, PageOf

LEMMA LayoutNext ==
  ASSUME rollbacks' \in Nat,
         rollbacks' = 0 =>
           /\ phase' # "undoing" /\ Full(log')
           /\ phase' # "recovering" => Whole' /\ Full(log' \o pending') /\ SlotsLogged'
  PROVE  LayoutInv'
BY PrimedFull DEF LayoutInv

LEMMA SameWhole ==
  ASSUME UNCHANGED <<slots, pageDirectory>>
  PROVE  Whole' <=> Whole
BY DEF Whole, Placed, PageOf, OffsetOf, RowOf

(* A step that moves records from the transaction to the log at most.      *)
LEMMA LayoutQuiet ==
  ASSUME LayoutInv, UNCHANGED <<slots, pageDirectory, rollbacks>>,
         phase \in {"ready", "cleared"}, phase' \in {"ready", "cleared"},
         log' \o pending' = log \o pending, log' = log \/ log' = log \o pending
  PROVE  LayoutInv'
<1> SUFFICES ASSUME rollbacks' = 0
             PROVE  Full(log') /\ Whole' /\ Full(log' \o pending') /\ SlotsLogged'
  BY LayoutNext DEF LayoutInv
<1>1. Whole /\ Full(log) /\ Full(log \o pending) /\ SlotsLogged
  BY DEF LayoutInv
<1>2. Full(log') /\ Full(log' \o pending')
  BY <1>1, ZenonT(30)
<1>3. Unlogged = {} /\ Unlogged' = {}
  BY DEF Unlogged
<1>4. \A r \in DOMAIN slots : r \in 1..CapAfter(log \o pending, Len(log \o pending))
  BY <1>1, <1>3 DEF SlotsLogged
<1>5. SlotsLogged'
  BY <1>4, PrimedSlots
<1> QED
  BY <1>1, <1>2, <1>5, SameWhole

LEMMA StartStatementLayout ==
  ASSUME LayoutInv, StartStatement
  PROVE  LayoutInv'
<1>1. /\ phase = "ready" /\ phase' = "cleared"
      /\ UNCHANGED <<slots, pageDirectory, rollbacks, log, pending>>
  BY DEF StartStatement, Goto, ClearDirtyPages, heapVars, txnVars
<1> QED
  BY <1>1, LayoutQuiet

LEMMA BeginLayout ==
  ASSUME RedoInv, LayoutInv, Begin
  PROVE  LayoutInv'
<1>1. /\ phase = "ready" /\ phase' = "ready" /\ ~ inTxn /\ pending' = <<>>
      /\ UNCHANGED <<slots, pageDirectory, rollbacks, log>>
  BY DEF Begin, Goto, pageVars, heapVars
<1>2. pending = <<>>
  BY <1>1 DEF RedoInv, TxnInv
<1> QED
  BY <1>1, <1>2, LayoutQuiet

LEMMA CommitLayout ==
  ASSUME RedoInv, LayoutInv, Commit
  PROVE  LayoutInv'
<1>1. /\ phase = "ready" /\ phase' = "ready" /\ log' = log \o pending /\ pending' = <<>>
      /\ UNCHANGED <<slots, pageDirectory, rollbacks>>
  BY DEF Commit, Goto, pageVars, heapVars
<1>2. log' \o pending' = log \o pending
  <2>1. log \o pending \in Seq(Images)
    BY LogSeqs DEF RedoInv
  <2> QED BY <1>1, <2>1, ConcatEmptySeq
<1> QED
  BY <1>1, <1>2, LayoutQuiet

LEMMA StartRollbackLayout ==
  ASSUME LayoutInv, StartRollback
  PROVE  LayoutInv'
<1>1. rollbacks' = rollbacks + 1
  BY DEF StartRollback
<1> QED
  BY <1>1, LayoutNext DEF LayoutInv

LEMMA UndoLayout ==
  ASSUME LayoutInv, UndoStep \/ EndRollback
  PROVE  LayoutInv'
<1>1. phase = "undoing" /\ rollbacks' = rollbacks
  BY DEF UndoStep, EndRollback, Goto
<1> QED
  BY <1>1, LayoutNext DEF LayoutInv

LEMMA CrashLayout ==
  ASSUME LayoutInv, Crash \/ Redo
  PROVE  LayoutInv'
<1>1. phase' = "recovering" /\ UNCHANGED <<log, rollbacks>>
  BY DEF Crash, Redo, Goto
<1> QED
  BY <1>1, LayoutNext DEF LayoutInv

LEMMA LayoutStutter ==
  ASSUME LayoutInv, UNCHANGED redoVars
  PROVE  LayoutInv'
<1>1. UNCHANGED <<slots, pageDirectory, dirtyPages, phase, log, pending, rollbacks>>
  BY DEF redoVars, pageVars, heapVars, txnVars
<1>2. SlotsLogged' <=> SlotsLogged
  <2>1. Unlogged' = Unlogged
    BY <1>1 DEF Unlogged
  <2> QED BY <1>1, <2>1, PrimedSlots DEF SlotsLogged
<1> QED
  BY <1>1, <1>2, SameWhole, LayoutNext DEF LayoutInv

LEMMA LayoutInit ==
  RedoInit => LayoutInv
<1> SUFFICES ASSUME RedoInit PROVE LayoutInv
  OBVIOUS
<1>1. slots = <<>> /\ phase = "ready" /\ pending = <<>> /\ log = <<>> /\ rollbacks = 0
  BY DEF RedoInit, Init
<1>2. Len(<<>>) = 0 /\ <<>> \o <<>> = <<>> /\ DOMAIN <<>> = {}
  OBVIOUS
<1>3. Full(<<>>)
  <2>1. \A r : r \notin 1..0
    OBVIOUS
  <2> QED BY <1>2, <2>1, EmptyLog DEF Full
<1>4. Whole /\ SlotsLogged
  BY <1>1, <1>2 DEF Whole, SlotsLogged
<1> QED
  BY <1>1, <1>2, <1>3, <1>4 DEF LayoutInv

(* A change of one row marks the page of a row id that it adds.            *)
LEMMA ChangedLayout ==
  ASSUME RedoInv, LayoutInv, phase = "cleared", phase' = "changed",
         NEW r, NEW row, Changed(r, row), Whole => Whole',
         UNCHANGED <<pending, log, rollbacks>>
  PROVE  LayoutInv'
<1> SUFFICES ASSUME rollbacks' = 0
             PROVE  Full(log') /\ Whole' /\ Full(log' \o pending') /\ SlotsLogged'
  BY LayoutNext DEF LayoutInv
<1>1. Whole /\ Full(log) /\ Full(log \o pending) /\ SlotsLogged
  BY DEF LayoutInv
<1>2. Unlogged = {} /\ PageOf(r) \in Unlogged'
  BY DEF Unlogged, Changed
<1>3. \A k \in DOMAIN slots' : k \in DOMAIN slots \/ k = r
  BY DEF Changed
<1>4. \A k \in DOMAIN slots : k \in 1..CapAfter(log \o pending, Len(log \o pending))
  BY <1>1, <1>2 DEF SlotsLogged
<1>5. SlotsLogged'
  BY <1>2, <1>3, <1>4, PrimedSlots
<1> QED
  BY <1>1, <1>5

(* A record of the dirty pages of a whole heap keeps the log full.         *)
LEMMA CaptureFull ==
  ASSUME HeapInv, Whole, dirtyPages \subseteq DOMAIN pageDirectory,
         NEW L \in Seq(Images), Good(L), Full(L), CapAfter(L, Len(L)) <= Len(slots),
         \A r \in RowIds : PageOf(r) \notin dirtyPages => LogValue(L, Len(L), r) = Value(r),
         \A r \in DOMAIN slots : PageOf(r) \notin dirtyPages => r \in 1..CapAfter(L, Len(L))
  PROVE  Full(Append(L, Capture))
<1> DEFINE x == Capture
           M == Append(L, x)
           n == Len(L)
           m == Len(M)
           old == DirAfter(L, n)
           new == DirAfter(M, m)
<1>1. x \in Images
  BY CaptureLogs
<1>2. /\ x.capacity = Len(slots) /\ x.free = freeList
      /\ DOMAIN x.pages = dirtyPages /\ \A p \in dirtyPages : x.pages[p] = pageDirectory[p]
  BY DEF Capture, Restrict
<1> HIDE DEF x
<1>3. /\ Held(M, m) = Held(L, n) \cup dirtyPages
      /\ \A p \in dirtyPages : new[p] = pageDirectory[p]
      /\ \A p \in Held(L, n) \ dirtyPages : new[p] = old[p]
      /\ CapAfter(M, m) = Len(slots) /\ FreeAfter(M, m) = freeList
  BY <1>1, <1>2, AppendRecord
<1>4. DOMAIN new = Held(M, m) /\ DOMAIN old = Held(L, n)
  BY DEF DirAfter
<1>5. /\ \A r \in 1..CapAfter(L, n) :
           /\ Placed(old, r) /\ (r \in Range(FreeAfter(L, n)) => Cell(old, r) = NoRow)
           /\ r \notin Range(FreeAfter(L, n)) => LogValue(L, n, r) \in Rows
  BY DEF Full, Good
<1> HIDE DEF M, n, m, old, new
<1>6. \A r \in DOMAIN slots : r \in Range(freeList) => ~ slots[r].live
  BY DEF HeapInv
<1>7. DOMAIN slots = 1..Len(slots) /\ \A r \in DOMAIN slots : r \in RowIds
  BY HeapFacts
<1>8. ASSUME NEW r \in DOMAIN slots
      PROVE  Placed(new, r) /\ (r \in Range(freeList) => Cell(new, r) = NoRow)
  <2>1. CASE PageOf(r) \in dirtyPages
    <3>1. Placed(pageDirectory, r) /\ (~ slots[r].live => RowOf(r) = NoRow)
      BY DEF Whole
    <3>2. PageOf(r) \in DOMAIN new /\ new[PageOf(r)] = pageDirectory[PageOf(r)]
      BY <1>3, <1>4, <2>1
    <3>3. Placed(new, r)
      BY <3>1, <3>2 DEF Placed
    <3>4. Cell(new, r) = RowOf(r)
      BY <3>2 DEF Cell, RowOf
    <3> QED BY <1>6, <3>1, <3>3, <3>4
  <2>2. CASE PageOf(r) \notin dirtyPages
    <3>1. r \in 1..CapAfter(L, n)
      BY <2>2 DEF n
    <3>2. Placed(old, r)
      BY <1>5, <3>1
    <3>3. PageOf(r) \in DOMAIN new /\ new[PageOf(r)] = old[PageOf(r)]
      BY <1>3, <1>4, <2>2, <3>2 DEF Placed
    <3>4. Placed(new, r) /\ Cell(new, r) = Cell(old, r)
      BY <3>2, <3>3 DEF Placed, Cell
    <3>5. ASSUME r \in Range(freeList) PROVE r \in Range(FreeAfter(L, n))
      <4>1. Value(r) = NoRow
        BY <1>6, <3>5 DEF Value, Live
      <4>2. LogValue(L, n, r) = NoRow
        BY <1>7, <2>2, <4>1 DEF n
      <4> QED BY <1>5, <3>1, <4>2, RowsAssumption
    <3> QED BY <1>5, <3>1, <3>4, <3>5
  <2> QED BY <2>1, <2>2
<1>9. Full(M)
  BY <1>3, <1>7, <1>8 DEF Full, new, m
<1> QED
  BY <1>9 DEF M, x

LEMMA LogChangeLayout ==
  ASSUME RedoInv, LayoutInv, LogChange
  PROVE  LayoutInv'
<1> DEFINE L == log \o pending
           M == Append(L, Capture)
<1>1. /\ phase = "changed" /\ phase' = "ready"
      /\ UNCHANGED <<slots, freeList, pageDirectory, rollbacks>>
  BY DEF LogChange, Goto, heapVars
<1> SUFFICES ASSUME rollbacks' = 0
             PROVE  Full(log') /\ Whole' /\ Full(log' \o pending') /\ SlotsLogged'
  BY <1>1, LayoutNext DEF LayoutInv
<1>2. Whole /\ Full(log) /\ Full(L) /\ SlotsLogged
  BY <1>1 DEF LayoutInv
<1>3. TxnInv /\ HeapInv /\ LoggedInv /\ dirtyPages \subseteq DOMAIN pageDirectory
  BY <1>1 DEF RedoInv, TxnInv
<1>4. L \in Seq(Images) /\ log \in Seq(Images) /\ pending \in Seq(Images)
  BY <1>3, LogSeqs
<1>5. /\ Good(L) /\ CapAfter(L, Len(L)) <= Len(slots)
      /\ \A r \in RowIds : PageOf(r) \notin dirtyPages => LogValue(L, Len(L), r) = Value(r)
  BY <1>1, <1>3 DEF LoggedInv, Unlogged
<1>6. \A r \in DOMAIN slots : PageOf(r) \notin dirtyPages => r \in 1..CapAfter(L, Len(L))
  BY <1>1, <1>2 DEF SlotsLogged, Unlogged
<1> HIDE DEF L
<1>7. Capture \in Images /\ M \in Seq(Images) /\ CapAfter(M, Len(M)) = Len(slots)
  BY <1>3, <1>4, <1>5, CaptureLogs
<1>8. Full(M)
  BY <1>2, <1>3, <1>4, <1>5, <1>6, CaptureFull
<1> HIDE DEF M
<1>9. log' \o pending' = M /\ (log' = log \/ log' = M)
  <2>1. CASE inTxn
    <3>1. pending' = Append(pending, Capture) /\ log' = log
      BY <2>1 DEF LogChange
    <3>2. <<Capture>> \in Seq(Images)
      BY <1>7
    <3>3. M = L \o <<Capture>> /\ pending' = pending \o <<Capture>>
      BY <1>4, <1>7, <3>1, AppendIsConcat DEF M
    <3>4. (log \o pending) \o <<Capture>> = log \o (pending \o <<Capture>>)
      BY <1>4, <3>2, ConcatAssociative
    <3> QED BY <3>1, <3>3, <3>4 DEF L
  <2>2. CASE ~ inTxn
    <3>1. log' = Append(log, Capture) /\ pending' = pending
      BY <2>2 DEF LogChange
    <3>2. pending = <<>> /\ L = log
      BY <1>3, <2>2, LogSeqs DEF TxnInv, L
    <3> QED BY <1>7, <3>1, <3>2, ConcatEmptySeq DEF M
  <2> QED BY <2>1, <2>2
<1>10. SlotsLogged'
  <2>1. DOMAIN slots' = 1..CapAfter(log' \o pending', Len(log' \o pending'))
    BY <1>1, <1>3, <1>7, <1>9, HeapFacts
  <2> QED BY <2>1, PrimedSlots
<1> QED
  BY <1>1, <1>2, <1>8, <1>9, <1>10, SameWhole

LEMMA EndRecoveryLayout ==
  ASSUME RedoInv, LayoutInv, EndRecovery
  PROVE  LayoutInv'
<1>1. /\ phase = "recovering" /\ phase' = "ready" /\ applied = Len(log)
      /\ UNCHANGED <<slots, freeList, pageDirectory, pending, log, rollbacks>>
  BY DEF EndRecovery, Goto, pageVars, heapVars, txnVars
<1> SUFFICES ASSUME rollbacks' = 0
             PROVE  Full(log') /\ Whole' /\ Full(log' \o pending') /\ SlotsLogged'
  BY <1>1, LayoutNext DEF LayoutInv
<1> DEFINE n == Len(log)
           dir == DirAfter(log, n)
<1>2. TxnInv /\ LogInv /\ RebuiltInv /\ Full(log)
  BY <1>1 DEF RedoInv, LayoutInv
<1>3. log' \o pending' = log
  BY <1>1, <1>2, LogSeqs DEF TxnInv
<1>4. HeapInv
  BY <1>1, <1>2, Recovered
<1>5. /\ Len(slots) = CapAfter(log, n) /\ freeList = FreeAfter(log, n)
      /\ DOMAIN pageDirectory = Held(log, n)
      /\ \A p \in DOMAIN pageDirectory : pageDirectory[p] = dir[p]
  BY <1>1, <1>2 DEF RebuiltInv
<1>6. DOMAIN slots = 1..CapAfter(log, n) /\ DOMAIN dir = DOMAIN pageDirectory
  BY <1>4, <1>5, HeapFacts DEF DirAfter
<1>7. \A r \in DOMAIN slots :
        Placed(dir, r) /\ (r \in Range(freeList) => Cell(dir, r) = NoRow)
  BY <1>2, <1>5, <1>6 DEF Full
<1> HIDE DEF n, dir
<1>8. ASSUME NEW r \in DOMAIN slots
      PROVE  /\ Placed(pageDirectory, r)
             /\ slots[r].page = PageOf(r) /\ slots[r].offset = OffsetOf(r)
             /\ ~ slots[r].live => RowOf(r) = NoRow
  <2>1. Placed(pageDirectory, r) /\ RowOf(r) = Cell(dir, r)
    BY <1>5, <1>6, <1>7 DEF Placed, RowOf, Cell
  <2>2. slots[r] = Slot(PageOf(r), OffsetOf(r), r \notin Range(freeList))
    BY <1>2, <2>1 DEF RebuiltInv
  <2>3. slots[r].page = PageOf(r) /\ slots[r].offset = OffsetOf(r)
    BY <2>2 DEF Slot
  <2>4. ~ slots[r].live => r \in Range(freeList)
    BY <1>4, HeapFacts
  <2> QED BY <1>7, <2>1, <2>3, <2>4
<1>9. Whole
  BY <1>8 DEF Whole
<1>10. SlotsLogged'
  BY <1>1, <1>3, <1>6, PrimedSlots DEF n
<1> QED
  BY <1>1, <1>2, <1>3, <1>9, <1>10, SameWhole

-----------------------------------------------------------------------------
(* The undo records of a row.                                              *)

LEMMA PrimedChain ==
  ChainInv' <=>
    /\ \A i \in DOMAIN undo' :
         undo'[i].row \in DOMAIN slots' /\ slots'[undo'[i].row].page = PageOf(undo'[i].row)
    /\ \A i \in DOMAIN undo', r \in RowIds :
         undo'[i].row = r /\ Latest(undo', i) => (undo'[i].kind = "Delete" <=> Value(r)' = NoRow)
    /\ \A i, j \in DOMAIN undo' :
         Adjacent(undo', i, j) => (undo'[i].kind = "Delete" <=> undo'[j].kind = "Insert")
BY DEF ChainInv, Latest, Adjacent, PageOf, Value, Live, RowOf, OffsetOf

LEMMA ChainQuiet ==
  ASSUME ChainInv, UNCHANGED <<slots, freeList, pageDirectory, undo>>
  PROVE  ChainInv'
<1>1. \A k : Value(k)' = Value(k)
  BY DEF Value, Live, RowOf, PageOf, OffsetOf
<1> QED
  BY <1>1, PrimedChain DEF ChainInv

LEMMA ChainEmpty ==
  ASSUME undo' = <<>>
  PROVE  ChainInv'
<1>1. \A i : i \notin DOMAIN undo'
  OBVIOUS
<1> QED
  BY <1>1, PrimedChain, ZenonT(30)

LEMMA RowsOfUndo ==
  ASSUME NEW s \in Seq(UndoRecords), NEW i \in DOMAIN s
  PROVE  /\ s[i].row \in RowIds /\ s[i].kind \in {"Insert", "Update", "Delete"}
         /\ s[i].before = NoRow <=> s[i].kind = "Insert"
<1>1. s[i] \in UndoRecords
  BY ElementOfSeq, LenProperties
<1> QED
  BY <1>1, RowsAssumption DEF UndoRecords

(* A change with its record: the record fits the row as it was and as it   *)
(* is.                                                                     *)
LEMMA ChainPushed ==
  ASSUME ChainInv, undo \in Seq(UndoRecords), NEW x \in UndoRecords, undo' = Append(undo, x),
         NEW row, \A k \in RowIds : Value(k)' = IF k = x.row THEN row ELSE Value(k),
         \A k \in DOMAIN slots : k \in DOMAIN slots' /\ slots'[k].page = slots[k].page,
         x.row \in DOMAIN slots' /\ slots'[x.row].page = PageOf(x.row),
         x.kind = "Insert" <=> Value(x.row) = NoRow,
         x.kind = "Delete" <=> row = NoRow
  PROVE  ChainInv'
<1> DEFINE n == Len(undo)
<1>1. /\ n \in Nat /\ DOMAIN undo = 1..n /\ DOMAIN undo' = 1..(n + 1)
      /\ \A i \in 1..n : undo'[i] = undo[i]
      /\ undo'[n + 1] = x
  BY LenProperties, AppendProperties
<1> HIDE DEF n
<1>2. x.row \in RowIds /\ \A i \in 1..n : undo[i].row \in RowIds
  BY <1>1, RowsOfUndo DEF UndoRecords
<1>3. \A i \in 1..(n + 1) : i \in 1..n \/ i = n + 1
  BY <1>1
<1>4. \A i \in DOMAIN undo' :
        undo'[i].row \in DOMAIN slots' /\ slots'[undo'[i].row].page = PageOf(undo'[i].row)
  BY <1>1, <1>3 DEF ChainInv
<1>5. \A i \in 1..n : Latest(undo', i) => Latest(undo, i) /\ undo[i].row # x.row
  <2>1. \A i \in 1..n : i < n + 1 /\ n + 1 \in 1..(n + 1) /\ i \in 1..(n + 1)
    BY <1>1
  <2> QED BY <1>1, <2>1 DEF Latest
<1>6. \A i \in DOMAIN undo', r \in RowIds :
        undo'[i].row = r /\ Latest(undo', i) => (undo'[i].kind = "Delete" <=> Value(r)' = NoRow)
  <2> SUFFICES ASSUME NEW i \in 1..(n + 1), NEW r \in RowIds, undo'[i].row = r, Latest(undo', i)
               PROVE  undo'[i].kind = "Delete" <=> Value(r)' = NoRow
    BY <1>1
  <2>1. CASE i \in 1..n
    <3>1. Latest(undo, i) /\ undo[i].row # x.row /\ undo'[i] = undo[i]
      BY <1>1, <1>5, <2>1
    <3>2. undo[i].kind = "Delete" <=> Value(r) = NoRow
      BY <1>1, <2>1, <3>1 DEF ChainInv
    <3>3. Value(r)' = Value(r)
      BY <3>1
    <3> QED BY <3>1, <3>2, <3>3
  <2>2. CASE i = n + 1
    <3>1. undo'[i] = x /\ r = x.row
      BY <1>1, <2>2
    <3>2. Value(r)' = row
      BY <3>1
    <3> QED BY <3>1, <3>2
  <2> QED BY <1>3, <2>1, <2>2, ZenonT(30)
<1>7. \A i, j \in DOMAIN undo' :
        Adjacent(undo', i, j) => (undo'[i].kind = "Delete" <=> undo'[j].kind = "Insert")
  <2> SUFFICES ASSUME NEW i \in 1..(n + 1), NEW j \in 1..(n + 1), Adjacent(undo', i, j)
               PROVE  undo'[i].kind = "Delete" <=> undo'[j].kind = "Insert"
    BY <1>1
  <2>1. i \in 1..n /\ undo'[i] = undo[i]
    BY <1>1 DEF Adjacent
  <2>2. CASE j \in 1..n
    <3>1. Adjacent(undo, i, j)
      BY <1>1, <2>1, <2>2 DEF Adjacent
    <3> QED BY <1>1, <2>1, <2>2, <3>1 DEF ChainInv
  <2>3. CASE j = n + 1
    <3>1. undo[i].row = x.row
      BY <1>1, <2>1, <2>3 DEF Adjacent
    <3>2. \A k \in 1..n : k < n + 1
      BY <1>1
    <3>3. Latest(undo, i)
      BY <1>1, <2>1, <2>3, <3>2, SMTT(30) DEF Adjacent, Latest
    <3>4. undo[i].kind = "Delete" <=> Value(x.row) = NoRow
      BY <1>1, <1>2, <2>1, <3>1, <3>3, SMTT(30) DEF ChainInv
    <3> QED BY <1>1, <2>1, <2>3, <3>4
  <2> QED BY <1>3, <2>2, <2>3, ZenonT(30)
<1> QED
  BY <1>4, <1>6, <1>7, PrimedChain, SMTT(30)

(* Undoing the last record makes the record before it on the row fit.      *)
LEMMA ChainPopped ==
  ASSUME ChainInv, undo \in Seq(UndoRecords), undo # <<>>, undo' = PopBack(undo),
         \A k \in RowIds : Value(k)' = IF k = Back(undo).row THEN Back(undo).before ELSE Value(k),
         \A k \in DOMAIN slots : k \in DOMAIN slots' /\ slots'[k].page = slots[k].page
  PROVE  ChainInv'
<1> DEFINE x == Back(undo)
           n == Len(undo')
<1>1. undo' \in Seq(UndoRecords) /\ x \in UndoRecords /\ undo = Append(undo', x)
  BY BackAppended
<1> HIDE DEF x, n
<1>2. /\ n \in Nat /\ DOMAIN undo' = 1..n /\ DOMAIN undo = 1..(n + 1)
      /\ \A i \in 1..n : undo[i] = undo'[i]
      /\ undo[n + 1] = x
  BY <1>1, LenProperties, AppendProperties DEF n
<1>3. /\ \A i \in 1..n : undo'[i].row \in RowIds
      /\ x.before = NoRow <=> x.kind = "Insert"
  BY <1>1, <1>2, RowsOfUndo, RowsAssumption DEF UndoRecords
<1>4. \A i \in 1..n : i \in 1..(n + 1) /\ n + 1 \in 1..(n + 1) /\ i < n + 1
  BY <1>2
<1>5. \A i \in DOMAIN undo' :
        undo'[i].row \in DOMAIN slots' /\ slots'[undo'[i].row].page = PageOf(undo'[i].row)
  BY <1>2, <1>4 DEF ChainInv
<1>6. \A k \in 1..(n + 1) : k \in 1..n \/ k = n + 1
  BY <1>2
<1>7. \A i \in DOMAIN undo', r \in RowIds :
        undo'[i].row = r /\ Latest(undo', i) => (undo'[i].kind = "Delete" <=> Value(r)' = NoRow)
  <2> SUFFICES ASSUME NEW i \in 1..n, NEW r \in RowIds, undo'[i].row = r, Latest(undo', i)
               PROVE  undo'[i].kind = "Delete" <=> Value(r)' = NoRow
    BY <1>2
  <2>1. undo[i] = undo'[i]
    BY <1>2
  <2>2. CASE r = x.row
    <3>1. Adjacent(undo, i, n + 1)
      <4>1. \A k \in 1..(n + 1) : i < k /\ k < n + 1 => k \in 1..n
        BY <1>2
      <4> QED BY <1>2, <1>4, <2>1, <2>2, <4>1 DEF Adjacent, Latest
    <3>2. undo[i].kind = "Delete" <=> x.kind = "Insert"
      BY <1>2, <1>4, <3>1 DEF ChainInv
    <3>3. Value(r)' = x.before
      BY <2>2 DEF x
    <3> QED BY <1>3, <2>1, <3>2, <3>3
  <2>3. CASE r # x.row
    <3>1. Latest(undo, i)
      BY <1>2, <1>6, <2>1, <2>3 DEF Latest
    <3>2. undo[i].kind = "Delete" <=> Value(r) = NoRow
      BY <1>2, <1>4, <2>1, <3>1 DEF ChainInv
    <3>3. Value(r)' = Value(r)
      BY <2>3 DEF x
    <3> QED BY <2>1, <3>2, <3>3
  <2> QED BY <2>2, <2>3
<1>8. \A i, j \in DOMAIN undo' :
        Adjacent(undo', i, j) => (undo'[i].kind = "Delete" <=> undo'[j].kind = "Insert")
  <2> SUFFICES ASSUME NEW i \in 1..n, NEW j \in 1..n, Adjacent(undo', i, j)
               PROVE  undo'[i].kind = "Delete" <=> undo'[j].kind = "Insert"
    BY <1>2
  <2>1. undo[i] = undo'[i] /\ undo[j] = undo'[j]
    BY <1>2
  <2>2. \A k \in 1..(n + 1) : k < j => k \in 1..n
    BY <1>2
  <2>3. Adjacent(undo, i, j)
    BY <1>2, <2>1, <2>2 DEF Adjacent
  <2> QED BY <1>2, <1>4, <2>1, <2>3 DEF ChainInv
<1> QED
  BY <1>5, <1>7, <1>8, PrimedChain

(* A slot keeps its page when a row is erased, revived, updated or added.  *)
LEMMA PagesStay ==
  ASSUME HeapInv,
         \/ slots' = slots
         \/ \E r \in DOMAIN slots, b \in BOOLEAN : slots' = [slots EXCEPT ![r].live = b]
         \/ \E x : slots' = Append(slots, x)
  PROVE  \A k \in DOMAIN slots : k \in DOMAIN slots' /\ slots'[k].page = slots[k].page
<1>1. slots \in Seq(SlotRecords) /\ Len(slots) \in Nat /\ DOMAIN slots = 1..Len(slots)
  BY HeapFacts DEF HeapInv, SlotRecords
<1>2. ASSUME NEW r \in DOMAIN slots, NEW b \in BOOLEAN, slots' = [slots EXCEPT ![r].live = b]
      PROVE  \A k \in DOMAIN slots : k \in DOMAIN slots' /\ slots'[k].page = slots[k].page
  <2>1. \A k \in DOMAIN slots : slots[k] \in SlotRecords
    BY <1>1, ElementOfSeq
  <2> QED BY <1>2, <2>1 DEF SlotRecords
<1>3. ASSUME NEW x, slots' = Append(slots, x)
      PROVE  \A k \in DOMAIN slots : k \in DOMAIN slots' /\ slots'[k].page = slots[k].page
  <2>1. slots \in Seq(SlotRecords \cup {x})
    BY <1>1
  <2>2. DOMAIN slots' = 1..(Len(slots) + 1) /\ \A k \in 1..Len(slots) : slots'[k] = slots[k]
    BY <1>3, <2>1, AppendProperties, LenProperties
  <2>3. \A k \in 1..Len(slots) : k \in 1..(Len(slots) + 1)
    BY <1>1
  <2> QED BY <1>1, <2>2, <2>3, ZenonT(30)
<1> QED
  BY <1>2, <1>3

(* A live row has the page its number determines.                          *)
LEMMA LiveHasPage ==
  ASSUME HeapInv, NEW r \in RowIds, Value(r) # NoRow
  PROVE  r \in DOMAIN slots /\ slots[r].page = PageOf(r)
<1>1. r \in DOMAIN slots /\ slots[r].live
  BY DEF Value, Live
<1> QED
  BY <1>1 DEF HeapInv, SlotOK

LEMMA LiveHasPageNext ==
  ASSUME HeapInv', NEW r \in RowIds, Value(r)' # NoRow
  PROVE  r \in DOMAIN slots' /\ slots'[r].page = PageOf(r)
<1>1. r \in DOMAIN slots' /\ slots'[r].live
  BY DEF Value, Live
<1> QED
  BY <1>1 DEF HeapInv, SlotOK, PageOf

LEMMA ChangedChain ==
  ASSUME RedoInv, ChainInv, phase = "cleared",
         NEW r \in RowIds, NEW row, HeapInv', Changed(r, row),
         NEW kind, PushUndo(kind, r, Value(r)),
         [kind |-> kind, row |-> r, before |-> Value(r)] \in UndoRecords,
         kind = "Delete" <=> row = NoRow,
         \A k \in DOMAIN slots : k \in DOMAIN slots' /\ slots'[k].page = slots[k].page
  PROVE  ChainInv'
<1> DEFINE x == [kind |-> kind, row |-> r, before |-> Value(r)]
<1>1. TxnInv /\ HeapInv
  BY DEF RedoInv
<1>2. undo' = IF inTxn THEN Append(undo, x) ELSE undo
  BY DEF PushUndo
<1>3. x \in UndoRecords /\ x.row = r /\ x.before = Value(r) /\ x.kind = kind
  OBVIOUS
<1>4. x.kind = "Insert" <=> Value(r) = NoRow
  BY RowsAssumption DEF UndoRecords
<1> HIDE DEF x
<1>5. undo \in Seq(UndoRecords) /\ (~ inTxn => undo = <<>>)
  BY <1>1 DEF TxnInv
<1>6. \A k \in RowIds : Value(k)' = IF k = x.row THEN row ELSE Value(k)
  BY <1>3 DEF Changed
<1>7. x.row \in DOMAIN slots' /\ slots'[x.row].page = PageOf(x.row)
  <2>1. CASE row # NoRow
    <3>1. Value(r)' # NoRow
      BY <1>3, <1>6, <2>1
    <3> QED BY <1>3, <3>1, LiveHasPageNext
  <2>2. CASE row = NoRow
    <3>1. Value(r) # NoRow
      BY <1>3, <1>4, <2>2
    <3> QED BY <1>1, <1>3, <3>1, LiveHasPage
  <2> QED BY <2>1, <2>2
<1>8. CASE inTxn
  <2>1. undo' = Append(undo, x)
    BY <1>2, <1>8
  <2> QED BY <1>3, <1>4, <1>5, <1>6, <1>7, <2>1, ChainPushed, ZenonT(30)
<1>9. CASE ~ inTxn
  BY <1>2, <1>5, <1>9, ChainEmpty
<1> QED
  BY <1>8, <1>9

LEMMA ChainInit ==
  RedoInit => ChainInv
BY DEF RedoInit, ChainInv

-----------------------------------------------------------------------------
(* The capacities of the records, whatever the rows and the pages are.     *)

LEMMA PrimedSizes ==
  SizeInv' <=>
    /\ IsSequence(slots') /\ Sized(log') /\ Sized(pending')
    /\ inTxn' \/ pending' = <<>>
    /\ Ordered(log' \o pending')
    /\ phase' # "recovering" =>
         CapAfter(log' \o pending', Len(log' \o pending')) <= Len(slots')
    /\ phase' = "recovering" =>
         /\ pending' = <<>> /\ applied' \in 0..Len(log')
         /\ Len(slots') = CapAfter(log', applied')
BY DEF SizeInv, IsSequence, Sized, Ordered, CapAfter

LEMMA SizedFacts ==
  ASSUME NEW L, Sized(L)
  PROVE  /\ Len(L) \in Nat /\ \A i \in 1..Len(L) : L[i].capacity \in Nat
         /\ \A n \in 0..Len(L) : CapAfter(L, n) \in Nat
         /\ L \o <<>> = L
<1>1. PICK S : L \in Seq(S) /\ \A x \in S : x.capacity \in Nat
  BY DEF Sized
<1>2. Len(L) \in Nat /\ \A i \in 1..Len(L) : L[i] \in S
  BY <1>1, LenProperties, ElementOfSeq
<1>3. \A n \in 0..Len(L) : n = 0 \/ n \in 1..Len(L)
  BY <1>2
<1>4. \A n \in 0..Len(L) : CapAfter(L, n) \in Nat
  BY <1>1, <1>2, <1>3 DEF CapAfter
<1> QED
  BY <1>1, <1>2, <1>4, ConcatEmptySeq

LEMMA EmptySized ==
  Sized(<<>>) /\ Ordered(<<>>) /\ CapAfter(<<>>, Len(<<>>)) = 0 /\ <<>> \o <<>> = <<>>
<1>1. <<>> \in Seq({}) /\ Len(<<>>) = 0 /\ <<>> \o <<>> = <<>> /\ \A i : i \notin 1..0
  OBVIOUS
<1> QED
  BY <1>1 DEF Sized, Ordered, CapAfter

LEMMA ConcatSized ==
  ASSUME NEW A, NEW B, Sized(A), Sized(B)
  PROVE  /\ Sized(A \o B) /\ Len(A \o B) = Len(A) + Len(B)
         /\ \A i \in 1..Len(A) : (A \o B)[i] = A[i]
<1>1. PICK S : A \in Seq(S) /\ \A x \in S : x.capacity \in Nat
  BY DEF Sized
<1>2. PICK T : B \in Seq(T) /\ \A x \in T : x.capacity \in Nat
  BY DEF Sized
<1>3. A \in Seq(S \cup T) /\ B \in Seq(S \cup T)
  <2>1. S \subseteq S \cup T /\ T \subseteq S \cup T
    OBVIOUS
  <2> QED BY <1>1, <1>2, <2>1, SeqMonotonic
<1>4. /\ A \o B \in Seq(S \cup T) /\ Len(A \o B) = Len(A) + Len(B)
      /\ \A i \in 1..(Len(A) + Len(B)) :
           (A \o B)[i] = IF i <= Len(A) THEN A[i] ELSE B[i - Len(A)]
  BY <1>3, ConcatProperties
<1>5. Len(A) \in Nat /\ Len(B) \in Nat
  BY SizedFacts
<1>6. \A i \in 1..Len(A) : i \in 1..(Len(A) + Len(B)) /\ i <= Len(A)
  BY <1>5
<1>7. \A x \in S \cup T : x.capacity \in Nat
  BY <1>1, <1>2
<1>8. Sized(A \o B)
  BY <1>4, <1>7 DEF Sized
<1> QED
  BY <1>4, <1>6, <1>8

LEMMA AppendSized ==
  ASSUME NEW L, Sized(L), NEW x, x.capacity \in Nat
  PROVE  /\ Sized(Append(L, x)) /\ Append(L, x) = L \o <<x>> /\ Sized(<<x>>)
         /\ Len(Append(L, x)) = Len(L) + 1
         /\ \A i \in 1..Len(L) : Append(L, x)[i] = L[i]
         /\ Append(L, x)[Len(L) + 1] = x
<1>1. PICK S : L \in Seq(S) /\ \A y \in S : y.capacity \in Nat
  BY DEF Sized
<1>2. L \in Seq(S \cup {x}) /\ x \in S \cup {x}
  <2>1. S \subseteq S \cup {x} /\ x \in S \cup {x}
    OBVIOUS
  <2> QED BY <1>1, <2>1, SeqMonotonic
<1>3. \A y \in S \cup {x} : y.capacity \in Nat
  BY <1>1
<1>4. Append(L, x) \in Seq(S \cup {x}) /\ <<x>> \in Seq(S \cup {x})
  BY <1>2, AppendProperties
<1> QED
  BY <1>2, <1>3, <1>4, AppendProperties, AppendIsConcat DEF Sized

LEMMA AppendOrdered ==
  ASSUME NEW L, Sized(L), Ordered(L), NEW x, x.capacity \in Nat,
         CapAfter(L, Len(L)) <= x.capacity
  PROVE  Ordered(Append(L, x)) /\ CapAfter(Append(L, x), Len(Append(L, x))) = x.capacity
<1> DEFINE M == Append(L, x)
           n == Len(L)
<1>1. /\ n \in Nat /\ Len(M) = n + 1 /\ \A i \in 1..n : M[i] = L[i]
      /\ M[n + 1] = x
  BY AppendSized, SizedFacts
<1>2. \A i \in 1..n : L[i].capacity \in Nat
  BY SizedFacts
<1> HIDE DEF M, n
<1>3. \A i, j \in 1..n : i <= j => L[i].capacity <= L[j].capacity
  BY DEF Ordered, n
<1>4. \A i \in 1..n : n \in 1..n /\ i <= n /\ n # 0
  BY <1>1
<1>5. \A i \in 1..n : L[i].capacity <= x.capacity
  <2>1. \A i \in 1..n : L[i].capacity <= L[n].capacity /\ L[n].capacity = CapAfter(L, n)
    BY <1>3, <1>4 DEF CapAfter
  <2> QED BY <1>2, <1>4, <2>1 DEF n
<1>6. \A i, j \in 1..(n + 1) : i <= j => M[i].capacity <= M[j].capacity
  <2> SUFFICES ASSUME NEW i \in 1..(n + 1), NEW j \in 1..(n + 1), i <= j
               PROVE  M[i].capacity <= M[j].capacity
    OBVIOUS
  <2>1. CASE i \in 1..n /\ j \in 1..n
    BY <1>1, <1>3, <2>1
  <2>2. CASE i \in 1..n /\ j = n + 1
    BY <1>1, <1>5, <2>2
  <2>3. CASE i = n + 1 /\ j = n + 1
    BY <1>1, <2>3
  <2> QED BY <1>1, <2>1, <2>2, <2>3
<1>7. n + 1 # 0
  BY <1>1
<1> QED
  BY <1>1, <1>6, <1>7 DEF Ordered, CapAfter, M

LEMMA PrefixOrdered ==
  ASSUME NEW A, NEW B, Sized(A), Sized(B), Ordered(A \o B)
  PROVE  Ordered(A) /\ CapAfter(A, Len(A)) <= CapAfter(A \o B, Len(A \o B))
<1> DEFINE M == A \o B
           a == Len(A)
           m == Len(M)
<1>1. /\ a \in Nat /\ m \in Nat /\ a <= m /\ \A i \in 1..a : M[i] = A[i]
      /\ \A i \in 1..m : M[i].capacity \in Nat
  <2>1. Sized(M) /\ m = a + Len(B) /\ \A i \in 1..a : M[i] = A[i]
    BY ConcatSized
  <2>2. a \in Nat /\ Len(B) \in Nat
    BY SizedFacts
  <2>3. m \in Nat /\ \A i \in 1..m : M[i].capacity \in Nat
    BY <2>1, SizedFacts
  <2> HIDE DEF M, a, m
  <2> QED BY <2>1, <2>2, <2>3
<1>2. \A i, j \in 1..m : i <= j => M[i].capacity <= M[j].capacity
  BY DEF Ordered
<1>3. CapAfter(M, m) \in Nat
  BY <1>1 DEF CapAfter
<1> HIDE DEF M, a, m
<1>4. \A i \in 1..a : i \in 1..m
  BY <1>1
<1>5. \A i, j \in 1..a : i <= j => A[i].capacity <= A[j].capacity
  BY <1>1, <1>2, <1>4
<1>6. CapAfter(A, a) <= CapAfter(M, m)
  <2>1. CASE a = 0
    BY <1>3, <2>1 DEF CapAfter
  <2>2. CASE a # 0
    <3>1. a \in 1..a /\ a \in 1..m /\ m \in 1..m /\ a <= m /\ m # 0
      BY <1>1, <2>2
    <3>2. M[a].capacity <= M[m].capacity /\ M[a] = A[a]
      BY <1>1, <1>2, <3>1
    <3> QED BY <2>2, <3>1, <3>2 DEF CapAfter
  <2> QED BY <2>1, <2>2
<1> QED
  BY <1>5, <1>6 DEF Ordered, M, a, m

(* append, erase and revive never give up a slot.                          *)
SlotsKept ==
  \/ slots' = slots
  \/ \E x : slots' = Append(slots, x)
  \/ \E r, b : slots' = [slots EXCEPT ![r].live = b]

LEMMA SlotsGrow ==
  ASSUME IsSequence(slots), SlotsKept
  PROVE  IsSequence(slots') /\ Len(slots) \in Nat /\ Len(slots') \in Nat
         /\ Len(slots) <= Len(slots')
<1>1. PICK S : slots \in Seq(S)
  BY DEF IsSequence
<1>2. Len(slots) \in Nat /\ DOMAIN slots = 1..Len(slots)
  BY <1>1, LenProperties
<1>3. CASE slots' = slots
  BY <1>2, <1>3
<1>4. CASE \E x : slots' = Append(slots, x)
  <2>1. PICK x : slots' = Append(slots, x)
    BY <1>4
  <2> DEFINE T == S \cup {x}
  <2>2. S \subseteq T /\ x \in T
    OBVIOUS
  <2> HIDE DEF T
  <2>3. slots \in Seq(T)
    BY <1>1, <2>2, SeqMonotonic
  <2>4. slots' \in Seq(T) /\ Len(slots') = Len(slots) + 1
    BY <2>1, <2>2, <2>3, AppendProperties
  <2>5. IsSequence(slots')
    BY <2>4 DEF IsSequence
  <2> QED BY <1>2, <2>4, <2>5
<1>5. CASE \E r, b : slots' = [slots EXCEPT ![r].live = b]
  <2>1. PICK r, b : slots' = [slots EXCEPT ![r].live = b]
    BY <1>5
  <2> DEFINE T == {slots'[i] : i \in 1..Len(slots)}
  <2>2. slots' \in [1..Len(slots) -> T]
    BY <1>2, <2>1
  <2>3. slots' \in Seq(T) /\ Len(slots') = Len(slots)
    BY <1>2, <2>2, FunctionIsSeq
  <2> QED BY <1>2, <2>3 DEF IsSequence
<1> QED
  BY <1>3, <1>4, <1>5 DEF SlotsKept

(* A step that takes no record: it drops the open transaction's records,   *)
(* logs them, or leaves them.                                              *)
LEMMA SizeQuiet ==
  ASSUME SizeInv, phase # "recovering", phase' # "recovering", SlotsKept,
         \/ UNCHANGED <<log, pending, inTxn>>
         \/ (log' = log \/ log' = log \o pending) /\ pending' = <<>>
  PROVE  SizeInv'
<1>1. /\ IsSequence(slots) /\ Sized(log) /\ Sized(pending) /\ (inTxn \/ pending = <<>>)
      /\ Ordered(log \o pending) /\ CapAfter(log \o pending, Len(log \o pending)) <= Len(slots)
  BY DEF SizeInv
<1>2. IsSequence(slots') /\ Len(slots) \in Nat /\ Len(slots') \in Nat /\ Len(slots) <= Len(slots')
  BY <1>1, SlotsGrow
<1>3. Sized(log \o pending) /\ CapAfter(log \o pending, Len(log \o pending)) \in Nat
  <2>1. Sized(log \o pending)
    BY <1>1, ConcatSized
  <2>2. Len(log \o pending) \in 0..Len(log \o pending)
    BY <2>1, SizedFacts
  <2> QED BY <2>1, <2>2, SizedFacts
<1>4. CapAfter(log \o pending, Len(log \o pending)) <= Len(slots')
  BY <1>1, <1>2, <1>3
<1>5. Ordered(log) /\ CapAfter(log, Len(log)) <= Len(slots')
  <2>1. Ordered(log) /\ CapAfter(log, Len(log)) <= CapAfter(log \o pending, Len(log \o pending))
    BY <1>1, PrefixOrdered
  <2>2. CapAfter(log, Len(log)) \in Nat
    <3>1. Len(log) \in 0..Len(log)
      BY <1>1, SizedFacts
    <3> QED BY <1>1, <3>1, SizedFacts
  <2> QED BY <1>2, <1>3, <1>4, <2>1, <2>2
<1>6. CASE UNCHANGED <<log, pending, inTxn>>
  BY <1>1, <1>2, <1>4, <1>6, PrimedSizes
<1>7. CASE log' = log /\ pending' = <<>>
  <2>1. log' \o pending' = log
    BY <1>1, <1>7, SizedFacts
  <2> QED BY <1>1, <1>2, <1>5, <1>7, <2>1, EmptySized, PrimedSizes
<1>8. CASE log' = log \o pending /\ pending' = <<>>
  <2>1. log' \o pending' = log \o pending
    BY <1>3, <1>8, SizedFacts
  <2> QED BY <1>1, <1>2, <1>3, <1>4, <1>8, <2>1, EmptySized, PrimedSizes
<1> QED
  BY <1>6, <1>7, <1>8

LEMMA SizedAssociative ==
  ASSUME NEW A, NEW B, NEW C, Sized(A), Sized(B), Sized(C)
  PROVE  (A \o B) \o C = A \o (B \o C)
<1>1. PICK S : A \in Seq(S)
  BY DEF Sized
<1>2. PICK T : B \in Seq(T)
  BY DEF Sized
<1>3. PICK U : C \in Seq(U)
  BY DEF Sized
<1> DEFINE V == S \cup T \cup U
<1>4. S \subseteq V /\ T \subseteq V /\ U \subseteq V
  OBVIOUS
<1>5. A \in Seq(V) /\ B \in Seq(V) /\ C \in Seq(V)
  BY <1>1, <1>2, <1>3, <1>4, SeqMonotonic
<1> QED
  BY <1>5, ConcatAssociative

LEMMA LogChangeSizes ==
  ASSUME SizeInv, LogChange
  PROVE  SizeInv'
<1> DEFINE L == log \o pending
<1>1. phase = "changed" /\ phase' = "ready" /\ UNCHANGED <<slots, inTxn>>
  BY DEF LogChange, Goto, heapVars
<1>2. /\ IsSequence(slots) /\ Sized(log) /\ Sized(pending) /\ (inTxn \/ pending = <<>>)
      /\ Ordered(L) /\ CapAfter(L, Len(L)) <= Len(slots)
  BY <1>1 DEF SizeInv
<1>3. Capture.capacity = Len(slots) /\ Len(slots) \in Nat
  BY <1>2, LenProperties DEF Capture, IsSequence
<1>4. Sized(L)
  BY <1>2, ConcatSized
<1>5. Ordered(Append(L, Capture)) /\ CapAfter(Append(L, Capture), Len(Append(L, Capture))) = Len(slots)
  BY <1>2, <1>3, <1>4, AppendOrdered, Zenon
<1>6. CASE inTxn
  <2>1. pending' = Append(pending, Capture) /\ log' = log
    BY <1>6 DEF LogChange
  <2>2. Sized(pending')
    BY <1>2, <1>3, <2>1, AppendSized, Zenon
  <2>3. log' \o pending' = Append(L, Capture)
    <3>1. /\ Append(L, Capture) = L \o <<Capture>> /\ pending' = pending \o <<Capture>>
          /\ Sized(<<Capture>>)
      BY <1>2, <1>3, <1>4, <2>1, AppendSized, Zenon
    <3>2. (log \o pending) \o <<Capture>> = log \o (pending \o <<Capture>>)
      BY <1>2, <3>1, SizedAssociative
    <3> QED BY <2>1, <3>1, <3>2
  <2> QED BY <1>1, <1>2, <1>3, <1>5, <1>6, <2>1, <2>2, <2>3, PrimedSizes
<1>7. CASE ~ inTxn
  <2>1. log' = Append(log, Capture) /\ pending' = pending /\ pending = <<>>
    BY <1>2, <1>7 DEF LogChange
  <2>2. L = log
    BY <1>2, <2>1, SizedFacts
  <2>3. Sized(log')
    BY <1>2, <1>3, <2>1, AppendSized, Zenon
  <2>4. log' \o pending' = Append(L, Capture)
    BY <2>1, <2>2, <2>3, SizedFacts
  <2> QED BY <1>1, <1>2, <1>3, <1>5, <2>1, <2>3, <2>4, PrimedSizes
<1> QED
  BY <1>6, <1>7

LEMMA CrashSizes ==
  ASSUME SizeInv, Crash
  PROVE  SizeInv'
<1>1. /\ phase' = "recovering" /\ slots' = <<>> /\ pending' = <<>> /\ log' = log
      /\ applied' = 0 /\ Sized(log) /\ Sized(pending) /\ Ordered(log \o pending)
  BY DEF Crash, SizeInv
<1>2. Ordered(log) /\ log' \o pending' = log /\ Len(log) \in Nat
  BY <1>1, PrefixOrdered, SizedFacts
<1>3. IsSequence(slots') /\ Len(slots') = 0 /\ CapAfter(log', applied') = 0
  <2>1. <<>> \in Seq({}) /\ Len(<<>>) = 0
    OBVIOUS
  <2> QED BY <1>1, <2>1 DEF IsSequence, CapAfter
<1>4. applied' \in 0..Len(log')
  BY <1>1, <1>2
<1> QED
  BY <1>1, <1>2, <1>3, <1>4, EmptySized, PrimedSizes

LEMMA RedoSizes ==
  ASSUME SizeInv, Redo
  PROVE  SizeInv'
<1> DEFINE n == applied + 1
           c == log[n].capacity
<1>1. /\ phase = "recovering" /\ phase' = "recovering" /\ applied < Len(log)
      /\ applied' = n /\ UNCHANGED <<inTxn, pending, log>> /\ ApplyPageImages(log[n])
  BY DEF Redo, Goto, txnVars
<1>2. /\ Sized(log) /\ Sized(pending) /\ (inTxn \/ pending = <<>>) /\ pending = <<>>
      /\ Ordered(log \o pending) /\ applied \in 0..Len(log)
  BY <1>1 DEF SizeInv
<1>3. Len(log) \in Nat /\ \A i \in 1..Len(log) : log[i].capacity \in Nat
  BY <1>2, SizedFacts
<1>4. n \in 1..Len(log) /\ n \in 0..Len(log) /\ n # 0
  BY <1>1, <1>2, <1>3
<1> HIDE DEF n
<1>5. c \in Nat /\ CapAfter(log, n) = c
  BY <1>3, <1>4, SMTT(30) DEF CapAfter
<1>6. slots' = [r \in 1..c |-> IF Placed(pageDirectory', r)
                                THEN Slot(PageOf(r), OffsetOf(r), r \notin Range(log[n].free))
                                ELSE NoSlot]
  BY <1>1 DEF ApplyPageImages, Placed, OffsetOf
<1> HIDE DEF c
<1>7. IsSequence(slots') /\ Len(slots') = c
  <2> DEFINE T == {slots'[i] : i \in 1..c}
  <2>1. slots' \in [1..c -> T]
    BY <1>6
  <2> QED BY <1>5, <2>1, FunctionIsSeq DEF IsSequence
<1> QED
  BY <1>1, <1>2, <1>4, <1>5, <1>7, PrimedSizes

LEMMA EndRecoverySizes ==
  ASSUME SizeInv, EndRecovery
  PROVE  SizeInv'
<1>1. /\ phase = "recovering" /\ phase' = "ready" /\ applied = Len(log)
      /\ UNCHANGED <<slots, inTxn, pending, log>>
  BY DEF EndRecovery, Goto, pageVars, heapVars, txnVars
<1>2. /\ IsSequence(slots) /\ Sized(log) /\ Sized(pending) /\ pending = <<>>
      /\ Ordered(log \o pending) /\ Len(slots) = CapAfter(log, Len(log))
  BY <1>1 DEF SizeInv
<1>3. log \o pending = log /\ Len(slots) \in Nat
  BY <1>2, SizedFacts, LenProperties DEF IsSequence
<1> QED
  BY <1>1, <1>2, <1>3, PrimedSizes

LEMMA SizeInit ==
  RedoInit => SizeInv
<1>1. IsSequence(<<>>) /\ Len(<<>>) = 0 /\ 0 <= 0
  <2>1. <<>> \in Seq({}) /\ Len(<<>>) = 0
    OBVIOUS
  <2> QED BY <2>1 DEF IsSequence
<1> QED
  BY <1>1, EmptySized DEF RedoInit, Init, SizeInv

LEMMA SizeNextInv ==
  SizeInv /\ [RedoNext]_redoVars => SizeInv'
<1> SUFFICES ASSUME SizeInv, [RedoNext]_redoVars PROVE SizeInv'
  OBVIOUS
<1>1. CASE LogChange BY <1>1, LogChangeSizes
<1>2. CASE Crash BY <1>2, CrashSizes
<1>3. CASE Redo BY <1>3, RedoSizes
<1>4. CASE EndRecovery BY <1>4, EndRecoverySizes
<1>5. CASE StartStatement \/ StartRollback \/ Begin \/ Commit \/ EndRollback
  <2>1. SlotsKept /\ phase # "recovering" /\ phase' # "recovering"
    BY <1>5 DEF SlotsKept, StartStatement, ClearDirtyPages, StartRollback, Begin, Commit,
                EndRollback, Goto, pageVars, heapVars
  <2>2. \/ UNCHANGED <<log, pending, inTxn>>
        \/ (log' = log \/ log' = log \o pending) /\ pending' = <<>>
    BY <1>5 DEF StartStatement, StartRollback, Begin, Commit, EndRollback, txnVars
  <2> QED BY <2>1, <2>2, SizeQuiet
<1>6. CASE Change \/ RefusedInsert \/ UndoStep
  <2>1. /\ phase # "recovering" /\ phase' # "recovering"
        /\ UNCHANGED <<log, pending, inTxn>>
    BY <1>6 DEF Change, RefusedInsert, UndoStep, Goto, txnVars
  <2>2. SlotsKept
    <3>1. CASE \E row : Append1(row)
      BY <3>1, Zenon DEF SlotsKept, Append1, AppendNew, AppendReuse
    <3>2. CASE \E r, row : Update(r, row)
      BY <3>2 DEF SlotsKept, Update
    <3>3. CASE \E r : Erase(r)
      BY <3>3, Zenon DEF SlotsKept, Erase
    <3>4. CASE \E r, row : Revive(r, row)
      BY <3>4, Zenon DEF SlotsKept, Revive
    <3>5. CASE AppendRefused
      BY <3>5, Zenon DEF SlotsKept, AppendRefused
    <3>6. CASE Change
      BY <3>1, <3>2, <3>3, <3>6, Zenon DEF Change
    <3>7. CASE UndoStep
      BY <3>2, <3>3, <3>4, <3>7, Zenon DEF UndoStep
    <3>8. CASE RefusedInsert
      BY <3>5, <3>8, Zenon DEF RefusedInsert
    <3> QED BY <1>6, <3>6, <3>7, <3>8
  <2> QED BY <2>1, <2>2, SizeQuiet
<1>7. CASE UNCHANGED redoVars
  <2>1. UNCHANGED <<phase, slots, inTxn, pending, log, applied>>
    BY <1>7 DEF redoVars, txnVars, pageVars, heapVars
  <2> QED BY <2>1, PrimedSizes, Zenon DEF SizeInv
<1> QED
  BY <1>1, <1>2, <1>3, <1>4, <1>5, <1>6, <1>7 DEF RedoNext

(* The record that replay applies next is for at least as many slots.      *)
LEMMA NextCapacity ==
  ASSUME SizeInv, phase = "recovering", applied < Len(log)
  PROVE  log[applied + 1].capacity >= Len(slots)
<1>1. /\ Sized(log) /\ Sized(pending) /\ Ordered(log \o pending)
      /\ applied \in 0..Len(log) /\ Len(slots) = CapAfter(log, applied)
  BY DEF SizeInv
<1>2. Ordered(log) /\ Len(log) \in Nat /\ \A i \in 1..Len(log) : log[i].capacity \in Nat
  BY <1>1, PrefixOrdered, SizedFacts
<1>3. /\ applied \in Nat /\ applied <= applied + 1 /\ applied + 1 \in 1..Len(log)
      /\ (applied # 0 => applied \in 1..Len(log))
  BY <1>1, <1>2
<1>4. CASE applied = 0
  BY <1>1, <1>2, <1>3, <1>4 DEF CapAfter
<1>5. CASE applied # 0
  <2>1. log[applied].capacity <= log[applied + 1].capacity
    BY <1>2, <1>3, <1>5 DEF Ordered
  <2> QED BY <1>1, <1>2, <1>3, <1>5, <2>1 DEF CapAfter
<1> QED
  BY <1>4, <1>5

=============================================================================
