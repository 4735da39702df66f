--------------------------- MODULE PageRedoProofs ---------------------------
(***************************************************************************)
(* Page-image redo brings back the committed rows of a table, for every    *)
(* page size, number of slots, length of the log and number of rollbacks.  *)
(* The layout of the pages is here too, also that of the store by itself:  *)
(* only it needs the cardinality of a set.                                 *)
(***************************************************************************)
EXTENDS RedoLayoutProofs, PageRowStoreProofs, FiniteSetTheorems

-----------------------------------------------------------------------------
(* The steps that change or rebuild pages.                                 *)

LEMMA AppendHeap ==
  ASSUME HeapInv, NEW row \in Rows, Append1(row)
  PROVE  /\ HeapInv' /\ Changed(AppendedRow, row)
         /\ AppendedRow \in RowIds /\ Value(AppendedRow) = NoRow /\ (Whole => Whole')
<1>1. CASE AppendReuse(row)
  <2>1. freeList # <<>>
    BY <1>1 DEF AppendReuse
  <2>2. AppendedRow = Back(freeList)
    BY <2>1 DEF AppendedRow
  <2> QED BY <1>1, <2>2, AppendReuseHeap, HeapFacts DEF Value
<1>2. CASE freeList = <<>> /\ AppendNew(row)
  <2>1. AppendedRow = Len(slots) + 1
    BY <1>2 DEF AppendedRow
  <2>2. Len(slots) + 1 \in RowIds /\ Len(slots) + 1 \notin DOMAIN slots
    BY HeapFacts DEF RowIds
  <2> QED BY <1>2, <2>1, <2>2, AppendNewHeap DEF Value, Live
<1> QED
  BY <1>1, <1>2 DEF Append1

LEMMA ChangeStep ==
  ASSUME RedoInv, Change
  PROVE  RedoInv'
<1>1. /\ phase = "cleared" /\ phase' = "changed"
      /\ UNCHANGED <<inTxn, pending, log, applied, committed>>
  BY DEF Change, Goto
<1>2. HeapInv
  BY <1>1 DEF RedoInv
<1>3. CASE \E row \in Rows : Append1(row) /\ PushUndo("Insert", AppendedRow, NoRow)
  <2>1. PICK row \in Rows : Append1(row) /\ PushUndo("Insert", AppendedRow, NoRow)
    BY <1>3
  <2> DEFINE r == AppendedRow
  <2>2. HeapInv' /\ Changed(r, row) /\ r \in RowIds /\ Value(r) = NoRow
    BY <1>2, <2>1, AppendHeap
  <2> HIDE DEF r
  <2>3. PushUndo("Insert", r, Value(r))
    BY <2>1, <2>2 DEF r
  <2>4. [kind |-> "Insert", row |-> r, before |-> Value(r)] \in UndoRecords
    BY <2>2 DEF UndoRecords
  <2> QED BY <1>1, <2>2, <2>3, <2>4, ChangedStep
<1>4. CASE \E r \in DOMAIN slots, row \in Rows :
             Update(r, row) /\ PushUndo("Update", r, DirectoryRows[r])
  <2>1. PICK r \in DOMAIN slots, row \in Rows :
          Update(r, row) /\ PushUndo("Update", r, DirectoryRows[r])
    BY <1>4
  <2>2. HeapInv' /\ Changed(r, row)
    BY <1>2, <2>1, UpdateHeap
  <2>3. DirectoryRows[r] = Value(r) /\ Value(r) \in Rows /\ r \in RowIds
    BY <1>2, <2>1, RowBefore DEF Update
  <2>4. PushUndo("Update", r, Value(r))
    BY <2>1, <2>3
  <2>5. [kind |-> "Update", row |-> r, before |-> Value(r)] \in UndoRecords
    BY <2>3 DEF UndoRecords
  <2> QED BY <1>1, <2>2, <2>3, <2>4, <2>5, ChangedStep
<1>5. CASE \E r \in DOMAIN slots : Erase(r) /\ PushUndo("Delete", r, DirectoryRows[r])
  <2>1. PICK r \in DOMAIN slots : Erase(r) /\ PushUndo("Delete", r, DirectoryRows[r])
    BY <1>5
  <2>2. HeapInv' /\ Changed(r, NoRow)
    BY <1>2, <2>1, EraseHeap
  <2>3. DirectoryRows[r] = Value(r) /\ Value(r) \in Rows /\ r \in RowIds
    BY <1>2, <2>1, RowBefore DEF Erase
  <2>4. PushUndo("Delete", r, Value(r))
    BY <2>1, <2>3
  <2>5. [kind |-> "Delete", row |-> r, before |-> Value(r)] \in UndoRecords
    BY <2>3 DEF UndoRecords
  <2> QED BY <1>1, <2>2, <2>3, <2>4, <2>5, ChangedStep
<1> QED
  BY <1>3, <1>4, <1>5 DEF Change

LEMMA UndoStepStep ==
  ASSUME RedoInv, UndoStep
  PROVE  RedoInv'
<1> DEFINE u == Back(undo)
<1>1. /\ phase = "undoing" /\ phase' = "undoing" /\ undo # <<>> /\ undo' = PopBack(undo)
      /\ UNCHANGED <<inTxn, pending, log, applied, committed>>
  BY DEF UndoStep, Goto
<1>2. TxnInv /\ LogInv /\ HeapInv /\ UndoInv /\ inTxn /\ CapAfter(log, Len(log)) <= Len(slots)
  BY <1>1 DEF RedoInv, TxnInv
<1>3. undo \in Seq(UndoRecords)
  BY <1>2 DEF TxnInv
<1>4. u \in UndoRecords
  BY <1>1, <1>3, BackAppended
<1>5. HeapInv' /\ Changed(u.row, u.before)
  <2>1. CASE u.kind = "Insert" /\ Erase(u.row)
    <3>1. u.before = NoRow
      BY <1>4, <2>1 DEF UndoRecords
    <3>2. HeapInv' /\ Changed(u.row, NoRow)
      BY <1>2, <2>1, EraseHeap
    <3> QED BY <3>1, <3>2
  <2>2. CASE u.kind = "Update" /\ Update(u.row, u.before)
    <3>1. u.before \in Rows
      BY <1>4, <2>2 DEF UndoRecords
    <3> QED BY <1>2, <2>2, <3>1, UpdateHeap
  <2>3. CASE u.kind = "Delete" /\ Revive(u.row, u.before)
    <3>1. u.before \in Rows
      BY <1>4, <2>3 DEF UndoRecords
    <3> QED BY <1>2, <2>3, <3>1, ReviveHeap
  <2> QED BY <2>1, <2>2, <2>3 DEF UndoStep
<1> HIDE DEF u
<1>6. /\ \A k \in RowIds : Value(k)' = IF k = u.row THEN u.before ELSE Value(k)
      /\ Len(slots) <= Len(slots')
  BY <1>5 DEF Changed
<1>7. undo' \in Seq(UndoRecords) /\ \A k \in RowIds : OldValue(k)' = OldValue(k)
  BY <1>1, <1>3, <1>6, UndoPopped DEF u
<1>8. LogInv' /\ \A k : CommittedValue(k)' = CommittedValue(k)
  BY <1>1, <1>2, SameLog
<1>9. UndoInv'
  BY <1>2, <1>7, <1>8 DEF UndoInv
<1>10. TxnInv'
  BY <1>1, <1>2, <1>7 DEF TxnInv
<1>11. (CapAfter(log, Len(log)) <= Len(slots))'
  <2>1. CapAfter(log, Len(log)) \in Nat
    BY <1>2, LogSeqs, CapNat
  <2>2. Len(slots) \in Nat /\ Len(slots') \in Nat
    <3>1. slots' \in Seq(SlotRecords)
      BY <1>5 DEF HeapInv, SlotRecords
    <3> QED BY <1>2, <3>1, HeapFacts, LenProperties
  <2>3. CapAfter(log', Len(log')) <= Len(slots')
    BY <1>1, <1>2, <1>6, <2>1, <2>2
  <2> QED BY <2>3, PrimedLogs
<1> QED
  BY <1>1, <1>2, <1>5, <1>8, <1>9, <1>10, <1>11 DEF RedoInv

LEMMA RedoStep ==
  ASSUME RedoInv, Redo
  PROVE  RedoInv'
<1> DEFINE n == applied
           x == log[n + 1]
<1>1. /\ phase = "recovering" /\ phase' = "recovering" /\ n < Len(log)
      /\ ApplyPageImages(x) /\ applied' = n + 1
      /\ UNCHANGED <<inTxn, undo, pending, log, committed>>
  BY DEF Redo, Goto, txnVars
<1>2. TxnInv /\ LogInv /\ RebuiltInv
  BY <1>1 DEF RedoInv
<1>3. n \in Nat /\ n + 1 \in 1..Len(log) /\ x \in Images
  <2>1. n \in Nat /\ Len(log) \in Nat /\ \A i \in 1..Len(log) : log[i] \in Images
    BY <1>2, LenProperties, ElementOfSeq DEF TxnInv
  <2>2. n + 1 \in 1..Len(log)
    BY <1>1, <2>1
  <2> QED BY <2>1, <2>2
<1> HIDE DEF x
<1>4. x.capacity \in Nat /\ DOMAIN x.pages \subseteq Nat
  BY <1>3, ZenonT(30) DEF Images, PageMaps
<1>5. /\ pageDirectory' = Installed(x.pages) /\ freeList' = x.free /\ dirtyPages' = {}
      /\ slots' = [r \in 1..x.capacity |->
                    IF Placed(pageDirectory', r)
                      THEN Slot(PageOf(r), OffsetOf(r), r \notin Range(x.free)) ELSE NoSlot]
  BY <1>1 DEF ApplyPageImages, Placed, OffsetOf
<1>6. /\ DOMAIN pageDirectory' = DOMAIN pageDirectory \cup DOMAIN x.pages
      /\ \A p \in DOMAIN x.pages : pageDirectory'[p] = x.pages[p]
      /\ \A p \in DOMAIN pageDirectory \ DOMAIN x.pages : pageDirectory'[p] = pageDirectory[p]
  BY <1>5 DEF Installed
<1>7. /\ Held(log, n + 1) = Held(log, n) \cup DOMAIN x.pages
      /\ \A p \in DOMAIN x.pages : DirAfter(log, n + 1)[p] = x.pages[p]
      /\ \A p \in Held(log, n) \ DOMAIN x.pages :
           DirAfter(log, n + 1)[p] = DirAfter(log, n)[p]
      /\ CapAfter(log, n + 1) = x.capacity /\ FreeAfter(log, n + 1) = x.free
  BY <1>3, <1>4, NextRecord DEF x
<1>8. /\ DOMAIN pageDirectory = Held(log, n)
      /\ \A p \in DOMAIN pageDirectory : pageDirectory[p] = DirAfter(log, n)[p]
  BY <1>2 DEF RebuiltInv
<1>9. DOMAIN pageDirectory' = Held(log, n + 1)
  BY <1>6, <1>7, <1>8
<1>10. \A p \in DOMAIN pageDirectory' : pageDirectory'[p] = DirAfter(log, n + 1)[p]
  BY <1>6, <1>7, <1>8
<1>11. slots' \in Seq(SlotRecords) /\ Len(slots') = x.capacity /\ DOMAIN slots' = 1..x.capacity
  <2>1. \A r \in 1..x.capacity : PageOf(r) \in Nat /\ OffsetOf(r) \in Nat
    <3>1. \A r \in 1..x.capacity : r \in Nat \ {0}
      BY <1>4
    <3> QED BY <3>1, PositionOf
  <2>2. NoSlot \in SlotRecords
    BY DEF NoSlot, Slot, SlotRecords
  <2>3. \A r \in 1..x.capacity :
            Slot(PageOf(r), OffsetOf(r), r \notin Range(x.free)) \in SlotRecords
    BY <2>1 DEF Slot, SlotRecords
  <2>4. slots' \in [1..x.capacity -> SlotRecords]
    BY <1>5, <2>2, <2>3
  <2>5. DOMAIN slots' = 1..x.capacity
    BY <1>5
  <2> QED BY <1>4, <2>4, <2>5, FunctionIsSeq
<1>12. RebuiltInv'
  <2>1. applied' <= Len(log')
    BY <1>1, <1>3
  <2>2. Len(slots') = CapAfter(log', applied') /\ freeList' = FreeAfter(log', applied')
    BY <1>1, <1>5, <1>7, <1>11, ZenonT(30)
  <2>3. DOMAIN pageDirectory' = Held(log', applied')
    BY <1>1, <1>9
  <2>4. \A p \in DOMAIN pageDirectory' : pageDirectory'[p] = DirAfter(log', applied')[p]
    BY <1>1, <1>10
  <2>5. \A r \in DOMAIN slots' :
          slots'[r] = IF Placed(pageDirectory', r)
                        THEN Slot(PageOf(r), OffsetOf(r), r \notin Range(freeList')) ELSE NoSlot
    BY <1>5, <1>11
  <2> QED BY <1>11, <2>1, <2>2, <2>3, <2>4, <2>5, PrimedRebuilt
<1>13. TxnInv'
  BY <1>1, <1>2, <1>3, <1>5 DEF TxnInv
<1>14. LogInv'
  BY <1>1, <1>2, SameLog
<1>15. ~ inTxn'
  BY <1>1, <1>2 DEF TxnInv
<1> QED
  BY <1>1, <1>12, <1>13, <1>14, <1>15 DEF RedoInv

(* A refused INSERT is not forgotten.                                      *)
LEMMA RefusalStays ==
  ASSUME [RedoNext]_redoVars, refusal' = "none"
  PROVE  refusal = "none" /\ ~ RefusedInsert
<1>1. ~ RefusedInsert
  BY DEF RefusedInsert
<1>2. CASE Crash
  BY <1>1, <1>2 DEF Crash
<1>3. CASE RedoNext /\ ~ Crash
  <2>1. UNCHANGED refusal
    BY <1>1, <1>3 DEF RedoNext, StartStatement, Change, LogChange, Begin, Commit, StartRollback,
                      UndoStep, EndRollback, Redo, EndRecovery
  <2> QED BY <1>1, <2>1
<1>4. CASE UNCHANGED redoVars
  BY <1>1, <1>4 DEF redoVars
<1> QED
  BY <1>1, <1>2, <1>3, <1>4

LEMMA RedoNextInv ==
  RedoInv /\ ~ RefusedInsert /\ [RedoNext]_redoVars => RedoInv'
<1> SUFFICES ASSUME RedoInv, ~ RefusedInsert, [RedoNext]_redoVars PROVE RedoInv'
  OBVIOUS
<1>1. CASE StartStatement BY <1>1, StartStatementStep
<1>2. CASE Change BY <1>2, ChangeStep
<1>3. CASE LogChange BY <1>3, LogChangeStep
<1>4. CASE Begin BY <1>4, BeginStep
<1>5. CASE Commit BY <1>5, CommitStep
<1>6. CASE StartRollback BY <1>6, StartRollbackStep
<1>7. CASE UndoStep BY <1>7, UndoStepStep
<1>8. CASE EndRollback BY <1>8, EndRollbackStep
<1>9. CASE Crash BY <1>9, CrashStep
<1>10. CASE Redo BY <1>10, RedoStep
<1>11. CASE EndRecovery BY <1>11, EndRecoveryStep
<1>12. CASE UNCHANGED redoVars BY <1>12, RedoStutter
<1> QED
  BY <1>1, <1>2, <1>3, <1>4, <1>5, <1>6, <1>7, <1>8, <1>9, <1>10, <1>11, <1>12 DEF RedoNext

(* Until append refuses an INSERT: the log rebuilds the rows of the last   *)
(* commit at every moment, and the log with the open transaction's records *)
(* the rows of the table, at each statement, commit, undo step, crash and  *)
(* replayed record.                                                        *)
THEOREM RedoInvariance == RedoSpec => [](refusal = "none" => RedoInv)
<1>1. (refusal = "none" => RedoInv) /\ [RedoNext]_redoVars => (refusal = "none" => RedoInv)'
  BY RefusalStays, RedoNextInv
<1> QED
  BY <1>1, RedoInitInv, PTL DEF RedoSpec

(* RecoveryService brings the table back to exactly the rows of the last   *)
(* acknowledged commit, and so does ROLLBACK, whatever mix of statements,  *)
(* transactions, rollbacks and crashes went before, as long as append      *)
(* refused no INSERT for a reused slot without a page.                     *)
THEOREM CommittedRowsSurvive == RedoSpec => [](refusal = "none" => RowsAreCommitted)
<1> QED
  BY RedoInvariance, TableIsCommitted, PTL

-----------------------------------------------------------------------------
(* The layout of the recovered pages.                                      *)

LEMMA ChangeLayout ==
  ASSUME RedoInv, LayoutInv, Change
  PROVE  LayoutInv'
<1>1. phase = "cleared" /\ phase' = "changed" /\ UNCHANGED <<pending, log, rollbacks>>
  BY DEF Change, Goto
<1>2. HeapInv
  BY <1>1 DEF RedoInv
<1>3. CASE \E row \in Rows : Append1(row)
  BY <1>1, <1>2, <1>3, AppendHeap, ChangedLayout
<1>4. CASE \E r \in DOMAIN slots, row \in Rows : Update(r, row)
  BY <1>1, <1>2, <1>4, UpdateHeap, ChangedLayout
<1>5. CASE \E r \in DOMAIN slots : Erase(r)
  BY <1>1, <1>2, <1>5, EraseHeap, ChangedLayout
<1> QED
  BY <1>3, <1>4, <1>5 DEF Change

LEMMA LayoutSteps ==
  ASSUME RedoInv, LayoutInv, ~ RefusedInsert, [RedoNext]_redoVars
  PROVE  LayoutInv'
<1>1. CASE StartStatement BY <1>1, StartStatementLayout
<1>2. CASE Change BY <1>2, ChangeLayout
<1>3. CASE LogChange BY <1>3, LogChangeLayout
<1>4. CASE Begin BY <1>4, BeginLayout
<1>5. CASE Commit BY <1>5, CommitLayout
<1>6. CASE StartRollback BY <1>6, StartRollbackLayout
<1>7. CASE UndoStep \/ EndRollback BY <1>7, UndoLayout
<1>8. CASE Crash \/ Redo BY <1>8, CrashLayout
<1>9. CASE EndRecovery BY <1>9, EndRecoveryLayout
<1>10. CASE UNCHANGED redoVars BY <1>10, LayoutStutter
<1> QED
  BY <1>1, <1>2, <1>3, <1>4, <1>5, <1>6, <1>7, <1>8, <1>9, <1>10 DEF RedoNext

(* Every slot of a table that never rolled back has its page.              *)
LEMMA WholeNotRefused ==
  ASSUME HeapInv, Whole
  PROVE  ~ AppendRefused
<1> SUFFICES ASSUME freeList # <<>> PROVE HasPosition(Back(freeList))
  BY DEF AppendRefused
<1> DEFINE r == Back(freeList)
<1>1. freeList \in Seq(DOMAIN slots)
  BY DEF HeapInv
<1>2. r \in DOMAIN slots
  BY <1>1, BackAppended
<1> HIDE DEF r
<1>3. Placed(pageDirectory, r) /\ slots[r].page = PageOf(r) /\ slots[r].offset = OffsetOf(r)
  BY <1>2 DEF Whole
<1> QED
  BY <1>2, <1>3 DEF HasPosition, LoadPageRows, Placed, r

LEMMA LayoutNextInv ==
  (refusal = "none" => RedoInv) /\ RefusalInv /\ LayoutInv /\ [RedoNext]_redoVars
    => RefusalInv' /\ LayoutInv'
<1> SUFFICES ASSUME refusal = "none" => RedoInv, RefusalInv, LayoutInv, [RedoNext]_redoVars
             PROVE  RefusalInv' /\ LayoutInv'
  OBVIOUS
<1>1. rollbacks \in Nat /\ (rollbacks' = rollbacks \/ rollbacks' = rollbacks + 1)
  BY DEF LayoutInv, RedoNext, StartStatement, Change, RefusedInsert, LogChange, Begin, Commit,
         StartRollback, UndoStep, EndRollback, Crash, Redo, EndRecovery, redoVars
<1>2. CASE rollbacks # 0
  <2>1. rollbacks' \in Nat /\ rollbacks' # 0
    BY <1>1, <1>2
  <2> QED BY <2>1, LayoutNext DEF RefusalInv
<1>3. CASE rollbacks = 0
  <2>1. refusal = "none" /\ RedoInv
    BY <1>3 DEF RefusalInv
  <2>2. ~ RefusedInsert
    <3> SUFFICES ASSUME RefusedInsert PROVE FALSE
      OBVIOUS
    <3>1. phase = "cleared" /\ AppendRefused
      BY DEF RefusedInsert, Goto
    <3>2. HeapInv /\ Whole
      BY <1>3, <2>1, <3>1 DEF RedoInv, LayoutInv
    <3> QED BY <3>1, <3>2, WholeNotRefused
  <2>3. LayoutInv'
    BY <2>1, <2>2, LayoutSteps
  <2>4. refusal' = "none"
    BY <2>1, <2>2 DEF RedoNext, StartStatement, Change, LogChange, Begin, Commit, StartRollback,
                      UndoStep, EndRollback, Crash, Redo, EndRecovery, redoVars
  <2> QED BY <2>3, <2>4 DEF RefusalInv
<1> QED
  BY <1>2, <1>3

-----------------------------------------------------------------------------
(* The layout of the pages, of the store by itself and after recovery.     *)

(* A page has as many cells as slots.                                      *)
LEMMA PageIsFull ==
  ASSUME SlotInv, PageInv, NEW p \in DOMAIN pageDirectory
  PROVE  Len(pageDirectory[p]) = Cardinality({r \in DOMAIN slots : PageOf(r) = p})
<1> DEFINE page == pageDirectory[p]
           c == (p - 1) * RowsPerPage
           L == Len(page)
           Here == {r \in DOMAIN slots : PageOf(r) = p}
<1>1. page \in Pages /\ DOMAIN page = {o \in 1..RowsPerPage : c + o \in DOMAIN slots}
  BY DEF PageInv
<1>2. p \in Nat \ {0}
  <2>1. PICK r \in DOMAIN slots : p = PageOf(r)
    BY DEF PageInv
  <2>2. r \in Nat \ {0}
    BY SlotIds
  <2> QED BY <2>1, <2>2, PositionOf
<1>3. c \in Nat
  BY <1>2, RowsPerPageAssumption
<1>4. L \in Nat /\ DOMAIN page = 1..L
  BY <1>1, LenProperties, ZenonT(30) DEF Pages
<1> HIDE DEF page, L
<1>5. ASSUME NEW r \in Here PROVE r \in (c + 1)..(c + L)
  <2>1. r \in Nat \ {0} /\ r \in DOMAIN slots /\ PageOf(r) = p
    BY SlotIds
  <2>2. OffsetOf(r) \in 1..RowsPerPage /\ r = c + OffsetOf(r)
    BY <2>1, PositionOf
  <2>3. OffsetOf(r) \in 1..L
    BY <1>1, <1>4, <2>1, <2>2
  <2> HIDE DEF c
  <2> QED BY <1>3, <1>4, <2>2, <2>3
<1>6. ASSUME NEW r \in (c + 1)..(c + L) PROVE r \in Here
  <2> DEFINE o == r - c
  <2>1. o \in 1..L /\ r = c + o
    <3> HIDE DEF c
    <3> QED BY <1>3, <1>4
  <2> HIDE DEF o
  <2>2. o \in 1..RowsPerPage /\ c + o \in DOMAIN slots
    BY <1>1, <1>4, <2>1
  <2>3. PageOf(c + o) = p
    BY <1>2, <2>2, RowAt
  <2> QED BY <2>1, <2>2, <2>3
<1>7. Here = (c + 1)..(c + L)
  BY <1>5, <1>6
<1> HIDE DEF c, Here
<1>8. c + 1 \in Int /\ c + L \in Int
  BY <1>3, <1>4
<1>9. Cardinality((c + 1)..(c + L)) = IF c + 1 > c + L THEN 0 ELSE (c + L) - (c + 1) + 1
  BY <1>8, FS_Interval
<1>10. Cardinality(Here) = L
  BY <1>3, <1>4, <1>7, <1>9
<1> QED
  BY <1>10 DEF Here, L, page

LEMMA LayoutFromInv ==
  ASSUME SlotInv, PageInv, RowInv
  PROVE  LayoutIsValid
<1>1. DOMAIN pageDirectory = {PageOf(r) : r \in DOMAIN slots}
  BY DEF PageInv
<1>2. \A p \in DOMAIN pageDirectory :
        Len(pageDirectory[p]) = Cardinality({r \in DOMAIN slots : PageOf(r) = p})
  BY PageIsFull
<1>3. \A r \in DOMAIN slots : slots[r].page = PageOf(r) /\ slots[r].offset = OffsetOf(r)
  BY DEF SlotInv
<1>4. \A r \in DOMAIN slots : ~ slots[r].live => RowOf(r) = NoRow
  BY DEF RowInv
<1> QED
  BY <1>1, <1>2, <1>3, <1>4 DEF LayoutIsValid

(* validatePageStoreLayout accepts the exported pages at any time.         *)
THEOREM LayoutStaysValid == Spec => []LayoutIsValid
<1>1. IInv => LayoutIsValid
  BY LayoutFromInv DEF IInv
<1> QED
  BY <1>1, StoreInvariance, PTL

LEMMA WholeIsValid ==
  ASSUME HeapInv, Whole
  PROVE  LayoutIsValid
<1>1. Len(slots) \in Nat /\ DOMAIN slots = 1..Len(slots) /\ DirInv(pageDirectory, Len(slots))
  BY HeapFacts DEF HeapInv
<1>2. \A r \in 1..Len(slots) : Placed(pageDirectory, r)
  BY <1>1 DEF Whole
<1>3. SlotInv
  BY DEF HeapInv, Whole, SlotInv
<1>4. PageInv
  <2>1. /\ DOMAIN pageDirectory = {PageOf(r) : r \in 1..Len(slots)}
        /\ \A p \in DOMAIN pageDirectory :
             /\ pageDirectory[p] \in Pages
             /\ DOMAIN pageDirectory[p] =
                  {o \in 1..RowsPerPage : (p - 1) * RowsPerPage + o \in 1..Len(slots)}
    BY <1>1, <1>2, AllPlaced, Zenon
  <2> QED BY <1>1, <2>1 DEF PageInv
<1>5. RowInv
  BY RowsAssumption DEF HeapInv, Whole, RowInv
<1> QED
  BY <1>3, <1>4, <1>5, LayoutFromInv

LEMMA ReadyLayout ==
  (refusal = "none" => RedoInv) /\ RefusalInv /\ LayoutInv => RecoveredLayoutIsValid
<1> SUFFICES ASSUME RedoInv, LayoutInv, phase = "ready", rollbacks = 0 PROVE LayoutIsValid
  BY DEF RecoveredLayoutIsValid, RefusalInv
<1> QED
  BY WholeIsValid DEF RedoInv, LayoutInv

(* Without rollbacks, the pages that RecoveryService rebuilds are those    *)
(* validatePageStoreLayout accepts: each row id has the cell its number    *)
(* determines, and a free slot its tombstone, for any number of crashes.   *)
THEOREM RecoveredLayoutStaysValid == RedoSpec => []RecoveredLayoutIsValid
<1>1. RedoInit => RefusalInv
  BY DEF RedoInit, RefusalInv
<1>2. RedoSpec => []RefusalInv /\ []LayoutInv
  <2>1. RedoSpec => [](refusal = "none" => RedoInv)
    BY RedoInvariance
  <2> QED BY <1>1, <2>1, LayoutInit, LayoutNextInv, PTL DEF RedoSpec
<1> QED
  BY <1>2, RedoInvariance, ReadyLayout, PTL

-----------------------------------------------------------------------------
(* Neither recovery nor a rollback is refused.                             *)

LEMMA ChangeChain ==
  ASSUME RedoInv, ChainInv, Change
  PROVE  ChainInv'
<1>1. phase = "cleared"
  BY DEF Change, Goto
<1>2. HeapInv
  BY <1>1 DEF RedoInv
<1>3. CASE \E row \in Rows : Append1(row) /\ PushUndo("Insert", AppendedRow, NoRow)
  <2>1. PICK row \in Rows : Append1(row) /\ PushUndo("Insert", AppendedRow, NoRow)
    BY <1>3
  <2> DEFINE r == AppendedRow
  <2>2. HeapInv' /\ Changed(r, row) /\ r \in RowIds /\ Value(r) = NoRow
    BY <1>2, <2>1, AppendHeap
  <2>3. \/ \E x : slots' = Append(slots, x)
        \/ \E k \in DOMAIN slots : slots' = [slots EXCEPT ![k].live = TRUE]
    <3>1. CASE AppendReuse(row)
      <4>1. freeList \in Seq(DOMAIN slots) /\ freeList # <<>>
        BY <1>2, <3>1 DEF HeapInv, AppendReuse
      <4>2. Back(freeList) \in DOMAIN slots
        BY <4>1, BackAppended
      <4> QED BY <3>1, <4>2, ZenonT(30) DEF AppendReuse
    <3>2. CASE AppendNew(row)
      BY <3>2, Zenon DEF AppendNew
    <3> QED BY <2>1, <3>1, <3>2 DEF Append1
  <2>4. \A k \in DOMAIN slots : k \in DOMAIN slots' /\ slots'[k].page = slots[k].page
    BY <1>2, <2>3, PagesStay, ZenonT(30)
  <2> HIDE DEF r
  <2>5. PushUndo("Insert", r, Value(r))
    BY <2>1, <2>2 DEF r
  <2>6. [kind |-> "Insert", row |-> r, before |-> Value(r)] \in UndoRecords
    BY <2>2 DEF UndoRecords
  <2>7. row # NoRow
    BY RowsAssumption
  <2> QED BY <1>1, <2>2, <2>4, <2>5, <2>6, <2>7, ChangedChain
<1>4. CASE \E r \in DOMAIN slots, row \in Rows :
             Update(r, row) /\ PushUndo("Update", r, DirectoryRows[r])
  <2>1. PICK r \in DOMAIN slots, row \in Rows :
          Update(r, row) /\ PushUndo("Update", r, DirectoryRows[r])
    BY <1>4
  <2>2. HeapInv' /\ Changed(r, row)
    BY <1>2, <2>1, UpdateHeap
  <2>3. DirectoryRows[r] = Value(r) /\ Value(r) \in Rows /\ r \in RowIds
    BY <1>2, <2>1, RowBefore DEF Update
  <2>4. \A k \in DOMAIN slots : k \in DOMAIN slots' /\ slots'[k].page = slots[k].page
    BY <2>1 DEF Update
  <2>5. PushUndo("Update", r, Value(r))
    BY <2>1, <2>3
  <2>6. [kind |-> "Update", row |-> r, before |-> Value(r)] \in UndoRecords
    BY <2>3 DEF UndoRecords
  <2>7. row # NoRow
    BY RowsAssumption
  <2> QED BY <1>1, <2>2, <2>3, <2>4, <2>5, <2>6, <2>7, ChangedChain
<1>5. CASE \E r \in DOMAIN slots : Erase(r) /\ PushUndo("Delete", r, DirectoryRows[r])
  <2>1. PICK r \in DOMAIN slots : Erase(r) /\ PushUndo("Delete", r, DirectoryRows[r])
    BY <1>5
  <2>2. HeapInv' /\ Changed(r, NoRow)
    BY <1>2, <2>1, EraseHeap
  <2>3. DirectoryRows[r] = Value(r) /\ Value(r) \in Rows /\ r \in RowIds
    BY <1>2, <2>1, RowBefore DEF Erase
  <2>4. \A k \in DOMAIN slots : k \in DOMAIN slots' /\ slots'[k].page = slots[k].page
    <3>1. slots' = [slots EXCEPT ![r].live = FALSE]
      BY <2>1 DEF Erase
    <3> QED BY <1>2, <3>1, PagesStay
  <2>5. PushUndo("Delete", r, Value(r))
    BY <2>1, <2>3
  <2>6. [kind |-> "Delete", row |-> r, before |-> Value(r)] \in UndoRecords
    BY <2>3 DEF UndoRecords
  <2> QED BY <1>1, <2>2, <2>3, <2>4, <2>5, <2>6, ChangedChain
<1> QED
  BY <1>3, <1>4, <1>5 DEF Change

LEMMA UndoStepChain ==
  ASSUME RedoInv, ChainInv, UndoStep
  PROVE  ChainInv'
<1> DEFINE u == Back(undo)
<1>1. phase = "undoing" /\ undo # <<>> /\ undo' = PopBack(undo)
  BY DEF UndoStep, Goto
<1>2. HeapInv /\ undo \in Seq(UndoRecords)
  BY <1>1 DEF RedoInv, TxnInv
<1>3. u \in UndoRecords
  BY <1>1, <1>2, BackAppended
<1>4. CASE u.kind = "Insert" /\ Erase(u.row)
  <2>1. u.before = NoRow
    BY <1>3, <1>4 DEF UndoRecords
  <2>2. Changed(u.row, NoRow)
    BY <1>2, <1>4, EraseHeap
  <2>3. slots' = [slots EXCEPT ![u.row].live = FALSE] /\ u.row \in DOMAIN slots
    BY <1>4 DEF Erase, Live
  <2>4. \A k \in RowIds : Value(k)' = IF k = u.row THEN u.before ELSE Value(k)
    BY <2>1, <2>2 DEF Changed
  <2> QED BY <1>1, <1>2, <2>3, <2>4, PagesStay, ChainPopped
<1>5. CASE u.kind = "Update" /\ Update(u.row, u.before)
  <2>1. u.before \in Rows
    BY <1>3, <1>5 DEF UndoRecords
  <2>2. Changed(u.row, u.before)
    BY <1>2, <1>5, <2>1, UpdateHeap
  <2>3. slots' = slots
    BY <1>5 DEF Update
  <2>4. \A k \in RowIds : Value(k)' = IF k = u.row THEN u.before ELSE Value(k)
    BY <2>2 DEF Changed
  <2> QED BY <1>1, <1>2, <2>3, <2>4, PagesStay, ChainPopped
<1>6. CASE u.kind = "Delete" /\ Revive(u.row, u.before)
  <2>1. u.before \in Rows
    BY <1>3, <1>6 DEF UndoRecords
  <2>2. Changed(u.row, u.before)
    BY <1>2, <1>6, <2>1, ReviveHeap
  <2>3. slots' = [slots EXCEPT ![u.row].live = TRUE] /\ u.row \in DOMAIN slots
    BY <1>6 DEF Revive
  <2>4. \A k \in RowIds : Value(k)' = IF k = u.row THEN u.before ELSE Value(k)
    BY <2>2 DEF Changed
  <2> QED BY <1>1, <1>2, <2>3, <2>4, PagesStay, ChainPopped
<1> QED
  BY <1>4, <1>5, <1>6 DEF UndoStep

LEMMA ChainNextInv ==
  RedoInv /\ ChainInv /\ ~ RefusedInsert /\ [RedoNext]_redoVars => ChainInv'
<1> SUFFICES ASSUME RedoInv, ChainInv, ~ RefusedInsert, [RedoNext]_redoVars PROVE ChainInv'
  OBVIOUS
<1>1. CASE Change BY <1>1, ChangeChain
<1>2. CASE UndoStep BY <1>2, UndoStepChain
<1>3. CASE StartStatement \/ LogChange \/ StartRollback \/ EndRollback \/ EndRecovery
             \/ UNCHANGED redoVars
  <2>1. UNCHANGED <<slots, freeList, pageDirectory, undo>>
    BY <1>3 DEF StartStatement, ClearDirtyPages, LogChange, StartRollback, EndRollback,
                EndRecovery, redoVars, txnVars, pageVars, heapVars
  <2> QED BY <2>1, ChainQuiet
<1>4. CASE Begin \/ Commit \/ Crash
  <2>1. undo' = <<>>
    BY <1>4 DEF Begin, Commit, Crash
  <2> QED BY <2>1, ChainEmpty
<1>5. CASE Redo
  <2>1. phase = "recovering" /\ undo' = undo
    BY <1>5 DEF Redo, Goto, txnVars
  <2>2. undo = <<>>
    BY <2>1 DEF RedoInv, TxnInv
  <2> QED BY <2>1, <2>2, ChainEmpty
<1> QED
  BY <1>1, <1>2, <1>3, <1>4, <1>5 DEF RedoNext

(* The row of the last undo record is as the undo of the record needs it.  *)
LEMMA LastUndoFits ==
  ASSUME RedoInv, ChainInv, phase = "undoing", undo # <<>>
  PROVE  LET u == Back(undo) IN
         /\ u.row \in DOMAIN slots /\ HasPosition(u.row)
         /\ IF u.kind = "Delete" THEN ~ Live(u.row) /\ u.row \in Range(freeList)
                                 ELSE Live(u.row)
<1> DEFINE u == Back(undo)
           n == Len(undo)
           r == u.row
<1>1. HeapInv /\ undo \in Seq(UndoRecords)
  BY DEF RedoInv, TxnInv
<1>2. n \in Nat /\ n # 0 /\ DOMAIN undo = 1..n /\ n \in 1..n
  BY <1>1, LenProperties, EmptySeq
<1>3. u = undo[n]
  BY DEF Back
<1> HIDE DEF u, n
<1>4. Latest(undo, n)
  BY <1>2 DEF Latest
<1>5. r \in RowIds
  BY <1>1, <1>2, <1>3, RowsOfUndo
<1>6. u.kind = "Delete" <=> Value(r) = NoRow
  BY <1>2, <1>3, <1>4, <1>5 DEF ChainInv
<1>7. r \in DOMAIN slots /\ slots[r].page = PageOf(r)
  BY <1>2, <1>3 DEF ChainInv
<1> HIDE DEF r
<1>8. Value(r) = NoRow <=> ~ Live(r)
  BY <1>1, <1>7, HeapFacts, RowsAssumption DEF Live, Value
<1>9. ~ Live(r) => r \in Range(freeList)
  BY <1>1, <1>7, HeapFacts DEF Live
<1>10. HasPosition(r)
  <2>1. PageOf(r) # 0
    BY <1>5, PositionOf DEF RowIds
  <2>2. Placed(pageDirectory, r) /\ slots[r].offset = OffsetOf(r)
    BY <1>1, <1>7, <2>1 DEF HeapInv, SlotOK
  <2> QED BY <1>7, <2>2 DEF HasPosition, LoadPageRows, Placed
<1> QED
  BY <1>6, <1>7, <1>8, <1>9, <1>10 DEF u, r

(* applyPageImages accepts the next record of the log: the guard of Redo   *)
(* holds whenever a record is left.                                        *)
ReplayIsAccepted ==
  phase = "recovering" /\ applied < Len(log) => log[applied + 1].capacity >= Len(slots)

(* Replay never meets "page image capacity cannot shrink below current     *)
(* slots", after any statements, rollbacks, refused INSERTs and crashes.   *)
THEOREM ReplayGoesOn == RedoSpec => []ReplayIsAccepted
<1>1. SizeInv => ReplayIsAccepted
  BY NextCapacity DEF ReplayIsAccepted
<1> QED
  BY <1>1, SizeInit, SizeNextInv, PTL DEF RedoSpec

(* The undo of the last record finds the slot with a row to erase or       *)
(* update, or free to be revived: the guard of UndoStep holds as long as   *)
(* an undo record is left.                                                 *)
UndoIsAccepted ==
  phase = "undoing" /\ undo # <<>> =>
    LET u == Back(undo) IN
    /\ u.row \in DOMAIN slots /\ HasPosition(u.row)
    /\ IF u.kind = "Delete" THEN ~ Live(u.row) /\ u.row \in Range(freeList)
                            ELSE Live(u.row)

(* ROLLBACK never meets a row it cannot undo, also on a table that         *)
(* recovery rebuilt with slots that have no page, as long as append        *)
(* refused no INSERT for such a slot.                                      *)
THEOREM RollbackGoesOn == RedoSpec => [](refusal = "none" => UndoIsAccepted)
<1>1. /\ (refusal = "none" => RedoInv) /\ (refusal = "none" => ChainInv)
      /\ [RedoNext]_redoVars
      => (refusal = "none" => ChainInv)'
  BY RefusalStays, ChainNextInv
<1>2. RedoSpec => [](refusal = "none" => ChainInv)
  <2>1. RedoSpec => [](refusal = "none" => RedoInv)
    BY RedoInvariance
  <2> QED BY <1>1, <2>1, ChainInit, PTL DEF RedoSpec
<1>3. RedoInv /\ ChainInv => UndoIsAccepted
  BY LastUndoFits DEF UndoIsAccepted
<1> QED
  BY <1>2, <1>3, RedoInvariance, PTL

=============================================================================
