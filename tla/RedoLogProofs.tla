---------------------------- MODULE RedoLogProofs ---------------------------
(***************************************************************************)
(* What the redo log, the undo records and the heap have of the rows of a  *)
(* table, and the steps of PageRedo that do not change or rebuild a page.  *)
(***************************************************************************)
EXTENDS PageRedo, PageHeap, VectorsProofs

-----------------------------------------------------------------------------
(* What recovery makes of the first n records of a log.                    *)

PageMaps == UNION {[D -> Pages] : D \in SUBSET Nat}
Images == [capacity : Nat, free : Seq(Nat), pages : PageMaps]

(* The last record that holds a page decides what is in it.                *)
Holders(L, n, p) == {i \in 1..n : p \in DOMAIN L[i].pages}
Held(L, n) == {p \in Nat : Holders(L, n, p) # {}}
DirAfter(L, n) == [p \in Held(L, n) |-> L[Max(Holders(L, n, p))].pages[p]]
CapAfter(L, n) == IF n = 0 THEN 0 ELSE L[n].capacity
FreeAfter(L, n) == IF n = 0 THEN <<>> ELSE L[n].free

Cell(dir, r) == dir[PageOf(r)][OffsetOf(r)]

(* The row a log has for a row id.                                         *)
Kept(L, n, r) ==
  r \in 1..CapAfter(L, n) /\ r \notin Range(FreeAfter(L, n)) /\ Placed(DirAfter(L, n), r)
LogValue(L, n, r) == IF Kept(L, n, r) THEN Cell(DirAfter(L, n), r) ELSE NoRow

(* A log whose records rebuild a heap: a slot is free or has a row.        *)
Good(L) ==
  LET n == Len(L) IN
  /\ DirInv(DirAfter(L, n), CapAfter(L, n))
  /\ FreeAfter(L, n) \in Seq(1..CapAfter(L, n)) /\ IsInjective(FreeAfter(L, n))
  /\ \A r \in 1..CapAfter(L, n) :
       r \notin Range(FreeAfter(L, n)) => Placed(DirAfter(L, n), r) /\ LogValue(L, n, r) \in Rows

-----------------------------------------------------------------------------
(* The heap.                                                               *)

(* The row the table had at the last commit.                               *)
CommittedValue(r) == IF r \in DOMAIN committed THEN committed[r] ELSE NoRow

CommittedInv ==
  /\ committed = [r \in DOMAIN committed |-> committed[r]]
  /\ DOMAIN committed \subseteq RowIds
  /\ \A r \in DOMAIN committed : committed[r] \in Rows

(* In recovery: the heap that the records applied so far describe.         *)
RebuiltInv ==
  /\ applied <= Len(log)
  /\ slots \in Seq([page : Nat, offset : Nat, live : BOOLEAN])
  /\ Len(slots) = CapAfter(log, applied) /\ freeList = FreeAfter(log, applied)
  /\ DOMAIN pageDirectory = Held(log, applied)
  /\ \A p \in DOMAIN pageDirectory : pageDirectory[p] = DirAfter(log, applied)[p]
  /\ \A r \in DOMAIN slots :
       slots[r] = IF Placed(pageDirectory, r)
                    THEN Slot(PageOf(r), OffsetOf(r), r \notin Range(freeList)) ELSE NoSlot

-----------------------------------------------------------------------------
(* Log and undo records.                                                   *)

UndoRecords ==
  [kind : {"Insert"}, row : RowIds, before : {NoRow}]
    \cup [kind : {"Update", "Delete"}, row : RowIds, before : Rows]

(* The first undo record on a row has its value before the transaction.    *)
OnRow(s, r) == {i \in DOMAIN s : s[i].row = r}
HasUndo(s, r) == OnRow(s, r) # {}
FirstUndo(s, r) == s[Min(OnRow(s, r))]
OldValue(r) == IF HasUndo(undo, r) THEN FirstUndo(undo, r).before ELSE Value(r)
UndoInv == \A r \in RowIds : OldValue(r) = CommittedValue(r)

(* The log with the records of the open transaction has the table's rows,  *)
(* but for the pages the current statement has changed.                    *)
Unlogged == IF phase = "changed" THEN dirtyPages ELSE {}
LoggedInv ==
  LET L == log \o pending
      n == Len(log \o pending)
  IN /\ Good(L) /\ CapAfter(L, n) <= Len(slots)
     /\ \A r \in RowIds : PageOf(r) \notin Unlogged => LogValue(L, n, r) = Value(r)

TxnInv ==
  /\ phase \in {"ready", "cleared", "changed", "undoing", "recovering"}
  /\ inTxn \in BOOLEAN /\ applied \in Nat
  /\ undo \in Seq(UndoRecords) /\ pending \in Seq(Images) /\ log \in Seq(Images)
  /\ ~ inTxn => undo = <<>> /\ pending = <<>>
  /\ phase = "undoing" => inTxn
  /\ phase = "recovering" => ~ inTxn
  /\ phase = "cleared" => dirtyPages = {}
  /\ phase = "changed" => dirtyPages \subseteq DOMAIN pageDirectory

LogInv ==
  /\ CommittedInv
  /\ Good(log) /\ \A r \in RowIds : LogValue(log, Len(log), r) = CommittedValue(r)

RedoInv ==
  /\ TxnInv /\ LogInv
  /\ phase = "recovering" => RebuiltInv
  /\ phase # "recovering" => HeapInv /\ CapAfter(log, Len(log)) <= Len(slots)
  /\ phase \in {"ready", "cleared", "changed"} => LoggedInv
  /\ inTxn \/ phase \in {"ready", "cleared"} => UndoInv

-----------------------------------------------------------------------------
(* Lemmas on logs.                                                         *)

LEMMA LastHolder ==
  ASSUME NEW L, NEW n \in Nat, NEW p \in Held(L, n)
  PROVE  /\ Max(Holders(L, n, p)) \in 1..n
         /\ p \in DOMAIN L[Max(Holders(L, n, p))].pages
<1>1. Holders(L, n, p) \subseteq 1..n /\ Holders(L, n, p) # {}
  BY DEF Holders, Held
<1>2. Max(Holders(L, n, p)) \in Holders(L, n, p)
  BY <1>1, LargestOf
<1> QED
  BY <1>2 DEF Holders

(* What recovery makes of n records depends on these records only.         *)
LEMMA SamePrefix ==
  ASSUME NEW L, NEW M, NEW n \in Nat, \A i \in 1..n : L[i] = M[i]
  PROVE  /\ Held(L, n) = Held(M, n) /\ DirAfter(L, n) = DirAfter(M, n)
         /\ CapAfter(L, n) = CapAfter(M, n) /\ FreeAfter(L, n) = FreeAfter(M, n)
<1>1. \A p : Holders(L, n, p) = Holders(M, n, p)
  BY DEF Holders
<1>2. Held(L, n) = Held(M, n)
  BY <1>1 DEF Held
<1>3. \A p \in Held(L, n) :
        L[Max(Holders(L, n, p))].pages[p] = M[Max(Holders(M, n, p))].pages[p]
  BY <1>1, LastHolder
<1>4. DirAfter(L, n) = DirAfter(M, n)
  BY <1>2, <1>3 DEF DirAfter
<1>5. n # 0 => n \in 1..n
  OBVIOUS
<1> QED
  BY <1>2, <1>4, <1>5 DEF CapAfter, FreeAfter

(* The next record replaces the pages it holds.                            *)
LEMMA NextRecord ==
  ASSUME NEW L, NEW n \in Nat, DOMAIN L[n + 1].pages \subseteq Nat
  PROVE  /\ Held(L, n + 1) = Held(L, n) \cup DOMAIN L[n + 1].pages
         /\ \A p \in DOMAIN L[n + 1].pages : DirAfter(L, n + 1)[p] = L[n + 1].pages[p]
         /\ \A p \in Held(L, n) \ DOMAIN L[n + 1].pages :
              DirAfter(L, n + 1)[p] = DirAfter(L, n)[p]
         /\ CapAfter(L, n + 1) = L[n + 1].capacity /\ FreeAfter(L, n + 1) = L[n + 1].free
<1> DEFINE m == n + 1
<1>1. 1..m = 1..n \cup {m} /\ m \in Nat /\ m # 0
  OBVIOUS
<1> HIDE DEF m
<1>2. ASSUME NEW p \in DOMAIN L[m].pages
      PROVE  p \in Held(L, m) /\ Max(Holders(L, m, p)) = m
  <2>1. m \in Holders(L, m, p) /\ Holders(L, m, p) \subseteq 1..m
    BY <1>1 DEF Holders
  <2>2. p \in Held(L, m)
    BY <2>1 DEF Held, m
  <2>3. Max(Holders(L, m, p)) \in 1..m /\ Max(Holders(L, m, p)) >= m
    BY <1>1, <2>1, LargestOf
  <2> QED BY <1>1, <2>2, <2>3
<1>3. \A p : p \notin DOMAIN L[m].pages => Holders(L, m, p) = Holders(L, n, p)
  BY <1>1 DEF Holders
<1>4. Held(L, m) = Held(L, n) \cup DOMAIN L[m].pages
  <2>1. \A p \in Held(L, m) : p \in Held(L, n) \cup DOMAIN L[m].pages
    BY <1>3 DEF Held
  <2>2. \A p \in Held(L, n) : p \in Held(L, m)
    BY <1>1 DEF Held, Holders
  <2> QED BY <1>2, <2>1, <2>2
<1>5. \A p \in DOMAIN L[m].pages : DirAfter(L, m)[p] = L[m].pages[p]
  BY <1>2 DEF DirAfter
<1>6. \A p \in Held(L, n) \ DOMAIN L[m].pages : DirAfter(L, m)[p] = DirAfter(L, n)[p]
  BY <1>3, <1>4 DEF DirAfter
<1> QED
  BY <1>1, <1>4, <1>5, <1>6 DEF m, CapAfter, FreeAfter

LEMMA AppendRecord ==
  ASSUME NEW L \in Seq(Images), NEW x \in Images
  PROVE  LET M == Append(L, x)
             n == Len(L)
         IN /\ M \in Seq(Images) /\ Len(M) = n + 1 /\ n \in Nat
            /\ Held(M, Len(M)) = Held(L, n) \cup DOMAIN x.pages
            /\ \A p \in DOMAIN x.pages : DirAfter(M, Len(M))[p] = x.pages[p]
            /\ \A p \in Held(L, n) \ DOMAIN x.pages : DirAfter(M, Len(M))[p] = DirAfter(L, n)[p]
            /\ CapAfter(M, Len(M)) = x.capacity /\ FreeAfter(M, Len(M)) = x.free
<1> DEFINE M == Append(L, x)
           n == Len(L)
<1>1. /\ n \in Nat /\ M \in Seq(Images) /\ Len(M) = n + 1
      /\ \A i \in 1..n : L[i] = M[i]
      /\ M[n + 1] = x
  BY AppendProperties, LenProperties
<1>2. DOMAIN x.pages \subseteq Nat
  BY Zenon DEF Images, PageMaps
<1> HIDE DEF M, n
<1>3. Held(L, n) = Held(M, n) /\ DirAfter(L, n) = DirAfter(M, n)
  BY <1>1, SamePrefix
<1>4. /\ Held(M, n + 1) = Held(M, n) \cup DOMAIN M[n + 1].pages
      /\ \A p \in DOMAIN M[n + 1].pages : DirAfter(M, n + 1)[p] = M[n + 1].pages[p]
      /\ \A p \in Held(M, n) \ DOMAIN M[n + 1].pages :
           DirAfter(M, n + 1)[p] = DirAfter(M, n)[p]
      /\ CapAfter(M, n + 1) = M[n + 1].capacity /\ FreeAfter(M, n + 1) = M[n + 1].free
  BY <1>1, <1>2, NextRecord, Zenon
<1> QED
  BY <1>1, <1>3, <1>4 DEF M, n

(* The empty log.                                                          *)
LEMMA EmptyLog ==
  /\ Good(<<>>) /\ CapAfter(<<>>, 0) = 0 /\ FreeAfter(<<>>, 0) = <<>> /\ Held(<<>>, 0) = {}
  /\ \A r \in RowIds : LogValue(<<>>, 0, r) = NoRow
<1>1. CapAfter(<<>>, 0) = 0 /\ FreeAfter(<<>>, 0) = <<>>
  BY DEF CapAfter, FreeAfter
<1>2. Held(<<>>, 0) = {}
  BY DEF Held, Holders
<1>3. DOMAIN DirAfter(<<>>, 0) = {}
  BY <1>2 DEF DirAfter
<1>4. DirInv(DirAfter(<<>>, 0), 0)
  BY <1>3 DEF DirInv
<1>5. \A r : r \notin 1..0
  OBVIOUS
<1>6. <<>> \in Seq(1..0) /\ IsInjective(<<>>) /\ Len(<<>>) = 0
  BY DEF IsInjective
<1>7. \A r \in RowIds : LogValue(<<>>, 0, r) = NoRow
  BY <1>1, <1>5 DEF LogValue, Kept
<1>8. Good(<<>>)
  BY <1>1, <1>4, <1>5, <1>6, Zenon DEF Good
<1> QED
  BY <1>1, <1>2, <1>7, <1>8

-----------------------------------------------------------------------------
(* Lemmas on the heap.                                                     *)

LEMMA HeapFacts ==
  ASSUME HeapInv
  PROVE  /\ Len(slots) \in Nat /\ DOMAIN slots = 1..Len(slots)
         /\ \A r \in DOMAIN slots : r \in RowIds
         /\ \A r \in RowIds : Value(r) # NoRow => Live(r) /\ Value(r) = RowOf(r)
         /\ \A r \in DOMAIN slots :
              slots[r].live => /\ Placed(pageDirectory, r) /\ Value(r) \in Rows
                               /\ r \notin Range(freeList)
         /\ \A r \in DOMAIN slots : ~ slots[r].live => r \in Range(freeList)
<1>1. Len(slots) \in Nat /\ DOMAIN slots = 1..Len(slots)
  BY LenProperties DEF HeapInv
<1>2. \A r \in DOMAIN slots : r \in RowIds
  BY <1>1 DEF RowIds
<1>3. \A r \in DOMAIN slots :
        slots[r].live => /\ Placed(pageDirectory, r) /\ Value(r) \in Rows
                         /\ r \notin Range(freeList)
  BY DEF HeapInv, SlotOK, Value, Live
<1>4. \A r \in DOMAIN slots : ~ slots[r].live => r \in Range(freeList)
  BY DEF HeapInv
<1>5. \A r \in RowIds : Value(r) # NoRow => Live(r) /\ Value(r) = RowOf(r)
  BY DEF Value
<1> QED
  BY <1>1, <1>2, <1>3, <1>4, <1>5

(* A log has the rows of the table when every live row is kept by it.      *)
LEMMA LogHasRows ==
  ASSUME HeapInv, NEW L, NEW n,
         CapAfter(L, n) = Len(slots), FreeAfter(L, n) = freeList,
         \A r \in DOMAIN slots :
           slots[r].live => /\ Placed(DirAfter(L, n), r) /\ Cell(DirAfter(L, n), r) = RowOf(r)
  PROVE  \A r \in RowIds : LogValue(L, n, r) = Value(r)
<1> SUFFICES ASSUME NEW r \in RowIds PROVE LogValue(L, n, r) = Value(r)
  OBVIOUS
<1>1. DOMAIN slots = 1..CapAfter(L, n)
  BY HeapFacts
<1>2. CASE Live(r)
  <2>1. r \in DOMAIN slots /\ slots[r].live
    BY <1>2 DEF Live
  <2>2. Kept(L, n, r)
    BY <1>1, <2>1, HeapFacts DEF Kept
  <2> QED BY <1>2, <2>1, <2>2 DEF LogValue, Value
<1>3. CASE ~ Live(r)
  <2>1. r \in DOMAIN slots => r \in Range(freeList)
    BY <1>3, HeapFacts DEF Live
  <2>2. ~ Kept(L, n, r)
    BY <1>1, <2>1 DEF Kept
  <2> QED BY <1>3, <2>2 DEF LogValue, Value
<1> QED
  BY <1>2, <1>3

(* The dirty pages of a statement, with capacity and free list, are all    *)
(* that a log needs to have the rows of the table again.                   *)
LEMMA CaptureLogs ==
  ASSUME HeapInv, dirtyPages \subseteq DOMAIN pageDirectory,
         NEW L \in Seq(Images), Good(L), CapAfter(L, Len(L)) <= Len(slots),
         \A r \in RowIds : PageOf(r) \notin dirtyPages => LogValue(L, Len(L), r) = Value(r)
  PROVE  LET M == Append(L, Capture)
         IN /\ Capture \in Images /\ M \in Seq(Images)
            /\ Good(M) /\ CapAfter(M, Len(M)) = Len(slots) /\ FreeAfter(M, Len(M)) = freeList
            /\ \A r \in RowIds : LogValue(M, Len(M), r) = Value(r)
<1> DEFINE x == Capture
           M == Append(L, x)
           n == Len(L)
           m == Len(M)
<1>1. /\ Len(slots) \in Nat /\ DOMAIN slots = 1..Len(slots)
      /\ \A r \in DOMAIN slots : r \in RowIds
  BY HeapFacts
<1>2. DirInv(pageDirectory, Len(slots))
  BY DEF HeapInv
<1>3. /\ x.capacity = Len(slots) /\ x.free = freeList
      /\ DOMAIN x.pages = dirtyPages /\ \A p \in dirtyPages : x.pages[p] = pageDirectory[p]
  BY DEF Capture, Restrict
<1>4. x \in Images
  <2>1. freeList \in Seq(Nat)
    <3>1. freeList \in Seq(DOMAIN slots)
      BY DEF HeapInv
    <3>2. DOMAIN slots \subseteq Nat
      BY <1>1
    <3> QED BY <3>1, <3>2
  <2>2. dirtyPages \in SUBSET Nat /\ \A p \in dirtyPages : pageDirectory[p] \in Pages
    BY <1>2 DEF DirInv
  <2>3. Restrict(pageDirectory, dirtyPages) \in [dirtyPages -> Pages]
    BY <2>2 DEF Restrict
  <2>4. Restrict(pageDirectory, dirtyPages) \in PageMaps
    BY <2>2, <2>3 DEF PageMaps
  <2> QED BY <1>1, <2>1, <2>4 DEF Capture, Images
<1> HIDE DEF x
<1>5. /\ M \in Seq(Images) /\ m = n + 1 /\ n \in Nat
      /\ Held(M, m) = Held(L, n) \cup dirtyPages
      /\ \A p \in dirtyPages : DirAfter(M, m)[p] = pageDirectory[p]
      /\ \A p \in Held(L, n) \ dirtyPages : DirAfter(M, m)[p] = DirAfter(L, n)[p]
      /\ CapAfter(M, m) = Len(slots) /\ FreeAfter(M, m) = freeList
  BY <1>3, <1>4, AppendRecord
<1> HIDE DEF M, n, m
<1>6. DOMAIN DirAfter(M, m) = Held(M, m) /\ DOMAIN DirAfter(L, n) = Held(L, n)
  BY DEF DirAfter
<1>7. DirInv(DirAfter(M, m), Len(slots))
  <2> SUFFICES ASSUME NEW p \in Held(M, m)
               PROVE  /\ p \in Nat \ {0} /\ DirAfter(M, m)[p] \in Pages
                      /\ DirAfter(M, m)[p] # <<>>
                      /\ \A o \in DOMAIN DirAfter(M, m)[p] :
                           o \in 1..RowsPerPage /\ (p - 1) * RowsPerPage + o \in 1..Len(slots)
    BY <1>6 DEF DirInv
  <2>1. CASE p \in dirtyPages
    BY <1>2, <1>5, <2>1 DEF DirInv
  <2>2. CASE p \notin dirtyPages
    <3>1. p \in Held(L, n) /\ DirAfter(M, m)[p] = DirAfter(L, n)[p]
      BY <1>5, <2>2
    <3>2. DirInv(DirAfter(L, n), CapAfter(L, n)) /\ CapAfter(L, n) <= Len(slots)
      BY DEF Good, n
    <3>3. \A k \in 1..CapAfter(L, n) : k \in 1..Len(slots)
      <4>1. CapAfter(L, n) \in Nat
        <5>1. n \in 1..n => L[n] \in Images
          BY LenProperties DEF n
        <5> QED BY <1>5, <5>1 DEF CapAfter, Images
      <4> QED BY <1>1, <3>2, <4>1
    <3> QED BY <1>6, <3>1, <3>2, <3>3 DEF DirInv
  <2> QED BY <2>1, <2>2
<1>8. ASSUME NEW r \in DOMAIN slots, slots[r].live
      PROVE  Placed(DirAfter(M, m), r) /\ Cell(DirAfter(M, m), r) = RowOf(r)
  <2>1. r \in RowIds /\ Placed(pageDirectory, r) /\ Value(r) \in Rows /\ Value(r) = RowOf(r)
    BY <1>1, <1>8, HeapFacts DEF Value, Live
  <2>2. CASE PageOf(r) \in dirtyPages
    BY <1>5, <1>6, <2>1, <2>2 DEF Placed, Cell, RowOf
  <2>3. CASE PageOf(r) \notin dirtyPages
    <3>1. LogValue(L, n, r) = Value(r)
      BY <2>1, <2>3 DEF n
    <3>2. Kept(L, n, r) /\ Cell(DirAfter(L, n), r) = Value(r)
      BY <2>1, <3>1, RowsAssumption DEF LogValue
    <3>3. PageOf(r) \in Held(L, n) /\ OffsetOf(r) \in DOMAIN DirAfter(L, n)[PageOf(r)]
      BY <1>6, <3>2 DEF Kept, Placed
    <3> QED BY <1>5, <1>6, <2>1, <2>3, <3>2, <3>3 DEF Placed, Cell
  <2> QED BY <2>2, <2>3
<1>9. \A r \in RowIds : LogValue(M, m, r) = Value(r)
  BY <1>5, <1>8, LogHasRows
<1>10. Good(M)
  <2>1. freeList \in Seq(1..Len(slots)) /\ IsInjective(freeList)
    BY <1>1 DEF HeapInv
  <2>2. ASSUME NEW r \in 1..Len(slots), r \notin Range(freeList)
        PROVE  Placed(DirAfter(M, m), r) /\ LogValue(M, m, r) \in Rows
    <3>1. r \in DOMAIN slots /\ slots[r].live /\ r \in RowIds
      BY <1>1, <2>2, HeapFacts
    <3> QED BY <1>8, <1>9, <3>1, HeapFacts
  <2> QED BY <1>5, <1>7, <2>1, <2>2 DEF Good, m
<1> QED
  BY <1>4, <1>5, <1>9, <1>10 DEF M, m, x

(* The row DmlEngine remembers for undo.                                   *)
LEMMA RowBefore ==
  ASSUME HeapInv, NEW r \in DOMAIN slots, Live(r)
  PROVE  DirectoryRows[r] = Value(r) /\ Value(r) \in Rows /\ r \in RowIds
<1>1. slots[r].live
  BY DEF Live
<1>2. slots[r].page = PageOf(r) /\ slots[r].offset = OffsetOf(r)
  BY <1>1 DEF HeapInv, SlotOK
<1>3. Value(r) = RowOf(r)
  BY DEF Value
<1> QED
  BY <1>1, <1>2, <1>3, HeapFacts DEF DirectoryRows, RowOf

(* In a heap without a refused INSERT every live slot has its row.         *)
LEMMA RowsOfLive ==
  ASSUME HeapInv
  PROVE  LiveRows = [r \in {k \in DOMAIN slots : slots[k].live} |-> DirectoryRows[r]]
<1> DEFINE D == {k \in DOMAIN slots : slots[k].live}
           E == {k \in DOMAIN slots : slots[k].live /\ HasPosition(k)}
<1>1. ASSUME NEW k \in DOMAIN slots, slots[k].live PROVE HasPosition(k)
  <2>1. slots[k].page = PageOf(k) /\ slots[k].offset = OffsetOf(k) /\ Placed(pageDirectory, k)
    BY <1>1 DEF HeapInv, SlotOK
  <2> QED BY <2>1 DEF HasPosition, LoadPageRows, Placed
<1>2. D = E
  BY <1>1
<1>3. LiveRows = [r \in E |-> DirectoryRows[r]]
  BY DEF LiveRows, Restrict
<1> HIDE DEF D, E
<1>4. LiveRows = [r \in D |-> DirectoryRows[r]]
  BY <1>2, <1>3
<1> QED
  BY <1>4 DEF D

-----------------------------------------------------------------------------
(* Lemmas on undo records.                                                 *)

(* Adding a record at the end adds a first record only on a row without    *)
(* one.                                                                    *)
LEMMA FirstOnRow ==
  ASSUME NEW s \in Seq(UndoRecords), NEW x \in UndoRecords, NEW k
  PROVE  LET t == Append(s, x)
         IN /\ HasUndo(s, k) => HasUndo(t, k) /\ FirstUndo(t, k) = FirstUndo(s, k)
            /\ ~ HasUndo(s, k) /\ x.row = k => HasUndo(t, k) /\ FirstUndo(t, k) = x
            /\ ~ HasUndo(s, k) /\ x.row # k => ~ HasUndo(t, k)
<1> DEFINE t == Append(s, x)
           n == Len(s)
<1>1. /\ n \in Nat /\ DOMAIN s = 1..n /\ DOMAIN t = 1..(n + 1)
      /\ \A i \in 1..n : t[i] = s[i]
      /\ t[n + 1] = x
  BY LenProperties, AppendProperties
<1> HIDE DEF t, n
<1>2. OnRow(s, k) \subseteq OnRow(t, k) /\ OnRow(s, k) \subseteq 1..n
  BY <1>1 DEF OnRow
<1>3. \A i \in OnRow(t, k) : i \in Nat /\ (i \in OnRow(s, k) \/ (i = n + 1 /\ x.row = k))
  BY <1>1 DEF OnRow
<1>4. CASE OnRow(s, k) # {}
  <2> DEFINE m == Min(OnRow(s, k))
  <2>1. m \in OnRow(s, k) /\ \A i \in OnRow(s, k) : m <= i
    BY <1>2, <1>4, MinIsSmallest
  <2> HIDE DEF m
  <2>2. m \in 1..n /\ m \in OnRow(t, k)
    BY <1>2, <2>1
  <2>3. \A i \in OnRow(t, k) : m <= i
    BY <1>1, <1>3, <2>1, <2>2
  <2>4. OnRow(t, k) \subseteq Nat
    BY <1>3
  <2>5. Min(OnRow(t, k)) = m
    BY <2>2, <2>3, <2>4, MinIsUnique
  <2>6. t[Min(OnRow(t, k))] = s[m]
    BY <1>1, <2>2, <2>5
  <2> QED BY <1>4, <2>2, <2>6 DEF m, t, HasUndo, FirstUndo
<1>5. CASE OnRow(s, k) = {} /\ x.row = k
  <2>1. n + 1 \in OnRow(t, k)
    BY <1>1, <1>5 DEF OnRow
  <2>2. OnRow(t, k) = {n + 1}
    BY <1>3, <1>5, <2>1
  <2>3. Min(OnRow(t, k)) = n + 1
    <3>1. n + 1 \in OnRow(t, k) /\ \A i \in OnRow(t, k) : n + 1 <= i
      BY <1>1, <2>2
    <3>2. OnRow(t, k) \subseteq Nat
      BY <1>3
    <3> QED BY <3>1, <3>2, MinIsUnique
  <2> QED BY <1>1, <1>5, <2>1, <2>3 DEF t, HasUndo, FirstUndo
<1>6. CASE OnRow(s, k) = {} /\ x.row # k
  BY <1>3, <1>6 DEF t, HasUndo
<1> QED
  BY <1>4, <1>5, <1>6 DEF HasUndo

(* A change and its undo record leave the old values what they were.       *)
LEMMA UndoPushed ==
  ASSUME undo \in Seq(UndoRecords), NEW x \in UndoRecords, undo' = Append(undo, x),
         x.before = Value(x.row), \A k \in RowIds : k # x.row => Value(k)' = Value(k)
  PROVE  \A k \in RowIds : OldValue(k)' = OldValue(k)
<1> SUFFICES ASSUME NEW k \in RowIds PROVE OldValue(k)' = OldValue(k)
  OBVIOUS
<1>1. OldValue(k)' = IF HasUndo(undo', k) THEN FirstUndo(undo', k).before ELSE Value(k)'
  BY DEF OldValue, HasUndo, FirstUndo, OnRow
<1>2. OldValue(k) = IF HasUndo(undo, k) THEN FirstUndo(undo, k).before ELSE Value(k)
  BY DEF OldValue
<1>3. /\ HasUndo(undo, k) => HasUndo(undo', k) /\ FirstUndo(undo', k) = FirstUndo(undo, k)
      /\ ~ HasUndo(undo, k) /\ x.row = k => HasUndo(undo', k) /\ FirstUndo(undo', k) = x
      /\ ~ HasUndo(undo, k) /\ x.row # k => ~ HasUndo(undo', k)
  BY FirstOnRow
<1> QED
  BY <1>1, <1>2, <1>3

(* Undoing the last record leaves the old values what they were.           *)
LEMMA UndoPopped ==
  ASSUME undo \in Seq(UndoRecords), undo # <<>>, undo' = PopBack(undo),
         \A k \in RowIds : Value(k)' = IF k = Back(undo).row THEN Back(undo).before ELSE Value(k)
  PROVE  undo' \in Seq(UndoRecords) /\ \A k \in RowIds : OldValue(k)' = OldValue(k)
<1> DEFINE x == Back(undo)
           s == PopBack(undo)
<1>1. s \in Seq(UndoRecords) /\ x \in UndoRecords /\ undo = Append(s, x)
  BY BackAppended
<1> HIDE DEF s, x
<1> SUFFICES ASSUME NEW k \in RowIds PROVE OldValue(k)' = OldValue(k)
  BY <1>1 DEF s
<1>2. OldValue(k)' = IF HasUndo(s, k) THEN FirstUndo(s, k).before ELSE Value(k)'
  BY DEF OldValue, HasUndo, FirstUndo, OnRow, s
<1>3. OldValue(k) = IF HasUndo(undo, k) THEN FirstUndo(undo, k).before ELSE Value(k)
  BY DEF OldValue
<1>4. /\ HasUndo(s, k) => HasUndo(undo, k) /\ FirstUndo(undo, k) = FirstUndo(s, k)
      /\ ~ HasUndo(s, k) /\ x.row = k => HasUndo(undo, k) /\ FirstUndo(undo, k) = x
      /\ ~ HasUndo(s, k) /\ x.row # k => ~ HasUndo(undo, k)
  BY <1>1, FirstOnRow
<1>5. Value(k)' = IF k = x.row THEN x.before ELSE Value(k)
  BY DEF x
<1> QED
  BY <1>2, <1>3, <1>4, <1>5

LEMMA NothingToUndo ==
  ASSUME undo = <<>>
  PROVE  \A k \in RowIds : OldValue(k) = Value(k)
BY DEF OldValue, HasUndo, OnRow

-----------------------------------------------------------------------------
(* Lemmas on what a step leaves alone.                                     *)

LEMMA SameHeap ==
  ASSUME UNCHANGED <<slots, freeList, pageDirectory>>
  PROVE  (HeapInv' <=> HeapInv) /\ \A k : Value(k)' = Value(k)
<1>1. \A k : Value(k)' = Value(k)
  BY DEF Value, Live, RowOf
<1>2. \A k : SlotOK(k)' <=> SlotOK(k)
  BY DEF SlotOK, Placed
<1>3. DirInv(pageDirectory, Len(slots))' <=> DirInv(pageDirectory, Len(slots))
  BY DEF DirInv
<1>4. \A k : RowOf(k)' = RowOf(k)
  BY DEF RowOf
<1> QED
  BY <1>1, <1>2, <1>3, <1>4 DEF HeapInv

LEMMA SameOldValues ==
  ASSUME UNCHANGED <<slots, pageDirectory, undo>>
  PROVE  \A k : OldValue(k)' = OldValue(k)
BY DEF OldValue, HasUndo, FirstUndo, OnRow, Value, Live, RowOf

LEMMA SameLog ==
  ASSUME UNCHANGED <<log, committed>>
  PROVE  (LogInv' <=> LogInv) /\ \A k : CommittedValue(k)' = CommittedValue(k)
<1>1. \A k : CommittedValue(k)' = CommittedValue(k)
  BY DEF CommittedValue
<1>2. CommittedInv' <=> CommittedInv
  BY DEF CommittedInv
<1>3. Good(log)' <=> Good(log)
  BY DEF Good, DirInv, DirAfter, Held, Holders, CapAfter, FreeAfter, LogValue, Kept, Placed, Cell
<1>4. \A r : LogValue(log, Len(log), r)' = LogValue(log, Len(log), r)
  BY DEF DirAfter, Held, Holders, CapAfter, FreeAfter, LogValue, Kept, Placed, Cell
<1> QED
  BY <1>1, <1>2, <1>3, <1>4 DEF LogInv

(* The invariants of the next state, in terms of its log.                  *)
LEMMA PrimedLogs ==
  /\ LogInv' <=>
       /\ CommittedInv' /\ Good(log')
       /\ \A r \in RowIds : LogValue(log', Len(log'), r) = CommittedValue(r)'
  /\ LoggedInv' <=>
       LET L == log' \o pending'
           n == Len(log' \o pending')
       IN /\ Good(L) /\ CapAfter(L, n) <= Len(slots')
          /\ \A r \in RowIds : PageOf(r) \notin Unlogged' => LogValue(L, n, r) = Value(r)'
  /\ CapAfter(log, Len(log))' = CapAfter(log', Len(log'))
<1>1. /\ Good(log)' <=> Good(log')
      /\ \A r : LogValue(log, Len(log), r)' = LogValue(log', Len(log'), r)
      /\ CapAfter(log, Len(log))' = CapAfter(log', Len(log'))
  BY ZenonT(30)
     DEF Good, DirInv, DirAfter, Held, Holders, CapAfter, FreeAfter, LogValue, Kept, Placed, Cell
<1> DEFINE L == log \o pending
<1>2. /\ Good(L)' <=> Good(L')
      /\ \A r : LogValue(L, Len(L), r)' = LogValue(L', Len(L'), r)
      /\ CapAfter(L, Len(L))' = CapAfter(L', Len(L'))
  BY Zenon
     DEF Good, DirInv, DirAfter, Held, Holders, CapAfter, FreeAfter, LogValue, Kept, Placed, Cell
<1> QED
  BY <1>1, <1>2 DEF LogInv, LoggedInv

LEMMA CapNat ==
  ASSUME NEW L \in Seq(Images)
  PROVE  CapAfter(L, Len(L)) \in Nat
<1>1. Len(L) \in Nat /\ \A i \in 1..Len(L) : L[i] \in Images
  BY LenProperties, ElementOfSeq
<1>2. Len(L) # 0 => L[Len(L)] \in Images
  BY <1>1
<1> QED
  BY <1>2 DEF CapAfter, Images

LEMMA LogSeqs ==
  ASSUME TxnInv
  PROVE  /\ log \in Seq(Images) /\ pending \in Seq(Images) /\ log \o pending \in Seq(Images)
         /\ log \o <<>> = log
BY ConcatProperties, ConcatEmptySeq DEF TxnInv

(* The rows that become the committed ones.                                *)
LEMMA NewCommitted ==
  ASSUME HeapInv, committed' = LiveRows
  PROVE  CommittedInv' /\ \A r \in RowIds : CommittedValue(r)' = Value(r)
<1> DEFINE D == {r \in DOMAIN slots : slots[r].live}
<1>1. /\ LiveRows = [r \in D |-> DirectoryRows[r]] /\ DOMAIN LiveRows = D
      /\ \A r \in D : LiveRows[r] = DirectoryRows[r]
  BY RowsOfLive
<1>2. \A r \in D : DirectoryRows[r] = Value(r) /\ Value(r) \in Rows /\ r \in RowIds
  BY RowBefore DEF Live
<1>3. \A r \in RowIds : r \notin D => Value(r) = NoRow
  BY DEF Value, Live
<1>4. \A r : CommittedValue(r)' = IF r \in DOMAIN committed' THEN committed'[r] ELSE NoRow
  BY DEF CommittedValue
<1>5. \A r \in RowIds : CommittedValue(r)' = Value(r)
  BY <1>1, <1>2, <1>3, <1>4, ZenonT(30)
<1>6. committed' = [r \in DOMAIN committed' |-> committed'[r]]
  BY <1>1
<1>7. CommittedInv'
  BY <1>1, <1>2, <1>6 DEF CommittedInv
<1> QED
  BY <1>5, <1>7

-----------------------------------------------------------------------------
(* The steps.                                                              *)

(* A step that leaves heap, log, undo records and last commit alone.       *)
LEMMA QuietStep ==
  ASSUME RedoInv, UNCHANGED <<slots, freeList, pageDirectory, undo, pending, log, committed>>
  PROVE  /\ LogInv' /\ (HeapInv => HeapInv') /\ (UndoInv => UndoInv')
         /\ CapAfter(log, Len(log))' = CapAfter(log, Len(log)) /\ Len(slots') = Len(slots)
         /\ LoggedInv /\ Unlogged = {} /\ Unlogged' = {} => LoggedInv'
<1>1. LogInv /\ (LogInv' <=> LogInv) /\ \A k : CommittedValue(k)' = CommittedValue(k)
  BY SameLog DEF RedoInv
<1>2. (HeapInv' <=> HeapInv) /\ \A k : Value(k)' = Value(k)
  BY SameHeap
<1>3. UndoInv => UndoInv'
  BY <1>1, SameOldValues DEF UndoInv
<1>4. ASSUME LoggedInv, Unlogged = {}, Unlogged' = {} PROVE LoggedInv'
  <2> DEFINE L == log \o pending
             n == Len(L)
  <2>1. /\ Good(L) /\ CapAfter(L, n) <= Len(slots)
        /\ \A r \in RowIds : LogValue(L, n, r) = Value(r)
    BY <1>4 DEF LoggedInv
  <2>2. log' \o pending' = L
    OBVIOUS
  <2> HIDE DEF L
  <2>3. /\ Good(log' \o pending')
        /\ CapAfter(log' \o pending', Len(log' \o pending')) <= Len(slots')
        /\ \A r \in RowIds : LogValue(log' \o pending', Len(log' \o pending'), r) = Value(r)'
    BY <1>2, <2>1, <2>2
  <2> QED BY <2>3, PrimedLogs
<1>5. CapAfter(log, Len(log))' = CapAfter(log, Len(log))
  BY DEF CapAfter
<1> QED
  BY <1>1, <1>2, <1>3, <1>4, <1>5

LEMMA StartStatementStep ==
  ASSUME RedoInv, StartStatement
  PROVE  RedoInv'
<1>1. /\ phase = "ready" /\ phase' = "cleared" /\ dirtyPages' = {} /\ inTxn' = inTxn
      /\ applied' = applied
      /\ UNCHANGED <<slots, freeList, pageDirectory, undo, pending, log, committed>>
  BY DEF StartStatement, Goto, ClearDirtyPages, heapVars, txnVars
<1>2. TxnInv'
  BY <1>1 DEF RedoInv, TxnInv
<1>3. /\ HeapInv /\ UndoInv /\ LoggedInv /\ CapAfter(log, Len(log)) <= Len(slots)
  BY <1>1 DEF RedoInv
<1>4. Unlogged = {} /\ Unlogged' = {}
  BY <1>1 DEF Unlogged
<1>5. LogInv' /\ HeapInv' /\ UndoInv' /\ LoggedInv' /\ (CapAfter(log, Len(log)) <= Len(slots))'
  BY <1>1, <1>3, <1>4, QuietStep
<1> QED
  BY <1>1, <1>2, <1>5 DEF RedoInv

LEMMA BeginStep ==
  ASSUME RedoInv, Begin
  PROVE  RedoInv'
<1>1. /\ phase = "ready" /\ phase' = "ready" /\ ~ inTxn /\ inTxn' = TRUE
      /\ undo' = <<>> /\ pending' = <<>>
      /\ UNCHANGED <<slots, freeList, pageDirectory, dirtyPages, applied, log, committed>>
  BY DEF Begin, Goto, pageVars, heapVars
<1>2. undo' = undo /\ pending' = pending
  BY <1>1 DEF RedoInv, TxnInv
<1>3. TxnInv'
  BY <1>1, <1>2 DEF RedoInv, TxnInv
<1>4. /\ HeapInv /\ UndoInv /\ LoggedInv /\ CapAfter(log, Len(log)) <= Len(slots)
  BY <1>1 DEF RedoInv
<1>5. Unlogged = {} /\ Unlogged' = {}
  BY <1>1 DEF Unlogged
<1>6. LogInv' /\ HeapInv' /\ UndoInv' /\ LoggedInv' /\ (CapAfter(log, Len(log)) <= Len(slots))'
  BY <1>1, <1>2, <1>4, <1>5, QuietStep
<1> QED
  BY <1>1, <1>3, <1>6 DEF RedoInv

LEMMA StartRollbackStep ==
  ASSUME RedoInv, StartRollback
  PROVE  RedoInv'
<1>1. /\ phase = "ready" /\ phase' = "undoing" /\ inTxn /\ inTxn' = inTxn
      /\ UNCHANGED <<slots, freeList, pageDirectory, dirtyPages, applied,
                     undo, pending, log, committed>>
  BY DEF StartRollback, Goto, pageVars, heapVars, txnVars
<1>2. TxnInv'
  BY <1>1 DEF RedoInv, TxnInv
<1>3. HeapInv /\ UndoInv /\ CapAfter(log, Len(log)) <= Len(slots)
  BY <1>1 DEF RedoInv
<1>4. LogInv' /\ HeapInv' /\ UndoInv' /\ (CapAfter(log, Len(log)) <= Len(slots))'
  BY <1>1, <1>3, QuietStep
<1> QED
  BY <1>1, <1>2, <1>4 DEF RedoInv

(* The log alone has the rows of the table.                                *)
LEMMA LoggedAlone ==
  ASSUME pending' = <<>>, log' \in Seq(Images), Good(log'),
         CapAfter(log', Len(log')) <= Len(slots'),
         \A r \in RowIds : LogValue(log', Len(log'), r) = Value(r)'
  PROVE  LoggedInv'
<1>1. log' \o pending' = log'
  BY ConcatEmptySeq
<1>2. /\ Good(log' \o pending')
      /\ CapAfter(log' \o pending', Len(log' \o pending')) <= Len(slots')
      /\ \A r \in RowIds : LogValue(log' \o pending', Len(log' \o pending'), r) = Value(r)'
  BY <1>1
<1> QED
  BY <1>2, PrimedLogs

LEMMA EndRollbackStep ==
  ASSUME RedoInv, EndRollback
  PROVE  RedoInv'
<1>1. /\ phase = "undoing" /\ phase' = "ready" /\ undo = <<>> /\ inTxn' = FALSE
      /\ pending' = <<>>
      /\ UNCHANGED <<slots, freeList, pageDirectory, dirtyPages, applied, undo, log, committed>>
  BY DEF EndRollback, Goto, pageVars, heapVars
<1>2. TxnInv /\ inTxn /\ HeapInv /\ UndoInv /\ LogInv /\ CapAfter(log, Len(log)) <= Len(slots)
  BY <1>1 DEF RedoInv, TxnInv
<1>3. TxnInv'
  <2>1. <<>> \in Seq(Images)
    OBVIOUS
  <2> QED BY <1>1, <1>2, <2>1, ZenonT(30) DEF TxnInv
<1>4. LogInv' /\ \A k : CommittedValue(k)' = CommittedValue(k)
  BY <1>1, <1>2, SameLog
<1>5. HeapInv' /\ \A k : Value(k)' = Value(k)
  BY <1>1, <1>2, SameHeap
<1>6. UndoInv'
  BY <1>1, <1>2, <1>4, SameOldValues DEF UndoInv
<1>7. \A r \in RowIds : Value(r) = CommittedValue(r)
  BY <1>1, <1>2, NothingToUndo DEF UndoInv
<1>8. LoggedInv'
  <2>1. \A r \in RowIds : LogValue(log', Len(log'), r) = Value(r)'
    BY <1>1, <1>2, <1>5, <1>7 DEF LogInv
  <2>2. Good(log') /\ log' \in Seq(Images) /\ CapAfter(log', Len(log')) <= Len(slots')
    BY <1>1, <1>2 DEF LogInv, TxnInv
  <2> QED BY <1>1, <2>1, <2>2, LoggedAlone
<1>9. (CapAfter(log, Len(log)) <= Len(slots))'
  BY <1>1, <1>2 DEF CapAfter
<1> QED
  BY <1>1, <1>3, <1>4, <1>5, <1>6, <1>8, <1>9 DEF RedoInv

LEMMA CommitStep ==
  ASSUME RedoInv, Commit
  PROVE  RedoInv'
<1>1. /\ phase = "ready" /\ phase' = "ready" /\ inTxn' = FALSE /\ undo' = <<>> /\ pending' = <<>>
      /\ log' = log \o pending /\ committed' = LiveRows
      /\ UNCHANGED <<slots, freeList, pageDirectory, dirtyPages, applied>>
  BY DEF Commit, Goto, pageVars, heapVars
<1>2. TxnInv /\ HeapInv /\ LoggedInv
  BY <1>1 DEF RedoInv
<1>3. log' \in Seq(Images)
  BY <1>1, <1>2, LogSeqs
<1>4. TxnInv'
  <2>1. <<>> \in Seq(Images) /\ <<>> \in Seq(UndoRecords)
    OBVIOUS
  <2> QED BY <1>1, <1>2, <1>3, <2>1, ZenonT(30) DEF TxnInv
<1>5. HeapInv' /\ \A k : Value(k)' = Value(k)
  BY <1>1, <1>2, SameHeap
<1>6. CommittedInv' /\ \A r \in RowIds : CommittedValue(r)' = Value(r)
  BY <1>1, <1>2, NewCommitted
<1>7. /\ Good(log') /\ CapAfter(log', Len(log')) <= Len(slots')
      /\ \A r \in RowIds : LogValue(log', Len(log'), r) = Value(r)
  <2>1. Unlogged = {}
    BY <1>1 DEF Unlogged
  <2> QED BY <1>1, <1>2, <2>1 DEF LoggedInv
<1>8. LogInv'
  BY <1>6, <1>7, PrimedLogs
<1>9. LoggedInv'
  BY <1>1, <1>3, <1>5, <1>7, LoggedAlone
<1>10. UndoInv'
  <2>1. \A k \in RowIds : OldValue(k)' = Value(k)'
    BY <1>1 DEF OldValue, HasUndo, OnRow
  <2> QED BY <1>5, <1>6, <2>1 DEF UndoInv
<1>11. (CapAfter(log, Len(log)) <= Len(slots))'
  BY <1>7, PrimedLogs
<1> QED
  BY <1>1, <1>4, <1>5, <1>8, <1>9, <1>10, <1>11 DEF RedoInv

(* A change of one row, with the undo record DmlEngine pushes for it.      *)
LEMMA ChangedStep ==
  ASSUME RedoInv, phase = "cleared", phase' = "changed",
         NEW r \in RowIds, NEW row, HeapInv', Changed(r, row),
         NEW kind, PushUndo(kind, r, Value(r)),
         [kind |-> kind, row |-> r, before |-> Value(r)] \in UndoRecords,
         UNCHANGED <<inTxn, pending, log, applied, committed>>
  PROVE  RedoInv'
<1> DEFINE x == [kind |-> kind, row |-> r, before |-> Value(r)]
<1>1. TxnInv /\ LogInv /\ HeapInv /\ LoggedInv /\ UndoInv /\ dirtyPages = {}
  BY DEF RedoInv, TxnInv
<1>2. undo' = IF inTxn THEN Append(undo, x) ELSE undo
  BY DEF PushUndo
<1>3. x \in UndoRecords /\ x.row = r /\ x.before = Value(r)
  OBVIOUS
<1> HIDE DEF x
<1>4. /\ \A k \in RowIds : Value(k)' = IF k = r THEN row ELSE Value(k)
      /\ dirtyPages' = {PageOf(r)} /\ PageOf(r) \in DOMAIN pageDirectory'
      /\ Len(slots) <= Len(slots')
  BY <1>1 DEF Changed
<1>5. undo \in Seq(UndoRecords) /\ undo' \in Seq(UndoRecords)
  <2>1. undo \in Seq(UndoRecords)
    BY <1>1 DEF TxnInv
  <2> QED BY <1>2, <1>3, <2>1, AppendProperties
<1>6. TxnInv'
  BY <1>1, <1>2, <1>4, <1>5 DEF TxnInv
<1>7. LogInv' /\ \A k : CommittedValue(k)' = CommittedValue(k)
  BY <1>1, SameLog
<1>8. inTxn => UndoInv'
  <2> SUFFICES ASSUME inTxn PROVE UndoInv'
    OBVIOUS
  <2>1. undo' = Append(undo, x) /\ \A k \in RowIds : k # x.row => Value(k)' = Value(k)
    BY <1>2, <1>3, <1>4
  <2>2. \A k \in RowIds : OldValue(k)' = OldValue(k)
    BY <1>3, <1>5, <2>1, UndoPushed
  <2> QED BY <1>1, <1>7, <2>2 DEF UndoInv
<1>9. Len(slots) \in Nat /\ Len(slots') \in Nat
  <2>1. slots' \in Seq(SlotRecords)
    BY ZenonT(30) DEF HeapInv, SlotRecords
  <2> QED BY <1>1, <2>1, HeapFacts, LenProperties
<1>10. LoggedInv'
  <2> DEFINE L == log \o pending
             n == Len(L)
  <2>1. /\ Good(L) /\ CapAfter(L, n) <= Len(slots)
        /\ \A k \in RowIds : LogValue(L, n, k) = Value(k)
    BY <1>1 DEF LoggedInv, Unlogged
  <2>2. log' \o pending' = L
    OBVIOUS
  <2>3. CapAfter(L, n) \in Nat
    BY <1>1, LogSeqs, CapNat, ZenonT(30)
  <2> HIDE DEF L
  <2>4. \A k \in RowIds : PageOf(k) \notin Unlogged' => LogValue(L, n, k) = Value(k)'
    <3>1. Unlogged' = {PageOf(r)}
      BY <1>4 DEF Unlogged
    <3> QED BY <1>4, <2>1, <3>1
  <2>5. CapAfter(L, n) <= Len(slots')
    BY <1>4, <1>9, <2>1, <2>3
  <2>6. /\ Good(log' \o pending')
        /\ CapAfter(log' \o pending', Len(log' \o pending')) <= Len(slots')
        /\ \A k \in RowIds : PageOf(k) \notin Unlogged' =>
             LogValue(log' \o pending', Len(log' \o pending'), k) = Value(k)'
    BY <2>1, <2>2, <2>4, <2>5
  <2> QED BY <2>6, PrimedLogs
<1>11. (CapAfter(log, Len(log)) <= Len(slots))'
  <2>1. CapAfter(log, Len(log)) \in Nat /\ CapAfter(log, Len(log)) <= Len(slots)
    BY <1>1, LogSeqs, CapNat DEF RedoInv
  <2>2. CapAfter(log', Len(log')) <= Len(slots')
    BY <1>4, <1>9, <2>1
  <2> QED BY <2>2, PrimedLogs
<1> QED
  BY <1>6, <1>7, <1>8, <1>10, <1>11 DEF RedoInv

LEMMA LogChangeStep ==
  ASSUME RedoInv, LogChange
  PROVE  RedoInv'
<1> DEFINE L == log \o pending
           M == Append(L, Capture)
<1>1. /\ phase = "changed" /\ phase' = "ready" /\ dirtyPages' = {}
      /\ UNCHANGED <<slots, freeList, pageDirectory, inTxn, undo, applied>>
  BY DEF LogChange, Goto, heapVars
<1>2. TxnInv /\ LogInv /\ HeapInv /\ LoggedInv /\ dirtyPages \subseteq DOMAIN pageDirectory
  BY <1>1 DEF RedoInv, TxnInv
<1>3. L \in Seq(Images) /\ log \in Seq(Images) /\ pending \in Seq(Images)
  BY <1>2, LogSeqs
<1>4. /\ Good(L) /\ CapAfter(L, Len(L)) <= Len(slots)
      /\ \A r \in RowIds : PageOf(r) \notin dirtyPages => LogValue(L, Len(L), r) = Value(r)
  BY <1>1, <1>2 DEF LoggedInv, Unlogged
<1> HIDE DEF L
<1>5. /\ Capture \in Images /\ M \in Seq(Images)
      /\ Good(M) /\ CapAfter(M, Len(M)) = Len(slots)
      /\ \A r \in RowIds : LogValue(M, Len(M), r) = Value(r)
  BY <1>2, <1>3, <1>4, CaptureLogs
<1> HIDE DEF M
<1>6. HeapInv' /\ \A k : Value(k)' = Value(k)
  BY <1>1, <1>2, SameHeap
<1>7. Len(slots) \in Nat
  BY <1>2, HeapFacts
<1>8. CASE inTxn
  <2>1. pending' = Append(pending, Capture) /\ UNCHANGED <<log, committed>>
    BY <1>8 DEF LogChange
  <2>2. pending' \in Seq(Images)
    BY <1>3, <1>5, <2>1, AppendProperties
  <2>3. TxnInv'
    BY <1>1, <1>2, <1>8, <2>1, <2>2 DEF TxnInv
  <2>4. LogInv' /\ \A k : CommittedValue(k)' = CommittedValue(k)
    BY <1>2, <2>1, SameLog
  <2>5. log' \o pending' = M
    <3>1. <<Capture>> \in Seq(Images)
      BY <1>5
    <3>2. M = L \o <<Capture>> /\ pending' = pending \o <<Capture>>
      BY <1>3, <1>5, <2>1, AppendIsConcat DEF M
    <3>3. (log \o pending) \o <<Capture>> = log \o (pending \o <<Capture>>)
      BY <1>3, <3>1, ConcatAssociative
    <3> QED BY <2>1, <3>2, <3>3 DEF L
  <2>6. LoggedInv'
    <3>1. /\ Good(log' \o pending')
          /\ CapAfter(log' \o pending', Len(log' \o pending')) <= Len(slots')
          /\ \A r \in RowIds : LogValue(log' \o pending', Len(log' \o pending'), r) = Value(r)'
      BY <1>1, <1>5, <1>6, <1>7, <2>5
    <3> QED BY <3>1, PrimedLogs
  <2>7. UndoInv'
    <3>1. UndoInv
      BY <1>8 DEF RedoInv
    <3> QED BY <1>1, <2>4, <3>1, SameOldValues DEF UndoInv
  <2>8. (CapAfter(log, Len(log)) <= Len(slots))'
    <3>1. CapAfter(log, Len(log)) <= Len(slots)
      BY <1>1 DEF RedoInv
    <3> QED BY <1>1, <2>1, <3>1 DEF CapAfter
  <2> QED BY <1>1, <1>6, <2>3, <2>4, <2>6, <2>7, <2>8 DEF RedoInv
<1>9. CASE ~ inTxn
  <2>1. log' = Append(log, Capture) /\ committed' = LiveRows /\ UNCHANGED pending
    BY <1>9 DEF LogChange
  <2>2. undo = <<>> /\ pending = <<>>
    BY <1>2, <1>9 DEF TxnInv
  <2>3. log' = M
    <3>1. L = log
      BY <1>2, <2>2, LogSeqs DEF L
    <3> QED BY <2>1, <3>1 DEF M
  <2>4. TxnInv'
    BY <1>1, <1>2, <1>5, <1>9, <2>1, <2>3 DEF TxnInv
  <2>5. CommittedInv' /\ \A r \in RowIds : CommittedValue(r)' = Value(r)
    BY <1>2, <2>1, NewCommitted
  <2>6. LogInv'
    BY <1>5, <2>3, <2>5, PrimedLogs
  <2>7. CapAfter(log', Len(log')) <= Len(slots')
    BY <1>1, <1>5, <1>7, <2>3
  <2>8. LoggedInv'
    BY <1>5, <1>6, <2>1, <2>2, <2>3, <2>7, LoggedAlone
  <2>9. UndoInv'
    <3>1. \A k \in RowIds : OldValue(k)' = Value(k)'
      BY <1>1, <2>2 DEF OldValue, HasUndo, OnRow
    <3> QED BY <1>6, <2>5, <3>1 DEF UndoInv
  <2>10. (CapAfter(log, Len(log)) <= Len(slots))'
    BY <2>7, PrimedLogs
  <2> QED BY <1>1, <1>6, <2>4, <2>6, <2>8, <2>9, <2>10 DEF RedoInv
<1> QED
  BY <1>8, <1>9

LEMMA PrimedRebuilt ==
  RebuiltInv' <=>
    /\ applied' <= Len(log')
    /\ slots' \in Seq(SlotRecords)
    /\ Len(slots') = CapAfter(log', applied') /\ freeList' = FreeAfter(log', applied')
    /\ DOMAIN pageDirectory' = Held(log', applied')
    /\ \A p \in DOMAIN pageDirectory' : pageDirectory'[p] = DirAfter(log', applied')[p]
    /\ \A r \in DOMAIN slots' :
         slots'[r] = IF Placed(pageDirectory', r)
                       THEN Slot(PageOf(r), OffsetOf(r), r \notin Range(freeList')) ELSE NoSlot
BY DEF RebuiltInv, SlotRecords, CapAfter, FreeAfter, Held, DirAfter, Holders, Placed

LEMMA CrashStep ==
  ASSUME RedoInv, Crash
  PROVE  RedoInv'
<1>1. /\ phase' = "recovering" /\ slots' = <<>> /\ freeList' = <<>> /\ pageDirectory' = <<>>
      /\ dirtyPages' = {} /\ inTxn' = FALSE /\ undo' = <<>> /\ pending' = <<>> /\ applied' = 0
      /\ UNCHANGED <<log, committed>>
  BY DEF Crash
<1>2. TxnInv /\ LogInv
  BY DEF RedoInv
<1>3. TxnInv'
  <2>1. <<>> \in Seq(Images) /\ <<>> \in Seq(UndoRecords)
    OBVIOUS
  <2> QED BY <1>1, <1>2, <2>1, ZenonT(30) DEF TxnInv
<1>4. LogInv'
  BY <1>1, <1>2, SameLog
<1>5. RebuiltInv'
  <2>1. 0 <= Len(log') /\ Len(<<>>) = 0 /\ <<>> \in Seq(SlotRecords)
    BY <1>1, <1>2, LenProperties DEF TxnInv
  <2>2. CapAfter(log', 0) = 0 /\ FreeAfter(log', 0) = <<>>
    BY DEF CapAfter, FreeAfter
  <2>3. Held(log', 0) = {}
    BY DEF Held, Holders
  <2> QED BY <1>1, <2>1, <2>2, <2>3, PrimedRebuilt
<1> QED
  BY <1>1, <1>3, <1>4, <1>5 DEF RedoInv

(* When all records are applied the heap has the rows of the log.          *)
LEMMA Recovered ==
  ASSUME TxnInv, LogInv, RebuiltInv, applied = Len(log)
  PROVE  HeapInv /\ \A r \in RowIds : Value(r) = LogValue(log, Len(log), r)
<1> DEFINE n == Len(log)
           dir == DirAfter(log, n)
           cap == CapAfter(log, n)
<1>1. /\ slots \in Seq([page : Nat, offset : Nat, live : BOOLEAN])
      /\ Len(slots) = cap /\ freeList = FreeAfter(log, n)
      /\ DOMAIN pageDirectory = Held(log, n)
      /\ \A p \in DOMAIN pageDirectory : pageDirectory[p] = dir[p]
      /\ \A r \in DOMAIN slots :
           slots[r] = IF Placed(pageDirectory, r)
                        THEN Slot(PageOf(r), OffsetOf(r), r \notin Range(freeList)) ELSE NoSlot
  BY ZenonT(30) DEF RebuiltInv
<1>2. /\ DirInv(dir, cap) /\ freeList \in Seq(1..cap) /\ IsInjective(freeList)
      /\ \A r \in 1..cap :
           r \notin Range(freeList) => Placed(dir, r) /\ LogValue(log, n, r) \in Rows
  BY <1>1 DEF LogInv, Good
<1>3. DOMAIN slots = 1..cap /\ cap \in Nat
  BY <1>1, LenProperties, ZenonT(30)
<1>4. DOMAIN dir = DOMAIN pageDirectory
  BY <1>1, ZenonT(30) DEF DirAfter
<1>5. Range(freeList) \subseteq 1..cap
  <2> HIDE DEF cap
  <2>1. freeList \in [1..Len(freeList) -> 1..cap]
    BY <1>2, LenProperties, ZenonT(30)
  <2> QED BY <2>1 DEF Range
<1> HIDE DEF n, dir, cap
<1>6. \A r : Placed(pageDirectory, r) <=> Placed(dir, r)
  BY <1>1, <1>4 DEF Placed
<1>7. \A r : Placed(pageDirectory, r) => RowOf(r) = Cell(dir, r)
  BY <1>1 DEF Placed, RowOf, Cell
<1>8. ASSUME NEW r \in DOMAIN slots
      PROVE  /\ SlotOK(r) /\ (slots[r].live <=> r \notin Range(freeList))
             /\ slots[r].live => Placed(dir, r)
  <2>1. CASE Placed(pageDirectory, r)
    <3>1. slots[r] = Slot(PageOf(r), OffsetOf(r), r \notin Range(freeList))
      BY <1>1, <2>1
    <3>2. /\ slots[r].page = PageOf(r) /\ slots[r].offset = OffsetOf(r)
          /\ slots[r].live <=> r \notin Range(freeList)
      <4>1. CASE r \in Range(freeList)
        <5>1. slots[r] = Slot(PageOf(r), OffsetOf(r), FALSE)
          BY <3>1, <4>1, Zenon
        <5> QED BY <4>1, <5>1 DEF Slot
      <4>2. CASE r \notin Range(freeList)
        <5>1. slots[r] = Slot(PageOf(r), OffsetOf(r), TRUE)
          BY <3>1, <4>2, Zenon
        <5> QED BY <4>2, <5>1 DEF Slot
      <4> QED BY <4>1, <4>2
    <3> QED BY <1>6, <2>1, <3>2 DEF SlotOK
  <2>2. CASE ~ Placed(pageDirectory, r)
    <3>1. slots[r] = NoSlot
      BY <1>1, <2>2
    <3>2. slots[r].page = 0 /\ ~ slots[r].live
      BY <3>1 DEF NoSlot, Slot
    <3>3. r \in Range(freeList)
      BY <1>2, <1>3, <1>6, <2>2
    <3> QED BY <3>2, <3>3 DEF SlotOK
  <2> QED BY <2>1, <2>2
<1>9. Range(freeList) = {r \in DOMAIN slots : ~ slots[r].live}
  BY <1>3, <1>5, <1>8
<1>10. ASSUME NEW r \in RowIds PROVE Value(r) = LogValue(log, n, r)
  <2>1. Live(r) <=> Kept(log, n, r)
    <3>1. Kept(log, n, r) <=> r \in 1..cap /\ r \notin Range(freeList) /\ Placed(dir, r)
      BY <1>1 DEF Kept, cap, dir, n
    <3> QED BY <1>3, <1>8, <3>1 DEF Live
  <2>2. Live(r) => RowOf(r) = Cell(dir, r)
    BY <1>6, <1>7, <1>8 DEF Live
  <2> QED BY <2>1, <2>2 DEF Value, LogValue, dir
<1>11. ASSUME NEW r \in DOMAIN slots, slots[r].live PROVE RowOf(r) \in Rows
  <2>1. r \in 1..cap /\ r \notin Range(freeList) /\ r \in RowIds
    BY <1>3, <1>8, <1>11 DEF RowIds
  <2>2. LogValue(log, n, r) \in Rows /\ Value(r) = LogValue(log, n, r)
    BY <1>2, <1>10, <2>1
  <2> QED BY <1>11, <2>2 DEF Value, Live
<1>12. DirInv(pageDirectory, Len(slots))
  BY <1>1, <1>2, <1>4, ZenonT(30) DEF DirInv
<1>13. HeapInv
  BY <1>1, <1>2, <1>3, <1>8, <1>9, <1>11, <1>12 DEF HeapInv
<1> QED
  BY <1>10, <1>13 DEF n

LEMMA EndRecoveryStep ==
  ASSUME RedoInv, EndRecovery
  PROVE  RedoInv'
<1>1. /\ phase = "recovering" /\ phase' = "ready" /\ applied = Len(log) /\ applied' = 0
      /\ UNCHANGED <<slots, freeList, pageDirectory, dirtyPages, inTxn, undo, pending,
                     log, committed>>
  BY DEF EndRecovery, Goto, pageVars, heapVars, txnVars
<1>2. TxnInv /\ LogInv /\ RebuiltInv
  BY <1>1 DEF RedoInv
<1>3. ~ inTxn /\ undo = <<>> /\ pending = <<>> /\ log \in Seq(Images)
  BY <1>1, <1>2 DEF TxnInv
<1>4. HeapInv /\ \A r \in RowIds : Value(r) = LogValue(log, Len(log), r)
  BY <1>1, <1>2, Recovered
<1>5. CapAfter(log, Len(log)) <= Len(slots)
  <2>1. Len(slots) = CapAfter(log, Len(log)) /\ Len(slots) \in Nat
    BY <1>1, <1>2, <1>4, HeapFacts, ZenonT(30) DEF RebuiltInv
  <2> QED BY <2>1
<1>6. HeapInv' /\ \A k : Value(k)' = Value(k)
  BY <1>1, <1>4, SameHeap
<1>7. LogInv' /\ \A k : CommittedValue(k)' = CommittedValue(k)
  BY <1>1, <1>2, SameLog
<1>8. TxnInv'
  BY <1>1, <1>2, <1>3 DEF TxnInv
<1>9. LoggedInv'
  <2>1. Good(log') /\ CapAfter(log', Len(log')) <= Len(slots')
    BY <1>1, <1>2, <1>5 DEF LogInv
  <2>2. \A r \in RowIds : LogValue(log', Len(log'), r) = Value(r)'
    BY <1>1, <1>4, <1>6
  <2> QED BY <1>1, <1>3, <2>1, <2>2, LoggedAlone
<1>10. UndoInv'
  <2>1. \A r \in RowIds : OldValue(r)' = OldValue(r) /\ OldValue(r) = Value(r)
    BY <1>1, <1>3, SameOldValues, NothingToUndo
  <2>2. \A r \in RowIds : Value(r) = CommittedValue(r)
    BY <1>2, <1>4 DEF LogInv
  <2> QED BY <1>7, <2>1, <2>2 DEF UndoInv
<1>11. (CapAfter(log, Len(log)) <= Len(slots))'
  BY <1>1, <1>5 DEF CapAfter
<1> QED
  BY <1>1, <1>6, <1>7, <1>8, <1>9, <1>10, <1>11 DEF RedoInv

LEMMA RedoStutter ==
  ASSUME RedoInv, UNCHANGED redoVars
  PROVE  RedoInv'
<1>1. UNCHANGED <<slots, freeList, pageDirectory, dirtyPages, phase, inTxn, undo, pending,
                  log, applied, committed>>
  BY DEF redoVars, pageVars, heapVars, txnVars
<1>2. LogInv' /\ (HeapInv => HeapInv') /\ (UndoInv => UndoInv')
  BY <1>1, QuietStep
<1>3. TxnInv'
  BY <1>1 DEF RedoInv, TxnInv
<1>4. RebuiltInv => RebuiltInv'
  BY <1>1, ZenonT(30) DEF RebuiltInv, CapAfter, FreeAfter, Held, DirAfter, Holders, Placed
<1>5. LoggedInv => LoggedInv'
  <2> SUFFICES ASSUME LoggedInv PROVE LoggedInv'
    OBVIOUS
  <2>1. log' \o pending' = log \o pending /\ Unlogged' = Unlogged /\ \A k : Value(k)' = Value(k)
    BY <1>1, SameHeap DEF Unlogged
  <2> QED BY <1>1, <2>1, PrimedLogs DEF LoggedInv
<1>6. (CapAfter(log, Len(log)) <= Len(slots))' <=> CapAfter(log, Len(log)) <= Len(slots)
  BY <1>1 DEF CapAfter
<1> QED
  BY <1>1, <1>2, <1>3, <1>4, <1>5, <1>6 DEF RedoInv

LEMMA RedoInitInv ==
  RedoInit => RedoInv
<1> SUFFICES ASSUME RedoInit PROVE RedoInv
  OBVIOUS
<1>1. /\ slots = <<>> /\ freeList = <<>> /\ pageDirectory = <<>> /\ dirtyPages = {}
      /\ phase = "ready" /\ inTxn = FALSE /\ undo = <<>> /\ pending = <<>> /\ log = <<>>
      /\ applied = 0 /\ committed = <<>>
  BY DEF RedoInit, Init
<1>2. Len(<<>>) = 0 /\ <<>> \o <<>> = <<>> /\ DOMAIN <<>> = {}
  OBVIOUS
<1>3. TxnInv
  <2>1. <<>> \in Seq(Images) /\ <<>> \in Seq(UndoRecords)
    OBVIOUS
  <2> QED BY <1>1, <2>1, ZenonT(30) DEF TxnInv
<1>4. HeapInv
  <2>1. <<>> \in Seq([page : Nat, offset : Nat, live : BOOLEAN]) /\ <<>> \in Seq(DOMAIN slots)
    OBVIOUS
  <2>2. IsInjective(freeList) /\ Range(freeList) = {}
    BY <1>1, <1>2 DEF IsInjective, Range
  <2>3. DirInv(pageDirectory, Len(slots))
    BY <1>1, <1>2 DEF DirInv
  <2> QED BY <1>1, <1>2, <2>1, <2>2, <2>3 DEF HeapInv
<1>5. /\ \A r \in RowIds : Value(r) = NoRow
      /\ \A r \in RowIds : CommittedValue(r) = NoRow /\ OldValue(r) = NoRow
  <2>1. \A r \in RowIds : Value(r) = NoRow /\ CommittedValue(r) = NoRow
    BY <1>1, <1>2 DEF Value, Live, CommittedValue
  <2> QED BY <1>1, <2>1, NothingToUndo
<1>6. CommittedInv
  BY <1>1, <1>2 DEF CommittedInv
<1>7. LogInv
  BY <1>1, <1>2, <1>5, <1>6, EmptyLog DEF LogInv
<1>8. CapAfter(log, Len(log)) <= Len(slots)
  BY <1>1, <1>2, EmptyLog
<1>9. LoggedInv
  BY <1>1, <1>2, <1>5, <1>8, EmptyLog DEF LoggedInv
<1>10. UndoInv
  BY <1>5 DEF UndoInv
<1> QED
  BY <1>1, <1>3, <1>4, <1>7, <1>8, <1>9, <1>10 DEF RedoInv

LEMMA TableIsCommitted ==
  RedoInv => RowsAreCommitted
<1> SUFFICES ASSUME RedoInv, phase = "ready", ~ inTxn PROVE LiveRows = committed
  BY DEF RowsAreCommitted
<1> DEFINE D == {r \in DOMAIN slots : slots[r].live}
<1>1. TxnInv /\ HeapInv /\ UndoInv /\ CommittedInv
  BY DEF RedoInv, LogInv
<1>2. \A r \in RowIds : Value(r) = CommittedValue(r)
  <2>1. undo = <<>>
    BY <1>1 DEF TxnInv
  <2> QED BY <1>1, <2>1, NothingToUndo DEF UndoInv
<1>3. /\ LiveRows = [r \in D |-> DirectoryRows[r]]
      /\ \A r \in D : DirectoryRows[r] = Value(r) /\ Value(r) \in Rows /\ r \in RowIds
  BY <1>1, RowBefore, RowsOfLive DEF Live
<1>4. D = DOMAIN committed
  <2>1. ASSUME NEW r \in D PROVE r \in DOMAIN committed
    BY <1>2, <1>3, RowsAssumption DEF CommittedValue
  <2>2. ASSUME NEW r \in DOMAIN committed PROVE r \in D
    <3>1. r \in RowIds /\ Value(r) \in Rows
      BY <1>1, <1>2 DEF CommittedInv, CommittedValue
    <3> QED BY <3>1, RowsAssumption DEF Value, Live
  <2> QED BY <2>1, <2>2
<1>5. \A r \in D : DirectoryRows[r] = committed[r]
  BY <1>2, <1>3, <1>4 DEF CommittedValue
<1>6. committed = [r \in DOMAIN committed |-> committed[r]]
  BY <1>1 DEF CommittedInv
<1> HIDE DEF D
<1> QED
  BY <1>3, <1>4, <1>5, <1>6

=============================================================================
