---------------------------- MODULE PageRowStore ----------------------------
(***************************************************************************)
(* PageRowStore: the rows live in pages of RowsPerPage slots.  The page    *)
(* directory is the source of truth; a bounded LRU buffer pool and a map   *)
(* of decoded rows are caches in front of it that get() fills; dirty pages *)
(* are remembered until they are taken into a page-image redo record.      *)
(* Row ids count from 1 here, from 0 in the code.                          *)
(***************************************************************************)
EXTENDS Integers, Sequences, FiniteSets, FiniteSetsExt, Functions, Vectors

CONSTANTS Rows, NoRow,
          RowsPerPage,
          BufferCapacity,  \* pages the buffer pool holds
          MaxSlots         \* bound on the slots

ASSUME RowsAssumption == NoRow \notin Rows
ASSUME RowsPerPageAssumption == RowsPerPage \in Nat \ {0}
ASSUME BufferCapacityAssumption == BufferCapacity \in Nat \ {0}

VARIABLES
  slots,          \* slots_: [page, offset, live] of each row id
  freeList,       \* freeList_
  liveCount,      \* liveCount_
  pageDirectory,  \* pageDirectory_: the rows of each page, NoRow where erased
  bufferPool,     \* bufferPool_: copies of pages, most recently used first
  decodedRows,    \* decodedRows_: cached row of a row id
  dirtyPages      \* dirtyPages_

heapVars == <<slots, freeList, liveCount, pageDirectory>>
cacheVars == <<bufferPool, decodedRows>>
pageVars == <<heapVars, cacheVars, dirtyPages>>

-----------------------------------------------------------------------------
(* BufferPool                                                              *)

Entry(p, pageRows) == [page |-> p, rows |-> pageRows]
Buffered(pool) == {pool[i].page : i \in DOMAIN pool}
IndexOf(pool, p) == CHOOSE i \in DOMAIN pool : pool[i].page = p
BufferedRows(pool, p) == pool[IndexOf(pool, p)].rows

(* put moves the page to the front, and evicts the page at the back for a  *)
(* new one.                                                                *)
Put(pool, p, pageRows) ==
  <<Entry(p, pageRows)>> \o
    IF p \in Buffered(pool) THEN EraseAt(pool, IndexOf(pool, p))
    ELSE IF Len(pool) = BufferCapacity THEN PopBack(pool)
    ELSE pool

-----------------------------------------------------------------------------
(* Pages                                                                   *)

PageOf(r) == (r - 1) \div RowsPerPage + 1
OffsetOf(r) == r - (PageOf(r) - 1) * RowsPerPage
LoadPageRows(p) == IF p \in DOMAIN pageDirectory THEN pageDirectory[p] ELSE <<>>
Slot(p, o, live) == [page |-> p, offset |-> o, live |-> live]
NoSlot == Slot(0, 1, FALSE)

(* A directory has the cell that the number of a row id determines.        *)
Placed(dir, r) == PageOf(r) \in DOMAIN dir /\ OffsetOf(r) \in DOMAIN dir[PageOf(r)]

Live(r) == r \in DOMAIN slots /\ slots[r].live
HasPosition(r) == slots[r].offset \in DOMAIN LoadPageRows(slots[r].page)

(* The pages of a directory after some of them are replaced.               *)
Installed(pages) ==
  [p \in DOMAIN pageDirectory \cup DOMAIN pages |->
    IF p \in DOMAIN pages THEN pages[p] ELSE pageDirectory[p]]

(* Mutant of StorePage: decoded rows of the page are kept.                 *)
StorePageKeepsDecoded(p, pageRows) ==
  /\ pageDirectory' = Installed([q \in {p} |-> pageRows])
  /\ bufferPool' = Put(bufferPool, p, pageRows)
  /\ dirtyPages' = dirtyPages \cup {p}
  /\ UNCHANGED decodedRows

(* storePage: the directory, the pool, the decoded rows of the page and    *)
(* its dirty mark.                                                         *)
StorePage(p, pageRows) ==
  /\ pageDirectory' = Installed([q \in {p} |-> pageRows])
  /\ bufferPool' = Put(bufferPool, p, pageRows)
  /\ decodedRows' = Restrict(decodedRows, {r \in DOMAIN decodedRows : slots[r].page # p})
  /\ dirtyPages' = dirtyPages \cup {p}

StoreRow(r, row) ==
  StorePage(slots[r].page, [LoadPageRows(slots[r].page) EXCEPT ![slots[r].offset] = row])

(* What get returns; a null pointer is NoRow.                              *)
GetResult(r) ==
  IF ~Live(r) THEN NoRow
  ELSE IF r \in DOMAIN decodedRows THEN decodedRows[r]
  ELSE LET p == slots[r].page
           pageRows == IF p \in Buffered(bufferPool) THEN BufferedRows(bufferPool, p)
                       ELSE LoadPageRows(p)
       IN IF slots[r].offset \in DOMAIN pageRows THEN pageRows[slots[r].offset] ELSE NoRow

-----------------------------------------------------------------------------
(* The operations                                                          *)

AppendNew(row) ==
  LET r == Len(slots) + 1
      pageRows == Append(LoadPageRows(PageOf(r)), row)
  IN /\ r <= MaxSlots
     /\ slots' = Append(slots, Slot(PageOf(r), Len(pageRows), TRUE))
     /\ StorePage(PageOf(r), pageRows)
     /\ liveCount' = liveCount + 1
     /\ UNCHANGED freeList

AppendReuse(row) ==
  LET r == Back(freeList) IN
  /\ freeList # <<>>
  /\ HasPosition(r)
  /\ freeList' = PopBack(freeList)
  /\ slots' = [slots EXCEPT ![r].live = TRUE]
  /\ StoreRow(r, row)
  /\ liveCount' = liveCount + 1

(* append of a slot without a cell throws ("page slot offset out of range  *)
(* on free-list reuse") after the slot left the free list and became live. *)
(* Only recovery makes such slots, so that this is a step of PageRedo and  *)
(* never one of this module, where every slot has its cell (LayoutIsValid).*)
AppendRefused ==
  LET r == Back(freeList) IN
  /\ freeList # <<>>
  /\ ~HasPosition(r)
  /\ freeList' = PopBack(freeList)
  /\ slots' = [slots EXCEPT ![r].live = TRUE]
  /\ UNCHANGED <<liveCount, pageDirectory, cacheVars, dirtyPages>>

Append1(row) == AppendReuse(row) \/ (freeList = <<>> /\ AppendNew(row))

(* Mutants of Erase: the slot joins the wrong end of the free list, or the *)
(* row's bytes stay in the page.                                           *)
EraseFreesFirst(r) ==
  /\ Live(r) /\ HasPosition(r)
  /\ slots' = [slots EXCEPT ![r].live = FALSE]
  /\ StoreRow(r, NoRow)
  /\ freeList' = <<r>> \o freeList
  /\ liveCount' = liveCount - 1

EraseKeepsBytes(r) ==
  /\ Live(r) /\ HasPosition(r)
  /\ slots' = [slots EXCEPT ![r].live = FALSE]
  /\ freeList' = Append(freeList, r)
  /\ liveCount' = liveCount - 1
  /\ UNCHANGED <<pageDirectory, cacheVars, dirtyPages>>

Erase(r) ==
  /\ Live(r) /\ HasPosition(r)
  /\ slots' = [slots EXCEPT ![r].live = FALSE]
  /\ StoreRow(r, NoRow)
  /\ freeList' = Append(freeList, r)
  /\ liveCount' = liveCount - 1

Update(r, row) ==
  /\ Live(r) /\ HasPosition(r)
  /\ StoreRow(r, row)
  /\ UNCHANGED <<slots, freeList, liveCount>>

(* Mutant of Revive: the slot stays in the free list.                      *)
ReviveKeepsFree(r, row) ==
  /\ r \in DOMAIN slots /\ ~Live(r)
  /\ r \in Range(freeList) /\ HasPosition(r)
  /\ slots' = [slots EXCEPT ![r].live = TRUE]
  /\ StoreRow(r, row)
  /\ liveCount' = liveCount + 1
  /\ UNCHANGED freeList

Revive(r, row) ==
  /\ r \in DOMAIN slots /\ ~Live(r)
  /\ r \in Range(freeList) /\ HasPosition(r)
  /\ freeList' = EraseAt(freeList, Find(freeList, r))
  /\ slots' = [slots EXCEPT ![r].live = TRUE]
  /\ StoreRow(r, row)
  /\ liveCount' = liveCount + 1

(* upsertAt of the row id after the last one; otherwise it is Update or    *)
(* Revive.                                                                 *)
UpsertAtEnd(row) == AppendNew(row)

(* get buffers the page of the row and, unless the row is decoded already, *)
(* touches the page and decodes the row from the buffered copy.            *)
Get(r) ==
  LET p == slots[r].page
      pool == IF p \in Buffered(bufferPool) \/ p \notin DOMAIN pageDirectory THEN bufferPool
              ELSE Put(bufferPool, p, pageDirectory[p])
  IN /\ Live(r)
     /\ bufferPool' = IF r \in DOMAIN decodedRows \/ p \notin Buffered(pool) THEN pool
                      ELSE Put(pool, p, BufferedRows(pool, p))
     /\ decodedRows' = IF r \in DOMAIN decodedRows \/ GetResult(r) = NoRow THEN decodedRows
                       ELSE [k \in DOMAIN decodedRows \cup {r} |->
                              IF k = r THEN GetResult(r) ELSE decodedRows[k]]
     /\ UNCHANGED <<heapVars, dirtyPages>>

ClearDirtyPages == dirtyPages' = {} /\ UNCHANGED <<heapVars, cacheVars>>

(* Save and load: replaceFromPages on the pages exportPages returned.  The *)
(* pages are put into the pool in order of their ids.                      *)
PutAll(pool, pages) ==
  LET last == Max({0} \cup DOMAIN pages)
      upTo[p \in 0..last] == IF p = 0 THEN pool
                             ELSE IF p \in DOMAIN pages THEN Put(upTo[p - 1], p, pages[p])
                             ELSE upTo[p - 1]
  IN upTo[last]

Reload ==
  /\ bufferPool' = PutAll(bufferPool, pageDirectory)
  /\ decodedRows' = <<>>
  /\ dirtyPages' = {}
  /\ UNCHANGED heapVars

(* The redo record of a statement: capacity, free list and dirty pages.    *)
Capture ==
  [capacity |-> Len(slots), free |-> freeList, pages |-> Restrict(pageDirectory, dirtyPages)]

(* applyPageImages, then rebuildSlotsFromDirectory: a slot whose page is   *)
(* missing from the directory has no position.                             *)
ApplyPageImages(image) ==
  LET position(r) == IF Placed(pageDirectory', r)
                       THEN Slot(PageOf(r), OffsetOf(r), r \notin Range(image.free)) ELSE NoSlot
  IN /\ image.capacity >= Len(slots)
     /\ pageDirectory' = Installed(image.pages)
     /\ bufferPool' = PutAll(bufferPool, image.pages)
     /\ decodedRows' = Restrict(decodedRows, {r \in DOMAIN decodedRows :
                                               slots[r].page \notin DOMAIN image.pages})
     /\ slots' = [r \in 1..image.capacity |-> position(r)]
     /\ freeList' = image.free
     /\ liveCount' = Cardinality({r \in 1..image.capacity : position(r).live})
     /\ dirtyPages' = {}

Init ==
  /\ slots = <<>> /\ freeList = <<>> /\ liveCount = 0
  /\ pageDirectory = <<>> /\ bufferPool = <<>> /\ decodedRows = <<>>
  /\ dirtyPages = {}

Next ==
  \/ \E row \in Rows : Append1(row) \/ UpsertAtEnd(row)
  \/ \E r \in DOMAIN slots, row \in Rows : Update(r, row) \/ Revive(r, row)
  \/ \E r \in DOMAIN slots : Erase(r) \/ Get(r)
  \/ ClearDirtyPages
  \/ Reload

Spec == Init /\ [][Next]_pageVars

-----------------------------------------------------------------------------
(* Properties                                                              *)

Pages == Seq(Rows \cup {NoRow})

(* The row in the cell of a row id.                                        *)
RowOf(r) == pageDirectory[PageOf(r)][OffsetOf(r)]

(* The row of each slot as the page directory has it.                      *)
DirectoryRows ==
  [r \in DOMAIN slots |->
    IF slots[r].live THEN pageDirectory[slots[r].page][slots[r].offset] ELSE NoRow]

(* Pages, caches and slots together behave like the plain vector of rows:  *)
(* every operation of PageRowStore is the operation of the same name of    *)
(* the RowStore contract, and reading, clearing and reloading are silent.  *)
Vector == INSTANCE RowStore WITH rows <- DirectoryRows
RefinesRowStore == Vector!Spec

(* The free list holds exactly the dead slots, each once, and liveCount    *)
(* counts the live ones: append never overwrites a row or loses a slot.    *)
FreeListExact == Vector!FreeListExact

(* get returns the row of the page directory whatever is buffered, evicted *)
(* or decoded: no cached copy outlives a change of its page.               *)
CachesAreCoherent == \A r \in DOMAIN slots : GetResult(r) = DirectoryRows[r]

(* Every row id keeps the position its number determines, pages are filled *)
(* without gaps, and an erased slot holds the tombstone the snapshot       *)
(* format requires (validatePageStoreLayout accepts exportPages at any     *)
(* time, so a saved table can be loaded).                                  *)
LayoutIsValid ==
  /\ DOMAIN pageDirectory = {PageOf(r) : r \in DOMAIN slots}
  /\ \A p \in DOMAIN pageDirectory :
       Len(pageDirectory[p]) = Cardinality({r \in DOMAIN slots : PageOf(r) = p})
  /\ \A r \in DOMAIN slots :
       /\ slots[r].page = PageOf(r) /\ slots[r].offset = OffsetOf(r)
       /\ ~slots[r].live => RowOf(r) = NoRow

=============================================================================
