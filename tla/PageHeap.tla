------------------------------ MODULE PageHeap ------------------------------
(***************************************************************************)
(* The rows of a heap whose slots may have lost their page: recovery       *)
(* rebuilds the pages that some record of the log holds, so that a free    *)
(* slot may have no cell.                                                  *)
(***************************************************************************)
EXTENDS PageRowStore

RowIds == Nat \ {0}

(* The pages of a directory hold cells of the first n row ids.             *)
DirInv(dir, n) ==
  \A p \in DOMAIN dir :
    /\ p \in Nat \ {0} /\ dir[p] \in Pages /\ dir[p] # <<>>
    /\ \A o \in DOMAIN dir[p] : o \in 1..RowsPerPage /\ (p - 1) * RowsPerPage + o \in 1..n

SlotRecords == [page : Nat, offset : Nat, live : BOOLEAN]

(* A slot has its position, or none and is dead.                           *)
SlotOK(r) ==
  \/ /\ Placed(pageDirectory, r)
     /\ slots[r].page = PageOf(r) /\ slots[r].offset = OffsetOf(r)
  \/ slots[r].page = 0 /\ ~ slots[r].live

HeapInv ==
  /\ slots \in Seq([page : Nat, offset : Nat, live : BOOLEAN])
  /\ DirInv(pageDirectory, Len(slots))
  /\ \A r \in DOMAIN slots : SlotOK(r) /\ (slots[r].live => RowOf(r) \in Rows)
  /\ freeList \in Seq(DOMAIN slots) /\ IsInjective(freeList)
  /\ Range(freeList) = {r \in DOMAIN slots : ~ slots[r].live}

(* Every slot has its cell, and an erased one the tombstone.               *)
Whole ==
  \A r \in DOMAIN slots :
    /\ Placed(pageDirectory, r)
    /\ slots[r].page = PageOf(r) /\ slots[r].offset = OffsetOf(r)
    /\ ~ slots[r].live => RowOf(r) = NoRow

(* The row the table has.                                                  *)
Value(r) == IF Live(r) THEN RowOf(r) ELSE NoRow

(* A step that changes the row of one row id.                              *)
Changed(r, row) ==
  /\ \A k \in RowIds : Value(k)' = IF k = r THEN row ELSE Value(k)
  /\ dirtyPages' = dirtyPages \cup {PageOf(r)}
  /\ DOMAIN pageDirectory' = DOMAIN pageDirectory \cup {PageOf(r)}
  /\ \A p \in DOMAIN pageDirectory : p # PageOf(r) => pageDirectory'[p] = pageDirectory[p]
  /\ Len(slots) <= Len(slots')
  /\ \A k \in DOMAIN slots' : k \in DOMAIN slots \/ k = r

=============================================================================
