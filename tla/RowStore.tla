------------------------------ MODULE RowStore ------------------------------
(***************************************************************************)
(* The contract of a RowStore, as VectorRowStore implements it: a sequence *)
(* of slots that hold a row or nothing, and a free list whose last entry   *)
(* is the next row id to reuse.  Row ids count from 1 here, from 0 in the  *)
(* code.                                                                   *)
(***************************************************************************)
EXTENDS Integers, Sequences, Functions, Vectors

CONSTANTS Rows,   \* the rows that can be stored
          NoRow   \* an empty slot

VARIABLES rows, freeList, liveCount

storeVars == <<rows, freeList, liveCount>>

Live(r) == r \in DOMAIN rows /\ rows[r] # NoRow

Append1(row) ==
  /\ IF freeList # <<>>
       THEN /\ rows' = [rows EXCEPT ![Back(freeList)] = row]
            /\ freeList' = PopBack(freeList)
       ELSE /\ rows' = Append(rows, row)
            /\ UNCHANGED freeList
  /\ liveCount' = liveCount + 1

Erase(r) ==
  /\ Live(r)
  /\ rows' = [rows EXCEPT ![r] = NoRow]
  /\ freeList' = Append(freeList, r)
  /\ liveCount' = liveCount - 1

Update(r, row) ==
  /\ Live(r)
  /\ rows' = [rows EXCEPT ![r] = row]
  /\ UNCHANGED <<freeList, liveCount>>

Revive(r, row) ==
  /\ r \in DOMAIN rows /\ ~Live(r)
  /\ r \in Range(freeList)
  /\ freeList' = EraseAt(freeList, Find(freeList, r))
  /\ rows' = [rows EXCEPT ![r] = row]
  /\ liveCount' = liveCount + 1

(* upsertAt of the row id after the last one; for a smaller row id it is   *)
(* Update or Revive.                                                       *)
UpsertAtEnd(row) ==
  /\ rows' = Append(rows, row)
  /\ liveCount' = liveCount + 1
  /\ UNCHANGED freeList

Init == rows = <<>> /\ freeList = <<>> /\ liveCount = 0

Next ==
  \E row \in Rows :
    \/ Append1(row)
    \/ UpsertAtEnd(row)
    \/ \E r \in DOMAIN rows : Erase(r) \/ Update(r, row) \/ Revive(r, row)

Spec == Init /\ [][Next]_storeVars

(* The free list holds exactly the empty slots, each once, and liveCount   *)
(* counts the others: append never overwrites a row and never loses a slot *)
(* (freeList_ and liveCount_ of VectorRowStore).                           *)
FreeListExact ==
  /\ \A i, j \in DOMAIN freeList : freeList[i] = freeList[j] => i = j
  /\ \A r \in DOMAIN rows : ~Live(r) <=> \E i \in DOMAIN freeList : freeList[i] = r
  /\ liveCount + Len(freeList) = Len(rows)

=============================================================================
