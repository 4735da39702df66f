----------------------- MODULE SnapshotIsolationProofs -----------------------
(***************************************************************************)
(* The safety properties of SnapshotIsolation, for every table size, every *)
(* set of columns and values, every number of transactions and every       *)
(* number of versions.                                                     *)
(*                                                                         *)
(* The inductive invariant is the manager's (TransactionManagerProofs)     *)
(* together with                                                           *)
(*   - TableOK: the heap, the free list and the chains are well formed;    *)
(*   - StampsRecorded: whoever stamped a version of a row recorded a write *)
(*     of the row, and the creator recorded the image;                     *)
(*   - ScansRecorded: whoever scanned recorded a read or a write of every  *)
(*     row its snapshot contains;                                          *)
(*   - SnapshotBeforeCommit: a commit comes after the snapshot.            *)
(* A step of one writer only adds stamps of that writer (ChainGrows), and  *)
(* no step changes what the commits up to a past sequence left             *)
(* (PastIsImmutable); the other properties follow.                         *)
(***************************************************************************)
EXTENDS SnapshotIsolation, VectorsProofs, TransactionManagerProofs

-----------------------------------------------------------------------------
(* What the row operations do to the heap, the free list and the version   *)
(* chains, and what a reader then sees, whatever the transaction manager   *)
(* does.                                                                   *)

TableType ==
  /\ heap \in Seq(Images \cup {NoRow})
  /\ DOMAIN heap \subseteq RowIds
  /\ freeList \in Seq(RowIds)
  /\ versions \in [RowIds -> Seq(Version)]

-----------------------------------------------------------------------------
(* Version chains.                                                         *)

(* new is old with more stamps of the writer w: versions pushed at the     *)
(* end, and versions that nobody had deleted closed.                       *)
ChainGrows(old, new, w) ==
  /\ Len(old) <= Len(new)
  /\ \A i \in 1..Len(old) :
       /\ new[i].createdBy = old[i].createdBy
       /\ new[i].row = old[i].row
       /\ new[i].deletedBy # old[i].deletedBy
            => old[i].deletedBy = {} /\ new[i].deletedBy = {w}
  /\ \A i \in Len(old) + 1 .. Len(new) :
       new[i].createdBy = w /\ new[i].deletedBy = {}

LEMMA CloseBack ==
  ASSUME NEW chain \in Seq(Version), NEW w \in TxnIds,
         chain # <<>>, Back(chain).deletedBy = {},
         NEW closed, closed = [chain EXCEPT ![Len(chain)].deletedBy = {w}]
  PROVE  /\ closed \in Seq(Version)
         /\ Len(closed) = Len(chain)
         /\ ChainGrows(chain, closed, w)
<1> DEFINE n == Len(chain)
           v == [chain[n] EXCEPT !.deletedBy = {w}]
<1>1. n \in Nat /\ n > 0 /\ chain[n] \in Version
  OBVIOUS
<1>2. v \in Version /\ v.createdBy = chain[n].createdBy /\ v.row = chain[n].row
      /\ v.deletedBy = {w}
  BY <1>1 DEF Version
<1>3. closed = [chain EXCEPT ![n] = v]
  OBVIOUS
<1>4. chain[n].deletedBy = {}
  BY DEF Back
<1> HIDE DEF v
<1>5. closed \in Seq(Version) /\ Len(closed) = Len(chain)
  <2>1. closed \in [1..n -> Version]
    BY <1>1, <1>2, <1>3, LenProperties, Zenon
  <2> QED
    BY <1>1, <2>1, FunctionIsSeq
<1>6. \A i \in 1..n : closed[i] = IF i = n THEN v ELSE chain[i]
  BY <1>1, <1>3, LenProperties, Zenon
<1> QED
  BY <1>2, <1>4, <1>5, <1>6 DEF ChainGrows

LEMMA WriteVersionGrows ==
  ASSUME NEW chain \in Seq(Version), NEW w \in TxnIds, NEW row \in Images
  PROVE  /\ WriteVersion(chain, row, w) \in Seq(Version)
         /\ ChainGrows(chain, WriteVersion(chain, row, w), w)
         /\ Len(WriteVersion(chain, row, w)) = Len(chain) + 1
         /\ WriteVersion(chain, row, w)[Len(chain) + 1]
              = [createdBy |-> w, deletedBy |-> {}, row |-> row]
<1> DEFINE closed == IF chain # <<>> /\ Back(chain).deletedBy = {}
                       THEN [chain EXCEPT ![Len(chain)].deletedBy = {w}]
                       ELSE chain
           v == [createdBy |-> w, deletedBy |-> {}, row |-> row]
<1>1. v \in Version /\ v.createdBy = w /\ v.deletedBy = {}
  BY DEF Version
<1>2. closed \in Seq(Version) /\ Len(closed) = Len(chain) /\ ChainGrows(chain, closed, w)
  <2>1. CASE chain # <<>> /\ Back(chain).deletedBy = {}
    BY <2>1, CloseBack, Zenon
  <2>2. CASE ~(chain # <<>> /\ Back(chain).deletedBy = {})
    BY <2>2 DEF ChainGrows
  <2> QED BY <2>1, <2>2
<1>3. WriteVersion(chain, row, w) = Append(closed, v)
  BY DEF WriteVersion
<1> HIDE DEF closed, v
<1>4. /\ Append(closed, v) \in Seq(Version)
      /\ Len(Append(closed, v)) = Len(chain) + 1
      /\ \A i \in 1..Len(chain) : Append(closed, v)[i] = closed[i]
      /\ Append(closed, v)[Len(chain) + 1] = v
  BY <1>1, <1>2
<1>5. ChainGrows(chain, Append(closed, v), w)
  BY <1>1, <1>2, <1>4 DEF ChainGrows
<1> QED
  BY <1>3, <1>4, <1>5 DEF v

LEMMA EraseVersionGrows ==
  ASSUME NEW chain \in Seq(Version), NEW w \in TxnIds,
         chain # <<>>, Back(chain).deletedBy = {}
  PROVE  /\ EraseVersion(chain, w) \in Seq(Version)
         /\ ChainGrows(chain, EraseVersion(chain, w), w)
         /\ Len(EraseVersion(chain, w)) = Len(chain)
BY CloseBack, Zenon DEF EraseVersion

-----------------------------------------------------------------------------
(* Reading.                                                                *)

Visible(r, self, max) == {i \in DOMAIN versions[r] : IsVisible(versions[r][i], self, max)}

LEMMA ReadVisible ==
  ASSUME TableType, NEW r \in RowIds, NEW self, NEW max, Visible(r, self, max) # {}
  PROVE  /\ Max(Visible(r, self, max)) \in Visible(r, self, max)
         /\ Read(r, self, max) = versions[r][Max(Visible(r, self, max))].row
<1>1. /\ Len(versions[r]) \in Nat
      /\ DOMAIN versions[r] = 1..Len(versions[r])
  BY LenProperties DEF TableType
<1>2. Visible(r, self, max) \subseteq 1..Len(versions[r])
  BY <1>1 DEF Visible
<1> QED
  BY <1>1, <1>2, LargestOf, Zenon DEF Read, Visible

LEMMA ReadNothing ==
  ASSUME TableType, TableOK, NEW r \in RowIds, NEW self, NEW max
  PROVE  Read(r, self, max) = NoRow <=> Visible(r, self, max) = {}
<1>1. CASE Visible(r, self, max) = {}
  BY <1>1 DEF Read, Visible
<1>2. CASE Visible(r, self, max) # {}
  <2>1. Max(Visible(r, self, max)) \in DOMAIN versions[r]
    BY <1>2, ReadVisible, Zenon DEF Visible
  <2>2. versions[r][Max(Visible(r, self, max))].row \in Images
    BY <2>1 DEF TableOK, Version
  <2> QED
    BY <1>2, <2>2, ReadVisible, NoRowAssumption
<1> QED
  BY <1>1, <1>2

(* A writer whose stamps a reader does not see does not change what it     *)
(* reads, if the visibility of all other stamps stays.                     *)
LEMMA ReadStable ==
  ASSUME TableType, TableType', TableOK, NEW r \in RowIds, NEW self, NEW max, NEW w \in TxnIds,
         ChainGrows(versions[r], versions'[r], w),
         \A id \in TxnIds \cup {System} :
           IsCreatorVisible(id, self, max)' <=> IsCreatorVisible(id, self, max),
         \/ versions'[r] = versions[r]
         \/ ~IsCreatorVisible(w, self, max)'
  PROVE  Read(r, self, max)' = Read(r, self, max)
<1>1. /\ Len(versions[r]) \in Nat /\ DOMAIN versions[r] = 1..Len(versions[r])
      /\ Len(versions'[r]) \in Nat /\ DOMAIN versions'[r] = 1..Len(versions'[r])
  BY LenProperties DEF TableType
<1>2. \A i \in DOMAIN versions[r] :
        /\ versions[r][i].createdBy \in TxnIds \cup {System}
        /\ versions[r][i].deletedBy \subseteq TxnIds
  BY DEF TableOK, Version
<1>3. \A i \in DOMAIN versions[r] :
        IsVisible(versions[r][i], self, max)' <=> IsVisible(versions[r][i], self, max)
  BY <1>1, <1>2 DEF IsVisible, ChainGrows
<1>4. \A i \in DOMAIN versions'[r] :
        i \notin DOMAIN versions[r] => ~IsVisible(versions[r][i], self, max)'
  BY <1>1 DEF IsVisible, ChainGrows
<1>5. DOMAIN versions[r] \subseteq DOMAIN versions'[r]
  BY <1>1 DEF ChainGrows
<1>6. Visible(r, self, max)' = Visible(r, self, max)
  BY <1>3, <1>4, <1>5 DEF Visible
<1>7. CASE Visible(r, self, max) = {}
  BY <1>6, <1>7 DEF Read, Visible
<1>8. CASE Visible(r, self, max) # {}
  <2> DEFINE m == Max(Visible(r, self, max))
  <2>1. m \in DOMAIN versions[r] /\ Read(r, self, max) = versions[r][m].row
    BY <1>8, ReadVisible, ZenonT(30) DEF Visible
  <2>2. Read(r, self, max)' = versions'[r][m].row
    BY <1>6, <1>8 DEF Read, Visible
  <2>3. versions'[r][m].row = versions[r][m].row
    <3> HIDE DEF m
    <3> QED BY <1>1, <2>1 DEF ChainGrows
  <2> QED BY <2>1, <2>2, <2>3
<1> QED
  BY <1>7, <1>8

-----------------------------------------------------------------------------
(* The row store: what the three row operations do to the heap, the free   *)
(* list and the chain of the row.                                          *)

FreeSlots ==
  /\ Range(freeList) = {r \in DOMAIN heap : heap[r] = NoRow}
  /\ IsInjective(freeList)

LiveBacked ==
  \A r \in DOMAIN heap :
    Live(r) => versions[r] # <<>> /\ Back(versions[r]).deletedBy = {}

LEMMA TableOKParts ==
  ASSUME TableType
  PROVE  TableOK <=> TypeOK /\ FreeSlots /\ LiveBacked
<1>1. \A r \in RowIds : \A i \in DOMAIN versions[r] : versions[r][i] \in Version
  BY ElementOfSeq, LenProperties DEF TableType
<1> QED
  BY <1>1, Zenon DEF TableOK, FreeSlots, LiveBacked

(* The row operation of w on row r left well-formed tables, and stamped    *)
(* only r, with images of the set is.                                      *)
Changed(w, r, is) ==
  /\ TableType' /\ FreeSlots' /\ LiveBacked'
  /\ \A q \in RowIds :
       /\ ChainGrows(versions[q], versions'[q], w)
       /\ versions'[q] # versions[q] => q = r
       /\ \A i \in Len(versions[q]) + 1 .. Len(versions'[q]) : versions'[q][i].row \in is

LEMMA UnchangedChainGrows ==
  ASSUME NEW chain \in Seq(Version), NEW w
  PROVE  ChainGrows(chain, chain, w)
BY DEF ChainGrows

LEMMA WriteChain ==
  ASSUME TableType, NEW w \in TxnIds, NEW r \in RowIds, NEW row \in Images,
         versions' = [versions EXCEPT ![r] = WriteVersion(@, row, w)]
  PROVE  /\ versions' \in [RowIds -> Seq(Version)]
         /\ versions'[r] # <<>> /\ Back(versions'[r]).deletedBy = {}
         /\ \A q \in RowIds :
              /\ ChainGrows(versions[q], versions'[q], w)
              /\ q # r => versions'[q] = versions[q]
              /\ \A i \in Len(versions[q]) + 1 .. Len(versions'[q]) :
                   versions'[q][i].row \in {row}
<1>1. versions[r] \in Seq(Version) /\ versions'[r] = WriteVersion(versions[r], row, w)
  BY DEF TableType
<1>2. /\ versions'[r] \in Seq(Version)
      /\ ChainGrows(versions[r], versions'[r], w)
      /\ Len(versions'[r]) = Len(versions[r]) + 1
      /\ versions'[r][Len(versions[r]) + 1] = [createdBy |-> w, deletedBy |-> {}, row |-> row]
  BY <1>1, WriteVersionGrows
<1>3. \A q \in RowIds : q # r => versions'[q] = versions[q] /\ versions[q] \in Seq(Version)
  BY DEF TableType
<1>4. versions' \in [RowIds -> Seq(Version)]
  BY <1>2 DEF TableType
<1>5. versions'[r] # <<>> /\ Back(versions'[r]).deletedBy = {}
  BY <1>1, <1>2 DEF Back
<1>6. ASSUME NEW q \in RowIds
      PROVE  /\ ChainGrows(versions[q], versions'[q], w)
             /\ \A i \in Len(versions[q]) + 1 .. Len(versions'[q]) :
                  versions'[q][i].row \in {row}
  <2>1. CASE q = r
    BY <1>1, <1>2, <2>1
  <2>2. CASE q # r
    BY <1>3, <2>2, UnchangedChainGrows
  <2> QED BY <2>1, <2>2
<1> QED
  BY <1>3, <1>4, <1>5, <1>6

LEMMA EraseChain ==
  ASSUME TableType, NEW w \in TxnIds, NEW r \in RowIds,
         versions[r] # <<>>, Back(versions[r]).deletedBy = {},
         versions' = [versions EXCEPT ![r] = EraseVersion(@, w)]
  PROVE  /\ versions' \in [RowIds -> Seq(Version)]
         /\ \A q \in RowIds :
              /\ ChainGrows(versions[q], versions'[q], w)
              /\ q # r => versions'[q] = versions[q]
              /\ Len(versions'[q]) = Len(versions[q])
<1>1. versions[r] \in Seq(Version) /\ versions'[r] = EraseVersion(versions[r], w)
  BY DEF TableType
<1>2. /\ versions'[r] \in Seq(Version)
      /\ ChainGrows(versions[r], versions'[r], w)
      /\ Len(versions'[r]) = Len(versions[r])
  BY <1>1, EraseVersionGrows
<1>3. \A q \in RowIds : q # r => versions'[q] = versions[q] /\ versions[q] \in Seq(Version)
  BY DEF TableType
<1>4. versions' \in [RowIds -> Seq(Version)]
  BY <1>2 DEF TableType
<1>5. \A q \in RowIds : q # r => ChainGrows(versions[q], versions'[q], w)
  BY <1>3, UnchangedChainGrows
<1> QED
  BY <1>2, <1>3, <1>4, <1>5

LEMMA InsertRowChanges ==
  ASSUME TableType, FreeSlots, LiveBacked, NEW w \in TxnIds, NEW r \in RowIds,
         NEW row \in Images, InsertRow(w, r, row)
  PROVE  Changed(w, r, {row})
<1>0. row # NoRow
  BY NoRowAssumption
<1>1. /\ versions' \in [RowIds -> Seq(Version)]
      /\ versions'[r] # <<>> /\ Back(versions'[r]).deletedBy = {}
      /\ \A q \in RowIds :
           /\ ChainGrows(versions[q], versions'[q], w)
           /\ q # r => versions'[q] = versions[q]
           /\ \A i \in Len(versions[q]) + 1 .. Len(versions'[q]) : versions'[q][i].row \in {row}
  <2>1. versions' = [versions EXCEPT ![r] = WriteVersion(@, row, w)]
    BY DEF InsertRow
  <2> QED BY <2>1, WriteChain, Zenon
<1>2. Len(heap) \in Nat /\ DOMAIN heap = 1..Len(heap)
  BY LenProperties DEF TableType
<1>3. /\ heap' \in Seq(Images \cup {NoRow})
      /\ DOMAIN heap' = DOMAIN heap \cup {r}
      /\ heap'[r] = row
      /\ \A q \in DOMAIN heap : q # r => heap'[q] = heap[q]
      /\ freeList' \in Seq(RowIds) /\ IsInjective(freeList')
      /\ Range(freeList') = Range(freeList) \ {r}
      /\ r \notin DOMAIN heap \/ heap[r] = NoRow
  <2>1. CASE freeList # <<>>
    <3>1. r = Back(freeList) /\ freeList' = PopBack(freeList)
      BY <2>1 DEF InsertRow, AppendSlot
    <3>2. r \in DOMAIN heap /\ heap[r] = NoRow
      BY <2>1, <3>1, PopBackFacts DEF FreeSlots, TableType
    <3>3. heap' = [heap EXCEPT ![r] = row]
      BY <3>2 DEF InsertRow
    <3>4. heap' \in [1..Len(heap) -> Images \cup {NoRow}]
      BY <1>2, <3>3, LenProperties, Zenon DEF TableType
    <3>5. heap' \in Seq(Images \cup {NoRow}) /\ DOMAIN heap' = DOMAIN heap
      BY <1>2, <3>4, FunctionIsSeq
    <3>6. freeList' \in Seq(RowIds) /\ IsInjective(freeList')
          /\ Range(freeList') = Range(freeList) \ {r}
      BY <2>1, <3>1, PopBackFacts DEF FreeSlots, TableType
    <3> QED BY <3>2, <3>3, <3>5, <3>6, Zenon
  <2>2. CASE freeList = <<>>
    <3>1. r = Len(heap) + 1 /\ freeList' = freeList /\ r \notin DOMAIN heap
      BY <1>2, <2>2 DEF InsertRow, AppendSlot
    <3>2. heap' = Append(heap, row)
      BY <3>1 DEF InsertRow
    <3>3. /\ heap' \in Seq(Images \cup {NoRow})
          /\ DOMAIN heap' = 1..(Len(heap) + 1)
          /\ \A q \in 1..Len(heap) : heap'[q] = heap[q]
          /\ heap'[Len(heap) + 1] = row
      BY <1>2, <3>2, AppendProperties, LenProperties DEF TableType
    <3>4. r \notin Range(freeList)
      BY <3>1 DEF FreeSlots
    <3> QED BY <1>2, <3>1, <3>3, <3>4 DEF FreeSlots, TableType
  <2> QED BY <2>1, <2>2
<1>4. TableType'
  BY <1>1, <1>3 DEF TableType, RowIds
<1>5. FreeSlots'
  BY <1>0, <1>3 DEF FreeSlots
<1>6. LiveBacked'
  BY <1>1, <1>3, Zenon DEF LiveBacked, Live, TableType
<1> QED
  BY <1>1, <1>4, <1>5, <1>6 DEF Changed

LEMMA UpdatedRowIsImage ==
  ASSUME TableType, NEW r \in RowIds, Live(r), NEW c \in Cols, NEW v \in Vals
  PROVE  UpdatedRow(r, c, v) \in Images
<1>1. heap[r] \in Images
  BY LenProperties DEF TableType, Live
<1> QED
  BY <1>1, ImagesAssumption DEF UpdatedRow

LEMMA HeapReplaced ==
  ASSUME TableType, NEW r \in DOMAIN heap, NEW row \in Images \cup {NoRow},
         heap' = [heap EXCEPT ![r] = row]
  PROVE  /\ heap' \in Seq(Images \cup {NoRow})
         /\ DOMAIN heap' = DOMAIN heap
         /\ \A q \in DOMAIN heap : heap'[q] = IF q = r THEN row ELSE heap[q]
<1>1. Len(heap) \in Nat /\ DOMAIN heap = 1..Len(heap)
  BY LenProperties DEF TableType
<1>2. heap' \in [1..Len(heap) -> Images \cup {NoRow}]
  BY <1>1, LenProperties DEF TableType
<1> QED
  BY <1>1, <1>2, FunctionIsSeq, Zenon

LEMMA UpdateRowChanges ==
  ASSUME TableType, FreeSlots, LiveBacked, NEW w \in TxnIds, NEW r \in RowIds,
         NEW row \in Images, UpdateRow(w, r, row)
  PROVE  Changed(w, r, {row})
<1>0. row # NoRow
  BY NoRowAssumption
<1>1. /\ versions' \in [RowIds -> Seq(Version)]
      /\ versions'[r] # <<>> /\ Back(versions'[r]).deletedBy = {}
      /\ \A q \in RowIds :
           /\ ChainGrows(versions[q], versions'[q], w)
           /\ q # r => versions'[q] = versions[q]
           /\ \A i \in Len(versions[q]) + 1 .. Len(versions'[q]) : versions'[q][i].row \in {row}
  <2>1. versions' = [versions EXCEPT ![r] = WriteVersion(@, row, w)]
    BY DEF UpdateRow
  <2> QED BY <2>1, WriteChain, Zenon
<1>2. r \in DOMAIN heap /\ heap[r] # NoRow
  BY DEF UpdateRow, Live
<1>3. /\ heap' \in Seq(Images \cup {NoRow})
      /\ DOMAIN heap' = DOMAIN heap
      /\ \A q \in DOMAIN heap : heap'[q] = IF q = r THEN row ELSE heap[q]
  BY <1>2, HeapReplaced, Zenon DEF UpdateRow
<1>4. TableType'
  BY <1>1, <1>3 DEF TableType, UpdateRow, RowIds
<1>5. FreeSlots'
  BY <1>0, <1>2, <1>3 DEF FreeSlots, UpdateRow
<1>6. LiveBacked'
  BY <1>1, <1>3, Zenon DEF LiveBacked, Live, TableType
<1> QED
  BY <1>1, <1>4, <1>5, <1>6 DEF Changed

LEMMA EraseRowChanges ==
  ASSUME TableType, FreeSlots, LiveBacked, NEW w \in TxnIds, NEW r \in RowIds,
         EraseRow(w, r)
  PROVE  Changed(w, r, {})
<1>1. r \in DOMAIN heap /\ heap[r] # NoRow
      /\ versions[r] # <<>> /\ Back(versions[r]).deletedBy = {}
  BY Zenon DEF EraseRow, Live, LiveBacked
<1>2. /\ versions' \in [RowIds -> Seq(Version)]
      /\ \A q \in RowIds :
           /\ ChainGrows(versions[q], versions'[q], w)
           /\ q # r => versions'[q] = versions[q]
           /\ Len(versions'[q]) = Len(versions[q])
  BY <1>1, EraseChain, Zenon DEF EraseRow
<1>3. /\ heap' \in Seq(Images \cup {NoRow})
      /\ DOMAIN heap' = DOMAIN heap
      /\ \A q \in DOMAIN heap : heap'[q] = IF q = r THEN NoRow ELSE heap[q]
  BY <1>1, HeapReplaced, ZenonT(30) DEF EraseRow
<1>4. r \notin Range(freeList)
  BY <1>1 DEF FreeSlots
<1>5. /\ freeList' \in Seq(RowIds) /\ IsInjective(freeList')
      /\ Range(freeList') = Range(freeList) \cup {r}
  BY <1>4, AppendFacts DEF EraseRow, TableType, FreeSlots
<1>6. TableType'
  BY <1>2, <1>3, <1>5 DEF TableType, RowIds
<1>7. FreeSlots'
  BY <1>1, <1>3, <1>5 DEF FreeSlots
<1>8. LiveBacked'
  BY <1>2, <1>3, ZenonT(30) DEF LiveBacked, Live, TableType
<1>9. \A q \in RowIds : Len(versions[q]) \in Nat
  BY LenProperties DEF TableType
<1> QED
  BY <1>2, <1>6, <1>7, <1>8, <1>9 DEF Changed

-----------------------------------------------------------------------------
(* The inductive invariant.                                                *)

StampsRecorded ==
  \A r \in RowIds : \A i \in DOMAIN versions[r] :
    /\ versions[r][i].createdBy # System =>
         /\ r \in everWrites[versions[r][i].createdBy]
         /\ versions[r][i].row \in everInserts[versions[r][i].createdBy]
    /\ \A d \in versions[r][i].deletedBy : r \in everWrites[d]

ScansRecorded ==
  \A t \in TxnIds, r \in RowIds :
    everPredicates[t] # {} /\ CommittedAt(r, snapshotMaxCommitSeq[t]) # NoRow
      => r \in everReads[t] \cup everWrites[t]

SnapshotBeforeCommit ==
  \A t \in TxnIds : state[t] = "Committed" => snapshotMaxCommitSeq[t] < commitSeq[t]

TableInv ==
  /\ IInv /\ TableType /\ TableOK
  /\ StampsRecorded /\ ScansRecorded /\ SnapshotBeforeCommit

-----------------------------------------------------------------------------
(* What every step of the manager does to the other transactions, and what *)
(* every step of a writer does to the chains.                              *)

(* Commits are final and new ones get new sequences, snapshots of born     *)
(* transactions stay, histories grow.                                      *)
Forward ==
  \A u \in TxnIds :
    /\ state[u] = "Committed" => state'[u] = "Committed" /\ commitSeq'[u] = commitSeq[u]
    /\ state[u] # "Committed" /\ state'[u] = "Committed" =>
         commitSeq'[u] = nextCommitSeq + 1 /\ snapshotMaxCommitSeq'[u] <= nextCommitSeq
    /\ state[u] # "Unborn" => snapshotMaxCommitSeq'[u] = snapshotMaxCommitSeq[u]
    /\ everReads[u] \subseteq everReads'[u]
    /\ everWrites[u] \subseteq everWrites'[u]
    /\ everInserts[u] \subseteq everInserts'[u]

(* Only w, which had not committed, stamps versions, and it records what   *)
(* it stamps.                                                              *)
StepOf(w) ==
  /\ w \in TxnIds /\ state[w] # "Committed"
  /\ Forward
  /\ \A q \in RowIds :
       /\ ChainGrows(versions[q], versions'[q], w)
       /\ versions'[q] # versions[q] => q \in everWrites'[w]
       /\ \A i \in Len(versions[q]) + 1 .. Len(versions'[q]) :
            versions'[q][i].row \in everInserts'[w]

LEMMA BeginForward ==
  ASSUME IInv, Begin
  PROVE  Forward /\ nextId \in TxnIds /\ state[nextId] = "Unborn"
<1>1. nextId \in TxnIds /\ state[nextId] = "Unborn"
  BY MaxTxnsAssumption DEF IInv, Begin, TypeOK, TxnIds, Lifecycle
<1> QED
  BY <1>1 DEF IInv, Begin, TypeOK, Forward, history

LEMMA RollbackForward ==
  ASSUME IInv, NEW t \in TxnIds, Rollback(t)
  PROVE  Forward /\ state[t] = "Active"
BY DEF IInv, Rollback, TypeOK, Forward, history, IsActive

LEMMA CommitForward ==
  ASSUME IInv, NEW t \in TxnIds, CommitTxn(t)
  PROVE  Forward /\ state[t] = "Active"
BY DEF IInv, Lifecycle, CommitTxn, TypeOK, Forward, history, IsActive, IsSerializable

LEMMA AutocommitForward ==
  ASSUME IInv, NEW ks \in SUBSET Keys, NEW is \in SUBSET Images, Autocommit(ks, is)
  PROVE  /\ Forward /\ nextId \in TxnIds /\ state[nextId] = "Unborn"
         /\ everWrites'[nextId] = ks /\ everInserts'[nextId] = is
<1>1. nextId \in TxnIds /\ state[nextId] = "Unborn"
  BY MaxTxnsAssumption DEF IInv, Autocommit, TypeOK, TxnIds, Lifecycle
<1>2. everWrites[nextId] = {} /\ everInserts[nextId] = {}
  BY <1>1 DEF IInv, ActiveIsHistory
<1> QED
  BY <1>1, <1>2 DEF IInv, Autocommit, TypeOK, Forward

(* The visibility of a transaction other than the writer, for a snapshot   *)
(* that has been taken, does not change.                                   *)
LEMMA VisibilityStable ==
  ASSUME IInv, Forward, NEW self, NEW max \in 0..nextCommitSeq,
         NEW id \in TxnIds \cup {System}
  PROVE  IsCreatorVisible(id, self, max)' <=> IsCreatorVisible(id, self, max)
<1>1. nextCommitSeq \in Nat
  BY DEF IInv, TypeOK
<1>2. CASE id = System
  BY <1>2 DEF IsCreatorVisible
<1>3. CASE id \in TxnIds /\ state[id] = "Committed"
  BY <1>3 DEF IsCreatorVisible, Forward
<1>4. CASE id \in TxnIds /\ state[id] # "Committed" /\ state'[id] = "Committed"
  <2>1. commitSeq'[id] = nextCommitSeq + 1
    BY <1>4 DEF Forward
  <2>2. ~(commitSeq'[id] <= max)
    BY <1>1, <2>1
  <2> QED BY <1>4, <2>2 DEF IsCreatorVisible
<1>5. CASE id \in TxnIds /\ state[id] # "Committed" /\ state'[id] # "Committed"
  BY <1>5 DEF IsCreatorVisible
<1> QED
  BY <1>2, <1>3, <1>4, <1>5

LEMMA WriterUnseen ==
  ASSUME IInv, Forward, NEW w \in TxnIds, state[w] # "Committed",
         NEW self, self # w, NEW max \in 0..nextCommitSeq
  PROVE  ~IsCreatorVisible(w, self, max)'
<1>1. ~IsCreatorVisible(w, self, max)
  BY DEF IsCreatorVisible, TxnIds, System
<1> QED
  BY <1>1, VisibilityStable

LEMMA PastStays ==
  ASSUME TableInv, TableType', NEW w, StepOf(w),
         NEW r \in RowIds, NEW s \in 0..nextCommitSeq
  PROVE  CommittedAt(r, s)' = CommittedAt(r, s)
<1>1. w \in TxnIds /\ w # System /\ state[w] # "Committed" /\ Forward
      /\ ChainGrows(versions[r], versions'[r], w)
  BY DEF StepOf, TxnIds, System
<1>2. ~IsCreatorVisible(w, System, s)'
  BY <1>1, WriterUnseen DEF TableInv
<1>3. \A id \in TxnIds \cup {System} :
        IsCreatorVisible(id, System, s)' <=> IsCreatorVisible(id, System, s)
  BY <1>1, VisibilityStable DEF TableInv
<1>4. Read(r, System, s)' = Read(r, System, s)
  BY <1>1, <1>2, <1>3, ReadStable DEF TableInv
<1> QED
  BY <1>4 DEF CommittedAt, System

-----------------------------------------------------------------------------
(* Every step of the table and the manager is the step of one writer and   *)
(* preserves the manager's invariant.                                      *)

LEMMA RecordChangePreserves ==
  ASSUME IInv, NEW t \in TxnIds, NEW r \in RowIds, NEW is \in SUBSET Images,
         IsActive(t), RecordChange(t, r, is)
  PROVE  IInv' /\ Forward /\ r \in everWrites'[t] /\ is \subseteq everInserts'[t]
<1>1. Recording(t)
  BY DEF IInv, TypeOK, RecordChange, Recording
<1>2. TypeOK'
  BY DEF IInv, TypeOK, RecordChange, RowIds, counters, records, retained
<1>3. ActiveIsHistory'
  BY ZenonT(30) DEF IInv, TypeOK, RecordChange, ActiveIsHistory, IsActive, records
<1>4. IInv'
  BY <1>1, <1>2, <1>3, RecordingPreserves
<1>5. Forward /\ r \in everWrites'[t] /\ is \subseteq everInserts'[t]
  BY DEF IInv, TypeOK, RecordChange, Forward, records, counters
<1> QED
  BY <1>4, <1>5

LEMMA ScanPreserves ==
  ASSUME IInv, NEW t \in TxnIds, NEW p \in Predicates, Scan(t, p)
  PROVE  IInv' /\ Forward /\ state[t] = "Active"
<1> DEFINE seen == {r \in RowIds : View(t, r) # NoRow}
<1>0. seen \subseteq Keys
  BY DEF RowIds
<1>1. /\ IsActive(t)
      /\ activePredicateReads' = [activePredicateReads EXCEPT ![t] = @ \cup {p}]
      /\ everPredicates' = [everPredicates EXCEPT ![t] = @ \cup {p}]
      /\ activeReads' = [activeReads EXCEPT ![t] = @ \cup seen]
      /\ everReads' = [everReads EXCEPT ![t] = @ \cup seen]
      /\ UNCHANGED <<counters, records, activeWrites, activeInserts, retained, refused,
                     everWrites, everInserts, tableVars>>
  BY DEF Scan
<1> HIDE DEF seen
<1>2. Recording(t)
  BY <1>1 DEF IInv, TypeOK, Recording
<1>3. TypeOK'
  BY <1>0, <1>1 DEF IInv, TypeOK, counters, records, retained
<1>4. ActiveIsHistory'
  BY <1>1, ZenonT(30) DEF IInv, TypeOK, ActiveIsHistory, IsActive, records
<1>5. IInv'
  BY <1>2, <1>3, <1>4, RecordingPreserves
<1>6. Forward /\ state[t] = "Active"
  BY <1>1 DEF IInv, TypeOK, Forward, records, counters, IsActive
<1> QED
  BY <1>5, <1>6

WellFormed == TableType /\ FreeSlots /\ LiveBacked

LEMMA ChangedStep ==
  ASSUME NEW w \in TxnIds, NEW r \in RowIds, NEW is, state[w] # "Committed", Forward,
         Changed(w, r, is), r \in everWrites'[w], is \subseteq everInserts'[w]
  PROVE  StepOf(w) /\ WellFormed'
BY DEF StepOf, Changed, WellFormed

LEMMA ManagerOnlyStep ==
  ASSUME TableInv, NEW w \in TxnIds, state[w] # "Committed", Forward, UNCHANGED tableVars
  PROVE  StepOf(w) /\ WellFormed'
<1>1. heap' = heap /\ freeList' = freeList /\ versions' = versions
  BY DEF tableVars
<1>2. WellFormed
  BY TableOKParts DEF TableInv, WellFormed
<1>3. WellFormed'
  BY <1>1, <1>2, ZenonT(30) DEF WellFormed, TableType, FreeSlots, LiveBacked, Live
<1>4. \A q \in RowIds : /\ ChainGrows(versions[q], versions'[q], w)
                        /\ Len(versions[q]) \in Nat
  BY <1>1, UnchangedChainGrows, LenProperties DEF TableInv, TableType
<1> QED
  BY <1>1, <1>3, <1>4 DEF StepOf

(* A step, who takes it, and that it records no predicate, unless a scan.  *)
Outcome(w) ==
  /\ IInv' /\ WellFormed' /\ StepOf(w)
  /\ everPredicates' = everPredicates \/ \E p \in Predicates : Scan(w, p)

LEMMA InsertOutcome ==
  ASSUME TableInv, NEW t \in TxnIds, NEW row \in Images, Insert(t, row)
  PROVE  Outcome(t)
<1>1. PICK r \in RowIds : InsertRow(t, r, row) /\ RecordChange(t, r, {row})
  BY DEF Insert
<1>2. IsActive(t) /\ state[t] # "Committed"
  BY DEF Insert, IsActive
<1>3. Changed(t, r, {row})
  BY <1>1, InsertRowChanges, TableOKParts DEF TableInv
<1>4. IInv' /\ Forward /\ r \in everWrites'[t] /\ {row} \subseteq everInserts'[t]
  BY <1>1, <1>2, RecordChangePreserves DEF TableInv
<1>5. StepOf(t) /\ WellFormed'
  BY <1>2, <1>3, <1>4, ChangedStep
<1> QED
  BY <1>1, <1>4, <1>5 DEF Outcome, RecordChange

LEMMA UpdateOutcome ==
  ASSUME TableInv, NEW t \in TxnIds, NEW r \in RowIds, NEW c \in Cols, NEW v \in Vals,
         Update(t, r, c, v)
  PROVE  Outcome(t)
<1> DEFINE row == UpdatedRow(r, c, v)
<1>1. UpdateRow(t, r, row) /\ RecordChange(t, r, {row})
  BY DEF Update
<1>2. IsActive(t) /\ state[t] # "Committed"
  BY DEF Update, IsActive
<1>3. row \in Images
  BY <1>1, UpdatedRowIsImage DEF TableInv, UpdateRow
<1> HIDE DEF row
<1>4. Changed(t, r, {row})
  BY <1>1, <1>3, UpdateRowChanges, TableOKParts DEF TableInv
<1>5. IInv' /\ Forward /\ r \in everWrites'[t] /\ {row} \subseteq everInserts'[t]
  BY <1>1, <1>2, <1>3, RecordChangePreserves DEF TableInv
<1>6. StepOf(t) /\ WellFormed'
  BY <1>2, <1>4, <1>5, ChangedStep
<1> QED
  BY <1>1, <1>5, <1>6 DEF Outcome, RecordChange

LEMMA EraseOutcome ==
  ASSUME TableInv, NEW t \in TxnIds, NEW r \in RowIds, Erase(t, r)
  PROVE  Outcome(t)
<1>1. EraseRow(t, r) /\ RecordChange(t, r, {}) /\ IsActive(t) /\ state[t] # "Committed"
  BY DEF Erase, IsActive
<1>2. Changed(t, r, {})
  BY <1>1, EraseRowChanges, TableOKParts DEF TableInv
<1>3. IInv' /\ Forward /\ r \in everWrites'[t]
  BY <1>1, RecordChangePreserves DEF TableInv
<1>4. StepOf(t) /\ WellFormed'
  BY <1>1, <1>2, <1>3, ChangedStep
<1> QED
  BY <1>1, <1>3, <1>4 DEF Outcome, RecordChange

LEMMA AutoInsertOutcome ==
  ASSUME TableInv, NEW row \in Images, AutoInsert(row)
  PROVE  Outcome(nextId)
<1>1. PICK r \in RowIds : InsertRow(nextId, r, row) /\ Autocommit({r}, {row})
  BY DEF AutoInsert
<1>2. {r} \in SUBSET Keys /\ {row} \in SUBSET Images
  BY DEF RowIds
<1>3. /\ Forward /\ nextId \in TxnIds /\ state[nextId] = "Unborn"
      /\ everWrites'[nextId] = {r} /\ everInserts'[nextId] = {row}
  BY <1>1, <1>2, AutocommitForward DEF TableInv
<1>4. IInv'
  BY <1>1, <1>2, AutocommitPreserves DEF TableInv
<1>5. Changed(nextId, r, {row})
  BY <1>1, <1>3, InsertRowChanges, TableOKParts DEF TableInv
<1>6. StepOf(nextId) /\ WellFormed'
  BY <1>3, <1>5, ChangedStep
<1> QED
  BY <1>1, <1>4, <1>6 DEF Outcome, Autocommit

LEMMA AutoUpdateOutcome ==
  ASSUME TableInv, NEW r \in RowIds, NEW c \in Cols, NEW v \in Vals, AutoUpdate(r, c, v)
  PROVE  Outcome(nextId)
<1> DEFINE row == UpdatedRow(r, c, v)
<1>1. UpdateRow(nextId, r, row) /\ Autocommit({r}, {row})
  BY DEF AutoUpdate
<1>2. row \in Images
  BY <1>1, UpdatedRowIsImage DEF TableInv, UpdateRow
<1> HIDE DEF row
<1>3. {r} \in SUBSET Keys /\ {row} \in SUBSET Images
  BY <1>2 DEF RowIds
<1>4. /\ Forward /\ nextId \in TxnIds /\ state[nextId] = "Unborn"
      /\ everWrites'[nextId] = {r} /\ everInserts'[nextId] = {row}
  BY <1>1, <1>3, AutocommitForward DEF TableInv
<1>5. IInv'
  BY <1>1, <1>3, AutocommitPreserves DEF TableInv
<1>6. Changed(nextId, r, {row})
  BY <1>1, <1>2, <1>4, UpdateRowChanges, TableOKParts DEF TableInv
<1>7. StepOf(nextId) /\ WellFormed'
  BY <1>4, <1>6, ChangedStep
<1> QED
  BY <1>1, <1>5, <1>7 DEF Outcome, Autocommit

LEMMA AutoEraseOutcome ==
  ASSUME TableInv, NEW r \in RowIds, AutoErase(r)
  PROVE  Outcome(nextId)
<1>1. EraseRow(nextId, r) /\ Autocommit({r}, {})
  BY DEF AutoErase
<1>2. {r} \in SUBSET Keys
  BY DEF RowIds
<1>3. /\ Forward /\ nextId \in TxnIds /\ state[nextId] = "Unborn"
      /\ everWrites'[nextId] = {r}
  BY <1>1, <1>2, AutocommitForward DEF TableInv
<1>4. IInv'
  BY <1>1, <1>2, AutocommitPreserves DEF TableInv
<1>5. Changed(nextId, r, {})
  BY <1>1, <1>3, EraseRowChanges, TableOKParts DEF TableInv
<1>6. StepOf(nextId) /\ WellFormed'
  BY <1>3, <1>5, ChangedStep
<1> QED
  BY <1>1, <1>4, <1>6 DEF Outcome, Autocommit

LEMMA ManagerOutcome ==
  ASSUME TableInv, NEW t \in TxnIds, Manager(t)
  PROVE  Outcome(t)
<1>1. UNCHANGED tableVars
  BY DEF Manager
<1>2. IInv' /\ Forward /\ state[t] = "Active" /\ everPredicates' = everPredicates
  <2>1. CASE RollbackTxn(t)
    BY <2>1, RollbackTxnPreserves, RollbackForward, Zenon
       DEF TableInv, RollbackTxn, Rollback, history
  <2>2. CASE CommitTxn(t)
    BY <2>2, CommitTxnPreserves, CommitForward, Zenon DEF TableInv, CommitTxn, history
  <2>3. CASE CommitRefused(t)
    BY <2>3, CommitRefusedPreserves, RollbackForward, ZenonT(30)
       DEF TableInv, CommitRefused, Rollback, history
  <2> QED BY <2>1, <2>2, <2>3 DEF Manager
<1>3. StepOf(t) /\ WellFormed'
  BY <1>1, <1>2, ManagerOnlyStep
<1> QED
  BY <1>2, <1>3 DEF Outcome

LEMMA BeginOutcome ==
  ASSUME TableInv, Begin, UNCHANGED tableVars
  PROVE  Outcome(nextId)
<1>1. Forward /\ nextId \in TxnIds /\ state[nextId] = "Unborn"
  BY BeginForward DEF TableInv
<1>2. IInv'
  BY BeginPreserves DEF TableInv
<1>3. StepOf(nextId) /\ WellFormed'
  BY <1>1, ManagerOnlyStep
<1> QED
  BY <1>2, <1>3 DEF Outcome, Begin, history

LEMMA RowByIdOutcome ==
  ASSUME TableInv, NEW t \in TxnIds, NEW r \in RowIds, RowById(t, r)
  PROVE  Outcome(t)
<1>1. RecordRead(t, r) /\ UNCHANGED tableVars
  BY DEF RowById
<1>2. IInv'
  BY <1>1, RecordReadPreserves DEF TableInv, RowIds
<1>3. Forward /\ state[t] = "Active"
  BY <1>1 DEF TableInv, IInv, TypeOK, RecordRead, Forward, records, counters, IsActive
<1>4. StepOf(t) /\ WellFormed'
  BY <1>1, <1>3, ManagerOnlyStep
<1> QED
  BY <1>1, <1>2, <1>4 DEF Outcome, RecordRead

LEMMA ScanOutcome ==
  ASSUME TableInv, NEW t \in TxnIds, NEW p \in Predicates, Scan(t, p)
  PROVE  Outcome(t)
<1>1. IInv' /\ Forward /\ state[t] = "Active"
  BY ScanPreserves DEF TableInv
<1>2. UNCHANGED tableVars
  BY DEF Scan
<1>3. StepOf(t) /\ WellFormed'
  BY <1>1, <1>2, ManagerOnlyStep
<1> QED
  BY <1>1, <1>3 DEF Outcome

LEMMA NextOutcome ==
  ASSUME TableInv, TableNext
  PROVE  \E w \in TxnIds : Outcome(w)
<1>0. \A w : Outcome(w) => w \in TxnIds
  BY DEF Outcome, StepOf
<1>1. CASE Begin /\ UNCHANGED tableVars
  BY <1>0, <1>1, BeginOutcome
<1>2. ASSUME NEW t \in TxnIds, Manager(t) PROVE Outcome(t)
  BY <1>2, ManagerOutcome
<1>3. ASSUME NEW t \in TxnIds, NEW row \in Images, Insert(t, row) PROVE Outcome(t)
  BY <1>3, InsertOutcome
<1>4. ASSUME NEW t \in TxnIds, NEW r \in RowIds, NEW c \in Cols, NEW v \in Vals,
             Update(t, r, c, v)
      PROVE  Outcome(t)
  BY <1>4, UpdateOutcome
<1>5. ASSUME NEW t \in TxnIds, NEW r \in RowIds, Erase(t, r) PROVE Outcome(t)
  BY <1>5, EraseOutcome
<1>6. ASSUME NEW t \in TxnIds, NEW r \in RowIds, RowById(t, r) PROVE Outcome(t)
  BY <1>6, RowByIdOutcome
<1>7. ASSUME NEW t \in TxnIds, NEW p \in Predicates, Scan(t, p) PROVE Outcome(t)
  BY <1>7, ScanOutcome
<1>8. ASSUME NEW row \in Images, AutoInsert(row) PROVE Outcome(nextId)
  BY <1>8, AutoInsertOutcome
<1>9. ASSUME NEW r \in RowIds, NEW c \in Cols, NEW v \in Vals, AutoUpdate(r, c, v)
      PROVE  Outcome(nextId)
  BY <1>9, AutoUpdateOutcome
<1>10. ASSUME NEW r \in RowIds, AutoErase(r) PROVE Outcome(nextId)
  BY <1>10, AutoEraseOutcome
<1> QED
  BY <1>0, <1>1, <1>2, <1>3, <1>4, <1>5, <1>6, <1>7, <1>8, <1>9, <1>10 DEF TableNext

-----------------------------------------------------------------------------
(* The step of one writer preserves the invariant of the composition.      *)

LEMMA StampsPreserved ==
  ASSUME TableInv, WellFormed', NEW w, StepOf(w)
  PROVE  StampsRecorded'
<1> SUFFICES ASSUME NEW r \in RowIds, NEW i \in DOMAIN versions'[r]
             PROVE  /\ versions'[r][i].createdBy # System =>
                         /\ r \in everWrites'[versions'[r][i].createdBy]
                         /\ versions'[r][i].row \in everInserts'[versions'[r][i].createdBy]
                    /\ \A d \in versions'[r][i].deletedBy : r \in everWrites'[d]
  BY DEF StampsRecorded, RowIds
<1>1. /\ Len(versions[r]) \in Nat /\ DOMAIN versions[r] = 1..Len(versions[r])
      /\ Len(versions'[r]) \in Nat /\ DOMAIN versions'[r] = 1..Len(versions'[r])
  BY LenProperties DEF TableInv, WellFormed, TableType
<1>2. /\ ChainGrows(versions[r], versions'[r], w)
      /\ versions'[r] # versions[r] => r \in everWrites'[w]
      /\ \A j \in Len(versions[r]) + 1 .. Len(versions'[r]) :
           versions'[r][j].row \in everInserts'[w]
  BY DEF StepOf
<1>3. \A u \in TxnIds : everWrites[u] \subseteq everWrites'[u]
                        /\ everInserts[u] \subseteq everInserts'[u]
  BY DEF StepOf, Forward
<1>4. CASE i \in 1..Len(versions[r])
  <2>1. versions[r][i] \in Version
    BY <1>1, <1>4 DEF TableInv, TableOK
  <2>2. versions[r][i].createdBy \in TxnIds \cup {System} /\ versions[r][i].deletedBy \subseteq TxnIds
    BY <2>1 DEF Version
  <2>3. /\ versions[r][i].createdBy # System =>
             /\ r \in everWrites[versions[r][i].createdBy]
             /\ versions[r][i].row \in everInserts[versions[r][i].createdBy]
        /\ \A d \in versions[r][i].deletedBy : r \in everWrites[d]
    BY <1>1, <1>4 DEF TableInv, StampsRecorded
  <2>4. /\ versions'[r][i].createdBy = versions[r][i].createdBy
        /\ versions'[r][i].row = versions[r][i].row
    BY <1>2, <1>4 DEF ChainGrows
  <2>5. CASE versions'[r][i].deletedBy = versions[r][i].deletedBy
    BY <1>3, <2>2, <2>3, <2>4, <2>5
  <2>6. CASE versions'[r][i].deletedBy # versions[r][i].deletedBy
    <3>1. versions'[r][i].deletedBy = {w} /\ r \in everWrites'[w]
      BY <1>2, <1>4, <2>6 DEF ChainGrows
    <3> QED BY <1>3, <2>2, <2>3, <2>4, <3>1
  <2> QED BY <2>5, <2>6
<1>5. CASE i \in Len(versions[r]) + 1 .. Len(versions'[r])
  <2>1. versions'[r][i].createdBy = w /\ versions'[r][i].deletedBy = {}
    BY <1>2, <1>5 DEF ChainGrows
  <2>2. versions'[r] # versions[r]
    BY <1>1, <1>5
  <2> QED BY <1>2, <1>5, <2>1, <2>2
<1> QED
  BY <1>1, <1>4, <1>5

(* Readers that see the same stamps of a row read the same.                *)
LEMMA SameStampsSameRead ==
  ASSUME NEW r, NEW self, NEW max, NEW other, NEW bound,
         \A i \in DOMAIN versions[r] :
           IsVisible(versions[r][i], self, max) <=> IsVisible(versions[r][i], other, bound)
  PROVE  Read(r, self, max) = Read(r, other, bound)
<1>1. Visible(r, self, max) = Visible(r, other, bound)
  BY DEF Visible
<1> QED
  BY <1>1 DEF Read, Visible

(* A transaction that did not write a row sees of it what its snapshot     *)
(* contains.                                                               *)
LEMMA ViewIsSnapshot ==
  ASSUME TableInv, NEW t \in TxnIds, NEW r \in RowIds, r \notin everWrites[t]
  PROVE  View(t, r) = CommittedAt(r, snapshotMaxCommitSeq[t])
<1> DEFINE max == snapshotMaxCommitSeq[t]
<1>1. ASSUME NEW i \in DOMAIN versions[r]
      PROVE  IsVisible(versions[r][i], t, max) <=> IsVisible(versions[r][i], System, max)
  <2>1. /\ versions[r][i].createdBy # t
        /\ t \notin versions[r][i].deletedBy
    BY DEF TableInv, StampsRecorded, TxnIds, System
  <2>2. \A id : id # t => (IsCreatorVisible(id, t, max) <=> IsCreatorVisible(id, System, max))
    BY DEF IsCreatorVisible
  <2> HIDE DEF max
  <2> QED BY <2>1, <2>2 DEF IsVisible
<1>2. Read(r, t, max) = Read(r, System, max)
  BY <1>1, SameStampsSameRead
<1> QED
  BY <1>2 DEF View, CommittedAt

LEMMA SnapshotTaken ==
  ASSUME IInv, NEW t \in TxnIds
  PROVE  snapshotMaxCommitSeq[t] \in 0..nextCommitSeq
BY DEF IInv, Lifecycle, TypeOK

LEMMA ScansPreserved ==
  ASSUME TableInv, NEW w \in TxnIds, Outcome(w)
  PROVE  ScansRecorded'
<1> SUFFICES ASSUME NEW t \in TxnIds, NEW r \in RowIds, everPredicates'[t] # {},
                    CommittedAt(r, snapshotMaxCommitSeq[t])' # NoRow
             PROVE  r \in everReads'[t] \cup everWrites'[t]
  BY DEF ScansRecorded, RowIds
<1>1. StepOf(w) /\ Forward /\ TableType'
  BY DEF Outcome, StepOf, WellFormed
<1>2. ASSUME state[t] # "Unborn"
      PROVE  CommittedAt(r, snapshotMaxCommitSeq[t]) # NoRow
  <2>1. snapshotMaxCommitSeq'[t] = snapshotMaxCommitSeq[t]
    BY <1>1, <1>2 DEF Forward
  <2>2. PICK s \in 0..nextCommitSeq : s = snapshotMaxCommitSeq[t]
    BY SnapshotTaken DEF TableInv
  <2>3. CommittedAt(r, s)' = CommittedAt(r, s)
    BY <1>1, PastStays
  <2>4. CommittedAt(r, snapshotMaxCommitSeq[t])' = CommittedAt(r, s)'
    BY <2>1, <2>2, ZenonT(30) DEF CommittedAt, Read, IsVisible, IsCreatorVisible
  <2> QED BY <2>2, <2>3, <2>4
<1>3. ASSUME state[t] # "Unborn", everPredicates[t] # {}
      PROVE  r \in everReads'[t] \cup everWrites'[t]
  <2>1. r \in everReads[t] \cup everWrites[t]
    BY <1>2, <1>3, ZenonT(30) DEF TableInv, ScansRecorded
  <2> QED BY <1>1, <2>1, ZenonT(30) DEF Forward
<1>4. state[t] = "Unborn" => everPredicates[t] = {}
  BY DEF TableInv, IInv, ActiveIsHistory
<1>5. CASE everPredicates[t] # {}
  BY <1>3, <1>4, <1>5
<1>6. CASE everPredicates[t] = {}
  <2>1. PICK p \in Predicates : Scan(w, p)
    BY <1>6 DEF Outcome
  <2>2. w = t /\ IsActive(t)
    BY <1>6, <2>1 DEF Scan, TableInv, IInv, TypeOK
  <2>3. CommittedAt(r, snapshotMaxCommitSeq[t]) # NoRow
    BY <1>2, <2>2 DEF IsActive
  <2>4. CASE r \in everWrites[t]
    BY <1>1, <2>4, ZenonT(30) DEF Forward
  <2>5. CASE r \notin everWrites[t]
    <3>1. View(t, r) # NoRow
      BY <2>3, <2>5, ViewIsSnapshot
    <3>2. everReads' = [everReads EXCEPT ![t] = @ \cup {q \in RowIds : View(t, q) # NoRow}]
      BY <2>1, <2>2 DEF Scan
    <3> QED BY <3>1, <3>2 DEF TableInv, IInv, TypeOK
  <2> QED BY <2>4, <2>5
<1> QED
  BY <1>5, <1>6

LEMMA SnapshotsPreserved ==
  ASSUME TableInv, IInv', Forward
  PROVE  SnapshotBeforeCommit'
<1> SUFFICES ASSUME NEW t \in TxnIds, state'[t] = "Committed"
             PROVE  snapshotMaxCommitSeq'[t] < commitSeq'[t]
  BY DEF SnapshotBeforeCommit
<1>1. nextCommitSeq \in Nat /\ snapshotMaxCommitSeq'[t] \in Nat
  BY DEF TableInv, IInv, TypeOK
<1>2. CASE state[t] = "Committed"
  BY <1>2 DEF Forward, TableInv, SnapshotBeforeCommit
<1>3. CASE state[t] # "Committed"
  <2>1. commitSeq'[t] = nextCommitSeq + 1 /\ snapshotMaxCommitSeq'[t] <= nextCommitSeq
    BY <1>3 DEF Forward
  <2> QED BY <1>1, <2>1
<1> QED
  BY <1>2, <1>3

LEMMA TableInitInvariant == TableInit => TableInv
<1> SUFFICES ASSUME TableInit PROVE TableInv
  OBVIOUS
<1>1. IInv
  BY InitInvariant DEF TableInit
<1>2. heap \in Seq(Images) /\ Len(heap) <= MaxRows
  BY LoadedAssumption DEF TableInit
<1>3. /\ Len(heap) \in Nat /\ DOMAIN heap = 1..Len(heap)
      /\ \A r \in DOMAIN heap : heap[r] \in Images
      /\ DOMAIN heap \subseteq RowIds
  BY <1>2, LenProperties, KeysAssumption DEF RowIds
<1> DEFINE first(r) == [createdBy |-> System, deletedBy |-> {}, row |-> heap[r]]
<1>4. \A r \in DOMAIN heap :
        first(r) \in Version /\ first(r).createdBy = System /\ first(r).deletedBy = {}
  BY <1>3 DEF Version, System
<1>5. versions = [r \in RowIds |-> IF r \in DOMAIN heap THEN <<first(r)>> ELSE <<>>]
  BY DEF TableInit
<1> HIDE DEF first
<1>6. TableType
  <2>1. heap \in Seq(Images \cup {NoRow})
    BY <1>2, SeqMonotonic
  <2>2. versions \in [RowIds -> Seq(Version)]
    BY <1>4, <1>5
  <2> QED BY <1>3, <2>1, <2>2 DEF TableType, TableInit
<1>7. FreeSlots
  <2>1. Range(freeList) = {} /\ IsInjective(freeList)
    BY DEF TableInit, Range, IsInjective
  <2> QED BY <1>3, <2>1, NoRowAssumption DEF FreeSlots
<1>8. LiveBacked
  BY <1>3, <1>4, <1>5 DEF LiveBacked, Back
<1>9. TableOK
  BY <1>1, <1>6, <1>7, <1>8, TableOKParts DEF IInv
<1>10. StampsRecorded
  BY <1>4, <1>5 DEF StampsRecorded
<1>11. ScansRecorded
  BY DEF ScansRecorded, TableInit, Init, Nothing
<1>12. SnapshotBeforeCommit
  BY DEF SnapshotBeforeCommit, TableInit, Init
<1> QED
  BY <1>1, <1>6, <1>9, <1>10, <1>11, <1>12 DEF TableInv

LEMMA TableStutter ==
  ASSUME TableInv, UNCHANGED allVars
  PROVE  TableInv'
<1>1. UNCHANGED vars /\ heap' = heap /\ freeList' = freeList /\ versions' = versions
  BY DEF allVars, tableVars
<1>2. IInv'
  BY <1>1, StepInvariant DEF TableInv
<1>3. TypeOK' 
  BY <1>2 DEF IInv
<1>4. TableType' /\ TableOK'
  BY <1>1, <1>3, ZenonT(30) DEF TableInv, TableType, TableOK, Live
<1>5. /\ state' = state /\ commitSeq' = commitSeq /\ everWrites' = everWrites
      /\ everInserts' = everInserts /\ everReads' = everReads
      /\ everPredicates' = everPredicates /\ snapshotMaxCommitSeq' = snapshotMaxCommitSeq
  BY <1>1 DEF vars, records, history
<1>6. StampsRecorded'
  BY <1>1, <1>5, ZenonT(30) DEF TableInv, StampsRecorded
<1>7. ScansRecorded'
  <2>1. ASSUME NEW r, NEW s PROVE CommittedAt(r, s)' = CommittedAt(r, s)
    BY <1>1, <1>5, Zenon DEF CommittedAt, Read, IsVisible, IsCreatorVisible
  <2> QED BY <1>5, <2>1 DEF TableInv, ScansRecorded
<1>8. SnapshotBeforeCommit'
  BY <1>5 DEF TableInv, SnapshotBeforeCommit
<1> QED
  BY <1>2, <1>4, <1>6, <1>7, <1>8 DEF TableInv

LEMMA TableStepInvariant == TableInv /\ [TableNext]_allVars => TableInv'
<1> SUFFICES ASSUME TableInv, [TableNext]_allVars PROVE TableInv'
  OBVIOUS
<1>1. CASE TableNext
  <2>1. PICK w \in TxnIds : Outcome(w)
    BY <1>1, NextOutcome
  <2>2. IInv' /\ WellFormed' /\ StepOf(w)
    BY <2>1 DEF Outcome
  <2>3. TableType' /\ TableOK'
    <3>1. TypeOK' /\ TableType' /\ FreeSlots' /\ LiveBacked'
      BY <2>2 DEF IInv, WellFormed
    <3>2. (\A r \in RowIds : \A i \in DOMAIN versions[r] : versions[r][i] \in Version)'
      BY <3>1, LenProperties DEF TableType
    <3> QED BY <3>1, <3>2 DEF TableOK, FreeSlots, LiveBacked
  <2>4. StampsRecorded'
    BY <2>2, StampsPreserved
  <2>5. ScansRecorded'
    BY <2>1, ScansPreserved
  <2>6. SnapshotBeforeCommit'
    BY <2>2, SnapshotsPreserved DEF StepOf
  <2> QED BY <2>2, <2>3, <2>4, <2>5, <2>6 DEF TableInv
<1>2. CASE UNCHANGED allVars
  BY <1>2, TableStutter
<1> QED
  BY <1>1, <1>2

-----------------------------------------------------------------------------
(* The theorems.                                                           *)

(* The inductive invariant of the composition holds in every reachable     *)
(* state: the manager's invariant survives the table operations, which     *)
(* make several recording calls in one step.                               *)
THEOREM TableInvariance == TableSpec => []TableInv
BY TableInitInvariant, TableStepInvariant, PTL DEF TableSpec

(* Table::insert, update and erase keep the heap, the free list and the    *)
(* version chains consistent: a slot is free exactly if it is in the free  *)
(* list, once, and the newest version of a live row is not deleted.        *)
THEOREM TableWellFormed == TableSpec => []TableOK
<1>1. TableInv => TableOK
  BY DEF TableInv
<1> QED
  BY <1>1, TableInvariance, PTL

(* TransactionManager::commit validates soundly and completely when it is  *)
(* driven by the tables: the commit order serializes the transactions, no  *)
(* set is pruned too early, no commit is refused without a conflict.       *)
THEOREM ManagerOverTable ==
  TableSpec => [](/\ SerializableInCommitOrder /\ RetainedForActive
                  /\ RefusedOnlyOnConflict /\ RetainedSetsAreNeeded)
<1>1. TableInv => /\ SerializableInCommitOrder /\ RetainedForActive
                  /\ RefusedOnlyOnConflict /\ RetainedSetsAreNeeded
  BY DEF TableInv, IInv
<1> QED
  BY <1>1, TableInvariance, PTL

(* MVCCRowStore::read for a commit sequence that has been handed out gives *)
(* the same answer for ever: later writes, erasures, commits and rollbacks *)
(* do not change what the commits up to it left.                           *)
PastIsImmutable ==
  [][\A r \in RowIds, s \in 0..nextCommitSeq : CommittedAt(r, s)' = CommittedAt(r, s)]_allVars

(* Snapshots stay what they were: no step of a table operation, a commit,  *)
(* a rollback or an autocommit changes what MVCCRowStore::read gives for a *)
(* commit sequence of the past.                                            *)
THEOREM PastStaysForever == TableSpec => PastIsImmutable
<1>1. TableInv /\ TableInv' /\ [TableNext]_allVars =>
        [\A r \in RowIds, s \in 0..nextCommitSeq :
           CommittedAt(r, s)' = CommittedAt(r, s)]_allVars
  <2> SUFFICES ASSUME TableInv, TableInv', TableNext, NEW r \in RowIds, NEW s \in 0..nextCommitSeq
               PROVE  CommittedAt(r, s)' = CommittedAt(r, s)
    OBVIOUS
  <2>1. PICK w \in TxnIds : Outcome(w)
    BY NextOutcome
  <2> QED BY <2>1, PastStays DEF Outcome, TableInv
<1> QED
  BY <1>1, TableInvariance, PTL DEF TableSpec, PastIsImmutable

(* A step that does not stamp row r with t leaves what the active t sees.  *)
LEMMA RepeatableStep ==
  ASSUME TableInv, TableInv', TableNext, NEW t \in TxnIds, NEW r \in RowIds,
         IsActive(t), Stamps(t, r)' \subseteq Stamps(t, r)
  PROVE  View(t, r)' = View(t, r)
<1>1. PICK w \in TxnIds : Outcome(w)
  BY NextOutcome
<1>2. /\ StepOf(w) /\ Forward /\ state[w] # "Committed"
      /\ ChainGrows(versions[r], versions'[r], w)
  BY <1>1 DEF Outcome, StepOf
<1>3. PICK s \in 0..nextCommitSeq : s = snapshotMaxCommitSeq[t]
  BY SnapshotTaken DEF TableInv
<1>4. snapshotMaxCommitSeq'[t] = s
  BY <1>2, <1>3, ZenonT(30) DEF Forward, IsActive
<1>5. \A id \in TxnIds \cup {System} :
        IsCreatorVisible(id, t, s)' <=> IsCreatorVisible(id, t, s)
  BY <1>2, VisibilityStable, ZenonT(30) DEF TableInv
<1>6. versions'[r] = versions[r] \/ ~IsCreatorVisible(w, t, s)'
  <2>1. CASE w # t
    BY <1>2, <2>1, WriterUnseen DEF TableInv
  <2>2. CASE w = t
    <3>1. /\ Len(versions[r]) \in Nat /\ DOMAIN versions[r] = 1..Len(versions[r])
          /\ Len(versions'[r]) \in Nat /\ DOMAIN versions'[r] = 1..Len(versions'[r])
          /\ versions[r] \in Seq(Version) /\ versions'[r] \in Seq(Version)
      BY LenProperties DEF TableInv, TableType
    <3>2. Len(versions'[r]) = Len(versions[r])
      <4>1. SUFFICES ASSUME Len(versions'[r]) > Len(versions[r]) PROVE FALSE
        BY <1>2, <3>1 DEF ChainGrows
      <4>2. Len(versions'[r]) \in Stamps(t, r)'
        <5>1. /\ Len(versions'[r]) \in Len(versions[r]) + 1 .. Len(versions'[r])
              /\ Len(versions'[r]) \in DOMAIN versions'[r]
          BY <3>1, <4>1
        <5>2. versions'[r][Len(versions'[r])].createdBy = t
          BY <1>2, <2>2, <5>1 DEF ChainGrows
        <5> QED BY <5>1, <5>2 DEF Stamps
      <4> QED BY <3>1, <4>1, <4>2 DEF Stamps
    <3>3. ASSUME NEW i \in 1..Len(versions[r])
          PROVE  versions'[r][i].deletedBy = versions[r][i].deletedBy
      <4>1. SUFFICES ASSUME versions[r][i].deletedBy = {}, versions'[r][i].deletedBy = {t}
                     PROVE  FALSE
        BY <1>2, <2>2 DEF ChainGrows
      <4>2. -i \in Stamps(t, r)'
        BY <3>1, <3>2, <4>1, ZenonT(30) DEF Stamps
      <4>3. PICK j \in DOMAIN versions[r] : j = -i \/ (-j = -i /\ t \in versions[r][j].deletedBy)
        BY <4>2 DEF Stamps
      <4>4. j = i
        BY <3>1, <4>3
      <4> QED BY <3>1, <4>1, <4>3, <4>4
    <3>4. ASSUME NEW i \in 1..Len(versions[r])
          PROVE  versions'[r][i] = versions[r][i]
      <4>1. versions'[r][i] \in Version /\ versions[r][i] \in Version
        BY <3>1, <3>2
      <4>2. /\ versions'[r][i].createdBy = versions[r][i].createdBy
            /\ versions'[r][i].row = versions[r][i].row
        BY <1>2 DEF ChainGrows
      <4> QED BY <3>3, <4>1, <4>2 DEF Version
    <3> QED BY <3>1, <3>2, <3>4, SeqEqual
  <2> QED BY <2>1, <2>2
<1>7. Read(r, t, s)' = Read(r, t, s)
  BY <1>2, <1>5, <1>6, ReadStable, ZenonT(30) DEF TableInv
<1>8. View(t, r)' = Read(r, t, s)'
  BY <1>4, Zenon DEF View, Read, IsVisible, IsCreatorVisible
<1> QED
  BY <1>3, <1>7, <1>8 DEF View

(* No non-repeatable read and no phantom inside a transaction: while t is  *)
(* active, what Table::visibleEntries and rowsById give it of a row        *)
(* changes only by its own writes.                                         *)
THEOREM ReadsAreRepeatable == TableSpec => RepeatableReads
<1>1. TableInv /\ TableInv' /\ [TableNext]_allVars =>
        [\A t \in TxnIds, r \in RowIds :
           IsActive(t) /\ IsActive(t)' /\ Stamps(t, r)' \subseteq Stamps(t, r)
             => View(t, r)' = View(t, r)]_allVars
  BY RepeatableStep
<1> QED
  BY <1>1, TableInvariance, PTL DEF TableSpec, RepeatableReads

(* No transaction that conflicts with t committed between its snapshot and *)
(* its commit.                                                             *)
LEMMA NobodyBetween ==
  ASSUME TableInv, NEW t \in TxnIds, state[t] = "Committed",
         NEW u \in TxnIds, state[u] = "Committed",
         snapshotMaxCommitSeq[t] < commitSeq[u], commitSeq[u] <= commitSeq[t] - 1
  PROVE  ~Conflict(t, u)
<1>1. commitSeq[t] \in Nat /\ commitSeq[u] \in Nat /\ snapshotMaxCommitSeq[t] \in Nat
  BY DEF TableInv, IInv, TypeOK
<1>2. CommittedDuring(u, t) /\ commitSeq[u] < commitSeq[t]
  BY <1>1 DEF CommittedDuring
<1> QED
  BY <1>2, ZenonT(30) DEF TableInv, IInv, SerializableInCommitOrder

(* If t recorded a read or a write of r, every stamp of r is visible just  *)
(* before its commit exactly if it was in its snapshot.                    *)
LEMMA RecordedRowIsCurrent ==
  ASSUME TableInv, NEW t \in TxnIds, state[t] = "Committed", NEW r \in RowIds,
         r \in everReads[t] \cup everWrites[t]
  PROVE  CommittedAt(r, snapshotMaxCommitSeq[t]) = CommittedAt(r, commitSeq[t] - 1)
<1> DEFINE s == snapshotMaxCommitSeq[t]
           c == commitSeq[t] - 1
<1>0. /\ \A u \in TxnIds : commitSeq[u] \in Nat
      /\ s \in Nat
  BY DEF TableInv, IInv, TypeOK
<1>5. c \in Int
  BY <1>0
<1>1. ASSUME NEW id \in TxnIds \cup {System}, id # System => r \in everWrites[id]
      PROVE  IsCreatorVisible(id, System, s) <=> IsCreatorVisible(id, System, c)
  <2>1. CASE id = System
    BY <2>1 DEF IsCreatorVisible
  <2>2. CASE id \in TxnIds /\ state[id] # "Committed"
    BY <2>2 DEF IsCreatorVisible
  <2>3. CASE id \in TxnIds /\ id # System /\ state[id] = "Committed"
    <3>1. Conflict(t, id)
      BY <1>1, <2>3 DEF Conflict
    <3>2. ~(s < commitSeq[id] /\ commitSeq[id] <= c)
      BY <2>3, <3>1, NobodyBetween
    <3>3. s <= c
      BY <1>0 DEF TableInv, SnapshotBeforeCommit
    <3> HIDE DEF s, c
    <3> QED BY <1>0, <1>5, <2>3, <3>2, <3>3 DEF IsCreatorVisible
  <2> QED BY <2>1, <2>2, <2>3
<1> HIDE DEF s, c
<1>2. ASSUME NEW i \in DOMAIN versions[r]
      PROVE  IsVisible(versions[r][i], System, s) <=> IsVisible(versions[r][i], System, c)
  <2>1. /\ versions[r][i].createdBy \in TxnIds \cup {System}
        /\ versions[r][i].deletedBy \subseteq TxnIds
    BY DEF TableInv, TableOK, Version
  <2>2. /\ versions[r][i].createdBy # System => r \in everWrites[versions[r][i].createdBy]
        /\ \A d \in versions[r][i].deletedBy : r \in everWrites[d]
    BY DEF TableInv, StampsRecorded
  <2> QED BY <1>1, <2>1, <2>2 DEF IsVisible
<1>3. Read(r, System, s) = Read(r, System, c)
  BY <1>2, SameStampsSameRead
<1> QED
  BY <1>3 DEF CommittedAt, s, c

(* A row that the snapshot of t does not contain, and that is there just   *)
(* before its commit, was inserted by a transaction that committed in      *)
(* between and recorded the image.                                         *)
LEMMA PhantomWasRecorded ==
  ASSUME TableInv, NEW t \in TxnIds, state[t] = "Committed", NEW r \in RowIds,
         CommittedAt(r, snapshotMaxCommitSeq[t]) = NoRow,
         CommittedAt(r, commitSeq[t] - 1) # NoRow
  PROVE  \E u \in TxnIds : ~Conflict(t, u)
                           /\ CommittedAt(r, commitSeq[t] - 1) \in everInserts[u]
<1> DEFINE s == snapshotMaxCommitSeq[t]
           c == commitSeq[t] - 1
           m == Max(Visible(r, System, c))
           v == versions[r][m]
<1>0. /\ \A u \in TxnIds : commitSeq[u] \in Nat
      /\ s \in Nat /\ c \in Int /\ s <= c
  BY DEF TableInv, IInv, TypeOK, SnapshotBeforeCommit
<1>1. Visible(r, System, s) = {} /\ Visible(r, System, c) # {}
  BY ReadNothing DEF TableInv, CommittedAt
<1>2. /\ m \in DOMAIN versions[r] /\ IsVisible(v, System, c)
      /\ CommittedAt(r, c) = v.row
  BY <1>1, ReadVisible, ZenonT(30) DEF TableInv, CommittedAt, Visible
<1>3. ~IsVisible(v, System, s)
  BY <1>1, <1>2 DEF Visible
<1>4. v.createdBy \in TxnIds \cup {System} /\ v.deletedBy \subseteq TxnIds
  BY <1>2, ZenonT(30) DEF TableInv, TableOK, Version
<1> HIDE DEF s, c, m
<1>5. \A id \in TxnIds \cup {System} :
        IsCreatorVisible(id, System, s) => IsCreatorVisible(id, System, c)
  BY <1>0 DEF IsCreatorVisible
<1>6. IsCreatorVisible(v.createdBy, System, c) /\ ~IsCreatorVisible(v.createdBy, System, s)
  BY <1>2, <1>3, <1>4, <1>5 DEF IsVisible
<1> DEFINE u == v.createdBy
<1>7. /\ u \in TxnIds /\ u # System /\ state[u] = "Committed"
      /\ s < commitSeq[u] /\ commitSeq[u] <= c
  <2>1. /\ u \in TxnIds /\ u # System /\ state[u] = "Committed"
        /\ ~(commitSeq[u] <= s) /\ commitSeq[u] <= c
    BY <1>6 DEF IsCreatorVisible
  <2>2. commitSeq[u] \in Int /\ s \in Int
    BY <1>0, <2>1
  <2> QED BY <2>1, <2>2
<1>8. v.row \in everInserts[u]
  BY <1>2, <1>7 DEF TableInv, StampsRecorded
<1> HIDE DEF u, v
<1>9. ~Conflict(t, u)
  BY <1>7, NobodyBetween DEF s, c
<1> QED
  BY <1>2, <1>7, <1>8, <1>9, ZenonT(30) DEF c

LEMMA CommittedReadsAreCurrent == TableInv => ReadsCurrentAtCommit
<1> SUFFICES ASSUME TableInv, NEW t \in TxnIds, NEW r \in RowIds, state[t] = "Committed",
                    NEW old, old = CommittedAt(r, snapshotMaxCommitSeq[t]),
                    NEW new, new = CommittedAt(r, commitSeq[t] - 1),
                    r \in everReads[t] \/ \E p \in everPredicates[t] : {old, new} \cap p # {}
             PROVE  old = new
  BY DEF ReadsCurrentAtCommit
<1>1. CASE r \in everReads[t] \cup everWrites[t]
  BY <1>1, RecordedRowIsCurrent
<1>2. CASE r \notin everReads[t] \cup everWrites[t]
  <2>1. PICK p \in everPredicates[t] : {old, new} \cap p # {}
    BY <1>2
  <2>2. NoRow \notin p
    BY NoRowAssumption, PredicatesAssumption DEF TableInv, IInv, TypeOK
  <2>3. old = NoRow
    BY <1>2, <2>1, ZenonT(30) DEF TableInv, ScansRecorded
  <2>4. new \in p /\ new # NoRow
    BY <2>1, <2>2, <2>3, ZenonT(30)
  <2>5. PICK u \in TxnIds : ~Conflict(t, u) /\ new \in everInserts[u]
    BY <2>3, <2>4, PhantomWasRecorded, ZenonT(30)
  <2>6. Conflict(t, u)
    BY <2>1, <2>4, <2>5, ZenonT(30) DEF Conflict, PredicateConflictsWithInserts
  <2> QED BY <2>5, <2>6
<1> QED
  BY <1>1, <1>2

(* The reads of a committed transaction are explained by the commit order: *)
(* what it read by row id, and what its scans matched or would have        *)
(* matched, was the same in its snapshot and just before its commit.       *)
THEOREM CommitOrderExplainsReads == TableSpec => []ReadsCurrentAtCommit
BY CommittedReadsAreCurrent, TableInvariance, PTL

=============================================================================
