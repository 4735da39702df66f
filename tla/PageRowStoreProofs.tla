------------------------- MODULE PageRowStoreProofs -------------------------
(***************************************************************************)
(* PageRowStore keeps the contract of RowStore, for every page size, every *)
(* capacity of the buffer pool and every number of slots.                  *)
(***************************************************************************)
EXTENDS PageHeap, VectorsProofs

-----------------------------------------------------------------------------
(* The position of a row id.                                               *)

LEMMA Quotient ==
  ASSUME NEW a \in Nat
  PROVE  /\ a \div RowsPerPage \in Nat
         /\ (a \div RowsPerPage) * RowsPerPage <= a
         /\ a < (a \div RowsPerPage) * RowsPerPage + RowsPerPage
BY RowsPerPageAssumption

LEMMA PositionOf ==
  ASSUME NEW r \in Nat \ {0}
  PROVE  /\ PageOf(r) \in Nat \ {0} /\ OffsetOf(r) \in 1..RowsPerPage
         /\ r = (PageOf(r) - 1) * RowsPerPage + OffsetOf(r)
<1>1. r - 1 \in Nat
  OBVIOUS
<1> DEFINE q == (r - 1) \div RowsPerPage
<1>2. q \in Nat /\ q * RowsPerPage <= r - 1 /\ r - 1 < q * RowsPerPage + RowsPerPage
  BY <1>1, Quotient
<1>3. PageOf(r) = q + 1
  BY DEF PageOf
<1> HIDE DEF q
<1>4. PageOf(r) - 1 = q
  BY <1>2, <1>3
<1>5. OffsetOf(r) = r - q * RowsPerPage
  BY <1>4 DEF OffsetOf
<1>6. q * RowsPerPage \in Nat /\ RowsPerPage \in Nat
  BY <1>2, RowsPerPageAssumption
<1> QED
  BY <1>2, <1>3, <1>4, <1>5, <1>6

(* A page and an offset in it determine the row id.                        *)
LEMMA RowAt ==
  ASSUME NEW p \in Nat \ {0}, NEW o \in 1..RowsPerPage
  PROVE  /\ (p - 1) * RowsPerPage + o \in Nat \ {0}
         /\ PageOf((p - 1) * RowsPerPage + o) = p /\ OffsetOf((p - 1) * RowsPerPage + o) = o
<1> DEFINE r == (p - 1) * RowsPerPage + o
           q == PageOf(r)
           d == OffsetOf(r)
<1>1. RowsPerPage \in Nat \ {0} /\ (p - 1) * RowsPerPage \in Nat
  BY RowsPerPageAssumption
<1>2. r \in Nat \ {0}
  BY <1>1
<1>3. q \in Nat \ {0} /\ d \in 1..RowsPerPage /\ r = (q - 1) * RowsPerPage + d
  BY <1>2, PositionOf
<1> HIDE DEF q, d
<1>4. q = p
  <2>1. CASE q > p
    <3>1. (q - 1) * RowsPerPage >= (p - 1) * RowsPerPage + RowsPerPage
      BY <1>1, <1>3, <2>1
    <3> QED BY <1>1, <1>3, <3>1
  <2>2. CASE q < p
    <3>1. (p - 1) * RowsPerPage >= (q - 1) * RowsPerPage + RowsPerPage
      BY <1>1, <1>3, <2>2
    <3> QED BY <1>1, <1>3, <3>1
  <2> QED BY <1>3, <2>1, <2>2
<1>5. d = o
  <2>1. (q - 1) * RowsPerPage = (p - 1) * RowsPerPage
    BY <1>4
  <2> QED BY <1>1, <1>3, <2>1
<1> QED
  BY <1>2, <1>4, <1>5 DEF q, d

-----------------------------------------------------------------------------
(* The buffer pool.                                                        *)

Entries == [page : Nat, rows : Pages]

(* The pool holds copies of pages of the directory, each once, and no more *)
(* than it may.                                                            *)
Coherent(pool, dir) ==
  /\ pool \in Seq(Entries)
  /\ Len(pool) <= BufferCapacity
  /\ \A i, j \in DOMAIN pool : pool[i].page = pool[j].page => i = j
  /\ \A i \in DOMAIN pool : pool[i].page \in DOMAIN dir /\ pool[i].rows = dir[pool[i].page]

LEMMA IndexOfBuffered ==
  ASSUME NEW pool, NEW p \in Buffered(pool)
  PROVE  IndexOf(pool, p) \in DOMAIN pool /\ pool[IndexOf(pool, p)].page = p
BY DEF Buffered, IndexOf

LEMMA BufferedCopy ==
  ASSUME NEW dir, NEW pool, Coherent(pool, dir), NEW p \in Buffered(pool)
  PROVE  p \in DOMAIN dir /\ BufferedRows(pool, p) = dir[p]
BY IndexOfBuffered DEF Coherent, BufferedRows

(* What put leaves of the pool behind the page it puts.                    *)
Rest(pool, p) ==
  IF p \in Buffered(pool) THEN EraseAt(pool, IndexOf(pool, p))
  ELSE IF Len(pool) = BufferCapacity THEN PopBack(pool) ELSE pool

LEMMA RestCoherent ==
  ASSUME NEW dir, NEW pool, Coherent(pool, dir), NEW p
  PROVE  /\ Coherent(Rest(pool, p), dir)
         /\ Len(Rest(pool, p)) < BufferCapacity
         /\ \A i \in DOMAIN Rest(pool, p) : Rest(pool, p)[i].page # p
<1> DEFINE n == Len(pool)
           rest == Rest(pool, p)
<1>1. n \in Nat /\ DOMAIN pool = 1..n /\ n <= BufferCapacity /\ pool \in Seq(Entries)
  BY LenProperties DEF Coherent
<1>2. CASE p \in Buffered(pool)
  <2> DEFINE k == IndexOf(pool, p)
  <2>1. k \in DOMAIN pool /\ pool[k].page = p
    BY <1>2, IndexOfBuffered
  <2> HIDE DEF k
  <2>2. rest = EraseAt(pool, k)
    BY <1>2 DEF Rest, k
  <2>3. /\ rest \in Seq(Entries) /\ Len(rest) = n - 1 /\ DOMAIN rest = 1..(n - 1)
        /\ \A j \in 1..(n - 1) : rest[j] = IF j < k THEN pool[j] ELSE pool[j + 1]
    <3>1. /\ EraseAt(pool, k) \in Seq(Entries) /\ Len(EraseAt(pool, k)) = Len(pool) - 1
          /\ DOMAIN EraseAt(pool, k) = 1..(Len(pool) - 1)
          /\ \A j \in 1..(Len(pool) - 1) :
               EraseAt(pool, k)[j] = IF j < k THEN pool[j] ELSE pool[j + 1]
      BY <1>1, <2>1, EraseAtFacts, Zenon
    <3> HIDE DEF rest
    <3> QED BY <2>2, <3>1
  <2> HIDE DEF rest, n
  <2> DEFINE at(j) == IF j < k THEN j ELSE j + 1
  <2>4. \A j \in 1..(n - 1) : at(j) \in 1..n /\ at(j) # k /\ rest[j] = pool[at(j)]
    BY <1>1, <2>1, <2>3
  <2>5. \A i, j \in 1..(n - 1) : at(i) = at(j) => i = j
    BY <1>1, <2>1
  <2> HIDE DEF at
  <2>6. \A i, j \in DOMAIN rest : rest[i].page = rest[j].page => i = j
    BY <1>1, <2>3, <2>4, <2>5 DEF Coherent
  <2>7. \A i \in DOMAIN rest :
          rest[i].page \in DOMAIN dir /\ rest[i].rows = dir[rest[i].page] /\ rest[i].page # p
    BY <1>1, <2>1, <2>3, <2>4 DEF Coherent
  <2>8. Len(rest) < BufferCapacity
    BY <1>1, <2>3, BufferCapacityAssumption
  <2> QED BY <2>3, <2>6, <2>7, <2>8, BufferCapacityAssumption DEF Coherent, rest
<1>3. CASE p \notin Buffered(pool)
  <2>1. \A i \in DOMAIN pool : pool[i].page # p
    BY <1>3 DEF Buffered
  <2>2. CASE n = BufferCapacity
    <3>1. rest = SubSeq(pool, 1, n - 1)
      BY <1>3, <2>2 DEF Rest, PopBack
    <3>2. /\ rest \in Seq(Entries) /\ Len(rest) = n - 1 /\ DOMAIN rest = 1..(n - 1)
          /\ \A j \in 1..(n - 1) : rest[j] = pool[j]
      BY <1>1, <2>2, <3>1, SubSeqProperties, LenProperties, BufferCapacityAssumption
    <3> HIDE DEF rest
    <3> QED BY <1>1, <2>1, <2>2, <3>2, BufferCapacityAssumption DEF Coherent, rest
  <2>3. CASE n # BufferCapacity
    <3>1. rest = pool
      BY <1>3, <2>3 DEF Rest
    <3>2. n < BufferCapacity
      <4> HIDE DEF n
      <4> QED BY <1>1, <2>3, BufferCapacityAssumption
    <3> QED BY <2>1, <3>1, <3>2
  <2> QED BY <2>2, <2>3
<1> QED
  BY <1>2, <1>3

LEMMA PutCoherent ==
  ASSUME NEW dir, NEW pool, Coherent(pool, dir), NEW p \in Nat, NEW new, p \in DOMAIN new,
         new[p] \in Pages, \A q \in DOMAIN dir : q # p => q \in DOMAIN new /\ new[q] = dir[q]
  PROVE  Coherent(Put(pool, p, new[p]), new)
<1> DEFINE rest == Rest(pool, p)
           e == Entry(p, new[p])
           put == Put(pool, p, new[p])
<1>1. /\ rest \in Seq(Entries) /\ Len(rest) < BufferCapacity
      /\ \A i, j \in DOMAIN rest : rest[i].page = rest[j].page => i = j
      /\ \A i \in DOMAIN rest :
           rest[i].page \in DOMAIN dir /\ rest[i].rows = dir[rest[i].page] /\ rest[i].page # p
  BY RestCoherent DEF Coherent
<1>2. put = <<e>> \o rest
  BY DEF Put, Rest
<1>3. e \in Entries /\ e.page = p /\ e.rows = new[p]
  BY DEF Entry, Entries
<1> HIDE DEF rest, e, put
<1>4. Len(rest) \in Nat /\ DOMAIN rest = 1..Len(rest)
  BY <1>1, LenProperties
<1>5. <<e>> \in Seq(Entries) /\ Len(<<e>>) = 1 /\ <<e>>[1] = e
  BY <1>3
<1>6. /\ put \in Seq(Entries) /\ Len(put) = Len(rest) + 1
      /\ \A i \in 1..Len(put) : put[i] = IF i <= 1 THEN <<e>>[i] ELSE rest[i - 1]
  BY <1>1, <1>2, <1>4, <1>5, ConcatProperties
<1>7. DOMAIN put = 1..(Len(rest) + 1)
  BY <1>6, LenProperties
<1>8. put[1] = e /\ \A i \in 2..(Len(rest) + 1) : i - 1 \in DOMAIN rest /\ put[i] = rest[i - 1]
  BY <1>4, <1>5, <1>6
<1>9. \A i, j \in DOMAIN put : put[i].page = put[j].page => i = j
  <2> SUFFICES ASSUME NEW i \in DOMAIN put, NEW j \in DOMAIN put, put[i].page = put[j].page
               PROVE  i = j
    OBVIOUS
  <2>1. (i = 1 \/ i \in 2..(Len(rest) + 1)) /\ (j = 1 \/ j \in 2..(Len(rest) + 1))
    BY <1>4, <1>7
  <2>2. CASE i \in 2..(Len(rest) + 1) /\ j \in 2..(Len(rest) + 1)
    <3>1. i - 1 = j - 1
      BY <1>1, <1>8, <2>2
    <3> QED BY <2>2, <3>1
  <2>3. CASE i = 1 /\ j \in 2..(Len(rest) + 1)
    <3>1. put[j].page # p
      BY <1>1, <1>8, <2>3
    <3> QED BY <1>3, <1>8, <2>3, <3>1
  <2>4. CASE i \in 2..(Len(rest) + 1) /\ j = 1
    <3>1. put[i].page # p
      BY <1>1, <1>8, <2>4
    <3> QED BY <1>3, <1>8, <2>4, <3>1
  <2> QED BY <2>1, <2>2, <2>3, <2>4
<1>10. \A i \in DOMAIN put : put[i].page \in DOMAIN new /\ put[i].rows = new[put[i].page]
  <2> SUFFICES ASSUME NEW i \in DOMAIN put
               PROVE  put[i].page \in DOMAIN new /\ put[i].rows = new[put[i].page]
    OBVIOUS
  <2>1. i = 1 \/ i \in 2..(Len(rest) + 1)
    BY <1>4, <1>7
  <2>2. CASE i = 1
    BY <1>3, <1>8, <2>2
  <2>3. CASE i \in 2..(Len(rest) + 1)
    <3>1. i - 1 \in DOMAIN rest /\ put[i] = rest[i - 1]
      BY <1>8, <2>3
    <3> QED BY <1>1, <3>1
  <2> QED BY <2>1, <2>2, <2>3
<1>11. Len(put) <= BufferCapacity
  BY <1>1, <1>4, <1>6, BufferCapacityAssumption
<1> QED
  BY <1>6, <1>9, <1>10, <1>11 DEF Coherent, put

(* A reload puts the pages of the directory one after the other.  The      *)
(* recursive function of PutAll exists on every prefix of the page ids,    *)
(* and the pool stays coherent along it: both by the least page id at      *)
(* which it would not.                                                     *)
LEMMA PutAllCoherent ==
  ASSUME NEW n \in Nat, NEW pages, DOMAIN pages \subseteq 1..n,
         \A p \in DOMAIN pages : pages[p] \in Pages,
         NEW pool, Coherent(pool, pages)
  PROVE  Coherent(PutAll(pool, pages), pages)
<1> DEFINE last == Max({0} \cup DOMAIN pages)
           step(was, p) == IF p \in DOMAIN pages THEN Put(was, p, pages[p]) ELSE was
           upTo[p \in 0..last] == IF p = 0 THEN pool
                                  ELSE IF p \in DOMAIN pages THEN Put(upTo[p - 1], p, pages[p])
                                  ELSE upTo[p - 1]
           Recurs(g, k) == g = [p \in 0..k |-> IF p = 0 THEN pool ELSE step(g[p - 1], p)]
<1>1. PutAll(pool, pages) = upTo[last]
  BY DEF PutAll
<1>2. last \in Nat
  <2>1. PICK m \in {0} \cup DOMAIN pages : \A y \in {0} \cup DOMAIN pages : m >= y
    <3>1. CASE DOMAIN pages = {}
      BY <3>1
    <3>2. CASE DOMAIN pages # {}
      <4>1. Max(DOMAIN pages) \in DOMAIN pages /\ \A y \in DOMAIN pages : Max(DOMAIN pages) >= y
        BY <3>2, LargestOf
      <4>2. Max(DOMAIN pages) >= 0
        BY <4>1
      <4> QED BY <4>1, <4>2
    <3> QED BY <3>1, <3>2
  <2> QED BY <2>1 DEF Max
<1>3. upTo = CHOOSE g : Recurs(g, last)
  OBVIOUS
<1> HIDE DEF last, upTo
<1>4. \A k \in 0..last : \E g : Recurs(g, k)
  <2> DEFINE Bad == {k \in 0..last : ~ \E g : Recurs(g, k)}
  <2> SUFFICES ASSUME Bad # {} PROVE FALSE
    OBVIOUS
  <2>1. PICK k \in Bad : \A j \in Bad : k <= j
    <3>1. Bad \subseteq Nat
      BY <1>2
    <3> HIDE DEF Bad
    <3> QED BY <3>1, SmallestOf, Zenon
  <2>2. k \in Nat /\ k <= last /\ ~ \E g : Recurs(g, k)
    BY <1>2
  <2>3. CASE k = 0
    <3>1. Recurs([p \in 0..0 |-> pool], 0)
      <4> HIDE DEF step
      <4> QED OBVIOUS
    <3> QED BY <2>2, <2>3, <3>1, Zenon
  <2>4. CASE k > 0
    <3>1. k - 1 \in 0..last /\ k - 1 \notin Bad
      BY <1>2, <2>1, <2>2, <2>4
    <3>2. PICK g : Recurs(g, k - 1)
      BY <3>1
    <3> DEFINE h == [p \in 0..k |-> IF p = k THEN step(g[k - 1], k) ELSE g[p]]
    <3> HIDE DEF step
    <3>3. \A p \in 0..k : h[p] = IF p = 0 THEN pool ELSE step(h[p - 1], p)
      <4> TAKE p \in 0..k
      <4>1. CASE p = k
        <5>1. h[p] = step(g[k - 1], k) /\ h[k - 1] = g[k - 1]
          BY <2>2, <2>4, <4>1
        <5> QED BY <2>2, <2>4, <4>1, <5>1
      <4>2. CASE p # k
        <5>1. p \in 0..(k - 1) /\ h[p] = g[p] /\ (p # 0 => h[p - 1] = g[p - 1])
          BY <2>2, <2>4, <4>2
        <5>2. g[p] = IF p = 0 THEN pool ELSE step(g[p - 1], p)
          BY <3>2, <5>1
        <5> QED BY <5>1, <5>2
      <4> QED BY <4>1, <4>2
    <3>4. h = [p \in 0..k |-> h[p]]
      OBVIOUS
    <3> HIDE DEF h
    <3>5. Recurs(h, k)
      BY <3>3, <3>4
    <3> QED BY <2>2, <3>5
  <2> QED BY <2>2, <2>3, <2>4
<1>5. Recurs(upTo, last)
  <2>1. \E g : Recurs(g, last)
    BY <1>2, <1>4
  <2> HIDE DEF Recurs
  <2> QED BY <1>3, <2>1
<1>6. \A k \in 0..last : upTo[k] = IF k = 0 THEN pool ELSE step(upTo[k - 1], k)
  <2> HIDE DEF step
  <2> QED BY <1>5, Zenon
<1> HIDE DEF Recurs
<1>7. \A k \in 0..last : Coherent(upTo[k], pages)
  <2> DEFINE Bad == {k \in 0..last : ~ Coherent(upTo[k], pages)}
  <2> SUFFICES ASSUME Bad # {} PROVE FALSE
    OBVIOUS
  <2>1. PICK k \in Bad : \A j \in Bad : k <= j
    <3>1. Bad \subseteq Nat
      BY <1>2
    <3> HIDE DEF Bad
    <3> QED BY <3>1, SmallestOf, ZenonT(30)
  <2>2. k \in Nat /\ k <= last /\ ~ Coherent(upTo[k], pages)
    BY <1>2
  <2>3. CASE k = 0
    BY <1>2, <1>6, <2>2, <2>3
  <2>4. CASE k > 0
    <3>1. k - 1 \in 0..last /\ k - 1 \notin Bad
      BY <1>2, <2>1, <2>2, <2>4
    <3>2. Coherent(upTo[k - 1], pages)
      BY <3>1
    <3>3. upTo[k] = step(upTo[k - 1], k)
      BY <1>2, <1>6, <2>2, <2>4
    <3>4. CASE k \notin DOMAIN pages
      BY <2>2, <3>2, <3>3, <3>4
    <3>5. CASE k \in DOMAIN pages
      <4>1. Coherent(Put(upTo[k - 1], k, pages[k]), pages)
        BY <2>2, <3>2, <3>5, PutCoherent
      <4> QED BY <2>2, <3>3, <3>5, <4>1
    <3> QED BY <3>4, <3>5
  <2> QED BY <2>2, <2>3, <2>4
<1> QED
  BY <1>1, <1>2, <1>7

-----------------------------------------------------------------------------
(* The inductive invariant.                                                *)

(* A slot has the position its number determines.                          *)
SlotInv ==
  /\ slots \in Seq([page : Nat, offset : Nat, live : BOOLEAN])
  /\ \A r \in DOMAIN slots : slots[r].page = PageOf(r) /\ slots[r].offset = OffsetOf(r)

(* The directory has the pages of the slots, and a page the cells of its   *)
(* slots.                                                                  *)
PageInv ==
  /\ DOMAIN pageDirectory = {PageOf(r) : r \in DOMAIN slots}
  /\ \A p \in DOMAIN pageDirectory :
       /\ pageDirectory[p] \in Pages
       /\ DOMAIN pageDirectory[p] =
            {o \in 1..RowsPerPage : (p - 1) * RowsPerPage + o \in DOMAIN slots}

(* A live slot has a row, a dead one the tombstone.                        *)
RowInv ==
  \A r \in DOMAIN slots : IF slots[r].live THEN RowOf(r) \in Rows ELSE RowOf(r) = NoRow

FreeInv ==
  /\ freeList \in Seq(DOMAIN slots) /\ IsInjective(freeList)
  /\ Range(freeList) = {r \in DOMAIN slots : ~ slots[r].live}
  /\ liveCount \in Int /\ liveCount + Len(freeList) = Len(slots)

DecodedInv ==
  \A r \in DOMAIN decodedRows : r \in DOMAIN slots /\ slots[r].live /\ decodedRows[r] = RowOf(r)

IInv ==
  /\ SlotInv /\ PageInv /\ RowInv /\ FreeInv
  /\ Coherent(bufferPool, pageDirectory) /\ DecodedInv

LEMMA SlotIds ==
  ASSUME SlotInv
  PROVE  /\ Len(slots) \in Nat /\ DOMAIN slots = 1..Len(slots)
         /\ \A r \in DOMAIN slots : r \in Nat \ {0}
<1>1. Len(slots) \in Nat /\ DOMAIN slots = 1..Len(slots)
  BY LenProperties DEF SlotInv
<1> QED
  BY <1>1

(* Two row ids have different cells.                                       *)
LEMMA CellsApart ==
  ASSUME NEW r \in Nat \ {0}, NEW k \in Nat \ {0},
         PageOf(r) = PageOf(k), OffsetOf(r) = OffsetOf(k)
  PROVE  r = k
<1>1. /\ r = (PageOf(r) - 1) * RowsPerPage + OffsetOf(r)
      /\ k = (PageOf(k) - 1) * RowsPerPage + OffsetOf(k)
  BY PositionOf
<1> QED
  BY <1>1

LEMMA Cells ==
  ASSUME SlotInv, PageInv, NEW r \in DOMAIN slots
  PROVE  /\ PageOf(r) \in DOMAIN pageDirectory /\ PageOf(r) \in Nat \ {0}
         /\ OffsetOf(r) \in DOMAIN pageDirectory[PageOf(r)]
         /\ pageDirectory[PageOf(r)] \in Pages
         /\ LoadPageRows(slots[r].page) = pageDirectory[PageOf(r)]
         /\ slots[r].page = PageOf(r) /\ slots[r].offset = OffsetOf(r)
<1>1. /\ PageOf(r) \in Nat \ {0} /\ OffsetOf(r) \in 1..RowsPerPage
      /\ r = (PageOf(r) - 1) * RowsPerPage + OffsetOf(r)
  BY SlotIds, PositionOf
<1>2. PageOf(r) \in DOMAIN pageDirectory
  BY DEF PageInv
<1>3. (PageOf(r) - 1) * RowsPerPage + OffsetOf(r) \in DOMAIN slots
  BY <1>1
<1>4. OffsetOf(r) \in DOMAIN pageDirectory[PageOf(r)] /\ pageDirectory[PageOf(r)] \in Pages
  BY <1>1, <1>2, <1>3 DEF PageInv
<1>5. slots[r].page = PageOf(r) /\ slots[r].offset = OffsetOf(r)
  BY DEF SlotInv
<1> QED
  BY <1>1, <1>2, <1>4, <1>5 DEF LoadPageRows

(* storePage installs the page, forgets its decoded rows and marks it.     *)
LEMMA StorePageFacts ==
  ASSUME NEW p, NEW pageRows, StorePage(p, pageRows)
  PROVE  /\ DOMAIN pageDirectory' = DOMAIN pageDirectory \cup {p}
         /\ pageDirectory'[p] = pageRows
         /\ \A q \in DOMAIN pageDirectory : q # p => pageDirectory'[q] = pageDirectory[q]
         /\ DOMAIN decodedRows' = {k \in DOMAIN decodedRows : slots[k].page # p}
         /\ \A k \in DOMAIN decodedRows' : decodedRows'[k] = decodedRows[k]
         /\ dirtyPages' = dirtyPages \cup {p}
<1>1. /\ DOMAIN pageDirectory' = DOMAIN pageDirectory \cup {p}
      /\ pageDirectory'[p] = pageRows
      /\ \A q \in DOMAIN pageDirectory : q # p => pageDirectory'[q] = pageDirectory[q]
  BY DEF StorePage, Installed
<1>2. /\ DOMAIN decodedRows' = {k \in DOMAIN decodedRows : slots[k].page # p}
      /\ \A k \in DOMAIN decodedRows' : decodedRows'[k] = decodedRows[k]
  BY DEF StorePage, Restrict
<1>3. dirtyPages' = dirtyPages \cup {p}
  BY DEF StorePage
<1> QED
  BY <1>1, <1>2, <1>3

(* storePage keeps the pool coherent with the directory.                   *)
LEMMA StorePageCoherent ==
  ASSUME Coherent(bufferPool, pageDirectory),
         NEW p \in Nat, NEW pageRows \in Pages, StorePage(p, pageRows)
  PROVE  Coherent(bufferPool', pageDirectory')
<1>1. /\ DOMAIN pageDirectory' = DOMAIN pageDirectory \cup {p}
      /\ pageDirectory'[p] = pageRows
      /\ \A q \in DOMAIN pageDirectory : q # p => pageDirectory'[q] = pageDirectory[q]
  BY StorePageFacts, ZenonT(30)
<1>2. bufferPool' = Put(bufferPool, p, pageRows)
  BY DEF StorePage
<1>3. Coherent(Put(bufferPool, p, pageDirectory'[p]), pageDirectory')
  <2>1. p \in DOMAIN pageDirectory' /\ pageDirectory'[p] \in Pages
    BY <1>1
  <2>2. \A q \in DOMAIN pageDirectory :
          q # p => q \in DOMAIN pageDirectory' /\ pageDirectory'[q] = pageDirectory[q]
    BY <1>1
  <2> QED BY <2>1, <2>2, PutCoherent
<1> QED
  BY <1>1, <1>2, <1>3

(* Storing the row of a slot changes its cell and no other.                *)
LEMMA StoreCellFacts ==
  ASSUME NEW r \in Nat \ {0}, slots[r].page = PageOf(r), slots[r].offset = OffsetOf(r),
         Placed(pageDirectory, r), pageDirectory[PageOf(r)] \in Pages,
         NEW row \in Rows \cup {NoRow}, StoreRow(r, row)
  PROVE  /\ DOMAIN pageDirectory' = DOMAIN pageDirectory
         /\ pageDirectory'[PageOf(r)] \in Pages
         /\ DOMAIN pageDirectory'[PageOf(r)] = DOMAIN pageDirectory[PageOf(r)]
         /\ \A q \in DOMAIN pageDirectory : q # PageOf(r) => pageDirectory'[q] = pageDirectory[q]
         /\ RowOf(r)' = row
         /\ \A k \in Nat \ {0} : k # r /\ Placed(pageDirectory, k) => RowOf(k)' = RowOf(k)
         /\ dirtyPages' = dirtyPages \cup {PageOf(r)}
         /\ \E pageRows \in Pages : StorePage(PageOf(r), pageRows)
<1> DEFINE p == PageOf(r)
           o == OffsetOf(r)
           old == pageDirectory[p]
           new == [old EXCEPT ![o] = row]
<1>1. /\ p \in DOMAIN pageDirectory /\ o \in DOMAIN old /\ old \in Pages
      /\ LoadPageRows(slots[r].page) = old /\ slots[r].page = p /\ slots[r].offset = o
  BY DEF Placed, LoadPageRows
<1>2. StorePage(p, new)
  <2> HIDE DEF p, o, old
  <2> QED BY <1>1 DEF StoreRow
<1> HIDE DEF p, o, old
<1>3. new \in Pages /\ DOMAIN new = DOMAIN old
  <2>1. Len(old) \in Nat /\ old \in [1..Len(old) -> Rows \cup {NoRow}]
    BY <1>1, LenProperties DEF Pages
  <2>2. new \in [1..Len(old) -> Rows \cup {NoRow}]
    BY <1>1, <2>1
  <2>3. new \in Seq(Rows \cup {NoRow})
    <3> HIDE DEF new
    <3> QED BY <2>1, <2>2, FunctionIsSeq
  <2> QED BY <2>3 DEF Pages
<1>4. /\ new[o] = row /\ \A j \in DOMAIN old : j # o => new[j] = old[j]
  BY <1>1
<1> HIDE DEF new
<1>5. /\ DOMAIN pageDirectory' = DOMAIN pageDirectory \cup {p}
      /\ pageDirectory'[p] = new
      /\ \A q \in DOMAIN pageDirectory : q # p => pageDirectory'[q] = pageDirectory[q]
      /\ dirtyPages' = dirtyPages \cup {p}
  BY <1>2, StorePageFacts, ZenonT(30)
<1>6. \A k : RowOf(k)' = pageDirectory'[PageOf(k)][OffsetOf(k)]
  BY DEF RowOf, PageOf, OffsetOf
<1>7. ASSUME NEW k \in Nat \ {0}, k # r, Placed(pageDirectory, k)
      PROVE  RowOf(k)' = RowOf(k)
  <2>1. PageOf(k) \in DOMAIN pageDirectory /\ OffsetOf(k) \in DOMAIN pageDirectory[PageOf(k)]
    BY <1>7 DEF Placed
  <2>2. CASE PageOf(k) # p
    BY <1>5, <1>6, <2>1, <2>2 DEF RowOf
  <2>3. CASE PageOf(k) = p
    <3>1. OffsetOf(k) # o
      BY <1>7, <2>3, CellsApart DEF p, o
    <3> QED BY <1>4, <1>5, <1>6, <2>1, <2>3, <3>1 DEF RowOf, old
  <2> QED BY <2>2, <2>3
<1>8. RowOf(r)' = row
  BY <1>4, <1>5, <1>6 DEF p, o
<1> QED
  BY <1>1, <1>2, <1>3, <1>5, <1>7, <1>8 DEF p, old

LEMMA StoreRowFacts ==
  ASSUME SlotInv, PageInv, NEW r \in DOMAIN slots, NEW row \in Rows \cup {NoRow}, StoreRow(r, row)
  PROVE  /\ DOMAIN pageDirectory' = DOMAIN pageDirectory
         /\ \A p \in DOMAIN pageDirectory :
              pageDirectory'[p] \in Pages /\ DOMAIN pageDirectory'[p] = DOMAIN pageDirectory[p]
         /\ \A k \in DOMAIN slots : RowOf(k)' = IF k = r THEN row ELSE RowOf(k)
         /\ Coherent(bufferPool, pageDirectory) => Coherent(bufferPool', pageDirectory')
         /\ DOMAIN decodedRows' = {k \in DOMAIN decodedRows : slots[k].page # slots[r].page}
         /\ \A k \in DOMAIN decodedRows' : decodedRows'[k] = decodedRows[k]
         /\ dirtyPages' = dirtyPages \cup {PageOf(r)}
<1> DEFINE p == PageOf(r)
<1>1. /\ p \in DOMAIN pageDirectory /\ p \in Nat \ {0} /\ Placed(pageDirectory, r)
      /\ pageDirectory[p] \in Pages /\ slots[r].page = p /\ slots[r].offset = OffsetOf(r)
  BY Cells DEF Placed
<1>2. r \in Nat \ {0} /\ \A k \in DOMAIN slots : k \in Nat \ {0} /\ Placed(pageDirectory, k)
  BY SlotIds, Cells DEF Placed
<1>3. /\ DOMAIN pageDirectory' = DOMAIN pageDirectory
      /\ pageDirectory'[p] \in Pages
      /\ DOMAIN pageDirectory'[p] = DOMAIN pageDirectory[p]
      /\ \A q \in DOMAIN pageDirectory : q # p => pageDirectory'[q] = pageDirectory[q]
      /\ RowOf(r)' = row
      /\ \A k \in Nat \ {0} : k # r /\ Placed(pageDirectory, k) => RowOf(k)' = RowOf(k)
      /\ dirtyPages' = dirtyPages \cup {p}
      /\ \E pageRows \in Pages : StorePage(p, pageRows)
  BY <1>1, <1>2, StoreCellFacts
<1> HIDE DEF p
<1>4. PICK pageRows \in Pages : StorePage(p, pageRows)
  BY <1>3
<1>5. /\ DOMAIN decodedRows' = {k \in DOMAIN decodedRows : slots[k].page # p}
      /\ \A k \in DOMAIN decodedRows' : decodedRows'[k] = decodedRows[k]
  BY <1>4, StorePageFacts, Zenon
<1>6. Coherent(bufferPool, pageDirectory) => Coherent(bufferPool', pageDirectory')
  BY <1>1, <1>4, StorePageCoherent
<1>7. \A q \in DOMAIN pageDirectory :
        pageDirectory'[q] \in Pages /\ DOMAIN pageDirectory'[q] = DOMAIN pageDirectory[q]
  BY <1>3 DEF PageInv
<1>8. \A k \in DOMAIN slots : RowOf(k)' = IF k = r THEN row ELSE RowOf(k)
  BY <1>2, <1>3
<1> QED
  BY <1>1, <1>3, <1>5, <1>6, <1>7, <1>8 DEF p

(* The page of the next row id is filled up to the offset before it.       *)
LEMMA TailPage ==
  ASSUME SlotInv, PageInv
  PROVE  LET r == Len(slots) + 1
         IN LoadPageRows(PageOf(r)) \in Pages /\ Len(LoadPageRows(PageOf(r))) = OffsetOf(r) - 1
<1> DEFINE n == Len(slots)
           r == n + 1
           q == PageOf(r)
           d == OffsetOf(r)
<1>1. n \in Nat /\ DOMAIN slots = 1..n
  BY SlotIds
<1>2. r \in Nat \ {0}
  BY <1>1
<1>3. q \in Nat \ {0} /\ d \in 1..RowsPerPage /\ r = (q - 1) * RowsPerPage + d
  BY <1>2, PositionOf
<1>4. RowsPerPage \in Nat \ {0} /\ (q - 1) * RowsPerPage \in Nat
  BY <1>3, RowsPerPageAssumption
<1> HIDE DEF q, d
<1>5. CASE q \in DOMAIN pageDirectory
  <2> DEFINE page == pageDirectory[q]
  <2>1. /\ page \in Pages
        /\ DOMAIN page = {o \in 1..RowsPerPage : (q - 1) * RowsPerPage + o \in DOMAIN slots}
    BY <1>5 DEF PageInv
  <2>2. \A o \in 1..RowsPerPage : (q - 1) * RowsPerPage + o \in 1..n <=> o \in 1..(d - 1)
    BY <1>1, <1>3, <1>4
  <2>3. 1..(d - 1) \subseteq 1..RowsPerPage
    BY <1>3, <1>4
  <2> HIDE DEF page, n
  <2>4. DOMAIN page = 1..(d - 1)
    BY <1>1, <2>1, <2>2, <2>3
  <2>5. Len(page) = d - 1
    BY <1>3, <2>1, <2>4, LenProperties DEF Pages
  <2> QED BY <1>5, <2>1, <2>5 DEF LoadPageRows, q, d, n, page
<1>6. CASE q \notin DOMAIN pageDirectory
  <2>1. d = 1
    <3> SUFFICES ASSUME d # 1 PROVE FALSE
      OBVIOUS
    <3>1. d - 1 \in 1..RowsPerPage /\ n = (q - 1) * RowsPerPage + (d - 1) /\ n >= 1
      <4> HIDE DEF n
      <4> QED BY <1>1, <1>3, <1>4
    <3>2. PageOf((q - 1) * RowsPerPage + (d - 1)) = q
      BY <1>3, <3>1, RowAt
    <3>3. n \in DOMAIN slots /\ PageOf(n) = q
      <4> HIDE DEF n
      <4> QED BY <1>1, <3>1, <3>2
    <3> QED BY <1>6, <3>3 DEF PageInv
  <2>2. LoadPageRows(q) = <<>>
    BY <1>6 DEF LoadPageRows
  <2>3. <<>> \in Seq(Rows \cup {NoRow}) /\ Len(<<>>) = 0
    OBVIOUS
  <2>4. LoadPageRows(q) \in Pages /\ Len(LoadPageRows(q)) = d - 1
    BY <2>1, <2>2, <2>3 DEF Pages
  <2> QED BY <2>4 DEF q, d
<1> QED
  BY <1>5, <1>6

(* A new slot gets the cell after the last one; the other cells stay.      *)
LEMMA AppendNewFacts ==
  ASSUME SlotInv, PageInv, NEW row \in Rows, AppendNew(row)
  PROVE  /\ SlotInv' /\ PageInv'
         /\ Coherent(bufferPool, pageDirectory) => Coherent(bufferPool', pageDirectory')
         /\ dirtyPages' = dirtyPages \cup {PageOf(Len(slots) + 1)}
         /\ DOMAIN pageDirectory' = DOMAIN pageDirectory \cup {PageOf(Len(slots) + 1)}
         /\ \A p \in DOMAIN pageDirectory :
              p # PageOf(Len(slots) + 1) => pageDirectory'[p] = pageDirectory[p]
         /\ Len(slots') = Len(slots) + 1 /\ slots'[Len(slots) + 1].live
         /\ \A k \in DOMAIN slots : slots'[k] = slots[k] /\ RowOf(k)' = RowOf(k)
         /\ \A k : k = Len(slots) + 1 => RowOf(k)' = row
         /\ \A k \in DOMAIN decodedRows' :
              k \in DOMAIN decodedRows /\ decodedRows'[k] = decodedRows[k]
<1> DEFINE n == Len(slots)
           r == n + 1
           q == PageOf(r)
           d == OffsetOf(r)
           old == LoadPageRows(q)
           new == Append(old, row)
<1>1. n \in Nat /\ DOMAIN slots = 1..n /\ \A k \in DOMAIN slots : k \in Nat \ {0}
  BY SlotIds
<1>2. r \in Nat \ {0}
  BY <1>1
<1>3. q \in Nat \ {0} /\ d \in 1..RowsPerPage /\ r = (q - 1) * RowsPerPage + d
  BY <1>2, PositionOf
<1>4. RowsPerPage \in Nat \ {0} /\ (q - 1) * RowsPerPage \in Nat
  BY <1>3, RowsPerPageAssumption
<1>5. old \in Pages /\ Len(old) = d - 1
  BY TailPage
<1>6. slots' = Append(slots, Slot(q, Len(new), TRUE)) /\ StorePage(q, new)
  BY DEF AppendNew
<1> HIDE DEF q, d, old
<1>7. DOMAIN old = 1..(d - 1)
  BY <1>5, LenProperties DEF Pages
<1>8. /\ new \in Pages /\ Len(new) = d /\ DOMAIN new = 1..d /\ new[d] = row
      /\ \A o \in 1..(d - 1) : new[o] = old[o]
  <2>1. old \in Seq(Rows \cup {NoRow}) /\ row \in Rows \cup {NoRow}
    BY <1>5 DEF Pages
  <2>2. /\ new \in Seq(Rows \cup {NoRow}) /\ Len(new) = Len(old) + 1
        /\ new[Len(old) + 1] = row
        /\ \A o \in 1..Len(old) : new[o] = old[o]
    BY <2>1, AppendProperties
  <2> HIDE DEF new
  <2>3. Len(new) = d /\ Len(old) + 1 = d
    BY <1>3, <1>5, <2>2
  <2>4. DOMAIN new = 1..d
    BY <2>2, <2>3, LenProperties
  <2> QED BY <1>5, <2>2, <2>3, <2>4 DEF Pages
<1> HIDE DEF new
<1>9. /\ DOMAIN pageDirectory' = DOMAIN pageDirectory \cup {q}
      /\ pageDirectory'[q] = new
      /\ \A p \in DOMAIN pageDirectory : p # q => pageDirectory'[p] = pageDirectory[p]
      /\ DOMAIN decodedRows' = {k \in DOMAIN decodedRows : slots[k].page # q}
      /\ \A k \in DOMAIN decodedRows' : decodedRows'[k] = decodedRows[k]
      /\ dirtyPages' = dirtyPages \cup {q}
  BY <1>6, StorePageFacts, Zenon
<1> DEFINE SlotSet == [page : Nat, offset : Nat, live : BOOLEAN]
<1>10. /\ slots' \in Seq(SlotSet) /\ Len(slots') = r
       /\ slots'[r] = Slot(q, d, TRUE)
       /\ \A k \in DOMAIN slots : slots'[k] = slots[k]
  <2> DEFINE new1 == Slot(q, d, TRUE)
  <2>1. new1 \in SlotSet
    BY <1>3 DEF Slot
  <2>2. slots' = Append(slots, new1)
    BY <1>6, <1>8
  <2>3. slots \in Seq(SlotSet)
    BY DEF SlotInv
  <2> HIDE DEF new1, SlotSet
  <2>4. /\ Append(slots, new1) \in Seq(SlotSet) /\ Len(Append(slots, new1)) = Len(slots) + 1
        /\ Append(slots, new1)[Len(slots) + 1] = new1
        /\ \A k \in 1..Len(slots) : Append(slots, new1)[k] = slots[k]
    BY <2>1, <2>3, AppendProperties
  <2> QED BY <1>1, <2>2, <2>4, Zenon DEF new1
<1> HIDE DEF SlotSet
<1>11. DOMAIN slots' = 1..r
  BY <1>10, LenProperties
<1>12. \A k \in 1..r : k = r \/ k \in DOMAIN slots
  BY <1>1
<1>13. SlotInv'
  <2>1. slots'[r].page = PageOf(r) /\ slots'[r].offset = OffsetOf(r)
    BY <1>10 DEF Slot, q, d
  <2>2. \A k \in DOMAIN slots : slots'[k].page = PageOf(k) /\ slots'[k].offset = OffsetOf(k)
    BY <1>10 DEF SlotInv
  <2>3. \A k \in DOMAIN slots' : slots'[k].page = PageOf(k) /\ slots'[k].offset = OffsetOf(k)
    BY <1>11, <1>12, <2>1, <2>2
  <2> QED BY <1>10, <2>3 DEF SlotInv, SlotSet
<1>14. PageInv'
  <2>1. DOMAIN pageDirectory' = {PageOf(k) : k \in DOMAIN slots'}
    <3>1. {PageOf(k) : k \in 1..r} = {PageOf(k) : k \in DOMAIN slots} \cup {PageOf(r)}
      <4> HIDE DEF n
      <4> QED BY <1>1, <1>12
    <3> QED BY <1>9, <1>11, <3>1, ZenonT(30) DEF PageInv, q
  <2>2. ASSUME NEW p \in DOMAIN pageDirectory'
        PROVE  /\ pageDirectory'[p] \in Pages
               /\ DOMAIN pageDirectory'[p] =
                    {o \in 1..RowsPerPage : (p - 1) * RowsPerPage + o \in DOMAIN slots'}
    <3>1. CASE p = q
      <4>1. \A o \in 1..RowsPerPage : (q - 1) * RowsPerPage + o \in 1..r <=> o \in 1..d
        <5> HIDE DEF n
        <5> QED BY <1>1, <1>3, <1>4
      <4>2. 1..d \subseteq 1..RowsPerPage
        BY <1>3, <1>4
      <4>3. 1..d = {o \in 1..RowsPerPage : (q - 1) * RowsPerPage + o \in 1..r}
        BY <4>1, <4>2
      <4> QED BY <1>8, <1>9, <1>11, <3>1, <4>3
    <3>2. CASE p # q
      <4>1. p \in DOMAIN pageDirectory /\ pageDirectory'[p] = pageDirectory[p]
        BY <1>9, <3>2
      <4>2. PICK j \in DOMAIN slots : p = PageOf(j)
        BY <4>1 DEF PageInv
      <4>3. p \in Nat \ {0}
        BY <1>1, <4>2, PositionOf
      <4>4. ASSUME NEW o \in 1..RowsPerPage
            PROVE  (p - 1) * RowsPerPage + o \in 1..r <=> (p - 1) * RowsPerPage + o \in DOMAIN slots
        <5>1. (p - 1) * RowsPerPage + o # r
          BY <3>2, <4>3, RowAt DEF q
        <5> QED BY <1>1, <1>12, <5>1
      <4>5. {o \in 1..RowsPerPage : (p - 1) * RowsPerPage + o \in 1..r} =
              {o \in 1..RowsPerPage : (p - 1) * RowsPerPage + o \in DOMAIN slots}
        BY <4>4
      <4> QED BY <1>11, <4>1, <4>5 DEF PageInv
    <3> QED BY <3>1, <3>2
  <2> QED BY <2>1, <2>2 DEF PageInv
<1>15. \A k : RowOf(k)' = pageDirectory'[PageOf(k)][OffsetOf(k)]
  BY DEF RowOf, PageOf, OffsetOf
<1>16. ASSUME NEW k, k = r
       PROVE  RowOf(k)' = row
  BY <1>8, <1>9, <1>15, <1>16 DEF q, d
<1>17. ASSUME NEW k \in DOMAIN slots
       PROVE  RowOf(k)' = RowOf(k)
  <2>1. PageOf(k) \in DOMAIN pageDirectory /\ OffsetOf(k) \in DOMAIN pageDirectory[PageOf(k)]
    BY Cells
  <2>2. CASE PageOf(k) # q
    BY <1>9, <1>15, <2>1, <2>2 DEF RowOf
  <2>3. CASE PageOf(k) = q
    <3>1. old = pageDirectory[q]
      BY <2>1, <2>3 DEF old, LoadPageRows
    <3>2. OffsetOf(k) \in 1..(d - 1)
      BY <1>7, <2>1, <2>3, <3>1
    <3> QED BY <1>8, <1>9, <1>15, <2>3, <3>1, <3>2 DEF RowOf
  <2> QED BY <2>2, <2>3
<1>18. slots'[r].live
  BY <1>10 DEF Slot
<1>19. Coherent(bufferPool, pageDirectory) => Coherent(bufferPool', pageDirectory')
  BY <1>3, <1>6, <1>8, StorePageCoherent
<1> QED
  BY <1>9, <1>10, <1>13, <1>14, <1>16, <1>17, <1>18, <1>19, Zenon DEF q

-----------------------------------------------------------------------------
(* The steps.  The rows of the slots are the cells of the directory.       *)

LEMMA RowsAreCells ==
  ASSUME SlotInv, RowInv
  PROVE  /\ DOMAIN DirectoryRows = DOMAIN slots
         /\ \A r \in DOMAIN slots : DirectoryRows[r] = RowOf(r)
         /\ DirectoryRows \in Seq(Rows \cup {NoRow}) /\ Len(DirectoryRows) = Len(slots)
<1>1. DOMAIN DirectoryRows = DOMAIN slots
  BY DEF DirectoryRows
<1>2. ASSUME NEW r \in DOMAIN slots
      PROVE  DirectoryRows[r] = RowOf(r)
  BY DEF DirectoryRows, RowInv, SlotInv, RowOf
<1>3. \A r \in DOMAIN slots : DirectoryRows[r] \in Rows \cup {NoRow}
  BY <1>2 DEF RowInv
<1>4. DirectoryRows = [r \in DOMAIN slots |-> DirectoryRows[r]]
  BY DEF DirectoryRows
<1>5. DirectoryRows \in [1..Len(slots) -> Rows \cup {NoRow}]
  BY <1>3, <1>4, SlotIds
<1>6. Len(slots) \in Nat
  BY SlotIds
<1>7. DirectoryRows \in Seq(Rows \cup {NoRow}) /\ Len(DirectoryRows) = Len(slots)
  BY <1>5, <1>6, FunctionIsSeq
<1> QED
  BY <1>1, <1>2, <1>7

(* A step that stores the row of one slot and marks it live or dead.       *)
LEMMA StoreStep ==
  ASSUME IInv, NEW r \in DOMAIN slots, NEW row \in Rows \cup {NoRow}, StoreRow(r, row),
         NEW live \in BOOLEAN, live <=> row \in Rows,
         slots' = [slots EXCEPT ![r].live = live]
  PROVE  /\ SlotInv' /\ PageInv' /\ RowInv' /\ DecodedInv'
         /\ Coherent(bufferPool', pageDirectory')
         /\ DirectoryRows' = [DirectoryRows EXCEPT ![r] = row]
         /\ Len(slots') = Len(slots) /\ DOMAIN slots' = DOMAIN slots
         /\ \A k \in DOMAIN slots : slots'[k].live = IF k = r THEN live ELSE slots[k].live
<1> DEFINE SlotSet == [page : Nat, offset : Nat, live : BOOLEAN]
<1>1. /\ SlotInv /\ PageInv /\ RowInv /\ DecodedInv /\ Coherent(bufferPool, pageDirectory)
  BY DEF IInv
<1>2. /\ DOMAIN pageDirectory' = DOMAIN pageDirectory
      /\ \A p \in DOMAIN pageDirectory :
           pageDirectory'[p] \in Pages /\ DOMAIN pageDirectory'[p] = DOMAIN pageDirectory[p]
      /\ \A k \in DOMAIN slots : RowOf(k)' = IF k = r THEN row ELSE RowOf(k)
      /\ Coherent(bufferPool', pageDirectory')
      /\ DOMAIN decodedRows' = {k \in DOMAIN decodedRows : slots[k].page # slots[r].page}
      /\ \A k \in DOMAIN decodedRows' : decodedRows'[k] = decodedRows[k]
  BY <1>1, StoreRowFacts
<1>3. slots \in [1..Len(slots) -> SlotSet] /\ Len(slots) \in Nat
  BY <1>1, LenProperties, Zenon DEF SlotInv
<1>4. /\ slots' \in [1..Len(slots) -> SlotSet]
      /\ \A k \in DOMAIN slots :
           /\ slots'[k].page = slots[k].page /\ slots'[k].offset = slots[k].offset
           /\ slots'[k].live = IF k = r THEN live ELSE slots[k].live
  BY <1>3
<1> HIDE DEF SlotSet
<1>5. slots' \in Seq(SlotSet) /\ Len(slots') = Len(slots) /\ DOMAIN slots' = DOMAIN slots
  BY <1>3, <1>4, FunctionIsSeq
<1>6. SlotInv'
  <2>1. \A k \in DOMAIN slots' : slots'[k].page = PageOf(k) /\ slots'[k].offset = OffsetOf(k)
    BY <1>1, <1>4, <1>5 DEF SlotInv
  <2> QED BY <1>5, <2>1 DEF SlotInv, SlotSet
<1>7. PageInv'
  <2>1. DOMAIN pageDirectory' = {PageOf(k) : k \in DOMAIN slots'}
    BY <1>1, <1>2, <1>5 DEF PageInv
  <2>2. \A p \in DOMAIN pageDirectory' :
          /\ pageDirectory'[p] \in Pages
          /\ DOMAIN pageDirectory'[p] =
               {o \in 1..RowsPerPage : (p - 1) * RowsPerPage + o \in DOMAIN slots'}
    BY <1>1, <1>2, <1>5 DEF PageInv
  <2> QED BY <2>1, <2>2 DEF PageInv
<1>8. ASSUME NEW k \in DOMAIN slots
      PROVE  IF slots'[k].live THEN RowOf(k)' \in Rows ELSE RowOf(k)' = NoRow
  BY <1>1, <1>2, <1>4 DEF RowInv
<1>9. RowInv'
  BY <1>5, <1>8 DEF RowInv
<1>10. DecodedInv'
  <2> SUFFICES ASSUME NEW k \in DOMAIN decodedRows'
               PROVE  k \in DOMAIN slots' /\ slots'[k].live /\ decodedRows'[k] = RowOf(k)'
    BY DEF DecodedInv
  <2>1. k \in DOMAIN decodedRows /\ k # r /\ decodedRows'[k] = decodedRows[k]
    BY <1>2
  <2>2. k \in DOMAIN slots /\ slots[k].live /\ decodedRows[k] = RowOf(k)
    BY <1>1, <2>1 DEF DecodedInv
  <2> QED BY <1>2, <1>4, <1>5, <2>1, <2>2
<1>11. DirectoryRows' = [DirectoryRows EXCEPT ![r] = row]
  <2>1. /\ DOMAIN DirectoryRows = DOMAIN slots
        /\ \A k \in DOMAIN slots : DirectoryRows[k] = RowOf(k)
    BY <1>1, RowsAreCells
  <2>2. DirectoryRows' = [k \in DOMAIN slots' |->
          IF slots'[k].live THEN pageDirectory'[slots'[k].page][slots'[k].offset] ELSE NoRow]
    BY DEF DirectoryRows
  <2>3. ASSUME NEW k \in DOMAIN slots
        PROVE  (IF slots'[k].live THEN pageDirectory'[slots'[k].page][slots'[k].offset] ELSE NoRow)
               = IF k = r THEN row ELSE DirectoryRows[k]
    <3>1. RowOf(k)' = pageDirectory'[PageOf(k)][OffsetOf(k)]
      BY DEF RowOf, PageOf, OffsetOf
    <3>2. slots'[k].page = PageOf(k) /\ slots'[k].offset = OffsetOf(k)
      BY <1>1, <1>4 DEF SlotInv
    <3>3. RowOf(k)' = IF k = r THEN row ELSE DirectoryRows[k]
      BY <1>2, <2>1
    <3> QED BY <1>8, <3>1, <3>2, <3>3, ZenonT(30)
  <2>4. DirectoryRows' = [k \in DOMAIN slots |-> IF k = r THEN row ELSE DirectoryRows[k]]
    BY <1>5, <2>2, <2>3
  <2>5. DirectoryRows = [k \in DOMAIN slots |-> DirectoryRows[k]]
    BY DEF DirectoryRows
  <2> HIDE DEF DirectoryRows
  <2>6. [DirectoryRows EXCEPT ![r] = row]
        = [k \in DOMAIN slots |-> IF k = r THEN row ELSE DirectoryRows[k]]
    BY <2>1, <2>5
  <2> QED BY <2>4, <2>6
<1> QED
  BY <1>2, <1>4, <1>5, <1>6, <1>7, <1>9, <1>10, <1>11

(* A step that appends a slot.                                             *)
LEMMA AppendStep ==
  ASSUME IInv, NEW row \in Rows, AppendNew(row)
  PROVE  IInv' /\ DirectoryRows' = Append(DirectoryRows, row)
<1>1. SlotInv /\ PageInv /\ RowInv /\ DecodedInv /\ FreeInv /\ Coherent(bufferPool, pageDirectory)
  BY DEF IInv
<1> DEFINE n == Len(slots)
<1>2. /\ SlotInv' /\ PageInv' /\ Coherent(bufferPool', pageDirectory')
      /\ Len(slots') = n + 1 /\ slots'[n + 1].live
      /\ \A k \in DOMAIN slots : slots'[k] = slots[k] /\ RowOf(k)' = RowOf(k)
      /\ \A k : k = n + 1 => RowOf(k)' = row
      /\ \A k \in DOMAIN decodedRows' :
           k \in DOMAIN decodedRows /\ decodedRows'[k] = decodedRows[k]
  BY <1>1, AppendNewFacts
<1>3. n \in Nat /\ DOMAIN slots = 1..n
  BY <1>1, SlotIds
<1> HIDE DEF n
<1>4. DOMAIN slots' = 1..(n + 1)
  BY <1>2, LenProperties DEF SlotInv
<1>5. \A k \in DOMAIN slots' : k = n + 1 \/ k \in DOMAIN slots
  BY <1>3, <1>4
<1>6. n + 1 \notin DOMAIN slots /\ DOMAIN slots \subseteq DOMAIN slots'
  BY <1>3, <1>4
<1>7. RowInv'
  <2> SUFFICES ASSUME NEW k \in DOMAIN slots'
               PROVE  IF slots'[k].live THEN RowOf(k)' \in Rows ELSE RowOf(k)' = NoRow
    BY DEF RowInv
  <2> QED BY <1>1, <1>2, <1>5 DEF RowInv
<1>8. DecodedInv'
  <2> SUFFICES ASSUME NEW k \in DOMAIN decodedRows'
               PROVE  k \in DOMAIN slots' /\ slots'[k].live /\ decodedRows'[k] = RowOf(k)'
    BY DEF DecodedInv
  <2>1. k \in DOMAIN decodedRows /\ decodedRows'[k] = decodedRows[k]
    BY <1>2
  <2>2. k \in DOMAIN slots /\ slots[k].live /\ decodedRows[k] = RowOf(k)
    BY <1>1, <2>1 DEF DecodedInv
  <2> QED BY <1>2, <1>6, <2>1, <2>2
<1>9. FreeInv'
  <2>1. freeList' = freeList /\ liveCount' = liveCount + 1
    BY DEF AppendNew
  <2>2. /\ freeList \in Seq(DOMAIN slots) /\ IsInjective(freeList)
        /\ Range(freeList) = {k \in DOMAIN slots : ~ slots[k].live}
        /\ liveCount \in Int /\ liveCount + Len(freeList) = n
    BY <1>1 DEF FreeInv, n
  <2>3. Range(freeList) = {k \in DOMAIN slots' : ~ slots'[k].live}
    BY <1>2, <1>5, <1>6, <2>2
  <2>4. freeList \in Seq(Range(freeList)) /\ Len(freeList) \in Nat
    BY <2>2, SeqOverRange, LenProperties
  <2>5. freeList \in Seq(DOMAIN slots')
    <3>1. freeList \in [1..Len(freeList) -> DOMAIN slots]
      BY <2>2, LenProperties
    <3>2. freeList \in [1..Len(freeList) -> DOMAIN slots']
      BY <1>6, <3>1
    <3> QED BY <2>4, <3>2, FunctionIsSeq
  <2>6. liveCount' \in Int /\ liveCount' + Len(freeList) = n + 1
    BY <1>3, <2>1, <2>2, <2>4
  <2> QED BY <1>2, <2>1, <2>2, <2>3, <2>5, <2>6 DEF FreeInv
<1>10. DirectoryRows' = Append(DirectoryRows, row)
  <2>1. /\ DOMAIN DirectoryRows = DOMAIN slots
        /\ \A k \in DOMAIN slots : DirectoryRows[k] = RowOf(k)
        /\ DirectoryRows \in Seq(Rows \cup {NoRow}) /\ Len(DirectoryRows) = n
    BY <1>1, RowsAreCells DEF n
  <2>2. DirectoryRows' = [k \in DOMAIN slots' |->
          IF slots'[k].live THEN pageDirectory'[slots'[k].page][slots'[k].offset] ELSE NoRow]
    BY DEF DirectoryRows
  <2>3. ASSUME NEW k \in DOMAIN slots'
        PROVE  (IF slots'[k].live THEN pageDirectory'[slots'[k].page][slots'[k].offset] ELSE NoRow)
               = IF k = n + 1 THEN row ELSE DirectoryRows[k]
    <3>1. RowOf(k)' = pageDirectory'[PageOf(k)][OffsetOf(k)]
      BY DEF RowOf, PageOf, OffsetOf
    <3>2. slots'[k].page = PageOf(k) /\ slots'[k].offset = OffsetOf(k)
      BY <1>2 DEF SlotInv
    <3>3. RowOf(k)' = IF k = n + 1 THEN row ELSE DirectoryRows[k]
      BY <1>2, <1>5, <2>1
    <3>4. IF slots'[k].live THEN RowOf(k)' \in Rows ELSE RowOf(k)' = NoRow
      BY <1>7 DEF RowInv
    <3> QED BY <3>1, <3>2, <3>3, <3>4
  <2>4. DirectoryRows' = [k \in 1..(n + 1) |-> IF k = n + 1 THEN row ELSE DirectoryRows[k]]
    BY <1>4, <2>2, <2>3
  <2>5. Append(DirectoryRows, row)
        = [k \in 1..(n + 1) |-> IF k = n + 1 THEN row ELSE DirectoryRows[k]]
    <3> HIDE DEF DirectoryRows
    <3>1. /\ Append(DirectoryRows, row) \in Seq(Rows \cup {NoRow})
          /\ Len(Append(DirectoryRows, row)) = n + 1
          /\ Append(DirectoryRows, row)[n + 1] = row
          /\ \A k \in 1..n : Append(DirectoryRows, row)[k] = DirectoryRows[k]
      BY <2>1, AppendProperties
    <3>2. Append(DirectoryRows, row) \in [1..(n + 1) -> Rows \cup {NoRow}]
      BY <3>1, LenProperties, Zenon
    <3> DEFINE app == Append(DirectoryRows, row)
    <3> HIDE DEF app
    <3>3. \A k \in 1..(n + 1) : app[k] = IF k = n + 1 THEN row ELSE DirectoryRows[k]
      BY <1>3, <3>1 DEF app
    <3>4. app = [k \in 1..(n + 1) |-> app[k]]
      BY <3>2, ZenonT(30) DEF app
    <3> QED BY <3>3, <3>4, Zenon DEF app
  <2> QED BY <2>4, <2>5
<1> QED
  BY <1>2, <1>7, <1>8, <1>9, <1>10 DEF IInv

(* The vector operations of the contract are those of the pages.           *)
LEMMA SameVectors ==
  /\ \A s : Vector!Back(s) = Back(s) /\ Vector!PopBack(s) = PopBack(s)
  /\ \A s : Vector!Range(s) = Range(s)
  /\ \A s, k : Vector!EraseAt(s, k) = EraseAt(s, k)
  /\ \A s, x : Vector!Find(s, x) = Find(s, x)
<1>1. \A s : Vector!Back(s) = Back(s) /\ Vector!PopBack(s) = PopBack(s)
  BY DEF Vector!Back, Back, Vector!PopBack, PopBack
<1>2. \A s : Vector!Range(s) = Range(s)
  BY DEF Vector!Range, Range
<1>3. \A s, k : Vector!EraseAt(s, k) = EraseAt(s, k)
  BY DEF Vector!EraseAt, EraseAt
<1>4. \A s, x : Vector!Find(s, x) = Find(s, x)
  BY DEF Vector!Find, Find, Vector!Min, Min
<1> QED
  BY <1>1, <1>2, <1>3, <1>4

LEMMA LiveSlotsAreRows ==
  ASSUME IInv, NEW r \in DOMAIN slots
  PROVE  /\ r \in DOMAIN DirectoryRows
         /\ slots[r].live <=> DirectoryRows[r] # NoRow
         /\ Vector!Live(r) <=> slots[r].live
<1>1. r \in DOMAIN DirectoryRows /\ DirectoryRows[r] = RowOf(r)
  BY RowsAreCells DEF IInv
<1>2. slots[r].live <=> DirectoryRows[r] # NoRow
  BY <1>1, RowsAssumption DEF IInv, RowInv
<1> QED
  BY <1>1, <1>2 DEF Vector!Live

LEMMA AppendReuseStep ==
  ASSUME IInv, NEW row \in Rows, AppendReuse(row)
  PROVE  IInv' /\ Vector!Append1(row)
<1> DEFINE r == Back(freeList)
<1>1. /\ freeList # <<>> /\ freeList' = PopBack(freeList) /\ liveCount' = liveCount + 1
      /\ slots' = [slots EXCEPT ![r].live = TRUE] /\ StoreRow(r, row)
  BY DEF AppendReuse
<1>2. /\ freeList \in Seq(DOMAIN slots) /\ IsInjective(freeList)
      /\ Range(freeList) = {k \in DOMAIN slots : ~ slots[k].live}
      /\ liveCount \in Int /\ liveCount + Len(freeList) = Len(slots)
  BY DEF IInv, FreeInv
<1>3. /\ PopBack(freeList) \in Seq(DOMAIN slots) /\ IsInjective(PopBack(freeList))
      /\ Len(PopBack(freeList)) = Len(freeList) - 1 /\ r \in Range(freeList)
      /\ Range(PopBack(freeList)) = Range(freeList) \ {r}
  BY <1>1, <1>2, PopBackFacts
<1> HIDE DEF r
<1>4. r \in DOMAIN slots
  BY <1>2, <1>3
<1>5. /\ SlotInv' /\ PageInv' /\ RowInv' /\ DecodedInv' /\ Coherent(bufferPool', pageDirectory')
      /\ DirectoryRows' = [DirectoryRows EXCEPT ![r] = row]
      /\ Len(slots') = Len(slots) /\ DOMAIN slots' = DOMAIN slots
      /\ \A k \in DOMAIN slots : slots'[k].live = IF k = r THEN TRUE ELSE slots[k].live
  BY <1>1, <1>4, StoreStep, ZenonT(30)
<1>6. FreeInv'
  <2>1. Range(freeList') = {k \in DOMAIN slots' : ~ slots'[k].live}
    BY <1>1, <1>2, <1>3, <1>5
  <2>2. Len(freeList) \in Nat
    BY <1>2, LenProperties
  <2>3. liveCount' \in Int /\ liveCount' + Len(freeList') = Len(slots')
    BY <1>1, <1>2, <1>3, <1>5, <2>2
  <2> QED BY <1>1, <1>3, <1>5, <2>1, <2>3 DEF FreeInv
<1>7. Vector!Append1(row)
  BY <1>1, <1>5, SameVectors, ZenonT(30) DEF Vector!Append1, r
<1> QED
  BY <1>5, <1>6, <1>7 DEF IInv

LEMMA AppendNewStep ==
  ASSUME IInv, NEW row \in Rows, AppendNew(row)
  PROVE  /\ IInv' /\ Vector!UpsertAtEnd(row)
         /\ freeList = <<>> => Vector!Append1(row)
<1>1. IInv' /\ DirectoryRows' = Append(DirectoryRows, row)
  BY AppendStep
<1>2. liveCount' = liveCount + 1 /\ freeList' = freeList
  BY DEF AppendNew
<1> QED
  BY <1>1, <1>2 DEF Vector!UpsertAtEnd, Vector!Append1

LEMMA EraseStep ==
  ASSUME IInv, NEW r \in DOMAIN slots, Erase(r)
  PROVE  IInv' /\ Vector!Erase(r)
<1>1. /\ slots[r].live /\ freeList' = Append(freeList, r) /\ liveCount' = liveCount - 1
      /\ slots' = [slots EXCEPT ![r].live = FALSE] /\ StoreRow(r, NoRow)
  BY DEF Erase, Live
<1>2. /\ freeList \in Seq(DOMAIN slots) /\ IsInjective(freeList)
      /\ Range(freeList) = {k \in DOMAIN slots : ~ slots[k].live}
      /\ liveCount \in Int /\ liveCount + Len(freeList) = Len(slots)
  BY DEF IInv, FreeInv
<1>3. r \notin Range(freeList)
  BY <1>1, <1>2
<1>4. /\ Append(freeList, r) \in Seq(DOMAIN slots) /\ IsInjective(Append(freeList, r))
      /\ Len(Append(freeList, r)) = Len(freeList) + 1
      /\ Range(Append(freeList, r)) = Range(freeList) \cup {r}
  BY <1>2, <1>3, AppendFacts
<1>5. /\ SlotInv' /\ PageInv' /\ RowInv' /\ DecodedInv' /\ Coherent(bufferPool', pageDirectory')
      /\ DirectoryRows' = [DirectoryRows EXCEPT ![r] = NoRow]
      /\ Len(slots') = Len(slots) /\ DOMAIN slots' = DOMAIN slots
      /\ \A k \in DOMAIN slots : slots'[k].live = IF k = r THEN FALSE ELSE slots[k].live
  BY <1>1, StoreStep, RowsAssumption, ZenonT(30)
<1>6. FreeInv'
  <2>1. Range(freeList') = {k \in DOMAIN slots' : ~ slots'[k].live}
    BY <1>1, <1>2, <1>4, <1>5
  <2>2. Len(freeList) \in Nat
    BY <1>2, LenProperties
  <2>3. liveCount' \in Int /\ liveCount' + Len(freeList') = Len(slots')
    BY <1>1, <1>2, <1>4, <1>5, <2>2
  <2> QED BY <1>1, <1>4, <1>5, <2>1, <2>3 DEF FreeInv
<1>7. Vector!Erase(r)
  BY <1>1, <1>5, LiveSlotsAreRows DEF Vector!Erase
<1> QED
  BY <1>5, <1>6, <1>7 DEF IInv

LEMMA UpdateStep ==
  ASSUME IInv, NEW r \in DOMAIN slots, NEW row \in Rows, Update(r, row)
  PROVE  IInv' /\ Vector!Update(r, row)
<1>1. /\ slots[r].live /\ slots' = slots /\ freeList' = freeList /\ liveCount' = liveCount
      /\ StoreRow(r, row)
  BY DEF Update, Live
<1>2. slots' = [slots EXCEPT ![r].live = TRUE]
  <2> DEFINE SlotSet == [page : Nat, offset : Nat, live : BOOLEAN]
  <2>1. slots \in [1..Len(slots) -> SlotSet]
    BY LenProperties, Zenon DEF IInv, SlotInv
  <2>2. slots[r] \in SlotSet /\ slots[r].live = TRUE
    BY <1>1, <2>1
  <2>3. [slots[r] EXCEPT !.live = TRUE] = slots[r]
    BY <2>2
  <2> HIDE DEF SlotSet
  <2> QED BY <1>1, <2>1, <2>3
<1>3. /\ SlotInv' /\ PageInv' /\ RowInv' /\ DecodedInv' /\ Coherent(bufferPool', pageDirectory')
      /\ DirectoryRows' = [DirectoryRows EXCEPT ![r] = row]
  BY <1>1, <1>2, StoreStep, ZenonT(30)
<1>4. FreeInv'
  BY <1>1 DEF IInv, FreeInv
<1>5. Vector!Update(r, row)
  BY <1>1, <1>3, LiveSlotsAreRows DEF Vector!Update
<1> QED
  BY <1>3, <1>4, <1>5 DEF IInv

LEMMA ReviveStep ==
  ASSUME IInv, NEW r \in DOMAIN slots, NEW row \in Rows, Revive(r, row)
  PROVE  IInv' /\ Vector!Revive(r, row)
<1> DEFINE fl == EraseAt(freeList, Find(freeList, r))
<1>1. /\ ~ slots[r].live /\ r \in Range(freeList) /\ liveCount' = liveCount + 1
      /\ freeList' = fl
      /\ slots' = [slots EXCEPT ![r].live = TRUE] /\ StoreRow(r, row)
  BY DEF Revive, Live
<1>2. /\ freeList \in Seq(DOMAIN slots) /\ IsInjective(freeList)
      /\ Range(freeList) = {k \in DOMAIN slots : ~ slots[k].live}
      /\ liveCount \in Int /\ liveCount + Len(freeList) = Len(slots)
  BY DEF IInv, FreeInv
<1>3. /\ fl \in Seq(DOMAIN slots) /\ IsInjective(fl) /\ Len(fl) = Len(freeList) - 1
      /\ Range(fl) = Range(freeList) \ {r}
  BY <1>1, <1>2, FindErased
<1> HIDE DEF fl
<1>4. /\ SlotInv' /\ PageInv' /\ RowInv' /\ DecodedInv' /\ Coherent(bufferPool', pageDirectory')
      /\ DirectoryRows' = [DirectoryRows EXCEPT ![r] = row]
      /\ Len(slots') = Len(slots) /\ DOMAIN slots' = DOMAIN slots
      /\ \A k \in DOMAIN slots : slots'[k].live = IF k = r THEN TRUE ELSE slots[k].live
  BY <1>1, StoreStep, ZenonT(30)
<1>5. FreeInv'
  <2>1. Range(freeList') = {k \in DOMAIN slots' : ~ slots'[k].live}
    BY <1>1, <1>2, <1>3, <1>4
  <2>2. Len(freeList) \in Nat
    BY <1>2, LenProperties
  <2>3. liveCount' \in Int /\ liveCount' + Len(freeList') = Len(slots')
    BY <1>1, <1>2, <1>3, <1>4, <2>2
  <2> QED BY <1>1, <1>3, <1>4, <2>1, <2>3 DEF FreeInv
<1>6. Vector!Revive(r, row)
  BY <1>1, <1>4, LiveSlotsAreRows, SameVectors DEF Vector!Revive, fl
<1> QED
  BY <1>4, <1>5, <1>6 DEF IInv

(* Whatever is cached, get returns the cell of the row id.                 *)
LEMMA GetIsCell ==
  ASSUME IInv, NEW r \in DOMAIN slots, slots[r].live
  PROVE  GetResult(r) = RowOf(r) /\ RowOf(r) \in Rows
<1>1. SlotInv /\ PageInv /\ RowInv /\ DecodedInv /\ Coherent(bufferPool, pageDirectory)
  BY DEF IInv
<1>2. RowOf(r) \in Rows
  BY <1>1 DEF RowInv
<1>3. CASE r \in DOMAIN decodedRows
  BY <1>1, <1>2, <1>3 DEF GetResult, Live, DecodedInv
<1>4. CASE r \notin DOMAIN decodedRows
  <2> DEFINE p == slots[r].page
             pageRows == IF p \in Buffered(bufferPool) THEN BufferedRows(bufferPool, p)
                         ELSE LoadPageRows(p)
  <2>1. /\ p = PageOf(r) /\ LoadPageRows(p) = pageDirectory[PageOf(r)]
        /\ slots[r].offset = OffsetOf(r) /\ OffsetOf(r) \in DOMAIN pageDirectory[PageOf(r)]
    BY <1>1, Cells
  <2>2. p \in Buffered(bufferPool) => BufferedRows(bufferPool, p) = pageDirectory[p]
    BY <1>1, BufferedCopy
  <2>3. GetResult(r) = IF slots[r].offset \in DOMAIN pageRows
                         THEN pageRows[slots[r].offset] ELSE NoRow
    BY <1>4 DEF GetResult, Live
  <2> HIDE DEF p
  <2>4. pageRows = pageDirectory[PageOf(r)]
    BY <2>1, <2>2
  <2> HIDE DEF pageRows
  <2> QED BY <1>2, <2>1, <2>3, <2>4 DEF RowOf
<1> QED
  BY <1>3, <1>4

LEMMA HeapUnchanged ==
  ASSUME IInv, UNCHANGED heapVars
  PROVE  /\ SlotInv' /\ PageInv' /\ RowInv' /\ FreeInv'
         /\ \A k : RowOf(k)' = RowOf(k)
         /\ UNCHANGED <<DirectoryRows, freeList, liveCount>>
<1>1. /\ slots' = slots /\ freeList' = freeList /\ liveCount' = liveCount
      /\ pageDirectory' = pageDirectory
  BY DEF heapVars
<1>2. SlotInv'
  BY <1>1 DEF IInv, SlotInv
<1>3. PageInv'
  BY <1>1, Zenon DEF IInv, PageInv
<1>4. RowInv'
  BY <1>1 DEF IInv, RowInv, RowOf
<1>5. FreeInv'
  BY <1>1 DEF IInv, FreeInv
<1>6. UNCHANGED <<DirectoryRows, freeList, liveCount>>
  BY <1>1 DEF DirectoryRows
<1>7. \A k : RowOf(k)' = RowOf(k)
  BY <1>1 DEF RowOf, PageOf, OffsetOf
<1> QED
  BY <1>2, <1>3, <1>4, <1>5, <1>6, <1>7

LEMMA GetStep ==
  ASSUME IInv, NEW r \in DOMAIN slots, Get(r)
  PROVE  IInv' /\ UNCHANGED <<DirectoryRows, freeList, liveCount>>
<1> DEFINE p == slots[r].page
           pool == IF p \in Buffered(bufferPool) \/ p \notin DOMAIN pageDirectory THEN bufferPool
                   ELSE Put(bufferPool, p, pageDirectory[p])
<1>1. SlotInv /\ PageInv /\ RowInv /\ DecodedInv /\ Coherent(bufferPool, pageDirectory)
  BY DEF IInv
<1>2. /\ UNCHANGED heapVars /\ slots[r].live
      /\ bufferPool' = IF r \in DOMAIN decodedRows \/ p \notin Buffered(pool) THEN pool
                       ELSE Put(pool, p, BufferedRows(pool, p))
      /\ decodedRows' = IF r \in DOMAIN decodedRows \/ GetResult(r) = NoRow THEN decodedRows
                        ELSE [k \in DOMAIN decodedRows \cup {r} |->
                               IF k = r THEN GetResult(r) ELSE decodedRows[k]]
  BY DEF Get, Live
<1>3. p \in DOMAIN pageDirectory /\ p \in Nat /\ pageDirectory[p] \in Pages
  BY <1>1, Cells
<1>4. \A pl : Coherent(pl, pageDirectory) => Coherent(Put(pl, p, pageDirectory[p]), pageDirectory)
  <2> HIDE DEF p
  <2> TAKE pl
  <2> HAVE Coherent(pl, pageDirectory)
  <2> QED BY <1>3, PutCoherent
<1> HIDE DEF p
<1>5. Coherent(pool, pageDirectory)
  BY <1>1, <1>4
<1> HIDE DEF pool
<1>6. p \in Buffered(pool) => BufferedRows(pool, p) = pageDirectory[p]
  BY <1>5, BufferedCopy
<1>7. Coherent(bufferPool', pageDirectory)
  BY <1>2, <1>4, <1>5, <1>6
<1>8. pageDirectory' = pageDirectory /\ slots' = slots
  BY <1>2 DEF heapVars
<1>9. /\ SlotInv' /\ PageInv' /\ RowInv' /\ FreeInv' /\ (\A k : RowOf(k)' = RowOf(k))
      /\ UNCHANGED <<DirectoryRows, freeList, liveCount>>
  BY <1>2, HeapUnchanged
<1>10. DecodedInv'
  <2> SUFFICES ASSUME NEW k \in DOMAIN decodedRows'
               PROVE  k \in DOMAIN slots /\ slots[k].live /\ decodedRows'[k] = RowOf(k)
    BY <1>8, <1>9 DEF DecodedInv
  <2>1. GetResult(r) = RowOf(r)
    BY <1>2, GetIsCell
  <2>2. CASE k \in DOMAIN decodedRows /\ decodedRows'[k] = decodedRows[k]
    BY <1>1, <2>2 DEF DecodedInv
  <2>3. CASE k = r /\ decodedRows'[k] = GetResult(r)
    BY <1>2, <2>1, <2>3
  <2>4. \/ k \in DOMAIN decodedRows /\ decodedRows'[k] = decodedRows[k]
        \/ k = r /\ decodedRows'[k] = GetResult(r)
    BY <1>2
  <2> QED BY <2>2, <2>3, <2>4
<1> QED
  BY <1>7, <1>8, <1>9, <1>10 DEF IInv

LEMMA ReloadStep ==
  ASSUME IInv, Reload
  PROVE  IInv' /\ UNCHANGED <<DirectoryRows, freeList, liveCount>>
<1>1. SlotInv /\ PageInv /\ Coherent(bufferPool, pageDirectory)
  BY DEF IInv
<1>2. /\ UNCHANGED heapVars /\ bufferPool' = PutAll(bufferPool, pageDirectory)
      /\ decodedRows' = <<>>
  BY DEF Reload
<1>3. /\ SlotInv' /\ PageInv' /\ RowInv' /\ FreeInv'
      /\ UNCHANGED <<DirectoryRows, freeList, liveCount>>
  BY <1>2, HeapUnchanged
<1>4. DecodedInv'
  BY <1>2 DEF DecodedInv
<1>5. Coherent(PutAll(bufferPool, pageDirectory), pageDirectory)
  <2> DEFINE n == Len(slots)
  <2>1. n \in Nat /\ DOMAIN slots = 1..n
    BY <1>1, SlotIds
  <2>2. ASSUME NEW p \in DOMAIN pageDirectory PROVE p \in 1..n
    <3>1. PICK r \in DOMAIN slots : p = PageOf(r)
      BY <1>1 DEF PageInv
    <3>2. r \in Nat \ {0} /\ r <= n
      BY <2>1
    <3>3. /\ p \in Nat \ {0} /\ OffsetOf(r) \in 1..RowsPerPage
          /\ r = (p - 1) * RowsPerPage + OffsetOf(r)
      BY <3>1, <3>2, PositionOf
    <3>4. RowsPerPage \in Nat \ {0}
      BY RowsPerPageAssumption
    <3>5. (p - 1) * RowsPerPage >= p - 1 /\ (p - 1) * RowsPerPage \in Nat
      BY <3>3, <3>4
    <3> QED BY <2>1, <3>2, <3>3, <3>4, <3>5
  <2> HIDE DEF n
  <2>3. \A p \in DOMAIN pageDirectory : pageDirectory[p] \in Pages
    BY <1>1 DEF PageInv
  <2> QED BY <1>1, <2>1, <2>2, <2>3, PutAllCoherent
<1>6. pageDirectory' = pageDirectory
  BY <1>2 DEF heapVars
<1> QED
  BY <1>2, <1>3, <1>4, <1>5, <1>6 DEF IInv

LEMMA CachesUntouched ==
  ASSUME IInv, UNCHANGED <<heapVars, cacheVars>>
  PROVE  IInv' /\ UNCHANGED <<DirectoryRows, freeList, liveCount>>
<1>1. /\ UNCHANGED heapVars /\ bufferPool' = bufferPool /\ decodedRows' = decodedRows
      /\ pageDirectory' = pageDirectory /\ slots' = slots
  BY DEF heapVars, cacheVars
<1>2. /\ SlotInv' /\ PageInv' /\ RowInv' /\ FreeInv' /\ (\A k : RowOf(k)' = RowOf(k))
      /\ UNCHANGED <<DirectoryRows, freeList, liveCount>>
  BY <1>1, HeapUnchanged
<1>3. DecodedInv'
  BY <1>1, <1>2 DEF IInv, DecodedInv
<1> QED
  BY <1>1, <1>2, <1>3 DEF IInv

LEMMA NextStep ==
  ASSUME IInv, [Next]_pageVars
  PROVE  IInv' /\ [Vector!Next]_Vector!storeVars
<1> DEFINE Silent == UNCHANGED <<DirectoryRows, freeList, liveCount>>
<1>0. Silent => UNCHANGED Vector!storeVars
  BY DEF Vector!storeVars
<1>1. DOMAIN DirectoryRows = DOMAIN slots
  BY RowsAreCells DEF IInv
<1>2. ASSUME NEW row \in Rows, Append1(row)
      PROVE  IInv' /\ Vector!Next
  <2>1. IInv' /\ Vector!Append1(row)
    BY <1>2, AppendReuseStep, AppendNewStep DEF Append1
  <2> QED BY <2>1 DEF Vector!Next
<1>3. ASSUME NEW row \in Rows, UpsertAtEnd(row)
      PROVE  IInv' /\ Vector!Next
  <2>1. IInv' /\ Vector!UpsertAtEnd(row)
    BY <1>3, AppendNewStep DEF UpsertAtEnd
  <2> QED BY <2>1 DEF Vector!Next
<1>4. ASSUME NEW r \in DOMAIN slots, NEW row \in Rows, Update(r, row)
      PROVE  IInv' /\ Vector!Next
  <2>1. IInv' /\ Vector!Update(r, row)
    BY <1>4, UpdateStep
  <2> QED BY <1>1, <2>1 DEF Vector!Next
<1>5. ASSUME NEW r \in DOMAIN slots, NEW row \in Rows, Revive(r, row)
      PROVE  IInv' /\ Vector!Next
  <2>1. IInv' /\ Vector!Revive(r, row)
    BY <1>5, ReviveStep
  <2> QED BY <1>1, <2>1 DEF Vector!Next
<1>6. ASSUME NEW r \in DOMAIN slots, Erase(r)
      PROVE  IInv' /\ Vector!Next
  <2>1. IInv' /\ Vector!Erase(r)
    BY <1>6, EraseStep
  <2>2. DirectoryRows[r] \in Rows
    <3>1. slots[r].live
      BY <1>6 DEF Erase, Live
    <3> QED BY <3>1, GetIsCell, RowsAreCells DEF IInv
  <2> QED BY <1>1, <2>1, <2>2 DEF Vector!Next
<1>7. ASSUME NEW r \in DOMAIN slots, Get(r)
      PROVE  IInv' /\ Silent
  BY <1>7, GetStep
<1>8. ASSUME ClearDirtyPages
      PROVE  IInv' /\ Silent
  <2>1. UNCHANGED <<heapVars, cacheVars>>
    BY <1>8 DEF ClearDirtyPages
  <2> QED BY <2>1, CachesUntouched
<1>9. ASSUME Reload
      PROVE  IInv' /\ Silent
  BY <1>9, ReloadStep
<1>10. ASSUME UNCHANGED pageVars
       PROVE  IInv' /\ Silent
  <2>1. UNCHANGED <<heapVars, cacheVars>>
    BY <1>10 DEF pageVars
  <2> QED BY <2>1, CachesUntouched
<1> HIDE DEF Silent
<1> QED
  BY <1>0, <1>2, <1>3, <1>4, <1>5, <1>6, <1>7, <1>8, <1>9, <1>10 DEF Next

-----------------------------------------------------------------------------
(* What the invariant gives.                                               *)

LEMMA ExactFromInv ==
  IInv => FreeListExact
<1> SUFFICES ASSUME IInv PROVE FreeListExact
  OBVIOUS
<1>1. /\ freeList \in Seq(DOMAIN slots) /\ IsInjective(freeList)
      /\ Range(freeList) = {r \in DOMAIN slots : ~ slots[r].live}
      /\ liveCount + Len(freeList) = Len(slots)
  BY DEF IInv, FreeInv
<1>2. DOMAIN DirectoryRows = DOMAIN slots /\ Len(DirectoryRows) = Len(slots)
  BY RowsAreCells DEF IInv
<1>3. \A i, j \in DOMAIN freeList : freeList[i] = freeList[j] => i = j
  BY <1>1 DEF IsInjective
<1>4. \A r \in DOMAIN slots : ~ Vector!Live(r) <=> \E i \in DOMAIN freeList : freeList[i] = r
  <2>1. \A r \in DOMAIN slots : Vector!Live(r) <=> slots[r].live
    BY LiveSlotsAreRows
  <2>2. \A r : r \in Range(freeList) <=> \E i \in DOMAIN freeList : freeList[i] = r
    BY DEF Range
  <2> QED BY <1>1, <2>1, <2>2
<1> QED
  BY <1>1, <1>2, <1>3, <1>4 DEF FreeListExact, Vector!FreeListExact

LEMMA CoherentFromInv ==
  IInv => CachesAreCoherent
<1> SUFFICES ASSUME IInv, NEW r \in DOMAIN slots
             PROVE  GetResult(r) = DirectoryRows[r]
  BY DEF CachesAreCoherent
<1>1. DirectoryRows[r] = RowOf(r)
  BY RowsAreCells DEF IInv
<1>2. CASE slots[r].live
  BY <1>1, <1>2, GetIsCell
<1>3. CASE ~ slots[r].live
  BY <1>1, <1>3 DEF GetResult, Live, IInv, RowInv
<1> QED
  BY <1>2, <1>3

LEMMA InitStore ==
  Init => IInv /\ Vector!Init
<1> SUFFICES ASSUME Init PROVE IInv /\ Vector!Init
  OBVIOUS
<1>1. /\ slots = <<>> /\ freeList = <<>> /\ liveCount = 0
      /\ pageDirectory = <<>> /\ bufferPool = <<>> /\ decodedRows = <<>>
  BY DEF Init
<1>2. \A S : <<>> \in Seq(S)
  OBVIOUS
<1>3. DOMAIN <<>> = {} /\ Len(<<>>) = 0
  OBVIOUS
<1>4. SlotInv /\ PageInv /\ RowInv /\ DecodedInv
  BY <1>1, <1>2, <1>3 DEF SlotInv, PageInv, RowInv, DecodedInv
<1>5. FreeInv
  <2>1. freeList \in Seq(DOMAIN slots) /\ IsInjective(freeList)
    BY <1>1, <1>2, <1>3 DEF IsInjective
  <2>2. Range(freeList) = {r \in DOMAIN slots : ~ slots[r].live}
    BY <1>1, <1>3 DEF Range
  <2> QED BY <1>1, <1>3, <2>1, <2>2 DEF FreeInv
<1>6. Coherent(bufferPool, pageDirectory)
  BY <1>1, <1>2, <1>3, BufferCapacityAssumption DEF Coherent
<1>7. DirectoryRows = <<>>
  BY <1>1, <1>3 DEF DirectoryRows
<1> QED
  BY <1>1, <1>4, <1>5, <1>6, <1>7 DEF IInv, Vector!Init

-----------------------------------------------------------------------------
(* The theorems.                                                           *)

(* The inductive invariant of PageRowStore holds: slots, pages, free list, *)
(* buffer pool and decoded rows stay consistent under append, erase,       *)
(* update, revive, upsertAt, get, clearDirtyPages and a reload; the buffer *)
(* pool never holds more pages than its capacity, nor a page twice.        *)
THEOREM StoreInvariance == Spec => []IInv
<1>1. Init => IInv
  BY InitStore
<1>2. IInv /\ [Next]_pageVars => IInv'
  BY NextStep
<1> QED
  BY <1>1, <1>2, PTL DEF Spec

(* The free list of PageRowStore holds exactly the dead slots, each once,  *)
(* and liveCount counts the live ones (freeList_, liveCount_).             *)
THEOREM FreeListStaysExact == Spec => []FreeListExact
BY StoreInvariance, ExactFromInv, PTL

(* get returns the row of the page directory whatever the buffer pool and  *)
(* the decoded rows hold (PageRowStore::get, BufferPool::put).             *)
THEOREM CachesStayCoherent == Spec => []CachesAreCoherent
BY StoreInvariance, CoherentFromInv, PTL

(* PageRowStore implements the contract of RowStore: through its pages and *)
(* caches it is the vector of rows of VectorRowStore, operation by         *)
(* operation, and get, clearDirtyPages and a reload change nothing.        *)
THEOREM StoreIsVector == Spec => RefinesRowStore
<1>1. Init => Vector!Init
  BY InitStore
<1>2. IInv /\ [Next]_pageVars => [Vector!Next]_Vector!storeVars
  BY NextStep
<1> QED
  BY <1>1, <1>2, StoreInvariance, PTL DEF Spec, RefinesRowStore, Vector!Spec

-----------------------------------------------------------------------------
(* The operations on the heap.                                             *)

LEMMA HeapShape ==
  ASSUME HeapInv
  PROVE  /\ Len(slots) \in Nat /\ DOMAIN slots = 1..Len(slots)
         /\ \A r \in DOMAIN slots : r \in RowIds
         /\ \A r \in RowIds : Value(r) # NoRow => Live(r) /\ Value(r) = RowOf(r)
         /\ \A r \in DOMAIN slots :
              slots[r].live => /\ Placed(pageDirectory, r) /\ Value(r) \in Rows
                               /\ r \notin Range(freeList)
         /\ \A r \in DOMAIN slots : ~ slots[r].live => r \in Range(freeList)
<1>1. Len(slots) \in Nat /\ DOMAIN slots = 1..Len(slots)
  BY LenProperties DEF HeapInv
<1>2. \A r \in DOMAIN slots : r \in RowIds
  BY <1>1 DEF RowIds
<1>3. \A r \in DOMAIN slots :
        slots[r].live => /\ Placed(pageDirectory, r) /\ Value(r) \in Rows
                         /\ r \notin Range(freeList)
  BY DEF HeapInv, SlotOK, Value, Live
<1>4. \A r \in DOMAIN slots : ~ slots[r].live => r \in Range(freeList)
  BY DEF HeapInv
<1>5. \A r \in RowIds : Value(r) # NoRow => Live(r) /\ Value(r) = RowOf(r)
  BY DEF Value
<1> QED
  BY <1>1, <1>2, <1>3, <1>4, <1>5

(* The pages of a heap in which every row id has its cell.                 *)
LEMMA AllPlaced ==
  ASSUME NEW dir, NEW n \in Nat
  PROVE  (/\ DOMAIN dir = {PageOf(r) : r \in 1..n}
          /\ \A p \in DOMAIN dir :
               /\ dir[p] \in Pages
               /\ DOMAIN dir[p] = {o \in 1..RowsPerPage : (p - 1) * RowsPerPage + o \in 1..n})
         <=> (DirInv(dir, n) /\ \A r \in 1..n : Placed(dir, r))
<1> DEFINE A == /\ DOMAIN dir = {PageOf(r) : r \in 1..n}
                /\ \A p \in DOMAIN dir :
                     /\ dir[p] \in Pages
                     /\ DOMAIN dir[p] = {o \in 1..RowsPerPage : (p - 1) * RowsPerPage + o \in 1..n}
           B == DirInv(dir, n) /\ \A r \in 1..n : Placed(dir, r)
<1>1. \A r \in 1..n : r \in Nat \ {0}
  OBVIOUS
<1>2. ASSUME A PROVE B
  <2>1. ASSUME NEW r \in 1..n
        PROVE  /\ Placed(dir, r) /\ PageOf(r) \in Nat \ {0}
               /\ OffsetOf(r) \in DOMAIN dir[PageOf(r)]
    <3>1. /\ PageOf(r) \in Nat \ {0} /\ OffsetOf(r) \in 1..RowsPerPage
          /\ r = (PageOf(r) - 1) * RowsPerPage + OffsetOf(r)
      BY <1>1, PositionOf
    <3>2. PageOf(r) \in DOMAIN dir
      BY <1>2
    <3>3. (PageOf(r) - 1) * RowsPerPage + OffsetOf(r) \in 1..n
      BY <3>1
    <3>4. OffsetOf(r) \in DOMAIN dir[PageOf(r)]
      BY <1>2, <3>1, <3>2, <3>3
    <3> QED BY <3>1, <3>2, <3>4 DEF Placed
  <2>2. ASSUME NEW p \in DOMAIN dir
        PROVE  /\ p \in Nat \ {0} /\ dir[p] \in Pages /\ dir[p] # <<>>
               /\ \A o \in DOMAIN dir[p] :
                     o \in 1..RowsPerPage /\ (p - 1) * RowsPerPage + o \in 1..n
    <3>1. PICK r \in 1..n : p = PageOf(r)
      BY <1>2
    <3>2. p \in Nat \ {0} /\ DOMAIN dir[p] # {}
      BY <2>1, <3>1
    <3>3. dir[p] # <<>>
      BY <3>2
    <3> QED BY <1>2, <3>2, <3>3
  <2> QED BY <2>1, <2>2 DEF DirInv
<1>3. ASSUME B PROVE A
  <2>1. ASSUME NEW p \in DOMAIN dir
        PROVE  /\ dir[p] \in Pages /\ \E r \in 1..n : p = PageOf(r)
               /\ DOMAIN dir[p] = {o \in 1..RowsPerPage : (p - 1) * RowsPerPage + o \in 1..n}
    <3>1. /\ p \in Nat \ {0} /\ dir[p] \in Pages /\ dir[p] # <<>>
          /\ \A o \in DOMAIN dir[p] : o \in 1..RowsPerPage /\ (p - 1) * RowsPerPage + o \in 1..n
      BY <1>3 DEF DirInv
    <3>2. 1 \in DOMAIN dir[p]
      BY <3>1, EmptySeq, LenProperties DEF Pages
    <3>3. \E r \in 1..n : p = PageOf(r)
      <4>1. (p - 1) * RowsPerPage + 1 \in 1..n /\ 1 \in 1..RowsPerPage
        BY <3>1, <3>2
      <4>2. PageOf((p - 1) * RowsPerPage + 1) = p
        BY <3>1, <4>1, RowAt
      <4> QED BY <4>1, <4>2
    <3>4. ASSUME NEW o \in 1..RowsPerPage, (p - 1) * RowsPerPage + o \in 1..n
          PROVE  o \in DOMAIN dir[p]
      <4>1. PageOf((p - 1) * RowsPerPage + o) = p /\ OffsetOf((p - 1) * RowsPerPage + o) = o
        BY <3>1, RowAt
      <4> QED BY <1>3, <3>4, <4>1 DEF Placed
    <3> QED BY <3>1, <3>3, <3>4, ZenonT(30)
  <2>2. \A r \in 1..n : PageOf(r) \in DOMAIN dir
    BY <1>3 DEF Placed
  <2> QED BY <2>1, <2>2, Zenon
<1> QED
  BY <1>2, <1>3

(* A slot whose position is in its page is where its number says.          *)
LEMMA HasCell ==
  ASSUME HeapInv, NEW r \in DOMAIN slots, HasPosition(r)
  PROVE  /\ r \in RowIds /\ Placed(pageDirectory, r)
         /\ slots[r].page = PageOf(r) /\ slots[r].offset = OffsetOf(r)
         /\ pageDirectory[PageOf(r)] \in Pages
<1>1. r \in RowIds
  BY HeapShape
<1>2. slots[r].page # 0
  <2>1. 0 \notin DOMAIN pageDirectory
    BY DEF HeapInv, DirInv
  <2>2. LoadPageRows(0) = <<>>
    BY <2>1 DEF LoadPageRows
  <2> QED BY <2>2 DEF HasPosition
<1>3. SlotOK(r)
  BY DEF HeapInv
<1>4. /\ Placed(pageDirectory, r)
      /\ slots[r].page = PageOf(r) /\ slots[r].offset = OffsetOf(r)
  BY <1>2, <1>3 DEF SlotOK
<1>5. pageDirectory[PageOf(r)] \in Pages
  BY <1>4 DEF HeapInv, DirInv, Placed
<1> QED
  BY <1>1, <1>4, <1>5

LEMMA PrimedWhole ==
  Whole' <=>
    \A r \in DOMAIN slots' :
      /\ Placed(pageDirectory', r)
      /\ slots'[r].page = PageOf(r) /\ slots'[r].offset = OffsetOf(r)
      /\ ~ slots'[r].live => RowOf(r)' = NoRow
BY DEF Whole, Placed, PageOf, OffsetOf

(* Storing a row, with the live flag and the free list that go with it.    *)
LEMMA StoreHeap ==
  ASSUME HeapInv, NEW r \in DOMAIN slots, HasPosition(r),
         NEW row \in Rows \cup {NoRow}, StoreRow(r, row),
         slots' \in Seq(SlotRecords), DOMAIN slots' = DOMAIN slots,
         \A k \in DOMAIN slots :
           /\ slots'[k].page = slots[k].page /\ slots'[k].offset = slots[k].offset
           /\ slots'[k].live <=> IF k = r THEN row \in Rows ELSE slots[k].live,
         freeList' \in Seq(DOMAIN slots), IsInjective(freeList'),
         Range(freeList') = {k \in DOMAIN slots : ~ slots'[k].live}
  PROVE  HeapInv' /\ Changed(r, row) /\ (Whole => Whole')
<1>1. /\ r \in RowIds /\ Placed(pageDirectory, r)
      /\ slots[r].page = PageOf(r) /\ slots[r].offset = OffsetOf(r)
      /\ pageDirectory[PageOf(r)] \in Pages
  BY HasCell
<1>2. /\ DOMAIN pageDirectory' = DOMAIN pageDirectory
      /\ pageDirectory'[PageOf(r)] \in Pages
      /\ DOMAIN pageDirectory'[PageOf(r)] = DOMAIN pageDirectory[PageOf(r)]
      /\ \A q \in DOMAIN pageDirectory : q # PageOf(r) => pageDirectory'[q] = pageDirectory[q]
      /\ RowOf(r)' = row
      /\ \A k \in Nat \ {0} : k # r /\ Placed(pageDirectory, k) => RowOf(k)' = RowOf(k)
      /\ dirtyPages' = dirtyPages \cup {PageOf(r)}
  BY <1>1, StoreCellFacts DEF RowIds
<1>3. Len(slots') = Len(slots) /\ Len(slots) \in Nat /\ \A k \in DOMAIN slots : k \in RowIds
  <2>1. DOMAIN slots' = 1..Len(slots') /\ Len(slots') \in Nat
    BY LenProperties
  <2>2. DOMAIN slots = 1..Len(slots) /\ Len(slots) \in Nat
    BY HeapShape
  <2> DEFINE a == Len(slots')
             b == Len(slots)
  <2>3. a = b
    <3>1. 1..a = 1..b /\ a \in Nat /\ b \in Nat
      BY <2>1, <2>2, ZenonT(30)
    <3> HIDE DEF a, b
    <3>2. \A i \in Nat : 1 <= i => (i <= a <=> i <= b)
      BY <3>1
    <3> QED BY <3>1, <3>2
  <2> QED BY <2>2, <2>3, HeapShape, ZenonT(30)
<1>4. \A p \in DOMAIN pageDirectory :
        pageDirectory'[p] \in Pages /\ DOMAIN pageDirectory'[p] = DOMAIN pageDirectory[p]
  BY <1>2, ZenonT(30) DEF HeapInv, DirInv
<1>5. \A k : Placed(pageDirectory', k) <=> Placed(pageDirectory, k)
  BY <1>2, <1>4 DEF Placed
<1>6. DirInv(pageDirectory', Len(slots'))
  <2> SUFFICES ASSUME NEW p \in DOMAIN pageDirectory
               PROVE  /\ p \in Nat \ {0} /\ pageDirectory'[p] # <<>>
                      /\ \A o \in DOMAIN pageDirectory'[p] :
                           o \in 1..RowsPerPage /\ (p - 1) * RowsPerPage + o \in 1..Len(slots)
    BY <1>2, <1>3, <1>4 DEF DirInv
  <2>1. /\ p \in Nat \ {0} /\ pageDirectory[p] # <<>> /\ pageDirectory[p] \in Pages
        /\ \A o \in DOMAIN pageDirectory[p] :
              o \in 1..RowsPerPage /\ (p - 1) * RowsPerPage + o \in 1..Len(slots)
    BY DEF HeapInv, DirInv
  <2>2. 1 \in DOMAIN pageDirectory[p]
    BY <2>1, EmptySeq, LenProperties DEF Pages
  <2>3. pageDirectory'[p] # <<>>
    BY <1>4, <2>2
  <2> QED BY <1>4, <2>1, <2>3
<1>7. ASSUME NEW k \in DOMAIN slots
      PROVE  SlotOK(k)' /\ (slots'[k].live => RowOf(k)' \in Rows)
  <2>1. SlotOK(k) /\ (slots[k].live => Placed(pageDirectory, k) /\ RowOf(k) \in Rows)
    BY HeapShape, ZenonT(30) DEF HeapInv
  <2>2. CASE k = r
    <3>1. RowOf(k)' = row
      BY <1>2, <2>2
    <3>2. SlotOK(k)'
      <4>1. /\ Placed(pageDirectory', k) /\ slots'[k].page = PageOf(k)
            /\ slots'[k].offset = OffsetOf(k)
        BY <1>1, <1>5, <2>2
      <4> QED BY <4>1 DEF SlotOK, Placed, PageOf, OffsetOf
    <3> QED BY <2>2, <3>1, <3>2
  <2>3. CASE k # r
    <3>1. slots'[k].live <=> slots[k].live
      BY <2>3
    <3>2. slots[k].live => RowOf(k)' = RowOf(k)
      BY <1>2, <1>3, <2>1, <2>3 DEF RowIds
    <3>3. SlotOK(k)'
      <4>1. \/ /\ Placed(pageDirectory', k)
               /\ slots'[k].page = PageOf(k) /\ slots'[k].offset = OffsetOf(k)
            \/ slots'[k].page = 0 /\ ~ slots'[k].live
        BY <1>5, <2>1, <3>1 DEF SlotOK
      <4> QED BY <4>1 DEF SlotOK, Placed, PageOf, OffsetOf
    <3> QED BY <2>1, <3>1, <3>2, <3>3
  <2> QED BY <2>2, <2>3
<1>8. HeapInv'
  BY <1>6, <1>7 DEF HeapInv, SlotRecords, DirInv, Pages
<1>9. ASSUME NEW k \in RowIds
      PROVE  Value(k)' = IF k = r THEN row ELSE Value(k)
  <2>1. Value(k)' = IF k \in DOMAIN slots' /\ slots'[k].live THEN RowOf(k)' ELSE NoRow
    BY DEF Value, Live
  <2>2. Value(k) = IF k \in DOMAIN slots /\ slots[k].live THEN RowOf(k) ELSE NoRow
    BY DEF Value, Live
  <2>3. CASE k = r
    <3>1. Value(k)' = IF row \in Rows THEN RowOf(k)' ELSE NoRow
      BY <2>1, <2>3
    <3>2. RowOf(k)' = row
      BY <1>2, <2>3
    <3> QED BY <2>3, <3>1, <3>2
  <2>4. CASE k # r /\ k \in DOMAIN slots
    <3>1. slots'[k].live <=> slots[k].live
      BY <2>4
    <3>2. slots[k].live => RowOf(k)' = RowOf(k)
      BY <1>2, <2>4, HeapShape DEF RowIds
    <3> QED BY <2>1, <2>2, <2>4, <3>1, <3>2
  <2>5. CASE k # r /\ k \notin DOMAIN slots
    BY <2>1, <2>2, <2>5
  <2> QED BY <2>3, <2>4, <2>5
<1>10. PageOf(r) \in DOMAIN pageDirectory
  BY <1>1 DEF Placed
<1>11. Changed(r, row)
  <2>1. DOMAIN pageDirectory' = DOMAIN pageDirectory \cup {PageOf(r)}
    BY <1>2, <1>10, ZenonT(30)
  <2>2. Len(slots) <= Len(slots')
    BY <1>3
  <2> QED BY <1>2, <1>9, <2>1, <2>2 DEF Changed
<1>12. ASSUME Whole, NEW k \in DOMAIN slots
       PROVE  /\ Placed(pageDirectory', k)
              /\ slots'[k].page = PageOf(k) /\ slots'[k].offset = OffsetOf(k)
              /\ ~ slots'[k].live => RowOf(k)' = NoRow
  <2>1. /\ Placed(pageDirectory, k) /\ slots[k].page = PageOf(k)
        /\ slots[k].offset = OffsetOf(k) /\ (~ slots[k].live => RowOf(k) = NoRow)
    BY <1>12 DEF Whole
  <2>2. /\ Placed(pageDirectory', k)
        /\ slots'[k].page = PageOf(k) /\ slots'[k].offset = OffsetOf(k)
    BY <1>5, <2>1
  <2>3. CASE k = r
    <3>1. RowOf(k)' = row
      BY <1>2, <2>3
    <3> QED BY <2>2, <2>3, <3>1
  <2>4. CASE k # r
    <3>1. RowOf(k)' = RowOf(k)
      BY <1>2, <1>3, <2>1, <2>4 DEF RowIds
    <3>2. slots'[k].live <=> slots[k].live
      BY <2>4
    <3> QED BY <2>1, <2>2, <3>1, <3>2
  <2> QED BY <2>3, <2>4
<1>13. Whole => Whole'
  BY <1>12, PrimedWhole
<1> QED
  BY <1>8, <1>11, <1>13

LEMMA SlotSwitched ==
  ASSUME HeapInv, NEW r \in DOMAIN slots, NEW b \in BOOLEAN,
         slots' = [slots EXCEPT ![r].live = b]
  PROVE  /\ slots' \in Seq(SlotRecords) /\ DOMAIN slots' = DOMAIN slots
         /\ \A k \in DOMAIN slots :
              /\ slots'[k].page = slots[k].page /\ slots'[k].offset = slots[k].offset
              /\ slots'[k].live = IF k = r THEN b ELSE slots[k].live
<1>1. /\ Len(slots) \in Nat /\ DOMAIN slots = 1..Len(slots)
      /\ slots \in [1..Len(slots) -> SlotRecords]
  BY HeapShape, LenProperties, ZenonT(30) DEF HeapInv, SlotRecords
<1>2. \A k \in DOMAIN slots : slots'[k] = IF k = r THEN [slots[k] EXCEPT !.live = b] ELSE slots[k]
  BY <1>1
<1>3. slots' \in [1..Len(slots) -> SlotRecords]
  BY <1>1 DEF SlotRecords
<1>4. slots' \in Seq(SlotRecords)
  BY <1>1, <1>3, FunctionIsSeq
<1> QED
  BY <1>1, <1>2, <1>3, <1>4 DEF SlotRecords

LEMMA EraseHeap ==
  ASSUME HeapInv, NEW r, Erase(r)
  PROVE  HeapInv' /\ Changed(r, NoRow) /\ r \in DOMAIN slots /\ (Whole => Whole')
<1>1. /\ r \in DOMAIN slots /\ slots[r].live /\ HasPosition(r) /\ StoreRow(r, NoRow)
      /\ slots' = [slots EXCEPT ![r].live = FALSE] /\ freeList' = Append(freeList, r)
  BY DEF Erase, Live
<1>2. /\ slots' \in Seq(SlotRecords) /\ DOMAIN slots' = DOMAIN slots
      /\ \A k \in DOMAIN slots :
           /\ slots'[k].page = slots[k].page /\ slots'[k].offset = slots[k].offset
           /\ slots'[k].live = IF k = r THEN FALSE ELSE slots[k].live
  BY <1>1, SlotSwitched, Zenon
<1>3. /\ freeList' \in Seq(DOMAIN slots) /\ IsInjective(freeList')
      /\ Range(freeList') = Range(freeList) \cup {r}
  <2>1. freeList \in Seq(DOMAIN slots) /\ IsInjective(freeList) /\ r \notin Range(freeList)
    BY <1>1 DEF HeapInv
  <2> QED BY <1>1, <2>1, AppendFacts
<1>4. Range(freeList') = {k \in DOMAIN slots : ~ slots'[k].live}
  BY <1>1, <1>2, <1>3 DEF HeapInv
<1>5. \A k \in DOMAIN slots : slots'[k].live <=> IF k = r THEN NoRow \in Rows ELSE slots[k].live
  BY <1>2, RowsAssumption, Zenon
<1> QED
  BY <1>1, <1>2, <1>3, <1>4, <1>5, StoreHeap, Zenon

LEMMA UpdateHeap ==
  ASSUME HeapInv, NEW r, NEW row \in Rows, Update(r, row)
  PROVE  HeapInv' /\ Changed(r, row) /\ r \in DOMAIN slots /\ (Whole => Whole')
<1>1. /\ r \in DOMAIN slots /\ slots[r].live /\ HasPosition(r) /\ StoreRow(r, row)
      /\ slots' = slots /\ freeList' = freeList
  BY DEF Update, Live
<1>2. slots' \in Seq(SlotRecords)
  BY <1>1 DEF HeapInv, SlotRecords
<1>3. \A k \in DOMAIN slots : slots'[k].live <=> IF k = r THEN row \in Rows ELSE slots[k].live
  BY <1>1
<1>4. /\ freeList' \in Seq(DOMAIN slots) /\ IsInjective(freeList')
      /\ Range(freeList') = {k \in DOMAIN slots : ~ slots'[k].live}
  BY <1>1 DEF HeapInv
<1> QED
  BY <1>1, <1>2, <1>3, <1>4, StoreHeap

LEMMA ReviveHeap ==
  ASSUME HeapInv, NEW r, NEW row \in Rows, Revive(r, row)
  PROVE  HeapInv' /\ Changed(r, row) /\ r \in DOMAIN slots /\ (Whole => Whole')
<1>1. /\ r \in DOMAIN slots /\ r \in Range(freeList) /\ HasPosition(r) /\ StoreRow(r, row)
      /\ slots' = [slots EXCEPT ![r].live = TRUE]
      /\ freeList' = EraseAt(freeList, Find(freeList, r))
  BY DEF Revive
<1>2. /\ slots' \in Seq(SlotRecords) /\ DOMAIN slots' = DOMAIN slots
      /\ \A k \in DOMAIN slots :
           /\ slots'[k].page = slots[k].page /\ slots'[k].offset = slots[k].offset
           /\ slots'[k].live = IF k = r THEN TRUE ELSE slots[k].live
  BY <1>1, SlotSwitched, Zenon
<1>3. /\ freeList' \in Seq(DOMAIN slots) /\ IsInjective(freeList')
      /\ Range(freeList') = Range(freeList) \ {r}
  <2>1. freeList \in Seq(DOMAIN slots) /\ IsInjective(freeList)
    BY DEF HeapInv
  <2> QED BY <1>1, <2>1, FindErased
<1>4. Range(freeList') = {k \in DOMAIN slots : ~ slots'[k].live}
  BY <1>1, <1>2, <1>3 DEF HeapInv
<1>5. \A k \in DOMAIN slots : slots'[k].live <=> IF k = r THEN row \in Rows ELSE slots[k].live
  BY <1>2, ZenonT(30)
<1> QED
  BY <1>1, <1>2, <1>3, <1>4, <1>5, StoreHeap, Zenon

LEMMA AppendReuseHeap ==
  ASSUME HeapInv, NEW row \in Rows, AppendReuse(row)
  PROVE  /\ HeapInv' /\ Changed(Back(freeList), row)
         /\ Back(freeList) \in DOMAIN slots /\ ~ Live(Back(freeList)) /\ (Whole => Whole')
<1> DEFINE r == Back(freeList)
<1>1. /\ freeList # <<>> /\ HasPosition(r) /\ StoreRow(r, row)
      /\ slots' = [slots EXCEPT ![r].live = TRUE] /\ freeList' = PopBack(freeList)
  BY DEF AppendReuse
<1>2. /\ freeList' \in Seq(DOMAIN slots) /\ IsInjective(freeList')
      /\ r \in Range(freeList) /\ Range(freeList') = Range(freeList) \ {r}
  <2>1. freeList \in Seq(DOMAIN slots) /\ IsInjective(freeList)
    BY DEF HeapInv
  <2> QED BY <1>1, <2>1, PopBackFacts
<1> HIDE DEF r
<1>3. r \in DOMAIN slots /\ ~ slots[r].live
  BY <1>2 DEF HeapInv
<1>4. /\ slots' \in Seq(SlotRecords) /\ DOMAIN slots' = DOMAIN slots
      /\ \A k \in DOMAIN slots :
           /\ slots'[k].page = slots[k].page /\ slots'[k].offset = slots[k].offset
           /\ slots'[k].live = IF k = r THEN TRUE ELSE slots[k].live
  BY <1>1, <1>3, SlotSwitched, Zenon
<1>5. Range(freeList') = {k \in DOMAIN slots : ~ slots'[k].live}
  BY <1>2, <1>3, <1>4, Zenon DEF HeapInv
<1>6. \A k \in DOMAIN slots : slots'[k].live <=> IF k = r THEN row \in Rows ELSE slots[k].live
  BY <1>4, Zenon
<1>7. HeapInv' /\ Changed(r, row) /\ (Whole => Whole')
  BY <1>1, <1>2, <1>3, <1>4, <1>5, <1>6, StoreHeap, ZenonT(30)
<1> QED
  BY <1>3, <1>7 DEF r, Live

(* Without free slots every row id has its cell.                           *)
LEMMA AllLive ==
  ASSUME HeapInv, freeList = <<>>
  PROVE  SlotInv /\ PageInv /\ \A r \in DOMAIN slots : slots[r].live
<1>1. \A r \in DOMAIN slots : slots[r].live
  <2>1. Range(freeList) = {}
    BY DEF Range
  <2> QED BY <2>1 DEF HeapInv
<1>2. SlotInv
  BY <1>1 DEF HeapInv, SlotInv, SlotOK
<1>3. Len(slots) \in Nat /\ DOMAIN slots = 1..Len(slots) /\ DirInv(pageDirectory, Len(slots))
  BY HeapShape DEF HeapInv
<1>4. \A r \in 1..Len(slots) : Placed(pageDirectory, r)
  BY <1>1, <1>3, HeapShape
<1>5. PageInv
  <2>1. /\ DOMAIN pageDirectory = {PageOf(r) : r \in 1..Len(slots)}
        /\ \A p \in DOMAIN pageDirectory :
             /\ pageDirectory[p] \in Pages
             /\ DOMAIN pageDirectory[p] =
                  {o \in 1..RowsPerPage : (p - 1) * RowsPerPage + o \in 1..Len(slots)}
    BY <1>3, <1>4, AllPlaced, ZenonT(30)
  <2> QED BY <1>3, <2>1 DEF PageInv
<1> QED
  BY <1>1, <1>2, <1>5

LEMMA AppendNewHeap ==
  ASSUME HeapInv, freeList = <<>>, NEW row \in Rows, AppendNew(row)
  PROVE  HeapInv' /\ Changed(Len(slots) + 1, row) /\ Whole'
<1> DEFINE n == Len(slots)
           r == n + 1
<1>1. SlotInv /\ PageInv /\ \A k \in DOMAIN slots : slots[k].live
  BY AllLive
<1>2. /\ SlotInv' /\ PageInv'
      /\ dirtyPages' = dirtyPages \cup {PageOf(r)}
      /\ DOMAIN pageDirectory' = DOMAIN pageDirectory \cup {PageOf(r)}
      /\ \A p \in DOMAIN pageDirectory : p # PageOf(r) => pageDirectory'[p] = pageDirectory[p]
      /\ Len(slots') = r /\ slots'[r].live
      /\ \A k \in DOMAIN slots : slots'[k] = slots[k] /\ RowOf(k)' = RowOf(k)
      /\ \A k : k = r => RowOf(k)' = row
  BY <1>1, AppendNewFacts, ZenonT(30)
<1>3. n \in Nat /\ DOMAIN slots = 1..n /\ freeList' = <<>>
  BY HeapShape DEF AppendNew
<1>4. slots' \in Seq(SlotRecords) /\ DOMAIN slots' = 1..r
  BY <1>2, LenProperties DEF SlotInv, SlotRecords
<1>5. \A k \in 1..r : k = r \/ k \in DOMAIN slots
  BY <1>3
<1> HIDE DEF r, n
<1>6. r \in Nat /\ n <= r /\ r \notin DOMAIN slots /\ r \in 1..r
  BY <1>3 DEF r
<1>7. DirInv(pageDirectory', r) /\ \A k \in 1..r : Placed(pageDirectory', k)
  <2>1. /\ DOMAIN pageDirectory' = {PageOf(k) : k \in 1..r}
        /\ \A p \in DOMAIN pageDirectory' :
             /\ pageDirectory'[p] \in Pages
             /\ DOMAIN pageDirectory'[p] =
                  {o \in 1..RowsPerPage : (p - 1) * RowsPerPage + o \in 1..r}
    BY <1>2, <1>4 DEF PageInv, PageOf, Pages
  <2> QED BY <1>6, <2>1, AllPlaced, Zenon
<1>8. \A k \in 1..r : slots'[k].live /\ RowOf(k)' \in Rows
  <2>1. \A k \in DOMAIN slots : RowOf(k) \in Rows
    BY <1>1 DEF HeapInv
  <2> QED BY <1>1, <1>2, <1>5, <2>1
<1>9. \A k \in 1..r : slots'[k].page = PageOf(k) /\ slots'[k].offset = OffsetOf(k)
  BY <1>2, <1>4, ZenonT(30) DEF SlotInv, PageOf, OffsetOf
<1>10. HeapInv'
  <2>1. /\ freeList' \in Seq(DOMAIN slots') /\ IsInjective(freeList')
        /\ Range(freeList') = {k \in DOMAIN slots' : ~ slots'[k].live}
    <3>1. <<>> \in Seq(DOMAIN slots') /\ IsInjective(<<>>) /\ Range(<<>>) = {}
      BY DEF IsInjective, Range
    <3> QED BY <1>3, <1>4, <1>8, <3>1
  <2>2. DirInv(pageDirectory', Len(slots'))
    BY <1>2, <1>7
  <2>3. \A k \in 1..r : SlotOK(k)'
    BY <1>7, <1>9 DEF SlotOK, Placed, PageOf, OffsetOf
  <2> QED BY <1>4, <1>8, <2>1, <2>2, <2>3 DEF HeapInv, SlotRecords, DirInv, Pages
<1>11. ASSUME NEW k \in RowIds
       PROVE  Value(k)' = IF k = r THEN row ELSE Value(k)
  <2>1. Value(k)' = IF k \in DOMAIN slots' /\ slots'[k].live THEN RowOf(k)' ELSE NoRow
    BY DEF Value, Live
  <2>2. Value(k) = IF k \in DOMAIN slots /\ slots[k].live THEN RowOf(k) ELSE NoRow
    BY DEF Value, Live
  <2>3. CASE k = r
    BY <1>2, <1>4, <1>6, <2>1, <2>3
  <2>4. CASE k \in DOMAIN slots
    <3>1. k \in DOMAIN slots' /\ k # r
      BY <1>3, <1>4, <1>6, <2>4
    <3> QED BY <1>1, <1>2, <2>1, <2>2, <2>4, <3>1
  <2>5. CASE k # r /\ k \notin DOMAIN slots
    BY <1>4, <1>5, <2>1, <2>2, <2>5
  <2> QED BY <2>3, <2>4, <2>5
<1>12. Len(slots) <= Len(slots')
  BY <1>2, <1>6 DEF n
<1>13. Changed(r, row)
  BY <1>2, <1>4, <1>5, <1>11, <1>12 DEF Changed
<1>14. Whole'
  BY <1>4, <1>7, <1>8, <1>9, PrimedWhole
<1> QED
  BY <1>10, <1>13, <1>14 DEF r, n

=============================================================================
