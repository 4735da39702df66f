----------------------------- MODULE IndexManager -----------------------------
(***************************************************************************)
(* The indexes of a table (IndexManager): every index is kept twice, in a  *)
(* hash index for equality and in a B+ tree for ranges.  A statement adds  *)
(* or removes rows in both; with a log each statement captures an image of *)
(* what it changed (the hash index ships its dirty buckets, or everything  *)
(* after a rebuild; the B+ tree ships all its pages), and the images of a  *)
(* committed transaction are installed in the copy recovery builds.        *)
(*                                                                         *)
(* The table holds the rows in heap.  A row is its row id and its key is   *)
(* KeyOf: an update is a row that leaves and another that comes.           *)
(***************************************************************************)
EXTENDS BTree, FiniteSets, TLC

CONSTANTS KeyOf,      \* the key of every row id
          Workloads,
          MaxImages   \* bound on the images of one transaction

RowIds == 1..Len(KeyOf)
Keys == {KeyOf[r] : r \in RowIds}

ASSUME KeyOfAssumption == KeyOf \in Seq(Nat \ {0})

(* A workload: the rows it uses, the operations it calls and whether the   *)
(* database has a log.                                                     *)
ASSUME WorkloadsAssumption ==
  \A w \in Workloads : /\ w.rows \subseteq RowIds
                       /\ w.operations \subseteq {"insert", "erase", "remove", "rollback"}
                       /\ w.logs \in BOOLEAN

ASSUME MaxImagesAssumption == MaxImages \in Nat \ {0}

VARIABLES workload,
          heap,       \* the rows of the table
          committed,  \* the rows of the table when the transaction began
          hash,       \* the hash index: entries by key, dirty keys, full-replace mark
          tree,       \* the B+ tree
          images,     \* the images the open transaction has captured
          copy        \* the hash index and the B+ tree rebuilt from committed images

vars == <<workload, heap, committed, hash, tree, images, copy>>

-----------------------------------------------------------------------------
(* The hash index.                                                         *)

EmptyHash == [entries |-> <<>>, dirty |-> {}, full |-> FALSE]

HashFind(h, key) == IF key \in DOMAIN h.entries THEN h.entries[key] ELSE <<>>

HashInsert(h, key, rowId) ==
  [h EXCEPT !.entries = (key :> Append(HashFind(h, key), rowId)) @@ @,
            !.dirty = @ \cup {key}]

HashRemove(h, key, rowId) ==
  LET left == SelectSeq(HashFind(h, key), LAMBDA r : r # rowId)
      others == Restrict(h.entries, DOMAIN h.entries \ {key})
  IN  IF key \notin DOMAIN h.entries THEN h
      ELSE [h EXCEPT !.entries = IF left = <<>> THEN others ELSE (key :> left) @@ others,
                     !.dirty = @ \cup {key}]

(* Mutant: a cleared index is not marked for a full replacement.           *)
HashClearUnmarked(h) == [entries |-> <<>>, dirty |-> {}, full |-> FALSE]

HashClear(h) == [entries |-> <<>>, dirty |-> {}, full |-> TRUE]

ClearDirty(h) == [h EXCEPT !.dirty = {}, !.full = FALSE]

TakeDirtyBuckets(h) ==
  [replaceAll |-> h.full,
   buckets |-> IF h.full THEN h.entries ELSE [k \in h.dirty |-> HashFind(h, k)]]

ApplyDirtyBuckets(h, image) ==
  IF image.replaceAll THEN ClearDirty([h EXCEPT !.entries = image.buckets])
  ELSE LET changed == image.buckets @@ h.entries
       IN  ClearDirty([h EXCEPT !.entries =
                         Restrict(changed, {k \in DOMAIN changed : changed[k] # <<>>})])

-----------------------------------------------------------------------------
(* Both indexes.                                                           *)

(* The rows added in row id order to cleared indexes.                      *)
InRowIdOrder(rows) == SelectSeq([r \in RowIds |-> r], LAMBDA r : r \in rows)

RebuildHash(h, rows) ==
  FoldLeft(LAMBDA acc, r : HashInsert(acc, KeyOf[r], r), HashClear(h), InRowIdOrder(rows))

RebuildTree(rows) ==
  FoldLeft(LAMBDA acc, r : TreeInsert(acc, KeyOf[r], r), EmptyTree, InRowIdOrder(rows))

(* The end of a statement: its images are taken and the marks cleared.     *)
Capture(h, t) ==
  /\ Len(images) < MaxImages
  /\ hash' = ClearDirty(h)
  /\ tree' = t
  /\ images' = IF workload.logs
               THEN Append(images, [hash |-> TakeDirtyBuckets(h), tree |-> t]) ELSE images
  /\ UNCHANGED <<workload, committed, copy>>

InsertRow(r) ==
  /\ "insert" \in workload.operations
  /\ r \in workload.rows \ heap
  /\ heap' = heap \cup {r}
  /\ Capture(HashInsert(ClearDirty(hash), KeyOf[r], r), TreeInsert(tree, KeyOf[r], r))

(* Table::erase rebuilds every index of the table.                         *)
EraseRow(r) ==
  /\ "erase" \in workload.operations
  /\ r \in heap
  /\ heap' = heap \ {r}
  /\ Capture(RebuildHash(ClearDirty(hash), heap'), RebuildTree(heap'))

(* The indexes' own removal of one row id.                                 *)
RemoveRow(r) ==
  /\ "remove" \in workload.operations
  /\ r \in heap
  /\ heap' = heap \ {r}
  /\ Capture(HashRemove(ClearDirty(hash), KeyOf[r], r), TreeRemove(tree, KeyOf[r], r))

(* Recovery installs the images of the committed transaction in order.     *)
Commit ==
  /\ images # <<>>
  /\ committed' = heap
  /\ copy' = [hash |-> FoldLeft(LAMBDA h, i : ApplyDirtyBuckets(h, i.hash), copy.hash, images),
              tree |-> Last(images).tree]
  /\ images' = <<>>
  /\ UNCHANGED <<workload, heap, hash, tree>>

(* Undo restores the rows and rebuilds the indexes; the images are dropped.*)
Rollback ==
  /\ "rollback" \in workload.operations
  /\ images # <<>>
  /\ heap' = committed
  /\ hash' = RebuildHash(hash, committed)
  /\ tree' = RebuildTree(committed)
  /\ images' = <<>>
  /\ UNCHANGED <<workload, committed, copy>>

Init ==
  /\ workload \in Workloads
  /\ heap = {} /\ committed = {}
  /\ hash = EmptyHash /\ tree = EmptyTree
  /\ images = <<>>
  /\ copy = [hash |-> EmptyHash, tree |-> EmptyTree]

Next ==
  \/ \E r \in RowIds : InsertRow(r) \/ EraseRow(r) \/ RemoveRow(r)
  \/ Commit
  \/ Rollback

Spec == Init /\ [][Next]_vars

-----------------------------------------------------------------------------
(* Properties.                                                             *)

(* Splits, borrowings and merges never lose, duplicate or misplace an      *)
(* entry.  For keys inside and beyond the range of the index, find returns *)
(* the rows of the key, as the hash index does; lessThan and greaterThan,  *)
(* which walk the chain of leaves, return the rows of the smaller and of   *)
(* the greater keys in key order; size counts the keys of the rows.        *)
Listing(ks) ==
  FlattenSeq([i \in 1..Max(Keys) |-> IF i \in ks THEN HashFind(hash, i) ELSE <<>>])

LookupsAgree ==
  /\ \A k \in 0..(Max(Keys) + 1) :
       /\ Find(tree, k) = HashFind(hash, k)
       /\ ToSet(Find(tree, k)) = {r \in heap : KeyOf[r] = k}
       /\ LessThan(tree, k) = Listing(1..(k - 1))
       /\ GreaterThan(tree, k) = Listing((k + 1)..Max(Keys))
  /\ Len(Listing(Keys)) = Cardinality(heap)
  /\ tree.count = Cardinality({KeyOf[r] : r \in heap})

(* All leaves are at one depth, every page but the root is at least half   *)
(* full and none is over capacity, an inner page has one child more than   *)
(* keys, and the chain of leaves lists the keys in increasing order.       *)
Depth(k) == Len(PathToLeaf(tree, k))

Balanced ==
  LET keys == KeysAlong(tree, LeafChain(tree, LeftmostLeaf(tree, tree.root)))
  IN  /\ \A j, k \in Keys : Depth(j) = Depth(k)
      /\ \A p \in DOMAIN tree.nodes :
           LET node == tree.nodes[p]
           IN  /\ Len(node.keys) <= MaxKeys
               /\ p # tree.root => Len(node.keys) >= MinKeys
               /\ ~node.leaf => /\ node.keys # <<>>
                                /\ Len(node.children) = Len(node.keys) + 1
      /\ \A i \in 1..(Len(keys) - 1) : keys[i] < keys[i + 1]

(* Every page id ever handed out is either a page of the tree, reachable   *)
(* once from the root, or on the free stack once: none leaks and none is   *)
(* in use twice.                                                           *)
ChildRefs ==
  {c \in (DOMAIN tree.nodes) \X (1..(MaxKeys + 1)) : c[2] \in DOMAIN tree.nodes[c[1]].children}

PagesAccounted ==
  /\ DOMAIN tree.nodes \cup ToSet(tree.free) = 1..(tree.next - 1)
  /\ DOMAIN tree.nodes \cap ToSet(tree.free) = {}
  /\ IsInjective(tree.free)
  /\ {tree.root} \cup {tree.nodes[c[1]].children[c[2]] : c \in ChildRefs} = DOMAIN tree.nodes
  /\ Cardinality(ChildRefs) = Cardinality(DOMAIN tree.nodes) - 1

(* Between transactions the indexes rebuilt from the committed images hold *)
(* exactly the rows of the table, though an insert ships only the bucket   *)
(* it changed and rollbacks rebuild the indexes without shipping anything. *)
CopyIsCurrent ==
  workload.logs /\ images = <<>> =>
    \A k \in Keys :
      LET rows == {r \in heap : KeyOf[r] = k}
      IN  /\ ToSet(HashFind(copy.hash, k)) = rows
          /\ ToSet(Find(copy.tree, k)) = rows
          /\ Len(HashFind(copy.hash, k)) = Cardinality(rows)

=============================================================================
