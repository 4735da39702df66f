-------------------------------- MODULE BTree --------------------------------
(***************************************************************************)
(* The B+ tree of an ordered index (BTreeIndex).  A tree is a record: the  *)
(* pages by page id, the stack of freed page ids, the root, the next fresh *)
(* page id and the key count.  A leaf holds keys, the row ids of each key  *)
(* and the next leaf; an inner page holds keys and one child more.         *)
(* Positions count from 1 here and from 0 in the code.                     *)
(***************************************************************************)
EXTENDS Integers, Sequences, SequencesExt, FiniteSetsExt, Functions

CONSTANT MaxKeys

ASSUME MaxKeysAssumption == MaxKeys \in Nat \ {0, 1}

NoPage == 0

Leaf(keys, rowIds, next) ==
  [leaf |-> TRUE, keys |-> keys, rowIds |-> rowIds, children |-> <<>>, next |-> next]

Inner(keys, children) ==
  [leaf |-> FALSE, keys |-> keys, rowIds |-> <<>>, children |-> children, next |-> NoPage]

EmptyTree ==
  [nodes |-> 1 :> Leaf(<<>>, <<>>, NoPage), free |-> <<>>, root |-> 1, next |-> 2, count |-> 0]

MinKeys == MaxKeys \div 2

-----------------------------------------------------------------------------
(* Searching.                                                              *)

LowerBoundKey(keys, key) ==
  Min({i \in DOMAIN keys : ~(keys[i] < key)} \cup {Len(keys) + 1})

ChildIndex(node, key) ==
  Min({i \in DOMAIN node.keys : key < node.keys[i]} \cup {Len(node.keys) + 1})

RECURSIVE PathFrom(_, _, _)
PathFrom(t, page, key) ==
  LET node == t.nodes[page]
  IN  IF node.leaf THEN <<page>>
      ELSE <<page>> \o PathFrom(t, node.children[ChildIndex(node, key)], key)

PathToLeaf(t, key) == PathFrom(t, t.root, key)

RECURSIVE LeftmostLeaf(_, _)
LeftmostLeaf(t, page) ==
  IF t.nodes[page].leaf THEN page ELSE LeftmostLeaf(t, Head(t.nodes[page].children))

RECURSIVE LeafChain(_, _)
LeafChain(t, page) ==
  IF page = NoPage THEN <<>> ELSE <<page>> \o LeafChain(t, t.nodes[page].next)

Find(t, key) ==
  LET leaf == t.nodes[Last(PathToLeaf(t, key))]
      i == LowerBoundKey(leaf.keys, key)
  IN  IF i <= Len(leaf.keys) /\ leaf.keys[i] = key THEN leaf.rowIds[i] ELSE <<>>

KeysAlong(t, chain) == FlattenSeq([i \in DOMAIN chain |-> t.nodes[chain[i]].keys])
RowIdsAlong(t, chain) == FlattenSeq([i \in DOMAIN chain |-> t.nodes[chain[i]].rowIds])

(* The row ids up to the first key that is not smaller.                    *)
LessThan(t, key) ==
  LET chain == LeafChain(t, LeftmostLeaf(t, t.root))
  IN  FlattenSeq(SubSeq(RowIdsAlong(t, chain), 1,
                        LowerBoundKey(KeysAlong(t, chain), key) - 1))

(* From the leaf of the key: the row ids from the first greater key on.    *)
GreaterThan(t, key) ==
  LET chain == LeafChain(t, Last(PathToLeaf(t, key)))
      keys == KeysAlong(t, chain)
      first == Min({i \in DOMAIN keys : key < keys[i]} \cup {Len(keys) + 1})
  IN  FlattenSeq(SubSeq(RowIdsAlong(t, chain), first, Len(keys)))

-----------------------------------------------------------------------------
(* Pages.                                                                  *)

NewPage(t) == IF t.free # <<>> THEN Last(t.free) ELSE t.next

AllocatePage(t, node) ==
  [t EXCEPT !.nodes = (NewPage(t) :> node) @@ @,
            !.free = IF @ # <<>> THEN Front(@) ELSE @,
            !.next = IF t.free # <<>> THEN @ ELSE @ + 1]

FreePage(t, page) ==
  [t EXCEPT !.nodes = Restrict(@, DOMAIN @ \ {page}), !.free = Append(@, page)]

-----------------------------------------------------------------------------
(* Insertion: splits climb the path from the leaf.                         *)

RECURSIVE InsertSeparator(_, _, _, _)

SplitInternal(t, path) ==
  LET left == t.nodes[Last(path)]
      mid == Len(left.keys) \div 2
      right == Inner(SubSeq(left.keys, mid + 2, Len(left.keys)),
                     SubSeq(left.children, mid + 2, Len(left.children)))
      split == [AllocatePage(t, right) EXCEPT
                  !.nodes[Last(path)] = Inner(SubSeq(left.keys, 1, mid),
                                              SubSeq(left.children, 1, mid + 1))]
  IN  InsertSeparator(split, Front(path), left.keys[mid + 1], NewPage(t))

InsertSeparator(t, path, separator, rightChild) ==
  IF path = <<>>
  THEN [AllocatePage(t, Inner(<<separator>>, <<t.root, rightChild>>)) EXCEPT !.root = NewPage(t)]
  ELSE LET i == ChildIndex(t.nodes[Last(path)], separator)
           grown == [t EXCEPT !.nodes[Last(path)].keys = InsertAt(@, i, separator),
                              !.nodes[Last(path)].children = InsertAt(@, i + 1, rightChild)]
       IN  IF Len(grown.nodes[Last(path)].keys) > MaxKeys
           THEN SplitInternal(grown, path) ELSE grown

SplitLeaf(t, path) ==
  LET left == t.nodes[Last(path)]
      mid == Len(left.keys) \div 2
      right == Leaf(SubSeq(left.keys, mid + 1, Len(left.keys)),
                    SubSeq(left.rowIds, mid + 1, Len(left.rowIds)), left.next)
      split == [AllocatePage(t, right) EXCEPT
                  !.nodes[Last(path)] = Leaf(SubSeq(left.keys, 1, mid),
                                             SubSeq(left.rowIds, 1, mid), NewPage(t))]
  IN  InsertSeparator(split, Front(path), Head(right.keys), NewPage(t))

InsertIntoLeaf(t, path, key, rowId) ==
  LET leaf == Last(path)
      i == LowerBoundKey(t.nodes[leaf].keys, key)
      grown == [t EXCEPT !.nodes[leaf].keys = InsertAt(@, i, key),
                         !.nodes[leaf].rowIds = InsertAt(@, i, <<rowId>>),
                         !.count = @ + 1]
  IN  IF i <= Len(t.nodes[leaf].keys) /\ t.nodes[leaf].keys[i] = key
      THEN [t EXCEPT !.nodes[leaf].rowIds[i] = Append(@, rowId)]
      ELSE IF Len(grown.nodes[leaf].keys) > MaxKeys THEN SplitLeaf(grown, path) ELSE grown

TreeInsert(t, key, rowId) == InsertIntoLeaf(t, PathToLeaf(t, key), key, rowId)

-----------------------------------------------------------------------------
(* Removal: an underfull page borrows from a sibling or merges with one,   *)
(* and merges climb the path.                                              *)

UpdateSeparator(t, parent, child, separator) ==
  IF child = 1 \/ child - 1 > Len(t.nodes[parent].keys) THEN t
  ELSE [t EXCEPT !.nodes[parent].keys[child - 1] = separator]

BorrowFromLeftLeaf(t, parent, child) ==
  LET children == t.nodes[parent].children
      left == t.nodes[children[child - 1]]
  IN  [t EXCEPT !.nodes[children[child]].keys = <<Last(left.keys)>> \o @,
                !.nodes[children[child]].rowIds = <<Last(left.rowIds)>> \o @,
                !.nodes[children[child - 1]].keys = Front(@),
                !.nodes[children[child - 1]].rowIds = Front(@),
                !.nodes[parent].keys[child - 1] = Last(left.keys)]

(* Mutant: the separator in the parent is left as it was.                  *)
BorrowFromRightLeafOnly(t, parent, child) ==
  LET children == t.nodes[parent].children
      right == t.nodes[children[child + 1]]
  IN  [t EXCEPT !.nodes[children[child]].keys = Append(@, Head(right.keys)),
                !.nodes[children[child]].rowIds = Append(@, Head(right.rowIds)),
                !.nodes[children[child + 1]].keys = Tail(@),
                !.nodes[children[child + 1]].rowIds = Tail(@)]

BorrowFromRightLeaf(t, parent, child) ==
  LET children == t.nodes[parent].children
      right == t.nodes[children[child + 1]]
  IN  [t EXCEPT !.nodes[children[child]].keys = Append(@, Head(right.keys)),
                !.nodes[children[child]].rowIds = Append(@, Head(right.rowIds)),
                !.nodes[children[child + 1]].keys = Tail(@),
                !.nodes[children[child + 1]].rowIds = Tail(@),
                !.nodes[parent].keys[child] = right.keys[2]]

BorrowFromLeftInternal(t, parent, child) ==
  LET children == t.nodes[parent].children
      left == t.nodes[children[child - 1]]
  IN  [t EXCEPT !.nodes[children[child]].keys = <<t.nodes[parent].keys[child - 1]>> \o @,
                !.nodes[children[child]].children = <<Last(left.children)>> \o @,
                !.nodes[parent].keys[child - 1] = Last(left.keys),
                !.nodes[children[child - 1]].keys = Front(@),
                !.nodes[children[child - 1]].children = Front(@)]

BorrowFromRightInternal(t, parent, child) ==
  LET children == t.nodes[parent].children
      right == t.nodes[children[child + 1]]
  IN  [t EXCEPT !.nodes[children[child]].keys = Append(@, t.nodes[parent].keys[child]),
                !.nodes[children[child]].children = Append(@, Head(right.children)),
                !.nodes[parent].keys[child] = Head(right.keys),
                !.nodes[children[child + 1]].keys = Tail(@),
                !.nodes[children[child + 1]].children = Tail(@)]

MergeLeaves(t, parent, leftChild) ==
  LET children == t.nodes[parent].children
      right == t.nodes[children[leftChild + 1]]
  IN  FreePage([t EXCEPT !.nodes[children[leftChild]].keys = @ \o right.keys,
                         !.nodes[children[leftChild]].rowIds = @ \o right.rowIds,
                         !.nodes[children[leftChild]].next = right.next,
                         !.nodes[parent].keys = RemoveAt(@, leftChild),
                         !.nodes[parent].children = RemoveAt(@, leftChild + 1)],
               children[leftChild + 1])

(* Mutant: the separator is not pulled down into the merged page.          *)
MergeInternalsDropsSeparator(t, parent, leftChild) ==
  LET children == t.nodes[parent].children
      right == t.nodes[children[leftChild + 1]]
  IN  FreePage([t EXCEPT !.nodes[children[leftChild]].keys = @ \o right.keys,
                         !.nodes[children[leftChild]].children = @ \o right.children,
                         !.nodes[parent].keys = RemoveAt(@, leftChild),
                         !.nodes[parent].children = RemoveAt(@, leftChild + 1)],
               children[leftChild + 1])

MergeInternals(t, parent, leftChild) ==
  LET children == t.nodes[parent].children
      right == t.nodes[children[leftChild + 1]]
      separator == t.nodes[parent].keys[leftChild]
  IN  FreePage([t EXCEPT !.nodes[children[leftChild]].keys = Append(@, separator) \o right.keys,
                         !.nodes[children[leftChild]].children = @ \o right.children,
                         !.nodes[parent].keys = RemoveAt(@, leftChild),
                         !.nodes[parent].children = RemoveAt(@, leftChild + 1)],
               children[leftChild + 1])

(* Mutant: the old root is not freed.                                      *)
CollapseRootLeaks(t) ==
  LET root == t.nodes[t.root]
  IN  IF root.leaf \/ Len(root.children) # 1 THEN t
      ELSE [t EXCEPT !.root = Head(root.children)]

CollapseRootIfNeeded(t) ==
  LET root == t.nodes[t.root]
  IN  IF root.leaf \/ Len(root.children) # 1 THEN t
      ELSE [FreePage(t, t.root) EXCEPT !.root = Head(root.children)]

RECURSIVE Rebalance(_, _)
Rebalance(t, path) ==
  IF Len(path) <= 1 \/ Len(t.nodes[Last(path)].keys) >= MinKeys THEN t
  ELSE
    LET parent == Last(Front(path))
        children == t.nodes[parent].children
        i == CHOOSE j \in DOMAIN children : children[j] = Last(path)
        isLeaf == t.nodes[Last(path)].leaf
        CanLend(j) == j \in DOMAIN children /\ Len(t.nodes[children[j]].keys) > MinKeys
        leftChild == IF i > 1 THEN i - 1 ELSE i
        merged == IF isLeaf THEN MergeLeaves(t, parent, leftChild)
                            ELSE MergeInternals(t, parent, leftChild)
    IN  CASE CanLend(i - 1) -> IF isLeaf THEN BorrowFromLeftLeaf(t, parent, i)
                                         ELSE BorrowFromLeftInternal(t, parent, i)
          [] ~CanLend(i - 1) /\ CanLend(i + 1) ->
               IF isLeaf THEN BorrowFromRightLeaf(t, parent, i)
                         ELSE BorrowFromRightInternal(t, parent, i)
          [] OTHER -> Rebalance(merged, Front(path))

RebalanceAfterDelete(t, path) == CollapseRootIfNeeded(Rebalance(t, path))

RemoveFromLeaf(t, path, key, rowId) ==
  LET leaf == Last(path)
      i == LowerBoundKey(t.nodes[leaf].keys, key)
      found == i <= Len(t.nodes[leaf].keys) /\ t.nodes[leaf].keys[i] = key
      erased == [t EXCEPT !.nodes[leaf].rowIds[i] = SelectSeq(@, LAMBDA r : r # rowId)]
      shrunk == [t EXCEPT !.nodes[leaf].keys = RemoveAt(@, i),
                          !.nodes[leaf].rowIds = RemoveAt(@, i),
                          !.count = @ - 1]
      keys == shrunk.nodes[leaf].keys
      parent == Last(Front(path))
      refreshed == IF i = 1 /\ keys # <<>>
                   THEN UpdateSeparator(shrunk, parent, ChildIndex(t.nodes[parent], key), Head(keys))
                   ELSE shrunk
  IN  CASE ~found -> t
        [] found /\ erased.nodes[leaf].rowIds[i] # <<>> -> erased
        [] found /\ erased.nodes[leaf].rowIds[i] = <<>> /\ Len(path) = 1 -> shrunk
        [] OTHER -> IF Len(keys) < MinKeys THEN RebalanceAfterDelete(refreshed, path)
                                           ELSE refreshed

TreeRemove(t, key, rowId) == RemoveFromLeaf(t, PathToLeaf(t, key), key, rowId)

=============================================================================
