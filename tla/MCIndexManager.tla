--------------------------- MODULE MCIndexManager ---------------------------
(* Model-checking instance of IndexManager with pages of two keys.  Seven  *)
(* keys make a tree of three levels in which inner pages split, borrow and *)
(* merge; two rows share a key.                                            *)
EXTENDS IndexManager

SevenKeys == <<1, 2, 3, 4, 5, 6, 7, 3>>

Grows == [rows |-> 1..8, operations |-> {"insert", "remove"}, logs |-> FALSE]
Ships == [rows |-> {2, 3, 8}, operations |-> {"insert", "erase", "remove", "rollback"},
          logs |-> TRUE]
GrowsAndShips == {Grows, Ships}

(* Page ids only name pages: trees with the same pages under other ids     *)
(* behave alike, so a state is told apart by the tree's nesting, the chain *)
(* of its leaves and the numbers of pages in use, free and handed out.     *)
(* (Comparing the tree with itself makes TLC normalise the pages, which    *)
(* states share, before another worker reads them.)                        *)
RECURSIVE Nesting(_, _)
Nesting(t, page) ==
  LET node == t.nodes[page]
  IN  <<node.keys, node.rowIds, [i \in DOMAIN node.children |-> Nesting(t, node.children[i])]>>

Shape(t) == <<Nesting(t, t.root), KeysAlong(t, LeafChain(t, LeftmostLeaf(t, t.root))),
              Cardinality(DOMAIN t.nodes), Len(t.free), t.next, t.count>>

StateView == <<workload, heap, committed, hash, Shape(tree), tree = tree, images, copy>>

=============================================================================
