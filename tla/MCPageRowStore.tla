--------------------------- MODULE MCPageRowStore ---------------------------
(* Model-checking instance of PageRowStore.                                *)
EXTENDS PageRowStore, TLC

CONSTANTS x, y

TwoRows == {x, y}
RowSymmetry == Permutations(TwoRows)

=============================================================================
