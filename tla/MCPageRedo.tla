----------------------------- MODULE MCPageRedo -----------------------------
(* Model-checking instance of PageRedo.                                   *)
EXTENDS PageRedo

CONSTANTS x, y

TwoRows == {x, y}

=============================================================================
