--------------------------- MODULE MCRecomputeChain ---------------------------
(* Two selections: the one a result was made of, and another.                *)
EXTENDS RecomputeChain

CONSTANTS v1, v2

TwoSelections == {v1, v2}
================================================================================
