--------------------------- MODULE MCSimpleIndex ---------------------------
(***************************************************************************)
(* Small instance of SimpleIndex for TLC.                                  *)
(***************************************************************************)
EXTENDS SimpleIndex, TLC

CONSTANTS r1, r2, f1, v1, v2

Symmetry == Permutations({r1, r2})
=============================================================================
