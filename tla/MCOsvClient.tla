---------------------------- MODULE MCOsvClient ----------------------------
(***************************************************************************)
(* Small instances of OsvClient for TLC.                                   *)
(***************************************************************************)
EXTENDS OsvClient, TLC

CONSTANTS t1, t2, t3, p1, p2

Symmetry == Permutations({t1, t2, t3})
=============================================================================
