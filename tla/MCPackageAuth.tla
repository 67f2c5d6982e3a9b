--------------------------- MODULE MCPackageAuth ---------------------------
(***************************************************************************)
(* Small instance of PackageAuth for TLC.                                  *)
(***************************************************************************)
EXTENDS PackageAuth, TLC

CONSTANTS r1, r2

Symmetry == Permutations({r1, r2})
=============================================================================
