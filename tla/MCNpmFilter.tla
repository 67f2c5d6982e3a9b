----------------------------- MODULE MCNpmFilter -----------------------------
(***************************************************************************)
(* The constants of NpmFilter's TLC run.                                   *)
(***************************************************************************)
EXTENDS NpmFilter, TLC

CONSTANTS r1, r2, v1, v2

Symmetry == Permutations({r1, r2})

\* A minimum age, a range besides, no usable policy.
MCPolicies == {[blocked |-> FALSE, ranges |-> {}, minAge |-> 1],
               [blocked |-> FALSE, ranges |-> {v2}, minAge |-> 1],
               [blocked |-> TRUE, ranges |-> {}, minAge |-> 0]}
=============================================================================
