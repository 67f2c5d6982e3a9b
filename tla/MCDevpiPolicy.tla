---------------------------- MODULE MCDevpiPolicy ----------------------------
(***************************************************************************)
(* The constants of DevpiPolicy's TLC runs.                                *)
(***************************************************************************)
EXTENDS DevpiPolicy, TLC

CONSTANTS t1, t2, v1, v2, f1, f2

Symmetry == Permutations({t1, t2})

MCVersionOf == (f1 :> v1) @@ (f2 :> v2)

Config(only, all, minAge, osv) ==
  [only |-> only, all |-> all, minAge |-> minAge, osv |-> osv]

\* A minimum age and OSV; one version is allowed and nothing else enforced; the
\* project is not listed where everything else is denied.
MCConfigs == {Config(None, FALSE, 1, TRUE), Config({v1}, TRUE, 0, FALSE),
              Config(None, TRUE, 1, TRUE)}
=============================================================================
