-------------------------- MODULE MCPolicyCompiler --------------------------
(***************************************************************************)
(* The rules of small policies for TLC.                                    *)
(***************************************************************************)
EXTENDS PolicyCompiler, TLC

Package(ecosystem, action, n, versions) ==
  [ecosystem |-> ecosystem, action |-> action, name |-> n,
   namespace |-> None, versions |-> versions]
Scope(ecosystem, action, s) ==
  [ecosystem |-> ecosystem, action |-> action, name |-> None,
   namespace |-> s, versions |-> None]

MCNpmNames == {"@evil/lib", "left-pad"}
MCPypiNames == {"urllib3"}
MCNamespace == ("@evil/lib" :> "@evil") @@ ("left-pad" :> None)

\* 1 and 1.0 are the same version; 0 is the kill sentinel's.
MCReleases == {<<0>>, <<0, 0>>, <<1>>, <<1, 1>>, <<2>>, <<3>>}

MCNpmRules ==
  UNION {{Package("npm", "deny", n, None),
          Package("npm", "deny", n, Expr("<", <<2>>)),
          Package("npm", "deny", n, Expr(">=", <<2>>)),
          Package("npm", "allow", n, None),
          Package("npm", "allow", n, Expr("==", <<1>>)),
          Package("npm", "allow", n, Expr("==", <<2>>))} : n \in MCNpmNames}
  \cup {Scope("npm", "deny", "@evil"), Scope("npm", "allow", "@evil"),
        Package("npm", "allow", "left-pad", Expr(">", <<1>>))}

MCPypiRules ==
  {Package("pypi", "deny", "urllib3", Expr(op, v)) :
     op \in {"<", "<=", ">", ">=", "=="}, v \in {<<1>>, <<1, 0>>, <<2>>}}
  \cup {Package("pypi", "deny", "urllib3", None),
        Package("pypi", "deny", "urllib3", Expr("~=", <<2>>)),
        Package("pypi", "allow", "urllib3", None),
        Package("pypi", "allow", "urllib3", Expr("==", <<1>>)),
        Package("pypi", "allow", "urllib3", Expr("==", <<1, 0>>)),
        Package("pypi", "allow", "urllib3", Expr("==", <<2>>)),
        Package("pypi", "allow", "urllib3", Expr("<", <<2>>)),
        Scope("pypi", "deny", "@evil")}

MCRules == MCNpmRules \cup MCPypiRules
=============================================================================
