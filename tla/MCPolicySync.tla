--------------------------- MODULE MCPolicySync ---------------------------
(***************************************************************************)
(* Small instances of PolicySync for TLC.                                  *)
(***************************************************************************)
EXTENDS PolicySync

\* Versions 1 and 3 differ in their npm rules only; devpi refuses the text of
\* version 2.
MCPypiText == <<1, 2, 1>>
MCRefusedTexts == {2}

\* Every version has a text of its own and devpi takes all of them.
MCPypiTextDistinct == <<1, 2>>
=============================================================================
