--------------------------- MODULE LastKnownGood ---------------------------
(***************************************************************************)
(* What policy-sync promises to whoever polls its endpoints: each endpoint *)
(* serves nothing or a policy that compiled, moves to newer ones only, and *)
(* loses ground only in a restart - the parsed policy not even then, when  *)
(* it has a file.  A broken or missing policy.toml is published like any   *)
(* other version, and never served.                                        *)
(***************************************************************************)
EXTENDS Integers, Sequences

CONSTANTS
  MaxVersions,  \* bound: how many values the policy repository ever has
  Kinds,        \* how a version is received; "valid" is one of them
  Endpoint,     \* the endpoints, "upstream" and "npm" among them
  Durable       \* the endpoints that keep their policy through a restart

VARIABLES
  history,  \* the kind of every version published so far
  served    \* the version each endpoint serves; 0 is none

vars == <<history, served>>

Good(v) == v \in 1..Len(history) /\ history[v] = "valid"

\* The quarantine age travels in the upstream policy and must not trail.
Leads(s) == s["npm"] <= s["upstream"]

Init ==
  /\ history = <<>>
  /\ served = [p \in Endpoint |-> 0]

Publish ==
  /\ Len(history) < MaxVersions
  /\ \E kind \in Kinds : history' = Append(history, kind)
  /\ UNCHANGED served

Adopt(p) ==
  /\ \E v \in served[p]..Len(history) :
       Good(v) /\ served' = [served EXCEPT ![p] = v]
  /\ Leads(served')
  /\ UNCHANGED history

Restart ==
  /\ served' \in [Endpoint -> 0..Len(history)]
  /\ \A p \in Endpoint :
       /\ served'[p] = 0 \/ Good(served'[p])
       /\ IF p \in Durable THEN served'[p] >= served[p]
                           ELSE served'[p] <= served[p]
  /\ Leads(served')
  /\ UNCHANGED history

Next == Publish \/ (\E p \in Endpoint : Adopt(p)) \/ Restart

Spec == Init /\ [][Next]_vars
=============================================================================
