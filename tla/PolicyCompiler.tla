--------------------------- MODULE PolicyCompiler ---------------------------
(***************************************************************************)
(* compile_policy: how the allow and deny rules of policy.toml become what *)
(* the two engines enforce - Verdaccio's block list and devpi's list of    *)
(* allowed versions - and how the engines read it back.                    *)
(*                                                                         *)
(* A rule's version expression is one comparator, [op, v]; the PEP 440     *)
(* forms that no single comparator inverts are the operator "~=".          *)
(* Versions are plain releases: sequences of naturals.  Names are already  *)
(* normalised and expressions well-formed; the reasons are left out.       *)
(*                                                                         *)
(* The state machine's names begin with Compiler, so that a module can     *)
(* extend this one beside PolicySync, the other part of the same program.  *)
(***************************************************************************)
EXTENDS Integers, Sequences, SequencesExt, FiniteSets

CONSTANTS
  None,
  Rules,      \* the rules an author may write
  MaxRules,   \* bound: the rules of one policy
  Namespace,  \* Namespace[n]: the @scope of an npm name, or None
  NpmNames, PypiNames,
  Releases    \* the versions that are asked for

Ops == {"<", "<=", ">", ">=", "==", "!="}

ASSUME RulesAssumption == \A r \in Rules :
  /\ r.ecosystem \in {"npm", "pypi"} /\ r.action \in {"allow", "deny"}
  /\ (r.name = None) # (r.namespace = None)
  /\ r.name # None =>
       r.name \in IF r.ecosystem = "npm" THEN NpmNames ELSE PypiNames
  /\ r.versions # None =>
       /\ r.name # None
       /\ r.versions \in [op : Ops \cup {"~="}, v : Seq(Nat)]
       /\ r.ecosystem = "npm" => r.versions.op # "~="
ASSUME NamesAssumption ==
  /\ DOMAIN Namespace = NpmNames /\ None \notin NpmNames \cup PypiNames
  /\ MaxRules \in Nat

VARIABLES
  rules,     \* the rules of policy.toml
  defaults,  \* defaults.action of each ecosystem
  emitted    \* what compiling them emits, or Rejected (a PolicyError)

compilerVars == <<rules, defaults, emitted>>

-----------------------------------------------------------------------------
(* Versions *)

At(v, i) == IF i <= Len(v) THEN v[i] ELSE 0
Places(v, w) == 1..(IF Len(v) > Len(w) THEN Len(v) ELSE Len(w))

\* The order of PEP 440 and, for npm, of semver: 1 and 1.0 are the same.
Same(v, w) == \A i \in Places(v, w) : At(v, i) = At(w, i)
Before(v, w) ==
  \E i \in Places(v, w) :
    /\ At(v, i) < At(w, i)
    /\ \A j \in 1..(i - 1) : At(v, j) = At(w, j)

\* The order of Python's tuples, in which (1,) comes before (1, 0).
TupleBefore(v, w) ==
  \/ IsStrictPrefix(v, w)
  \/ \E i \in DOMAIN v \cap DOMAIN w :
       /\ v[i] < w[i]
       /\ \A j \in 1..(i - 1) : v[j] = w[j]

Satisfies(x, e) ==
  \/ e.op = "<" /\ Before(x, e.v)
  \/ e.op = "<=" /\ ~Before(e.v, x)
  \/ e.op = ">" /\ Before(e.v, x)
  \/ e.op = ">=" /\ ~Before(x, e.v)
  \/ e.op = "==" /\ Same(x, e.v)
  \/ e.op = "!=" /\ ~Same(x, e.v)

Expr(op, v) == [op |-> op, v |-> v]

-----------------------------------------------------------------------------
(* _classify: the buckets of one ecosystem *)

Of(R, ecosystem, action) ==
  {r \in R : r.ecosystem = ecosystem /\ r.action = action}

Namespaces(R, ecosystem, action) ==
  {r.namespace : r \in Of(R, ecosystem, action)} \ {None}
Wholes(R, ecosystem, action) ==
  {r.name : r \in {q \in Of(R, ecosystem, action) : q.versions = None}}
    \ {None}
Ranges(R, ecosystem, action, n) ==
  {r.versions : r \in {q \in Of(R, ecosystem, action) : q.name = n}} \ {None}

ExactAllows(R, ecosystem, n) ==
  {e.v : e \in Ranges(R, ecosystem, "allow", n)}

\* Mutants: the other ecosystem's rules are not skipped, and a whole-package
\* allow leaves the range denies in place.
WholeDeniesOfAll(R, ecosystem) ==
  (Wholes(R, "npm", "deny") \cup Wholes(R, "pypi", "deny"))
    \ Wholes(R, ecosystem, "allow")
RangeDeniesKept(R, ecosystem, n) == Ranges(R, ecosystem, "deny", n)

\* What both emitters start from: a whole-package allow drops the denies.
WholeDenies(R, ecosystem) ==
  Wholes(R, ecosystem, "deny") \ Wholes(R, ecosystem, "allow")
RangeDenies(R, ecosystem, n) ==
  IF n \in Wholes(R, ecosystem, "allow") THEN {}
  ELSE Ranges(R, ecosystem, "deny", n)

ClassifyFails(R) ==
  \/ Namespaces(R, "pypi", "allow") \cup Namespaces(R, "pypi", "deny") # {}
  \/ \E r \in R : r.action = "allow" /\ r.versions # None
                                     /\ r.versions.op # "=="

\* An exact allow against a range deny.
RangeCarving(R, ecosystem, n) ==
  ExactAllows(R, ecosystem, n) # {} /\ RangeDenies(R, ecosystem, n) # {}

-----------------------------------------------------------------------------
(* npm: _resolve_npm, _emit_npm *)

Scopes(R) == Namespaces(R, "npm", "deny") \ Namespaces(R, "npm", "allow")

CoveredByScope(R, n) == Namespace[n] \in Scopes(R)

NpmFails(R, default) ==
  \/ default = "deny"
  \/ \E n \in Wholes(R, "npm", "allow") :
       /\ n \notin Wholes(R, "npm", "deny")
       /\ Ranges(R, "npm", "deny", n) = {}
       /\ CoveredByScope(R, n)
  \/ \E n \in NpmNames : RangeCarving(R, "npm", n)

\* Mutant of NpmRanges: an exact allow lifts the whole deny.
NpmRangesLifted(R, n) == RangeDenies(R, "npm", n)

\* An exact allow v makes a whole-package deny the range "<v || >v".
NpmRanges(R, n) ==
  RangeDenies(R, "npm", n)
    \cup (IF n \in WholeDenies(R, "npm")
          THEN {Expr("!=", v) : v \in ExactAllows(R, "npm", n)} ELSE {})

EmitNpm(R) ==
  [scopes |-> Scopes(R),
   names |-> {n \in WholeDenies(R, "npm") : ExactAllows(R, "npm", n) = {}},
   ranges |-> [n \in NpmNames |-> NpmRanges(R, n)]]

\* isNameBlocked or isVersionBlocked, on the compiled YAML.
NpmBlocks(policy, n, x) ==
  \/ n \in policy.names
  \/ Namespace[n] \in policy.scopes
  \/ \E e \in policy.ranges[n] : Satisfies(x, e)

-----------------------------------------------------------------------------
(* pypi: _emit_pypi and its parts *)

ComplementOp == [op \in {"<", "<=", ">", ">=", "=="} |->
  CASE op = "<" -> ">=" [] op = "<=" -> ">" [] op = ">" -> "<="
    [] op = ">=" -> "<" [] op = "==" -> "!="]
Invertible(e) == e.op \in DOMAIN ComplementOp
Complement(e) == Expr(ComplementOp[e.op], e.v)

\* complement_set_is_empty: the greatest lower and the least upper bound, as
\* tuples, cross or touch.  The specs come sorted by the text of their denies,
\* so of two bounds at one version the inclusive one comes first and stays.
ComplementSetIsEmpty(specs) ==
  LET lowers == {e \in specs : e.op \in {">", ">="}}
      uppers == {e \in specs : e.op \in {"<", "<="}}
      lower == {e \in lowers : ~\E f \in lowers : TupleBefore(e.v, f.v)}
      upper == {e \in uppers : ~\E f \in uppers : TupleBefore(f.v, e.v)}
      Inclusive(bounds) == \E e \in bounds : e.op \in {">=", "<="}
  IN /\ \A e \in specs : e.op # "!="
     /\ \E lo \in lower, up \in upper :
          \/ TupleBefore(up.v, lo.v)
          \/ lo.v = up.v /\ ~(Inclusive(lower) /\ Inclusive(upper))

Complements(R, n) == {Complement(e) : e \in RangeDenies(R, "pypi", n)}

\* Mutant of ExactNames: also beside a whole-package allow.
ExactNamesBesideWhole(R, default) ==
  {n \in PypiNames :
     /\ ExactAllows(R, "pypi", n) # {}
     /\ n \in WholeDenies(R, "pypi") \/ default = "deny"}

\* The names an exact allow is emitted for.
ExactNames(R, default) ==
  {n \in PypiNames \ Wholes(R, "pypi", "allow") :
     /\ ExactAllows(R, "pypi", n) # {}
     /\ n \in WholeDenies(R, "pypi") \/ default = "deny"}

PypiFails(R, default) ==
  \E n \in PypiNames :
    \/ RangeCarving(R, "pypi", n)
    \/ /\ n \in ExactNames(R, default)
       /\ Cardinality(ExactAllows(R, "pypi", n)) > 1
    \/ /\ default = "allow"
       /\ \/ \E e \in RangeDenies(R, "pypi", n) : ~Invertible(e)
          \/ ComplementSetIsEmpty(Complements(R, n))

\* One line of constraints: the versions of a project that satisfy all specs.
Line(n, specs) == [name |-> n, specs |-> specs]

\* Mutant of EmitPypiRanges: complements under default-deny too, where they
\* read as allows.
EmitPypiRangesAlways(R, default) ==
  {Line(n, Complements(R, n)) :
     n \in {m \in PypiNames : /\ RangeDenies(R, "pypi", m) # {}
                              /\ \A e \in RangeDenies(R, "pypi", m) :
                                   Invertible(e)}}

EmitPypiRanges(R, default) ==
  IF default = "deny" THEN {}
  ELSE {Line(n, Complements(R, n)) :
          n \in {m \in PypiNames : RangeDenies(R, "pypi", m) # {}}}

\* The kill sentinel "==0".
EmitPypiWholes(R, default) ==
  IF default = "deny" THEN {}
  ELSE {Line(n, {Expr("==", <<0>>)}) :
          n \in {m \in WholeDenies(R, "pypi") :
                   ExactAllows(R, "pypi", m) = {}}}

\* Mutant of EmitPypiAllows: no bare names above the star.
EmitPypiExactAllows(R, default) ==
  {Line(n, {Expr("==", v) : v \in ExactAllows(R, "pypi", n)}) :
     n \in ExactNames(R, default)}

EmitPypiAllows(R, default) ==
  {Line(n, {Expr("==", v) : v \in ExactAllows(R, "pypi", n)}) :
     n \in ExactNames(R, default)}
  \cup (IF default = "deny"
        THEN {Line(n, {}) : n \in Wholes(R, "pypi", "allow")} ELSE {})

EmitPypi(R, default) ==
  [lines |-> EmitPypiRanges(R, default) \cup EmitPypiWholes(R, default)
               \cup EmitPypiAllows(R, default),
   star |-> default = "deny"]

\* parse_constraints in devpi's validate_config: a project has one line.
DevpiAccepts(text) ==
  \A k, l \in text.lines : k.name = l.name => k = l

\* _version_matches_filter: no line for the project, or a version that its
\* line lets through.
DevpiBlocks(text, n, x) ==
  LET own == {l \in text.lines : l.name = n}
  IN IF own = {} THEN text.star
     ELSE \E l \in own : \E e \in l.specs : ~Satisfies(x, e)

-----------------------------------------------------------------------------
(* compile_policy *)

Rejected == [ok |-> FALSE]

Compile(R, D) ==
  IF ClassifyFails(R) \/ NpmFails(R, D["npm"]) \/ PypiFails(R, D["pypi"])
  THEN Rejected
  ELSE [ok |-> TRUE, npm |-> EmitNpm(R), pypi |-> EmitPypi(R, D["pypi"])]

Defaults == [{"npm", "pypi"} -> {"allow", "deny"}]
CompilerTypeOK ==
  /\ rules \subseteq Rules /\ defaults \in Defaults
  /\ emitted # Rejected =>
       /\ emitted.npm.names \subseteq NpmNames
       /\ emitted.npm.ranges \in [NpmNames -> SUBSET [op : Ops, v : Seq(Nat)]]
       /\ \A l \in emitted.pypi.lines :
            l.name \in PypiNames /\ l.specs \subseteq [op : Ops, v : Seq(Nat)]

CompilerInit ==
  /\ rules = {}
  /\ defaults \in Defaults
  /\ emitted = Compile(rules, defaults)

\* A commit adds a rule, and the worker compiles the result.
AddRule(r) ==
  /\ r \notin rules /\ Cardinality(rules) < MaxRules
  /\ rules' = rules \cup {r}
  /\ emitted' = Compile(rules', defaults)
  /\ UNCHANGED defaults

\* A commit drops a rule, or its expiry date passes.
DropRule(r) ==
  /\ r \in rules
  /\ rules' = rules \ {r}
  /\ emitted' = Compile(rules', defaults)
  /\ UNCHANGED defaults

CompilerNext == \E r \in Rules : AddRule(r) \/ DropRule(r)

CompilerSpec == CompilerInit /\ [][CompilerNext]_compilerVars

-----------------------------------------------------------------------------
(* Properties *)

\* The documented verdict, rule by rule: an allow of the package or of exactly
\* this version wins, then any deny that matches, then the default.
Allows(r, n, x) ==
  /\ r.action = "allow" /\ r.name = n
  /\ r.versions = None \/ Satisfies(x, r.versions)
Denies(r, scope, n, x) ==
  /\ r.action = "deny"
  /\ IF r.name = None THEN r.namespace = scope
     ELSE r.name = n /\ (r.versions = None \/ Satisfies(x, r.versions))
Blocked(ecosystem, scope, n, x) ==
  LET own == {r \in rules : r.ecosystem = ecosystem}
      allowed == \E r \in own : Allows(r, n, x)
      scopeAllowed == \E r \in own : r.action = "allow" /\ r.name = None
                                                        /\ r.namespace = scope
      denied == \E r \in own : Denies(r, scope, n, x)
                                 /\ (r.name = None => ~scopeAllowed)
  IN ~allowed /\ (denied \/ defaults[ecosystem] = "deny")

Compiled == emitted # Rejected
PypiEnforced == Compiled /\ DevpiAccepts(emitted.pypi)

\* A version that the rules deny is blocked by the engine of its ecosystem,
\* whatever rules, defaults and complements were combined on the way.  The
\* exception is version 0 of a PyPI package denied whole, however it is
\* written, which the sentinel "==0" lets through.
DeniesHold ==
  /\ Compiled => \A n \in NpmNames, x \in Releases :
       Blocked("npm", Namespace[n], n, x) => NpmBlocks(emitted.npm, n, x)
  /\ PypiEnforced => \A n \in PypiNames, x \in Releases :
       Blocked("pypi", None, n, x) /\ ~Same(x, <<0>>) =>
         DevpiBlocks(emitted.pypi, n, x)

\* A version that the rules do not deny, or that an allow names, passes.  The
\* exceptions are npm packages with several exact allows, which block each
\* other, and allows inside a denied scope: most of those are errors, others do
\* nothing.
AllowsHold ==
  /\ Compiled => \A n \in NpmNames, x \in Releases :
       \/ Blocked("npm", Namespace[n], n, x)
       \/ ~NpmBlocks(emitted.npm, n, x)
       \/ Cardinality(ExactAllows(rules, "npm", n)) > 1
       \/ CoveredByScope(rules, n)
  /\ PypiEnforced => \A n \in PypiNames, x \in Releases :
       Blocked("pypi", None, n, x) \/ ~DevpiBlocks(emitted.pypi, n, x)

\* What the compiler accepts, devpi accepts, so that a policy error shows up in
\* policy-sync and not as a refused PATCH.  The exception is a PyPI package
\* that is denied both whole and by range (WholeAndRange).
DevpiTakesWhatCompiles ==
  Compiled =>
    \/ DevpiAccepts(emitted.pypi)
    \/ \E n \in WholeDenies(rules, "pypi") : RangeDenies(rules, "pypi", n) # {}
=============================================================================
