------------------------- MODULE PackageAuthProofs -------------------------
(***************************************************************************)
(* PackageAuth is type-correct, a revocation takes hold, and an outage is  *)
(* no denial, for any number of requests, any TTL and any duration of the  *)
(* calls.                                                                  *)
(***************************************************************************)
EXTENDS PackageAuth, TLAPS

Call == [at : Calls \cup {"idle"}, kind : Kinds,
         answer : {None, "yes", "no", "error"}, wait : 0..MaxLag,
         entitled : BOOLEAN]

\* How old what a request has passed may be, by the call it waits for.
Recent(c) ==
  /\ c.at = "member" /\ c.answer = "yes" => out <= c.wait
  /\ c.at = "scope" => out <= Ttl - 1 + MaxLag + c.wait
  /\ c.at = "file" => out <= Ttl - 1 + 2 * MaxLag + c.wait
  /\ c.at = "p_orgs" /\ c.answer = "yes" => out <= c.wait
  /\ c.at = "p_teams" => out <= MaxLag + c.wait

\* Which way a request came.
Routed(c) ==
  /\ c.at \in Legs => c.kind # "direct"
  /\ c.at \in Lists => c.kind \in {"npm", "direct"}
  /\ c.at = "file" => c.kind = "file"
  /\ c.at = "scope" /\ c.answer = "yes" => scoped
  /\ c.at \in Lists \cup {"file"} /\ c.kind # "direct" => scoped

\* Nobody who is entitled is refused.
Just(c) ==
  /\ c.entitled => Entitled(c.kind)
  /\ c.answer = "no" \/ c.at = "p_outside" => ~c.entitled

CallInv(c) == Recent(c) /\ Routed(c) /\ Just(c)

CacheInv ==
  /\ gate["member"] > 0 => out <= Ttl - gate["member"] + MaxLag
  /\ gate["scope"] > 0 => scoped
  /\ plugin > 0 => out <= Ttl - plugin + 2 * MaxLag

OutInv == Access => out = 0

IInv ==
  /\ TypeOK
  /\ OutInv
  /\ CacheInv
  /\ \A r \in Requests : CallInv(req[r])
  /\ RevocationTakesHold
  /\ OutageIsNotDenial

-----------------------------------------------------------------------------
(* The way of a request *)

\* A request may go on to a step: an answer is right, a call is due.
Due(c, step) ==
  /\ step \in Statuses \cup Calls
  /\ step = "served" => /\ out < Exposure(c.kind)
                        /\ c.kind # "direct" => scoped
  /\ step = "denied" => ~c.entitled
  /\ step \in Calls => CallInv([c EXCEPT !.at = step, !.answer = None,
                                         !.wait = 0])

LEMMA StepsApart == Statuses \cap Calls = {} /\ "idle" \notin Calls
  BY DEF Statuses, Calls, Legs, Lists

\* A request is still one when it goes to its next call.
LEMMA NextCall ==
  ASSUME NEW c \in Call, NEW step \in Calls
  PROVE  [c EXCEPT !.at = step, !.answer = None, !.wait = 0] \in Call
<1>1. 0 \in 0..MaxLag
  BY TimesAssumption
<1> QED
  BY <1>1 DEF Call

LEMMA GoToStep ==
  ASSUME TypeOK, \A r \in Requests : CallInv(req[r]), NEW r \in Requests,
         NEW c \in Call, NEW step, Due(c, step), GoTo(r, c, step),
         UNCHANGED world
  PROVE  /\ req' \in [Requests -> Call]
         /\ reply' = None \/ reply' \in [status : Statuses, kind : Kinds,
                                         entitled : BOOLEAN]
         /\ \A u \in Requests : CallInv(req[u])'
         /\ RevocationTakesHold' /\ OutageIsNotDenial'
<1> USE DEF CallInv, Recent, Routed, Just, Entitled, Access, world
<1>1. req \in [Requests -> Call] /\ None \notin {"yes", "no", "error"}
  BY NoneAssumption DEF TypeOK, Call
<1>2. CASE step \in Statuses
  <2>1. /\ req' = [req EXCEPT ![r] = Idle]
        /\ reply' = [status |-> step, kind |-> c.kind,
                     entitled |-> c.entitled]
    BY <1>2 DEF GoTo
  <2>2. Idle \in Call
    BY TimesAssumption DEF Idle, Call, Kinds
  <2>3. req' \in [Requests -> Call]
    BY <1>1, <2>1, <2>2
  <2>4. \A u \in Requests : CallInv(req[u])'
    <3> SUFFICES ASSUME NEW u \in Requests PROVE CallInv(req[u])'
      OBVIOUS
    <3>1. CASE u = r
      <4>1. req'[u] = Idle
        BY <1>1, <2>1, <3>1
      <4> QED
        BY <1>1, <4>1 DEF Idle, Legs, Lists
    <3>2. CASE u # r
      <4>1. req'[u] = req[u]
        BY <1>1, <2>1, <3>2
      <4> QED
        BY <4>1
    <3> QED
      BY <3>1, <3>2
  <2>5. RevocationTakesHold' /\ OutageIsNotDenial'
    <3>1. /\ reply'.status = step /\ reply'.kind = c.kind
          /\ reply'.entitled = c.entitled
          /\ out' = out /\ scoped' = scoped
      BY <2>1
    <3>2. /\ step = "served" => /\ out < Exposure(c.kind)
                                /\ c.kind # "direct" => scoped
          /\ step = "denied" => ~c.entitled
      BY DEF Due
    <3> QED
      BY <3>1, <3>2 DEF RevocationTakesHold, OutageIsNotDenial
  <2>6. c.kind \in Kinds /\ c.entitled \in BOOLEAN
    BY DEF Call
  <2>7. [status |-> step, kind |-> c.kind, entitled |-> c.entitled]
          \in [status : Statuses, kind : Kinds, entitled : BOOLEAN]
    BY <1>2, <2>6
  <2> QED
    BY <2>1, <2>3, <2>4, <2>5, <2>7
<1>3. CASE step \in Calls
  <2> DEFINE next == [c EXCEPT !.at = step, !.answer = None, !.wait = 0]
  <2>1. req' = [req EXCEPT ![r] = next] /\ reply' = None
    BY <1>3, StepsApart DEF GoTo
  <2>2. next \in Call
    BY <1>3, NextCall
  <2>3. req' \in [Requests -> Call]
    BY <1>1, <2>1, <2>2
  <2>4. CallInv(next)
    BY <1>3 DEF Due
  <2>5. \A u \in Requests : CallInv(req[u])'
    <3> SUFFICES ASSUME NEW u \in Requests PROVE CallInv(req[u])'
      OBVIOUS
    <3>1. req'[u] = IF u = r THEN next ELSE req[u]
      BY <1>1, <2>1
    <3>2. CallInv(req'[u])
      BY <2>4, <3>1
    <3> QED
      BY <3>2
  <2> QED
    BY <2>1, <2>3, <2>5 DEF RevocationTakesHold, OutageIsNotDenial
<1> QED
  BY <1>2, <1>3 DEF Due

\* From the plugin backwards to the first leg: whatever a request that has got
\* so far finds in the caches, its next step is due.
LEMMA ToPluginDue ==
  ASSUME TypeOK, CacheInv, NEW c \in Call, Just(c),
         c.kind \in {"npm", "direct"}, c.kind # "direct" => scoped
  PROVE  Due(c, ToPlugin)
<1>1. /\ ToPlugin = "p_user" \/ (ToPlugin = "served" /\ plugin > 0)
      /\ "p_user" \in Calls /\ "served" \in Statuses
  BY DEF ToPlugin, Calls, Lists, Statuses, TypeOK
<1>2. CASE ToPlugin = "p_user"
  BY <1>1, <1>2, NoneAssumption
     DEF Due, CallInv, Recent, Routed, Just, Call, Legs, Lists, Statuses
<1>3. CASE ToPlugin = "served" /\ plugin > 0
  <2>1. out <= Ttl - plugin + 2 * MaxLag /\ plugin \in Nat /\ out \in Nat
    BY <1>3, TimesAssumption DEF CacheInv, TypeOK
  <2>2. Exposure(c.kind) = Ttl + 2 * MaxLag
    BY DEF Exposure
  <2>3. out < Exposure(c.kind)
    BY <1>3, <2>1, <2>2, TimesAssumption
  <2> QED
    BY <1>1, <1>3, <2>3, StepsApart DEF Due
<1> QED
  BY <1>1, <1>2, <1>3

\* What a request that has the gateway's three answers is sure of.
Passed(c) == Just(c) /\ scoped /\ out <= Ttl - 1 + 2 * MaxLag

LEMMA BehindDue ==
  ASSUME TypeOK, CacheInv, NEW c \in Call, Passed(c), c.kind # "direct"
  PROVE  Due(c, Behind(c.kind))
<1>1. CASE c.kind = "npm"
  BY <1>1, ToPluginDue DEF Behind, Passed
<1>2. CASE c.kind = "pypi"
  <2>1. Behind(c.kind) = "served" /\ Exposure(c.kind) = Ttl + 2 * MaxLag
    BY <1>2 DEF Behind, Exposure
  <2>2. out < Exposure(c.kind)
    BY <2>1, TimesAssumption DEF Passed, TypeOK, Horizon, Exposure
  <2> QED
    BY <2>1, <2>2, StepsApart DEF Due, Statuses, Passed
<1>3. CASE c.kind = "file"
  <2>1. Behind(c.kind) = "file" /\ "file" \in Calls
    BY <1>3 DEF Behind, Calls
  <2>2. Recent([c EXCEPT !.at = "file", !.answer = None, !.wait = 0])
    BY TimesAssumption DEF Recent, Passed, Call, TypeOK, Horizon, Exposure
  <2>3. Routed([c EXCEPT !.at = "file", !.answer = None, !.wait = 0])
    BY <1>3 DEF Routed, Passed, Call, Legs, Lists
  <2>4. Just([c EXCEPT !.at = "file", !.answer = None, !.wait = 0])
    BY NoneAssumption DEF Just, Passed, Call
  <2> QED
    BY <2>1, <2>2, <2>3, <2>4 DEF Due, CallInv, Statuses
<1> QED
  BY <1>1, <1>2, <1>3 DEF Call, Kinds

LEMMA ToScopeDue ==
  ASSUME TypeOK, CacheInv, NEW c \in Call, Just(c), c.kind # "direct",
         out <= Ttl - 1 + MaxLag
  PROVE  Due(c, ToScope(c.kind))
<1>1. CASE gate["scope"] > 0
  <2>1. Passed(c)
    BY <1>1, TimesAssumption DEF Passed, CacheInv, TypeOK, Horizon, Exposure
  <2> QED
    BY <1>1, <2>1, BehindDue DEF ToScope
<1>2. CASE ~(gate["scope"] > 0)
  <2>1. ToScope(c.kind) = "scope" /\ "scope" \in Calls
    BY <1>2 DEF ToScope, Calls, Legs
  <2>2. Recent([c EXCEPT !.at = "scope", !.answer = None, !.wait = 0])
    BY TimesAssumption DEF Recent, Call, TypeOK, Horizon, Exposure
  <2>3. /\ Routed([c EXCEPT !.at = "scope", !.answer = None, !.wait = 0])
        /\ Just([c EXCEPT !.at = "scope", !.answer = None, !.wait = 0])
    BY NoneAssumption DEF Routed, Just, Call, Legs, Lists
  <2> QED
    BY <2>1, <2>2, <2>3 DEF Due, CallInv, Statuses
<1> QED
  BY <1>1, <1>2

LEMMA ToMemberDue ==
  ASSUME TypeOK, CacheInv, NEW c \in Call, Just(c), c.kind # "direct"
  PROVE  Due(c, ToMember(c.kind))
<1>1. CASE gate["member"] > 0
  <2>1. gate["member"] \in Nat /\ out \in Nat
    BY TimesAssumption DEF TypeOK, Legs, Horizon, Exposure
  <2>2. out <= Ttl - 1 + MaxLag
    BY <1>1, <2>1, TimesAssumption DEF CacheInv
  <2> QED
    BY <1>1, <2>2, ToScopeDue DEF ToMember
<1>2. CASE ~(gate["member"] > 0)
  <2>1. ToMember(c.kind) = "member" /\ "member" \in Calls
    BY <1>2 DEF ToMember, Calls, Legs
  <2> QED
    BY <2>1, NoneAssumption
       DEF Due, CallInv, Recent, Routed, Just, Call, Legs, Lists, Statuses
<1> QED
  BY <1>1, <1>2

LEMMA ToUserDue ==
  ASSUME TypeOK, CacheInv, NEW c \in Call, Just(c), c.kind # "direct"
  PROVE  Due(c, ToUser(c.kind))
<1>1. CASE gate["user"] > 0
  BY <1>1, ToMemberDue DEF ToUser
<1>2. CASE ~(gate["user"] > 0)
  <2>1. ToUser(c.kind) = "user" /\ "user" \in Calls
    BY <1>2 DEF ToUser, Calls, Legs
  <2> QED
    BY <2>1, NoneAssumption
       DEF Due, CallInv, Recent, Routed, Just, Call, Legs, Lists, Statuses
<1> QED
  BY <1>1, <1>2

\* An answer that is not good ends the request as it should.
LEMMA RefusalDue ==
  ASSUME NEW c \in Call, Just(c), c.answer \in {"no", "error"}
  PROVE  Due(c, Refusal(c.answer))
<1>1. CASE c.answer = "no"
  BY <1>1, StepsApart DEF Due, Refusal, Statuses, Just
<1>2. CASE c.answer = "error"
  BY <1>2, StepsApart DEF Due, Refusal, Statuses
<1> QED
  BY <1>1, <1>2

-----------------------------------------------------------------------------
(* What each step does to the invariant *)

LEMMA InitIInv == Init => IInv
<1> SUFFICES ASSUME Init PROVE IInv
  OBVIOUS
<1> USE DEF Init, Idle
<1>1. TypeOK
  BY TimesAssumption
     DEF TypeOK, Horizon, Exposure, Calls, Kinds, Legs, Lists
<1>2. CacheInv
  BY TimesAssumption DEF CacheInv, Legs
<1>3. \A r \in Requests : CallInv(req[r])
  BY NoneAssumption DEF CallInv, Recent, Routed, Just, Legs, Lists
<1>4. OutInv
  BY DEF OutInv
<1> QED
  BY <1>1, <1>2, <1>3, <1>4 DEF IInv, RevocationTakesHold, OutageIsNotDenial

\* A request that goes on, and the caches as they are or as an answer leaves
\* them.
LEMMA GoToIInv ==
  ASSUME IInv, NEW r \in Requests, NEW c \in Call, NEW step, Due(c, step),
         GoTo(r, c, step), UNCHANGED world, CacheInv',
         gate' \in [Legs -> 0..Ttl], plugin' \in 0..Ttl
  PROVE  IInv'
<1>1. TypeOK /\ \A u \in Requests : CallInv(req[u])
  BY DEF IInv
<1>2. /\ req' \in [Requests -> Call]
      /\ reply' = None \/ reply' \in [status : Statuses, kind : Kinds,
                                      entitled : BOOLEAN]
      /\ \A u \in Requests : CallInv(req[u])'
      /\ RevocationTakesHold' /\ OutageIsNotDenial'
  BY <1>1, GoToStep
<1>3. TypeOK'
  BY <1>1, <1>2 DEF TypeOK, Call, world
<1>4. OutInv'
  BY DEF IInv, OutInv, Access, world
<1> QED
  BY <1>2, <1>3, <1>4 DEF IInv

LEMMA ArriveIInv ==
  ASSUME IInv, NEW r \in Requests, NEW kind \in Kinds, Arrive(r, kind)
  PROVE  IInv'
<1> DEFINE c == [Idle EXCEPT !.kind = kind, !.entitled = Entitled(kind)]
           step == IF kind = "direct" THEN ToPlugin ELSE ToUser(kind)
<1>1. TypeOK /\ CacheInv
  BY DEF IInv
<1>2. Entitled(kind) \in BOOLEAN
  BY <1>1 DEF Entitled, Access, TypeOK
<1>3. c \in Call /\ c.kind = kind
  <2>1. 0 \in 0..MaxLag /\ "idle" \in Calls \cup {"idle"}
    BY TimesAssumption
  <2>2. ASSUME NEW e \in BOOLEAN
        PROVE  /\ [Idle EXCEPT !.kind = kind, !.entitled = e] \in Call
               /\ [Idle EXCEPT !.kind = kind, !.entitled = e].kind = kind
    BY <2>1 DEF Idle, Call
  <2> QED
    BY <1>2, <2>2, Zenon
<1>4. Just(c)
  BY NoneAssumption DEF Just, Idle
<1>5. Due(c, step)
  <2>1. CASE kind = "direct"
    BY <1>1, <1>3, <1>4, <2>1, ToPluginDue
  <2>2. CASE kind # "direct"
    BY <1>1, <1>3, <1>4, <2>2, ToUserDue
  <2> QED
    BY <2>1, <2>2
<1>6. GoTo(r, c, step) /\ UNCHANGED <<world, gate, plugin>>
  BY DEF Arrive
<1>7. CacheInv' /\ gate' \in [Legs -> 0..Ttl] /\ plugin' \in 0..Ttl
  BY <1>1, <1>6 DEF CacheInv, TypeOK, world
<1> QED
  BY <1>3, <1>5, <1>6, <1>7, GoToIInv

LEMMA LegIInv ==
  ASSUME IInv, NEW r \in Requests, Leg(r)
  PROVE  IInv'
<1> DEFINE c == req[r]
<1>1. TypeOK /\ CacheInv /\ CallInv(c) /\ Just(c)
  BY DEF IInv, CallInv
<1>2. /\ c \in Call /\ c.at \in Legs /\ c.kind # "direct"
      /\ c.answer \in {"yes", "no", "error"} /\ c.wait \in 0..MaxLag
  BY <1>1 DEF TypeOK, Call, Leg, CallInv, Routed
<1>3. UNCHANGED <<world, plugin>>
  BY DEF Leg
<1>4. CASE c.answer = "yes"
  <2>1. /\ gate' = [gate EXCEPT ![c.at] = Ttl]
        /\ GoTo(r, c, After(c.at, c.kind))
    BY <1>4 DEF Leg
  <2>2. gate' \in [Legs -> 0..Ttl]
    BY <1>1, <1>2, <2>1, TimesAssumption DEF TypeOK
  <2>3. out \in Nat /\ c.wait \in Nat /\ c.wait <= MaxLag /\ Ttl \in Nat
        /\ MaxLag \in Nat /\ Ttl >= 1
    BY <1>1, <1>2, TimesAssumption DEF TypeOK, Horizon, Exposure
  <2>4. CacheInv'
    <3>1. gate'["member"] > 0 => out <= Ttl - gate'["member"] + MaxLag
      <4>1. CASE c.at = "member"
        <5>1. out <= c.wait
          BY <1>1, <1>4, <4>1 DEF CallInv, Recent
        <5>2. gate'["member"] = Ttl
          BY <1>1, <2>1, <4>1 DEF TypeOK, Legs
        <5> QED
          BY <2>3, <5>1, <5>2
      <4>2. CASE c.at # "member"
        BY <1>1, <2>1, <4>2 DEF TypeOK, Legs, CacheInv
      <4> QED
        BY <4>1, <4>2
    <3>2. gate'["scope"] > 0 => scoped
      <4>1. CASE c.at = "scope"
        BY <1>1, <1>4, <4>1 DEF CallInv, Routed
      <4>2. CASE c.at # "scope"
        BY <1>1, <2>1, <4>2 DEF TypeOK, Legs, CacheInv
      <4> QED
        BY <4>1, <4>2
    <3> QED
      BY <1>1, <1>3, <3>1, <3>2 DEF CacheInv, world
  <2>5. Due(c, After(c.at, c.kind))
    <3>1. CASE c.at = "user"
      BY <1>1, <1>2, <3>1, ToMemberDue DEF After
    <3>2. CASE c.at = "member"
      <4>1. out <= Ttl - 1 + MaxLag
        BY <1>1, <1>4, <2>3, <3>2 DEF CallInv, Recent
      <4> QED
        BY <1>1, <1>2, <3>2, <4>1, ToScopeDue DEF After
    <3>3. CASE c.at = "scope"
      <4>1. out <= Ttl - 1 + 2 * MaxLag
        BY <1>1, <2>3, <3>3 DEF CallInv, Recent
      <4>2. scoped
        BY <1>1, <1>4, <3>3 DEF CallInv, Routed
      <4> QED
        BY <1>1, <1>2, <3>3, <4>1, <4>2, BehindDue DEF After, Passed
    <3> QED
      BY <1>2, <3>1, <3>2, <3>3 DEF Legs
  <2> QED
    BY <1>1, <1>2, <1>3, <2>1, <2>2, <2>4, <2>5, GoToIInv DEF TypeOK
<1>5. CASE c.answer # "yes"
  <2>1. GoTo(r, c, Refusal(c.answer)) /\ UNCHANGED gate
    BY <1>5 DEF Leg
  <2>2. Due(c, Refusal(c.answer))
    BY <1>1, <1>2, <1>5, RefusalDue
  <2>3. CacheInv' /\ gate' \in [Legs -> 0..Ttl] /\ plugin' \in 0..Ttl
    BY <1>1, <1>3, <2>1 DEF CacheInv, TypeOK, world
  <2> QED
    BY <1>2, <1>3, <2>1, <2>2, <2>3, GoToIInv
<1> QED
  BY <1>4, <1>5

LEMMA FileGuardIInv ==
  ASSUME IInv, NEW r \in Requests, FileGuard(r)
  PROVE  IInv'
<1> DEFINE c == req[r]
           step == IF c.answer = "yes" THEN "served" ELSE Refusal(c.answer)
<1>1. TypeOK /\ CacheInv /\ CallInv(c) /\ Just(c)
  BY DEF IInv, CallInv
<1>2. /\ c \in Call /\ c.at = "file" /\ c.kind = "file"
      /\ c.answer \in {"yes", "no", "error"} /\ c.wait \in 0..MaxLag
  BY <1>1 DEF TypeOK, Call, FileGuard, CallInv, Routed
<1>3. GoTo(r, c, step) /\ UNCHANGED <<world, gate, plugin>>
  BY DEF FileGuard
<1>4. Due(c, step)
  <2>1. CASE c.answer = "yes"
    <3>1. out <= Ttl - 1 + 2 * MaxLag + c.wait /\ scoped
      BY <1>1, <1>2 DEF CallInv, Recent, Routed, Lists
    <3>2. Exposure(c.kind) = Ttl + 3 * MaxLag /\ out \in Nat
      BY <1>1, <1>2, TimesAssumption DEF Exposure, TypeOK, Horizon
    <3>3. out < Exposure(c.kind)
      BY <1>2, <3>1, <3>2, TimesAssumption
    <3> QED
      BY <2>1, <3>1, <3>3, StepsApart DEF Due, Statuses
  <2>2. CASE c.answer # "yes"
    BY <1>1, <1>2, <2>2, RefusalDue
  <2> QED
    BY <2>1, <2>2
<1>5. CacheInv' /\ gate' \in [Legs -> 0..Ttl] /\ plugin' \in 0..Ttl
  BY <1>1, <1>3 DEF CacheInv, TypeOK, world
<1> QED
  BY <1>2, <1>3, <1>4, <1>5, GoToIInv

LEMMA PluginIInv ==
  ASSUME IInv, NEW r \in Requests,
         PluginGoesOn(r) \/ PluginFails(r) \/ PluginRejects(r)
         \/ PluginAccepts(r)
  PROVE  IInv'
<1> DEFINE c == req[r]
<1>1. TypeOK /\ CacheInv /\ CallInv(c) /\ Just(c)
  BY DEF IInv, CallInv
<1>2. /\ c \in Call /\ c.at \in Lists /\ c.kind \in {"npm", "direct"}
      /\ c.answer \in {"yes", "no", "error"} /\ c.wait \in 0..MaxLag
      /\ c.kind # "direct" => scoped
  BY <1>1 DEF TypeOK, Call, PluginGoesOn, PluginFails, PluginRejects,
              PluginAccepts, CallInv, Routed, Lists
<1>3. UNCHANGED <<world, gate>>
  BY DEF PluginGoesOn, PluginFails, PluginRejects, PluginAccepts
<1>4. out \in Nat /\ c.wait \in Nat /\ c.wait <= MaxLag /\ Ttl \in Nat
      /\ MaxLag \in Nat /\ Ttl >= 1
  BY <1>1, <1>2, TimesAssumption DEF TypeOK, Horizon, Exposure
<1>5. CASE PluginGoesOn(r)
  <2>1. PICK step \in {"p_orgs", "p_teams", "p_outside"} :
          /\ GoTo(r, c, step) /\ UNCHANGED plugin
          /\ step = "p_teams" => c.at = "p_orgs" /\ c.answer = "yes"
          /\ step = "p_outside" => c.answer = "no"
    BY <1>5 DEF PluginGoesOn
  <2> DEFINE next == [c EXCEPT !.at = step, !.answer = None, !.wait = 0]
  <2>2. Recent(next)
    <3>1. step = "p_teams" => out <= c.wait
      BY <1>1, <2>1 DEF CallInv, Recent
    <3> QED
      BY <1>2, <1>4, <2>1, <3>1, NoneAssumption DEF Recent, Call
  <2>3. Routed(next)
    BY <1>1, <1>2, <2>1, NoneAssumption DEF Routed, Call, Legs, Lists
  <2>4. Just(next)
    BY <1>1, <1>2, <2>1, NoneAssumption DEF Just, Call
  <2>5. Due(c, step)
    BY <2>1, <2>2, <2>3, <2>4, StepsApart
       DEF Due, CallInv, Calls, Lists, Statuses
  <2> QED
    BY <1>1, <1>2, <1>3, <2>1, <2>5, GoToIInv DEF CacheInv, TypeOK, world
<1>6. CASE PluginFails(r)
  <2>1. GoTo(r, c, "unavailable") /\ UNCHANGED plugin
    BY <1>6 DEF PluginFails
  <2>2. Due(c, "unavailable")
    BY StepsApart DEF Due, Statuses
  <2> QED
    BY <1>1, <1>2, <1>3, <2>1, <2>2, GoToIInv DEF CacheInv, TypeOK, world
<1>7. CASE PluginRejects(r)
  <2>1. /\ GoTo(r, c, "denied") /\ plugin' = 0
        /\ c.answer = "no" \/ c.at = "p_outside"
    BY <1>7 DEF PluginRejects
  <2>2. Due(c, "denied")
    BY <1>1, <2>1, StepsApart DEF Due, Statuses, Just
  <2> QED
    BY <1>1, <1>2, <1>3, <1>4, <2>1, <2>2, GoToIInv
       DEF CacheInv, TypeOK, world
<1>8. CASE PluginAccepts(r)
  <2>1. GoTo(r, c, "served") /\ plugin' = Ttl /\ c.at = "p_teams"
    BY <1>8 DEF PluginAccepts
  <2>2. out <= 2 * MaxLag
    BY <1>1, <1>4, <2>1 DEF CallInv, Recent
  <2>3. out < Exposure(c.kind)
    BY <1>2, <1>4, <2>2 DEF Exposure
  <2>4. Due(c, "served")
    BY <1>2, <2>3, StepsApart DEF Due, Statuses
  <2>5. CacheInv'
    BY <1>1, <1>3, <1>4, <2>1, <2>2 DEF CacheInv, world
  <2> QED
    BY <1>1, <1>2, <1>3, <1>4, <2>1, <2>4, <2>5, GoToIInv DEF TypeOK
<1> QED
  BY <1>5, <1>6, <1>7, <1>8

\* An answer tells of this moment.
LEMMA AnswerIInv ==
  ASSUME IInv, NEW r \in Requests, GiteaAnswers(r) \/ DevpiAnswers(r)
  PROVE  IInv'
<1> DEFINE c == req[r]
<1>1. TypeOK /\ OutInv /\ CacheInv /\ CallInv(c)
  BY DEF IInv
<1>2. UNCHANGED <<world, gate, plugin>> /\ reply' = None
  BY DEF GiteaAnswers, DevpiAnswers
<1>3. c \in Call
  BY <1>1 DEF TypeOK, Call
<1>4. PICK d \in Call : CallInv(d) /\ req' = [req EXCEPT ![r] = d]
  <2>1. CASE GiteaAnswers(r)
    <3>1. PICK a \in {IF Says(c.at) THEN "yes" ELSE Refused(c.at), "error"} :
            req' = [req EXCEPT ![r].answer = a]
      BY <2>1 DEF GiteaAnswers
    <3>2. a \in {"yes", "no", "error"}
      BY <3>1 DEF Refused
    <3>3. c.at \in Legs \cup Lists
      BY <1>3, <2>1 DEF GiteaAnswers, Call, Calls
    <3>4. a = "yes" => Says(c.at)
      BY <3>1 DEF Refused
    <3>5. a = "no" => ~Says(c.at)
      BY <3>1
    <3> DEFINE d == [c EXCEPT !.answer = a]
    <3>6. d \in Call /\ req' = [req EXCEPT ![r] = d]
      BY <1>1, <1>3, <3>1, <3>2 DEF Call, TypeOK
    <3>7. Recent(d)
      <4>1. c.at \in {"member", "p_orgs"} /\ a = "yes" => out = 0
        <5>1. c.at \in {"member", "p_orgs"} /\ a = "yes" => Access
          BY <3>4 DEF Says, Access
        <5> QED
          BY <1>1, <5>1 DEF OutInv
      <4> QED
        BY <1>1, <1>3, <4>1, TimesAssumption DEF CallInv, Recent, Call
    <3>8. Routed(d)
      BY <1>1, <1>3, <3>4 DEF CallInv, Routed, Call, Says
    <3>9. Just(d)
      BY <1>1, <1>3, <3>3, <3>5
         DEF CallInv, Just, Routed, Call, Says, Entitled, Access, Legs, Lists
    <3> QED
      BY <3>6, <3>7, <3>8, <3>9 DEF CallInv
  <2>2. CASE DevpiAnswers(r)
    <3>1. PICK a \in {"yes", "no", "error"} :
            req' = [req EXCEPT ![r].answer = a,
                               ![r].entitled = @ /\ a # "no"]
      BY <2>2 DEF DevpiAnswers
    <3> QED
      BY <1>1, <1>3, <2>2, <3>1
         DEF DevpiAnswers, CallInv, Recent, Routed, Just, Call, TypeOK
  <2> QED
    BY <2>1, <2>2
<1>5. req' \in [Requests -> Call] /\ req \in [Requests -> Call]
  BY <1>1, <1>4 DEF TypeOK, Call
<1>6. TypeOK' /\ OutInv' /\ CacheInv'
  BY <1>1, <1>2, <1>5 DEF TypeOK, OutInv, CacheInv, Access, Call, world
<1>7. \A u \in Requests : CallInv(req[u])'
  <2> SUFFICES ASSUME NEW u \in Requests PROVE CallInv(req[u])'
    OBVIOUS
  <2>1. req'[u] = IF u = r THEN d ELSE req[u]
    BY <1>4, <1>5
  <2>2. CallInv(req'[u])
    BY <1>4, <2>1 DEF IInv
  <2> QED
    BY <1>2, <2>2
       DEF CallInv, Recent, Routed, Just, Entitled, Access, world
<1> QED
  BY <1>2, <1>6, <1>7 DEF IInv, RevocationTakesHold, OutageIsNotDenial

\* Whoever loses access is out from this moment on.
LEMMA DisentitleIInv ==
  ASSUME IInv, Revoke \/ Leave
  PROVE  IInv'
<1>1. TypeOK /\ OutInv /\ CacheInv
  BY DEF IInv
<1>2. /\ UNCHANGED <<scoped, out, gate, plugin>> /\ reply' = None
      /\ Disentitle /\ ~Access'
      /\ token' \in BOOLEAN /\ member' \in BOOLEAN
  BY <1>1 DEF Revoke, Leave, Access, TypeOK
<1>3. req \in [Requests -> Call]
  BY <1>1 DEF TypeOK, Call
<1>4. \A u \in Requests : [req[u] EXCEPT !.entitled = FALSE] \in Call
  BY <1>3 DEF Call
<1>5. req' \in [Requests -> Call]
  BY <1>2, <1>4 DEF Disentitle
<1>6. TypeOK' /\ OutInv' /\ CacheInv'
  BY <1>1, <1>2, <1>5 DEF TypeOK, OutInv, CacheInv, Call
<1>7. \A u \in Requests : CallInv(req[u])'
  <2> SUFFICES ASSUME NEW u \in Requests PROVE CallInv(req[u])'
    OBVIOUS
  <2>1. req[u] \in Call /\ CallInv(req[u])
    BY <1>3 DEF IInv
  <2>2. /\ req'[u].at = req[u].at /\ req'[u].kind = req[u].kind
        /\ req'[u].answer = req[u].answer /\ req'[u].wait = req[u].wait
        /\ req'[u].entitled = FALSE
    BY <1>2, <2>1 DEF Disentitle, Call
  <2> QED
    BY <1>2, <2>1, <2>2 DEF CallInv, Recent, Routed, Just
<1> QED
  BY <1>2, <1>6, <1>7 DEF IInv, RevocationTakesHold, OutageIsNotDenial

LEMMA JoinIInv ==
  ASSUME IInv, Join
  PROVE  IInv'
<1>1. TypeOK /\ OutInv /\ CacheInv
  BY DEF IInv
<1>2. /\ UNCHANGED <<token, scoped, gate, plugin, req>> /\ reply' = None
      /\ ~member /\ member' = TRUE /\ out' = IF token THEN 0 ELSE out
  BY DEF Join
<1>3. out \in Nat /\ Horizon \in Nat /\ Ttl \in Nat /\ MaxLag \in Nat
  BY <1>1, TimesAssumption DEF TypeOK, Horizon, Exposure
<1>4. out' \in 0..Horizon /\ out' <= out
  BY <1>1, <1>2, <1>3 DEF TypeOK
<1>5. TypeOK' /\ OutInv'
  BY <1>1, <1>2, <1>4 DEF TypeOK, OutInv, Access
<1>6. CacheInv'
  BY <1>1, <1>2, <1>3, <1>4 DEF CacheInv, TypeOK, Legs
<1>7. \A u \in Requests : CallInv(req[u])'
  <2> SUFFICES ASSUME NEW u \in Requests PROVE CallInv(req[u])'
    OBVIOUS
  <2>1. CallInv(req[u]) /\ req[u].wait \in Nat /\ req'[u] = req[u]
    BY <1>1, <1>2, TimesAssumption DEF IInv, TypeOK
  <2>2. ~req[u].entitled
    BY <1>2, <2>1 DEF CallInv, Just, Entitled, Access
  <2>3. Recent(req[u])'
    BY <1>2, <1>3, <1>4, <2>1 DEF CallInv, Recent
  <2>4. Routed(req[u])' /\ Just(req[u])'
    BY <1>2, <2>1, <2>2 DEF CallInv, Routed, Just
  <2> QED
    BY <2>3, <2>4 DEF CallInv
<1> QED
  BY <1>2, <1>5, <1>6, <1>7 DEF IInv, RevocationTakesHold, OutageIsNotDenial

\* Time passes for the user who is out, for what is cached and for whoever
\* waits alike.
LEMMA TickIInv ==
  ASSUME IInv, Tick
  PROVE  IInv'
<1>1. TypeOK /\ OutInv /\ CacheInv
  BY DEF IInv
<1>2. /\ UNCHANGED <<token, member, scoped>> /\ reply' = None
      /\ out' = IF Access THEN 0 ELSE IF out = Horizon THEN out ELSE out + 1
      /\ gate' = [l \in Legs |-> Aged(gate[l])] /\ plugin' = Aged(plugin)
  BY DEF Tick
<1>3. out \in Nat /\ Horizon \in Nat /\ Ttl \in Nat /\ MaxLag \in Nat
  BY <1>1, TimesAssumption DEF TypeOK, Horizon, Exposure
<1>4. out' \in 0..Horizon /\ out' <= out + 1
  BY <1>1, <1>2, <1>3 DEF TypeOK
<1>5. ASSUME NEW left \in 0..Ttl
      PROVE  /\ Aged(left) \in 0..Ttl
             /\ Aged(left) > 0 => left = Aged(left) + 1
  BY <1>3 DEF Aged
<1>6. req \in [Requests -> Call]
  BY <1>1 DEF TypeOK, Call
<1>7. \A u \in Requests :
        /\ req'[u] \in Call
        /\ req'[u].at = req[u].at /\ req'[u].kind = req[u].kind
        /\ req'[u].answer = req[u].answer
        /\ req'[u].entitled = req[u].entitled
        /\ req[u].at # "idle" => req'[u].wait = req[u].wait + 1
  <2> SUFFICES ASSUME NEW u \in Requests
               PROVE  /\ req'[u] \in Call
                      /\ req'[u].at = req[u].at /\ req'[u].kind = req[u].kind
                      /\ req'[u].answer = req[u].answer
                      /\ req'[u].entitled = req[u].entitled
                      /\ req[u].at # "idle" =>
                           req'[u].wait = req[u].wait + 1
    OBVIOUS
  <2>1. req[u] \in Call
    BY <1>6
  <2>2. CASE req[u].at = "idle"
    BY <2>1, <2>2 DEF Tick
  <2>3. CASE req[u].at # "idle"
    <3>1. req'[u] = [req[u] EXCEPT !.wait = @ + 1] /\ req[u].wait < MaxLag
      BY <2>3 DEF Tick
    <3>2. req[u].wait + 1 \in 0..MaxLag
      BY <1>3, <2>1, <3>1 DEF Call
    <3> QED
      BY <2>1, <3>1, <3>2 DEF Call
  <2> QED
    BY <2>2, <2>3
<1>8. req' \in [Requests -> Call]
  <2>1. req' = [u \in Requests |-> req'[u]]
    BY DEF Tick
  <2> QED
    BY <1>7, <2>1
<1>9. gate \in [Legs -> 0..Ttl] /\ plugin \in 0..Ttl
  BY <1>1 DEF TypeOK
<1>10. TypeOK'
  <2>1. gate' \in [Legs -> 0..Ttl] /\ plugin' \in 0..Ttl
    BY <1>2, <1>5, <1>9
  <2> QED
    BY <1>1, <1>2, <1>4, <1>8, <2>1 DEF TypeOK, Call
<1>11. OutInv'
  BY <1>2 DEF OutInv, Access
<1>12. CacheInv'
  <2>1. gate'["member"] > 0 => out' <= Ttl - gate'["member"] + MaxLag
    <3>1. gate'["member"] = Aged(gate["member"]) /\ gate["member"] \in 0..Ttl
      BY <1>2, <1>9 DEF Legs
    <3>2. /\ Aged(gate["member"]) \in 0..Ttl
          /\ Aged(gate["member"]) > 0 =>
               gate["member"] = Aged(gate["member"]) + 1
      BY <1>5, <3>1
    <3> QED
      BY <1>1, <1>3, <1>4, <3>1, <3>2 DEF CacheInv
  <2>2. gate'["scope"] > 0 => scoped'
    <3>1. gate'["scope"] = Aged(gate["scope"]) /\ gate["scope"] \in 0..Ttl
      BY <1>2, <1>9 DEF Legs
    <3> QED
      BY <1>1, <1>2, <1>3, <1>5, <3>1 DEF CacheInv
  <2>3. plugin' > 0 => out' <= Ttl - plugin' + 2 * MaxLag
    <3>1. Aged(plugin) \in 0..Ttl /\ (Aged(plugin) > 0 =>
                                         plugin = Aged(plugin) + 1)
      BY <1>5, <1>9
    <3> QED
      BY <1>1, <1>2, <1>3, <1>4, <1>9, <3>1 DEF CacheInv
  <2> QED
    BY <2>1, <2>2, <2>3 DEF CacheInv
<1>13. \A u \in Requests : CallInv(req[u])'
  <2> SUFFICES ASSUME NEW u \in Requests PROVE CallInv(req[u])'
    OBVIOUS
  <2>1. CallInv(req[u]) /\ req[u] \in Call /\ req'[u] \in Call
    BY <1>6, <1>7 DEF IInv
  <2>2. /\ req'[u].at = req[u].at /\ req'[u].kind = req[u].kind
        /\ req'[u].answer = req[u].answer
        /\ req'[u].entitled = req[u].entitled
        /\ req[u].at # "idle" => req'[u].wait = req[u].wait + 1
    BY <1>7
  <2>3. Recent(req[u])'
    <3>1. req[u].wait \in Nat /\ req'[u].wait \in Nat
      BY <1>3, <2>1 DEF Call
    <3> QED
      BY <1>3, <1>4, <2>1, <2>2, <3>1 DEF CallInv, Recent
  <2>4. Routed(req[u])'
    BY <1>2, <2>1, <2>2 DEF CallInv, Routed
  <2>5. Just(req[u])'
    BY <1>2, <2>1, <2>2 DEF CallInv, Just, Entitled, Access
  <2> QED
    BY <2>3, <2>4, <2>5 DEF CallInv
<1> QED
  BY <1>2, <1>10, <1>11, <1>12, <1>13
     DEF IInv, RevocationTakesHold, OutageIsNotDenial

LEMMA GateForgetsIInv ==
  ASSUME IInv, NEW l \in Legs, GateForgets(l)
  PROVE  IInv'
<1>1. TypeOK /\ CacheInv
  BY DEF IInv
<1>2. /\ UNCHANGED <<world, plugin, req>> /\ reply' = None
      /\ gate' = [gate EXCEPT ![l] = 0]
  BY DEF GateForgets
<1>3. gate' \in [Legs -> 0..Ttl]
  BY <1>1, <1>2, TimesAssumption DEF TypeOK
<1>4. TypeOK' /\ OutInv'
  BY <1>1, <1>2, <1>3 DEF IInv, TypeOK, OutInv, Access, world
<1>5. CacheInv'
  BY <1>1, <1>2 DEF CacheInv, TypeOK, Legs, world
<1>6. \A u \in Requests : CallInv(req[u])'
  BY <1>2 DEF IInv, CallInv, Recent, Routed, Just, Entitled, Access, world
<1> QED
  BY <1>2, <1>4, <1>5, <1>6 DEF IInv, RevocationTakesHold, OutageIsNotDenial

LEMMA NextIInv ==
  ASSUME IInv, [Next]_vars
  PROVE  IInv'
<1>1. CASE Revoke \/ Leave
  BY <1>1, DisentitleIInv
<1>2. CASE Join
  BY <1>2, JoinIInv
<1>3. CASE Tick
  BY <1>3, TickIInv
<1>4. CASE \E l \in Legs : GateForgets(l)
  BY <1>4, GateForgetsIInv
<1>5. ASSUME NEW r \in Requests,
             \/ \E kind \in Kinds : Arrive(r, kind)
             \/ GiteaAnswers(r) \/ DevpiAnswers(r) \/ Leg(r) \/ FileGuard(r)
             \/ PluginGoesOn(r) \/ PluginFails(r)
             \/ PluginRejects(r) \/ PluginAccepts(r)
      PROVE  IInv'
  BY <1>5, ArriveIInv, AnswerIInv, LegIInv, FileGuardIInv, PluginIInv
<1>6. CASE UNCHANGED vars
  BY <1>6 DEF vars, IInv, TypeOK, OutInv, CacheInv, CallInv, Recent, Routed,
              Just, Entitled, Access, RevocationTakesHold, OutageIsNotDenial
<1> QED
  BY <1>1, <1>2, <1>3, <1>4, <1>5, <1>6 DEF Next

-----------------------------------------------------------------------------

\* What a request has passed, and what is cached, is no older than the time it
\* took and the time that is left say, at all times.
THEOREM Invariance == Spec => []IInv
<1>1. Init => IInv
  BY InitIInv
<1>2. IInv /\ [Next]_vars => IInv'
  BY NextIInv
<1> QED
  BY <1>1, <1>2, PTL DEF Spec

\* Every variable has its type: the caches' times and the waits stay bounded.
THEOREM TypeCorrect == Spec => []TypeOK
<1>1. IInv => TypeOK
  BY DEF IInv
<1> QED
  BY <1>1, Invariance, PTL

\* Whoever is served lost access less than one TTL and a few calls ago.
THEOREM RevocationTakesHoldHolds == Spec => []RevocationTakesHold
<1>1. IInv => RevocationTakesHold
  BY DEF IInv
<1> QED
  BY <1>1, Invariance, PTL

\* A user with access is never refused because something is down.
THEOREM OutageIsNotDenialHolds == Spec => []OutageIsNotDenial
<1>1. IInv => OutageIsNotDenial
  BY DEF IInv
<1> QED
  BY <1>1, Invariance, PTL
=============================================================================
