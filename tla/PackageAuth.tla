---------------------------- MODULE PackageAuth ----------------------------
(***************************************************************************)
(* Who gets past the door: the gateway's auth_request guard (pep503.js and *)
(* its locations in nginx.conf) and, behind it for npm, Verdaccio's        *)
(* auth-gitea plugin, for the requests one user makes with one token.      *)
(*                                                                         *)
(* Both ask Gitea, each through its own cache of good answers: the gateway *)
(* keeps each of its three questions apart, the plugin the outcome of its  *)
(* own three.  A call is evaluated by Gitea at one moment and its answer   *)
(* arrives at another; the pages of one list count as one call.  A request *)
(* finds what it needs in the caches, up to its next call, in one step.    *)
(*                                                                         *)
(* "direct" is a request to Verdaccio from inside the cluster, past the    *)
(* gateway.  "file" is a mirror file: devpi is asked whether it may go out *)
(* once the guard is satisfied.  Time is discrete: Tick.                   *)
(***************************************************************************)
EXTENDS Integers

CONSTANTS
  Requests,   \* the requests under way at a time
  Ttl,        \* proxy_cache_valid and cache_ttl_ms: both are 30 s
  MaxLag,     \* bound: the longest a call to Gitea takes
  None

ASSUME TimesAssumption == Ttl \in Nat \ {0} /\ MaxLag \in Nat
ASSUME NoneAssumption == None \notin {"yes", "no", "error"}

Kinds == {"npm", "pypi", "file", "direct"}
Legs == {"user", "member", "scope"}
\* The plugin's calls; it asks for the teams of a user it will reject as well.
Lists == {"p_user", "p_orgs", "p_teams", "p_outside"}
Calls == Legs \cup Lists \cup {"file"}
Statuses == {"served", "denied", "unavailable"}

\* The longest anyone is served after he lost access: the last good answer is
\* on its way, is cached, and is found in its last moment by a request that
\* then makes one call more, or two for a file.
Exposure(kind) == Ttl + (IF kind = "file" THEN 3 ELSE 2) * MaxLag
Horizon == Exposure("file")

VARIABLES
  token,    \* the token exists
  member,   \* the user is in the organisation
  scoped,   \* the token may read packages
  out,      \* time since the user lost access, capped; 0 while it has it
  gate,     \* artea_auth: of each leg, the time left of its good answer
  plugin,   \* the plugin's cache: the time left of its good outcome
  req,      \* the requests under way
  reply     \* the request that was answered by the last step, or None

vars == <<token, member, scoped, out, gate, plugin, req, reply>>
world == <<token, member, scoped, out>>

Access == token /\ member

Idle == [at |-> "idle", kind |-> "npm", answer |-> None, wait |-> 0,
         entitled |-> FALSE]

TypeOK ==
  /\ token \in BOOLEAN /\ member \in BOOLEAN /\ scoped \in BOOLEAN
  /\ out \in 0..Horizon
  /\ gate \in [Legs -> 0..Ttl] /\ plugin \in 0..Ttl
  /\ req \in [Requests -> [at : Calls \cup {"idle"}, kind : Kinds,
                           answer : {None, "yes", "no", "error"},
                           wait : 0..MaxLag, entitled : BOOLEAN]]
  /\ reply = None \/ reply \in [status : Statuses, kind : Kinds,
                                entitled : BOOLEAN]

Init ==
  /\ token \in BOOLEAN /\ member \in BOOLEAN /\ scoped \in BOOLEAN
  /\ out = IF Access THEN 0 ELSE Horizon
  /\ gate = [l \in Legs |-> 0] /\ plugin = 0
  /\ req = [r \in Requests |-> Idle] /\ reply = None

-----------------------------------------------------------------------------
(* The world: Gitea, devpi, time *)

\* Whoever loses access is not entitled to be served, for the requests under
\* way either.
Disentitle ==
  req' = [r \in Requests |-> [req[r] EXCEPT !.entitled = FALSE]]

Revoke ==
  /\ token
  /\ token' = FALSE
  /\ Disentitle /\ reply' = None
  /\ UNCHANGED <<member, scoped, out, gate, plugin>>

Leave ==
  /\ member
  /\ member' = FALSE
  /\ Disentitle /\ reply' = None
  /\ UNCHANGED <<token, scoped, out, gate, plugin>>

Join ==
  /\ ~member
  /\ member' = TRUE
  /\ out' = IF token THEN 0 ELSE out
  /\ reply' = None
  /\ UNCHANGED <<token, scoped, gate, plugin, req>>

\* Mutant of Aged: an entry is kept for as long as it is in use.
AgedUnlessUsed(left) ==
  IF left = 0 \/ (left = 1 /\ \E r \in Requests : req[r].at # "idle")
  THEN left ELSE left - 1
Aged(left) == IF left = 0 THEN 0 ELSE left - 1

\* One unit of time; no call takes longer than MaxLag.
Tick ==
  /\ \A r \in Requests : req[r].at # "idle" => req[r].wait < MaxLag
  /\ out' = IF Access THEN 0 ELSE IF out = Horizon THEN out ELSE out + 1
  /\ gate' = [l \in Legs |-> Aged(gate[l])]
  /\ plugin' = Aged(plugin)
  /\ req' = [r \in Requests |-> IF req[r].at = "idle" THEN req[r]
                                ELSE [req[r] EXCEPT !.wait = @ + 1]]
  /\ reply' = None
  /\ UNCHANGED <<token, member, scoped>>

\* max_size and inactive; a restart of the gateway forgets all legs in turn.
GateForgets(l) ==
  /\ gate[l] > 0
  /\ gate' = [gate EXCEPT ![l] = 0]
  /\ reply' = None
  /\ UNCHANGED <<world, plugin, req>>

\* What Gitea says to a call it gets to at this moment.
Says(c) ==
  CASE c \in {"user", "p_user", "p_teams", "p_outside"} -> token
    [] c \in {"member", "p_orgs"} -> token /\ member
    [] c = "scope" -> token /\ scoped

\* A list of organisations that is not given, because the token is gone since
\* the first call, is a failure to the plugin and no denial.
Refused(c) == IF c = "p_orgs" /\ ~token THEN "error" ELSE "no"

\* Gitea gets to the call, or is down.
GiteaAnswers(r) ==
  /\ req[r].at \notin {"idle", "file"} /\ req[r].answer = None
  /\ LET call == req[r].at IN
     \E a \in {IF Says(call) THEN "yes" ELSE Refused(call), "error"} :
       req' = [req EXCEPT ![r].answer = a]
  /\ reply' = None
  /\ UNCHANGED <<world, gate, plugin>>

\* devpi says whether its policy lets the file go out, or is down.
DevpiAnswers(r) ==
  /\ req[r].at = "file" /\ req[r].answer = None
  /\ \E a \in {"yes", "no", "error"} :
       req' = [req EXCEPT ![r].answer = a,
                          ![r].entitled = @ /\ a # "no"]
  /\ reply' = None
  /\ UNCHANGED <<world, gate, plugin>>

-----------------------------------------------------------------------------
(* The way of a request from one call to the next *)

ToPlugin == IF plugin > 0 THEN "served" ELSE "p_user"
Behind(kind) == CASE kind = "npm" -> ToPlugin
                  [] kind = "pypi" -> "served"
                  [] kind = "file" -> "file"
ToScope(kind) == IF gate["scope"] > 0 THEN Behind(kind) ELSE "scope"
ToMember(kind) == IF gate["member"] > 0 THEN ToScope(kind) ELSE "member"
ToUser(kind) == IF gate["user"] > 0 THEN ToMember(kind) ELSE "user"

After(leg, kind) == CASE leg = "user" -> ToMember(kind)
                      [] leg = "member" -> ToScope(kind)
                      [] leg = "scope" -> Behind(kind)

\* The request goes on to its next call or is answered.
GoTo(r, call, step) ==
  IF step \in Statuses
  THEN /\ req' = [req EXCEPT ![r] = Idle]
       /\ reply' = [status |-> step, kind |-> call.kind,
                    entitled |-> call.entitled]
  ELSE /\ req' = [req EXCEPT ![r] = [call EXCEPT !.at = step,
                                     !.answer = None, !.wait = 0]]
       /\ reply' = None

Entitled(kind) ==
  Access /\ (kind # "direct" => scoped)

Arrive(r, kind) ==
  /\ req[r].at = "idle"
  /\ LET call == [Idle EXCEPT !.kind = kind, !.entitled = Entitled(kind)]
     IN GoTo(r, call, IF kind = "direct" THEN ToPlugin ELSE ToUser(kind))
  /\ UNCHANGED <<world, gate, plugin>>

Refusal(answer) == IF answer = "no" THEN "denied" ELSE "unavailable"

\* authStatus: one of the gateway's three questions is answered.  nginx keeps
\* a good answer for Ttl from now on; a bad one is the reply.
Leg(r) ==
  /\ req[r].at \in Legs /\ req[r].answer # None
  /\ LET leg == req[r].at IN
     IF req[r].answer = "yes"
     THEN /\ gate' = [gate EXCEPT ![leg] = Ttl]
          /\ GoTo(r, req[r], After(leg, req[r].kind))
     ELSE GoTo(r, req[r], Refusal(req[r].answer)) /\ UNCHANGED gate
  /\ UNCHANGED <<world, plugin>>

\* Mutant of FileGuard: whatever is not a yes is a no.
FileGuardBlunt(r) ==
  /\ req[r].at = "file" /\ req[r].answer # None
  /\ GoTo(r, req[r], IF req[r].answer = "yes" THEN "served" ELSE "denied")
  /\ UNCHANGED <<world, gate, plugin>>

\* pypiFileGuard has devpi's answer.
FileGuard(r) ==
  /\ req[r].at = "file" /\ req[r].answer # None
  /\ GoTo(r, req[r], IF req[r].answer = "yes" THEN "served"
                     ELSE Refusal(req[r].answer))
  /\ UNCHANGED <<world, gate, plugin>>

-----------------------------------------------------------------------------
(* verifyAgainstGitea *)

\* The organisations are asked for after the token, and the teams after them.
PluginGoesOn(r) ==
  /\ \/ /\ req[r].at = "p_user" /\ req[r].answer = "yes"
        /\ GoTo(r, req[r], "p_orgs")
     \/ /\ req[r].at = "p_orgs" /\ req[r].answer = "yes"
        /\ GoTo(r, req[r], "p_teams")
     \/ /\ req[r].at = "p_orgs" /\ req[r].answer = "no"
        /\ GoTo(r, req[r], "p_outside")
  /\ UNCHANGED <<world, gate, plugin>>

\* Mutant of PluginFails: a list that fails is taken for an empty one.
PluginFailsHard(r) ==
  /\ req[r].at \in {"p_user", "p_orgs"} /\ req[r].answer = "error"
  /\ GoTo(r, req[r], IF req[r].at = "p_orgs" THEN "denied"
                     ELSE "unavailable")
  /\ UNCHANGED <<world, gate, plugin>>

\* Whether the user is a member is unknown: 503, and the cache stays as it is.
PluginFails(r) ==
  /\ req[r].at \in {"p_user", "p_orgs"} /\ req[r].answer = "error"
  /\ GoTo(r, req[r], "unavailable")
  /\ UNCHANGED <<world, gate, plugin>>

PluginRejects(r) ==
  /\ \/ req[r].at = "p_user" /\ req[r].answer = "no"
     \/ req[r].at = "p_outside" /\ req[r].answer # None
  /\ plugin' = 0
  /\ GoTo(r, req[r], "denied")
  /\ UNCHANGED <<world, gate>>

\* The teams are the last call, and the plugin does without an answer.
PluginAccepts(r) ==
  /\ req[r].at = "p_teams" /\ req[r].answer # None
  /\ plugin' = Ttl
  /\ GoTo(r, req[r], "served")
  /\ UNCHANGED <<world, gate>>

Next ==
  \/ Revoke \/ Leave \/ Join \/ Tick
  \/ \E l \in Legs : GateForgets(l)
  \/ \E r \in Requests :
       \/ \E kind \in Kinds : Arrive(r, kind)
       \/ GiteaAnswers(r) \/ DevpiAnswers(r) \/ Leg(r) \/ FileGuard(r)
       \/ PluginGoesOn(r) \/ PluginFails(r)
       \/ PluginRejects(r) \/ PluginAccepts(r)

Spec == Init /\ [][Next]_vars

-----------------------------------------------------------------------------
(* Properties *)

\* Whoever is served lost access, if he did, less than one TTL and a few calls
\* ago.  The caches do not add up, the plugin's to the gateway's or one leg's
\* to the other's, though their answers were good at different times: each is
\* Gitea's own.  Nor does it take longer because of an older check that ends
\* after a newer one has rejected the token.  And the gateway lets nobody in
\* whose token may not read packages.
RevocationTakesHold ==
  reply # None /\ reply.status = "served" =>
    out < Exposure(reply.kind) /\ (reply.kind # "direct" => scoped)

\* A user who had access for as long as his request took is never told that he
\* has not, whatever is down in Gitea or devpi: clients retry a 503 and take a
\* 401 or 403 for bad credentials or a package that is blocked.
OutageIsNotDenial ==
  reply # None /\ reply.status = "denied" => ~reply.entitled
=============================================================================
