---------------------------- MODULE SimpleIndex ----------------------------
(***************************************************************************)
(* The JSON Simple page of one project name: the gateway's pep700.js asks  *)
(* Gitea for a private package of the name and then policy-sync's          *)
(* enrich.py for the page, which joins the files of the winning index with *)
(* their upload times; nginx keeps that page for a while.                  *)
(*                                                                         *)
(* A page is its files, whether they are stamped with upload times, and,   *)
(* for the reader, whether it is one that enrich_devpi fell back on.  The  *)
(* metadata of all files is one call, which answers or fails.  The clients *)
(* are one user's, so that the gateway has one private entry.  devpi's     *)
(* index is read at one moment and its answer arrives at another; a page   *)
(* of Gitea's is read when its last call is answered.  What Gitea knows of *)
(* a release never changes, so that its cached metadata is a call that     *)
(* succeeds.                                                               *)
(***************************************************************************)
EXTENDS Integers, FiniteSets

CONSTANTS
  Requests,    \* the requests under way at a time
  Files,       \* the public files of the name
  Releases,    \* the files a private package of the name may have
  GatewayTtl,  \* proxy_cache_valid of the zone pypi_enrich
  EnrichTtl,   \* ENRICH_TTL_SECONDS
  StaleMax,    \* STALE_MAX_SECONDS
  MaxLag,      \* _HTTP_TIMEOUT, and proxy_cache_lock_timeout and _age
  None

ASSUME TimesAssumption ==
  /\ GatewayTtl \in Nat \ {0} /\ EnrichTtl \in Nat \ {0} /\ MaxLag \in Nat
  /\ StaleMax \in Nat /\ EnrichTtl <= StaleMax

ASSUME NoneAssumption ==
  None \notin {"gitea", "devpi", "ok", "missing", "error"}

Branches == {"gitea", "devpi"}
Steps == {"idle", "probe", "lock", "page", "base", "meta"}

\* The longest a public page lists a file after devpi's index dropped it: the
\* list and the metadata are on their way, and the page is found in
\* policy-sync's cache and then in nginx's, in its last moment.
Exposure(stale) ==
  2 * MaxLag + GatewayTtl - 1 + (IF stale THEN StaleMax ELSE EnrichTtl)
Horizon == Exposure(TRUE)

VARIABLES
  gate,      \* the files devpi's constrained index lists
  released,  \* the files of the private package; none, and there is none
  out,       \* time since each public file was last listed by gate, capped
  blip,      \* time since a call for metadata last failed, capped
  enrich,    \* _enrich_cache of the name: its page and age, or None
  gateway,   \* pypi_enrich: of each branch, its page and time left, or None
  req,       \* the requests under way
  reply      \* what the last step told a client of the project, or None

vars == <<gate, released, out, blip, enrich, gateway, req, reply>>
world == <<gate, released, out>>

Idle == [at |-> "idle", branch |-> None, bypass |-> FALSE, fills |-> FALSE,
         heard |-> None, base |-> None, wait |-> 0,
         absent |-> FALSE, bare |-> FALSE, due |-> {}]

Page(files, stamped) == [files |-> files, stamped |-> stamped, stale |-> FALSE]
Pages == [files : (SUBSET Files) \cup (SUBSET Releases), stamped : BOOLEAN,
          stale : BOOLEAN]

Calls == [at : Steps, branch : Branches \cup {None},
          bypass : BOOLEAN, fills : BOOLEAN,
          heard : {None, "ok", "missing", "error"},
          base : {None} \cup (SUBSET Files), wait : 0..MaxLag,
          absent : BOOLEAN, bare : BOOLEAN, due : SUBSET Releases]

TypeOK ==
  /\ gate \subseteq Files /\ released \subseteq Releases
  /\ out \in [Files -> 0..Horizon] /\ blip \in 0..GatewayTtl
  /\ enrich \in {None} \cup [page : Pages, age : 0..StaleMax - 1]
  /\ gateway \in [Branches ->
                    {None} \cup [page : Pages, left : 1..GatewayTtl]]
  /\ req \in [Requests -> Calls]

Init ==
  /\ gate \in SUBSET Files /\ released \in SUBSET Releases
  /\ out = [f \in Files |-> IF f \in gate THEN 0 ELSE Horizon]
  /\ blip = GatewayTtl
  /\ enrich = None
  /\ gateway = [b \in Branches |-> None]
  /\ req = [r \in Requests |-> Idle] /\ reply = None

-----------------------------------------------------------------------------
(* The world: devpi's policy, Gitea's packages, time *)

\* What a request under way has seen of the world: that there was no private
\* package, that the public index was empty once it was asked for, and which of
\* the releases that were there when it came still are, if it asked for them to
\* be revalidated.
Witnessed(call, rel, listed) ==
  [call EXCEPT !.absent = @ \/ (call.at # "idle" /\ rel = {}),
               !.bare = @ \/ (call.branch = "devpi" /\ listed = {}),
               !.due = @ \cap rel]

Gate(listed) ==
  /\ listed # gate
  /\ gate' = listed
  /\ out' = [f \in Files |-> IF f \in listed THEN 0 ELSE out[f]]
  /\ req' = [r \in Requests |-> Witnessed(req[r], released, listed)]
  /\ reply' = None
  /\ UNCHANGED <<released, blip, enrich, gateway>>

Release(rel) ==
  /\ rel # released
  /\ released' = rel
  /\ req' = [r \in Requests |-> Witnessed(req[r], rel, gate)]
  /\ reply' = None
  /\ UNCHANGED <<gate, out, blip, enrich, gateway>>

Later(time, cap) == IF time = cap THEN cap ELSE time + 1

\* Mutant of Older: a page that is too old for anything is still kept.
OlderForEver(entry) ==
  IF entry = None THEN None ELSE [entry EXCEPT !.age = @ + 1]

\* policy-sync's page a unit later: get_stale drops it at StaleMax.
Older(entry) ==
  IF entry = None \/ entry.age + 1 = StaleMax THEN None
  ELSE [entry EXCEPT !.age = @ + 1]

\* The calls whose duration the caches' ages depend on.
Timed(r) == req[r].at \in {"lock", "base", "meta"}

Tick ==
  /\ \A r \in Requests : Timed(r) => req[r].wait < MaxLag
  /\ out' = [f \in Files |->
       IF f \in gate THEN 0 ELSE Later(out[f], Horizon)]
  /\ blip' = Later(blip, GatewayTtl)
  /\ enrich' = Older(enrich)
  /\ gateway' = [b \in Branches |->
       IF gateway[b] = None \/ gateway[b].left = 1 THEN None
       ELSE [gateway[b] EXCEPT !.left = @ - 1]]
  /\ req' = [r \in Requests |->
       IF Timed(r) THEN [req[r] EXCEPT !.wait = @ + 1] ELSE req[r]]
  /\ reply' = None
  /\ UNCHANGED <<gate, released>>

\* policy-sync restarts, or its cache is full and this is the oldest entry.
EnrichForgets ==
  /\ enrich # None
  /\ enrich' = None
  /\ reply' = None
  /\ UNCHANGED <<world, blip, gateway, req>>

\* devpi's constrained index is read, if it is up; of an empty one it may say
\* that there is no such project.
Answer(r) ==
  /\ req[r].at = "base" /\ req[r].heard = None
  /\ \E status \in {"ok", "missing", "error"} :
       /\ status = "missing" => gate = {}
       /\ req' = [req EXCEPT ![r].heard = status,
                  ![r].base = IF status = "ok" THEN gate ELSE None]
  /\ reply' = None
  /\ UNCHANGED <<world, blip, enrich, gateway>>

Hears(r, status) == req[r].at = "base" /\ req[r].heard = status

-----------------------------------------------------------------------------
(* nginx around policy-sync: the location /_enrich *)

GoTo(r, call, step) ==
  /\ req' = [req EXCEPT ![r] = [call EXCEPT !.at = step, !.heard = None,
                                            !.wait = 0]]
  /\ reply' = None

Reply(r, call, status, page) ==
  /\ req' = [req EXCEPT ![r] = Idle]
  /\ reply' = [status |-> status, page |-> page, branch |-> call.branch,
               absent |-> call.absent, bare |-> call.bare, due |-> call.due]

\* policy-sync has a page: nginx keeps it, if the request was to fill the
\* cache, and passes it on.
Deliver(r, call, page) ==
  /\ gateway' = IF call.fills
                THEN [gateway EXCEPT ![call.branch] =
                        [page |-> page, left |-> GatewayTtl]]
                ELSE gateway
  /\ Reply(r, call, "page", page)

Missing(r) ==
  /\ Reply(r, req[r], "missing", Page({}, FALSE))
  /\ UNCHANGED gateway

\* An error is no news of the project.
Fails(r) ==
  /\ req' = [req EXCEPT ![r] = Idle]
  /\ reply' = None
  /\ UNCHANGED gateway

\* Mutant of EnrichBypass: nobody gets past the cache.
EnrichBypassNever(branch, call) == FALSE

\* $enrich_bypass: a client that asks to revalidate, on the private branch.
EnrichBypass(branch, call) == branch = "gitea" /\ call.bypass

\* The first thing enrich.py does: a public page that is fresh is the answer.
Fetch(r, call) ==
  IF call.branch = "devpi" /\ enrich # None /\ enrich.age < EnrichTtl
  THEN Deliver(r, call, enrich.page)
  ELSE /\ GoTo(r, call, IF call.branch = "devpi" THEN "base" ELSE "page")
       /\ UNCHANGED gateway

Filled(call) == \E u \in Requests :
  req[u].fills /\ req[u].branch = call.branch /\ ~req[u].bypass

\* /_enrich for a branch: from nginx's cache; or wait for whoever is filling
\* it; or ask policy-sync.
Enrich(r, branch) ==
  LET kept == IF branch = "gitea" THEN req[r].due ELSE {}
      call == Witnessed(
        [req[r] EXCEPT !.branch = branch, !.fills = FALSE, !.due = kept,
                       !.bypass = EnrichBypass(branch, req[r])],
        released, gate)
      first == [call EXCEPT !.fills = TRUE]
  IN IF call.bypass THEN Fetch(r, first)
     ELSE IF gateway[branch] # None
     THEN Reply(r, call, "page", gateway[branch].page) /\ UNCHANGED gateway
     ELSE IF Filled(call) THEN GoTo(r, call, "lock") /\ UNCHANGED gateway
     ELSE Fetch(r, first)

\* proxy_cache_lock: the cache is filled, or it is this request's turn to fill
\* it, or the lock times out.
LockEnds(r) ==
  /\ req[r].at = "lock"
  /\ LET call == req[r] IN
     \/ /\ gateway[call.branch] # None
        /\ Reply(r, call, "page", gateway[call.branch].page)
        /\ UNCHANGED gateway
     \/ /\ gateway[call.branch] = None /\ ~Filled(call)
        /\ Fetch(r, [call EXCEPT !.fills = TRUE])
     \/ /\ gateway[call.branch] = None /\ call.wait = MaxLag
        /\ \E fills \in BOOLEAN : Fetch(r, [call EXCEPT !.fills = fills])
  /\ UNCHANGED <<world, blip, enrich>>

-----------------------------------------------------------------------------
(* enrichRoute *)

Arrive(r, bypass) ==
  /\ req[r].at = "idle"
  /\ GoTo(r, Witnessed([Idle EXCEPT !.at = "probe", !.bypass = bypass,
                                    !.due = IF bypass THEN released ELSE {}],
                      released, gate),
          "probe")
  /\ UNCHANGED <<world, blip, enrich, gateway>>

ProbeHit(r) ==
  /\ req[r].at = "probe" /\ released # {}
  /\ Enrich(r, "gitea")
  /\ UNCHANGED <<world, blip, enrich>>

ProbeMiss(r) ==
  /\ req[r].at = "probe" /\ released = {}
  /\ Enrich(r, "devpi")
  /\ UNCHANGED <<world, blip, enrich>>

\* Mutant of ProbeFails: when Gitea does not say, the public index does.
ProbeFailsOpen(r) ==
  /\ req[r].at = "probe"
  /\ Enrich(r, "devpi")
  /\ UNCHANGED <<world, blip, enrich>>

\* Gitea's 401 and 403 are passed on, anything else is a 502.
ProbeFails(r) ==
  /\ req[r].at = "probe"
  /\ Fails(r)
  /\ UNCHANGED <<world, blip, enrich>>

-----------------------------------------------------------------------------
(* enrich_gitea *)

\* Gitea's page, joined with what _gitea_version_meta knows of its versions.
PageHit(r) ==
  /\ req[r].at = "page" /\ released # {}
  /\ Deliver(r, req[r], Page(released, TRUE))
  /\ UNCHANGED <<world, blip, enrich>>

\* A call for a version fails: a page without upload times is still a page.
PageUnstamped(r) ==
  /\ req[r].at = "page" /\ released # {}
  /\ blip' = 0
  /\ Deliver(r, req[r], Page(released, FALSE))
  /\ UNCHANGED <<world, enrich>>

\* The package is gone since the probe: the public index after all.
PageMiss(r) ==
  /\ req[r].at = "page" /\ released = {}
  /\ Enrich(r, "devpi")
  /\ UNCHANGED <<world, blip, enrich>>

PageFails(r) ==
  /\ req[r].at = "page"
  /\ Fails(r)
  /\ UNCHANGED <<world, blip, enrich>>

-----------------------------------------------------------------------------
(* enrich_devpi *)

\* Mutant of FallBack: a page that is fallen back on is as good as new.
FallBackRenewing(r) ==
  /\ Deliver(r, req[r], [enrich.page EXCEPT !.stale = TRUE])
  /\ enrich' = [enrich EXCEPT !.age = 0]

\* get_stale has a page: it is the answer.
FallBack(r) ==
  /\ Deliver(r, req[r], [enrich.page EXCEPT !.stale = TRUE])
  /\ UNCHANGED enrich

BaseHit(r) ==
  /\ Hears(r, "ok")
  /\ GoTo(r, req[r], "meta")
  /\ UNCHANGED <<world, blip, enrich, gateway>>

BaseMiss(r) ==
  /\ Hears(r, "missing")
  /\ Missing(r)
  /\ UNCHANGED <<world, blip, enrich>>

\* Mutant of BaseFails: an index that cannot be read is an index of nothing.
BaseFailsEmpty(r) ==
  /\ Hears(r, "error")
  /\ IF enrich # None THEN FallBack(r)
     ELSE Missing(r) /\ UNCHANGED enrich
  /\ UNCHANGED <<world, blip>>

BaseFails(r) ==
  /\ Hears(r, "error")
  /\ IF enrich # None THEN FallBack(r)
     ELSE Fails(r) /\ UNCHANGED enrich
  /\ UNCHANGED <<world, blip>>

MetaHit(r) ==
  /\ req[r].at = "meta"
  /\ LET page == Page(req[r].base, TRUE)
     IN enrich' = [page |-> page, age |-> 0] /\ Deliver(r, req[r], page)
  /\ UNCHANGED <<world, blip>>

\* Mutant of MetaFails: a page without upload times is cached like any other.
MetaFailsCached(r) ==
  /\ req[r].at = "meta"
  /\ blip' = 0
  /\ LET page == Page(req[r].base, FALSE)
     IN IF enrich # None THEN FallBack(r)
        ELSE enrich' = [page |-> page, age |-> 0] /\ Deliver(r, req[r], page)
  /\ UNCHANGED <<world>>

\* An older page with upload times rather than the files just read without.
MetaFails(r) ==
  /\ req[r].at = "meta"
  /\ blip' = 0
  /\ IF enrich # None THEN FallBack(r)
     ELSE Deliver(r, req[r], Page(req[r].base, FALSE)) /\ UNCHANGED enrich
  /\ UNCHANGED <<world>>

Next ==
  \/ \E listed \in SUBSET Files : Gate(listed)
  \/ \E rel \in SUBSET Releases : Release(rel)
  \/ Tick \/ EnrichForgets
  \/ \E r \in Requests :
       \/ \E bypass \in BOOLEAN : Arrive(r, bypass)
       \/ Answer(r) \/ LockEnds(r)
       \/ ProbeHit(r) \/ ProbeMiss(r) \/ ProbeFails(r)
       \/ PageHit(r) \/ PageUnstamped(r) \/ PageMiss(r) \/ PageFails(r)
       \/ BaseHit(r) \/ BaseMiss(r) \/ BaseFails(r)
       \/ MetaHit(r) \/ MetaFails(r)

Spec == Init /\ [][Next]_vars

-----------------------------------------------------------------------------
(* Properties *)

\* A public page, or the news that there is no such project, means that Gitea
\* was without a package of the name at some moment of the request: nothing
\* that is down, cached or published meanwhile puts a public package in the
\* place of a private one.  And no project is reported missing that devpi
\* listed files of throughout: an index that cannot be read is an error.
PrivateShadowsPublic ==
  reply # None =>
    /\ reply.status = "page" /\ reply.branch = "devpi" => reply.absent
    /\ reply.status = "missing" => reply.absent /\ reply.bare

\* A file that devpi's policy dropped leaves the public page within a bound,
\* whatever overtakes what: another for pages that devpi's outage, or its
\* metadata's, made enrich_devpi fall back on.
DroppedFilesLeave ==
  reply # None /\ reply.status = "page" /\ reply.branch = "devpi" =>
    \A f \in reply.page.files : out[f] < Exposure(reply.page.stale)

\* A client that asks to revalidate gets every private file that was there when
\* it asked, whatever the caches hold.
JustPublishedIsListed ==
  reply # None /\ reply.status = "page" /\ reply.branch = "gitea" =>
    reply.due \subseteq reply.page.files

\* Upload times are missing only for as long as nginx keeps a page: what lacks
\* them for a failed call is never kept by policy-sync.
UnstampedIsBrief ==
  reply # None /\ reply.status = "page" /\ ~reply.page.stamped =>
    blip < GatewayTtl
=============================================================================
