------------------------- MODULE SimpleIndexProofs -------------------------
(***************************************************************************)
(* SimpleIndex is type-correct and keeps its promises for any number of    *)
(* requests, files and releases, any TTLs and any duration of the calls.   *)
(***************************************************************************)
EXTENDS SimpleIndex, TLAPS

Entries == [page : Pages, age : 0..StaleMax - 1]
KeptPages == [page : Pages, left : 1..GatewayTtl]

Life(stale) == IF stale THEN StaleMax ELSE EnrichTtl

\* A page of a branch that is about to be delivered.
Good(branch, page, age) ==
  /\ page \in Pages
  /\ branch = "devpi" => \A f \in page.files :
       f \in Files /\ out[f] <= 2 * MaxLag + Life(page.stale) - 1
  /\ ~page.stamped => age = 0

\* A page of a branch in nginx's cache.
Fit(branch, kept, age) ==
  /\ branch = "devpi" => \A f \in kept.page.files :
       /\ f \in Files
       /\ out[f] <= 2 * MaxLag + Life(kept.page.stale) - 1
                      + GatewayTtl - kept.left
  /\ ~kept.page.stamped => age <= GatewayTtl - kept.left

OutInv == \A f \in gate : out[f] = 0
EnrichInv ==
  enrich # None =>
    /\ enrich.page.stamped /\ ~enrich.page.stale
    /\ \A f \in enrich.page.files :
         f \in Files /\ out[f] <= 2 * MaxLag + enrich.age
GatewayInv ==
  \A b \in Branches : gateway[b] # None => Fit(b, gateway[b], blip)

\* What a request has seen, by where it is.
Witness(c) ==
  /\ c.branch = "devpi" => c.absent /\ ~c.bypass
  /\ c.branch = "devpi" /\ gate = {} => c.bare
  /\ c.heard = "missing" => c.bare
  /\ c.due \subseteq released
  /\ ~c.bypass => c.due = {}
  /\ c.fills => c.branch \in Branches
Place(c) ==
  /\ c.at \in {"base", "meta"} => c.branch = "devpi"
  /\ c.at = "page" => c.branch = "gitea"
  /\ c.at = "lock" => c.branch \in Branches /\ ~c.bypass
Recent(c) ==
  /\ c.at = "base" /\ c.heard = "ok" =>
       c.base \in SUBSET Files /\ \A f \in c.base : out[f] <= c.wait
  /\ c.at = "meta" =>
       c.base \in SUBSET Files /\ \A f \in c.base : out[f] <= MaxLag + c.wait

CallInv(c) == Witness(c) /\ Place(c) /\ Recent(c)

Promises ==
  /\ PrivateShadowsPublic /\ DroppedFilesLeave
  /\ JustPublishedIsListed /\ UnstampedIsBrief

CachesInv ==
  /\ blip \in 0..GatewayTtl
  /\ enrich \in {None} \cup Entries /\ EnrichInv
  /\ gateway \in [Branches -> {None} \cup KeptPages] /\ GatewayInv

IInv ==
  /\ TypeOK
  /\ OutInv /\ EnrichInv /\ GatewayInv
  /\ \A r \in Requests : CallInv(req[r])
  /\ Promises
-----------------------------------------------------------------------------
(* A request goes on, is answered, or fails *)

LEMMA CallStep ==
  ASSUME IInv, NEW r \in Requests, NEW next \in Calls, CallInv(next),
         req' = [req EXCEPT ![r] = next], UNCHANGED world,
         CachesInv', Promises'
  PROVE  IInv'
<1>1. req' \in [Requests -> Calls]
  BY DEF IInv, TypeOK
<1>2. TypeOK' /\ OutInv' /\ EnrichInv' /\ GatewayInv'
  BY <1>1 DEF IInv, TypeOK, OutInv, CachesInv, Entries, KeptPages, world
<1>3. \A u \in Requests : CallInv(req[u])'
  <2> SUFFICES ASSUME NEW u \in Requests PROVE CallInv(req[u])'
    OBVIOUS
  <2>1. req'[u] = IF u = r THEN next ELSE req[u]
    BY DEF IInv, TypeOK
  <2>2. CallInv(req'[u])
    BY <2>1 DEF IInv
  <2> QED
    BY <2>2 DEF CallInv, Witness, Place, Recent, world
<1> QED
  BY <1>2, <1>3 DEF IInv

LEMMA IdleCall == Idle \in Calls /\ CallInv(Idle)
<1>1. Idle \in Calls
  BY TimesAssumption DEF Idle, Calls, Steps
<1>2. CallInv(Idle)
  BY NoneAssumption DEF Idle, CallInv, Witness, Place, Recent
<1> QED
  BY <1>1, <1>2

LEMMA SameCaches ==
  ASSUME IInv, UNCHANGED <<world, enrich, gateway>>, blip' \in {blip, 0}
  PROVE  CachesInv'
<1>1. blip \in Nat /\ blip' \in 0..GatewayTtl /\ blip' <= blip
  BY TimesAssumption DEF IInv, TypeOK
<1>2. enrich' \in {None} \cup Entries /\ EnrichInv'
  BY DEF IInv, TypeOK, Entries, EnrichInv, world
<1>3. gateway' \in [Branches -> {None} \cup KeptPages]
  BY DEF IInv, TypeOK, KeptPages
<1>4. GatewayInv'
  <2> SUFFICES ASSUME NEW b \in Branches, gateway[b] # None
               PROVE  Fit(b, gateway[b], blip)'
    BY DEF GatewayInv
  <2>1. Fit(b, gateway[b], blip) /\ gateway[b].left \in Nat
    BY TimesAssumption DEF IInv, GatewayInv, TypeOK
  <2> QED
    BY <1>1, <2>1, TimesAssumption DEF Fit, world
<1> QED
  BY <1>1, <1>2, <1>3, <1>4 DEF CachesInv

LEMMA GoToInv ==
  ASSUME IInv, NEW r \in Requests, NEW c \in Calls, NEW step \in Steps,
         CallInv([c EXCEPT !.at = step, !.heard = None, !.wait = 0]),
         GoTo(r, c, step), UNCHANGED world, CachesInv'
  PROVE  IInv'
<1> DEFINE next == [c EXCEPT !.at = step, !.heard = None, !.wait = 0]
<1>1. next \in Calls
  <2>1. 0 \in 0..MaxLag
    BY TimesAssumption
  <2> QED
    BY <2>1 DEF Calls
<1>2. req' = [req EXCEPT ![r] = next] /\ reply' = None
  BY DEF GoTo
<1>3. Promises'
  BY <1>2 DEF Promises, PrivateShadowsPublic, DroppedFilesLeave,
              JustPublishedIsListed, UnstampedIsBrief
<1> QED
  BY <1>1, <1>2, <1>3, CallStep

LEMMA FailsInv ==
  ASSUME IInv, NEW r \in Requests, Fails(r), UNCHANGED <<world, blip, enrich>>
  PROVE  IInv'
<1>1. req' = [req EXCEPT ![r] = Idle] /\ reply' = None /\ UNCHANGED gateway
  BY DEF Fails
<1>2. Promises'
  BY <1>1 DEF Promises, PrivateShadowsPublic, DroppedFilesLeave,
              JustPublishedIsListed, UnstampedIsBrief
<1> QED
  BY <1>1, <1>2, CallStep, IdleCall, SameCaches

\* The answer that there is no such project.
LEMMA MissingInv ==
  ASSUME IInv, NEW r \in Requests, Missing(r), req[r].absent, req[r].bare,
         UNCHANGED <<world, blip, enrich>>
  PROVE  IInv'
<1>1. req' = [req EXCEPT ![r] = Idle] /\ UNCHANGED gateway
  BY DEF Missing, Reply
<1>2. /\ reply'.status = "missing"
      /\ reply'.absent = req[r].absent /\ reply'.bare = req[r].bare
  BY DEF Missing, Reply
<1>3. Promises'
  BY <1>2 DEF Promises, PrivateShadowsPublic, DroppedFilesLeave,
              JustPublishedIsListed, UnstampedIsBrief
<1> QED
  BY <1>1, <1>3, CallStep, IdleCall, SameCaches

\* A page may be an answer.
LEMMA PageReply ==
  ASSUME NEW r \in Requests, NEW c \in Calls, NEW page, Witness(c),
         Reply(r, c, "page", page), UNCHANGED world,
         c.branch = "devpi" =>
           \A f \in page.files : out[f] < Exposure(page.stale),
         c.branch = "gitea" => c.due \subseteq page.files,
         ~page.stamped => blip' < GatewayTtl
  PROVE  Promises'
<1>1. /\ reply'.status = "page" /\ reply'.page = page
      /\ reply'.branch = c.branch /\ reply'.due = c.due
      /\ reply'.absent = c.absent
  BY DEF Reply
<1>2. out' = out
  BY DEF world
<1>3. PrivateShadowsPublic'
  BY <1>1 DEF PrivateShadowsPublic, Witness
<1>4. DroppedFilesLeave'
  BY <1>1, <1>2 DEF DroppedFilesLeave
<1>5. JustPublishedIsListed' /\ UnstampedIsBrief'
  BY <1>1 DEF JustPublishedIsListed, UnstampedIsBrief
<1> QED
  BY <1>3, <1>4, <1>5 DEF Promises

LEMMA LifeTime ==
  ASSUME NEW stale \in BOOLEAN
  PROVE  /\ Life(stale) \in Nat /\ Life(stale) >= EnrichTtl
         /\ Exposure(stale) = 2 * MaxLag + GatewayTtl - 1 + Life(stale)
  BY TimesAssumption DEF Life, Exposure

LEMMA DeliverInv ==
  ASSUME IInv, NEW r \in Requests, NEW c \in Calls, NEW page, Witness(c),
         c.branch \in Branches, Good(c.branch, page, blip'),
         c.branch = "gitea" => c.due \subseteq page.files,
         Deliver(r, c, page), UNCHANGED world, blip' \in {blip, 0},
         enrich' \in {None} \cup Entries, EnrichInv'
  PROVE  IInv'
<1>1. /\ req' = [req EXCEPT ![r] = Idle] /\ Reply(r, c, "page", page)
      /\ gateway' = IF c.fills
                    THEN [gateway EXCEPT ![c.branch] =
                            [page |-> page, left |-> GatewayTtl]]
                    ELSE gateway
  BY DEF Deliver, Reply
<1>2. blip \in Nat /\ blip' \in 0..GatewayTtl /\ blip' <= blip
  BY TimesAssumption DEF IInv, TypeOK
<1>3. page \in Pages /\ page.stale \in BOOLEAN
  BY DEF Good, Pages
<1>4. GatewayTtl \in Nat /\ GatewayTtl >= 1 /\ GatewayTtl \in 1..GatewayTtl
  BY TimesAssumption
<1> DEFINE kept == [page |-> page, left |-> GatewayTtl]
<1>5. kept \in KeptPages
  BY <1>3, <1>4 DEF KeptPages
<1>6. gateway \in [Branches -> {None} \cup KeptPages]
  BY DEF IInv, TypeOK, KeptPages
<1>7. gateway' \in [Branches -> {None} \cup KeptPages]
  BY <1>1, <1>5, <1>6
<1>8. Fit(c.branch, kept, blip')
  <2>1. Life(page.stale) \in Nat /\ MaxLag \in Nat
    BY <1>3, LifeTime, TimesAssumption
  <2>2. ASSUME c.branch = "devpi", NEW f \in page.files
        PROVE  f \in Files
               /\ out[f] <= 2 * MaxLag + Life(page.stale) - 1
                              + GatewayTtl - GatewayTtl
    <3>1. f \in Files /\ out[f] <= 2 * MaxLag + Life(page.stale) - 1
      BY <2>2 DEF Good
    <3>2. out[f] \in Nat
      BY <3>1 DEF IInv, TypeOK
    <3> QED
      BY <1>4, <2>1, <3>1, <3>2
  <2>3. ~page.stamped => blip' <= GatewayTtl - GatewayTtl
    BY <1>4 DEF Good
  <2> QED
    BY <2>2, <2>3 DEF Fit
<1>9. GatewayInv'
  <2> SUFFICES ASSUME NEW b \in Branches, gateway'[b] # None
               PROVE  Fit(b, gateway[b], blip)'
    BY DEF GatewayInv
  <2>1. CASE c.fills /\ b = c.branch
    <3>1. gateway'[b] = kept
      BY <1>1, <1>6, <2>1
    <3> QED
      BY <1>8, <2>1, <3>1 DEF Fit, world
  <2>2. CASE ~(c.fills /\ b = c.branch)
    <3>1. gateway'[b] = gateway[b]
      BY <1>1, <1>6, <2>2
    <3>2. Fit(b, gateway[b], blip) /\ gateway[b].left \in Nat
      BY <1>4, <3>1 DEF IInv, GatewayInv, TypeOK
    <3> QED
      BY <1>2, <1>4, <3>1, <3>2 DEF Fit, world
  <2> QED
    BY <2>1, <2>2
<1>10. CachesInv'
  BY <1>2, <1>7, <1>9 DEF CachesInv
<1>11. Promises'
  <2>1. c.branch = "devpi" =>
          \A f \in page.files : out[f] < Exposure(page.stale)
    <3> SUFFICES ASSUME c.branch = "devpi", NEW f \in page.files
                 PROVE  out[f] < Exposure(page.stale)
      OBVIOUS
    <3>1. f \in Files /\ out[f] <= 2 * MaxLag + Life(page.stale) - 1
      BY DEF Good
    <3>2. out[f] \in Nat
      BY <3>1 DEF IInv, TypeOK
    <3> QED
      BY <1>3, <1>4, <3>1, <3>2, LifeTime, TimesAssumption
  <2>2. ~page.stamped => blip' < GatewayTtl
    BY <1>4 DEF Good
  <2> QED
    BY <1>1, <2>1, <2>2, PageReply
<1> QED
  BY <1>1, <1>10, <1>11, CallStep, IdleCall

\* nginx has the page.
LEMMA KeptInv ==
  ASSUME IInv, NEW r \in Requests, NEW c \in Calls, Witness(c),
         c.branch \in Branches, c.due = {}, gateway[c.branch] # None,
         Reply(r, c, "page", gateway[c.branch].page),
         UNCHANGED <<world, blip, enrich, gateway>>
  PROVE  IInv'
<1> DEFINE kept == gateway[c.branch]
           page == kept.page
<1>1. kept \in KeptPages
  BY DEF IInv, TypeOK, KeptPages
<1>2. kept.left \in 1..GatewayTtl /\ page.stale \in BOOLEAN
  BY <1>1 DEF KeptPages, Pages
<1>3. Fit(c.branch, kept, blip)
  BY DEF IInv, GatewayInv
<1>4. Life(page.stale) \in Nat /\ MaxLag \in Nat /\ GatewayTtl \in Nat
      /\ Exposure(page.stale) = 2 * MaxLag + GatewayTtl - 1 + Life(page.stale)
  BY <1>2, LifeTime, TimesAssumption
<1>5. c.branch = "devpi" =>
        \A f \in page.files : out[f] < Exposure(page.stale)
  <2> SUFFICES ASSUME c.branch = "devpi", NEW f \in page.files
               PROVE  out[f] < Exposure(page.stale)
    OBVIOUS
  <2>1. f \in Files /\ out[f] <= 2 * MaxLag + Life(page.stale) - 1
                                   + GatewayTtl - kept.left
    BY <1>3 DEF Fit
  <2>2. out[f] \in Nat
    BY <2>1 DEF IInv, TypeOK
  <2> QED
    BY <1>2, <1>4, <2>1, <2>2
<1>6. ~page.stamped => blip' < GatewayTtl
  <2>1. blip \in Nat
    BY TimesAssumption DEF IInv, TypeOK
  <2> QED
    BY <1>2, <1>3, <1>4, <2>1 DEF Fit
<1>7. Promises'
  BY <1>5, <1>6, PageReply
<1>8. req' = [req EXCEPT ![r] = Idle]
  BY DEF Reply
<1> QED
  BY <1>7, <1>8, CallStep, IdleCall, SameCaches

-----------------------------------------------------------------------------
(* The steps of a request *)

\* Where a request goes that is not answered yet.
LEMMA MovedCall ==
  ASSUME NEW c \in Calls, Witness(c), NEW step \in {"base", "page", "lock"},
         c.branch \in Branches, step = "base" => c.branch = "devpi",
         step = "page" => c.branch = "gitea", step = "lock" => ~c.bypass
  PROVE  CallInv([c EXCEPT !.at = step, !.heard = None, !.wait = 0])
<1> DEFINE next == [c EXCEPT !.at = step, !.heard = None, !.wait = 0]
<1>1. /\ next.at = step /\ next.heard = None /\ next.branch = c.branch
      /\ next.bypass = c.bypass /\ next.absent = c.absent
      /\ next.bare = c.bare /\ next.due = c.due /\ next.fills = c.fills
  BY DEF Calls
<1>2. Witness(next)
  BY <1>1, NoneAssumption DEF Witness
<1>3. Place(next)
  BY <1>1 DEF Place
<1>4. Recent(next)
  BY <1>1, NoneAssumption DEF Recent
<1> QED
  BY <1>2, <1>3, <1>4 DEF CallInv

LEMMA FetchInv ==
  ASSUME IInv, NEW r \in Requests, NEW c \in Calls, Witness(c),
         c.branch \in Branches, Fetch(r, c), UNCHANGED <<world, blip, enrich>>
  PROVE  IInv'
<1>1. CASE c.branch = "devpi" /\ enrich # None /\ enrich.age < EnrichTtl
  <2>1. enrich \in Entries /\ Deliver(r, c, enrich.page)
    BY <1>1 DEF Fetch, IInv, TypeOK, Entries
  <2> DEFINE page == enrich.page
  <2>2. page \in Pages /\ enrich.age \in Nat
    BY <2>1, TimesAssumption DEF Entries
  <2>3. page.stamped /\ ~page.stale
    BY <1>1 DEF IInv, EnrichInv
  <2>4. Life(page.stale) = EnrichTtl
    BY <2>3 DEF Life
  <2>5. ASSUME NEW f \in page.files
        PROVE  f \in Files
               /\ out[f] <= 2 * MaxLag + Life(page.stale) - 1
    <3>1. f \in Files /\ out[f] <= 2 * MaxLag + enrich.age
      BY <1>1 DEF IInv, EnrichInv
    <3>2. out[f] \in Nat
      BY <3>1 DEF IInv, TypeOK
    <3> QED
      BY <1>1, <2>2, <2>4, <3>1, <3>2, TimesAssumption
  <2>6. Good(c.branch, page, blip')
    BY <2>2, <2>3, <2>5 DEF Good
  <2>7. c.branch # "gitea"
    BY <1>1
  <2>8. enrich' \in {None} \cup Entries /\ EnrichInv' /\ blip' \in {blip, 0}
    BY DEF IInv, TypeOK, Entries, EnrichInv, world
  <2> QED
    BY <2>1, <2>6, <2>7, <2>8, DeliverInv
<1>2. CASE ~(c.branch = "devpi" /\ enrich # None /\ enrich.age < EnrichTtl)
  <2> DEFINE step == IF c.branch = "devpi" THEN "base" ELSE "page"
  <2>1. GoTo(r, c, step) /\ UNCHANGED gateway
    BY <1>2 DEF Fetch
  <2>2. step \in Steps /\ step \in {"base", "page", "lock"}
    BY DEF Steps
  <2>3. CallInv([c EXCEPT !.at = step, !.heard = None, !.wait = 0])
    BY <2>2, MovedCall DEF Branches
  <2>4. CachesInv'
    BY <2>1, SameCaches
  <2> QED
    BY <2>1, <2>2, <2>3, <2>4, GoToInv
<1> QED
  BY <1>1, <1>2

\* What a request sees of the world is all that changes of it.
LEMMA WitnessedCall ==
  ASSUME NEW c \in Calls, NEW rel, NEW listed
  PROVE  LET w == Witnessed(c, rel, listed) IN
         /\ w \in Calls
         /\ w.at = c.at /\ w.branch = c.branch /\ w.bypass = c.bypass
         /\ w.fills = c.fills /\ w.heard = c.heard
         /\ w.base = c.base /\ w.wait = c.wait
         /\ w.absent = (c.absent \/ (c.at # "idle" /\ rel = {}))
         /\ w.bare = (c.bare \/ (c.branch = "devpi" /\ listed = {}))
         /\ w.due = c.due \cap rel
<1>1. c.due \cap rel \in SUBSET Releases
  BY DEF Calls
<1>2. PICK a \in BOOLEAN : a = (c.absent \/ (c.at # "idle" /\ rel = {}))
  OBVIOUS
<1>3. PICK b \in BOOLEAN : b = (c.bare \/ (c.branch = "devpi" /\ listed = {}))
  OBVIOUS
<1> DEFINE w == [c EXCEPT !.absent = a, !.bare = b, !.due = c.due \cap rel]
<1>4. Witnessed(c, rel, listed) = w
  BY <1>2, <1>3, Zenon DEF Witnessed
<1>5. /\ w \in Calls
      /\ w.at = c.at /\ w.branch = c.branch /\ w.bypass = c.bypass
      /\ w.fills = c.fills /\ w.heard = c.heard
      /\ w.base = c.base /\ w.wait = c.wait
      /\ w.absent = a /\ w.bare = b /\ w.due = c.due \cap rel
  BY <1>1 DEF Calls
<1> HIDE DEF w
<1> QED
  BY <1>2, <1>3, <1>4, <1>5, Zenon

\* Another branch is asked for: the other one only when there is no package.
LEMMA EnrichStep ==
  ASSUME IInv, NEW r \in Requests, NEW branch \in Branches,
         req[r].at # "idle", branch = "devpi" => released = {},
         Enrich(r, branch), UNCHANGED <<world, blip, enrich>>
  PROVE  IInv'
<1> DEFINE kept == IF branch = "gitea" THEN req[r].due ELSE {}
           asked == [req[r] EXCEPT !.branch = branch, !.fills = FALSE,
                       !.due = kept, !.bypass = EnrichBypass(branch, req[r])]
           call == Witnessed(asked, released, gate)
           first == [call EXCEPT !.fills = TRUE]
<1>1. req[r] \in Calls /\ Witness(req[r])
  BY DEF IInv, TypeOK, CallInv
<1>2. EnrichBypass(branch, req[r]) \in BOOLEAN
  BY <1>1 DEF EnrichBypass, Calls
<1>3. asked \in Calls
  BY <1>1, <1>2 DEF Calls
<1>4. /\ asked.at = req[r].at /\ asked.branch = branch /\ ~asked.fills
      /\ asked.due = kept /\ asked.bypass = EnrichBypass(branch, req[r])
      /\ asked.heard = req[r].heard /\ asked.bare = req[r].bare
  BY <1>1 DEF Calls
<1>5. /\ call.at = req[r].at /\ call.branch = branch /\ ~call.fills
      /\ call.due = kept \cap released
      /\ call.bypass = EnrichBypass(branch, req[r])
      /\ call.heard = req[r].heard
      /\ call.absent = (asked.absent \/ (asked.at # "idle" /\ released = {}))
      /\ call.bare = (asked.bare \/ (asked.branch = "devpi" /\ gate = {}))
  <2> HIDE DEF asked
  <2>1. /\ call.at = asked.at /\ call.branch = asked.branch
        /\ call.bypass = asked.bypass /\ call.fills = asked.fills
        /\ call.heard = asked.heard /\ call.due = asked.due \cap released
        /\ call.absent = (asked.absent \/ (asked.at # "idle" /\ released = {}))
        /\ call.bare = (asked.bare \/ (asked.branch = "devpi" /\ gate = {}))
    <3> USE <1>3
    <3>1. call.at = asked.at /\ call.branch = asked.branch
      BY WitnessedCall
    <3>2. call.bypass = asked.bypass /\ call.fills = asked.fills
      BY WitnessedCall
    <3>3. call.heard = asked.heard /\ call.due = asked.due \cap released
      BY WitnessedCall
    <3>4. call.absent = (asked.absent \/ (asked.at # "idle" /\ released = {}))
      BY WitnessedCall
    <3>5. call.bare = (asked.bare \/ (asked.branch = "devpi" /\ gate = {}))
      BY WitnessedCall
    <3> QED
      BY <3>1, <3>2, <3>3, <3>4, <3>5
  <2> QED
    BY <1>4, <2>1, Zenon
<1>6. call \in Calls
  BY <1>3, WitnessedCall
<1>7. Witness(call)
  <2>1. branch = "devpi" => call.absent
    BY <1>4, <1>5
  <2>2. branch = "devpi" => ~call.bypass
    BY <1>5 DEF EnrichBypass
  <2>3. branch = "devpi" /\ gate = {} => call.bare
    BY <1>4, <1>5
  <2>4. call.heard = "missing" => call.bare
    BY <1>1, <1>4, <1>5 DEF Witness
  <2>5. ~call.bypass => call.due = {}
    BY <1>1, <1>5 DEF EnrichBypass, Witness
  <2> QED
    BY <1>5, <2>1, <2>2, <2>3, <2>4, <2>5 DEF Witness
<1>8. /\ first \in Calls /\ first.branch = branch
      /\ first.at = call.at /\ first.heard = call.heard
      /\ first.bypass = call.bypass /\ first.absent = call.absent
      /\ first.bare = call.bare /\ first.due = call.due
  BY <1>5, <1>6 DEF Calls
<1>9. Witness(first)
  BY <1>5, <1>7, <1>8 DEF Witness
<1>10. CASE Fetch(r, first)
  BY <1>8, <1>9, <1>10, FetchInv
<1>11. CASE ~call.bypass /\ gateway[branch] # None
            /\ Reply(r, call, "page", gateway[branch].page)
            /\ UNCHANGED gateway
  <2>1. call.due = {}
    BY <1>7, <1>11 DEF Witness
  <2> QED
    BY <1>5, <1>6, <1>7, <1>11, <2>1, KeptInv
<1>12. CASE ~call.bypass /\ GoTo(r, call, "lock") /\ UNCHANGED gateway
  <2>1. CallInv([call EXCEPT !.at = "lock", !.heard = None, !.wait = 0])
    BY <1>5, <1>6, <1>7, <1>12, MovedCall
  <2>2. "lock" \in Steps /\ CachesInv'
    BY <1>12, SameCaches DEF Steps
  <2> QED
    BY <1>6, <1>12, <2>1, <2>2, GoToInv
<1> QED
  BY <1>10, <1>11, <1>12 DEF Enrich

LEMMA LockEndsInv ==
  ASSUME IInv, NEW r \in Requests, LockEnds(r)
  PROVE  IInv'
<1> DEFINE call == req[r]
           first(fills) == [call EXCEPT !.fills = fills]
<1>1. call \in Calls /\ Witness(call) /\ call.at = "lock"
  BY DEF IInv, TypeOK, CallInv, LockEnds
<1>2. call.branch \in Branches /\ ~call.bypass
  BY <1>1 DEF IInv, CallInv, Place
<1>3. UNCHANGED <<world, blip, enrich>>
  BY DEF LockEnds
<1>4. ASSUME NEW fills \in BOOLEAN, Fetch(r, first(fills))
      PROVE  IInv'
  <2> DEFINE c == first(fills)
  <2>1. /\ c \in Calls /\ c.branch = call.branch /\ c.at = call.at
        /\ c.heard = call.heard /\ c.bypass = call.bypass
        /\ c.absent = call.absent /\ c.bare = call.bare
        /\ c.due = call.due
    BY <1>1 DEF Calls
  <2>2. Witness(c)
    BY <1>1, <1>2, <2>1 DEF Witness
  <2> QED
    BY <1>2, <1>3, <1>4, <2>1, <2>2, FetchInv
<1>5. CASE gateway[call.branch] # None
           /\ Reply(r, call, "page", gateway[call.branch].page)
           /\ UNCHANGED gateway
  <2>1. call.due = {}
    BY <1>1, <1>2 DEF Witness
  <2> QED
    BY <1>1, <1>2, <1>3, <1>5, <2>1, KeptInv
<1> QED
  BY <1>4, <1>5 DEF LockEnds

LEMMA ArriveInv ==
  ASSUME IInv, NEW r \in Requests, NEW bypass \in BOOLEAN, Arrive(r, bypass)
  PROVE  IInv'
<1> DEFINE due == IF bypass THEN released ELSE {}
           come == [Idle EXCEPT !.at = "probe", !.bypass = bypass,
                                !.due = due]
           c == Witnessed(come, released, gate)
           next == [c EXCEPT !.at = "probe", !.heard = None, !.wait = 0]
<1>1. due \in SUBSET Releases
  BY DEF IInv, TypeOK
<1>2. /\ come \in Calls /\ come.branch = None /\ come.bypass = bypass
      /\ come.due = due /\ ~come.fills
  <2>1. Idle \in Calls /\ Idle.branch = None /\ ~Idle.fills
    BY IdleCall DEF Idle
  <2>2. "probe" \in Steps
    BY DEF Steps
  <2> QED
    BY <1>1, <2>1, <2>2 DEF Calls
<1> HIDE DEF come
<1>3. c \in Calls /\ c.branch = come.branch
  BY <1>2, WitnessedCall
<1>4. c.bypass = come.bypass /\ c.fills = come.fills
  BY <1>2, WitnessedCall
<1>5. c.due = come.due \cap released
  BY <1>2, WitnessedCall
<1>6. /\ next.at = "probe" /\ next.heard = None /\ next.branch = None
      /\ next.bypass = bypass /\ next.due \subseteq due /\ ~next.fills
  BY <1>2, <1>3, <1>4, <1>5 DEF Calls
<1>7. CallInv(next)
  BY <1>6, NoneAssumption DEF IInv, CallInv, Witness, Place, Recent
<1>8. GoTo(r, c, "probe") /\ UNCHANGED <<world, blip, enrich, gateway>>
  BY DEF Arrive, come
<1>9. "probe" \in Steps /\ CachesInv'
  BY <1>8, SameCaches DEF Steps
<1> QED
  BY <1>3, <1>7, <1>8, <1>9, GoToInv

LEMMA ProbeInv ==
  ASSUME IInv, NEW r \in Requests,
         ProbeHit(r) \/ ProbeMiss(r) \/ ProbeFails(r)
  PROVE  IInv'
<1>1. CASE ProbeHit(r)
  BY <1>1, EnrichStep DEF ProbeHit, Branches
<1>2. CASE ProbeMiss(r)
  BY <1>2, EnrichStep DEF ProbeMiss, Branches
<1>3. CASE ProbeFails(r)
  BY <1>3, FailsInv DEF ProbeFails
<1> QED
  BY <1>1, <1>2, <1>3

\* A private page.
LEMMA PageInv ==
  ASSUME IInv, NEW r \in Requests,
         PageHit(r) \/ PageUnstamped(r) \/ PageMiss(r) \/ PageFails(r)
  PROVE  IInv'
<1>1. req[r] \in Calls /\ Witness(req[r])
  BY DEF IInv, TypeOK, CallInv
<1>2. ASSUME NEW stamped \in BOOLEAN, req[r].at = "page",
             Deliver(r, req[r], Page(released, stamped)),
             stamped \/ blip' = 0, blip' \in {blip, 0},
             UNCHANGED <<world, enrich>>
      PROVE  IInv'
  <2> DEFINE page == Page(released, stamped)
  <2>1. req[r].branch = "gitea"
    BY <1>2 DEF IInv, CallInv, Place
  <2>2. page \in Pages /\ page.files = released /\ page.stamped = stamped
    BY DEF IInv, TypeOK, Page, Pages
  <2>3. Good(req[r].branch, page, blip')
    BY <1>2, <2>1, <2>2 DEF Good
  <2>4. req[r].due \subseteq page.files
    BY <1>1, <2>2 DEF Witness
  <2>5. enrich' \in {None} \cup Entries /\ EnrichInv'
    BY <1>2 DEF IInv, TypeOK, Entries, EnrichInv, world
  <2>6. req[r].branch \in Branches
    BY <2>1 DEF Branches
  <2> QED
    BY <1>1, <1>2, <2>3, <2>4, <2>5, <2>6, DeliverInv
<1>3. CASE PageHit(r)
  BY <1>2, <1>3 DEF PageHit
<1>4. CASE PageUnstamped(r)
  BY <1>2, <1>4 DEF PageUnstamped
<1>5. CASE PageMiss(r)
  BY <1>5, EnrichStep DEF PageMiss, Branches
<1>6. CASE PageFails(r)
  BY <1>6, FailsInv DEF PageFails
<1> QED
  BY <1>3, <1>4, <1>5, <1>6

\* devpi's index has been read.
LEMMA AnswerInv ==
  ASSUME IInv, NEW r \in Requests, Answer(r)
  PROVE  IInv'
<1> DEFINE call == req[r]
<1>1. PICK status \in {"ok", "missing", "error"} :
        /\ status = "missing" => gate = {}
        /\ req' = [req EXCEPT ![r].heard = status,
                   ![r].base = IF status = "ok" THEN gate ELSE None]
  BY DEF Answer
<1> DEFINE base == IF status = "ok" THEN gate ELSE None
           next == [call EXCEPT !.heard = status, !.base = base]
<1>2. call \in Calls /\ CallInv(call) /\ call.at = "base"
  BY DEF IInv, TypeOK, Answer
<1>3. base \in {None} \cup SUBSET Files
  BY DEF IInv, TypeOK
<1>4. /\ next \in Calls /\ next.at = "base" /\ next.heard = status
      /\ next.base = base /\ next.wait = call.wait
      /\ next.branch = call.branch /\ next.bypass = call.bypass
      /\ next.absent = call.absent /\ next.bare = call.bare
      /\ next.due = call.due /\ next.fills = call.fills
  BY <1>2, <1>3 DEF Calls
<1>5. call.branch = "devpi"
  BY <1>2 DEF CallInv, Place
<1>6. Witness(next)
  BY <1>1, <1>2, <1>4, <1>5 DEF CallInv, Witness
<1>7. Place(next)
  BY <1>4, <1>5 DEF Place
<1>8. Recent(next)
  <2>1. ASSUME status = "ok", NEW f \in base
        PROVE  out[f] <= next.wait
    <3>1. out[f] = 0
      BY <2>1 DEF IInv, OutInv
    <3> QED
      BY <1>2, <1>4, <3>1, TimesAssumption DEF Calls
  <2>2. status = "ok" => base \in SUBSET Files
    BY DEF IInv, TypeOK
  <2> QED
    BY <1>4, <2>1, <2>2 DEF Recent
<1>9. /\ req' = [req EXCEPT ![r] = next] /\ reply' = None
      /\ UNCHANGED <<world, blip, enrich, gateway>>
  BY <1>1 DEF Answer, IInv, TypeOK
<1>10. Promises'
  BY <1>9 DEF Promises, PrivateShadowsPublic, DroppedFilesLeave,
              JustPublishedIsListed, UnstampedIsBrief
<1> QED
  BY <1>4, <1>6, <1>7, <1>8, <1>9, <1>10, CallStep, SameCaches DEF CallInv

\* enrich_devpi falls back on what it has kept.
LEMMA FallBackInv ==
  ASSUME IInv, NEW r \in Requests, req[r].branch = "devpi", enrich # None,
         FallBack(r), UNCHANGED world, blip' \in {blip, 0}
  PROVE  IInv'
<1> DEFINE old == enrich.page
           page == [old EXCEPT !.stale = TRUE]
<1>1. req[r] \in Calls /\ Witness(req[r])
  BY DEF IInv, TypeOK, CallInv
<1>2. old \in Pages /\ enrich.age \in 0..StaleMax - 1 /\ old.stamped
  BY DEF IInv, TypeOK, EnrichInv
<1>3. /\ page \in Pages /\ page.files = old.files
      /\ page.stale /\ page.stamped
  BY <1>2 DEF Pages
<1>4. ASSUME NEW f \in page.files
      PROVE  f \in Files /\ out[f] <= 2 * MaxLag + Life(page.stale) - 1
  <2>1. f \in Files /\ out[f] <= 2 * MaxLag + enrich.age
    BY <1>3 DEF IInv, EnrichInv
  <2>2. out[f] \in Nat
    BY <2>1 DEF IInv, TypeOK
  <2>3. Life(page.stale) = StaleMax
    BY <1>3 DEF Life
  <2>4. enrich.age \in Nat /\ enrich.age <= StaleMax - 1
    BY <1>2, TimesAssumption
  <2>5. out[f] <= 2 * MaxLag + StaleMax - 1
    BY <2>1, <2>2, <2>4, TimesAssumption
  <2> QED
    BY <2>1, <2>3, <2>5, Zenon
<1>5. Good(req[r].branch, page, blip')
  BY <1>3, <1>4 DEF Good
<1>6. Deliver(r, req[r], page) /\ UNCHANGED enrich
  BY DEF FallBack
<1>7. enrich' \in {None} \cup Entries /\ EnrichInv'
  BY <1>6 DEF IInv, TypeOK, Entries, EnrichInv, world
<1>8. req[r].branch \in Branches /\ req[r].branch # "gitea"
  BY DEF Branches
<1> QED
  BY <1>1, <1>5, <1>6, <1>7, <1>8, DeliverInv

LEMMA BaseInv ==
  ASSUME IInv, NEW r \in Requests, BaseHit(r) \/ BaseMiss(r) \/ BaseFails(r)
  PROVE  IInv'
<1> DEFINE call == req[r]
           next == [call EXCEPT !.at = "meta", !.heard = None, !.wait = 0]
<1>1. call \in Calls /\ CallInv(call) /\ call.at = "base"
  BY DEF IInv, TypeOK, BaseHit, BaseMiss, BaseFails, Hears
<1>2. call.branch = "devpi" /\ call.absent
  BY <1>1 DEF CallInv, Place, Witness
<1>3. CASE BaseHit(r)
  <2>1. call.heard = "ok" /\ GoTo(r, call, "meta")
        /\ UNCHANGED <<world, blip, enrich, gateway>>
    BY <1>3 DEF BaseHit, Hears
  <2>2. /\ next.at = "meta" /\ next.heard = None /\ next.wait = 0
        /\ next.base = call.base /\ next.branch = call.branch
        /\ next.bypass = call.bypass /\ next.absent = call.absent
        /\ next.bare = call.bare /\ next.due = call.due
        /\ next.fills = call.fills
    BY <1>1 DEF Calls
  <2>3. Witness(next) /\ Place(next)
    BY <1>1, <1>2, <2>2, NoneAssumption DEF CallInv, Witness, Place
  <2>4. Recent(next)
    <3>1. /\ call.base \in SUBSET Files
          /\ \A f \in call.base : out[f] <= call.wait
      BY <1>1, <2>1 DEF CallInv, Recent
    <3>2. ASSUME NEW f \in call.base PROVE out[f] <= MaxLag + 0
      <4>1. out[f] \in Nat /\ out[f] <= call.wait
        BY <3>1 DEF IInv, TypeOK
      <4>2. call.wait \in 0..MaxLag
        BY <1>1 DEF Calls
      <4> QED
        BY <4>1, <4>2, TimesAssumption
    <3> QED
      BY <2>2, <3>1, <3>2 DEF Recent
  <2>5. "meta" \in Steps /\ CachesInv'
    BY <2>1, SameCaches DEF Steps
  <2> QED
    BY <1>1, <2>1, <2>3, <2>4, <2>5, GoToInv DEF CallInv
<1>4. CASE BaseMiss(r)
  <2>1. call.bare
    BY <1>1, <1>4 DEF BaseMiss, Hears, CallInv, Witness
  <2> QED
    BY <1>2, <1>4, <2>1, MissingInv DEF BaseMiss
<1>5. CASE BaseFails(r)
  BY <1>2, <1>5, FallBackInv, FailsInv DEF BaseFails
<1> QED
  BY <1>3, <1>4, <1>5

LEMMA MetaInv ==
  ASSUME IInv, NEW r \in Requests, MetaHit(r) \/ MetaFails(r)
  PROVE  IInv'
<1> DEFINE call == req[r]
<1>1. /\ call \in Calls /\ CallInv(call) /\ call.at = "meta"
      /\ UNCHANGED world
  BY DEF IInv, TypeOK, MetaHit, MetaFails
<1>2. call.branch = "devpi" /\ Witness(call)
  BY <1>1 DEF CallInv, Place
<1>3. /\ call.base \in SUBSET Files
      /\ \A f \in call.base : out[f] <= MaxLag + call.wait
  BY <1>1 DEF CallInv, Recent
<1>4. ASSUME NEW f \in call.base
      PROVE  f \in Files /\ out[f] \in Nat /\ out[f] <= 2 * MaxLag
  <2>1. f \in Files /\ out[f] \in Nat /\ out[f] <= MaxLag + call.wait
    BY <1>3 DEF IInv, TypeOK
  <2>2. call.wait \in 0..MaxLag
    BY <1>1 DEF Calls
  <2> QED
    BY <2>1, <2>2, TimesAssumption
<1>5. ASSUME NEW stamped \in BOOLEAN, stamped \/ blip' = 0
      PROVE  Good(call.branch, Page(call.base, stamped), blip')
  <2> DEFINE page == Page(call.base, stamped)
  <2>1. /\ page \in Pages /\ page.files = call.base
        /\ page.stamped = stamped /\ page.stale = FALSE
    BY <1>3 DEF Page, Pages
  <2>2. Life(page.stale) = EnrichTtl
    BY <2>1 DEF Life
  <2> HIDE DEF page
  <2>3. ASSUME NEW f \in page.files
        PROVE  f \in Files
               /\ out[f] <= 2 * MaxLag + Life(page.stale) - 1
    <3>1. f \in call.base
      BY <2>1
    <3>2. out[f] <= 2 * MaxLag + EnrichTtl - 1
      BY <1>4, <3>1, TimesAssumption
    <3> QED
      BY <1>4, <2>2, <3>1, <3>2, Zenon
  <2>4. ~page.stamped => blip' = 0
    BY <1>5, <2>1
  <2> QED
    BY <2>1, <2>3, <2>4 DEF Good, page
<1>6. call.branch \in Branches /\ call.branch # "gitea"
  BY <1>2 DEF Branches
<1>7. CASE MetaHit(r)
  <2> DEFINE page == Page(call.base, TRUE)
             new == [page |-> page, age |-> 0]
  <2>1. /\ enrich' = new /\ Deliver(r, call, page)
        /\ UNCHANGED <<world, blip>>
    BY <1>7 DEF MetaHit
  <2>2. page \in Pages /\ page.files = call.base
        /\ page.stamped /\ ~page.stale
    BY <1>3 DEF Page, Pages
  <2>3. 0 \in 0..StaleMax - 1
    BY TimesAssumption
  <2> HIDE DEF page
  <2>4. new \in Entries /\ new.page = page /\ new.age = 0
    BY <2>2, <2>3 DEF Entries
  <2>5. EnrichInv'
    <3>1. ASSUME NEW f \in page.files
          PROVE  f \in Files /\ out'[f] <= 2 * MaxLag + 0
      BY <1>1, <1>4, <2>2, TimesAssumption DEF world
    <3> QED
      BY <2>1, <2>2, <2>4, <3>1 DEF EnrichInv
  <2>6. Good(call.branch, page, blip')
    BY <1>5 DEF page
  <2> QED
    BY <1>1, <1>2, <1>6, <2>1, <2>4, <2>5, <2>6, DeliverInv
<1>8. CASE MetaFails(r)
  <2>1. blip' = 0
    BY <1>8 DEF MetaFails
  <2>2. CASE enrich # None
    BY <1>1, <1>2, <1>8, <2>1, <2>2, FallBackInv DEF MetaFails
  <2>3. CASE enrich = None
    <3> DEFINE page == Page(call.base, FALSE)
    <3>1. Deliver(r, call, page) /\ UNCHANGED enrich
      BY <1>8, <2>3 DEF MetaFails
    <3>2. Good(call.branch, page, blip')
      BY <1>5, <2>1
    <3>3. enrich' \in {None} \cup Entries /\ EnrichInv'
      BY <2>3, <3>1 DEF EnrichInv
    <3> HIDE DEF page
    <3> QED
      BY <1>1, <1>2, <1>6, <2>1, <3>1, <3>2, <3>3, DeliverInv
  <2> QED
    BY <2>2, <2>3
<1> QED
  BY <1>7, <1>8

-----------------------------------------------------------------------------
(* The world *)

LEMMA HorizonLemma ==
  Horizon \in Nat /\ Horizon = 2 * MaxLag + GatewayTtl - 1 + StaleMax
  BY TimesAssumption DEF Horizon, Exposure

LEMMA InitIInv == Init => IInv
<1> SUFFICES ASSUME Init PROVE IInv
  OBVIOUS
<1>1. \A r \in Requests : req[r] \in Calls /\ CallInv(req[r])
  BY IdleCall DEF Init
<1>2. out \in [Files -> 0..Horizon]
  BY HorizonLemma DEF Init
<1>3. TypeOK
  BY <1>1, <1>2, TimesAssumption DEF Init, TypeOK
<1>4. OutInv /\ EnrichInv /\ GatewayInv
  BY DEF Init, OutInv, EnrichInv, GatewayInv
<1>5. Promises
  BY DEF Init, Promises, PrivateShadowsPublic, DroppedFilesLeave,
         JustPublishedIsListed, UnstampedIsBrief
<1> QED
  BY <1>1, <1>3, <1>4, <1>5 DEF IInv

\* What a request sees when the public index or the private package changes.
LEMMA SeenInv ==
  ASSUME IInv, NEW r \in Requests, gate' \subseteq Files,
         req'[r] = Witnessed(req[r], released', gate'),
         \A f \in Files : out'[f] \in Nat /\ out'[f] <= out[f]
  PROVE  req'[r] \in Calls /\ CallInv(req[r])'
<1> DEFINE c == req[r]
<1>1. c \in Calls /\ CallInv(c)
  BY DEF IInv, TypeOK
<1>2. PICK w \in Calls :
        /\ w = req'[r] /\ w.at = c.at /\ w.branch = c.branch
        /\ w.bypass = c.bypass /\ w.fills = c.fills
        /\ w.heard = c.heard /\ w.base = c.base /\ w.wait = c.wait
        /\ w.absent = (c.absent \/ (c.at # "idle" /\ released' = {}))
        /\ w.bare = (c.bare \/ (c.branch = "devpi" /\ gate' = {}))
        /\ w.due = c.due \cap released'
  BY <1>1, WitnessedCall
<1>3. Witness(w)'
  <2>1. c.branch = "devpi" => w.absent /\ ~w.bypass
    BY <1>1, <1>2 DEF CallInv, Witness
  <2>2. c.branch = "devpi" /\ gate' = {} => w.bare
    BY <1>2
  <2>3. c.heard = "missing" => w.bare
    BY <1>1, <1>2 DEF CallInv, Witness
  <2>4. ~w.bypass => w.due = {}
    BY <1>1, <1>2 DEF CallInv, Witness
  <2>5. w.fills => w.branch \in Branches
    BY <1>1, <1>2 DEF CallInv, Witness
  <2> QED
    BY <1>2, <2>1, <2>2, <2>3, <2>4, <2>5 DEF Witness
<1>4. Place(w)
  BY <1>1, <1>2 DEF CallInv, Place
<1>5. Recent(w)'
  <2>1. w.wait \in Nat /\ MaxLag \in Nat
    BY TimesAssumption DEF Calls
  <2>2. \A f \in Files : out[f] \in Nat
    BY DEF IInv, TypeOK
  <2> QED
    BY <1>1, <1>2, <2>1, <2>2 DEF CallInv, Recent
<1>6. CallInv(w)'
  BY <1>3, <1>4, <1>5 DEF CallInv, Place
<1> QED
  BY <1>2, <1>6 DEF CallInv, Witness, Place, Recent

LEMMA GateInv ==
  ASSUME IInv, NEW listed \in SUBSET Files, Gate(listed)
  PROVE  IInv'
<1>1. /\ gate' = listed /\ reply' = None
      /\ out' = [f \in Files |-> IF f \in listed THEN 0 ELSE out[f]]
      /\ req' = [r \in Requests |-> Witnessed(req[r], released, listed)]
      /\ UNCHANGED <<released, blip, enrich, gateway>>
  BY DEF Gate
<1>2. out \in [Files -> 0..Horizon]
  BY DEF IInv, TypeOK
<1>3. out' \in [Files -> 0..Horizon]
  BY <1>1, <1>2, HorizonLemma
<1>4. \A f \in Files : out'[f] \in Nat /\ out'[f] <= out[f]
  BY <1>1, <1>2
<1>5. \A r \in Requests : req'[r] \in Calls /\ CallInv(req[r])'
  <2> SUFFICES ASSUME NEW r \in Requests
               PROVE  req'[r] \in Calls /\ CallInv(req[r])'
    OBVIOUS
  <2>1. req'[r] = Witnessed(req[r], released', gate') /\ gate' \subseteq Files
    BY <1>1
  <2> QED
    BY <1>4, <2>1, SeenInv
<1>6. req' \in [Requests -> Calls]
  <2>1. req' = [r \in Requests |-> req'[r]]
    BY <1>1
  <2> QED
    BY <1>5, <2>1
<1>7. TypeOK'
  BY <1>1, <1>3, <1>6 DEF IInv, TypeOK
<1>8. OutInv'
  BY <1>1 DEF OutInv
<1>9. EnrichInv'
  <2>1. enrich # None => enrich.age \in Nat
    BY TimesAssumption DEF IInv, TypeOK
  <2> QED
    BY <1>1, <1>2, <1>4, <2>1, TimesAssumption DEF IInv, EnrichInv
<1>10. GatewayInv'
  <2> SUFFICES ASSUME NEW b \in Branches, gateway[b] # None
               PROVE  Fit(b, gateway[b], blip)'
    BY <1>1 DEF GatewayInv
  <2>1. Fit(b, gateway[b], blip) /\ gateway[b] \in KeptPages
    BY DEF IInv, GatewayInv, TypeOK, KeptPages
  <2>2. /\ Life(gateway[b].page.stale) \in Nat /\ gateway[b].left \in Nat
        /\ GatewayTtl \in Nat /\ MaxLag \in Nat
    BY <2>1, LifeTime, TimesAssumption DEF KeptPages, Pages
  <2> QED
    BY <1>1, <1>2, <1>4, <2>1, <2>2 DEF Fit
<1>11. Promises'
  BY <1>1 DEF Promises, PrivateShadowsPublic, DroppedFilesLeave,
              JustPublishedIsListed, UnstampedIsBrief
<1> QED
  BY <1>5, <1>7, <1>8, <1>9, <1>10, <1>11 DEF IInv

LEMMA ReleaseInv ==
  ASSUME IInv, NEW rel \in SUBSET Releases, Release(rel)
  PROVE  IInv'
<1>1. /\ released' = rel /\ reply' = None
      /\ req' = [r \in Requests |-> Witnessed(req[r], rel, gate)]
      /\ UNCHANGED <<gate, out, blip, enrich, gateway>>
  BY DEF Release
<1>2. \A f \in Files : out'[f] \in Nat /\ out'[f] <= out[f]
  BY <1>1 DEF IInv, TypeOK
<1>3. \A r \in Requests : req'[r] \in Calls /\ CallInv(req[r])'
  <2> SUFFICES ASSUME NEW r \in Requests
               PROVE  req'[r] \in Calls /\ CallInv(req[r])'
    OBVIOUS
  <2>1. req'[r] = Witnessed(req[r], released', gate') /\ gate' \subseteq Files
    BY <1>1 DEF IInv, TypeOK
  <2> QED
    BY <1>2, <2>1, SeenInv
<1>4. req' \in [Requests -> Calls]
  <2>1. req' = [r \in Requests |-> req'[r]]
    BY <1>1
  <2> QED
    BY <1>3, <2>1
<1>5. TypeOK'
  BY <1>1, <1>4 DEF IInv, TypeOK
<1>6. OutInv' /\ EnrichInv'
  BY <1>1 DEF IInv, OutInv, EnrichInv
<1>7. GatewayInv'
  BY <1>1 DEF IInv, GatewayInv, Fit
<1>8. Promises'
  BY <1>1 DEF Promises, PrivateShadowsPublic, DroppedFilesLeave,
              JustPublishedIsListed, UnstampedIsBrief
<1> QED
  BY <1>3, <1>5, <1>6, <1>7, <1>8 DEF IInv

LEMMA ForgetsInv ==
  ASSUME IInv, EnrichForgets
  PROVE  IInv'
<1>1. /\ enrich' = None /\ reply' = None
      /\ UNCHANGED <<world, blip, gateway, req>>
  BY DEF EnrichForgets
<1>2. TypeOK' /\ OutInv' /\ EnrichInv'
  BY <1>1 DEF IInv, TypeOK, OutInv, EnrichInv, world
<1>3. GatewayInv'
  BY <1>1 DEF IInv, GatewayInv, Fit, world
<1>4. \A r \in Requests : CallInv(req[r])'
  BY <1>1 DEF IInv, CallInv, Witness, Place, Recent, world
<1>5. Promises'
  BY <1>1 DEF Promises, PrivateShadowsPublic, DroppedFilesLeave,
              JustPublishedIsListed, UnstampedIsBrief
<1> QED
  BY <1>2, <1>3, <1>4, <1>5 DEF IInv

\* Nothing ages faster than the bounds on it.
LEMMA TickInv ==
  ASSUME IInv, Tick
  PROVE  IInv'
<1>1. /\ reply' = None /\ UNCHANGED <<gate, released>>
      /\ blip' = Later(blip, GatewayTtl) /\ enrich' = Older(enrich)
      /\ out' = [f \in Files |->
            IF f \in gate THEN 0 ELSE Later(out[f], Horizon)]
  BY DEF Tick
<1>2. /\ MaxLag \in Nat /\ GatewayTtl \in Nat /\ GatewayTtl >= 1
      /\ StaleMax \in Nat /\ Horizon \in Nat
  BY TimesAssumption, HorizonLemma
<1>3. out' \in [Files -> 0..Horizon]
  BY <1>1, <1>2 DEF IInv, TypeOK, Later
<1>4. \A f \in Files : /\ out[f] \in Nat /\ out'[f] \in Nat
                       /\ out'[f] <= out[f] + 1
  BY <1>1, <1>2 DEF IInv, TypeOK, Later
<1>5. blip \in Nat /\ blip' \in 0..GatewayTtl /\ blip' <= blip + 1
  BY <1>1, <1>2 DEF IInv, TypeOK, Later
<1>6. OutInv'
  BY <1>1 DEF IInv, TypeOK, OutInv
<1>7. enrich' \in {None} \cup Entries /\ EnrichInv'
  <2>1. CASE enrich = None \/ enrich.age + 1 = StaleMax
    BY <1>1, <2>1 DEF Older, EnrichInv
  <2>2. CASE ~(enrich = None \/ enrich.age + 1 = StaleMax)
    <3>1. /\ enrich \in Entries
          /\ enrich' = [enrich EXCEPT !.age = enrich.age + 1]
      BY <1>1, <2>2 DEF IInv, TypeOK, Entries, Older
    <3>2. /\ enrich.age + 1 \in 0..StaleMax - 1 /\ enrich.age \in Nat
      BY <1>2, <2>2, <3>1 DEF Entries
    <3>3. enrich' \in Entries
      BY <3>1, <3>2 DEF Entries
    <3>4. enrich'.page = enrich.page /\ enrich'.age = enrich.age + 1
      BY <3>1 DEF Entries
    <3>5. ASSUME NEW f \in enrich.page.files
          PROVE  f \in Files /\ out'[f] <= 2 * MaxLag + (enrich.age + 1)
      <4>1. f \in Files /\ out[f] <= 2 * MaxLag + enrich.age
        BY <2>2 DEF IInv, EnrichInv
      <4> QED
        BY <1>2, <1>4, <3>2, <4>1
    <3>6. enrich.page.stamped /\ ~enrich.page.stale
      BY <2>2 DEF IInv, EnrichInv
    <3> QED
      BY <3>3, <3>4, <3>5, <3>6 DEF EnrichInv
  <2> QED
    BY <2>1, <2>2
<1>8. /\ gateway' \in [Branches -> {None} \cup KeptPages]
      /\ GatewayInv'
  <2>1. ASSUME NEW b \in Branches, gateway[b] # None, gateway[b].left # 1
        PROVE  LET kept == [gateway[b] EXCEPT !.left = @ - 1] IN
               /\ kept \in KeptPages /\ kept.page = gateway[b].page
               /\ kept.left = gateway[b].left - 1
    <3>1. gateway[b] \in KeptPages
      BY <2>1 DEF IInv, TypeOK, KeptPages
    <3>2. gateway[b].left - 1 \in 1..GatewayTtl
      BY <1>2, <2>1, <3>1 DEF KeptPages
    <3> QED
      BY <3>1, <3>2 DEF KeptPages
  <2>2. gateway' = [b \in Branches |->
          IF gateway[b] = None \/ gateway[b].left = 1 THEN None
          ELSE [gateway[b] EXCEPT !.left = @ - 1]]
    BY DEF Tick
  <2>3. gateway' \in [Branches -> {None} \cup KeptPages]
    BY <2>1, <2>2
  <2>4. GatewayInv'
    <3> SUFFICES ASSUME NEW b \in Branches, gateway'[b] # None
                 PROVE  Fit(b, gateway[b], blip)'
      BY DEF GatewayInv
    <3>1. gateway[b] # None /\ gateway[b].left # 1
      BY <2>2
    <3>2. /\ gateway'[b].page = gateway[b].page
          /\ gateway'[b].left = gateway[b].left - 1
      BY <2>1, <2>2, <3>1
    <3>3. Fit(b, gateway[b], blip) /\ gateway[b] \in KeptPages
      BY <3>1 DEF IInv, GatewayInv, TypeOK, KeptPages
    <3>4. /\ Life(gateway[b].page.stale) \in Nat
          /\ gateway[b].left \in Nat
      BY <1>2, <3>3, LifeTime DEF KeptPages, Pages
    <3> QED
      BY <1>2, <1>4, <1>5, <3>2, <3>3, <3>4 DEF Fit
  <2> QED
    BY <2>3, <2>4
<1>9. \A r \in Requests : req'[r] \in Calls /\ CallInv(req[r])'
  <2> SUFFICES ASSUME NEW r \in Requests
               PROVE  req'[r] \in Calls /\ CallInv(req[r])'
    OBVIOUS
  <2>1. req[r] \in Calls /\ CallInv(req[r])
    BY DEF IInv, TypeOK
  <2>2. req'[r] = IF Timed(r) THEN [req[r] EXCEPT !.wait = @ + 1] ELSE req[r]
    BY DEF Tick
  <2>3. CASE Timed(r)
    <3>1. req[r].wait \in Nat /\ req[r].wait + 1 \in 0..MaxLag
      BY <1>2, <2>1, <2>3 DEF Tick, Calls
    <3>2. PICK w \in Calls :
            /\ w = req'[r] /\ w.at = req[r].at
            /\ w.branch = req[r].branch /\ w.bypass = req[r].bypass
            /\ w.fills = req[r].fills /\ w.heard = req[r].heard
            /\ w.base = req[r].base /\ w.wait = req[r].wait + 1
            /\ w.absent = req[r].absent /\ w.bare = req[r].bare
            /\ w.due = req[r].due
      BY <2>1, <2>2, <2>3, <3>1 DEF Calls
    <3>3. Witness(w) /\ Place(w)
      BY <2>1, <3>2 DEF CallInv, Witness, Place
    <3>4. Recent(w)'
      BY <1>2, <1>4, <2>1, <3>1, <3>2 DEF CallInv, Recent
    <3> QED
      BY <1>1, <3>2, <3>3, <3>4 DEF CallInv, Witness, Place, Recent
  <2>4. CASE ~Timed(r)
    <3>1. req'[r] = req[r] /\ req[r].at \notin {"base", "meta"}
      BY <2>2, <2>4 DEF Timed
    <3> QED
      BY <1>1, <2>1, <3>1 DEF CallInv, Witness, Place, Recent
  <2> QED
    BY <2>3, <2>4
<1>10. req' \in [Requests -> Calls]
  <2>1. req' = [r \in Requests |-> req'[r]]
    BY DEF Tick
  <2> QED
    BY <1>9, <2>1
<1>11. TypeOK'
  BY <1>1, <1>3, <1>5, <1>7, <1>8, <1>10
     DEF IInv, TypeOK, Entries, KeptPages
<1>12. Promises'
  BY <1>1 DEF Promises, PrivateShadowsPublic, DroppedFilesLeave,
              JustPublishedIsListed, UnstampedIsBrief
<1> QED
  BY <1>6, <1>7, <1>8, <1>9, <1>11, <1>12 DEF IInv

LEMMA NextIInv ==
  ASSUME IInv, [Next]_vars
  PROVE  IInv'
<1>1. CASE \E listed \in SUBSET Files : Gate(listed)
  BY <1>1, GateInv
<1>2. CASE \E rel \in SUBSET Releases : Release(rel)
  BY <1>2, ReleaseInv
<1>3. CASE Tick \/ EnrichForgets
  BY <1>3, TickInv, ForgetsInv
<1>4. ASSUME NEW r \in Requests,
             \/ \E bypass \in BOOLEAN : Arrive(r, bypass)
             \/ Answer(r) \/ LockEnds(r)
             \/ ProbeHit(r) \/ ProbeMiss(r) \/ ProbeFails(r)
             \/ PageHit(r) \/ PageUnstamped(r) \/ PageMiss(r) \/ PageFails(r)
             \/ BaseHit(r) \/ BaseMiss(r) \/ BaseFails(r)
             \/ MetaHit(r) \/ MetaFails(r)
      PROVE  IInv'
  BY <1>4, ArriveInv, AnswerInv, LockEndsInv, ProbeInv, PageInv, BaseInv,
     MetaInv
<1>5. CASE UNCHANGED vars
  <2>1. TypeOK' /\ OutInv' /\ EnrichInv'
    BY <1>5 DEF vars, IInv, TypeOK, OutInv, EnrichInv
  <2>2. GatewayInv'
    BY <1>5 DEF vars, IInv, GatewayInv, Fit
  <2>3. \A r \in Requests : CallInv(req[r])'
    BY <1>5 DEF vars, IInv, CallInv, Witness, Place, Recent
  <2>4. Promises'
    BY <1>5 DEF vars, IInv, Promises, PrivateShadowsPublic,
                DroppedFilesLeave, JustPublishedIsListed, UnstampedIsBrief
  <2> QED
    BY <2>1, <2>2, <2>3, <2>4 DEF IInv
<1> QED
  BY <1>1, <1>2, <1>3, <1>4, <1>5 DEF Next

-----------------------------------------------------------------------------

\* What is cached, on its way or about to be answered is no older, and saw no
\* less of the world, than the promises need, at all times.
THEOREM Invariance == Spec => []IInv
<1>1. Init => IInv
  BY InitIInv
<1>2. IInv /\ [Next]_vars => IInv'
  BY NextIInv
<1> QED
  BY <1>1, <1>2, PTL DEF Spec

\* Every variable has its type: the caches' ages and the waits stay bounded.
THEOREM TypeCorrect == Spec => []TypeOK
<1>1. IInv => TypeOK
  BY DEF IInv
<1> QED
  BY <1>1, Invariance, PTL

\* A public page, or none, is an answer only to a request during which Gitea
\* was without a package of the name.
THEOREM PrivateShadowsPublicHolds == Spec => []PrivateShadowsPublic
<1>1. IInv => PrivateShadowsPublic
  BY DEF IInv, Promises
<1> QED
  BY <1>1, Invariance, PTL

\* A file that devpi's policy dropped leaves the public page within the two
\* TTLs, or StaleMax and one TTL, and two calls.
THEOREM DroppedFilesLeaveHolds == Spec => []DroppedFilesLeave
<1>1. IInv => DroppedFilesLeave
  BY DEF IInv, Promises
<1> QED
  BY <1>1, Invariance, PTL

\* A client that asks to revalidate gets every private file that was there.
THEOREM JustPublishedIsListedHolds == Spec => []JustPublishedIsListed
<1>1. IInv => JustPublishedIsListed
  BY DEF IInv, Promises
<1> QED
  BY <1>1, Invariance, PTL

\* A page lacks upload times only for nginx's TTL after a call failed.
THEOREM UnstampedIsBriefHolds == Spec => []UnstampedIsBrief
<1>1. IInv => UnstampedIsBrief
  BY DEF IInv, Promises
<1> QED
  BY <1>1, Invariance, PTL
=============================================================================
