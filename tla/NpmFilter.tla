------------------------------ MODULE NpmFilter ------------------------------
(***************************************************************************)
(* Verdaccio's filter plugin on one public package: filter_metadata, which *)
(* strips versions from the packument, guardTarball, which refuses their   *)
(* tarballs, the decision cache of the former, and the OSV verdict cache   *)
(* and the coalesced lookups that both share.  JavaScript runs to the next *)
(* await: what interleaves is other requests, policy swaps and time.       *)
(*                                                                         *)
(* A policy is what it says of this package; "blocked" also stands for no  *)
(* usable policy.  The packument is its set of versions.  policy-sync      *)
(* answers a lookup by what it holds malicious at that moment.  A lookup   *)
(* that fails lets everything pass, by design.  Tarball names have a       *)
(* version.  Publish times, once known, are known for good; the guard asks *)
(* npmjs for those it does not know.                                       *)
(*                                                                         *)
(* Time is discrete: Tick lets one unit pass.                              *)
(***************************************************************************)
EXTENDS Integers, FiniteSets

CONSTANTS
  Requests,     \* the calls under way at a time
  Versions,     \* the versions of the package
  New,          \* those that are published while the system runs
  Suspects,     \* bound: those policy-sync may change its mind on
  Policies,     \* [blocked : BOOLEAN, ranges : SUBSET Versions, minAge]
  OldAge,       \* bound: ages are counted up to here
  DecisionTtl,  \* decision_cache_ttl_ms
  OsvTtl,       \* osv_cache_ttl_ms
  Timeout,      \* osv_timeout_ms
  NpmTimeout,   \* the longest a request to npmjs takes: fetch's own limit
  None

\* The kind of a filter_metadata; that of a guardTarball is its version.
Metadata == "metadata"

\* The lookups under way at policy-sync.
Lookups == [answer : {None} \cup (SUBSET Versions), ok : BOOLEAN,
            age : 0..Timeout]

ASSUME PoliciesAssumption == \A p \in Policies :
  /\ p.blocked \in BOOLEAN /\ p.ranges \subseteq Versions
  /\ p.minAge \in 0..OldAge
ASSUME TimesAssumption ==
  /\ OldAge \in Nat /\ DecisionTtl \in Nat \ {0} /\ OsvTtl \in Nat \ {0}
  /\ Timeout \in Nat \ {0} /\ NpmTimeout \in Nat \ {0}
ASSUME NamesAssumption ==
  /\ New \subseteq Versions /\ Suspects \subseteq Versions
  /\ None \notin Versions \cup Lookups /\ Metadata \notin Versions
  /\ \A m \in SUBSET Versions : m # None

\* The longest a verdict of policy-sync is acted on after policy-sync changed
\* it: an answer under way, an entry of the OSV cache in its last moment, then
\* a lookup of other versions and a decision in its last moment, or a lookup of
\* publish times.
OsvLag == Timeout + OsvTtl - 1
MetadataExposure == OsvLag + Timeout + DecisionTtl - 1
TarballExposure == OsvLag + NpmTimeout
Horizon == IF MetadataExposure < TarballExposure THEN TarballExposure + 1
           ELSE MetadataExposure + 1

VARIABLES
  policy,    \* policyLoader.current()
  age,       \* age of each version, up to OldAge; -1 is unpublished
  mal,       \* the versions policy-sync holds malicious
  held,      \* time since policy-sync last changed its mind on v, capped
  verdict,   \* SHARED_OSV_CACHE: of each version, its verdict and time left
  decision,  \* decisionCache of the package, or None
  times,     \* publishTimes: the versions whose publish time is known
  lookup,    \* SHARED_BLOCKED_IN_FLIGHT: by the versions asked for, or None
  req,       \* the calls under way
  reply      \* the call that was answered by the last step, or None

vars == <<policy, age, mal, held, verdict, decision, times, lookup, req,
          reply>>

\* A call that is not under way.
Idle == [phase |-> "idle", kind |-> Metadata, policy |-> None,
         versions |-> {}, removed |-> {}, misses |-> {}, answer |-> None,
         through |-> {}, failed |-> FALSE, waited |-> 0]

\* A turn of the event loop: everyone the previous one woke has had his say.
Turn == \A r \in Requests : req[r].phase # "resume"
NoReply == Turn /\ reply' = None

Published == {v \in Versions : age[v] >= 0}
TooYoung(p) == {v \in Published : age[v] < p.minAge}

TypeOK ==
  /\ policy \in Policies
  /\ age \in [Versions -> -1..OldAge]
  /\ mal \subseteq Versions
  /\ held \in [Versions -> 0..Horizon]
  /\ \A v \in Versions : verdict[v] # None =>
       verdict[v].mal \in BOOLEAN /\ verdict[v].left \in 1..OsvTtl
  /\ decision # None => decision.left \in 1..DecisionTtl
                        /\ decision.through \subseteq decision.versions
  /\ \A m \in SUBSET Versions : lookup[m] # None =>
       m # {} /\ lookup[m] \in Lookups
  /\ \A r \in Requests :
       /\ req[r].phase \in {"idle", "await", "resume", "times"}
       /\ req[r].waited \in 0..NpmTimeout
       /\ req[r].phase = "await" => lookup[req[r].misses] # None

Init ==
  /\ policy \in Policies
  /\ age = [v \in Versions |-> IF v \in New THEN -1 ELSE OldAge]
  /\ mal = {} /\ held = [v \in Versions |-> Horizon]
  /\ verdict = [v \in Versions |-> None]
  /\ decision = None /\ times = {}
  /\ lookup = [m \in SUBSET Versions |-> None]
  /\ req = [r \in Requests |-> Idle] /\ reply = None

-----------------------------------------------------------------------------
(* The world around the plugin *)

SwapPolicy(p) ==
  /\ p # policy
  /\ policy' = p
  /\ UNCHANGED <<age, mal, held, verdict, decision, times, lookup, req>>
  /\ NoReply

Publish(v) ==
  /\ age[v] = -1
  /\ age' = [age EXCEPT ![v] = 0]
  /\ UNCHANGED <<policy, mal, held, verdict, decision, times, lookup, req>>
  /\ NoReply

\* OSV publishes or withdraws a record, or a rule allows the version.
Reassess(v) ==
  /\ mal' = IF v \in mal THEN mal \ {v} ELSE mal \cup {v}
  /\ held' = [held EXCEPT ![v] = 0]
  /\ UNCHANGED <<policy, age, verdict, decision, times, lookup, req>>
  /\ NoReply

-----------------------------------------------------------------------------
(* The OSV client *)

Lookup == [answer |-> None, ok |-> FALSE, age |-> 0]

\* blockedVersions up to its await: what the cache does not know is asked for,
\* together with whoever asks for the same.
Await(r, call, candidates) ==
  LET misses == {v \in candidates : verdict[v] = None}
      known == {v \in candidates \ misses : verdict[v].mal}
  IN /\ misses # {}
     /\ req' = [req EXCEPT ![r] = [call EXCEPT !.phase = "await",
                                    !.removed = @ \cup known,
                                    !.misses = misses]]
     /\ lookup' = [lookup EXCEPT ![misses] = IF @ = None THEN Lookup ELSE @]
     /\ reply' = None

\* Whether the outcome of a lookup may be cached.
\* Mutant of Complete: a lookup that failed open is cached as a verdict.
CompleteAlways(call) == TRUE
Complete(call) == ~call.failed

\* policy-sync answers: status ok.
Answer(m) ==
  /\ lookup[m] # None /\ lookup[m].answer = None
  /\ lookup' = [lookup EXCEPT ![m].answer = m \cap mal, ![m].ok = TRUE]
  /\ UNCHANGED <<policy, age, mal, held, verdict, decision, times, req>>
  /\ NoReply

\* policy-sync answers degraded: it knows some of the malicious versions.
AnswerDegraded(m) ==
  /\ lookup[m] # None /\ lookup[m].answer = None
  /\ \E some \in SUBSET (m \cap mal) :
       lookup' = [lookup EXCEPT ![m].answer = some]
  /\ UNCHANGED <<policy, age, mal, held, verdict, decision, times, req>>
  /\ NoReply

\* The answer arrives: the lookup is over and everyone who awaits it goes on.
Told(m, answer, ok) ==
  /\ lookup' = [lookup EXCEPT ![m] = None]
  /\ req' = [r \in Requests |->
       IF req[r].phase = "await" /\ req[r].misses = m
       THEN [req[r] EXCEPT !.phase = "resume", !.answer = answer,
                           !.failed = ~ok]
       ELSE req[r]]
  /\ UNCHANGED <<policy, age, mal, held, verdict, decision, times>>
  /\ NoReply

Arrive(m) ==
  /\ lookup[m] # None /\ lookup[m].answer # None
  /\ Told(m, lookup[m].answer, lookup[m].ok)

\* The request fails, answers with garbage, or is aborted after Timeout.
LookupFails(m) == lookup[m] # None /\ Told(m, {}, FALSE)

-----------------------------------------------------------------------------
(* filter_metadata and guardTarball *)

Replied(r, call, through) ==
  /\ req' = [req EXCEPT ![r] = Idle]
  /\ reply' = [kind |-> call.kind, policy |-> call.policy,
               versions |-> call.versions, through |-> through,
               failed |-> call.failed]

Call(kind, versions) ==
  [Idle EXCEPT !.kind = kind, !.policy = policy, !.versions = versions]

\* blockAll: no usable policy, or the package is blocked whole.
FilterAll(r) ==
  /\ Turn /\ req[r].phase = "idle"
  /\ policy.blocked
  /\ Replied(r, Call(Metadata, Published), {})
  /\ UNCHANGED <<policy, age, mal, held, verdict, decision, times, lookup>>

\* decisionFingerprint: "modified" and "latest" stand for the set of versions.
\* Mutant of Fingerprint: it forgets the blocked ranges.
FingerprintSansRanges(p, versions) ==
  [versions |-> versions, minAge |-> p.minAge, ranges |-> {}]
Fingerprint(p, versions) ==
  [versions |-> versions, minAge |-> p.minAge, ranges |-> p.ranges]

Hit == /\ decision # None
       /\ decision.fp = Fingerprint(policy, Published)

FilterHit(r) ==
  /\ Turn /\ req[r].phase = "idle"
  /\ ~policy.blocked /\ Hit
  /\ Replied(r, Call(Metadata, Published), decision.through)
  /\ UNCHANGED <<policy, age, mal, held, verdict, decision, times, lookup>>

\* storeDecision: under the fingerprint taken before the await.
\* Mutant of Decided: the fingerprint is taken after it.
DecidedAfterwards(call, through) ==
  [fp |-> Fingerprint(policy, Published),
   versions |-> call.versions, through |-> through, left |-> DecisionTtl]
Decided(call, through) ==
  [fp |-> Fingerprint(call.policy, call.versions),
   versions |-> call.versions, through |-> through, left |-> DecisionTtl]

\* A miss that asks policy-sync, or that the OSV cache answers.
FilterMiss(r) ==
  /\ Turn /\ req[r].phase = "idle"
  /\ ~policy.blocked /\ ~Hit
  /\ LET call == [Call(Metadata, Published) EXCEPT
                    !.removed = (Published \cap policy.ranges)
                                  \cup TooYoung(policy)]
         candidates == Published \ call.removed
         through == {v \in candidates : ~verdict[v].mal}
     IN \/ Await(r, call, candidates) /\ UNCHANGED decision
        \/ /\ \A v \in candidates : verdict[v] # None
           /\ Replied(r, call, through)
           /\ decision' = Decided(call, through)
           /\ UNCHANGED lookup
  /\ times' = times \cup Published
  /\ UNCHANGED <<policy, age, mal, held, verdict>>

\* guardTarball: no usable policy, a blocked name or version.
GuardRefuses(r, v) ==
  /\ Turn /\ req[r].phase = "idle"
  /\ policy.blocked \/ v \in policy.ranges
  /\ Replied(r, Call(v, {v}), {})
  /\ UNCHANGED <<policy, age, mal, held, verdict, decision, times, lookup>>

\* The end of guardTarball, for a version that policy-sync holds harmless: its
\* age as of now, if the publish time is known.
Checked(r, call, cleared) ==
  IF cleared = {} \/ call.policy.minAge = 0 THEN Replied(r, call, cleared)
  ELSE IF cleared \subseteq times
  THEN Replied(r, call, cleared \ TooYoung(call.policy))
  ELSE /\ req' = [req EXCEPT ![r] =
                    [call EXCEPT !.phase = "times", !.removed = {},
                       !.misses = {}, !.answer = None, !.through = cleared]]
       /\ reply' = None

Guard(r, v) ==
  /\ Turn /\ req[r].phase = "idle" /\ v \in Published
  /\ ~policy.blocked /\ v \notin policy.ranges
  /\ \/ Await(r, Call(v, {v}), {v})
     \/ /\ verdict[v] # None
        /\ Checked(r, Call(v, {v}), IF verdict[v].mal THEN {} ELSE {v})
        /\ UNCHANGED lookup
  /\ UNCHANGED <<policy, age, mal, held, verdict, decision, times>>

\* blockedVersions after its await, and what its caller does with the result.
Resume(r) ==
  LET call == req[r]
      let == call.versions \ (call.removed \cup call.answer)
  IN /\ call.phase = "resume"
     /\ verdict' = IF ~Complete(call) THEN verdict
                   ELSE [v \in Versions |->
                           IF v \in call.misses
                           THEN [mal |-> v \in call.answer, left |-> OsvTtl]
                           ELSE verdict[v]]
     /\ IF call.kind = Metadata
        THEN /\ Replied(r, call, let)
             /\ decision' = IF Complete(call) THEN Decided(call, let)
                            ELSE decision
        ELSE /\ Checked(r, call, let)
             /\ UNCHANGED decision
     /\ UNCHANGED <<policy, age, mal, held, times, lookup>>

\* publishTimeFor after its await: npmjs answers, or the guard fails closed.
TimesArrive(r) ==
  /\ Turn /\ req[r].phase = "times"
  /\ times' = times \cup Published
  /\ Replied(r, req[r], req[r].through \ TooYoung(req[r].policy))
  /\ UNCHANGED <<policy, age, mal, held, verdict, decision, lookup>>

TimesFail(r) ==
  /\ Turn /\ req[r].phase = "times"
  /\ Replied(r, req[r], {})
  /\ UNCHANGED <<policy, age, mal, held, verdict, decision, times, lookup>>

\* An entry of a cache, one unit later.
\* Mutant of Later: an entry is still used at the moment it expires.
LaterKeptTooLong(e) ==
  IF e = None \/ e.left = 0 THEN None ELSE [e EXCEPT !.left = @ - 1]
Later(e) == IF e = None \/ e.left = 1 THEN None ELSE [e EXCEPT !.left = @ - 1]

\* One unit of time passes: lookups age, entries of the caches expire.
Tick ==
  /\ \A r \in Requests : req[r].waited < NpmTimeout
  /\ \A m \in SUBSET Versions : lookup[m] # None => lookup[m].age < Timeout
  /\ age' = [v \in Versions |-> IF age[v] \in 0..(OldAge - 1) THEN age[v] + 1
                                ELSE age[v]]
  /\ held' = [v \in Versions |-> IF held[v] < Horizon THEN held[v] + 1
                                 ELSE held[v]]
  /\ verdict' = [v \in Versions |-> Later(verdict[v])]
  /\ decision' = Later(decision)
  /\ lookup' = [m \in SUBSET Versions |->
       IF lookup[m] = None THEN None ELSE [lookup[m] EXCEPT !.age = @ + 1]]
  /\ req' = [r \in Requests |-> IF req[r].phase = "times"
                                THEN [req[r] EXCEPT !.waited = @ + 1]
                                ELSE req[r]]
  /\ UNCHANGED <<policy, mal, times>>
  /\ NoReply

Next ==
  \/ \E p \in Policies : SwapPolicy(p)
  \/ \E v \in New : Publish(v)
  \/ \E v \in Suspects : Reassess(v)
  \/ \E m \in SUBSET Versions :
       Answer(m) \/ AnswerDegraded(m) \/ Arrive(m) \/ LookupFails(m)
  \/ \E r \in Requests :
       \/ FilterAll(r) \/ FilterHit(r) \/ FilterMiss(r) \/ Resume(r)
       \/ TimesArrive(r) \/ TimesFail(r)
       \/ \E v \in Versions : GuardRefuses(r, v) \/ Guard(r, v)
  \/ Tick

Spec == Init /\ [][Next]_vars

-----------------------------------------------------------------------------
(* Properties *)

\* Nothing gets through that the policy of the call's start blocks, by name, by
\* range or by age, although the decision may come from a cache filled under
\* another policy and the policy may be swapped during every await.
PolicyObeyed ==
  reply # None =>
    LET p == reply.policy
    IN /\ reply.through \cap p.ranges = {}
       /\ reply.through # {} => ~p.blocked
       /\ reply.through \cap TooYoung(p) = {}

\* A version that policy-sync holds malicious gets through for a bounded time
\* only, unless this very call's lookup failed: lookups that fail open, or that
\* are shared, overtaken or cached in two places, add nothing to it.
BoundedExposure ==
  reply # None /\ ~reply.failed =>
    \A v \in reply.through \cap mal :
      held[v] <= IF reply.kind = Metadata THEN MetadataExposure
                 ELSE TarballExposure

\* And what is stripped from a packument is blocked by the policy, was held
\* malicious until a bounded time ago, or was too young when it was decided.
NothingStrippedForLong ==
  reply # None /\ reply.kind = Metadata =>
    LET p == reply.policy
    IN \A v \in reply.versions \ reply.through :
         \/ p.blocked \/ v \in p.ranges
         \/ v \in mal \/ held[v] <= MetadataExposure
         \/ p.minAge > 0 /\ age[v] < p.minAge + Timeout + DecisionTtl - 1
=============================================================================
