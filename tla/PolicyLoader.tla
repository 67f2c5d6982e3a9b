---------------------------- MODULE PolicyLoader ----------------------------
(***************************************************************************)
(* How Verdaccio's filter plugin gets its policy over HTTP: one            *)
(* HttpPolicyLoader per policy-sync endpoint, each with its poll timer,    *)
(* its request in flight, its ETag and its grace period, and the           *)
(* CompositePolicyLoader that requires both.                               *)
(*                                                                         *)
(* A policy document is a value of Docs; its ETag is a hash of the content *)
(* and is modelled as the document itself.  The endpoints may change to    *)
(* any document, back to an old one (a reverted commit compiles to the     *)
(* same bytes) or to nothing (policy-sync restarted without a file).       *)
(*                                                                         *)
(* Time is discrete: Tick lets one unit pass.  Timers and deadlines are    *)
(* met exactly - Verdaccio's event loop is not starved.                    *)
(***************************************************************************)
EXTENDS Integers

CONSTANTS
  Loaders,   \* {"npm"}, or {"npm", "upstream"} for the composite
  Docs,      \* the policy documents an endpoint may serve
  Rejected,  \* documents that parseYamlPolicy throws on
  None,      \* no document
  Poll,      \* poll_interval_ms
  Timeout,   \* requestTimeoutMs: max(poll_interval_ms, 1000)
  Grace      \* fail_grace_ms

NotModified == "304"

ASSUME DocsAssumption ==
  /\ None \notin Docs /\ Rejected \subseteq Docs
  /\ NotModified \notin Docs \cup {None}
ASSUME TimesAssumption ==
  /\ Poll \in Nat \ {0} /\ Grace \in Nat \ {0}
  /\ Timeout \in Nat /\ Timeout >= Poll

\* The longest a policy outlives its endpoint: the answer that confirmed it was
\* under way, the next poll was not yet due, its failure took a whole timeout,
\* and then came the grace period.
Staleness == Timeout + Poll + Timeout + Grace

VARIABLES
  served,   \* what each endpoint of policy-sync serves; None is a 404
  timer,    \* time since the interval timers of all loaders last fired
  req,      \* the pending refresh of each loader
  etag,     \* sent as If-None-Match; None is null
  doc,      \* the loaded policy; None until the first one (hasPolicy is false)
  failing,  \* time since failingSince, up to Grace; NotFailing is null
  since,    \* time since endpoint l last served d, up to Staleness
  quiet,    \* time since the last successful refresh, up to Grace
  calm      \* from now on nothing fails and nothing new is published

vars == <<served, timer, req, etag, doc, failing, since, quiet, calm>>

NotFailing == -1

\* Mutant of Capped: a clock runs past its cap.
CappedOffByOne(t, cap) == IF t <= cap THEN t + 1 ELSE cap

Capped(t, cap) == IF t < cap THEN t + 1 ELSE cap

Idle == [phase |-> "idle", etag |-> None, age |-> 0, answer |-> None]
Sent(l) == [Idle EXCEPT !.phase = "sent", !.etag = etag[l]]

TypeOK ==
  /\ served \in [Loaders -> Docs \cup {None}]
  /\ timer \in 0..Poll
  /\ req \in [Loaders -> [phase : {"idle", "sent", "answered"},
                          etag : Docs \cup {None}, age : 0..Timeout,
                          answer : Docs \cup {None, NotModified}]]
  /\ etag \in [Loaders -> Docs \cup {None}]
  /\ doc \in [Loaders -> Docs \cup {None}]
  /\ failing \in [Loaders -> {NotFailing} \cup 0..Grace]
  /\ since \in [Loaders -> [Docs -> 0..Staleness]]
  /\ quiet \in [Loaders -> 0..Grace]
  /\ calm \in BOOLEAN

\* HttpPolicyLoader.current(): None means { ok: false }.
Current(l) == IF failing[l] = Grace THEN None ELSE doc[l]

\* CompositePolicyLoader.current(): ok only if every loader is; the rules come
\* from the npm document and min_age from the upstream document.
Closed == [l \in Loaders |-> None]
Composite == IF \A l \in Loaders : Current(l) # None
             THEN [l \in Loaders |-> Current(l)]
             ELSE Closed

\* The constructors poll at once and start the timers.
Init ==
  /\ served = [l \in Loaders |-> None]
  /\ timer = 0
  /\ req = [l \in Loaders |-> [Idle EXCEPT !.phase = "sent"]]
  /\ etag = [l \in Loaders |-> None]
  /\ doc = [l \in Loaders |-> None]
  /\ failing = [l \in Loaders |-> NotFailing]
  /\ since = [l \in Loaders |-> [d \in Docs |-> Staleness]]
  /\ quiet = [l \in Loaders |-> Grace]
  /\ calm = FALSE

-----------------------------------------------------------------------------
(* policy-sync *)

\* An endpoint changes to another document, or loses the one it had.
Publish(l, d) ==
  /\ ~calm
  /\ d # served[l]
  /\ served' = [served EXCEPT ![l] = d]
  /\ since' = IF d = None THEN since ELSE [since EXCEPT ![l][d] = 0]
  /\ UNCHANGED <<timer, req, etag, doc, failing, quiet, calm>>

\* policy-sync handles a request: 304 if the ETag matches its document.
Answer(l) ==
  /\ req[l].phase = "sent"
  /\ req' = [req EXCEPT ![l].phase = "answered", ![l].etag = None,
               ![l].answer = IF served[l] # None /\ req[l].etag = served[l]
                             THEN NotModified ELSE served[l]]
  /\ UNCHANGED <<served, timer, etag, doc, failing, since, quiet, calm>>

-----------------------------------------------------------------------------
(* The loaders *)

\* The interval timers fire; a refresh that is still pending is shared.
TimersFire ==
  /\ timer = Poll
  /\ timer' = 0
  /\ req' = [l \in Loaders |-> IF req[l].phase = "idle" THEN Sent(l)
                                                        ELSE req[l]]
  /\ UNCHANGED <<served, etag, doc, failing, since, quiet, calm>>

\* Mutants: a success leaves failingSince alone, a failure always resets it.
RecordSuccessStillFailing(l) ==
  /\ UNCHANGED failing
  /\ quiet' = [quiet EXCEPT ![l] = 0]
RecordFailureAfresh(l) ==
  /\ failing' = [failing EXCEPT ![l] = 0]
  /\ UNCHANGED quiet

RecordSuccess(l) ==
  /\ failing' = [failing EXCEPT ![l] = NotFailing]
  /\ quiet' = [quiet EXCEPT ![l] = 0]

RecordFailure(l) ==
  /\ failing' = [failing EXCEPT ![l] = IF @ = NotFailing THEN 0 ELSE @]
  /\ UNCHANGED quiet

Done(l) == req' = [req EXCEPT ![l] = Idle]

\* Mutant of ReceiveNotModified: a 304 is not counted as a success.
NotModifiedIgnored(l) ==
  /\ req[l].answer = NotModified
  /\ Done(l)
  /\ UNCHANGED <<served, timer, etag, doc, failing, since, quiet, calm>>

ReceiveNotModified(l) ==
  /\ req[l].answer = NotModified
  /\ RecordSuccess(l)
  /\ Done(l)
  /\ UNCHANGED <<served, timer, etag, doc, since, calm>>

ReceivePolicy(l) ==
  /\ req[l].answer \in Docs \ Rejected
  /\ etag' = [etag EXCEPT ![l] = req[l].answer]
  /\ doc' = [doc EXCEPT ![l] = req[l].answer]
  /\ RecordSuccess(l)
  /\ Done(l)
  /\ UNCHANGED <<served, timer, since, calm>>

\* Mutant of ReceiveUnusable: the ETag is kept before the body is parsed.
KeepEtagOfUnusable(l) ==
  /\ req[l].phase = "answered"
  /\ req[l].answer \in Rejected \cup {None}
  /\ etag' = [etag EXCEPT ![l] = req[l].answer]
  /\ RecordFailure(l)
  /\ Done(l)
  /\ UNCHANGED <<served, timer, doc, since, calm>>

\* 404, or a body that does not parse or compile.
ReceiveUnusable(l) ==
  /\ req[l].phase = "answered"
  /\ req[l].answer \in Rejected \cup {None}
  /\ RecordFailure(l)
  /\ Done(l)
  /\ UNCHANGED <<served, timer, etag, doc, since, calm>>

\* The connection fails, a 5xx answer comes, or AbortSignal.timeout fires, be
\* it that the request or that the answer was lost.
RequestFails(l) ==
  /\ req[l].phase # "idle" /\ ~calm
  /\ RecordFailure(l)
  /\ Done(l)
  /\ UNCHANGED <<served, timer, etag, doc, since, calm>>

\* One unit of time passes; nothing that is due is left behind.
Tick ==
  /\ timer < Poll
  /\ \A l \in Loaders : req[l].phase # "idle" => req[l].age < Timeout
  /\ timer' = timer + 1
  /\ req' = [l \in Loaders |->
               IF req[l].phase = "idle" THEN req[l]
                                        ELSE [req[l] EXCEPT !.age = @ + 1]]
  /\ failing' = [l \in Loaders |-> IF failing[l] = NotFailing THEN NotFailing
                                   ELSE Capped(failing[l], Grace)]
  /\ since' = [l \in Loaders |-> [d \in Docs |->
                 IF served[l] = d THEN 0 ELSE Capped(since[l][d], Staleness)]]
  /\ quiet' = [l \in Loaders |-> Capped(quiet[l], Grace)]
  /\ UNCHANGED <<served, etag, doc, calm>>

\* Verdaccio restarts: new loaders with nothing in memory.
Restart ==
  /\ ~calm
  /\ timer' = 0
  /\ req' = [l \in Loaders |-> [Idle EXCEPT !.phase = "sent"]]
  /\ etag' = [l \in Loaders |-> None]
  /\ doc' = [l \in Loaders |-> None]
  /\ failing' = [l \in Loaders |-> NotFailing]
  /\ quiet' = [l \in Loaders |-> Grace]
  /\ UNCHANGED <<served, since, calm>>

Settle ==
  /\ ~calm
  /\ calm' = TRUE
  /\ UNCHANGED <<served, timer, req, etag, doc, failing, since, quiet>>

Receive(l) == ReceiveNotModified(l) \/ ReceivePolicy(l) \/ ReceiveUnusable(l)

Next ==
  \/ \E l \in Loaders :
       \/ \E d \in Docs \cup {None} : Publish(l, d)
       \/ Answer(l) \/ Receive(l) \/ RequestFails(l)
  \/ TimersFire \/ Tick \/ Restart \/ Settle

Spec == Init /\ [][Next]_vars

\* Time passes, timers fire, and a request that does not fail is answered and
\* the answer received.
LiveSpec ==
  /\ Spec
  /\ WF_vars(Tick) /\ WF_vars(TimersFire)
  /\ \A l \in Loaders : WF_vars(Answer(l)) /\ WF_vars(Receive(l))

-----------------------------------------------------------------------------
(* Properties *)

\* A request is never judged by a policy that policy-sync ceased to serve
\* longer ago than Staleness (90 s with the default 10 s polls and 60 s grace):
\* however answers are delayed, endpoints change, go away or fail, the filter
\* has moved on or fails closed.
BoundedStaleness ==
  \A l \in Loaders : Current(l) # None => since[l][Current(l)] < Staleness

\* Failures alone close the registry no sooner than the grace period allows: a
\* loader with a policy fails closed only when no refresh has succeeded for at
\* least Grace.
KeepsLastKnownGood ==
  \A l \in Loaders :
    doc[l] # None /\ Current(l) = None => quiet[l] = Grace

\* The ETag belongs to the policy in force, so that a 304 confirms what is
\* enforced: a body that did not parse is fetched again.
EtagIsOfPolicy ==
  \A l \in Loaders :
    /\ etag[l] = doc[l] /\ doc[l] \notin Rejected
    /\ req[l].phase = "sent" => req[l].etag = etag[l]

\* Once policy-sync serves usable documents and nothing fails, the registry is
\* open with exactly those documents for good, after whatever outage.
Recovers ==
  <>[]calm => <>[]((\A l \in Loaders : served[l] \in Docs \ Rejected) =>
                     Composite = served)
=============================================================================
