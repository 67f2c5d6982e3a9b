----------------------------- MODULE OsvClient -----------------------------
(***************************************************************************)
(* policy-sync's OSV client under concurrent requests: every HTTP handler  *)
(* thread runs decide() for one package, and package-level queries that    *)
(* meet within a few milliseconds are sent as one batch by the thread that *)
(* came first.  The others wait for its answer.                            *)
(*                                                                         *)
(* One version of each package is asked for, so that a verdict is kept per *)
(* package.  A policy that is missing, has the check disabled or allows    *)
(* the version answers before any of this state is touched.  What OSV      *)
(* knows only grows: MalPublished.  The caches' TTLs and evictions are     *)
(* their expiry at any time.  Calls that one thread makes in a row to page *)
(* through one answer count as one.                                        *)
(***************************************************************************)
EXTENDS Integers, Sequences, SequencesExt, FiniteSets

CONSTANTS
  None,
  Threads,         \* the HTTP handler threads
  Packages,
  Paged,           \* packages whose first page has a next_page_token
  Vague,           \* packages whose MAL records lack exact versions
  BatchSize,       \* packages per /v1/querybatch call
  MaxConcurrency   \* permits of _request_gate

ASSUME SizesAssumption ==
  BatchSize \in Nat \ {0} /\ MaxConcurrency \in Nat \ {0}
ASSUME ThreadsAssumption == IsFiniteSet(Threads)
ASSUME PackagesAssumption ==
  None \notin Packages /\ Paged \subseteq Packages /\ Vague \subseteq Packages

VARIABLES
  truth,    \* packages OSV has a MAL record for
  verdict,  \* the verdict cache
  page,     \* the package page cache
  pc,       \* the step each thread is at
  pkg,      \* the package of the thread's request, None between requests
  mine,     \* the pending query a thread waits for, named by its creator
  queue,    \* _pending_package_queries, oldest first, named by creators
  active,   \* _package_batch_active
  batch,    \* the batch a leader resolves, <<>> for other calls
  done,     \* how many queries of its batch are resolved
  result,   \* pending.result of the query a thread created
  got,      \* what a thread learnt: a page, a verdict or an error
  answer,   \* OSV's answer to the call a thread is making
  late      \* the request began after the MAL record was out, and no cache
            \* has answered it

vars == <<truth, verdict, page, pc, pkg, mine, queue, active, batch, result,
          done, got, answer, late>>
caches == <<verdict, page>>
batching == <<queue, active, batch, done>>

Findings == {"clean", "mal"}
Cached == Findings \cup {"none"}

Steps == {"idle", "page", "enqueue", "gather", "wait", "gate",
          "sent", "answered", "apply", "store"}

\* What a call asks for: the next chunk of the batch, or one package.
Following(t, n) ==
  LET last == IF done[t] + n < Len(batch[t]) THEN done[t] + n
              ELSE Len(batch[t])
  IN ToSet(SubSeq(batch[t], done[t] + 1, last))
Chunk(t) == Following(t, BatchSize)
Asked(t) == IF batch[t] = <<>> THEN {pkg[t]} ELSE {pkg[u] : u \in Chunk(t)}
\* Mutant of Resolved: one more chunk after the last.
ResolvedLate(t) == done[t] >= Len(batch[t])
Resolved(t) == done[t] + BatchSize >= Len(batch[t])

InFlight == {t \in Threads : pc[t] \in {"sent", "answered"}}

TypeOK ==
  /\ truth \subseteq Packages
  /\ verdict \in [Packages -> Cached] /\ page \in [Packages -> Cached]
  /\ pc \in [Threads -> Steps]
  /\ pkg \in [Threads -> Packages \cup {None}]
  /\ mine \in [Threads -> Threads]
  /\ queue \in Seq(Threads) /\ Len(queue) <= Cardinality(Threads)
  /\ active \in BOOLEAN
  /\ batch \in [Threads -> Seq(Threads)]
  /\ done \in [Threads -> Nat]
  /\ \A t \in Threads : done[t] < Len(batch[t]) \/ done[t] = 0
  /\ result \in [Threads -> Cached]
  /\ got \in [Threads -> Cached \cup {"error"}]
  /\ answer \in [Threads -> SUBSET Packages]
  /\ late \in [Threads -> BOOLEAN]

Init ==
  /\ truth = {}
  /\ verdict = [p \in Packages |-> "none"]
  /\ page = [p \in Packages |-> "none"]
  /\ pc = [t \in Threads |-> "idle"]
  /\ pkg = [t \in Threads |-> None]
  /\ mine = [t \in Threads |-> t]
  /\ queue = <<>> /\ active = FALSE
  /\ batch = [t \in Threads |-> <<>>] /\ done = [t \in Threads |-> 0]
  /\ result = [t \in Threads |-> "none"]
  /\ got = [t \in Threads |-> "none"]
  /\ answer = [t \in Threads |-> {}]
  /\ late = [t \in Threads |-> FALSE]

-----------------------------------------------------------------------------
(* OSV and the caches' clocks *)

MalPublished(p) ==
  /\ p \notin truth
  /\ truth' = truth \cup {p}
  /\ UNCHANGED <<caches, pc, pkg, mine, batching, result, got, answer, late>>

VerdictExpires(p) ==
  /\ verdict[p] # "none"
  /\ verdict' = [verdict EXCEPT ![p] = "none"]
  /\ UNCHANGED <<truth, page, pc, pkg, mine, batching, result, got, answer,
                 late>>

PageExpires(p) ==
  /\ page[p] # "none"
  /\ page' = [page EXCEPT ![p] = "none"]
  /\ UNCHANGED <<truth, verdict, pc, pkg, mine, batching, result, got, answer,
                 late>>

-----------------------------------------------------------------------------
(* decide() up to the package-level query *)

\* A verdict in the cache is the reply and changes nothing; this is a miss.
Request(t, p) ==
  /\ pc[t] = "idle"
  /\ verdict[p] = "none"
  /\ pc' = [pc EXCEPT ![t] = "page"]
  /\ pkg' = [pkg EXCEPT ![t] = p]
  /\ late' = [late EXCEPT ![t] = p \in truth]
  /\ UNCHANGED <<truth, caches, mine, batching, result, got, answer>>

\* The reply - the verdict, or open if OSV failed - and the thread is free.
Reply(t) ==
  /\ pc' = [pc EXCEPT ![t] = "idle"]
  /\ pkg' = [pkg EXCEPT ![t] = None]
  /\ mine' = [mine EXCEPT ![t] = t]
  /\ result' = [result EXCEPT ![t] = "none"]
  /\ got' = [got EXCEPT ![t] = "none"]
  /\ late' = [late EXCEPT ![t] = FALSE]

PageHit(t) ==
  /\ pc[t] = "page" /\ page[pkg[t]] # "none"
  /\ pc' = [pc EXCEPT ![t] = "apply"]
  /\ got' = [got EXCEPT ![t] = page[pkg[t]]]
  /\ late' = [late EXCEPT ![t] = FALSE]
  /\ UNCHANGED <<truth, caches, pkg, mine, batching, result, answer>>

PageMiss(t) ==
  /\ pc[t] = "page" /\ page[pkg[t]] = "none"
  /\ pc' = [pc EXCEPT ![t] = "enqueue"]
  /\ UNCHANGED <<truth, caches, pkg, mine, batching, result, got, answer,
                 late>>

-----------------------------------------------------------------------------
(* _query_package_first_page: the batch *)

\* Mutant of Enqueue: a query that is already being resolved is shared as well.
EnqueueOnAnyQuery(t) ==
  /\ pc[t] = "enqueue"
  /\ LET pending == ToSet(queue) \cup UNION {ToSet(batch[l]) : l \in Threads}
         shared == {u \in pending : pkg[u] = pkg[t]}
     IN IF shared # {}
        THEN /\ \E u \in shared : mine' = [mine EXCEPT ![t] = u]
             /\ pc' = [pc EXCEPT ![t] = "wait"]
             /\ UNCHANGED <<queue, active, result>>
        ELSE /\ mine' = [mine EXCEPT ![t] = t]
             /\ queue' = Append(queue, t)
             /\ result' = [result EXCEPT ![t] = "none"]
             /\ pc' = [pc EXCEPT ![t] = IF active THEN "wait" ELSE "gather"]
             /\ active' = TRUE
  /\ UNCHANGED <<truth, caches, pkg, batch, done, got, answer, late>>

\* Under _package_batch_lock: share the pending query of the package or add
\* one; lead if nobody does.
Enqueue(t) ==
  /\ pc[t] = "enqueue"
  /\ LET shared == {u \in ToSet(queue) : pkg[u] = pkg[t]}
     IN IF shared # {}
        THEN /\ \E u \in shared : mine' = [mine EXCEPT ![t] = u]
             /\ UNCHANGED <<queue, result>>
        ELSE /\ mine' = [mine EXCEPT ![t] = t]
             /\ queue' = Append(queue, t)
             /\ result' = [result EXCEPT ![t] = "none"]
  /\ pc' = [pc EXCEPT ![t] = IF active THEN "wait" ELSE "gather"]
  /\ active' = TRUE
  /\ UNCHANGED <<truth, caches, pkg, batch, done, got, answer, late>>

\* Mutant of TakeBatch: the leader keeps the lead while it asks OSV.
TakeBatchAndLead(t) ==
  /\ pc[t] = "gather"
  /\ batch' = [batch EXCEPT ![t] = queue]
  /\ done' = [done EXCEPT ![t] = 0]
  /\ queue' = <<>>
  /\ pc' = [pc EXCEPT ![t] = "gate"]
  /\ UNCHANGED <<truth, caches, pkg, mine, active, result, got, answer, late>>

\* The leader's few milliseconds are over: under the lock it takes what has
\* gathered and gives up the lead.
TakeBatch(t) ==
  /\ pc[t] = "gather"
  /\ batch' = [batch EXCEPT ![t] = queue]
  /\ done' = [done EXCEPT ![t] = 0]
  /\ queue' = <<>>
  /\ active' = FALSE
  /\ pc' = [pc EXCEPT ![t] = "gate"]
  /\ UNCHANGED <<truth, caches, pkg, mine, result, got, answer, late>>

-----------------------------------------------------------------------------
(* _post_json *)

Acquire(t) ==
  /\ pc[t] = "gate"
  /\ Cardinality(InFlight) < MaxConcurrency
  /\ pc' = [pc EXCEPT ![t] = "sent"]
  /\ UNCHANGED <<truth, caches, pkg, mine, batching, result, got, answer,
                 late>>

\* OSV handles the call; the answer is on its way.
OsvAnswers(t) ==
  /\ pc[t] = "sent"
  /\ pc' = [pc EXCEPT ![t] = "answered"]
  /\ answer' = [answer EXCEPT ![t] = Asked(t) \cap truth]
  /\ UNCHANGED <<truth, caches, pkg, mine, batching, result, got, late>>

\* What OSV's answer says of a package that was asked about.
Finding(t, p) == IF p \in answer[t] THEN "mal" ELSE "clean"

\* What thread u learns from the query it created or joined.
\* Mutant of OutcomeFor: everyone goes on with the leader's own outcome.
OutcomeForLeader(t, u, what) == what[mine[t]]
OutcomeFor(t, u, what) == what[mine[u]]

\* The end of _resolve_package_batch: the leader and everyone who waits for a
\* query of its batch go on with what[u], the outcome of the query u created,
\* and the queries are forgotten.
SetEvents(t, what) ==
  LET freed == {t} \cup {u \in Threads : pc[u] = "wait"
                                         /\ mine[u] \in ToSet(batch[t])}
  IN /\ pc' = [u \in Threads |-> IF u \in freed THEN "apply" ELSE pc[u]]
     /\ got' = [u \in Threads |-> IF u \in freed THEN OutcomeFor(t, u, what)
                                  ELSE got[u]]
     /\ mine' = [u \in Threads |-> IF u \in freed THEN u ELSE mine[u]]
     /\ result' = [u \in Threads |-> IF u \in ToSet(batch[t]) THEN "none"
                                     ELSE result[u]]
     /\ batch' = [batch EXCEPT ![t] = <<>>]
     /\ done' = [done EXCEPT ![t] = 0]

\* A chunk is answered: its results and pages are stored, and the next chunk is
\* sent or everyone is told.
ReceiveChunk(t) ==
  /\ pc[t] = "answered" /\ batch[t] # <<>>
  /\ page' = [p \in Packages |-> IF p \in Asked(t) THEN Finding(t, p)
                                                   ELSE page[p]]
  /\ LET found == [u \in Threads |-> IF u \in Chunk(t) THEN Finding(t, pkg[u])
                                     ELSE result[u]]
     IN IF Resolved(t)
        THEN SetEvents(t, found)
        ELSE /\ result' = found
             /\ pc' = [pc EXCEPT ![t] = "gate"]
             /\ done' = [done EXCEPT ![t] = @ + BatchSize]
             /\ UNCHANGED <<batch, got, mine>>
  /\ answer' = [answer EXCEPT ![t] = {}]
  /\ UNCHANGED <<truth, verdict, pkg, queue, active, late>>

\* Mutant of BatchFails: only the leader learns of the error.
BatchFailsQuietly(t) ==
  /\ pc[t] \in {"sent", "answered"} /\ batch[t] # <<>>
  /\ pc' = [pc EXCEPT ![t] = "apply"]
  /\ got' = [got EXCEPT ![t] = "error"]
  /\ batch' = [batch EXCEPT ![t] = <<>>]
  /\ done' = [done EXCEPT ![t] = 0]
  /\ answer' = [answer EXCEPT ![t] = {}]
  /\ UNCHANGED <<truth, caches, pkg, mine, queue, active, result, late>>

\* A call of the batch fails or its answer has the wrong shape: every query of
\* the batch gets the error, those of earlier chunks too.  The pages of the
\* results before the broken one are kept.
BatchFails(t) ==
  /\ pc[t] \in {"sent", "answered"} /\ batch[t] # <<>>
  /\ \E n \in 0..(IF pc[t] = "sent" THEN 0 ELSE BatchSize - 1) :
       LET kept == {pkg[u] : u \in Following(t, n)}
       IN page' = [p \in Packages |-> IF p \in kept THEN Finding(t, p)
                                                    ELSE page[p]]
  /\ SetEvents(t, [u \in Threads |-> "error"])
  /\ answer' = [answer EXCEPT ![t] = {}]
  /\ UNCHANGED <<truth, verdict, pkg, queue, active, late>>

-----------------------------------------------------------------------------
(* From the page to the verdict *)

\* A page that is not the whole story sends the thread to OSV once more: the
\* remaining pages of the package, or the verdict on the version.
Undecided(t) ==
  \/ pkg[t] \in Paged
  \/ pkg[t] \in Vague /\ got[t] = "mal"

ApplyPage(t) ==
  /\ pc[t] = "apply" /\ got[t] \in Findings
  /\ pc' = [pc EXCEPT ![t] = IF Undecided(t) THEN "gate" ELSE "store"]
  /\ late' = [late EXCEPT ![t] = @ \/ (Undecided(t) /\ pkg[t] \in truth)]
  /\ UNCHANGED <<truth, caches, pkg, mine, batching, result, got, answer>>

\* OsvError in decide(): no verdict is stored and the version is allowed.
ApplyError(t) ==
  /\ pc[t] = "apply" /\ got[t] = "error"
  /\ Reply(t)
  /\ UNCHANGED <<truth, caches, batching, answer>>

ReceiveSingle(t) ==
  /\ pc[t] = "answered" /\ batch[t] = <<>>
  /\ pc' = [pc EXCEPT ![t] = "store"]
  /\ got' = [got EXCEPT ![t] = Finding(t, pkg[t])]
  /\ answer' = [answer EXCEPT ![t] = {}]
  /\ UNCHANGED <<truth, caches, pkg, mine, batching, result, late>>

SingleFails(t) ==
  /\ pc[t] \in {"sent", "answered"} /\ batch[t] = <<>>
  /\ Reply(t)
  /\ answer' = [answer EXCEPT ![t] = {}]
  /\ UNCHANGED <<truth, caches, batching>>

\* cache.set and the reply.
StoreVerdict(t) ==
  /\ pc[t] = "store"
  /\ verdict' = [verdict EXCEPT ![pkg[t]] = got[t]]
  /\ Reply(t)
  /\ UNCHANGED <<truth, page, batching, answer>>

Step(t) ==
  \/ PageHit(t) \/ PageMiss(t)
  \/ Enqueue(t) \/ TakeBatch(t)
  \/ OsvAnswers(t) \/ ReceiveChunk(t) \/ BatchFails(t)
  \/ ApplyPage(t) \/ ApplyError(t)
  \/ ReceiveSingle(t) \/ SingleFails(t) \/ StoreVerdict(t)

Next ==
  \/ \E p \in Packages : MalPublished(p) \/ VerdictExpires(p) \/ PageExpires(p)
  \/ \E t \in Threads :
       (\E p \in Packages : Request(t, p)) \/ Step(t) \/ Acquire(t)

Spec == Init /\ [][Next]_vars

\* Threads run, every call has a timeout, and the semaphore starves nobody.
LiveSpec ==
  Spec /\ \A t \in Threads : WF_vars(Step(t)) /\ SF_vars(Acquire(t))

-----------------------------------------------------------------------------
(* Properties *)

\* A thread that waits is waited for: the query it waits on is still to be
\* gathered by the one thread that leads, or is in a batch some thread is
\* resolving; and a leader resolves its own query along with the others.
NoWaiterForgotten ==
  /\ \A t \in Threads : pc[t] = "wait" =>
       \/ mine[t] \in ToSet(queue)
       \/ \E l \in Threads : mine[t] \in ToSet(batch[l])
  /\ \A t \in Threads : batch[t] # <<>> => mine[t] \in ToSet(batch[t])
  /\ active <=> \E t \in Threads : pc[t] = "gather"
  /\ queue # <<>> => active
  /\ \A t, u \in Threads : pc[t] = "gather" /\ pc[u] = "gather" => t = u

\* Nothing is taken for malicious, by a cache or by a thread, because of what
\* OSV said of another package of the batch.
NoFalseBlock ==
  /\ \A p \in Packages : (verdict[p] = "mal" \/ page[p] = "mal") => p \in truth
  /\ \A t \in Threads : got[t] = "mal" => pkg[t] \in truth

\* A request that begins after OSV has the MAL record is not allowed on the
\* strength of an older call of somebody else: if no cache entry answers it, it
\* is blocked, or OSV failed.
SharedAnswersAreFresh ==
  \A t \in Threads : pc[t] = "store" /\ late[t] => got[t] = "mal"

\* Every request is answered, whatever calls fail, whoever leads.
EveryRequestAnswered == \A t \in Threads : pc[t] # "idle" ~> pc[t] = "idle"
=============================================================================
