----------------------------- MODULE PolicySync -----------------------------
(***************************************************************************)
(* The policy-sync worker: one thread that fetches policy.toml from Gitea, *)
(* compiles it and hands the result to every place that enforces it, with  *)
(* the webhook that wakes the thread, the poll that backs the webhook up,  *)
(* and the devpi index the PyPI half is PATCHed into.                      *)
(*                                                                         *)
(* A policy is abstracted to its version: the n-th value the policy        *)
(* repository has ever had.  history[n] says how that value is received:   *)
(*   "absent"   policy.toml is not in the repository (404);                *)
(*   "invalid"  parse_policy or compile_policy raises PolicyError;         *)
(*   "valid"    it compiles; devpi may still refuse its constraints text.  *)
(* Writing unchanged bytes is skipped by write_atomic; with versions for   *)
(* contents the skip is the write of a value that is already there.        *)
(***************************************************************************)
EXTENDS Integers, Sequences

CONSTANTS
  MaxVersions,  \* bound: how many values the policy repository ever has
  Attempts,     \* attempts of one sync_with_retry call
  Files,        \* the destinations with a path configured ("" = no file)
  PypiText,     \* PypiText[v]: the constraints and minimum age of version v
  RefusedTexts  \* those that fail devpi's own validation

Version == 1..MaxVersions
Kinds == {"absent", "invalid", "valid"}
Stores == {"upstream", "npm", "parsed"}       \* what the HTTP endpoints read
Dests == Stores \cup {"pypi"}                 \* what _write may write

\* The index of a wiped devpi before and after ensure_index.py has run.
NoIndex == -1
Seed == 0

ASSUME BoundsAssumption == MaxVersions \in Nat /\ Attempts \in Nat \ {0}
\* The upstream path defaults to a sibling of the npm path: a configuration
\* with the npm file has the upstream file.
ASSUME FilesAssumption ==
  Files \subseteq Dests /\ ("npm" \in Files => "upstream" \in Files)
\* Texts are numbered from 1, so that no text is the seed.
ASSUME PypiTextAssumption == PypiText \in [Version -> Nat \ {0}]

VARIABLES
  history,   \* the policy repository: the kind of every version, oldest first
  hooks,     \* versions whose push webhook is on its way
  notified,  \* the newest version whose webhook policy-sync has acknowledged
  wake,      \* the threading.Event between the HTTP server and the worker
  pc,        \* the worker's next step
  attempt,   \* the loop counter of sync_with_retry
  work,      \* the version sync_once fetched and compiled
  seen,      \* the newest version when the last fetch ran, whatever came of it
  mem,       \* the in-memory stores; 0 is None
  file,      \* the files at the configured paths; 0 is no file
  health,    \* SyncState.last_sync_ok
  synced,    \* the version of this process's last successful sync; 0 is none
  devpi,     \* the constraints text of root/constrained
  late,      \* a PATCH that timed out and devpi may still execute; 0 is none
  disturbed, \* devpi changed hands since policy-sync last wrote or read it
  calm       \* from now on nothing fails

workerVars == <<pc, attempt, work, seen>>
devpiVars == <<devpi, late, disturbed>>
repoVars == <<history, hooks, notified>>
vars == <<history, hooks, notified, wake, pc, attempt, work, seen, mem, file,
          health, synced, devpi, late, disturbed, calm>>

Steps == {"fetch", "upstreamStore", "upstreamFile", "npmStore", "npmFile",
          "parsedFile", "parsedStore", "pypiFile", "devpiGet", "devpiPatch",
          "succeeded", "gaveUp", "wait", "clear"}

Newest == Len(history)
Compiles(v) == v \in 1..Newest /\ history[v] = "valid"
Accepted(v) == PypiText[v] \notin RefusedTexts

\* What GET /policy/<p> answers: memory, else the fallback file, else 404 (0).
Served(p) == IF mem[p] # 0 THEN mem[p] ELSE file[p]

TypeOK ==
  /\ history \in Seq(Kinds) /\ Len(history) <= MaxVersions
  /\ hooks \subseteq Version
  /\ notified \in 0..MaxVersions
  /\ wake \in BOOLEAN
  /\ pc \in Steps
  /\ attempt \in 1..Attempts
  /\ work \in 0..MaxVersions
  /\ seen \in 0..MaxVersions
  /\ mem \in [Stores -> 0..MaxVersions]
  /\ file \in [Dests -> 0..MaxVersions]
  /\ health \in {"none", "ok", "failed"}
  /\ synced \in 0..MaxVersions
  /\ devpi \in Nat \cup {NoIndex}
  /\ late \in 0..MaxVersions
  /\ disturbed \in BOOLEAN
  /\ calm \in BOOLEAN

Init ==
  /\ history = <<>> /\ hooks = {} /\ notified = 0
  /\ wake = FALSE
  /\ pc = "fetch" /\ attempt = 1 /\ work = 0 /\ seen = 0
  /\ mem = [p \in Stores |-> 0]
  /\ file = [p \in Dests |-> 0]
  /\ health = "none" /\ synced = 0
  /\ devpi = NoIndex /\ late = 0 /\ disturbed = TRUE
  /\ calm = FALSE

-----------------------------------------------------------------------------
(* The policy repository (Gitea) and its webhook *)

\* A commit reaches the default branch; Gitea posts one push webhook for it.
Push(kind) ==
  /\ Newest < MaxVersions
  /\ history' = Append(history, kind)
  /\ hooks' = hooks \cup {Newest + 1}
  /\ UNCHANGED <<notified, wake, workerVars, mem, file, health, synced,
                 devpiVars, calm>>

\* The expiry date of a rule passes: parse_policy drops the rule, so the same
\* file compiles to something else from now on.  No webhook announces it.
RuleExpires ==
  /\ Newest < MaxVersions
  /\ Compiles(Newest)
  /\ history' = Append(history, "valid")
  /\ UNCHANGED <<hooks, notified, wake, workerVars, mem, file, health, synced,
                 devpiVars, calm>>

\* do_POST /hooks/policy: an authentic push sets the event and is answered 202.
Webhook(v) ==
  /\ v \in hooks
  /\ hooks' = hooks \ {v}
  /\ notified' = IF v > notified THEN v ELSE notified
  /\ wake' = TRUE
  /\ UNCHANGED <<history, workerVars, mem, file, health, synced, devpiVars,
                 calm>>

\* policy-sync was down or unreachable; Gitea does not redeliver.
LoseWebhook(v) ==
  /\ ~calm
  /\ v \in hooks
  /\ hooks' = hooks \ {v}
  /\ UNCHANGED <<history, notified, wake, workerVars, mem, file, health,
                 synced, devpiVars, calm>>

-----------------------------------------------------------------------------
(* The worker: sync_once inside sync_with_retry inside run_sync_worker *)

\* Mutant of Failed: one attempt too many.
FailedOffByOne ==
  IF attempt <= Attempts
  THEN pc' = "fetch" /\ attempt' = attempt + 1
  ELSE pc' = "gaveUp" /\ UNCHANGED attempt

\* sync_once returns False: the next attempt, or the end of sync_with_retry.
Failed ==
  IF attempt < Attempts
  THEN pc' = "fetch" /\ attempt' = attempt + 1
  ELSE pc' = "gaveUp" /\ UNCHANGED attempt

\* Gitea is unreachable or answers with an error: GiteaError.
FetchFails ==
  /\ pc = "fetch" /\ ~calm
  /\ Failed
  /\ seen' = Newest
  /\ UNCHANGED <<repoVars, wake, work, mem, file, health, synced, devpiVars,
                 calm>>

\* policy.toml is absent, or parsing or compiling it raises PolicyError.
FetchUnusable ==
  /\ pc = "fetch" /\ ~Compiles(Newest)
  /\ Failed
  /\ seen' = Newest
  /\ UNCHANGED <<repoVars, wake, work, mem, file, health, synced, devpiVars,
                 calm>>

\* Mutant of FetchAndCompile: an error in the policy does not stop the sync.
FetchUnchecked ==
  /\ pc = "fetch" /\ Newest # 0
  /\ pc' = "upstreamStore"
  /\ work' = Newest
  /\ seen' = Newest
  /\ UNCHANGED <<repoVars, wake, attempt, mem, file, health, synced,
                 devpiVars, calm>>

FetchAndCompile ==
  /\ pc = "fetch" /\ Compiles(Newest)
  /\ pc' = "upstreamStore"
  /\ work' = Newest
  /\ seen' = Newest
  /\ UNCHANGED <<repoVars, wake, attempt, mem, file, health, synced,
                 devpiVars, calm>>

\* store.set(...) of one endpoint.
SetStore(p, here, next) ==
  /\ pc = here
  /\ pc' = next
  /\ mem' = [mem EXCEPT ![p] = work]
  /\ UNCHANGED <<repoVars, wake, attempt, work, seen, file, health, synced,
                 devpiVars, calm>>

\* _write of one destination: a no-op without a path; an OSError leaves the
\* old file (write_atomic renames last) and fails the sync.
WriteFile(p, here, next) ==
  /\ pc = here
  /\ \/ /\ pc' = next
        /\ file' = IF p \in Files THEN [file EXCEPT ![p] = work] ELSE file
        /\ UNCHANGED attempt
     \/ /\ p \in Files /\ ~calm
        /\ Failed
        /\ UNCHANGED file
  /\ UNCHANGED <<repoVars, wake, work, seen, mem, health, synced, devpiVars,
                 calm>>

\* Mutants of EmitUpstreamFile and WriteParsed: an OSError is ignored.
WriteFileAnyway(p, here, next) ==
  /\ pc = here
  /\ pc' = next
  /\ file' \in {file, [file EXCEPT ![p] = work]}
  /\ UNCHANGED <<repoVars, wake, attempt, work, seen, mem, health, synced,
                 devpiVars, calm>>
EmitUpstreamFileAnyway ==
  WriteFileAnyway("upstream", "upstreamFile", "npmStore")
WriteParsedAnyway == WriteFileAnyway("parsed", "parsedFile", "parsedStore")

EmitUpstreamStore == SetStore("upstream", "upstreamStore", "upstreamFile")
EmitUpstreamFile == WriteFile("upstream", "upstreamFile", "npmStore")
EmitNpmStore == SetStore("npm", "npmStore", "npmFile")
EmitNpmFile == WriteFile("npm", "npmFile", "parsedFile")
WriteParsed == WriteFile("parsed", "parsedFile", "parsedStore")
SetParsed == SetStore("parsed", "parsedStore", "pypiFile")
WritePypi == WriteFile("pypi", "pypiFile", "devpiGet")

\* Mutant of DevpiGet: a local record of what was applied spares the request.
DevpiGetRemembered ==
  /\ pc = "devpiGet"
  /\ \/ /\ synced = work
        /\ pc' = "succeeded" /\ disturbed' = FALSE
        /\ UNCHANGED attempt
     \/ /\ synced # work /\ devpi # NoIndex
        /\ pc' = "devpiPatch"
        /\ UNCHANGED <<attempt, disturbed>>
     \/ /\ synced # work /\ devpi = NoIndex
        /\ Failed
        /\ UNCHANGED disturbed
  /\ UNCHANGED <<repoVars, wake, work, seen, mem, file, health, synced, devpi,
                 late, calm>>

\* apply_constraints reads the live index config: no PATCH when it already
\* holds the text, DevpiError when devpi fails or the index does not exist.
DevpiGet ==
  /\ pc = "devpiGet"
  /\ \/ /\ devpi # NoIndex /\ devpi = PypiText[work]
        /\ pc' = "succeeded" /\ disturbed' = FALSE
        /\ UNCHANGED attempt
     \/ /\ devpi # NoIndex /\ devpi # PypiText[work]
        /\ pc' = "devpiPatch"
        /\ UNCHANGED <<attempt, disturbed>>
     \/ /\ devpi = NoIndex \/ ~calm
        /\ Failed
        /\ UNCHANGED disturbed
  /\ UNCHANGED <<repoVars, wake, work, seen, mem, file, health, synced, devpi,
                 late, calm>>

\* The PATCH is executed; its answer may be lost, which the worker takes for
\* a failure.
DevpiPatch ==
  /\ pc = "devpiPatch"
  /\ devpi # NoIndex /\ Accepted(work)
  /\ devpi' = PypiText[work]
  /\ \/ pc' = "succeeded" /\ disturbed' = FALSE /\ UNCHANGED attempt
     \/ ~calm /\ Failed /\ UNCHANGED disturbed
  /\ UNCHANGED <<repoVars, wake, work, seen, mem, file, health, synced, late,
                 calm>>

\* Mutant of DevpiPatchFails: the error of the PATCH is swallowed.
DevpiPatchFailureIgnored ==
  /\ pc = "devpiPatch"
  /\ devpi = NoIndex \/ ~Accepted(work) \/ ~calm
  /\ pc' = "succeeded"
  /\ UNCHANGED <<repoVars, wake, attempt, work, seen, mem, file, health,
                 synced, devpiVars, calm>>

\* The PATCH is refused or never reaches devpi.
DevpiPatchFails ==
  /\ pc = "devpiPatch"
  /\ devpi = NoIndex \/ ~Accepted(work) \/ ~calm
  /\ Failed
  /\ UNCHANGED <<repoVars, wake, work, seen, mem, file, health, synced,
                 devpiVars, calm>>

\* The PATCH times out in policy-sync while devpi still has it queued.
\* Bound: one such request at a time.
DevpiPatchTimesOut ==
  /\ pc = "devpiPatch" /\ ~calm
  /\ devpi # NoIndex /\ Accepted(work) /\ late = 0
  /\ late' = work
  /\ Failed
  /\ UNCHANGED <<repoVars, wake, work, seen, mem, file, health, synced, devpi,
                 disturbed, calm>>

\* Mutant of RecordSuccess: the event is cleared before the wait, not after it.
RecordSuccessAndClear ==
  /\ pc = "succeeded"
  /\ pc' = "wait"
  /\ health' = "ok"
  /\ synced' = work
  /\ wake' = FALSE
  /\ UNCHANGED <<repoVars, attempt, work, seen, mem, file, devpiVars, calm>>

\* state.record(ok), then wake.wait(poll_interval).
RecordSuccess ==
  /\ pc = "succeeded"
  /\ pc' = "wait"
  /\ health' = "ok"
  /\ synced' = work
  /\ UNCHANGED <<repoVars, wake, attempt, work, seen, mem, file, devpiVars,
                 calm>>

RecordFailure ==
  /\ pc = "gaveUp"
  /\ pc' = "wait"
  /\ health' = "failed"
  /\ UNCHANGED <<repoVars, wake, attempt, work, seen, mem, file, synced,
                 devpiVars, calm>>

\* wake.wait returns: a webhook set the event.
WokenUp ==
  /\ pc = "wait" /\ wake
  /\ pc' = "clear"
  /\ UNCHANGED <<repoVars, wake, attempt, work, seen, mem, file, health,
                 synced, devpiVars, calm>>

\* wake.wait returns: poll_interval passed.
PollDue ==
  /\ pc = "wait" /\ ~wake
  /\ pc' = "clear"
  /\ UNCHANGED <<repoVars, wake, attempt, work, seen, mem, file, health,
                 synced, devpiVars, calm>>

\* wake.clear(), and the loop starts a new sync_with_retry.
ClearWake ==
  /\ pc = "clear"
  /\ pc' = "fetch"
  /\ wake' = FALSE
  /\ attempt' = 1
  /\ UNCHANGED <<repoVars, work, seen, mem, file, health, synced, devpiVars,
                 calm>>

Worker ==
  \/ FetchFails \/ FetchUnusable \/ FetchAndCompile
  \/ EmitUpstreamStore \/ EmitUpstreamFile \/ EmitNpmStore \/ EmitNpmFile
  \/ WriteParsed \/ SetParsed \/ WritePypi
  \/ DevpiGet \/ DevpiPatch \/ DevpiPatchFails \/ DevpiPatchTimesOut
  \/ RecordSuccess \/ RecordFailure
  \/ WokenUp \/ PollDue \/ ClearWake

-----------------------------------------------------------------------------
(* Failures *)

\* The process dies and restarts: memory is lost, files stay, and main()
\* starts a fresh worker.
Restart ==
  /\ ~calm
  /\ mem' = [p \in Stores |-> 0]
  /\ wake' = FALSE
  /\ pc' = "fetch" /\ attempt' = 1 /\ work' = 0
  /\ health' = "none" /\ synced' = 0
  /\ UNCHANGED <<repoVars, seen, file, devpiVars, calm>>

\* devpi comes back with an empty data volume.
WipeDevpi ==
  /\ ~calm
  /\ devpi' = NoIndex
  /\ late' = 0
  /\ disturbed' = TRUE
  /\ UNCHANGED <<repoVars, wake, workerVars, mem, file, health, synced, calm>>

\* entrypoint.sh runs ensure_index.py: an existing index is left alone, a
\* missing one is created with the constraint '*', which blocks everything.
EnsureIndex ==
  /\ devpi = NoIndex
  /\ devpi' = Seed
  /\ disturbed' = TRUE
  /\ UNCHANGED <<repoVars, wake, workerVars, mem, file, health, synced, late,
                 calm>>

\* devpi executes, or drops, a PATCH its client gave up on.
LatePatch ==
  /\ late # 0
  /\ late' = 0
  /\ \/ devpi # NoIndex /\ devpi' = PypiText[late] /\ disturbed' = TRUE
     \/ UNCHANGED <<devpi, disturbed>>
  /\ UNCHANGED <<repoVars, wake, workerVars, mem, file, health, synced, calm>>

\* From here on Gitea, devpi, the disk and the network work and no process
\* dies.  Only the liveness property speaks of behaviors that take this step.
Settle ==
  /\ ~calm
  /\ calm' = TRUE
  /\ UNCHANGED <<repoVars, wake, workerVars, mem, file, health, synced,
                 devpiVars>>

Next ==
  \/ (\E kind \in Kinds : Push(kind)) \/ RuleExpires
  \/ \E v \in hooks : Webhook(v) \/ LoseWebhook(v)
  \/ Worker
  \/ Restart \/ WipeDevpi \/ EnsureIndex \/ LatePatch
  \/ Settle

Spec == Init /\ [][Next]_vars

\* The worker thread runs (wake.wait has a timeout, every call has one too),
\* a starting devpi runs its entrypoint, and devpi gets through its queue.
Fairness ==
  WF_vars(Worker) /\ WF_vars(EnsureIndex) /\ WF_vars(LatePatch)

LiveSpec == Spec /\ Fairness

-----------------------------------------------------------------------------
(* Properties *)

\* Whatever is served, stored on disk or enforced by devpi is the compiled
\* form of a version that compiles as a whole, and devpi never holds a text it
\* refuses; otherwise it is nothing at all or the seed that blocks everything.
\* (sync.py parses and compiles before it emits; absent and broken versions,
\* restarts, wipes and late requests must not break this.)
OnlyCompiled ==
  /\ \A p \in Stores : mem[p] = 0 \/ Compiles(mem[p])
  /\ \A p \in Dests : file[p] = 0 \/ Compiles(file[p])
  /\ \/ devpi \in {NoIndex, Seed}
     \/ \E v \in 1..Newest :
           Compiles(v) /\ Accepted(v) /\ devpi = PypiText[v]

\* A reader of both endpoints never meets npm rules newer than the upstream
\* policy, on which they rely for the quarantine age - not between two steps of
\* a sync, nor after a failed write, nor after a restart that falls back to
\* the files.  (The emission order argued for in sync.py.)
UpstreamLeads == Served("npm") <= Served("upstream")

\* A webhook that policy-sync acknowledged is never forgotten: either a fetch
\* has met that version since, or the event is set, or the worker is between
\* the wait and the fetch.  (run_sync_worker clears the event after the wait
\* and before it fetches.)
NoLostWakeup == notified > seen => wake \/ pc \in {"clear", "fetch"}

\* When /healthz says ok and the worker is idle, all three endpoints serve the
\* version of that sync, and devpi enforces it unless devpi lost its data or
\* executed an abandoned request since.
HealthyMeansApplied ==
  health = "ok" /\ pc = "wait" =>
    /\ \A p \in Stores : Served(p) = synced
    /\ disturbed \/ devpi = PypiText[synced]

\* OSV decisions never fall back to an older policy, not even when the process
\* restarts, if it has a file: the policy is on disk before it is in memory.
ParsedNeverRegresses ==
  [][("parsed" \in Files) => Served("parsed")' >= Served("parsed")]_vars

\* The three endpoints are last-known-good registers (LastKnownGood.tla): the
\* worker's stores and writes, its failures half way and its restarts amount
\* to adopting newer compiled versions and to the losses a restart may cause.
LKG == INSTANCE LastKnownGood
         WITH Endpoint <- Stores, Durable <- Files \cap {"parsed"},
              served <- [p \in Stores |-> Served(p)]
ServesLastKnownGood == LKG!Spec

\* Once nothing fails any more, every endpoint serves the newest version and
\* devpi enforces it, whether or not its webhook was delivered, provided that
\* version is valid.
Converged ==
  /\ \A p \in Stores : Served(p) = Newest
  /\ devpi = PypiText[Newest]
NewestIsValid == Compiles(Newest) /\ Accepted(Newest)
Converges == <>[]calm => <>[](NewestIsValid => Converged)
=============================================================================
