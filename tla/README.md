# Artea in TLA+

Artea is a private package registry: a gateway in front of Gitea (identity,
private packages and the policy repository), Verdaccio (npm mirror) and devpi
(PyPI mirror). One file in the policy repository, `policy.toml`, says which
public packages may pass. The service `policy-sync` compiles it and hands the
result to the two engines, and answers their questions about malicious
packages from OSV.

The modules here model the path of a policy from the commit to the decision
about a package, since that is where the code's own logic is: a worker with
retries and a webhook, three programs that poll, cache and keep the last known
good, a compiler whose two targets read rules in opposite senses, and a client
that batches the calls of concurrent threads. Beside it they model who gets
past the gateway and what a project's page lists, where caches of several
programs stand one behind the other. All paths below are relative to
the root of the repository.

## 1. Inventory

| Component | State it keeps | Operations | Modelled in |
|---|---|---|---|
| policy-sync worker (`policy-sync/policy_sync/{sync,server,store,files,gitea,devpi}.py`) | the event, the stores behind the endpoints, four files, `SyncState` | sync with retries, webhook, poll, restart | `PolicySync` |
| policy parser (`policy_model.py`) | none | `parse_policy` (grammar, expiry) | `PolicySync` (valid or not, expiry), `PolicyCompiler` (shape of a rule) |
| policy compiler (`compiler.py`, `adapters.py`) | none | `compile_policy` | `PolicyCompiler` |
| OSV client (`osv.py`) | verdict cache (memory and file), page cache, pending queries, gate | `decide`, `summarize_package` | `OsvClient` (`decide`), `VerdictCache` (the cache in time, its file) |
| enrichment (`enrich.py`) | enriched documents, metadata of releases | `enrich_devpi`, `enrich_gitea` | `SimpleIndex` |
| Verdaccio filter: loaders (`policy-loaders.ts`) | policy, ETag, failure streak, request in flight | `poll`, `current` | `PolicyLoader` |
| Verdaccio filter: compiled policy (`policy-compile.ts`) | none | `isNameBlocked`, `isVersionBlocked` | `PolicyCompiler` |
| Verdaccio filter: guard (`index.ts`, `osv.ts`) | decision cache, OSV cache, publish times, requests in flight | `filter_metadata`, tarball middleware | `NpmFilter` |
| Verdaccio authentication (`verdaccio-auth-gitea/src/index.ts`) | cache of good tokens | `authenticate`, `allow_access`, ... | `PackageAuth` (`authenticate`) |
| devpi plugin (`devpi/artea_devpi_policy/.../main.py`) | index config (devpi's), metadata and OSV caches | `validate_config`, filters, tween, `project_meta_view` | `DevpiPolicy`, `PolicyCompiler` and `PolicySync` (constraints) |
| devpi start-up (`devpi/ensure_index.py`, `entrypoint.sh`) | the index configuration | seed or leave alone | `PolicySync` (`EnsureIndex`) |
| gateway (`deploy/helm/artea/files/gateway/nginx.conf`, `gateway/njs`) | cached answers of Gitea, cached JSON pages | guard, precedence, enrichment, routes | `PackageAuth` (guard), `SimpleIndex` (JSON page) |
| Gitea patches, charts, scripts, e2e | - | - | not modelled |

How they interact:

- Gitea posts a push webhook to policy-sync, which sets an event; the worker
  thread waits on the event with the poll interval as timeout, fetches
  `policy.toml` from Gitea and compiles it.
- The worker sets in-memory stores (read by the HTTP handler threads), writes
  files (read after a restart or by another container), and PATCHes the devpi
  index `root/constrained`.
- Verdaccio's loaders poll the stores over HTTP with ETags; both policies, npm
  and upstream, are needed for the filter to open.
- Verdaccio and devpi post OSV questions to policy-sync, whose handler threads
  share the OSV client.
- The gateway asks Gitea three things about each request, and then hands it to
  Gitea, Verdaccio (which asks Gitea again) or devpi; for a mirror file it asks
  devpi first.
- For the JSON page of a project the gateway asks Gitea whether there is a
  private package of the name, and policy-sync for the page, which reads Gitea's
  or devpi's index and joins it with upload times.

What is hard, and the properties that make each component correct:

- *Worker.* Partial failure between emissions, crashes between any two steps,
  webhooks that race the clearing of the event or are lost, a devpi that comes
  back empty or executes an abandoned PATCH. It must never emit anything that
  did not compile, never let the npm rules lead the quarantine age they rely
  on, never forget an acknowledged webhook, report healthy only what is
  applied, and converge.
- *Loaders.* Answers that are delayed, lost, unchanged or unusable, coalesced
  with later polls. Staleness must be bounded, closing must not be premature,
  the ETag must be that of the policy in force, and the filter must reopen.
- *OSV client.* Threads that join, lead and wait; chunks that fail half way;
  a gate. Every request must be answered, with an answer about its own package
  that is not older than the request unless a cache gave it.
- *Compiler.* npm's target is a list of denies and devpi's a list of what is
  allowed, so denies are complemented. What is enforced must be the documented
  verdict for every combination of rules it accepts.
- *Filter.* A policy and a cached verdict read before an await and used after
  it, lookups that calls share, a decision cached from a verdict that was
  cached, lookups that fail open. What gets through must obey the policy the
  call began with, and a change of OSV's mind must count within a bounded time.
- *devpi plugin.* Threads that share two caches without a lock, fill them with
  answers that overtake each other, and judge a file by metadata that may not
  know it. What is forbidden or of unknown age stays hidden, everything else
  appears, and OSV's mind counts, each within a bounded time.
- *OSV's verdict cache.* Threads that write one temporary file, writes that fail,
  restarts, and a limit. A verdict must not outlive its TTL, a malicious one must
  not fall to pressure, and the file must never be half written.
- *Guard.* Answers that are good when Gitea gives them and are cached when they
  arrive, in two programs, for three questions each. A revocation must take hold
  within a bound, and an outage must not look like a denial.
- *JSON page.* A page in two caches, a fall-back on an older one, a package that
  appears or vanishes between two calls. The private package must win, dropped
  files must leave, and a just published one must be listed.

The hazards are listed with their lines in `PROJECT.json`, each with the properties
that are about it or the reason there is none.

## 2. Plan

Done, in this order: `PolicySync` with `LastKnownGood` and `PolicySyncProofs`;
`PolicyLoader` and `OsvClient`, each with its proofs; `PolicyCompiler`, which
`PolicySyncProofs` proves, too; `NpmFilter` with
`NpmFilterProofs`; `DevpiPolicy` with `DevpiPolicyProofs`; `VerdictCache` with
`VerdictCacheProofs`; `PackageAuth` with `PackageAuthProofs`; `SimpleIndex` with
`SimpleIndexProofs`. Left:

1. `FilePolicyLoader`, which the charts do not use;
2. the composition of worker, loader and filter: the time from a commit to its
   enforcement. The run of `PolicyLoader` has one loader; of `Composite`, what the
   filter makes of its two, `CompositeIsAlwaysOfLate` says how old it may be, and
   neither says which version of the policy the two endpoints agree on: each is
   polled by itself, so that the npm rules may be a poll ahead of the minimum age
   at the filter, which `PolicySync` excludes at the endpoints.

## 3. Modules

Every module models one component; `MC*` modules give the constants of its TLC
configurations (`PolicyLoader` needs none).
`PROJECT.json` maps each definition to its lines. A definition whose comment
begins with "Mutant" is a wrong version of an operator, used to see that a
property would notice; nothing in a specification refers to it.

**PolicySync.** A policy is the number of the version of the repository it came
from; `history` says whether that version is absent, invalid or valid, and
`PypiText` which constraints text a version compiles to, so that two versions may
share a text and devpi may refuse one. `pc` is the next step of the worker
thread: `fetch` to `devpiPatch` is `sync_once` in the order of its emissions,
`attempt` the loop of `sync_with_retry`, `succeeded` to `clear` the loop of
`run_sync_worker`. Memory (`mem`) and disk (`file`) are separate, and `Served` is what
an endpoint answers. `write_atomic` either replaces a file or leaves it. The
HTTP handlers, the wipe and start of devpi, an abandoned request (`late`), a crash
(`Restart`) and the expiry of a rule interleave with every step.

`disturbed` remembers that devpi changed hands since the last time policy-sync
looked; `synced`, `seen` and `notified` are history, read by properties only. `calm`
is set once (`Settle`) and turns failures off; safety is checked with and
without it.

**LastKnownGood** is what a poller may rely on: an endpoint serves nothing or a
policy that compiled, only newer ones replace it, and only a restart takes
ground away. `PolicySync` implements it with `served` mapped to `Served`.

**PolicyLoader.** One record per loader for the request in flight, an ETag, a
document, and `failing` for `failingSince`. Time is discrete (`Tick`); a step in
the code that compares two clock readings compares counters that run up to
their cap. `since` and `quiet` are history. policy-sync's side is
`Publish` and `Answer`, so that any sequence of documents, also an old one that
returns or none at all, meets any delay.

**OsvClient.** One record of program counter and local variables per handler
thread; a pending query is named by the thread that created it. `Enqueue` and
`TakeBatch` are the two critical sections under `_package_batch_lock`, and
`gather` is the sleep between them. `_resolve_package_batch` is `Acquire`,
`OsvAnswers`, `ReceiveChunk` per chunk, with `BatchFails` anywhere after
`Acquire`. OSV's database (`truth`) grows at any time, and a cache entry may vanish
at any time, which covers expiry and eviction for the safety properties.

**PolicyCompiler.** A state is a policy and what compiling it emits; a step adds
or drops a rule. `EmitNpm` and `EmitPypi` build what the two texts say, and
`NpmBlocks`, `DevpiAccepts` and `DevpiBlocks` read it as the engines do. Versions are
sequences of numbers, so that `1` and `1.0` are different texts of one version;
an expression is a comparator and a version, `~=` standing for the forms no
single comparator inverts. `Blocked` is the reference: the verdict the schema
documents, computed from the rules alone. The names of the specification begin
with `Compiler` because `PolicySyncProofs` extends `PolicySync` as well.

**NpmFilter.** One package, a few calls at a time. A call is `filter_metadata` or
`guardTarball` from the reading of the policy to the reply: `FilterMiss` and `Guard`
run to the await of `blockedVersions`, `Resume` from there, and `times` is the await
of the publish times. `lookup` holds the coalesced requests by the versions they
ask for; `verdict` and `decision` are the two caches with the time their entries have
left. Continuations run before any other event (`Turn`), as microtasks do.
`Reassess` is policy-sync changing its verdict on a version, and `held` the time
since. `reply` is the last step's answer, for the properties. Eviction at a
cache's limit, which only shortens an entry's life, is left out.

**DevpiPolicy.** One project; a thread is at most at one request, which reads the
index configuration at its start. The age of a file decides only if the
metadata knows the file. `fetch` and `ask` are the waits for PyPI and policy-sync,
with the moment of the answer apart from its arrival. `cache` is the OrderedDict
in its order; `touch`, `drop` and `sweep` are the places where another thread may run
between a lookup in it and what is done with the result. Each of them may meet
a missing key and break the request off (`Breaks`). The check of the size and the
removal of the oldest entry are one step. Time stands still while a thread is
at one of these places, which is to say that a thread is not suspended for a
time comparable to the TTLs.

**VerdictCache.** `_VerdictCache` and the part of `decide` that uses it, with a clock:
`OsvClient` lets a verdict vanish at any time, here it has an age. `Store` is `set`
with its eviction (`Trimmed`, the order being `GoesBefore`), and `Snapshot` the part of
`persist` that holds the lock; what follows happens without it, as `Open`, `Write` and
`Rename` of one temporary file that the threads share. A file that is open for
writing is `Torn`. `WriteFails` and `Restart` may come at any point. `told` and `unbounded`
are history: when OSV last said what, and what the cache would hold without a
limit.

**PackageAuth.** One user with one token. A request is at one call to Gitea at a
time; `GiteaAnswers` is the moment of the answer and the next action of the request
its arrival. `Leg` is one of the gateway's three questions in `authStatus`, `FileGuard`
the last part of `pypiFileGuard`, and `Plugin...` are `verifyAgainstGitea` and what
`authenticate` makes of its result. `ToUser`, `ToMember`, `ToScope` and `Behind` say what
a request finds in the caches on its way to the next call. A cache entry is the
time it has left. `out` is the time since the user lost access, and `entitled` whether
a request's user has had access throughout. nginx keeps its entries in memory and
on an ephemeral disk, so that they may vanish (`GateForgets`).

**SimpleIndex.** One project name, with public files and a private package. A
request goes from `probe` (`enrichRoute`) through nginx's location `/_enrich` (`Enrich`,
with its cache, its lock and the bypass) to policy-sync: `page` is `enrich_gitea`, `base`
and `meta` are the two calls of `enrich_devpi`. A page is its files and whether they
have upload times. `Gate` and `Release` change what the two indexes list at any time.
`absent`, `bare` and `due` are what a request has witnessed, for the properties.

## 4. Runs

| Run | Instance | Shows |
|---|---|---|
| `PolicySyncHttp` | 3 versions, 2 attempts, file for the parsed policy, one text refused by devpi | `OnlyCompiled`, `NoLostWakeup`, `HealthyMeansApplied`, `ParsedNeverRegresses` |
| `PolicySyncFiles` | 2 versions, all four files | `UpstreamLeads`, implements `LastKnownGood`, `Converges` |
| `PolicyLoaderOne` | 2 good documents and one that does not parse; poll 2, timeout 2, grace 3 | `BoundedStaleness`, `KeepsLastKnownGood`, `EtagIsOfPolicy`, `Recovers` |
| `OsvClientBatch` | 3 threads, 2 packages, chunks of 1, 2 permits, a vague record | `NoWaiterForgotten`, `NoFalseBlock`, `SharedAnswersAreFresh` |
| `OsvClientLive` | 2 threads, 2 packages, 1 permit | `EveryRequestAnswered` |
| `PolicyCompilerRules` | up to 4 of 38 rules for npm and PyPI, every default | `DeniesHold`, `AllowsHold`, `DevpiTakesWhatCompiles` |
| `DevpiPolicyCaches` | 2 threads, 2 versions of a file each, 3 configurations; TTLs and timeouts 1, one cache entry | `ConfigObeyed`, `BoundedExposure`, `NothingHiddenForLong` |
| `NpmFilterCaches` | 2 calls, 2 versions, 3 policies; decision TTL 1, OSV TTL 2, timeouts 1 | `PolicyObeyed`, `BoundedExposure`, `NothingStrippedForLong` |
| `VerdictCacheFile` | 2 threads, 3 versions, room for 2; TTLs 2 and 1, interval 2, writes of up to 1 | `VerdictsExpire`, `MaliciousOutlivesPressure`, `SavedVerdictsSurvive` |
| `PackageAuthStacked` | 2 requests, TTL 2, calls of up to 1 | `RevocationTakesHold`, `OutageIsNotDenial` |
| `SimpleIndexCaches` | 2 requests, 1 public file, 2 private; TTLs 1, fall-back 2, calls of up to 1 | `PrivateShadowsPublic`, `DroppedFilesLeave`, `JustPublishedIsListed`, `UnstampedIsBrief` |

Most of these also check the module's `TypeOK`. `PolicySyncFiles` and `OsvClientLive` do
not, as they share a module with another run; nor do `VerdictCacheFile` and
`PackageAuthStacked`, whose type correctness is proved. One more run,
`DevpiPolicyKeyError`, must find a violation (section 5).

Why the bounds are enough: two versions show a replacement and a fall-back, the
third lets a text return (version 3 has the text of version 1), which is when
devpi needs no PATCH; two attempts show a retry, and one is enough where only
the final failure matters. Two documents show a change, a third the return
of the first; a grace period that is longer than the poll interval and no
multiple of it separates the two clocks. Three threads are a leader, a
follower of its query and one that comes too late or leads the next batch; two
packages in chunks of one make a batch of two calls. A rule only meets rules
about its own name and scope; no conflict the code knows involves more than
three of them, and a fourth is free. Two versions let a call read one verdict
from the cache and wait for the other; two calls can share a lookup or overtake
each other. Every term of the bound in `BoundedExposure` is needed: with one unit
less, TLC finds a call that exceeds it. The same goes for the bounds of
`DevpiPolicy`; there, a minimum age of one unit is as long as the metadata may be
old, so that the two meet. Two versions give three keys of its OSV cache, which
has room for one: entries are evicted, expire and are swept by other requests.
The instance has neither a file whose name tells no version nor an index without
any policy: such a request is answered in one step, whatever the state.

In `VerdictCacheFile` two verdicts fill the cache and the third makes it choose; two
threads can write the temporary file at once only if a write takes as long as
the interval, which is what `WriteTime < Interval` excludes (section 6). The clock of
that module is unbounded: `View` shows TLC ages instead of times, up to the age
at which an entry has expired, so that the run covers any length of time. In
`PackageAuthStacked` a TTL of two lets an entry be found fresh and in its last moment,
and two requests let an older check end after a newer one. With one unit less in
`Exposure`, TLC finds a request that is served too late. One public file is enough
for `SimpleIndexCaches`, whose properties speak of each file by itself, and so are
two private ones: one that was there and one that is published.

Symmetry is used for threads (`OsvClientBatch`, `DevpiPolicyCaches`, `VerdictCacheFile`, there
for versions as well), calls (`NpmFilterCaches`) and requests (`PackageAuthStacked`,
`SimpleIndexCaches`), in runs without liveness. Deadlock is checked in every run.

Fairness: `PolicySyncFiles` assumes that the worker thread runs, that a starting
devpi runs its entrypoint and that it works off or drops a queued request;
`wake.wait`, each request and each retry delay have timeouts, so the worker never
stops by itself. It does not assume that a webhook arrives. `PolicyLoaderOne`
assumes that time passes, that timers fire and that a request which does not fail
is answered. `OsvClientLive` assumes that threads run (an OSV call has a timeout)
and that the semaphore starves nobody (strong fairness of `Acquire`:
`threading.Semaphore` keeps its waiters in a condition variable's queue).
`Converges` and `Recovers` speak of behaviours in which failures stop; nothing can
be promised for the others. The other modules have no liveness property: their
lookups have timeouts, and what they promise is a bound, which is a safety
property.

## 5. Where documentation and code differ

One is a mistake in the code and has a run that TLC must find violated,
`DevpiPolicyKeyError`: two threads of devpi that find the same verdict expired both
delete it, and the request of one of them fails, though after its TTL a verdict is
merely to be looked up again. `PROJECT.json` quotes the test. Nothing but another
thread causes it: `OnlyAnotherThreadBreaksIt` in section 6.

The others are differences between what is written and what is done. They are
visible in the modules, or are exceptions that their properties name, so that
everything else is checked. In the worker, the filter, the caches and the
gateway:

- with the npm file alone unwritable, devpi is never updated
  (`policy-sync/README.md:103`, "one ecosystem failing never blocks the other",
  against `sync.py:116`, where the error leaves `sync_once` before `_emit_pypi`);
- an older, slower clean answer replaces a malicious verdict that is still fresh
  (`policy-sync/README.md:104-105`, "any fresh cached malicious verdicts remain
  blocking", against `osv.py:122`), which is why `VerdictsExpire` and
  `MaliciousOutlivesPressure` speak of what was heard last;
- verdicts older than the last interval may be lost in a crash, since `persist` runs
  on a later miss only (`osv.py:145`, "verdicts fetched within the last interval may be
  lost"): `SavedVerdictsSurvive` dates from the snapshot instead;
- a revoked token may be served for one TTL and the time that two calls take, or
  three for a mirror file, and nothing below nginx's 300 s bounds a call
  (`docs/guides/operations.md:245`, "within 30 s", and `nginx.conf:45-48`); on the other
  hand the TTLs of gateway and Verdaccio do not add up, as line 244 has it, because
  each asks Gitea itself. `Exposure` is the bound that holds;
- Verdaccio asks for no package scope, so that a request from inside the cluster
  needs none (kind `direct` of `PackageAuth`);
- while only the metadata fails, the page is an older one and may list a file that
  the list just read lacks (`enrich.py:31`, "It never re-introduces a filtered file",
  against `enrich.py:398-401`): `DroppedFilesLeave` has a longer bound for such a page;
- a page without upload times stays in nginx's cache for its TTL
  (`enrich.py:349-350`, "the next request retries", against `nginx.conf:397`):
  `UnstampedIsBrief` allows for it;
- the npm endpoint serves the policy of a sync that then failed at devpi
  (`policy-sync/README.md:60` against `sync.py:83-86`);
- the TTL of the decision cache is not all that bounds a decision's staleness:
  the TTL of the OSV verdicts it was taken from comes on top
  (`verdaccio/plugins/verdaccio-filter-artea/src/index.ts:24` against its line 291
  and `osv.ts:108-121`), which is why `MetadataExposure` has both;
- devpi's OSV cache knows sets of versions: while lookups fail, a version that
  is in a fresh entry as malicious passes when it is asked for alone
  (`devpi/README.md:128` against `main.py:256`);
- an exact allow un-blocks its version, but two of them for one npm package
  block each other's (`docs/policy-schema.md:104-106` against `compiler.py:204`);
- a whole and a range deny of one PyPI package compile to two lines, which devpi
  refuses (`docs/policy-schema.md:296-297`, "multiple denies for one package are
  combined into the single comma-joined specifier devpi accepts", against
  `compiler.py:417`);
- some allows inside a denied npm scope compile and do nothing
  (`docs/policy-schema.md:118-120` against `compiler.py:184-213`);
- denies that leave no version slip through when they use `==`, or `1` against
  `1.0`, or a lone `>=0`, or when two of them bound the same side at one version, as
  in `<1`, `<=1`, `>1`, of which the looser is kept
  (`docs/policy-schema.md:347-350` against `adapters.py:266-282`), and `>=1.0` with
  `<=1` is flagged though a version is left (`adapters.py:260-261` against `285-288`);
- version 0 of a PyPI package that is denied whole passes, `0.0` as well
  (`docs/policy-schema.md:79` against `compiler.py:329-342`).

## 6. Proofs

Eight modules hold proofs, each of one invariant `IInv`, which says more than the
properties do since none of them is inductive, and of what follows from it
(`PolicySyncProofs` holds the compiler's proofs, too, with an invariant of their own).

`PolicySyncProofs` proves, for every number of versions and attempts, every set
of configured files (with the upstream file beside the npm file, as `config.py`
defaults it) and every table of texts: type correctness, all safety properties of
`PolicySync`, and that it implements `LastKnownGood`.

None of the properties is inductive. `IInv` adds to them:

- `PublishedInv`: nothing refers to an unpublished version;
- `CompiledInv`: what the worker holds while it emits compiles, and so does a
  request devpi may still execute;
- `EmissionInv`: which stores and files the worker has already brought to the
  version it emits, by its step, and that none is ahead of it;
- `OrderInv`: npm behind upstream in memory, on disk, and between the two, since a
  restart mixes them: an endpoint whose memory is empty serves its file;
- `SuccessInv`: what a success means until the worker leaves its wait.

`NextIInv` has one step for each action and under it one for each part the action
can disturb; frame lemmas dispose of the other parts. The refinement
classifies every step, as the reader of the endpoints sees it, as no change, one
endpoint moving to the worker's version, or a fall-back to the files
(`ServedStep`).

The assumptions are those of `PolicySync`: `BoundsAssumption`, `FilesAssumption`,
`PypiTextAssumption`. TLC evaluates them in every run and has checked `IInv` on the
instances above before it was proved.

The second part of `PolicySyncProofs` proves of `PolicyCompiler`, for any finite set of
rules, any names and scopes and any defaults, its type correctness and its three
properties. The compiler keeps nothing but its rules, so that `CompilerInv` only says
what has been emitted: the result of `Compile` for the rules there are. The work is in
what that result means, and its lemmas go from the order of versions to the verdict:

- `Endless` and `OneOrder`: filling up with zeros makes the comparison of releases a
  total order, whose equivalence `Same` is (`1` and `1.0`);
- `ComplementInverts`: of each comparator that has a complement, the complement
  accepts exactly the versions the comparator does not;
- for npm, what `EmitNpm` collects denies and lifts what the rules do, whichever
  order they come in, with a package's one exact allow (`OneExactAllow`) and a scope's
  exceptions as the code has them;
- for PyPI, the line of a package (`PypiLines`, `OwnLines`) says what its allows and the
  complements of its denies say together.

`complement_set_is_empty` is conservative in both directions, and two theorems say how
far. `RefusedAsEmptyIsBlockedWhole`: what it refuses leaves no version indeed, if the
denies of the package write no version in two ways. `RangesAlwaysLeaveAVersion`: what
it lets compile leaves one, if the denies are plain ranges (`Plain`) and `Tidy`, that
is to say they write no version in two ways nor bound one side twice at the same;
between two bounds there is always a version (`Dense`), because releases may be as
long as one likes. The hypotheses leave out what section 5 lists, and nothing else.
The assumptions are `RulesAssumption` and `NamesAssumption`.

`PolicyLoaderProofs` proves, for any set of loaders and documents and any poll
interval, timeout and grace period, type correctness and the three safety
properties of `PolicyLoader`. Its `IInv` adds

- `ServedInv`: what an endpoint serves, it served no time ago;
- `AnswerInv`: an answer was served no longer ago than its request is old, and a 304
  vouches for the policy in force;
- `DocInv`: how long ago the policy in force may have ceased to be served, by the
  failure streak if there is one, else by the request's age or the poll timer;
- `QuietInv`: a failure streak is no longer than the time without a success.

The 304 is why `EtagIsOfPolicy` is part of `IInv`: it renews the policy in force,
whichever the request was about. `CompositeIsAlwaysOfLate` puts the properties of
the loaders together: what the filter enforces is complete, usable and of late,
although each loader polls, fails and recovers by itself. The assumptions are
`DocsAssumption` and `TimesAssumption`.

`OsvClientProofs` proves, for any finite set of threads, any packages, any size of a
chunk and any number of permits, type correctness and the three safety properties
of `OsvClient`. Its `IInv` adds

- `QueueInv`, `LeadInv`: a query is in the queue once, and there is one leader as long
  as there is a queue, with its own query in it;
- `BatchInv`, `DisjointInv`: a batch is resolved by one of its threads while the others
  wait, and no query is in two places;
- `WaitInv`: whoever waits does so for a query of its own package;
- `TruthInv`: what was learnt, cached or answered is true of its package;
- `FreshInv`: no result that is on its way to a late request says `clean`.

A thread that nobody waits for only changes its own variables (`OwnStep`), which
settles all actions but those of the batch; `SetEventsInv` is both ends of one.

Two theorems come near to liveness. `NobodyIsToldNothing`: a thread that wakes finds a
result or a failure in its query, since nobody sets an event without either
(`ToldInv`). `NobodyIsStuck`: as long as a request is unanswered, some thread can go on.
`ENABLED` is out of the prover's reach, so `CanMove` states the guards of the actions
instead; TLC has confirmed on the instance of the run that the two are the same.

The assumptions are `SizesAssumption`, `PackagesAssumption` and `ThreadsAssumption`, which
bounds the queue's length.

`VerdictCacheProofs` proves, for any number of threads and versions, any limit and
any TTLs, type correctness and the three properties of `VerdictCache`. Its `IInv` adds

- `HeardInv`: an entry, in memory, in a snapshot or in the file, is what OSV said at
  the time it bears, and not in the future;
- `WriterInv`: at most one thread writes, its snapshot is the last one, and the
  temporary file is its own;
- `SavedInv`: a snapshot, and so the file, has every entry older than itself that the
  cache still has;
- `LimitInv`: what the cache has, the unbounded one has too.

The assumptions are `TimesAssumption`, which includes that a write takes less time
than `PERSIST_MIN_INTERVAL_SECONDS` (without it two threads do tear the file), and
`LimitAssumption`; `NoneAssumption` and `TornAssumption` keep the special values apart.

`PackageAuthProofs` proves, for any number of requests, any TTL and any longest
duration of a call, type correctness, `RevocationTakesHold` and `OutageIsNotDenial`. Its
`IInv` adds `CacheInv`, how long the user can have been out when an entry has so much
time left, and for each request `Recent` (the same of what it has passed, by the call it
waits for), `Routed` (the scope was checked unless it came past the gateway) and `Just`
(nobody entitled is refused). Going on to the next call or being answered is the same
step everywhere, so that the lemmas `To...Due` show, from the last call to the first,
that the next step is one the invariant allows, and `GoToIInv` that it keeps it. The
assumptions are `TimesAssumption` and `NoneAssumption`.

`SimpleIndexProofs` proves, for any number of requests, files and releases, any TTLs
and any longest duration of a call, type correctness and the four properties of
`SimpleIndex`. Its `IInv` adds

- `OutInv`: a file devpi lists is not out;
- `EnrichInv`: a page policy-sync keeps has its upload times, and its files have been
  out no longer than its age and two calls;
- `GatewayInv`: a page nginx keeps is one policy-sync gave so long ago (`Fit`);
- for each request `Witness` (on the public branch it has seen Gitea without a
  package, and an empty public index if it heard of none), `Place` (which branch it is
  on, by where it is) and `Recent` (how old the list is that it has read).

A page reaches nginx and the client in one step, so that `DeliverInv`, about any
`Good` page, serves every action that answers with a new one, and `KeptInv` those that
answer from nginx's cache. The assumptions are `TimesAssumption` (a page may be fallen
back on at least as long as it is fresh) and `NoneAssumption`.

`NpmFilterProofs` proves, for any number of calls and versions, any policies, any TTLs
and any timeouts, type correctness and the three safety properties of `NpmFilter`.
Its `IInv` adds what is known and how old it may be:

- `VerdictInv`: what the OSV cache says of a version was right when policy-sync said
  it, no longer ago than the entry and the request for it are old (`Said`);
- `LookupInv`: the same of an answer under way (`AnswerInv`), of which a degraded one may
  lack a version;
- `DecisionInv`: the versions a cached decision lets through pass its fingerprint and
  were harmless, the others were blocked, young or malicious, so long ago;
- `CallInv`: the same of a call between its awaits, as far as it has come
  (`MetadataInv`, `TarballInv`).

Every part has an age, so that the steps of the world, `Tick` included, are one
lemma (`WorldInv`): if all of them age by `d` and the world moves on by `d`, all stay
true. `MoveInv` is the frame of the steps of a call, `RepliedInv` its end, and
`AwaitInv`, `FilteredInv` and `CheckedInv` the three ways a call goes on. The
assumptions are `PoliciesAssumption`, `TimesAssumption` and `NamesAssumption`; the bounds
`MetadataExposure` and `TarballExposure` are in terms of them.

`DevpiPolicyProofs` proves, for any number of threads, files and versions, any
configurations, TTLs, timeouts and limit of the cache, type correctness and the
three safety properties of `DevpiPolicy`. Its `IInv` adds

- `CachesInv`: the metadata were PyPI's files no longer ago than they and the request
  for them are old (`Seen`), and the OSV cache is `Kept`: a key has one entry, and an
  entry that has time left says what policy-sync said so long ago (`EntryInv`);
- `CallInv`: of a request, what it has been answered and how old that is (`AnswerInv`),
  and that its filters let pass what the configuration allows and held back what was
  forbidden, young or unknown when they ran (`AllowedInv`, `Elapsed` ago).

Between two operations on the cache nothing about the cache is kept but `Kept`, which
every operation maintains by itself (`WithoutKept`, `AppendKept`, `EvictedKept`): this
is why no lock is needed for safety, though a key may be missing when a thread comes
back to it. `WorldInv` lets everything age, as in `NpmFilterProofs`; `DecideInv` and
`LookupInv` are the part of a request that all its beginnings share, `UnblockedWell` and
`RepliedInv` its end.

`OnlyAnotherThreadBreaksIt` is about the mistake of section 5. `NoRequestBreaks` does
not hold, but it does in every behaviour in which no thread writes the cache while
another is between its lookup and what it does with the result (`Undisturbed`):
then the keys a thread has found are still there (`Present`), through all of its sweep
(`KeysWithout`). A lock around the two would be enough. The assumptions are `ConfigsAssumption`, `FilesAssumption` and
`TimesAssumption`.

Only model-checked: liveness (`Converges`, `Recovers`, `EveryRequestAnswered`), which
is out of the prover's reach. Every other property of a passing run is a theorem.

## 7. Not modelled, and why

- The grammar of TOML, YAML, PEP 440 and semver: libraries' work; a document is
  well-formed or not. Name normalisation likewise.
- Logging, metrics, HTTP framing, authentication of the webhook (`Webhook` is an
  authentic push) and of policy-sync towards devpi and Gitea.
- `summarize_package`, which reports what the same queries find.
- A second policy-sync process: the chart runs one replica.
- The tail of `entrypoint.sh` and the other indexes of `ensure_index.py`: they are
  set once and no property reads them.
- Of the gateway: routes, rewrites, the order of locations, limits of body sizes;
  the HTML page, which is not cached; the private packages themselves, which Gitea
  guards.
- Of Verdaccio's authentication: `allow_access` and `allow_publish`, which read the
  groups and nothing that changes; the sweep of expired entries, which nothing can
  observe; impersonation (a valid token of another account is refused).
- Of enrichment: the contents of a page, and the cached metadata of a release, of
  which Gitea never changes anything.
- `FilePolicyLoader`: see section 2. It stats before it reads, so that a file that
  is replaced in between is read again by the next request.
- Of devpi's plugin: the filters of the lists of projects and of versions, which
  installers do not ask for (the latter is the filter of files with a laxer age),
  and the normalisation of configuration values.
- Of the filter: prewarming of dependencies, which caches nothing a decision is
  taken from; dist-tags; the redirect of a cleared tarball.
