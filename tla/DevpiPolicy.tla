----------------------------- MODULE DevpiPolicy -----------------------------
(***************************************************************************)
(* The policy plugin of devpi on one public project: the filter of its     *)
(* simple page (the list of files), the decision about one file, the       *)
(* metadata it hands to policy-sync, and the two caches behind them. devpi *)
(* serves requests on a pool of threads, and nothing locks the caches: a   *)
(* thread may be interrupted between any two operations on osv_cache.      *)
(*                                                                         *)
(* policy-sync may PATCH the index at any time: a request reads some       *)
(* configuration at its start, and keeps it.  PyPI answers by the files it *)
(* has at that moment, policy-sync by the versions it holds malicious.     *)
(* Upload times, once known, are right for good.                           *)
(*                                                                         *)
(* Time is discrete: Tick lets one unit pass.  It passes while threads     *)
(* wait for the network, not while they compute.                           *)
(***************************************************************************)
EXTENDS Integers, SequencesExt

CONSTANTS
  Threads,
  Versions,     \* the versions of the project
  Files,        \* its files on PyPI
  VersionOf,    \* the version a file's name tells, or None
  New,          \* the files that are uploaded while the system runs
  Suspects,     \* bound: the versions policy-sync may change its mind on
  Configs,      \* what the index configuration may say of the project
  OldAge,       \* bound: ages are counted up to here
  MetaTtl,      \* DEFAULT_METADATA_CACHE_SECONDS
  OsvTtl,       \* OSV_CACHE_SECONDS
  MaxEntries,   \* OSV_CACHE_MAX_ENTRIES
  MetaTimeout,  \* the longest PyPI takes to answer
  OsvTimeout,   \* the longest policy-sync takes to answer
  None

\* only: the versions the project's own constraint accepts, or None.  all: a
\* line "*" denies what has no constraint.
ASSUME ConfigsAssumption == \A c \in Configs :
  /\ c.only = None \/ c.only \subseteq Versions
  /\ c.all \in BOOLEAN /\ c.osv \in BOOLEAN
  /\ c.minAge \in 0..OldAge
ASSUME FilesAssumption ==
  /\ VersionOf \in [Files -> Versions \cup {None}]
  /\ New \subseteq Files /\ Suspects \subseteq Versions /\ None \notin Versions
ASSUME TimesAssumption ==
  /\ OldAge \in Nat /\ MetaTtl \in Nat \ {0} /\ OsvTtl \in Nat \ {0}
  /\ MetaTimeout \in Nat \ {0} /\ OsvTimeout \in Nat \ {0}
  /\ MaxEntries \in Nat \ {0}

\* The longest a change of policy-sync's mind, or of PyPI's files, goes
\* unnoticed: an answer under way, then an entry of the cache in its last
\* moment, then, for the files, the question to policy-sync that follows.
OsvLag == OsvTimeout + OsvTtl - 1
MetaLag == MetaTimeout + MetaTtl - 1 + OsvTimeout
Horizon == OsvLag + 1

VARIABLES
  age,     \* age of each file, up to OldAge; -1 is not uploaded
  mal,     \* the versions policy-sync holds malicious
  held,    \* time since policy-sync last changed its mind on v, capped
  meta,    \* metadata_cache: the files known and the time left, or None
  cache,   \* osv_cache, an OrderedDict: its entries from the oldest use on
  thr,     \* what each thread is at
  reply    \* the request that was answered by the last step, or None

vars == <<age, mal, held, meta, cache, thr, reply>>

Idle == [phase |-> "idle", kind |-> "simple", config |-> None, items |-> {},
         allowed |-> {}, answer |-> None, due |-> {}, failed |-> {},
         waited |-> 0]

Uploaded == {f \in Files : age[f] >= 0}
VersionsOf(files) == {VersionOf[f] : f \in files} \ {None}

Local == {"touch", "drop", "sweep"}  \* between two operations on the cache

Entries == [key : SUBSET Versions, blocked : SUBSET Versions,
            left : 0..OsvTtl]
Keys == {cache[i].key : i \in DOMAIN cache}
Position(key) == CHOOSE i \in DOMAIN cache : cache[i].key = key
Entry(key) == cache[Position(key)]
Without(key) == IF key \in Keys THEN RemoveAt(cache, Position(key)) ELSE cache

TypeOK ==
  /\ age \in [Files -> -1..OldAge]
  /\ mal \subseteq Versions
  /\ held \in [Versions -> 0..Horizon]
  /\ meta # None => meta.files \subseteq Files /\ meta.left \in 1..MetaTtl
  /\ cache \in Seq(Entries)
  /\ \A i, j \in DOMAIN cache : cache[i].key = cache[j].key => i = j
  /\ \A t \in Threads :
       /\ thr[t].phase \in {"idle", "fetch", "ask"} \cup Local
       /\ thr[t].kind \in {"simple", "link", "meta"}
       /\ thr[t].allowed \subseteq thr[t].items
       /\ thr[t].waited <= IF thr[t].phase = "fetch" THEN MetaTimeout
                           ELSE OsvTimeout

Init ==
  /\ age = [f \in Files |-> IF f \in New THEN -1 ELSE OldAge]
  /\ mal = {} /\ held = [v \in Versions |-> Horizon]
  /\ meta = None /\ cache = <<>>
  /\ thr = [t \in Threads |-> Idle] /\ reply = None

-----------------------------------------------------------------------------
(* The world around the plugin *)

Upload(f) ==
  /\ age[f] = -1
  /\ age' = [age EXCEPT ![f] = 0] /\ reply' = None
  /\ UNCHANGED <<mal, held, meta, cache, thr>>

Reassess(v) ==
  /\ mal' = IF v \in mal THEN mal \ {v} ELSE mal \cup {v}
  /\ held' = [held EXCEPT ![v] = 0] /\ reply' = None
  /\ UNCHANGED <<age, meta, cache, thr>>

-----------------------------------------------------------------------------
(* The end of a request *)

Replied(t, call, through) ==
  /\ thr' = [thr EXCEPT ![t] = Idle]
  /\ reply' = [kind |-> call.kind, config |-> call.config,
               items |-> call.items, through |-> through,
               failed |-> call.failed]

\* A KeyError of the OSV cache that nobody catches: status 500.
Breaks(t, call) == Replied(t, [call EXCEPT !.failed = @ \cup {"error"}], {})

Continue(t, call, phase) ==
  /\ thr' = [thr EXCEPT ![t] = [call EXCEPT !.phase = phase]]
  /\ reply' = None

\* What the filters let through, given what policy-sync blocks.
Unblocked(call, blocked) == {f \in call.allowed : VersionOf[f] \notin blocked}

-----------------------------------------------------------------------------
(* The OSV cache, one operation at a time *)

Key(call) == VersionsOf(call.allowed)
EntryFor(call) ==
  [key |-> Key(call), blocked |-> call.answer, left |-> OsvTtl]

\* The lookup in osv_cache.
\* Mutant of Fresh: an entry is used until it is replaced.
FreshForEver(e) == TRUE
Fresh(e) == e.left > 0

Lookup(t, call) ==
  IF Key(call) \notin Keys THEN Continue(t, call, "ask")
  ELSE LET e == Entry(Key(call))
       IN IF Fresh(e)
          THEN Continue(t, [call EXCEPT !.answer = e.blocked], "touch")
          ELSE Continue(t, call, "drop")

\* Mutant of OldEnough: a file that the metadata does not know is let through.
OldEnoughUnlessKnown(f, known, c) == f \notin known \/ age[f] >= c.minAge
OldEnough(f, known, c) == f \in known /\ age[f] >= c.minAge

\* Whether the project's constraint, or "*", accepts the file's version.
MatchesFilter(f, c) ==
  /\ VersionOf[f] # None
  /\ IF c.only = None THEN ~c.all ELSE VersionOf[f] \in c.only

\* The metadata is there, or not needed: the constraint and the age, then the
\* question to policy-sync, if there is one.
Decide(t, call, known) ==
  LET c == call.config
      some == [call EXCEPT !.waited = 0,
        !.allowed = {f \in call.items :
                       /\ MatchesFilter(f, c)
                       /\ c.minAge = 0 \/ OldEnough(f, known, c)}]
  IN IF call.kind = "meta" THEN Replied(t, call, known)
     ELSE IF some.allowed = {} \/ ~c.osv
     THEN Replied(t, some, some.allowed)
     ELSE Lookup(t, some)

-----------------------------------------------------------------------------
(* A request *)

HasFilePolicy(c) == c.minAge > 0 \/ c.osv

\* _constraint_decision: there is nothing to enforce.
NoOpinion(c) == c.only = None /\ ~c.all /\ ~HasFilePolicy(c)

\* Denied before any metadata is read: a list by "*", a file by its constraint.
DeniedAtOnce(call) ==
  \/ call.kind = "simple" /\ call.config.only = None /\ call.config.all
  \/ call.kind = "link" /\ \A f \in call.items : ~MatchesFilter(f, call.config)

\* fetch_project_metadata: the cache, or PyPI.
WithMetadata(t, call) ==
  IF meta # None THEN Decide(t, call, meta.files)
  ELSE Continue(t, call, "fetch")

Begin(t, kind, items, c) ==
  LET call == [Idle EXCEPT !.kind = kind, !.items = items, !.config = c]
  IN /\ thr[t].phase = "idle"
     /\ IF NoOpinion(c) THEN Replied(t, call, items)
        ELSE IF DeniedAtOnce(call) THEN Replied(t, call, {})
        ELSE IF c.minAge = 0 THEN Decide(t, call, {})
        ELSE WithMetadata(t, call)
     /\ UNCHANGED <<age, mal, held, meta, cache>>

SimplePage(t, c) == Begin(t, "simple", Uploaded, c)

\* The gateway asks whether a file may be downloaded.
FileAllowed(t, f, c) == f \in Uploaded /\ Begin(t, "link", {f}, c)

\* A file is fetched from devpi itself: the tween does as FileAllowed if there
\* is a policy for files, and else lets it pass.
DirectFile(t, f, c) ==
  /\ f \in Uploaded /\ thr[t].phase = "idle"
  /\ ~HasFilePolicy(c)
  /\ Replied(t, [Idle EXCEPT !.kind = "direct", !.items = {f}, !.config = c],
             {f})
  /\ UNCHANGED <<age, mal, held, meta, cache>>

ProjectMeta(t) ==
  /\ thr[t].phase = "idle"
  /\ WithMetadata(t, [Idle EXCEPT !.kind = "meta", !.items = Uploaded])
  /\ UNCHANGED <<age, mal, held, meta, cache>>

\* PyPI answers: with the files it has at this moment.
PypiAnswers(t) ==
  /\ thr[t].phase = "fetch" /\ thr[t].answer = None
  /\ thr' = [thr EXCEPT ![t].answer = Uploaded] /\ reply' = None
  /\ UNCHANGED <<age, mal, held, meta, cache>>

\* The answer arrives, and is cached from now on.
MetaArrives(t) ==
  /\ thr[t].phase = "fetch" /\ thr[t].answer # None
  /\ meta' = [files |-> thr[t].answer, left |-> MetaTtl]
  /\ Decide(t, [thr[t] EXCEPT !.answer = None], thr[t].answer)
  /\ UNCHANGED <<age, mal, held, cache>>

\* PyPI is down, slow, or answers nonsense: no file's age is known.
MetaUnavailable(t) ==
  /\ thr[t].phase = "fetch"
  /\ Decide(t, [thr[t] EXCEPT !.answer = None, !.failed = {"meta"}], {})
  /\ UNCHANGED <<age, mal, held, meta, cache>>

\* move_to_end of a fresh entry: it may have been evicted meanwhile.
Touch(t) ==
  LET call == thr[t] IN
  /\ call.phase = "touch"
  /\ IF Key(call) \in Keys
     THEN /\ cache' = Append(Without(Key(call)), Entry(Key(call)))
          /\ Replied(t, call, Unblocked(call, call.answer))
     ELSE Breaks(t, call) /\ UNCHANGED cache
  /\ UNCHANGED <<age, mal, held, meta>>

\* del of an expired entry: another thread may have deleted it.
Drop(t) ==
  LET call == thr[t] IN
  /\ call.phase = "drop"
  /\ IF Key(call) \in Keys
     THEN cache' = Without(Key(call)) /\ Continue(t, call, "ask")
     ELSE Breaks(t, call) /\ UNCHANGED cache
  /\ UNCHANGED <<age, mal, held, meta>>

\* policy-sync answers: status ok.
OsvAnswers(t) ==
  /\ thr[t].phase = "ask" /\ thr[t].answer = None
  /\ thr' = [thr EXCEPT ![t].answer = Key(thr[t]) \cap mal] /\ reply' = None
  /\ UNCHANGED <<age, mal, held, meta, cache>>

\* policy-sync answers degraded: it knows some of the malicious versions.
OsvAnswersDegraded(t) ==
  /\ thr[t].phase = "ask" /\ thr[t].answer = None
  /\ \E some \in SUBSET (Key(thr[t]) \cap mal) :
       thr' = [thr EXCEPT ![t].answer = some, ![t].failed = @ \cup {"osv"}]
  /\ reply' = None
  /\ UNCHANGED <<age, mal, held, meta, cache>>

\* What is stored: an answer of status ok.
\* Mutant of Storable: a degraded answer is stored too.
StorableAlways(call) == TRUE
Storable(call) == "osv" \notin call.failed

Evicted(entries) ==
  IF Len(entries) <= MaxEntries THEN entries
  ELSE SubSeq(entries, 1 + Len(entries) - MaxEntries, Len(entries))

\* store_osv_cache_entry deletes the expired entries it has found, "due", one
\* by one, then the oldest ones above the limit.
Sweep(t, call, entries, due) ==
  IF due # {}
  THEN cache' = entries /\ Continue(t, [call EXCEPT !.due = due], "sweep")
  ELSE /\ cache' = Evicted(entries)
       /\ Replied(t, call, Unblocked(call, call.answer))

\* Mutant of Stored: the new entry does not replace the one it has.
StoredBeside(call) == Append(cache, EntryFor(call))
Stored(call) == Append(Without(Key(call)), EntryFor(call))

Expired(entries) ==
  {entries[i].key : i \in {j \in DOMAIN entries : ~Fresh(entries[j])}}

OsvArrives(t) ==
  LET call == thr[t] IN
  /\ call.phase = "ask" /\ call.answer # None
  /\ IF Storable(call)
     THEN Sweep(t, [call EXCEPT !.waited = 0], Stored(call),
                Expired(Stored(call)))
     ELSE /\ Replied(t, call, Unblocked(call, call.answer))
          /\ UNCHANGED cache
  /\ UNCHANGED <<age, mal, held, meta>>

\* One expired entry, in any order, is deleted, if no other thread has done so.
SweepOne(t) ==
  LET call == thr[t] IN
  /\ call.phase = "sweep"
  /\ \E key \in call.due :
       IF key \in Keys THEN Sweep(t, call, Without(key), call.due \ {key})
       ELSE Breaks(t, call) /\ UNCHANGED cache
  /\ UNCHANGED <<age, mal, held, meta>>

\* policy-sync is down, slow, or answers nonsense: nothing is blocked.
OsvFails(t) ==
  LET call == thr[t] IN
  /\ call.phase = "ask"
  /\ Replied(t, [call EXCEPT !.failed = @ \cup {"osv"}], call.allowed)
  /\ UNCHANGED <<age, mal, held, meta, cache>>

\* One unit of time passes: answers are waited for, entries expire.
Tick ==
  /\ \A t \in Threads :
       /\ thr[t].phase \notin Local
       /\ thr[t].phase = "fetch" => thr[t].waited < MetaTimeout
       /\ thr[t].phase = "ask" => thr[t].waited < OsvTimeout
  /\ age' = [f \in Files |-> IF age[f] \in 0..(OldAge - 1) THEN age[f] + 1
                             ELSE age[f]]
  /\ held' = [v \in Versions |-> IF held[v] < Horizon THEN held[v] + 1
                                 ELSE held[v]]
  /\ meta' = IF meta = None \/ meta.left = 1 THEN None
             ELSE [meta EXCEPT !.left = @ - 1]
  /\ cache' = [i \in DOMAIN cache |->
       [cache[i] EXCEPT !.left = IF @ = 0 THEN 0 ELSE @ - 1]]
  /\ thr' = [t \in Threads |-> IF thr[t].phase \in {"fetch", "ask"}
                               THEN [thr[t] EXCEPT !.waited = @ + 1]
                               ELSE thr[t]]
  /\ reply' = None
  /\ UNCHANGED mal

Next ==
  \/ \E f \in New : Upload(f)
  \/ \E v \in Suspects : Reassess(v)
  \/ \E t \in Threads, c \in Configs :
       \/ SimplePage(t, c)
       \/ \E f \in Files : FileAllowed(t, f, c) \/ DirectFile(t, f, c)
  \/ \E t \in Threads :
       \/ ProjectMeta(t)
       \/ PypiAnswers(t) \/ MetaArrives(t) \/ MetaUnavailable(t)
       \/ Touch(t) \/ Drop(t)
       \/ OsvAnswers(t) \/ OsvAnswersDegraded(t) \/ OsvArrives(t)
       \/ SweepOne(t) \/ OsvFails(t)
  \/ Tick

Spec == Init /\ [][Next]_vars

-----------------------------------------------------------------------------
(* Properties *)

Through == reply.through
Answered == reply # None /\ "error" \notin reply.failed
Decided == Answered /\ reply.kind # "meta"

\* Whatever the caches hold and other threads do, nothing gets through that
\* the configuration of the request's start forbids: by a constraint or by the
\* age of the file, which must be known.  (The constraints alone do not stop a
\* file that is fetched from devpi itself: "direct".)
ConfigObeyed ==
  Decided /\ reply.kind # "direct" /\ ~NoOpinion(reply.config) =>
    \A f \in Through :
      /\ MatchesFilter(f, reply.config)
      /\ age[f] >= reply.config.minAge
      /\ "meta" \in reply.failed => reply.config.minAge = 0

\* A version that policy-sync holds malicious gets through for a bounded time
\* only, unless this very request's lookup failed, although threads overtake
\* each other and an older answer may be stored over a newer one.
BoundedExposure ==
  Decided /\ "osv" \notin reply.failed /\ reply.config.osv =>
    \A f \in Through : VersionOf[f] \in mal => held[VersionOf[f]] <= OsvLag

\* What is hidden is forbidden, was malicious until a bounded time ago, or is
\* young: old metadata that does not know a file hides it for a bounded time.
NothingHiddenForLong ==
  Answered /\ "meta" \notin reply.failed =>
    \A f \in reply.items \ Through :
      \/ reply.kind # "meta" /\ ~MatchesFilter(f, reply.config)
      \/ age[f] <= MetaLag
      \/ reply.config.minAge > 0
           /\ age[f] < reply.config.minAge + OsvTimeout
      \/ VersionOf[f] \in mal \/ held[VersionOf[f]] <= OsvLag

\* An expired verdict is looked up again, and the request gets the answer or,
\* if there is none, an answer all the same (not so: two threads that find it
\* expired both delete it, and one of them fails).
NoRequestBreaks == reply # None => "error" \notin reply.failed
=============================================================================
