--------------------------- MODULE NpmFilterProofs ---------------------------
(***************************************************************************)
(* NpmFilter is type-correct, obeys the policy and acts on policy-sync's   *)
(* mind within its bounds, for any number of calls and versions, any       *)
(* policies, any TTLs and any timeouts.                                    *)
(***************************************************************************)
EXTENDS NpmFilter, TLAPS

Calls == [phase : {"idle", "await", "resume", "times"},
          kind : Versions \cup {Metadata}, policy : Policies \cup {None},
          versions : SUBSET Versions, removed : SUBSET Versions,
          misses : SUBSET Versions, answer : {None} \cup (SUBSET Versions),
          through : SUBSET Versions, failed : BOOLEAN,
          waited : 0..NpmTimeout]
Verdicts == [mal : BOOLEAN, left : 1..OsvTtl]
Fingerprints == [versions : SUBSET Versions, minAge : 0..OldAge,
                 ranges : SUBSET Versions]
Decisions == [fp : Fingerprints, versions : SUBSET Versions,
              through : SUBSET Versions, left : 1..DecisionTtl]

TypeInv ==
  /\ policy \in Policies
  /\ age \in [Versions -> -1..OldAge]
  /\ mal \subseteq Versions
  /\ held \in [Versions -> 0..Horizon]
  /\ verdict \in [Versions -> Verdicts \cup {None}]
  /\ decision # None => decision \in Decisions
  /\ lookup \in [SUBSET Versions -> Lookups \cup {None}]
  /\ lookup[{}] = None
  /\ req \in [Requests -> Calls]

\* policy-sync does not hold v malicious, or has done so for t at most.
Harmless(v, t) == v \in mal => held[v] <= t
\* It holds v malicious, or ceased to do so t ago at most.
Suspicious(v, t) == v \in mal \/ held[v] <= t

\* What policy-sync said of v, t ago at most.
Said(v, malicious, t) == IF malicious THEN Suspicious(v, t) ELSE Harmless(v, t)

\* There is, or was t ago, a reason to strip v under p.
Stripped(v, p, t) ==
  \/ v \in p.ranges
  \/ p.minAge > 0 /\ age[v] < p.minAge + t
  \/ Suspicious(v, OsvLag + t)
\* v may pass under p but for policy-sync's verdict.
Passes(v, p) == v \notin p.ranges /\ age[v] >= p.minAge

VerdictInv(v) ==
  verdict[v] # None =>
    Said(v, verdict[v].mal, Timeout + OsvTtl - verdict[v].left)

\* An answer was right when policy-sync gave it, unless it was degraded: then
\* it may lack a version.
AnswerInv(answer, asked, ok, t) ==
  /\ \A v \in answer : Suspicious(v, t)
  /\ ok => \A v \in asked \ answer : Harmless(v, t)

LookupInv(m) ==
  lookup[m] # None =>
    /\ lookup[m].ok => lookup[m].answer # None
    /\ lookup[m].answer # None =>
         AnswerInv(lookup[m].answer, m, lookup[m].ok, lookup[m].age)

\* What a decision was taken from, t ago at most.
DecisionInv ==
  decision # None =>
    LET t == Timeout + DecisionTtl - decision.left IN
    /\ decision.fp.versions = decision.versions
    /\ decision.through \subseteq decision.versions
    /\ decision.versions \subseteq Published
    /\ \A v \in decision.through :
         Passes(v, decision.fp) /\ Harmless(v, OsvLag + t)
    /\ \A v \in decision.versions \ decision.through :
         Stripped(v, decision.fp, t)

\* A filter_metadata during its await, t after it began at most.
MetadataInv(c, t) ==
  /\ c.removed \subseteq c.versions /\ c.versions \subseteq Published
  /\ \A v \in c.versions \ c.removed :
       Passes(v, c.policy) /\ (v \in c.misses \/ Harmless(v, OsvLag + t))
  /\ \A v \in c.removed : Stripped(v, c.policy, t)

\* A guardTarball during its awaits.
TarballInv(c) ==
  /\ c.versions = {c.kind} /\ c.kind \notin c.policy.ranges
  /\ c.phase # "times" => c.removed = {} /\ c.misses = c.versions
  /\ c.phase = "times" =>
       /\ c.through \subseteq c.versions
       /\ ~c.failed =>
            \A v \in c.through : Harmless(v, OsvLag + c.waited)

\* How long at most a call has been awaiting policy-sync.
Elapsed(c) == IF c.phase = "await" THEN lookup[c.misses].age ELSE Timeout

CallInv(c) ==
  /\ c.phase # "idle" => c.policy \in Policies /\ ~c.policy.blocked
  /\ c.phase # "times" => c.waited = 0
  /\ c.phase \in {"await", "resume"} /\ c.kind = Metadata =>
       MetadataInv(c, Elapsed(c))
  /\ c.phase # "idle" /\ c.kind # Metadata => TarballInv(c)
  /\ c.phase = "times" => c.kind # Metadata
  /\ c.phase = "await" => lookup[c.misses] # None
  /\ c.phase = "resume" => /\ c.answer \subseteq Versions
                           /\ AnswerInv(c.answer, c.misses, ~c.failed, Timeout)

IInv ==
  /\ TypeInv
  /\ \A v \in Versions : VerdictInv(v)
  /\ \A m \in SUBSET Versions : LookupInv(m)
  /\ DecisionInv
  /\ \A r \in Requests : CallInv(req[r])
  /\ PolicyObeyed /\ BoundedExposure /\ NothingStrippedForLong
-----------------------------------------------------------------------------
(* Times *)

LEMMA Numbers ==
  /\ OldAge \in Nat /\ DecisionTtl \in Nat /\ DecisionTtl >= 1
  /\ OsvTtl \in Nat /\ OsvTtl >= 1 /\ Timeout \in Nat /\ Timeout >= 1
  /\ NpmTimeout \in Nat /\ NpmTimeout >= 1
  /\ OsvLag \in Nat /\ OsvLag = Timeout + OsvTtl - 1
  /\ MetadataExposure = OsvLag + (Timeout + DecisionTtl - 1)
  /\ TarballExposure = OsvLag + NpmTimeout
  /\ MetadataExposure \in Nat /\ TarballExposure \in Nat /\ Horizon \in Nat
BY TimesAssumption
   DEF OsvLag, MetadataExposure, TarballExposure, Horizon

LEMMA PolicyFields ==
  ASSUME NEW p \in Policies
  PROVE  /\ p.ranges \subseteq Versions /\ p.minAge \in Nat
         /\ p.minAge <= OldAge /\ p.blocked \in BOOLEAN
BY PoliciesAssumption, Numbers

\* What was so t ago at most was so longer ago at most.
LEMMA Longer ==
  ASSUME TypeInv, NEW v \in Versions, NEW s \in Int, NEW t \in Int, s <= t
  PROVE  /\ Harmless(v, s) => Harmless(v, t)
         /\ Suspicious(v, s) => Suspicious(v, t)
         /\ \A p : p.minAge \in Nat /\ age[v] \in Int /\ Stripped(v, p, s)
                   => Stripped(v, p, t)
<1>1. held[v] \in Int /\ OsvLag \in Int
  BY Numbers DEF TypeInv
<1>2. /\ Harmless(v, s) => Harmless(v, t)
      /\ Suspicious(v, s) => Suspicious(v, t)
      /\ Suspicious(v, OsvLag + s) => Suspicious(v, OsvLag + t)
  BY <1>1 DEF Harmless, Suspicious
<1>3. ASSUME NEW p, p.minAge \in Nat, age[v] \in Int, Stripped(v, p, s)
      PROVE  Stripped(v, p, t)
  BY <1>2, <1>3 DEF Stripped
<1> QED
  BY <1>2, <1>3

\* The world goes on by d units of time.
Drift(d) == \A v \in Versions :
  /\ \/ held'[v] = 0
     \/ (v \in mal' <=> v \in mal) /\ held'[v] <= held[v] + d
  /\ age[v] >= 0 => age'[v] >= age[v] /\ age'[v] <= age[v] + d

LEMMA DriftHolds ==
  ASSUME TypeInv, TypeInv', NEW d \in {0, 1}, Drift(d), NEW v \in Versions,
         NEW t \in Nat
  PROVE  /\ Harmless(v, t) => (v \in mal' => held'[v] <= t + d)
         /\ Suspicious(v, t) => (v \in mal' \/ held'[v] <= t + d)
<1>1. held[v] \in Nat /\ held'[v] \in Nat
  BY Numbers DEF TypeInv
<1>2. \/ held'[v] = 0
      \/ (v \in mal' <=> v \in mal) /\ held'[v] <= held[v] + d
  BY DEF Drift
<1> QED
  BY <1>1, <1>2 DEF Harmless, Suspicious

LEMMA DriftKeeps ==
  ASSUME TypeInv, TypeInv', NEW d \in {0, 1}, Drift(d), NEW v \in Published,
         NEW p, p.minAge \in Nat, NEW t \in Nat
  PROVE  /\ v \in Published'
         /\ Passes(v, p) => v \notin p.ranges /\ age'[v] >= p.minAge
         /\ Stripped(v, p, t) =>
              \/ v \in p.ranges
              \/ p.minAge > 0 /\ age'[v] < p.minAge + (t + d)
              \/ v \in mal' \/ held'[v] <= OsvLag + (t + d)
<1>1. /\ v \in Versions /\ age[v] \in Int /\ age'[v] \in Int /\ age[v] >= 0
      /\ age'[v] >= age[v] /\ age'[v] <= age[v] + d
  BY Numbers DEF TypeInv, Published, Drift
<1>2. OsvLag \in Nat /\ OsvLag + t \in Nat /\ OsvLag + t + d = OsvLag + (t + d)
  BY Numbers
<1>3. Suspicious(v, OsvLag + t) =>
        v \in mal' \/ held'[v] <= OsvLag + (t + d)
  BY <1>1, <1>2, DriftHolds
<1>4. v \in Published'
  BY <1>1 DEF Published
<1>5. Passes(v, p) => v \notin p.ranges /\ age'[v] >= p.minAge
  BY <1>1 DEF Passes
<1>6. age[v] < p.minAge + t => age'[v] < p.minAge + (t + d)
  BY <1>1
<1> QED
  BY <1>3, <1>4, <1>5, <1>6 DEF Stripped

-----------------------------------------------------------------------------
(* The initial states, and steps of the world *)

LEMMA IdleCall ==
  /\ Idle \in Calls /\ Idle.phase = "idle" /\ Idle.waited = 0
  /\ Idle.removed = {} /\ Idle.misses = {} /\ Idle.failed = FALSE
BY Numbers DEF Idle, Calls

LEMMA InitIInv == Init => IInv
<1> SUFFICES ASSUME Init PROVE IInv
  OBVIOUS
<1>1. TypeInv
  BY Numbers, NamesAssumption, IdleCall DEF Init, TypeInv
<1>2. /\ \A v \in Versions : VerdictInv(v)
      /\ \A m \in SUBSET Versions : LookupInv(m)
      /\ DecisionInv
  BY DEF Init, VerdictInv, LookupInv, DecisionInv
<1>3. \A r \in Requests : CallInv(req[r])
  BY IdleCall DEF Init, CallInv
<1>4. PolicyObeyed /\ BoundedExposure /\ NothingStrippedForLong
  BY DEF Init, PolicyObeyed, BoundedExposure, NothingStrippedForLong
<1> QED
  BY <1>1, <1>2, <1>3, <1>4 DEF IInv

\* Without a reply there is nothing wrong with it.
LEMMA NoReplyHolds ==
  ASSUME reply' = None
  PROVE  PolicyObeyed' /\ BoundedExposure' /\ NothingStrippedForLong'
BY DEF PolicyObeyed, BoundedExposure, NothingStrippedForLong

\* The caches, the lookups and the calls grow older by d.
Older(d) ==
  /\ \A v \in Versions : verdict'[v] # None =>
       /\ verdict[v] # None /\ verdict'[v].mal = verdict[v].mal
       /\ verdict'[v].left = verdict[v].left - d
  /\ decision' # None =>
       /\ decision # None /\ decision'.fp = decision.fp
       /\ decision'.versions = decision.versions
       /\ decision'.through = decision.through
       /\ decision'.left = decision.left - d
  /\ \A m \in SUBSET Versions :
       /\ lookup'[m] # None <=> lookup[m] # None
       /\ lookup'[m] # None =>
            /\ lookup'[m].answer = lookup[m].answer
            /\ lookup'[m].ok = lookup[m].ok
            /\ lookup'[m].age = lookup[m].age + d

OlderCall(c, n, d) ==
  /\ n.phase = c.phase /\ n.kind = c.kind /\ n.policy = c.policy
  /\ n.versions = c.versions /\ n.removed = c.removed /\ n.misses = c.misses
  /\ n.answer = c.answer /\ n.through = c.through /\ n.failed = c.failed
  /\ n.waited = IF c.phase = "times" THEN c.waited + d ELSE c.waited
  /\ d = 1 => c.phase # "resume"

LEMMA OlderVerdict ==
  ASSUME IInv, TypeInv', NEW d \in {0, 1}, Drift(d), Older(d),
         NEW v \in Versions
  PROVE  VerdictInv(v)'
<1> SUFFICES ASSUME verdict'[v] # None PROVE VerdictInv(v)'
  BY DEF VerdictInv
<1>1. /\ TypeInv /\ verdict[v] # None /\ verdict'[v].mal = verdict[v].mal
      /\ verdict'[v].left = verdict[v].left - d
  BY DEF IInv, Older
<1>2. PICK w \in Verdicts : w = verdict[v]
  BY <1>1 DEF TypeInv
<1>3. PICK t \in Nat : t = Timeout + OsvTtl - w.left
  BY Numbers DEF Verdicts
<1>4. t + d = Timeout + OsvTtl - (w.left - d)
  BY <1>3, Numbers DEF Verdicts
<1>5. /\ Harmless(v, t) => (v \in mal' => held'[v] <= t + d)
      /\ Suspicious(v, t) => (v \in mal' \/ held'[v] <= t + d)
  BY <1>1, DriftHolds
<1>6. Said(v, w.mal, t)
  BY <1>1, <1>2, <1>3 DEF IInv, VerdictInv
<1>7. /\ verdict'[v].mal = w.mal
      /\ Timeout + OsvTtl - verdict'[v].left = t + d
  BY <1>1, <1>2, <1>4
<1>8. CASE w.mal
  <2>1. v \in mal' \/ held'[v] <= t + d
    BY <1>5, <1>6, <1>8 DEF Said
  <2> QED
    BY <1>7, <1>8, <2>1 DEF VerdictInv, Said, Suspicious
<1>9. CASE ~w.mal
  <2>1. v \in mal' => held'[v] <= t + d
    BY <1>5, <1>6, <1>9 DEF Said
  <2> QED
    BY <1>7, <1>9, <2>1 DEF VerdictInv, Said, Harmless
<1> QED
  BY <1>8, <1>9

LEMMA OlderAnswer ==
  ASSUME TypeInv, TypeInv', NEW d \in {0, 1}, Drift(d),
         NEW answer \in SUBSET Versions, NEW asked \in SUBSET Versions,
         NEW ok \in BOOLEAN, NEW t \in Nat, AnswerInv(answer, asked, ok, t)
  PROVE  /\ \A v \in answer : v \in mal' \/ held'[v] <= t + d
         /\ ok => \A v \in asked \ answer : v \in mal' => held'[v] <= t + d
BY DriftHolds DEF AnswerInv

LEMMA OlderLookup ==
  ASSUME IInv, TypeInv', NEW d \in {0, 1}, Drift(d), Older(d),
         NEW m \in SUBSET Versions
  PROVE  LookupInv(m)'
<1> SUFFICES ASSUME lookup'[m] # None PROVE LookupInv(m)'
  BY DEF LookupInv
<1>1. /\ TypeInv /\ lookup[m] # None
      /\ lookup'[m].answer = lookup[m].answer
      /\ lookup'[m].ok = lookup[m].ok /\ lookup'[m].age = lookup[m].age + d
  BY DEF IInv, Older
<1>2. PICK l \in Lookups : l = lookup[m]
  BY <1>1 DEF TypeInv
<1>9. lookup'[m].ok => lookup'[m].answer # None
  BY <1>1 DEF IInv, LookupInv
<1> SUFFICES ASSUME lookup'[m].answer # None PROVE LookupInv(m)'
  BY <1>9 DEF LookupInv
<1>3. PICK answer \in SUBSET Versions : answer = l.answer
  BY <1>1, <1>2 DEF Lookups
<1>4. PICK ok \in BOOLEAN : ok = l.ok
  BY DEF Lookups
<1>5. PICK t \in Nat : t = l.age
  BY Numbers DEF Lookups
<1>6. AnswerInv(answer, m, ok, t)
  BY <1>1, <1>2, <1>3, <1>4, <1>5 DEF IInv, LookupInv
<1>7. /\ \A v \in answer : v \in mal' \/ held'[v] <= t + d
      /\ ok => \A v \in m \ answer : v \in mal' => held'[v] <= t + d
  BY <1>1, <1>6, OlderAnswer
<1>8. /\ lookup'[m].answer = answer /\ lookup'[m].ok = ok
      /\ lookup'[m].age = t + d
  BY <1>1, <1>2, <1>3, <1>4, <1>5
<1> QED
  BY <1>7, <1>8, <1>9 DEF LookupInv, AnswerInv, Suspicious, Harmless

LEMMA OlderDecision ==
  ASSUME IInv, TypeInv', NEW d \in {0, 1}, Drift(d), Older(d)
  PROVE  DecisionInv'
<1> SUFFICES ASSUME decision' # None PROVE DecisionInv'
  BY DEF DecisionInv
<1>1. /\ TypeInv /\ decision # None /\ decision'.fp = decision.fp
      /\ decision'.versions = decision.versions
      /\ decision'.through = decision.through
      /\ decision'.left = decision.left - d
  BY DEF IInv, Older
<1>2. PICK e \in Decisions : e = decision
  BY <1>1 DEF TypeInv
<1>3. PICK p \in Fingerprints : p = e.fp
  BY DEF Decisions
<1>4. p.minAge \in Nat /\ p.ranges \subseteq Versions
  BY Numbers DEF Fingerprints
<1>5. PICK t \in Nat : t = Timeout + DecisionTtl - e.left
  BY Numbers DEF Decisions
<1>6. t + d = Timeout + DecisionTtl - (e.left - d)
  BY <1>5, Numbers DEF Decisions
<1>7. /\ p.versions = e.versions /\ e.through \subseteq e.versions
      /\ e.versions \subseteq Published
      /\ \A v \in e.through : Passes(v, p) /\ Harmless(v, OsvLag + t)
      /\ \A v \in e.versions \ e.through : Stripped(v, p, t)
  BY <1>1, <1>2, <1>3, <1>5 DEF IInv, DecisionInv
<1>8. OsvLag + t \in Nat /\ OsvLag + t + d = OsvLag + (t + d)
  BY Numbers
<1>9. e.versions \subseteq Published'
  BY <1>1, <1>4, <1>7, DriftKeeps
<1>10. ASSUME NEW v \in e.through
       PROVE  /\ v \notin p.ranges /\ age'[v] >= p.minAge
              /\ v \in mal' => held'[v] <= OsvLag + (t + d)
  <2>1. v \in Published /\ v \in Versions
    BY <1>7 DEF Published
  <2>2. v \notin p.ranges /\ age'[v] >= p.minAge
    BY <1>1, <1>4, <1>7, <2>1, DriftKeeps
  <2>3. v \in mal' => held'[v] <= OsvLag + t + d
    BY <1>1, <1>7, <1>8, <2>1, DriftHolds
  <2> QED
    BY <1>8, <2>2, <2>3
<1>11. ASSUME NEW v \in e.versions \ e.through
       PROVE  \/ v \in p.ranges
              \/ p.minAge > 0 /\ age'[v] < p.minAge + (t + d)
              \/ v \in mal' \/ held'[v] <= OsvLag + (t + d)
  BY <1>1, <1>4, <1>7, DriftKeeps
<1>12. /\ decision'.fp = p /\ decision'.versions = e.versions
       /\ decision'.through = e.through
       /\ Timeout + DecisionTtl - decision'.left = t + d
  BY <1>1, <1>2, <1>3, <1>6
<1> QED
  BY <1>7, <1>9, <1>10, <1>11, <1>12
     DEF DecisionInv, Passes, Harmless, Stripped, Suspicious

LEMMA OlderCalls ==
  ASSUME IInv, TypeInv', NEW d \in {0, 1}, Drift(d), Older(d),
         NEW c \in Calls, CallInv(c), NEW n \in Calls, OlderCall(c, n, d)
  PROVE  CallInv(n)'
<1>1. /\ n.phase = c.phase /\ n.kind = c.kind /\ n.policy = c.policy
      /\ n.versions = c.versions /\ n.removed = c.removed
      /\ n.misses = c.misses /\ n.answer = c.answer
      /\ n.through = c.through /\ n.failed = c.failed
      /\ n.waited = IF c.phase = "times" THEN c.waited + d ELSE c.waited
      /\ d = 1 => c.phase # "resume"
  BY DEF OlderCall
<1>2. /\ TypeInv /\ c.misses \in SUBSET Versions
      /\ c.removed \subseteq Versions /\ c.versions \subseteq Versions
      /\ c.through \subseteq Versions /\ c.waited \in Nat
  BY Numbers DEF IInv, Calls
<1>3. c.phase # "idle" => c.policy \in Policies /\ ~c.policy.blocked
  BY DEF CallInv
<1>4. ASSUME n.phase \in {"await", "resume"}, n.kind = Metadata
      PROVE  MetadataInv(n, Elapsed(n))'
  <2>1. PICK t \in Nat : t = Elapsed(c)
    <3>1. CASE c.phase = "await"
      <4>1. lookup[c.misses] \in Lookups
        BY <1>2, <3>1 DEF CallInv, TypeInv
      <4> QED
        BY <3>1, <4>1, Numbers DEF Elapsed, Lookups
    <3>2. CASE c.phase # "await"
      BY <3>2, Numbers DEF Elapsed
    <3> QED
      BY <3>1, <3>2
  <2>2. PICK p \in Policies : p = c.policy
    BY <1>1, <1>3, <1>4
  <2>3. p.minAge \in Nat /\ p.ranges \subseteq Versions
    BY PolicyFields
  <2>4. Elapsed(n)' = t + d
    <3>1. CASE c.phase = "await"
      <4>1. lookup[c.misses] # None
        BY <3>1 DEF CallInv
      <4>2. lookup'[c.misses].age = lookup[c.misses].age + d
        BY <1>2, <4>1 DEF Older
      <4> QED
        BY <1>1, <2>1, <3>1, <4>2 DEF Elapsed
    <3>2. CASE c.phase = "resume"
      BY <1>1, <2>1, <3>2, Numbers DEF Elapsed
    <3> QED
      BY <1>1, <1>4, <3>1, <3>2
  <2>5. MetadataInv(c, t)
    BY <1>1, <1>4, <2>1 DEF CallInv
  <2>6. OsvLag + t \in Nat /\ OsvLag + t + d = OsvLag + (t + d)
    BY Numbers
  <2>7. c.versions \subseteq Published /\ c.versions \subseteq Published'
    BY <1>2, <2>3, <2>5, DriftKeeps DEF MetadataInv
  <2>8. ASSUME NEW v \in c.versions \ c.removed
        PROVE  /\ v \notin p.ranges /\ age'[v] >= p.minAge
               /\ v \in c.misses
                    \/ (v \in mal' => held'[v] <= OsvLag + (t + d))
    <3>1. Passes(v, p) /\ (v \in c.misses \/ Harmless(v, OsvLag + t))
      BY <2>2, <2>5 DEF MetadataInv
    <3>2. v \notin p.ranges /\ age'[v] >= p.minAge
      BY <1>2, <2>3, <2>7, <3>1, DriftKeeps
    <3>3. Harmless(v, OsvLag + t) =>
            (v \in mal' => held'[v] <= OsvLag + t + d)
      BY <1>2, <2>6, DriftHolds
    <3> QED
      BY <2>6, <3>1, <3>2, <3>3
  <2>9. ASSUME NEW v \in c.removed, c.removed \subseteq c.versions
        PROVE  \/ v \in p.ranges
               \/ p.minAge > 0 /\ age'[v] < p.minAge + (t + d)
               \/ v \in mal' \/ held'[v] <= OsvLag + (t + d)
    <3>1. Stripped(v, p, t)
      BY <2>2, <2>5, <2>9 DEF MetadataInv
    <3> QED
      BY <1>2, <2>3, <2>7, <2>9, <3>1, DriftKeeps
  <2>10. c.removed \subseteq c.versions
    BY <2>5 DEF MetadataInv
  <2> QED
    BY <1>1, <2>2, <2>4, <2>7, <2>8, <2>9, <2>10
       DEF MetadataInv, Passes, Harmless, Stripped, Suspicious
<1>5. ASSUME n.phase # "idle", n.kind # Metadata
      PROVE  TarballInv(n)'
  <2>1. TarballInv(c)
    BY <1>1, <1>5 DEF CallInv
  <2>2. ASSUME n.phase = "times", ~n.failed, NEW v \in n.through
        PROVE  v \in mal' => held'[v] <= OsvLag + n.waited
    <3>1. Harmless(v, OsvLag + c.waited)
      BY <1>1, <2>1, <2>2 DEF TarballInv
    <3>2. /\ OsvLag + c.waited \in Nat
          /\ OsvLag + c.waited + d = OsvLag + n.waited
      BY <1>1, <1>2, <2>2, Numbers
    <3> QED
      BY <1>1, <1>2, <2>2, <3>1, <3>2, DriftHolds
  <2> QED
    BY <1>1, <2>1, <2>2 DEF TarballInv, Harmless
<1>6. ASSUME n.phase = "resume"
      PROVE  /\ n.answer \subseteq Versions
             /\ AnswerInv(n.answer, n.misses, ~n.failed, Timeout)'
  <2>1. d = 0
    BY <1>1, <1>6
  <2>2. PICK ok \in BOOLEAN : ok = ~c.failed
    OBVIOUS
  <2>3. PICK answer \in SUBSET Versions : answer = c.answer
    BY <1>1, <1>6 DEF CallInv
  <2>4. AnswerInv(answer, c.misses, ok, Timeout)
    BY <1>1, <1>6, <2>2, <2>3 DEF CallInv
  <2>5. /\ \A v \in answer : v \in mal' \/ held'[v] <= Timeout + d
        /\ ok => \A v \in c.misses \ answer :
                   v \in mal' => held'[v] <= Timeout + d
    BY <1>2, <2>4, Numbers, OlderAnswer
  <2>6. Timeout + d = Timeout
    BY <2>1, Numbers
  <2> QED
    BY <1>1, <2>2, <2>3, <2>5, <2>6 DEF AnswerInv, Harmless, Suspicious
<1>7. n.phase = "await" => lookup'[n.misses] # None
  BY <1>1, <1>2 DEF CallInv, Older
<1>8. /\ n.phase # "times" => n.waited = 0
      /\ n.phase = "times" => n.kind # Metadata
  BY <1>1 DEF CallInv
<1> QED
  BY <1>1, <1>3, <1>4, <1>5, <1>6, <1>7, <1>8 DEF CallInv

LEMMA WorldInv ==
  ASSUME IInv, TypeInv', reply' = None, NEW d \in {0, 1}, Drift(d), Older(d),
         \A r \in Requests : OlderCall(req[r], req'[r], d)
  PROVE  IInv'
<1>1. ASSUME NEW r \in Requests PROVE CallInv(req[r])'
  <2>1. PICK c \in Calls : c = req[r]
    BY DEF IInv, TypeInv
  <2>2. PICK n \in Calls : n = req'[r]
    BY DEF TypeInv
  <2>3. CallInv(c) /\ OlderCall(c, n, d)
    BY <2>1, <2>2 DEF IInv
  <2>4. CallInv(n)'
    BY <2>3, OlderCalls
  <2> QED
    BY <2>2, <2>4 DEF CallInv, Elapsed, MetadataInv, TarballInv, AnswerInv
<1>2. \A v \in Versions : VerdictInv(v)'
  BY OlderVerdict
<1>3. \A m \in SUBSET Versions : LookupInv(m)'
  BY OlderLookup
<1> QED
  BY <1>1, <1>2, <1>3, OlderDecision, NoReplyHolds DEF IInv

\* The policy, or what is known of a version, changes.
LEMMA OutsideInv ==
  ASSUME IInv,
         \/ \E p \in Policies : SwapPolicy(p)
         \/ \E v \in Versions : Publish(v) \/ Reassess(v)
  PROVE  IInv'
<1>1. /\ TypeInv /\ reply' = None
      /\ UNCHANGED <<verdict, decision, lookup, req>>
  BY DEF IInv, SwapPolicy, Publish, Reassess, NoReply
<1>2. policy' \in Policies
  BY <1>1 DEF TypeInv, SwapPolicy, Publish, Reassess
<1>3. /\ age' \in [Versions -> -1..OldAge] /\ mal' \subseteq Versions
      /\ held' \in [Versions -> 0..Horizon] /\ Drift(0)
  <2>1. \A v \in Versions : age[v] \in Int /\ held[v] \in Int
    BY <1>1, Numbers DEF TypeInv
  <2>2. CASE \E p \in Policies : SwapPolicy(p)
    BY <1>1, <2>1, <2>2 DEF TypeInv, SwapPolicy, Drift
  <2>3. ASSUME NEW v \in Versions, Publish(v)
        PROVE  /\ age' \in [Versions -> -1..OldAge] /\ mal' \subseteq Versions
               /\ held' \in [Versions -> 0..Horizon] /\ Drift(0)
    BY <1>1, <2>1, <2>3, Numbers DEF TypeInv, Publish, Drift
  <2>4. ASSUME NEW v \in Versions, Reassess(v)
        PROVE  /\ age' \in [Versions -> -1..OldAge] /\ mal' \subseteq Versions
               /\ held' \in [Versions -> 0..Horizon] /\ Drift(0)
    <3>1. /\ age' = age /\ held' = [held EXCEPT ![v] = 0]
          /\ mal' = IF v \in mal THEN mal \ {v} ELSE mal \cup {v}
      BY <2>4 DEF Reassess
    <3>2. mal' \subseteq Versions /\ \A u \in Versions \ {v} :
                                       u \in mal' <=> u \in mal
      BY <1>1, <3>1 DEF TypeInv
    <3> QED
      BY <1>1, <2>1, <3>1, <3>2, Numbers DEF TypeInv, Drift
  <2> QED
    BY <2>2, <2>3, <2>4
<1>4. TypeInv'
  BY <1>1, <1>2, <1>3 DEF TypeInv
<1>5. Older(0)
  <2>1. ASSUME NEW v \in Versions, verdict[v] # None
        PROVE  verdict[v].left = verdict[v].left - 0
    BY <1>1, <2>1 DEF TypeInv, Verdicts
  <2>2. ASSUME decision # None PROVE decision.left = decision.left - 0
    BY <1>1, <2>2, Numbers DEF TypeInv, Decisions
  <2>3. ASSUME NEW m \in SUBSET Versions, lookup[m] # None
        PROVE  lookup[m].age = lookup[m].age + 0
    BY <1>1, <2>3, Numbers DEF TypeInv, Lookups
  <2> QED
    BY <1>1, <2>1, <2>2, <2>3 DEF Older
<1>6. ASSUME NEW r \in Requests PROVE OlderCall(req[r], req'[r], 0)
  <2>1. PICK c \in Calls : c = req[r]
    BY <1>1 DEF TypeInv
  <2>2. c.waited + 0 = c.waited
    BY Numbers DEF Calls
  <2> QED
    BY <1>1, <2>1, <2>2 DEF OlderCall
<1> QED
  BY <1>1, <1>3, <1>4, <1>5, <1>6, WorldInv

LEMMA TickInv ==
  ASSUME IInv, Tick
  PROVE  IInv'
<1>1. /\ TypeInv /\ reply' = None /\ policy' = policy /\ mal' = mal
      /\ \A r \in Requests : req[r].phase # "resume"
      /\ \A r \in Requests : req[r].waited < NpmTimeout
      /\ \A m \in SUBSET Versions : lookup[m] # None => lookup[m].age < Timeout
  BY DEF IInv, Tick, NoReply, Turn
<1>2. /\ age' \in [Versions -> -1..OldAge]
      /\ \A v \in Versions :
           age[v] >= 0 => age'[v] >= age[v] /\ age'[v] <= age[v] + 1
  BY <1>1, Numbers DEF TypeInv, Tick
<1>3. /\ held' \in [Versions -> 0..Horizon]
      /\ \A v \in Versions : held'[v] <= held[v] + 1
  BY <1>1, Numbers DEF TypeInv, Tick
<1>4. Drift(1)
  BY <1>1, <1>2, <1>3 DEF Drift
<1>5. ASSUME NEW v \in Versions
      PROVE  /\ verdict'[v] \in Verdicts \cup {None}
             /\ verdict'[v] # None =>
                  /\ verdict[v] # None /\ verdict'[v].mal = verdict[v].mal
                  /\ verdict'[v].left = verdict[v].left - 1
  <2>1. verdict'[v] = Later(verdict[v])
    BY DEF Tick
  <2>2. CASE verdict[v] = None
    BY <2>1, <2>2 DEF Later
  <2>3. CASE verdict[v] # None
    <3>1. PICK w \in Verdicts : w = verdict[v]
      BY <1>1, <2>3 DEF TypeInv
    <3>2. CASE w.left = 1
      BY <2>1, <3>1, <3>2 DEF Later
    <3>3. CASE w.left # 1
      <4>1. verdict'[v] = [w EXCEPT !.left = w.left - 1]
        BY <2>1, <2>3, <3>1, <3>3 DEF Later
      <4>2. w.left - 1 \in 1..OsvTtl
        BY <3>3, Numbers DEF Verdicts
      <4>3. verdict'[v] \in Verdicts /\ verdict'[v].mal = w.mal
            /\ verdict'[v].left = w.left - 1
        BY <4>1, <4>2 DEF Verdicts
      <4> QED
        BY <2>3, <3>1, <4>3
    <3> QED
      BY <3>2, <3>3
  <2> QED
    BY <2>2, <2>3
<1>6. verdict' \in [Versions -> Verdicts \cup {None}]
  <2>1. verdict' = [v \in Versions |-> Later(verdict[v])]
    BY DEF Tick
  <2>2. \A v \in Versions : Later(verdict[v]) \in Verdicts \cup {None}
    BY <1>5, <2>1
  <2> HIDE DEF Later
  <2> QED
    BY <2>1, <2>2
<1>7. ASSUME decision' # None
      PROVE  /\ decision' \in Decisions /\ decision # None
             /\ decision'.fp = decision.fp
             /\ decision'.versions = decision.versions
             /\ decision'.through = decision.through
             /\ decision'.left = decision.left - 1
  <2>1. decision' = Later(decision)
    BY DEF Tick
  <2>2. decision # None
    BY <1>7, <2>1 DEF Later
  <2>3. PICK e \in Decisions : e = decision
    BY <1>1, <2>2 DEF TypeInv
  <2>4. e.left # 1 /\ decision' = [e EXCEPT !.left = e.left - 1]
    BY <1>7, <2>1, <2>2, <2>3 DEF Later
  <2>5. e.left - 1 \in 1..DecisionTtl
    BY <2>4, Numbers DEF Decisions
  <2>6. /\ decision' \in Decisions /\ decision'.fp = e.fp
        /\ decision'.versions = e.versions /\ decision'.through = e.through
        /\ decision'.left = e.left - 1
    BY <2>4, <2>5 DEF Decisions
  <2> QED
    BY <2>2, <2>3, <2>6
<1>8. ASSUME NEW m \in SUBSET Versions
      PROVE  /\ lookup'[m] \in Lookups \cup {None}
             /\ lookup'[m] # None <=> lookup[m] # None
             /\ lookup'[m] # None =>
                  /\ lookup'[m].answer = lookup[m].answer
                  /\ lookup'[m].ok = lookup[m].ok
                  /\ lookup'[m].age = lookup[m].age + 1
  <2>1. lookup'[m] = IF lookup[m] = None THEN None
                     ELSE [lookup[m] EXCEPT !.age = @ + 1]
    BY DEF Tick
  <2>2. CASE lookup[m] # None
    <3>1. PICK l \in Lookups : l = lookup[m]
      BY <1>1, <2>2 DEF TypeInv
    <3>2. l.age + 1 \in 0..Timeout
      BY <1>1, <2>2, <3>1, Numbers DEF Lookups
    <3>3. lookup'[m] = [l EXCEPT !.age = l.age + 1]
      BY <2>1, <2>2, <3>1
    <3>4. /\ lookup'[m] \in Lookups /\ lookup'[m].answer = l.answer
          /\ lookup'[m].ok = l.ok /\ lookup'[m].age = l.age + 1
      BY <3>2, <3>3 DEF Lookups
    <3>5. lookup'[m] # None
      BY <3>4, NamesAssumption
    <3> QED
      BY <2>2, <3>1, <3>4, <3>5
  <2> QED
    BY <2>1, <2>2
<1>9. /\ lookup' \in [SUBSET Versions -> Lookups \cup {None}]
      /\ lookup'[{}] = None
  <2>1. /\ lookup' = [m \in SUBSET Versions |-> lookup'[m]]
        /\ \A m \in SUBSET Versions : lookup'[m] \in Lookups \cup {None}
    BY <1>8 DEF Tick
  <2>2. lookup'[{}] = None
    BY <1>1, <1>8 DEF TypeInv
  <2> QED
    BY <2>1, <2>2
<1>10. ASSUME NEW r \in Requests
       PROVE  req'[r] \in Calls /\ OlderCall(req[r], req'[r], 1)
  <2>1. PICK c \in Calls : c = req[r]
    BY <1>1 DEF TypeInv
  <2>2. req'[r] = IF c.phase = "times" THEN [c EXCEPT !.waited = c.waited + 1]
                  ELSE c
    BY <2>1 DEF Tick
  <2>3. c.waited + 1 \in 0..NpmTimeout /\ c.phase # "resume"
    BY <1>1, <2>1, Numbers DEF Calls
  <2>4. CASE c.phase = "times"
    <3>1. req'[r] = [c EXCEPT !.waited = c.waited + 1]
      BY <2>2, <2>4
    <3>2. /\ req'[r] \in Calls /\ req'[r].waited = c.waited + 1
          /\ req'[r].phase = c.phase /\ req'[r].kind = c.kind
          /\ req'[r].policy = c.policy /\ req'[r].versions = c.versions
          /\ req'[r].removed = c.removed /\ req'[r].misses = c.misses
          /\ req'[r].answer = c.answer /\ req'[r].through = c.through
          /\ req'[r].failed = c.failed
      BY <2>3, <3>1 DEF Calls
    <3> QED
      BY <2>1, <2>3, <2>4, <3>2 DEF OlderCall
  <2>5. CASE c.phase # "times"
    BY <2>1, <2>2, <2>3, <2>5 DEF OlderCall
  <2> QED
    BY <2>4, <2>5
<1>11. req' \in [Requests -> Calls]
  <2>1. /\ req' = [r \in Requests |-> req'[r]]
        /\ \A r \in Requests : req'[r] \in Calls
    BY <1>10 DEF Tick
  <2> QED
    BY <2>1
<1>12. TypeInv'
  BY <1>1, <1>2, <1>3, <1>6, <1>7, <1>9, <1>11 DEF TypeInv
<1>13. Older(1)
  BY <1>5, <1>7, <1>8 DEF Older
<1> QED
  BY <1>1, <1>4, <1>10, <1>12, <1>13, WorldInv

-----------------------------------------------------------------------------
(* Lookups *)

World == <<policy, age, mal, held>>

\* What does not depend on lookups and calls stays as it is.
LEMMA CachesStay ==
  ASSUME IInv, UNCHANGED <<World, verdict, decision>>
  PROVE  (\A v \in Versions : VerdictInv(v)') /\ DecisionInv'
BY DEF IInv, World, VerdictInv, Said, Harmless, Suspicious, DecisionInv,
       Passes, Stripped, Published

\* Nor does what is known of a call, but for the time it has waited.
LEMMA CallStays ==
  ASSUME UNCHANGED World, NEW c, CallInv(c),
         c.phase = "await" =>
           lookup'[c.misses] # None
             /\ lookup'[c.misses].age = lookup[c.misses].age
  PROVE  CallInv(c)'
<1>1. c.phase = "await" \/ c.phase # "await"
  OBVIOUS
<1>2. Elapsed(c)' = Elapsed(c)
  BY DEF Elapsed
<1> QED
  BY <1>2 DEF CallInv, MetadataInv, TarballInv, AnswerInv, World, Published,
              Passes, Stripped, Harmless, Suspicious

\* policy-sync answers: completely if ok.
LEMMA AnsweredInv ==
  ASSUME IInv, NEW m \in SUBSET Versions, lookup[m] # None,
         NEW l \in Lookups, lookup' = [lookup EXCEPT ![m] = l],
         l.age = lookup[m].age, l.answer \subseteq m \cap mal,
         l.ok => l.answer = m \cap mal, l.answer # None, reply' = None,
         UNCHANGED <<World, verdict, decision, times, req>>
  PROVE  IInv'
<1>1. TypeInv /\ l # None /\ m # {}
  BY NamesAssumption DEF IInv, TypeInv
<1>2. /\ lookup'[m] = l
      /\ \A k \in (SUBSET Versions) \ {m} : lookup'[k] = lookup[k]
      /\ lookup' \in [SUBSET Versions -> Lookups \cup {None}]
  BY <1>1 DEF TypeInv
<1>3. TypeInv'
  BY <1>1, <1>2 DEF TypeInv, World
<1>4. ASSUME NEW k \in SUBSET Versions PROVE LookupInv(k)'
  <2>1. CASE k = m
    BY <1>2, <2>1 DEF LookupInv, AnswerInv, Suspicious, Harmless, World
  <2>2. CASE k # m
    BY <1>2, <2>2
       DEF IInv, LookupInv, AnswerInv, Suspicious, Harmless, World
  <2> QED
    BY <2>1, <2>2
<1>5. ASSUME NEW r \in Requests PROVE CallInv(req[r])'
  <2>1. PICK c \in Calls : c = req[r]
    BY <1>1 DEF TypeInv
  <2>2. c.misses \in SUBSET Versions /\ CallInv(c)
    BY <2>1 DEF Calls, IInv
  <2>3. c.phase = "await" =>
          /\ lookup'[c.misses] # None
          /\ lookup'[c.misses].age = lookup[c.misses].age
    BY <1>1, <1>2, <2>2 DEF CallInv
  <2>4. CallInv(c)'
    BY <2>2, <2>3, CallStays
  <2>5. req'[r] = c
    BY <2>1
  <2> QED
    BY <2>4, <2>5
       DEF CallInv, Elapsed, MetadataInv, TarballInv, AnswerInv
<1> QED
  BY <1>3, <1>4, <1>5, CachesStay, NoReplyHolds DEF IInv

LEMMA AnswersInv ==
  ASSUME IInv, NEW m \in SUBSET Versions, Answer(m) \/ AnswerDegraded(m)
  PROVE  IInv'
<1>1. /\ TypeInv /\ lookup[m] # None /\ lookup[m].answer = None
      /\ UNCHANGED <<World, verdict, decision, times, req>>
      /\ reply' = None
  BY DEF IInv, Answer, AnswerDegraded, NoReply, World
<1>2. PICK k \in Lookups : k = lookup[m]
  BY <1>1 DEF TypeInv
<1>3. m \cap mal \in SUBSET Versions
  BY <1>1 DEF TypeInv
<1>4. CASE Answer(m)
  <2> DEFINE l == [k EXCEPT !.answer = m \cap mal, !.ok = TRUE]
  <2>1. lookup' = [lookup EXCEPT ![m] = l]
    BY <1>2, <1>4 DEF Answer
  <2>2. l \in Lookups /\ l.answer = m \cap mal /\ l.age = k.age
    BY <1>3 DEF Lookups
  <2>3. l.answer # None
    BY <1>3, <2>2, NamesAssumption
  <2> HIDE DEF l
  <2> QED
    BY <1>1, <1>2, <2>1, <2>2, <2>3, AnsweredInv
<1>5. CASE AnswerDegraded(m)
  <2>1. PICK some \in SUBSET (m \cap mal) :
          lookup' = [lookup EXCEPT ![m].answer = some]
    BY <1>5 DEF AnswerDegraded
  <2> DEFINE l == [k EXCEPT !.answer = some]
  <2>2. lookup' = [lookup EXCEPT ![m] = l]
    BY <1>2, <2>1
  <2>3. l \in Lookups /\ l.answer = some /\ l.age = k.age /\ l.ok = k.ok
    BY <1>3 DEF Lookups
  <2>4. ~k.ok
    BY <1>1, <1>2 DEF IInv, LookupInv
  <2>5. l.answer # None
    BY <1>3, <2>3, NamesAssumption
  <2> HIDE DEF l
  <2> QED
    BY <1>1, <1>2, <2>2, <2>3, <2>4, <2>5, AnsweredInv
<1> QED
  BY <1>4, <1>5

\* A call goes on with what policy-sync said while it waited.
LEMMA ToldCall ==
  ASSUME TypeInv, UNCHANGED World, NEW c \in Calls, CallInv(c),
         c.phase = "await", NEW answer \in SUBSET Versions,
         NEW failed \in BOOLEAN, AnswerInv(answer, c.misses, ~failed, Timeout),
         NEW n \in Calls, n = [c EXCEPT !.phase = "resume", !.answer = answer,
                                        !.failed = failed]
  PROVE  CallInv(n)'
<1>1. /\ n.phase = "resume" /\ n.kind = c.kind /\ n.policy = c.policy
      /\ n.versions = c.versions /\ n.removed = c.removed
      /\ n.misses = c.misses /\ n.waited = c.waited
      /\ n.answer = answer /\ n.failed = failed
  BY DEF Calls
<1>2. PICK l \in Lookups : l = lookup[c.misses]
  <2>1. lookup[c.misses] # None /\ c.misses \in SUBSET Versions
    BY DEF CallInv, Calls
  <2> QED
    BY <2>1 DEF TypeInv
<1>3. PICK p \in Policies : p = c.policy /\ ~p.blocked
  BY DEF CallInv
<1>4. p.minAge \in Nat
  BY PolicyFields
<1>5. PICK t \in Nat : t = l.age /\ t <= Timeout
  BY Numbers DEF Lookups
<1>6. ASSUME n.kind = Metadata PROVE MetadataInv(n, Timeout)
  <2>1. MetadataInv(c, t)
    BY <1>1, <1>2, <1>5, <1>6 DEF CallInv, Elapsed
  <2>2. /\ OsvLag + t \in Int /\ OsvLag + Timeout \in Int /\ Timeout \in Int
        /\ OsvLag + t <= OsvLag + Timeout
    BY <1>5, Numbers
  <2>3. \A v \in c.versions : v \in Versions /\ age[v] \in Int
    BY Numbers DEF Calls, TypeInv
  <2>4. ASSUME NEW v \in c.versions \ c.removed
        PROVE  Passes(v, p)
                 /\ (v \in c.misses \/ Harmless(v, OsvLag + Timeout))
    <3>1. Passes(v, p) /\ (v \in c.misses \/ Harmless(v, OsvLag + t))
      BY <1>3, <2>1 DEF MetadataInv
    <3>2. Harmless(v, OsvLag + t) => Harmless(v, OsvLag + Timeout)
      BY <2>2, <2>3, Longer
    <3> QED
      BY <3>1, <3>2
  <2>5. ASSUME NEW v \in c.removed PROVE Stripped(v, p, Timeout)
    <3>1. Stripped(v, p, t) /\ v \in c.versions
      BY <1>3, <2>1 DEF MetadataInv
    <3>2. v \in Versions /\ age[v] \in Int /\ t \in Int
      BY <1>5, <2>3, <3>1
    <3> QED
      BY <1>4, <1>5, <2>2, <3>1, <3>2, Longer
  <2> QED
    BY <1>1, <1>3, <2>1, <2>4, <2>5 DEF MetadataInv
<1>7. ASSUME n.kind # Metadata PROVE TarballInv(n)
  BY <1>1, <1>7 DEF CallInv, TarballInv
<1>8. CallInv(n)
  BY <1>1, <1>3, <1>6, <1>7 DEF CallInv, Elapsed
<1> QED
  BY <1>1, <1>8, CallStays

LEMMA ToldInv ==
  ASSUME IInv, NEW m \in SUBSET Versions, Arrive(m) \/ LookupFails(m)
  PROVE  IInv'
<1>1. TypeInv /\ lookup[m] # None
  BY DEF IInv, Arrive, LookupFails
<1>2. PICK answer \in SUBSET Versions, ok \in BOOLEAN :
        Told(m, answer, ok) /\ AnswerInv(answer, m, ok, Timeout)
  <2>1. CASE Arrive(m)
    <3>1. PICK l \in Lookups : l = lookup[m] /\ l.answer # None
      BY <1>1, <2>1 DEF TypeInv, Arrive
    <3>2. /\ l.answer \in SUBSET Versions /\ l.ok \in BOOLEAN
          /\ l.age \in Int /\ l.age <= Timeout /\ Timeout \in Int
      BY <3>1, Numbers DEF Lookups
    <3>3. AnswerInv(l.answer, m, l.ok, l.age)
      BY <1>1, <3>1 DEF IInv, LookupInv
    <3>4. AnswerInv(l.answer, m, l.ok, Timeout)
      BY <1>1, <3>2, <3>3, Longer DEF AnswerInv
    <3> QED
      BY <2>1, <3>1, <3>2, <3>4 DEF Arrive
  <2>2. CASE LookupFails(m)
    <3>1. AnswerInv({}, m, FALSE, Timeout)
      BY DEF AnswerInv
    <3> QED
      BY <2>2, <3>1 DEF LookupFails
  <2> QED
    BY <2>1, <2>2
<1>3. PICK failed \in BOOLEAN : failed = ~ok
  OBVIOUS
<1>4. /\ lookup' = [lookup EXCEPT ![m] = None]
      /\ UNCHANGED <<World, verdict, decision, times>> /\ reply' = None
      /\ req' = [r \in Requests |->
           IF req[r].phase = "await" /\ req[r].misses = m
           THEN [req[r] EXCEPT !.phase = "resume", !.answer = answer,
                               !.failed = failed]
           ELSE req[r]]
  BY <1>2, <1>3 DEF Told, NoReply, World
<1>5. /\ lookup'[m] = None
      /\ \A k \in (SUBSET Versions) \ {m} : lookup'[k] = lookup[k]
      /\ lookup' \in [SUBSET Versions -> Lookups \cup {None}]
      /\ lookup'[{}] = None
  BY <1>1, <1>4 DEF TypeInv
<1>6. ASSUME NEW r \in Requests PROVE req'[r] \in Calls /\ CallInv(req[r])'
  <2>1. PICK c \in Calls : c = req[r]
    BY <1>1 DEF TypeInv
  <2>2. CallInv(c) /\ c.misses \in SUBSET Versions
    BY <2>1 DEF IInv, Calls
  <2>3. CASE c.phase = "await" /\ c.misses = m
    <3> DEFINE n == [c EXCEPT !.phase = "resume", !.answer = answer,
                              !.failed = failed]
    <3>1. req'[r] = n
      BY <1>4, <2>1, <2>3
    <3>2. n \in Calls
      BY DEF Calls
    <3>3. AnswerInv(answer, c.misses, ~failed, Timeout)
      BY <1>2, <1>3, <2>3 DEF AnswerInv
    <3>4. PICK new \in Calls : new = n
      BY <3>2
    <3>5. CallInv(new)'
      BY <1>1, <1>4, <2>2, <2>3, <3>3, <3>4, ToldCall
    <3> HIDE DEF n
    <3> QED
      BY <3>1, <3>4, <3>5
         DEF CallInv, Elapsed, MetadataInv, TarballInv, AnswerInv
  <2>4. CASE ~(c.phase = "await" /\ c.misses = m)
    <3>1. req'[r] = c
      BY <1>4, <2>1, <2>4
    <3>2. CallInv(c)'
      <4>1. c.phase = "await" =>
              /\ lookup'[c.misses] # None
              /\ lookup'[c.misses].age = lookup[c.misses].age
        BY <1>5, <2>2, <2>4 DEF CallInv
      <4> QED
        BY <1>4, <2>2, <4>1, CallStays
    <3> QED
      BY <3>1, <3>2 DEF CallInv, Elapsed, MetadataInv, TarballInv, AnswerInv
  <2> QED
    BY <2>3, <2>4
<1>7. TypeInv'
  <2>1. req' \in [Requests -> Calls]
    <3>1. req' = [r \in Requests |-> req'[r]]
      BY <1>4
    <3> QED
      BY <1>6, <3>1
  <2> QED
    BY <1>1, <1>4, <1>5, <2>1 DEF TypeInv, World
<1>8. ASSUME NEW k \in SUBSET Versions PROVE LookupInv(k)'
  BY <1>4, <1>5 DEF IInv, LookupInv, AnswerInv, Suspicious, Harmless, World
<1> QED
  BY <1>4, <1>6, <1>7, <1>8, CachesStay, NoReplyHolds DEF IInv

-----------------------------------------------------------------------------
(* Steps of a call *)

CachesInv ==
  /\ verdict \in [Versions -> Verdicts \cup {None}]
  /\ decision # None => decision \in Decisions
  /\ \A v \in Versions : VerdictInv(v)
  /\ DecisionInv

LEMMA CachesKept ==
  ASSUME IInv, UNCHANGED <<World, verdict, decision>>
  PROVE  CachesInv'
<1>1. (\A v \in Versions : VerdictInv(v)') /\ DecisionInv'
  BY CachesStay
<1> QED
  BY <1>1 DEF CachesInv, IInv, TypeInv

\* A call moves, the others stay.
LEMMA MoveInv ==
  ASSUME IInv, UNCHANGED World, CachesInv',
         NEW r \in Requests, NEW n \in Calls, CallInv(n)',
         req' = [req EXCEPT ![r] = n],
         lookup' \in [SUBSET Versions -> Lookups \cup {None}],
         lookup'[{}] = None,
         \A m \in SUBSET Versions :
           /\ lookup[m] # None => lookup'[m] = lookup[m]
           /\ lookup'[m] \in {lookup[m], Lookup},
         PolicyObeyed', BoundedExposure', NothingStrippedForLong'
  PROVE  IInv'
<1>1. TypeInv
  BY DEF IInv
<1>2. /\ req' \in [Requests -> Calls] /\ req'[r] = n
      /\ \A q \in Requests \ {r} : req'[q] = req[q]
  BY <1>1 DEF TypeInv
<1>3. TypeInv'
  BY <1>1, <1>2 DEF TypeInv, CachesInv, World
<1>4. ASSUME NEW m \in SUBSET Versions PROVE LookupInv(m)'
  <2>1. CASE lookup'[m] = lookup[m]
    BY <2>1
       DEF IInv, LookupInv, AnswerInv, Suspicious, Harmless, World
  <2>2. CASE lookup'[m] = Lookup
    BY <2>2 DEF LookupInv, Lookup
  <2> QED
    BY <2>1, <2>2
<1>5. ASSUME NEW q \in Requests PROVE CallInv(req[q])'
  <2>1. CASE q = r
    BY <1>2, <2>1
       DEF CallInv, Elapsed, MetadataInv, TarballInv, AnswerInv
  <2>2. CASE q # r
    <3>1. PICK c \in Calls : c = req[q]
      BY <1>1 DEF TypeInv
    <3>2. CallInv(c) /\ c.misses \in SUBSET Versions
      BY <3>1 DEF IInv, Calls
    <3>3. CallInv(c)'
      <4>1. c.phase = "await" =>
              /\ lookup'[c.misses] # None
              /\ lookup'[c.misses].age = lookup[c.misses].age
        BY <3>2 DEF CallInv
      <4> QED
        BY <3>2, <4>1, CallStays
    <3>4. req'[q] = c
      BY <1>2, <2>2, <3>1
    <3> QED
      BY <3>3, <3>4 DEF CallInv, Elapsed, MetadataInv, TarballInv, AnswerInv
  <2> QED
    BY <2>1, <2>2
<1> QED
  BY <1>3, <1>4, <1>5 DEF IInv, CachesInv

\* What a reply may be.
Well(call, through) ==
  LET p == call.policy IN
  /\ through # {} => ~p.blocked
  /\ \A v \in through : v \notin p.ranges /\ v \notin TooYoung(p)
  /\ ~call.failed => \A v \in through :
       Harmless(v, IF call.kind = Metadata THEN MetadataExposure
                   ELSE TarballExposure)
  /\ call.kind = Metadata => \A v \in call.versions \ through :
       p.blocked \/ Stripped(v, p, Timeout + DecisionTtl - 1)

LEMMA RepliedInv ==
  ASSUME IInv, UNCHANGED <<World, lookup>>, CachesInv',
         NEW r \in Requests, NEW call \in Calls, call.policy \in Policies,
         NEW through \in SUBSET Versions, Well(call, through),
         Replied(r, call, through)
  PROVE  IInv'
<1>1. /\ req' = [req EXCEPT ![r] = Idle]
      /\ reply'.kind = call.kind /\ reply'.policy = call.policy
      /\ reply'.versions = call.versions /\ reply'.through = through
      /\ reply'.failed = call.failed
  BY DEF Replied
<1>2. PICK p \in Policies : p = call.policy
  OBVIOUS
<1>3. PICK failed \in BOOLEAN : failed = call.failed
  BY DEF Calls
<1>4. /\ through # {} => ~p.blocked
      /\ \A v \in through : v \notin p.ranges /\ v \notin TooYoung(p)
      /\ ~failed => \A v \in through :
           Harmless(v, IF call.kind = Metadata THEN MetadataExposure
                       ELSE TarballExposure)
      /\ call.kind = Metadata => \A v \in call.versions \ through :
           p.blocked \/ Stripped(v, p, Timeout + DecisionTtl - 1)
  BY <1>2, <1>3 DEF Well
<1>5. TooYoung(p)' = TooYoung(p)
  BY DEF TooYoung, Published, World
<1>6. PolicyObeyed'
  BY <1>1, <1>2, <1>4, <1>5 DEF PolicyObeyed, TooYoung
<1>7. BoundedExposure'
  BY <1>1, <1>3, <1>4 DEF BoundedExposure, Harmless, World
<1>8. NothingStrippedForLong'
  <2>1. ASSUME call.kind = Metadata, NEW v \in call.versions \ through
        PROVE  \/ p.blocked \/ v \in p.ranges
               \/ v \in mal \/ held[v] <= MetadataExposure
               \/ p.minAge > 0
                    /\ age[v] < p.minAge + Timeout + DecisionTtl - 1
    <3>1. p.blocked \/ Stripped(v, p, Timeout + DecisionTtl - 1)
      BY <1>4, <2>1
    <3>2. p.minAge + (Timeout + DecisionTtl - 1)
            = p.minAge + Timeout + DecisionTtl - 1
      BY PolicyFields, Numbers
    <3> QED
      BY <3>1, <3>2, Numbers DEF Stripped, Suspicious
  <2> QED
    BY <1>1, <1>2, <2>1 DEF NothingStrippedForLong, World
<1>9. CallInv(Idle)'
  BY IdleCall DEF CallInv
<1>10. /\ lookup' \in [SUBSET Versions -> Lookups \cup {None}]
       /\ lookup'[{}] = None
  BY DEF IInv, TypeInv
<1> HIDE DEF Replied
<1> QED
  BY <1>1, <1>6, <1>7, <1>8, <1>9, <1>10, IdleCall, MoveInv

\* A call that begins.
LEMMA NewFilterCall ==
  ASSUME TypeInv
  PROVE  \E c \in Calls :
           /\ c = Call(Metadata, Published) /\ c.kind = Metadata
           /\ c.policy = policy /\ c.versions = Published
           /\ c.removed = {} /\ c.failed = FALSE /\ c.waited = 0
<1>1. PICK i \in Calls : i = Idle
  BY IdleCall
<1>2. PICK versions \in SUBSET Versions : versions = Published
  BY DEF Published
<1>3. policy \in Policies
  BY DEF TypeInv
<1> DEFINE c == [i EXCEPT !.kind = Metadata, !.policy = policy,
                          !.versions = versions]
<1>4. /\ c \in Calls /\ c.kind = Metadata /\ c.policy = policy
      /\ c.versions = versions /\ c.removed = i.removed
      /\ c.failed = i.failed /\ c.waited = i.waited
  BY <1>3 DEF Calls
<1>5. c = Call(Metadata, Published)
  BY <1>1, <1>2 DEF Call
<1> HIDE DEF c
<1> QED
  BY <1>1, <1>2, <1>4, <1>5, IdleCall

LEMMA NewGuardCall ==
  ASSUME TypeInv, NEW v \in Versions
  PROVE  \E c \in Calls :
           /\ c = Call(v, {v}) /\ c.kind = v
           /\ c.policy = policy /\ c.versions = {v}
           /\ c.removed = {} /\ c.failed = FALSE /\ c.waited = 0
<1>1. PICK i \in Calls : i = Idle
  BY IdleCall
<1>2. PICK versions \in SUBSET Versions : versions = {v}
  OBVIOUS
<1>3. policy \in Policies
  BY DEF TypeInv
<1> DEFINE c == [i EXCEPT !.kind = v, !.policy = policy,
                          !.versions = versions]
<1>4. /\ c \in Calls /\ c.kind = v /\ c.policy = policy
      /\ c.versions = versions /\ c.removed = i.removed
      /\ c.failed = i.failed /\ c.waited = i.waited
  BY <1>3 DEF Calls
<1>5. c = Call(v, {v})
  BY <1>1, <1>2 DEF Call
<1> HIDE DEF c
<1> QED
  BY <1>1, <1>2, <1>4, <1>5, IdleCall

\* What the OSV cache knows of a version.
LEMMA KnownHolds ==
  ASSUME IInv, NEW v \in Versions, verdict[v] # None
  PROVE  /\ verdict[v].mal \in BOOLEAN
         /\ verdict[v].mal => Suspicious(v, OsvLag)
         /\ ~verdict[v].mal => Harmless(v, OsvLag)
<1>1. TypeInv /\ VerdictInv(v)
  BY DEF IInv
<1>2. PICK w \in Verdicts : w = verdict[v]
  BY <1>1 DEF TypeInv
<1>3. PICK t \in Nat : t = Timeout + OsvTtl - w.left
  BY Numbers DEF Verdicts
<1>4. t <= OsvLag /\ OsvLag \in Int /\ t \in Int
  BY <1>3, Numbers DEF Verdicts
<1>5. Said(v, w.mal, t)
  BY <1>1, <1>2, <1>3 DEF VerdictInv
<1>6. /\ Harmless(v, t) => Harmless(v, OsvLag)
      /\ Suspicious(v, t) => Suspicious(v, OsvLag)
  BY <1>1, <1>4, Longer
<1>7. w.mal \in BOOLEAN
  BY DEF Verdicts
<1> QED
  BY <1>2, <1>5, <1>6, <1>7 DEF Said

\* A call asks policy-sync, alone or with others.
LEMMA AwaitInv ==
  ASSUME IInv, UNCHANGED <<World, verdict, decision>>, NEW r \in Requests,
         NEW call \in Calls, call.policy \in Policies, ~call.policy.blocked,
         call.waited = 0, NEW candidates \in SUBSET Versions,
         Await(r, call, candidates),
         call.kind = Metadata =>
           /\ call.removed \subseteq call.versions
           /\ call.versions \subseteq Published
           /\ candidates = call.versions \ call.removed
           /\ \A v \in candidates : Passes(v, call.policy)
           /\ \A v \in call.removed : Stripped(v, call.policy, 0),
         call.kind # Metadata =>
           /\ call.versions = {call.kind} /\ call.removed = {}
           /\ candidates = call.versions
           /\ call.kind \notin call.policy.ranges
  PROVE  IInv'
<1>1. TypeInv
  BY DEF IInv
<1>2. PICK m \in SUBSET Versions : m = {v \in candidates : verdict[v] = None}
  OBVIOUS
<1>3. PICK known \in SUBSET Versions :
        known = {v \in candidates \ m : verdict[v].mal}
  OBVIOUS
<1> DEFINE n == [call EXCEPT !.phase = "await", !.removed = @ \cup known,
                             !.misses = m]
<1>4. /\ m # {} /\ req' = [req EXCEPT ![r] = n] /\ reply' = None
      /\ lookup' = [lookup EXCEPT ![m] = IF @ = None THEN Lookup ELSE @]
  BY <1>2, <1>3 DEF Await
<1>5. /\ n \in Calls /\ n.phase = "await" /\ n.misses = m
      /\ n.removed = call.removed \cup known /\ n.kind = call.kind
      /\ n.policy = call.policy /\ n.versions = call.versions
      /\ n.waited = call.waited
  BY DEF Calls
<1> HIDE DEF n
<1>6. PICK c \in Calls : c = n
  BY <1>5
<1>7. Lookup \in Lookups /\ Lookup # None
  <2>1. Lookup \in Lookups
    BY Numbers DEF Lookup, Lookups
  <2> QED
    BY <2>1, NamesAssumption
<1>8. PICK l \in Lookups : l = lookup'[m]
  <2>1. lookup'[m] = IF lookup[m] = None THEN Lookup ELSE lookup[m]
    BY <1>1, <1>4 DEF TypeInv
  <2>2. lookup[m] \in Lookups \cup {None}
    BY <1>1 DEF TypeInv
  <2> QED
    BY <1>7, <2>1, <2>2
<1>9. l # None
  BY NamesAssumption
<1>10. /\ lookup' \in [SUBSET Versions -> Lookups \cup {None}]
       /\ lookup'[{}] = None
       /\ \A k \in SUBSET Versions :
            /\ lookup[k] # None => lookup'[k] = lookup[k]
            /\ lookup'[k] \in {lookup[k], Lookup}
  BY <1>1, <1>4, <1>7 DEF TypeInv
<1>11. PICK t \in Nat : t = l.age
  BY Numbers DEF Lookups
<1>12. /\ OsvLag \in Int /\ OsvLag + t \in Int /\ OsvLag <= OsvLag + t
       /\ t \in Int /\ 0 <= t
  BY Numbers
<1>13. PICK p \in Policies : p = call.policy
  OBVIOUS
<1>14. p.minAge \in Nat
  BY PolicyFields
<1>15. ASSUME c.kind = Metadata PROVE MetadataInv(c, t)
  <2>1. /\ call.removed \subseteq call.versions
        /\ call.versions \subseteq Published
        /\ candidates = call.versions \ call.removed
        /\ \A v \in candidates : Passes(v, p)
        /\ \A v \in call.removed : Stripped(v, p, 0)
    BY <1>5, <1>6, <1>13, <1>15
  <2>2. /\ c.removed = call.removed \cup known /\ c.versions = call.versions
        /\ c.misses = m /\ c.policy = p
    BY <1>5, <1>6, <1>13
  <2>3. ASSUME NEW v \in candidates \ known
        PROVE  v \in m \/ Harmless(v, OsvLag + t)
    <3>1. CASE v \notin m
      <4>1. v \in Versions /\ verdict[v] # None
        BY <1>2, <3>1
      <4>2. ~verdict[v].mal
        BY <1>3, <2>3, <3>1
      <4> QED
        BY <1>1, <1>12, <4>1, <4>2, KnownHolds, Longer
    <3> QED
      BY <3>1
  <2>4. ASSUME NEW v \in known PROVE Stripped(v, p, t)
    <3>1. v \in Versions /\ verdict[v] # None /\ verdict[v].mal
      BY <1>2, <1>3
    <3>2. Suspicious(v, OsvLag + t)
      BY <1>1, <1>12, <3>1, KnownHolds, Longer
    <3> QED
      BY <3>2 DEF Stripped
  <2>5. ASSUME NEW v \in call.removed PROVE Stripped(v, p, t)
    <3>1. v \in Versions /\ age[v] \in Int
      BY <1>1, <2>1, Numbers DEF TypeInv, Published
    <3> QED
      BY <1>1, <1>12, <1>14, <2>1, <3>1, Longer
  <2>6. known \subseteq candidates
    BY <1>3
  <2> QED
    BY <2>1, <2>2, <2>3, <2>4, <2>5, <2>6 DEF MetadataInv
<1>16. ASSUME c.kind # Metadata PROVE TarballInv(c)
  <2>1. /\ call.versions = {call.kind} /\ call.removed = {}
        /\ candidates = call.versions /\ call.kind \notin call.policy.ranges
    BY <1>5, <1>6, <1>16
  <2>2. m = call.versions /\ known = {}
    BY <1>2, <1>3, <1>4, <2>1
  <2> QED
    BY <1>5, <1>6, <2>1, <2>2 DEF TarballInv
<1>17. CallInv(c)'
  <2>1. Elapsed(c)' = t
    BY <1>5, <1>6, <1>8, <1>11 DEF Elapsed
  <2>2. c.kind = Metadata => MetadataInv(c, t)'
    BY <1>15 DEF MetadataInv, Passes, Stripped, Harmless, Suspicious, World,
                 Published
  <2>3. c.kind # Metadata => TarballInv(c)'
    BY <1>5, <1>6, <1>16 DEF TarballInv
  <2>4. c.phase = "await" /\ c.waited = 0 /\ lookup'[c.misses] # None
    BY <1>5, <1>6, <1>8, <1>9
  <2>5. c.policy \in Policies /\ ~c.policy.blocked
    BY <1>5, <1>6
  <2> QED
    BY <2>1, <2>2, <2>3, <2>4, <2>5 DEF CallInv
<1>18. CachesInv'
  BY CachesKept
<1>19. PolicyObeyed' /\ BoundedExposure' /\ NothingStrippedForLong'
  BY <1>4, NoReplyHolds
<1>20. req' = [req EXCEPT ![r] = c]
  BY <1>4, <1>6
<1> QED
  BY <1>10, <1>17, <1>18, <1>19, <1>20, MoveInv

\* A decision is stored.
LEMMA DecidedInv ==
  ASSUME TypeInv, UNCHANGED World, NEW call \in Calls,
         NEW p \in Policies, call.policy = p, NEW through \in SUBSET Versions,
         through \subseteq call.versions, call.versions \subseteq Published,
         \A v \in through : Passes(v, p) /\ Harmless(v, OsvLag + Timeout),
         \A v \in call.versions \ through : Stripped(v, p, Timeout),
         decision' = Decided(call, through)
  PROVE  (decision' # None => decision' \in Decisions) /\ DecisionInv'
<1>1. PICK fp \in Fingerprints :
        /\ fp = Fingerprint(call.policy, call.versions)
        /\ fp.versions = call.versions /\ fp.minAge = p.minAge
        /\ fp.ranges = p.ranges
  <2>1. call.versions \in SUBSET Versions /\ p.ranges \in SUBSET Versions
    BY PolicyFields DEF Calls
  <2>2. p.minAge \in 0..OldAge
    BY PolicyFields, Numbers
  <2> DEFINE fp == Fingerprint(call.policy, call.versions)
  <2>3. fp = [versions |-> call.versions, minAge |-> p.minAge,
              ranges |-> p.ranges]
    BY DEF Fingerprint
  <2>4. fp \in Fingerprints
    BY <2>1, <2>2, <2>3 DEF Fingerprints
  <2>5. /\ fp.versions = call.versions /\ fp.minAge = p.minAge
        /\ fp.ranges = p.ranges
    BY <2>3
  <2> QED
    BY <2>4, <2>5
<1>2. /\ decision'.fp = fp /\ decision'.versions = call.versions
      /\ decision'.through = through /\ decision'.left = DecisionTtl
      /\ decision' \in Decisions
  BY <1>1, Numbers DEF Decided, Decisions, Calls
<1>3. Timeout + DecisionTtl - decision'.left = Timeout
  BY <1>2, Numbers
<1>4. DecisionInv'
  <2>1. \A v \in through : Passes(v, fp)' /\ Harmless(v, OsvLag + Timeout)'
    BY <1>1 DEF Passes, Harmless, World
  <2>2. \A v \in call.versions \ through : Stripped(v, fp, Timeout)'
    BY <1>1 DEF Stripped, Suspicious, World
  <2>3. call.versions \subseteq Published'
    BY DEF World, Published
  <2> QED
    BY <1>1, <1>2, <1>3, <2>1, <2>2, <2>3
       DEF DecisionInv, Passes, Harmless, Stripped, Suspicious
<1> QED
  BY <1>2, <1>4

\* guardTarball goes on with a version that policy-sync does not hold
\* malicious.
LEMMA CheckedInv ==
  ASSUME IInv, UNCHANGED <<World, lookup>>, CachesInv', NEW r \in Requests,
         NEW call \in Calls, NEW p \in Policies, call.policy = p, ~p.blocked,
         call.kind # Metadata, call.versions = {call.kind},
         call.kind \notin p.ranges, call.waited = 0,
         NEW cleared \in SUBSET Versions, cleared \subseteq call.versions,
         ~call.failed => \A v \in cleared : Harmless(v, OsvLag),
         Checked(r, call, cleared)
  PROVE  IInv'
<1>1. TypeInv /\ p.minAge \in Nat
  BY PolicyFields DEF IInv
<1>2. ~call.failed => \A v \in cleared : Harmless(v, TarballExposure)
  <2>1. OsvLag \in Int /\ TarballExposure \in Int /\ OsvLag <= TarballExposure
    BY Numbers
  <2> QED
    BY <1>1, <2>1, Longer
<1>3. \A v \in Published : age[v] \in Int /\ age[v] >= 0
  BY <1>1, Numbers DEF Published, TypeInv
<1>4. CASE Replied(r, call, cleared) /\ (cleared = {} \/ p.minAge = 0)
  <2>1. \A v \in cleared : v \notin TooYoung(p)
    BY <1>1, <1>3, <1>4 DEF TooYoung
  <2>2. Well(call, cleared)
    BY <1>2, <2>1 DEF Well
  <2> QED
    BY <1>1, <1>4, <2>2, RepliedInv
<1>5. CASE Replied(r, call, cleared \ TooYoung(p))
  <2>1. PICK through \in SUBSET Versions : through = cleared \ TooYoung(p)
    BY <1>1
  <2>2. Well(call, through)
    BY <1>2, <2>1 DEF Well
  <2>3. Replied(r, call, through)
    BY <1>5, <2>1
  <2> QED
    BY <2>2, <2>3, RepliedInv
<1>6. CASE /\ req' = [req EXCEPT ![r] =
                        [call EXCEPT !.phase = "times", !.removed = {},
                           !.misses = {}, !.answer = None,
                           !.through = cleared]]
           /\ reply' = None
  <2> DEFINE n == [call EXCEPT !.phase = "times", !.removed = {},
                     !.misses = {}, !.answer = None, !.through = cleared]
  <2>1. /\ n \in Calls /\ n.phase = "times" /\ n.kind = call.kind
        /\ n.policy = p /\ n.versions = call.versions
        /\ n.through = cleared /\ n.failed = call.failed
        /\ n.waited = call.waited
    BY <1>1 DEF Calls
  <2>2. req' = [req EXCEPT ![r] = n]
    BY <1>6
  <2> HIDE DEF n
  <2>3. PICK c \in Calls : c = n
    BY <2>1
  <2>4. OsvLag + c.waited = OsvLag
    BY <2>1, <2>3, Numbers
  <2>5. TarballInv(c)'
    BY <2>1, <2>3, <2>4 DEF TarballInv, Harmless, World
  <2>6. CallInv(c)'
    BY <2>1, <2>3, <2>5 DEF CallInv
  <2>7. PolicyObeyed' /\ BoundedExposure' /\ NothingStrippedForLong'
    BY <1>6, NoReplyHolds
  <2>8. /\ lookup' \in [SUBSET Versions -> Lookups \cup {None}]
        /\ lookup'[{}] = None
    BY <1>1 DEF TypeInv
  <2> QED
    BY <2>2, <2>3, <2>6, <2>7, <2>8, MoveInv
<1> QED
  BY <1>4, <1>5, <1>6 DEF Checked

-----------------------------------------------------------------------------
(* The steps of filter_metadata and guardTarball *)

\* Nothing gets through.
LEMMA RefusedInv ==
  ASSUME IInv, NEW r \in Requests, NEW call \in Calls,
         UNCHANGED <<World, verdict, decision, lookup>>,
         call.policy \in Policies,
         call.kind = Metadata => call.policy.blocked, Replied(r, call, {})
  PROVE  IInv'
<1>1. CachesInv'
  BY CachesKept
<1>2. Well(call, {})
  BY DEF Well
<1>3. {} \in SUBSET Versions
  OBVIOUS
<1> QED
  BY <1>1, <1>2, <1>3, RepliedInv

LEMMA RefusalsInv ==
  ASSUME IInv, NEW r \in Requests,
         \/ FilterAll(r) \/ TimesFail(r)
         \/ \E v \in Versions : GuardRefuses(r, v)
  PROVE  IInv'
<1>1. TypeInv
  BY DEF IInv
<1>2. CASE FilterAll(r)
  <2>1. PICK call \in Calls : /\ call = Call(Metadata, Published)
                              /\ call.policy = policy
    BY <1>1, NewFilterCall
  <2> QED
    BY <1>1, <1>2, <2>1, RefusedInv DEF FilterAll, TypeInv, World
<1>3. CASE TimesFail(r)
  <2>1. PICK call \in Calls : call = req[r]
    BY <1>1 DEF TypeInv
  <2>2. CallInv(call) /\ call.phase = "times"
    BY <1>3, <2>1 DEF IInv, TimesFail
  <2>3. call.policy \in Policies /\ call.kind # Metadata
    BY <2>2 DEF CallInv
  <2> QED
    BY <1>3, <2>1, <2>3, RefusedInv DEF TimesFail, World
<1>4. ASSUME NEW v \in Versions, GuardRefuses(r, v) PROVE IInv'
  <2>1. PICK call \in Calls : /\ call = Call(v, {v}) /\ call.kind = v
                              /\ call.policy = policy
    BY <1>1, NewGuardCall
  <2>2. call.kind # Metadata
    BY <2>1, NamesAssumption
  <2> QED
    BY <1>1, <1>4, <2>1, <2>2, RefusedInv DEF GuardRefuses, TypeInv, World
<1> QED
  BY <1>2, <1>3, <1>4

LEMMA FilterHitInv ==
  ASSUME IInv, NEW r \in Requests, FilterHit(r)
  PROVE  IInv'
<1>1. TypeInv /\ DecisionInv /\ decision # None
  BY DEF IInv, FilterHit, Hit
<1>2. PICK call \in Calls :
        /\ call = Call(Metadata, Published) /\ call.kind = Metadata
        /\ call.policy = policy /\ call.versions = Published
  BY <1>1, NewFilterCall
<1>3. PICK p \in Policies : p = policy /\ ~p.blocked
  BY <1>1 DEF TypeInv, FilterHit
<1>4. PICK e \in Decisions : e = decision
  BY <1>1 DEF TypeInv
<1>5. /\ e.fp.versions = Published /\ e.fp.minAge = p.minAge
      /\ e.fp.ranges = p.ranges
  BY <1>3, <1>4 DEF FilterHit, Hit, Fingerprint
<1>6. PICK t \in Nat : t = Timeout + DecisionTtl - e.left
  BY Numbers DEF Decisions
<1> DEFINE u == Timeout + DecisionTtl - 1
<1>7. t \in Int /\ u \in Int /\ t <= u
  BY <1>6, Numbers DEF Decisions
<1>8. /\ OsvLag + t \in Int /\ MetadataExposure \in Int
      /\ OsvLag + t <= MetadataExposure
  BY <1>6, <1>7, Numbers
<1> HIDE DEF u
<1>9. /\ e.fp.versions = e.versions
      /\ \A v \in e.through : Passes(v, e.fp) /\ Harmless(v, OsvLag + t)
      /\ \A v \in e.versions \ e.through : Stripped(v, e.fp, t)
  BY <1>1, <1>4, <1>6 DEF DecisionInv
<1>10. PICK through \in SUBSET Versions : through = e.through
  BY DEF Decisions
<1>11. p.minAge \in Nat
  BY PolicyFields
<1>12. ASSUME NEW v \in through
       PROVE  /\ v \notin p.ranges /\ v \notin TooYoung(p)
              /\ Harmless(v, MetadataExposure)
  <2>1. /\ v \notin p.ranges /\ age[v] >= p.minAge
        /\ Harmless(v, OsvLag + t)
    BY <1>5, <1>9, <1>10 DEF Passes
  <2>2. v \notin TooYoung(p)
    BY <1>1, <1>11, <2>1, Numbers DEF TooYoung, Published, TypeInv
  <2>3. Harmless(v, MetadataExposure)
    BY <1>1, <1>8, <2>1, Longer
  <2> QED
    BY <2>1, <2>2, <2>3
<1>13. ASSUME NEW v \in Published \ through PROVE Stripped(v, p, u)
  <2>1. v \in Versions /\ age[v] \in Int
    BY <1>1, Numbers DEF Published, TypeInv
  <2>2. Stripped(v, e.fp, t)
    BY <1>5, <1>9, <1>10
  <2>3. Stripped(v, p, t)
    BY <1>5, <2>2 DEF Stripped
  <2> QED
    BY <1>1, <1>7, <1>11, <2>1, <2>3, Longer
<1>14. Well(call, through)
  BY <1>2, <1>3, <1>12, <1>13 DEF Well, u
<1>15. Replied(r, call, through) /\ UNCHANGED <<World, lookup>>
  BY <1>2, <1>4, <1>10 DEF FilterHit, World
<1>16. CachesInv'
  BY CachesKept DEF FilterHit, World
<1> QED
  BY <1>2, <1>3, <1>14, <1>15, <1>16, RepliedInv

\* A packument is filtered and, if that is certain enough, the decision stored.
LEMMA FilteredInv ==
  ASSUME IInv, NEW r \in Requests, NEW call \in Calls, NEW p \in Policies,
         call.policy = p, ~p.blocked, call.kind = Metadata,
         NEW through \in SUBSET Versions, through \subseteq call.versions,
         call.versions \subseteq Published,
         \A v \in through :
           Passes(v, p) /\ (~call.failed => Harmless(v, OsvLag + Timeout)),
         \A v \in call.versions \ through : Stripped(v, p, Timeout),
         Replied(r, call, through), UNCHANGED <<World, lookup>>,
         decision' = IF call.failed THEN decision ELSE Decided(call, through),
         verdict' \in [Versions -> Verdicts \cup {None}],
         \A v \in Versions : VerdictInv(v)'
  PROVE  IInv'
<1>1. TypeInv /\ p.minAge \in Nat
  BY PolicyFields DEF IInv
<1>2. PICK failed \in BOOLEAN : failed = call.failed
  BY DEF Calls
<1>3. (decision' # None => decision' \in Decisions) /\ DecisionInv'
  <2>1. CASE failed
    <3>1. decision' = decision
      BY <1>2, <2>1
    <3> QED
      BY <1>1, <3>1
         DEF IInv, TypeInv, World, DecisionInv, Published, Passes, Harmless,
             Stripped, Suspicious
  <2>2. CASE ~failed
    <3>1. decision' = Decided(call, through)
      BY <1>2, <2>2
    <3>2. \A v \in through : Passes(v, p) /\ Harmless(v, OsvLag + Timeout)
      BY <1>2, <2>2
    <3> QED
      BY <1>1, <3>1, <3>2, DecidedInv
  <2> QED
    BY <2>1, <2>2
<1>4. CachesInv'
  BY <1>3 DEF CachesInv
<1> DEFINE u == Timeout + DecisionTtl - 1
<1>5. /\ u \in Int /\ Timeout \in Int /\ Timeout <= u
      /\ OsvLag + Timeout \in Int /\ MetadataExposure \in Int
      /\ OsvLag + Timeout <= MetadataExposure
  BY Numbers
<1> HIDE DEF u
<1>6. \A v \in call.versions : v \in Versions /\ age[v] \in Int
  BY <1>1, Numbers DEF Published, TypeInv
<1>7. ASSUME NEW v \in through
      PROVE  /\ v \notin p.ranges /\ v \notin TooYoung(p)
             /\ ~failed => Harmless(v, MetadataExposure)
  <2>1. /\ v \notin p.ranges /\ age[v] >= p.minAge
        /\ ~failed => Harmless(v, OsvLag + Timeout)
    BY <1>2 DEF Passes
  <2>2. v \notin TooYoung(p)
    BY <1>1, <1>6, <2>1 DEF TooYoung
  <2>3. ~failed => Harmless(v, MetadataExposure)
    BY <1>1, <1>5, <2>1, Longer
  <2> QED
    BY <2>1, <2>2, <2>3
<1>8. ASSUME NEW v \in call.versions \ through PROVE Stripped(v, p, u)
  BY <1>1, <1>5, <1>6, Longer
<1>9. Well(call, through)
  BY <1>2, <1>7, <1>8 DEF Well, u
<1> QED
  BY <1>4, <1>9, RepliedInv

LEMMA FilterMissInv ==
  ASSUME IInv, NEW r \in Requests, FilterMiss(r)
  PROVE  IInv'
<1>1. TypeInv /\ Published \in SUBSET Versions
  BY DEF IInv, Published
<1>2. PICK new \in Calls :
        /\ new = Call(Metadata, Published) /\ new.kind = Metadata
        /\ new.policy = policy /\ new.versions = Published
        /\ new.failed = FALSE /\ new.waited = 0
  BY <1>1, NewFilterCall
<1>3. PICK p \in Policies : p = policy /\ ~p.blocked
  BY <1>1 DEF TypeInv, FilterMiss
<1>4. p.minAge \in Nat /\ p.ranges \subseteq Versions
  BY PolicyFields
<1>5. PICK removed \in SUBSET Versions :
        removed = (Published \cap p.ranges) \cup TooYoung(p)
  BY <1>1 DEF TooYoung
<1> DEFINE n == [new EXCEPT !.removed = removed]
<1>6. /\ n \in Calls /\ n.kind = Metadata /\ n.policy = p
      /\ n.versions = Published /\ n.failed = FALSE /\ n.waited = 0
      /\ n.removed = removed
  BY <1>2, <1>3 DEF Calls
<1>7. n = [Call(Metadata, Published) EXCEPT
             !.removed = (Published \cap policy.ranges) \cup TooYoung(policy)]
  BY <1>2, <1>3, <1>5
<1> HIDE DEF n
<1>8. PICK call \in Calls : call = n
  BY <1>6
<1>9. PICK candidates \in SUBSET Versions :
        candidates = Published \ call.removed
  BY <1>1
<1>10. PICK through \in SUBSET Versions :
         through = {v \in candidates : ~verdict[v].mal}
  OBVIOUS
<1>11. /\ \/ Await(r, call, candidates) /\ UNCHANGED decision
          \/ /\ \A v \in candidates : verdict[v] # None
             /\ Replied(r, call, through)
             /\ decision' = Decided(call, through)
             /\ UNCHANGED lookup
       /\ UNCHANGED <<policy, age, mal, held, verdict>>
  BY <1>7, <1>8, <1>9, <1>10 DEF FilterMiss
<1>12. UNCHANGED <<World, verdict>>
  BY <1>11 DEF World
<1>13. \A v \in Published : age[v] \in Int /\ age[v] >= 0
  BY <1>1, Numbers DEF Published, TypeInv
<1>14. \A v \in candidates : Passes(v, p)
  BY <1>4, <1>5, <1>6, <1>8, <1>9, <1>13 DEF TooYoung, Passes
<1>15. ASSUME NEW v \in call.removed PROVE Stripped(v, p, 0)
  <2>1. v \in Published
    BY <1>5, <1>6, <1>8 DEF TooYoung
  <2>2. v \in p.ranges \/ age[v] < p.minAge
    BY <1>5, <1>6, <1>8 DEF TooYoung
  <2>3. age[v] < p.minAge => p.minAge > 0 /\ age[v] < p.minAge + 0
    BY <1>4, <1>13, <2>1
  <2> QED
    BY <2>2, <2>3 DEF Stripped
<1>16. call.removed \subseteq Published
  BY <1>5, <1>6, <1>8 DEF TooYoung
<1>17. CASE Await(r, call, candidates) /\ UNCHANGED decision
  BY <1>3, <1>6, <1>8, <1>9, <1>12, <1>14, <1>15, <1>16, <1>17, AwaitInv
<1>18. CASE /\ \A v \in candidates : verdict[v] # None
            /\ Replied(r, call, through)
            /\ decision' = Decided(call, through)
            /\ UNCHANGED lookup
  <2>1. /\ OsvLag \in Int /\ OsvLag + Timeout \in Int
        /\ OsvLag <= OsvLag + Timeout /\ 0 <= Timeout /\ Timeout \in Int
    BY Numbers
  <2>2. \A v \in through : Harmless(v, OsvLag + Timeout)
    <3>1. \A v \in through : Harmless(v, OsvLag)
      BY <1>10, <1>18, KnownHolds
    <3> QED
      BY <1>1, <2>1, <3>1, Longer
  <2>3. ASSUME NEW v \in Published \ through PROVE Stripped(v, p, Timeout)
    <3>1. CASE v \in call.removed
      BY <1>1, <1>4, <1>13, <1>15, <2>1, <3>1, Longer
    <3>2. CASE v \notin call.removed
      <4>1. v \in candidates /\ verdict[v].mal
        BY <1>9, <1>10, <2>3, <3>2
      <4>2. Suspicious(v, OsvLag)
        BY <1>18, <4>1, KnownHolds
      <4>3. Suspicious(v, OsvLag + Timeout)
        BY <1>1, <2>1, <4>2, Longer
      <4> QED
        BY <4>3 DEF Stripped
    <3> QED
      BY <3>1, <3>2
  <2>4. through \subseteq call.versions /\ call.versions \subseteq Published
    BY <1>6, <1>8, <1>9, <1>10
  <2>5. \A v \in through :
          /\ Passes(v, p)
          /\ ~call.failed => Harmless(v, OsvLag + Timeout)
    BY <1>10, <1>14, <2>2
  <2>6. \A v \in call.versions \ through : Stripped(v, p, Timeout)
    BY <1>6, <1>8, <2>3
  <2>7. /\ verdict' \in [Versions -> Verdicts \cup {None}]
        /\ \A v \in Versions : VerdictInv(v)'
    BY <1>1, <1>12
       DEF IInv, TypeInv, World, VerdictInv, Said, Harmless, Suspicious
  <2>8. decision' = IF call.failed THEN decision ELSE Decided(call, through)
    BY <1>6, <1>8, <1>18
  <2>9. call.policy = p /\ ~p.blocked /\ call.kind = Metadata
    BY <1>3, <1>6, <1>8
  <2> QED
    BY <1>12, <1>18, <2>4, <2>5, <2>6, <2>7, <2>8, <2>9, FilteredInv
<1> QED
  BY <1>11, <1>17, <1>18

LEMMA GuardInv ==
  ASSUME IInv, NEW r \in Requests, NEW v \in Versions, Guard(r, v)
  PROVE  IInv'
<1>1. TypeInv /\ {v} \in SUBSET Versions
  BY DEF IInv
<1>2. PICK call \in Calls :
        /\ call = Call(v, {v}) /\ call.kind = v /\ call.policy = policy
        /\ call.versions = {v} /\ call.removed = {} /\ call.waited = 0
  BY <1>1, NewGuardCall
<1>3. PICK p \in Policies : p = policy /\ ~p.blocked /\ v \notin p.ranges
  BY <1>1 DEF TypeInv, Guard
<1>4. call.kind # Metadata
  BY <1>2, NamesAssumption
<1>5. UNCHANGED <<World, verdict, decision>>
  BY DEF Guard, World
<1>6. CASE Await(r, call, {v})
  <2>1. call.policy \in Policies /\ ~call.policy.blocked
    BY <1>2, <1>3
  <2>2. /\ call.versions = {call.kind} /\ {v} = call.versions
        /\ call.kind \notin call.policy.ranges
    BY <1>2, <1>3
  <2> QED
    BY <1>1, <1>2, <1>4, <1>5, <1>6, <2>1, <2>2, AwaitInv
<1>7. CASE /\ verdict[v] # None
           /\ Checked(r, call, IF verdict[v].mal THEN {} ELSE {v})
           /\ UNCHANGED lookup
  <2>1. PICK cleared \in SUBSET Versions :
          cleared = IF verdict[v].mal THEN {} ELSE {v}
    BY <1>1
  <2>2. \A w \in cleared : Harmless(w, OsvLag)
    BY <1>7, <2>1, KnownHolds
  <2>3. CachesInv'
    BY <1>5, CachesKept
  <2>4. Checked(r, call, cleared)
    BY <1>7, <2>1
  <2>5. cleared \subseteq call.versions
    BY <1>2, <2>1
  <2> QED
    BY <1>2, <1>3, <1>4, <1>5, <1>7, <2>2, <2>3, <2>4, <2>5, CheckedInv
<1> QED
  BY <1>2, <1>6, <1>7 DEF Guard

LEMMA TimesArriveInv ==
  ASSUME IInv, NEW r \in Requests, TimesArrive(r)
  PROVE  IInv'
<1>1. TypeInv
  BY DEF IInv
<1>2. PICK call \in Calls : call = req[r] /\ call.phase = "times"
  BY <1>1 DEF TypeInv, TimesArrive
<1>3. CallInv(call)
  BY <1>2 DEF IInv
<1>4. PICK p \in Policies : p = call.policy /\ ~p.blocked
  BY <1>2, <1>3 DEF CallInv
<1>5. /\ call.kind # Metadata /\ call.versions = {call.kind}
      /\ call.kind \notin p.ranges /\ call.through \subseteq call.versions
      /\ ~call.failed =>
           \A v \in call.through : Harmless(v, OsvLag + call.waited)
  BY <1>2, <1>3, <1>4 DEF CallInv, TarballInv
<1>6. PICK through \in SUBSET Versions : through = call.through \ TooYoung(p)
  BY DEF Calls
<1>7. PICK w \in Nat : w = call.waited /\ w <= NpmTimeout
  BY Numbers DEF Calls
<1>8. /\ OsvLag + w \in Int /\ TarballExposure \in Int
      /\ OsvLag + w <= TarballExposure
  BY <1>7, Numbers
<1>9. ~call.failed => \A v \in through : Harmless(v, TarballExposure)
  <2>1. ~call.failed => \A v \in through : Harmless(v, OsvLag + w)
    BY <1>5, <1>6, <1>7
  <2> QED
    BY <1>1, <1>8, <2>1, Longer
<1>10. Well(call, through)
  BY <1>4, <1>5, <1>6, <1>9 DEF Well
<1>11. /\ Replied(r, call, through)
       /\ UNCHANGED <<World, verdict, decision, lookup>>
  BY <1>2, <1>4, <1>6 DEF TimesArrive, World
<1>12. CachesInv'
  BY <1>11, CachesKept
<1> QED
  BY <1>4, <1>10, <1>11, <1>12, RepliedInv

LEMMA ResumeInv ==
  ASSUME IInv, NEW r \in Requests, Resume(r)
  PROVE  IInv'
<1>1. TypeInv
  BY DEF IInv
<1>2. PICK call \in Calls : call = req[r] /\ call.phase = "resume"
  BY <1>1 DEF TypeInv, Resume
<1>3. CallInv(call)
  BY <1>2 DEF IInv
<1>4. PICK p \in Policies : p = call.policy /\ ~p.blocked
  BY <1>2, <1>3 DEF CallInv
<1>5. PICK answer \in SUBSET Versions : answer = call.answer
  BY <1>2, <1>3 DEF CallInv
<1>6. PICK failed \in BOOLEAN : failed = call.failed
  BY DEF Calls
<1>7. call.misses \in SUBSET Versions /\ call.versions \in SUBSET Versions
  BY DEF Calls
<1>8. /\ \A v \in answer : Suspicious(v, Timeout)
      /\ ~failed => \A v \in call.misses \ answer : Harmless(v, Timeout)
  BY <1>2, <1>3, <1>5, <1>6 DEF CallInv, AnswerInv
<1>9. PICK through \in SUBSET Versions :
        through = call.versions \ (call.removed \cup answer)
  BY <1>7
<1>10. /\ verdict' = IF failed THEN verdict
                     ELSE [v \in Versions |->
                             IF v \in call.misses
                             THEN [mal |-> v \in answer, left |-> OsvTtl]
                             ELSE verdict[v]]
       /\ UNCHANGED <<World, lookup>>
  BY <1>2, <1>5, <1>6 DEF Resume, Complete, World
<1>11. /\ call.kind = Metadata =>
            /\ Replied(r, call, through)
            /\ decision' = IF failed THEN decision ELSE Decided(call, through)
       /\ call.kind # Metadata =>
            Checked(r, call, through) /\ UNCHANGED decision
  BY <1>2, <1>5, <1>6, <1>9 DEF Resume, Complete
<1>12. /\ OsvLag \in Int /\ OsvLag + Timeout \in Int /\ Timeout \in Int
       /\ Timeout <= OsvLag /\ Timeout <= OsvLag + Timeout
  BY Numbers
<1>13. ASSUME NEW v \in Versions
       PROVE  verdict'[v] \in Verdicts \cup {None} /\ VerdictInv(v)'
  <2>1. CASE ~failed /\ v \in call.misses
    <3>1. PICK bad \in BOOLEAN : bad <=> v \in answer
      OBVIOUS
    <3>2. /\ verdict'[v] \in Verdicts
          /\ verdict'[v].mal = bad /\ verdict'[v].left = OsvTtl
      BY <1>10, <2>1, <3>1, Numbers DEF Verdicts
    <3>3. Timeout + OsvTtl - verdict'[v].left = Timeout
      BY <3>2, Numbers
    <3>4. bad => Suspicious(v, Timeout)'
      BY <1>8, <1>10, <3>1 DEF Suspicious, World
    <3>5. ~bad => Harmless(v, Timeout)'
      BY <1>8, <1>10, <2>1, <3>1 DEF Harmless, World
    <3> QED
      BY <3>2, <3>3, <3>4, <3>5 DEF VerdictInv, Said, Suspicious, Harmless
  <2>2. CASE failed \/ v \notin call.misses
    <3>1. verdict'[v] = verdict[v]
      BY <1>10, <2>2
    <3> QED
      BY <1>1, <1>10, <3>1
         DEF IInv, TypeInv, VerdictInv, Said, Suspicious, Harmless, World
  <2> QED
    BY <2>1, <2>2
<1>14. verdict' \in [Versions -> Verdicts \cup {None}]
  <2>1. verdict' = [v \in Versions |-> verdict'[v]]
    BY <1>1, <1>10 DEF TypeInv
  <2> QED
    BY <1>13, <2>1
<1>15. CASE call.kind = Metadata
  <2>1. MetadataInv(call, Timeout)
    BY <1>2, <1>3, <1>15 DEF CallInv, Elapsed
  <2>2. through \subseteq call.versions /\ call.versions \subseteq Published
    BY <1>9, <2>1 DEF MetadataInv
  <2>3. ASSUME NEW v \in through
        PROVE  Passes(v, p) /\ (~failed => Harmless(v, OsvLag + Timeout))
    <3>1. /\ Passes(v, p)
          /\ v \in call.misses \/ Harmless(v, OsvLag + Timeout)
      BY <1>4, <1>9, <2>1 DEF MetadataInv
    <3>2. ~failed /\ v \in call.misses => Harmless(v, Timeout)
      BY <1>8, <1>9
    <3>3. Harmless(v, Timeout) => Harmless(v, OsvLag + Timeout)
      BY <1>1, <1>12, Longer
    <3> QED
      BY <3>1, <3>2, <3>3
  <2>4. ASSUME NEW v \in call.versions \ through PROVE Stripped(v, p, Timeout)
    <3>1. CASE v \in call.removed
      BY <1>4, <2>1, <3>1 DEF MetadataInv
    <3>2. CASE v \in answer
      <4>1. Suspicious(v, OsvLag + Timeout)
        BY <1>1, <1>8, <1>12, <3>2, Longer
      <4> QED
        BY <4>1 DEF Stripped
    <3> QED
      BY <1>9, <2>4, <3>1, <3>2
  <2>5. decision' = IF call.failed THEN decision ELSE Decided(call, through)
    BY <1>6, <1>11, <1>15
  <2>6. \A v \in through :
          /\ Passes(v, p)
          /\ ~call.failed => Harmless(v, OsvLag + Timeout)
    BY <1>6, <2>3
  <2>7. Replied(r, call, through)
    BY <1>11, <1>15
  <2>8. \A v \in Versions : VerdictInv(v)'
    BY <1>13
  <2>9. \A v \in call.versions \ through : Stripped(v, p, Timeout)
    BY <2>4
  <2> QED
    BY <1>4, <1>10, <1>14, <1>15, <2>2, <2>5, <2>6, <2>7, <2>8, <2>9,
       FilteredInv
<1>16. CASE call.kind # Metadata
  <2>1. /\ call.versions = {call.kind} /\ call.kind \notin p.ranges
        /\ call.removed = {} /\ call.misses = call.versions
        /\ call.waited = 0
    BY <1>2, <1>3, <1>4, <1>16 DEF CallInv, TarballInv
  <2>2. CachesInv'
    <3>1. (decision' # None => decision' \in Decisions) /\ DecisionInv'
      BY <1>1, <1>10, <1>11, <1>16
         DEF IInv, TypeInv, World, DecisionInv, Published, Passes, Harmless,
             Stripped, Suspicious
    <3> QED
      BY <1>13, <1>14, <3>1 DEF CachesInv
  <2>3. ~call.failed => \A v \in through : Harmless(v, OsvLag)
    BY <1>1, <1>6, <1>8, <1>9, <1>12, <2>1, Longer
  <2>4. Checked(r, call, through)
    BY <1>11, <1>16
  <2>5. through \subseteq call.versions
    BY <1>9
  <2> QED
    BY <1>4, <1>10, <1>16, <2>1, <2>2, <2>3, <2>4, <2>5, CheckedInv
<1> QED
  BY <1>15, <1>16

LEMMA NextIInv == IInv /\ [Next]_vars => IInv'
<1> SUFFICES ASSUME IInv, [Next]_vars PROVE IInv'
  OBVIOUS
<1>1. ASSUME NEW p \in Policies, SwapPolicy(p) PROVE IInv'
  <2>1. \E q \in Policies : SwapPolicy(q)
    BY <1>1
  <2> QED
    BY <2>1, OutsideInv
<1>2. ASSUME NEW v \in New, Publish(v) PROVE IInv'
  <2>1. \E w \in Versions : Publish(w) \/ Reassess(w)
    BY <1>2, NamesAssumption
  <2> QED
    BY <2>1, OutsideInv
<1>3. ASSUME NEW v \in Suspects, Reassess(v) PROVE IInv'
  <2>1. \E w \in Versions : Publish(w) \/ Reassess(w)
    BY <1>3, NamesAssumption
  <2> QED
    BY <2>1, OutsideInv
<1>4. ASSUME NEW m \in SUBSET Versions, Answer(m) \/ AnswerDegraded(m)
      PROVE  IInv'
  BY <1>4, AnswersInv
<1>5. ASSUME NEW m \in SUBSET Versions, Arrive(m) \/ LookupFails(m)
      PROVE  IInv'
  BY <1>5, ToldInv
<1>6. ASSUME NEW r \in Requests,
             \/ FilterAll(r) \/ TimesFail(r)
             \/ \E v \in Versions : GuardRefuses(r, v)
      PROVE  IInv'
  BY <1>6, RefusalsInv
<1>7. ASSUME NEW r \in Requests, FilterHit(r) PROVE IInv'
  BY <1>7, FilterHitInv
<1>8. ASSUME NEW r \in Requests, FilterMiss(r) PROVE IInv'
  BY <1>8, FilterMissInv
<1>9. ASSUME NEW r \in Requests, Resume(r) PROVE IInv'
  BY <1>9, ResumeInv
<1>10. ASSUME NEW r \in Requests, TimesArrive(r) PROVE IInv'
  BY <1>10, TimesArriveInv
<1>11. ASSUME NEW r \in Requests, NEW v \in Versions, Guard(r, v) PROVE IInv'
  BY <1>11, GuardInv
<1>12. CASE Tick
  BY <1>12, TickInv
<1>13. CASE UNCHANGED vars
  BY <1>13
     DEF vars, IInv, TypeInv, VerdictInv, Said, Harmless, Suspicious,
         LookupInv, AnswerInv, DecisionInv, Published, Passes, Stripped,
         CallInv, Elapsed, MetadataInv, TarballInv, PolicyObeyed, TooYoung,
         BoundedExposure, NothingStrippedForLong
<1> QED
  BY <1>1, <1>2, <1>3, <1>4, <1>5, <1>6, <1>7, <1>8, <1>9, <1>10, <1>11,
     <1>12, <1>13 DEF Next

-----------------------------------------------------------------------------
(* The theorems *)

\* The inductive invariant: what the caches, the lookups and the calls of
\* index.ts and osv.ts know was so at most as long ago as they are old.
THEOREM Invariance == Spec => []IInv
<1>1. Init => IInv
  BY InitIInv
<1>2. IInv /\ [Next]_vars => IInv'
  BY NextIInv
<1> QED
  BY <1>1, <1>2, PTL DEF Spec

\* Every variable has its type, and a call waits for a lookup that is under
\* way.
THEOREM TypeCorrect == Spec => []TypeOK
<1>1. IInv => TypeOK
  <2> SUFFICES ASSUME IInv PROVE TypeOK
    OBVIOUS
  <2>1. TypeInv /\ DecisionInv
    BY DEF IInv
  <2>2. ASSUME NEW v \in Versions, verdict[v] # None
        PROVE  verdict[v].mal \in BOOLEAN /\ verdict[v].left \in 1..OsvTtl
    <3>1. verdict[v] \in Verdicts
      BY <2>1, <2>2 DEF TypeInv
    <3> QED
      BY <3>1 DEF Verdicts
  <2>3. decision # None => /\ decision.left \in 1..DecisionTtl
                           /\ decision.through \subseteq decision.versions
    BY <2>1 DEF TypeInv, DecisionInv, Decisions
  <2>4. ASSUME NEW m \in SUBSET Versions, lookup[m] # None
        PROVE  m # {} /\ lookup[m] \in Lookups
    BY <2>1, <2>4 DEF TypeInv
  <2>5. ASSUME NEW r \in Requests
        PROVE  /\ req[r].phase \in {"idle", "await", "resume", "times"}
               /\ req[r].waited \in 0..NpmTimeout
               /\ req[r].phase = "await" => lookup[req[r].misses] # None
    <3>1. req[r] \in Calls /\ CallInv(req[r])
      BY <2>1 DEF IInv, TypeInv
    <3> QED
      BY <3>1 DEF Calls, CallInv
  <2> QED
    BY <2>1, <2>2, <2>3, <2>4, <2>5 DEF TypeInv, TypeOK
<1> QED
  BY <1>1, Invariance, PTL

\* filter_metadata and guardTarball let nothing through that the policy of the
\* call's start blocks, whichever cache or await the decision went through.
THEOREM PolicyObeyedHolds == Spec => []PolicyObeyed
<1>1. IInv => PolicyObeyed
  BY DEF IInv
<1> QED
  BY <1>1, Invariance, PTL

\* A malicious version gets through for MetadataExposure or TarballExposure at
\* most, unless this very call's lookup failed.
THEOREM BoundedExposureHolds == Spec => []BoundedExposure
<1>1. IInv => BoundedExposure
  BY DEF IInv
<1> QED
  BY <1>1, Invariance, PTL

\* What filter_metadata strips it has, or had within the same bound, a reason
\* to strip.
THEOREM NothingStrippedForLongHolds == Spec => []NothingStrippedForLong
<1>1. IInv => NothingStrippedForLong
  BY DEF IInv
<1> QED
  BY <1>1, Invariance, PTL
=============================================================================
