-------------------------- MODULE DevpiPolicyProofs --------------------------
(***************************************************************************)
(* DevpiPolicy is type-correct, obeys the configuration and acts on        *)
(* policy-sync's mind and PyPI's files within its bounds, for any number   *)
(* of threads, files and versions, any configurations and any times.       *)
(***************************************************************************)
EXTENDS DevpiPolicy, SequenceTheorems, TLAPS

Phases == {"idle", "fetch", "ask", "touch", "drop", "sweep"}
Calls == [phase : Phases, kind : {"simple", "link", "meta", "direct"},
          config : Configs \cup {None}, items : SUBSET Files,
          allowed : SUBSET Files,
          answer : {None} \cup (SUBSET Files) \cup (SUBSET Versions),
          due : SUBSET (SUBSET Versions),
          failed : SUBSET {"meta", "osv", "error"}, waited : Nat]
Metas == [files : SUBSET Files, left : 1..MetaTtl]

WorldType ==
  /\ age \in [Files -> -1..OldAge]
  /\ mal \subseteq Versions
  /\ held \in [Versions -> 0..Horizon]

\* policy-sync does not hold v malicious, or has done so for n at most.
Harmless(v, n) == v \in mal => held[v] <= n
\* It holds v malicious, or ceased to do so n ago at most.
Suspicious(v, n) == v \in mal \/ held[v] <= n

\* What policy-sync answered n ago at most; if it was degraded it may lack a
\* version.
AnswerInv(answer, asked, ok, n) ==
  /\ \A v \in answer : Suspicious(v, n)
  /\ ok => \A v \in asked \ answer : Harmless(v, n)

\* These were the files n ago at most.
Seen(files, n) == \A f \in Files \ files : age[f] <= n

EntryInv(e) ==
  e.left > 0 =>
    AnswerInv(e.blocked, e.key, TRUE, OsvTimeout + OsvTtl - e.left)

\* What the OSV cache may be.
Kept(s) ==
  /\ s \in Seq(Entries)
  /\ \A i, j \in 1..Len(s) : s[i].key = s[j].key => i = j
  /\ \A i \in 1..Len(s) : EntryInv(s[i])

CachesInv ==
  /\ meta # None => /\ meta \in Metas
                    /\ Seen(meta.files, MetaTimeout + MetaTtl - meta.left)
  /\ Kept(cache)

Passes(f, c) == MatchesFilter(f, c) /\ age[f] >= c.minAge
\* Why f is not let through, whatever policy-sync says: it is forbidden, or it
\* was too young or unknown n ago.
Withheld(f, c, n) ==
  \/ ~MatchesFilter(f, c)
  \/ age[f] <= MetaTimeout + MetaTtl - 1 + n
  \/ c.minAge > 0 /\ age[f] < c.minAge + n

\* A request that awaits policy-sync's answer, n after its filters.
AllowedInv(c, n) ==
  /\ \A f \in c.allowed :
       /\ Passes(f, c.config)
       /\ "meta" \in c.failed => c.config.minAge = 0
  /\ "meta" \notin c.failed =>
       \A f \in c.items \ c.allowed : Withheld(f, c.config, n)

Elapsed(c) == IF c.phase = "sweep" THEN OsvTimeout ELSE c.waited

CallInv(c) ==
  /\ c.kind # "direct" /\ c.allowed \subseteq c.items
  /\ \A f \in c.items : age[f] >= 0
  /\ c.phase # "idle" /\ c.kind # "meta" => c.config \in Configs
  /\ c.waited <= IF c.phase = "fetch" THEN MetaTimeout ELSE OsvTimeout
  /\ c.phase = "fetch" =>
       /\ c.failed = {}
       /\ c.answer # None =>
            c.answer \subseteq Files /\ Seen(c.answer, c.waited)
  /\ c.phase \notin {"idle", "fetch"} =>
       c.kind # "meta" /\ AllowedInv(c, Elapsed(c))
  /\ c.phase \in {"ask", "drop"} /\ c.answer # None =>
         /\ c.answer \subseteq Versions
         /\ AnswerInv(c.answer, Key(c), "osv" \notin c.failed, c.waited)
  /\ c.phase \in {"touch", "sweep"} =>
       /\ c.answer \subseteq Versions
       /\ AnswerInv(c.answer, Key(c), TRUE, OsvLag)

IInv ==
  /\ WorldType /\ thr \in [Threads -> Calls]
  /\ CachesInv
  /\ \A t \in Threads : CallInv(thr[t])
  /\ ConfigObeyed /\ BoundedExposure /\ NothingHiddenForLong

-----------------------------------------------------------------------------
(* Times *)

LEMMA Numbers ==
  /\ OldAge \in Nat /\ MetaTtl \in Nat /\ MetaTtl >= 1
  /\ OsvTtl \in Nat /\ OsvTtl >= 1
  /\ MetaTimeout \in Nat /\ MetaTimeout >= 1
  /\ OsvTimeout \in Nat /\ OsvTimeout >= 1
  /\ MaxEntries \in Nat /\ MaxEntries >= 1
  /\ OsvLag \in Nat /\ OsvLag = OsvTimeout + OsvTtl - 1
  /\ OsvTimeout <= OsvLag /\ Horizon \in Nat
  /\ MetaLag \in Nat /\ MetaLag = MetaTimeout + MetaTtl - 1 + OsvTimeout
BY TimesAssumption DEF OsvLag, MetaLag, Horizon

LEMMA ConfigFields ==
  ASSUME NEW c \in Configs
  PROVE  c.minAge \in Nat /\ c.osv \in BOOLEAN /\ c.all \in BOOLEAN
BY ConfigsAssumption, Numbers

LEMMA VersionsOfFiles ==
  ASSUME NEW files \in SUBSET Files
  PROVE  VersionsOf(files) \in SUBSET Versions
BY FilesAssumption DEF VersionsOf

\* What was so n ago at most was so longer ago at most.
LEMMA Longer ==
  ASSUME WorldType, NEW n \in Int, NEW m \in Int, n <= m
  PROVE  /\ \A v \in Versions :
              /\ Harmless(v, n) => Harmless(v, m)
              /\ Suspicious(v, n) => Suspicious(v, m)
         /\ \A files \in SUBSET Files : Seen(files, n) => Seen(files, m)
<1>1. /\ \A v \in Versions : held[v] \in Int
      /\ \A f \in Files : age[f] \in Int
  BY Numbers DEF WorldType
<1> QED
  BY <1>1 DEF Harmless, Suspicious, Seen

LEMMA LongerAnswer ==
  ASSUME WorldType, NEW n \in Int, NEW m \in Int, n <= m,
         NEW answer \in SUBSET Versions, NEW asked \in SUBSET Versions,
         NEW ok \in BOOLEAN, AnswerInv(answer, asked, ok, n)
  PROVE  AnswerInv(answer, asked, ok, m)
BY Longer DEF AnswerInv

LEMMA LongerAllowed ==
  ASSUME WorldType, NEW n \in Nat, NEW m \in Nat, n <= m,
         NEW c \in Calls, c.config \in Configs, AllowedInv(c, n)
  PROVE  AllowedInv(c, m)
<1>1. /\ c.config.minAge \in Int
      /\ \A f \in c.items : age[f] \in Int
  BY ConfigFields, Numbers DEF Calls, WorldType
<1>2. MetaTimeout \in Int /\ MetaTtl \in Int
  BY Numbers
<1>3. ASSUME NEW f \in c.items, Withheld(f, c.config, n)
      PROVE  Withheld(f, c.config, m)
  BY <1>1, <1>2, <1>3 DEF Withheld
<1> QED
  BY <1>3 DEF AllowedInv

-----------------------------------------------------------------------------
(* The world goes on by d units of time *)

Drift(d) ==
  /\ \A v \in Versions :
       \/ held'[v] = 0
       \/ (v \in mal' <=> v \in mal) /\ held'[v] <= held[v] + d
  /\ \A f \in Files :
       /\ age'[f] >= age[f]
       /\ age'[f] <= age[f] + d \/ age'[f] = 0

LEMMA DriftHolds ==
  ASSUME WorldType, WorldType', NEW d \in {0, 1}, Drift(d),
         NEW v \in Versions, NEW n \in Nat
  PROVE  /\ Harmless(v, n) => Harmless(v, n + d)'
         /\ Suspicious(v, n) => Suspicious(v, n + d)'
<1>1. held[v] \in Nat /\ held'[v] \in Nat
  BY Numbers DEF WorldType
<1>2. \/ held'[v] = 0
      \/ (v \in mal' <=> v \in mal) /\ held'[v] <= held[v] + d
  BY DEF Drift
<1> QED
  BY <1>1, <1>2 DEF Harmless, Suspicious

LEMMA DriftAnswer ==
  ASSUME WorldType, WorldType', NEW d \in {0, 1}, Drift(d), NEW n \in Nat,
         NEW answer \in SUBSET Versions, NEW asked \in SUBSET Versions,
         NEW ok \in BOOLEAN, AnswerInv(answer, asked, ok, n)
  PROVE  AnswerInv(answer, asked, ok, n + d)'
<1>1. ASSUME NEW v \in answer PROVE Suspicious(v, n + d)'
  BY DriftHolds DEF AnswerInv
<1>2. ASSUME ok, NEW v \in asked \ answer PROVE Harmless(v, n + d)'
  BY <1>2, DriftHolds DEF AnswerInv
<1> QED
  BY <1>1, <1>2 DEF AnswerInv

LEMMA DriftSeen ==
  ASSUME WorldType, WorldType', NEW d \in {0, 1}, Drift(d), NEW n \in Nat,
         NEW files \in SUBSET Files, Seen(files, n)
  PROVE  Seen(files, n + d)'
<1> SUFFICES ASSUME NEW f \in Files \ files PROVE age'[f] <= n + d
  BY DEF Seen
<1>1. age[f] \in Int /\ age'[f] \in Int
  BY Numbers DEF WorldType
<1>2. age[f] <= n /\ (age'[f] <= age[f] + d \/ age'[f] = 0)
  BY DEF Seen, Drift
<1> QED
  BY <1>1, <1>2

LEMMA DriftAllowed ==
  ASSUME WorldType, WorldType', NEW d \in {0, 1}, Drift(d), NEW n \in Nat,
         NEW c \in Calls, c.config \in Configs, AllowedInv(c, n)
  PROVE  AllowedInv(c, n + d)'
<1>1. PICK g \in Configs : g = c.config
  OBVIOUS
<1>2. g.minAge \in Nat
  BY ConfigFields
<1>3. /\ c.items \in SUBSET Files /\ c.allowed \in SUBSET Files
      /\ \A f \in Files : /\ age[f] \in Int /\ age'[f] \in Int
                          /\ age[f] >= -1 /\ age'[f] >= age[f]
                          /\ age'[f] <= age[f] + d \/ age'[f] = 0
  BY Numbers DEF Calls, WorldType, Drift
<1>4. ASSUME NEW f \in Files, Passes(f, g) PROVE Passes(f, g)'
  BY <1>2, <1>3, <1>4 DEF Passes
<1>5. ASSUME NEW f \in Files, Withheld(f, g, n) PROVE Withheld(f, g, n + d)'
  <2>1. PICK m \in Nat : m = MetaTimeout + MetaTtl - 1
    BY Numbers
  <2>2. /\ m + (n + d) = MetaTimeout + MetaTtl - 1 + (n + d)
        /\ m + n = MetaTimeout + MetaTtl - 1 + n
    BY <2>1, Numbers
  <2>3. age[f] <= m + n => age'[f] <= m + (n + d)
    BY <1>3, <2>1
  <2>4. age[f] < g.minAge + n =>
          age'[f] < g.minAge + (n + d) \/ age'[f] <= m + (n + d)
    BY <1>2, <1>3, <2>1
  <2> QED
    BY <1>5, <2>2, <2>3, <2>4 DEF Withheld
<1> QED
  BY <1>1, <1>3, <1>4, <1>5 DEF AllowedInv

\* A call and an entry of the OSV cache as time passes.
OlderCall(c, n, d) ==
  /\ n.phase = c.phase /\ n.kind = c.kind /\ n.config = c.config
  /\ n.items = c.items /\ n.allowed = c.allowed /\ n.answer = c.answer
  /\ n.failed = c.failed
  /\ n.waited = IF c.phase \in {"fetch", "ask"} THEN c.waited + d ELSE c.waited
  /\ n.waited <= IF c.phase = "fetch" THEN MetaTimeout ELSE OsvTimeout
  /\ d = 1 => c.phase \in {"idle", "fetch", "ask"}

OlderEntry(e, n, d) ==
  /\ n.key = e.key /\ n.blocked = e.blocked
  /\ n.left > 0 => n.left = e.left - d

LEMMA DriftCall ==
  ASSUME WorldType, WorldType', NEW d \in {0, 1}, Drift(d),
         NEW c \in Calls, NEW n \in Calls, CallInv(c), OlderCall(c, n, d)
  PROVE  CallInv(n)'
<1>1. /\ n.phase = c.phase /\ n.kind = c.kind /\ n.config = c.config
      /\ n.items = c.items /\ n.allowed = c.allowed /\ n.answer = c.answer
      /\ n.failed = c.failed
      /\ n.waited <= IF c.phase = "fetch" THEN MetaTimeout ELSE OsvTimeout
      /\ d = 1 => c.phase \in {"idle", "fetch", "ask"}
  BY DEF OlderCall
<1>2. Key(n) = Key(c) /\ Key(c) \in SUBSET Versions
  BY <1>1, VersionsOfFiles DEF Key, Calls
<1>3. PICK w \in Nat : w = c.waited
  BY DEF Calls
<1>4. n.waited = IF c.phase \in {"fetch", "ask"} THEN w + d ELSE w
  BY <1>3 DEF OlderCall
<1>5. ASSUME n.phase = "fetch", n.answer # None
      PROVE  n.answer \subseteq Files /\ Seen(n.answer, n.waited)'
  <2>1. PICK files \in SUBSET Files : files = n.answer /\ Seen(files, w)
    BY <1>1, <1>3, <1>5 DEF CallInv
  <2>2. Seen(files, w + d)'
    BY <2>1, DriftSeen
  <2>3. n.waited = w + d
    BY <1>1, <1>4, <1>5
  <2> QED
    BY <2>1, <2>2, <2>3
<1>6. ASSUME n.phase \notin {"idle", "fetch"}
      PROVE  n.kind # "meta" /\ AllowedInv(n, Elapsed(n))'
  <2>1. /\ c.kind # "meta" /\ AllowedInv(c, Elapsed(c))
        /\ c.config \in Configs
    BY <1>1, <1>6 DEF CallInv
  <2>2. PICK t \in Nat : t = Elapsed(c)
    BY <1>3, Numbers DEF Elapsed
  <2>3. AllowedInv(c, t + d)'
    BY <2>1, <2>2, DriftAllowed
  <2>4. Elapsed(n) = t + d
    <3>1. CASE c.phase = "ask"
      BY <1>1, <1>3, <1>4, <2>2, <3>1 DEF Elapsed
    <3>2. CASE c.phase # "ask"
      <4>1. d = 0 /\ c.phase \notin {"fetch", "ask"}
        BY <1>1, <1>6, <3>2
      <4> QED
        BY <1>1, <1>3, <1>4, <2>2, <4>1 DEF Elapsed
    <3> QED
      BY <3>1, <3>2
  <2> QED
    BY <1>1, <2>1, <2>3, <2>4 DEF AllowedInv
<1>7. ASSUME n.phase \in {"ask", "drop"}, n.answer # None
      PROVE  /\ n.answer \subseteq Versions
             /\ AnswerInv(n.answer, Key(n), "osv" \notin n.failed, n.waited)'
  <2>1. /\ c.answer \subseteq Versions
        /\ AnswerInv(c.answer, Key(c), "osv" \notin c.failed, c.waited)
    BY <1>1, <1>7 DEF CallInv
  <2>2. PICK ok \in BOOLEAN : ok <=> "osv" \notin c.failed
    OBVIOUS
  <2>3. AnswerInv(c.answer, Key(c), ok, w)
    BY <1>3, <2>1, <2>2 DEF AnswerInv
  <2>4. AnswerInv(c.answer, Key(c), ok, w + d)'
    BY <1>2, <2>1, <2>3, DriftAnswer
  <2>5. n.waited = w + d
    BY <1>1, <1>3, <1>4, <1>7
  <2> QED
    BY <1>1, <1>2, <2>1, <2>2, <2>4, <2>5 DEF AnswerInv
<1>8. ASSUME n.phase \in {"touch", "sweep"}
      PROVE  /\ n.answer \subseteq Versions
             /\ AnswerInv(n.answer, Key(n), TRUE, OsvLag)'
  <2>1. /\ c.answer \subseteq Versions
        /\ AnswerInv(c.answer, Key(c), TRUE, OsvLag)
    BY <1>1, <1>8 DEF CallInv
  <2>2. d = 0
    BY <1>1, <1>8
  <2>3. OsvLag + d = OsvLag /\ OsvLag \in Nat /\ TRUE \in BOOLEAN
    BY <2>2, Numbers
  <2>4. PICK lag \in Nat : lag = OsvLag
    BY Numbers
  <2>5. AnswerInv(c.answer, Key(c), TRUE, lag + d)'
    BY <1>2, <2>1, <2>3, <2>4, DriftAnswer
  <2> QED
    BY <1>1, <1>2, <2>1, <2>3, <2>4, <2>5
<1>9. \A f \in n.items : age'[f] >= 0
  <2>1. \A f \in n.items : /\ age[f] \in Int /\ age'[f] \in Int
                           /\ age[f] >= 0 /\ age'[f] >= age[f]
    BY <1>1, Numbers DEF CallInv, Calls, WorldType, Drift
  <2> QED
    BY <2>1
<1>10. /\ n.kind # "direct" /\ n.allowed \subseteq n.items
       /\ n.phase # "idle" /\ n.kind # "meta" => n.config \in Configs
       /\ n.waited <= IF n.phase = "fetch" THEN MetaTimeout ELSE OsvTimeout
       /\ n.phase = "fetch" => n.failed = {}
  BY <1>1 DEF CallInv
<1> QED
  BY <1>5, <1>6, <1>7, <1>8, <1>9, <1>10 DEF CallInv

LEMMA NoReplyHolds ==
  ASSUME reply' = None
  PROVE  ConfigObeyed' /\ BoundedExposure' /\ NothingHiddenForLong'
BY DEF ConfigObeyed, BoundedExposure, NothingHiddenForLong, Decided, Answered

LEMMA DriftEntry ==
  ASSUME WorldType, WorldType', NEW d \in {0, 1}, Drift(d),
         NEW e \in Entries, NEW n \in Entries, EntryInv(e),
         OlderEntry(e, n, d)
  PROVE  EntryInv(n)'
<1> SUFFICES ASSUME n.left > 0 PROVE EntryInv(n)'
  BY DEF EntryInv
<1>1. /\ n.key = e.key /\ n.blocked = e.blocked /\ n.left = e.left - d
      /\ e.key \in SUBSET Versions /\ e.blocked \in SUBSET Versions
      /\ e.left \in 0..OsvTtl /\ n.left \in 0..OsvTtl
  BY DEF OlderEntry, Entries
<1>2. e.left > 0
  BY <1>1, Numbers
<1>3. PICK t \in Nat : t = OsvTimeout + OsvTtl - e.left
  BY <1>1, Numbers
<1>4. OsvTimeout + OsvTtl - n.left = t + d
  BY <1>1, <1>3, Numbers
<1>5. AnswerInv(e.blocked, e.key, TRUE, t)
  BY <1>2, <1>3 DEF EntryInv
<1>6. AnswerInv(e.blocked, e.key, TRUE, t + d)'
  BY <1>1, <1>5, DriftAnswer
<1> QED
  BY <1>1, <1>4, <1>6 DEF EntryInv

LEMMA WorldInv ==
  ASSUME IInv, WorldType', thr' \in [Threads -> Calls], reply' = None,
         NEW d \in {0, 1}, Drift(d),
         \A t \in Threads : OlderCall(thr[t], thr'[t], d),
         meta' # None =>
           /\ meta' \in Metas /\ meta # None /\ meta'.files = meta.files
           /\ meta'.left = meta.left - d,
         cache' \in Seq(Entries), Len(cache') = Len(cache),
         \A i \in 1..Len(cache) : OlderEntry(cache[i], cache'[i], d)
  PROVE  IInv'
<1>1. WorldType /\ thr \in [Threads -> Calls] /\ CachesInv
  BY DEF IInv
<1>2. ASSUME NEW t \in Threads PROVE CallInv(thr[t])'
  <2>1. PICK c \in Calls : c = thr[t]
    BY <1>1
  <2>2. PICK n \in Calls : n = thr'[t]
    OBVIOUS
  <2>3. CallInv(c) /\ OlderCall(c, n, d)
    BY <2>1, <2>2 DEF IInv
  <2>4. CallInv(n)'
    BY <1>1, <2>3, DriftCall
  <2> QED
    BY <2>2, <2>4
       DEF CallInv, Elapsed, AllowedInv, AnswerInv, Seen, Key
<1>3. ASSUME meta' # None
      PROVE  Seen(meta.files, MetaTimeout + MetaTtl - meta.left)'
  <2>1. PICK m \in Metas : m = meta
    BY <1>1, <1>3 DEF CachesInv
  <2>2. PICK k \in Metas : k = meta'
    BY <1>3
  <2>3. k.files = m.files /\ k.left = m.left - d /\ m.files \in SUBSET Files
    BY <1>3, <2>1, <2>2 DEF Metas
  <2>4. PICK n \in Nat : n = MetaTimeout + MetaTtl - m.left
    BY Numbers DEF Metas
  <2>5. MetaTimeout + MetaTtl - k.left = n + d
    BY <2>3, <2>4, Numbers DEF Metas
  <2>6. Seen(m.files, n)
    BY <1>1, <1>3, <2>1, <2>4 DEF CachesInv
  <2>7. Seen(m.files, n + d)'
    BY <1>1, <2>3, <2>6, DriftSeen
  <2> QED
    BY <2>2, <2>3, <2>5, <2>7 DEF Seen
<1>4. Kept(cache)'
  <2>1. Kept(cache) /\ cache \in Seq(Entries)
    BY <1>1 DEF CachesInv, Kept
  <2>2. ASSUME NEW i \in 1..Len(cache) PROVE EntryInv(cache[i])'
    <3>1. PICK e \in Entries : e = cache[i] /\ EntryInv(e)
      BY <2>1, ElementOfSeq DEF Kept
    <3>2. PICK n \in Entries : n = cache'[i]
      BY ElementOfSeq
    <3>3. EntryInv(n)'
      BY <1>1, <3>1, <3>2, DriftEntry
    <3> QED
      BY <3>2, <3>3 DEF EntryInv, AnswerInv
  <2>3. \A i \in 1..Len(cache) : cache'[i].key = cache[i].key
    BY DEF OlderEntry
  <2> QED
    BY <2>1, <2>2, <2>3 DEF Kept
<1>5. CachesInv'
  BY <1>3, <1>4 DEF CachesInv
<1> QED
  BY <1>2, <1>5, NoReplyHolds DEF IInv

LEMMA OutsideInv ==
  ASSUME IInv, \/ \E f \in Files : Upload(f)
               \/ \E v \in Versions : Reassess(v)
               \/ /\ UNCHANGED <<age, mal, held, meta, cache, thr>>
                  /\ reply' = None
  PROVE  IInv'
<1>1. /\ WorldType /\ thr \in [Threads -> Calls] /\ CachesInv
      /\ reply' = None /\ UNCHANGED <<meta, cache, thr>>
  BY DEF IInv, Upload, Reassess
<1>2. WorldType' /\ Drift(0)
  <2>1. CASE \E f \in Files : Upload(f)
    <3>1. PICK f \in Files : Upload(f)
      BY <2>1
    <3>2. /\ age[f] = -1 /\ age' = [age EXCEPT ![f] = 0]
          /\ UNCHANGED <<mal, held>>
      BY <3>1 DEF Upload
    <3> QED
      BY <1>1, <3>2, Numbers DEF WorldType, Drift
  <2>2. CASE \E v \in Versions : Reassess(v)
    <3>1. PICK v \in Versions : Reassess(v)
      BY <2>2
    <3>2. /\ mal' = IF v \in mal THEN mal \ {v} ELSE mal \cup {v}
          /\ held' = [held EXCEPT ![v] = 0] /\ age' = age
      BY <3>1 DEF Reassess
    <3>3. WorldType'
      BY <1>1, <3>2, Numbers DEF WorldType
    <3>4. ASSUME NEW w \in Versions
          PROVE  \/ held'[w] = 0
                 \/ (w \in mal' <=> w \in mal) /\ held'[w] <= held[w] + 0
      BY <1>1, <3>2, Numbers DEF WorldType
    <3>5. \A f \in Files : age'[f] >= age[f] /\ age'[f] <= age[f] + 0
      BY <1>1, <3>2, Numbers DEF WorldType
    <3> QED
      BY <3>3, <3>4, <3>5 DEF Drift
  <2>3. CASE UNCHANGED <<age, mal, held>>
    BY <1>1, <2>3, Numbers DEF WorldType, Drift
  <2> QED
    BY <2>1, <2>2, <2>3
<1>3. ASSUME NEW t \in Threads PROVE OlderCall(thr[t], thr'[t], 0)
  <2>1. PICK c \in Calls : c = thr[t] /\ CallInv(c)
    BY <1>1 DEF IInv
  <2>2. /\ c.waited \in Nat
        /\ c.waited <= IF c.phase = "fetch" THEN MetaTimeout ELSE OsvTimeout
    BY <2>1 DEF CallInv, Calls
  <2>3. OlderCall(c, c, 0)
    BY <2>2 DEF OlderCall
  <2> QED
    BY <1>1, <2>1, <2>3
<1>4. meta' # None =>
        /\ meta' \in Metas /\ meta # None /\ meta'.files = meta.files
        /\ meta'.left = meta.left - 0
  <2> SUFFICES ASSUME meta # None
               PROVE  meta \in Metas /\ meta.left = meta.left - 0
    BY <1>1
  <2>1. PICK m \in Metas : m = meta
    BY <1>1 DEF CachesInv
  <2> QED
    BY <2>1, Numbers DEF Metas
<1>5. cache' \in Seq(Entries) /\ Len(cache') = Len(cache)
  BY <1>1 DEF CachesInv, Kept
<1>6. ASSUME NEW i \in 1..Len(cache) PROVE OlderEntry(cache[i], cache'[i], 0)
  <2>1. PICK e \in Entries : e = cache[i]
    BY <1>1, ElementOfSeq DEF CachesInv, Kept
  <2>2. OlderEntry(e, e, 0)
    BY Numbers DEF OlderEntry, Entries
  <2> QED
    BY <1>1, <2>1, <2>2
<1> QED
  BY <1>1, <1>2, <1>3, <1>4, <1>5, <1>6, WorldInv

LEMMA TickInv ==
  ASSUME IInv, Tick
  PROVE  IInv'
<1>1. /\ WorldType /\ thr \in [Threads -> Calls] /\ CachesInv
      /\ reply' = None /\ mal' = mal
  BY DEF IInv, Tick
<1>2. /\ age' \in [Files -> -1..OldAge]
      /\ \A f \in Files : age'[f] >= age[f] /\ age'[f] <= age[f] + 1
  BY <1>1, Numbers DEF WorldType, Tick
<1>3. /\ held' \in [Versions -> 0..Horizon]
      /\ \A v \in Versions : held'[v] <= held[v] + 1
  BY <1>1, Numbers DEF WorldType, Tick
<1>4. WorldType' /\ Drift(1)
  BY <1>1, <1>2, <1>3 DEF WorldType, Drift
<1>5. ASSUME NEW t \in Threads
      PROVE  thr'[t] \in Calls /\ OlderCall(thr[t], thr'[t], 1)
  <2>1. PICK c \in Calls : c = thr[t] /\ CallInv(c)
    BY <1>1 DEF IInv
  <2>2. /\ c.phase \in {"idle", "fetch", "ask"} /\ c.waited \in Nat
        /\ c.waited <= IF c.phase = "fetch" THEN MetaTimeout ELSE OsvTimeout
        /\ c.phase = "fetch" => c.waited < MetaTimeout
        /\ c.phase = "ask" => c.waited < OsvTimeout
    BY <2>1 DEF Tick, Local, Calls, Phases, CallInv
  <2>3. PICK w \in Nat : w = c.waited
    BY <2>2
  <2>4. CASE c.phase \in {"fetch", "ask"}
    <3> DEFINE n == [c EXCEPT !.waited = w + 1]
    <3>1. thr'[t] = n
      BY <2>1, <2>3, <2>4 DEF Tick
    <3>2. /\ n \in Calls /\ n.phase = c.phase /\ n.kind = c.kind
          /\ n.config = c.config /\ n.items = c.items
          /\ n.allowed = c.allowed /\ n.answer = c.answer
          /\ n.failed = c.failed /\ n.waited = w + 1
      BY DEF Calls
    <3> HIDE DEF n
    <3>3. n.waited <= IF c.phase = "fetch" THEN MetaTimeout ELSE OsvTimeout
      BY <2>2, <2>3, <2>4, <3>2, Numbers
    <3>4. OlderCall(c, n, 1)
      BY <2>2, <2>3, <2>4, <3>2, <3>3 DEF OlderCall
    <3> QED
      BY <2>1, <3>1, <3>2, <3>4
  <2>5. CASE c.phase \notin {"fetch", "ask"}
    <3>1. thr'[t] = c
      BY <2>1, <2>5 DEF Tick
    <3>2. OlderCall(c, c, 1)
      BY <2>2, <2>5 DEF OlderCall
    <3> QED
      BY <2>1, <3>1, <3>2
  <2> QED
    BY <2>4, <2>5
<1>6. thr' \in [Threads -> Calls]
  <2>1. thr' = [t \in Threads |-> thr'[t]]
    BY DEF Tick
  <2> QED
    BY <1>5, <2>1
<1>7. meta' # None =>
        /\ meta' \in Metas /\ meta # None /\ meta'.files = meta.files
        /\ meta'.left = meta.left - 1
  <2> SUFFICES ASSUME meta' # None
               PROVE  /\ meta' \in Metas /\ meta # None
                      /\ meta'.files = meta.files
                      /\ meta'.left = meta.left - 1
    OBVIOUS
  <2>1. /\ meta # None /\ meta.left # 1
        /\ meta' = [meta EXCEPT !.left = @ - 1]
    BY DEF Tick
  <2>2. PICK m \in Metas : m = meta
    BY <1>1, <2>1 DEF CachesInv
  <2>3. m.left - 1 \in 1..MetaTtl
    BY <2>1, <2>2, Numbers DEF Metas
  <2>4. meta' = [m EXCEPT !.left = m.left - 1]
    BY <2>1, <2>2
  <2>5. /\ meta' \in Metas /\ meta'.files = m.files
        /\ meta'.left = m.left - 1
    BY <2>3, <2>4 DEF Metas
  <2> QED
    BY <2>1, <2>2, <2>5
<1>8. cache \in Seq(Entries) /\ DOMAIN cache = 1..Len(cache)
        /\ Len(cache) \in Nat
  BY <1>1, LenProperties DEF CachesInv, Kept
<1>9. ASSUME NEW i \in 1..Len(cache)
      PROVE  cache'[i] \in Entries /\ OlderEntry(cache[i], cache'[i], 1)
  <2>1. PICK e \in Entries : e = cache[i]
    BY <1>8, ElementOfSeq
  <2>2. PICK k \in 0..OsvTtl : k = IF e.left = 0 THEN 0 ELSE e.left - 1
    BY Numbers DEF Entries
  <2> DEFINE n == [e EXCEPT !.left = k]
  <2>3. cache'[i] = n
    BY <1>8, <2>1, <2>2 DEF Tick
  <2>4. /\ n \in Entries /\ n.key = e.key /\ n.blocked = e.blocked
        /\ n.left = k
    BY DEF Entries
  <2> HIDE DEF n
  <2>5. n.left > 0 => n.left = e.left - 1
    BY <2>2, <2>4
  <2> QED
    BY <2>1, <2>3, <2>4, <2>5 DEF OlderEntry
<1>10. cache' \in Seq(Entries) /\ Len(cache') = Len(cache)
  <2>1. cache' = [i \in 1..Len(cache) |-> cache'[i]]
    BY <1>8 DEF Tick
  <2>2. cache' \in [1..Len(cache) -> Entries]
    BY <1>9, <2>1
  <2>3. cache' \in Seq(Entries)
    BY <1>8, <2>2, SeqDef
  <2>4. /\ DOMAIN cache' = 1..Len(cache) /\ DOMAIN cache' = 1..Len(cache')
        /\ Len(cache') \in Nat
    BY <2>2, <2>3, LenProperties
  <2> QED
    BY <1>8, <2>3, <2>4
<1>11. \A t \in Threads : OlderCall(thr[t], thr'[t], 1)
  BY <1>5
<1>12. \A i \in 1..Len(cache) : OlderEntry(cache[i], cache'[i], 1)
  BY <1>9
<1> QED
  BY <1>1, <1>4, <1>6, <1>7, <1>10, <1>11, <1>12, WorldInv

-----------------------------------------------------------------------------
(* The OSV cache *)

World == <<age, mal, held>>

LEMMA CachesKept ==
  ASSUME IInv, UNCHANGED <<World, meta, cache>>
  PROVE  CachesInv'
BY DEF IInv, CachesInv, World, Seen, Kept, EntryInv, AnswerInv, Harmless,
       Suspicious

\* What the cache becomes, if it is still fit, and the metadata stay.
LEMMA CacheBecomes ==
  ASSUME IInv, UNCHANGED <<World, meta>>, NEW s, Kept(s), cache' = s
  PROVE  CachesInv'
<1>1. Kept(s)'
  BY DEF World, Kept, EntryInv, AnswerInv, Harmless, Suspicious
<1>2. meta' # None =>
        /\ meta' \in Metas
        /\ Seen(meta.files, MetaTimeout + MetaTtl - meta.left)'
  BY DEF IInv, CachesInv, World, Seen
<1>3. Kept(cache)'
  BY <1>1 DEF Kept, EntryInv, AnswerInv
<1> QED
  BY <1>2, <1>3 DEF CachesInv

\* What is left of the cache without one of its entries.
LEMMA WithoutOne ==
  ASSUME IInv, NEW key \in Keys
  PROVE  \E i \in 1..Len(cache) :
           /\ cache[i].key = key
           /\ Without(key) \in Seq(Entries)
           /\ Len(Without(key)) = Len(cache) - 1
           /\ \A j \in 1..(Len(cache) - 1) :
                Without(key)[j] = IF j <= i - 1 THEN cache[j] ELSE cache[j + 1]
<1>0. /\ cache \in Seq(Entries) /\ Len(cache) \in Nat
      /\ DOMAIN cache = 1..Len(cache)
      /\ \A i \in 1..Len(cache) : cache[i] \in Entries
  BY LenProperties, ElementOfSeq DEF IInv, CachesInv, Kept
<1>1. PICK i \in 1..Len(cache) : i = Position(key) /\ cache[i].key = key
  BY <1>0 DEF Keys, Position
<1> DEFINE a == SubSeq(cache, 1, i - 1)
           b == SubSeq(cache, i + 1, Len(cache))
           s == a \o b
<1>2. Without(key) = s
  BY <1>1 DEF Without, RemoveAt
<1>3. /\ a \in Seq(Entries) /\ Len(a) = i - 1
      /\ \A j \in 1..(i - 1) : a[j] = cache[j]
  <2>1. /\ 1 \in Int /\ i - 1 \in Int
        /\ \A j \in 1..(i - 1) : cache[j] \in Entries
    BY <1>0
  <2>2. /\ a \in Seq(Entries)
        /\ Len(a) = IF 1 <= i - 1 THEN i - 1 - 1 + 1 ELSE 0
        /\ \A j \in 1..(i - 1 - 1 + 1) : a[j] = cache[1 + j - 1]
    BY <2>1, SubSeqProperties
  <2> HIDE DEF a
  <2> QED
    BY <2>2
<1>4. /\ b \in Seq(Entries) /\ Len(b) = Len(cache) - i
      /\ \A j \in 1..(Len(cache) - i) : b[j] = cache[i + j]
  <2>1. /\ i + 1 \in Int /\ Len(cache) \in Int
        /\ \A j \in (i + 1)..Len(cache) : cache[j] \in Entries
    BY <1>0
  <2>2. /\ b \in Seq(Entries)
        /\ Len(b) = IF i + 1 <= Len(cache) THEN Len(cache) - (i + 1) + 1
                    ELSE 0
        /\ \A j \in 1..(Len(cache) - (i + 1) + 1) :
             b[j] = cache[i + 1 + j - 1]
    BY <2>1, SubSeqProperties
  <2> HIDE DEF b
  <2>3. ASSUME NEW j \in 1..(Len(cache) - i) PROVE b[j] = cache[i + j]
    <3>1. PICK n \in Nat : n = Len(cache)
      BY <1>0
    <3>2. j \in 1..(n - (i + 1) + 1) /\ i + 1 + j - 1 = i + j
      BY <3>1
    <3>3. b[j] = cache[i + 1 + j - 1]
      BY <2>2, <3>1, <3>2
    <3> QED
      BY <3>2, <3>3
  <2>4. Len(b) = Len(cache) - i
    <3>1. PICK n \in Nat : n = Len(cache)
      BY <1>0
    <3>2. Len(b) = IF i + 1 <= n THEN n - (i + 1) + 1 ELSE 0
      BY <2>2, <3>1
    <3>3. i \in 1..n
      BY <3>1
    <3> QED
      BY <3>1, <3>2, <3>3
  <2> QED
    BY <2>2, <2>3, <2>4
<1> HIDE DEF a, b
<1>5. /\ s \in Seq(Entries) /\ Len(s) = Len(cache) - 1
      /\ \A j \in 1..(Len(cache) - 1) :
           s[j] = IF j <= i - 1 THEN cache[j] ELSE cache[j + 1]
  <2>1. /\ s \in Seq(Entries) /\ Len(s) = Len(a) + Len(b)
        /\ \A j \in 1..(Len(a) + Len(b)) :
             s[j] = IF j <= Len(a) THEN a[j] ELSE b[j - Len(a)]
    BY <1>3, <1>4, ConcatProperties
  <2>2. Len(a) + Len(b) = Len(cache) - 1
    BY <1>0, <1>3, <1>4
  <2>3. ASSUME NEW j \in 1..(Len(cache) - 1)
        PROVE  s[j] = IF j <= i - 1 THEN cache[j] ELSE cache[j + 1]
    <3>1. CASE j <= i - 1
      BY <1>3, <2>1, <2>2, <3>1
    <3>2. CASE ~(j <= i - 1)
      <4>1. /\ s[j] = b[j - (i - 1)]
            /\ j - (i - 1) \in 1..(Len(cache) - i)
            /\ i + (j - (i - 1)) = j + 1
        BY <1>0, <1>3, <2>1, <2>2, <3>2
      <4> QED
        BY <1>4, <3>2, <4>1
    <3> QED
      BY <3>1, <3>2
  <2> QED
    BY <2>1, <2>2, <2>3
<1> HIDE DEF s
<1> QED
  BY <1>1, <1>2, <1>5

LEMMA WithoutKept ==
  ASSUME IInv, NEW key
  PROVE  /\ Kept(Without(key))
         /\ \A i \in 1..Len(Without(key)) : Without(key)[i].key # key
<1>1. Kept(cache) /\ cache \in Seq(Entries)
  BY DEF IInv, CachesInv, Kept
<1>2. Len(cache) \in Nat /\ DOMAIN cache = 1..Len(cache)
  BY <1>1, LenProperties
<1>3. CASE key \notin Keys
  BY <1>1, <1>2, <1>3 DEF Without, Keys
<1>4. CASE key \in Keys
  <2>1. PICK s : s = Without(key)
    OBVIOUS
  <2>2. PICK i \in 1..Len(cache) :
          /\ cache[i].key = key
          /\ s \in Seq(Entries) /\ Len(s) = Len(cache) - 1
          /\ \A j \in 1..(Len(cache) - 1) :
               s[j] = IF j <= i - 1 THEN cache[j] ELSE cache[j + 1]
    BY <1>4, <2>1, WithoutOne
  <2>3. PICK n \in Nat : n = Len(cache)
    BY <1>2
  <2>4. \A j \in 1..(n - 1) :
          \E k \in 1..n : /\ s[j] = cache[k] /\ k # i
                          /\ k = IF j <= i - 1 THEN j ELSE j + 1
    BY <2>2, <2>3
  <2>5. ASSUME NEW j \in 1..(n - 1) PROVE EntryInv(s[j]) /\ s[j].key # key
    <3>1. PICK k \in 1..n : s[j] = cache[k] /\ k # i
      BY <2>4
    <3> QED
      BY <1>1, <2>2, <2>3, <3>1 DEF Kept
  <2>6. ASSUME NEW j \in 1..(n - 1), NEW l \in 1..(n - 1), s[j].key = s[l].key
        PROVE  j = l
    <3>1. PICK k \in 1..n : /\ s[j] = cache[k]
                            /\ k = IF j <= i - 1 THEN j ELSE j + 1
      BY <2>4
    <3>2. PICK m \in 1..n : /\ s[l] = cache[m]
                            /\ m = IF l <= i - 1 THEN l ELSE l + 1
      BY <2>4
    <3>3. k = m
      BY <1>1, <2>3, <2>6, <3>1, <3>2 DEF Kept
    <3> QED
      BY <3>1, <3>2, <3>3
  <2> QED
    BY <2>1, <2>2, <2>3, <2>5, <2>6 DEF Kept
<1> QED
  BY <1>3, <1>4

LEMMA AppendKept ==
  ASSUME NEW s, Kept(s), NEW e \in Entries, EntryInv(e),
         \A i \in 1..Len(s) : s[i].key # e.key
  PROVE  Kept(Append(s, e))
<1> DEFINE a == Append(s, e)
<1>1. s \in Seq(Entries) /\ Len(s) \in Nat
  BY LenProperties DEF Kept
<1>2. /\ a \in Seq(Entries) /\ Len(a) = Len(s) + 1
      /\ \A i \in 1..Len(s) : a[i] = s[i]
      /\ a[Len(s) + 1] = e
  BY <1>1, AppendProperties
<1> HIDE DEF a
<1>3. \A i \in 1..Len(a) : i \in 1..Len(s) \/ i = Len(s) + 1
  BY <1>1, <1>2
<1>4. \A i \in 1..Len(a) : EntryInv(a[i])
  BY <1>2, <1>3 DEF Kept
<1>5. ASSUME NEW i \in 1..Len(a), NEW j \in 1..Len(a), a[i].key = a[j].key
      PROVE  i = j
  BY <1>2, <1>3, <1>5 DEF Kept
<1>6. Kept(a)
  BY <1>2, <1>4, <1>5 DEF Kept
<1> QED
  BY <1>6 DEF a

LEMMA EvictedKept ==
  ASSUME NEW s, Kept(s)
  PROVE  Kept(Evicted(s))
<1>1. /\ s \in Seq(Entries) /\ Len(s) \in Nat
      /\ \A i \in 1..Len(s) : s[i] \in Entries
  BY LenProperties, ElementOfSeq DEF Kept
<1>2. CASE Len(s) <= MaxEntries
  BY <1>2 DEF Evicted
<1>3. CASE ~(Len(s) <= MaxEntries)
  <2>1. PICK k \in Nat : k = Len(s) - MaxEntries
    BY <1>1, <1>3, Numbers
  <2> DEFINE a == SubSeq(s, 1 + k, Len(s))
  <2>2. Evicted(s) = a
    <3>1. 1 + Len(s) - MaxEntries = 1 + k
      BY <1>1, <2>1, Numbers
    <3> QED
      BY <1>3, <3>1 DEF Evicted
  <2>3. /\ 1 + k \in Int /\ Len(s) \in Int
        /\ \A i \in (1 + k)..Len(s) : s[i] \in Entries
    BY <1>1
  <2>4. /\ a \in Seq(Entries)
        /\ Len(a) = IF 1 + k <= Len(s) THEN Len(s) - (1 + k) + 1 ELSE 0
        /\ \A i \in 1..(Len(s) - (1 + k) + 1) : a[i] = s[1 + k + i - 1]
    BY <2>3, SubSeqProperties
  <2> HIDE DEF a
  <2>5. /\ Len(a) \in Nat
        /\ \A i \in 1..Len(a) : i + k \in 1..Len(s) /\ a[i] = s[i + k]
    BY <1>1, <2>1, <2>4, Numbers
  <2>6. \A i \in 1..Len(a) : EntryInv(a[i])
    BY <2>5 DEF Kept
  <2>7. ASSUME NEW i \in 1..Len(a), NEW j \in 1..Len(a), a[i].key = a[j].key
        PROVE  i = j
    <3>1. i + k = j + k
      BY <2>5, <2>7 DEF Kept
    <3> QED
      BY <3>1
  <2> QED
    BY <2>2, <2>4, <2>6, <2>7 DEF Kept
<1> QED
  BY <1>2, <1>3

-----------------------------------------------------------------------------
(* Steps of a request *)

\* A thread moves, the others stay.
LEMMA MoveInv ==
  ASSUME IInv, UNCHANGED World, CachesInv', NEW t \in Threads,
         NEW n \in Calls, CallInv(n), thr' = [thr EXCEPT ![t] = n],
         ConfigObeyed', BoundedExposure', NothingHiddenForLong'
  PROVE  IInv'
<1>1. WorldType /\ thr \in [Threads -> Calls]
  BY DEF IInv
<1>2. /\ thr' \in [Threads -> Calls] /\ thr'[t] = n
      /\ \A u \in Threads \ {t} : thr'[u] = thr[u]
  BY <1>1
<1>3. ASSUME NEW u \in Threads PROVE CallInv(thr[u])'
  <2>1. PICK c \in Calls : c = thr'[u] /\ CallInv(c)
    BY <1>1, <1>2 DEF IInv
  <2>2. CallInv(c)'
    BY <2>1 DEF CallInv, World, Elapsed, AllowedInv, AnswerInv, Seen, Passes,
                Withheld, Harmless, Suspicious
  <2> QED
    BY <2>1, <2>2
       DEF CallInv, Elapsed, AllowedInv, AnswerInv, Seen, Key
<1>4. WorldType'
  BY <1>1 DEF WorldType, World
<1> QED
  BY <1>2, <1>3, <1>4 DEF IInv

LEMMA ContinueInv ==
  ASSUME IInv, UNCHANGED World, CachesInv', NEW t \in Threads,
         NEW call \in Calls, NEW phase \in Phases,
         NEW n \in Calls, n = [call EXCEPT !.phase = phase], CallInv(n),
         Continue(t, call, phase)
  PROVE  IInv'
<1>1. thr' = [thr EXCEPT ![t] = n] /\ reply' = None
  BY DEF Continue
<1> QED
  BY <1>1, MoveInv, NoReplyHolds

LEMMA IdleCall == Idle \in Calls /\ CallInv(Idle)
<1>1. Idle \in Calls
  BY DEF Idle, Calls, Phases
<1>2. /\ Idle.phase = "idle" /\ Idle.kind = "simple" /\ Idle.allowed = {}
      /\ Idle.items = {} /\ Idle.waited = 0
  BY DEF Idle
<1> QED
  BY <1>1, <1>2, Numbers DEF CallInv

\* What an answer may be.
Well(call, through) ==
  LET c == call.config IN
  /\ call.kind \notin {"meta", "direct"} /\ ~NoOpinion(c) =>
       \A f \in through :
         Passes(f, c) /\ ("meta" \in call.failed => c.minAge = 0)
  /\ call.kind # "meta" /\ "osv" \notin call.failed /\ c.osv =>
       \A f \in through : Harmless(VersionOf[f], OsvLag)
  /\ "meta" \notin call.failed =>
       \A f \in call.items \ through :
         \/ call.kind # "meta" /\ ~MatchesFilter(f, c)
         \/ age[f] <= MetaLag
         \/ c.minAge > 0 /\ age[f] < c.minAge + OsvTimeout
         \/ Suspicious(VersionOf[f], OsvLag)

LEMMA RepliedInv ==
  ASSUME IInv, UNCHANGED World, CachesInv', NEW t \in Threads,
         NEW call \in Calls, NEW through \in SUBSET Files,
         "error" \in call.failed \/ Well(call, through),
         Replied(t, call, through)
  PROVE  IInv'
<1>1. /\ thr' = [thr EXCEPT ![t] = Idle]
      /\ reply'.kind = call.kind /\ reply'.config = call.config
      /\ reply'.items = call.items /\ reply'.through = through
      /\ reply'.failed = call.failed
  BY DEF Replied
<1>2. CASE "error" \in call.failed
  BY <1>1, <1>2, MoveInv, IdleCall
     DEF ConfigObeyed, BoundedExposure, NothingHiddenForLong, Decided, Answered
<1>3. CASE Well(call, through)
  <2>1. ConfigObeyed'
    BY <1>1, <1>3 DEF ConfigObeyed, Decided, Through, Well, World, Passes
  <2>2. BoundedExposure'
    BY <1>1, <1>3 DEF BoundedExposure, Decided, Through, Well, World, Harmless
  <2>3. NothingHiddenForLong'
    BY <1>1, <1>3
       DEF NothingHiddenForLong, Through, Well, World, Suspicious
  <2> QED
    BY <1>1, <2>1, <2>2, <2>3, MoveInv, IdleCall
<1> QED
  BY <1>2, <1>3

\* A request whose filters have let some files through, some time ago.
Filtered(call, n) ==
  /\ call.kind \notin {"meta", "direct"} /\ call.config \in Configs
  /\ call.allowed \subseteq call.items /\ \A f \in call.items : age[f] >= 0
  /\ AllowedInv(call, n)

LEMMA FilteredWell ==
  ASSUME IInv, NEW call \in Calls, NEW n \in Nat, n <= OsvTimeout,
         Filtered(call, n), NEW through \in SUBSET Files,
         through \subseteq call.allowed,
         "osv" \notin call.failed /\ call.config.osv =>
           \A f \in through : Harmless(VersionOf[f], OsvLag),
         \A f \in call.allowed \ through : Suspicious(VersionOf[f], OsvLag)
  PROVE  Well(call, through)
<1>1. PICK c \in Configs : c = call.config
  BY DEF Filtered
<1>2. c.minAge \in Nat
  BY ConfigFields
<1>3. ASSUME "meta" \notin call.failed, NEW f \in call.items \ through
      PROVE  \/ ~MatchesFilter(f, c)
             \/ age[f] <= MetaLag
             \/ c.minAge > 0 /\ age[f] < c.minAge + OsvTimeout
             \/ Suspicious(VersionOf[f], OsvLag)
  <2>1. CASE f \notin call.allowed
    <3>1. Withheld(f, c, n)
      BY <1>1, <1>3, <2>1 DEF Filtered, AllowedInv
    <3>2. age[f] \in Int
      BY Numbers DEF IInv, WorldType, Calls
    <3>3. age[f] <= MetaTimeout + MetaTtl - 1 + n => age[f] <= MetaLag
      BY <3>2, Numbers
    <3>4. age[f] < c.minAge + n => age[f] < c.minAge + OsvTimeout
      BY <1>2, <3>2, Numbers
    <3> QED
      BY <3>1, <3>3, <3>4 DEF Withheld
  <2>2. CASE f \in call.allowed
    BY <1>3, <2>2
  <2> QED
    BY <2>1, <2>2
<1>4. \A f \in through :
        Passes(f, c) /\ ("meta" \in call.failed => c.minAge = 0)
  BY <1>1 DEF Filtered, AllowedInv
<1> QED
  BY <1>1, <1>3, <1>4 DEF Well, Filtered

LEMMA UnblockedWell ==
  ASSUME IInv, NEW call \in Calls, NEW n \in Nat, n <= OsvTimeout,
         Filtered(call, n), NEW answer \in SUBSET Versions,
         AnswerInv(answer, Key(call), "osv" \notin call.failed, OsvLag)
  PROVE  Well(call, Unblocked(call, answer))
<1>1. PICK through \in SUBSET Files : through = Unblocked(call, answer)
  BY DEF Unblocked, Calls
<1>2. \A f \in through : /\ f \in call.allowed
                         /\ VersionOf[f] \notin answer
  BY <1>1 DEF Unblocked
<1>3. \A f \in call.allowed \ through : VersionOf[f] \in answer
  BY <1>1 DEF Unblocked
<1>4. \A f \in call.allowed \ through : Suspicious(VersionOf[f], OsvLag)
  BY <1>3 DEF AnswerInv
<1>5. ASSUME "osv" \notin call.failed, NEW f \in through
      PROVE  Harmless(VersionOf[f], OsvLag)
  <2>1. MatchesFilter(f, call.config)
    BY <1>2 DEF Filtered, AllowedInv, Passes
  <2>2. VersionOf[f] \in Key(call) \ answer
    BY <1>2, <2>1 DEF Key, VersionsOf, MatchesFilter
  <2> QED
    BY <1>5, <2>2 DEF AnswerInv
<1>6. Well(call, through)
  BY <1>2, <1>4, <1>5, FilteredWell
<1> QED
  BY <1>1, <1>6

LEMMA WaitingCall ==
  ASSUME NEW c \in Calls, c.phase \in {"ask", "drop"}, c.answer = None,
         c.waited <= OsvTimeout, Filtered(c, c.waited)
  PROVE  CallInv(c)
<1>1. AllowedInv(c, Elapsed(c))
  BY DEF Filtered, Elapsed
<1>2. /\ c.kind # "direct" /\ c.allowed \subseteq c.items
      /\ c.kind # "meta" /\ c.config \in Configs
      /\ \A f \in c.items : age[f] >= 0
  BY DEF Filtered
<1>3. c.phase \notin {"idle", "fetch", "touch", "sweep"}
  OBVIOUS
<1> QED
  BY <1>1, <1>2, <1>3 DEF CallInv

LEMMA AnsweredCall ==
  ASSUME NEW c \in Calls, c.phase \in {"touch", "sweep"},
         c.waited <= OsvTimeout, Filtered(c, Elapsed(c)),
         c.answer \subseteq Versions,
         AnswerInv(c.answer, Key(c), TRUE, OsvLag)
  PROVE  CallInv(c)
<1>1. /\ c.kind # "direct" /\ c.allowed \subseteq c.items
      /\ c.kind # "meta" /\ c.config \in Configs
      /\ \A f \in c.items : age[f] >= 0
      /\ AllowedInv(c, Elapsed(c))
  BY DEF Filtered
<1>2. c.phase \notin {"idle", "fetch", "ask", "drop"}
  OBVIOUS
<1> QED
  BY <1>1, <1>2 DEF CallInv

LEMMA EntryHolds ==
  ASSUME IInv, NEW key \in Keys
  PROVE  \E e \in Entries : e = Entry(key) /\ e.key = key /\ EntryInv(e)
<1>1. Kept(cache) /\ cache \in Seq(Entries) /\ DOMAIN cache = 1..Len(cache)
  BY LenProperties DEF IInv, CachesInv, Kept
<1>2. PICK i \in 1..Len(cache) : i = Position(key) /\ cache[i].key = key
  BY <1>1 DEF Keys, Position
<1>3. PICK e \in Entries : e = cache[i]
  BY <1>1, ElementOfSeq
<1> QED
  BY <1>1, <1>2, <1>3 DEF Entry, Kept

\* The lookup in the OSV cache.
LEMMA LookupInv ==
  ASSUME IInv, UNCHANGED World, CachesInv', NEW t \in Threads,
         NEW call \in Calls, Filtered(call, 0), call.waited = 0,
         call.answer = None, Lookup(t, call)
  PROVE  IInv'
<1>1. ASSUME NEW phase \in {"ask", "drop"}, Continue(t, call, phase)
      PROVE  IInv'
  <2> DEFINE n == [call EXCEPT !.phase = phase]
  <2>1. /\ n \in Calls /\ n.phase = phase /\ n.kind = call.kind
        /\ n.config = call.config /\ n.items = call.items
        /\ n.allowed = call.allowed /\ n.answer = None
        /\ n.failed = call.failed /\ n.waited = 0
    BY DEF Calls, Phases
  <2> HIDE DEF n
  <2>2. PICK c \in Calls : c = n
    BY <2>1
  <2>3. Filtered(c, c.waited)
    BY <2>1, <2>2 DEF Filtered, AllowedInv
  <2>4. CallInv(c)
    <3>1. c.waited <= OsvTimeout
      BY <2>1, <2>2, Numbers
    <3> QED
      BY <2>1, <2>2, <2>3, <3>1, WaitingCall
  <2>5. c = [call EXCEPT !.phase = phase] /\ phase \in Phases
    BY <2>2 DEF n, Phases
  <2> QED
    BY <1>1, <2>4, <2>5, ContinueInv
<1>2. CASE Key(call) \notin Keys
  BY <1>1, <1>2 DEF Lookup
<1>3. CASE Key(call) \in Keys
  <2>1. PICK e \in Entries :
          e = Entry(Key(call)) /\ e.key = Key(call) /\ EntryInv(e)
    BY <1>3, EntryHolds
  <2>2. CASE Fresh(e)
    <3>1. /\ e.left \in 1..OsvTtl /\ e.blocked \in SUBSET Versions
          /\ e.key \in SUBSET Versions /\ TRUE \in BOOLEAN
      BY <2>2, Numbers DEF Fresh, Entries
    <3>2. PICK k \in Nat : k = OsvTimeout + OsvTtl - e.left
      BY <3>1, Numbers
    <3>3. k <= OsvLag /\ k \in Int /\ OsvLag \in Int
      BY <3>1, <3>2, Numbers
    <3>4. AnswerInv(e.blocked, Key(call), TRUE, OsvLag)
      <4>1. AnswerInv(e.blocked, e.key, TRUE, k)
        BY <2>1, <2>2, <3>2 DEF EntryInv, Fresh
      <4>2. WorldType
        BY DEF IInv
      <4> QED
        BY <2>1, <3>1, <3>3, <4>1, <4>2, LongerAnswer
    <3> DEFINE m == [call EXCEPT !.answer = e.blocked]
               n == [m EXCEPT !.phase = "touch"]
    <3>5. m \in Calls
      BY <3>1 DEF Calls
    <3>6. /\ n \in Calls /\ n.phase = "touch" /\ n.kind = call.kind
          /\ n.config = call.config /\ n.items = call.items
          /\ n.allowed = call.allowed /\ n.answer = e.blocked
          /\ n.failed = call.failed /\ n.waited = 0
      BY <3>1 DEF Calls, Phases
    <3>7. Continue(t, m, "touch")
      BY <1>3, <2>1, <2>2 DEF Lookup
    <3>8. n = [m EXCEPT !.phase = "touch"]
      OBVIOUS
    <3> HIDE DEF m, n
    <3>9. PICK c \in Calls : c = n
      BY <3>6
    <3>10. Key(c) = Key(call)
      BY <3>6, <3>9 DEF Key
    <3>11. Filtered(c, Elapsed(c))
      <4>1. Elapsed(c) = 0
        BY <3>6, <3>9 DEF Elapsed
      <4> QED
        BY <3>6, <3>9, <4>1 DEF Filtered, AllowedInv
    <3>12. CallInv(c)
      <4>1. c.waited <= OsvTimeout
        BY <3>6, <3>9, Numbers
      <4> QED
        BY <3>1, <3>4, <3>6, <3>9, <3>10, <3>11, <4>1, AnsweredCall
    <3>13. "touch" \in Phases
      BY DEF Phases
    <3> QED
      BY <3>5, <3>7, <3>8, <3>9, <3>12, <3>13, ContinueInv
  <2>3. CASE ~Fresh(e)
    BY <1>1, <1>3, <2>1, <2>3 DEF Lookup
  <2> QED
    BY <2>2, <2>3
<1> QED
  BY <1>2, <1>3

\* The metadata are there, were asked for in vain, or are not needed.
LEMMA DecideInv ==
  ASSUME IInv, UNCHANGED World, CachesInv', NEW t \in Threads,
         NEW call \in Calls, call.kind # "direct", call.answer = None,
         call.kind # "meta" => call.config \in Configs,
         \A f \in call.items : age[f] >= 0,
         "osv" \notin call.failed, NEW known \in SUBSET Files,
         "meta" \in call.failed => known = {},
         "meta" \notin call.failed
           /\ (call.kind = "meta" \/ call.config.minAge > 0) =>
           Seen(known, MetaTimeout + MetaTtl - 1),
         Decide(t, call, known)
  PROVE  IInv'
<1>1. CASE call.kind = "meta"
  <2>1. ASSUME "meta" \notin call.failed, NEW f \in call.items \ known
        PROVE  age[f] <= MetaLag
    <3>1. age[f] <= MetaTimeout + MetaTtl - 1 /\ age[f] \in Int
      BY <1>1, <2>1, Numbers DEF Seen, Calls, IInv, WorldType
    <3> QED
      BY <3>1, Numbers
  <2>2. Well(call, known)
    BY <1>1, <2>1 DEF Well
  <2>3. Replied(t, call, known)
    BY <1>1 DEF Decide
  <2> QED
    BY <2>2, <2>3, RepliedInv
<1>2. CASE call.kind # "meta"
  <2>1. PICK c \in Configs : c = call.config
    BY <1>2
  <2>2. c.minAge \in Nat
    BY ConfigFields
  <2>3. PICK allowed \in SUBSET Files :
          allowed = {f \in call.items :
                       /\ MatchesFilter(f, c)
                       /\ c.minAge = 0 \/ OldEnough(f, known, c)}
    BY DEF Calls
  <2> DEFINE n == [call EXCEPT !.waited = 0, !.allowed = allowed]
  <2>4. /\ n \in Calls /\ n.kind = call.kind /\ n.config = c
        /\ n.items = call.items /\ n.allowed = allowed /\ n.answer = None
        /\ n.failed = call.failed /\ n.waited = 0
    BY <2>1 DEF Calls
  <2>5. IF allowed = {} \/ ~c.osv THEN Replied(t, n, allowed)
        ELSE Lookup(t, n)
    BY <1>2, <2>1, <2>3, <2>4 DEF Decide
  <2> HIDE DEF n
  <2>6. PICK m \in Calls : m = n
    BY <2>4
  <2>7. ASSUME NEW f \in allowed
        PROVE  Passes(f, c) /\ ("meta" \in call.failed => c.minAge = 0)
    <3>1. /\ MatchesFilter(f, c) /\ f \in call.items
          /\ c.minAge = 0 \/ (f \in known /\ age[f] >= c.minAge)
      BY <2>3 DEF OldEnough
    <3> QED
      BY <3>1 DEF Passes
  <2>8. ASSUME "meta" \notin call.failed, NEW f \in call.items \ allowed
        PROVE  Withheld(f, c, 0)
    <3>1. /\ age[f] \in Int /\ MetaTimeout + MetaTtl - 1 \in Int
          /\ f \in Files
      BY Numbers DEF IInv, WorldType, Calls
    <3>2. CASE ~MatchesFilter(f, c)
      BY <3>2 DEF Withheld
    <3>3. CASE c.minAge > 0 /\ f \notin known
      BY <2>1, <2>8, <3>1, <3>3 DEF Seen, Withheld
    <3>4. CASE c.minAge > 0 /\ ~(age[f] >= c.minAge)
      BY <2>2, <3>1, <3>4 DEF Withheld
    <3> QED
      BY <2>2, <2>3, <2>8, <3>2, <3>3, <3>4 DEF OldEnough
  <2>9. Filtered(m, 0)
    <3>1. allowed \subseteq call.items
      BY <2>3
    <3>2. AllowedInv(m, 0)
      BY <2>4, <2>6, <2>7, <2>8 DEF AllowedInv
    <3> QED
      BY <1>2, <2>1, <2>4, <2>6, <3>1, <3>2 DEF Filtered
  <2>10. CASE (allowed = {} \/ ~c.osv) /\ Replied(t, m, allowed)
    <3>1. 0 \in Nat /\ 0 <= OsvTimeout
      BY Numbers
    <3>2. m.allowed = allowed /\ m.config = c
      BY <2>4, <2>6
    <3>3. Well(m, allowed)
      BY <2>9, <2>10, <3>1, <3>2, FilteredWell
    <3> QED
      BY <2>10, <3>3, RepliedInv
  <2>11. CASE Lookup(t, m)
    BY <2>4, <2>6, <2>9, <2>11, LookupInv
  <2> QED
    BY <2>5, <2>6, <2>10, <2>11
<1> QED
  BY <1>1, <1>2

LEMMA BreaksInv ==
  ASSUME IInv, UNCHANGED World, CachesInv', NEW t \in Threads,
         NEW call \in Calls, Breaks(t, call)
  PROVE  IInv'
<1> DEFINE n == [call EXCEPT !.failed = @ \cup {"error"}]
<1>1. n \in Calls /\ "error" \in n.failed
  BY DEF Calls
<1>2. Replied(t, n, {}) /\ {} \in SUBSET Files
  BY DEF Breaks
<1> HIDE DEF n
<1> QED
  BY <1>1, <1>2, RepliedInv

-----------------------------------------------------------------------------
(* A request begins, and reads the metadata *)

\* A call as it begins.
Begun(call) ==
  /\ call.kind # "direct"
  /\ call.kind # "meta" => call.config \in Configs
  /\ \A f \in call.items : age[f] >= 0
  /\ call.allowed = {} /\ call.answer = None /\ call.failed = {}
  /\ call.waited = 0

LEMMA WithMetadataInv ==
  ASSUME IInv, UNCHANGED <<World, meta, cache>>, NEW t \in Threads,
         NEW call \in Calls, Begun(call), WithMetadata(t, call)
  PROVE  IInv'
<1>1. CachesInv'
  BY CachesKept
<1>2. CASE meta # None
  <2>1. PICK m \in Metas : m = meta
    BY <1>2 DEF IInv, CachesInv
  <2>2. Seen(m.files, MetaTimeout + MetaTtl - m.left)
    BY <1>2, <2>1 DEF IInv, CachesInv
  <2>3. PICK k \in Int : k = MetaTimeout + MetaTtl - m.left
    BY Numbers DEF Metas
  <2>4. /\ k <= MetaTimeout + MetaTtl - 1
        /\ MetaTimeout + MetaTtl - 1 \in Int
    BY <2>3, Numbers DEF Metas
  <2>5. WorldType /\ m.files \in SUBSET Files
    BY DEF IInv, Metas
  <2>6. PICK known \in SUBSET Files : known = m.files
    BY <2>5
  <2>7. Seen(known, MetaTimeout + MetaTtl - 1)
    BY <2>2, <2>3, <2>4, <2>5, <2>6, Longer
  <2>8. Decide(t, call, known)
    BY <1>2, <2>1, <2>6 DEF WithMetadata
  <2> QED
    BY <1>1, <2>7, <2>8, DecideInv DEF Begun
<1>3. CASE meta = None
  <2> DEFINE n == [call EXCEPT !.phase = "fetch"]
  <2>1. /\ n \in Calls /\ n.phase = "fetch" /\ n.kind = call.kind
        /\ n.config = call.config /\ n.items = call.items
        /\ n.allowed = call.allowed /\ n.answer = call.answer
        /\ n.failed = call.failed /\ n.waited = call.waited
    BY DEF Calls, Phases
  <2>2. PICK c \in Calls : c = [call EXCEPT !.phase = "fetch"] /\ c = n
    BY <2>1
  <2> HIDE DEF n
  <2>3. CallInv(c)
    BY <2>1, <2>2, Numbers DEF CallInv, Begun
  <2>4. Continue(t, call, "fetch") /\ "fetch" \in Phases
    BY <1>3 DEF WithMetadata, Phases
  <2> QED
    BY <1>1, <2>2, <2>3, <2>4, ContinueInv
<1> QED
  BY <1>2, <1>3

LEMMA BeginInv ==
  ASSUME IInv, NEW t \in Threads, NEW kind \in {"simple", "link"},
         NEW items \in SUBSET Uploaded, NEW c \in Configs,
         Begin(t, kind, items, c)
  PROVE  IInv'
<1>1. PICK i \in Calls : i = Idle
  BY IdleCall
<1> DEFINE n == [i EXCEPT !.kind = kind, !.items = items, !.config = c]
<1>2. items \in SUBSET Files /\ \A f \in items : age[f] >= 0
  BY DEF Uploaded
<1>3. /\ i.allowed = {} /\ i.answer = None /\ i.failed = {} /\ i.waited = 0
      /\ i.phase = "idle"
  BY <1>1 DEF Idle
<1>4. /\ n \in Calls /\ n.kind = kind /\ n.config = c /\ n.items = items
      /\ n.allowed = {} /\ n.answer = None /\ n.failed = {} /\ n.waited = 0
  BY <1>2, <1>3 DEF Calls
<1>5. n = [Idle EXCEPT !.kind = kind, !.items = items, !.config = c]
  BY <1>1
<1> HIDE DEF n
<1>6. PICK call \in Calls : call = n
  BY <1>4
<1>7. /\ \/ NoOpinion(c) /\ Replied(t, call, items)
         \/ ~NoOpinion(c) /\ DeniedAtOnce(call) /\ Replied(t, call, {})
         \/ c.minAge = 0 /\ Decide(t, call, {})
         \/ WithMetadata(t, call)
      /\ UNCHANGED <<World, meta, cache>>
  BY <1>5, <1>6 DEF Begin, World
<1>8. Begun(call)
  BY <1>2, <1>4, <1>6 DEF Begun
<1>9. CachesInv'
  BY <1>7, CachesKept
<1>10. c.minAge \in Nat /\ c.osv \in BOOLEAN /\ c.all \in BOOLEAN
  BY ConfigFields
<1>11. call.config = c /\ call.items = items /\ call.kind = kind
  BY <1>4, <1>6
<1>12. CASE NoOpinion(c) /\ Replied(t, call, items)
  <2>1. Well(call, items)
    BY <1>10, <1>11, <1>12 DEF Well, NoOpinion, HasFilePolicy
  <2> QED
    BY <1>2, <1>7, <1>9, <1>12, <2>1, RepliedInv
<1>13. CASE DeniedAtOnce(call) /\ Replied(t, call, {})
  <2>1. \A f \in items : ~MatchesFilter(f, c)
    BY <1>10, <1>11, <1>13 DEF DeniedAtOnce, MatchesFilter
  <2>2. Well(call, {})
    BY <1>11, <2>1 DEF Well
  <2>3. {} \in SUBSET Files
    OBVIOUS
  <2> QED
    BY <1>7, <1>9, <1>13, <2>2, <2>3, RepliedInv
<1>14. CASE c.minAge = 0 /\ Decide(t, call, {})
  <2>1. {} \in SUBSET Files /\ ~(call.config.minAge > 0)
    BY <1>11, <1>14
  <2>2. call.failed = {} /\ call.answer = None /\ call.kind # "meta"
    BY <1>4, <1>6
  <2> QED
    BY <1>7, <1>8, <1>9, <1>14, <2>1, <2>2, DecideInv DEF Begun
<1>15. CASE WithMetadata(t, call)
  BY <1>7, <1>8, <1>15, WithMetadataInv
<1> QED
  BY <1>7, <1>12, <1>13, <1>14, <1>15

LEMMA DirectInv ==
  ASSUME IInv, NEW t \in Threads, NEW f \in Files, NEW c \in Configs,
         DirectFile(t, f, c)
  PROVE  IInv'
<1>1. PICK i \in Calls : i = Idle
  BY IdleCall
<1> DEFINE n == [i EXCEPT !.kind = "direct", !.items = {f}, !.config = c]
<1>2. /\ n \in Calls /\ n.kind = "direct" /\ n.config = c /\ n.items = {f}
  BY DEF Calls
<1>3. n = [Idle EXCEPT !.kind = "direct", !.items = {f}, !.config = c]
  BY <1>1
<1> HIDE DEF n
<1>4. PICK call \in Calls : call = n
  BY <1>2
<1>5. /\ Replied(t, call, {f}) /\ ~c.osv
      /\ UNCHANGED <<World, meta, cache>>
  BY <1>3, <1>4 DEF DirectFile, HasFilePolicy, World
<1>6. Well(call, {f})
  BY <1>2, <1>4, <1>5 DEF Well
<1>7. CachesInv'
  BY <1>5, CachesKept
<1>8. {f} \in SUBSET Files
  OBVIOUS
<1> QED
  BY <1>5, <1>6, <1>7, <1>8, RepliedInv

LEMMA ProjectMetaInv ==
  ASSUME IInv, NEW t \in Threads, ProjectMeta(t)
  PROVE  IInv'
<1>1. PICK i \in Calls : i = Idle
  BY IdleCall
<1>2. PICK items \in SUBSET Files : items = Uploaded
  BY DEF Uploaded
<1> DEFINE n == [i EXCEPT !.kind = "meta", !.items = items]
<1>3. /\ i.allowed = {} /\ i.answer = None /\ i.failed = {} /\ i.waited = 0
  BY <1>1 DEF Idle
<1>4. /\ n \in Calls /\ n.kind = "meta" /\ n.items = items
      /\ n.allowed = {} /\ n.answer = None /\ n.failed = {} /\ n.waited = 0
  BY <1>3 DEF Calls
<1>5. n = [Idle EXCEPT !.kind = "meta", !.items = Uploaded]
  BY <1>1, <1>2
<1> HIDE DEF n
<1>6. PICK call \in Calls : call = n
  BY <1>4
<1>7. WithMetadata(t, call) /\ UNCHANGED <<World, meta, cache>>
  BY <1>5, <1>6 DEF ProjectMeta, World
<1>8. Begun(call)
  BY <1>2, <1>4, <1>6 DEF Begun, Uploaded
<1> QED
  BY <1>7, <1>8, WithMetadataInv

LEMMA PypiAnswersInv ==
  ASSUME IInv, NEW t \in Threads, PypiAnswers(t)
  PROVE  IInv'
<1>1. PICK call \in Calls : /\ call = thr[t] /\ CallInv(call)
                            /\ call.phase = "fetch"
  BY DEF IInv, PypiAnswers
<1>2. PICK files \in SUBSET Files : files = Uploaded
  BY DEF Uploaded
<1> DEFINE n == [call EXCEPT !.answer = files]
<1>3. /\ n \in Calls /\ n.phase = "fetch" /\ n.kind = call.kind
      /\ n.config = call.config /\ n.items = call.items
      /\ n.allowed = call.allowed /\ n.answer = files
      /\ n.failed = call.failed /\ n.waited = call.waited
  BY <1>1 DEF Calls
<1>4. thr' = [thr EXCEPT ![t] = n]
  BY <1>1, <1>2 DEF PypiAnswers
<1> HIDE DEF n
<1>5. PICK c \in Calls : c = n
  BY <1>3
<1>6. Seen(files, c.waited)
  <2>1. \A f \in Files : age[f] \in Int
    BY Numbers DEF IInv, WorldType
  <2>2. c.waited \in Nat
    BY DEF Calls
  <2> QED
    BY <1>2, <2>1, <2>2 DEF Seen, Uploaded
<1>7. CallInv(c)
  BY <1>1, <1>3, <1>5, <1>6 DEF CallInv
<1>8. UNCHANGED <<World, meta, cache>> /\ reply' = None
  BY DEF PypiAnswers, World
<1>9. CachesInv'
  BY <1>8, CachesKept
<1> QED
  BY <1>4, <1>5, <1>7, <1>8, <1>9, MoveInv, NoReplyHolds

\* The answer of PyPI is there, or there is none.
LEMMA MetaInv ==
  ASSUME IInv, NEW t \in Threads, MetaArrives(t) \/ MetaUnavailable(t)
  PROVE  IInv'
<1>1. PICK call \in Calls : /\ call = thr[t] /\ CallInv(call)
                            /\ call.phase = "fetch"
  BY DEF IInv, MetaArrives, MetaUnavailable
<1>2. /\ call.kind # "direct" /\ call.failed = {}
      /\ call.kind # "meta" => call.config \in Configs
      /\ \A f \in call.items : age[f] >= 0
  BY <1>1 DEF CallInv
<1>3. UNCHANGED World
  BY DEF MetaArrives, MetaUnavailable, World
<1>4. CASE MetaArrives(t)
  <2>1. PICK files \in SUBSET Files :
          files = call.answer /\ Seen(files, call.waited)
    BY <1>1, <1>4 DEF CallInv, MetaArrives
  <2> DEFINE n == [call EXCEPT !.answer = None]
  <2>2. /\ n \in Calls /\ n.kind = call.kind /\ n.config = call.config
        /\ n.items = call.items /\ n.answer = None /\ n.failed = {}
    BY <1>2 DEF Calls
  <2>3. /\ Decide(t, n, files) /\ cache' = cache
        /\ meta' = [files |-> files, left |-> MetaTtl]
    BY <1>1, <1>4, <2>1 DEF MetaArrives
  <2> HIDE DEF n
  <2>4. PICK w \in Nat : w = call.waited /\ w <= MetaTimeout
    BY <1>1 DEF Calls, CallInv
  <2>5. /\ w \in Int /\ MetaTimeout \in Int
        /\ w <= MetaTimeout + MetaTtl - 1
        /\ MetaTimeout + MetaTtl - 1 \in Int
        /\ MetaTimeout + MetaTtl - MetaTtl = MetaTimeout
    BY <2>4, Numbers
  <2>6. Seen(files, MetaTimeout) /\ Seen(files, MetaTimeout + MetaTtl - 1)
    BY <2>1, <2>4, <2>5, Longer DEF IInv
  <2>7. CachesInv'
    <3>1. /\ meta' \in Metas /\ meta'.files = files /\ meta'.left = MetaTtl
      BY <2>3, Numbers DEF Metas
    <3>2. Seen(files, MetaTimeout)'
      BY <1>3, <2>6 DEF Seen, World
    <3>3. Kept(cache)'
      BY <1>3, <2>3
         DEF IInv, CachesInv, World, Kept, EntryInv, AnswerInv, Harmless,
             Suspicious
    <3>4. MetaTimeout + MetaTtl - meta'.left = MetaTimeout
      BY <2>5, <3>1
    <3> QED
      BY <3>1, <3>2, <3>3, <3>4 DEF CachesInv, Seen
  <2>8. PICK c \in Calls : c = n
    BY <2>2
  <2> QED
    BY <1>2, <1>3, <2>2, <2>3, <2>6, <2>7, <2>8, DecideInv
<1>5. CASE MetaUnavailable(t)
  <2> DEFINE n == [call EXCEPT !.answer = None, !.failed = {"meta"}]
  <2>1. /\ n \in Calls /\ n.kind = call.kind /\ n.config = call.config
        /\ n.items = call.items /\ n.answer = None /\ n.failed = {"meta"}
    BY DEF Calls
  <2>2. Decide(t, n, {}) /\ UNCHANGED <<World, meta, cache>>
    BY <1>1, <1>3, <1>5 DEF MetaUnavailable
  <2> HIDE DEF n
  <2>3. PICK c \in Calls : c = n
    BY <2>1
  <2>4. CachesInv' /\ {} \in SUBSET Files
    BY <2>2, CachesKept
  <2>5. "osv" \notin c.failed /\ "meta" \in c.failed
    BY <2>1, <2>3
  <2> QED
    BY <1>2, <2>1, <2>2, <2>3, <2>4, <2>5, DecideInv
<1> QED
  BY <1>4, <1>5

-----------------------------------------------------------------------------
(* A request asks policy-sync, or the OSV cache *)

LEMMA AskingCall ==
  ASSUME IInv, NEW t \in Threads, thr[t].phase \notin {"idle", "fetch"}
  PROVE  \E call \in Calls :
           /\ call = thr[t] /\ CallInv(call)
           /\ Elapsed(call) \in Nat /\ Elapsed(call) <= OsvTimeout
           /\ Filtered(call, Elapsed(call))
           /\ Key(call) \in SUBSET Versions
<1>1. PICK call \in Calls : call = thr[t] /\ CallInv(call)
  BY DEF IInv
<1>2. call.phase \notin {"idle", "fetch"} /\ call.waited \in Nat
  BY <1>1 DEF Calls
<1>3. call.waited <= OsvTimeout
  BY <1>1, <1>2 DEF CallInv
<1>4. Elapsed(call) \in Nat /\ Elapsed(call) <= OsvTimeout
  BY <1>2, <1>3, Numbers DEF Elapsed
<1>5. Filtered(call, Elapsed(call))
  BY <1>1, <1>2 DEF CallInv, Filtered
<1>6. Key(call) \in SUBSET Versions
  BY VersionsOfFiles DEF Key, Calls
<1> QED
  BY <1>1, <1>4, <1>5, <1>6

LEMMA TouchInv ==
  ASSUME IInv, NEW t \in Threads, Touch(t)
  PROVE  IInv'
<1>1. thr[t].phase = "touch" /\ UNCHANGED <<World, meta>>
  BY DEF Touch, World
<1>2. PICK call \in Calls :
        /\ call = thr[t] /\ CallInv(call)
        /\ Elapsed(call) \in Nat /\ Elapsed(call) <= OsvTimeout
        /\ Filtered(call, Elapsed(call))
        /\ Key(call) \in SUBSET Versions
  BY <1>1, AskingCall
<1>3. CASE Key(call) \in Keys
  <2>1. /\ cache' = Append(Without(Key(call)), Entry(Key(call)))
        /\ Replied(t, call, Unblocked(call, call.answer))
    BY <1>2, <1>3 DEF Touch
  <2>2. PICK e \in Entries :
          e = Entry(Key(call)) /\ e.key = Key(call) /\ EntryInv(e)
    BY <1>3, EntryHolds
  <2>3. PICK s : s = Without(Key(call))
    OBVIOUS
  <2>4. Kept(s) /\ \A i \in 1..Len(s) : s[i].key # e.key
    BY <2>2, <2>3, WithoutKept
  <2>5. Kept(Append(s, e))
    BY <2>4, <2>2, AppendKept
  <2>6. PICK r : r = Append(s, e) /\ Kept(r) /\ cache' = r
    BY <2>1, <2>2, <2>3, <2>5
  <2>7. CachesInv'
    BY <1>1, <2>6, CacheBecomes
  <2>8. PICK answer \in SUBSET Versions :
          /\ answer = call.answer
          /\ AnswerInv(answer, Key(call), TRUE, OsvLag)
    BY <1>1, <1>2 DEF CallInv
  <2>9. AnswerInv(answer, Key(call), "osv" \notin call.failed, OsvLag)
    BY <2>8 DEF AnswerInv
  <2>10. PICK n \in Nat : n <= OsvTimeout /\ Filtered(call, n)
    BY <1>2
  <2>11. Well(call, Unblocked(call, answer))
    BY <2>9, <2>10, UnblockedWell
  <2>12. PICK through \in SUBSET Files : through = Unblocked(call, answer)
    BY DEF Unblocked, Calls
  <2>13. Replied(t, call, through) /\ Well(call, through)
    BY <2>1, <2>8, <2>11, <2>12
  <2> QED
    BY <1>1, <2>7, <2>13, RepliedInv
<1>4. CASE Key(call) \notin Keys
  <2>1. Breaks(t, call) /\ UNCHANGED <<World, meta, cache>>
    BY <1>1, <1>2, <1>4 DEF Touch
  <2>2. CachesInv'
    BY <2>1, CachesKept
  <2> QED
    BY <1>1, <2>1, <2>2, BreaksInv
<1> QED
  BY <1>3, <1>4

LEMMA DropInv ==
  ASSUME IInv, NEW t \in Threads, Drop(t)
  PROVE  IInv'
<1>1. thr[t].phase = "drop" /\ UNCHANGED <<World, meta>>
  BY DEF Drop, World
<1>2. PICK call \in Calls :
        /\ call = thr[t] /\ CallInv(call)
        /\ Elapsed(call) \in Nat /\ Elapsed(call) <= OsvTimeout
        /\ Filtered(call, Elapsed(call))
        /\ Key(call) \in SUBSET Versions
  BY <1>1, AskingCall
<1>3. CASE Key(call) \in Keys
  <2>1. /\ cache' = Without(Key(call)) /\ Continue(t, call, "ask")
    BY <1>2, <1>3 DEF Drop
  <2>2. PICK s : s = Without(Key(call)) /\ Kept(s)
    BY WithoutKept
  <2>3. CachesInv'
    BY <1>1, <2>1, <2>2, CacheBecomes
  <2> DEFINE n == [call EXCEPT !.phase = "ask"]
  <2>4. /\ n \in Calls /\ n.phase = "ask" /\ n.kind = call.kind
        /\ n.config = call.config /\ n.items = call.items
        /\ n.allowed = call.allowed /\ n.answer = call.answer
        /\ n.failed = call.failed /\ n.waited = call.waited
    BY DEF Calls, Phases
  <2>5. PICK c \in Calls : c = [call EXCEPT !.phase = "ask"] /\ c = n
    BY <2>4
  <2> HIDE DEF n
  <2>6. call.phase = "drop"
    BY <1>1, <1>2
  <2>7. Key(c) = Key(call) /\ Elapsed(c) = Elapsed(call)
    BY <2>4, <2>5, <2>6 DEF Key, Elapsed
  <2>8. /\ c.phase = "ask" /\ c.kind = call.kind /\ c.config = call.config
        /\ c.items = call.items /\ c.allowed = call.allowed
        /\ c.answer = call.answer /\ c.failed = call.failed
        /\ c.waited = call.waited
    BY <2>4, <2>5
  <2>9. AllowedInv(c, Elapsed(c))
    BY <1>2, <2>7, <2>8 DEF Filtered, AllowedInv
  <2>10. /\ c.kind # "direct" /\ c.allowed \subseteq c.items
         /\ c.kind # "meta" /\ c.config \in Configs
         /\ \A f \in c.items : age[f] >= 0
         /\ c.waited <= OsvTimeout
    BY <1>2, <2>6, <2>8 DEF Filtered, CallInv
  <2>11. c.answer # None =>
           /\ c.answer \subseteq Versions
           /\ AnswerInv(c.answer, Key(c), "osv" \notin c.failed, c.waited)
    BY <1>2, <2>6, <2>7, <2>8 DEF CallInv
  <2>12. CallInv(c)
    BY <2>8, <2>9, <2>10, <2>11 DEF CallInv
  <2>13. "ask" \in Phases
    BY DEF Phases
  <2> QED
    BY <1>1, <2>1, <2>3, <2>5, <2>12, <2>13, ContinueInv
<1>4. CASE Key(call) \notin Keys
  <2>1. Breaks(t, call) /\ UNCHANGED <<World, meta, cache>>
    BY <1>1, <1>2, <1>4 DEF Drop
  <2>2. CachesInv'
    BY <2>1, CachesKept
  <2> QED
    BY <1>1, <2>1, <2>2, BreaksInv
<1> QED
  BY <1>3, <1>4

LEMMA OsvAnswersInv ==
  ASSUME IInv, NEW t \in Threads, OsvAnswers(t) \/ OsvAnswersDegraded(t)
  PROVE  IInv'
<1>1. /\ thr[t].phase = "ask" /\ reply' = None
      /\ UNCHANGED <<World, meta, cache>>
  BY DEF OsvAnswers, OsvAnswersDegraded, World
<1>2. PICK call \in Calls :
        /\ call = thr[t] /\ CallInv(call)
        /\ Elapsed(call) \in Nat /\ Elapsed(call) <= OsvTimeout
        /\ Filtered(call, Elapsed(call))
        /\ Key(call) \in SUBSET Versions
  BY <1>1, AskingCall
<1>3. PICK a \in SUBSET Versions, failed \in SUBSET {"meta", "osv", "error"} :
        /\ a \subseteq Key(call) \cap mal
        /\ "osv" \notin failed => a = Key(call) \cap mal
        /\ "meta" \in failed <=> "meta" \in call.failed
        /\ thr' = [thr EXCEPT ![t] =
                     [call EXCEPT !.answer = a, !.failed = failed]]
  <2>1. thr \in [Threads -> Calls]
    BY DEF IInv
  <2>2. CASE OsvAnswers(t)
    <3>1. PICK a \in SUBSET Versions : a = Key(call) \cap mal
      BY <1>2
    <3>2. thr' = [thr EXCEPT ![t] = [call EXCEPT !.answer = a]]
      BY <1>2, <2>1, <2>2, <3>1 DEF OsvAnswers
    <3>3. [call EXCEPT !.answer = a] =
            [call EXCEPT !.answer = a, !.failed = call.failed]
      BY DEF Calls
    <3>4. call.failed \in SUBSET {"meta", "osv", "error"}
      BY DEF Calls
    <3> QED
      BY <3>1, <3>2, <3>3, <3>4
  <2>3. CASE OsvAnswersDegraded(t)
    <3>1. PICK some \in SUBSET (Key(thr[t]) \cap mal) :
            thr' = [thr EXCEPT ![t].answer = some,
                               ![t].failed = @ \cup {"osv"}]
      BY <2>3 DEF OsvAnswersDegraded
    <3>2. PICK failed \in SUBSET {"meta", "osv", "error"} :
            failed = call.failed \cup {"osv"}
      BY DEF Calls
    <3>3. thr' = [thr EXCEPT ![t] =
                    [call EXCEPT !.answer = some, !.failed = failed]]
      BY <1>2, <2>1, <3>1, <3>2 DEF Calls
    <3>4. some \in SUBSET Versions /\ some \subseteq Key(call) \cap mal
      BY <1>2, <3>1
    <3> QED
      BY <3>2, <3>3, <3>4
  <2> QED
    BY <2>2, <2>3
<1> DEFINE n == [call EXCEPT !.answer = a, !.failed = failed]
<1>4. /\ n \in Calls /\ n.phase = "ask" /\ n.kind = call.kind
      /\ n.config = call.config /\ n.items = call.items
      /\ n.allowed = call.allowed /\ n.answer = a
      /\ n.failed = failed /\ n.waited = call.waited
  BY <1>1, <1>2 DEF Calls
<1>5. thr' = [thr EXCEPT ![t] = n]
  BY <1>3
<1> HIDE DEF n
<1>6. PICK c \in Calls : c = n
  BY <1>4
<1>7. /\ c.phase = "ask" /\ c.kind = call.kind
      /\ c.config = call.config /\ c.items = call.items
      /\ c.allowed = call.allowed /\ c.answer = a
      /\ c.failed = failed /\ c.waited = call.waited
      /\ call.phase = "ask"
  BY <1>1, <1>2, <1>4, <1>6
<1>8. Key(c) = Key(call) /\ Elapsed(c) = Elapsed(call)
  BY <1>7 DEF Key, Elapsed
<1>9. AllowedInv(c, Elapsed(c))
  BY <1>2, <1>3, <1>7, <1>8 DEF Filtered, AllowedInv
<1>10. /\ c.kind # "direct" /\ c.allowed \subseteq c.items
       /\ c.kind # "meta" /\ c.config \in Configs
       /\ \A f \in c.items : age[f] >= 0
       /\ c.waited <= OsvTimeout
  BY <1>2, <1>7 DEF Filtered, CallInv
<1>11. AnswerInv(c.answer, Key(c), "osv" \notin c.failed, c.waited)
  BY <1>3, <1>7, <1>8 DEF AnswerInv, Suspicious, Harmless
<1>12. CallInv(c)
  BY <1>7, <1>9, <1>10, <1>11 DEF CallInv
<1>13. CachesInv'
  BY <1>1, CachesKept
<1> QED
  BY <1>1, <1>5, <1>6, <1>12, <1>13, MoveInv, NoReplyHolds

LEMMA OsvFailsInv ==
  ASSUME IInv, NEW t \in Threads, OsvFails(t)
  PROVE  IInv'
<1>1. thr[t].phase = "ask" /\ UNCHANGED <<World, meta, cache>>
  BY DEF OsvFails, World
<1>2. PICK call \in Calls :
        /\ call = thr[t] /\ CallInv(call)
        /\ Elapsed(call) \in Nat /\ Elapsed(call) <= OsvTimeout
        /\ Filtered(call, Elapsed(call))
        /\ Key(call) \in SUBSET Versions
  BY <1>1, AskingCall
<1>3. PICK k \in Nat : k = Elapsed(call) /\ k <= OsvTimeout
  BY <1>2
<1> DEFINE n == [call EXCEPT !.failed = @ \cup {"osv"}]
<1>4. /\ n \in Calls /\ n.kind = call.kind /\ n.config = call.config
      /\ n.items = call.items /\ n.allowed = call.allowed
      /\ n.failed = call.failed \cup {"osv"}
  BY DEF Calls
<1>5. Replied(t, n, call.allowed)
  BY <1>2 DEF OsvFails
<1> HIDE DEF n
<1>6. PICK c \in Calls : c = n
  BY <1>4
<1>7. Filtered(c, k)
  BY <1>2, <1>3, <1>4, <1>6 DEF Filtered, AllowedInv
<1>8. PICK through \in SUBSET Files :
        through = call.allowed /\ through = c.allowed
  BY <1>4, <1>6 DEF Calls
<1>9. "osv" \in c.failed
  BY <1>4, <1>6
<1>10. Well(c, through)
  BY <1>3, <1>7, <1>8, <1>9, FilteredWell
<1>11. CachesInv'
  BY <1>1, CachesKept
<1> QED
  BY <1>1, <1>5, <1>6, <1>8, <1>10, <1>11, RepliedInv

LEMMA SweepInv ==
  ASSUME IInv, UNCHANGED <<World, meta>>, NEW t \in Threads,
         NEW call \in Calls, call.waited <= OsvTimeout,
         NEW k \in Nat, k <= OsvTimeout, Filtered(call, k),
         NEW answer \in SUBSET Versions, answer = call.answer,
         AnswerInv(answer, Key(call), TRUE, OsvLag),
         NEW entries, Kept(entries), NEW due \in SUBSET (SUBSET Versions),
         Sweep(t, call, entries, due)
  PROVE  IInv'
<1>1. CASE due # {}
  <2> DEFINE m == [call EXCEPT !.due = due]
             n == [m EXCEPT !.phase = "sweep"]
  <2>1. /\ cache' = entries /\ Continue(t, m, "sweep")
    BY <1>1 DEF Sweep
  <2>2. CachesInv'
    BY <2>1, CacheBecomes
  <2>3. m \in Calls
    BY DEF Calls
  <2>4. /\ n \in Calls /\ n.phase = "sweep" /\ n.kind = call.kind
        /\ n.config = call.config /\ n.items = call.items
        /\ n.allowed = call.allowed /\ n.answer = answer
        /\ n.failed = call.failed /\ n.waited = call.waited
    BY DEF Calls, Phases
  <2>5. n = [m EXCEPT !.phase = "sweep"] /\ "sweep" \in Phases
    BY DEF Phases
  <2> HIDE DEF m, n
  <2>6. PICK c \in Calls : c = n
    BY <2>4
  <2>7. /\ c.phase = "sweep" /\ c.kind = call.kind
        /\ c.config = call.config /\ c.items = call.items
        /\ c.allowed = call.allowed /\ c.answer = answer
        /\ c.failed = call.failed /\ c.waited = call.waited
    BY <2>4, <2>6
  <2>8. Key(c) = Key(call) /\ Elapsed(c) = OsvTimeout
    BY <2>7 DEF Key, Elapsed
  <2>9. AllowedInv(call, OsvTimeout)
    <3>1. PICK l \in Nat : l = OsvTimeout /\ k <= l
      BY Numbers
    <3>2. AllowedInv(call, l)
      BY <3>1, LongerAllowed DEF Filtered, IInv
    <3> QED
      BY <3>1, <3>2
  <2>10. Filtered(c, Elapsed(c))
    BY <2>7, <2>8, <2>9 DEF Filtered, AllowedInv
  <2>11. CallInv(c)
    BY <2>7, <2>8, <2>10, AnsweredCall
  <2> QED
    BY <2>1, <2>2, <2>3, <2>5, <2>6, <2>11, ContinueInv
<1>2. CASE due = {}
  <2>1. /\ cache' = Evicted(entries)
        /\ Replied(t, call, Unblocked(call, answer))
    BY <1>2 DEF Sweep
  <2>2. PICK r : r = Evicted(entries) /\ Kept(r)
    BY EvictedKept
  <2>3. CachesInv'
    BY <2>1, <2>2, CacheBecomes
  <2>4. AnswerInv(answer, Key(call), "osv" \notin call.failed, OsvLag)
    BY DEF AnswerInv
  <2>5. PICK through \in SUBSET Files : through = Unblocked(call, answer)
    BY DEF Unblocked, Calls
  <2>6. Well(call, through)
    BY <2>4, <2>5, UnblockedWell
  <2> QED
    BY <2>1, <2>3, <2>5, <2>6, RepliedInv
<1> QED
  BY <1>1, <1>2

\* What is stored is fit for the cache.
LEMMA StoredKept ==
  ASSUME IInv, NEW t \in Threads, NEW call \in Calls, call = thr[t],
         OsvArrives(t), Storable(call)
  PROVE  Kept(Stored(call))
<1>1. /\ call.phase = "ask" /\ call.answer # None /\ CallInv(call)
      /\ Key(call) \in SUBSET Versions
      /\ Elapsed(call) \in Nat /\ Elapsed(call) <= OsvTimeout
  BY AskingCall DEF OsvArrives
<1>2. PICK k \in Nat : k = call.waited /\ k <= OsvTimeout
  BY <1>1 DEF Elapsed
<1>3. PICK answer \in SUBSET Versions :
        answer = call.answer /\ AnswerInv(answer, Key(call), TRUE, k)
  BY <1>1, <1>2 DEF CallInv, Storable
<1>4. AnswerInv(answer, Key(call), TRUE, OsvTimeout)
  <2>1. WorldType /\ OsvTimeout \in Int /\ k \in Int /\ TRUE \in BOOLEAN
    BY Numbers DEF IInv
  <2> QED
    BY <1>1, <1>2, <1>3, <2>1, LongerAnswer
<1>5. PICK e \in Entries : e = EntryFor(call)
  <2>1. PICK key \in SUBSET Versions : key = Key(call)
    BY <1>1
  <2>2. OsvTtl \in 0..OsvTtl
    BY Numbers
  <2>3. [key |-> key, blocked |-> answer, left |-> OsvTtl] \in Entries
    BY <2>2 DEF Entries
  <2> QED
    BY <1>3, <2>1, <2>3 DEF EntryFor
<1>6. /\ e.key = Key(call) /\ e.blocked = answer /\ e.left = OsvTtl
  BY <1>3, <1>5 DEF EntryFor
<1>7. EntryInv(e)
  <2>1. OsvTimeout + OsvTtl - e.left = OsvTimeout
    BY <1>6, Numbers
  <2> QED
    BY <1>4, <1>6, <2>1 DEF EntryInv
<1>8. PICK s : /\ s = Without(Key(call)) /\ Kept(s)
               /\ \A i \in 1..Len(s) : s[i].key # e.key
  BY <1>6, WithoutKept
<1> QED
  BY <1>5, <1>7, <1>8, AppendKept DEF Stored

LEMMA OsvArrivesInv ==
  ASSUME IInv, NEW t \in Threads, OsvArrives(t)
  PROVE  IInv'
<1>1. /\ thr[t].phase = "ask" /\ thr[t].answer # None
      /\ UNCHANGED <<World, meta>>
  BY DEF OsvArrives, World
<1>2. PICK call \in Calls :
        /\ call = thr[t] /\ CallInv(call)
        /\ Elapsed(call) \in Nat /\ Elapsed(call) <= OsvTimeout
        /\ Filtered(call, Elapsed(call))
        /\ Key(call) \in SUBSET Versions
  BY <1>1, AskingCall
<1>3. PICK k \in Nat : k = call.waited /\ k = Elapsed(call) /\ k <= OsvTimeout
  BY <1>1, <1>2 DEF Elapsed
<1>4. PICK answer \in SUBSET Versions :
        /\ answer = call.answer
        /\ AnswerInv(answer, Key(call), "osv" \notin call.failed, k)
  BY <1>1, <1>2, <1>3 DEF CallInv
<1>5. PICK ok \in BOOLEAN : ok <=> "osv" \notin call.failed
  OBVIOUS
<1>6. AnswerInv(answer, Key(call), ok, k)
  BY <1>4, <1>5 DEF AnswerInv
<1>7. AnswerInv(answer, Key(call), ok, OsvTimeout)
  <2>1. WorldType /\ OsvTimeout \in Int /\ k \in Int
    BY Numbers DEF IInv
  <2> QED
    BY <1>2, <1>3, <1>6, <2>1, LongerAnswer
<1>8. AnswerInv(answer, Key(call), ok, OsvLag)
  <2>1. WorldType /\ OsvLag \in Int /\ k \in Int /\ k <= OsvLag
    BY <1>3, Numbers DEF IInv
  <2> QED
    BY <1>2, <1>6, <2>1, LongerAnswer
<1>9. CASE Storable(call)
  <2> DEFINE n == [call EXCEPT !.waited = 0]
  <2>1. ok
    BY <1>5, <1>9 DEF Storable
  <2>2. Sweep(t, n, Stored(call), Expired(Stored(call)))
    BY <1>2, <1>9 DEF OsvArrives
  <2>3. /\ n \in Calls /\ n.kind = call.kind
        /\ n.config = call.config /\ n.items = call.items
        /\ n.allowed = call.allowed /\ n.answer = answer
        /\ n.failed = call.failed /\ n.waited = 0
    BY <1>4 DEF Calls
  <2> HIDE DEF n
  <2>4. PICK c \in Calls : c = n
    BY <2>3
  <2>9. PICK entries : entries = Stored(call) /\ Kept(entries)
    BY <1>2, <1>9, StoredKept
  <2>10. PICK due \in SUBSET (SUBSET Versions) :
           due = Expired(entries)
    <3>1. \A i \in DOMAIN entries : entries[i] \in Entries
      BY <2>9, ElementOfSeq, LenProperties DEF Kept
    <3>2. \A i \in DOMAIN entries : entries[i].key \in SUBSET Versions
      BY <3>1 DEF Entries
    <3> QED
      BY <3>2 DEF Expired
  <2>11. Key(c) = Key(call)
    BY <2>3, <2>4 DEF Key
  <2>12. AnswerInv(answer, Key(c), TRUE, OsvLag)
    BY <1>8, <2>1, <2>11 DEF AnswerInv
  <2>13. Filtered(c, k)
    BY <1>2, <1>3, <2>3, <2>4 DEF Filtered, AllowedInv
  <2>14. c.waited <= OsvTimeout /\ c.answer = answer
    BY <2>3, <2>4, Numbers
  <2>15. Sweep(t, c, entries, due)
    BY <2>2, <2>4, <2>9, <2>10
  <2> QED
    BY <1>1, <1>3, <2>9, <2>12, <2>13, <2>14, <2>15, SweepInv
<1>10. CASE ~Storable(call)
  <2>1. /\ Replied(t, call, Unblocked(call, answer))
        /\ UNCHANGED <<World, meta, cache>>
    BY <1>1, <1>2, <1>4, <1>10 DEF OsvArrives
  <2>2. CachesInv'
    BY <2>1, CachesKept
  <2>3. AnswerInv(answer, Key(call), "osv" \notin call.failed, OsvLag)
    BY <1>5, <1>8 DEF AnswerInv
  <2>4. PICK through \in SUBSET Files : through = Unblocked(call, answer)
    BY DEF Unblocked, Calls
  <2>5. Well(call, through)
    BY <1>2, <1>3, <2>3, <2>4, UnblockedWell
  <2> QED
    BY <1>1, <2>1, <2>2, <2>4, <2>5, RepliedInv
<1> QED
  BY <1>9, <1>10

LEMMA SweepOneInv ==
  ASSUME IInv, NEW t \in Threads, SweepOne(t)
  PROVE  IInv'
<1>1. thr[t].phase = "sweep" /\ UNCHANGED <<World, meta>>
  BY DEF SweepOne, World
<1>2. PICK call \in Calls :
        /\ call = thr[t] /\ CallInv(call)
        /\ Elapsed(call) \in Nat /\ Elapsed(call) <= OsvTimeout
        /\ Filtered(call, Elapsed(call))
        /\ Key(call) \in SUBSET Versions
  BY <1>1, AskingCall
<1>3. PICK key \in call.due :
        IF key \in Keys THEN Sweep(t, call, Without(key), call.due \ {key})
        ELSE Breaks(t, call) /\ UNCHANGED cache
  BY <1>2 DEF SweepOne
<1>4. CASE key \in Keys
  <2>1. PICK entries : entries = Without(key) /\ Kept(entries)
    BY WithoutKept
  <2>2. PICK due \in SUBSET (SUBSET Versions) : due = call.due \ {key}
    BY DEF Calls
  <2>3. PICK k \in Nat : k <= OsvTimeout /\ Filtered(call, k)
    BY <1>2
  <2>4. PICK answer \in SUBSET Versions :
          /\ answer = call.answer
          /\ AnswerInv(answer, Key(call), TRUE, OsvLag)
    BY <1>1, <1>2 DEF CallInv
  <2>5. call.waited <= OsvTimeout
    BY <1>1, <1>2 DEF CallInv
  <2>6. Sweep(t, call, entries, due)
    BY <1>3, <1>4, <2>1, <2>2
  <2> QED
    BY <1>1, <2>1, <2>3, <2>4, <2>5, <2>6, SweepInv
<1>5. CASE key \notin Keys
  <2>1. Breaks(t, call) /\ UNCHANGED <<World, meta, cache>>
    BY <1>1, <1>3, <1>5
  <2>2. CachesInv'
    BY <2>1, CachesKept
  <2> QED
    BY <1>1, <2>1, <2>2, BreaksInv
<1> QED
  BY <1>4, <1>5

-----------------------------------------------------------------------------
(* The theorems *)

LEMMA InitIInv ==
  ASSUME Init
  PROVE  IInv
<1>1. WorldType
  BY Numbers DEF Init, WorldType
<1>2. thr \in [Threads -> Calls] /\ \A t \in Threads : CallInv(thr[t])
  BY IdleCall DEF Init
<1>3. CachesInv
  <2>1. cache = <<>> /\ meta = None /\ Len(cache) = 0 /\ cache \in Seq(Entries)
    BY EmptySeq DEF Init
  <2> QED
    BY <2>1 DEF CachesInv, Kept
<1>4. ConfigObeyed /\ BoundedExposure /\ NothingHiddenForLong
  BY DEF Init, ConfigObeyed, BoundedExposure, NothingHiddenForLong, Decided,
         Answered
<1> QED
  BY <1>1, <1>2, <1>3, <1>4 DEF IInv

LEMMA PageInv ==
  ASSUME IInv, NEW t \in Threads, NEW c \in Configs,
         \/ SimplePage(t, c)
         \/ \E f \in Files : FileAllowed(t, f, c) \/ DirectFile(t, f, c)
  PROVE  IInv'
<1>1. CASE SimplePage(t, c)
  <2>1. PICK items \in SUBSET Uploaded : items = Uploaded
    OBVIOUS
  <2>2. PICK kind \in {"simple", "link"} : kind = "simple"
    OBVIOUS
  <2>3. Begin(t, kind, items, c)
    BY <1>1, <2>1, <2>2 DEF SimplePage
  <2> QED
    BY <2>3, BeginInv
<1>2. ASSUME NEW f \in Files, FileAllowed(t, f, c)
      PROVE  IInv'
  <2>1. PICK items \in SUBSET Uploaded : items = {f}
    BY <1>2 DEF FileAllowed
  <2>2. PICK kind \in {"simple", "link"} : kind = "link"
    OBVIOUS
  <2>3. Begin(t, kind, items, c)
    BY <1>2, <2>1, <2>2 DEF FileAllowed
  <2> QED
    BY <2>3, BeginInv
<1> QED
  BY <1>1, <1>2, DirectInv

LEMMA NextIInv ==
  ASSUME IInv, [Next]_vars
  PROVE  IInv'
<1>1. ASSUME NEW f \in New, Upload(f) PROVE IInv'
  BY <1>1, OutsideInv, FilesAssumption
<1>2. ASSUME NEW v \in Suspects, Reassess(v) PROVE IInv'
  BY <1>2, OutsideInv, FilesAssumption
<1>3. ASSUME NEW t \in Threads,
             \/ ProjectMeta(t)
             \/ PypiAnswers(t) \/ MetaArrives(t) \/ MetaUnavailable(t)
             \/ Touch(t) \/ Drop(t)
             \/ OsvAnswers(t) \/ OsvAnswersDegraded(t) \/ OsvArrives(t)
             \/ SweepOne(t) \/ OsvFails(t)
      PROVE  IInv'
  BY <1>3, ProjectMetaInv, PypiAnswersInv, MetaInv, TouchInv, DropInv,
     OsvAnswersInv, OsvArrivesInv, SweepOneInv, OsvFailsInv
<1>4. CASE UNCHANGED vars
  <2>1. UNCHANGED <<World, meta, cache>> /\ thr' = thr /\ reply' = reply
    BY <1>4 DEF vars, World
  <2>2. CachesInv'
    BY <2>1, CachesKept
  <2>3. WorldType' /\ thr' \in [Threads -> Calls]
    BY <2>1 DEF IInv, WorldType, World
  <2>4. ASSUME NEW t \in Threads PROVE CallInv(thr[t])'
    BY <2>1
       DEF IInv, World, CallInv, Elapsed, AllowedInv, AnswerInv, Seen, Passes,
           Withheld, Harmless, Suspicious, Key
  <2>5. ConfigObeyed' /\ BoundedExposure' /\ NothingHiddenForLong'
    BY <2>1 DEF IInv, World, ConfigObeyed, BoundedExposure,
                NothingHiddenForLong, Decided, Answered, Through
  <2> QED
    BY <2>2, <2>3, <2>4, <2>5 DEF IInv
<1> QED
  BY <1>1, <1>2, <1>3, <1>4, PageInv, TickInv DEF Next

\* In every run, the invariant holds: the caches hold what was so a bounded
\* time ago, and a request under way has let through what it may.
THEOREM Invariance == Spec => []IInv
<1>1. Init => IInv
  BY InitIInv
<1>2. IInv /\ [Next]_vars => IInv'
  BY NextIInv
<1> QED
  BY <1>1, <1>2, PTL DEF Spec

\* Requests, metadata and entries of the OSV cache are of their types, and no
\* two entries have one key, whatever the threads do between two operations.
THEOREM TypeCorrect == Spec => []TypeOK
<1>1. ASSUME IInv PROVE TypeOK
  <2>1. WorldType /\ Kept(cache) /\ thr \in [Threads -> Calls]
    BY <1>1 DEF IInv, CachesInv
  <2>2. meta # None => meta.files \subseteq Files /\ meta.left \in 1..MetaTtl
    BY <1>1 DEF IInv, CachesInv, Metas
  <2>3. /\ cache \in Seq(Entries)
        /\ \A i, j \in DOMAIN cache : cache[i].key = cache[j].key => i = j
    BY <2>1, LenProperties DEF Kept
  <2>4. ASSUME NEW t \in Threads
        PROVE  /\ thr[t].phase \in {"idle", "fetch", "ask"} \cup Local
               /\ thr[t].kind \in {"simple", "link", "meta"}
               /\ thr[t].allowed \subseteq thr[t].items
               /\ thr[t].waited <= IF thr[t].phase = "fetch" THEN MetaTimeout
                                   ELSE OsvTimeout
    BY <1>1, <2>1 DEF IInv, CallInv, Calls, Phases, Local
  <2> QED
    BY <2>1, <2>2, <2>3, <2>4 DEF TypeOK, WorldType
<1> QED
  BY <1>1, Invariance, PTL

\* Nothing gets through that the configuration of the request's start forbids,
\* by a constraint or by the age of the file, whatever the caches hold.
THEOREM ConfigObeyedHolds == Spec => []ConfigObeyed
<1>1. IInv => ConfigObeyed
  BY DEF IInv
<1> QED
  BY <1>1, Invariance, PTL

\* A version that policy-sync holds malicious gets through for OsvLag at most,
\* although an older answer may be stored over a newer one.
THEOREM BoundedExposureHolds == Spec => []BoundedExposure
<1>1. IInv => BoundedExposure
  BY DEF IInv
<1> QED
  BY <1>1, Invariance, PTL

\* What is hidden is forbidden, was malicious until OsvLag ago at most, or is
\* young: what old metadata does not know is hidden for MetaLag at most.
THEOREM NothingHiddenForLongHolds == Spec => []NothingHiddenForLong
<1>1. IInv => NothingHiddenForLong
  BY DEF IInv
<1> QED
  BY <1>1, Invariance, PTL
-----------------------------------------------------------------------------
(* What breaks a request *)

\* While a thread is between two operations on the OSV cache, no other one
\* writes it: so it would be with a lock around them, and is with one thread.
Undisturbed ==
  \A t \in Threads :
    thr[t].phase \in Local => thr'[t] # thr[t] \/ UNCHANGED cache

\* The keys a thread has found are still there, and nothing is broken.
Present(call, keys) ==
  /\ "error" \notin call.failed
  /\ call.phase \in {"touch", "drop"} => Key(call) \in keys
  /\ call.phase = "sweep" => call.due \subseteq keys
PresentInv == \A t \in Threads : Present(thr[t], Keys)
Whole == PresentInv /\ NoRequestBreaks

LEMMA KeysWithout ==
  ASSUME IInv, NEW key \in Keys, cache' = Without(key)
  PROVE  Keys \ {key} \subseteq Keys'
<1>1. /\ Len(cache) \in Nat /\ DOMAIN cache = 1..Len(cache)
      /\ \A i, j \in 1..Len(cache) : cache[i].key = cache[j].key => i = j
  BY LenProperties DEF IInv, CachesInv, Kept
<1>2. PICK n \in Nat : n = Len(cache)
  BY <1>1
<1>3. PICK s : s = cache' /\ s = Without(key)
  OBVIOUS
<1>4. PICK i \in 1..n :
        /\ cache[i].key = key
        /\ s \in Seq(Entries) /\ Len(s) = n - 1
        /\ \A j \in 1..(n - 1) :
             s[j] = IF j <= i - 1 THEN cache[j] ELSE cache[j + 1]
  <2>1. PICK i \in 1..Len(cache) :
          /\ cache[i].key = key
          /\ Without(key) \in Seq(Entries)
          /\ Len(Without(key)) = Len(cache) - 1
          /\ \A j \in 1..(Len(cache) - 1) :
               Without(key)[j] = IF j <= i - 1 THEN cache[j] ELSE cache[j + 1]
    BY WithoutOne
  <2>2. /\ i \in 1..n /\ s \in Seq(Entries) /\ Len(s) = n - 1
        /\ \A j \in 1..(n - 1) :
             s[j] = IF j <= i - 1 THEN cache[j] ELSE cache[j + 1]
    BY <1>2, <1>3, <2>1, Zenon
  <2> QED
    BY <2>1, <2>2
<1>5. ASSUME NEW k \in 1..n, k # i
      PROVE  \E j \in 1..(n - 1) : s[j] = cache[k]
  <2>1. CASE k < i
    <3>1. k \in 1..(n - 1) /\ k <= i - 1
      BY <2>1
    <3> QED
      BY <1>4, <3>1
  <2>2. CASE ~(k < i)
    <3>1. /\ k - 1 \in 1..(n - 1) /\ ~(k - 1 <= i - 1)
          /\ (k - 1) + 1 = k
      BY <1>5, <2>2
    <3> QED
      BY <1>4, <3>1
  <2> QED
    BY <2>1, <2>2
<1>6. DOMAIN s = 1..(n - 1)
  BY <1>4, LenProperties
<1>7. Keys' = {s[j].key : j \in 1..(n - 1)}
  BY <1>3, <1>6 DEF Keys
<1>8. ASSUME NEW other \in Keys, other # key
      PROVE  other \in Keys'
  <2>1. PICK k \in 1..n : cache[k].key = other
    BY <1>1, <1>2 DEF Keys
  <2>2. PICK j \in 1..(n - 1) : s[j] = cache[k]
    BY <1>4, <1>5, <1>8, <2>1
  <2> QED
    BY <1>7, <2>1, <2>2
<1> QED
  BY <1>8

\* A thread moves on, and the others are not disturbed.
LEMMA WholeMove ==
  ASSUME IInv, Whole, Undisturbed, NEW t \in Threads, NEW n,
         thr' = [thr EXCEPT ![t] = n], Present(n, Keys'),
         reply' = None \/ "error" \notin reply'.failed
  PROVE  Whole'
<1>1. /\ DOMAIN thr = Threads /\ thr'[t] = n
      /\ \A u \in Threads \ {t} : thr'[u] = thr[u]
  BY DEF IInv
<1>2. ASSUME NEW u \in Threads PROVE Present(thr'[u], Keys')
  <2>1. CASE u = t
    BY <1>1, <2>1
  <2>2. CASE u # t /\ thr[u].phase \in Local
    <3>1. cache' = cache /\ thr'[u] = thr[u]
      BY <1>1, <2>2 DEF Undisturbed
    <3>2. Keys' = Keys
      BY <3>1 DEF Keys
    <3> QED
      BY <3>1, <3>2 DEF Whole, PresentInv
  <2>3. CASE u # t /\ thr[u].phase \notin Local
    BY <1>1, <2>3 DEF Whole, PresentInv, Present, Local
  <2> QED
    BY <2>1, <2>2, <2>3
<1>3. PresentInv'
  BY <1>2 DEF PresentInv, Present, Key, VersionsOf
<1>4. NoRequestBreaks'
  BY DEF NoRequestBreaks
<1> QED
  BY <1>3, <1>4 DEF Whole

LEMMA WholeReplied ==
  ASSUME IInv, Whole, Undisturbed, NEW t \in Threads, NEW call, NEW through,
         "error" \notin call.failed, Replied(t, call, through)
  PROVE  Whole'
<1>1. /\ thr' = [thr EXCEPT ![t] = Idle] /\ reply'.failed = call.failed
  BY DEF Replied
<1>2. Present(Idle, Keys')
  BY DEF Present, Idle
<1> QED
  BY <1>1, <1>2, WholeMove

LEMMA WholeContinue ==
  ASSUME IInv, Whole, Undisturbed, NEW t \in Threads, NEW call \in Calls,
         NEW phase \in Phases, "error" \notin call.failed,
         phase \in {"touch", "drop"} => Key(call) \in Keys',
         phase = "sweep" => call.due \subseteq Keys',
         Continue(t, call, phase)
  PROVE  Whole'
<1> DEFINE n == [call EXCEPT !.phase = phase]
<1>1. thr' = [thr EXCEPT ![t] = n] /\ reply' = None
  BY DEF Continue
<1>2. /\ n.phase = phase /\ n.failed = call.failed /\ n.due = call.due
      /\ n.allowed = call.allowed
  BY DEF Calls
<1> HIDE DEF n
<1>3. Present(n, Keys')
  BY <1>2 DEF Present, Key
<1> QED
  BY <1>1, <1>3, WholeMove

LEMMA WholeDecide ==
  ASSUME IInv, Whole, Undisturbed, NEW t \in Threads, NEW call \in Calls,
         NEW known, "error" \notin call.failed, call.answer = None,
         UNCHANGED cache, Decide(t, call, known)
  PROVE  Whole'
<1>1. CASE call.kind = "meta"
  BY <1>1, WholeReplied DEF Decide
<1>2. CASE call.kind # "meta"
  <2>1. PICK allowed \in SUBSET Files :
          allowed = {f \in call.items :
                       /\ MatchesFilter(f, call.config)
                       /\ \/ call.config.minAge = 0
                          \/ OldEnough(f, known, call.config)}
    BY DEF Calls
  <2> DEFINE n == [call EXCEPT !.waited = 0, !.allowed = allowed]
  <2>2. /\ n \in Calls /\ n.failed = call.failed /\ n.allowed = allowed
    BY DEF Calls
  <2>3. IF allowed = {} \/ ~call.config.osv THEN Replied(t, n, allowed)
        ELSE Lookup(t, n)
    BY <1>2, <2>1, <2>2 DEF Decide
  <2> HIDE DEF n
  <2>4. PICK m \in Calls : m = n /\ "error" \notin m.failed
    BY <2>2
  <2>5. CASE Replied(t, m, allowed)
    BY <2>4, <2>5, WholeReplied
  <2>6. CASE Lookup(t, m)
    <3>1. Keys' = Keys
      BY DEF Keys
    <3>2. CASE Key(m) \notin Keys
      BY <2>4, <2>6, <3>2, WholeContinue DEF Lookup, Phases
    <3>3. CASE Key(m) \in Keys
      <4>1. PICK e \in Entries : e = Entry(Key(m))
        BY <3>3, EntryHolds
      <4>2. CASE Fresh(e)
        <5> DEFINE k == [m EXCEPT !.answer = e.blocked]
        <5>1. /\ k \in Calls /\ k.failed = m.failed /\ k.allowed = m.allowed
          BY <4>1 DEF Calls, Entries
        <5>2. Continue(t, k, "touch")
          BY <2>6, <3>3, <4>1, <4>2 DEF Lookup
        <5> HIDE DEF k
        <5>3. Key(k) = Key(m)
          BY <5>1 DEF Key
        <5> QED
          BY <2>4, <3>1, <3>3, <5>1, <5>2, <5>3, WholeContinue DEF Phases
      <4>3. CASE ~Fresh(e)
        <5>1. Continue(t, m, "drop")
          BY <2>6, <3>3, <4>1, <4>3 DEF Lookup
        <5> QED
          BY <2>4, <3>1, <3>3, <5>1, WholeContinue DEF Phases
      <4> QED
        BY <4>2, <4>3
    <3> QED
      BY <3>2, <3>3
  <2> QED
    BY <2>3, <2>4, <2>5, <2>6
<1> QED
  BY <1>1, <1>2

LEMMA WholeWithMetadata ==
  ASSUME IInv, Whole, Undisturbed, NEW t \in Threads, NEW call \in Calls,
         "error" \notin call.failed, call.answer = None,
         UNCHANGED cache, WithMetadata(t, call)
  PROVE  Whole'
<1>1. CASE meta # None
  BY <1>1, WholeDecide DEF WithMetadata
<1>2. CASE meta = None
  BY <1>2, WholeContinue DEF WithMetadata, Phases
<1> QED
  BY <1>1, <1>2

LEMMA WholeBegin ==
  ASSUME IInv, Whole, Undisturbed, NEW t \in Threads,
         NEW c \in Configs,
         \/ SimplePage(t, c)
         \/ \E f \in Files : FileAllowed(t, f, c) \/ DirectFile(t, f, c)
  PROVE  Whole'
<1>1. ASSUME NEW kind \in {"simple", "link"}, NEW items \in SUBSET Files,
             Begin(t, kind, items, c)
      PROVE  Whole'
  <2> DEFINE call == [Idle EXCEPT !.kind = kind, !.items = items, !.config = c]
  <2>1. call \in Calls /\ call.failed = {} /\ call.answer = None
    BY <1>1 DEF Idle, Calls, Phases
  <2>2. /\ UNCHANGED cache
        /\ \/ \E through : Replied(t, call, through)
           \/ Decide(t, call, {})
           \/ WithMetadata(t, call)
    BY <1>1 DEF Begin
  <2> HIDE DEF call
  <2> QED
    BY <2>1, <2>2, WholeReplied, WholeDecide, WholeWithMetadata
<1>2. CASE SimplePage(t, c)
  BY <1>1, <1>2 DEF SimplePage, Uploaded
<1>3. ASSUME NEW f \in Files, FileAllowed(t, f, c) PROVE Whole'
  BY <1>1, <1>3 DEF FileAllowed
<1>4. ASSUME NEW f \in Files, DirectFile(t, f, c) PROVE Whole'
  <2> DEFINE call == [Idle EXCEPT !.kind = "direct", !.items = {f},
                                  !.config = c]
  <2>1. Replied(t, call, {f}) /\ "error" \notin call.failed
    BY <1>4 DEF DirectFile, Idle
  <2> HIDE DEF call
  <2> QED
    BY <2>1, WholeReplied
<1> QED
  BY <1>2, <1>3, <1>4

LEMMA WholeMeta ==
  ASSUME IInv, Whole, Undisturbed, NEW t \in Threads,
         ProjectMeta(t) \/ MetaArrives(t) \/ MetaUnavailable(t)
  PROVE  Whole'
<1>1. PICK call \in Calls : call = thr[t] /\ "error" \notin call.failed
  BY DEF IInv, Whole, PresentInv, Present
<1>2. CASE ProjectMeta(t)
  <2> DEFINE n == [Idle EXCEPT !.kind = "meta", !.items = Uploaded]
  <2>1. n \in Calls /\ n.failed = {} /\ n.answer = None
    BY DEF Idle, Calls, Phases, Uploaded
  <2>2. WithMetadata(t, n) /\ UNCHANGED cache
    BY <1>2 DEF ProjectMeta
  <2> HIDE DEF n
  <2> QED
    BY <2>1, <2>2, WholeWithMetadata
<1>3. CASE MetaArrives(t)
  <2> DEFINE n == [call EXCEPT !.answer = None]
  <2>1. n \in Calls /\ n.failed = call.failed /\ n.answer = None
    BY DEF Calls
  <2>2. Decide(t, n, call.answer) /\ UNCHANGED cache
    BY <1>1, <1>3 DEF MetaArrives
  <2> HIDE DEF n
  <2> QED
    BY <1>1, <2>1, <2>2, WholeDecide
<1>4. CASE MetaUnavailable(t)
  <2> DEFINE n == [call EXCEPT !.answer = None, !.failed = {"meta"}]
  <2>1. n \in Calls /\ n.failed = {"meta"} /\ n.answer = None
    BY DEF Calls
  <2>2. Decide(t, n, {}) /\ UNCHANGED cache
    BY <1>1, <1>4 DEF MetaUnavailable
  <2> HIDE DEF n
  <2> QED
    BY <2>1, <2>2, WholeDecide
<1> QED
  BY <1>2, <1>3, <1>4

LEMMA WholeAsk ==
  ASSUME IInv, Whole, Undisturbed, NEW t \in Threads,
         \/ PypiAnswers(t) \/ OsvAnswers(t) \/ OsvAnswersDegraded(t)
         \/ OsvFails(t)
  PROVE  Whole'
<1>1. PICK call \in Calls : call = thr[t] /\ "error" \notin call.failed
  BY DEF IInv, Whole, PresentInv, Present
<1>2. CASE PypiAnswers(t)
  <2> DEFINE n == [call EXCEPT !.answer = Uploaded]
  <2>1. thr' = [thr EXCEPT ![t] = n] /\ reply' = None /\ n.phase = "fetch"
        /\ n.failed = call.failed
    BY <1>1, <1>2 DEF PypiAnswers, Calls
  <2> HIDE DEF n
  <2>2. Present(n, Keys')
    BY <1>1, <2>1 DEF Present
  <2> QED
    BY <2>1, <2>2, WholeMove
<1>3. CASE OsvAnswers(t) \/ OsvAnswersDegraded(t)
  <2>1. PICK n : /\ thr' = [thr EXCEPT ![t] = n] /\ reply' = None
                 /\ n.phase = "ask"
                 /\ n.failed \in {call.failed, call.failed \cup {"osv"}}
    <3>1. CASE OsvAnswers(t)
      <4> DEFINE n == [call EXCEPT !.answer = Key(call) \cap mal]
      <4>1. /\ thr' = [thr EXCEPT ![t] = n] /\ reply' = None
            /\ n.phase = "ask" /\ n.failed = call.failed
        BY <1>1, <3>1 DEF OsvAnswers, Calls
      <4> QED
        BY <4>1
    <3>2. CASE OsvAnswersDegraded(t)
      <4>1. PICK some : thr' = [thr EXCEPT ![t].answer = some,
                                           ![t].failed = @ \cup {"osv"}]
        BY <3>2 DEF OsvAnswersDegraded
      <4> DEFINE n == [call EXCEPT !.answer = some,
                                   !.failed = @ \cup {"osv"}]
      <4>2. /\ thr' = [thr EXCEPT ![t] = n] /\ reply' = None
            /\ n.phase = "ask" /\ n.failed = call.failed \cup {"osv"}
        BY <1>1, <3>2, <4>1 DEF OsvAnswersDegraded, Calls, IInv
      <4> QED
        BY <4>2
    <3> QED
      BY <1>3, <3>1, <3>2
  <2>2. Present(n, Keys')
    BY <1>1, <2>1 DEF Present
  <2> QED
    BY <2>1, <2>2, WholeMove
<1>4. CASE OsvFails(t)
  <2> DEFINE n == [call EXCEPT !.failed = @ \cup {"osv"}]
  <2>1. Replied(t, n, call.allowed) /\ "error" \notin n.failed
    BY <1>1, <1>4 DEF OsvFails, Calls
  <2> HIDE DEF n
  <2> QED
    BY <2>1, WholeReplied
<1> QED
  BY <1>2, <1>3, <1>4

LEMMA WholeSweep ==
  ASSUME IInv, Whole, Undisturbed, NEW t \in Threads, NEW call \in Calls,
         "error" \notin call.failed, NEW entries,
         NEW due \in SUBSET (SUBSET Versions),
         cache' = entries => due \subseteq Keys',
         Sweep(t, call, entries, due)
  PROVE  Whole'
<1>1. CASE due # {}
  <2> DEFINE n == [call EXCEPT !.due = due]
  <2>1. /\ n \in Calls /\ n.failed = call.failed /\ n.due = due
    BY DEF Calls
  <2>2. cache' = entries /\ Continue(t, n, "sweep")
    BY <1>1 DEF Sweep
  <2> HIDE DEF n
  <2> QED
    BY <2>1, <2>2, WholeContinue DEF Phases
<1>2. CASE due = {}
  BY <1>2, WholeReplied DEF Sweep
<1> QED
  BY <1>1, <1>2

LEMMA WholeCache ==
  ASSUME IInv, Whole, Undisturbed, NEW t \in Threads,
         Touch(t) \/ Drop(t) \/ OsvArrives(t) \/ SweepOne(t)
  PROVE  Whole'
<1>1. PICK call \in Calls :
        call = thr[t] /\ "error" \notin call.failed /\ Present(call, Keys)
  BY DEF IInv, Whole, PresentInv, Present
<1>2. CASE Touch(t)
  BY <1>1, <1>2, WholeReplied DEF Touch, Present
<1>3. CASE Drop(t)
  BY <1>1, <1>3, WholeContinue DEF Drop, Present, Phases
<1>4. CASE OsvArrives(t)
  <2>1. CASE Storable(call)
    <3> DEFINE n == [call EXCEPT !.waited = 0]
    <3>1. n \in Calls /\ n.failed = call.failed
      BY DEF Calls
    <3>2. PICK entries : entries = Stored(call)
      OBVIOUS
    <3>3. PICK due : due = Expired(entries)
      OBVIOUS
    <3>4. Sweep(t, n, entries, due)
      BY <1>1, <1>4, <2>1, <3>2, <3>3 DEF OsvArrives
    <3> HIDE DEF n
    <3>5. cache' = entries => due \subseteq Keys'
      BY <3>3 DEF Expired, Keys
    <3>6. due \in SUBSET (SUBSET Versions)
      <4>1. Kept(entries)
        BY <1>1, <1>4, <2>1, <3>2, StoredKept
      <4>2. \A i \in DOMAIN entries : entries[i] \in Entries
        BY <4>1, ElementOfSeq, LenProperties DEF Kept
      <4>3. \A i \in DOMAIN entries : entries[i].key \in SUBSET Versions
        BY <4>2 DEF Entries
      <4> QED
        BY <3>3, <4>3 DEF Expired
    <3> QED
      BY <1>1, <3>1, <3>4, <3>5, <3>6, WholeSweep
  <2>2. CASE ~Storable(call)
    BY <1>1, <1>4, <2>2, WholeReplied DEF OsvArrives
  <2> QED
    BY <2>1, <2>2
<1>5. CASE SweepOne(t)
  <2>1. call.phase = "sweep" /\ call.due \subseteq Keys
    BY <1>1, <1>5 DEF SweepOne, Present
  <2>2. PICK key \in call.due :
          key \in Keys /\ Sweep(t, call, Without(key), call.due \ {key})
    BY <1>1, <1>5, <2>1 DEF SweepOne
  <2>3. cache' = Without(key) => call.due \ {key} \subseteq Keys'
    BY <2>1, <2>2, KeysWithout
  <2>4. call.due \ {key} \in SUBSET (SUBSET Versions)
    BY DEF Calls
  <2> QED
    BY <1>1, <2>2, <2>3, <2>4, WholeSweep
<1> QED
  BY <1>2, <1>3, <1>4, <1>5

LEMMA WholeOutside ==
  ASSUME IInv, Whole,
         \/ \E f \in New : Upload(f)
         \/ \E v \in Suspects : Reassess(v)
         \/ Tick \/ UNCHANGED vars
  PROVE  Whole'
<1>1. CASE \/ \E f \in New : Upload(f)
           \/ \E v \in Suspects : Reassess(v)
           \/ UNCHANGED vars
  <2>1. UNCHANGED <<thr, cache>> /\ (reply' = None \/ reply' = reply)
    BY <1>1 DEF Upload, Reassess, vars
  <2> QED
    BY <2>1 DEF Whole, PresentInv, Present, Keys, Key, VersionsOf,
                NoRequestBreaks
<1>2. CASE Tick
  <2>1. reply' = None /\ \A t \in Threads : thr[t].phase \notin Local
    BY <1>2 DEF Tick
  <2>2. \A t \in Threads :
          thr'[t].phase = thr[t].phase /\ thr'[t].failed = thr[t].failed
    <3> TAKE t \in Threads
    <3>1. PICK call \in Calls : call = thr[t]
      BY DEF IInv
    <3>2. thr'[t] \in {call, [call EXCEPT !.waited = @ + 1]}
      BY <1>2, <3>1 DEF Tick
    <3> QED
      BY <3>1, <3>2 DEF Calls
  <2> QED
    BY <2>1, <2>2 DEF Whole, PresentInv, Present, Local, NoRequestBreaks
<1> QED
  BY <1>1, <1>2

\* A request breaks only if another thread writes the OSV cache between its
\* lookup there and what it does with the result: a lock around these would do,
\* and devpi with a single thread never fails so (main.py:264).
THEOREM OnlyAnotherThreadBreaksIt ==
  Spec /\ [][Undisturbed]_vars => []NoRequestBreaks
<1>1. Init => Whole
  BY DEF Init, Whole, PresentInv, Present, NoRequestBreaks, Idle
<1>2. IInv /\ Whole /\ [Next]_vars /\ [Undisturbed]_vars => Whole'
  <2> SUFFICES ASSUME IInv, Whole, [Next]_vars, [Undisturbed]_vars
               PROVE  Whole'
    OBVIOUS
  <2>1. CASE UNCHANGED vars
    BY <2>1, WholeOutside
  <2>2. CASE Next /\ Undisturbed
    <3>1. ASSUME NEW t \in Threads,
                 \/ ProjectMeta(t)
                 \/ PypiAnswers(t) \/ MetaArrives(t) \/ MetaUnavailable(t)
                 \/ Touch(t) \/ Drop(t)
                 \/ OsvAnswers(t) \/ OsvAnswersDegraded(t) \/ OsvArrives(t)
                 \/ SweepOne(t) \/ OsvFails(t)
          PROVE  Whole'
      BY <2>2, <3>1, WholeMeta, WholeAsk, WholeCache
    <3>2. ASSUME NEW t \in Threads, NEW c \in Configs,
                 \/ SimplePage(t, c)
                 \/ \E f \in Files : \/ FileAllowed(t, f, c)
                                     \/ DirectFile(t, f, c)
          PROVE  Whole'
      BY <2>2, <3>2, WholeBegin
    <3> QED
      BY <2>2, <3>1, <3>2, WholeOutside DEF Next
  <2> QED
    BY <2>1, <2>2
<1>3. Whole => NoRequestBreaks
  BY DEF Whole
<1> QED
  BY <1>1, <1>2, <1>3, Invariance, PTL DEF Spec
=============================================================================
