------------------------ MODULE VerdictCacheProofs -------------------------
(***************************************************************************)
(* VerdictCache is type-correct, no verdict outlives its TTL, and saved    *)
(* verdicts survive, for any number of threads, keys and entries and any   *)
(* TTLs, as long as a write of the file takes less than the interval.      *)
(***************************************************************************)
EXTENDS VerdictCache, FiniteSetTheorems, TLAPS

Writing == {"open", "write", "rename"}

\* OSV gave each of these verdicts when it is said to have, or again since.
Heard(entries, times, clock) ==
  \A k \in Keys : entries[k] # None =>
    entries[k].at <= times[k][entries[k].mal] /\ entries[k].at <= clock

\* The snapshot has whatever is in the cache from before it.
Covers(shot, d, clock) ==
  /\ shot.at <= clock
  /\ \A k \in Keys :
       d[k] # None /\ d[k].at < shot.at => shot.entries[k] = d[k]

HeardInv ==
  /\ \A k \in Keys, mal \in BOOLEAN : told[k][mal] <= now
  /\ Heard(data, told, now)
  /\ file \notin {None, Torn} => Heard(file.entries, told, now)
  /\ \A t \in Threads :
       thread[t].at \in Writing =>
         /\ thread[t].shot # None
         /\ Heard(thread[t].shot.entries, told, now)

\* One thread writes at a time, since its snapshot is the last one and too
\* recent for another.
WriterInv ==
  /\ \A t \in Threads : thread[t].at \in Writing =>
       /\ thread[t].shot # None
       /\ thread[t].shot.at = last /\ now - last <= WriteTime
       /\ thread[t].at = "write" => tmp = Torn
       /\ thread[t].at = "rename" => tmp = thread[t].shot
  /\ \A t, u \in Threads :
       thread[t].at \in Writing /\ thread[u].at \in Writing => t = u

SavedInv ==
  /\ file # Torn
  /\ file # None => Covers(file, data, now)
  /\ \A t \in Threads : thread[t].at \in Writing =>
       Covers(thread[t].shot, data, now)

\* What the limit leaves in the cache is what would be there without it.
LimitInv ==
  /\ \A k \in Keys : data[k] # None => data[k] = unbounded[k]
  /\ MaliciousOutlivesPressure

IInv == TypeOK /\ HeardInv /\ WriterInv /\ SavedInv /\ LimitInv

-----------------------------------------------------------------------------
(* Operators *)

\* What is left of a cache is a part of it.
LEMMA OnlyIsPart ==
  ASSUME NEW d \in Entries, NEW ks
  PROVE  /\ Only(d, ks) \in Entries
         /\ \A k \in Keys : Only(d, ks)[k] \in {None, d[k]}
  BY DEF Only, Entries

LEMMA TrimmedIsPart ==
  ASSUME NEW d \in Entries, NEW r \in Trimmed(d)
  PROVE  /\ r \in Entries
         /\ \A k \in Keys : r[k] \in {None, d[k]}
<1>1. r = d \/ \E ks \in SUBSET Keys : r = Only(d, ks)
  <2>1. Live(d) \subseteq Keys
    BY DEF Live
  <2> QED
    BY <2>1 DEF Trimmed
<1> QED
  BY <1>1, OnlyIsPart

LEMMA LoadedIsPart ==
  ASSUME TypeOK
  PROVE  /\ Loaded \in Entries
         /\ file \in {None, Torn} => Loaded = Nothing
         /\ file \notin {None, Torn} =>
              \A k \in Keys : Loaded[k] \in {None, file.entries[k]}
<1>1. CASE file \in {None, Torn}
  BY <1>1 DEF Loaded, Nothing, Entries
<1>2. CASE file \notin {None, Torn}
  <2>1. file.entries \in Entries
    BY <1>2 DEF TypeOK, Contents
  <2> QED
    BY <1>2, <2>1, OnlyIsPart DEF Loaded
<1> QED
  BY <1>1, <1>2

-----------------------------------------------------------------------------
(* Types *)

LEMMA InitTypeOK == Init => TypeOK
  BY TimesAssumption
     DEF Init, TypeOK, Never, Nothing, Idle, Entries, Places

LEMMA NextTypeOK == TypeOK /\ [Next]_vars => TypeOK'
<1> SUFFICES ASSUME TypeOK, [Next]_vars
             PROVE  TypeOK'
  OBVIOUS
<1> USE DEF TypeOK, Places
<1>1. ASSUME NEW t \in Threads, NEW ks \in SUBSET Keys, Ask(t, ks)
      PROVE  TypeOK'
  BY <1>1 DEF Ask, Idle, disk, history
<1>2. ASSUME NEW t \in Threads, NEW k \in Keys, NEW mal \in BOOLEAN,
             Store(t, k, mal)
      PROVE  TypeOK'
  <2> DEFINE entry == [mal |-> mal, at |-> now]
  <2>1. entry \in Entry
    BY DEF Entry
  <2>2. [data EXCEPT ![k] = entry] \in Entries
        /\ [unbounded EXCEPT ![k] = entry] \in Entries
    BY <2>1 DEF Entries
  <2>3. data' \in Entries /\ unbounded' \in Entries
    BY <1>2, <2>2, TrimmedIsPart DEF Store
  <2>4. thread' \in [Threads -> [at : Places, want : SUBSET Keys,
                                 shot : Contents \cup {None}]]
    BY <1>2 DEF Store, Idle
  <2>5. told' \in [Keys -> [BOOLEAN -> Int]]
    BY <1>2 DEF Store
  <2> QED
    BY <1>2, <2>3, <2>4, <2>5 DEF Store, disk
<1>3. ASSUME NEW t \in Threads, AskFails(t) \/ PersistSkips(t)
      PROVE  TypeOK'
  BY <1>3 DEF AskFails, PersistSkips, Stop, Idle, disk, history
<1>4. ASSUME NEW t \in Threads, Snapshot(t)
      PROVE  TypeOK'
  <2>1. data' \in Entries
    BY <1>4, OnlyIsPart DEF Snapshot
  <2>2. [at |-> now, entries |-> data'] \in Contents
    BY <2>1 DEF Contents
  <2>3. [Idle EXCEPT !.at = "open",
                     !.shot = [at |-> now, entries |-> data']]
          \in [at : Places, want : SUBSET Keys, shot : Contents \cup {None}]
    BY <2>2 DEF Idle
  <2>4. thread' \in [Threads -> [at : Places, want : SUBSET Keys,
                                 shot : Contents \cup {None}]]
    BY <1>4, <2>3 DEF Snapshot
  <2> QED
    BY <1>4, <2>1, <2>4 DEF Snapshot, disk, history
<1>5. ASSUME NEW t \in Threads, Open(t) \/ Write(t)
      PROVE  TypeOK'
  <2>1. tmp' \in Contents \cup {None, Torn}
    BY <1>5 DEF Open, Write
  <2> QED
    BY <1>5, <2>1 DEF Open, Write, Go, history
<1>6. ASSUME NEW t \in Threads, Rename(t) \/ WriteFails(t)
      PROVE  TypeOK'
  BY <1>6 DEF Rename, WriteFails, Stop, Idle, disk, history
<1>7. CASE Restart
  BY <1>7, LoadedIsPart, TimesAssumption DEF Restart, Idle, Never, disk
<1>8. CASE Tick
  BY <1>8 DEF Tick, disk, history
<1>9. CASE UNCHANGED vars
  BY <1>9 DEF vars
<1> QED
  BY <1>1, <1>2, <1>3, <1>4, <1>5, <1>6, <1>7, <1>8, <1>9 DEF Next

-----------------------------------------------------------------------------
(* What each step does to the parts of the invariant *)

LEMMA InitIInv == Init => IInv
<1> SUFFICES ASSUME Init PROVE IInv
  OBVIOUS
<1>1. TypeOK
  BY InitTypeOK
<1>2. Never \in Int /\ Never <= 0
  BY TimesAssumption DEF Never
<1>3. HeardInv
  BY <1>2 DEF Init, HeardInv, Heard, Idle, Nothing, Writing
<1>4. WriterInv /\ SavedInv
  BY TornAssumption DEF Init, WriterInv, SavedInv, Covers, Idle, Writing
<1>5. LimitInv
  BY <1>1 DEF Init, LimitInv, MaliciousOutlivesPressure, Nothing, Fresh
<1> QED
  BY <1>1, <1>3, <1>4, <1>5 DEF IInv

\* The steps after which their thread does not write.
Quiet(t) ==
  \/ \E ks \in SUBSET Keys : Ask(t, ks)
  \/ \E k \in Keys, mal \in BOOLEAN : Store(t, k, mal)
  \/ AskFails(t) \/ PersistSkips(t) \/ WriteFails(t) \/ Rename(t)

LEMMA OldWriters ==
  ASSUME TypeOK, NEW t \in Threads, Quiet(t),
         NEW u \in Threads, thread'[u].at \in Writing
  PROVE  u # t /\ thread'[u] = thread[u]
<1> USE DEF TypeOK, Writing
<1>1. ASSUME NEW ks \in SUBSET Keys, Ask(t, ks)
      PROVE  u # t /\ thread'[u] = thread[u]
  BY <1>1 DEF Ask, Idle
<1>2. ASSUME NEW k \in Keys, NEW mal \in BOOLEAN, Store(t, k, mal)
      PROVE  u # t /\ thread'[u] = thread[u]
  BY <1>2 DEF Store, Idle
<1>3. CASE AskFails(t) \/ PersistSkips(t) \/ WriteFails(t) \/ Rename(t)
  BY <1>3 DEF AskFails, PersistSkips, WriteFails, Rename, Stop, Idle
<1> QED
  BY <1>1, <1>2, <1>3 DEF Quiet

\* A verdict that OSV gave at some time stays given, and the clock does not
\* go back.
Times == [Keys -> [BOOLEAN -> Int]]

LEMMA HeardStays ==
  ASSUME NEW old \in Times, NEW new \in Times, NEW c \in Nat, NEW n \in Nat,
         c <= n, \A k \in Keys, mal \in BOOLEAN : old[k][mal] <= new[k][mal],
         NEW d \in Entries, Heard(d, old, c),
         NEW e \in Entries, \A k \in Keys : e[k] \in {None, d[k]}
  PROVE  Heard(e, new, n)
<1> SUFFICES ASSUME NEW k \in Keys, e[k] # None
             PROVE  e[k].at <= new[k][e[k].mal] /\ e[k].at <= n
  BY DEF Heard
<1>1. e[k] = d[k] /\ d[k] # None
  OBVIOUS
<1>2. d[k].mal \in BOOLEAN /\ d[k].at \in Nat
  BY <1>1 DEF Entries, Entry
<1>3. d[k].at <= old[k][d[k].mal] /\ d[k].at <= c
  BY <1>1 DEF Heard
<1>4. old[k][d[k].mal] <= new[k][d[k].mal]
  BY <1>2
<1>5. old[k][d[k].mal] \in Int /\ new[k][d[k].mal] \in Int
  BY <1>2 DEF Times
<1> QED
  BY <1>1, <1>2, <1>3, <1>4, <1>5

\* Every entry, wherever it is, has the time of an answer of OSV.
LEMMA NextHeardInv == IInv /\ TypeOK' /\ [Next]_vars => HeardInv'
<1> SUFFICES ASSUME IInv, TypeOK', [Next]_vars
             PROVE  HeardInv'
  OBVIOUS
<1> USE DEF IInv, Writing
<1>1. TypeOK /\ HeardInv
  OBVIOUS
<1>2. /\ told \in Times /\ told' \in Times /\ now \in Nat /\ now' \in Nat
      /\ data \in Entries /\ data' \in Entries
      /\ \A t \in Threads : thread[t].shot # None =>
           thread[t].shot.entries \in Entries
      /\ file \notin {None, Torn} => file.entries \in Entries
  BY DEF TypeOK, Times, Contents
<1>3. /\ \A k \in Keys : data[k] \in {None, data[k]}
      /\ \A d \in Entries : \A k \in Keys : d[k] \in {None, d[k]}
  OBVIOUS
<1>4. ASSUME NEW t \in Threads, NEW ks \in SUBSET Keys,
             Ask(t, ks) \/ AskFails(t) \/ PersistSkips(t) \/ WriteFails(t)
      PROVE  HeardInv'
  <2>1. UNCHANGED <<now, told, data, file>>
    BY <1>4 DEF Ask, AskFails, PersistSkips, WriteFails, disk, history
  <2>2. \A u \in Threads : thread'[u].at \in Writing =>
          thread'[u] = thread[u]
    BY <1>1, <1>4, OldWriters DEF Quiet
  <2> QED
    BY <1>1, <2>1, <2>2 DEF HeardInv
<1>5. ASSUME NEW t \in Threads, Open(t) \/ Write(t)
      PROVE  HeardInv'
  BY <1>1, <1>5 DEF HeardInv, Open, Write, Go, history, TypeOK
<1>6. ASSUME NEW t \in Threads, NEW k \in Keys, NEW mal \in BOOLEAN,
             Store(t, k, mal)
      PROVE  HeardInv'
  <2> DEFINE entry == [mal |-> mal, at |-> now]
             all == [data EXCEPT ![k] = entry]
  <2>1. now' = now /\ UNCHANGED disk /\ told' = [told EXCEPT ![k][mal] = now]
    BY <1>6 DEF Store
  <2>2. /\ \A j \in Keys, m \in BOOLEAN : told[j][m] <= told'[j][m]
        /\ \A j \in Keys, m \in BOOLEAN : told'[j][m] <= now'
        /\ told'[k][mal] = now /\ now <= now'
    BY <1>1, <1>2, <2>1 DEF HeardInv, Times
  <2>3. all \in Entries
    BY <1>2 DEF Entries, Entry
  <2>4. Heard(data, told', now)
    BY <1>1, <1>2, <1>3, <2>2, HeardStays DEF HeardInv
  <2>5. Heard(all, told', now)
    BY <1>2, <2>2, <2>4 DEF Heard, Entries
  <2>6. data' \in Trimmed(all)
    BY <1>6 DEF Store
  <2>7. \A j \in Keys : data'[j] \in {None, all[j]}
    BY <2>3, <2>6, TrimmedIsPart
  <2>8. Heard(data', told', now')
    BY <2>1, <2>5, <2>7 DEF Heard
  <2>9. file' \notin {None, Torn} => Heard(file'.entries, told', now')
    <3>1. file' = file
      BY <2>1 DEF disk
    <3> QED
      BY <1>1, <1>2, <1>3, <2>2, <3>1, HeardStays DEF HeardInv
  <2>10. \A u \in Threads : thread'[u].at \in Writing =>
           thread'[u] = thread[u]
    BY <1>1, <1>6, OldWriters DEF Quiet
  <2>11. \A u \in Threads : thread'[u].at \in Writing =>
           /\ thread'[u].shot # None
           /\ Heard(thread'[u].shot.entries, told', now')
    <3> SUFFICES ASSUME NEW u \in Threads, thread'[u].at \in Writing
                 PROVE  /\ thread'[u].shot # None
                        /\ Heard(thread'[u].shot.entries, told', now')
      OBVIOUS
    <3>1. /\ thread'[u] = thread[u] /\ thread[u].shot # None
          /\ Heard(thread[u].shot.entries, told, now)
      BY <1>1, <2>10 DEF HeardInv
    <3> QED
      BY <1>2, <1>3, <2>2, <3>1, HeardStays
  <2> QED
    BY <2>2, <2>8, <2>9, <2>11 DEF HeardInv
<1>7. ASSUME NEW t \in Threads, Snapshot(t)
      PROVE  HeardInv'
  <2>1. UNCHANGED <<now, told, file>>
    BY <1>7 DEF Snapshot, disk, history
  <2>2. \A k \in Keys : data'[k] \in {None, data[k]}
    BY <1>2, <1>7, OnlyIsPart DEF Snapshot
  <2>3. Heard(data', told', now')
    BY <1>1, <2>1, <2>2 DEF HeardInv, Heard
  <2>4. /\ thread'[t].shot = [at |-> now, entries |-> data']
        /\ \A u \in Threads \ {t} : thread'[u] = thread[u]
    BY <1>1, <1>7 DEF Snapshot, Idle, TypeOK
  <2>5. thread'[t].shot # None /\ Heard(thread'[t].shot.entries, told', now')
    <3>1. [at |-> now, entries |-> data'] \in Contents
      BY <1>2 DEF Contents
    <3> QED
      BY <2>3, <2>4, <3>1, TornAssumption
  <2> QED
    BY <1>1, <2>1, <2>3, <2>4, <2>5 DEF HeardInv
<1>8. ASSUME NEW t \in Threads, Rename(t)
      PROVE  HeardInv'
  <2>1. file' = thread[t].shot /\ thread[t].at \in Writing
    BY <1>8 DEF Rename, WriterInv
  <2>2. \A u \in Threads : thread'[u].at \in Writing =>
          thread'[u] = thread[u]
    BY <1>1, <1>8, OldWriters DEF Quiet
  <2> QED
    BY <1>1, <1>8, <2>1, <2>2 DEF HeardInv, Rename, history
<1>9. CASE Restart
  <2>1. UNCHANGED <<now, told, file>> /\ data' = Loaded
    BY <1>9 DEF Restart, disk
  <2>2. Heard(data', told', now')
    BY <1>1, <2>1, LoadedIsPart DEF HeardInv, Heard, Nothing
  <2>3. \A u \in Threads : thread'[u].at \notin Writing
    BY <1>9 DEF Restart, Idle
  <2> QED
    BY <1>1, <2>1, <2>2, <2>3 DEF HeardInv
<1>10. CASE Tick
  <2>1. UNCHANGED <<data, file, thread, told>> /\ now <= now'
    BY <1>2, <1>10 DEF Tick, disk, history
  <2>2. \A k \in Keys, mal \in BOOLEAN : told[k][mal] <= told'[k][mal]
    BY <1>2, <2>1 DEF Times
  <2>3. \A k \in Keys, mal \in BOOLEAN : told'[k][mal] <= now'
    BY <1>1, <1>2, <2>1 DEF HeardInv, Times
  <2>4. Heard(data', told', now')
    BY <1>1, <1>2, <1>3, <2>1, <2>2, HeardStays DEF HeardInv
  <2>5. file' \notin {None, Torn} => Heard(file'.entries, told', now')
    BY <1>1, <1>2, <1>3, <2>1, <2>2, HeardStays DEF HeardInv
  <2>6. \A u \in Threads : thread'[u].at \in Writing =>
          /\ thread'[u].shot # None
          /\ Heard(thread'[u].shot.entries, told', now')
    BY <1>1, <1>2, <1>3, <2>1, <2>2, HeardStays DEF HeardInv
  <2> QED
    BY <2>3, <2>4, <2>5, <2>6 DEF HeardInv
<1>11. CASE UNCHANGED vars
  BY <1>1, <1>11 DEF HeardInv, vars
<1> QED
  BY <1>4, <1>5, <1>6, <1>7, <1>8, <1>9, <1>10, <1>11 DEF Next

\* At most one thread writes, and what it leaves of the temporary file is its
\* own.
LEMMA NextWriterInv == IInv /\ TypeOK' /\ [Next]_vars => WriterInv'
<1> SUFFICES ASSUME IInv, TypeOK', [Next]_vars
             PROVE  WriterInv'
  OBVIOUS
<1> USE DEF Writing
<1>1. TypeOK /\ WriterInv
  BY DEF IInv
<1>2. ASSUME NEW t \in Threads, Quiet(t)
      PROVE  WriterInv'
  <2>1. UNCHANGED <<now, last>>
    BY <1>2 DEF Quiet, Ask, Store, AskFails, PersistSkips, WriteFails, Rename,
                disk
  <2>2. \A u \in Threads : thread'[u].at \in Writing =>
          u # t /\ thread'[u] = thread[u]
    BY <1>1, <1>2, OldWriters
  <2>3. tmp' = tmp \/ thread[t].at = "rename"
    BY <1>2 DEF Quiet, Ask, Store, AskFails, PersistSkips, WriteFails, Rename,
                disk
  <2> QED
    BY <1>1, <2>1, <2>2, <2>3 DEF WriterInv
<1>3. ASSUME NEW t \in Threads, Snapshot(t)
      PROVE  WriterInv'
  <2>1. \A u \in Threads : thread[u].at \notin Writing
    BY <1>1, <1>3, TimesAssumption DEF WriterInv, Snapshot, TypeOK
  <2>2. /\ thread'[t].shot = [at |-> now, entries |-> data']
        /\ thread'[t].at = "open"
        /\ \A u \in Threads \ {t} : thread'[u] = thread[u]
    BY <1>1, <1>3 DEF Snapshot, Idle, TypeOK
  <2>3. thread'[t].shot # None
    <3>1. [at |-> now, entries |-> data'] \in Contents
      BY <1>1 DEF TypeOK, Contents
    <3> QED
      BY <2>2, <3>1, TornAssumption
  <2>4. thread'[t].shot.at = last' /\ now' - last' <= WriteTime
    BY <1>1, <1>3, <2>2, TimesAssumption DEF Snapshot, TypeOK
  <2>5. \A u \in Threads : thread'[u].at \in Writing => u = t
    BY <2>1, <2>2
  <2> QED
    BY <2>2, <2>3, <2>4, <2>5 DEF WriterInv
<1>4. ASSUME NEW t \in Threads, Open(t) \/ Write(t)
      PROVE  WriterInv'
  <2>1. UNCHANGED <<now, last>>
    BY <1>4 DEF Open, Write
  <2>2. thread[t].at \in Writing /\ thread'[t].shot = thread[t].shot
    BY <1>1, <1>4 DEF Open, Write, Go, TypeOK
  <2>3. \A u \in Threads \ {t} :
          thread'[u] = thread[u] /\ thread[u].at \notin Writing
    BY <1>1, <1>4, <2>2 DEF Open, Write, Go, TypeOK, WriterInv
  <2>4. CASE Open(t)
    <3>1. thread'[t].at = "write" /\ tmp' = Torn
      BY <1>1, <2>4 DEF Open, Go, TypeOK
    <3> QED
      BY <1>1, <2>1, <2>2, <2>3, <3>1 DEF WriterInv
  <2>5. CASE Write(t)
    <3>1. thread[t].at = "write" /\ tmp = Torn /\ tmp # None
      BY <1>1, <2>5, TornAssumption DEF Write, WriterInv
    <3>2. thread'[t].at = "rename" /\ tmp' = thread[t].shot
      BY <1>1, <2>3, <2>5, <3>1 DEF Write, Go, TypeOK
    <3> QED
      BY <1>1, <2>1, <2>2, <2>3, <3>2 DEF WriterInv
  <2> QED
    BY <1>4, <2>4, <2>5
<1>5. CASE Restart
  BY <1>5 DEF Restart, Idle, WriterInv
<1>6. CASE Tick
  <2>1. UNCHANGED <<last, tmp, thread>> /\ now' = now + 1
    BY <1>6 DEF Tick, disk
  <2>2. \A t \in Threads : thread[t].at \in Writing =>
          now' - last' <= WriteTime
    <3> SUFFICES ASSUME NEW t \in Threads, thread[t].at \in Writing
                 PROVE  now' - last' <= WriteTime
      OBVIOUS
    <3>1. now - last < WriteTime
      BY <1>1, <1>6 DEF Tick, WriterInv
    <3> QED
      BY <1>1, <2>1, <3>1, TimesAssumption DEF TypeOK
  <2> QED
    BY <1>1, <2>1, <2>2 DEF WriterInv
<1>7. CASE UNCHANGED vars
  BY <1>1, <1>7 DEF WriterInv, vars
<1> QED
  BY <1>2, <1>3, <1>4, <1>5, <1>6, <1>7 DEF Next, Quiet

\* A snapshot covers what becomes of the cache, as long as all that is new is
\* of now or later.
LEMMA CoversStays ==
  ASSUME NEW c \in Contents, NEW n \in Nat, NEW m \in Nat, n <= m,
         NEW d \in Entries, Covers(c, d, n),
         NEW e \in Entries,
         \A k \in Keys : e[k] \in {None, d[k]} \/ e[k].at >= n
  PROVE  Covers(c, e, m)
<1>1. c.at \in Nat /\ c.at <= n /\ c.at <= m
  BY DEF Contents, Covers
<1>2. ASSUME NEW k \in Keys, e[k] # None, e[k].at < c.at
      PROVE  c.entries[k] = e[k]
  <2>1. e[k].at \in Nat
    BY <1>2 DEF Entries, Entry
  <2>2. e[k] = d[k]
    BY <1>1, <1>2, <2>1
  <2> QED
    BY <1>2, <2>2 DEF Covers
<1> QED
  BY <1>1, <1>2 DEF Covers

\* The file, and the snapshot on its way to it, cover the cache.
LEMMA NextSavedInv == IInv /\ TypeOK' /\ [Next]_vars => SavedInv'
<1> SUFFICES ASSUME IInv, TypeOK', [Next]_vars
             PROVE  SavedInv'
  OBVIOUS
<1> USE DEF Writing
<1>1. TypeOK /\ WriterInv /\ SavedInv
  BY DEF IInv
<1>2. /\ now \in Nat /\ now' \in Nat /\ data \in Entries /\ data' \in Entries
      /\ file # None => file \in Contents
      /\ \A t \in Threads :
           thread[t].at \in Writing => thread[t].shot \in Contents
  BY <1>1 DEF TypeOK, SavedInv, WriterInv
<1>3. ASSUME now <= now', file' = file,
             \A k \in Keys :
               data'[k] \in {None, data[k]} \/ data'[k].at >= now,
             \A t \in Threads :
               thread'[t].at \in Writing =>
                 thread[t].at \in Writing /\ thread'[t].shot = thread[t].shot
      PROVE  SavedInv'
  <2>1. file' # None => Covers(file', data', now')
    BY <1>1, <1>2, <1>3, CoversStays DEF SavedInv
  <2>2. \A t \in Threads : thread'[t].at \in Writing =>
          Covers(thread'[t].shot, data', now')
    BY <1>1, <1>2, <1>3, CoversStays DEF SavedInv
  <2> QED
    BY <1>1, <1>3, <2>1, <2>2 DEF SavedInv
<1>4. ASSUME NEW t \in Threads, NEW ks \in SUBSET Keys,
             Ask(t, ks) \/ AskFails(t) \/ PersistSkips(t) \/ WriteFails(t)
      PROVE  SavedInv'
  <2>1. UNCHANGED <<now, data, file>>
    BY <1>4 DEF Ask, AskFails, PersistSkips, WriteFails, disk
  <2>2. \A u \in Threads : thread'[u].at \in Writing =>
          thread'[u] = thread[u]
    BY <1>1, <1>4, OldWriters DEF Quiet
  <2> QED
    BY <1>1, <2>1, <2>2 DEF SavedInv
<1>5. ASSUME NEW t \in Threads, NEW k \in Keys, NEW mal \in BOOLEAN,
             Store(t, k, mal)
      PROVE  SavedInv'
  <2> DEFINE entry == [mal |-> mal, at |-> now]
             all == [data EXCEPT ![k] = entry]
  <2>1. now' = now /\ file' = file
    BY <1>5 DEF Store, disk
  <2>2. \A u \in Threads : thread'[u].at \in Writing =>
          thread'[u] = thread[u]
    BY <1>1, <1>5, OldWriters DEF Quiet
  <2>3. all \in Entries
    BY <1>2 DEF Entries, Entry
  <2>4. \A j \in Keys : data'[j] \in {None, all[j]}
    BY <1>5, <2>3, TrimmedIsPart DEF Store
  <2>5. \A j \in Keys : all[j] = data[j] \/ all[j].at = now
    BY <1>2 DEF Entries
  <2>6. \A j \in Keys : data'[j] \in {None, data[j]} \/ data'[j].at >= now
    BY <1>2, <2>4, <2>5
  <2> QED
    BY <1>2, <1>3, <2>1, <2>2, <2>6
<1>6. ASSUME NEW t \in Threads, Snapshot(t)
      PROVE  SavedInv'
  <2>1. now' = now /\ file' = file
    BY <1>6 DEF Snapshot, disk
  <2>2. \A k \in Keys : data'[k] \in {None, data[k]}
    BY <1>2, <1>6, OnlyIsPart DEF Snapshot
  <2>3. file' # None => Covers(file', data', now')
    BY <1>1, <1>2, <2>1, <2>2, CoversStays DEF SavedInv
  <2>4. /\ thread'[t].shot = [at |-> now, entries |-> data']
        /\ \A u \in Threads \ {t} : thread'[u] = thread[u]
    BY <1>1, <1>6 DEF Snapshot, Idle, TypeOK
  <2>5. Covers(thread'[t].shot, data', now')
    BY <1>2, <2>1, <2>4 DEF Covers
  <2>6. \A u \in Threads \ {t} : thread[u].at \in Writing =>
          Covers(thread[u].shot, data', now')
    BY <1>1, <1>2, <2>1, <2>2, CoversStays DEF SavedInv
  <2> QED
    BY <1>1, <2>1, <2>3, <2>4, <2>5, <2>6 DEF SavedInv
<1>7. ASSUME NEW t \in Threads, Open(t) \/ Write(t)
      PROVE  SavedInv'
  <2>1. UNCHANGED <<now, data, file>>
    BY <1>7 DEF Open, Write
  <2>2. \A u \in Threads : thread'[u].at \in Writing =>
          thread[u].at \in Writing /\ thread'[u].shot = thread[u].shot
    BY <1>1, <1>7 DEF Open, Write, Go, TypeOK
  <2> QED
    BY <1>1, <2>1, <2>2 DEF SavedInv
<1>8. ASSUME NEW t \in Threads, Rename(t)
      PROVE  SavedInv'
  <2>1. /\ UNCHANGED <<now, data>>
        /\ file' = thread[t].shot /\ thread[t].at \in Writing
    BY <1>1, <1>8 DEF Rename, WriterInv
  <2>2. file' # Torn /\ Covers(file', data', now')
    BY <1>1, <1>2, <2>1, TornAssumption DEF SavedInv
  <2>3. \A u \in Threads : thread'[u].at \in Writing =>
          thread'[u] = thread[u]
    BY <1>1, <1>8, OldWriters DEF Quiet
  <2> QED
    BY <1>1, <2>1, <2>2, <2>3 DEF SavedInv
<1>9. CASE Restart
  <2>1. now' = now /\ file' = file /\ data' = Loaded
    BY <1>9 DEF Restart, disk
  <2>2. file' # None => Covers(file', data', now')
    BY <1>1, <2>1, LoadedIsPart DEF SavedInv, Covers
  <2>3. \A u \in Threads : thread'[u].at \notin Writing
    BY <1>9 DEF Restart, Idle
  <2> QED
    BY <1>1, <2>1, <2>2, <2>3 DEF SavedInv
<1>10. CASE Tick
  <2>1. UNCHANGED <<data, file, thread>> /\ now <= now'
    BY <1>2, <1>10 DEF Tick, disk
  <2> QED
    BY <1>3, <2>1
<1>11. CASE UNCHANGED vars
  BY <1>1, <1>11 DEF SavedInv, vars
<1> QED
  BY <1>4, <1>5, <1>6, <1>7, <1>8, <1>9, <1>10, <1>11 DEF Next

\* Those a key was evicted for were called malicious since.
MalSince(times, k, at) == {j \in Keys \ {k} : times[j][TRUE] >= at}

\* Two facts of arithmetic, for leaves that are first-order otherwise.
LEMMA AtLeastStays ==
  ASSUME NEW a \in Int, NEW b \in Int, NEW c \in Int, a <= b, a >= c
  PROVE  b >= c
  OBVIOUS

LEMMA AtLeastTransitive ==
  ASSUME NEW a \in Int, NEW b \in Int, NEW c \in Int, a >= b, c <= b
  PROVE  a >= c
  OBVIOUS

LEMMA MalSinceGrows ==
  ASSUME NEW old \in Times, NEW new \in Times,
         \A k \in Keys, mal \in BOOLEAN : old[k][mal] <= new[k][mal],
         NEW k \in Keys, NEW at \in Nat,
         Cardinality(MalSince(old, k, at)) >= MaxEntries
  PROVE  Cardinality(MalSince(new, k, at)) >= MaxEntries
<1>1. MalSince(old, k, at) \subseteq MalSince(new, k, at)
  <2> SUFFICES ASSUME NEW j \in Keys \ {k}, old[j][TRUE] >= at
               PROVE  new[j][TRUE] >= at
    BY DEF MalSince
  <2>1. old[j][TRUE] \in Int /\ new[j][TRUE] \in Int
    BY DEF Times
  <2>2. old[j][TRUE] <= new[j][TRUE]
    OBVIOUS
  <2>3. at \in Int
    OBVIOUS
  <2> QED
    BY <2>1, <2>2, <2>3, AtLeastStays, Zenon
<1>2. IsFiniteSet(MalSince(new, k, at)) /\ IsFiniteSet(MalSince(old, k, at))
  <2>1. /\ MalSince(new, k, at) \subseteq Keys
        /\ MalSince(old, k, at) \subseteq Keys
    BY DEF MalSince
  <2> QED
    BY <2>1, FS_Subset, LimitAssumption
<1>3. /\ Cardinality(MalSince(old, k, at)) \in Nat
      /\ Cardinality(MalSince(new, k, at)) \in Nat
      /\ Cardinality(MalSince(old, k, at)) <= Cardinality(MalSince(new, k, at))
  BY <1>1, <1>2, FS_Subset, FS_CardinalityType
<1> QED
  BY <1>3, LimitAssumption

\* The limit takes a fresh malicious verdict from the cache only for as many
\* others, all as new.
LEMMA EvictedForMalicious ==
  ASSUME now \in Nat, NEW d \in Entries, NEW r \in Trimmed(d), NEW k \in Keys,
         Fresh(d[k]), d[k].mal, r[k] = None
  PROVE  \E ks \in SUBSET (Keys \ {k}) :
           /\ Cardinality(ks) = MaxEntries
           /\ \A j \in ks : d[j] # None /\ d[j].mal /\ d[j].at >= d[k].at
<1>1. k \in Live(d) /\ d[k] # None
  BY DEF Live, Fresh
<1>2. PICK ks \in SUBSET Live(d) :
        /\ r = Only(d, ks) /\ Cardinality(ks) = MaxEntries
        /\ \A i \in Live(d) \ ks, j \in ks : GoesBefore(d[i], d[j])
  BY <1>1 DEF Trimmed, Only
<1>3. k \notin ks
  BY <1>1, <1>2 DEF Only
<1>4. \A j \in ks : d[j] # None /\ d[j] \in Entry /\ d[k] \in Entry
  BY <1>1 DEF Live, Fresh, Entries
<1>5. \A j \in ks : d[j].mal /\ d[j].at >= d[k].at
  BY <1>1, <1>2, <1>3, <1>4 DEF GoesBefore, Entry
<1>6. ks \in SUBSET (Keys \ {k})
  BY <1>3 DEF Live
<1> QED
  BY <1>2, <1>4, <1>5, <1>6

LEMMA NextLimitInv == IInv /\ TypeOK' /\ HeardInv' /\ [Next]_vars => LimitInv'
<1> SUFFICES ASSUME IInv, TypeOK', HeardInv', [Next]_vars
             PROVE  LimitInv'
  OBVIOUS
<1>1. TypeOK /\ HeardInv /\ LimitInv
  BY DEF IInv
<1>2. /\ told \in Times /\ told' \in Times /\ now \in Nat /\ now' \in Nat
      /\ data \in Entries /\ unbounded \in Entries
  BY <1>1 DEF TypeOK, Times
<1> USE DEF LimitInv
<1>3. ASSUME UNCHANGED <<now, told, unbounded, data>>
      PROVE  LimitInv'
  BY <1>1, <1>3 DEF MaliciousOutlivesPressure, Fresh
<1>4. ASSUME NEW t \in Threads, NEW ks \in SUBSET Keys,
             \/ Ask(t, ks) \/ AskFails(t) \/ PersistSkips(t) \/ WriteFails(t)
             \/ Open(t) \/ Write(t) \/ Rename(t)
      PROVE  LimitInv'
  BY <1>3, <1>4 DEF Ask, AskFails, PersistSkips, WriteFails, Open, Write,
                    Rename, history
<1>5. ASSUME NEW t \in Threads, NEW k \in Keys, NEW mal \in BOOLEAN,
             Store(t, k, mal)
      PROVE  LimitInv'
  <2> DEFINE entry == [mal |-> mal, at |-> now]
             all == [data EXCEPT ![k] = entry]
  <2>1. /\ now' = now /\ told' = [told EXCEPT ![k][mal] = now]
        /\ unbounded' = [unbounded EXCEPT ![k] = entry]
        /\ data' \in Trimmed(all)
    BY <1>5 DEF Store
  <2>2. all \in Entries
    BY <1>2 DEF Entries, Entry
  <2>3. \A j \in Keys : data'[j] \in {None, all[j]}
    BY <2>1, <2>2, TrimmedIsPart
  <2>4. \A j \in Keys : all[j] # None => all[j] = unbounded'[j]
    BY <1>1, <1>2, <2>1 DEF Entries
  <2>5. \A j \in Keys, m \in BOOLEAN : told[j][m] <= told'[j][m]
    BY <1>1, <1>2, <2>1 DEF HeardInv, Times
  <2>6. ASSUME NEW j \in Keys, unbounded'[j] # None,
               now' - unbounded'[j].at < Ttl(unbounded'[j].mal),
               unbounded'[j].mal, data'[j] = None
        PROVE  Cardinality(MalSince(told', j, unbounded'[j].at)) >= MaxEntries
    <3>1. unbounded'[j] \in Entry /\ unbounded'[j].at \in Nat
      BY <2>6 DEF TypeOK, Entries, Entry
    <3>2. CASE all[j] = None
      <4>1. j # k /\ data[j] = None /\ unbounded'[j] = unbounded[j]
        BY <1>2, <2>1, <3>2, NoneAssumption DEF Entries, Entry
      <4>2. Cardinality(MalSince(told, j, unbounded[j].at)) >= MaxEntries
        BY <1>1, <2>1, <2>6, <4>1
           DEF MaliciousOutlivesPressure, MalSince, Fresh
      <4> QED
        BY <1>2, <2>5, <3>1, <4>1, <4>2, MalSinceGrows
    <3>3. CASE all[j] # None
      <4>1. all[j] = unbounded'[j]
        BY <2>4, <3>3
      <4>2. Fresh(all[j]) /\ all[j].mal
        BY <2>1, <2>6, <4>1 DEF Fresh
      <4>3. PICK ks \in SUBSET (Keys \ {j}) :
              /\ Cardinality(ks) = MaxEntries
              /\ \A i \in ks : all[i] # None /\ all[i].mal
                               /\ all[i].at >= all[j].at
        BY <1>2, <2>1, <2>2, <2>6, <4>2, EvictedForMalicious
      <4>4. \A i \in ks : told'[i][TRUE] >= unbounded'[j].at
        <5> SUFFICES ASSUME NEW i \in ks PROVE told'[i][TRUE] >= all[j].at
          BY <4>1
        <5>1. /\ all[i] \in Entry /\ all[i].mal = TRUE /\ all[i].at \in Nat
              /\ all[i].at >= all[j].at /\ i \in Keys
          BY <2>2, <4>3 DEF Entries, Entry
        <5>2. told'[i][TRUE] >= all[i].at
          <6>1. CASE i = k
            <7>1. all[i] = entry
              BY <1>2, <6>1 DEF Entries
            <7>2. mal = TRUE /\ all[i].at = now
              BY <5>1, <7>1
            <7>3. told'[k][mal] >= now
              BY <1>2, <2>1 DEF Times
            <7> QED
              BY <6>1, <7>2, <7>3, Zenon
          <6>2. CASE i # k
            <7>1. all[i] = data[i] /\ data[i] # None
              BY <1>2, <4>3, <6>2 DEF Entries
            <7>2. told[i][TRUE] >= data[i].at
              <8>1. data[i].mal = TRUE
                BY <5>1, <7>1
              <8>2. data[i].at <= told[i][data[i].mal]
                BY <1>1, <5>1, <7>1 DEF HeardInv, Heard
              <8> QED
                BY <1>2, <5>1, <7>1, <8>1, <8>2 DEF Times
            <7>3. told[i][TRUE] <= told'[i][TRUE]
              BY <2>5, <5>1
            <7>4. told[i][TRUE] \in Int /\ told'[i][TRUE] \in Int
              BY <1>2, <5>1 DEF Times
            <7>5. all[i].at \in Int
              BY <5>1
            <7>6. told[i][TRUE] >= all[i].at
              BY <7>1, <7>2, Zenon
            <7> QED
              BY <7>3, <7>4, <7>5, <7>6, AtLeastStays, Zenon
          <6> QED
            BY <6>1, <6>2
        <5>3. /\ all[j].at <= all[i].at /\ all[i].at \in Int
              /\ all[j].at \in Int
          BY <3>1, <4>1, <5>1
        <5>4. told'[i][TRUE] \in Int
          BY <1>2, <5>1 DEF Times
        <5> QED
          BY <5>2, <5>3, <5>4, AtLeastTransitive, Zenon
      <4>5. ks \subseteq MalSince(told', j, unbounded'[j].at)
        BY <4>3, <4>4 DEF MalSince
      <4>6. IsFiniteSet(MalSince(told', j, unbounded'[j].at))
        BY FS_Subset, LimitAssumption DEF MalSince
      <4>7. /\ Cardinality(ks)
                 <= Cardinality(MalSince(told', j, unbounded'[j].at))
            /\ Cardinality(MalSince(told', j, unbounded'[j].at)) \in Nat
        BY <4>5, <4>6, FS_Subset, FS_CardinalityType
      <4> QED
        BY <4>3, <4>7, LimitAssumption
    <3> QED
      BY <3>2, <3>3
  <2>7. MaliciousOutlivesPressure'
    BY <2>6 DEF MaliciousOutlivesPressure, MalSince, Fresh
  <2> QED
    BY <2>3, <2>4, <2>7
<1>6. ASSUME NEW t \in Threads, Snapshot(t)
      PROVE  LimitInv'
  <2>1. UNCHANGED <<now, told, unbounded>> /\ data' = Only(data, Live(data))
    BY <1>6 DEF Snapshot, history
  <2>2. \A k \in Keys :
          data'[k] = data[k] \/ (data'[k] = None /\ ~Fresh(data[k]))
    BY <1>2, <2>1 DEF Only, Live
  <2> QED
    BY <1>1, <2>1, <2>2 DEF MaliciousOutlivesPressure, Fresh
<1>7. CASE Restart
  BY <1>7 DEF Restart, MaliciousOutlivesPressure, Fresh
<1>8. CASE Tick
  <2>1. UNCHANGED <<data, told, unbounded>> /\ now' = now + 1
    BY <1>8 DEF Tick, history
  <2>2. \A k \in Keys : Fresh(unbounded[k])' => Fresh(unbounded[k])
    BY <1>2, <2>1, TimesAssumption DEF Fresh, Entries, Entry, Ttl
  <2> QED
    BY <1>1, <2>1, <2>2 DEF MaliciousOutlivesPressure
<1>9. CASE UNCHANGED vars
  BY <1>3, <1>9 DEF vars
<1> QED
  BY <1>4, <1>5, <1>6, <1>7, <1>8, <1>9 DEF Next

-----------------------------------------------------------------------------
(* Theorems *)

LEMMA NextIInv == IInv /\ [Next]_vars => IInv'
  BY NextTypeOK, NextHeardInv, NextWriterInv, NextSavedInv, NextLimitInv
     DEF IInv

\* The inductive invariant holds in every reachable state, whatever fails and
\* whenever the process ends (osv.py, _VerdictCache).
THEOREM Invariance == Spec => []IInv
  BY InitIInv, NextIInv, PTL DEF Spec

\* The variables keep their types, for all values of the constants.
THEOREM TypeCorrect == Spec => []TypeOK
<1>1. IInv => TypeOK
  BY DEF IInv
<1> QED
  BY <1>1, Invariance, PTL

\* No verdict is given out later than its TTL after OSV gave it, over any
\* number of snapshots and restarts (get, persist and _load).
THEOREM VerdictsExpireHolds == Spec => []VerdictsExpire
<1>1. IInv => VerdictsExpire
  <2> SUFFICES ASSUME IInv, NEW k \in Keys, Get(k) # None
               PROVE  now - told[k][Get(k).mal] < Ttl(Get(k).mal)
    BY DEF VerdictsExpire
  <2>1. Get(k) = data[k] /\ data[k] # None /\ data[k] \in Entry
    BY DEF Get, IInv, TypeOK, Entries
  <2>2. now - data[k].at < Ttl(data[k].mal)
    BY <2>1 DEF Get, Fresh
  <2>3. data[k].at <= told[k][data[k].mal]
    BY <2>1 DEF IInv, HeardInv, Heard
  <2>4. /\ now \in Nat /\ data[k].at \in Nat
        /\ told[k][data[k].mal] \in Int /\ Ttl(data[k].mal) \in Nat
    BY <2>1, TimesAssumption DEF IInv, TypeOK, Entry, Ttl
  <2> QED
    BY <2>1, <2>2, <2>3, <2>4
<1> QED
  BY <1>1, Invariance, PTL

\* The file is whole and has every verdict from before its snapshot, whatever
\* the threads do, as long as a write takes less than the interval (persist).
THEOREM SavedVerdictsSurviveHolds == Spec => []SavedVerdictsSurvive
<1>1. IInv => SavedVerdictsSurvive
  BY DEF IInv, SavedInv, Covers, SavedVerdictsSurvive, Fresh
<1> QED
  BY <1>1, Invariance, PTL

\* A malicious verdict blocks for all of its TTL, but for MaxEntries other keys
\* that OSV called malicious since (the order of eviction in set).
THEOREM MaliciousOutlivesPressureHolds == Spec => []MaliciousOutlivesPressure
<1>1. IInv => MaliciousOutlivesPressure
  BY DEF IInv, LimitInv
<1> QED
  BY <1>1, Invariance, PTL
=============================================================================
