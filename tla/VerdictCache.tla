---------------------------- MODULE VerdictCache ---------------------------
(***************************************************************************)
(* The verdict cache of policy-sync's OSV client (_VerdictCache in osv.py) *)
(* with its limit, its two TTLs and the file that warms it up after a      *)
(* restart, used by the handler threads as OsvClient.decide does.  What    *)
(* decide asks and how calls are batched is in OsvClient.                  *)
(*                                                                         *)
(* Each method of the cache holds its lock; the serialising and the        *)
(* writing of the file, the last part of persist, does not.  A thread that *)
(* opens the temporary file truncates whatever another is writing there,   *)
(* and a file two threads write to is no JSON: Torn.                       *)
(***************************************************************************)
EXTENDS Integers, FiniteSets

CONSTANTS
  Threads,    \* the handler threads
  Keys,       \* ecosystem, name and version
  MaxEntries, \* max_entries
  MalTtl,     \* positive_ttl, 3600 s
  CleanTtl,   \* negative_ttl, 900 s
  Interval,   \* persist_min_interval, 30 s
  MaxAsked,   \* bound: the misses of one request
  WriteTime,  \* bound: the longest a write of the file takes
  None,
  Torn

ASSUME TimesAssumption ==
  /\ MalTtl \in Nat /\ CleanTtl \in Nat
  /\ Interval \in Nat /\ WriteTime \in Nat /\ WriteTime < Interval

ASSUME LimitAssumption == MaxEntries \in Nat /\ IsFiniteSet(Keys)

Entry == [mal : BOOLEAN, at : Nat]

ASSUME NoneAssumption == None \notin Entry

Entries == [Keys -> Entry \cup {None}]
Contents == [at : Nat, entries : Entries]

ASSUME TornAssumption ==
  None \notin Contents /\ Torn \notin Contents /\ None # Torn

VARIABLES
  now,      \* the clock
  data,     \* _data
  last,     \* _last_persist
  file,     \* the file: None, Torn or a snapshot and the time it is of
  tmp,      \* the temporary file beside it, likewise
  thread,   \* what each thread is doing
  told,     \* history: of each key and answer, when OSV last gave it
  unbounded \* history: _data if max_entries were infinite

vars == <<now, data, last, file, tmp, thread, told, unbounded>>
disk == <<file, tmp>>
history == <<told, unbounded>>

Ttl(mal) == IF mal THEN MalTtl ELSE CleanTtl
Fresh(entry) == entry # None /\ now - entry.at < Ttl(entry.mal)

\* get: None if there is nothing, or nothing fresh.
Get(k) == IF Fresh(data[k]) THEN data[k] ELSE None

Held(d) == {k \in Keys : d[k] # None}
Live(d) == {k \in Keys : Fresh(d[k])}
Only(d, ks) == [k \in Keys |-> IF k \in ks THEN d[k] ELSE None]

\* Longer ago than anything that counts.
Never == -(MalTtl + CleanTtl + Interval)

Nothing == [k \in Keys |-> None]
Idle == [at |-> "idle", want |-> {}, shot |-> None]
Places == {"idle", "ask", "store", "persist", "open", "write", "rename"}

TypeOK ==
  /\ now \in Nat /\ last \in Int
  /\ data \in Entries /\ unbounded \in Entries
  /\ file \in Contents \cup {None, Torn} /\ tmp \in Contents \cup {None, Torn}
  /\ thread \in [Threads -> [at : Places, want : SUBSET Keys,
                             shot : Contents \cup {None}]]
  /\ told \in [Keys -> [BOOLEAN -> Int]]

Init ==
  /\ now = 0 /\ last = Never
  /\ data = Nothing /\ unbounded = Nothing
  /\ file = None /\ tmp = None
  /\ thread = [t \in Threads |-> Idle]
  /\ told = [k \in Keys |-> [mal \in BOOLEAN |-> Never]]

Go(t, at) == thread' = [thread EXCEPT ![t].at = at]
Stop(t) == thread' = [thread EXCEPT ![t] = Idle]

-----------------------------------------------------------------------------
(* decide *)

\* Some versions of a package are not in the cache, and OSV is asked.
Ask(t, ks) ==
  /\ thread[t].at = "idle"
  /\ Cardinality(ks) \in 1..MaxAsked /\ \A k \in ks : Get(k) = None
  /\ thread' = [thread EXCEPT ![t] = [Idle EXCEPT !.at = "ask",
                                                  !.want = ks]]
  /\ UNCHANGED <<now, data, last, disk, history>>

AskFails(t) ==
  /\ thread[t].at = "ask"
  /\ Stop(t)
  /\ UNCHANGED <<now, data, last, disk, history>>

\* Mutant of GoesBefore: the oldest entry goes first, whatever it says.
GoesBeforeByAge(e, f) == e.at <= f.at
\* The order of eviction: clean before malicious, older before newer.
GoesBefore(e, f) ==
  \/ ~e.mal /\ f.mal
  \/ e.mal = f.mal /\ e.at <= f.at

\* What is left of d: all of it up to the limit; beyond, what has expired is
\* dropped, and then what goes first.
Trimmed(d) ==
  IF Cardinality(Held(d)) <= MaxEntries THEN {d}
  ELSE IF Cardinality(Live(d)) <= MaxEntries THEN {Only(d, Live(d))}
  ELSE {Only(d, ks) : ks \in
          {s \in SUBSET Live(d) :
             /\ Cardinality(s) = MaxEntries
             /\ \A k \in Live(d) \ s, j \in s : GoesBefore(d[k], d[j])}}

\* set: OSV has answered, and the next of the verdicts is stored.
Store(t, k, mal) ==
  /\ thread[t].at \in {"ask", "store"} /\ k \in thread[t].want
  /\ LET entry == [mal |-> mal, at |-> now] IN
     /\ data' \in Trimmed([data EXCEPT ![k] = entry])
     /\ unbounded' = [unbounded EXCEPT ![k] = entry]
     /\ told' = [told EXCEPT ![k][mal] = now]
  /\ LET rest == thread[t].want \ {k} IN
     thread' = [thread EXCEPT ![t] =
                  [Idle EXCEPT !.at = IF rest = {} THEN "persist" ELSE "store",
                               !.want = rest]]
  /\ UNCHANGED <<now, last, disk>>

-----------------------------------------------------------------------------
(* persist *)

\* The last snapshot is not old enough yet.
PersistSkips(t) ==
  /\ thread[t].at = "persist" /\ now - last < Interval
  /\ Stop(t)
  /\ UNCHANGED <<now, data, last, disk, history>>

\* Mutant of Snapshot: the time of the snapshot is not noted.
SnapshotUnnoted(t) ==
  /\ thread[t].at = "persist" /\ now - last >= Interval
  /\ data' = Only(data, Live(data))
  /\ thread' = [thread EXCEPT ![t] =
       [Idle EXCEPT !.at = "open", !.shot = [at |-> now, entries |-> data']]]
  /\ UNCHANGED <<now, last, disk, history>>

\* The part of persist that holds the lock.
Snapshot(t) ==
  /\ thread[t].at = "persist" /\ now - last >= Interval
  /\ last' = now
  /\ data' = Only(data, Live(data))
  /\ thread' = [thread EXCEPT ![t] =
       [Idle EXCEPT !.at = "open", !.shot = [at |-> now, entries |-> data']]]
  /\ UNCHANGED <<now, disk, history>>

Open(t) ==
  /\ thread[t].at = "open"
  /\ tmp' = Torn
  /\ Go(t, "write")
  /\ UNCHANGED <<now, data, last, file, history>>

\* The file is written and closed; another thread may have it open too, or
\* have renamed it.
Write(t) ==
  /\ thread[t].at = "write"
  /\ tmp' = IF tmp = None \/ \E u \in Threads \ {t} : thread[u].at = "write"
            THEN tmp ELSE thread[t].shot
  /\ Go(t, "rename")
  /\ UNCHANGED <<now, data, last, file, history>>

Rename(t) ==
  /\ thread[t].at = "rename" /\ tmp # None
  /\ file' = tmp /\ tmp' = None
  /\ Stop(t)
  /\ UNCHANGED <<now, data, last, history>>

\* The disk is full or not there: the error is logged and nothing else.
WriteFails(t) ==
  /\ thread[t].at \in {"open", "write", "rename"}
  /\ Stop(t)
  /\ UNCHANGED <<now, data, last, disk, history>>

-----------------------------------------------------------------------------
(* The process ends and starts again; time passes *)

\* Mutant of Loaded: a verdict starts a new life when it is loaded.
LoadedAfresh ==
  IF file \in {None, Torn} THEN Nothing
  ELSE [k \in Keys |-> IF Fresh(file.entries[k])
                       THEN [file.entries[k] EXCEPT !.at = now] ELSE None]
\* _load.  The file never holds more than MaxEntries.
Loaded ==
  IF file \in {None, Torn} THEN Nothing
  ELSE Only(file.entries, Live(file.entries))

Restart ==
  /\ data' = Loaded /\ unbounded' = Loaded
  /\ last' = Never
  /\ thread' = [t \in Threads |-> Idle]
  /\ UNCHANGED <<now, disk, told>>

\* No write of the file takes longer than WriteTime.
Tick ==
  /\ \A t \in Threads : thread[t].at \in {"open", "write", "rename"} =>
       now - thread[t].shot.at < WriteTime
  /\ now' = now + 1
  /\ UNCHANGED <<data, last, disk, thread, history>>

Next ==
  \/ Restart \/ Tick
  \/ \E t \in Threads :
       \/ \E ks \in SUBSET Keys : Ask(t, ks)
       \/ \E k \in Keys, mal \in BOOLEAN : Store(t, k, mal)
       \/ AskFails(t) \/ PersistSkips(t) \/ Snapshot(t)
       \/ Open(t) \/ Write(t) \/ Rename(t) \/ WriteFails(t)

Spec == Init /\ [][Next]_vars

-----------------------------------------------------------------------------
(* Properties *)

\* No verdict is given out that OSV has not given within its TTL, however
\* often it was saved and loaded and the process restarted meanwhile.
VerdictsExpire ==
  \A k \in Keys : Get(k) # None =>
    now - told[k][Get(k).mal] < Ttl(Get(k).mal)

\* A malicious verdict keeps blocking for all of its TTL, whatever else is
\* looked up: the limit takes it from the cache only for as many others that
\* OSV called malicious since.  (Clean ones are merely asked for again.)
MaliciousOutlivesPressure ==
  \A k \in Keys :
    Fresh(unbounded[k]) /\ unbounded[k].mal /\ data[k] = None =>
      Cardinality({j \in Keys \ {k} : told[j][TRUE] >= unbounded[k].at})
        >= MaxEntries

\* A restart loses only what was stored since the last snapshot that was
\* written: the file is whole, whatever other thread persists meanwhile and
\* wherever a write fails or the process ends, and has every older verdict.
SavedVerdictsSurvive ==
  /\ file # Torn
  /\ file # None => \A k \in Keys :
       Fresh(data[k]) /\ data[k].at < file.at => file.entries[k] = data[k]
=============================================================================
