--------------------------- MODULE MCVerdictCache --------------------------
\* The instance of VerdictCache that TLC checks, for any length of time: what
\* a state is, to every step and property to come, does not depend on how long
\* ago anything was, once it has expired.
EXTENDS VerdictCache, TLC

CONSTANTS t1, t2, k1, k2, k3

MCThreads == {t1, t2}
MCKeys == {k1, k2, k3}

Symmetry == Permutations(MCThreads) \cup Permutations(MCKeys)

SeenAge(at, ttl) == IF now - at >= ttl THEN ttl ELSE now - at
SeenEntry(e, old) == IF Fresh(e) THEN <<e.mal, now - e.at>> ELSE old

\* In the cache itself an expired verdict still takes up room.
SeenData ==
  [k \in Keys |-> SeenEntry(data[k], IF data[k] = None THEN None ELSE Torn)]
SeenContents(c) ==
  IF c \in {None, Torn} THEN c
  ELSE <<SeenAge(c.at, MalTtl),
         [k \in Keys |-> SeenEntry(c.entries[k], None)]>>
SeenThread ==
  [t \in Threads |-> <<thread[t].at, thread[t].want,
                       SeenContents(thread[t].shot)>>]
\* What is left of a temporary file is not read.
SeenTmp ==
  IF \E t \in Threads : thread[t].at \in {"write", "rename"}
  THEN SeenContents(tmp) ELSE None
SeenHistory ==
  [k \in Keys |->
    <<[mal \in BOOLEAN |-> SeenAge(told[k][mal], Ttl(mal))],
      IF unbounded[k] # None /\ unbounded[k].mal
      THEN SeenEntry(unbounded[k], None) ELSE None>>]

View == <<SeenAge(last, Interval), SeenData, SeenContents(file), SeenTmp,
          SeenThread, SeenHistory>>
=============================================================================
