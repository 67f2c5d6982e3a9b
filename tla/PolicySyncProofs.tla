-------------------------- MODULE PolicySyncProofs --------------------------
(***************************************************************************)
(* Proofs about the two halves of policy-sync.                             *)
(*                                                                         *)
(* The worker, PolicySync: for every number of versions and attempts,      *)
(* every set of configured files and every assignment of constraints       *)
(* texts, one inductive invariant, IInv, carries all the safety results.   *)
(*                                                                         *)
(* The compiler, PolicyCompiler: for any rules, names, default actions and *)
(* releases, the two engines enforce the documented verdict.  Its          *)
(* invariant, CompilerInv, only says what is compiled; the work is in the  *)
(* lemmas about what the compiler makes of it.                             *)
(***************************************************************************)
EXTENDS PolicySync, PolicyCompiler, SequenceTheorems, FiniteSetTheorems,
        WellFoundedInduction, TLAPS

AfterUpstreamStore ==
  {"upstreamFile", "npmStore", "npmFile", "parsedFile", "parsedStore",
   "pypiFile", "devpiGet", "devpiPatch", "succeeded"}
AfterUpstreamFile == AfterUpstreamStore \ {"upstreamFile"}
AfterNpmStore == AfterUpstreamFile \ {"npmStore"}
AfterParsedStore == {"pypiFile", "devpiGet", "devpiPatch", "succeeded"}
Working == AfterUpstreamStore \cup {"upstreamStore"}

\* Nothing refers to a version that has not been published.
PublishedInv ==
  /\ hooks \subseteq 1..Newest
  /\ notified <= Newest
  /\ seen <= Newest
  /\ work <= Newest

\* What the worker holds, what it wrote and what devpi has or may yet execute
\* compiles.
CompiledInv ==
  /\ pc \in Working => Compiles(work)
  /\ late # 0 => Compiles(late) /\ Accepted(late)
  /\ OnlyCompiled

\* The endpoints and their files against the version the worker emits.
EmissionInv ==
  /\ \A p \in Stores : mem[p] <= work
  /\ \A p \in Dests : file[p] <= Newest
  /\ \A p \in Dests : p \notin Files => file[p] = 0
  /\ pc \in Working => \A p \in Dests : file[p] <= work
  /\ pc \in AfterUpstreamStore => mem["upstream"] = work
  /\ pc \in AfterUpstreamFile /\ "upstream" \in Files =>
       file["upstream"] = work
  /\ pc \in AfterNpmStore => mem["npm"] = work
  /\ pc = "parsedStore" /\ "parsed" \in Files => file["parsed"] = work
  /\ pc \in AfterParsedStore => mem["parsed"] = work

\* The order between the endpoints, in memory, on disk and across the two.
OrderInv ==
  /\ mem["npm"] <= mem["upstream"]
  /\ file["npm"] <= file["upstream"]
  /\ mem["upstream"] # 0 => file["npm"] <= mem["upstream"]
  /\ \A p \in {"upstream", "npm"} : mem[p] # 0 => file[p] <= mem[p]
  /\ "parsed" \in Files => mem["parsed"] <= file["parsed"]

\* A successful sync up to the moment the worker leaves its wait.
SuccessInv ==
  /\ pc = "succeeded" => disturbed \/ devpi = PypiText[work]
  /\ pc = "wait" /\ health = "ok" =>
       /\ work # 0 /\ synced = work
       /\ \A p \in Stores : mem[p] = work
       /\ disturbed \/ devpi = PypiText[work]

IInv == /\ TypeOK
        /\ PublishedInv
        /\ CompiledInv
        /\ EmissionInv
        /\ OrderInv
        /\ SuccessInv
        /\ NoLostWakeup

-----------------------------------------------------------------------------

\* Publishing a version keeps the older ones and what is known of them.
LEMMA Published ==
  ASSUME history \in Seq(Kinds), NEW kind \in Kinds,
         history' = Append(history, kind)
  PROVE  /\ history' \in Seq(Kinds)
         /\ Newest \in Nat
         /\ Newest' = Newest + 1
         /\ \A v \in 1..Newest : history'[v] = history[v]
         /\ \A v : Compiles(v) => Compiles(v)'
  BY DEF Newest, Compiles

\* Every step keeps the types, given that what the worker and devpi's queue
\* hold compiles (so that it has a constraints text).
LEMMA TypeStep == TypeOK /\ CompiledInv /\ [Next]_vars => TypeOK'
<1> SUFFICES ASSUME TypeOK, CompiledInv, [Next]_vars PROVE TypeOK'
  OBVIOUS
<1> USE BoundsAssumption, FilesAssumption, PypiTextAssumption
<1> USE DEF TypeOK, Newest, repoVars, workerVars, devpiVars, Failed
<1>1. ASSUME NEW kind \in Kinds, Push(kind) PROVE TypeOK'
  <2>1. /\ history' \in Seq(Kinds) /\ Newest \in Nat
        /\ Newest' = Newest + 1 /\ Newest < MaxVersions
    BY <1>1, Published DEF Push
  <2>2. Newest + 1 \in Version
    BY <2>1 DEF Version
  <2>3. hooks' \subseteq Version
    BY <1>1, <2>2 DEF Push
  <2> QED
    BY <1>1, <2>1, <2>3 DEF Push
<1>2. CASE RuleExpires
  BY <1>2, Published DEF RuleExpires, Kinds
<1>3. ASSUME NEW v \in hooks, Webhook(v) PROVE TypeOK'
  BY <1>3 DEF Webhook, Version
<1>4. ASSUME NEW v \in hooks, LoseWebhook(v) PROVE TypeOK'
  BY <1>4 DEF LoseWebhook
<1>5. CASE FetchFails
  BY <1>5 DEF FetchFails, Steps
<1>6. CASE FetchUnusable
  BY <1>6 DEF FetchUnusable, Steps
<1>7. CASE FetchAndCompile
  BY <1>7 DEF FetchAndCompile, Steps
<1>8. CASE EmitUpstreamStore
  BY <1>8 DEF EmitUpstreamStore, SetStore, Stores, Steps
<1>9. CASE EmitUpstreamFile
  <2>1. file' \in [Dests -> 0..MaxVersions]
    BY <1>9 DEF EmitUpstreamFile, WriteFile
  <2>2. pc' \in Steps /\ attempt' \in 1..Attempts
    BY <1>9 DEF EmitUpstreamFile, WriteFile, Steps
  <2> QED
    BY <1>9, <2>1, <2>2 DEF EmitUpstreamFile, WriteFile
<1>10. CASE EmitNpmStore
  BY <1>10 DEF EmitNpmStore, SetStore, Stores, Steps
<1>11. CASE EmitNpmFile
  <2>1. file' \in [Dests -> 0..MaxVersions]
    BY <1>11 DEF EmitNpmFile, WriteFile
  <2>2. pc' \in Steps /\ attempt' \in 1..Attempts
    BY <1>11 DEF EmitNpmFile, WriteFile, Steps
  <2> QED
    BY <1>11, <2>1, <2>2 DEF EmitNpmFile, WriteFile
<1>12. CASE WriteParsed
  <2>1. file' \in [Dests -> 0..MaxVersions]
    BY <1>12 DEF WriteParsed, WriteFile
  <2>2. pc' \in Steps /\ attempt' \in 1..Attempts
    BY <1>12 DEF WriteParsed, WriteFile, Steps
  <2> QED
    BY <1>12, <2>1, <2>2 DEF WriteParsed, WriteFile
<1>13. CASE SetParsed
  BY <1>13 DEF SetParsed, SetStore, Stores, Steps
<1>14. CASE WritePypi
  <2>1. file' \in [Dests -> 0..MaxVersions]
    BY <1>14 DEF WritePypi, WriteFile
  <2>2. pc' \in Steps /\ attempt' \in 1..Attempts
    BY <1>14 DEF WritePypi, WriteFile, Steps
  <2> QED
    BY <1>14, <2>1, <2>2 DEF WritePypi, WriteFile
<1>15. CASE DevpiGet
  <2>1. disturbed' \in BOOLEAN
    BY <1>15, Zenon DEF DevpiGet
  <2>2. pc' \in Steps /\ attempt' \in 1..Attempts
    BY <1>15 DEF DevpiGet, Steps
  <2> QED
    BY <1>15, <2>1, <2>2 DEF DevpiGet
<1>16. CASE DevpiPatch
  <2>1. disturbed' \in BOOLEAN
    BY <1>16, Zenon DEF DevpiPatch
  <2>2. pc' \in Steps /\ attempt' \in 1..Attempts
    BY <1>16 DEF DevpiPatch, Steps
  <2>3. work \in Version
    BY <1>16 DEF DevpiPatch, CompiledInv, Working, AfterUpstreamStore,
                 Compiles, Version
  <2>4. devpi' \in Nat
    BY <1>16, <2>3 DEF DevpiPatch
  <2> QED
    BY <1>16, <2>1, <2>2, <2>4 DEF DevpiPatch
<1>17. CASE DevpiPatchFails
  BY <1>17 DEF DevpiPatchFails, Steps
<1>18. CASE DevpiPatchTimesOut
  BY <1>18 DEF DevpiPatchTimesOut, Steps
<1>19. CASE RecordSuccess
  BY <1>19 DEF RecordSuccess, Steps
<1>20. CASE RecordFailure
  BY <1>20 DEF RecordFailure, Steps
<1>21. CASE WokenUp
  BY <1>21 DEF WokenUp, Steps
<1>22. CASE PollDue
  BY <1>22 DEF PollDue, Steps
<1>23. CASE ClearWake
  <2>1. wake' \in BOOLEAN
    BY <1>23, Zenon DEF ClearWake
  <2>2. pc' \in Steps /\ attempt' \in 1..Attempts
    BY <1>23 DEF ClearWake, Steps
  <2> QED
    BY <1>23, <2>1, <2>2 DEF ClearWake
<1>24. CASE Restart
  <2>1. wake' \in BOOLEAN
    BY <1>24, Zenon DEF Restart
  <2>2. pc' \in Steps /\ attempt' \in 1..Attempts
    BY <1>24 DEF Restart, Steps
  <2> QED
    BY <1>24, <2>1, <2>2 DEF Restart
<1>25. CASE WipeDevpi
  BY <1>25 DEF WipeDevpi
<1>26. CASE EnsureIndex
  BY <1>26 DEF EnsureIndex, Seed
<1>27. CASE LatePatch
  <2>1. late \in Version
    BY <1>27 DEF LatePatch, Version
  <2>2. devpi' \in Nat \cup {NoIndex}
    BY <1>27, <2>1 DEF LatePatch
  <2>3. disturbed' \in BOOLEAN
    BY <1>27, Zenon DEF LatePatch
  <2> QED
    BY <1>27, <2>2, <2>3 DEF LatePatch
<1>28. CASE Settle
  BY <1>28 DEF Settle
<1>29. CASE UNCHANGED vars
  BY <1>29 DEF vars
<1> QED
  BY <1>1, <1>2, <1>3, <1>4, <1>5, <1>6, <1>7, <1>8, <1>9, <1>10, <1>11,
     <1>12, <1>13, <1>14, <1>15, <1>16, <1>17, <1>18, <1>19, <1>20, <1>21,
     <1>22, <1>23, <1>24, <1>25, <1>26, <1>27, <1>28, <1>29 DEF Next, Worker

-----------------------------------------------------------------------------

LEMMA InitIInv == Init => IInv
<1> SUFFICES ASSUME Init PROVE IInv
  OBVIOUS
<1> USE BoundsAssumption, FilesAssumption DEF Init, Newest
<1>1. history \in Seq(Kinds) /\ Len(history) = 0
  OBVIOUS
<1>2. TypeOK
  <2>1. wake \in BOOLEAN /\ disturbed \in BOOLEAN /\ calm \in BOOLEAN
    BY Zenon
  <2> QED
    BY <1>1, <2>1 DEF TypeOK, Steps
<1>3. PublishedInv /\ CompiledInv
  BY <1>1 DEF PublishedInv, CompiledInv, Working, AfterUpstreamStore,
              OnlyCompiled
<1>4. EmissionInv
  BY <1>1 DEF EmissionInv, Working, AfterUpstreamStore, AfterUpstreamFile,
              AfterNpmStore, AfterParsedStore
<1>5. OrderInv /\ SuccessInv /\ NoLostWakeup
  BY <1>1 DEF OrderInv, SuccessInv, NoLostWakeup, Stores, Dests
<1> QED
  BY <1>2, <1>3, <1>4, <1>5 DEF IInv

-----------------------------------------------------------------------------

\* When a conjunct of IInv is not disturbed.
LEMMA PublishedFrame ==
  PublishedInv /\ UNCHANGED <<history, hooks, notified, seen, work>>
    => PublishedInv'
  BY DEF PublishedInv, Newest

LEMMA CompiledFrame ==
  /\ CompiledInv /\ UNCHANGED <<history, mem, file, work, devpi, late>>
  /\ pc' \in Working => pc \in Working
  => CompiledInv'
  BY DEF CompiledInv, OnlyCompiled, Compiles, Accepted, Newest

LEMMA EmissionFrame ==
  /\ EmissionInv /\ UNCHANGED <<history, mem, file, work>>
  /\ pc' \in Working => \/ pc' = pc
                        \/ pc \in AfterParsedStore /\ pc' \in AfterParsedStore
  => EmissionInv'
  BY DEF EmissionInv, Newest, Working, AfterUpstreamStore, AfterUpstreamFile,
         AfterNpmStore, AfterParsedStore

LEMMA OrderFrame == OrderInv /\ UNCHANGED <<mem, file>> => OrderInv'
  BY DEF OrderInv

LEMMA SuccessFrame ==
  /\ SuccessInv
  /\ \/ pc' \notin {"succeeded", "wait"}
     \/ UNCHANGED <<pc, health, work, synced, mem, devpi, disturbed>>
  => SuccessInv'
  BY DEF SuccessInv

LEMMA WakeupFrame ==
  /\ NoLostWakeup /\ UNCHANGED <<notified, seen, wake>>
  /\ pc \in {"clear", "fetch"} => pc' \in {"clear", "fetch"}
  => NoLostWakeup'
  BY DEF NoLostWakeup

\* A new version disturbs nothing that is known of the older ones.
LEMMA PublishStep ==
  ASSUME IInv, TypeOK', NEW kind \in Kinds, history' = Append(history, kind),
         hooks' \subseteq hooks \cup {Newest + 1},
         UNCHANGED <<notified, wake, workerVars, mem, file, health, synced,
                     devpiVars, calm>>
  PROVE  IInv'
<1> USE DEF IInv, workerVars, devpiVars
<1>1. /\ Newest' = Newest + 1 /\ Newest \in Nat
      /\ \A v \in 1..Newest : history'[v] = history[v]
      /\ \A v : Compiles(v) => Compiles(v)'
  BY Published DEF TypeOK
<1>2. PublishedInv'
  <2>1. 1..Newest \subseteq 1..Newest' /\ Newest' \in 1..Newest'
    BY <1>1
  <2>2. hooks' \subseteq 1..Newest'
    BY <1>1, <2>1 DEF PublishedInv
  <2> QED
    BY <1>1, <2>2 DEF PublishedInv, TypeOK
<1>3. CompiledInv'
  <2>1. OnlyCompiled'
    BY <1>1 DEF CompiledInv, OnlyCompiled, Accepted
  <2> QED
    BY <1>1, <2>1 DEF CompiledInv, Accepted
<1>4. EmissionInv'
  <2>1. \A p \in Dests : file[p] \in Nat /\ file[p] <= Newest
    BY DEF EmissionInv, TypeOK
  <2>2. \A p \in Dests : file'[p] <= Newest'
    BY <1>1, <2>1
  <2> QED
    BY <2>2 DEF EmissionInv
<1> QED
  BY <1>2, <1>3, <1>4, OrderFrame, SuccessFrame, WakeupFrame

\* A file write leaves compiled versions everywhere, also when it fails.
LEMMA WriteCompiled ==
  ASSUME TypeOK, CompiledInv, NEW p \in Dests, NEW here \in Working,
         NEW next \in Working, WriteFile(p, here, next)
  PROVE  CompiledInv'
<1> USE DEF workerVars, repoVars, devpiVars
<1>1. Compiles(work) /\ pc \in Working
  BY DEF CompiledInv, WriteFile
<1>2. \A q \in Dests : file'[q] = 0 \/ Compiles(file'[q])
  BY <1>1 DEF WriteFile, CompiledInv, OnlyCompiled, TypeOK
<1>3. OnlyCompiled'
  BY <1>2 DEF WriteFile, CompiledInv, OnlyCompiled, Compiles, Accepted, Newest
<1> QED
  BY <1>1, <1>3 DEF WriteFile, CompiledInv, Compiles, Accepted, Newest

\* The inductive step, one action at a time.
LEMMA NextIInv == IInv /\ [Next]_vars => IInv'
<1> SUFFICES ASSUME IInv, [Next]_vars PROVE IInv'
  OBVIOUS
<1> USE DEF IInv, repoVars, workerVars, devpiVars
<1>0. TypeOK'
  BY TypeStep
<1>1. ASSUME NEW kind \in Kinds, Push(kind) PROVE IInv'
  BY <1>0, <1>1, PublishStep DEF Push
<1>2. CASE RuleExpires
  BY <1>0, <1>2, PublishStep DEF RuleExpires, Kinds
<1>3. ASSUME NEW v \in hooks, Webhook(v) PROVE IInv'
  <2>1. PublishedInv'
    BY <1>3 DEF Webhook, PublishedInv, TypeOK, Version, Newest
  <2>2. NoLostWakeup'
    BY <1>3 DEF Webhook, NoLostWakeup
  <2>3. CompiledInv' /\ EmissionInv' /\ OrderInv' /\ SuccessInv'
    BY <1>3, CompiledFrame, EmissionFrame, OrderFrame, SuccessFrame
       DEF Webhook, Working, AfterUpstreamStore, AfterUpstreamFile,
              AfterNpmStore, AfterParsedStore
  <2> QED
    BY <1>0, <2>1, <2>2, <2>3
<1>4. ASSUME NEW v \in hooks, LoseWebhook(v) PROVE IInv'
  <2>1. PublishedInv'
    BY <1>4 DEF LoseWebhook, PublishedInv, Newest
  <2>2. /\ CompiledInv' /\ EmissionInv' /\ OrderInv'
        /\ SuccessInv' /\ NoLostWakeup'
    BY <1>4, CompiledFrame, EmissionFrame, OrderFrame, SuccessFrame,
           WakeupFrame
       DEF LoseWebhook, Working, AfterUpstreamStore, AfterUpstreamFile,
              AfterNpmStore, AfterParsedStore
  <2> QED
    BY <1>0, <2>1, <2>2
<1>5. CASE FetchFails
  <2>1. PublishedInv'
    BY <1>5 DEF FetchFails, Failed, PublishedInv, TypeOK, Newest
  <2>2. NoLostWakeup'
    BY <1>5 DEF FetchFails, Failed, NoLostWakeup, PublishedInv, TypeOK, Newest
  <2>3. CompiledInv' /\ EmissionInv' /\ OrderInv' /\ SuccessInv'
    BY <1>5, CompiledFrame, EmissionFrame, OrderFrame, SuccessFrame
       DEF FetchFails, Failed, Working, AfterUpstreamStore, AfterUpstreamFile,
              AfterNpmStore, AfterParsedStore
  <2> QED
    BY <1>0, <2>1, <2>2, <2>3
<1>6. CASE FetchUnusable
  <2>1. PublishedInv'
    BY <1>6 DEF FetchUnusable, Failed, PublishedInv, TypeOK, Newest
  <2>2. NoLostWakeup'
    BY <1>6 DEF FetchUnusable, Failed, NoLostWakeup, PublishedInv, TypeOK,
           Newest
  <2>3. CompiledInv' /\ EmissionInv' /\ OrderInv' /\ SuccessInv'
    BY <1>6, CompiledFrame, EmissionFrame, OrderFrame, SuccessFrame
       DEF FetchUnusable, Failed, Working, AfterUpstreamStore,
              AfterUpstreamFile, AfterNpmStore, AfterParsedStore
  <2> QED
    BY <1>0, <2>1, <2>2, <2>3
<1>7. CASE FetchAndCompile
  <2>1. PublishedInv'
    BY <1>7 DEF FetchAndCompile, PublishedInv, TypeOK, Newest
  <2>2. CompiledInv'
    BY <1>7 DEF FetchAndCompile, CompiledInv, OnlyCompiled, Compiles, Accepted,
           Newest
  <2>3. EmissionInv'
    <3>1. /\ pc' = "upstreamStore" /\ work' = Newest /\ Newest' = Newest
          /\ UNCHANGED <<mem, file>>
      BY <1>7 DEF FetchAndCompile, Newest
    <3>2. \A p \in Stores : mem[p] <= Newest
      BY DEF EmissionInv, PublishedInv, TypeOK, Newest
    <3> QED
      BY <3>1, <3>2 DEF EmissionInv, Working, AfterUpstreamStore,
         AfterUpstreamFile, AfterNpmStore, AfterParsedStore
  <2>4. NoLostWakeup'
    BY <1>7 DEF FetchAndCompile, NoLostWakeup, PublishedInv, TypeOK, Newest
  <2>5. OrderInv' /\ SuccessInv'
    BY <1>7, OrderFrame, SuccessFrame
       DEF FetchAndCompile
  <2> QED
    BY <1>0, <2>1, <2>2, <2>3, <2>4, <2>5
<1>8. CASE EmitUpstreamStore
  <2>1. CompiledInv'
    BY <1>8 DEF EmitUpstreamStore, SetStore, CompiledInv, OnlyCompiled,
           Compiles, Accepted, TypeOK, Newest, Stores, Working,
           AfterUpstreamStore
  <2>2. EmissionInv'
    BY <1>8 DEF EmitUpstreamStore, SetStore, EmissionInv, TypeOK, Stores,
           Newest, Working, AfterUpstreamStore, AfterUpstreamFile,
           AfterNpmStore, AfterParsedStore
  <2>3. OrderInv'
    BY <1>8 DEF EmitUpstreamStore, SetStore, OrderInv, EmissionInv, TypeOK,
           Stores, Dests, Working, AfterUpstreamStore, AfterUpstreamFile,
           AfterNpmStore, AfterParsedStore
  <2>4. PublishedInv' /\ SuccessInv' /\ NoLostWakeup'
    BY <1>8, PublishedFrame, SuccessFrame, WakeupFrame
       DEF EmitUpstreamStore, SetStore
  <2> QED
    BY <1>0, <2>1, <2>2, <2>3, <2>4
<1>9. CASE EmitNpmStore
  <2>1. CompiledInv'
    BY <1>9 DEF EmitNpmStore, SetStore, CompiledInv, OnlyCompiled, Compiles,
           Accepted, TypeOK, Newest, Stores, Working, AfterUpstreamStore
  <2>2. EmissionInv'
    BY <1>9 DEF EmitNpmStore, SetStore, EmissionInv, TypeOK, Stores, Newest,
           Working, AfterUpstreamStore, AfterUpstreamFile, AfterNpmStore,
           AfterParsedStore
  <2>3. OrderInv'
    BY <1>9 DEF EmitNpmStore, SetStore, OrderInv, EmissionInv, TypeOK, Stores,
           Dests, Working, AfterUpstreamStore, AfterUpstreamFile,
           AfterNpmStore, AfterParsedStore
  <2>4. PublishedInv' /\ SuccessInv' /\ NoLostWakeup'
    BY <1>9, PublishedFrame, SuccessFrame, WakeupFrame
       DEF EmitNpmStore, SetStore
  <2> QED
    BY <1>0, <2>1, <2>2, <2>3, <2>4
<1>10. CASE SetParsed
  <2>1. CompiledInv'
    BY <1>10 DEF SetParsed, SetStore, CompiledInv, OnlyCompiled, Compiles,
           Accepted, TypeOK, Newest, Stores, Working, AfterUpstreamStore
  <2>2. EmissionInv'
    BY <1>10 DEF SetParsed, SetStore, EmissionInv, TypeOK, Stores, Newest,
           Working, AfterUpstreamStore, AfterUpstreamFile, AfterNpmStore,
           AfterParsedStore
  <2>3. OrderInv'
    BY <1>10 DEF SetParsed, SetStore, OrderInv, EmissionInv, TypeOK, Stores,
           Dests, Working, AfterUpstreamStore, AfterUpstreamFile,
           AfterNpmStore, AfterParsedStore
  <2>4. PublishedInv' /\ SuccessInv' /\ NoLostWakeup'
    BY <1>10, PublishedFrame, SuccessFrame, WakeupFrame
       DEF SetParsed, SetStore
  <2> QED
    BY <1>0, <2>1, <2>2, <2>3, <2>4
<1>11. CASE EmitUpstreamFile
  <2>1. CompiledInv'
    BY <1>11, WriteCompiled DEF EmitUpstreamFile, Stores, Dests,
       Working, AfterUpstreamStore
  <2>2. EmissionInv'
    BY <1>11 DEF EmitUpstreamFile, WriteFile, Failed, EmissionInv,
           PublishedInv, TypeOK, Dests, Stores, Newest, Working,
           AfterUpstreamStore, AfterUpstreamFile, AfterNpmStore,
           AfterParsedStore
  <2>3. OrderInv'
    <3>1. pc = "upstreamFile"
      BY <1>11 DEF EmitUpstreamFile, WriteFile
    <3>2. mem["upstream"] = work
      BY <3>1 DEF EmissionInv, AfterUpstreamStore
    <3>3. file["npm"] <= work /\ file["upstream"] <= work
      BY <3>1 DEF EmissionInv, Working, AfterUpstreamStore, Dests, Stores
    <3>4. \/ UNCHANGED <<mem, file>>
          \/ mem' = mem /\ file' = [file EXCEPT !["upstream"] = work]
      BY <1>11 DEF EmitUpstreamFile, WriteFile
    <3> QED
      BY <3>2, <3>3, <3>4 DEF OrderInv, TypeOK, Dests, Stores
  <2>4. PublishedInv' /\ SuccessInv' /\ NoLostWakeup'
    BY <1>11, PublishedFrame, SuccessFrame, WakeupFrame
       DEF EmitUpstreamFile, WriteFile, Failed
  <2> QED
    BY <1>0, <2>1, <2>2, <2>3, <2>4
<1>12. CASE EmitNpmFile
  <2>1. CompiledInv'
    BY <1>12, WriteCompiled DEF EmitNpmFile, Stores, Dests,
       Working, AfterUpstreamStore
  <2>2. EmissionInv'
    BY <1>12 DEF EmitNpmFile, WriteFile, Failed, EmissionInv, PublishedInv,
           TypeOK, Dests, Stores, Newest, Working, AfterUpstreamStore,
           AfterUpstreamFile, AfterNpmStore, AfterParsedStore
  <2>3. OrderInv'
    <3>1. pc = "npmFile"
      BY <1>12 DEF EmitNpmFile, WriteFile
    <3>2. /\ mem["npm"] = work /\ mem["upstream"] = work
          /\ "upstream" \in Files => file["upstream"] = work
      BY <3>1 DEF EmissionInv, AfterUpstreamStore, AfterUpstreamFile,
         AfterNpmStore
    <3>3. file["npm"] <= work
      BY <3>1 DEF EmissionInv, Working, AfterUpstreamStore, Dests, Stores
    <3>4. work \in Int /\ ("npm" \in Files => "upstream" \in Files)
      BY FilesAssumption DEF TypeOK
    <3>5. \/ UNCHANGED <<mem, file>>
          \/ /\ mem' = mem /\ file' = [file EXCEPT !["npm"] = work]
             /\ "npm" \in Files
      BY <1>12 DEF EmitNpmFile, WriteFile
    <3> QED
      BY <3>2, <3>3, <3>4, <3>5 DEF OrderInv, TypeOK, Dests, Stores
  <2>4. PublishedInv' /\ SuccessInv' /\ NoLostWakeup'
    BY <1>12, PublishedFrame, SuccessFrame, WakeupFrame
       DEF EmitNpmFile, WriteFile, Failed
  <2> QED
    BY <1>0, <2>1, <2>2, <2>3, <2>4
<1>13. CASE WriteParsed
  <2>1. CompiledInv'
    BY <1>13, WriteCompiled DEF WriteParsed, Stores, Dests,
       Working, AfterUpstreamStore
  <2>2. EmissionInv'
    BY <1>13 DEF WriteParsed, WriteFile, Failed, EmissionInv, PublishedInv,
           TypeOK, Dests, Stores, Newest, Working, AfterUpstreamStore,
           AfterUpstreamFile, AfterNpmStore, AfterParsedStore
  <2>3. OrderInv'
    BY <1>13 DEF WriteParsed, WriteFile, Failed, OrderInv, EmissionInv, TypeOK,
           Stores, Dests, Working, AfterUpstreamStore, AfterUpstreamFile,
           AfterNpmStore, AfterParsedStore
  <2>4. PublishedInv' /\ SuccessInv' /\ NoLostWakeup'
    BY <1>13, PublishedFrame, SuccessFrame, WakeupFrame
       DEF WriteParsed, WriteFile, Failed
  <2> QED
    BY <1>0, <2>1, <2>2, <2>3, <2>4
<1>14. CASE WritePypi
  <2>1. CompiledInv'
    BY <1>14, WriteCompiled DEF WritePypi, Stores, Dests,
       Working, AfterUpstreamStore
  <2>2. EmissionInv'
    BY <1>14 DEF WritePypi, WriteFile, Failed, EmissionInv, PublishedInv,
           TypeOK, Dests, Stores, Newest, Working, AfterUpstreamStore,
           AfterUpstreamFile, AfterNpmStore, AfterParsedStore
  <2>3. OrderInv'
    BY <1>14 DEF WritePypi, WriteFile, Failed, OrderInv, EmissionInv, TypeOK,
           Stores, Dests, Working, AfterUpstreamStore, AfterUpstreamFile,
           AfterNpmStore, AfterParsedStore
  <2>4. PublishedInv' /\ SuccessInv' /\ NoLostWakeup'
    BY <1>14, PublishedFrame, SuccessFrame, WakeupFrame
       DEF WritePypi, WriteFile, Failed
  <2> QED
    BY <1>0, <2>1, <2>2, <2>3, <2>4
<1>15. CASE DevpiGet
  <2>1. SuccessInv'
    BY <1>15 DEF DevpiGet, Failed, SuccessInv
  <2>2. /\ PublishedInv' /\ CompiledInv' /\ EmissionInv'
        /\ OrderInv' /\ NoLostWakeup'
    BY <1>15, PublishedFrame, CompiledFrame, EmissionFrame, OrderFrame,
           WakeupFrame
       DEF DevpiGet, Failed, Working, AfterUpstreamStore, AfterUpstreamFile,
              AfterNpmStore, AfterParsedStore
  <2> QED
    BY <1>0, <2>1, <2>2
<1>16. CASE DevpiPatch
  <2>1. CompiledInv'
    BY <1>16 DEF DevpiPatch, Failed, CompiledInv, OnlyCompiled, Compiles,
           Accepted, Newest, Working, AfterUpstreamStore
  <2>2. SuccessInv'
    BY <1>16 DEF DevpiPatch, Failed, SuccessInv
  <2>3. PublishedInv' /\ EmissionInv' /\ OrderInv' /\ NoLostWakeup'
    BY <1>16, PublishedFrame, EmissionFrame, OrderFrame, WakeupFrame
       DEF DevpiPatch, Failed, Working, AfterUpstreamStore, AfterUpstreamFile,
              AfterNpmStore, AfterParsedStore
  <2> QED
    BY <1>0, <2>1, <2>2, <2>3
<1>17. CASE DevpiPatchFails
  BY <1>0, <1>17, PublishedFrame, CompiledFrame, EmissionFrame, OrderFrame,
         SuccessFrame, WakeupFrame
     DEF DevpiPatchFails, Failed, Working, AfterUpstreamStore,
            AfterUpstreamFile, AfterNpmStore, AfterParsedStore
<1>18. CASE DevpiPatchTimesOut
  <2>1. CompiledInv'
    BY <1>18 DEF DevpiPatchTimesOut, Failed, CompiledInv, OnlyCompiled,
           Compiles, Accepted, Newest, Working, AfterUpstreamStore
  <2>2. /\ PublishedInv' /\ EmissionInv' /\ OrderInv'
        /\ SuccessInv' /\ NoLostWakeup'
    BY <1>18, PublishedFrame, EmissionFrame, OrderFrame, SuccessFrame,
           WakeupFrame
       DEF DevpiPatchTimesOut, Failed, Working, AfterUpstreamStore,
              AfterUpstreamFile, AfterNpmStore, AfterParsedStore
  <2> QED
    BY <1>0, <2>1, <2>2
<1>19. CASE RecordSuccess
  <2>1. SuccessInv'
    BY <1>19 DEF RecordSuccess, SuccessInv, EmissionInv, CompiledInv, Compiles,
           Stores, Working, AfterUpstreamStore, AfterUpstreamFile,
           AfterNpmStore, AfterParsedStore
  <2>2. /\ PublishedInv' /\ CompiledInv' /\ EmissionInv'
        /\ OrderInv' /\ NoLostWakeup'
    BY <1>19, PublishedFrame, CompiledFrame, EmissionFrame, OrderFrame,
           WakeupFrame
       DEF RecordSuccess, Working, AfterUpstreamStore, AfterUpstreamFile,
              AfterNpmStore, AfterParsedStore
  <2> QED
    BY <1>0, <2>1, <2>2
<1>20. CASE RecordFailure
  <2>1. SuccessInv'
    BY <1>20 DEF RecordFailure, SuccessInv
  <2>2. /\ PublishedInv' /\ CompiledInv' /\ EmissionInv'
        /\ OrderInv' /\ NoLostWakeup'
    BY <1>20, PublishedFrame, CompiledFrame, EmissionFrame, OrderFrame,
           WakeupFrame
       DEF RecordFailure, Working, AfterUpstreamStore, AfterUpstreamFile,
              AfterNpmStore, AfterParsedStore
  <2> QED
    BY <1>0, <2>1, <2>2
<1>21. CASE WokenUp
  BY <1>0, <1>21, PublishedFrame, CompiledFrame, EmissionFrame, OrderFrame,
         SuccessFrame, WakeupFrame
     DEF WokenUp, Working, AfterUpstreamStore, AfterUpstreamFile,
            AfterNpmStore, AfterParsedStore
<1>22. CASE PollDue
  BY <1>0, <1>22, PublishedFrame, CompiledFrame, EmissionFrame, OrderFrame,
         SuccessFrame, WakeupFrame
     DEF PollDue, Working, AfterUpstreamStore, AfterUpstreamFile,
            AfterNpmStore, AfterParsedStore
<1>23. CASE ClearWake
  <2>1. NoLostWakeup'
    BY <1>23 DEF ClearWake, NoLostWakeup
  <2>2. /\ PublishedInv' /\ CompiledInv' /\ EmissionInv'
        /\ OrderInv' /\ SuccessInv'
    BY <1>23, PublishedFrame, CompiledFrame, EmissionFrame, OrderFrame,
           SuccessFrame
       DEF ClearWake, Working, AfterUpstreamStore, AfterUpstreamFile,
              AfterNpmStore, AfterParsedStore
  <2> QED
    BY <1>0, <2>1, <2>2
<1>24. CASE Restart
  <2>1. PublishedInv'
    BY <1>24 DEF Restart, PublishedInv, TypeOK, Newest
  <2>2. CompiledInv'
    BY <1>24 DEF Restart, CompiledInv, OnlyCompiled, Compiles, Accepted,
           Newest, Working, AfterUpstreamStore
  <2>3. EmissionInv'
    BY <1>24 DEF Restart, EmissionInv, Stores, Newest, Working,
           AfterUpstreamStore, AfterUpstreamFile, AfterNpmStore,
           AfterParsedStore
  <2>4. OrderInv'
    BY <1>24 DEF Restart, OrderInv, TypeOK, Stores, Dests
  <2>5. NoLostWakeup'
    BY <1>24 DEF Restart, NoLostWakeup
  <2>6. SuccessInv'
    BY <1>24, SuccessFrame
       DEF Restart
  <2> QED
    BY <1>0, <2>1, <2>2, <2>3, <2>4, <2>5, <2>6
<1>25. CASE WipeDevpi
  <2>1. CompiledInv'
    BY <1>25 DEF WipeDevpi, CompiledInv, OnlyCompiled, Compiles, Accepted,
           Newest, NoIndex
  <2>2. SuccessInv'
    BY <1>25 DEF WipeDevpi, SuccessInv
  <2>3. PublishedInv' /\ EmissionInv' /\ OrderInv' /\ NoLostWakeup'
    BY <1>25, PublishedFrame, EmissionFrame, OrderFrame, WakeupFrame
       DEF WipeDevpi, Working, AfterUpstreamStore, AfterUpstreamFile,
              AfterNpmStore, AfterParsedStore
  <2> QED
    BY <1>0, <2>1, <2>2, <2>3
<1>26. CASE EnsureIndex
  <2>1. CompiledInv'
    BY <1>26 DEF EnsureIndex, CompiledInv, OnlyCompiled, Compiles, Accepted,
           Newest, Seed
  <2>2. SuccessInv'
    BY <1>26 DEF EnsureIndex, SuccessInv
  <2>3. PublishedInv' /\ EmissionInv' /\ OrderInv' /\ NoLostWakeup'
    BY <1>26, PublishedFrame, EmissionFrame, OrderFrame, WakeupFrame
       DEF EnsureIndex, Working, AfterUpstreamStore, AfterUpstreamFile,
              AfterNpmStore, AfterParsedStore
  <2> QED
    BY <1>0, <2>1, <2>2, <2>3
<1>27. CASE LatePatch
  <2>1. CompiledInv'
    BY <1>27 DEF LatePatch, CompiledInv, OnlyCompiled, Compiles, Accepted,
           Newest
  <2>2. SuccessInv'
    BY <1>27 DEF LatePatch, SuccessInv
  <2>3. PublishedInv' /\ EmissionInv' /\ OrderInv' /\ NoLostWakeup'
    BY <1>27, PublishedFrame, EmissionFrame, OrderFrame, WakeupFrame
       DEF LatePatch, Working, AfterUpstreamStore, AfterUpstreamFile,
              AfterNpmStore, AfterParsedStore
  <2> QED
    BY <1>0, <2>1, <2>2, <2>3
<1>28. CASE Settle
  BY <1>0, <1>28, PublishedFrame, CompiledFrame, EmissionFrame, OrderFrame,
         SuccessFrame, WakeupFrame
     DEF Settle, Working, AfterUpstreamStore, AfterUpstreamFile, AfterNpmStore,
            AfterParsedStore
<1>29. CASE UNCHANGED vars
  BY <1>0, <1>29, PublishedFrame, CompiledFrame, EmissionFrame, OrderFrame,
     SuccessFrame, WakeupFrame DEF vars
<1> HIDE DEF IInv
<1> QED
  BY <1>1, <1>2, <1>3, <1>4, <1>5, <1>6, <1>7, <1>8, <1>9, <1>10, <1>11, <1>12,
         <1>13, <1>14, <1>15, <1>16, <1>17, <1>18, <1>19, <1>20, <1>21, <1>22,
         <1>23, <1>24, <1>25, <1>26, <1>27, <1>28, <1>29 DEF Next, Worker

-----------------------------------------------------------------------------

THEOREM Invariance == Spec => []IInv
  BY InitIInv, NextIInv, PTL DEF Spec

\* The variables keep their types, for all values of the constants.
THEOREM TypeCorrect == Spec => []TypeOK
<1>1. IInv => TypeOK
  BY DEF IInv
<1> QED
  BY <1>1, Invariance, PTL

\* Only compiled policies are ever served, stored or enforced, through every
\* failure, restart, wipe and late request (sync.py, sync_once).
THEOREM OnlyCompiledHolds == Spec => []OnlyCompiled
<1>1. IInv => OnlyCompiled
  BY DEF IInv, CompiledInv
<1> QED
  BY <1>1, Invariance, PTL

\* IInv orders what the two endpoints serve in each of the four cases memory
\* or file, memory or file.
LEMMA ServedOrder == IInv => UpstreamLeads
<1> SUFFICES ASSUME IInv PROVE UpstreamLeads
  OBVIOUS
<1> USE DEF IInv, TypeOK, OrderInv, Stores, Dests, Served, UpstreamLeads
<1>1. CASE mem["upstream"] # 0
  BY <1>1
<1>2. CASE mem["upstream"] = 0
  <2>1. mem["npm"] = 0
    BY <1>2
  <2> QED
    BY <1>2, <2>1
<1> QED
  BY <1>1, <1>2

\* A reader never meets npm rules newer than the upstream policy, whatever
\* fails and whenever the process restarts (sync.py, the emission order).
THEOREM UpstreamLeadsHolds == Spec => []UpstreamLeads
  BY ServedOrder, Invariance, PTL

\* No acknowledged webhook is forgotten (server.py, run_sync_worker).
THEOREM NoLostWakeupHolds == Spec => []NoLostWakeup
<1>1. IInv => NoLostWakeup
  BY DEF IInv
<1> QED
  BY <1>1, Invariance, PTL

\* A worker that is idle after a successful sync left every endpoint and devpi
\* on the version of that sync (server.py, SyncState and /healthz).
THEOREM HealthyMeansAppliedHolds == Spec => []HealthyMeansApplied
<1>1. IInv => HealthyMeansApplied
  BY DEF IInv, SuccessInv, TypeOK, HealthyMeansApplied, Served, Stores
<1> QED
  BY <1>1, Invariance, PTL

-----------------------------------------------------------------------------

\* What a step can do to the served policies, as the reader of the endpoints
\* sees it: nothing, one endpoint moving to the version the worker holds, or a
\* restart that leaves the files.
SameServed == \A q \in Stores : Served(q)' = Served(q)
AdvanceTo(p) ==
  /\ Compiles(work) /\ Served(p) <= work
  /\ \A q \in Stores : Served(q)' = IF q = p THEN work ELSE Served(q)
FallBack ==
  /\ \A q \in Stores : Served(q)' = file[q]
  /\ \A p \in {"upstream", "npm"} : file[p] <= Served(p)
  /\ IF "parsed" \in Files THEN Served("parsed") <= file["parsed"]
                            ELSE file["parsed"] <= Served("parsed")

\* A store set to the worker's version moves its endpoint there.
LEMMA SetAdvances ==
  ASSUME IInv, NEW p \in Stores, pc \in Working,
         mem' = [mem EXCEPT ![p] = work], file' = file
  PROVE  AdvanceTo(p)
<1> USE DEF IInv, TypeOK
<1>1. Compiles(work) /\ work # 0
  BY DEF CompiledInv, Compiles
<1>2. Served(p) <= work
  BY DEF EmissionInv, Served, Stores, Dests
<1>3. \A q \in Stores : Served(q)' = IF q = p THEN work ELSE Served(q)
  BY <1>1 DEF Served
<1> QED
  BY <1>1, <1>2, <1>3 DEF AdvanceTo

\* A file written behind a store that is already set is not visible; the
\* parsed file is visible until its store is set for the first time.
LEMMA WriteAdvances ==
  ASSUME IInv, NEW p \in Dests, pc \in Working,
         p \in Files => p \in {"parsed", "pypi"} \/ mem[p] # 0,
         file' = IF p \in Files THEN [file EXCEPT ![p] = work] ELSE file,
         mem' = mem
  PROVE  SameServed \/ (p = "parsed" /\ AdvanceTo(p))
<1> USE DEF IInv, TypeOK, Stores, Dests
<1>1. Compiles(work) /\ work # 0
  BY DEF CompiledInv, Compiles
<1>2. CASE p \notin Files
  BY <1>2 DEF SameServed, Served
<1>3. CASE p \in Files /\ (p = "pypi" \/ mem[p] # 0)
  BY <1>3 DEF SameServed, Served
<1>4. CASE p \in Files /\ p = "parsed" /\ mem[p] = 0
  <2>1. Served(p) <= work
    BY <1>4 DEF EmissionInv, Served
  <2>2. \A q \in Stores : Served(q)' = IF q = p THEN work ELSE Served(q)
    BY <1>4 DEF Served
  <2> QED
    BY <1>1, <1>4, <2>1, <2>2 DEF AdvanceTo
<1> QED
  BY <1>2, <1>3, <1>4

\* A restart uncovers the files; OrderInv says what they can hold.
LEMMA RestartFallsBack == IInv /\ Restart => FallBack
<1> SUFFICES ASSUME IInv, Restart PROVE FallBack
  OBVIOUS
<1> USE DEF IInv, TypeOK, Stores, Dests
<1>1. \A q \in Stores : Served(q)' = file[q]
  BY DEF Restart, Served
<1>2. \A p \in {"upstream", "npm"} : file[p] <= Served(p)
  BY DEF OrderInv, Served
<1>3. CASE "parsed" \in Files
  BY <1>1, <1>2, <1>3 DEF OrderInv, Served, FallBack
<1>4. CASE "parsed" \notin Files
  <2>1. file["parsed"] = 0
    BY <1>4 DEF EmissionInv
  <2>2. file["parsed"] <= Served("parsed")
    BY <2>1 DEF Served
  <2> QED
    BY <1>1, <1>2, <1>4, <2>2 DEF FallBack
<1> QED
  BY <1>3, <1>4

\* Every step of the system, seen from the endpoints and the repository.
LEMMA ServedStep ==
  ASSUME IInv, [Next]_vars
  PROVE  \/ SameServed /\ UNCHANGED history
         \/ /\ SameServed /\ Newest < MaxVersions
            /\ \E kind \in Kinds : history' = Append(history, kind)
         \/ (\E p \in Stores : AdvanceTo(p)) /\ UNCHANGED history
         \/ FallBack /\ UNCHANGED history
<1> USE DEF repoVars, workerVars, devpiVars
<1>1. UNCHANGED <<mem, file>> => SameServed
  BY DEF SameServed, Served
<1>2. CASE \E kind \in Kinds : Push(kind)
  BY <1>1, <1>2 DEF Push
<1>3. CASE RuleExpires
  BY <1>1, <1>3 DEF RuleExpires, Kinds
<1>4. CASE EmitUpstreamStore \/ EmitNpmStore \/ SetParsed
  BY <1>4, SetAdvances DEF EmitUpstreamStore, EmitNpmStore, SetParsed,
     SetStore, Working, AfterUpstreamStore, Stores
<1>5. ASSUME NEW p \in Dests, NEW here \in Working, NEW next,
             WriteFile(p, here, next),
             p \in Files => p \in {"parsed", "pypi"} \/ mem[p] # 0
      PROVE  \/ SameServed /\ UNCHANGED history
             \/ (\E q \in Stores : AdvanceTo(q)) /\ UNCHANGED history
  <2>1. CASE file' = file
    BY <1>1, <1>5, <2>1 DEF WriteFile
  <2>2. CASE file' = IF p \in Files THEN [file EXCEPT ![p] = work] ELSE file
    BY <1>5, <2>2, WriteAdvances DEF WriteFile, Stores
  <2> QED
    BY <1>5, <2>1, <2>2 DEF WriteFile
<1>6. pc \in {"upstreamFile", "npmFile"} =>
        mem["upstream"] # 0 /\ (pc = "npmFile" => mem["npm"] # 0)
  BY DEF IInv, CompiledInv, EmissionInv, Compiles, Working,
         AfterUpstreamStore, AfterUpstreamFile, AfterNpmStore
<1>7. CASE EmitUpstreamFile \/ EmitNpmFile \/ WriteParsed \/ WritePypi
  <2>1. CASE EmitUpstreamFile
    BY <2>1, <1>5, <1>6 DEF EmitUpstreamFile, WriteFile, Working,
       AfterUpstreamStore, Dests, Stores
  <2>2. CASE EmitNpmFile
    BY <2>2, <1>5, <1>6 DEF EmitNpmFile, WriteFile, Working,
       AfterUpstreamStore, Dests, Stores
  <2>3. CASE WriteParsed
    BY <2>3, <1>5 DEF WriteParsed, Working, AfterUpstreamStore, Dests, Stores
  <2>4. CASE WritePypi
    BY <2>4, <1>5 DEF WritePypi, Working, AfterUpstreamStore, Dests, Stores
  <2> QED
    BY <1>7, <2>1, <2>2, <2>3, <2>4
<1>8. CASE Restart
  BY <1>8, RestartFallsBack DEF Restart
<1>9. CASE \/ \E v \in hooks : Webhook(v) \/ LoseWebhook(v)
           \/ WipeDevpi \/ EnsureIndex \/ LatePatch \/ Settle
  BY <1>1, <1>9 DEF Webhook, LoseWebhook, WipeDevpi, EnsureIndex, LatePatch,
     Settle
<1>10. CASE \/ FetchFails \/ FetchUnusable \/ FetchAndCompile
            \/ DevpiGet \/ DevpiPatch \/ DevpiPatchFails
            \/ DevpiPatchTimesOut \/ RecordSuccess \/ RecordFailure
            \/ WokenUp \/ PollDue \/ ClearWake
  BY <1>1, <1>10 DEF FetchFails, FetchUnusable, FetchAndCompile, DevpiGet,
     DevpiPatch, DevpiPatchFails, DevpiPatchTimesOut, RecordSuccess,
     RecordFailure, WokenUp, PollDue, ClearWake
<1>11. CASE UNCHANGED vars
  BY <1>1, <1>11 DEF vars
<1> QED
  BY <1>2, <1>3, <1>4, <1>7, <1>8, <1>9, <1>10, <1>11 DEF Next, Worker

\* Of a state: what the endpoints serve is published, compiles and is ordered.
ServedInv ==
  /\ \A p \in Stores : /\ Served(p) \in 0..Newest
                       /\ Served(p) = 0 \/ Compiles(Served(p))
  /\ UpstreamLeads

LEMMA ServedOK == IInv => ServedInv
<1> SUFFICES ASSUME IInv PROVE ServedInv
  OBVIOUS
<1>1. ASSUME NEW p \in Stores
      PROVE  Served(p) = 0 \/ Compiles(Served(p))
  BY DEF IInv, CompiledInv, OnlyCompiled, Served, Stores, Dests
<1>2. \A v : v = 0 \/ Compiles(v) => v \in 0..Newest
  BY DEF Compiles, IInv, TypeOK, Newest
<1> QED
  BY <1>1, <1>2, ServedOrder DEF ServedInv

\* The parsed policy behind the OSV decisions never goes back, through
\* restarts too, when it has a file (sync.py writes it before it is served).
THEOREM ParsedNeverRegressesHolds == Spec => ParsedNeverRegresses
<1>1. ASSUME IInv, [Next]_vars, "parsed" \in Files
      PROVE  Served("parsed")' >= Served("parsed")
  <2>1. Served("parsed") \in Int /\ "parsed" \in Stores
    BY <1>1, ServedOK DEF ServedInv, Stores, IInv, TypeOK, Newest
  <2>2. CASE SameServed
    BY <2>1, <2>2 DEF SameServed
  <2>3. ASSUME NEW p \in Stores, AdvanceTo(p)
        PROVE  Served("parsed")' >= Served("parsed")
    <3>1. work \in Int
      BY <1>1 DEF IInv, TypeOK
    <3>2. CASE p = "parsed"
      <4>1. Served("parsed")' = work /\ Served("parsed") <= work
        BY <2>1, <2>3, <3>2 DEF AdvanceTo
      <4> QED
        BY <2>1, <3>1, <4>1
    <3>3. CASE p # "parsed"
      <4>1. Served("parsed")' = Served("parsed")
        BY <2>1, <2>3, <3>3 DEF AdvanceTo
      <4> QED
        BY <2>1, <4>1
    <3> QED
      BY <3>2, <3>3
  <2>4. CASE FallBack
    BY <1>1, <2>1, <2>4 DEF FallBack, IInv, TypeOK, Dests, Stores
  <2> QED
    BY <1>1, <2>2, <2>3, <2>4, ServedStep
<1>2. IInv /\ [Next]_vars =>
        [("parsed" \in Files) => Served("parsed")' >= Served("parsed")]_vars
  BY <1>1
<1> QED
  BY <1>2, Invariance, PTL DEF Spec, ParsedNeverRegresses

LEMMA InitRefines == Init => LKG!Init
  BY DEF Init, LKG!Init, Served, Stores, Dests

LEMMA NextRefines ==
  IInv /\ ServedInv /\ ServedInv' /\ [Next]_vars => [LKG!Next]_(LKG!vars)
<1> SUFFICES ASSUME IInv, ServedInv, ServedInv', [Next]_vars
             PROVE  [LKG!Next]_(LKG!vars)
  OBVIOUS
<1> DEFINE s == [q \in Stores |-> Served(q)]
<1>1. LKG!Leads(s')
  BY DEF ServedInv, UpstreamLeads, LKG!Leads, Stores
<1>2. SameServed => UNCHANGED s
  BY DEF SameServed
<1>3. CASE SameServed /\ UNCHANGED history
  BY <1>2, <1>3 DEF LKG!vars
<1>4. CASE /\ SameServed /\ Newest < MaxVersions
           /\ \E kind \in Kinds : history' = Append(history, kind)
  BY <1>2, <1>4 DEF LKG!Publish, LKG!Next, Newest
<1>5. ASSUME NEW p \in Stores, AdvanceTo(p), UNCHANGED history
      PROVE  LKG!Adopt(p)
  <2>1. work \in s[p]..Len(history) /\ LKG!Good(work)
    BY <1>5 DEF AdvanceTo, ServedInv, LKG!Good, Compiles, Newest, IInv, TypeOK
  <2>2. s' = [s EXCEPT ![p] = work]
    BY <1>5 DEF AdvanceTo
  <2> QED
    BY <1>1, <1>5, <2>1, <2>2 DEF LKG!Adopt
<1>6. CASE FallBack /\ UNCHANGED history
  <2>1. s' \in [Stores -> 0..Len(history)]
    BY <1>6 DEF ServedInv, Newest
  <2>2. \A p \in Stores :
          /\ s'[p] = 0 \/ LKG!Good(s'[p])
          /\ IF p \in Files \cap {"parsed"} THEN s'[p] >= s[p]
                                             ELSE s'[p] <= s[p]
    BY <1>6 DEF FallBack, ServedInv, LKG!Good, Compiles, Newest, Stores
  <2> QED
    BY <1>1, <1>6, <2>1, <2>2 DEF LKG!Restart, LKG!Next
<1> QED
  BY <1>3, <1>4, <1>5, <1>6, ServedStep DEF LKG!Next

\* What the endpoints serve is a last-known-good register each.
THEOREM Refinement == Spec => ServesLastKnownGood
  BY InitRefines, NextRefines, ServedOK, Invariance, PTL
     DEF Spec, LKG!Spec, ServesLastKnownGood

-----------------------------------------------------------------------------
(* The compiler: rules and expressions *)

LEMMA RuleFields ==
  ASSUME NEW R \in SUBSET Rules, NEW r \in R
  PROVE  /\ r.ecosystem \in {"npm", "pypi"} /\ r.action \in {"allow", "deny"}
         /\ (r.name = None) # (r.namespace = None)
         /\ r.name # None =>
              r.name \in IF r.ecosystem = "npm" THEN NpmNames ELSE PypiNames
         /\ r.versions # None =>
              /\ r.name # None
              /\ r.versions \in [op : Ops \cup {"~="}, v : Seq(Nat)]
              /\ r.ecosystem = "npm" => r.versions.op # "~="
BY RulesAssumption

\* Exactly one of an invertible expression and its complement holds.
LEMMA ComplementInverts ==
  ASSUME NEW e, Invertible(e), NEW x
  PROVE  Satisfies(x, Complement(e)) <=> ~Satisfies(x, e)
<1>1. e.op \in {"<", "<=", ">", ">=", "=="}
  BY DEF Invertible, ComplementOp
<1>2. /\ Complement(e).v = e.v
      /\ Complement(e).op = ComplementOp[e.op]
  BY DEF Complement, Expr
<1>3. ComplementOp[e.op] = CASE e.op = "<" -> ">=" [] e.op = "<=" -> ">"
                             [] e.op = ">" -> "<=" [] e.op = ">=" -> "<"
                             [] e.op = "==" -> "!="
  BY <1>1 DEF ComplementOp
<1>4. CASE e.op = "<"
  BY <1>2, <1>3, <1>4 DEF Satisfies
<1>5. CASE e.op = "<="
  BY <1>2, <1>3, <1>5 DEF Satisfies
<1>6. CASE e.op = ">"
  BY <1>2, <1>3, <1>6 DEF Satisfies
<1>7. CASE e.op = ">="
  BY <1>2, <1>3, <1>7 DEF Satisfies
<1>8. CASE e.op = "=="
  BY <1>2, <1>3, <1>8 DEF Satisfies
<1> QED
  BY <1>1, <1>4, <1>5, <1>6, <1>7, <1>8

LEMMA Pins ==
  ASSUME NEW x, NEW v
  PROVE  /\ Satisfies(x, Expr("==", v)) <=> Same(x, v)
         /\ Satisfies(x, Expr("!=", v)) <=> ~Same(x, v)
BY DEF Satisfies, Expr

\* There are finitely many versions a project's exact allows name.
LEMMA ExactAllowsFinite ==
  ASSUME NEW R, IsFiniteSet(R), NEW ecosystem, NEW n
  PROVE  IsFiniteSet(ExactAllows(R, ecosystem, n))
<1> DEFINE Q == {r \in R : /\ r \in Of(R, ecosystem, "allow") /\ r.name = n
                           /\ r.versions # None}
           f == [r \in Q |-> r.versions.v]
           T == ExactAllows(R, ecosystem, n)
<1>1. IsFiniteSet(Q)
  <2>1. Q \in SUBSET R
    OBVIOUS
  <2> QED
    BY <2>1, FS_Subset
<1>2. \A r \in Q : r.versions.v \in T
  BY DEF ExactAllows, Ranges
<1>3. \A v \in T : \E r \in Q : r.versions.v = v
  BY DEF ExactAllows, Ranges, Of
<1>4. f \in Surjection(Q, T)
  <2>1. f \in [Q -> T] /\ \A v \in T : \E r \in Q : f[r] = v
    BY <1>2, <1>3
  <2> QED
    BY <2>1 DEF Surjection
<1> QED
  BY <1>1, <1>4, FS_Surjection

LEMMA OneExactAllow ==
  ASSUME NEW R, IsFiniteSet(R), NEW ecosystem, NEW n,
         ~(Cardinality(ExactAllows(R, ecosystem, n)) > 1),
         NEW v \in ExactAllows(R, ecosystem, n),
         NEW w \in ExactAllows(R, ecosystem, n)
  PROVE  v = w
<1> DEFINE T == ExactAllows(R, ecosystem, n)
<1>1. IsFiniteSet(T)
  BY ExactAllowsFinite
<1> HIDE DEF T
<1>2. IsFiniteSet(T \ {v}) /\ Cardinality(T \ {v}) = Cardinality(T) - 1
  BY <1>1, FS_RemoveElement DEF T
<1>3. Cardinality(T) \in Nat
  BY <1>1, FS_CardinalityType
<1>4. Cardinality(T \ {v}) \in Nat
  BY <1>2, FS_CardinalityType
<1>5. Cardinality(T \ {v}) = 0
  BY <1>2, <1>3, <1>4 DEF T
<1>6. T \ {v} = {}
  BY <1>2, <1>5, FS_EmptySet
<1> QED
  BY <1>6 DEF T

-----------------------------------------------------------------------------
(* What compiling emits *)

CompilerInv ==
  /\ rules \subseteq Rules /\ IsFiniteSet(rules) /\ defaults \in Defaults
  /\ emitted = Compile(rules, defaults)

\* A package is named as the rules name it, and is no scope.
LEMMA Names == None \notin NpmNames /\ None \notin PypiNames
BY NamesAssumption

LEMMA Emitted ==
  ASSUME CompilerInv, Compiled
  PROVE  /\ ~ClassifyFails(rules) /\ ~NpmFails(rules, defaults["npm"])
         /\ ~PypiFails(rules, defaults["pypi"])
         /\ emitted.npm = EmitNpm(rules)
         /\ emitted.pypi = EmitPypi(rules, defaults["pypi"])
         /\ defaults["npm"] = "allow"
         /\ defaults["pypi"] \in {"allow", "deny"}
<1>1. emitted = [ok |-> TRUE, npm |-> EmitNpm(rules),
                 pypi |-> EmitPypi(rules, defaults["pypi"])]
  BY DEF CompilerInv, Compiled, Compile
<1>2. /\ ~ClassifyFails(rules) /\ ~NpmFails(rules, defaults["npm"])
      /\ ~PypiFails(rules, defaults["pypi"])
  BY DEF CompilerInv, Compiled, Compile
<1>3. defaults["npm"] \in {"allow", "deny"}
      /\ defaults["pypi"] \in {"allow", "deny"}
  BY DEF CompilerInv, Defaults
<1>4. defaults["npm"] # "deny"
  BY <1>2 DEF NpmFails
<1> QED
  BY <1>1, <1>2, <1>3, <1>4

\* The verdict in terms of what the compiler sorts the rules into.  An allow of
\* the package is whole or exact.
LEMMA AllowedBy ==
  ASSUME CompilerInv, Compiled, NEW ecosystem, NEW n, n # None, NEW x,
         NEW r \in rules, r.ecosystem = ecosystem, Allows(r, n, x)
  PROVE  \/ n \in Wholes(rules, ecosystem, "allow")
         \/ \E v \in ExactAllows(rules, ecosystem, n) : Same(x, v)
<1>1. r.action = "allow" /\ r.name = n /\ r \in Of(rules, ecosystem, "allow")
  BY DEF Allows, Of
<1>2. CASE r.versions = None
  BY <1>1, <1>2 DEF Wholes
<1>3. CASE r.versions # None
  <2>1. r.versions.op = "=="
    BY <1>1, <1>3, Emitted DEF ClassifyFails
  <2>2. Same(x, r.versions.v)
    BY <1>3, <2>1 DEF Allows, Satisfies
  <2>3. r.versions \in Ranges(rules, ecosystem, "allow", n)
    BY <1>1, <1>3 DEF Ranges
  <2> QED
    BY <2>2, <2>3 DEF ExactAllows
<1> QED
  BY <1>2, <1>3

\* Conversely, what it sorts as an allow is an allow of the verdict.
LEMMA WholeAllows ==
  ASSUME NEW ecosystem, NEW n \in Wholes(rules, ecosystem, "allow"), NEW x
  PROVE  \E r \in rules : r.ecosystem = ecosystem /\ Allows(r, n, x)
BY DEF Wholes, Of, Allows

LEMMA ExactlyAllows ==
  ASSUME CompilerInv, Compiled, NEW ecosystem, NEW n, NEW x,
         NEW v \in ExactAllows(rules, ecosystem, n), Same(x, v)
  PROVE  \E r \in rules : r.ecosystem = ecosystem /\ Allows(r, n, x)
<1>1. PICK r \in rules : /\ r.ecosystem = ecosystem /\ r.action = "allow"
                         /\ r.name = n /\ r.versions # None
                         /\ r.versions.v = v
  BY DEF ExactAllows, Ranges, Of
<1>2. r.versions.op = "=="
  BY <1>1, Emitted DEF ClassifyFails
<1>3. Satisfies(x, r.versions)
  BY <1>1, <1>2 DEF Satisfies
<1> QED
  BY <1>1, <1>3 DEF Allows

\* A package that is denied, by no scope, is denied whole or by a range.
LEMMA DeniedBy ==
  ASSUME NEW ecosystem, NEW scope, NEW n, NEW x, NEW r \in rules,
         r.ecosystem = ecosystem, r.name # None, n # None,
         Denies(r, scope, n, x)
  PROVE  \/ n \in Wholes(rules, ecosystem, "deny")
         \/ \E e \in Ranges(rules, ecosystem, "deny", n) : Satisfies(x, e)
BY DEF Denies, Wholes, Ranges, Of

LEMMA WholeDeniesDeny ==
  ASSUME NEW ecosystem, NEW scope, NEW n \in Wholes(rules, ecosystem, "deny"),
         NEW x
  PROVE  \E r \in rules : /\ r.ecosystem = ecosystem /\ r.name # None
                          /\ Denies(r, scope, n, x)
BY DEF Denies, Wholes, Of

LEMMA RangeDeniesDeny ==
  ASSUME NEW ecosystem, NEW scope, NEW n, n # None,
         NEW e \in Ranges(rules, ecosystem, "deny", n), NEW x, Satisfies(x, e)
  PROVE  \E r \in rules : /\ r.ecosystem = ecosystem /\ r.name # None
                          /\ Denies(r, scope, n, x)
BY DEF Denies, Ranges, Of

Allowed(ecosystem, n, x) ==
  \/ n \in Wholes(rules, ecosystem, "allow")
  \/ \E v \in ExactAllows(rules, ecosystem, n) : Same(x, v)
Denied(ecosystem, scope, n, x) ==
  \/ n \in Wholes(rules, ecosystem, "deny")
  \/ \E e \in Ranges(rules, ecosystem, "deny", n) : Satisfies(x, e)
  \/ scope \in Namespaces(rules, ecosystem, "deny")
                 \ Namespaces(rules, ecosystem, "allow")

\* The documented verdict, told by the compiler's buckets.
LEMMA Verdict ==
  ASSUME CompilerInv, Compiled, NEW ecosystem, NEW scope, NEW n, n # None,
         NEW x
  PROVE  Blocked(ecosystem, scope, n, x) <=>
           /\ ~Allowed(ecosystem, n, x)
           /\ \/ Denied(ecosystem, scope, n, x)
              \/ defaults[ecosystem] = "deny"
<1> DEFINE Own(r) == r \in rules /\ r.ecosystem = ecosystem
           ByScope(r) == r.name = None /\ r.namespace = scope
           ScopeDenied == scope \in Namespaces(rules, ecosystem, "deny")
                                      \ Namespaces(rules, ecosystem, "allow")
           ScopeAllowed == \E r : /\ Own(r) /\ r.action = "allow"
                                  /\ ByScope(r)
<1>1. (\E r : Own(r) /\ Allows(r, n, x)) <=> Allowed(ecosystem, n, x)
  <2>1. ASSUME NEW r, Own(r), Allows(r, n, x)
        PROVE  Allowed(ecosystem, n, x)
    BY <2>1, AllowedBy DEF Allowed
  <2>2. ASSUME Allowed(ecosystem, n, x)
        PROVE  \E r : Own(r) /\ Allows(r, n, x)
    BY <2>2, WholeAllows, ExactlyAllows DEF Allowed
  <2> QED
    BY <2>1, <2>2
<1>2. ASSUME NEW action
      PROVE  scope \in Namespaces(rules, ecosystem, action) <=>
               \E r : Own(r) /\ r.action = action /\ ByScope(r)
  <2>1. \A r \in rules : (r.name = None) # (r.namespace = None)
    BY RulesAssumption DEF CompilerInv
  <2> QED
    BY <2>1 DEF Namespaces, Of
<1>3. (\E r : /\ Own(r) /\ Denies(r, scope, n, x)
              /\ r.name = None => ~ScopeAllowed)
        <=> Denied(ecosystem, scope, n, x)
  <2>1. ASSUME NEW r, Own(r), Denies(r, scope, n, x),
               r.name = None => ~ScopeAllowed
        PROVE  Denied(ecosystem, scope, n, x)
    <3>1. CASE r.name = None
      <4>1. r.action = "deny" /\ ByScope(r)
        BY <2>1, <3>1 DEF Denies
      <4>2. ScopeDenied
        BY <1>2, <2>1, <3>1, <4>1
      <4> QED
        BY <4>2 DEF Denied
    <3>2. CASE r.name # None
      BY <2>1, <3>2, DeniedBy DEF Denied
    <3> QED
      BY <3>1, <3>2
  <2>2. ASSUME Denied(ecosystem, scope, n, x)
        PROVE  \E r : /\ Own(r) /\ Denies(r, scope, n, x)
                      /\ r.name = None => ~ScopeAllowed
    <3>1. CASE ScopeDenied
      <4>1. PICK r : Own(r) /\ r.action = "deny" /\ ByScope(r)
        BY <1>2, <3>1
      <4>2. ~ScopeAllowed
        BY <1>2, <3>1
      <4>3. Denies(r, scope, n, x)
        BY <4>1 DEF Denies
      <4> QED
        BY <4>1, <4>2, <4>3
    <3>2. CASE n \in Wholes(rules, ecosystem, "deny")
      BY <3>2, WholeDeniesDeny
    <3>3. CASE \E e \in Ranges(rules, ecosystem, "deny", n) : Satisfies(x, e)
      <4>1. PICK e \in Ranges(rules, ecosystem, "deny", n) : Satisfies(x, e)
        BY <3>3
      <4>2. PICK r \in rules : /\ r.ecosystem = ecosystem /\ r.name # None
                               /\ Denies(r, scope, n, x)
        BY <4>1, RangeDeniesDeny
      <4> QED
        BY <4>2
    <3> QED
      BY <2>2, <3>1, <3>2, <3>3 DEF Denied
  <2> QED
    BY <2>1, <2>2
<1>4. Blocked(ecosystem, scope, n, x) <=>
        /\ ~\E r : Own(r) /\ Allows(r, n, x)
        /\ \/ \E r : /\ Own(r) /\ Denies(r, scope, n, x)
                     /\ r.name = None => ~ScopeAllowed
           \/ defaults[ecosystem] = "deny"
  BY DEF Blocked
<1> HIDE DEF Own, ScopeAllowed
<1> QED
  BY <1>1, <1>3, <1>4

-----------------------------------------------------------------------------
(* npm *)

LEMMA NpmDeniesHold ==
  ASSUME CompilerInv, Compiled, NEW n \in NpmNames, NEW x,
         Blocked("npm", Namespace[n], n, x)
  PROVE  NpmBlocks(emitted.npm, n, x)
<1>1. ~Allowed("npm", n, x) /\ Denied("npm", Namespace[n], n, x)
  BY Names, Verdict, Emitted
<1>2. n \notin Wholes(rules, "npm", "allow")
  BY <1>1 DEF Allowed
<1>3. emitted.npm = EmitNpm(rules)
  BY Emitted
<1>4. \A e \in NpmRanges(rules, n) :
        Satisfies(x, e) => NpmBlocks(emitted.npm, n, x)
  BY <1>3 DEF NpmBlocks, EmitNpm
<1>5. CASE n \in Wholes(rules, "npm", "deny")
  <2>1. n \in WholeDenies(rules, "npm")
    BY <1>2, <1>5 DEF WholeDenies
  <2>2. CASE ExactAllows(rules, "npm", n) = {}
    BY <1>3, <2>1, <2>2 DEF NpmBlocks, EmitNpm
  <2>3. CASE ExactAllows(rules, "npm", n) # {}
    <3>1. PICK v \in ExactAllows(rules, "npm", n) : ~Same(x, v)
      BY <1>1, <2>3 DEF Allowed
    <3>2. Expr("!=", v) \in NpmRanges(rules, n)
      BY <2>1 DEF NpmRanges
    <3> QED
      BY <1>4, <3>1, <3>2, Pins
  <2> QED
    BY <2>2, <2>3
<1>6. ASSUME NEW e \in Ranges(rules, "npm", "deny", n), Satisfies(x, e)
      PROVE  NpmBlocks(emitted.npm, n, x)
  BY <1>2, <1>4, <1>6 DEF RangeDenies, NpmRanges
<1>7. CASE Namespace[n] \in Namespaces(rules, "npm", "deny")
                              \ Namespaces(rules, "npm", "allow")
  BY <1>3, <1>7 DEF NpmBlocks, EmitNpm, Scopes
<1> QED
  BY <1>1, <1>5, <1>6, <1>7 DEF Denied

LEMMA NpmAllowsHold ==
  ASSUME CompilerInv, Compiled, NEW n \in NpmNames, NEW x,
         NpmBlocks(emitted.npm, n, x), ~CoveredByScope(rules, n),
         ~(Cardinality(ExactAllows(rules, "npm", n)) > 1)
  PROVE  Blocked("npm", Namespace[n], n, x)
<1>1. emitted.npm = EmitNpm(rules) /\ IsFiniteSet(rules)
  BY Emitted DEF CompilerInv
<1>2. \/ n \in WholeDenies(rules, "npm") /\ ExactAllows(rules, "npm", n) = {}
      \/ \E e \in RangeDenies(rules, "npm", n) : Satisfies(x, e)
      \/ /\ n \in WholeDenies(rules, "npm")
         /\ \E v \in ExactAllows(rules, "npm", n) : ~Same(x, v)
  <2>1. \/ n \in EmitNpm(rules).names
        \/ Namespace[n] \in EmitNpm(rules).scopes
        \/ \E e \in EmitNpm(rules).ranges[n] : Satisfies(x, e)
    BY <1>1 DEF NpmBlocks
  <2>2. Namespace[n] \notin EmitNpm(rules).scopes
    BY DEF EmitNpm, CoveredByScope
  <2>3. CASE n \in EmitNpm(rules).names
    BY <2>3 DEF EmitNpm
  <2>4. ASSUME NEW e \in NpmRanges(rules, n), Satisfies(x, e),
               e \notin RangeDenies(rules, "npm", n)
        PROVE  /\ n \in WholeDenies(rules, "npm")
               /\ \E v \in ExactAllows(rules, "npm", n) : ~Same(x, v)
    <3>1. n \in WholeDenies(rules, "npm")
      BY <2>4 DEF NpmRanges
    <3>2. PICK v \in ExactAllows(rules, "npm", n) : e = Expr("!=", v)
      BY <2>4, <3>1 DEF NpmRanges
    <3> QED
      BY <2>4, <3>1, <3>2, Pins
  <2>5. EmitNpm(rules).ranges[n] = NpmRanges(rules, n)
    BY DEF EmitNpm
  <2> QED
    BY <2>1, <2>2, <2>3, <2>4, <2>5
<1>3. n \notin Wholes(rules, "npm", "allow")
  BY <1>2 DEF WholeDenies, RangeDenies
<1>4. ~RangeCarving(rules, "npm", n)
  BY Emitted DEF NpmFails
<1>5. CASE \E e \in RangeDenies(rules, "npm", n) : Satisfies(x, e)
  <2>1. ExactAllows(rules, "npm", n) = {}
    BY <1>4, <1>5 DEF RangeCarving
  <2>2. Denied("npm", Namespace[n], n, x)
    BY <1>3, <1>5 DEF RangeDenies, Denied
  <2> QED
    BY <1>3, <2>1, <2>2, Names, Verdict DEF Allowed
<1>6. ASSUME n \in WholeDenies(rules, "npm"),
             \A v \in ExactAllows(rules, "npm", n) : ~Same(x, v)
      PROVE  Blocked("npm", Namespace[n], n, x)
  <2>1. Denied("npm", Namespace[n], n, x)
    BY <1>6 DEF WholeDenies, Denied
  <2> QED
    BY <1>3, <1>6, <2>1, Names, Verdict DEF Allowed
<1>7. ASSUME NEW v \in ExactAllows(rules, "npm", n), ~Same(x, v),
             NEW w \in ExactAllows(rules, "npm", n)
      PROVE  ~Same(x, w)
  BY <1>1, <1>7, OneExactAllow
<1> QED
  BY <1>2, <1>5, <1>6, <1>7

-----------------------------------------------------------------------------
(* pypi *)

\* Where a line of devpi's constraints comes from.
LEMMA PypiLines ==
  ASSUME CompilerInv, Compiled, NEW l
  PROVE  l \in emitted.pypi.lines <=>
           \/ /\ defaults["pypi"] = "allow"
              /\ \E n \in PypiNames : /\ RangeDenies(rules, "pypi", n) # {}
                                      /\ l = Line(n, Complements(rules, n))
           \/ /\ defaults["pypi"] = "allow"
              /\ \E n \in WholeDenies(rules, "pypi") :
                   /\ ExactAllows(rules, "pypi", n) = {}
                   /\ l = Line(n, {Expr("==", <<0>>)})
           \/ \E n \in ExactNames(rules, defaults["pypi"]) :
                l = Line(n, {Expr("==", v) :
                               v \in ExactAllows(rules, "pypi", n)})
           \/ /\ defaults["pypi"] = "deny"
              /\ \E n \in Wholes(rules, "pypi", "allow") : l = Line(n, {})
<1>1. emitted.pypi = EmitPypi(rules, defaults["pypi"])
      /\ defaults["pypi"] \in {"allow", "deny"}
  BY Emitted
<1>2. emitted.pypi.lines = EmitPypiRanges(rules, defaults["pypi"])
                             \cup EmitPypiWholes(rules, defaults["pypi"])
                             \cup EmitPypiAllows(rules, defaults["pypi"])
  BY <1>1 DEF EmitPypi
<1>3. CASE defaults["pypi"] = "allow"
  BY <1>2, <1>3 DEF EmitPypiRanges, EmitPypiWholes, EmitPypiAllows
<1>4. CASE defaults["pypi"] = "deny"
  BY <1>2, <1>4 DEF EmitPypiRanges, EmitPypiWholes, EmitPypiAllows
<1> QED
  BY <1>1, <1>3, <1>4

\* The lines of one project.
LEMMA OwnLines ==
  ASSUME CompilerInv, Compiled, NEW l \in emitted.pypi.lines
  PROVE  /\ l = Line(l.name, l.specs)
         /\ \/ /\ defaults["pypi"] = "allow"
               /\ l.name \in PypiNames
               /\ RangeDenies(rules, "pypi", l.name) # {}
               /\ l.specs = Complements(rules, l.name)
            \/ /\ defaults["pypi"] = "allow"
               /\ l.name \in WholeDenies(rules, "pypi")
               /\ ExactAllows(rules, "pypi", l.name) = {}
               /\ l.specs = {Expr("==", <<0>>)}
            \/ /\ l.name \in ExactNames(rules, defaults["pypi"])
               /\ l.specs =
                    {Expr("==", v) : v \in ExactAllows(rules, "pypi", l.name)}
            \/ /\ defaults["pypi"] = "deny"
               /\ l.name \in Wholes(rules, "pypi", "allow")
               /\ l.specs = {}
<1>1. \A n, s : /\ Line(n, s).name = n /\ Line(n, s).specs = s
  BY DEF Line
<1>2. CASE /\ defaults["pypi"] = "allow"
           /\ \E n \in PypiNames : /\ RangeDenies(rules, "pypi", n) # {}
                                   /\ l = Line(n, Complements(rules, n))
  BY <1>1, <1>2
<1>3. CASE /\ defaults["pypi"] = "allow"
           /\ \E n \in WholeDenies(rules, "pypi") :
                /\ ExactAllows(rules, "pypi", n) = {}
                /\ l = Line(n, {Expr("==", <<0>>)})
  BY <1>1, <1>3
<1>4. CASE \E n \in ExactNames(rules, defaults["pypi"]) :
             l = Line(n, {Expr("==", v) : v \in ExactAllows(rules, "pypi", n)})
  <2>1. PICK n \in ExactNames(rules, defaults["pypi"]) :
          l = Line(n, {Expr("==", v) : v \in ExactAllows(rules, "pypi", n)})
    BY <1>4
  <2>2. l.name = n
        /\ l.specs = {Expr("==", v) : v \in ExactAllows(rules, "pypi", n)}
    BY <1>1, <2>1
  <2> QED
    BY <2>1, <2>2
<1>5. CASE /\ defaults["pypi"] = "deny"
           /\ \E n \in Wholes(rules, "pypi", "allow") : l = Line(n, {})
  BY <1>1, <1>5
<1> QED
  BY <1>2, <1>3, <1>4, <1>5, PypiLines

\* The star, which lets in no project without a line of its own.
LEMMA Star ==
  ASSUME CompilerInv, Compiled
  PROVE  emitted.pypi.star <=> defaults["pypi"] = "deny"
<1>1. emitted.pypi = EmitPypi(rules, defaults["pypi"])
  BY Emitted
<1>2. EmitPypi(rules, defaults["pypi"]).star = (defaults["pypi"] = "deny")
  BY DEF EmitPypi
<1> QED
  BY <1>1, <1>2

LEMMA PypiDeniesHold ==
  ASSUME CompilerInv, Compiled, NEW n \in PypiNames, NEW x,
         Blocked("pypi", None, n, x), ~Same(x, << 0 >>)
  PROVE  DevpiBlocks(emitted.pypi, n, x)
<1>1. ~Allowed("pypi", n, x)
      /\ (Denied("pypi", None, n, x) \/ defaults["pypi"] = "deny")
  BY Names, Verdict
<1>2. n \notin Wholes(rules, "pypi", "allow")
  BY <1>1 DEF Allowed
<1>3. ASSUME NEW l \in emitted.pypi.lines, l.name = n,
             NEW e \in l.specs, ~Satisfies(x, e)
      PROVE  DevpiBlocks(emitted.pypi, n, x)
  BY <1>3 DEF DevpiBlocks
<1>4. ASSUME NEW specs, Line(n, specs) \in emitted.pypi.lines,
             NEW e \in specs, ~Satisfies(x, e)
      PROVE  DevpiBlocks(emitted.pypi, n, x)
  <2>1. Line(n, specs).name = n /\ Line(n, specs).specs = specs
    BY DEF Line
  <2> QED
    BY <1>3, <1>4, <2>1
<1>5. ASSUME n \in ExactNames(rules, defaults["pypi"])
      PROVE  DevpiBlocks(emitted.pypi, n, x)
  <2> DEFINE specs == {Expr("==", v) : v \in ExactAllows(rules, "pypi", n)}
  <2>1. PICK v \in ExactAllows(rules, "pypi", n) : ~Same(x, v)
    BY <1>1, <1>5 DEF Allowed, ExactNames
  <2>2. ~Satisfies(x, Expr("==", v)) /\ Expr("==", v) \in specs
    BY <2>1, Pins
  <2>3. Line(n, specs) \in emitted.pypi.lines
    BY <1>5, PypiLines
  <2> HIDE DEF specs
  <2> QED
    BY <1>4, <2>2, <2>3
<1>6. CASE defaults["pypi"] = "deny"
  <2>1. CASE ExactAllows(rules, "pypi", n) = {}
    <3>1. ~\E l \in emitted.pypi.lines : l.name = n
      BY <1>2, <1>6, <2>1, OwnLines DEF ExactNames
    <3>2. emitted.pypi.star
      BY <1>6, Star
    <3> QED
      BY <3>1, <3>2 DEF DevpiBlocks
  <2>2. CASE ExactAllows(rules, "pypi", n) # {}
    BY <1>2, <1>5, <1>6, <2>2 DEF ExactNames
  <2> QED
    BY <2>1, <2>2
<1>7. CASE defaults["pypi"] = "allow"
  <2>1. CASE n \in Wholes(rules, "pypi", "deny")
    <3>1. n \in WholeDenies(rules, "pypi")
      BY <1>2, <2>1 DEF WholeDenies
    <3>2. CASE ExactAllows(rules, "pypi", n) = {}
      <4>1. Line(n, {Expr("==", <<0>>)}) \in emitted.pypi.lines
        BY <1>7, <3>1, <3>2, PypiLines
      <4>2. ~Satisfies(x, Expr("==", <<0>>))
        BY Pins
      <4> QED
        BY <1>4, <4>1, <4>2
    <3>3. CASE ExactAllows(rules, "pypi", n) # {}
      BY <1>2, <1>5, <3>1, <3>3 DEF ExactNames
    <3> QED
      BY <3>2, <3>3
  <2>2. ASSUME NEW e \in Ranges(rules, "pypi", "deny", n), Satisfies(x, e)
        PROVE  DevpiBlocks(emitted.pypi, n, x)
    <3>1. e \in RangeDenies(rules, "pypi", n)
      BY <1>2 DEF RangeDenies
    <3>2. Invertible(e)
      BY <1>7, <3>1, Emitted DEF PypiFails
    <3>3. ~Satisfies(x, Complement(e))
      BY <2>2, <3>2, ComplementInverts
    <3>4. Complement(e) \in Complements(rules, n)
      BY <3>1 DEF Complements
    <3>5. Line(n, Complements(rules, n)) \in emitted.pypi.lines
      BY <1>7, <3>1, PypiLines
    <3> QED
      BY <1>4, <3>3, <3>4, <3>5
  <2>3. None \notin Namespaces(rules, "pypi", "deny")
    BY DEF Namespaces
  <2> QED
    BY <1>1, <1>7, <2>1, <2>2, <2>3 DEF Denied
<1> QED
  BY <1>6, <1>7, Emitted

LEMMA PypiAllowsHold ==
  ASSUME CompilerInv, Compiled, NEW n \in PypiNames, NEW x,
         DevpiBlocks(emitted.pypi, n, x)
  PROVE  Blocked("pypi", None, n, x)
<1>1. SUFFICES /\ ~Allowed("pypi", n, x)
               /\ Denied("pypi", None, n, x) \/ defaults["pypi"] = "deny"
  BY Names, Verdict
<1>2. CASE ~\E l \in emitted.pypi.lines : l.name = n
  <2>1. emitted.pypi.star
    BY <1>2 DEF DevpiBlocks
  <2>2. defaults["pypi"] = "deny"
    BY <2>1, Star
  <2>3. ASSUME NEW specs
        PROVE  Line(n, specs) \notin emitted.pypi.lines
    BY <1>2 DEF Line
  <2>4. n \notin Wholes(rules, "pypi", "allow")
    BY <2>2, <2>3, PypiLines
  <2>5. n \notin ExactNames(rules, defaults["pypi"])
    <3> DEFINE specs == {Expr("==", v) : v \in ExactAllows(rules, "pypi", n)}
    <3>1. Line(n, specs) \notin emitted.pypi.lines
      BY <2>3
    <3> QED
      BY <3>1, PypiLines
  <2>6. ExactAllows(rules, "pypi", n) = {}
    BY <2>2, <2>4, <2>5 DEF ExactNames
  <2> QED
    BY <2>2, <2>4, <2>6 DEF Allowed
<1>3. CASE \E l \in emitted.pypi.lines : l.name = n
  <2>1. PICK l \in emitted.pypi.lines :
          l.name = n /\ \E e \in l.specs : ~Satisfies(x, e)
    BY <1>3 DEF DevpiBlocks
  <2>2. PICK e \in l.specs : ~Satisfies(x, e)
    BY <2>1
  <2>3. ~PypiFails(rules, defaults["pypi"]) /\ IsFiniteSet(rules)
    BY Emitted DEF CompilerInv
  <2>4. ASSUME defaults["pypi"] = "allow",
               RangeDenies(rules, "pypi", n) # {},
               l.specs = Complements(rules, n)
        PROVE  ~Allowed("pypi", n, x) /\ Denied("pypi", None, n, x)
    <3>1. PICK d \in RangeDenies(rules, "pypi", n) : e = Complement(d)
      BY <2>2, <2>4 DEF Complements
    <3>2. Invertible(d)
      BY <2>3, <2>4, <3>1 DEF PypiFails
    <3>3. Satisfies(x, d)
      BY <2>2, <3>1, <3>2, ComplementInverts
    <3>4. n \notin Wholes(rules, "pypi", "allow")
          /\ d \in Ranges(rules, "pypi", "deny", n)
      BY <3>1 DEF RangeDenies
    <3>5. ExactAllows(rules, "pypi", n) = {}
      BY <2>3, <3>1 DEF PypiFails, RangeCarving
    <3> QED
      BY <3>3, <3>4, <3>5 DEF Allowed, Denied
  <2>5. ASSUME n \in WholeDenies(rules, "pypi"),
               ExactAllows(rules, "pypi", n) = {}
        PROVE  ~Allowed("pypi", n, x) /\ Denied("pypi", None, n, x)
    BY <2>5 DEF Allowed, Denied, WholeDenies
  <2>6. ASSUME n \in ExactNames(rules, defaults["pypi"]),
               l.specs =
                 {Expr("==", v) : v \in ExactAllows(rules, "pypi", n)}
        PROVE  /\ ~Allowed("pypi", n, x)
               /\ Denied("pypi", None, n, x) \/ defaults["pypi"] = "deny"
    <3>1. PICK v \in ExactAllows(rules, "pypi", n) : e = Expr("==", v)
      BY <2>2, <2>6
    <3>2. ~Same(x, v)
      BY <2>2, <3>1, Pins
    <3>3. ~(Cardinality(ExactAllows(rules, "pypi", n)) > 1)
      BY <2>3, <2>6 DEF PypiFails
    <3>4. \A w \in ExactAllows(rules, "pypi", n) : w = v
      BY <2>3, <3>1, <3>3, OneExactAllow
    <3>5. n \notin Wholes(rules, "pypi", "allow")
          /\ (n \in WholeDenies(rules, "pypi") \/ defaults["pypi"] = "deny")
      BY <2>6 DEF ExactNames
    <3> QED
      BY <3>2, <3>4, <3>5 DEF Allowed, Denied, WholeDenies
  <2>7. ~(l.specs = {})
    BY <2>2
  <2> QED
    BY <2>1, <2>4, <2>5, <2>6, <2>7, OwnLines
<1> QED
  BY <1>2, <1>3

LEMMA OneLineEach ==
  ASSUME CompilerInv, Compiled,
         ~\E n \in WholeDenies(rules, "pypi") :
            RangeDenies(rules, "pypi", n) # {}
  PROVE  DevpiAccepts(emitted.pypi)
<1> SUFFICES ASSUME NEW k \in emitted.pypi.lines,
                    NEW l \in emitted.pypi.lines, k.name = l.name
             PROVE  k = l
  BY DEF DevpiAccepts
<1>1. k = Line(k.name, k.specs) /\ l = Line(l.name, l.specs)
  BY OwnLines
<1>2. SUFFICES k.specs = l.specs
  BY <1>1
<1> DEFINE n == k.name
           Ranged(m) == /\ defaults["pypi"] = "allow"
                        /\ RangeDenies(rules, "pypi", n) # {}
                        /\ m.specs = Complements(rules, n)
           Killed(m) == /\ defaults["pypi"] = "allow"
                        /\ n \in WholeDenies(rules, "pypi")
                        /\ ExactAllows(rules, "pypi", n) = {}
                        /\ m.specs = {Expr("==", <<0>>)}
           Pinned(m) == /\ n \in ExactNames(rules, defaults["pypi"])
                        /\ m.specs = {Expr("==", v) :
                                        v \in ExactAllows(rules, "pypi", n)}
           Bare(m) == /\ defaults["pypi"] = "deny"
                      /\ n \in Wholes(rules, "pypi", "allow")
                      /\ m.specs = {}
<1>3. \A m \in {k, l} : Ranged(m) \/ Killed(m) \/ Pinned(m) \/ Bare(m)
  BY OwnLines
<1>4. CASE Ranged(k) \/ Ranged(l)
  <2>1. ~\E m \in {k, l} : Killed(m) \/ Pinned(m) \/ Bare(m)
    BY <1>4 DEF ExactNames
  <2> QED
    BY <1>3, <2>1
<1>5. CASE Killed(k) \/ Killed(l)
  <2>1. ~\E m \in {k, l} : Ranged(m) \/ Pinned(m) \/ Bare(m)
    BY <1>5 DEF ExactNames
  <2> QED
    BY <1>3, <2>1
<1>6. CASE Pinned(k) \/ Pinned(l)
  <2>1. ~\E m \in {k, l} : Bare(m)
    BY <1>6 DEF ExactNames
  <2> QED
    BY <1>3, <1>4, <1>5, <2>1
<1> QED
  BY <1>3, <1>4, <1>5, <1>6

-----------------------------------------------------------------------------
(* The theorems about the compiler *)

LEMMA CompilerInitInv == CompilerInit => CompilerInv
BY FS_EmptySet DEF CompilerInit, CompilerInv

LEMMA CompilerNextInv ==
  ASSUME CompilerInv, [CompilerNext]_compilerVars
  PROVE  CompilerInv'
<1>1. ASSUME NEW r \in Rules, AddRule(r)
      PROVE  CompilerInv'
  <2>1. IsFiniteSet(rules \cup {r})
    BY FS_AddElement DEF CompilerInv
  <2> QED
    BY <1>1, <2>1 DEF CompilerInv, AddRule
<1>2. ASSUME NEW r \in Rules, DropRule(r)
      PROVE  CompilerInv'
  <2>1. IsFiniteSet(rules \ {r})
    BY FS_RemoveElement DEF CompilerInv
  <2> QED
    BY <1>2, <2>1 DEF CompilerInv, DropRule
<1>3. CASE UNCHANGED compilerVars
  BY <1>3 DEF CompilerInv, compilerVars
<1> QED
  BY <1>1, <1>2, <1>3 DEF CompilerNext

LEMMA CompilerTypes == CompilerInv => CompilerTypeOK
<1> SUFFICES ASSUME CompilerInv, Compiled
             PROVE  /\ emitted.npm.names \subseteq NpmNames
                    /\ emitted.npm.ranges
                         \in [NpmNames -> SUBSET [op : Ops, v : Seq(Nat)]]
                    /\ \A l \in emitted.pypi.lines :
                         /\ l.name \in PypiNames
                         /\ l.specs \subseteq [op : Ops, v : Seq(Nat)]
  BY DEF CompilerInv, CompilerTypeOK, Compiled
<1>1. rules \in SUBSET Rules
  BY DEF CompilerInv
<1>2. \A op \in Ops, v \in Seq(Nat) :
        Expr(op, v) \in [op : Ops, v : Seq(Nat)]
  BY DEF Expr
<1>3. {"==", "!="} \subseteq Ops
  BY DEF Ops
<1>4. ASSUME NEW n
      PROVE  ExactAllows(rules, "npm", n) \cup ExactAllows(rules, "pypi", n)
               \subseteq Seq(Nat)
  BY <1>1, RuleFields DEF ExactAllows, Ranges, Of
<1>5. emitted.npm.names \subseteq NpmNames
  <2>1. Wholes(rules, "npm", "deny") \subseteq NpmNames
    BY <1>1, RuleFields DEF Wholes, Of
  <2> QED
    BY <2>1, Emitted DEF EmitNpm, WholeDenies
<1>6. ASSUME NEW n \in NpmNames
      PROVE  NpmRanges(rules, n) \subseteq [op : Ops, v : Seq(Nat)]
  <2>1. Ranges(rules, "npm", "deny", n) \subseteq [op : Ops, v : Seq(Nat)]
    <3> SUFFICES ASSUME NEW r \in rules, r.ecosystem = "npm",
                        r.versions # None
                 PROVE  r.versions \in [op : Ops, v : Seq(Nat)]
      BY DEF Ranges, Of
    <3>1. r.versions \in [op : Ops \cup {"~="}, v : Seq(Nat)]
          /\ r.versions.op # "~="
      BY <1>1, RuleFields
    <3> QED
      BY <3>1
  <2>2. {Expr("!=", v) : v \in ExactAllows(rules, "npm", n)}
          \subseteq [op : Ops, v : Seq(Nat)]
    BY <1>2, <1>3, <1>4
  <2> QED
    BY <2>1, <2>2 DEF NpmRanges, RangeDenies
<1>7. emitted.npm.ranges \in [NpmNames -> SUBSET [op : Ops, v : Seq(Nat)]]
  BY <1>6, Emitted DEF EmitNpm
<1>8. ASSUME NEW action
      PROVE  Wholes(rules, "pypi", action) \subseteq PypiNames
  BY <1>1, RuleFields DEF Wholes, Of
<1>9. ASSUME NEW l \in emitted.pypi.lines
      PROVE  l.name \in PypiNames
  BY <1>8, OwnLines DEF WholeDenies, ExactNames
<1>10. ASSUME NEW n \in PypiNames, defaults["pypi"] = "allow"
       PROVE  Complements(rules, n) \subseteq [op : Ops, v : Seq(Nat)]
  <2> SUFFICES ASSUME NEW e \in RangeDenies(rules, "pypi", n)
               PROVE  Complement(e) \in [op : Ops, v : Seq(Nat)]
    BY DEF Complements
  <2>1. Invertible(e)
    BY <1>10, Emitted DEF PypiFails
  <2>2. e.v \in Seq(Nat)
    BY <1>1, RuleFields DEF RangeDenies, Ranges, Of
  <2>3. ComplementOp[e.op] \in Ops
    BY <2>1 DEF Invertible, ComplementOp, Ops
  <2> QED
    BY <1>2, <2>2, <2>3 DEF Complement
<1>11. <<0>> \in Seq(Nat)
  OBVIOUS
<1>12. ASSUME NEW l \in emitted.pypi.lines
       PROVE  l.specs \subseteq [op : Ops, v : Seq(Nat)]
  <2>1. CASE l.specs =
               {Expr("==", v) : v \in ExactAllows(rules, "pypi", l.name)}
    BY <1>2, <1>3, <1>4, <2>1
  <2>2. CASE l.specs = {Expr("==", <<0>>)}
    BY <1>2, <1>3, <1>11, <2>2
  <2> QED
    BY <1>9, <1>10, <2>1, <2>2, OwnLines
<1> QED
  BY <1>5, <1>7, <1>9, <1>12

\* Every reachable policy is a finite set of rules an author may write, and
\* what the worker holds is what compiling exactly those rules emits: no bucket
\* survives a rule that was dropped.
THEOREM CompilerInvariance == CompilerSpec => []CompilerInv
<1>1. CompilerInit => CompilerInv
  BY CompilerInitInv
<1>2. CompilerInv /\ [CompilerNext]_compilerVars => CompilerInv'
  BY CompilerNextInv
<1> QED
  BY <1>1, <1>2, PTL DEF CompilerSpec

\* Every block list and constraints text the compiler emits is well-formed: an
\* expression that has no complement never reaches devpi's constraints.
THEOREM CompilerTypeCorrect == CompilerSpec => []CompilerTypeOK
BY CompilerInvariance, CompilerTypes, PTL

\* compile_policy loses no deny: for any rules, default actions, names and
\* releases, what the documented verdict blocks, the engines block.
THEOREM DeniesAlwaysHold == CompilerSpec => []DeniesHold
<1>1. CompilerInv => DeniesHold
  BY NpmDeniesHold, PypiDeniesHold DEF DeniesHold, PypiEnforced
<1> QED
  BY <1>1, CompilerInvariance, PTL

\* compile_policy blocks nothing else, but for the two exceptions that
\* AllowsHold names.
THEOREM AllowsAlwaysHold == CompilerSpec => []AllowsHold
<1>1. CompilerInv => AllowsHold
  BY NpmAllowsHold, PypiAllowsHold DEF AllowsHold, PypiEnforced
<1> QED
  BY <1>1, CompilerInvariance, PTL

\* A policy that compiles has one line for each project, so that devpi accepts
\* it, unless a package is denied both whole and by range.
THEOREM DevpiTakesWhatAlwaysCompiles ==
  CompilerSpec => []DevpiTakesWhatCompiles
<1>1. CompilerInv => DevpiTakesWhatCompiles
  BY OneLineEach DEF DevpiTakesWhatCompiles
<1> QED
  BY <1>1, CompilerInvariance, PTL

-----------------------------------------------------------------------------
(* An allow-set that is refused as empty *)

LEMMA Below ==
  ASSUME NEW i \in Nat, NEW j \in Nat
  PROVE  <<j, i>> \in OpToRel(<, Nat) <=> j < i
BY Zenon DEF OpToRel

\* A set of natural numbers has a least one.
LEMMA Least ==
  ASSUME NEW T \in SUBSET Nat, T # {}
  PROVE  \E i \in T : \A j \in T : i <= j
<1> DEFINE R == OpToRel(<, Nat)
<1>1. PICK i \in T : \A j \in T : <<j, i>> \notin R
  BY WFMin, NatLessThanWellFounded, Zenon
<1>2. \A j \in T : <<j, i>> \in R <=> j < i
  BY Below, Zenon
<1> HIDE DEF R
<1>3. \A j \in T : ~(j < i)
  BY <1>1, <1>2
<1> QED
  BY <1>3

\* Version numbers have no end of trailing zeros, so that Same and Before need
\* not mind the lengths.
LEMMA Endless ==
  ASSUME NEW v \in Seq(Nat), NEW w \in Seq(Nat)
  PROVE  /\ \A i \in Nat \ {0} : At(v, i) \in Nat
         /\ Same(v, w) <=> \A i \in Nat \ {0} : At(v, i) = At(w, i)
         /\ Before(v, w) <=>
              \E i \in Nat \ {0} : /\ At(v, i) < At(w, i)
                                   /\ \A j \in 1..(i - 1) : At(v, j) = At(w, j)
<1>1. \A i \in Nat \ {0} : At(v, i) \in Nat /\ At(w, i) \in Nat
  BY DEF At
<1>2. Places(v, w) \subseteq Nat \ {0}
  BY DEF Places
<1>3. \A i \in Nat \ {0} : i \notin Places(v, w) => At(v, i) = At(w, i)
  BY DEF At, Places
<1>4. Same(v, w) <=> \A i \in Nat \ {0} : At(v, i) = At(w, i)
  BY <1>2, <1>3 DEF Same
<1>5. \A i \in Nat \ {0} : At(v, i) < At(w, i) => i \in Places(v, w)
  BY <1>1, <1>3
<1> QED
  BY <1>1, <1>2, <1>4, <1>5 DEF Before

LEMMA OneOrder ==
  ASSUME NEW v \in Seq(Nat), NEW w \in Seq(Nat)
  PROVE  Same(v, w) \/ Before(v, w) \/ Before(w, v)
<1> SUFFICES ASSUME ~Same(v, w)
             PROVE  Before(v, w) \/ Before(w, v)
  OBVIOUS
<1> DEFINE T == {i \in Nat \ {0} : At(v, i) # At(w, i)}
<1>1. T # {} /\ T \in SUBSET Nat
  BY Endless
<1>2. PICK i \in T : \A j \in T : i <= j
  BY <1>1, Least
<1>3. \A j \in 1..(i - 1) : At(v, j) = At(w, j) /\ At(w, j) = At(v, j)
  BY <1>2
<1>4. At(v, i) \in Nat /\ At(w, i) \in Nat /\ At(v, i) # At(w, i)
  BY Endless
<1>5. At(v, i) < At(w, i) \/ At(w, i) < At(v, i)
  BY <1>4
<1> QED
  BY <1>3, <1>5, Endless

LEMMA OneWay ==
  ASSUME NEW v \in Seq(Nat), NEW w \in Seq(Nat), Before(v, w)
  PROVE  ~Before(w, v)
<1> SUFFICES ASSUME Before(w, v)
             PROVE  FALSE
  OBVIOUS
<1>1. PICK i \in Nat \ {0} : /\ At(v, i) < At(w, i)
                             /\ \A j \in 1..(i - 1) : At(v, j) = At(w, j)
  BY Endless
<1>2. PICK k \in Nat \ {0} : /\ At(w, k) < At(v, k)
                             /\ \A j \in 1..(k - 1) : At(w, j) = At(v, j)
  BY Endless
<1>3. \A j \in Nat \ {0} : At(v, j) \in Nat /\ At(w, j) \in Nat
  BY Endless
<1>4. ~(i < k) /\ ~(k < i) /\ i # k
  BY <1>1, <1>2, <1>3
<1> QED
  BY <1>4

LEMMA BeforeChains ==
  ASSUME NEW u \in Seq(Nat), NEW v \in Seq(Nat), NEW w \in Seq(Nat),
         Before(u, v), Before(v, w)
  PROVE  Before(u, w)
<1>1. PICK i \in Nat \ {0} : /\ At(u, i) < At(v, i)
                             /\ \A j \in 1..(i - 1) : At(u, j) = At(v, j)
  BY Endless
<1>2. PICK k \in Nat \ {0} : /\ At(v, k) < At(w, k)
                             /\ \A j \in 1..(k - 1) : At(v, j) = At(w, j)
  BY Endless
<1>3. \A j \in Nat \ {0} :
        At(u, j) \in Nat /\ At(v, j) \in Nat /\ At(w, j) \in Nat
  BY Endless
<1>4. CASE i < k
  <2>1. i \in 1..(k - 1)
    BY <1>4
  <2>2. At(u, i) < At(w, i)
    BY <1>1, <1>2, <2>1
  <2>3. \A j \in 1..(i - 1) : At(u, j) = At(w, j)
    BY <1>1, <1>2, <1>4
  <2> QED
    BY <2>2, <2>3, Endless
<1>5. CASE k < i
  <2>1. k \in 1..(i - 1)
    BY <1>5
  <2>2. At(u, k) < At(w, k)
    BY <1>1, <1>2, <2>1
  <2>3. \A j \in 1..(k - 1) : At(u, j) = At(w, j)
    BY <1>1, <1>2, <1>5
  <2> QED
    BY <2>2, <2>3, Endless
<1>6. CASE i = k
  <2>1. At(u, i) < At(v, i) /\ At(v, i) < At(w, i)
    BY <1>1, <1>2, <1>6
  <2>2. At(u, i) < At(w, i)
    BY <1>3, <2>1
  <2>3. \A j \in 1..(i - 1) : At(u, j) = At(w, j)
    BY <1>1, <1>2, <1>6
  <2> QED
    BY <2>2, <2>3, Endless
<1> QED
  BY <1>4, <1>5, <1>6

\* Any release lies above the lower or below the upper of two versions.
LEMMA Between ==
  ASSUME NEW u \in Seq(Nat), NEW w \in Seq(Nat), NEW x \in Seq(Nat),
         Before(u, w)
  PROVE  Before(u, x) \/ Before(x, w)
<1>1. CASE Before(x, u)
  BY <1>1, BeforeChains
<1>2. CASE Same(u, x)
  BY <1>2, Endless
<1> QED
  BY <1>1, <1>2, OneOrder

\* Python's order of tuples does not contradict PEP 440's, which only calls
\* some of them the same.
LEMMA TuplesAgree ==
  ASSUME NEW u \in Seq(Nat), NEW w \in Seq(Nat), TupleBefore(u, w)
  PROVE  u # w /\ ~Before(w, u)
<1>1. CASE IsStrictPrefix(u, w)
  <2>1. Len(u) <= Len(w) /\ SubSeq(u, 1, Len(u)) = SubSeq(w, 1, Len(u))
    BY <1>1 DEF IsStrictPrefix, IsPrefix
  <2>2. \A i \in 1..Len(u) : u[i] = w[i]
    <3> TAKE i \in 1..Len(u)
    <3>1. SubSeq(u, 1, Len(u))[i] = u[i] /\ SubSeq(w, 1, Len(u))[i] = w[i]
      BY <2>1
    <3> QED
      BY <2>1, <3>1
  <2>3. \A i \in Nat \ {0} : ~(At(w, i) < At(u, i))
    <3> TAKE i \in Nat \ {0}
    <3>1. CASE i <= Len(u)
      <4>1. At(w, i) = At(u, i)
        BY <2>1, <2>2, <3>1 DEF At
      <4> QED
        BY <4>1, Endless
    <3>2. CASE ~(i <= Len(u))
      <4>1. At(u, i) = 0 /\ At(w, i) \in Nat
        BY <3>2, Endless DEF At
      <4> QED
        BY <4>1
    <3> QED
      BY <3>1, <3>2
  <2> QED
    BY <1>1, <2>3, Endless DEF IsStrictPrefix
<1>2. CASE \E i \in DOMAIN u \cap DOMAIN w :
             /\ u[i] < w[i]
             /\ \A j \in 1..(i - 1) : u[j] = w[j]
  <2>1. PICK i \in DOMAIN u \cap DOMAIN w :
          u[i] < w[i] /\ \A j \in 1..(i - 1) : u[j] = w[j]
    BY <1>2
  <2>2. i \in Nat \ {0} /\ i <= Len(u) /\ i <= Len(w)
    OBVIOUS
  <2>3. At(u, i) < At(w, i) /\ \A j \in 1..(i - 1) : At(u, j) = At(w, j)
    BY <2>1, <2>2 DEF At
  <2>4. Before(u, w)
    BY <2>2, <2>3, Endless
  <2>5. u[i] \in Nat /\ w[i] \in Nat
    BY <2>2
  <2> QED
    BY <2>1, <2>4, <2>5, OneWay
<1> QED
  BY <1>1, <1>2 DEF TupleBefore

Bounds == [op : {"<", "<=", ">", ">="}, v : Seq(Nat)]

\* No release satisfies bounds that complement_set_is_empty flags, if they
\* write no version in two ways.  With 1 and 1.0 in one set it does flag what
\* can be satisfied: >=1.0 and <=1.
LEMMA FlaggedIsEmpty ==
  ASSUME NEW specs \in SUBSET Bounds,
         \A e, f \in specs : Same(e.v, f.v) => e.v = f.v,
         ComplementSetIsEmpty(specs), NEW x \in Seq(Nat)
  PROVE  \E e \in specs : ~Satisfies(x, e)
<1> DEFINE lowers == {e \in specs : e.op \in {">", ">="}}
           uppers == {e \in specs : e.op \in {"<", "<="}}
           lower == {e \in lowers : ~\E f \in lowers : TupleBefore(e.v, f.v)}
           upper == {e \in uppers : ~\E f \in uppers : TupleBefore(f.v, e.v)}
           Inclusive(bounds) == \E e \in bounds : e.op \in {">=", "<="}
<1>1. PICK lo \in lower, up \in upper :
        \/ TupleBefore(up.v, lo.v)
        \/ lo.v = up.v /\ ~(Inclusive(lower) /\ Inclusive(upper))
  BY Zenon DEF ComplementSetIsEmpty
<1>2. lo \in specs /\ lo.op \in {">", ">="} /\ lo.v \in Seq(Nat)
  BY DEF Bounds
<1>3. up \in specs /\ up.op \in {"<", "<="} /\ up.v \in Seq(Nat)
  BY DEF Bounds
<1>4. lo.op # ">=" \/ up.op # "<=" \/ TupleBefore(up.v, lo.v)
  BY <1>1
<1> HIDE DEF lower, upper
<1> SUFFICES ASSUME Satisfies(x, lo), Satisfies(x, up)
             PROVE  FALSE
  BY <1>2, <1>3
<1>5. /\ lo.op = ">" => Before(lo.v, x)
      /\ lo.op = ">=" => ~Before(x, lo.v)
      /\ up.op = "<" => Before(x, up.v)
      /\ up.op = "<=" => ~Before(up.v, x)
  BY DEF Satisfies
<1>6. ~Before(x, lo.v) /\ ~Before(up.v, x)
  BY <1>2, <1>3, <1>5, OneWay
<1>7. CASE TupleBefore(up.v, lo.v)
  <2>1. Before(up.v, lo.v)
    BY <1>2, <1>3, <1>7, TuplesAgree, OneOrder
  <2> QED
    BY <1>2, <1>3, <1>6, <2>1, Between
<1>8. CASE ~TupleBefore(up.v, lo.v)
  BY <1>1, <1>2, <1>3, <1>4, <1>5, <1>6, <1>8
<1> QED
  BY <1>7, <1>8

\* What compile_policy refuses because the denies' complements have nothing in
\* common would have blocked the package whole: complement_set_is_empty "only
\* flags a provable contradiction", as long as the denies of one package write
\* no version in two ways.
THEOREM RefusedAsEmptyIsBlockedWhole ==
  ASSUME NEW R \in SUBSET Rules, NEW n \in PypiNames,
         \A e \in RangeDenies(R, "pypi", n) : Invertible(e),
         \A e, f \in RangeDenies(R, "pypi", n) : Same(e.v, f.v) => e.v = f.v,
         ComplementSetIsEmpty(Complements(R, n)), NEW x \in Seq(Nat)
  PROVE  \E r \in R : r.ecosystem = "pypi" /\ Denies(r, None, n, x)
<1> DEFINE D == RangeDenies(R, "pypi", n)
<1>1. Complements(R, n) = {Complement(e) : e \in D}
  BY DEF Complements
<1>2. \A e \in D : e.v \in Seq(Nat)
  BY RuleFields DEF RangeDenies, Ranges, Of
<1>3. \A e \in D : /\ Complement(e).v = e.v
                   /\ Complement(e) = Expr(Complement(e).op, e.v)
                   /\ Complement(e).op \in {"<", "<=", ">", ">=", "!="}
  BY DEF Complement, Expr, Invertible, ComplementOp
<1>4. \A e \in D : Complement(e).op # "!="
  BY <1>1 DEF ComplementSetIsEmpty
<1>5. Complements(R, n) \in SUBSET Bounds
  <2> SUFFICES ASSUME NEW e \in D
               PROVE  Complement(e) \in Bounds
    BY <1>1
  <2>1. Complement(e).op \in {"<", "<=", ">", ">="}
    BY <1>3, <1>4
  <2>2. \A op \in {"<", "<=", ">", ">="}, v \in Seq(Nat) :
          Expr(op, v) \in Bounds
    BY DEF Bounds, Expr
  <2> QED
    BY <1>2, <1>3, <2>1, <2>2
<1>6. \A e, f \in Complements(R, n) : Same(e.v, f.v) => e.v = f.v
  BY <1>1, <1>3
<1>7. PICK c \in Complements(R, n) : ~Satisfies(x, c)
  BY <1>5, <1>6, FlaggedIsEmpty
<1>8. PICK e \in D : c = Complement(e)
  BY <1>1
<1>9. Satisfies(x, e)
  BY <1>7, <1>8, ComplementInverts
<1>10. PICK r \in R : /\ r.ecosystem = "pypi" /\ r.action = "deny"
                     /\ r.name = n /\ r.versions = e /\ e # None
  BY DEF RangeDenies, Ranges, Of
<1>11. r.name # None
  BY <1>10, Names
<1> QED
  BY <1>9, <1>10, <1>11 DEF Denies

\* Where PEP 440 tells two versions apart, Python's order of tuples does so
\* the same way.
LEMMA TuplesDecide ==
  ASSUME NEW u \in Seq(Nat), NEW w \in Seq(Nat), Before(u, w)
  PROVE  TupleBefore(u, w)
<1>1. PICK i \in Nat \ {0} : /\ At(u, i) < At(w, i)
                             /\ \A j \in 1..(i - 1) : At(u, j) = At(w, j)
  BY Endless
<1>2. At(u, i) \in Nat /\ At(w, i) \in Nat
  BY Endless
<1>3. i <= Len(w)
  BY <1>1, <1>2 DEF At
<1>4. CASE i <= Len(u)
  <2>1. i \in DOMAIN u \cap DOMAIN w
    BY <1>3, <1>4
  <2>2. \A j \in 1..(i - 1) : j <= Len(u) /\ j <= Len(w)
    BY <1>3, <1>4
  <2>3. u[i] < w[i] /\ \A j \in 1..(i - 1) : u[j] = w[j]
    BY <1>1, <1>3, <1>4, <2>2 DEF At
  <2> QED
    BY <2>1, <2>3 DEF TupleBefore
<1>5. CASE ~(i <= Len(u))
  <2>1. \A j \in 1..Len(u) : u[j] = w[j]
    <3> TAKE j \in 1..Len(u)
    <3>1. j \in 1..(i - 1) /\ j <= Len(u) /\ j <= Len(w)
      BY <1>3, <1>5
    <3> QED
      BY <1>1, <3>1 DEF At
  <2>2. Len(u) <= Len(w) /\ Len(u) # Len(w)
    BY <1>3, <1>5
  <2>3. SubSeq(u, 1, Len(u)) = u
    OBVIOUS
  <2>4. SubSeq(w, 1, Len(u)) = u
    BY <2>1, <2>2
  <2>5. IsStrictPrefix(u, w)
    BY <2>2, <2>3, <2>4 DEF IsStrictPrefix, IsPrefix
  <2> QED
    BY <2>5 DEF TupleBefore
<1> QED
  BY <1>4, <1>5

\* A finite set has an element that a transitive and irreflexive relation
\* leads no further from.
LEMMA Extreme ==
  ASSUME NEW S, IsFiniteSet(S), S # {}, NEW Q,
         \A a \in S : <<a, a>> \notin Q,
         \A a, b, c \in S : <<a, b>> \in Q /\ <<b, c>> \in Q => <<a, c>> \in Q
  PROVE  \E m \in S : \A f \in S : <<m, f>> \notin Q
<1> DEFINE Beyond(a) == {b \in S : <<a, b>> \in Q}
           T == {Cardinality(Beyond(a)) : a \in S}
<1>1. \A a \in S : Beyond(a) \subseteq S
  OBVIOUS
<1>2. \A a, b \in S : a \in Beyond(b) <=> <<b, a>> \in Q
  OBVIOUS
<1>3. \A a \in S : Cardinality(Beyond(a)) \in T
  OBVIOUS
<1>4. \A j \in T : \E a \in S : j = Cardinality(Beyond(a))
  OBVIOUS
<1> HIDE DEF Beyond, T
<1>5. \A a \in S : IsFiniteSet(Beyond(a)) /\ Cardinality(Beyond(a)) \in Nat
  BY <1>1, FS_Subset, FS_CardinalityType
<1>6. T \in SUBSET Nat /\ T # {}
  BY <1>3, <1>4, <1>5
<1>7. PICK k \in T : \A j \in T : k <= j
  BY <1>6, Least
<1>8. PICK m \in S : k = Cardinality(Beyond(m))
  BY <1>4
<1>9. ASSUME NEW f \in S, <<m, f>> \in Q
      PROVE  FALSE
  <2>1. \A b \in Beyond(f) : b \in Beyond(m)
    BY <1>1, <1>2, <1>9
  <2>2. Beyond(f) \in SUBSET Beyond(m) /\ Beyond(f) # Beyond(m)
    BY <1>2, <1>9, <2>1
  <2>3. /\ Cardinality(Beyond(f)) <= Cardinality(Beyond(m))
        /\ Cardinality(Beyond(f)) # Cardinality(Beyond(m))
    BY <1>5, <2>2, FS_Subset
  <2>4. k <= Cardinality(Beyond(f))
    BY <1>3, <1>7
  <2> QED
    BY <1>5, <1>8, <2>3, <2>4
<1> QED
  BY <1>9

LEMMA Greatest ==
  ASSUME NEW S \in SUBSET Seq(Nat), IsFiniteSet(S), S # {}
  PROVE  \E m \in S : \A f \in S : ~Before(m, f)
<1> DEFINE Q == {p \in S \X S : Before(p[1], p[2])}
<1>1. \A a, b \in S : <<a, b>> \in Q <=> Before(a, b)
  OBVIOUS
<1> HIDE DEF Q
<1>2. \A a \in S : <<a, a>> \notin Q
  BY <1>1, OneWay
<1>3. \A a, b, c \in S : <<a, b>> \in Q /\ <<b, c>> \in Q => <<a, c>> \in Q
  BY <1>1, BeforeChains
<1> QED
  BY <1>1, <1>2, <1>3, Extreme

LEMMA Smallest ==
  ASSUME NEW S \in SUBSET Seq(Nat), IsFiniteSet(S), S # {}
  PROVE  \E m \in S : \A f \in S : ~Before(f, m)
<1> DEFINE Q == {p \in S \X S : Before(p[2], p[1])}
<1>1. \A a, b \in S : <<a, b>> \in Q <=> Before(b, a)
  OBVIOUS
<1> HIDE DEF Q
<1>2. \A a \in S : <<a, a>> \notin Q
  BY <1>1, OneWay
<1>3. \A a, b, c \in S : <<a, b>> \in Q /\ <<b, c>> \in Q => <<a, c>> \in Q
  BY <1>1, BeforeChains
<1> QED
  BY <1>1, <1>2, <1>3, Extreme

\* There is a release right after any other, before whatever comes later.
LEMMA Dense ==
  ASSUME NEW u \in Seq(Nat), NEW w \in Seq(Nat)
  PROVE  \E x \in Seq(Nat) : Before(u, x) /\ (Before(u, w) => Before(x, w))
<1> DEFINE k == IF Len(u) > Len(w) THEN Len(u) ELSE Len(w)
           x == [i \in 1..(k + 1) |-> IF i = k + 1 THEN 1 ELSE At(u, i)]
<1>1. k \in Nat /\ Len(u) <= k /\ Len(w) <= k
  OBVIOUS
<1> HIDE DEF k
<1>2. \A i \in Nat \ {0} : At(u, i) \in Nat /\ At(w, i) \in Nat
  BY Endless
<1>3. x \in Seq(Nat) /\ Len(x) = k + 1
  BY <1>1, <1>2
<1>4. At(x, k + 1) = 1 /\ At(u, k + 1) = 0
  BY <1>1, <1>3 DEF At
<1>5. \A i \in 1..k : At(x, i) = At(u, i)
  <2> TAKE i \in 1..k
  <2>1. i <= Len(x) /\ x[i] = At(u, i)
    BY <1>1, <1>3
  <2>2. At(x, i) = x[i]
    BY <2>1 DEF At
  <2> QED
    BY <2>1, <2>2
<1> HIDE DEF x
<1>6. Before(u, x)
  <2>1. At(u, k + 1) < At(x, k + 1)
    BY <1>4
  <2>2. \A j \in 1..((k + 1) - 1) : At(u, j) = At(x, j)
    BY <1>1, <1>5
  <2>3. k + 1 \in Nat \ {0}
    BY <1>1
  <2> QED
    BY <1>3, <2>1, <2>2, <2>3, Endless
<1>7. ASSUME Before(u, w)
      PROVE  Before(x, w)
  <2>1. PICK i \in Nat \ {0} : /\ At(u, i) < At(w, i)
                               /\ \A j \in 1..(i - 1) : At(u, j) = At(w, j)
    BY <1>7, Endless
  <2>2. i \in 1..k
    BY <1>1, <1>2, <2>1 DEF At
  <2>3. At(x, i) < At(w, i) /\ \A j \in 1..(i - 1) : At(x, j) = At(w, j)
    BY <1>1, <1>5, <2>1, <2>2
  <2> QED
    BY <1>3, <2>3, Endless
<1> QED
  BY <1>3, <1>6, <1>7

\* Bounds are tidy if they write no version in two ways, and bound it on each
\* side at most once.
Tidy(specs) ==
  \A e, f \in specs :
    /\ Same(e.v, f.v) => e.v = f.v
    /\ {e.op, f.op} \in {{"<", "<="}, {">", ">="}} => e.v # f.v

\* Conversely, some release satisfies bounds that complement_set_is_empty does
\* not flag, if they are tidy and not below everything.
LEMMA UnflaggedIsNotEmpty ==
  ASSUME NEW specs \in SUBSET Bounds, IsFiniteSet(specs), Tidy(specs),
         \A e \in specs : ~(e.op = "<" /\ Same(e.v, << 0 >>)),
         ~ComplementSetIsEmpty(specs)
  PROVE  \E x \in Seq(Nat) : \A e \in specs : Satisfies(x, e)
<1> DEFINE lowers == {e \in specs : e.op \in {">", ">="}}
           uppers == {e \in specs : e.op \in {"<", "<="}}
           lower == {e \in lowers : ~\E f \in lowers : TupleBefore(e.v, f.v)}
           upper == {e \in uppers : ~\E f \in uppers : TupleBefore(f.v, e.v)}
           Inclusive(bounds) == \E e \in bounds : e.op \in {">=", "<="}
           L == {e.v : e \in lowers}
           U == {e.v : e \in uppers}
<1>1. \A lo \in lower, up \in upper :
        /\ ~TupleBefore(up.v, lo.v)
        /\ lo.v = up.v => Inclusive(lower) /\ Inclusive(upper)
  <2>1. \A e \in specs : e.op # "!="
    BY DEF Bounds
  <2> QED
    BY <2>1, Zenon DEF ComplementSetIsEmpty
<1>2. \A e \in specs : e.v \in Seq(Nat) /\ (e \in lowers \/ e \in uppers)
  BY DEF Bounds
<1>3. \A e \in lowers : e \in specs /\ e.v \in L /\ e.op \in {">", ">="}
  OBVIOUS
<1>4. \A e \in uppers : e \in specs /\ e.v \in U /\ e.op \in {"<", "<="}
  OBVIOUS
<1>5. /\ \A v \in L : \E e \in lowers : e.v = v
      /\ \A v \in U : \E e \in uppers : e.v = v
  OBVIOUS
<1>6. L \in SUBSET Seq(Nat) /\ U \in SUBSET Seq(Nat)
  BY <1>2, <1>3, <1>4, <1>5
<1>7. IsFiniteSet(L) /\ IsFiniteSet(U)
  <2>1. IsFiniteSet(lowers) /\ IsFiniteSet(uppers)
    BY FS_Subset
  <2>2. [e \in lowers |-> e.v] \in Surjection(lowers, L)
    BY <1>3, <1>5 DEF Surjection
  <2>3. [e \in uppers |-> e.v] \in Surjection(uppers, U)
    BY <1>4, <1>5 DEF Surjection
  <2> HIDE DEF lowers, uppers, L, U
  <2> QED
    BY <2>1, <2>2, <2>3, FS_Surjection
<1>8. \A e \in lowers :
        e \in lower <=> \A f \in lowers : ~TupleBefore(e.v, f.v)
  OBVIOUS
<1>9. \A e \in uppers :
        e \in upper <=> \A f \in uppers : ~TupleBefore(f.v, e.v)
  OBVIOUS
<1>10. lower \subseteq lowers /\ upper \subseteq uppers
  OBVIOUS
<1> HIDE DEF lowers, uppers, lower, upper, L, U
<1>11. \A v, w \in L \cup U : /\ Same(v, w) => v = w
                              /\ TupleBefore(v, w) <=> Before(v, w)
  <2> TAKE v, w \in L \cup U
  <2>1. v \in Seq(Nat) /\ w \in Seq(Nat)
    BY <1>6
  <2>2. (\E e \in specs : e.v = v) /\ (\E e \in specs : e.v = w)
    BY <1>3, <1>4, <1>5
  <2>3. Same(v, w) => v = w
    BY <2>2 DEF Tidy
  <2> QED
    BY <2>1, <2>3, TuplesAgree, TuplesDecide, OneOrder
<1>12. <<0>> \in Seq(Nat) /\ \A v \in Seq(Nat) : ~Before(v, <<0>>)
  <2>1. <<0>> \in Seq(Nat) /\ \A i \in Nat \ {0} : At(<<0>>, i) = 0
    BY DEF At
  <2> SUFFICES ASSUME NEW v \in Seq(Nat), Before(v, << 0 >>)
               PROVE  FALSE
    BY <2>1
  <2>2. PICK i \in Nat \ {0} : At(v, i) < At(<<0>>, i) /\ At(v, i) \in Nat
    BY <2>1, Endless
  <2> QED
    BY <2>1, <2>2
\* A release after the greatest lower bound satisfies all lower bounds, and so
\* does that bound itself if it is inclusive.
<1>13. ASSUME NEW x \in Seq(Nat), \A v \in L : Before(v, x)
       PROVE  \A e \in lowers : Satisfies(x, e)
  BY <1>2, <1>3, <1>13, OneWay DEF Satisfies
<1>14. ASSUME NEW x \in Seq(Nat), \A w \in U : Before(x, w)
       PROVE  \A e \in uppers : Satisfies(x, e)
  BY <1>2, <1>4, <1>14, OneWay DEF Satisfies
<1>15. CASE L = {}
  <2>1. lowers = {}
    BY <1>3, <1>15
  <2>2. \A e \in uppers : Satisfies(<<0>>, e)
    <3> TAKE e \in uppers
    <3>1. e \in specs /\ e.op \in {"<", "<="} /\ e.v \in Seq(Nat)
      BY <1>2, <1>4
    <3>2. e.op = "<" => Before(<<0>>, e.v)
      BY <1>12, <3>1, OneOrder
    <3> QED
      BY <1>12, <3>1, <3>2 DEF Satisfies
  <2> QED
    BY <1>2, <1>12, <2>1, <2>2
<1>16. CASE L # {} /\ U = {}
  <2>1. PICK m \in L : \A v \in L : ~Before(m, v)
    BY <1>6, <1>7, <1>16, Greatest
  <2>2. PICK x \in Seq(Nat) : Before(m, x)
    BY <1>6, <2>1, Dense
  <2>3. \A v \in L : Before(v, x)
    BY <1>6, <1>11, <2>1, <2>2, OneOrder, BeforeChains
  <2>4. uppers = {}
    BY <1>4, <1>16
  <2> QED
    BY <1>2, <1>13, <2>3, <2>4
<1>17. CASE L # {} /\ U # {}
  <2>1. PICK m \in L : \A v \in L : ~Before(m, v)
    BY <1>6, <1>7, <1>17, Greatest
  <2>2. PICK w \in U : \A v \in U : ~Before(v, w)
    BY <1>6, <1>7, <1>17, Smallest
  <2>3. m \in Seq(Nat) /\ w \in Seq(Nat)
    BY <1>6
  <2>4. PICK lo \in lower : lo.v = m
    BY <1>3, <1>5, <1>8, <1>11, <2>1
  <2>5. PICK up \in upper : up.v = w
    BY <1>4, <1>5, <1>9, <1>11, <2>2
  <2>6. ~Before(w, m)
    BY <1>1, <1>11, <2>4, <2>5
  <2>7. \A v \in L : v = m \/ Before(v, m)
    BY <1>6, <1>11, <2>1, OneOrder
  <2>8. \A v \in U : v = w \/ Before(w, v)
    BY <1>6, <1>11, <2>2, OneOrder
  <2>9. CASE Before(m, w)
    <3>1. PICK x \in Seq(Nat) : Before(m, x) /\ Before(x, w)
      BY <2>3, <2>9, Dense
    <3>2. \A v \in L : Before(v, x)
      BY <1>6, <2>7, <3>1, BeforeChains
    <3>3. \A v \in U : Before(x, v)
      BY <1>6, <2>8, <3>1, BeforeChains
    <3> QED
      BY <1>2, <1>13, <1>14, <3>1, <3>2, <3>3
  <2>10. CASE m = w
    <3>1. PICK lo1 \in lower : lo1.op = ">="
      BY <1>1, <1>3, <1>10, <2>4, <2>5, <2>10
    <3>2. PICK up1 \in upper : up1.op = "<="
      BY <1>1, <1>4, <1>10, <2>4, <2>5, <2>10
    <3>3. lo1.v = m
      <4>1. lo1 \in lowers /\ lo \in lowers /\ lo1.v \in L /\ lo.v \in L
        BY <1>3, <1>10
      <4>2. ~Before(lo1.v, m)
        BY <1>8, <1>11, <2>4, <4>1
      <4> QED
        BY <2>7, <4>1, <4>2
    <3>4. up1.v = m
      <4>1. up1 \in uppers /\ up \in uppers /\ up1.v \in U /\ up.v \in U
        BY <1>4, <1>10
      <4>2. ~Before(w, up1.v)
        BY <1>9, <1>11, <2>5, <4>1
      <4> QED
        BY <2>8, <2>10, <4>1, <4>2
    <3>5. \A e \in lowers : Satisfies(m, e)
      <4> TAKE e \in lowers
      <4>1. e \in specs /\ lo1 \in specs /\ e.op \in {">", ">="}
        BY <1>3, <1>10
      <4>2. e.op = ">" => e.v # m
        BY <3>1, <3>3, <4>1 DEF Tidy
      <4>3. e.v \in L
        BY <1>3
      <4> QED
        BY <1>6, <2>3, <2>7, <4>1, <4>2, <4>3, OneWay DEF Satisfies
    <3>6. \A e \in uppers : Satisfies(m, e)
      <4> TAKE e \in uppers
      <4>1. e \in specs /\ up1 \in specs /\ e.op \in {"<", "<="}
        BY <1>4, <1>10
      <4>2. e.op = "<" => e.v # m
        BY <3>2, <3>4, <4>1 DEF Tidy
      <4>3. e.v \in U
        BY <1>4
      <4> QED
        BY <1>6, <2>3, <2>8, <2>10, <4>1, <4>2, <4>3, OneWay DEF Satisfies
    <3> QED
      BY <1>2, <2>3, <3>5, <3>6
  <2> QED
    BY <1>11, <2>3, <2>6, <2>9, <2>10, OneOrder
<1> QED
  BY <1>15, <1>16, <1>17

\* Denies that the compiler can be relied on to see through: tidy ones, without
\* an == or a lone >=0, both of which complement_set_is_empty passes over.
Plain(D) ==
  /\ Tidy(D)
  /\ \A e \in D : e.op # "==" /\ ~(e.op = ">=" /\ Same(e.v, <<0>>))

LEMMA ComplementsFinite ==
  ASSUME NEW R, IsFiniteSet(R), NEW n
  PROVE  IsFiniteSet(Complements(R, n))
<1> DEFINE Q == {r \in R : r.versions \in RangeDenies(R, "pypi", n)}
           f == [r \in Q |-> Complement(r.versions)]
           T == Complements(R, n)
<1>1. IsFiniteSet(Q)
  <2>1. Q \in SUBSET R
    OBVIOUS
  <2> QED
    BY <2>1, FS_Subset
<1>2. \A e \in RangeDenies(R, "pypi", n) : \E r \in Q : r.versions = e
  BY DEF RangeDenies, Ranges, Of
<1>3. \A r \in Q : Complement(r.versions) \in T
  BY DEF Complements
<1>4. \A c \in T : \E r \in Q : Complement(r.versions) = c
  BY <1>2 DEF Complements
<1> HIDE DEF T, Q
<1>5. f \in Surjection(Q, T)
  BY <1>3, <1>4 DEF Surjection
<1> QED
  BY <1>1, <1>5, FS_Surjection DEF T

\* Of a package that is denied by plain ranges only, a policy that compiles
\* leaves a version: "two or more pypi denies for one package whose complements
\* combine into an empty allow-set" (docs/policy-schema.md) do not slip through
\* then.
RangesLeaveAVersion ==
  Compiled /\ defaults["pypi"] = "allow" =>
    \A n \in PypiNames \ WholeDenies(rules, "pypi") :
      Plain(RangeDenies(rules, "pypi", n)) =>
        \E x \in Seq(Nat) : ~DevpiBlocks(emitted.pypi, n, x)

LEMMA CompilerLeavesAVersion == CompilerInv => RangesLeaveAVersion
<1> SUFFICES ASSUME CompilerInv, Compiled, defaults["pypi"] = "allow",
                    NEW n \in PypiNames, n \notin WholeDenies(rules, "pypi"),
                    Plain(RangeDenies(rules, "pypi", n))
             PROVE  \E x \in Seq(Nat) : ~DevpiBlocks(emitted.pypi, n, x)
  BY DEF RangesLeaveAVersion
<1> DEFINE D == RangeDenies(rules, "pypi", n)
           C == Complements(rules, n)
<1>1. ~PypiFails(rules, defaults["pypi"])
  BY Emitted
<1>2. ~ComplementSetIsEmpty(C) /\ \A e \in D : Invertible(e)
  BY <1>1 DEF PypiFails
<1>3. /\ \A e \in D : Complement(e) \in C
      /\ \A c \in C : \E e \in D : c = Complement(e)
  BY DEF Complements
<1>4. \A e \in D : e.v \in Seq(Nat)
  BY RuleFields DEF CompilerInv, RangeDenies, Ranges, Of
<1>5. \A e \in D : /\ ~(e.op = ">=" /\ Same(e.v, <<0>>))
                   /\ e.op \in {"<", "<=", ">", ">="}
  BY <1>2 DEF Plain, Invertible, ComplementOp
<1>6. \A e \in D : /\ Complement(e) = Expr(Complement(e).op, e.v)
                   /\ Complement(e).v = e.v
                   /\ e.op = "<" => Complement(e).op = ">="
                   /\ e.op = "<=" => Complement(e).op = ">"
                   /\ e.op = ">" => Complement(e).op = "<="
                   /\ e.op = ">=" => Complement(e).op = "<"
  BY <1>5 DEF Complement, Expr, ComplementOp
<1>7. Tidy(D)
  BY DEF Plain
<1>8. IsFiniteSet(C)
  BY ComplementsFinite DEF CompilerInv
<1> HIDE DEF C, D
<1>9. C \in SUBSET Bounds
  <2>1. \A op \in {"<", "<=", ">", ">="}, v \in Seq(Nat) :
          Expr(op, v) \in Bounds
    BY DEF Bounds, Expr
  <2>2. \A e \in D : Complement(e).op \in {"<", "<=", ">", ">="}
    BY <1>5, <1>6
  <2>3. \A e \in D : Complement(e) \in Bounds
    BY <1>4, <1>6, <2>1, <2>2
  <2> QED
    BY <1>3, <2>3
<1>10. \A c \in C : ~(c.op = "<" /\ Same(c.v, <<0>>))
  BY <1>3, <1>5, <1>6
<1>11. Tidy(C)
  <2> SUFFICES ASSUME NEW c \in C, NEW d \in C
               PROVE  /\ Same(c.v, d.v) => c.v = d.v
                      /\ {c.op, d.op} \in {{"<", "<="}, {">", ">="}} =>
                           c.v # d.v
    BY DEF Tidy
  <2>1. PICK e \in D : c = Complement(e)
    BY <1>3
  <2>2. PICK f \in D : d = Complement(f)
    BY <1>3
  <2>3. c.v = e.v /\ d.v = f.v
    BY <1>6, <2>1, <2>2
  <2>4. /\ Same(e.v, f.v) => e.v = f.v
        /\ {e.op, f.op} \in {{"<", "<="}, {">", ">="}} => e.v # f.v
    BY <1>7 DEF Tidy
  <2>5. {c.op, d.op} = {"<", "<="} => {e.op, f.op} = {">", ">="}
    BY <1>5, <1>6, <2>1, <2>2
  <2>6. {c.op, d.op} = {">", ">="} => {e.op, f.op} = {"<", "<="}
    BY <1>5, <1>6, <2>1, <2>2
  <2> QED
    BY <2>3, <2>4, <2>5, <2>6
<1>12. PICK x \in Seq(Nat) : \A c \in C : Satisfies(x, c)
  BY <1>2, <1>8, <1>9, <1>10, <1>11, UnflaggedIsNotEmpty
<1>13. ~emitted.pypi.star
  BY Star
<1>14. \A l \in emitted.pypi.lines : l.name = n => l.specs = C
  BY OwnLines DEF C, ExactNames
<1>15. ~DevpiBlocks(emitted.pypi, n, x)
  BY <1>12, <1>13, <1>14, Zenon DEF DevpiBlocks
<1> QED
  BY <1>15

\* A policy that compiles blocks a package as a whole only if it denies it as a
\* whole, or by ranges that are not plain.
THEOREM RangesAlwaysLeaveAVersion == CompilerSpec => []RangesLeaveAVersion
BY CompilerLeavesAVersion, CompilerInvariance, PTL
=============================================================================
