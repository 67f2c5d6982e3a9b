-------------------------- MODULE OsvClientProofs --------------------------
(***************************************************************************)
(* OsvClient is type-correct, forgets no waiting thread, shares answers    *)
(* soundly and never gets stuck, for any number of threads and packages,   *)
(* any batch size and any number of permits.                               *)
(***************************************************************************)
EXTENDS OsvClient, SequenceTheorems, FiniteSetTheorems, TLAPS

Queued == ToSet(queue)
Batched(l) == ToSet(batch[l])

\* The types but for the length of the queue.
TypeInv ==
  /\ truth \subseteq Packages
  /\ verdict \in [Packages -> Cached] /\ page \in [Packages -> Cached]
  /\ pc \in [Threads -> Steps]
  /\ pkg \in [Threads -> Packages \cup {None}]
  /\ mine \in [Threads -> Threads]
  /\ queue \in Seq(Threads)
  /\ active \in BOOLEAN
  /\ batch \in [Threads -> Seq(Threads)]
  /\ done \in [Threads -> Nat]
  /\ \A t \in Threads : done[t] < Len(batch[t]) \/ done[t] = 0
  /\ result \in [Threads -> Cached]
  /\ got \in [Threads -> Cached \cup {"error"}]
  /\ answer \in [Threads -> SUBSET Packages]
  /\ late \in [Threads -> BOOLEAN]
  /\ \A t \in Threads : /\ pc[t] # "idle" => pkg[t] \in Packages
                        /\ pc[t] = "store" => got[t] \in Findings

\* A query is queued once, by a thread that waits for it or leads.
QueueInv ==
  /\ \A i, j \in 1..Len(queue) : queue[i] = queue[j] => i = j
  /\ \A x \in Queued :
       pc[x] \in {"gather", "wait"} /\ mine[x] = x /\ result[x] = "none"

\* There is one leader while there is a queue, and its query is in it.
LeadInv ==
  /\ active <=> \E t \in Threads : pc[t] = "gather"
  /\ \A t, u \in Threads : pc[t] = "gather" /\ pc[u] = "gather" => t = u
  /\ \A t \in Threads : pc[t] = "gather" => t \in Queued
  /\ queue # <<>> => active

\* A batch is resolved by one of its threads, and the others wait.
BatchInv == \A l \in Threads : batch[l] # <<>> =>
  /\ pc[l] \in {"gate", "sent", "answered"} /\ l \in Batched(l)
  /\ \A x \in Batched(l) : mine[x] = x /\ (x = l \/ pc[x] = "wait")

\* No query is in two places.
DisjointInv ==
  /\ \A l \in Threads : Queued \cap Batched(l) = {}
  /\ \A l, k \in Threads : l # k => Batched(l) \cap Batched(k) = {}

\* A thread waits for a query about its own package.
WaitInv == \A u \in Threads : pc[u] = "wait" =>
  /\ mine[u] \in Queued \/ \E l \in Threads : mine[u] \in Batched(l)
  /\ pkg[mine[u]] = pkg[u]

\* What anybody has learnt is true of his package.
TruthInv ==
  /\ \A p \in Packages : verdict[p] = "mal" \/ page[p] = "mal" => p \in truth
  /\ \A t \in Threads :
       /\ got[t] = "mal" \/ result[t] = "mal" \/ late[t] => pkg[t] \in truth
       /\ answer[t] \subseteq truth
       /\ result[t] # "none" => \E l \in Threads : t \in Batched(l)
       /\ got[t] # "none" =>
            pc[t] \in {"apply", "gate", "sent", "answered", "store"}

\* What a late request has learnt is not out of date.
LateInv(u) == late[u] =>
  /\ pc[u] = "store" => got[u] = "mal"
  /\ pc[u] = "apply" => got[u] # "clean"
  /\ pc[u] = "answered" /\ batch[u] = <<>> => pkg[u] \in answer[u]

\* Nor is what is on its way to it from a batch.
SharedInv(l, u) ==
  /\ late[u] /\ (u = l \/ pc[u] = "wait") /\ mine[u] \in Batched(l)
  => /\ result[mine[u]] # "clean"
     /\ pc[l] = "answered" /\ mine[u] \in Chunk(l) =>
          pkg[mine[u]] \in answer[l]

FreshInv ==
  \A u \in Threads : LateInv(u) /\ \A l \in Threads : SharedInv(l, u)

IInv ==
  /\ TypeInv
  /\ QueueInv /\ LeadInv /\ BatchInv /\ DisjointInv /\ WaitInv
  /\ TruthInv /\ FreshInv
-----------------------------------------------------------------------------
(* Sequences as sets *)

LEMMA Elements ==
  ASSUME NEW S, NEW s \in Seq(S)
  PROVE  /\ ToSet(s) \subseteq S
         /\ ToSet(s) = {s[i] : i \in 1..Len(s)}
         /\ s = <<>> <=> ToSet(s) = {}
<1>1. /\ Len(s) \in Nat /\ DOMAIN s = 1..Len(s) /\ s \in [1..Len(s) -> S]
  BY LenProperties
<1>2. ToSet(s) = {s[i] : i \in 1..Len(s)}
  BY <1>1 DEF ToSet
<1>3. ASSUME s # <<>> PROVE ToSet(s) # {}
  <2>1. Len(s) \in Nat \ {0}
    BY <1>3, EmptySeq
  <2>2. s[1] \in ToSet(s)
    BY <1>2, <2>1
  <2> QED
    BY <2>2
<1>4. ASSUME s = <<>> PROVE ToSet(s) = {}
  BY <1>2, <1>4
<1> QED
  BY <1>1, <1>2, <1>3, <1>4

LEMMA AppendElements ==
  ASSUME NEW S, NEW s \in Seq(S), NEW e \in S
  PROVE  /\ Append(s, e) \in Seq(S) /\ Append(s, e) # <<>>
         /\ ToSet(Append(s, e)) = ToSet(s) \cup {e}
         /\ Len(Append(s, e)) = Len(s) + 1
         /\ \A i \in 1..Len(s) : Append(s, e)[i] = s[i]
         /\ Append(s, e)[Len(s) + 1] = e
<1> DEFINE a == Append(s, e)
<1>1. /\ a \in Seq(S) /\ Len(a) = Len(s) + 1 /\ Len(s) \in Nat
      /\ \A i \in 1..Len(s) : a[i] = s[i]
      /\ a[Len(s) + 1] = e
  BY LenProperties
<1> HIDE DEF a
<1>2. /\ ToSet(a) = {a[i] : i \in 1..Len(a)}
      /\ ToSet(s) = {s[i] : i \in 1..Len(s)}
  BY <1>1, Elements
<1>3. a # <<>>
  BY <1>1
<1>4. 1..Len(a) = 1..Len(s) \cup {Len(s) + 1}
  BY <1>1
<1>5. ToSet(a) = ToSet(s) \cup {e}
  BY <1>1, <1>2, <1>4
<1> QED
  BY <1>1, <1>3, <1>5 DEF a

LEMMA SubSeqElements ==
  ASSUME NEW S, NEW s \in Seq(S), NEW m \in Nat \ {0}, NEW n \in Nat,
         n <= Len(s)
  PROVE  ToSet(SubSeq(s, m, n)) = {s[i] : i \in m..n}
<1> DEFINE sub == SubSeq(s, m, n)
<1>1. Len(s) \in Nat /\ m \in Int /\ n \in Int
  BY LenProperties
<1>2. \A i \in m..n : s[i] \in S
  <2> SUFFICES ASSUME NEW i \in m..n PROVE s[i] \in S
    OBVIOUS
  <2>1. i \in 1..Len(s)
    BY <1>1
  <2> QED
    BY <2>1, ElementOfSeq
<1>3. /\ sub \in Seq(S)
      /\ Len(sub) = IF m <= n THEN n - m + 1 ELSE 0
      /\ \A j \in 1..(n - m + 1) : sub[j] = s[m + j - 1]
  BY <1>1, <1>2, SubSeqProperties
<1> HIDE DEF sub
<1>4. ToSet(sub) = {sub[j] : j \in 1..Len(sub)}
  BY <1>3, Elements
<1>5. 1..Len(sub) = 1..(n - m + 1)
  BY <1>1, <1>3
<1>6. ASSUME NEW i \in m..n PROVE s[i] \in ToSet(sub)
  <2>1. PICK j \in 1..(n - m + 1) : j = i - m + 1
    BY <1>1
  <2>2. m + j - 1 = i
    BY <1>1, <2>1
  <2> QED
    BY <1>3, <1>4, <1>5, <2>2
<1>7. ASSUME NEW x \in ToSet(sub) PROVE x \in {s[i] : i \in m..n}
  <2>1. PICK j \in 1..(n - m + 1) : x = sub[j]
    BY <1>4, <1>5, <1>7
  <2>2. m + j - 1 \in m..n /\ x = s[m + j - 1]
    BY <1>1, <1>3, <2>1
  <2> QED
    BY <2>2
<1> QED
  BY <1>6, <1>7 DEF sub

\* What a call asks for next is a stretch of the batch.
LEMMA FollowingElements ==
  ASSUME TypeInv, NEW t \in Threads, NEW n \in Nat
  PROVE  Following(t, n) = {batch[t][i] : i \in
           {j \in 1..Len(batch[t]) : done[t] < j /\ j <= done[t] + n}}
<1> DEFINE last == IF done[t] + n < Len(batch[t]) THEN done[t] + n
                   ELSE Len(batch[t])
<1>1. /\ batch[t] \in Seq(Threads) /\ done[t] \in Nat
      /\ Len(batch[t]) \in Nat
  BY LenProperties DEF TypeInv
<1>2. last \in Nat /\ last <= Len(batch[t]) /\ done[t] + 1 \in Nat \ {0}
  BY <1>1
<1>3. (done[t] + 1)..last =
        {j \in 1..Len(batch[t]) : done[t] < j /\ j <= done[t] + n}
  BY <1>1
<1>4. Following(t, n) = ToSet(SubSeq(batch[t], done[t] + 1, last))
  BY Zenon DEF Following
<1> HIDE DEF last
<1>5. ToSet(SubSeq(batch[t], done[t] + 1, last)) =
        {batch[t][i] : i \in (done[t] + 1)..last}
  BY <1>1, <1>2, SubSeqElements
<1> QED
  BY <1>3, <1>4, <1>5

LEMMA ChunkElements ==
  ASSUME TypeInv, NEW t \in Threads, NEW n \in Nat
  PROVE  Following(t, n) \subseteq Batched(t)
<1>1. Batched(t) = {batch[t][i] : i \in 1..Len(batch[t])}
  BY Elements DEF TypeInv, Batched
<1> QED
  BY <1>1, FollowingElements

-----------------------------------------------------------------------------
(* A step of a thread that nobody waits for *)

LEMMA Outside ==
  ASSUME IInv, NEW t \in Threads, pc[t] \notin {"gather", "wait"},
         batch[t] = <<>>
  PROVE  /\ t \notin Queued /\ \A l \in Threads : t \notin Batched(l)
         /\ Batched(t) = {} /\ result[t] = "none"
<1>1. TypeInv
  BY DEF IInv
<1>2. Batched(t) = {}
  BY <1>1, Elements DEF Batched, TypeInv
<1>3. ASSUME NEW l \in Threads, t \in Batched(l) PROVE FALSE
  <2>1. batch[l] # <<>>
    BY <1>1, <1>3, Elements DEF Batched, TypeInv
  <2> QED
    BY <1>2, <1>3, <2>1 DEF IInv, BatchInv
<1>4. t \notin Queued
  BY DEF IInv, QueueInv
<1>5. result[t] = "none"
  BY <1>3 DEF IInv, TruthInv
<1> QED
  BY <1>2, <1>3, <1>4, <1>5

OthersStay(t) == \A u \in Threads \ {t} :
  UNCHANGED <<pc[u], pkg[u], mine[u], result[u], got[u], answer[u], late[u]>>

LEMMA OwnStep ==
  ASSUME IInv, NEW t \in Threads, batch[t] = <<>>,
         pc[t] \notin {"gather", "wait"}, pc'[t] \notin {"gather", "wait"},
         OthersStay(t), UNCHANGED <<truth, batching>>, TypeInv',
         \A p \in Packages :
           verdict'[p] = "mal" \/ page'[p] = "mal" => p \in truth,
         got'[t] = "mal" \/ late'[t] => pkg'[t] \in truth,
         answer'[t] \subseteq truth, result'[t] = "none",
         got'[t] # "none" =>
           pc'[t] \in {"apply", "gate", "sent", "answered", "store"},
         LateInv(t)'
  PROVE  IInv'
<1>1. /\ t \notin Queued /\ \A l \in Threads : t \notin Batched(l)
      /\ Batched(t) = {}
  BY Outside
<1>2. Queued' = Queued /\ \A l \in Threads : Batched(l)' = Batched(l)
  BY DEF batching, Queued, Batched
<1>3. /\ Queued \subseteq Threads
      /\ \A l \in Threads : Batched(l) \subseteq Threads
  BY Elements DEF IInv, TypeInv, Queued, Batched
<1>4. QueueInv'
  <2>1. queue' = queue
    BY DEF batching
  <2> QED
    BY <1>1, <1>2, <1>3, <2>1 DEF IInv, QueueInv, OthersStay
<1>5. LeadInv'
  BY <1>2 DEF IInv, LeadInv, OthersStay, batching
<1>6. BatchInv'
  <2> SUFFICES ASSUME NEW l \in Threads, batch'[l] # <<>>
               PROVE  /\ pc'[l] \in {"gate", "sent", "answered"}
                      /\ l \in Batched(l)
                      /\ \A x \in Batched(l) :
                           mine'[x] = x /\ (x = l \/ pc'[x] = "wait")
    BY <1>2 DEF BatchInv
  <2>1. batch[l] # <<>> /\ l # t
    BY DEF batching
  <2> QED
    BY <1>1, <1>3, <2>1 DEF IInv, BatchInv, OthersStay
<1>7. DisjointInv'
  BY <1>2 DEF IInv, DisjointInv
<1>8. WaitInv'
  <2> SUFFICES ASSUME NEW u \in Threads, pc'[u] = "wait"
               PROVE  /\ \/ mine'[u] \in Queued
                         \/ \E l \in Threads : mine'[u] \in Batched(l)
                      /\ pkg'[mine'[u]] = pkg'[u]
    BY <1>2 DEF WaitInv
  <2>1. u # t
    OBVIOUS
  <2>2. pc[u] = "wait" /\ mine'[u] = mine[u] /\ pkg'[u] = pkg[u]
    BY <2>1 DEF OthersStay
  <2>3. /\ mine[u] \in Queued \/ \E l \in Threads : mine[u] \in Batched(l)
        /\ pkg[mine[u]] = pkg[u]
    BY <2>2 DEF IInv, WaitInv
  <2>4. mine[u] # t /\ mine[u] \in Threads
    BY <1>1, <1>3, <2>3
  <2> QED
    BY <2>2, <2>3, <2>4 DEF OthersStay
<1>9. TruthInv'
  <2> SUFFICES ASSUME NEW u \in Threads
               PROVE  /\ got'[u] = "mal" \/ result'[u] = "mal" \/ late'[u] =>
                            pkg'[u] \in truth
                      /\ answer'[u] \subseteq truth
                      /\ result'[u] # "none" =>
                            \E l \in Threads : u \in Batched(l)
                      /\ got'[u] # "none" => pc'[u] \in
                            {"apply", "gate", "sent", "answered", "store"}
    BY <1>2 DEF TruthInv
  <2>1. CASE u = t
    BY <2>1
  <2>2. CASE u # t
    BY <2>2 DEF IInv, TruthInv, OthersStay
  <2> QED
    BY <2>1, <2>2
<1>10. FreshInv'
  <2>1. ASSUME NEW u \in Threads PROVE LateInv(u)'
    <3>1. CASE u # t
      BY <3>1 DEF IInv, FreshInv, LateInv, OthersStay, batching
    <3> QED
      BY <3>1
  <2>2. ASSUME NEW u \in Threads, NEW l \in Threads PROVE SharedInv(l, u)'
    <3> SUFFICES ASSUME late'[u], u = l \/ pc'[u] = "wait",
                        mine'[u] \in Batched(l)
                 PROVE  /\ result'[mine'[u]] # "clean"
                        /\ pc'[l] = "answered" /\ mine'[u] \in Chunk(l) =>
                             pkg'[mine'[u]] \in answer'[l]
      <4>1. Chunk(l)' = Chunk(l)
        BY DEF Chunk, Following, batching
      <4> QED
        BY <1>2, <4>1 DEF SharedInv
    <3>1. l # t /\ u # t
      BY <1>1
    <3>2. /\ late[u] /\ (u = l \/ pc[u] = "wait") /\ mine[u] \in Batched(l)
          /\ mine'[u] = mine[u] /\ mine[u] # t /\ mine[u] \in Threads
      BY <1>1, <1>3, <3>1 DEF OthersStay
    <3> QED
      BY <3>1, <3>2 DEF IInv, FreshInv, SharedInv, OthersStay
  <2> QED
    BY <2>1, <2>2 DEF FreshInv
<1> QED
  BY <1>4, <1>5, <1>6, <1>7, <1>8, <1>9, <1>10 DEF IInv

LEMMA InitIInv == Init => IInv
<1> SUFFICES ASSUME Init PROVE IInv
  OBVIOUS
<1>1. <<>> \in Seq(Threads) /\ Len(<<>>) = 0 /\ ToSet(<<>>) = {}
  BY EmptySeq, Elements
<1>2. Queued = {} /\ \A l \in Threads : Batched(l) = {}
  BY <1>1 DEF Init, Queued, Batched
<1>3. TypeInv
  BY <1>1 DEF Init, TypeInv, Cached, Steps
<1>4. QueueInv /\ LeadInv /\ BatchInv /\ DisjointInv /\ WaitInv
  BY <1>1, <1>2
     DEF Init, QueueInv, LeadInv, BatchInv, DisjointInv, WaitInv
<1>5. TruthInv /\ FreshInv
  BY DEF Init, TruthInv, FreshInv, LateInv, SharedInv
<1> QED
  BY <1>3, <1>4, <1>5 DEF IInv

\* OSV learns more, or a cache forgets.
LEMMA WorldInv ==
  ASSUME IInv, truth \subseteq truth', truth' \subseteq Packages, TypeInv',
         \A p \in Packages : /\ verdict'[p] \in {"none", verdict[p]}
                             /\ page'[p] \in {"none", page[p]},
         UNCHANGED <<pc, pkg, mine, batching, result, got, answer, late>>
  PROVE  IInv'
<1>1. Queued' = Queued /\ \A l \in Threads : Batched(l)' = Batched(l)
  BY DEF batching, Queued, Batched
<1>2. QueueInv' /\ LeadInv' /\ BatchInv' /\ DisjointInv' /\ WaitInv'
  BY <1>1 DEF IInv, QueueInv, LeadInv, BatchInv, DisjointInv, WaitInv, batching
<1>3. TruthInv'
  BY <1>1 DEF IInv, TruthInv
<1>4. \A u \in Threads : LateInv(u)'
  BY DEF IInv, FreshInv, LateInv, batching
<1>5. ASSUME NEW u \in Threads, NEW l \in Threads PROVE SharedInv(l, u)'
  <2>1. Chunk(l)' = Chunk(l)
    BY DEF Chunk, Following, batching
  <2> QED
    BY <1>1, <2>1 DEF IInv, FreshInv, SharedInv
<1> QED
  BY <1>2, <1>3, <1>4, <1>5 DEF IInv, FreshInv

LEMMA OutsideWorldInv ==
  ASSUME IInv, NEW p \in Packages,
         MalPublished(p) \/ VerdictExpires(p) \/ PageExpires(p)
  PROVE  IInv'
<1>1. TypeInv
  BY DEF IInv
<1>2. CASE MalPublished(p)
  <2>1. TypeInv' /\ truth \subseteq truth' /\ truth' \subseteq Packages
    BY <1>1, <1>2 DEF MalPublished, TypeInv, caches, batching
  <2> QED
    BY <1>2, <2>1, WorldInv DEF MalPublished, caches
<1>3. CASE VerdictExpires(p)
  <2>1. TypeInv' /\ \A q \in Packages : verdict'[q] \in {"none", verdict[q]}
    BY <1>1, <1>3 DEF VerdictExpires, TypeInv, Cached, batching
  <2> QED
    BY <1>1, <1>3, <2>1, WorldInv DEF VerdictExpires, TypeInv
<1>4. CASE PageExpires(p)
  <2>1. TypeInv' /\ \A q \in Packages : page'[q] \in {"none", page[q]}
    BY <1>1, <1>4 DEF PageExpires, TypeInv, Cached, batching
  <2> QED
    BY <1>1, <1>4, <2>1, WorldInv DEF PageExpires, TypeInv
<1> QED
  BY <1>2, <1>3, <1>4

\* Up to the package-level query, and after it.
LEMMA RequestInv ==
  ASSUME IInv, NEW t \in Threads, NEW p \in Packages, Request(t, p)
  PROVE  IInv'
<1>1. TypeInv /\ pc[t] = "idle" /\ batch[t] = <<>>
  BY DEF IInv, BatchInv, Request
<1>2. /\ pc' = [pc EXCEPT ![t] = "page"] /\ pkg' = [pkg EXCEPT ![t] = p]
      /\ late' = [late EXCEPT ![t] = p \in truth]
      /\ UNCHANGED <<truth, caches, mine, batching, result, got, answer>>
  BY DEF Request
<1>3. TypeInv'
  BY <1>1, <1>2 DEF TypeInv, Steps, caches, batching
<1>4. OthersStay(t)
  BY <1>1, <1>2 DEF OthersStay, TypeInv
<1>5. pc'[t] = "page" /\ pkg'[t] = p /\ late'[t] = (p \in truth)
  BY <1>1, <1>2 DEF TypeInv
<1>6. got[t] = "none" /\ result[t] = "none" /\ answer[t] \subseteq truth
  BY <1>1, Outside DEF IInv, TruthInv
<1>7. \A q \in Packages :
        verdict'[q] = "mal" \/ page'[q] = "mal" => q \in truth
  BY <1>2 DEF IInv, TruthInv, caches
<1>8. LateInv(t)'
  BY <1>5 DEF LateInv
<1> QED
  BY <1>1, <1>2, <1>3, <1>4, <1>5, <1>6, <1>7, <1>8, OwnStep

LEMMA PageInv ==
  ASSUME IInv, NEW t \in Threads, PageHit(t) \/ PageMiss(t)
  PROVE  IInv'
<1>1. TypeInv /\ pc[t] = "page" /\ batch[t] = <<>> /\ pkg[t] \in Packages
  BY DEF IInv, TypeInv, BatchInv, PageHit, PageMiss
<1>2. result[t] = "none" /\ answer[t] \subseteq truth /\ got[t] = "none"
      /\ (late[t] => pkg[t] \in truth)
  BY <1>1, Outside DEF IInv, TruthInv
<1>3. \A q \in Packages :
        verdict[q] = "mal" \/ page[q] = "mal" => q \in truth
  BY DEF IInv, TruthInv
<1>4. CASE PageHit(t)
  <2>1. /\ pc' = [pc EXCEPT ![t] = "apply"]
        /\ got' = [got EXCEPT ![t] = page[pkg[t]]]
        /\ late' = [late EXCEPT ![t] = FALSE]
        /\ UNCHANGED <<truth, caches, pkg, mine, batching, result, answer>>
    BY <1>4 DEF PageHit
  <2>2. TypeInv'
    BY <1>1, <2>1 DEF TypeInv, Steps, caches, batching
  <2>3. OthersStay(t)
    BY <1>1, <2>1 DEF OthersStay, TypeInv
  <2>4. pc'[t] = "apply" /\ got'[t] = page[pkg[t]] /\ late'[t] = FALSE
    BY <1>1, <2>1 DEF TypeInv
  <2>5. LateInv(t)'
    BY <2>4 DEF LateInv
  <2>6. got'[t] = "mal" \/ late'[t] => pkg'[t] \in truth
    BY <1>1, <1>3, <2>1, <2>4
  <2> QED
    BY <1>1, <1>2, <1>3, <2>1, <2>2, <2>3, <2>4, <2>5, <2>6, OwnStep DEF caches
<1>5. CASE PageMiss(t)
  <2>1. /\ pc' = [pc EXCEPT ![t] = "enqueue"]
        /\ UNCHANGED <<truth, caches, pkg, mine, batching, result, got, answer,
                       late>>
    BY <1>5 DEF PageMiss
  <2>2. TypeInv' /\ OthersStay(t) /\ pc'[t] = "enqueue"
    BY <1>1, <2>1 DEF TypeInv, Steps, caches, batching, OthersStay
  <2>3. LateInv(t)'
    BY <2>2 DEF LateInv
  <2> QED
    BY <1>1, <1>2, <1>3, <2>1, <2>2, <2>3, OwnStep DEF caches
<1> QED
  BY <1>4, <1>5

\* A reply, with or without a verdict that is stored.
LEMMA ReplyInv ==
  ASSUME IInv, NEW t \in Threads, batch[t] = <<>>,
         pc[t] \notin {"gather", "wait"}, Reply(t),
         UNCHANGED <<truth, page, batching>>,
         answer' \in {answer, [answer EXCEPT ![t] = {}]},
         \/ UNCHANGED verdict
         \/ /\ pkg[t] \in Packages /\ got[t] \in Cached
            /\ verdict' = [verdict EXCEPT ![pkg[t]] = got[t]]
  PROVE  IInv'
<1>1. TypeInv /\ answer[t] \subseteq truth
      /\ (got[t] = "mal" => pkg[t] \in truth)
  BY DEF IInv, TruthInv
<1>2. /\ pc' = [pc EXCEPT ![t] = "idle"] /\ pkg' = [pkg EXCEPT ![t] = None]
      /\ mine' = [mine EXCEPT ![t] = t]
      /\ result' = [result EXCEPT ![t] = "none"]
      /\ got' = [got EXCEPT ![t] = "none"]
      /\ late' = [late EXCEPT ![t] = FALSE]
  BY DEF Reply
<1>3. verdict' \in [Packages -> Cached]
  BY <1>1 DEF TypeInv
<1>4. answer' \in [Threads -> SUBSET Packages] /\ answer'[t] \subseteq truth
      /\ \A u \in Threads \ {t} : answer'[u] = answer[u]
  BY <1>1 DEF TypeInv
<1>5. TypeInv'
  BY <1>1, <1>2, <1>3, <1>4 DEF TypeInv, Steps, Cached, batching
<1>6. OthersStay(t)
  BY <1>1, <1>2, <1>4 DEF OthersStay, TypeInv
<1>7. /\ pc'[t] = "idle" /\ got'[t] = "none" /\ late'[t] = FALSE
      /\ result'[t] = "none"
  BY <1>1, <1>2 DEF TypeInv
<1>8. LateInv(t)'
  BY <1>7 DEF LateInv
<1>9. \A q \in Packages :
        verdict'[q] = "mal" \/ page'[q] = "mal" => q \in truth
  BY <1>1 DEF IInv, TruthInv, TypeInv
<1> QED
  BY <1>4, <1>5, <1>6, <1>7, <1>8, <1>9, OwnStep

LEMMA EndInv ==
  ASSUME IInv, NEW t \in Threads,
         ApplyError(t) \/ SingleFails(t) \/ StoreVerdict(t)
  PROVE  IInv'
<1>1. TypeInv /\ batch[t] = <<>> /\ pc[t] \notin {"gather", "wait"}
  BY DEF IInv, BatchInv, ApplyError, SingleFails, StoreVerdict
<1>2. CASE ApplyError(t)
  BY <1>1, <1>2, ReplyInv DEF ApplyError, caches
<1>3. CASE SingleFails(t)
  BY <1>1, <1>3, ReplyInv DEF SingleFails, caches
<1>4. CASE StoreVerdict(t)
  <2>1. pkg[t] \in Packages /\ got[t] \in Cached
    BY <1>1, <1>4 DEF StoreVerdict, TypeInv, Cached
  <2> QED
    BY <1>1, <1>4, <2>1, ReplyInv DEF StoreVerdict
<1> QED
  BY <1>2, <1>3, <1>4

LEMMA ApplyPageInv ==
  ASSUME IInv, NEW t \in Threads, ApplyPage(t)
  PROVE  IInv'
<1>1. TypeInv /\ pc[t] = "apply" /\ batch[t] = <<>> /\ got[t] \in Findings
  BY DEF IInv, BatchInv, ApplyPage
<1> DEFINE next == IF Undecided(t) THEN "gate" ELSE "store"
           now == late[t] \/ (Undecided(t) /\ pkg[t] \in truth)
<1>2. /\ pc' = [pc EXCEPT ![t] = next] /\ late' = [late EXCEPT ![t] = now]
      /\ UNCHANGED <<truth, caches, pkg, mine, batching, result, got, answer>>
  BY DEF ApplyPage
<1>3. now \in BOOLEAN /\ next \in {"gate", "store"}
  OBVIOUS
<1>4. pc'[t] = next /\ late'[t] = now
  BY <1>1, <1>2 DEF TypeInv
<1>5. TypeInv'
  <2> HIDE DEF next, now
  <2> QED
    BY <1>1, <1>2, <1>3 DEF TypeInv, Steps, Findings, caches, batching
<1>6. OthersStay(t)
  BY <1>1, <1>2 DEF OthersStay, TypeInv
<1>7. /\ result[t] = "none" /\ answer[t] \subseteq truth
      /\ got[t] = "mal" \/ late[t] => pkg[t] \in truth
      /\ late[t] => got[t] # "clean"
  BY <1>1, Outside DEF IInv, TruthInv, FreshInv, LateInv
<1>8. \A q \in Packages :
        verdict'[q] = "mal" \/ page'[q] = "mal" => q \in truth
  BY <1>2 DEF IInv, TruthInv, caches
<1>9. LateInv(t)'
  <2>1. next = "store" => ~Undecided(t)
    OBVIOUS
  <2>2. ASSUME late'[t], next = "store" PROVE got[t] = "mal"
    BY <1>1, <1>4, <1>7, <2>1, <2>2 DEF Findings
  <2> QED
    BY <1>2, <1>3, <1>4, <2>2 DEF LateInv
<1>10. got'[t] = "mal" \/ late'[t] => pkg'[t] \in truth
  BY <1>2, <1>4, <1>7
<1> HIDE DEF next, now
<1> QED
  BY <1>1, <1>2, <1>3, <1>4, <1>5, <1>6, <1>7, <1>8, <1>9, <1>10, OwnStep

LEMMA ReceiveSingleInv ==
  ASSUME IInv, NEW t \in Threads, ReceiveSingle(t)
  PROVE  IInv'
<1>1. TypeInv /\ pc[t] = "answered" /\ batch[t] = <<>> /\ pkg[t] \in Packages
  BY DEF IInv, TypeInv, ReceiveSingle
<1>2. /\ pc' = [pc EXCEPT ![t] = "store"]
      /\ got' = [got EXCEPT ![t] = Finding(t, pkg[t])]
      /\ answer' = [answer EXCEPT ![t] = {}]
      /\ UNCHANGED <<truth, caches, pkg, mine, batching, result, late>>
  BY DEF ReceiveSingle
<1>3. Finding(t, pkg[t]) \in Findings
  BY DEF Finding, Findings
<1>4. TypeInv'
  BY <1>1, <1>2, <1>3 DEF TypeInv, Steps, Cached, caches, batching
<1>5. OthersStay(t)
  BY <1>1, <1>2 DEF OthersStay, TypeInv
<1>6. pc'[t] = "store" /\ got'[t] = Finding(t, pkg[t]) /\ answer'[t] = {}
  BY <1>1, <1>2 DEF TypeInv
<1>7. /\ result[t] = "none" /\ answer[t] \subseteq truth
      /\ late[t] => pkg[t] \in truth /\ pkg[t] \in answer[t]
  BY <1>1, Outside DEF IInv, TruthInv, FreshInv, LateInv
<1>8. \A q \in Packages :
        verdict'[q] = "mal" \/ page'[q] = "mal" => q \in truth
  BY <1>2 DEF IInv, TruthInv, caches
<1>9. LateInv(t)'
  BY <1>2, <1>6, <1>7 DEF LateInv, Finding
<1>10. got'[t] = "mal" \/ late'[t] => pkg'[t] \in truth
  BY <1>2, <1>6, <1>7 DEF Finding
<1> QED
  BY <1>1, <1>2, <1>4, <1>5, <1>6, <1>7, <1>8, <1>9, <1>10, OwnStep

-----------------------------------------------------------------------------
(* Calls to OSV *)

\* Whoever goes on with a batch asked about his own package.
LEMMA SamePackage ==
  ASSUME IInv, NEW l \in Threads, NEW u \in Threads,
         u = l \/ pc[u] = "wait", mine[u] \in Batched(l)
  PROVE  pkg[mine[u]] = pkg[u]
<1>1. CASE u = l
  <2>1. batch[l] # <<>>
    BY Elements DEF IInv, TypeInv, Batched
  <2>2. mine[l] = l
    BY <2>1 DEF IInv, BatchInv
  <2> QED
    BY <1>1, <2>2
<1>2. CASE pc[u] = "wait"
  BY <1>2 DEF IInv, WaitInv
<1> QED
  BY <1>1, <1>2

LEMMA CallInv ==
  ASSUME IInv, NEW t \in Threads, Acquire(t) \/ OsvAnswers(t)
  PROVE  IInv'
<1>1. /\ TypeInv /\ pc[t] \in {"gate", "sent"}
      /\ UNCHANGED <<truth, caches, pkg, mine, batching, result, got, late>>
  BY DEF IInv, Acquire, OsvAnswers
<1>2. PICK step \in {"sent", "answered"} :
        /\ pc' = [pc EXCEPT ![t] = step]
        /\ step = "sent" => answer' = answer
        /\ step = "answered" =>
             answer' = [answer EXCEPT ![t] = Asked(t) \cap truth]
  BY DEF Acquire, OsvAnswers
<1>3. /\ pc'[t] = step /\ \A u \in Threads \ {t} : pc'[u] = pc[u]
      /\ \A u \in Threads \ {t} : answer'[u] = answer[u]
      /\ step = "answered" => answer'[t] = Asked(t) \cap truth
  BY <1>1, <1>2 DEF TypeInv
<1>4. answer' \in [Threads -> SUBSET Packages] /\ answer'[t] \subseteq truth
  <2>1. CASE step = "sent"
    BY <1>1, <1>2, <2>1 DEF IInv, TypeInv, TruthInv
  <2>2. CASE step = "answered"
    <3>1. Asked(t) \cap truth \in SUBSET Packages
      BY <1>1 DEF TypeInv
    <3> HIDE DEF Asked
    <3> QED
      BY <1>1, <1>2, <1>3, <2>2, <3>1 DEF TypeInv
  <2> QED
    BY <2>1, <2>2
<1>5. TypeInv'
  <2>1. pc' \in [Threads -> Steps]
    BY <1>1, <1>2 DEF TypeInv, Steps
  <2> QED
    BY <1>1, <1>3, <1>4, <2>1 DEF TypeInv, caches, batching
<1>6. Queued' = Queued /\ \A l \in Threads : Batched(l)' = Batched(l)
  BY <1>1 DEF batching, Queued, Batched
<1>7. /\ Queued \subseteq Threads
      /\ \A l \in Threads : Batched(l) \subseteq Threads
  BY <1>1, Elements DEF TypeInv, Queued, Batched
<1>8. QueueInv'
  BY <1>1, <1>3, <1>6, <1>7 DEF IInv, QueueInv, batching
<1>9. LeadInv' /\ DisjointInv'
  BY <1>1, <1>3, <1>6 DEF IInv, LeadInv, DisjointInv, batching
<1>10. BatchInv'
  BY <1>1, <1>3, <1>6, <1>7 DEF IInv, BatchInv, batching
<1>11. WaitInv'
  BY <1>1, <1>3, <1>6 DEF IInv, WaitInv
<1>12. TruthInv'
  BY <1>1, <1>3, <1>4, <1>6 DEF IInv, TruthInv, caches
<1>13. ASSUME NEW u \in Threads PROVE LateInv(u)'
  <2>1. CASE u # t
    BY <1>1, <1>3, <2>1 DEF IInv, FreshInv, LateInv, batching
  <2>2. CASE u = t
    <3>1. step = "answered" /\ batch[t] = <<>> => Asked(t) = {pkg[t]}
      BY DEF Asked
    <3>2. late[t] => pkg[t] \in truth
      BY DEF IInv, TruthInv
    <3> QED
      BY <1>1, <1>3, <2>2, <3>1, <3>2 DEF LateInv, batching
  <2> QED
    BY <2>1, <2>2
<1>14. ASSUME NEW u \in Threads, NEW l \in Threads PROVE SharedInv(l, u)'
  <2>1. Chunk(l)' = Chunk(l)
    BY <1>1 DEF Chunk, Following, batching
  <2> SUFFICES ASSUME late[u], u = l \/ pc[u] = "wait", mine[u] \in Batched(l)
               PROVE  /\ result[mine[u]] # "clean"
                      /\ pc'[l] = "answered" /\ mine[u] \in Chunk(l) =>
                           pkg[mine[u]] \in answer'[l]
    BY <1>1, <1>3, <1>6, <2>1 DEF SharedInv
  <2>2. result[mine[u]] # "clean"
    BY DEF IInv, FreshInv, SharedInv
  <2>3. CASE l # t
    BY <1>3, <2>2, <2>3 DEF IInv, FreshInv, SharedInv
  <2>4. CASE l = t
    <3> SUFFICES ASSUME step = "answered", mine[u] \in Chunk(t)
                 PROVE  pkg[mine[u]] \in answer'[t]
      BY <1>3, <2>2, <2>4
    <3>1. batch[t] # <<>>
      BY <1>1, <2>4, Elements DEF TypeInv, Batched
    <3>2. pkg[mine[u]] \in Asked(t)
      BY <3>1 DEF Asked
    <3>3. pkg[mine[u]] \in truth
      BY SamePackage DEF IInv, TruthInv
    <3> QED
      BY <1>3, <3>2, <3>3
  <2> QED
    BY <2>3, <2>4
<1> QED
  BY <1>5, <1>8, <1>9, <1>10, <1>11, <1>12, <1>13, <1>14 DEF IInv, FreshInv

-----------------------------------------------------------------------------
(* The batch *)

LEMMA EnqueueInv ==
  ASSUME IInv, NEW t \in Threads, Enqueue(t)
  PROVE  IInv'
<1> DEFINE shared == {u \in ToSet(queue) : pkg[u] = pkg[t]}
<1>1. /\ TypeInv /\ pc[t] = "enqueue" /\ batch[t] = <<>>
      /\ pkg[t] \in Packages
  BY DEF IInv, TypeInv, BatchInv, Enqueue
<1>2. /\ t \notin Queued /\ \A l \in Threads : t \notin Batched(l)
      /\ Batched(t) = {} /\ result[t] = "none"
  BY <1>1, Outside
<1>3. /\ pc' = [pc EXCEPT ![t] = IF active THEN "wait" ELSE "gather"]
      /\ active' = TRUE
      /\ UNCHANGED <<truth, caches, pkg, batch, done, got, answer, late>>
  BY DEF Enqueue
<1>4. /\ Queued \subseteq Threads
      /\ \A l \in Threads : Batched(l) \subseteq Threads
      /\ \A l \in Threads : Batched(l)' = Batched(l)
      /\ queue = <<>> <=> Queued = {}
  BY <1>1, <1>3, Elements DEF TypeInv, Queued, Batched
\* In either case the thread has a query of its package in the queue.
<1>5. PICK x \in Threads :
        /\ mine' = [mine EXCEPT ![t] = x]
        /\ \/ /\ x \in Queued /\ pkg[x] = pkg[t] /\ Queued # {}
              /\ UNCHANGED <<queue, result>>
           \/ /\ x = t /\ queue' = Append(queue, t)
              /\ result' = [result EXCEPT ![t] = "none"]
  BY <1>4 DEF Enqueue, Queued
<1>6. result' = result
  BY <1>1, <1>2, <1>5 DEF TypeInv
<1>7. /\ queue' \in Seq(Threads)
      /\ Queued \subseteq Queued' /\ Queued' \subseteq Queued \cup {t}
      /\ x \in Queued' /\ queue' # <<>>
      /\ \A i, j \in 1..Len(queue') : queue'[i] = queue'[j] => i = j
  <2>1. CASE queue' = queue /\ x \in Queued /\ Queued # {}
    <3>1. \A i, j \in 1..Len(queue) : queue[i] = queue[j] => i = j
      BY DEF IInv, QueueInv
    <3> QED
      BY <1>1, <1>4, <2>1, <3>1 DEF TypeInv, Queued
  <2>2. CASE queue' = Append(queue, t) /\ x = t
    <3>1. queue \in Seq(Threads) /\ Len(queue) \in Nat
      BY <1>1, LenProperties DEF TypeInv
    <3>2. /\ queue' \in Seq(Threads) /\ queue' # <<>>
          /\ ToSet(queue') = ToSet(queue) \cup {t}
          /\ Len(queue') = Len(queue) + 1
          /\ \A i \in 1..Len(queue) : queue'[i] = queue[i]
          /\ queue'[Len(queue) + 1] = t
      BY <2>2, <3>1, AppendElements
    <3>3. \A i \in 1..Len(queue) : queue[i] # t
      BY <1>2, <3>1, Elements DEF Queued
    <3>4. \A i, j \in 1..Len(queue) : queue[i] = queue[j] => i = j
      BY DEF IInv, QueueInv
    <3>5. ASSUME NEW i \in 1..Len(queue'), NEW j \in 1..Len(queue'),
                 queue'[i] = queue'[j]
          PROVE  i = j
      BY <3>1, <3>2, <3>3, <3>4, <3>5
    <3> QED
      BY <2>2, <3>2, <3>5 DEF Queued
  <2> QED
    BY <1>5, <2>1, <2>2
<1>8. /\ mine'[t] = x /\ pkg[x] = pkg[t]
      /\ pc'[t] = IF active THEN "wait" ELSE "gather"
      /\ \A u \in Threads \ {t} : pc'[u] = pc[u] /\ mine'[u] = mine[u]
  BY <1>1, <1>3, <1>5 DEF TypeInv
<1>9. TypeInv'
  <2>1. pc' \in [Threads -> Steps]
    BY <1>1, <1>3 DEF TypeInv, Steps
  <2>2. mine' \in [Threads -> Threads]
    BY <1>1, <1>5 DEF TypeInv
  <2> QED
    BY <1>1, <1>3, <1>6, <1>7, <1>8, <2>1, <2>2 DEF TypeInv, caches
<1>10. active \/ Queued = {}
  BY <1>4 DEF IInv, LeadInv
<1>11. QueueInv'
  <2>1. ASSUME NEW y \in Queued'
        PROVE  pc'[y] \in {"gather", "wait"} /\ mine'[y] = y
               /\ result'[y] = "none"
    <3>1. CASE y = t
      <4>1. x = t
        BY <1>2, <1>5, <2>1, <3>1 DEF Queued
      <4> QED
        BY <1>2, <1>6, <1>8, <3>1, <4>1
    <3>2. CASE y # t
      BY <1>4, <1>6, <1>7, <1>8, <2>1, <3>2 DEF IInv, QueueInv
    <3> QED
      BY <3>1, <3>2
  <2> QED
    BY <1>7, <2>1 DEF QueueInv
<1>12. LeadInv'
  <2>1. CASE active
    BY <1>1, <1>3, <1>7, <1>8, <2>1 DEF IInv, LeadInv
  <2>2. CASE ~active
    <3>1. x = t /\ t \in Queued'
      BY <1>5, <1>7, <1>10, <2>2
    <3> QED
      BY <1>1, <1>3, <1>7, <1>8, <2>2, <3>1 DEF IInv, LeadInv
  <2> QED
    BY <2>1, <2>2
<1>13. BatchInv'
  <2> SUFFICES ASSUME NEW l \in Threads, batch[l] # <<>>
               PROVE  /\ pc'[l] \in {"gate", "sent", "answered"}
                      /\ l \in Batched(l)
                      /\ \A y \in Batched(l) :
                           mine'[y] = y /\ (y = l \/ pc'[y] = "wait")
    BY <1>3, <1>4 DEF BatchInv
  <2> QED
    BY <1>1, <1>2, <1>4, <1>8 DEF IInv, BatchInv
<1>14. DisjointInv'
  BY <1>2, <1>4, <1>7 DEF IInv, DisjointInv
<1>15. WaitInv'
  <2> SUFFICES ASSUME NEW u \in Threads, pc'[u] = "wait"
               PROVE  /\ \/ mine'[u] \in Queued'
                         \/ \E l \in Threads : mine'[u] \in Batched(l)
                      /\ pkg[mine'[u]] = pkg[u]
    BY <1>3, <1>4 DEF WaitInv
  <2>1. CASE u = t
    BY <1>7, <1>8, <2>1
  <2>2. CASE u # t
    BY <1>7, <1>8, <2>2 DEF IInv, WaitInv
  <2> QED
    BY <2>1, <2>2
<1>16. TruthInv'
  <2>1. got[t] = "none"
    BY <1>1 DEF IInv, TruthInv
  <2> QED
    BY <1>3, <1>4, <1>6, <1>8, <2>1 DEF IInv, TruthInv, caches
<1>17. ASSUME NEW u \in Threads PROVE LateInv(u)'
  <2>1. CASE u = t
    BY <1>8, <2>1 DEF LateInv
  <2>2. CASE u # t
    BY <1>3, <1>8, <2>2 DEF IInv, FreshInv, LateInv
  <2> QED
    BY <2>1, <2>2
<1>18. ASSUME NEW u \in Threads, NEW l \in Threads PROVE SharedInv(l, u)'
  <2>1. Chunk(l)' = Chunk(l)
    BY <1>3 DEF Chunk, Following
  <2> SUFFICES ASSUME late[u], u = l \/ pc'[u] = "wait",
                      mine'[u] \in Batched(l)
               PROVE  /\ result[mine'[u]] # "clean"
                      /\ pc'[l] = "answered" /\ mine'[u] \in Chunk(l) =>
                           pkg[mine'[u]] \in answer[l]
    BY <1>3, <1>4, <1>6, <2>1 DEF SharedInv
  <2>2. u # t
    BY <1>7, <1>8, <1>14, <1>4 DEF DisjointInv
  <2>3. l # t
    BY <1>2
  <2> QED
    BY <1>8, <2>2, <2>3 DEF IInv, FreshInv, SharedInv
<1> QED
  BY <1>9, <1>11, <1>12, <1>13, <1>14, <1>15, <1>16, <1>17, <1>18
     DEF IInv, FreshInv

LEMMA TakeBatchInv ==
  ASSUME IInv, NEW t \in Threads, TakeBatch(t)
  PROVE  IInv'
<1>1. /\ TypeInv /\ pc[t] = "gather" /\ batch[t] = <<>> /\ t \in Queued
      /\ pkg[t] \in Packages
  BY DEF IInv, TypeInv, LeadInv, BatchInv, TakeBatch
<1>2. /\ batch' = [batch EXCEPT ![t] = queue]
      /\ done' = [done EXCEPT ![t] = 0] /\ queue' = <<>> /\ active' = FALSE
      /\ pc' = [pc EXCEPT ![t] = "gate"]
      /\ UNCHANGED <<truth, caches, pkg, mine, result, got, answer, late>>
  BY DEF TakeBatch
<1>3. /\ Queued' = {} /\ Batched(t)' = Queued /\ Batched(t) = {}
      /\ \A l \in Threads \ {t} : /\ Batched(l)' = Batched(l)
                                 /\ batch'[l] = batch[l]
      /\ batch'[t] = queue /\ queue # <<>> /\ queue \in Seq(Threads)
  <2>1. queue \in Seq(Threads) /\ batch \in [Threads -> Seq(Threads)]
    BY <1>1 DEF TypeInv
  <2>2. batch'[t] = queue /\ \A l \in Threads \ {t} : batch'[l] = batch[l]
    BY <1>2, <2>1
  <2>3. Queued' = ToSet(<<>>) /\ Batched(t) = ToSet(<<>>)
    BY <1>1, <1>2 DEF Queued, Batched
  <2>4. ToSet(<<>>) = {}
    BY Elements, EmptySeq
  <2>5. queue # <<>>
    BY <1>1, <2>4 DEF Queued
  <2> QED
    BY <2>1, <2>2, <2>3, <2>4, <2>5 DEF Queued, Batched
<1>4. /\ Queued \subseteq Threads
      /\ \A l \in Threads : Batched(l) \subseteq Threads
  BY <1>1, Elements DEF TypeInv, Queued, Batched
<1>5. pc'[t] = "gate" /\ \A u \in Threads \ {t} : pc'[u] = pc[u]
  BY <1>1, <1>2 DEF TypeInv
<1>6. TypeInv'
  <2>1. /\ pc' \in [Threads -> Steps] /\ batch' \in [Threads -> Seq(Threads)]
        /\ done' \in [Threads -> Nat] /\ queue' \in Seq(Threads)
    BY <1>1, <1>2, <1>3, EmptySeq DEF TypeInv, Steps
  <2>2. \A u \in Threads : done'[u] < Len(batch'[u]) \/ done'[u] = 0
    BY <1>1, <1>2, <1>3 DEF TypeInv
  <2>3. active' \in BOOLEAN
    BY <1>2
  <2> QED
    BY <1>1, <1>2, <1>5, <2>1, <2>2, <2>3 DEF TypeInv, caches
<1>7. QueueInv'
  <2>1. Len(queue') = 0
    BY <1>2, EmptySeq
  <2> QED
    BY <1>3, <2>1 DEF QueueInv
<1>8. LeadInv'
  BY <1>1, <1>2, <1>5 DEF IInv, LeadInv
<1>9. BatchInv'
  <2>1. ASSUME NEW l \in Threads, l # t, batch[l] # <<>>
        PROVE  /\ pc'[l] \in {"gate", "sent", "answered"}
               /\ l \in Batched(l)
               /\ \A x \in Batched(l) :
                    mine[x] = x /\ (x = l \/ pc'[x] = "wait")
    BY <1>1, <1>4, <1>5, <2>1 DEF IInv, BatchInv, DisjointInv
  <2>2. \A x \in Queued : mine[x] = x /\ (x = t \/ pc'[x] = "wait")
    BY <1>1, <1>4, <1>5 DEF IInv, QueueInv, LeadInv
  <2> QED
    BY <1>1, <1>2, <1>3, <1>5, <2>1, <2>2 DEF BatchInv
<1>10. DisjointInv'
  BY <1>3 DEF IInv, DisjointInv
<1>11. WaitInv'
  <2> SUFFICES ASSUME NEW u \in Threads, pc'[u] = "wait"
               PROVE  /\ \E l \in Threads : mine[u] \in Batched(l)'
                      /\ pkg[mine[u]] = pkg[u]
    BY <1>2 DEF WaitInv
  <2>1. pc[u] = "wait"
    BY <1>5
  <2> QED
    BY <1>3, <2>1 DEF IInv, WaitInv
<1>12. TruthInv'
  <2>1. \A u \in Threads : (\E l \in Threads : u \in Batched(l)) =>
                             \E l \in Threads : u \in Batched(l)'
    BY <1>3
  <2>2. \A u \in Threads : got[u] # "none" =>
          pc'[u] \in {"apply", "gate", "sent", "answered", "store"}
    BY <1>5 DEF IInv, TruthInv
  <2> QED
    BY <1>2, <2>1, <2>2 DEF IInv, TruthInv, caches
<1>13. ASSUME NEW u \in Threads PROVE LateInv(u)'
  BY <1>2, <1>3, <1>5 DEF IInv, FreshInv, LateInv
<1>14. ASSUME NEW u \in Threads, NEW l \in Threads PROVE SharedInv(l, u)'
  <2>1. CASE l = t
    <3>1. \A x \in Queued : result[x] = "none"
      BY DEF IInv, QueueInv
    <3> QED
      BY <1>2, <1>3, <1>5, <2>1, <3>1 DEF SharedInv
  <2>2. CASE l # t
    <3>1. Chunk(l)' = Chunk(l)
      BY <1>1, <1>2, <2>2 DEF TypeInv, Chunk, Following
    <3>2. u = l \/ pc'[u] = "wait" => u = l \/ pc[u] = "wait"
      BY <1>5
    <3> QED
      BY <1>2, <1>3, <1>5, <2>2, <3>1, <3>2 DEF IInv, FreshInv, SharedInv
  <2> QED
    BY <2>1, <2>2
<1> QED
  BY <1>6, <1>7, <1>8, <1>9, <1>10, <1>11, <1>12, <1>13, <1>14
     DEF IInv, FreshInv

\* The end of a batch, with whatever outcome.
LEMMA SetEventsInv ==
  ASSUME IInv, NEW t \in Threads, batch[t] # <<>>,
         NEW what \in [Threads -> Cached \cup {"error"}], SetEvents(t, what),
         \A x \in Batched(t) : what[x] = "mal" => pkg[x] \in truth,
         \A u \in Threads :
           late[u] /\ (u = t \/ pc[u] = "wait") /\ mine[u] \in Batched(t)
             => what[mine[u]] # "clean",
         page' \in [Packages -> Cached],
         \A p \in Packages : page'[p] = "mal" => p \in truth,
         answer' = [answer EXCEPT ![t] = {}],
         UNCHANGED <<truth, verdict, pkg, queue, active, late>>
  PROVE  IInv'
<1> DEFINE freed == {t} \cup {u \in Threads : pc[u] = "wait"
                                              /\ mine[u] \in ToSet(batch[t])}
<1>1. TypeInv
  BY DEF IInv
<1>2. /\ pc' = [u \in Threads |-> IF u \in freed THEN "apply" ELSE pc[u]]
      /\ got' = [u \in Threads |-> IF u \in freed THEN what[mine[u]]
                                   ELSE got[u]]
      /\ mine' = [u \in Threads |-> IF u \in freed THEN u ELSE mine[u]]
      /\ result' = [u \in Threads |-> IF u \in Batched(t) THEN "none"
                                      ELSE result[u]]
      /\ batch' = [batch EXCEPT ![t] = <<>>]
      /\ done' = [done EXCEPT ![t] = 0]
  BY DEF SetEvents, OutcomeFor, Batched
<1>3. /\ t \in Batched(t) /\ mine[t] = t
      /\ pc[t] \in {"gate", "sent", "answered"}
      /\ \A x \in Batched(t) : mine[x] = x /\ (x = t \/ pc[x] = "wait")
  BY DEF IInv, BatchInv
<1>4. /\ Queued \subseteq Threads
      /\ \A l \in Threads : Batched(l) \subseteq Threads
  BY <1>1, Elements DEF TypeInv, Queued, Batched
<1>5. /\ freed \subseteq Threads /\ Batched(t) \subseteq freed /\ t \in freed
      /\ \A u \in freed : /\ mine[u] \in Batched(t)
                          /\ u = t \/ pc[u] = "wait"
      /\ \A u \in Threads :
           pc[u] = "wait" /\ mine[u] \in Batched(t) => u \in freed
  BY <1>3, <1>4 DEF Batched
<1> HIDE DEF freed
<1>6. /\ \A u \in freed : pc'[u] = "apply" /\ got'[u] = what[mine[u]]
      /\ \A u \in Threads \ freed :
           pc'[u] = pc[u] /\ got'[u] = got[u] /\ mine'[u] = mine[u]
      /\ \A u \in Batched(t) : result'[u] = "none"
      /\ \A u \in Threads \ Batched(t) : result'[u] = result[u]
  BY <1>2, <1>4, <1>5
<1>7. /\ batch'[t] = <<>> /\ \A l \in Threads \ {t} : batch'[l] = batch[l]
      /\ done'[t] = 0 /\ \A l \in Threads \ {t} : done'[l] = done[l]
      /\ answer'[t] = {} /\ \A l \in Threads \ {t} : answer'[l] = answer[l]
  BY <1>1, <1>2 DEF TypeInv
<1>8. /\ Queued' = Queued /\ Batched(t)' = {}
      /\ \A l \in Threads \ {t} : Batched(l)' = Batched(l)
  BY <1>7, EmptySeq, Elements DEF Queued, Batched
\* A query elsewhere is not freed.
<1>9. /\ \A x \in Queued : x \notin freed /\ x \notin Batched(t)
      /\ \A l \in Threads \ {t} :
           \A x \in Batched(l) : x \notin freed /\ x \notin Batched(t)
  <2>1. /\ \A x \in Queued : mine[x] = x
        /\ \A l \in Threads : Queued \cap Batched(l) = {}
        /\ \A l, k \in Threads : l # k => Batched(l) \cap Batched(k) = {}
    BY DEF IInv, QueueInv, DisjointInv
  <2>2. ASSUME NEW l \in Threads \ {t}, NEW x \in Batched(l)
        PROVE  mine[x] = x
    <3>1. batch[l] # <<>>
      BY <1>1, <2>2, Elements DEF TypeInv, Batched
    <3> QED
      BY <2>2, <3>1 DEF IInv, BatchInv
  <2> QED
    BY <1>3, <1>5, <2>1, <2>2
<1>10. TypeInv'
  <2>1. pc' \in [Threads -> Steps]
    BY <1>1, <1>2 DEF TypeInv, Steps
  <2>2. got' \in [Threads -> Cached \cup {"error"}]
    <3>1. \A u \in freed : what[mine[u]] \in Cached \cup {"error"}
      BY <1>4, <1>5
    <3> QED
      BY <1>1, <1>2, <3>1 DEF TypeInv
  <2>3. mine' \in [Threads -> Threads]
    BY <1>1, <1>2 DEF TypeInv
  <2>4. result' \in [Threads -> Cached]
    BY <1>1, <1>2 DEF TypeInv, Cached
  <2>5. batch' \in [Threads -> Seq(Threads)] /\ done' \in [Threads -> Nat]
    BY <1>1, <1>2, EmptySeq DEF TypeInv
  <2>6. \A u \in Threads : done'[u] < Len(batch'[u]) \/ done'[u] = 0
    BY <1>1, <1>7 DEF TypeInv
  <2>7. answer' \in [Threads -> SUBSET Packages]
    BY <1>1 DEF TypeInv
  <2>8. ASSUME NEW u \in Threads
        PROVE  /\ pc'[u] # "idle" => pkg[u] \in Packages
               /\ pc'[u] = "store" => got'[u] \in Findings
    <3>1. CASE u \in freed
      <4>1. pc[u] # "idle" /\ pc'[u] = "apply"
        BY <1>3, <1>5, <1>6, <3>1
      <4> QED
        BY <1>1, <4>1 DEF TypeInv
    <3>2. CASE u \notin freed
      BY <1>1, <1>6, <3>2 DEF TypeInv
    <3> QED
      BY <3>1, <3>2
  <2> QED
    BY <1>1, <2>1, <2>2, <2>3, <2>4, <2>5, <2>6, <2>7, <2>8 DEF TypeInv
<1>11. QueueInv'
  BY <1>4, <1>6, <1>8, <1>9 DEF IInv, QueueInv
<1>12. LeadInv'
  <2>1. \A u \in Threads : pc'[u] = "gather" <=> pc[u] = "gather"
    BY <1>3, <1>5, <1>6
  <2> QED
    BY <1>8, <2>1 DEF IInv, LeadInv
<1>13. BatchInv'
  <2> SUFFICES ASSUME NEW l \in Threads, batch'[l] # <<>>
               PROVE  /\ pc'[l] \in {"gate", "sent", "answered"}
                      /\ l \in Batched(l)'
                      /\ \A x \in Batched(l)' :
                           mine'[x] = x /\ (x = l \/ pc'[x] = "wait")
    BY DEF BatchInv
  <2>1. l # t /\ batch[l] # <<>> /\ Batched(l)' = Batched(l)
    BY <1>7, <1>8
  <2>2. /\ pc[l] \in {"gate", "sent", "answered"} /\ l \in Batched(l)
        /\ \A x \in Batched(l) : mine[x] = x /\ (x = l \/ pc[x] = "wait")
    BY <2>1 DEF IInv, BatchInv
  <2> QED
    BY <1>4, <1>6, <1>9, <2>1, <2>2
<1>14. DisjointInv'
  BY <1>8 DEF IInv, DisjointInv
<1>15. WaitInv'
  <2> SUFFICES ASSUME NEW u \in Threads, pc'[u] = "wait"
               PROVE  /\ \/ mine'[u] \in Queued
                         \/ \E l \in Threads : mine'[u] \in Batched(l)'
                      /\ pkg[mine'[u]] = pkg[u]
    BY <1>8 DEF WaitInv
  <2>1. u \notin freed /\ pc[u] = "wait" /\ mine'[u] = mine[u]
    BY <1>6
  <2>2. /\ mine[u] \in Queued \/ \E l \in Threads : mine[u] \in Batched(l)
        /\ pkg[mine[u]] = pkg[u]
    BY <2>1 DEF IInv, WaitInv
  <2> QED
    BY <1>5, <1>8, <2>1, <2>2
<1>16. TruthInv'
  <2> SUFFICES ASSUME NEW u \in Threads
               PROVE  /\ got'[u] = "mal" \/ result'[u] = "mal" \/ late[u] =>
                            pkg[u] \in truth
                      /\ answer'[u] \subseteq truth
                      /\ result'[u] # "none" =>
                            \E l \in Threads : u \in Batched(l)'
                      /\ got'[u] # "none" => pc'[u] \in
                            {"apply", "gate", "sent", "answered", "store"}
    BY DEF IInv, TruthInv
  <2>1. /\ got[u] = "mal" \/ result[u] = "mal" \/ late[u] => pkg[u] \in truth
        /\ answer[u] \subseteq truth
        /\ result[u] # "none" => \E l \in Threads : u \in Batched(l)
        /\ got[u] # "none" =>
             pc[u] \in {"apply", "gate", "sent", "answered", "store"}
    BY DEF IInv, TruthInv
  <2>2. \/ result'[u] = "none"
        \/ u \notin Batched(t) /\ result'[u] = result[u]
    BY <1>6
  <2>3. result'[u] # "none" => \E l \in Threads : u \in Batched(l)'
    BY <1>8, <2>1, <2>2
  <2>4. answer'[u] \subseteq truth
    BY <1>7, <2>1
  <2>5. CASE u \in freed
    <3>1. pc'[u] = "apply" /\ got'[u] = what[mine[u]]
      BY <1>6, <2>5
    <3>2. mine[u] \in Batched(t) /\ (u = t \/ pc[u] = "wait")
      BY <1>5, <2>5
    <3>3. pkg[mine[u]] = pkg[u]
      BY <3>2, SamePackage
    <3>4. got'[u] = "mal" => pkg[u] \in truth
      BY <3>1, <3>2, <3>3
    <3> QED
      BY <2>1, <2>2, <2>3, <2>4, <3>1, <3>4
  <2>6. CASE u \notin freed
    BY <1>6, <2>1, <2>2, <2>3, <2>4, <2>6
  <2> QED
    BY <2>5, <2>6
<1>17. ASSUME NEW u \in Threads PROVE LateInv(u)'
  <2>1. CASE u \in freed
    <3>1. pc'[u] = "apply" /\ got'[u] = what[mine[u]]
      BY <1>6, <2>1
    <3>2. late[u] => what[mine[u]] # "clean"
      BY <1>5, <2>1
    <3> QED
      BY <3>1, <3>2 DEF LateInv
  <2>2. CASE u \notin freed
    BY <1>5, <1>6, <1>7, <2>2 DEF IInv, FreshInv, LateInv
  <2> QED
    BY <2>1, <2>2
<1>18. ASSUME NEW u \in Threads, NEW l \in Threads PROVE SharedInv(l, u)'
  <2>1. CASE l = t
    BY <1>8, <2>1 DEF SharedInv
  <2>2. CASE l # t
    <3>1. Chunk(l)' = Chunk(l) /\ Batched(l)' = Batched(l)
      BY <1>7, <1>8, <2>2 DEF Chunk, Following
    <3> SUFFICES ASSUME late[u], u = l \/ pc'[u] = "wait",
                        mine'[u] \in Batched(l)
                 PROVE  /\ result'[mine'[u]] # "clean"
                        /\ pc'[l] = "answered" /\ mine'[u] \in Chunk(l) =>
                             pkg[mine'[u]] \in answer'[l]
      BY <3>1 DEF SharedInv
    <3>2. batch[l] # <<>>
      <4>1. batch[l] \in Seq(Threads)
        BY <1>1 DEF TypeInv
      <4>2. Batched(l) # {}
        OBVIOUS
      <4> QED
        BY <4>1, <4>2, Elements DEF Batched
    <3>3. l \in Batched(l)
      BY <3>2 DEF IInv, BatchInv
    <3>4. l \notin freed /\ u \notin freed
      BY <1>6, <1>9, <2>2, <3>3
    <3>5. mine'[u] = mine[u] /\ pc'[u] = pc[u] /\ pc'[l] = pc[l]
      BY <1>6, <3>4
    <3>6. result'[mine[u]] = result[mine[u]] /\ answer'[l] = answer[l]
      BY <1>4, <1>6, <1>7, <1>9, <2>2, <3>5
    <3> QED
      BY <3>5, <3>6 DEF IInv, FreshInv, SharedInv
  <2> QED
    BY <2>1, <2>2
<1> QED
  BY <1>10, <1>11, <1>12, <1>13, <1>14, <1>15, <1>16, <1>17, <1>18
     DEF IInv, FreshInv

LEMMA BatchFailsInv ==
  ASSUME IInv, NEW t \in Threads, BatchFails(t)
  PROVE  IInv'
<1> DEFINE what == [u \in Threads |-> "error"]
<1>1. /\ TypeInv /\ batch[t] # <<>> /\ answer[t] \subseteq truth
      /\ \A p \in Packages : page[p] = "mal" => p \in truth
      /\ Batched(t) \subseteq Threads
  <2>1. TypeInv
    BY DEF IInv
  <2> QED
    BY <2>1, Elements DEF IInv, TypeInv, TruthInv, BatchFails, Batched
<1>2. PICK kept : page' = [p \in Packages |-> IF p \in kept THEN Finding(t, p)
                                                            ELSE page[p]]
  BY DEF BatchFails
<1>3. \A p \in Packages :
        Finding(t, p) \in Cached /\ (Finding(t, p) = "mal" => p \in truth)
  BY <1>1 DEF Finding, Cached, Findings
<1>4. /\ page' \in [Packages -> Cached]
      /\ \A p \in Packages : page'[p] = "mal" => p \in truth
  <2> HIDE DEF Finding
  <2> QED
    BY <1>1, <1>2, <1>3 DEF TypeInv
<1>5. /\ what \in [Threads -> Cached \cup {"error"}]
      /\ \A x \in Threads : what[x] = "error"
  OBVIOUS
<1>6. /\ SetEvents(t, what)
      /\ answer' = [answer EXCEPT ![t] = {}]
      /\ UNCHANGED <<truth, verdict, pkg, queue, active, late>>
  BY DEF BatchFails
<1> HIDE DEF what
<1>7. /\ \A x \in Batched(t) : what[x] # "mal"
      /\ \A u \in Threads : mine[u] \in Batched(t) => what[mine[u]] # "clean"
  BY <1>1, <1>5
<1> QED
  BY <1>1, <1>4, <1>5, <1>6, <1>7, SetEventsInv

LEMMA ReceiveChunkInv ==
  ASSUME IInv, NEW t \in Threads, ReceiveChunk(t)
  PROVE  IInv'
<1> DEFINE found == [u \in Threads |-> IF u \in Chunk(t)
                                       THEN Finding(t, pkg[u]) ELSE result[u]]
<1>1. /\ TypeInv /\ pc[t] = "answered" /\ batch[t] # <<>>
      /\ answer[t] \subseteq truth
      /\ \A p \in Packages : page[p] = "mal" => p \in truth
      /\ \A u \in Threads : result[u] = "mal" => pkg[u] \in truth
  BY DEF IInv, TruthInv, ReceiveChunk
<1>2. /\ page' = [p \in Packages |-> IF p \in Asked(t) THEN Finding(t, p)
                                                       ELSE page[p]]
      /\ answer' = [answer EXCEPT ![t] = {}]
      /\ UNCHANGED <<truth, verdict, pkg, queue, active, late>>
      /\ IF Resolved(t)
         THEN SetEvents(t, found)
         ELSE /\ result' = found
              /\ pc' = [pc EXCEPT ![t] = "gate"]
              /\ done' = [done EXCEPT ![t] = @ + BatchSize]
              /\ UNCHANGED <<batch, got, mine>>
  BY DEF ReceiveChunk
<1>3. \A p : /\ Finding(t, p) \in Findings
             /\ Finding(t, p) = "mal" => p \in truth
             /\ (p \in answer[t] => Finding(t, p) = "mal")
  BY <1>1 DEF Finding, Findings
<1>4. /\ page' \in [Packages -> Cached]
      /\ \A p \in Packages : page'[p] = "mal" => p \in truth
  <2> HIDE DEF Finding
  <2> QED
    BY <1>1, <1>2, <1>3 DEF TypeInv, Cached
<1>5. /\ Chunk(t) \subseteq Batched(t)
      /\ \A l \in Threads : Batched(l) \subseteq Threads
      /\ Queued \subseteq Threads
  <2>1. BatchSize \in Nat
    BY SizesAssumption
  <2> QED
    BY <1>1, <2>1, ChunkElements, Elements
       DEF TypeInv, Chunk, Batched, Queued
<1>6. /\ found \in [Threads -> Cached]
      /\ \A x \in Threads : found[x] = "mal" => pkg[x] \in truth
      /\ \A x \in Threads \ Chunk(t) : found[x] = result[x]
      /\ \A x \in Threads : x \in Chunk(t) => found[x] = Finding(t, pkg[x])
  <2> HIDE DEF Finding
  <2> QED
    BY <1>1, <1>3 DEF TypeInv, Cached
<1> HIDE DEF found
<1>7. ASSUME NEW u \in Threads, late[u], u = t \/ pc[u] = "wait",
             mine[u] \in Batched(t)
      PROVE  found[mine[u]] # "clean"
  <2>1. /\ result[mine[u]] # "clean"
        /\ mine[u] \in Chunk(t) => pkg[mine[u]] \in answer[t]
    BY <1>1, <1>7 DEF IInv, FreshInv, SharedInv
  <2> QED
    BY <1>3, <1>5, <1>6, <1>7, <2>1
<1>8. CASE Resolved(t)
  <2>1. found \in [Threads -> Cached \cup {"error"}]
    BY <1>6
  <2>2. \A x \in Batched(t) : found[x] = "mal" => pkg[x] \in truth
    BY <1>5, <1>6
  <2> QED
    BY <1>1, <1>2, <1>4, <1>7, <1>8, <2>1, <2>2, SetEventsInv
<1>9. CASE ~Resolved(t)
  <2>1. /\ result' = found
        /\ pc' = [pc EXCEPT ![t] = "gate"]
        /\ done' = [done EXCEPT ![t] = done[t] + BatchSize]
        /\ UNCHANGED <<batch, got, mine>>
    BY <1>2, <1>9
  <2>2. /\ pc'[t] = "gate" /\ \A u \in Threads \ {t} : pc'[u] = pc[u]
        /\ answer'[t] = {} /\ \A u \in Threads \ {t} : answer'[u] = answer[u]
        /\ \A u \in Threads \ {t} : done'[u] = done[u]
        /\ done'[t] = done[t] + BatchSize
    BY <1>1, <1>2, <2>1 DEF TypeInv
  <2>3. Queued' = Queued /\ \A l \in Threads : Batched(l)' = Batched(l)
    BY <1>2, <2>1 DEF Queued, Batched
  <2>4. /\ \A x \in Queued : x \notin Chunk(t) /\ result'[x] = result[x]
        /\ \A l \in Threads \ {t} : \A x \in Batched(l) :
             x \notin Chunk(t) /\ result'[x] = result[x]
    BY <1>5, <1>6, <2>1 DEF IInv, DisjointInv
  <2>5. TypeInv'
    <3>1. pc' \in [Threads -> Steps]
      BY <1>1, <2>1 DEF TypeInv, Steps
    <3>2. done[t] \in Nat /\ BatchSize \in Nat /\ Len(batch[t]) \in Nat
      BY <1>1, SizesAssumption, LenProperties DEF TypeInv
    <3>3. done' \in [Threads -> Nat]
      BY <1>1, <2>1, <3>2 DEF TypeInv
    <3>4. done'[t] < Len(batch[t])
      BY <1>9, <2>2, <3>2 DEF Resolved
    <3>5. \A u \in Threads : done'[u] < Len(batch'[u]) \/ done'[u] = 0
      BY <1>1, <2>1, <2>2, <3>4 DEF TypeInv
    <3>6. answer' \in [Threads -> SUBSET Packages]
      BY <1>1, <1>2 DEF TypeInv
    <3>7. \A u \in Threads : /\ pc'[u] # "idle" => pkg[u] \in Packages
                             /\ pc'[u] = "store" => got[u] \in Findings
      BY <1>1, <2>2 DEF TypeInv
    <3> QED
      BY <1>1, <1>2, <1>4, <1>6, <2>1, <3>1, <3>3, <3>5, <3>6, <3>7
         DEF TypeInv
  <2>6. QueueInv'
    BY <1>1, <1>2, <1>5, <2>1, <2>2, <2>3, <2>4 DEF IInv, QueueInv
  <2>7. LeadInv' /\ DisjointInv'
    BY <1>1, <1>2, <2>2, <2>3 DEF IInv, LeadInv, DisjointInv
  <2>8. BatchInv'
    BY <1>1, <1>5, <2>1, <2>2, <2>3 DEF IInv, BatchInv
  <2>9. WaitInv'
    BY <1>1, <1>2, <2>1, <2>2, <2>3 DEF IInv, WaitInv
  <2>10. TruthInv'
    <3> SUFFICES ASSUME NEW u \in Threads
                 PROVE  /\ got[u] = "mal" \/ result'[u] = "mal" \/ late[u] =>
                              pkg[u] \in truth
                        /\ answer'[u] \subseteq truth
                        /\ result'[u] # "none" =>
                              \E l \in Threads : u \in Batched(l)
                        /\ got[u] # "none" => pc'[u] \in
                              {"apply", "gate", "sent", "answered", "store"}
      BY <1>2, <1>4, <2>1, <2>3 DEF IInv, TruthInv
    <3>1. /\ got[u] = "mal" \/ late[u] => pkg[u] \in truth
          /\ answer[u] \subseteq truth
          /\ result[u] # "none" => \E l \in Threads : u \in Batched(l)
          /\ got[u] # "none" =>
               pc[u] \in {"apply", "gate", "sent", "answered", "store"}
      BY DEF IInv, TruthInv
    <3>2. result'[u] # "none" => \E l \in Threads : u \in Batched(l)
      BY <1>5, <1>6, <2>1, <3>1
    <3>3. answer'[u] \subseteq truth
      BY <2>2, <3>1
    <3>4. result'[u] = "mal" => pkg[u] \in truth
      BY <1>6, <2>1
    <3>5. got[u] # "none" =>
            pc'[u] \in {"apply", "gate", "sent", "answered", "store"}
      BY <2>2, <3>1
    <3> QED
      BY <3>1, <3>2, <3>3, <3>4, <3>5
  <2>11. ASSUME NEW u \in Threads PROVE LateInv(u)'
    <3>1. CASE u = t
      BY <2>2, <3>1 DEF LateInv
    <3>2. CASE u # t
      BY <1>2, <2>1, <2>2, <3>2 DEF IInv, FreshInv, LateInv
    <3> QED
      BY <3>1, <3>2
  <2>12. ASSUME NEW u \in Threads, NEW l \in Threads PROVE SharedInv(l, u)'
    <3>1. u = l \/ pc'[u] = "wait" => u = l \/ pc[u] = "wait"
      BY <2>2
    <3>2. CASE l = t
      BY <1>2, <1>7, <2>1, <2>2, <2>3, <3>1, <3>2 DEF SharedInv
    <3>3. CASE l # t
      <4>1. Chunk(l)' = Chunk(l)
        BY <2>1, <2>2, <3>3 DEF Chunk, Following
      <4> QED
        BY <1>2, <2>1, <2>2, <2>3, <2>4, <3>1, <3>3, <4>1
           DEF IInv, FreshInv, SharedInv
    <3> QED
      BY <3>2, <3>3
  <2> QED
    BY <2>5, <2>6, <2>7, <2>8, <2>9, <2>10, <2>11, <2>12 DEF IInv, FreshInv
<1> QED
  BY <1>8, <1>9

-----------------------------------------------------------------------------
(* The theorems *)

LEMMA NextIInv == IInv /\ [Next]_vars => IInv'
<1> SUFFICES ASSUME IInv, [Next]_vars PROVE IInv'
  OBVIOUS
<1>1. ASSUME NEW p \in Packages,
             MalPublished(p) \/ VerdictExpires(p) \/ PageExpires(p)
      PROVE  IInv'
  BY <1>1, OutsideWorldInv
<1>2. ASSUME NEW t \in Threads, NEW p \in Packages, Request(t, p)
      PROVE  IInv'
  BY <1>2, RequestInv
<1>3. ASSUME NEW t \in Threads, Step(t) PROVE IInv'
  <2>1. CASE PageHit(t) \/ PageMiss(t)
    BY <2>1, PageInv
  <2>2. CASE Enqueue(t)
    BY <2>2, EnqueueInv
  <2>3. CASE TakeBatch(t)
    BY <2>3, TakeBatchInv
  <2>4. CASE OsvAnswers(t)
    BY <2>4, CallInv
  <2>5. CASE ReceiveChunk(t)
    BY <2>5, ReceiveChunkInv
  <2>6. CASE BatchFails(t)
    BY <2>6, BatchFailsInv
  <2>7. CASE ApplyPage(t)
    BY <2>7, ApplyPageInv
  <2>8. CASE ReceiveSingle(t)
    BY <2>8, ReceiveSingleInv
  <2>9. CASE ApplyError(t) \/ SingleFails(t) \/ StoreVerdict(t)
    BY <2>9, EndInv
  <2> QED
    BY <1>3, <2>1, <2>2, <2>3, <2>4, <2>5, <2>6, <2>7, <2>8, <2>9 DEF Step
<1>4. ASSUME NEW t \in Threads, Acquire(t) PROVE IInv'
  BY <1>4, CallInv
<1>5. CASE UNCHANGED vars
  <2>1. TypeInv' /\ truth' \subseteq Packages
    BY <1>5 DEF IInv, TypeInv, vars, caches, batching
  <2> QED
    BY <1>5, <2>1, WorldInv DEF vars, caches, batching
<1> QED
  BY <1>1, <1>2, <1>3, <1>4, <1>5 DEF Next

THEOREM Invariance == Spec => []IInv
<1>1. Init => IInv
  BY InitIInv
<1>2. IInv /\ [Next]_vars => IInv'
  BY NextIInv
<1> QED
  BY <1>1, <1>2, PTL DEF Spec

\* Every variable has its type: as a query is queued once, the queue holds no
\* more of them than there are threads.
THEOREM TypeCorrect == Spec => []TypeOK
<1>1. ASSUME IInv PROVE Len(queue) <= Cardinality(Threads)
  <2>1. /\ queue \in Seq(Threads) /\ Len(queue) \in Nat
        /\ queue \in [1..Len(queue) -> Threads]
    BY <1>1, LenProperties DEF IInv, TypeInv
  <2>2. IsFiniteSet(1..Len(queue)) /\ Cardinality(1..Len(queue)) = Len(queue)
    BY <2>1, FS_Interval
  <2>3. IsFiniteSet(Threads) /\ Cardinality(Threads) \in Nat
    BY ThreadsAssumption, FS_CardinalityType
  <2>4. ASSUME Cardinality(Threads) < Len(queue) PROVE FALSE
    <3>1. \E i, j \in 1..Len(queue) : i # j /\ queue[i] = queue[j]
      BY <2>1, <2>2, <2>3, <2>4, FS_PigeonHole
    <3> QED
      BY <1>1, <3>1 DEF IInv, QueueInv
  <2> QED
    BY <2>1, <2>3, <2>4
<1>2. IInv => TypeOK
  BY <1>1 DEF IInv, TypeInv, TypeOK
<1> QED
  BY <1>2, Invariance, PTL

\* A waiting thread's query is queued while somebody leads, or in a batch that
\* is being resolved.
THEOREM NoWaiterForgottenHolds == Spec => []NoWaiterForgotten
<1>1. ASSUME IInv, NEW t \in Threads, batch[t] # <<>>
      PROVE  mine[t] \in Batched(t)
  BY <1>1 DEF IInv, BatchInv
<1>2. IInv => NoWaiterForgotten
  BY <1>1 DEF IInv, WaitInv, LeadInv, NoWaiterForgotten, Queued, Batched
<1> QED
  BY <1>2, Invariance, PTL

\* What a cache or a thread takes for malicious is.
THEOREM NoFalseBlockHolds == Spec => []NoFalseBlock
<1>1. IInv => NoFalseBlock
  BY DEF IInv, TruthInv, NoFalseBlock
<1> QED
  BY <1>1, Invariance, PTL

\* A late request that no cache answers is blocked unless OSV fails, however
\* its query was shared and batched.
THEOREM SharedAnswersAreFreshHolds == Spec => []SharedAnswersAreFresh
<1>1. IInv => SharedAnswersAreFresh
  BY DEF IInv, FreshInv, LateInv, SharedAnswersAreFresh
<1> QED
  BY <1>1, Invariance, PTL

-----------------------------------------------------------------------------
(* Nobody gets stuck *)

\* Whoever goes on has been told something, and the queries of the chunks that
\* are done have their results.
ToldInv ==
  /\ \A t \in Threads : pc[t] = "apply" => got[t] # "none"
  /\ \A l \in Threads : \A i \in 1..done[l] : result[batch[l][i]] # "none"

\* Thread t can take its next step now; cf. Step and Acquire.
CanMove(t) ==
  \/ pc[t] \in {"page", "enqueue", "gather", "sent", "answered", "store"}
  \/ pc[t] = "gate" /\ Cardinality(InFlight) < MaxConcurrency
  \/ pc[t] = "apply" /\ got[t] # "none"

LEMMA BatchElements ==
  ASSUME TypeInv, NEW l \in Threads
  PROVE  /\ Batched(l) = {batch[l][i] : i \in 1..Len(batch[l])}
         /\ Batched(l) \subseteq Threads
         /\ Len(batch[l]) \in Nat /\ done[l] \in Nat
         /\ done[l] <= Len(batch[l])
         /\ \A i \in 1..done[l] : batch[l][i] \in Batched(l)
<1>1. /\ batch[l] \in Seq(Threads) /\ done[l] \in Nat
      /\ done[l] < Len(batch[l]) \/ done[l] = 0
  BY DEF TypeInv
<1>2. Len(batch[l]) \in Nat
  BY <1>1, LenProperties
<1>3. /\ Batched(l) = {batch[l][i] : i \in 1..Len(batch[l])}
      /\ Batched(l) \subseteq Threads
  BY <1>1, Elements DEF Batched
<1> QED
  BY <1>1, <1>2, <1>3

\* A step that leaves the batches alone.
LEMMA ToldFrame ==
  ASSUME IInv, ToldInv, UNCHANGED <<batch, done>>,
         \A u \in Threads : pc'[u] = "apply" => got'[u] # "none",
         \A l \in Threads : \A x \in Batched(l) : result'[x] = result[x]
  PROVE  ToldInv'
<1>1. TypeInv
  BY DEF IInv
<1>2. ASSUME NEW l \in Threads, NEW i \in 1..done[l]
      PROVE  result'[batch[l][i]] # "none"
  BY <1>1, BatchElements DEF ToldInv
<1> QED
  BY <1>2 DEF ToldInv

\* The end of a batch: all its queries have an outcome.
LEMMA ToldBySetEvents ==
  ASSUME IInv, ToldInv, NEW t \in Threads, batch[t] # <<>>, NEW what,
         SetEvents(t, what), \A x \in Batched(t) : what[x] # "none"
  PROVE  ToldInv'
<1> DEFINE freed == {t} \cup {u \in Threads : pc[u] = "wait"
                                              /\ mine[u] \in ToSet(batch[t])}
<1>1. TypeInv
  BY DEF IInv
<1>2. /\ pc' = [u \in Threads |-> IF u \in freed THEN "apply" ELSE pc[u]]
      /\ got' = [u \in Threads |-> IF u \in freed THEN what[mine[u]]
                                   ELSE got[u]]
      /\ result' = [u \in Threads |-> IF u \in Batched(t) THEN "none"
                                      ELSE result[u]]
      /\ batch' = [batch EXCEPT ![t] = <<>>]
      /\ done' = [done EXCEPT ![t] = 0]
  BY DEF SetEvents, OutcomeFor, Batched
<1>3. \A u \in freed : mine[u] \in Batched(t)
  BY DEF IInv, BatchInv, Batched
<1> HIDE DEF freed
<1>4. ASSUME NEW u \in Threads, pc'[u] = "apply" PROVE got'[u] # "none"
  BY <1>2, <1>3, <1>4 DEF ToldInv
<1>5. ASSUME NEW l \in Threads, NEW i \in 1..done'[l]
      PROVE  result'[batch'[l][i]] # "none"
  <2>1. l # t
    BY <1>1, <1>2 DEF TypeInv
  <2>2. batch'[l] = batch[l] /\ done'[l] = done[l]
    BY <1>1, <1>2, <2>1 DEF TypeInv
  <2>3. batch[l][i] \in Batched(l) /\ batch[l][i] \in Threads
    BY <1>1, <2>2, BatchElements
  <2>4. batch[l][i] \notin Batched(t)
    BY <2>1, <2>3 DEF IInv, DisjointInv
  <2>5. result[batch[l][i]] # "none"
    BY <2>2 DEF ToldInv
  <2> QED
    BY <1>2, <2>2, <2>3, <2>4, <2>5
<1> QED
  BY <1>4, <1>5 DEF ToldInv

LEMMA ToldByReceiveChunk ==
  ASSUME IInv, ToldInv, NEW t \in Threads, ReceiveChunk(t)
  PROVE  ToldInv'
<1> DEFINE found == [u \in Threads |-> IF u \in Chunk(t)
                                       THEN Finding(t, pkg[u]) ELSE result[u]]
<1>1. TypeInv /\ batch[t] # <<>> /\ pc[t] = "answered"
  BY DEF IInv, ReceiveChunk
<1>2. /\ BatchSize \in Nat /\ BatchSize > 0
      /\ Batched(t) = {batch[t][i] : i \in 1..Len(batch[t])}
      /\ \A l \in Threads : Batched(l) \subseteq Threads
      /\ Len(batch[t]) \in Nat /\ done[t] \in Nat
  BY <1>1, BatchElements, SizesAssumption
<1>3. \A p : Finding(t, p) # "none"
  BY DEF Finding
<1>4. ASSUME NEW i \in 1..Len(batch[t]), i <= done[t] + BatchSize
      PROVE  found[batch[t][i]] # "none"
  <2>1. batch[t][i] \in Threads
    BY <1>2
  <2>2. CASE batch[t][i] \in Chunk(t)
    BY <1>3, <2>1, <2>2
  <2>3. CASE batch[t][i] \notin Chunk(t)
    <3>1. ~(done[t] < i)
      BY <1>1, <1>2, <1>4, <2>3, FollowingElements DEF Chunk
    <3>2. i \in 1..done[t]
      BY <1>2, <3>1
    <3> QED
      BY <2>1, <2>3, <3>2 DEF ToldInv
  <2> QED
    BY <2>2, <2>3
<1>5. IF Resolved(t)
      THEN SetEvents(t, found)
      ELSE /\ result' = found
           /\ pc' = [pc EXCEPT ![t] = "gate"]
           /\ done' = [done EXCEPT ![t] = @ + BatchSize]
           /\ UNCHANGED <<batch, got, mine>>
  BY DEF ReceiveChunk
<1>6. Chunk(t) \subseteq Batched(t)
  BY <1>1, <1>2, ChunkElements DEF Chunk
<1>7. \A x \in Threads \ Batched(t) : found[x] = result[x]
  BY <1>6
<1> HIDE DEF found
<1>8. CASE Resolved(t)
  <2>1. \A i \in 1..Len(batch[t]) : i <= done[t] + BatchSize
    BY <1>2, <1>8 DEF Resolved
  <2>2. \A x \in Batched(t) : found[x] # "none"
    BY <1>2, <1>4, <2>1
  <2> QED
    BY <1>1, <1>5, <1>8, <2>2, ToldBySetEvents
<1>9. CASE ~Resolved(t)
  <2>1. /\ result' = found /\ batch' = batch /\ got' = got
        /\ pc' = [pc EXCEPT ![t] = "gate"]
        /\ done' = [done EXCEPT ![t] = @ + BatchSize]
    BY <1>5, <1>9
  <2>2. /\ done'[t] = done[t] + BatchSize
        /\ \A l \in Threads \ {t} : done'[l] = done[l]
        /\ done[t] + BatchSize < Len(batch[t])
    BY <1>1, <1>2, <1>9, <2>1 DEF TypeInv, Resolved
  <2>3. ASSUME NEW u \in Threads, pc'[u] = "apply" PROVE got'[u] # "none"
    BY <1>1, <2>1, <2>3 DEF ToldInv, TypeInv
  <2>4. ASSUME NEW i \in 1..done'[t] PROVE found[batch[t][i]] # "none"
    BY <1>2, <1>4, <2>2
  <2>5. ASSUME NEW l \in Threads \ {t}, NEW i \in 1..done[l]
        PROVE  found[batch[l][i]] # "none"
    <3>1. batch[l][i] \in Batched(l) /\ batch[l][i] \in Threads
      BY <1>1, BatchElements
    <3>2. batch[l][i] \notin Batched(t)
      BY <3>1 DEF IInv, DisjointInv
    <3> QED
      BY <1>7, <3>1, <3>2 DEF ToldInv
  <2> QED
    BY <2>1, <2>2, <2>3, <2>4, <2>5 DEF ToldInv
<1> QED
  BY <1>8, <1>9

\* The steps of one thread that touch no batch.
LEMMA ToldByOwnStep ==
  ASSUME IInv, ToldInv, NEW t \in Threads,
         \/ PageHit(t) \/ PageMiss(t) \/ Enqueue(t) \/ Acquire(t)
         \/ OsvAnswers(t) \/ ApplyPage(t) \/ ApplyError(t)
         \/ ReceiveSingle(t) \/ SingleFails(t) \/ StoreVerdict(t)
         \/ \E p \in Packages : Request(t, p)
  PROVE  ToldInv'
<1>1. TypeInv
  BY DEF IInv
<1>2. UNCHANGED <<batch, done>>
  BY DEF PageHit, PageMiss, Enqueue, Acquire, OsvAnswers, ApplyPage,
         ApplyError, ReceiveSingle, SingleFails, StoreVerdict, Request,
         batching
<1>3. /\ \A u \in Threads \ {t} : pc'[u] = pc[u] /\ got'[u] = got[u]
      /\ \A u \in Threads \ {t} : result'[u] = result[u]
  BY <1>1 DEF TypeInv, PageHit, PageMiss, Enqueue, Acquire, OsvAnswers,
         ApplyPage, ApplyError, ReceiveSingle, SingleFails, StoreVerdict,
         Request, Reply
<1>4. pc'[t] = "apply" => got'[t] # "none"
  BY <1>1 DEF TypeInv, PageHit, PageMiss, Enqueue, Acquire, OsvAnswers,
         ApplyPage, ApplyError, ReceiveSingle, SingleFails, StoreVerdict,
         Request, Reply
<1>5. \A l \in Threads : Batched(l) \subseteq Threads
  BY <1>1, BatchElements
<1>6. result'[t] = result[t] \/ \A l \in Threads : t \notin Batched(l)
  <2>1. CASE Enqueue(t)
    <3>1. pc[t] = "enqueue"
      BY <2>1 DEF Enqueue
    <3>2. batch[t] = <<>>
      BY <3>1 DEF IInv, BatchInv
    <3> QED
      BY <3>1, <3>2, Outside
  <2>2. CASE ApplyError(t) \/ SingleFails(t) \/ StoreVerdict(t)
    <3>1. pc[t] \in {"apply", "sent", "answered", "store"} /\ batch[t] = <<>>
      BY <2>2 DEF ApplyError, SingleFails, StoreVerdict, IInv, BatchInv
    <3> QED
      BY <3>1, Outside
  <2>3. CASE ~(Enqueue(t) \/ ApplyError(t) \/ SingleFails(t)
                 \/ StoreVerdict(t))
    BY <2>3 DEF PageHit, PageMiss, Acquire, OsvAnswers, ApplyPage,
           ReceiveSingle, Request
  <2> QED
    BY <2>1, <2>2, <2>3
<1>7. \A u \in Threads : pc'[u] = "apply" => got'[u] # "none"
  BY <1>3, <1>4 DEF ToldInv
<1>8. \A l \in Threads : \A x \in Batched(l) : result'[x] = result[x]
  BY <1>3, <1>5, <1>6
<1> QED
  BY <1>2, <1>7, <1>8, ToldFrame

LEMMA NextToldInv == IInv /\ ToldInv /\ [Next]_vars => ToldInv'
<1> SUFFICES ASSUME IInv, ToldInv, [Next]_vars PROVE ToldInv'
  OBVIOUS
<1>1. ASSUME NEW p \in Packages,
             MalPublished(p) \/ VerdictExpires(p) \/ PageExpires(p)
      PROVE  ToldInv'
  BY <1>1 DEF MalPublished, VerdictExpires, PageExpires, ToldInv, batching
<1>2. ASSUME NEW t \in Threads, NEW p \in Packages, Request(t, p)
      PROVE  ToldInv'
  BY <1>2, ToldByOwnStep
<1>3. ASSUME NEW t \in Threads, Step(t) PROVE ToldInv'
  <2>1. CASE TakeBatch(t)
    <3>1. /\ batch' = [batch EXCEPT ![t] = queue]
          /\ done' = [done EXCEPT ![t] = 0]
          /\ pc' = [pc EXCEPT ![t] = "gate"]
          /\ UNCHANGED <<result, got>>
      BY <2>1 DEF TakeBatch
    <3>2. TypeInv
      BY DEF IInv
    <3>3. \A u \in Threads : pc'[u] = "apply" => pc[u] = "apply"
      BY <3>1, <3>2 DEF TypeInv
    <3>4. /\ done'[t] = 0
          /\ \A l \in Threads \ {t} :
               done'[l] = done[l] /\ batch'[l] = batch[l]
      BY <3>1, <3>2 DEF TypeInv
    <3> QED
      BY <3>1, <3>3, <3>4 DEF ToldInv
  <2>2. CASE ReceiveChunk(t)
    BY <2>2, ToldByReceiveChunk
  <2>3. CASE BatchFails(t)
    <3> DEFINE what == [u \in Threads |-> "error"]
    <3>1. batch[t] # <<>> /\ SetEvents(t, what)
      BY <2>3 DEF BatchFails
    <3>2. \A x \in Batched(t) : what[x] # "none"
      BY BatchElements DEF IInv
    <3> HIDE DEF what
    <3> QED
      BY <3>1, <3>2, ToldBySetEvents
  <2>4. CASE ~(TakeBatch(t) \/ ReceiveChunk(t) \/ BatchFails(t))
    BY <1>3, <2>4, ToldByOwnStep DEF Step
  <2> QED
    BY <2>1, <2>2, <2>3, <2>4
<1>4. ASSUME NEW t \in Threads, Acquire(t) PROVE ToldInv'
  BY <1>4, ToldByOwnStep
<1>5. CASE UNCHANGED vars
  BY <1>5 DEF ToldInv, vars
<1> QED
  BY <1>1, <1>2, <1>3, <1>4, <1>5 DEF Next

LEMMA SomebodyCanMove ==
  ASSUME IInv, ToldInv, NEW t \in Threads, pc[t] # "idle"
  PROVE  \E u \in Threads : CanMove(u)
<1>1. TypeInv
  BY DEF IInv
<1>2. ASSUME NEW l \in Threads, pc[l] = "gate"
      PROVE  \E u \in Threads : CanMove(u)
  <2>1. InFlight \subseteq Threads
    BY DEF InFlight
  <2>2. IsFiniteSet(InFlight)
    BY <2>1, FS_Subset, ThreadsAssumption
  <2>3. CASE InFlight = {}
    <3>1. Cardinality(InFlight) < MaxConcurrency
      BY <2>3, FS_EmptySet, SizesAssumption
    <3> QED
      BY <1>2, <3>1 DEF CanMove
  <2>4. CASE InFlight # {}
    <3>1. PICK u \in Threads : pc[u] \in {"sent", "answered"}
      BY <2>4 DEF InFlight
    <3> QED
      BY <3>1 DEF CanMove
  <2> QED
    BY <2>3, <2>4
<1>3. CASE pc[t] = "wait"
  <2>1. mine[t] \in Queued \/ \E l \in Threads : mine[t] \in Batched(l)
    BY <1>3 DEF IInv, WaitInv
  <2>2. CASE mine[t] \in Queued
    <3>1. queue # <<>>
      BY <1>1, <2>2, Elements DEF TypeInv, Queued
    <3>2. PICK l \in Threads : pc[l] = "gather"
      BY <3>1 DEF IInv, LeadInv
    <3> QED
      BY <3>2 DEF CanMove
  <2>3. CASE \E l \in Threads : mine[t] \in Batched(l)
    <3>1. PICK l \in Threads : mine[t] \in Batched(l)
      BY <2>3
    <3>2. batch[l] # <<>>
      BY <1>1, <3>1, Elements DEF TypeInv, Batched
    <3>3. pc[l] \in {"gate", "sent", "answered"}
      BY <3>2 DEF IInv, BatchInv
    <3> QED
      BY <1>2, <3>3 DEF CanMove
  <2> QED
    BY <2>1, <2>2, <2>3
<1>4. CASE pc[t] # "wait"
  <2>1. pc[t] \in Steps
    BY <1>1 DEF TypeInv
  <2> QED
    BY <1>2, <1>4, <2>1 DEF CanMove, ToldInv, Steps
<1> QED
  BY <1>3, <1>4

\* No thread goes on with nothing: when its event is set, its query has a
\* result or an error, however the batch is cut into chunks.  The check that
\* pending.result is a dict never fails.
THEOREM NobodyIsToldNothing == Spec => []ToldInv
<1>1. Init => ToldInv
  BY DEF Init, ToldInv
<1>2. IInv /\ ToldInv /\ [Next]_vars => ToldInv'
  BY NextToldInv
<1> QED
  BY <1>1, <1>2, Invariance, PTL DEF Spec

\* The batches and the semaphore never leave everybody waiting: while a request
\* is open, some thread can take its next step, whoever leads, whatever failed
\* and however few permits there are.
THEOREM NobodyIsStuck ==
  Spec => []((\E t \in Threads : pc[t] # "idle") =>
               \E u \in Threads : CanMove(u))
<1>1. IInv /\ ToldInv => ((\E t \in Threads : pc[t] # "idle") =>
                            \E u \in Threads : CanMove(u))
  BY SomebodyCanMove
<1> QED
  BY <1>1, Invariance, NobodyIsToldNothing, PTL
=============================================================================
