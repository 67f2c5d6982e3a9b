------------------------- MODULE PolicyLoaderProofs -------------------------
(***************************************************************************)
(* PolicyLoader is type-correct and keeps its safety promises for any set  *)
(* of loaders and documents and any poll, timeout and grace periods.       *)
(***************************************************************************)
EXTENDS PolicyLoader, TLAPS

Requests == [phase : {"idle", "sent", "answered"}, etag : Docs \cup {None},
             age : 0..Timeout, answer : Docs \cup {None, NotModified}]

\* What an endpoint serves, it served no time ago.
ServedInv == \A l \in Loaders : served[l] # None => since[l][served[l]] = 0

\* An answer is of a document served no longer ago than the request is old; a
\* 304 is of the one in force.
AnswerInv(l) ==
  req[l].phase = "answered" =>
    /\ req[l].answer \in Docs => since[l][req[l].answer] <= req[l].age
    /\ req[l].answer = NotModified =>
         doc[l] # None /\ since[l][doc[l]] <= req[l].age
IdleInv(l) ==
  req[l].phase # "answered" => req[l].answer = None

\* How long ago the policy in force may have ceased to be served.
DocInv(l) ==
  doc[l] # None =>
    /\ failing[l] # NotFailing =>
         since[l][doc[l]] <= Timeout + Poll + Timeout + failing[l]
    /\ failing[l] = NotFailing =>
         since[l][doc[l]] <= Timeout + (IF req[l].phase = "idle" THEN timer
                                        ELSE Poll + req[l].age)

\* A loader has been failing no longer than without success.
QuietInv(l) == failing[l] # NotFailing => failing[l] <= quiet[l]

LoaderInv(l) == AnswerInv(l) /\ IdleInv(l) /\ DocInv(l) /\ QuietInv(l)

IInv ==
  /\ TypeOK /\ ServedInv /\ EtagIsOfPolicy
  /\ \A l \in Loaders : LoaderInv(l)
-----------------------------------------------------------------------------

\* The types of what the proofs calculate with.
LEMMA Times ==
  ASSUME TypeOK
  PROVE  /\ Timeout \in Nat /\ Poll \in Nat /\ Grace \in Nat
         /\ Timeout >= Poll /\ Poll >= 1 /\ Grace >= 1
         /\ Staleness \in Nat /\ Staleness = 2 * Timeout + Poll + Grace
         /\ timer \in Nat /\ timer <= Poll
         /\ \A l \in Loaders :
              /\ req[l] \in Requests /\ req[l].age \in Nat
              /\ req[l].age <= Timeout
              /\ quiet[l] \in Nat /\ quiet[l] <= Grace
              /\ failing[l] # NotFailing =>
                   failing[l] \in Nat /\ failing[l] <= Grace
              /\ \A d \in Docs :
                   since[l][d] \in Nat /\ since[l][d] <= Staleness
<1>1. /\ Timeout \in Nat /\ Poll \in Nat /\ Grace \in Nat
      /\ Timeout >= Poll /\ Poll >= 1 /\ Grace >= 1
  BY TimesAssumption
<1>2. Staleness \in Nat /\ Staleness = 2 * Timeout + Poll + Grace
  BY <1>1 DEF Staleness
<1>3. timer \in Nat /\ timer <= Poll
  BY <1>1 DEF TypeOK
<1>4. ASSUME NEW l \in Loaders
      PROVE  /\ req[l] \in Requests /\ req[l].age \in Nat
             /\ req[l].age <= Timeout
             /\ quiet[l] \in Nat /\ quiet[l] <= Grace
             /\ failing[l] # NotFailing =>
                  failing[l] \in Nat /\ failing[l] <= Grace
             /\ \A d \in Docs :
                  since[l][d] \in Nat /\ since[l][d] <= Staleness
  BY <1>1, <1>2 DEF TypeOK, Requests
<1> QED
  BY <1>1, <1>2, <1>3, <1>4

\* A loader to which nothing happens.
LEMMA Undisturbed ==
  ASSUME NEW l \in Loaders, LoaderInv(l),
         UNCHANGED <<timer, req[l], doc[l], failing[l], since[l], quiet[l]>>
  PROVE  LoaderInv(l)'
  BY DEF LoaderInv, AnswerInv, IdleInv, DocInv, QuietInv

LEMMA IdleRequest ==
  /\ Idle \in Requests /\ Idle.phase = "idle"
  /\ Idle.answer = None /\ Idle.age = 0
  BY TimesAssumption DEF Idle, Requests

LEMMA SentRequest ==
  ASSUME NEW e \in Docs \cup {None}
  PROVE  LET new == [Idle EXCEPT !.phase = "sent", !.etag = e] IN
         /\ new \in Requests /\ new.phase = "sent" /\ new.etag = e
         /\ new.answer = None /\ new.age = 0
  BY IdleRequest DEF Requests

LEMMA InitIInv == Init => IInv
<1> SUFFICES ASSUME Init PROVE IInv
  OBVIOUS
<1>1. ASSUME NEW l \in Loaders
      PROVE  /\ req[l] \in Requests /\ req[l].phase = "sent"
             /\ req[l].etag = None /\ req[l].answer = None
  BY IdleRequest DEF Init, Requests, Idle
<1>2. req \in [Loaders -> Requests]
  BY <1>1 DEF Init
<1>3. Staleness \in 0..Staleness /\ Grace \in 0..Grace /\ 0 \in 0..Poll
  BY TimesAssumption DEF Staleness
<1>4. TypeOK
  BY <1>2, <1>3 DEF Init, TypeOK, Requests
<1>5. ServedInv /\ EtagIsOfPolicy
  BY <1>1, DocsAssumption DEF Init, ServedInv, EtagIsOfPolicy
<1>6. \A l \in Loaders : LoaderInv(l)
  BY <1>1 DEF Init, LoaderInv, AnswerInv, IdleInv, DocInv, QuietInv
<1> QED
  BY <1>4, <1>5, <1>6 DEF IInv

LEMMA PublishInv ==
  ASSUME IInv, NEW l \in Loaders, NEW d \in Docs \cup {None}, Publish(l, d)
  PROVE  IInv'
<1>1. /\ served' = [served EXCEPT ![l] = d]
      /\ since' = IF d = None THEN since ELSE [since EXCEPT ![l][d] = 0]
      /\ UNCHANGED <<timer, req, etag, doc, failing, quiet, calm>>
  BY DEF Publish
<1>2. TypeOK
  BY DEF IInv
<1>3. Staleness \in Nat
  BY <1>2, Times
<1>4. since' \in [Loaders -> [Docs -> 0..Staleness]]
  BY <1>1, <1>2, <1>3 DEF TypeOK
<1>5. TypeOK'
  BY <1>1, <1>2, <1>4 DEF TypeOK
<1>6. \A u \in Loaders : \A e \in Docs :
        since'[u][e] = IF u = l /\ e = d THEN 0 ELSE since[u][e]
  BY <1>1, <1>2, DocsAssumption DEF TypeOK
<1>7. ServedInv'
  BY <1>1, <1>2, <1>6, DocsAssumption DEF IInv, TypeOK, ServedInv
<1>8. EtagIsOfPolicy'
  BY <1>1 DEF IInv, EtagIsOfPolicy
<1>9. ASSUME NEW u \in Loaders PROVE LoaderInv(u)'
  <2>1. LoaderInv(u) /\ doc[u] \in Docs \cup {None}
    BY DEF IInv, TypeOK
  <2>2. \A e \in Docs : since'[u][e] \in Nat /\ since'[u][e] <= since[u][e]
    BY <1>2, <1>6, Times
  <2>3. \A e \in Docs : since[u][e] \in Nat
    BY <1>2, Times
  <2>4. /\ Timeout \in Nat /\ Poll \in Nat /\ timer \in Nat
        /\ req[u].age \in Nat
        /\ failing[u] # NotFailing => failing[u] \in Nat
    BY <1>2, Times
  <2>5. AnswerInv(u)' /\ IdleInv(u)'
    BY <1>1, <2>1, <2>2, <2>3, <2>4 DEF LoaderInv, AnswerInv, IdleInv
  <2>6. DocInv(u)' /\ QuietInv(u)'
    BY <1>1, <2>1, <2>2, <2>3, <2>4 DEF LoaderInv, DocInv, QuietInv
  <2> QED
    BY <2>5, <2>6 DEF LoaderInv
<1> QED
  BY <1>5, <1>7, <1>8, <1>9 DEF IInv

LEMMA RespondInv ==
  ASSUME IInv, NEW l \in Loaders, Answer(l)
  PROVE  IInv'
<1> DEFINE answer == IF served[l] # None /\ req[l].etag = served[l]
                     THEN NotModified ELSE served[l]
           new == [req[l] EXCEPT !.phase = "answered", !.etag = None,
                                 !.answer = answer]
<1>1. TypeOK /\ req[l].phase = "sent" /\ LoaderInv(l)
  BY DEF IInv, Answer
<1>2. req' = [req EXCEPT ![l] = new]
      /\ UNCHANGED <<served, timer, etag, doc, failing, since, quiet, calm>>
  BY <1>1 DEF Answer, TypeOK
<1>3. answer \in Docs \cup {None, NotModified}
  BY <1>1 DEF TypeOK
<1>4. req[l] \in Requests
  BY <1>1, Times
<1>5. /\ new \in Requests /\ new.phase = "answered" /\ new.answer = answer
      /\ new.age = req[l].age
  BY <1>3, <1>4 DEF Requests
<1>6. req' \in [Loaders -> Requests] /\ req'[l] = new
  BY <1>1, <1>2, <1>5 DEF TypeOK, Requests
<1>7. TypeOK'
  BY <1>1, <1>2, <1>6 DEF TypeOK, Requests
<1>8. ServedInv' /\ EtagIsOfPolicy'
  BY <1>1, <1>2, <1>5, <1>6 DEF IInv, TypeOK, ServedInv, EtagIsOfPolicy
<1>9. AnswerInv(l)'
  <2>1. req[l].age \in Nat
    BY <1>1, Times
  <2>2. answer \in Docs => since[l][answer] <= req[l].age
    BY <2>1, DocsAssumption DEF IInv, ServedInv
  <2>3. answer = NotModified =>
          doc[l] # None /\ since[l][doc[l]] <= req[l].age
    <3>1. req[l].etag = doc[l] /\ served[l] \in Docs \cup {None}
      BY <1>1 DEF IInv, TypeOK, EtagIsOfPolicy
    <3> QED
      BY <2>1, <3>1, DocsAssumption DEF IInv, ServedInv
  <2> QED
    BY <1>2, <1>5, <1>6, <2>2, <2>3 DEF AnswerInv
<1>10. LoaderInv(l)'
  BY <1>1, <1>2, <1>5, <1>6, <1>9
     DEF LoaderInv, IdleInv, DocInv, QuietInv
<1>11. ASSUME NEW u \in Loaders, u # l PROVE LoaderInv(u)'
  BY <1>1, <1>2, <1>11, Undisturbed DEF IInv, TypeOK
<1> QED
  BY <1>7, <1>8, <1>10, <1>11 DEF IInv

\* A success, with the document that is in force from now on.
LEMMA SucceedInv ==
  ASSUME IInv, NEW l \in Loaders, NEW d \in Docs \ Rejected,
         since[l][d] <= req[l].age, RecordSuccess(l), Done(l),
         doc' = [doc EXCEPT ![l] = d], etag' = [etag EXCEPT ![l] = d],
         UNCHANGED <<served, timer, since, calm>>
  PROVE  IInv'
<1>1. TypeOK
  BY DEF IInv
<1>2. /\ failing' = [failing EXCEPT ![l] = NotFailing]
      /\ quiet' = [quiet EXCEPT ![l] = 0] /\ req' = [req EXCEPT ![l] = Idle]
  BY DEF RecordSuccess, Done
<1>3. 0 \in 0..Grace
  BY <1>1, Times
<1>4. TypeOK'
  BY <1>1, <1>2, <1>3, IdleRequest DEF TypeOK, Requests
<1>5. ServedInv'
  BY DEF IInv, ServedInv
<1>6. EtagIsOfPolicy'
  BY <1>1, <1>2, IdleRequest DEF IInv, TypeOK, EtagIsOfPolicy
<1>7. LoaderInv(l)'
  <2>1. /\ req'[l] = Idle /\ doc'[l] = d /\ failing'[l] = NotFailing
    BY <1>1, <1>2 DEF TypeOK
  <2>2. /\ since[l][d] \in Nat /\ req[l].age \in Nat /\ timer \in Nat
        /\ req[l].age <= Timeout /\ Timeout \in Nat
    BY <1>1, Times
  <2>3. AnswerInv(l)' /\ IdleInv(l)' /\ QuietInv(l)'
    BY <2>1, IdleRequest DEF AnswerInv, IdleInv, QuietInv
  <2>4. since[l][d] <= Timeout + timer
    BY <2>2
  <2>5. DocInv(l)'
    BY <2>1, <2>4, IdleRequest DEF DocInv
  <2> QED
    BY <2>3, <2>5 DEF LoaderInv
<1>8. ASSUME NEW u \in Loaders, u # l PROVE LoaderInv(u)'
  BY <1>1, <1>2, <1>8, Undisturbed DEF IInv, TypeOK
<1> QED
  BY <1>4, <1>5, <1>6, <1>7, <1>8 DEF IInv

\* A failure: what is in force stays so, for a while.
LEMMA FailInv ==
  ASSUME IInv, NEW l \in Loaders, req[l].phase # "idle",
         RecordFailure(l), Done(l),
         UNCHANGED <<served, timer, etag, doc, since, calm>>
  PROVE  IInv'
<1>1. TypeOK /\ LoaderInv(l)
  BY DEF IInv
<1> DEFINE now == IF failing[l] = NotFailing THEN 0 ELSE failing[l]
<1>2. /\ failing' = [failing EXCEPT ![l] = now]
      /\ UNCHANGED quiet /\ req' = [req EXCEPT ![l] = Idle]
  BY <1>1 DEF RecordFailure, Done, TypeOK
<1>3. now \in 0..Grace
  BY <1>1, Times
<1>4. TypeOK'
  BY <1>1, <1>2, <1>3, IdleRequest DEF TypeOK, Requests
<1>5. ServedInv' /\ EtagIsOfPolicy'
  BY <1>1, <1>2, IdleRequest DEF IInv, TypeOK, ServedInv, EtagIsOfPolicy
<1>6. LoaderInv(l)'
  <2>1. req'[l] = Idle /\ failing'[l] = now
    BY <1>1, <1>2 DEF TypeOK
  <2>2. AnswerInv(l)' /\ IdleInv(l)'
    BY <2>1, IdleRequest DEF AnswerInv, IdleInv
  <2>3. now # NotFailing
    BY <1>3 DEF NotFailing
  <2>4. now <= quiet[l]
    BY <1>1, Times DEF LoaderInv, QuietInv
  <2>5. QuietInv(l)'
    BY <1>2, <2>1, <2>4 DEF QuietInv
  <2>6. doc[l] # None => since[l][doc[l]] <= Timeout + Poll + Timeout + now
    <3> SUFFICES ASSUME doc[l] # None
                 PROVE  since[l][doc[l]] <= Timeout + Poll + Timeout + now
      OBVIOUS
    <3>1. doc[l] \in Docs
      BY <1>1 DEF TypeOK
    <3>2. /\ since[l][doc[l]] \in Nat /\ req[l].age \in Nat
          /\ req[l].age <= Timeout /\ Timeout \in Nat /\ Poll \in Nat
      BY <1>1, <3>1, Times
    <3> QED
      BY <1>1, <3>2 DEF LoaderInv, DocInv
  <2>7. DocInv(l)'
    BY <2>1, <2>3, <2>6 DEF DocInv
  <2> QED
    BY <2>2, <2>5, <2>7 DEF LoaderInv
<1>7. ASSUME NEW u \in Loaders, u # l PROVE LoaderInv(u)'
  BY <1>1, <1>2, <1>7, Undisturbed DEF IInv, TypeOK
<1> QED
  BY <1>4, <1>5, <1>6, <1>7 DEF IInv

LEMMA ReceiveInv ==
  ASSUME IInv, NEW l \in Loaders, Receive(l) \/ RequestFails(l)
  PROVE  IInv'
<1>1. TypeOK /\ LoaderInv(l)
  BY DEF IInv
<1>2. req[l].answer \in Docs \cup {NotModified} => req[l].phase = "answered"
  BY <1>1, DocsAssumption DEF LoaderInv, IdleInv
<1>3. CASE ReceiveNotModified(l)
  <2>1. doc[l] # None /\ since[l][doc[l]] <= req[l].age
    BY <1>1, <1>2, <1>3 DEF ReceiveNotModified, LoaderInv, AnswerInv
  <2>2. doc[l] \in Docs \ Rejected /\ etag[l] = doc[l]
    BY <1>1, <2>1 DEF IInv, EtagIsOfPolicy, TypeOK
  <2>3. /\ doc' = [doc EXCEPT ![l] = doc[l]]
        /\ etag' = [etag EXCEPT ![l] = doc[l]]
    BY <1>1, <1>3, <2>2 DEF ReceiveNotModified, TypeOK
  <2> QED
    BY <1>3, <2>1, <2>2, <2>3, SucceedInv DEF ReceiveNotModified
<1>4. CASE ReceivePolicy(l)
  <2>1. since[l][req[l].answer] <= req[l].age
    BY <1>1, <1>2, <1>4 DEF ReceivePolicy, LoaderInv, AnswerInv
  <2> QED
    BY <1>4, <2>1, SucceedInv DEF ReceivePolicy
<1>5. CASE ReceiveUnusable(l)
  BY <1>5, FailInv DEF ReceiveUnusable
<1>6. CASE RequestFails(l)
  BY <1>6, FailInv DEF RequestFails
<1> QED
  BY <1>3, <1>4, <1>5, <1>6 DEF Receive

LEMMA TimersFireInv ==
  ASSUME IInv, TimersFire
  PROVE  IInv'
<1>1. TypeOK /\ timer = Poll /\ timer' = 0
      /\ UNCHANGED <<served, etag, doc, failing, since, quiet, calm>>
  BY DEF IInv, TimersFire
<1>2. ASSUME NEW l \in Loaders
      PROVE  /\ req'[l] \in Requests
             /\ req[l].phase # "idle" => req'[l] = req[l]
             /\ req[l].phase = "idle" =>
                  /\ req'[l].phase = "sent" /\ req'[l].etag = etag[l]
                  /\ req'[l].answer = None /\ req'[l].age = 0
  <2>1. /\ req'[l] = IF req[l].phase = "idle" THEN Sent(l) ELSE req[l]
        /\ req[l] \in Requests
    BY <1>1, Times DEF TimersFire
  <2>2. etag[l] \in Docs \cup {None}
    BY <1>1 DEF TypeOK
  <2> QED
    BY <2>1, <2>2, SentRequest DEF Sent
<1>3. req' \in [Loaders -> Requests]
  <2>1. req' = [l \in Loaders |-> req'[l]]
    BY DEF TimersFire
  <2> QED
    BY <1>2, <2>1
<1>4. TypeOK'
  BY <1>1, <1>3, Times DEF TypeOK, Requests
<1>5. ServedInv' /\ EtagIsOfPolicy'
  BY <1>1, <1>2 DEF IInv, ServedInv, EtagIsOfPolicy
<1>6. ASSUME NEW l \in Loaders PROVE LoaderInv(l)'
  <2>1. LoaderInv(l) /\ doc[l] \in Docs \cup {None}
    BY <1>1 DEF IInv, TypeOK
  <2>2. AnswerInv(l)' /\ IdleInv(l)' /\ QuietInv(l)'
    BY <1>1, <1>2, <2>1 DEF LoaderInv, AnswerInv, IdleInv, QuietInv
  <2>3. /\ \A d \in Docs : since[l][d] \in Nat
        /\ Timeout \in Nat /\ Poll \in Nat /\ req[l].age \in Nat
    BY <1>1, Times
  <2>4. DocInv(l)'
    BY <1>1, <1>2, <2>1, <2>3 DEF LoaderInv, DocInv
  <2> QED
    BY <2>2, <2>4 DEF LoaderInv
<1> QED
  BY <1>4, <1>5, <1>6 DEF IInv

\* Nothing ages faster than the bounds on it.
LEMMA TickInv ==
  ASSUME IInv, Tick
  PROVE  IInv'
<1>1. /\ TypeOK /\ timer < Poll /\ timer' = timer + 1
      /\ UNCHANGED <<served, etag, doc, calm>>
  BY DEF IInv, Tick
<1>2. ASSUME NEW l \in Loaders, req[l].phase # "idle"
      PROVE  LET new == [req[l] EXCEPT !.age = @ + 1] IN
             /\ new \in Requests /\ new.phase = req[l].phase
             /\ new.etag = req[l].etag /\ new.answer = req[l].answer
             /\ new.age = req[l].age + 1
  <2>1. req[l] \in Requests /\ req[l].age + 1 \in 0..Timeout
    BY <1>1, <1>2, Times DEF Tick
  <2> QED
    BY <2>1 DEF Requests
<1>3. ASSUME NEW l \in Loaders
      PROVE  /\ req'[l] \in Requests /\ req'[l].phase = req[l].phase
             /\ req'[l].etag = req[l].etag /\ req'[l].answer = req[l].answer
             /\ req[l].phase # "idle" => req'[l].age = req[l].age + 1
  <2>1. /\ req[l] \in Requests
        /\ req'[l] = IF req[l].phase = "idle" THEN req[l]
                     ELSE [req[l] EXCEPT !.age = @ + 1]
    BY <1>1, Times DEF Tick
  <2> QED
    BY <1>2, <2>1
<1>4. ASSUME NEW l \in Loaders
      PROVE  /\ failing'[l] \in {NotFailing} \cup 0..Grace
             /\ failing[l] = NotFailing <=> failing'[l] = NotFailing
             /\ failing[l] # NotFailing =>
                  failing'[l] = IF failing[l] < Grace THEN failing[l] + 1
                                ELSE Grace
             /\ quiet'[l] = IF quiet[l] < Grace THEN quiet[l] + 1 ELSE Grace
             /\ quiet'[l] \in 0..Grace
  <2>1. /\ Grace \in Nat /\ quiet[l] \in Nat
        /\ failing[l] # NotFailing => failing[l] \in Nat /\ failing[l] <= Grace
    BY <1>1, Times
  <2>2. /\ failing'[l] = IF failing[l] = NotFailing THEN NotFailing
                         ELSE Capped(failing[l], Grace)
        /\ quiet'[l] = Capped(quiet[l], Grace)
    BY DEF Tick
  <2> QED
    BY <2>1, <2>2 DEF Capped, NotFailing
<1>5. ASSUME NEW l \in Loaders, NEW d \in Docs
      PROVE  /\ since'[l][d] \in 0..Staleness
             /\ since'[l][d] <= since[l][d] + 1
             /\ served[l] = d => since'[l][d] = 0
  <2>1. since[l][d] \in Nat /\ since[l][d] <= Staleness /\ Staleness \in Nat
    BY <1>1, Times
  <2>2. since'[l][d] = IF served[l] = d THEN 0
                       ELSE Capped(since[l][d], Staleness)
    BY DEF Tick
  <2> QED
    BY <2>1, <2>2 DEF Capped
<1>6. /\ req' = [l \in Loaders |-> req'[l]]
      /\ failing' = [l \in Loaders |-> failing'[l]]
      /\ quiet' = [l \in Loaders |-> quiet'[l]]
      /\ since' = [l \in Loaders |-> [d \in Docs |-> since'[l][d]]]
  BY DEF Tick
<1>7. since' \in [Loaders -> [Docs -> 0..Staleness]]
  BY <1>5, <1>6
<1>8. TypeOK'
  <2>1. timer' \in 0..Poll
    BY <1>1, Times
  <2>2. req' \in [Loaders -> Requests] /\ quiet' \in [Loaders -> 0..Grace]
        /\ failing' \in [Loaders -> {NotFailing} \cup 0..Grace]
    BY <1>3, <1>4, <1>6
  <2> QED
    BY <1>1, <1>7, <2>1, <2>2 DEF TypeOK, Requests
<1>9. ServedInv'
  BY <1>1, <1>5 DEF TypeOK, ServedInv
<1>10. EtagIsOfPolicy'
  BY <1>1, <1>3 DEF IInv, EtagIsOfPolicy
<1>11. ASSUME NEW l \in Loaders PROVE LoaderInv(l)'
  <2>1. LoaderInv(l) /\ doc[l] \in Docs \cup {None}
    BY <1>1 DEF IInv, TypeOK
  <2>2. /\ \A d \in Docs : since[l][d] \in Nat /\ since'[l][d] \in Nat
        /\ \A d \in Docs : since'[l][d] <= Staleness
        /\ req[l].age \in Nat /\ quiet[l] \in Nat /\ quiet[l] <= Grace
        /\ Timeout \in Nat /\ Poll \in Nat /\ Grace \in Nat /\ timer \in Nat
        /\ failing[l] # NotFailing => failing[l] \in Nat
        /\ Staleness = 2 * Timeout + Poll + Grace
    BY <1>1, <1>5, Times
  <2>3. AnswerInv(l)'
    BY <1>1, <1>3, <1>5, <2>1, <2>2 DEF LoaderInv, AnswerInv
  <2>4. IdleInv(l)' /\ QuietInv(l)'
    BY <1>3, <1>4, <2>1, <2>2 DEF LoaderInv, IdleInv, QuietInv
  <2>5. DocInv(l)'
    BY <1>1, <1>3, <1>4, <1>5, <2>1, <2>2 DEF LoaderInv, DocInv
  <2> QED
    BY <2>3, <2>4, <2>5 DEF LoaderInv
<1> QED
  BY <1>8, <1>9, <1>10, <1>11 DEF IInv

LEMMA RestartInv ==
  ASSUME IInv, Restart
  PROVE  IInv'
<1>1. /\ TypeOK /\ timer' = 0
      /\ req' = [l \in Loaders |-> [Idle EXCEPT !.phase = "sent"]]
      /\ etag' = [l \in Loaders |-> None]
      /\ doc' = [l \in Loaders |-> None]
      /\ failing' = [l \in Loaders |-> NotFailing]
      /\ quiet' = [l \in Loaders |-> Grace]
      /\ UNCHANGED <<served, since, calm>>
  BY DEF IInv, Restart
<1>2. ASSUME NEW l \in Loaders
      PROVE  /\ req'[l] \in Requests /\ req'[l].phase = "sent"
             /\ req'[l].etag = None /\ req'[l].answer = None
  BY <1>1, IdleRequest DEF Requests, Idle
<1>3. req' \in [Loaders -> Requests]
  BY <1>1, <1>2
<1>4. 0 \in 0..Poll /\ Grace \in 0..Grace
  BY <1>1, Times
<1>5. TypeOK'
  BY <1>1, <1>3, <1>4 DEF TypeOK, Requests
<1>6. ServedInv' /\ EtagIsOfPolicy'
  BY <1>1, <1>2, DocsAssumption DEF IInv, ServedInv, EtagIsOfPolicy
<1>7. \A l \in Loaders : LoaderInv(l)'
  BY <1>1, <1>2 DEF LoaderInv, AnswerInv, IdleInv, DocInv, QuietInv
<1> QED
  BY <1>5, <1>6, <1>7 DEF IInv

LEMMA NextIInv ==
  ASSUME IInv, [Next]_vars
  PROVE  IInv'
<1>1. ASSUME NEW l \in Loaders,
             \/ \E d \in Docs \cup {None} : Publish(l, d)
             \/ Answer(l) \/ Receive(l) \/ RequestFails(l)
      PROVE  IInv'
  BY <1>1, PublishInv, RespondInv, ReceiveInv
<1>2. CASE TimersFire \/ Tick \/ Restart
  BY <1>2, TimersFireInv, TickInv, RestartInv
<1>3. CASE Settle \/ UNCHANGED vars
  <2>1. /\ UNCHANGED <<served, timer, req, etag, doc, failing, since, quiet>>
        /\ calm' \in {TRUE, calm}
    BY <1>3 DEF Settle, vars
  <2>2. calm' \in BOOLEAN
    BY <2>1 DEF IInv, TypeOK
  <2>3. TypeOK'
    BY <2>1, <2>2 DEF IInv, TypeOK
  <2>4. ServedInv' /\ EtagIsOfPolicy'
    BY <2>1 DEF IInv, ServedInv, EtagIsOfPolicy
  <2>5. \A l \in Loaders : LoaderInv(l)'
    BY <2>1, Undisturbed DEF IInv
  <2> QED
    BY <2>3, <2>4, <2>5 DEF IInv
<1> QED
  BY <1>1, <1>2, <1>3 DEF Next

-----------------------------------------------------------------------------

\* What an answer says and what is in force is no older than the request's age,
\* the timer and the failures show, at all times.
THEOREM Invariance == Spec => []IInv
<1>1. Init => IInv
  BY InitIInv
<1>2. IInv /\ [Next]_vars => IInv'
  BY NextIInv
<1> QED
  BY <1>1, <1>2, PTL DEF Spec

\* Every variable has its type: all clocks stay within their caps.
THEOREM TypeCorrect == Spec => []TypeOK
<1>1. IInv => TypeOK
  BY DEF IInv
<1> QED
  BY <1>1, Invariance, PTL

\* A policy that policy-sync ceased to serve is in force for less than two
\* timeouts, one poll and the grace period.
THEOREM BoundedStalenessHolds == Spec => []BoundedStaleness
<1>1. ASSUME IInv, NEW l \in Loaders, Current(l) # None
      PROVE  since[l][Current(l)] < Staleness
  <2>1. TypeOK /\ DocInv(l)
    BY <1>1 DEF IInv, LoaderInv
  <2>2. Current(l) = doc[l] /\ failing[l] # Grace /\ doc[l] \in Docs
    BY <1>1, <2>1 DEF Current, TypeOK
  <2>3. /\ Timeout \in Nat /\ Poll \in Nat /\ Grace \in Nat /\ Grace >= 1
        /\ timer \in Nat /\ timer <= Poll
        /\ req[l].age \in Nat /\ req[l].age <= Timeout
        /\ since[l][doc[l]] \in Nat
        /\ Staleness = 2 * Timeout + Poll + Grace
        /\ failing[l] # NotFailing => failing[l] \in Nat /\ failing[l] <= Grace
    BY <2>1, <2>2, Times
  <2> QED
    BY <1>1, <2>1, <2>2, <2>3 DEF DocInv
<1>2. IInv => BoundedStaleness
  BY <1>1 DEF BoundedStaleness
<1> QED
  BY <1>2, Invariance, PTL

\* A loader that has a policy fails closed only after Grace without a success.
THEOREM KeepsLastKnownGoodHolds == Spec => []KeepsLastKnownGood
<1>1. ASSUME IInv, NEW l \in Loaders, doc[l] # None, Current(l) = None
      PROVE  quiet[l] = Grace
  <2>1. failing[l] = Grace /\ Grace # NotFailing
    BY <1>1, TimesAssumption DEF Current, NotFailing
  <2>2. quiet[l] \in Nat /\ quiet[l] <= Grace /\ Grace \in Nat
    BY <1>1, Times DEF IInv
  <2> QED
    BY <1>1, <2>1, <2>2 DEF IInv, LoaderInv, QuietInv
<1>2. IInv => KeepsLastKnownGood
  BY <1>1 DEF KeepsLastKnownGood
<1> QED
  BY <1>2, Invariance, PTL

\* The ETag sent is that of the policy in force, which is one that parsed.
THEOREM EtagIsOfPolicyHolds == Spec => []EtagIsOfPolicy
<1>1. IInv => EtagIsOfPolicy
  BY DEF IInv
<1> QED
  BY <1>1, Invariance, PTL
-----------------------------------------------------------------------------
(* The two loaders together *)

\* What the filter enforces is complete, usable and of late: for every loader
\* a document that parsed and that its endpoint served less than Staleness ago.
\* With a policy from each loader it closes only if one of them has had no
\* success for Grace.
CompositeIsOfLate ==
  /\ Composite # Closed =>
       \A l \in Loaders : /\ Composite[l] \in Docs \ Rejected
                          /\ since[l][Composite[l]] < Staleness
  /\ Composite = Closed /\ (\A l \in Loaders : doc[l] # None) =>
       \A l \in Loaders : \E other \in Loaders : quiet[other] = Grace

\* CompositePolicyLoader opens and closes as it should, for any set of loaders,
\* although each of them polls, fails and recovers by itself.
THEOREM CompositeIsAlwaysOfLate == Spec => []CompositeIsOfLate
<1>1. ASSUME IInv, BoundedStaleness, Composite # Closed, NEW l \in Loaders
      PROVE  /\ Composite[l] \in Docs \ Rejected
             /\ since[l][Composite[l]] < Staleness
  <2>1. /\ \A m \in Loaders : Current(m) # None
        /\ Composite = [m \in Loaders |-> Current(m)]
    BY <1>1 DEF Composite
  <2>2. Composite[l] = Current(l) /\ Current(l) # None
    BY <2>1
  <2>3. Current(l) = doc[l] /\ doc[l] \in Docs
    BY <1>1, <2>2 DEF Current, IInv, TypeOK
  <2>4. doc[l] \notin Rejected
    BY <1>1 DEF IInv, EtagIsOfPolicy
  <2> QED
    BY <1>1, <2>2, <2>3, <2>4 DEF BoundedStaleness
<1>2. ASSUME KeepsLastKnownGood, Composite = Closed, NEW l \in Loaders,
             \A m \in Loaders : doc[m] # None
      PROVE  \E other \in Loaders : quiet[other] = Grace
  <2>1. PICK other \in Loaders : Current(other) = None
    <3>1. CASE \A m \in Loaders : Current(m) # None
      <4>1. Composite = [m \in Loaders |-> Current(m)]
        BY <3>1 DEF Composite
      <4>2. Composite[l] = Current(l) /\ Closed[l] = None
        BY <4>1 DEF Closed
      <4> QED
        BY <1>2, <4>2
    <3> QED
      BY <3>1
  <2> QED
    BY <1>2, <2>1 DEF KeepsLastKnownGood
<1>3. IInv /\ BoundedStaleness /\ KeepsLastKnownGood => CompositeIsOfLate
  BY <1>1, <1>2 DEF CompositeIsOfLate
<1> QED
  BY <1>3, Invariance, BoundedStalenessHolds, KeepsLastKnownGoodHolds, PTL
=============================================================================
