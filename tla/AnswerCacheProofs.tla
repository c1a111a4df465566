------------------------- MODULE AnswerCacheProofs -------------------------
(***************************************************************************)
(* What TLAPS proves of AnswerCache, for any number of users, targets and  *)
(* overlapping requests, any two time limits, and both caches.             *)
(***************************************************************************)
EXTENDS AnswerCache, TLAPS

----------------------------------------------------------------------------
(* The inductive invariant: what a slot and a cache entry know of time and *)
(* of whose the answer is.                                                 *)

\* A call in flight has not outlived its limit.
CallInTime(r) ==
  req[r].phase \in {"validating", "validated"} =>
    req[r].since <= now /\ now - req[r].since <= Slow

\* An answer that is back was produced after its request arrived, for it.
AnswerIsBack(r) ==
  req[r].phase = "validated" =>
    /\ req[r].answer \in Answer
    /\ req[r].answer.user = req[r].user
    /\ req[r].answer.target = req[r].target
    /\ req[r].answer.validatedAt >= req[r].since

\* What the three invariants of the answers say of one slot.
GoodAnswer(r) ==
  req[r].phase = "answered" /\ req[r].answer # None =>
    /\ req[r].answer.user = req[r].user
    /\ req[r].answer.target = req[r].target
    /\ req[r].at - req[r].answer.validatedAt <= TTL + Slow
    /\ req[r].force => req[r].answer.validatedAt >= req[r].since

\* An entry is under its own key, and its time limit counts from the end of a
\* call that began before the answer was produced.
GoodEntry(k) ==
  cache[k] # None =>
    /\ cache[k].val.user = k[1] /\ cache[k].val.target = k[2]
    /\ cache[k].exp - cache[k].val.validatedAt <= TTL + Slow

\* An answer stored within the time limit is still there.
KeptEntry(k) ==
  stored[k] # Never /\ now <= stored[k] + TTL =>
    cache[k] # None /\ cache[k].exp >= stored[k] + TTL

SlotsGood == \A r \in Requests : CallInTime(r) /\ AnswerIsBack(r) /\ GoodAnswer(r)
CacheGood == \A k \in Keys : GoodEntry(k)
CacheKeeps == \A k \in Keys : KeptEntry(k)

----------------------------------------------------------------------------
(* Facts of the operators.                                                 *)

\* A slot and an entry, by type.
LEMMA Parts ==
  ASSUME TypeOK
  PROVE  /\ now \in 0..MaxTime /\ now \in Nat
         /\ \A r \in Requests :
              /\ req[r] \in Request
              /\ req[r].since \in 0..MaxTime /\ req[r].since \in Nat
              /\ Key(r) \in Keys
         /\ \A k \in Keys : cache[k] # None => cache[k] \in Entry
         /\ \A a \in Answer : a.validatedAt \in Nat
         /\ \A e \in Entry : e.exp \in Nat /\ e.val \in Answer
  BY TimeAssumption
     DEF TypeOK, Request, Answer, Entry, Ages, Keys, Key, answerKey

\* A request that has just arrived.
LEMMA ArrivedFacts ==
  ASSUME TypeOK, NEW u \in Users, NEW t \in Targets, NEW f \in BOOLEAN
  PROVE  /\ Arrived(u, t, f) \in Request
         /\ [Arrived(u, t, f) EXCEPT !.blind = TRUE] \in Request
         /\ \A e \in Answer :
              [Arrived(u, t, f) EXCEPT !.phase = "answered", !.answer = e,
                                       !.at = now] \in Request
<1>1. now \in 0..MaxTime /\ 0 \in 0..MaxTime
  BY Parts, TimeAssumption
<1>2. Arrived(u, t, f) \in Request
  BY <1>1 DEF Arrived, Request
<1> DEFINE q == Arrived(u, t, f)
<1>3. [q EXCEPT !.blind = TRUE] \in Request
  BY <1>2 DEF Request
<1>4. ASSUME NEW e \in Answer
      PROVE  [q EXCEPT !.phase = "answered", !.answer = e, !.at = now] \in Request
  BY <1>1, <1>2 DEF Request
<1> QED
  BY <1>2, <1>3, <1>4

\* What a lookup returns is the entry itself, still within its limit.
LEMMA GetFacts ==
  ASSUME TypeOK, NEW k \in Keys, Get(k) # None
  PROVE  Get(k) = cache[k] /\ cache[k] \in Entry /\ now <= cache[k].exp
<1>1. cache[k] # None /\ ~Expired(cache[k]) /\ Get(k) = cache[k]
  BY DEF Get
<1>2. cache[k] \in Entry /\ cache[k].exp \in Nat /\ now \in Nat
  BY <1>1, Parts
<1> QED
  BY <1>1, <1>2 DEF Expired

\* Dropping what a lookup finds expired keeps what is still good.
LEMMA DroppedFacts ==
  ASSUME TypeOK, NEW k \in Keys
  PROVE  /\ Dropped(k) \in [Keys -> Entry \cup {None}]
         /\ \A j \in Keys :
              \/ Dropped(k)[j] = cache[j]
              \/ cache[j] # None /\ now > cache[j].exp /\ Dropped(k)[j] = None
  BY DEF Dropped, Get, Expired, TypeOK

\* Storing an answer keeps what is still good, and puts it under its key.
LEMMA SetFacts ==
  ASSUME TypeOK, NEW k \in Keys, NEW a \in Answer
  PROVE  /\ Set(k, a) \in [Keys -> Entry \cup {None}]
         /\ Set(k, a)[k] = [val |-> a, exp |-> now + TTL]
         /\ [val |-> a, exp |-> now + TTL] \in Entry
         /\ \A j \in Keys \ {k} :
              \/ Set(k, a)[j] = cache[j]
              \/ cache[j] # None /\ now > cache[j].exp /\ Set(k, a)[j] = None
<1>1. [val |-> a, exp |-> now + TTL] \in Entry
  BY Parts, TimeAssumption DEF Entry, Ages
<1> QED
  BY <1>1 DEF Set, Expired, TypeOK

----------------------------------------------------------------------------
(* What each action makes of its slot.                                     *)

\* A slot takes a new request, and the others stay as they are.
LEMMA SlotSet ==
  ASSUME TypeOK, NEW r \in Requests, NEW q \in Request
  PROVE  /\ [req EXCEPT ![r] = q] \in [Requests -> Request]
         /\ [req EXCEPT ![r] = q][r] = q
         /\ \A x \in Requests \ {r} : [req EXCEPT ![r] = q][x] = req[x]
  BY DEF TypeOK

\* A request is answered.
LEMMA AnsweredFacts ==
  ASSUME TypeOK, NEW r \in Requests, NEW a \in Answer \cup {None},
         NEW p, p = Answered(r, a)
  PROVE  /\ p \in [Requests -> Request]
         /\ \A x \in Requests \ {r} : p[x] = req[x]
         /\ p[r].phase = "answered" /\ p[r].answer = a /\ p[r].at = now
         /\ p[r].user = req[r].user /\ p[r].target = req[r].target
         /\ p[r].force = req[r].force /\ p[r].since = req[r].since
<1>1. PICK q \in Request :
        /\ q.phase = "answered" /\ q.answer = a /\ q.at = now
        /\ q.user = req[r].user /\ q.target = req[r].target
        /\ q.force = req[r].force /\ q.since = req[r].since
        /\ p = [req EXCEPT ![r] = q]
  <2> DEFINE q == [req[r] EXCEPT !.phase = "answered", !.answer = a,
                                 !.at = now]
  <2>1. p = [req EXCEPT ![r] = q]
    BY DEF Answered, TypeOK
  <2>2. /\ q \in Request
        /\ q.phase = "answered" /\ q.answer = a /\ q.at = now
        /\ q.user = req[r].user /\ q.target = req[r].target
        /\ q.force = req[r].force /\ q.since = req[r].since
    BY Parts DEF Request
  <2> QED
    BY <2>1, <2>2
<1> QED
  BY <1>1, SlotSet

\* A lookup that hits answers at once with the entry's value.
LEMMA ServeFacts ==
  ASSUME TypeOK, NEW r \in Requests, NEW u \in Users, NEW t \in Targets,
         serveCachedAnswer(r, u, t, FALSE)
  PROVE  /\ req' \in [Requests -> Request]
         /\ \A x \in Requests \ {r} : req'[x] = req[x]
         /\ <<u, t>> \in Keys /\ cache[<<u, t>>] \in Entry
         /\ now <= cache[<<u, t>>].exp
         /\ req'[r].phase = "answered" /\ req'[r].at = now
         /\ req'[r].answer = cache[<<u, t>>].val
         /\ req'[r].user = u /\ req'[r].target = t /\ req'[r].force = FALSE
<1>1. <<u, t>> \in Keys /\ answerKey(u, t) = <<u, t>>
  BY DEF answerKey, Keys
<1>2. /\ Get(<<u, t>>) = cache[<<u, t>>] /\ cache[<<u, t>>] \in Entry
      /\ now <= cache[<<u, t>>].exp
  BY <1>1, GetFacts DEF serveCachedAnswer
<1>3. PICK q \in Request :
        /\ req' = [req EXCEPT ![r] = q]
        /\ q.phase = "answered" /\ q.at = now
        /\ q.answer = cache[<<u, t>>].val
        /\ q.user = u /\ q.target = t /\ q.force = FALSE
  <2> DEFINE q == [Arrived(u, t, FALSE) EXCEPT !.phase = "answered",
                     !.answer = cache[<<u, t>>].val, !.at = now]
  <2>1. q \in Request
    BY <1>2, ArrivedFacts, Parts
  <2>2. req' = [req EXCEPT ![r] = q]
    BY <1>1, <1>2 DEF serveCachedAnswer
  <2>3. /\ q.phase = "answered" /\ q.at = now
        /\ q.answer = cache[<<u, t>>].val
        /\ q.user = u /\ q.target = t /\ q.force = FALSE
    BY DEF Arrived
  <2> QED
    BY <2>1, <2>2, <2>3
<1> QED
  BY <1>1, <1>2, <1>3, SlotSet

\* Only a request that is not forced is answered from the cache.
LEMMA ServeUnforced ==
  ASSUME NEW r \in Requests, NEW u \in Users, NEW t \in Targets,
         NEW f \in BOOLEAN, serveCachedAnswer(r, u, t, f)
  PROVE  serveCachedAnswer(r, u, t, FALSE)
<1>1. f = FALSE
  BY DEF serveCachedAnswer
<1> QED
  BY <1>1

\* A lookup that misses begins a validation.
LEMMA MissFacts ==
  ASSUME TypeOK, NEW r \in Requests, NEW u \in Users, NEW t \in Targets,
         NEW f \in BOOLEAN, missCachedAnswer(r, u, t, f)
  PROVE  /\ req' \in [Requests -> Request]
         /\ \A x \in Requests \ {r} : req'[x] = req[x]
         /\ req'[r].phase = "validating" /\ req'[r].since = now
         /\ req'[r].user = u /\ req'[r].target = t
         /\ cache' = cache \/ \E k \in Keys : cache' = Dropped(k)
<1>1. answerKey(u, t) \in Keys
  BY DEF answerKey, Keys
<1>2. PICK q \in Request :
        /\ req' = [req EXCEPT ![r] = q]
        /\ q.phase = "validating" /\ q.since = now /\ q.user = u /\ q.target = t
  <2>1. CASE req' = [req EXCEPT ![r] = Arrived(u, t, f)]
    BY <2>1, ArrivedFacts DEF Arrived
  <2>2. CASE req' = [req EXCEPT
                       ![r] = [Arrived(u, t, f) EXCEPT !.blind = TRUE]]
    BY <2>2, ArrivedFacts DEF Arrived
  <2> QED
    BY <2>1, <2>2 DEF missCachedAnswer
<1>3. cache' = cache \/ \E k \in Keys : cache' = Dropped(k)
  BY <1>1 DEF missCachedAnswer
<1> QED
  BY <1>2, <1>3, SlotSet

\* The signing service's answer is for the request, and of this moment.
LEMMA ValidateFacts ==
  ASSUME TypeOK, NEW r \in Requests, Validate(r)
  PROVE  /\ req' \in [Requests -> Request]
         /\ \A x \in Requests \ {r} : req'[x] = req[x]
         /\ req'[r].phase = "validated" /\ req'[r].answer \in Answer
         /\ req'[r].answer.user = req[r].user
         /\ req'[r].answer.target = req[r].target
         /\ req'[r].answer.validatedAt = now
         /\ req'[r].user = req[r].user /\ req'[r].target = req[r].target
         /\ req'[r].since = req[r].since
<1>1. PICK a \in Answer :
        /\ a.user = req[r].user /\ a.target = req[r].target
        /\ a.validatedAt = now
        /\ req' = [req EXCEPT ![r].phase = "validated", ![r].answer = a]
  <2> DEFINE a == [user |-> req[r].user, target |-> req[r].target,
                   validatedAt |-> now]
  <2>1. a \in Answer
    BY Parts DEF Answer, Request
  <2> QED
    BY <2>1 DEF Validate
<1>2. PICK q \in Request :
        /\ q.phase = "validated" /\ q.answer = a /\ q.user = req[r].user
        /\ q.target = req[r].target /\ q.since = req[r].since
        /\ req' = [req EXCEPT ![r] = q]
  <2> DEFINE q == [req[r] EXCEPT !.phase = "validated", !.answer = a]
  <2>1. req' = [req EXCEPT ![r] = q]
    BY <1>1 DEF TypeOK
  <2>2. /\ q \in Request
        /\ q.phase = "validated" /\ q.answer = a /\ q.user = req[r].user
        /\ q.target = req[r].target /\ q.since = req[r].since
    BY Parts DEF Request
  <2> QED
    BY <2>1, <2>2
<1> QED
  BY <1>1, <1>2, SlotSet

\* A slot that is free again.
LEMMA FinishFacts ==
  ASSUME TypeOK, NEW r \in Requests, Finish(r)
  PROVE  /\ req' \in [Requests -> Request]
         /\ \A x \in Requests \ {r} : req'[x] = req[x]
         /\ req'[r].phase = "idle"
<1>1. PICK q \in Request : q.phase = "idle" /\ req' = [req EXCEPT ![r] = q]
  <2> DEFINE q == [req[r] EXCEPT !.phase = "idle", !.answer = None,
                     !.force = FALSE, !.since = 0, !.at = 0, !.blind = FALSE]
  <2>1. req' = [req EXCEPT ![r] = q]
    BY DEF Finish, TypeOK
  <2>2. 0 \in 0..MaxTime /\ req[r] \in Request
    BY Parts, TimeAssumption
  <2>3. q \in Request /\ q.phase = "idle"
    BY <2>2 DEF Request
  <2> QED
    BY <2>1, <2>3
<1> QED
  BY <1>1, SlotSet

----------------------------------------------------------------------------
(* Type correctness.                                                       *)

\* TypeOK is inductive, given that an answer that is back is an answer.
LEMMA TypeStep == TypeOK /\ SlotsGood /\ [Next]_vars => TypeOK'
<1> SUFFICES ASSUME TypeOK, SlotsGood, [Next]_vars PROVE TypeOK'
  OBVIOUS
<1>t. /\ now \in 0..MaxTime /\ cache \in [Keys -> Entry \cup {None}]
      /\ req \in [Requests -> Request]
      /\ stored \in [Keys -> (0..MaxTime) \cup {Never}]
  BY DEF TypeOK
<1>1. ASSUME NEW r \in Requests, NEW u \in Users, NEW t \in Targets,
             NEW f \in BOOLEAN, serveCachedAnswer(r, u, t, f)
      PROVE  TypeOK'
  <2>1. serveCachedAnswer(r, u, t, FALSE)
    BY <1>1, ServeUnforced
  <2> QED
    BY <1>t, <2>1, ServeFacts DEF serveCachedAnswer, TypeOK
<1>2. ASSUME NEW r \in Requests, NEW u \in Users, NEW t \in Targets,
             NEW f \in BOOLEAN, missCachedAnswer(r, u, t, f)
      PROVE  TypeOK'
  <2>1. cache' \in [Keys -> Entry \cup {None}] /\ req' \in [Requests -> Request]
    BY <1>2, <1>t, MissFacts, DroppedFacts
  <2> QED
    BY <1>2, <1>t, <2>1 DEF missCachedAnswer, TypeOK
<1>3. ASSUME NEW r \in Requests, Validate(r) PROVE TypeOK'
  BY <1>3, <1>t, ValidateFacts DEF Validate, TypeOK
<1>5. ASSUME NEW r \in Requests, relayErr(r) PROVE TypeOK'
  BY <1>5, <1>t, AnsweredFacts DEF relayErr, TypeOK
<1>6. ASSUME NEW r \in Requests, storeAnswer(r) PROVE TypeOK'
  <2>1. req[r].answer \in Answer /\ Key(r) \in Keys
    BY <1>6, Parts DEF storeAnswer, SlotsGood, AnswerIsBack
  <2>2. cache' \in [Keys -> Entry \cup {None}]
    <3>1. Set(Key(r), req[r].answer) \in [Keys -> Entry \cup {None}]
      BY <2>1, SetFacts
    <3>2. cache' = cache \/ cache' = Set(Key(r), req[r].answer)
      BY <1>6 DEF storeAnswer
    <3> QED
      BY <1>t, <3>1, <3>2
  <2>3. stored' \in [Keys -> (0..MaxTime) \cup {Never}]
    BY <1>6, <1>t, <2>1 DEF storeAnswer
  <2>4. req' \in [Requests -> Request]
    BY <1>6, <2>1, AnsweredFacts DEF storeAnswer
  <2> QED
    BY <1>6, <1>t, <2>2, <2>3, <2>4 DEF storeAnswer, TypeOK
<1>7. ASSUME NEW r \in Requests, Finish(r) PROVE TypeOK'
  BY <1>7, <1>t, FinishFacts DEF Finish, TypeOK
<1>8. CASE Tick
  BY <1>8, <1>t, TimeAssumption DEF Tick, TypeOK
<1>9. CASE UNCHANGED vars
  BY <1>9, <1>t DEF vars, TypeOK
<1> QED
  BY <1>1, <1>2, <1>3, <1>5, <1>6, <1>7, <1>8, <1>9 DEF Next

----------------------------------------------------------------------------
(* The answers.                                                            *)

\* What one slot knows is kept by any step that leaves the slot and the clock
\* alone, and by any step that leaves it idle.
LEMMA SlotKept ==
  ASSUME NEW x \in Requests, CallInTime(x), AnswerIsBack(x), GoodAnswer(x),
         now' = now, req'[x] = req[x] \/ req'[x].phase = "idle"
  PROVE  CallInTime(x)' /\ AnswerIsBack(x)' /\ GoodAnswer(x)'
  BY DEF CallInTime, AnswerIsBack, GoodAnswer

\* What one entry knows is kept where it is kept or dropped.
LEMMA EntryKept ==
  ASSUME NEW k \in Keys, GoodEntry(k), cache'[k] \in {cache[k], None}
  PROVE  GoodEntry(k)'
  BY DEF GoodEntry

\* The age of an entry when it is made.
LEMMA EntryAge ==
  ASSUME TypeOK, NEW a \in Answer, now - a.validatedAt <= Slow,
         NEW e \in Entry, e.val = a, e.exp = now + TTL
  PROVE  e.exp - e.val.validatedAt <= TTL + Slow
  BY Parts, TimeAssumption

\* Every step keeps whose the answers are and how old they can be.
LEMMA AnswersStep ==
  TypeOK /\ SlotsGood /\ CacheGood /\ [Next]_vars => SlotsGood' /\ CacheGood'
<1> SUFFICES ASSUME TypeOK, SlotsGood, CacheGood, [Next]_vars
             PROVE  SlotsGood' /\ CacheGood'
  OBVIOUS
<1>a. ASSUME NEW r \in Requests, now' = now,
             \A x \in Requests \ {r} : req'[x] = req[x],
             CallInTime(r)' /\ AnswerIsBack(r)' /\ GoodAnswer(r)'
      PROVE  SlotsGood'
  BY <1>a, SlotKept DEF SlotsGood
<1>b. ASSUME \A k \in Keys : cache'[k] \in {cache[k], None}
      PROVE  CacheGood'
  BY <1>b, EntryKept DEF CacheGood
<1>1. ASSUME NEW r \in Requests, NEW u \in Users, NEW t \in Targets,
             NEW f \in BOOLEAN, serveCachedAnswer(r, u, t, f)
      PROVE  SlotsGood' /\ CacheGood'
  <2>1. now' = now /\ cache' = cache
    BY <1>1 DEF serveCachedAnswer
  <2>0. /\ \A x \in Requests \ {r} : req'[x] = req[x]
        /\ <<u, t>> \in Keys /\ cache[<<u, t>>] \in Entry
        /\ now <= cache[<<u, t>>].exp
        /\ req'[r].phase = "answered" /\ req'[r].at = now
        /\ req'[r].answer = cache[<<u, t>>].val
        /\ req'[r].user = u /\ req'[r].target = t /\ req'[r].force = FALSE
    <3>1. serveCachedAnswer(r, u, t, FALSE)
      BY <1>1, ServeUnforced
    <3> QED
      BY <3>1, ServeFacts
  <2>2. PICK e \in Entry :
          /\ e.val.user = u /\ e.val.target = t
          /\ e.exp - e.val.validatedAt <= TTL + Slow /\ now <= e.exp
          /\ req'[r].answer = e.val
    <3>1. GoodEntry(<<u, t>>) /\ cache[<<u, t>>] # None
      BY <2>0, EntryAssumption DEF CacheGood
    <3> QED
      BY <2>0, <3>1 DEF GoodEntry
  <2>3. now - e.val.validatedAt <= TTL + Slow
    BY <2>2, Parts, TimeAssumption
  <2>5. CallInTime(r)' /\ AnswerIsBack(r)' /\ GoodAnswer(r)'
    BY <2>0, <2>1, <2>2, <2>3 DEF CallInTime, AnswerIsBack, GoodAnswer
  <2> QED
    BY <1>a, <1>b, <2>0, <2>1, <2>5
<1>2. ASSUME NEW r \in Requests, NEW u \in Users, NEW t \in Targets,
             NEW f \in BOOLEAN, missCachedAnswer(r, u, t, f)
      PROVE  SlotsGood' /\ CacheGood'
  <2>1. now' = now
    BY <1>2 DEF missCachedAnswer
  <2>2. CallInTime(r)' /\ AnswerIsBack(r)' /\ GoodAnswer(r)'
    BY <1>2, <2>1, MissFacts, Parts, TimeAssumption
       DEF CallInTime, AnswerIsBack, GoodAnswer
  <2>3. \A k \in Keys : cache'[k] \in {cache[k], None}
    BY <1>2, MissFacts, DroppedFacts
  <2> QED
    BY <1>a, <1>b, <1>2, <2>1, <2>2, <2>3, MissFacts
<1>3. ASSUME NEW r \in Requests, Validate(r) PROVE SlotsGood' /\ CacheGood'
  <2>1. /\ now' = now /\ cache' = cache
        /\ req[r].since <= now /\ now - req[r].since <= Slow
    BY <1>3 DEF Validate, SlotsGood, CallInTime
  <2>2. /\ req'[r].phase = "validated" /\ req'[r].since = req[r].since
        /\ req'[r].user = req[r].user /\ req'[r].target = req[r].target
        /\ req'[r].answer \in Answer /\ req'[r].answer.validatedAt = now
        /\ req'[r].answer.user = req[r].user
        /\ req'[r].answer.target = req[r].target
        /\ \A x \in Requests \ {r} : req'[x] = req[x]
    BY <1>3, ValidateFacts
  <2>3. now >= req[r].since
    BY <2>1, Parts
  <2>4. CallInTime(r)' /\ AnswerIsBack(r)' /\ GoodAnswer(r)'
    BY <2>1, <2>2, <2>3 DEF CallInTime, AnswerIsBack, GoodAnswer
  <2> QED
    BY <1>a, <1>b, <2>1, <2>2, <2>4
<1>4. ASSUME NEW r \in Requests, relayErr(r) PROVE SlotsGood' /\ CacheGood'
  <2>1. now' = now /\ cache' = cache /\ req' = Answered(r, None)
    BY <1>4 DEF relayErr
  <2>2. CallInTime(r)' /\ AnswerIsBack(r)' /\ GoodAnswer(r)'
    BY <2>1, AnsweredFacts DEF CallInTime, AnswerIsBack, GoodAnswer
  <2> QED
    BY <1>a, <1>b, <2>1, <2>2, AnsweredFacts
<1>5. ASSUME NEW r \in Requests, storeAnswer(r) PROVE SlotsGood' /\ CacheGood'
  <2> DEFINE a == req[r].answer
  <2>1. /\ now' = now /\ req' = Answered(r, a) /\ req[r].phase = "validated"
        /\ cache' = cache \/ cache' = Set(Key(r), a)
    BY <1>5 DEF storeAnswer
  <2>2. /\ a \in Answer /\ a.user = req[r].user /\ a.target = req[r].target
        /\ a.validatedAt >= req[r].since
        /\ req[r].since <= now /\ now - req[r].since <= Slow
    BY <2>1 DEF SlotsGood, AnswerIsBack, CallInTime
  <2>3. /\ now - a.validatedAt <= TTL + Slow
        /\ now - a.validatedAt <= Slow
    BY <2>2, Parts, TimeAssumption
  <2>4. CallInTime(r)' /\ AnswerIsBack(r)' /\ GoodAnswer(r)'
    BY <2>1, <2>2, <2>3, AnsweredFacts DEF CallInTime, AnswerIsBack, GoodAnswer
  <2>5. CacheGood'
    <3>1. CASE cache' = cache
      BY <1>b, <3>1
    <3>2. CASE cache' = Set(Key(r), a)
      <4>1. PICK own \in Keys : /\ own[1] = a.user /\ own[2] = a.target
                                /\ cache' = Set(own, a)
        BY <2>2, <3>2, Parts DEF Key, answerKey
      <4>2. GoodEntry(own)'
        <5>1. /\ cache'[own] = [val |-> a, exp |-> now + TTL]
              /\ [val |-> a, exp |-> now + TTL] \in Entry
          BY <2>2, <4>1, SetFacts
        <5>2. /\ cache'[own] \in Entry
              /\ cache'[own].val = a /\ cache'[own].exp = now + TTL
          BY <5>1
        <5>3. cache'[own].exp - cache'[own].val.validatedAt <= TTL + Slow
          BY <2>2, <2>3, <5>2, EntryAge
        <5>4. cache'[own].val.user = own[1] /\ cache'[own].val.target = own[2]
          BY <4>1, <5>2
        <5> QED
          BY <5>3, <5>4 DEF GoodEntry
      <4>3. ASSUME NEW k \in Keys \ {own} PROVE GoodEntry(k)'
        <5>1. cache'[k] \in {cache[k], None}
          BY <2>2, <4>1, SetFacts
        <5> QED
          BY <5>1, EntryKept DEF CacheGood
      <4> QED
        BY <4>2, <4>3 DEF CacheGood
    <3> QED
      BY <2>1, <3>1, <3>2
  <2> QED
    BY <1>a, <2>1, <2>2, <2>4, <2>5, AnsweredFacts
<1>6. ASSUME NEW r \in Requests, Finish(r) PROVE SlotsGood' /\ CacheGood'
  <2>1. now' = now /\ cache' = cache
    BY <1>6 DEF Finish
  <2> QED
    BY <1>b, <1>6, <2>1, FinishFacts, SlotKept DEF SlotsGood
<1>7. CASE Tick
  <2>1. /\ now' = now + 1 /\ req' = req /\ cache' = cache
        /\ \A r \in Requests : /\ req[r].phase # "answered"
                               /\ req[r].phase \in {"validating", "validated"}
                                    => now - req[r].since < Slow
    BY <1>7 DEF Tick
  <2>2. ASSUME NEW r \in Requests
        PROVE  CallInTime(r)' /\ AnswerIsBack(r)' /\ GoodAnswer(r)'
    BY <2>1, Parts, TimeAssumption
       DEF SlotsGood, CallInTime, AnswerIsBack, GoodAnswer
  <2> QED
    BY <1>b, <2>1, <2>2 DEF SlotsGood
<1>8. CASE UNCHANGED vars
  BY <1>8 DEF vars, SlotsGood, CacheGood, CallInTime, AnswerIsBack, GoodAnswer,
              GoodEntry
<1> QED
  BY <1>1, <1>2, <1>3, <1>4, <1>5, <1>6, <1>7, <1>8 DEF Next

\* At the start nothing is stored and no request runs.
LEMMA StartsGood == Init => TypeOK /\ SlotsGood /\ CacheGood /\ CacheKeeps
<1> SUFFICES ASSUME Init PROVE TypeOK /\ SlotsGood /\ CacheGood /\ CacheKeeps
  OBVIOUS
<1>1. /\ now = 0 /\ cache = [k \in Keys |-> None]
      /\ stored = [k \in Keys |-> Never]
  BY DEF Init
<1>2. PICK u \in Users, t \in Targets :
        req = [r \in Requests |->
                [phase |-> "idle", user |-> u, target |-> t, force |-> FALSE,
                 since |-> 0, blind |-> FALSE, answer |-> None, at |-> 0]]
  BY DEF Init
<1>3. 0 \in 0..MaxTime
  BY TimeAssumption
<1>4. req \in [Requests -> Request] /\ \A r \in Requests : req[r].phase = "idle"
  BY <1>2, <1>3 DEF Request
<1>5. TypeOK
  BY <1>1, <1>3, <1>4 DEF TypeOK
<1>6. SlotsGood
  BY <1>4 DEF SlotsGood, CallInTime, AnswerIsBack, GoodAnswer
<1>7. CacheGood /\ CacheKeeps
  BY <1>1 DEF CacheGood, CacheKeeps, GoodEntry, KeptEntry
<1> QED
  BY <1>5, <1>6, <1>7

\* The invariant of every behaviour.
THEOREM CacheCorrect == Spec => [](TypeOK /\ SlotsGood /\ CacheGood)
<1>1. TypeOK /\ SlotsGood /\ CacheGood /\ [Next]_vars
        => (TypeOK /\ SlotsGood /\ CacheGood)'
  BY TypeStep, AnswersStep
<1> QED
  BY <1>1, StartsGood, PTL DEF Spec

\* TypeOK of every behaviour: the cache holds answers under keys, and a request
\* past its call holds the answer it was given.
THEOREM TypeCorrect == Spec => []TypeOK
  BY CacheCorrect, PTL

\* AnswerIsTheCallers of every behaviour: whoever else asks for the target, and
\* whatever the cache does, an answer is the one produced for its user.
THEOREM OwnAnswerOnly == Spec => []AnswerIsTheCallers
<1>1. SlotsGood => AnswerIsTheCallers
  BY DEF SlotsGood, GoodAnswer, AnswerIsTheCallers
<1> QED
  BY <1>1, CacheCorrect, PTL

\* AnswerAgeBounded of every behaviour: an answer is no older when given than
\* an entry's time limit and one validation call together.
THEOREM AnswerNeverTooOld == Spec => []AnswerAgeBounded
<1>1. SlotsGood => AnswerAgeBounded
  BY DEF SlotsGood, GoodAnswer, AnswerAgeBounded
<1> QED
  BY <1>1, CacheCorrect, PTL

\* ForcedAnswerIsFresh of every behaviour: a forced validation is answered with
\* one that began after it was asked for.
THEOREM ForcedMeansNew == Spec => []ForcedAnswerIsFresh
<1>1. SlotsGood => ForcedAnswerIsFresh
  BY DEF SlotsGood, GoodAnswer, ForcedAnswerIsFresh
<1> QED
  BY <1>1, CacheCorrect, PTL

----------------------------------------------------------------------------
(* What is stored recently is found.                                       *)

\* An entry that is kept, or dropped after its limit, is kept long enough.
LEMMA KeptLongEnough ==
  ASSUME TypeOK, NEW k \in Keys, KeptEntry(k), now' = now, stored' = stored,
         \/ cache'[k] = cache[k]
         \/ cache[k] # None /\ now > cache[k].exp
  PROVE  KeptEntry(k)'
<1> SUFFICES ASSUME stored[k] # Never, now <= stored[k] + TTL
             PROVE  cache'[k] # None /\ cache'[k].exp >= stored[k] + TTL
  BY DEF KeptEntry
<1>1. cache[k] # None /\ cache[k].exp >= stored[k] + TTL
  BY DEF KeptEntry
<1>2. /\ now \in Nat /\ TTL \in Nat /\ stored[k] \in Nat
      /\ cache[k].exp \in Nat
  BY <1>1, Parts, TimeAssumption DEF TypeOK
<1>3. ~(now > cache[k].exp)
  BY <1>1, <1>2
<1> QED
  BY <1>1, <1>3

\* Every step keeps what was stored recently.
LEMMA KeepsStep ==
  TypeOK /\ SlotsGood /\ CacheKeeps /\ [Next]_vars => CacheKeeps'
<1> SUFFICES ASSUME TypeOK, SlotsGood, CacheKeeps, [Next]_vars
             PROVE  CacheKeeps'
  OBVIOUS
<1>1. ASSUME UNCHANGED <<now, cache, stored>> PROVE CacheKeeps'
  BY <1>1 DEF CacheKeeps, KeptEntry
<1>2. ASSUME NEW r \in Requests, NEW u \in Users, NEW t \in Targets,
             NEW f \in BOOLEAN, missCachedAnswer(r, u, t, f)
      PROVE  CacheKeeps'
  <2>1. now' = now /\ stored' = stored
    BY <1>2 DEF missCachedAnswer
  <2>2. \A k \in Keys : \/ cache'[k] = cache[k]
                        \/ cache[k] # None /\ now > cache[k].exp
    BY <1>2, MissFacts, DroppedFacts
  <2> QED
    BY <2>1, <2>2, KeptLongEnough DEF CacheKeeps
<1>3. ASSUME NEW r \in Requests, storeAnswer(r) PROVE CacheKeeps'
  <2>1. CASE cache' = cache /\ stored' = stored
    BY <1>1, <1>3, <2>1 DEF storeAnswer
  <2>2. CASE /\ cache' = Set(Key(r), req[r].answer)
             /\ stored' = [stored EXCEPT ![Key(r)] = now]
    <3>1. PICK own \in Keys, a \in Answer :
            /\ cache' = Set(own, a) /\ stored' = [stored EXCEPT ![own] = now]
            /\ now' = now
      BY <1>3, <2>2, Parts DEF storeAnswer, SlotsGood, AnswerIsBack
    <3>2. KeptEntry(own)'
      <4>1. /\ cache'[own] = [val |-> a, exp |-> now + TTL]
            /\ [val |-> a, exp |-> now + TTL] \in Entry
        BY <3>1, SetFacts
      <4>2. cache'[own] # None /\ cache'[own].exp = now + TTL
        BY <4>1, EntryAssumption
      <4>3. stored'[own] = now
        BY <3>1 DEF TypeOK
      <4>4. now + TTL >= now + TTL
        BY Parts, TimeAssumption
      <4> QED
        BY <4>2, <4>3, <4>4 DEF KeptEntry
    <3>3. ASSUME NEW k \in Keys \ {own} PROVE KeptEntry(k)'
      <4>1. stored'[k] = stored[k]
        BY <3>1 DEF TypeOK
      <4>2. \/ cache'[k] = cache[k]
            \/ cache[k] # None /\ now > cache[k].exp
        BY <3>1, SetFacts, ZenonT(60)
      <4>3. CASE cache'[k] = cache[k]
        BY <3>1, <4>1, <4>3 DEF CacheKeeps, KeptEntry
      <4>4. CASE cache[k] # None /\ now > cache[k].exp
        <5> SUFFICES ASSUME stored[k] # Never, now <= stored[k] + TTL
                     PROVE  FALSE
          BY <3>1, <4>1 DEF KeptEntry
        <5>1. cache[k].exp >= stored[k] + TTL
          BY DEF CacheKeeps, KeptEntry
        <5>2. /\ now \in Nat /\ TTL \in Nat /\ stored[k] \in Nat
              /\ cache[k].exp \in Nat
          BY <4>4, Parts, TimeAssumption DEF TypeOK
        <5> QED
          BY <4>4, <5>1, <5>2
      <4> QED
        BY <4>2, <4>3, <4>4
    <3> QED
      BY <3>2, <3>3 DEF CacheKeeps
  <2> QED
    BY <1>3, <2>1, <2>2 DEF storeAnswer
<1>4. CASE Tick
  <2>1. now' = now + 1 /\ cache' = cache /\ stored' = stored
    BY <1>4 DEF Tick
  <2>2. ASSUME NEW k \in Keys, stored[k] # Never, now + 1 <= stored[k] + TTL
        PROVE  now <= stored[k] + TTL
    <3>1. now \in Nat /\ stored[k] \in Nat /\ TTL \in Nat
      BY <2>2, Parts, TimeAssumption DEF TypeOK
    <3> QED
      BY <2>2, <3>1
  <2> QED
    BY <2>1, <2>2 DEF CacheKeeps, KeptEntry
<1>5. CASE UNCHANGED vars
  BY <1>1, <1>5 DEF vars
<1> QED
  BY <1>1, <1>2, <1>3, <1>4, <1>5
     DEF Next, serveCachedAnswer, Validate, relayErr, Finish

\* A validation that begins unforced, on a cache that answered, found nothing
\* stored within the time limit.
LEMMA MissMeansOld ==
  TypeOK /\ CacheKeeps /\ [Next]_vars =>
    \A r \in Requests :
      /\ req[r].phase = "idle" /\ req'[r].phase = "validating"
      /\ ~req'[r].force /\ ~req'[r].blind
      => LET k == <<req'[r].user, req'[r].target>> IN
         stored[k] = Never \/ now > stored[k] + TTL
<1> SUFFICES ASSUME TypeOK, CacheKeeps, [Next]_vars, NEW r \in Requests,
                    req[r].phase = "idle", req'[r].phase = "validating",
                    ~req'[r].force, ~req'[r].blind
             PROVE  \/ stored[<<req'[r].user, req'[r].target>>] = Never
                    \/ now > stored[<<req'[r].user, req'[r].target>>] + TTL
  OBVIOUS
<1>1. PICK u \in Users, t \in Targets, f \in BOOLEAN : missCachedAnswer(r, u, t, f)
  <2>1. ASSUME NEW x \in Requests, NEW u \in Users, NEW t \in Targets,
               NEW f \in BOOLEAN, serveCachedAnswer(x, u, t, f)
        PROVE  FALSE
    <3>1. serveCachedAnswer(x, u, t, FALSE)
      BY <2>1, ServeUnforced
    <3> QED
      BY <3>1, ServeFacts
  <2>2. ASSUME NEW x \in Requests, Validate(x) PROVE FALSE
    BY <2>2, ValidateFacts
  <2>3. ASSUME NEW x \in Requests, NEW a \in Answer \cup {None},
               req' = Answered(x, a)
        PROVE  FALSE
    BY <2>3, AnsweredFacts
  <2>4. ASSUME NEW x \in Requests, storeAnswer(x) PROVE FALSE
    BY <2>3, <2>4, Parts DEF storeAnswer, Request
  <2>5. ASSUME NEW x \in Requests, relayErr(x) PROVE FALSE
    BY <2>3, <2>5 DEF relayErr
  <2>6. ASSUME NEW x \in Requests, Finish(x) PROVE FALSE
    BY <2>6, FinishFacts
  <2>7. ASSUME NEW x \in Requests, NEW u \in Users, NEW t \in Targets,
               NEW f \in BOOLEAN, missCachedAnswer(x, u, t, f)
        PROVE  x = r
    BY <2>7, MissFacts
  <2>8. req' # req
    OBVIOUS
  <2> QED
    BY <2>1, <2>2, <2>4, <2>5, <2>6, <2>7, <2>8 DEF Next, Tick, vars
<1>2. <<u, t>> \in Keys /\ answerKey(u, t) = <<u, t>>
  BY DEF answerKey, Keys
<1>3. req'[r].user = u /\ req'[r].target = t
  BY <1>1, MissFacts
<1>4. Get(<<u, t>>) = None
  <2>1. CASE req' = [req EXCEPT ![r] = Arrived(u, t, f)] /\ f
    BY <2>1 DEF Arrived, TypeOK
  <2>2. CASE req' = [req EXCEPT
                       ![r] = [Arrived(u, t, f) EXCEPT !.blind = TRUE]]
    BY <2>2 DEF Arrived, TypeOK
  <2> QED
    BY <1>1, <1>2, <2>1, <2>2 DEF missCachedAnswer
<1>5. ASSUME stored[<<u, t>>] # Never, ~(now > stored[<<u, t>>] + TTL)
      PROVE  FALSE
  <2>1. now \in Nat /\ stored[<<u, t>>] \in Nat /\ TTL \in Nat
    BY <1>2, <1>5, Parts, TimeAssumption DEF TypeOK
  <2>2. now <= stored[<<u, t>>] + TTL
    BY <1>5, <2>1
  <2>3. /\ cache[<<u, t>>] # None
        /\ cache[<<u, t>>].exp >= stored[<<u, t>>] + TTL
    BY <1>2, <1>5, <2>2 DEF CacheKeeps, KeptEntry
  <2>4. cache[<<u, t>>].exp \in Nat /\ ~(now > cache[<<u, t>>].exp)
    BY <1>2, <2>1, <2>2, <2>3, Parts
  <2> QED
    BY <1>4, <2>3, <2>4 DEF Get, Expired
<1> QED
  BY <1>3, <1>5

\* RecentIsNotRepeated of every behaviour: neither the sweep of Set nor the
\* drop of Get loses an entry that is still good.
THEOREM RecentIsFound == Spec => RecentIsNotRepeated
<1>1. TypeOK /\ SlotsGood /\ CacheKeeps /\ [Next]_vars => CacheKeeps'
  BY KeepsStep
<1>2. Spec => [](TypeOK /\ SlotsGood /\ CacheGood /\ CacheKeeps)
  BY <1>1, CacheCorrect, StartsGood, PTL DEF Spec
<1> QED
  BY <1>2, MissMeansOld, PTL DEF Spec, RecentIsNotRepeated

=============================================================================
