---------------------------- MODULE AnswerCache ----------------------------
(***************************************************************************)
(* The render-recent cache of validation answers (anscache.go,             *)
(* routes/anscache.go) and the two routes that use it: validateDocument    *)
(* (routes/documents.go) and signatureValidation (routes/signing.go).      *)
(*                                                                         *)
(* A validation takes tens of seconds, so requests for one target overlap: *)
(* the answer is looked up before the call to the signing service          *)
(* (external) and stored after it.  The cache is the in-process map; the   *)
(* Redis one differs in that a call to it may fail.                        *)
(***************************************************************************)
EXTENDS Integers

CONSTANTS Users, Targets,
          None,        \* no entry, no answer
          Requests,    \* slots for requests in flight
          TTL,         \* how long an entry lives
          Slow,        \* slowOpTimeout, the limit on one validation call
          MaxTime,     \* bound on the clock
          CacheFails   \* a call to the cache may fail (the Redis one)

ASSUME NoneAssumption == None \notin Users \cup Targets
ASSUME FailsAssumption == CacheFails \in BOOLEAN
ASSUME TimeAssumption == TTL \in Nat /\ Slow \in Nat /\ MaxTime \in Nat

VARIABLES
  now,       \* the clock
  cache,     \* cache[k]: the entry under key k, or None
  req,       \* req[r]: the request in the slot
  stored     \* history: stored[k]: when an answer last went into the cache

vars == <<now, cache, req, stored>>

Keys == Users \X Targets
Ages == 0..(MaxTime + TTL + Slow + 1)
Never == -1

\* An answer, the user it was produced for, and its validatedAt.
Answer == [user : Users, target : Targets, validatedAt : 0..MaxTime]

\* What the cache keeps under a key, and until when.
Entry == [val : Answer, exp : Ages]

ASSUME EntryAssumption == None \notin Entry

Request == [phase : {"idle", "validating", "validated", "answered"},
            user : Users, target : Targets, force : BOOLEAN,
            since : 0..MaxTime,      \* when it arrived
            blind : BOOLEAN,         \* the cache did not answer its lookup
            answer : Answer \cup {None},
            at : 0..MaxTime]         \* when it was answered

----------------------------------------------------------------------------
\* Faulty variant: the key leaves the user out.
answerKeyByTarget(u, t) == <<CHOOSE v \in Users : TRUE, t>>

\* answerKey: per user and target.
answerKey(u, t) == <<u, t>>

Key(r) == answerKey(req[r].user, req[r].target)

Expired(e) == now > e.exp

\* Faulty variant: the entry's time limit is not looked at.
GetAny(k) == cache[k]

\* Get: the entry, unless there is none or its time has passed.
Get(k) == IF cache[k] = None \/ Expired(cache[k]) THEN None ELSE cache[k]

\* Faulty variant: the sweep drops the entries that have not expired.
SetSweepingLive(k, a) ==
  [j \in Keys |-> IF j = k THEN [val |-> a, exp |-> now + TTL]
                  ELSE IF cache[j] # None /\ ~Expired(cache[j]) THEN None
                  ELSE cache[j]]

\* Set: drops the entries whose time has passed, then stores this one.
Set(k, a) ==
  [j \in Keys |-> IF j = k THEN [val |-> a, exp |-> now + TTL]
                  ELSE IF cache[j] # None /\ Expired(cache[j]) THEN None
                  ELSE cache[j]]

Answered(r, a) == [req EXCEPT ![r].phase = "answered", ![r].answer = a,
                              ![r].at = now]

----------------------------------------------------------------------------
(* validateDocument, signatureValidation.                                  *)

Arrived(u, t, f) ==
  [phase |-> "validating", user |-> u, target |-> t, force |-> f,
   since |-> now, blind |-> FALSE, answer |-> None, at |-> 0]

\* A lookup deletes the entry it finds expired.
Dropped(k) == [cache EXCEPT ![k] = Get(k)]

\* Faulty variant: a forced request takes the cached answer too.
serveCachedAlways(r, u, t, f) ==
  LET e == Get(answerKey(u, t)) IN
  /\ req[r].phase = "idle"
  /\ e # None
  /\ req' = [req EXCEPT ![r] = [Arrived(u, t, f) EXCEPT
                !.phase = "answered", !.answer = e.val, !.at = now]]
  /\ UNCHANGED <<now, cache, stored>>

\* serveCachedAnswer with an entry: it is the answer.
serveCachedAnswer(r, u, t, f) ==
  LET e == Get(answerKey(u, t)) IN
  /\ req[r].phase = "idle"
  /\ ~f /\ e # None
  /\ req' = [req EXCEPT ![r] = [Arrived(u, t, f) EXCEPT
                !.phase = "answered", !.answer = e.val, !.at = now]]
  /\ UNCHANGED <<now, cache, stored>>

\* serveCachedAnswer without: forced, nothing live under the key, or the cache
\* did not answer.  The validation begins.
missCachedAnswer(r, u, t, f) ==
  LET k == answerKey(u, t) IN
  /\ req[r].phase = "idle"
  /\ \/ f /\ UNCHANGED cache /\ req' = [req EXCEPT ![r] = Arrived(u, t, f)]
     \/ /\ ~f /\ Get(k) = None
        /\ cache' = Dropped(k)
        /\ req' = [req EXCEPT ![r] = Arrived(u, t, f)]
     \/ /\ ~f /\ CacheFails /\ UNCHANGED cache
        /\ req' = [req EXCEPT ![r] = [Arrived(u, t, f) EXCEPT !.blind = TRUE]]
  /\ UNCHANGED <<now, stored>>

\* The signing service (external) checks that the user may see the target and
\* validates it.
Validate(r) ==
  /\ req[r].phase = "validating"
  /\ req' = [req EXCEPT ![r].phase = "validated",
                        ![r].answer = [user |-> req[r].user,
                                       target |-> req[r].target,
                                       validatedAt |-> now]]
  /\ UNCHANGED <<now, cache, stored>>

\* The call is refused, fails or times out: relayed, nothing is stored.
relayErr(r) ==
  /\ req[r].phase \in {"validating", "validated"}
  /\ req' = Answered(r, None)
  /\ UNCHANGED <<now, cache, stored>>

\* The answer is back: storeAnswer, best effort, then the response.
storeAnswer(r) ==
  LET a == req[r].answer IN
  /\ req[r].phase = "validated"
  /\ \/ /\ cache' = Set(Key(r), a)
        /\ stored' = [stored EXCEPT ![Key(r)] = now]
     \/ CacheFails /\ UNCHANGED <<cache, stored>>
  /\ req' = Answered(r, a)
  /\ UNCHANGED now

\* The response is on its way and the slot is free.
Finish(r) ==
  /\ req[r].phase = "answered"
  /\ req' = [req EXCEPT ![r] = [@ EXCEPT !.phase = "idle", !.answer = None,
                                !.force = FALSE, !.since = 0, !.at = 0,
                                !.blind = FALSE]]
  /\ UNCHANGED <<now, cache, stored>>

----------------------------------------------------------------------------
\* Time passes; no validation call outlives Slow.
Tick ==
  /\ now < MaxTime
  /\ \A r \in Requests :
       req[r].phase \in {"validating", "validated"} => now - req[r].since < Slow
  /\ \A r \in Requests : req[r].phase # "answered"
  /\ now' = now + 1
  /\ UNCHANGED <<cache, req, stored>>

Init ==
  /\ now = 0
  /\ cache = [k \in Keys |-> None]
  /\ \E u \in Users, t \in Targets :
       req = [r \in Requests |->
               [phase |-> "idle", user |-> u, target |-> t, force |-> FALSE,
                since |-> 0, blind |-> FALSE, answer |-> None, at |-> 0]]
  /\ stored = [k \in Keys |-> Never]

Next ==
  \/ \E r \in Requests :
       \/ \E u \in Users, t \in Targets, f \in BOOLEAN :
            serveCachedAnswer(r, u, t, f) \/ missCachedAnswer(r, u, t, f)
       \/ Validate(r) \/ relayErr(r) \/ storeAnswer(r) \/ Finish(r)
  \/ Tick

Spec == Init /\ [][Next]_vars

----------------------------------------------------------------------------
(* Properties.                                                             *)

\* Type invariant of the cache and of the requests in flight.
TypeOK ==
  /\ now \in 0..MaxTime
  /\ cache \in [Keys -> Entry \cup {None}]
  /\ req \in [Requests -> Request]
  /\ stored \in [Keys -> (0..MaxTime) \cup {Never}]

\* An answer given to a user was produced for that user and for that target,
\* so the downstream ownership check has let it through: "a cached answer can
\* never cross users" (AnswerCache).
AnswerIsTheCallers ==
  \A r \in Requests :
    req[r].phase = "answered" /\ req[r].answer # None
      => /\ req[r].answer.user = req[r].user
         /\ req[r].answer.target = req[r].target

\* However requests overlap, no answer is older when given than the cache's
\* time limit and one validation call together: the longest a document may
\* have been archived, or access to it lost, without the answer showing it.
AnswerAgeBounded ==
  \A r \in Requests :
    req[r].phase = "answered" /\ req[r].answer # None
      => req[r].at - req[r].answer.validatedAt <= TTL + Slow

\* An explicit re-validation is answered with one that began after it was
\* asked for ("bypasses the cache", routes/anscache.go).
ForcedAnswerIsFresh ==
  \A r \in Requests :
    req[r].phase = "answered" /\ req[r].force /\ req[r].answer # None
      => req[r].answer.validatedAt >= req[r].since

\* A repeated request whose answer was stored within the time limit does not
\* cost another validation, unless it asks for one or the cache fails it.
RecentIsNotRepeated ==
  [][\A r \in Requests :
       /\ req[r].phase = "idle" /\ req'[r].phase = "validating"
       /\ ~req'[r].force /\ ~req'[r].blind
       => LET k == <<req'[r].user, req'[r].target>> IN
          stored[k] = Never \/ now > stored[k] + TTL]_vars

=============================================================================
