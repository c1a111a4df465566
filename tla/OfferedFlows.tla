---------------------------- MODULE OfferedFlows ----------------------------
(***************************************************************************)
(* What the signing service offers (clients/offer.go): one remembered      *)
(* answer for the whole process, behind a mutex that Get holds across its  *)
(* call to the signing service (external), and the use /me makes of it     *)
(* (routes/session.go offeredOnly).                                        *)
(*                                                                         *)
(* Time only passes while every caller waits for the call in progress: a   *)
(* mutex hand-over takes no time next to a call of seconds.                *)
(***************************************************************************)
EXTENDS Integers

CONSTANTS Callers,    \* requests that ask for the offered flows
          None,       \* nobody; no answer yet
          TTL,        \* how long an answer, or a failure, is remembered
          Timeout,    \* offerCallTimeout
          MaxTime,    \* bound on the clock
          MaxOffer    \* bound on the changes of what the service runs

ASSUME NoneAssumption == None \notin Callers /\ None \notin Nat
ASSUME TTLAssumption == TTL \in Nat \ {0} /\ Timeout \in Nat \ {0}
ASSUME BoundAssumption == MaxTime \in Nat /\ MaxOffer \in Nat

VARIABLES
  now,      \* the clock
  offer,    \* what the signing service runs, by version
  mu,       \* the caller that holds the mutex, or None
  asked,    \* OfferedFlows.asked
  at,       \* OfferedFlows.at
  flows,    \* OfferedFlows.flows: a version, or None for nil
  err,      \* OfferedFlows.err
  pc,       \* pc[c]: where caller c is
  since,    \* since[c]: when caller c called Get
  began,    \* when the call to the signing service last began
  got,      \* got[c]: what Get returned, and how old it was
  known     \* history: when the signing service last answered

vars == <<now, offer, mu, asked, at, flows, err, pc, since, began, got, known>>

Errors == {"nil", "stale", "failed"}
Nothing == [flows |-> None, err |-> "failed", age |-> 0]

----------------------------------------------------------------------------
\* A request reaches Get.
Call(c) ==
  /\ pc[c] = "idle"
  /\ pc' = [pc EXCEPT ![c] = "waiting"]
  /\ since' = [since EXCEPT ![c] = now]
  /\ UNCHANGED <<now, offer, mu, asked, at, flows, err, began, got, known>>

\* The last attempt is recent: it is not repeated.
Recent == asked /\ now - at < TTL

Returned(c, f, e, k) ==
  /\ got' = [got EXCEPT ![c] = [flows |-> f, err |-> e, age |-> now - k]]
  /\ pc' = [pc EXCEPT ![c] = "returned"]

\* Get under the mutex, with a recent attempt: its answer and its error.
Remembered(c) ==
  /\ pc[c] = "waiting" /\ mu = None
  /\ Recent
  /\ Returned(c, flows, err, known)
  /\ UNCHANGED <<now, offer, mu, asked, at, flows, err, since, began, known>>

\* Get under the mutex, which it keeps while the signing service is asked.
Flows(c) ==
  /\ pc[c] = "waiting" /\ mu = None
  /\ ~Recent
  /\ mu' = c
  /\ pc' = [pc EXCEPT ![c] = "asking"]
  /\ began' = now
  /\ UNCHANGED <<now, offer, asked, at, flows, err, since, got, known>>

\* Faulty variant: the attempt is stamped with the time it began.
AttemptedAtStart(c) ==
  /\ pc[c] = "asking"
  /\ mu' = None
  /\ asked' = TRUE /\ at' = began

\* The attempt is over, and so is Get.
Attempted(c) ==
  /\ pc[c] = "asking"
  /\ mu' = None
  /\ asked' = TRUE /\ at' = now

\* The signing service answers with what it runs now.
FlowsAnswer(c) ==
  /\ Attempted(c)
  /\ flows' = offer /\ err' = "nil" /\ known' = now
  /\ Returned(c, offer, "nil", now)
  /\ UNCHANGED <<now, offer, since, began>>

\* Faulty variant: a failure is not remembered, only its answer.
FlowsFailUnstamped(c) ==
  /\ pc[c] = "asking"
  /\ mu' = None
  /\ err' = IF flows # None THEN "stale" ELSE "failed"
  /\ Returned(c, flows, err', known)
  /\ UNCHANGED <<now, offer, asked, at, flows, since, began, known>>

\* Faulty variant: a failure leaves the error of the last attempt.
FlowsFailQuiet(c) ==
  /\ Attempted(c)
  /\ Returned(c, flows, err, known)
  /\ UNCHANGED <<now, offer, flows, err, since, began, known>>

\* Faulty variant: a failure forgets the last answer.
FlowsFailForgets(c) ==
  /\ Attempted(c)
  /\ flows' = None /\ err' = "failed"
  /\ Returned(c, None, "failed", known)
  /\ UNCHANGED <<now, offer, since, began, known>>

\* Faulty variant: an early return that leaves the mutex locked.
FlowsFailLocked(c) ==
  /\ pc[c] = "asking"
  /\ asked' = TRUE /\ at' = now
  /\ err' = IF flows # None THEN "stale" ELSE "failed"
  /\ Returned(c, flows, err', known)
  /\ UNCHANGED <<now, offer, mu, flows, since, began, known>>

\* The call fails or times out: the last answer stays, marked as stale.
FlowsFail(c) ==
  /\ Attempted(c)
  /\ err' = IF flows # None THEN "stale" ELSE "failed"
  /\ Returned(c, flows, err', known)
  /\ UNCHANGED <<now, offer, flows, since, began, known>>

\* offeredOnly narrows the person's flows with the answer, if there is one.
Leave(c) ==
  /\ pc[c] = "returned"
  /\ pc' = [pc EXCEPT ![c] = "idle"]
  /\ got' = [got EXCEPT ![c] = Nothing]
  /\ UNCHANGED <<now, offer, mu, asked, at, flows, err, since, began, known>>

----------------------------------------------------------------------------
\* The signing service is deployed anew with other flows.
Redeploy ==
  /\ offer < MaxOffer
  /\ offer' = offer + 1
  /\ UNCHANGED <<now, mu, asked, at, flows, err, pc, since, began, got, known>>

\* Time passes during a call, at most Timeout of it, or between requests.
Tick ==
  /\ now < MaxTime
  /\ \A c \in Callers : pc[c] = "waiting" => mu # None
  /\ \A c \in Callers : pc[c] = "asking" => now - began < Timeout
  /\ now' = now + 1
  /\ UNCHANGED <<offer, mu, asked, at, flows, err, pc, since, began, got, known>>

Init ==
  /\ now = 0 /\ offer = 0
  /\ mu = None /\ asked = FALSE /\ at = 0 /\ flows = None /\ err = "nil"
  /\ pc = [c \in Callers |-> "idle"]
  /\ since = [c \in Callers |-> 0]
  /\ began = -TTL   \* long ago
  /\ got = [c \in Callers |-> Nothing]
  /\ known = 0

Next ==
  \/ \E c \in Callers :
       \/ Call(c) \/ Remembered(c) \/ Flows(c)
       \/ FlowsAnswer(c) \/ FlowsFail(c) \/ Leave(c)
  \/ Redeploy
  \/ Tick

Spec == Init /\ [][Next]_vars

\* The mutex is handed to every waiting caller in the end (Go's mutex does not
\* starve a waiter) and the call has a time limit.
Fairness ==
  \A c \in Callers :
    /\ SF_vars(Remembered(c) \/ Flows(c))
    /\ WF_vars(FlowsAnswer(c) \/ FlowsFail(c))

FairSpec == Spec /\ Fairness

----------------------------------------------------------------------------
(* Properties.                                                             *)

\* Type invariant of the remembered answer and its callers; the caller that
\* asks the signing service is the one that holds the mutex.
TypeOK ==
  /\ now \in 0..MaxTime /\ offer \in 0..MaxOffer
  /\ mu \in Callers \cup {None}
  /\ asked \in BOOLEAN /\ at \in 0..MaxTime
  /\ flows \in (0..MaxOffer) \cup {None} /\ err \in Errors
  /\ pc \in [Callers -> {"idle", "waiting", "asking", "returned"}]
  /\ since \in [Callers -> 0..MaxTime]
  /\ began \in (-TTL)..MaxTime /\ known \in 0..MaxTime
  /\ got \in [Callers -> [flows : (0..MaxOffer) \cup {None}, err : Errors,
                         age : 0..MaxTime]]
  /\ \A c \in Callers : pc[c] = "asking" <=> mu = c

\* The signing service is asked at most once per TTL, whatever came of the
\* last attempt and however many requests wait ("asking it at most once per
\* ttl", Get).
AskedOncePerTTL ==
  [][\A c \in Callers :
       pc[c] # "asking" /\ pc'[c] = "asking" => now - began >= TTL]_vars

\* No request waits longer than one call to the signing service, its own or
\* the one it found in progress: an unreachable service "costs one timeout
\* per ttl, not one per page load" (OfferedFlows), also for those in line.
WaitsForOneCall ==
  \A c \in Callers :
    pc[c] \in {"waiting", "asking"} => now - since[c] <= Timeout

\* Flows returned without an error were answered by the signing service less
\* than TTL ago; older ones come with ErrOfferStale.
UnmarkedAnswerIsRecent ==
  \A c \in Callers :
    pc[c] = "returned" /\ got[c].err = "nil"
      => got[c].flows # None /\ got[c].age < TTL

\* Once the signing service has answered, its last answer is never forgotten:
\* offeredOnly goes back to every permitted flow only before the first one.
LastAnswerKept == [][flows # None => flows' # None]_vars

\* Every request that asks for the flows is answered.
EveryCallerAnswered == \A c \in Callers : pc[c] = "waiting" ~> pc[c] = "returned"

=============================================================================
