------------------------- MODULE OfferedFlowsProofs -------------------------
(***************************************************************************)
(* What TLAPS proves of OfferedFlows, for any number of callers, any time  *)
(* to remember an answer and any limit on the call.                        *)
(***************************************************************************)
EXTENDS OfferedFlows, TLAPS

----------------------------------------------------------------------------
(* The inductive invariant.                                                *)

\* While somebody asks, nobody in line has waited since before the call began,
\* and the call is within its limit.
LineWhileAsking ==
  mu # None =>
    /\ began <= now /\ now - began <= Timeout
    /\ \A c \in Callers : pc[c] \in {"waiting", "asking"} => began <= since[c]

\* While nobody asks, whoever waits has just come, or the attempt they waited
\* for has just ended and is remembered.
LineWhileIdle ==
  mu = None =>
    \A c \in Callers : pc[c] \in {"waiting", "asking"} =>
      /\ now - since[c] <= Timeout
      /\ since[c] = now \/ (asked /\ at = now)

\* The remembered attempt is not older than its call, nor younger than now.
AttemptIsDated ==
  /\ at <= now
  /\ mu = None => \/ asked /\ began <= at
                  \/ ~asked /\ began = -TTL

\* An unmarked answer is that of the last attempt.
UnmarkedIsLast == asked /\ err = "nil" => flows # None /\ known = at

Inv == /\ LineWhileAsking /\ LineWhileIdle /\ AttemptIsDated /\ UnmarkedIsLast
       /\ UnmarkedAnswerIsRecent /\ \A c \in Callers : since[c] <= now
       /\ known <= now

----------------------------------------------------------------------------
\* What the variables are, as numbers.
LEMMA Numbers ==
  ASSUME TypeOK
  PROVE  /\ now \in Nat /\ at \in Nat /\ began \in Int /\ known \in Nat
         /\ offer \in 0..MaxOffer /\ offer # None /\ TTL \in Nat /\ TTL > 0
         /\ Timeout \in Nat /\ Timeout > 0 /\ MaxTime \in Nat
         /\ \A c \in Callers : since[c] \in Nat
  BY TTLAssumption, BoundAssumption, NoneAssumption DEF TypeOK

\* TypeOK is inductive, given the ages that are returned.
LEMMA TypeStep == TypeOK /\ Inv /\ [Next]_vars => TypeOK'
<1> SUFFICES ASSUME TypeOK, Inv, [Next]_vars PROVE TypeOK'
  OBVIOUS
<1> USE TTLAssumption, BoundAssumption, NoneAssumption
<1>n. 0 \in 0..MaxTime /\ now - known \in 0..MaxTime
  BY DEF TypeOK, Inv
<1>1. ASSUME NEW c \in Callers, Call(c) PROVE TypeOK'
  BY <1>1 DEF Call, TypeOK
<1>2. ASSUME NEW c \in Callers, Remembered(c) PROVE TypeOK'
  BY <1>2, <1>n DEF Remembered, Returned, TypeOK
<1>3. ASSUME NEW c \in Callers, Flows(c) PROVE TypeOK'
  BY <1>3 DEF Flows, TypeOK
<1>4. ASSUME NEW c \in Callers, FlowsAnswer(c) PROVE TypeOK'
  BY <1>4, <1>n DEF FlowsAnswer, Attempted, Returned, TypeOK, Errors
<1>5. ASSUME NEW c \in Callers, FlowsFail(c) PROVE TypeOK'
  BY <1>5, <1>n DEF FlowsFail, Attempted, Returned, TypeOK, Errors
<1>6. ASSUME NEW c \in Callers, Leave(c) PROVE TypeOK'
  BY <1>6, <1>n DEF Leave, Nothing, TypeOK, Errors
<1>7. CASE Redeploy
  BY <1>7 DEF Redeploy, TypeOK
<1>8. CASE Tick
  BY <1>8 DEF Tick, TypeOK
<1>9. CASE UNCHANGED vars
  BY <1>9 DEF vars, TypeOK
<1> QED
  BY <1>1, <1>2, <1>3, <1>4, <1>5, <1>6, <1>7, <1>8, <1>9 DEF Next

\* Every step keeps the order of the line and the dates of the attempt.
LEMMA InvStep == TypeOK /\ TypeOK' /\ Inv /\ [Next]_vars => Inv'
<1> SUFFICES ASSUME TypeOK, TypeOK', Inv, [Next]_vars PROVE Inv'
  OBVIOUS
<1>n. /\ now \in Nat /\ at \in Nat /\ began \in Int /\ known \in Nat
      /\ offer # None /\ TTL \in Nat /\ TTL > 0 /\ Timeout \in Nat
      /\ \A c \in Callers : since[c] \in Nat
  BY Numbers
<1>t. /\ pc \in [Callers -> {"idle", "waiting", "asking", "returned"}]
      /\ \A c \in Callers : pc[c] = "asking" <=> mu = c
      /\ None \notin Callers
  BY NoneAssumption DEF TypeOK
<1>1. ASSUME NEW c \in Callers, Call(c) PROVE Inv'
  <2>1. /\ UNCHANGED <<now, mu, asked, at, flows, err, began, got, known>>
        /\ pc[c] = "idle" /\ pc' = [pc EXCEPT ![c] = "waiting"]
        /\ since' = [since EXCEPT ![c] = now]
    BY <1>1 DEF Call
  <2>2. \A x \in Callers : /\ pc'[x] = IF x = c THEN "waiting" ELSE pc[x]
                           /\ since'[x] = IF x = c THEN now ELSE since[x]
    BY <2>1 DEF TypeOK
  <2>3. now - now <= Timeout
    BY <1>n
  <2>4. LineWhileAsking' /\ LineWhileIdle'
    BY <1>n, <2>1, <2>2, <2>3 DEF Inv, LineWhileAsking, LineWhileIdle
  <2>5. UnmarkedAnswerIsRecent'
    BY <2>1, <2>2 DEF Inv, UnmarkedAnswerIsRecent
  <2> QED
    BY <1>n, <2>1, <2>2, <2>4, <2>5 DEF Inv, AttemptIsDated, UnmarkedIsLast
<1>2. ASSUME NEW c \in Callers, Remembered(c) PROVE Inv'
  <2>1. /\ UNCHANGED <<now, mu, asked, at, flows, err, since, began, known>>
        /\ pc[c] = "waiting" /\ Recent
        /\ pc' = [pc EXCEPT ![c] = "returned"]
        /\ got' = [got EXCEPT ![c] = [flows |-> flows, err |-> err,
                                      age |-> now - known]]
    BY <1>2 DEF Remembered, Returned
  <2>2. \A x \in Callers \ {c} : pc'[x] = pc[x] /\ got'[x] = got[x]
    BY <2>1 DEF TypeOK
  <2>3. /\ pc'[c] = "returned" /\ got'[c].flows = flows /\ got'[c].err = err
        /\ got'[c].age = now - known
    BY <2>1 DEF TypeOK
  <2>4. err = "nil" => flows # None /\ now - known < TTL
    BY <2>1 DEF Recent, Inv, UnmarkedIsLast
  <2>5. UnmarkedAnswerIsRecent'
    BY <2>2, <2>3, <2>4 DEF Inv, UnmarkedAnswerIsRecent
  <2>6. LineWhileAsking' /\ LineWhileIdle'
    BY <2>1, <2>2, <2>3 DEF Inv, LineWhileAsking, LineWhileIdle
  <2> QED
    BY <2>1, <2>5, <2>6 DEF Inv, AttemptIsDated, UnmarkedIsLast
<1>3. ASSUME NEW c \in Callers, Flows(c) PROVE Inv'
  <2>1. /\ UNCHANGED <<now, asked, at, flows, err, since, got, known>>
        /\ pc[c] = "waiting" /\ mu = None /\ ~Recent
        /\ pc' = [pc EXCEPT ![c] = "asking"] /\ mu' = c /\ began' = now
    BY <1>3 DEF Flows
  <2>2. \A x \in Callers : pc'[x] = IF x = c THEN "asking" ELSE pc[x]
    BY <2>1 DEF TypeOK
  <2>3. ~(asked /\ at = now)
    BY <1>n, <2>1 DEF Recent
  <2>4. \A x \in Callers : pc[x] \in {"waiting", "asking"} => since[x] = now
    BY <2>1, <2>3 DEF Inv, LineWhileIdle
  <2>5. LineWhileAsking'
    BY <1>n, <2>1, <2>2, <2>4 DEF LineWhileAsking
  <2>6. LineWhileIdle' /\ AttemptIsDated'
    BY <1>t, <2>1 DEF LineWhileIdle, AttemptIsDated, Inv
  <2>7. UnmarkedAnswerIsRecent'
    BY <2>1, <2>2 DEF Inv, UnmarkedAnswerIsRecent
  <2> QED
    BY <2>1, <2>5, <2>6, <2>7 DEF Inv, UnmarkedIsLast
<1>4. ASSUME NEW c \in Callers, FlowsAnswer(c) \/ FlowsFail(c) PROVE Inv'
  <2>1. /\ UNCHANGED <<now, since, began>>
        /\ pc[c] = "asking" /\ mu' = None /\ asked' = TRUE /\ at' = now
        /\ pc' = [pc EXCEPT ![c] = "returned"]
        /\ known' = now \/ known' = known
    BY <1>4 DEF FlowsAnswer, FlowsFail, Attempted, Returned
  <2>2. \A x \in Callers : pc'[x] = IF x = c THEN "returned" ELSE pc[x]
    BY <2>1 DEF TypeOK
  <2>3. mu # None
    BY <1>t, <2>1
  <2>4. LineWhileAsking' /\ AttemptIsDated'
    BY <1>n, <2>1, <2>3 DEF Inv, LineWhileAsking, AttemptIsDated
  <2>5. LineWhileIdle'
    <3>1. ASSUME NEW x \in Callers, pc'[x] \in {"waiting", "asking"}
          PROVE  now - since[x] <= Timeout
      <4>1. began <= since[x] /\ now - began <= Timeout
        BY <2>2, <2>3, <3>1 DEF Inv, LineWhileAsking
      <4> QED
        BY <1>n, <4>1
    <3> QED
      BY <2>1, <3>1 DEF LineWhileIdle
  <2>6. UnmarkedIsLast'
    <3>1. CASE FlowsAnswer(c)
      BY <1>n, <2>1, <3>1 DEF FlowsAnswer, UnmarkedIsLast
    <3>2. CASE FlowsFail(c)
      BY <3>2 DEF FlowsFail, UnmarkedIsLast
    <3> QED
      BY <1>4, <3>1, <3>2
  <2>7. UnmarkedAnswerIsRecent'
    <3>1. /\ \A x \in Callers \ {c} : got'[x] = got[x]
          /\ got'[c].err = "nil" => got'[c].flows # None /\ got'[c].age < TTL
      <4>1. CASE FlowsAnswer(c)
        <5>1. got' = [got EXCEPT ![c] = [flows |-> offer, err |-> "nil",
                                         age |-> now - now]]
          BY <4>1 DEF FlowsAnswer, Returned
        <5>2. now - now < TTL
          BY <1>n
        <5> QED
          BY <1>n, <5>1, <5>2 DEF TypeOK
      <4>2. CASE FlowsFail(c)
        <5>1. PICK e \in {"stale", "failed"} :
                got' = [got EXCEPT ![c] = [flows |-> flows, err |-> e,
                                           age |-> now - known]]
          BY <4>2 DEF FlowsFail, Returned
        <5> QED
          BY <5>1 DEF TypeOK
      <4> QED
        BY <1>4, <4>1, <4>2
    <3> QED
      BY <2>2, <3>1 DEF Inv, UnmarkedAnswerIsRecent
  <2> QED
    BY <1>n, <2>1, <2>4, <2>5, <2>6, <2>7 DEF Inv
<1>5. ASSUME NEW c \in Callers, Leave(c) PROVE Inv'
  <2>1. /\ UNCHANGED <<now, mu, asked, at, flows, err, since, began, known>>
        /\ \A x \in Callers : pc'[x] = IF x = c THEN "idle" ELSE pc[x]
        /\ \A x \in Callers \ {c} : got'[x] = got[x]
    BY <1>5 DEF Leave, TypeOK
  <2> QED
    BY <2>1 DEF Inv, LineWhileAsking, LineWhileIdle, AttemptIsDated,
                UnmarkedIsLast, UnmarkedAnswerIsRecent
<1>6. CASE Redeploy
  BY <1>6 DEF Redeploy, Inv, LineWhileAsking, LineWhileIdle, AttemptIsDated,
              UnmarkedIsLast, UnmarkedAnswerIsRecent
<1>7. CASE Tick
  <2>1. /\ now' = now + 1
        /\ UNCHANGED <<mu, asked, at, flows, err, pc, since, began, got, known>>
        /\ \A c \in Callers : pc[c] = "waiting" => mu # None
        /\ \A c \in Callers : pc[c] = "asking" => now - began < Timeout
    BY <1>7 DEF Tick
  <2>2. mu # None => now - began < Timeout
    BY <1>t, <2>1 DEF TypeOK
  <2>3. LineWhileAsking'
    <3>1. mu # None => began <= now + 1 /\ (now + 1) - began <= Timeout
      BY <1>n, <2>2 DEF Inv, LineWhileAsking
    <3>2. mu # None => \A c \in Callers :
                         pc[c] \in {"waiting", "asking"} => began <= since[c]
      BY DEF Inv, LineWhileAsking
    <3> QED
      BY <2>1, <3>1, <3>2 DEF LineWhileAsking
  <2>4. LineWhileIdle'
    BY <1>t, <2>1 DEF LineWhileIdle
  <2> QED
    BY <1>n, <2>1, <2>3, <2>4
       DEF Inv, AttemptIsDated, UnmarkedIsLast, UnmarkedAnswerIsRecent
<1>8. CASE UNCHANGED vars
  BY <1>8 DEF vars, Inv, LineWhileAsking, LineWhileIdle, AttemptIsDated,
              UnmarkedIsLast, UnmarkedAnswerIsRecent
<1> QED
  BY <1>1, <1>2, <1>3, <1>4, <1>5, <1>6, <1>7, <1>8 DEF Next

\* At the start nobody has asked.
LEMMA StartsWell == Init => TypeOK /\ Inv
<1> SUFFICES ASSUME Init PROVE TypeOK /\ Inv
  OBVIOUS
<1>1. 0 \in 0..MaxTime /\ 0 \in 0..MaxOffer /\ -TTL \in (-TTL)..MaxTime
  BY TTLAssumption, BoundAssumption
<1>2. TypeOK
  BY <1>1, NoneAssumption DEF Init, TypeOK, Nothing, Errors
<1>3. Inv
  BY <1>2, Numbers DEF Init, Inv, LineWhileAsking, LineWhileIdle,
     AttemptIsDated, UnmarkedIsLast, UnmarkedAnswerIsRecent
<1> QED
  BY <1>2, <1>3

\* The invariant of every behaviour.
THEOREM LineInOrder == Spec => [](TypeOK /\ Inv)
<1>1. TypeOK /\ Inv /\ [Next]_vars => (TypeOK /\ Inv)'
  BY TypeStep, InvStep
<1> QED
  BY <1>1, StartsWell, PTL DEF Spec

\* WaitsForOneCall of every behaviour: however many requests are in line and
\* whatever comes of the call, none waits longer than one call's limit.
THEOREM OneCallAtMost == Spec => []WaitsForOneCall
<1>1. ASSUME TypeOK, Inv, NEW c \in Callers, pc[c] \in {"waiting", "asking"}
      PROVE  now - since[c] <= Timeout
  <2>1. CASE mu = None
    BY <1>1, <2>1 DEF Inv, LineWhileIdle
  <2>2. CASE mu # None
    <3>1. began <= since[c] /\ now - began <= Timeout
      BY <1>1, <2>2 DEF Inv, LineWhileAsking
    <3>2. /\ now \in Nat /\ began \in Int /\ Timeout \in Nat
          /\ since[c] \in Nat
      BY <1>1, Numbers
    <3> QED
      BY <3>1, <3>2
  <2> QED
    BY <2>1, <2>2
<1>2. TypeOK /\ Inv => WaitsForOneCall
  BY <1>1 DEF WaitsForOneCall
<1> QED
  BY <1>2, LineInOrder, PTL

\* UnmarkedAnswerIsRecent of every behaviour: only ErrOfferStale brings an
\* answer that is not recent.
THEOREM OldAnswersAreMarked == Spec => []UnmarkedAnswerIsRecent
<1>1. Inv => UnmarkedAnswerIsRecent
  BY DEF Inv
<1> QED
  BY <1>1, LineInOrder, PTL

\* AskedOncePerTTL of every behaviour: a call begins no sooner than TTL after
\* the last one did, answered or failed.
THEOREM OneCallPerTTL == Spec => AskedOncePerTTL
<1>1. ASSUME TypeOK, Inv, [Next]_vars, NEW c \in Callers,
             pc[c] # "asking", pc'[c] = "asking"
      PROVE  now - began >= TTL
  <2>1. mu = None /\ ~Recent
    <3>1. ASSUME NEW x \in Callers, Flows(x) PROVE mu = None /\ ~Recent
      BY <3>1 DEF Flows
    <3>2. ASSUME NEW x \in Callers,
                 Call(x) \/ Remembered(x) \/ FlowsAnswer(x) \/ FlowsFail(x)
                   \/ Leave(x)
          PROVE  FALSE
      BY <1>1, <3>2 DEF Call, Remembered, FlowsAnswer, FlowsFail, Leave,
                        Returned, TypeOK
    <3>3. ~(Redeploy \/ Tick \/ UNCHANGED vars)
      BY <1>1 DEF Redeploy, Tick, vars
    <3> QED
      BY <1>1, <3>1, <3>2, <3>3 DEF Next
  <2>2. CASE asked
    BY <1>1, <2>1, <2>2, Numbers DEF Recent, Inv, AttemptIsDated
  <2>3. CASE ~asked
    BY <1>1, <2>1, <2>3, Numbers DEF Inv, AttemptIsDated
  <2> QED
    BY <2>2, <2>3
<1>2. TypeOK /\ Inv /\ [Next]_vars =>
        \A c \in Callers :
          pc[c] # "asking" /\ pc'[c] = "asking" => now - began >= TTL
  BY <1>1
<1> QED
  BY <1>2, LineInOrder, PTL DEF Spec, AskedOncePerTTL

\* LastAnswerKept of every behaviour: no step but an answer changes the flows,
\* and an answer brings others.
THEOREM NeverForgotten == Spec => LastAnswerKept
<1>1. TypeOK /\ [Next]_vars => (flows # None => flows' # None)
  BY Numbers DEF Next, Call, Remembered, Flows, FlowsAnswer, FlowsFail, Leave,
     Attempted, Returned, Redeploy, Tick, vars
<1> QED
  BY <1>1, LineInOrder, PTL DEF Spec, LastAnswerKept

=============================================================================
