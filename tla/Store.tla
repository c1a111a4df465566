------------------------------- MODULE Store -------------------------------
(***************************************************************************)
(* What the session store promises the routes (the Store interface of      *)
(* session/session.go): login flows that are taken once, and sessions that *)
(* are put, read and deleted, each with a bounded lifetime.                *)
(*                                                                         *)
(* A call takes effect between its begin and its answer.  A backend behind *)
(* a network may carry a call out again when an answer was lost, and may   *)
(* answer an error whether or not the call took effect.                    *)
(***************************************************************************)
EXTENDS Integers

CONSTANTS Callers,    \* requests that use the store, one call at a time each
          FlowKeys,   \* keys of login flows (FlowKey)
          Sids,       \* session ids
          Values,     \* what is stored
          None,       \* no entry, no key, no value, no operation
          Error,      \* the answer of a call that failed
          FlowTTL,    \* lifetime of a flow
          SessionTTL, \* lifetime of a session
          MaxTime     \* bound on the clock

VARIABLES
  now,     \* the clock
  held,    \* held[k]: the entry under key k, or None
  call,    \* call[c]: the caller's call, or its last one with its answer
  minted,  \* history: flow keys that have been put (a state is random)
  handed   \* history: how often the flow of a key has been handed out

vars == <<now, held, call, minted, handed>>

----------------------------------------------------------------------------
Keys == FlowKeys \cup Sids
Ops == {"put", "take", "get", "delete"}

Quiet == [phase |-> "answered", op |-> None, key |-> None, value |-> None,
          got |-> None]

\* The calls the interface has: flows are put and taken, sessions the rest.
Offered(o, k) == IF k \in FlowKeys THEN o \in {"put", "take"}
                                   ELSE o \in {"put", "get", "delete"}

UntilFrom(t, k) == t + (IF k \in FlowKeys THEN FlowTTL ELSE SessionTTL)

\* The routes put a flow under a key of its own, and take one whose key a
\* browser was given: after its put was over.
MayBegin(o, k) ==
  k \in FlowKeys =>
    IF o = "put" THEN k \notin minted
    ELSE /\ k \in minted
         /\ \A d \in Callers : call[d].key = k /\ call[d].op = "put"
                                => call[d].phase = "answered"

----------------------------------------------------------------------------
Begin(c, o, k, v) ==
  /\ call[c].phase = "answered"
  /\ Offered(o, k) /\ MayBegin(o, k)
  /\ (o = "put") = (v # None)
  /\ call' = [call EXCEPT ![c] = [phase |-> "begun", op |-> o, key |-> k,
                                  value |-> v, got |-> None]]
  /\ minted' = IF o = "put" /\ k \in FlowKeys THEN minted \cup {k} ELSE minted
  /\ UNCHANGED <<now, held, handed>>

\* The call takes effect, at once and on its own key only.
Act(c) ==
  LET k == call[c].key
      o == call[c].op IN
  /\ call[c].phase = "begun"
  /\ held' = [held EXCEPT ![k] =
                CASE o = "put" -> [value |-> call[c].value,
                                   until |-> UntilFrom(now, k)]
                  [] o = "get" -> @
                  [] OTHER     -> None]
  /\ call' = [call EXCEPT ![c].phase = "acted",
                          ![c].got = IF o \in {"take", "get"} THEN held[k]
                                                              ELSE None]
  /\ UNCHANGED <<now, minted, handed>>

\* The answer was lost: the call will be carried out again.
Repeat(c) ==
  /\ call[c].phase = "acted"
  /\ call' = [call EXCEPT ![c].phase = "begun", ![c].got = None]
  /\ UNCHANGED <<now, held, minted, handed>>

\* Of a call that is over, its key and its answer are left.
Done(c, got) == [Quiet EXCEPT !.key = call[c].key, !.got = got]

\* The call is answered with what it got, or with nothing when the entry's
\* time has run in between.
Answer(c) ==
  /\ call[c].phase = "acted"
  /\ \E got \in {call[c].got, None} :
       /\ got # call[c].got => now > call[c].got.until
       /\ call' = [call EXCEPT ![c] = Done(c, got)]
       /\ handed' = IF call[c].op = "take" /\ got # None
                    THEN [handed EXCEPT ![call[c].key] = @ + 1] ELSE handed
  /\ UNCHANGED <<now, held, minted>>

Fail(c) ==
  /\ call[c].phase \in {"begun", "acted"}
  /\ call' = [call EXCEPT ![c] = Done(c, Error)]
  /\ UNCHANGED <<now, held, minted, handed>>

\* Time passes: what is past its time is gone.
Tick ==
  /\ now < MaxTime
  /\ now' = now + 1
  /\ held' = [k \in Keys |-> IF held[k] # None /\ held[k].until < now'
                             THEN None ELSE held[k]]
  /\ UNCHANGED <<call, minted, handed>>

\* The service restarts: its calls end with it, and so do the entries, unless
\* they are kept elsewhere.
Restart ==
  /\ call' = [c \in Callers |-> Quiet]
  /\ held' \in {held, [k \in Keys |-> None]}
  /\ UNCHANGED <<now, minted, handed>>

Init ==
  /\ now = 0
  /\ held = [k \in Keys |-> None]
  /\ call = [c \in Callers |-> Quiet]
  /\ minted = {}
  /\ handed = [k \in FlowKeys |-> 0]

Next ==
  \/ \E c \in Callers :
       \/ \E o \in Ops, k \in Keys, v \in Values \cup {None} : Begin(c, o, k, v)
       \/ Act(c) \/ Repeat(c) \/ Answer(c) \/ Fail(c)
  \/ Tick \/ Restart

Spec == Init /\ [][Next]_vars
=============================================================================
