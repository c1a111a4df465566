---------------------------- MODULE SessionStore ----------------------------
(***************************************************************************)
(* The two session stores of the service, as App.init chooses one: the     *)
(* in-process one (session/memory.go), a map under a mutex whose keys are  *)
(* copies of strings read from request buffers, and the Redis one          *)
(* (session/redis.go), whose client sends a command again when no reply    *)
(* came back.  Both implement Store.                                       *)
(***************************************************************************)
EXTENDS Integers

CONSTANTS Callers, FlowKeys, Sids, Values, None, Error,
          FlowTTL, SessionTTL, MaxTime,
          Retries     \* how often the Redis client sends a command again

ASSUME TTLAssumption == FlowTTL \in Nat \ {0} /\ SessionTTL \in Nat \ {0}
ASSUME NameAssumption == FlowKeys \cap Sids = {} /\ None # Error
ASSUME RetriesAssumption == Retries \in Nat

\* What a stored flow or session is to its callers.
Record == [value : Values, until : Nat]

ASSUME RecordAssumption == None \notin Record

VARIABLES
  backend,  \* the store App.init built: "memory" or "redis"
  now,
  entries,  \* the map's entries, or Redis's
  call,     \* as in Store, with the instant it acted and the sends it has left
  minted, handed

vars == <<backend, now, entries, call, minted, handed>>

----------------------------------------------------------------------------
Keys == FlowKeys \cup Sids
Ops == {"put", "take", "get", "delete"}

Quiet == [phase |-> "answered", op |-> None, key |-> None, value |-> None,
          got |-> None, at |-> 0, left |-> Retries]

\* Of a call that is over, its key and its answer are left.
Done(c, got) == [Quiet EXCEPT !.key = call[c].key, !.got = got]

UntilFrom(t, k) == t + (IF k \in FlowKeys THEN FlowTTL ELSE SessionTTL)

\* The text of an entry's key now: a key that is a view over a request's
\* buffer reads as whatever the buffer holds.
Text(e) == IF e.view = None THEN e.filed ELSE call[e.view].key

\* A map finds an entry where its key was filed, if the key still reads so.
Found(k) == {e \in entries : e.filed = k /\ Text(e) = k}

\* Redis does not show what is past its time; the map keeps it.
Shown(k) == {e \in Found(k) : backend = "redis" => now <= e.until}

----------------------------------------------------------------------------
(* What the operations do to the entries.                                  *)

\* Faulty variant: the entry is filed under the caller's string itself.
KeyView(c) == [filed |-> call[c].key, view |-> c]

\* The key of a new entry: strings.Clone, and on the wire a copy anyway.
KeyCopy(c) == [filed |-> call[c].key, view |-> None]

Stored(c) ==
  LET k == call[c].key IN
  (entries \ Found(k)) \cup
    {[filed |-> KeyCopy(c).filed, view |-> KeyCopy(c).view,
      value |-> call[c].value, until |-> UntilFrom(now, k)]}

Entry(k) == IF Shown(k) = {} THEN None
            ELSE LET e == CHOOSE x \in Shown(k) : TRUE
                 IN  [value |-> e.value, until |-> e.until]

\* Caller c's call of operation o on one of the keys runs on backend b.
Calls(c, b, o, keys) == /\ backend = b
                        /\ call[c].phase = "begun"
                        /\ call[c].op = o /\ call[c].key \in keys

Acted(c, got) ==
  /\ call' = [call EXCEPT ![c].phase = "acted", ![c].got = got, ![c].at = now]
  /\ UNCHANGED <<backend, now, minted, handed>>

----------------------------------------------------------------------------
(* memoryStore: each operation is one critical section.                    *)

MemoryPutFlow(c) ==
  /\ Calls(c, "memory", "put", FlowKeys)
  /\ entries' = Stored(c) /\ Acted(c, None)

\* Faulty variant: the flow is read in one critical section, and would be
\* deleted in another.
MemoryTakeFlowKept(c) ==
  /\ Calls(c, "memory", "take", FlowKeys)
  /\ UNCHANGED entries /\ Acted(c, Entry(call[c].key))

MemoryTakeFlow(c) ==
  /\ Calls(c, "memory", "take", FlowKeys)
  /\ entries' = entries \ Found(call[c].key) /\ Acted(c, Entry(call[c].key))

MemoryPutSession(c) ==
  /\ Calls(c, "memory", "put", Sids)
  /\ entries' = Stored(c) /\ Acted(c, None)

MemoryGetSession(c) ==
  /\ Calls(c, "memory", "get", Sids)
  /\ UNCHANGED entries /\ Acted(c, Entry(call[c].key))

MemoryDeleteSession(c) ==
  /\ Calls(c, "memory", "delete", Sids)
  /\ entries' = entries \ Found(call[c].key) /\ Acted(c, None)

----------------------------------------------------------------------------
(* redisStore: each operation is one command.                              *)

RedisPutFlow(c) ==
  /\ Calls(c, "redis", "put", FlowKeys)
  /\ entries' = Stored(c) /\ Acted(c, None)

\* GETDEL.
RedisTakeFlow(c) ==
  /\ Calls(c, "redis", "take", FlowKeys)
  /\ entries' = entries \ Found(call[c].key) /\ Acted(c, Entry(call[c].key))

RedisPutSession(c) ==
  /\ Calls(c, "redis", "put", Sids)
  /\ entries' = Stored(c) /\ Acted(c, None)

RedisGetSession(c) ==
  /\ Calls(c, "redis", "get", Sids)
  /\ UNCHANGED entries /\ Acted(c, Entry(call[c].key))

RedisDeleteSession(c) ==
  /\ Calls(c, "redis", "delete", Sids)
  /\ entries' = entries \ Found(call[c].key) /\ Acted(c, None)

\* No reply came back, whether or not the command was carried out: the client
\* sends it again, or gives up.  A command that was sent is carried out before
\* the call's answer or not at all.
Resend(c) ==
  /\ backend = "redis" /\ call[c].phase \in {"begun", "acted"}
  /\ call[c].left > 0
  /\ call' = [call EXCEPT ![c].phase = "begun", ![c].got = None,
                          ![c].at = 0, ![c].left = @ - 1]
  /\ UNCHANGED <<backend, now, entries, minted, handed>>

Fail(c) ==
  /\ backend = "redis" /\ call[c].phase \in {"begun", "acted"}
  /\ call[c].left = 0
  /\ call' = [call EXCEPT ![c] = Done(c, Error)]
  /\ UNCHANGED <<backend, now, entries, minted, handed>>

----------------------------------------------------------------------------
\* A request calls the store.  Its buffer, and so the key it was read from,
\* now holds this request's bytes.
Begin(c, o, k, v) ==
  /\ call[c].phase = "answered"
  /\ IF k \in FlowKeys THEN o \in {"put", "take"}
                       ELSE o \in {"put", "get", "delete"}
  /\ (o = "put") = (v # None)
  /\ IF k \in FlowKeys /\ o = "put"
     THEN k \notin minted /\ minted' = minted \cup {k}
     ELSE UNCHANGED minted
  /\ k \in FlowKeys /\ o = "take" =>
       /\ k \in minted
       /\ \A d \in Callers : call[d].key = k /\ call[d].op = "put"
                               => call[d].phase = "answered"
  /\ call' = [call EXCEPT ![c] = [phase |-> "begun", op |-> o, key |-> k,
                                  value |-> v, got |-> None, at |-> 0,
                                  left |-> Retries]]
  /\ UNCHANGED <<backend, now, entries, handed>>

\* Faulty variant: what the map held is answered as it is.
JudgedNot(e) == e

\* The in-process store looks at the entry's time after the map is unlocked.
Judged(e) == IF backend = "memory" /\ e # None /\ now > e.until THEN None ELSE e

Answer(c) ==
  LET got == Judged(call[c].got) IN
  /\ call[c].phase = "acted"
  /\ call' = [call EXCEPT ![c] = Done(c, got)]
  /\ handed' = IF call[c].op = "take" /\ got # None
               THEN [handed EXCEPT ![call[c].key] = @ + 1] ELSE handed
  /\ UNCHANGED <<backend, now, entries, minted>>

Tick ==
  /\ now < MaxTime /\ now' = now + 1
  /\ UNCHANGED <<backend, entries, call, minted, handed>>

\* The service restarts.  Redis keeps the entries, the process does not.
Restart ==
  /\ call' = [c \in Callers |-> Quiet]
  /\ entries' = IF backend = "redis" THEN entries ELSE {}
  /\ UNCHANGED <<backend, now, minted, handed>>

Init ==
  /\ backend \in {"memory", "redis"}
  /\ now = 0
  /\ entries = {}
  /\ call = [c \in Callers |-> Quiet]
  /\ minted = {}
  /\ handed = [k \in FlowKeys |-> 0]

Next ==
  \/ \E c \in Callers :
       \/ \E o \in Ops, k \in Keys, v \in Values \cup {None} : Begin(c, o, k, v)
       \/ MemoryPutFlow(c) \/ MemoryTakeFlow(c) \/ MemoryPutSession(c)
       \/ MemoryGetSession(c) \/ MemoryDeleteSession(c)
       \/ RedisPutFlow(c) \/ RedisTakeFlow(c) \/ RedisPutSession(c)
       \/ RedisGetSession(c) \/ RedisDeleteSession(c)
       \/ Resend(c) \/ Fail(c) \/ Answer(c)
  \/ Tick \/ Restart

Spec == Init /\ [][Next]_vars

----------------------------------------------------------------------------
(* Properties.                                                             *)

\* A login flow is handed out at most once: however takes of it race, are
\* sent again after a lost reply, or straddle a restart (TakeFlow, "atomically
\* returns and removes the flow under key (single use)").
HandedOutOnce == \A k \in FlowKeys : handed[k] <= 1

\* An answer never carries an entry past its time, as far as the store that
\* gave it can tell: the map's entry when it is answered, Redis's when the
\* command runs (Store, "ErrNotFound if absent or expired").
ExpiredIsNotServed ==
  [][\A c \in Callers :
       call[c].phase = "acted" /\ call'[c].phase = "answered"
         /\ call'[c].got \notin {None, Error}
       => call'[c].got.until >= IF backend = "memory" THEN now
                                                     ELSE call[c].at]_vars

----------------------------------------------------------------------------
(* Both stores implement Store: an entry is held while it can be found in  *)
(* its time, and a call has got what was in its time when it acted.        *)

heldNow == [k \in Keys |->
  IF \E e \in Found(k) : now <= e.until
  THEN LET e == CHOOSE x \in Found(k) : TRUE
       IN  [value |-> e.value, until |-> e.until]
  ELSE None]

callNow == [c \in Callers |->
  [phase |-> call[c].phase, op |-> call[c].op, key |-> call[c].key,
   value |-> call[c].value,
   got |-> IF call[c].phase = "acted" /\ call[c].got # None
           THEN IF call[c].got.until < call[c].at THEN None ELSE call[c].got
           ELSE call[c].got]]

Promised == INSTANCE Store WITH held <- heldNow, call <- callNow

\* Every step of either store is a step of Store or invisible to it: nothing
\* stored is lost, replaced, kept or answered but as the interface says, also
\* when request buffers are reused and commands are sent again.
ImplementsStore == Promised!Spec
=============================================================================
