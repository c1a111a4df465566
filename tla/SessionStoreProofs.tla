------------------------- MODULE SessionStoreProofs -------------------------
(***************************************************************************)
(* What TLAPS proves of SessionStore, for any number of callers, keys and  *)
(* values, any lifetimes and any number of retries: both stores implement  *)
(* Store, and hand a login flow out once.                                  *)
(***************************************************************************)
EXTENDS SessionStore, TLAPS

----------------------------------------------------------------------------
(* The types, and what is left of a call in them.                          *)

EntryRecord == [filed : Keys, view : {None}, value : Values, until : Nat]
CallRecord == [phase : {"begun", "acted", "answered"}, op : Ops \cup {None},
               key : Keys \cup {None}, value : Values \cup {None},
               got : Record \cup {None, Error}, at : Nat, left : Nat]

InFlight(c) == call[c].phase # "answered"

\* A call in flight is one the interface offers; what it got was in its time
\* when it acted, as far as its store looks at that.
CallInOrder(c) ==
  /\ call[c].key \in Keys
  /\ IF call[c].key \in FlowKeys THEN call[c].op \in {"put", "take"}
                                 ELSE call[c].op \in {"put", "get", "delete"}
  /\ call[c].op = "put" => call[c].value \in Values
  /\ call[c].phase = "begun" => call[c].got = None
  /\ call[c].phase = "acted" =>
       /\ call[c].got \in Record \cup {None} /\ call[c].at <= now
       /\ backend = "redis" /\ call[c].got # None
            => call[c].at <= call[c].got.until

Types ==
  /\ backend \in {"memory", "redis"} /\ now \in Nat
  /\ entries \in SUBSET EntryRecord
  /\ \A e, f \in entries : e.filed = f.filed => e = f
  /\ call \in [Callers -> CallRecord]
  /\ \A c \in Callers : InFlight(c) => CallInOrder(c)
  /\ handed \in [FlowKeys -> Nat]

----------------------------------------------------------------------------
(* A flow is in one place: not put yet, stored, on its way to a caller, or *)
(* handed out.                                                             *)

Putting(c, k) == InFlight(c) /\ call[c].key = k /\ call[c].op = "put"
Took(c, k) == /\ call[c].phase = "acted" /\ call[c].key = k
              /\ call[c].op = "take" /\ call[c].got # None
NotStored(k) == \A e \in entries : e.filed # k

FlowInOnePlace(k) ==
  /\ k \notin minted => /\ NotStored(k) /\ handed[k] = 0
                        /\ \A c \in Callers : InFlight(c) => call[c].key # k
  /\ \A c \in Callers : Putting(c, k) =>
       /\ handed[k] = 0
       /\ \A d \in Callers \ {c} : InFlight(d) => call[d].key # k
  /\ \A c \in Callers : Took(c, k) =>
       /\ handed[k] = 0 /\ NotStored(k)
       /\ \A d \in Callers : Took(d, k) => d = c
  /\ handed[k] <= 1 /\ (handed[k] = 1 => NotStored(k))

SingleUse == \A k \in FlowKeys : FlowInOnePlace(k)

----------------------------------------------------------------------------
(* What the entries under a key are.                                       *)

\* An entry is found under the key it was filed for, the buffer it was read
\* from notwithstanding.
LEMMA FoundFacts ==
  ASSUME Types
  PROVE  \A k : Found(k) = {e \in entries : e.filed = k}
  BY DEF Types, Found, Text, EntryRecord

\* A key with no entry is not found, and Store holds nothing under it.
LEMMA NoneFound ==
  ASSUME Types, NEW k \in Keys, NotStored(k)
  PROVE  Found(k) = {} /\ Entry(k) = None /\ heldNow[k] = None
<1>1. Found(k) = {}
  BY FoundFacts DEF NotStored
<1> QED
  BY <1>1 DEF Entry, Shown, heldNow

\* A key's only entry is the one found, and Store holds it while it is in time.
LEMMA OneFound ==
  ASSUME Types, NEW k \in Keys, NEW e \in entries, e.filed = k
  PROVE  /\ Found(k) = {e}
         /\ [value |-> e.value, until |-> e.until] \in Record
         /\ Entry(k) = IF backend = "redis" /\ now > e.until THEN None
                       ELSE [value |-> e.value, until |-> e.until]
         /\ heldNow[k] = IF now > e.until THEN None
                         ELSE [value |-> e.value, until |-> e.until]
<1>1. Found(k) = {e}
  BY FoundFacts DEF Types
<1>2. e \in EntryRecord /\ now \in Nat /\ e.until \in Nat
  BY DEF Types, EntryRecord
<1>3. [value |-> e.value, until |-> e.until] \in Record
  BY <1>2 DEF EntryRecord, Record
<1>4. CASE now > e.until
  <2>1. ~(now <= e.until)
    BY <1>2, <1>4
  <2>2. heldNow[k] = None
    BY <1>1, <2>1 DEF heldNow
  <2>3. Shown(k) = IF backend = "redis" THEN {} ELSE {e}
    BY <1>1, <2>1 DEF Shown
  <2>4. Entry(k) = IF backend = "redis" THEN None
                   ELSE [value |-> e.value, until |-> e.until]
    BY <2>3 DEF Entry
  <2> QED
    BY <1>1, <1>3, <1>4, <2>2, <2>4
<1>5. CASE ~(now > e.until)
  <2>1. now <= e.until
    BY <1>2, <1>5
  <2>2. heldNow[k] = [value |-> e.value, until |-> e.until]
    BY <1>1, <2>1 DEF heldNow
  <2>3. Shown(k) = {e}
    BY <1>1, <2>1 DEF Shown
  <2>4. Entry(k) = [value |-> e.value, until |-> e.until]
    BY <2>3 DEF Entry
  <2> QED
    BY <1>1, <1>3, <1>5, <2>2, <2>4
<1> QED
  BY <1>4, <1>5

\* So what a read gets is an entry or nothing, of Redis never one too old.
LEMMA EntryFacts ==
  ASSUME Types, NEW k \in Keys
  PROVE  /\ Entry(k) \in Record \cup {None}
         /\ backend = "redis" /\ Entry(k) # None => now <= Entry(k).until
         /\ Entry(k) # None => ~NotStored(k)
         /\ heldNow[k] = IF Entry(k) # None /\ now > Entry(k).until THEN None
                         ELSE Entry(k)
<1>1. CASE NotStored(k)
  BY <1>1, NoneFound
<1>2. CASE ~NotStored(k)
  <2>1. PICK e \in entries : e.filed = k
    BY <1>2 DEF NotStored
  <2> DEFINE q == [value |-> e.value, until |-> e.until]
  <2>2. /\ q \in Record /\ q # None /\ q.until = e.until
        /\ Entry(k) = IF backend = "redis" /\ now > e.until THEN None ELSE q
        /\ heldNow[k] = IF now > e.until THEN None ELSE q
    BY <2>1, OneFound, RecordAssumption
  <2>3. now \in Nat /\ e.until \in Nat
    BY DEF Types, EntryRecord
  <2> HIDE DEF q
  <2> QED
    BY <1>2, <2>2, <2>3
<1> QED
  BY <1>1, <1>2

----------------------------------------------------------------------------
(* What the operations do to the entries.                                  *)

\* Entries that are still well-formed are found where they were filed.
LEMMA FoundNext ==
  ASSUME entries' \in SUBSET EntryRecord
  PROVE  \A k : Found(k)' = {e \in entries' : e.filed = k}
  BY DEF Found, Text, EntryRecord

\* Nothing happens to the entries: what is held is as it was.
LEMMA EntriesKept ==
  ASSUME Types, UNCHANGED <<entries, now>>
  PROVE  heldNow' = heldNow
<1>1. \A k : Found(k)' = Found(k)
  BY FoundFacts, FoundNext DEF Types
<1> QED
  BY <1>1 DEF heldNow

\* What is under one key goes.
LEMMA EntriesRemoved ==
  ASSUME Types, NEW k \in Keys, UNCHANGED now,
         entries' = entries \ Found(k)
  PROVE  /\ entries' \in SUBSET EntryRecord /\ entries' \subseteq entries
         /\ NotStored(k)'
         /\ heldNow' = [heldNow EXCEPT ![k] = None]
<1>1. entries' \in SUBSET EntryRecord /\ entries' \subseteq entries
  BY DEF Types
<1>2. \A j : Found(j)' = IF j = k THEN {} ELSE Found(j)
  <2>1. entries' = {e \in entries : e.filed # k}
    BY FoundFacts
  <2>2. \A j : Found(j)' = {e \in entries' : e.filed = j}
    BY <1>1, FoundNext
  <2>3. ASSUME NEW j PROVE Found(j)' = IF j = k THEN {} ELSE Found(j)
    BY <2>1, <2>2, FoundFacts
  <2> QED
    BY <2>3
<1>3. NotStored(k)'
  BY FoundFacts DEF NotStored
<1>4. \A j \in Keys : heldNow'[j] = IF j = k THEN None ELSE heldNow[j]
  BY <1>2 DEF heldNow
<1>5. heldNow' = [j \in Keys |-> IF j = k THEN None ELSE heldNow[j]]
  BY <1>4 DEF heldNow
<1>6. [heldNow EXCEPT ![k] = None]
        = [j \in Keys |-> IF j = k THEN None ELSE heldNow[j]]
  BY DEF heldNow
<1> QED
  BY <1>1, <1>3, <1>5, <1>6

\* An entry replaces what is under its key.
LEMMA EntriesStored ==
  ASSUME Types, NEW c \in Callers, UNCHANGED now, InFlight(c),
         call[c].op = "put", entries' = Stored(c)
  PROVE  LET k == call[c].key IN
         /\ entries' \in SUBSET EntryRecord
         /\ \A e, f \in entries' : e.filed = f.filed => e = f
         /\ \A j : j # k /\ NotStored(j) => NotStored(j)'
         /\ heldNow' = [heldNow EXCEPT ![k] =
                          [value |-> call[c].value, until |-> UntilFrom(now, k)]]
<1> DEFINE k == call[c].key
           new == [filed |-> k, view |-> None, value |-> call[c].value,
                   until |-> UntilFrom(now, k)]
           q == [value |-> call[c].value, until |-> UntilFrom(now, k)]
<1>1. k \in Keys /\ call[c].value \in Values
  BY DEF Types, CallInOrder
<1>2. UntilFrom(now, k) \in Nat /\ now <= UntilFrom(now, k)
  BY TTLAssumption DEF Types, UntilFrom
<1>3. entries' = (entries \ Found(k)) \cup {new}
  BY DEF Stored, KeyCopy
<1>4. /\ new \in EntryRecord /\ new.filed = k /\ new.until = UntilFrom(now, k)
      /\ [value |-> new.value, until |-> new.until] = q
  BY <1>1, <1>2 DEF EntryRecord
<1> HIDE DEF new, q, k
<1>5. entries' \in SUBSET EntryRecord
  BY <1>3, <1>4 DEF Types
<1>6. \A e, f \in entries' : e.filed = f.filed => e = f
  BY <1>3, <1>4, FoundFacts DEF Types
<1>7. \A j : Found(j)' = IF j = k THEN {new} ELSE Found(j)
  BY <1>3, <1>4, <1>5, FoundFacts, FoundNext
<1>8. \A j : j # k /\ NotStored(j) => NotStored(j)'
  BY <1>3, <1>4 DEF NotStored
<1>9. heldNow'[k] = q
  BY <1>1, <1>2, <1>4, <1>7 DEF heldNow
<1>10. \A j \in Keys : heldNow'[j] = IF j = k THEN q ELSE heldNow[j]
  BY <1>7, <1>9 DEF heldNow
<1>11. heldNow' = [j \in Keys |-> IF j = k THEN q ELSE heldNow[j]]
  BY <1>10 DEF heldNow
<1>12. [heldNow EXCEPT ![k] = q]
         = [j \in Keys |-> IF j = k THEN q ELSE heldNow[j]]
  BY DEF heldNow
<1> QED
  BY <1>5, <1>6, <1>8, <1>11, <1>12 DEF k, q

\* Time passes: what is past its time is held no more.
LEMMA EntriesAge ==
  ASSUME Types, UNCHANGED entries, now' = now + 1
  PROVE  heldNow' = [k \in Keys |->
                       IF heldNow[k] # None /\ heldNow[k].until < now'
                       THEN None ELSE heldNow[k]]
<1>1. \A k : Found(k)' = Found(k)
  BY FoundFacts, FoundNext DEF Types
<1>2. ASSUME NEW k \in Keys
      PROVE  heldNow'[k] = IF heldNow[k] # None /\ heldNow[k].until < now'
                           THEN None ELSE heldNow[k]
  <2>1. CASE NotStored(k)
    <3>1. Found(k) = {} /\ heldNow[k] = None
      BY <2>1, NoneFound
    <3> QED
      BY <1>1, <3>1 DEF heldNow
  <2>2. CASE ~NotStored(k)
    <3>1. PICK e \in entries : e.filed = k
      BY <2>2 DEF NotStored
    <3> DEFINE q == [value |-> e.value, until |-> e.until]
    <3>2. /\ Found(k) = {e} /\ q \in Record /\ q # None /\ q.until = e.until
          /\ heldNow[k] = IF now > e.until THEN None ELSE q
      BY <3>1, OneFound, RecordAssumption
    <3>3. now \in Nat /\ e.until \in Nat
      BY DEF Types, EntryRecord
    <3>4. heldNow'[k] = IF now' <= e.until THEN q ELSE None
      BY <1>1, <3>2 DEF heldNow
    <3> HIDE DEF q
    <3> QED
      BY <3>2, <3>3, <3>4
  <2> QED
    BY <2>1, <2>2
<1> QED
  BY <1>2 DEF heldNow

----------------------------------------------------------------------------
(* What the steps do to the calls.                                         *)

\* A call as Store sees it.
Seen(q) == [phase |-> q.phase, op |-> q.op, key |-> q.key, value |-> q.value,
            got |-> IF q.phase = "acted" /\ q.got # None
                    THEN IF q.got.until < q.at THEN None ELSE q.got
                    ELSE q.got]

\* Seen from Store, a call that is set further is the seen call set further.
LEMMA SeenSet ==
  ASSUME NEW q, NEW ph, NEW x
  PROVE  [Seen(q) EXCEPT !.phase = ph, !.got = x] =
           [phase |-> ph, op |-> q.op, key |-> q.key, value |-> q.value,
            got |-> x]
<1>1. PICK g : Seen(q) = [phase |-> q.phase, op |-> q.op, key |-> q.key,
                          value |-> q.value, got |-> g]
  BY DEF Seen
<1>2. PICK r : r = [Seen(q) EXCEPT !.phase = ph]
  OBVIOUS
<1>3. r = [phase |-> ph, op |-> q.op, key |-> q.key, value |-> q.value,
           got |-> g]
  BY <1>1, <1>2
<1>4. [r EXCEPT !.got = x] = [phase |-> ph, op |-> q.op, key |-> q.key,
                              value |-> q.value, got |-> x]
  BY <1>3
<1>5. [Seen(q) EXCEPT !.phase = ph, !.got = x] = [r EXCEPT !.got = x]
  BY <1>2
<1> QED
  BY <1>4, <1>5

\* Setting one call further leaves the others, here and at Store.
LEMMA CallSet ==
  ASSUME Types, NEW c \in Callers, NEW q \in CallRecord,
         call' = [call EXCEPT ![c] = q]
  PROVE  /\ call' \in [Callers -> CallRecord] /\ call'[c] = q
         /\ \A d \in Callers \ {c} : call'[d] = call[d]
         /\ callNow' = [callNow EXCEPT ![c] = Seen(q)]
<1>1. /\ call' \in [Callers -> CallRecord] /\ call'[c] = q
      /\ \A d \in Callers \ {c} : call'[d] = call[d]
  BY DEF Types
<1>2. callNow = [d \in Callers |-> Seen(call[d])]
  BY DEF callNow, Seen
<1>3. callNow' = [d \in Callers |-> Seen(call'[d])]
  BY DEF callNow, Seen
<1> QED
  BY <1>1, <1>2, <1>3

\* Calls that do not change do not change at Store.
LEMMA CallsKept ==
  ASSUME UNCHANGED call
  PROVE  callNow' = callNow
  BY DEF callNow

\* The other calls stay in order.
LEMMA OthersInOrder ==
  ASSUME Types, NEW c \in Callers, UNCHANGED <<backend, now>>,
         \A d \in Callers \ {c} : call'[d] = call[d]
  PROVE  \A d \in Callers \ {c} : InFlight(d)' => CallInOrder(d)'
  BY DEF Types, InFlight, CallInOrder

Operation(c) ==
  \/ MemoryPutFlow(c) \/ MemoryTakeFlow(c) \/ MemoryPutSession(c)
  \/ MemoryGetSession(c) \/ MemoryDeleteSession(c)
  \/ RedisPutFlow(c) \/ RedisTakeFlow(c) \/ RedisPutSession(c)
  \/ RedisGetSession(c) \/ RedisDeleteSession(c)

\* Each operation is one of four, and the call then has what it got.
Does(c, got) ==
  \/ call[c].op = "put" /\ entries' = Stored(c) /\ got = None
  \/ /\ call[c].op = "get" /\ UNCHANGED entries
     /\ got = Entry(call[c].key)
  \/ /\ call[c].op = "take" /\ call[c].key \in FlowKeys
     /\ entries' = entries \ Found(call[c].key) /\ got = Entry(call[c].key)
  \/ /\ call[c].op = "delete" /\ call[c].key \notin FlowKeys
     /\ entries' = entries \ Found(call[c].key) /\ got = None

AfterActing(c, got) ==
  [call[c] EXCEPT !.phase = "acted", !.got = got, !.at = now]

\* What every operation of either backend does to the call that makes it.
LEMMA OperationFacts ==
  ASSUME Types, NEW c \in Callers, Operation(c)
  PROVE  /\ call[c].phase = "begun" /\ InFlight(c) /\ CallInOrder(c)
         /\ UNCHANGED <<backend, now, minted, handed>>
         /\ \E got \in Record \cup {None} :
              /\ Does(c, got) /\ AfterActing(c, got) \in CallRecord
              /\ backend = "redis" /\ got # None => now <= got.until
              /\ call' = [call EXCEPT ![c] = AfterActing(c, got)]
<1>1. /\ call[c].phase = "begun"
      /\ \E got : Does(c, got) /\ Acted(c, got)
  BY NameAssumption
     DEF Operation, Calls, Does, MemoryPutFlow, MemoryTakeFlow,
         MemoryPutSession, MemoryGetSession, MemoryDeleteSession,
         RedisPutFlow, RedisTakeFlow, RedisPutSession, RedisGetSession,
         RedisDeleteSession
<1>2. PICK got : Does(c, got) /\ Acted(c, got)
  BY <1>1
<1>3. InFlight(c) /\ CallInOrder(c) /\ call[c].key \in Keys
  BY <1>1 DEF Types, InFlight, CallInOrder
<1>4. /\ got \in Record \cup {None}
      /\ backend = "redis" /\ got # None => now <= got.until
  BY <1>2, <1>3, EntryFacts DEF Does
<1>5. /\ UNCHANGED <<backend, now, minted, handed>>
      /\ call' = [call EXCEPT ![c] = AfterActing(c, got)]
  BY <1>2 DEF Acted, AfterActing, Types
<1>6. AfterActing(c, got) \in CallRecord
  BY <1>4 DEF AfterActing, Types, CallRecord
<1> QED
  BY <1>1, <1>2, <1>3, <1>4, <1>5, <1>6

\* What an operation leaves: the entries and the calls in order.
LEMMA OperationTypes ==
  ASSUME Types, NEW c \in Callers, Operation(c)
  PROVE  Types'
<1>1. PICK got \in Record \cup {None} :
        /\ Does(c, got) /\ AfterActing(c, got) \in CallRecord
        /\ backend = "redis" /\ got # None => now <= got.until
        /\ call' = [call EXCEPT ![c] = AfterActing(c, got)]
  BY OperationFacts
<1>2. /\ call[c].phase = "begun" /\ InFlight(c) /\ CallInOrder(c)
      /\ UNCHANGED <<backend, now, minted, handed>> /\ call[c].key \in Keys
  BY OperationFacts DEF CallInOrder
<1>3. /\ call' \in [Callers -> CallRecord] /\ call'[c] = AfterActing(c, got)
      /\ \A d \in Callers \ {c} : call'[d] = call[d]
  BY <1>1, CallSet
<1>4. /\ entries' \in SUBSET EntryRecord
      /\ \A e, f \in entries' : e.filed = f.filed => e = f
  <2>1. CASE entries' = Stored(c) /\ call[c].op = "put"
    BY <1>2, <2>1, EntriesStored
  <2>2. CASE entries' = entries \ Found(call[c].key)
    BY <1>2, <2>2, EntriesRemoved DEF Types
  <2>3. CASE UNCHANGED entries
    BY <2>3 DEF Types
  <2> QED
    BY <1>1, <2>1, <2>2, <2>3 DEF Does
<1>5. /\ AfterActing(c, got).phase = "acted" /\ AfterActing(c, got).got = got
      /\ AfterActing(c, got).at = now /\ AfterActing(c, got).op = call[c].op
      /\ AfterActing(c, got).key = call[c].key
      /\ AfterActing(c, got).value = call[c].value
  BY DEF AfterActing, Types, CallRecord
<1>6. CallInOrder(c)'
  BY <1>1, <1>2, <1>3, <1>5 DEF CallInOrder, Types
<1>7. \A d \in Callers : InFlight(d)' => CallInOrder(d)'
  BY <1>2, <1>3, <1>6, OthersInOrder
<1> QED
  BY <1>2, <1>3, <1>4, <1>7 DEF Types

\* Store acts when either store does.
LEMMA OperationActs ==
  ASSUME Types, NEW c \in Callers, Operation(c)
  PROVE  Promised!Act(c)
<1> DEFINE k == call[c].key
<1>1. PICK got \in Record \cup {None} :
        /\ Does(c, got) /\ AfterActing(c, got) \in CallRecord
        /\ backend = "redis" /\ got # None => now <= got.until
        /\ call' = [call EXCEPT ![c] = AfterActing(c, got)]
  BY OperationFacts
<1>2. /\ call[c].phase = "begun" /\ InFlight(c) /\ CallInOrder(c)
      /\ UNCHANGED <<backend, now, minted, handed>> /\ k \in Keys
  BY OperationFacts DEF CallInOrder
<1>3. callNow' = [callNow EXCEPT ![c] = Seen(AfterActing(c, got))]
  BY <1>1, CallSet
<1>4. /\ callNow[c].phase = "begun" /\ callNow[c].key = k
      /\ callNow[c].op = call[c].op /\ callNow[c].value = call[c].value
  BY <1>2 DEF callNow
<1> DEFINE seen == IF got # None /\ got.until < now THEN None ELSE got
           ans == IF call[c].op \in {"take", "get"} THEN heldNow[k] ELSE None
<1>5. callNow' = [callNow EXCEPT ![c].phase = "acted", ![c].got = seen]
  <2> DEFINE q == AfterActing(c, got)
  <2>1. callNow[c] = Seen(call[c]) /\ call[c] \in CallRecord
    BY DEF callNow, Seen, Types
  <2>2. /\ q.phase = "acted" /\ q.got = got /\ q.at = now
        /\ q.op = call[c].op /\ q.key = call[c].key
        /\ q.value = call[c].value
    BY <2>1 DEF AfterActing, CallRecord
  <2> HIDE DEF q
  <2>3. Seen(q) = [phase |-> "acted", op |-> call[c].op, key |-> call[c].key,
                   value |-> call[c].value, got |-> seen]
    BY <2>2 DEF Seen
  <2> HIDE DEF seen
  <2>4. [callNow[c] EXCEPT !.phase = "acted", !.got = seen]
          = [phase |-> "acted", op |-> call[c].op, key |-> call[c].key,
             value |-> call[c].value, got |-> seen]
    BY <2>1, SeenSet
  <2>5. callNow' = [callNow EXCEPT ![c] =
                      [callNow[c] EXCEPT !.phase = "acted", !.got = seen]]
    BY <1>3, <2>3, <2>4 DEF q
  <2> QED
    BY <2>5 DEF callNow
<1>6. seen = ans
  <2>1. call[c].op \in {"take", "get"} => got = Entry(k)
    BY <1>1 DEF Does
  <2>2. call[c].op \notin {"take", "get"} => got = None
    BY <1>1 DEF Does
  <2>3. Entry(k) \in Record \cup {None}
        /\ heldNow[k] = IF Entry(k) # None /\ now > Entry(k).until THEN None
                        ELSE Entry(k)
    BY <1>2, EntryFacts
  <2>4. now \in Nat /\ (Entry(k) # None => Entry(k).until \in Nat)
    BY <2>3 DEF Types, Record
  <2> QED
    BY <2>1, <2>2, <2>3, <2>4
<1>7. heldNow' = [heldNow EXCEPT ![k] =
                    CASE call[c].op = "put" ->
                           [value |-> call[c].value, until |-> UntilFrom(now, k)]
                      [] call[c].op = "get" -> heldNow[k]
                      [] OTHER -> None]
  <2>1. CASE call[c].op = "put" /\ entries' = Stored(c)
    BY <1>2, <2>1, EntriesStored
  <2>2. CASE call[c].op = "get" /\ UNCHANGED entries
    <3>1. heldNow' = heldNow
      BY <1>2, <2>2, EntriesKept
    <3>2. heldNow = [heldNow EXCEPT ![k] = heldNow[k]]
      BY DEF heldNow
    <3> QED
      BY <2>2, <3>1, <3>2
  <2>3. CASE /\ call[c].op \in {"take", "delete"}
             /\ entries' = entries \ Found(k)
    <3>1. heldNow' = [heldNow EXCEPT ![k] = None]
      BY <1>2, <2>3, EntriesRemoved
    <3> QED
      BY <2>3, <3>1
  <2> QED
    BY <1>1, <2>1, <2>2, <2>3 DEF Does
<1>8. UNCHANGED <<now, minted, handed>>
  BY <1>2
<1> HIDE DEF k, seen, ans
<1>9. callNow' = [callNow EXCEPT ![c].phase = "acted", ![c].got = ans]
  BY <1>5, <1>6
<1> QED
  BY <1>4, <1>7, <1>8, <1>9
     DEF Promised!Act, Promised!UntilFrom, UntilFrom, k, ans

----------------------------------------------------------------------------
(* The other steps, each with what it leaves and the step of Store it is.  *)

QuietFacts == /\ Quiet \in CallRecord /\ Quiet.phase = "answered"
              /\ Quiet.op = None /\ Quiet.key = None /\ Quiet.value = None
              /\ Quiet.got = None

\* A caller's record before its first call and after a restart is a call record.
LEMMA QuietIsACall == QuietFacts
  BY RetriesAssumption DEF QuietFacts, Quiet, CallRecord

\* A finished call is well formed and is a finished call at Store.
LEMMA DoneFacts ==
  ASSUME Types, NEW c \in Callers, NEW got \in Record \cup {None, Error}
  PROVE  /\ Done(c, got) \in CallRecord /\ Done(c, got).phase = "answered"
         /\ Done(c, got).got = got /\ Done(c, got).key = call[c].key
         /\ Seen(Done(c, got)) = Promised!Done(c, got)
<1>1. /\ Done(c, got) \in CallRecord /\ Done(c, got).phase = "answered"
      /\ Done(c, got).got = got /\ Done(c, got).key = call[c].key
      /\ Done(c, got).op = None /\ Done(c, got).value = None
  BY QuietIsACall DEF Types, CallRecord, Done, QuietFacts
<1>2. Seen(Done(c, got)) = [phase |-> "answered", op |-> None,
                            key |-> call[c].key, value |-> None, got |-> got]
  BY <1>1 DEF Seen
<1>3. callNow[c].key = call[c].key
  BY DEF callNow
<1>4. PICK r : r = [Promised!Quiet EXCEPT !.key = call[c].key]
  OBVIOUS
<1>5. r = [phase |-> "answered", op |-> None, key |-> call[c].key,
           value |-> None, got |-> None]
  BY <1>4 DEF Promised!Quiet
<1>6. [r EXCEPT !.got = got] =
        [phase |-> "answered", op |-> None, key |-> call[c].key,
         value |-> None, got |-> got]
  BY <1>5
<1>7. Promised!Done(c, got) = [r EXCEPT !.got = got]
  BY <1>3, <1>4 DEF Promised!Done
<1> QED
  BY <1>1, <1>2, <1>6, <1>7

\* A call's record is replaced by one that is over, the rest left alone.
LEMMA CallOver ==
  ASSUME Types, NEW c \in Callers, NEW q \in CallRecord,
         q.phase = "answered", call' = [call EXCEPT ![c] = q],
         UNCHANGED <<backend, now, entries>>, handed' \in [FlowKeys -> Nat]
  PROVE  Types'
<1>1. /\ call' \in [Callers -> CallRecord] /\ call'[c] = q
      /\ \A d \in Callers \ {c} : call'[d] = call[d]
  BY CallSet
<1>2. \A d \in Callers : InFlight(d)' => CallInOrder(d)'
  BY <1>1, OthersInOrder DEF InFlight
<1> QED
  BY <1>1, <1>2 DEF Types

BegunCall(o, k, v) == [phase |-> "begun", op |-> o, key |-> k, value |-> v,
                       got |-> None, at |-> 0, left |-> Retries]

\* A call that begins here begins at Store.
LEMMA BeginStep ==
  ASSUME Types, NEW c \in Callers, NEW o \in Ops, NEW k \in Keys,
         NEW v \in Values \cup {None}, Begin(c, o, k, v)
  PROVE  Types' /\ Promised!Begin(c, o, k, v)
<1> DEFINE q == BegunCall(o, k, v)
<1>1. /\ q \in CallRecord /\ q.phase = "begun" /\ q.op = o /\ q.key = k
      /\ q.value = v /\ q.got = None
  BY RetriesAssumption DEF BegunCall, CallRecord
<1>2. /\ call' = [call EXCEPT ![c] = q]
      /\ UNCHANGED <<backend, now, entries, handed>>
  BY DEF Begin, BegunCall
<1> HIDE DEF q
<1>3. /\ call' \in [Callers -> CallRecord] /\ call'[c] = q
      /\ \A d \in Callers \ {c} : call'[d] = call[d]
      /\ callNow' = [callNow EXCEPT ![c] = Seen(q)]
  BY <1>1, <1>2, CallSet
<1>4. o = "put" => v \in Values
  BY DEF Begin
<1>5. CallInOrder(c)'
  BY <1>1, <1>2, <1>3, <1>4 DEF CallInOrder, Begin
<1>6. Types'
  BY <1>2, <1>3, <1>5, OthersInOrder DEF Types
<1>7. Seen(q) = [phase |-> "begun", op |-> o, key |-> k, value |-> v,
                 got |-> None]
  BY <1>1 DEF Seen
<1>8. heldNow' = heldNow
  BY <1>2, EntriesKept
<1>9. /\ \A d \in Callers : callNow[d].phase = call[d].phase
      /\ \A d \in Callers : callNow[d].op = call[d].op
      /\ \A d \in Callers : callNow[d].key = call[d].key
  BY DEF callNow
<1>10. Promised!MayBegin(o, k)
  BY <1>9 DEF Promised!MayBegin, Begin
<1>11. Promised!Offered(o, k)
  BY DEF Promised!Offered, Begin
<1>12. Promised!Begin(c, o, k, v)
  <2>1. callNow[c].phase = "answered" /\ (o = "put") = (v # None)
    BY <1>9 DEF Begin
  <2>2. minted' = IF o = "put" /\ k \in FlowKeys THEN minted \cup {k} ELSE minted
    BY DEF Begin
  <2> QED
    BY <1>2, <1>3, <1>7, <1>8, <1>10, <1>11, <2>1, <2>2 DEF Promised!Begin
<1> QED
  BY <1>6, <1>12

ResentCall(c) == [call[c] EXCEPT !.phase = "begun", !.got = None, !.at = 0,
                                 !.left = @ - 1]

\* A resent Redis command is a repeated call at Store, or changes nothing there.
LEMMA ResendStep ==
  ASSUME Types, NEW c \in Callers, Resend(c)
  PROVE  Types' /\ (Promised!Repeat(c) \/ UNCHANGED Promised!vars)
<1> DEFINE q == ResentCall(c)
<1>1. /\ q \in CallRecord /\ q.phase = "begun" /\ q.got = None
      /\ q.op = call[c].op /\ q.key = call[c].key /\ q.value = call[c].value
  BY DEF Resend, Types, CallRecord, ResentCall
<1>2. /\ call' = [call EXCEPT ![c] = q]
      /\ UNCHANGED <<backend, now, entries, minted, handed>>
      /\ call[c].phase \in {"begun", "acted"} /\ InFlight(c) /\ CallInOrder(c)
  BY DEF Resend, ResentCall, Types, InFlight
<1> HIDE DEF q
<1>3. /\ call' \in [Callers -> CallRecord] /\ call'[c] = q
      /\ \A d \in Callers \ {c} : call'[d] = call[d]
      /\ callNow' = [callNow EXCEPT ![c] = Seen(q)]
  BY <1>1, <1>2, CallSet
<1>4. CallInOrder(c)'
  BY <1>1, <1>2, <1>3 DEF CallInOrder
<1>5. Types'
  BY <1>2, <1>3, <1>4, OthersInOrder DEF Types
<1>6. heldNow' = heldNow
  BY <1>2, EntriesKept
<1>7. callNow[c] = Seen(call[c])
  BY DEF callNow, Seen
<1>8. Seen(q) = [phase |-> "begun", op |-> call[c].op, key |-> call[c].key,
                 value |-> call[c].value, got |-> None]
  BY <1>1 DEF Seen
<1>9. CASE call[c].phase = "acted"
  <2>1. [callNow[c] EXCEPT !.phase = "begun", !.got = None] = Seen(q)
    BY <1>7, <1>8, SeenSet
  <2>2. callNow' = [callNow EXCEPT ![c] =
                      [callNow[c] EXCEPT !.phase = "begun", !.got = None]]
    BY <1>3, <2>1
  <2>3. callNow' = [callNow EXCEPT ![c].phase = "begun", ![c].got = None]
    BY <2>2 DEF callNow
  <2>4. callNow[c].phase = "acted"
    BY <1>9 DEF callNow
  <2> QED
    BY <1>2, <1>5, <1>6, <2>3, <2>4 DEF Promised!Repeat
<1>10. CASE call[c].phase = "begun"
  <2>1. callNow[c] = Seen(q)
    BY <1>2, <1>7, <1>8, <1>10 DEF CallInOrder, Seen
  <2>2. callNow' = callNow
    BY <1>3, <2>1 DEF callNow
  <2> QED
    BY <1>2, <1>5, <1>6, <2>2 DEF Promised!vars
<1> QED
  BY <1>2, <1>9, <1>10

\* A call that fails here fails at Store.
LEMMA FailStep ==
  ASSUME Types, NEW c \in Callers, Fail(c)
  PROVE  Types' /\ Promised!Fail(c)
<1> DEFINE q == Done(c, Error)
<1>1. /\ q \in CallRecord /\ q.phase = "answered"
      /\ Seen(q) = Promised!Done(c, Error)
  BY DoneFacts
<1>2. /\ call' = [call EXCEPT ![c] = q]
      /\ UNCHANGED <<backend, now, entries, minted, handed>>
      /\ callNow[c].phase \in {"begun", "acted"}
  BY DEF Fail, callNow
<1> HIDE DEF q
<1>3. Types'
  BY <1>1, <1>2, CallOver DEF Types
<1>4. callNow' = [callNow EXCEPT ![c] = Promised!Done(c, Error)]
  BY <1>1, <1>2, CallSet
<1>5. heldNow' = heldNow
  BY <1>2, EntriesKept
<1> QED
  BY <1>2, <1>3, <1>4, <1>5 DEF Promised!Fail

\* What is answered is what the call got, unless its time has run since.
LEMMA AnswerFacts ==
  ASSUME Types, NEW c \in Callers, Answer(c)
  PROVE  LET got == Judged(call[c].got) IN
         /\ got \in Record \cup {None}
         /\ got \in {callNow[c].got, None}
         /\ got # callNow[c].got => now > callNow[c].got.until
         /\ got # None => got = call[c].got
         /\ got # None /\ backend = "memory" => now <= got.until
         /\ got # None /\ backend = "redis" => call[c].at <= got.until
<1> DEFINE e == call[c].got
           got == Judged(e)
<1>1. /\ call[c].phase = "acted" /\ InFlight(c) /\ CallInOrder(c)
      /\ e \in Record \cup {None} /\ call[c].at <= now
      /\ call[c].at \in Nat /\ now \in Nat
      /\ backend = "redis" /\ e # None => call[c].at <= e.until
  BY DEF Answer, Types, InFlight, CallInOrder, CallRecord
<1>2. callNow[c].got = IF e # None /\ e.until < call[c].at THEN None ELSE e
  BY <1>1 DEF callNow
<1>3. e # None => e.until \in Nat
  BY <1>1 DEF Record
<1>4. got = IF backend = "memory" /\ e # None /\ now > e.until THEN None ELSE e
  BY DEF Judged
<1>5. backend \in {"memory", "redis"}
  BY DEF Types
<1> HIDE DEF e, got
<1> QED
  BY <1>1, <1>2, <1>3, <1>4, <1>5 DEF e, got

\* What a call answers here, past the look at the time, Store may answer.
LEMMA AnswerStep ==
  ASSUME Types, NEW c \in Callers, Answer(c)
  PROVE  Types' /\ Promised!Answer(c)
<1> DEFINE got == Judged(call[c].got)
           q == Done(c, got)
<1>1. /\ got \in Record \cup {None} /\ got \in {callNow[c].got, None}
      /\ got # callNow[c].got => now > callNow[c].got.until
  BY AnswerFacts
<1>2. /\ call[c].phase = "acted" /\ call' = [call EXCEPT ![c] = q]
      /\ UNCHANGED <<backend, now, entries, minted>>
      /\ handed' = IF call[c].op = "take" /\ got # None
                   THEN [handed EXCEPT ![call[c].key] = @ + 1] ELSE handed
  BY DEF Answer
<1> HIDE DEF got
<1>3. /\ q \in CallRecord /\ q.phase = "answered"
      /\ Seen(q) = Promised!Done(c, got)
  BY <1>1, DoneFacts
<1> HIDE DEF q
<1>4. handed' \in [FlowKeys -> Nat]
  <2>1. call[c].op = "take" => call[c].key \in FlowKeys
    BY <1>2 DEF Types, InFlight, CallInOrder
  <2> QED
    BY <1>2, <2>1 DEF Types
<1>5. Types'
  BY <1>2, <1>3, <1>4, CallOver
<1>6. callNow' = [callNow EXCEPT ![c] = Promised!Done(c, got)]
  BY <1>2, <1>3, CallSet
<1>7. heldNow' = heldNow
  BY <1>2, EntriesKept
<1>8. /\ callNow[c].phase = "acted" /\ callNow[c].op = call[c].op
      /\ callNow[c].key = call[c].key
  BY <1>2 DEF callNow
<1>9. Promised!Answer(c)
  BY <1>1, <1>2, <1>6, <1>7, <1>8 DEF Promised!Answer
<1> QED
  BY <1>5, <1>9

\* Time passes at both.
LEMMA TickStep ==
  ASSUME Types, Tick
  PROVE  Types' /\ Promised!Tick
<1>1. /\ now < MaxTime /\ now' = now + 1
      /\ UNCHANGED <<backend, entries, call, minted, handed>>
  BY DEF Tick
<1>2. \A c \in Callers : InFlight(c)' => CallInOrder(c)'
  BY <1>1 DEF Types, InFlight, CallInOrder, CallRecord
<1>3. Types'
  BY <1>1, <1>2 DEF Types
<1>4. Promised!Tick
  BY <1>1, EntriesAge, CallsKept DEF Promised!Tick, Promised!Keys, Keys
<1> QED
  BY <1>3, <1>4

\* A restart loses the map, as Store allows of a backend in memory.
LEMMA RestartStep ==
  ASSUME Types, Restart
  PROVE  Types' /\ Promised!Restart
<1>1. /\ call' = [c \in Callers |-> Quiet]
      /\ entries' = IF backend = "redis" THEN entries ELSE {}
      /\ UNCHANGED <<backend, now, minted, handed>>
  BY DEF Restart
<1>2. Types'
  BY <1>1, QuietIsACall DEF Types, InFlight, QuietFacts
<1>3. callNow' = [c \in Callers |-> Promised!Quiet]
  BY <1>1, QuietIsACall DEF callNow, Promised!Quiet, QuietFacts
<1>4. heldNow' \in {heldNow, [k \in Keys |-> None]}
  <2>1. CASE backend = "redis"
    BY <1>1, <2>1, EntriesKept
  <2>2. CASE backend # "redis"
    <3>1. entries' = {}
      BY <1>1, <2>2
    <3>2. \A k : Found(k)' = {}
      BY <3>1 DEF Found
    <3> QED
      BY <3>2 DEF heldNow
  <2> QED
    BY <2>1, <2>2
<1>5. Promised!Restart
  BY <1>1, <1>3, <1>4 DEF Promised!Restart, Promised!Keys, Keys
<1> QED
  BY <1>2, <1>5

----------------------------------------------------------------------------
(* Either store implements Store.                                          *)

\* Both backends begin well formed.
LEMMA TypesInit == Init => Types
  BY QuietIsACall DEF Init, Types, InFlight, QuietFacts

\* An empty backend is an empty Store.
LEMMA InitIsStores == Init => Promised!Init
<1> SUFFICES ASSUME Init PROVE Promised!Init
  OBVIOUS
<1>1. \A k : Found(k) = {}
  BY DEF Init, Found
<1>2. heldNow = [k \in Keys |-> None]
  BY <1>1 DEF heldNow
<1>3. callNow = [c \in Callers |-> Promised!Quiet]
  BY QuietIsACall DEF Init, callNow, Promised!Quiet, QuietFacts
<1> QED
  BY <1>2, <1>3 DEF Init, Promised!Init, Promised!Keys, Keys

\* The steps of Next, named.
NextCases == \/ \E c \in Callers :
                  \/ \E o \in Ops, k \in Keys, v \in Values \cup {None} :
                       Begin(c, o, k, v)
                  \/ Operation(c) \/ Resend(c) \/ Fail(c) \/ Answer(c)
             \/ Tick \/ Restart

\* Next, with its operations gathered into one case.
LEMMA NextIsCases == Next <=> NextCases
  BY DEF Next, NextCases, Operation

\* Every step of a backend is a step of Store, or none.
LEMMA StepIsStores ==
  Types /\ [Next]_vars => Types' /\ [Promised!Next]_(Promised!vars)
<1> SUFFICES ASSUME Types, [Next]_vars
             PROVE  Types' /\ (Promised!Next \/ UNCHANGED Promised!vars)
  OBVIOUS
<1>1. ASSUME NEW c \in Callers, NEW o \in Ops, NEW k \in Keys,
             NEW v \in Values \cup {None}, Begin(c, o, k, v)
      PROVE  Types' /\ Promised!Next
  BY <1>1, BeginStep DEF Promised!Next, Promised!Keys, Promised!Ops, Keys, Ops
<1>2. ASSUME NEW c \in Callers, Operation(c)
      PROVE  Types' /\ Promised!Next
  BY <1>2, OperationTypes, OperationActs DEF Promised!Next
<1>3. ASSUME NEW c \in Callers, Resend(c)
      PROVE  Types' /\ (Promised!Next \/ UNCHANGED Promised!vars)
  BY <1>3, ResendStep DEF Promised!Next
<1>4. ASSUME NEW c \in Callers, Fail(c) PROVE Types' /\ Promised!Next
  BY <1>4, FailStep DEF Promised!Next
<1>5. ASSUME NEW c \in Callers, Answer(c) PROVE Types' /\ Promised!Next
  BY <1>5, AnswerStep DEF Promised!Next
<1>6. CASE Tick
  BY <1>6, TickStep DEF Promised!Next
<1>7. CASE Restart
  BY <1>7, RestartStep DEF Promised!Next
<1>8. CASE UNCHANGED vars
  <2>1. Types'
    BY <1>8 DEF vars, Types, InFlight, CallInOrder
  <2>2. UNCHANGED Promised!vars
    BY <1>8, EntriesKept, CallsKept DEF vars, Promised!vars
  <2> QED
    BY <2>1, <2>2
<1> QED
  BY <1>1, <1>2, <1>3, <1>4, <1>5, <1>6, <1>7, <1>8, NextIsCases DEF NextCases

\* In every behaviour the entries, the calls and the clock of both stores
\* (session/memory.go, session/redis.go) are well formed, and an entry's key is
\* its own copy (strings.Clone), never a view over a request's buffer.
THEOREM TypesHold == Spec => []Types
  BY TypesInit, StepIsStores, PTL DEF Spec

\* Every step of either store is a step of Store, or invisible to it.
THEOREM StoresKeepTheirPromise == Spec => ImplementsStore
  BY TypesInit, InitIsStores, StepIsStores, PTL
     DEF Spec, ImplementsStore, Promised!Spec

----------------------------------------------------------------------------
(* A login flow is handed out once.                                        *)

\* To begin with no flow was parked.
LEMMA SingleUseInit == Init => SingleUse
  BY QuietIsACall
     DEF Init, SingleUse, FlowInOnePlace, Putting, Took, InFlight, NotStored,
         QuietFacts

\* Only entries and calls that may lead to the flow matter, and they only go.
LEMMA FlowKept ==
  ASSUME NEW k \in FlowKeys, FlowInOnePlace(k),
         NotStored(k) => NotStored(k)', minted' = minted, handed'[k] = handed[k],
         \A c \in Callers : InFlight(c)' /\ call'[c].key = k =>
           /\ InFlight(c) /\ call[c].key = k /\ call'[c].op = call[c].op
           /\ Took(c, k)' => Took(c, k)
  PROVE  FlowInOnePlace(k)'
<1>1. /\ \A c \in Callers : Putting(c, k)' => Putting(c, k)
      /\ \A c \in Callers : Took(c, k)' => Took(c, k)
  BY DEF Putting, Took, InFlight
<1> QED
  BY <1>1 DEF FlowInOnePlace

\* Parking a flow mints its key once; other calls leave it in its place.
LEMMA FlowBegin ==
  ASSUME Types, NEW f \in FlowKeys, FlowInOnePlace(f), NEW c \in Callers,
         NEW o \in Ops, NEW k \in Keys, NEW v \in Values \cup {None},
         Begin(c, o, k, v)
  PROVE  FlowInOnePlace(f)'
<1> DEFINE q == BegunCall(o, k, v)
<1>1. q \in CallRecord /\ q.phase = "begun" /\ q.op = o /\ q.key = k
  BY RetriesAssumption DEF BegunCall, CallRecord
<1>2. /\ call' = [call EXCEPT ![c] = q] /\ UNCHANGED <<entries, handed>>
      /\ call[c].phase = "answered"
      /\ minted' = IF k \in FlowKeys /\ o = "put" THEN minted \cup {k} ELSE minted
      /\ k \in FlowKeys => o \in {"put", "take"}
      /\ k \in FlowKeys /\ o = "put" => k \notin minted
      /\ k \in FlowKeys /\ o = "take" =>
           /\ k \in minted
           /\ \A d \in Callers : call[d].key = k /\ call[d].op = "put"
                                   => call[d].phase = "answered"
  BY DEF Begin, BegunCall
<1> HIDE DEF q
<1>3. call'[c] = q /\ \A d \in Callers \ {c} : call'[d] = call[d]
  BY <1>1, <1>2, CallSet
<1>4. NotStored(f)' <=> NotStored(f)
  BY <1>2 DEF NotStored
<1>5. CASE k # f
  <2>1. f \in minted' <=> f \in minted
    BY <1>2, <1>5
  <2>2. /\ \A d \in Callers : Putting(d, f)' <=> Putting(d, f)
        /\ \A d \in Callers : Took(d, f)' <=> Took(d, f)
        /\ \A d \in Callers : InFlight(d)' /\ call'[d].key = f
             => InFlight(d) /\ call[d].key = f
    BY <1>1, <1>2, <1>3, <1>5 DEF Putting, Took, InFlight
  <2> QED
    BY <1>2, <1>4, <2>1, <2>2 DEF FlowInOnePlace
<1>6. CASE k = f /\ o = "put"
  <2>1. /\ NotStored(f) /\ handed[f] = 0 /\ f \in minted'
        /\ \A d \in Callers : InFlight(d) => call[d].key # f
    BY <1>2, <1>6 DEF FlowInOnePlace
  <2>2. /\ \A d \in Callers \ {c} : InFlight(d)' => call'[d].key # f
        /\ \A d \in Callers : ~Took(d, f)'
        /\ \A d \in Callers : Putting(d, f)' => d = c
    BY <1>1, <1>3, <2>1 DEF Putting, Took, InFlight
  <2> QED
    BY <1>2, <1>4, <2>1, <2>2 DEF FlowInOnePlace
<1>7. CASE k = f /\ o = "take"
  <2>1. /\ f \in minted' /\ \A d \in Callers : ~Putting(d, f)
    BY <1>2, <1>7 DEF Putting, InFlight
  <2>2. /\ \A d \in Callers : ~Putting(d, f)'
        /\ \A d \in Callers : Took(d, f)' => Took(d, f)
    BY <1>1, <1>3, <1>7, <2>1 DEF Putting, Took, InFlight
  <2> QED
    BY <1>2, <1>4, <2>1, <2>2 DEF FlowInOnePlace
<1> QED
  BY <1>2, <1>5, <1>6, <1>7

\* TakeFlow takes a flow out of the store as it hands it to its call.
LEMMA FlowOperation ==
  ASSUME Types, NEW f \in FlowKeys, FlowInOnePlace(f), NEW c \in Callers,
         Operation(c)
  PROVE  FlowInOnePlace(f)'
<1> DEFINE k == call[c].key
<1>1. PICK got \in Record \cup {None} :
        /\ Does(c, got) /\ AfterActing(c, got) \in CallRecord
        /\ call' = [call EXCEPT ![c] = AfterActing(c, got)]
  BY OperationFacts
<1>2. /\ call[c].phase = "begun" /\ InFlight(c) /\ CallInOrder(c)
      /\ UNCHANGED <<backend, now, minted, handed>> /\ k \in Keys
  BY OperationFacts DEF CallInOrder
<1>3. /\ call'[c] = AfterActing(c, got)
      /\ \A d \in Callers \ {c} : call'[d] = call[d]
  BY <1>1, CallSet
<1>4. /\ call'[c].phase = "acted" /\ call'[c].got = got
      /\ call'[c].op = call[c].op /\ call'[c].key = k
  BY <1>3 DEF AfterActing, Types, CallRecord
<1>5. /\ \A d \in Callers : InFlight(d)' => InFlight(d)
      /\ \A d \in Callers : call'[d].op = call[d].op
      /\ \A d \in Callers : call'[d].key = call[d].key
      /\ \A d \in Callers \ {c} : Took(d, f)' <=> Took(d, f)
  BY <1>2, <1>3, <1>4 DEF InFlight, Took
<1>6. CASE call[c].op = "put" /\ entries' = Stored(c)
  <2>1. \A j : j # k /\ NotStored(j) => NotStored(j)'
    BY <1>2, <1>6, EntriesStored
  <2>2. ~Took(c, f)'
    BY <1>4, <1>6 DEF Took
  <2>3. CASE k # f
    BY <1>2, <1>5, <2>1, <2>2, <2>3, FlowKept DEF Took
  <2>4. CASE k = f
    <3>1. /\ f \in minted /\ handed[f] = 0 /\ Putting(c, f)
          /\ \A d \in Callers \ {c} : InFlight(d) => call[d].key # f
      BY <1>2, <1>6, <2>4 DEF FlowInOnePlace, Putting
    <3>2. \A d \in Callers : ~Took(d, f)'
      BY <1>5, <2>2, <3>1 DEF Took, InFlight
    <3>3. \A d \in Callers : Putting(d, f)' => d = c
      BY <1>5, <3>1 DEF Putting
    <3> QED
      BY <1>2, <1>5, <3>1, <3>2, <3>3 DEF FlowInOnePlace
  <2> QED
    BY <2>3, <2>4
<1>7. CASE call[c].op = "get" /\ UNCHANGED entries
  <2>1. ~Took(c, f)' /\ (NotStored(f) => NotStored(f)')
    BY <1>4, <1>7 DEF Took, NotStored
  <2> QED
    BY <1>2, <1>5, <2>1, FlowKept
<1>8. CASE call[c].op = "delete" /\ entries' = entries \ Found(k)
  <2>1. ~Took(c, f)' /\ (NotStored(f) => NotStored(f)')
    BY <1>4, <1>8 DEF Took, NotStored
  <2> QED
    BY <1>2, <1>5, <2>1, FlowKept
<1>9. CASE /\ call[c].op = "take" /\ k \in FlowKeys
           /\ entries' = entries \ Found(k) /\ got = Entry(k)
  <2> PICK j \in Keys : j = k
    BY <1>2
  <2>1. NotStored(j)' /\ entries' \subseteq entries
    BY <1>2, <1>9, EntriesRemoved
  <2>2. NotStored(f) => NotStored(f)'
    BY <2>1 DEF NotStored
  <2>3. CASE k # f \/ got = None
    <3>1. ~Took(c, f)'
      BY <1>4, <2>3 DEF Took
    <3> QED
      BY <1>2, <1>5, <2>2, <3>1, FlowKept
  <2>4. CASE k = f /\ got # None
    <3>1. ~NotStored(f)
      BY <1>2, <1>9, <2>4, EntryFacts
    <3>2. /\ f \in minted /\ handed[f] = 0 /\ \A d \in Callers : ~Took(d, f)
      BY <3>1 DEF FlowInOnePlace, Types
    <3>3. \A d \in Callers : ~Putting(d, f)
      BY <1>2, <1>9, <2>4 DEF FlowInOnePlace, Putting
    <3>4. /\ \A d \in Callers : ~Putting(d, f)'
          /\ \A d \in Callers : Took(d, f)' => d = c
      BY <1>5, <3>2, <3>3 DEF Putting
    <3> QED
      BY <1>2, <2>1, <2>4, <3>2, <3>4 DEF FlowInOnePlace
  <2> QED
    BY <2>3, <2>4
<1> QED
  BY <1>1, <1>6, <1>7, <1>8, <1>9 DEF Does

\* A command to be sent again begins again; the flow stays in its one place.
LEMMA FlowResend ==
  ASSUME Types, NEW f \in FlowKeys, FlowInOnePlace(f), NEW c \in Callers,
         Resend(c)
  PROVE  FlowInOnePlace(f)'
<1>1. /\ UNCHANGED <<entries, minted, handed>> /\ InFlight(c)
      /\ call'[c].phase = "begun" /\ call'[c].op = call[c].op
      /\ call'[c].key = call[c].key
      /\ \A d \in Callers \ {c} : call'[d] = call[d]
  BY DEF Resend, Types, CallRecord, InFlight
<1> QED
  BY <1>1, FlowKept DEF NotStored, InFlight, Took

\* A call that ends without handing anything out leaves the flow in one place.
LEMMA FlowOver ==
  ASSUME Types, NEW f \in FlowKeys, FlowInOnePlace(f), NEW c \in Callers,
         call'[c].phase = "answered", UNCHANGED <<entries, minted>>,
         handed'[f] = handed[f],
         \A d \in Callers \ {c} : call'[d] = call[d]
  PROVE  FlowInOnePlace(f)'
  BY FlowKept DEF NotStored, InFlight, Took

\* A call that ends hands its flow out once, or drops an expired one.
LEMMA FlowAnswer ==
  ASSUME Types, NEW f \in FlowKeys, FlowInOnePlace(f), NEW c \in Callers,
         Answer(c)
  PROVE  FlowInOnePlace(f)'
<1> DEFINE got == Judged(call[c].got)
           k == call[c].key
<1>1. got \in Record \cup {None} /\ (got # None => got = call[c].got)
  BY AnswerFacts
<1>2. /\ call[c].phase = "acted" /\ InFlight(c)
      /\ call' = [call EXCEPT ![c] = Done(c, got)]
      /\ UNCHANGED <<entries, minted>>
      /\ handed' = IF call[c].op = "take" /\ got # None
                   THEN [handed EXCEPT ![k] = @ + 1] ELSE handed
  BY DEF Answer, InFlight
<1> HIDE DEF got
<1>3. Done(c, got) \in CallRecord /\ Done(c, got).phase = "answered"
  BY <1>1, DoneFacts
<1>4. /\ call'[c].phase = "answered"
      /\ \A d \in Callers \ {c} : call'[d] = call[d]
  BY <1>2, <1>3, CallSet
<1>5. CASE call[c].op = "take" /\ got # None /\ k = f
  <2>1. Took(c, f)
    BY <1>1, <1>2, <1>5 DEF Took
  <2>2. /\ handed[f] = 0 /\ NotStored(f) /\ f \in minted
        /\ \A d \in Callers \ {c} : ~Took(d, f)
        /\ \A d \in Callers : ~Putting(d, f)
    BY <1>2, <1>5, <2>1 DEF FlowInOnePlace, Putting, Took
  <2>3. handed'[f] = 1
    BY <1>2, <1>5, <2>2 DEF Types
  <2>4. \A d \in Callers : ~Took(d, f)' /\ ~Putting(d, f)'
    BY <1>4, <2>2 DEF Took, Putting, InFlight
  <2>5. NotStored(f)'
    BY <1>2, <2>2 DEF NotStored
  <2> QED
    BY <1>2, <2>2, <2>3, <2>4, <2>5 DEF FlowInOnePlace
<1>6. CASE ~(call[c].op = "take" /\ got # None /\ k = f)
  <2>1. handed'[f] = handed[f]
    BY <1>2, <1>6 DEF Types
  <2> QED
    BY <1>2, <1>4, <2>1, FlowOver
<1> QED
  BY <1>5, <1>6

\* A restart leaves a flow in its place or nowhere.
LEMMA FlowRestart ==
  ASSUME Types, NEW f \in FlowKeys, FlowInOnePlace(f), Restart
  PROVE  FlowInOnePlace(f)'
<1>1. /\ \A c \in Callers : ~InFlight(c)'
      /\ UNCHANGED <<minted, handed>>
      /\ entries' \in {entries, {}}
  BY QuietIsACall DEF Restart, InFlight, QuietFacts
<1>2. NotStored(f) => NotStored(f)'
  BY <1>1 DEF NotStored
<1> QED
  BY <1>1, <1>2, FlowKept

\* Every step keeps each flow in one place at most.
LEMMA SingleUseStep ==
  Types /\ SingleUse /\ [Next]_vars => SingleUse'
<1> SUFFICES ASSUME Types, SingleUse, [Next]_vars, NEW f \in FlowKeys
             PROVE  FlowInOnePlace(f)'
  BY DEF SingleUse
<1>0. FlowInOnePlace(f)
  BY DEF SingleUse
<1>1. ASSUME NEW c \in Callers, NEW o \in Ops, NEW k \in Keys,
             NEW v \in Values \cup {None}, Begin(c, o, k, v)
      PROVE  FlowInOnePlace(f)'
  BY <1>0, <1>1, FlowBegin
<1>2. ASSUME NEW c \in Callers, Operation(c)
      PROVE  FlowInOnePlace(f)'
  BY <1>0, <1>2, FlowOperation
<1>3. ASSUME NEW c \in Callers, Resend(c) PROVE FlowInOnePlace(f)'
  BY <1>0, <1>3, FlowResend
<1>4. ASSUME NEW c \in Callers, Fail(c) PROVE FlowInOnePlace(f)'
  <2>1. Done(c, Error) \in CallRecord /\ Done(c, Error).phase = "answered"
    BY DoneFacts
  <2>2. /\ call' = [call EXCEPT ![c] = Done(c, Error)]
        /\ UNCHANGED <<entries, minted, handed>>
    BY <1>4 DEF Fail
  <2>3. call'[c] = Done(c, Error) /\ \A d \in Callers \ {c} : call'[d] = call[d]
    BY <2>1, <2>2, CallSet
  <2> QED
    BY <1>0, <2>1, <2>2, <2>3, FlowOver
<1>5. ASSUME NEW c \in Callers, Answer(c) PROVE FlowInOnePlace(f)'
  BY <1>0, <1>5, FlowAnswer
<1>6. CASE Tick
  BY <1>0, <1>6, FlowKept DEF Tick, NotStored, InFlight, Took
<1>7. CASE Restart
  BY <1>0, <1>7, FlowRestart
<1>8. CASE UNCHANGED vars
  BY <1>0, <1>8, FlowKept DEF vars, NotStored, InFlight, Took
<1> QED
  BY <1>1, <1>2, <1>3, <1>4, <1>5, <1>6, <1>7, <1>8, NextIsCases DEF NextCases

\* The inductive invariant: the calls are in order, and a login flow is in
\* one place.
THEOREM StoreCorrect == Spec => [](Types /\ SingleUse)
<1>1. Types /\ SingleUse /\ [Next]_vars => (Types /\ SingleUse)'
  BY SingleUseStep, StepIsStores
<1> QED
  BY TypesInit, SingleUseInit, <1>1, PTL DEF Spec

\* A login flow is handed out at most once (TakeFlow), however its takes race,
\* are sent again or straddle a restart.
THEOREM FlowUsedOnce == Spec => []HandedOutOnce
<1>1. SingleUse => HandedOutOnce
  BY DEF SingleUse, FlowInOnePlace, HandedOutOnce
<1> QED
  BY <1>1, StoreCorrect, PTL

ServesInTime(c) ==
  call[c].phase = "acted" /\ call'[c].phase = "answered"
    /\ call'[c].got \notin {None, Error}
  => call'[c].got.until >= IF backend = "memory" THEN now ELSE call[c].at

\* A step that answers a call looks at the time of what it answers.
LEMMA AnswersInTime ==
  ASSUME Types, [Next]_vars, NEW c \in Callers
  PROVE  ServesInTime(c)
<1>1. ASSUME NEW d \in Callers, NEW o \in Ops, NEW k \in Keys,
             NEW v \in Values \cup {None}, Begin(d, o, k, v)
      PROVE  ServesInTime(c)
  BY <1>1 DEF Begin, Types, ServesInTime
<1>2. ASSUME NEW d \in Callers, Operation(d)
      PROVE  ServesInTime(c)
  <2>1. PICK got \in Record \cup {None} :
          call' = [call EXCEPT ![d] = AfterActing(d, got)]
    BY <1>2, OperationFacts
  <2> QED
    BY <2>1 DEF AfterActing, Types, CallRecord, ServesInTime
<1>3. ASSUME NEW d \in Callers, Resend(d) PROVE ServesInTime(c)
  BY <1>3 DEF Resend, Types, CallRecord, ServesInTime
<1>4. ASSUME NEW d \in Callers, Fail(d) PROVE ServesInTime(c)
  <2>1. /\ call' = [call EXCEPT ![d] = Done(d, Error)]
        /\ Done(d, Error).got = Error
    BY <1>4, DoneFacts DEF Fail
  <2> QED
    BY <2>1 DEF Types, ServesInTime
<1>5. ASSUME NEW d \in Callers, Answer(d) PROVE ServesInTime(c)
  <2> DEFINE got == Judged(call[d].got)
  <2>1. /\ got \in Record \cup {None}
        /\ got # None /\ backend = "memory" => now <= got.until
        /\ got # None /\ backend = "redis" => call[d].at <= got.until
    BY <1>5, AnswerFacts
  <2>2. call' = [call EXCEPT ![d] = Done(d, got)] /\ Done(d, got).got = got
    BY <1>5, <2>1, DoneFacts DEF Answer
  <2> HIDE DEF got
  <2>3. /\ backend \in {"memory", "redis"} /\ now \in Nat /\ call[d].at \in Nat
        /\ got # None => got.until \in Nat
    BY <2>1 DEF Types, CallRecord, Record
  <2>4. CASE c = d
    <3>1. call'[c].got = got
      BY <2>2, <2>4 DEF Types
    <3> QED
      BY <2>1, <2>3, <2>4, <3>1 DEF ServesInTime
  <2>5. CASE c # d
    BY <2>2, <2>5 DEF Types, ServesInTime
  <2> QED
    BY <2>4, <2>5
<1>6. CASE Tick
  BY <1>6 DEF Tick, ServesInTime
<1>7. CASE Restart
  <2>1. call'[c].got = None
    BY <1>7, QuietIsACall DEF Restart, QuietFacts
  <2> QED
    BY <2>1 DEF ServesInTime
<1>8. CASE UNCHANGED vars
  BY <1>8 DEF vars, ServesInTime
<1> QED
  BY <1>1, <1>2, <1>3, <1>4, <1>5, <1>6, <1>7, <1>8, NextIsCases DEF NextCases

\* No answer carries an entry past its time, as far as its store can tell
\* (Store: "ErrNotFound if absent or expired").
THEOREM NothingExpiredServed == Spec => ExpiredIsNotServed
<1>1. Types /\ [Next]_vars =>
        [\A c \in Callers :
           call[c].phase = "acted" /\ call'[c].phase = "answered"
             /\ call'[c].got \notin {None, Error}
           => call'[c].got.until >= IF backend = "memory" THEN now
                                                         ELSE call[c].at]_vars
  BY AnswersInTime DEF ServesInTime
<1> QED
  BY <1>1, TypesHold, PTL DEF Spec, ExpiredIsNotServed

=============================================================================
