------------------------------- MODULE Verify -------------------------------
(***************************************************************************)
(* The anonymous document check (routes/verify.go verifyDocument): the     *)
(* per-address gate on concurrent checks, the admission of the file, the   *)
(* call to the signing service (external) and the evidence event that is   *)
(* posted after the request has ended (audit/verify.go).                   *)
(*                                                                         *)
(* The client address is a view over the request's buffer, and the server  *)
(* reuses the buffer for the next request: buffers are modelled, and so is *)
(* what a Go map does with a key whose bytes change under it.              *)
(***************************************************************************)
EXTENDS Integers, FiniteSets, FiniteSetsExt

CONSTANTS Addresses,   \* client addresses
          NoAddress,   \* a buffer never used, a view instead of a copy
          Buffers,     \* request buffers of the server, one request each
          MaxPerKey,   \* VERIFY_CONCURRENT_PER_IP
          MaxPending   \* bound on evidence events waiting to be posted

ASSUME AddressAssumption == NoAddress \notin Addresses
ASSUME BoundsAssumption == MaxPerKey \in Int /\ MaxPending \in Nat

VARIABLES
  configured,  \* the signing service is configured (fixed at start)
  audited,     \* the audit service is wired to this recorder (fixed at start)
  buf,         \* buf[c]: the address bytes in the buffer
  phase,       \* phase[c]: where the buffer's request is
  seen,        \* buffers whose request had its document hashed
  recorded,    \* recorded[c]: audit records the request has left
  gate,        \* the map perIP: a set of entries
  events       \* evidence events still to be posted

vars == <<configured, audited, buf, phase, seen, recorded, gate, events>>

Phases == {"free", "arrived", "admitted", "forwarded", "answered"}

----------------------------------------------------------------------------
(* The gate.                                                               *)

\* An entry sits where the hash of its first key put it (slot); the key it
\* stores is a view over buffer key, whatever that holds now.
Entry == [slot : Addresses, key : Buffers, n : Nat]

\* The entries a lookup of address a finds: right slot, and equal bytes now.
Found(a) == {e \in gate : e.slot = a /\ buf[e.key] = a}

\* Faulty variant: the configured cap is taken as it is.
newInflightGateRaw(maxPerKey) == maxPerKey

\* newInflightGate: a cap below one is one.
newInflightGate(maxPerKey) == IF maxPerKey < 1 THEN 1 ELSE maxPerKey

Cap == newInflightGate(MaxPerKey)

\* Reading an absent key answers zero.
Full(a) == \/ \E e \in Found(a) : e.n >= Cap
           \/ Found(a) = {} /\ Cap <= 0

\* acquire: the count goes up, and the entry's key becomes this request's.
acquire(c) ==
  LET a == buf[c] IN
  IF Found(a) = {} THEN gate' = gate \cup {[slot |-> a, key |-> c, n |-> 1]}
  ELSE \E e \in Found(a) :
         gate' = (gate \ {e}) \cup {[e EXCEPT !.key = c, !.n = @ + 1]}

\* release: drops the entry at one, else counts down under this request's key.
\* A key that is not found reads as zero and nothing is deleted.
release(c) ==
  LET a == buf[c] IN
  \/ Found(a) = {} /\ UNCHANGED gate
  \/ \E e \in Found(a) :
       IF e.n <= 1 THEN gate' = gate \ {e}
       ELSE gate' = (gate \ {e}) \cup {[e EXCEPT !.key = c, !.n = @ - 1]}

----------------------------------------------------------------------------
(* The evidence.                                                           *)

\* Faulty variant: the event keeps the view over the request's buffer.
recordVerifyView(c) == [caller |-> buf[c], of |-> c, copy |-> NoAddress]

\* recordVerify: the event takes a copy of the address.
recordVerify(c) == [caller |-> buf[c], of |-> c, copy |-> buf[c]]

\* The address an event names when it is posted.
Names(ev) == IF ev.copy # NoAddress THEN ev.copy ELSE buf[ev.of]

\* The request leaves an event behind, unless no audit service is wired.
Record(c) ==
  \/ /\ audited
     /\ Cardinality(events) < MaxPending
     /\ events' = events \cup {recordVerify(c)}
     /\ recorded' = [recorded EXCEPT ![c] = @ + 1]
  \/ ~audited /\ UNCHANGED <<events, recorded>>

----------------------------------------------------------------------------
(* verifyDocument.                                                         *)

\* A request arrives; its address is written over whatever the buffer held.
Arrive(c, a) ==
  /\ phase[c] = "free"
  /\ buf' = [buf EXCEPT ![c] = a]
  /\ phase' = [phase EXCEPT ![c] = "arrived"]
  /\ seen' = seen \ {c}
  /\ recorded' = [recorded EXCEPT ![c] = 0]
  /\ UNCHANGED <<configured, audited, gate, events>>

\* No signing service, or the address is at its cap.
verifyRefused(c) ==
  /\ phase[c] = "arrived"
  /\ ~configured \/ Full(buf[c])
  /\ phase' = [phase EXCEPT ![c] = "answered"]
  /\ UNCHANGED <<configured, audited, buf, seen, recorded, gate, events>>

verifyAdmitted(c) ==
  /\ phase[c] = "arrived"
  /\ configured /\ ~Full(buf[c])
  /\ acquire(c)
  /\ phase' = [phase EXCEPT ![c] = "admitted"]
  /\ UNCHANGED <<configured, audited, buf, seen, recorded, events>>

\* Faulty variant: this early return does not release.
fileRefusedHolding(c) ==
  /\ phase[c] = "admitted"
  /\ phase' = [phase EXCEPT ![c] = "answered"]
  /\ UNCHANGED <<configured, audited, gate, buf, seen, recorded, events>>

\* Not one file, too large, or not readable: answered without evidence.
fileRefused(c) ==
  /\ phase[c] = "admitted"
  /\ release(c)
  /\ phase' = [phase EXCEPT ![c] = "answered"]
  /\ UNCHANGED <<configured, audited, buf, seen, recorded, events>>

\* The document gate refuses the bytes.
documentRejected(c) ==
  /\ phase[c] = "admitted"
  /\ seen' = seen \cup {c}
  /\ Record(c)
  /\ release(c)
  /\ phase' = [phase EXCEPT ![c] = "answered"]
  /\ UNCHANGED <<configured, audited, buf>>

\* A signed document goes to the signing service.
forward(c) ==
  /\ phase[c] = "admitted"
  /\ seen' = seen \cup {c}
  /\ phase' = [phase EXCEPT ![c] = "forwarded"]
  /\ UNCHANGED <<configured, audited, buf, recorded, gate, events>>

\* Faulty variant: a failed call is answered before the evidence is written.
verifyUnavailable(c) ==
  /\ phase[c] = "forwarded"
  /\ release(c)
  /\ phase' = [phase EXCEPT ![c] = "answered"]
  /\ UNCHANGED <<configured, audited, buf, seen, recorded, events>>

\* The call failed, was refused, gave an unreadable report or a verdict: each
\* is recorded once, answered, and the address's slot freed.
verifyOutcome(c) ==
  /\ phase[c] = "forwarded"
  /\ Record(c)
  /\ release(c)
  /\ phase' = [phase EXCEPT ![c] = "answered"]
  /\ UNCHANGED <<configured, audited, buf, seen>>

\* The request is over; its buffer is free, its bytes still in it.
Finish(c) ==
  /\ phase[c] = "answered"
  /\ phase' = [phase EXCEPT ![c] = "free"]
  /\ UNCHANGED <<configured, audited, buf, seen, recorded, gate, events>>

\* The background delivery posts the event, or gives it up.
Post(ev) ==
  /\ events' = events \ {ev}
  /\ UNCHANGED <<configured, audited, buf, phase, seen, recorded, gate>>

----------------------------------------------------------------------------
Init ==
  /\ configured \in BOOLEAN
  /\ audited \in BOOLEAN
  /\ buf = [c \in Buffers |-> NoAddress]
  /\ phase = [c \in Buffers |-> "free"]
  /\ seen = {}
  /\ recorded = [c \in Buffers |-> 0]
  /\ gate = {}
  /\ events = {}

Next ==
  \/ \E c \in Buffers :
       \/ \E a \in Addresses : Arrive(c, a)
       \/ verifyRefused(c)
       \/ verifyAdmitted(c)
       \/ fileRefused(c)
       \/ documentRejected(c)
       \/ forward(c)
       \/ verifyOutcome(c)
       \/ Finish(c)
  \/ \E ev \in events : Post(ev)

Spec == Init /\ [][Next]_vars

----------------------------------------------------------------------------
(* Properties.                                                             *)

\* The requests of address a that hold a slot of the gate.
InFlight(a) == {c \in Buffers : buf[c] = a
                                /\ phase[c] \in {"admitted", "forwarded"}}

\* Type invariant of the gate, the buffers and the evidence.
TypeOK ==
  /\ configured \in BOOLEAN
  /\ audited \in BOOLEAN
  /\ buf \in [Buffers -> Addresses \cup {NoAddress}]
  /\ phase \in [Buffers -> Phases]
  /\ seen \subseteq Buffers
  /\ recorded \in [Buffers -> 0..1]
  /\ gate \subseteq Entry
  /\ \A ev \in events : ev.caller \in Addresses /\ ev.of \in Buffers

\* The counts in the gate are the checks running: no address exceeds its cap,
\* and none keeps a count for a check that has ended.
GateCountsInFlight ==
  \A a \in Addresses :
    /\ Cardinality(InFlight(a)) <= Cap
    /\ MapThenSumSet(LAMBDA e : e.n, {e \in gate : e.slot = a})
         = Cardinality(InFlight(a))

\* An address with no check running is never refused by the gate.
IdleAddressAdmitted ==
  \A a \in Addresses : InFlight(a) = {} => ~Full(a)

\* Whenever it is posted, an evidence event names the caller it was recorded
\* for, whoever's request is in the buffer by then.
EvidenceNamesItsCaller == \A ev \in events : Names(ev) = ev.caller

\* A request whose document was looked at has left one event when it is
\* answered, and none before, whatever the signing service did; where no audit
\* service is wired there is none.
CheckedLeavesEvidenceOnce ==
  \A c \in Buffers : phase[c] \in {"admitted", "forwarded", "answered"}
    => recorded[c] = IF phase[c] = "answered" /\ c \in seen /\ audited
                     THEN 1 ELSE 0

\* "the map only ever holds in-flight keys" (routes/verify.go, release).
GateHoldsOnlyInFlight ==
  \A e \in gate : InFlight(e.slot) # {}

=============================================================================
