------------------------- MODULE AccessTrailProofs -------------------------
(***************************************************************************)
(* What TLAPS proves of AccessTrail, and of Verify within it: for any      *)
(* number of addresses, people, documents and request buffers, any         *)
(* deployment and any capacity of the outbox.                              *)
(***************************************************************************)
EXTENDS AccessTrail, FiniteSetTheorems, TLAPS

----------------------------------------------------------------------------
(* The types.                                                              *)

Read == [at : {"free", "arrived", "asked", "granted", "recorded", "served",
               "refused"},
         route : Routes \cup {"none"}, user : Users \cup {NoUser}]
AccessRecord == [user : Users, copy : Documents, of : Buffers, taken : BOOLEAN]
Event == [caller : Addresses, of : Buffers, copy : Addresses]

\* A record and an event hold copies; the buffer of a request in progress
\* holds its address and, on the user's behalf, its document.
Types ==
  /\ audited \in BOOLEAN
  /\ buf \in [Buffers -> Addresses \cup {NoAddress}]
  /\ path \in [Buffers -> Documents \cup {NoDocument}]
  /\ phase \in [Buffers -> Phases]
  /\ read \in [Buffers -> Read]
  /\ recorded \in [Buffers -> Nat]
  /\ seen \subseteq Buffers
  /\ events \subseteq Event
  /\ outbox \in Seq(AccessRecord)
  /\ {granted, served, delivered, dropped} \subseteq [Accesses -> Nat]

\* A buffer serves one request at a time.
InUse ==
  \A c \in Buffers :
    /\ phase[c] # "free" => buf[c] \in Addresses /\ read[c].at = "free"
    /\ read[c].at # "free" => path[c] \in Documents

----------------------------------------------------------------------------
(* The evidence and the records of the request in a buffer.                *)

\* An anonymous check has left its event when it is answered, if its document
\* was looked at.
CheckRecorded(c) ==
  /\ phase[c] \in {"arrived", "admitted", "forwarded"} => recorded[c] = 0
  /\ phase[c] \in {"arrived", "admitted"} => c \notin seen
  /\ phase[c] = "forwarded" => c \in seen
  /\ phase[c] = "answered" =>
       recorded[c] = IF c \in seen /\ audited THEN 1 ELSE 0

\* A request on the user's behalf leaves its record at documentRead.
ReadRecorded(c) ==
  /\ read[c].at \in {"arrived", "asked", "granted", "refused"} => recorded[c] = 0
  /\ read[c].at = "recorded" => read[c].route \in RecordedRoutes
  /\ read[c].at \in {"recorded", "served"} =>
       recorded[c] = IF Due(c) THEN 1 ELSE 0

EventsAreCopies == \A ev \in events : ev.copy = ev.caller

Recorded == /\ \A c \in Buffers : CheckRecorded(c) /\ ReadRecorded(c)
            /\ EventsAreCopies

----------------------------------------------------------------------------
(* The types are kept.                                                     *)

\* A free buffer's request, and a refused one, are well formed.
LEMMA IdleFacts == /\ Idle \in Read /\ Idle.at = "free"
                   /\ [Idle EXCEPT !.at = "refused"] \in Read
                   /\ [Idle EXCEPT !.at = "refused"].at = "refused"
  BY DEF Idle, Read

\* The steps of a request on the user's behalf.
Steps == {"asked", "granted", "recorded", "served"}

\* Going on to a next step changes only where the request is.
LEMMA StepFacts ==
  ASSUME Types, NEW c \in Buffers, NEW next \in Steps, Step(c, next)
  PROVE  \E q \in Read :
           /\ read' = [read EXCEPT ![c] = q]
           /\ q.at = next /\ q.route = read[c].route /\ q.user = read[c].user
<1> DEFINE q == [read[c] EXCEPT !.at = next]
<1>1. read' = [read EXCEPT ![c] = q]
  BY DEF Step, Types
<1>2. q \in Read /\ q.at = next /\ q.route = read[c].route
      /\ q.user = read[c].user
  BY DEF Types, Read, Steps
<1> QED
  BY <1>1, <1>2

\* A slot takes another request, and the others stay.
LEMMA ReadSet ==
  ASSUME Types, NEW c \in Buffers, NEW q \in Read
  PROVE  /\ [read EXCEPT ![c] = q] \in [Buffers -> Read]
         /\ [read EXCEPT ![c] = q][c] = q
         /\ \A b \in Buffers \ {c} : [read EXCEPT ![c] = q][b] = read[b]
  BY DEF Types

\* Tallies stay tallies.
LEMMA PlusFacts ==
  ASSUME NEW tally \in [Accesses -> Nat], NEW x
  PROVE  /\ Plus(tally, x) \in [Accesses -> Nat]
         /\ \A y \in Accesses :
              Plus(tally, x)[y] = IF y = x THEN tally[y] + 1 ELSE tally[y]
  BY DEF Plus

\* The record of a granted access.
LEMMA RecordFacts ==
  ASSUME Types, InUse, NEW c \in Buffers, read[c].at # "free",
         read[c].user # NoUser
  PROVE  /\ accessRecord(c) \in AccessRecord /\ ~accessRecord(c).taken
         /\ Named(accessRecord(c)) = <<read[c].user, path[c]>>
         /\ <<read[c].user, path[c]>> \in Accesses
<1>1. path[c] \in Documents /\ read[c].user \in Users
  BY DEF Types, InUse, Read
<1> QED
  BY <1>1, TrailAssumption DEF accessRecord, AccessRecord, Named, Accesses

\* What RecordAccess leaves well formed.
LEMMA RecordAccessFacts ==
  ASSUME Types, InUse, NEW c \in Buffers, read[c].at # "free", RecordAccess(c)
  PROVE  /\ recorded' \in [Buffers -> Nat]
         /\ outbox' \in Seq(AccessRecord)
         /\ delivered' \in [Accesses -> Nat] /\ dropped' \in [Accesses -> Nat]
<1>1. CASE audited /\ read[c].user # NoUser
  <2>1. accessRecord(c) \in AccessRecord
    BY <1>1, RecordFacts
  <2>2. PostOrBuffer(accessRecord(c))
        /\ recorded' = [recorded EXCEPT ![c] = @ + 1]
    BY <1>1 DEF RecordAccess
  <2> DEFINE rec == accessRecord(c)
  <2>3. /\ \/ outbox' = outbox \/ outbox' = Append(outbox, rec)
           \/ outbox' = Append(outbox, [rec EXCEPT !.taken = TRUE])
        /\ delivered' = delivered \/ delivered' = Plus(delivered, Named(rec))
        /\ dropped' = dropped \/ dropped' = Plus(dropped, Named(rec))
    BY <2>2 DEF PostOrBuffer, Takes
  <2>4. /\ rec \in AccessRecord /\ outbox \in Seq(AccessRecord)
        /\ delivered \in [Accesses -> Nat] /\ dropped \in [Accesses -> Nat]
    BY <2>1 DEF Types
  <2> HIDE DEF rec
  <2>5. outbox' \in Seq(AccessRecord)
    <3>0. [rec EXCEPT !.taken = TRUE] \in AccessRecord
      BY <2>4 DEF AccessRecord
    <3>1. /\ Append(outbox, rec) \in Seq(AccessRecord)
          /\ Append(outbox, [rec EXCEPT !.taken = TRUE]) \in Seq(AccessRecord)
      BY <2>4, <3>0
    <3> QED
      BY <2>3, <2>4, <3>1
  <2>6. delivered' \in [Accesses -> Nat] /\ dropped' \in [Accesses -> Nat]
    BY <2>3, <2>4, PlusFacts
  <2> QED
    BY <2>2, <2>5, <2>6 DEF Types
<1>2. CASE ~(audited /\ read[c].user # NoUser)
  BY <1>2 DEF RecordAccess, Types
<1> QED
  BY <1>1, <1>2

\* The variables of the trail that an anonymous check leaves alone.
checkKeeps == <<urls, durable, read, outbox, tallies>>

\* What Record leaves well formed.
LEMMA EventFacts ==
  ASSUME Types, InUse, NEW c \in Buffers, phase[c] # "free", Record(c)
  PROVE  /\ recorded' \in [Buffers -> Nat] /\ events' \subseteq Event
         /\ EventsAreCopies => EventsAreCopies'
<1>1. CASE audited /\ events' = events \cup {recordVerify(c)}
           /\ recorded' = [recorded EXCEPT ![c] = @ + 1]
  <2>1. recordVerify(c) \in Event /\ recordVerify(c).copy = recordVerify(c).caller
    BY DEF recordVerify, Event, InUse
  <2> QED
    BY <1>1, <2>1 DEF Types, EventsAreCopies
<1>2. CASE UNCHANGED <<events, recorded>>
  BY <1>2 DEF Types, EventsAreCopies
<1> QED
  BY <1>1, <1>2 DEF Record

\* A step of an anonymous check keeps the types, and buffers serve one request.
LEMMA CheckTypes ==
  ASSUME Types, InUse, CheckNext
  PROVE  Types' /\ InUse'
<1>1. ASSUME NEW c \in Buffers, NEW a \in Addresses, read[c].at = "free",
             Arrive(c, a), path' = [path EXCEPT ![c] = NoDocument],
             UNCHANGED checkKeeps
      PROVE  Types' /\ InUse'
  <2>1. Types'
    BY <1>1 DEF Arrive, Types, Phases, checkKeeps, tallies
  <2>2. InUse'
    BY <1>1, AddressAssumption DEF Arrive, Types, InUse, checkKeeps
  <2> QED
    BY <2>1, <2>2
<1>2. ASSUME NEW c \in Buffers,
             \/ verifyRefused(c) \/ verifyAdmitted(c) \/ fileRefused(c)
             \/ documentRejected(c) \/ forward(c) \/ verifyOutcome(c)
             \/ Finish(c),
             UNCHANGED path, UNCHANGED checkKeeps
      PROVE  Types' /\ InUse'
  <2>1. /\ phase[c] # "free" /\ UNCHANGED <<audited, buf>>
        /\ \E p \in Phases : phase' = [phase EXCEPT ![c] = p]
        /\ seen' = seen \/ seen' = seen \cup {c}
        /\ Record(c) \/ UNCHANGED <<events, recorded>>
    BY <1>2 DEF verifyRefused, verifyAdmitted, fileRefused, documentRejected,
       forward, verifyOutcome, Finish, Phases
  <2>2. /\ phase' \in [Buffers -> Phases] /\ seen' \subseteq Buffers
        /\ \A b \in Buffers : phase'[b] # "free" => phase[b] # "free"
    BY <2>1 DEF Types
  <2>3. recorded' \in [Buffers -> Nat] /\ events' \subseteq Event
    BY <2>1, EventFacts DEF Types
  <2>4. Types'
    BY <1>2, <2>1, <2>2, <2>3 DEF Types, checkKeeps, tallies
  <2>5. InUse'
    BY <1>2, <2>1, <2>2 DEF InUse, checkKeeps
  <2> QED
    BY <2>4, <2>5
<1>3. ASSUME NEW ev \in events, Post(ev), UNCHANGED path, UNCHANGED checkKeeps
      PROVE  Types' /\ InUse'
  BY <1>3 DEF Post, Types, InUse, checkKeeps, tallies
<1> QED
  BY <1>1, <1>2, <1>3 DEF CheckNext, checkKeeps

\* A request on the user's behalf takes another step in its buffer.
LEMMA ReadMoves ==
  ASSUME Types, InUse, NEW c \in Buffers, read[c].at # "free", NEW q \in Read,
         read' = [read EXCEPT ![c] = q],
         UNCHANGED <<audited, buf, path, phase, seen, events>>,
         recorded' \in [Buffers -> Nat], outbox' \in Seq(AccessRecord),
         granted' \in [Accesses -> Nat], served' \in [Accesses -> Nat],
         delivered' \in [Accesses -> Nat], dropped' \in [Accesses -> Nat]
  PROVE  Types' /\ InUse'
<1>1. /\ read' \in [Buffers -> Read]
      /\ \A b \in Buffers : read'[b].at # "free" => read[b].at # "free"
  BY ReadSet
<1> QED
  BY <1>1 DEF Types, InUse

\* So does a step of a request on the user's behalf.
LEMMA ReadTypes ==
  ASSUME Types, InUse, ReadNext
  PROVE  Types' /\ InUse'
<1>1. ASSUME NEW c \in Buffers, NEW a \in Addresses, NEW route \in Routes,
             NEW u \in Users \cup {NoUser}, NEW d \in Documents,
             ArriveRead(c, a, route, u, d)
      PROVE  Types' /\ InUse'
  <2>1. Types'
    BY <1>1 DEF ArriveRead, Types, Read, deployment, tallies
  <2>2. InUse'
    BY <1>1 DEF ArriveRead, Types, InUse
  <2> QED
    BY <2>1, <2>2
<1>2. ASSUME NEW c \in Buffers,
             \/ notReady(c) \/ onBehalfFails(c) \/ badInput(c) \/ relayErr(c)
             \/ FinishRead(c)
      PROVE  Types' /\ InUse'
  <2>1. /\ read[c].at # "free"
        /\ \E q \in Read : read' = [read EXCEPT ![c] = q]
        /\ UNCHANGED <<deployment, checkVars, path, outbox, tallies>>
    BY <1>2, IdleFacts
    DEF notReady, onBehalfFails, badInput, relayErr, FinishRead, Refuse
  <2> QED
    BY <2>1, ReadMoves DEF deployment, checkVars, tallies, Types
<1>3. ASSUME NEW c \in Buffers, onBehalf(c) \/ relay(c)
      PROVE  Types' /\ InUse'
  <2>1. /\ read[c].at # "free"
        /\ \E q \in Read : read' = [read EXCEPT ![c] = q]
        /\ UNCHANGED <<deployment, checkVars, path, outbox, tallies>>
    BY <1>3, StepFacts DEF onBehalf, relay, Steps
  <2> QED
    BY <2>1, ReadMoves DEF deployment, checkVars, tallies, Types
<1>4. ASSUME NEW c \in Buffers, callAnswers(c)
      PROVE  Types' /\ InUse'
  <2>1. /\ read[c].at # "free"
        /\ \E q \in Read : read' = [read EXCEPT ![c] = q]
        /\ UNCHANGED <<deployment, checkVars, path, outbox, served, delivered,
                       dropped>>
    BY <1>4, StepFacts DEF callAnswers, Steps
  <2>2. granted' \in [Accesses -> Nat]
    BY <1>4, PlusFacts DEF callAnswers, Types
  <2> QED
    BY <2>1, <2>2, ReadMoves DEF deployment, checkVars, Types
<1>5. ASSUME NEW c \in Buffers, documentRead(c)
      PROVE  Types' /\ InUse'
  <2>1. /\ read[c].at # "free"
        /\ \E q \in Read : read' = [read EXCEPT ![c] = q]
        /\ UNCHANGED <<deployment, buf, phase, seen, gate, events, path,
                       granted, served>>
    BY <1>5, StepFacts DEF documentRead, Steps
  <2>2. /\ recorded' \in [Buffers -> Nat] /\ outbox' \in Seq(AccessRecord)
        /\ delivered' \in [Accesses -> Nat] /\ dropped' \in [Accesses -> Nat]
    BY <1>5, <2>1, RecordAccessFacts DEF documentRead
  <2> QED
    BY <2>1, <2>2, ReadMoves DEF deployment, Types
<1>6. ASSUME NEW c \in Buffers, answer(c)
      PROVE  Types' /\ InUse'
  <2>1. /\ read[c].at # "free"
        /\ \E q \in Read : read' = [read EXCEPT ![c] = q]
        /\ UNCHANGED <<deployment, checkVars, path, outbox, granted, delivered,
                       dropped>>
    BY <1>6, StepFacts DEF answer, Steps
  <2>2. served' \in [Accesses -> Nat]
    BY <1>6, PlusFacts DEF answer, Types
  <2> QED
    BY <2>1, <2>2, ReadMoves DEF deployment, checkVars, Types
<1> QED
  BY <1>1, <1>2, <1>3, <1>4, <1>5, <1>6 DEF ReadNext

\* Taking a record off the outbox leaves records.
LEMMA RemoveAtFacts ==
  ASSUME NEW S, NEW s \in Seq(S), NEW i \in DOMAIN s
  PROVE  /\ RemoveAt(s, i) \in Seq(S)
         /\ Len(RemoveAt(s, i)) = Len(s) - 1
         /\ \A j \in 1..Len(s) - 1 :
              RemoveAt(s, i)[j] = IF j < i THEN s[j] ELSE s[j + 1]
<1> DEFINE front == SubSeq(s, 1, i - 1)
           back == SubSeq(s, i + 1, Len(s))
<1>1. /\ front \in Seq(S) /\ Len(front) = i - 1
      /\ \A j \in 1..i - 1 : front[j] = s[j]
  OBVIOUS
<1>2. /\ back \in Seq(S) /\ Len(back) = Len(s) - i
      /\ \A j \in 1..Len(s) - i : back[j] = s[i + j]
  OBVIOUS
<1>3. RemoveAt(s, i) = front \o back
  BY DEF RemoveAt
<1> HIDE DEF front, back
<1>4. /\ front \o back \in Seq(S)
      /\ Len(front \o back) = Len(s) - 1
  BY <1>1, <1>2
<1>5. ASSUME NEW j \in 1..Len(s) - 1
      PROVE  (front \o back)[j] = IF j < i THEN s[j] ELSE s[j + 1]
  <2>1. CASE j < i
    BY <1>1, <1>2, <2>1
  <2>2. CASE j >= i
    <3>1. (front \o back)[j] = back[j - (i - 1)]
      BY <1>1, <1>2, <2>2, SMTT(40)
    <3>2. j - (i - 1) \in 1..Len(s) - i /\ i + (j - (i - 1)) = j + 1
      BY <2>2
    <3>3. back[j - (i - 1)] = s[j + 1]
      BY <1>2, <3>2
    <3>4. ~(j < i)
      BY <2>2
    <3> QED
      BY <3>1, <3>3, <3>4
  <2>3. j < i \/ j >= i
    OBVIOUS
  <2> QED
    BY <2>1, <2>2, <2>3
<1> QED
  BY <1>3, <1>4, <1>5

\* Marking a record that the audit service has leaves records, the same ones.
LEMMA TakenFacts ==
  ASSUME NEW o \in Seq(AccessRecord), NEW i \in DOMAIN o
  PROVE  LET marked == [o EXCEPT ![i].taken = TRUE] IN
         /\ marked \in Seq(AccessRecord)
         /\ DOMAIN marked = DOMAIN o
         /\ marked[i].taken
         /\ \A j \in DOMAIN o : /\ marked[j].user = o[j].user
                               /\ marked[j].copy = o[j].copy
                               /\ j # i => marked[j] = o[j]
<1> DEFINE r == [o[i] EXCEPT !.taken = TRUE]
<1>1. /\ r \in AccessRecord /\ r.taken
      /\ r.user = o[i].user /\ r.copy = o[i].copy
  <2>1. o[i] \in AccessRecord
    OBVIOUS
  <2> QED
    BY <2>1 DEF AccessRecord
<1>2. [o EXCEPT ![i].taken = TRUE] = [o EXCEPT ![i] = r]
  OBVIOUS
<1> HIDE DEF r
<1>3. [o EXCEPT ![i] = r] \in Seq(AccessRecord)
  BY <1>1
<1> QED
  BY <1>1, <1>2, <1>3

\* So does every step, a delivery and a restart included.
LEMMA TypesStep ==
  ASSUME Types, InUse, [TrailNext]_trailVars
  PROVE  Types' /\ InUse'
<1>1. ASSUME NEW i \in DOMAIN outbox, Drain(i)
      PROVE  Types' /\ InUse'
  <2>1. outbox \in Seq(AccessRecord) /\ delivered \in [Accesses -> Nat]
    BY DEF Types
  <2>2. RemoveAt(outbox, i) \in Seq(AccessRecord)
    BY <2>1, RemoveAtFacts
  <2>3. [outbox EXCEPT ![i].taken = TRUE] \in Seq(AccessRecord)
    BY <2>1, TakenFacts
  <2>4. outbox' \in Seq(AccessRecord)
    BY <1>1, <2>2, <2>3 DEF Drain
  <2>5. delivered' \in [Accesses -> Nat]
    BY <1>1, <2>1, PlusFacts DEF Drain, Takes
  <2> QED
    BY <1>1, <2>4, <2>5 DEF Drain, Types, InUse, checkVars, deployment
<1>2. CASE Restart
  <2>1. outbox' \in Seq(AccessRecord)
    BY <1>2 DEF Restart, restartedOutbox, Types
  <2> QED
    BY <1>2, <2>1, IdleFacts DEF Restart, Types, InUse, Phases, deployment, tallies
<1>3. CASE UNCHANGED trailVars
  BY <1>3 DEF trailVars, checkVars, deployment, tallies, Types, InUse
<1> QED
  BY <1>1, <1>2, <1>3, CheckTypes, ReadTypes DEF TrailNext

\* A process begins well formed, with every buffer free.
LEMMA TypesInit == TrailInit => Types /\ InUse
  BY IdleFacts DEF TrailInit, Init, Types, InUse, Phases

----------------------------------------------------------------------------
(* One record, one event.                                                  *)

\* A process begins with nothing recorded.
LEMMA RecordedInit == TrailInit => Recorded
  BY IdleFacts DEF TrailInit, Init, Recorded, CheckRecorded, ReadRecorded,
     EventsAreCopies

\* A buffer whose request is not touched keeps what it left.
LEMMA RecordedElsewhere ==
  ASSUME Recorded, NEW b \in Buffers, UNCHANGED audited,
         phase'[b] = phase[b], read'[b] = read[b], recorded'[b] = recorded[b],
         b \in seen' <=> b \in seen
  PROVE  (CheckRecorded(b) /\ ReadRecorded(b))'
  BY DEF Recorded, CheckRecorded, ReadRecorded, Due

\* The evidence of a check whose document was looked at.
LEMMA EvidenceLeft ==
  ASSUME Types, NEW c \in Buffers, recorded[c] = 0, Record(c)
  PROVE  /\ recorded'[c] = IF audited THEN 1 ELSE 0
         /\ \A b \in Buffers \ {c} : recorded'[b] = recorded[b]
<1>1. CASE audited /\ recorded' = [recorded EXCEPT ![c] = @ + 1]
  BY <1>1 DEF Types
<1>2. CASE ~audited /\ recorded' = recorded
  BY <1>2
<1> QED
  BY <1>1, <1>2 DEF Record

\* A check counts its own evidence, in a buffer that serves no read.
LEMMA CheckRecordedStep ==
  ASSUME Types, InUse, Recorded, CheckNext
  PROVE  Recorded'
<1>1. ASSUME NEW c \in Buffers, NEW a \in Addresses, read[c].at = "free",
             Arrive(c, a), UNCHANGED checkKeeps
      PROVE  Recorded'
  <2>1. /\ phase'[c] = "arrived" /\ recorded'[c] = 0 /\ c \notin seen'
        /\ read' = read /\ audited' = audited /\ events' = events
        /\ \A b \in Buffers \ {c} :
             /\ phase'[b] = phase[b] /\ recorded'[b] = recorded[b]
             /\ b \in seen' <=> b \in seen
    BY <1>1 DEF Arrive, Types, checkKeeps
  <2>2. (CheckRecorded(c) /\ ReadRecorded(c))'
    BY <1>1, <2>1 DEF CheckRecorded, ReadRecorded
  <2> QED
    BY <2>1, <2>2, RecordedElsewhere DEF Recorded, EventsAreCopies
<1>2. ASSUME NEW c \in Buffers,
             \/ verifyRefused(c) \/ verifyAdmitted(c) \/ fileRefused(c)
             \/ documentRejected(c) \/ forward(c) \/ verifyOutcome(c)
             \/ Finish(c),
             UNCHANGED checkKeeps
      PROVE  Recorded'
  <2>1. /\ phase[c] # "free" /\ read[c].at = "free"
        /\ read' = read /\ audited' = audited
        /\ CheckRecorded(c)
    BY <1>2 DEF verifyRefused, verifyAdmitted, fileRefused, documentRejected,
       forward, verifyOutcome, Finish, InUse, Recorded, checkKeeps
  <2>2. /\ \A b \in Buffers \ {c} :
             phase'[b] = phase[b] /\ (b \in seen' <=> b \in seen)
        /\ Record(c) \/ UNCHANGED <<events, recorded>>
    BY <1>2 DEF verifyRefused, verifyAdmitted, fileRefused, documentRejected,
       forward, verifyOutcome, Finish, Types
  <2>3. /\ \A b \in Buffers \ {c} : recorded'[b] = recorded[b]
        /\ EventsAreCopies'
    BY <2>1, <2>2, EventFacts DEF Record, Types, Recorded, EventsAreCopies
  <2>4. CheckRecorded(c)'
    <3>1. CASE documentRejected(c) \/ verifyOutcome(c)
      <4>1. /\ recorded[c] = 0 /\ Record(c)
            /\ phase'[c] = "answered" /\ c \in seen'
        BY <2>1, <3>1 DEF documentRejected, verifyOutcome, CheckRecorded, Types
      <4> QED
        BY <2>1, <4>1, EvidenceLeft DEF CheckRecorded
    <3>2. CASE verifyRefused(c) \/ fileRefused(c)
      BY <2>1, <3>2 DEF verifyRefused, fileRefused, CheckRecorded, Types
    <3>3. CASE verifyAdmitted(c)
      BY <2>1, <3>3 DEF verifyAdmitted, CheckRecorded, Types
    <3>4. CASE forward(c)
      BY <2>1, <3>4 DEF forward, CheckRecorded, Types
    <3>5. CASE Finish(c)
      BY <2>1, <3>5 DEF Finish, CheckRecorded, Types
    <3> QED
      BY <1>2, <3>1, <3>2, <3>3, <3>4, <3>5
  <2>5. ReadRecorded(c)'
    BY <2>1 DEF ReadRecorded
  <2> QED
    BY <2>1, <2>2, <2>3, <2>4, <2>5, RecordedElsewhere DEF Recorded
<1>3. ASSUME NEW ev \in events, Post(ev), UNCHANGED checkKeeps
      PROVE  Recorded'
  BY <1>3 DEF Post, checkKeeps, Recorded, CheckRecorded, ReadRecorded, Due,
     EventsAreCopies
<1> QED
  BY <1>1, <1>2, <1>3 DEF CheckNext, checkKeeps

\* A step that only moves a request on the user's behalf.
LEMMA ReadRecordedMove ==
  ASSUME Types, InUse, Recorded, NEW c \in Buffers, read[c].at # "free",
         NEW q \in Read, read' = [read EXCEPT ![c] = q],
         UNCHANGED <<audited, phase, seen, events>>,
         \A b \in Buffers \ {c} : recorded'[b] = recorded[b],
         ReadRecorded(c)'
  PROVE  Recorded'
<1>1. \A b \in Buffers \ {c} : read'[b] = read[b]
  BY ReadSet
<1>2. CheckRecorded(c)'
  BY DEF InUse, CheckRecorded
<1> QED
  BY <1>1, <1>2, RecordedElsewhere DEF Recorded, EventsAreCopies

\* A read counts its record when it is made, and only then.
LEMMA ReadRecordedStep ==
  ASSUME Types, InUse, Recorded, ReadNext
  PROVE  Recorded'
<1>1. ASSUME NEW c \in Buffers, NEW a \in Addresses, NEW route \in Routes,
             NEW u \in Users \cup {NoUser}, NEW d \in Documents,
             ArriveRead(c, a, route, u, d)
      PROVE  Recorded'
  <2>1. /\ phase'[c] = "free" /\ read'[c].at = "arrived" /\ recorded'[c] = 0
        /\ audited' = audited /\ events' = events
        /\ \A b \in Buffers \ {c} :
             /\ phase'[b] = phase[b] /\ recorded'[b] = recorded[b]
             /\ read'[b] = read[b]
             /\ b \in seen' <=> b \in seen
    BY <1>1 DEF ArriveRead, Types, deployment
  <2>2. (CheckRecorded(c) /\ ReadRecorded(c))'
    BY <2>1 DEF CheckRecorded, ReadRecorded
  <2> QED
    BY <2>1, <2>2, RecordedElsewhere DEF Recorded, EventsAreCopies
<1>2. ASSUME NEW c \in Buffers,
             notReady(c) \/ onBehalfFails(c) \/ badInput(c) \/ relayErr(c)
      PROVE  Recorded'
  <2>1. /\ read[c].at \in {"arrived", "asked"}
        /\ Refuse(c) /\ UNCHANGED <<audited, phase, seen, events, recorded>>
    BY <1>2 DEF notReady, onBehalfFails, badInput, relayErr, deployment, checkVars
  <2>2. read'[c].at = "refused" /\ recorded'[c] = 0
    BY <2>1, IdleFacts DEF Refuse, Types, Recorded, ReadRecorded
  <2>3. ReadRecorded(c)'
    BY <2>2 DEF ReadRecorded
  <2> QED
    BY <2>1, <2>3, IdleFacts, ReadRecordedMove DEF Refuse
<1>3. ASSUME NEW c \in Buffers, onBehalf(c) \/ callAnswers(c)
      PROVE  Recorded'
  <2>1. /\ read[c].at \in {"arrived", "asked"}
        /\ Step(c, "asked") \/ Step(c, "granted")
        /\ UNCHANGED <<audited, phase, seen, events, recorded>>
    BY <1>3 DEF onBehalf, callAnswers, deployment, checkVars
  <2>2. PICK q \in Read : /\ read' = [read EXCEPT ![c] = q]
                          /\ q.at \in {"asked", "granted"}
    BY <2>1, StepFacts DEF Steps
  <2>3. ReadRecorded(c)'
    BY <2>1, <2>2, ReadSet DEF Recorded, ReadRecorded
  <2> QED
    BY <2>1, <2>2, <2>3, ReadRecordedMove
<1>4. ASSUME NEW c \in Buffers, documentRead(c)
      PROVE  Recorded'
  <2>1. /\ read[c].at = "granted" /\ read[c].route \in RecordedRoutes
        /\ RecordAccess(c) /\ Step(c, "recorded")
        /\ UNCHANGED <<audited, phase, seen, events>> /\ recorded[c] = 0
    BY <1>4 DEF documentRead, deployment, Recorded, ReadRecorded
  <2>2. PICK q \in Read :
          /\ read' = [read EXCEPT ![c] = q] /\ q.at = "recorded"
          /\ q.route = read[c].route /\ q.user = read[c].user
    BY <2>1, StepFacts DEF Steps
  <2>3. read'[c] = q
    BY <2>2, ReadSet
  <2>4. /\ recorded'[c] = IF audited /\ read[c].user # NoUser THEN 1 ELSE 0
        /\ \A b \in Buffers \ {c} : recorded'[b] = recorded[b]
    <3>1. CASE audited /\ read[c].user # NoUser
      BY <2>1, <3>1 DEF RecordAccess, Types
    <3>2. CASE ~(audited /\ read[c].user # NoUser)
      BY <2>1, <3>2 DEF RecordAccess
    <3> QED
      BY <3>1, <3>2
  <2>5. ReadRecorded(c)'
    BY <2>1, <2>2, <2>3, <2>4 DEF ReadRecorded, Due, RecordedRoutes
  <2> QED
    BY <2>1, <2>2, <2>4, <2>5, ReadRecordedMove
<1>5. ASSUME NEW c \in Buffers, answer(c) \/ relay(c)
      PROVE  Recorded'
  <2>1. /\ \/ read[c].at = "recorded"
           \/ read[c].at = "granted" /\ read[c].route \notin RecordedRoutes
        /\ Step(c, "served")
        /\ UNCHANGED <<audited, phase, seen, events, recorded>>
    BY <1>5 DEF answer, relay, deployment, checkVars
  <2>2. PICK q \in Read :
          /\ read' = [read EXCEPT ![c] = q] /\ q.at = "served"
          /\ q.route = read[c].route /\ q.user = read[c].user
    BY <2>1, StepFacts DEF Steps
  <2>3. read'[c] = q
    BY <2>2, ReadSet
  <2>4. recorded[c] = IF Due(c) THEN 1 ELSE 0
    BY <2>1 DEF Recorded, ReadRecorded, Due, RecordedRoutes
  <2>5. ReadRecorded(c)'
    BY <2>1, <2>2, <2>3, <2>4 DEF ReadRecorded, Due
  <2> QED
    BY <2>1, <2>2, <2>5, ReadRecordedMove
<1>6. ASSUME NEW c \in Buffers, FinishRead(c)
      PROVE  Recorded'
  <2>1. /\ read[c].at # "free" /\ read' = [read EXCEPT ![c] = Idle]
        /\ UNCHANGED <<audited, phase, seen, events, recorded>>
    BY <1>6 DEF FinishRead, deployment, checkVars
  <2>2. ReadRecorded(c)'
    BY <2>1, IdleFacts DEF ReadRecorded, Types
  <2> QED
    BY <2>1, <2>2, IdleFacts, ReadRecordedMove
<1> QED
  BY <1>1, <1>2, <1>3, <1>4, <1>5, <1>6 DEF ReadNext

\* Every step keeps the count of what each request recorded.
LEMMA RecordedStep ==
  ASSUME Types, InUse, Recorded, [TrailNext]_trailVars
  PROVE  Recorded'
<1>1. ASSUME NEW i \in DOMAIN outbox, Drain(i)
      PROVE  Recorded'
  BY <1>1 DEF Drain, deployment, checkVars, Recorded, CheckRecorded,
     ReadRecorded, Due, EventsAreCopies
<1>2. CASE Restart
  BY <1>2, IdleFacts DEF Restart, Recorded, CheckRecorded, ReadRecorded,
     EventsAreCopies
<1>3. CASE UNCHANGED trailVars
  BY <1>3 DEF trailVars, deployment, checkVars, Recorded, CheckRecorded,
     ReadRecorded, Due, EventsAreCopies
<1> QED
  BY <1>1, <1>2, <1>3, CheckRecordedStep, ReadRecordedStep DEF TrailNext

----------------------------------------------------------------------------
(* The trail balances.                                                     *)

\* The records of access x in an outbox that the audit service has not taken.
Holds(o, x) == {i \in DOMAIN o : <<o[i].user, o[i].copy>> = x /\ ~o[i].taken}

\* The records of access x that were taken, wait or were given up.
Accounted(x) == delivered[x] + Cardinality(Holds(outbox, x)) + dropped[x]

\* The requests for access x at a step, owed a record.
InStep(at, x) == {c \in Buffers : /\ read[c].at = at /\ Due(c)
                                  /\ <<read[c].user, path[c]>> = x}

\* A record is written for a granted access, and before its bytes are answered.
Balanced ==
  \A x \in Accesses :
    /\ Accounted(x) + Cardinality(InStep("granted", x)) <= granted[x]
    /\ durable => served[x] + Cardinality(InStep("recorded", x)) <= Accounted(x)

\* Records in an outbox can be counted.
LEMMA HoldsFinite ==
  ASSUME NEW o \in Seq(AccessRecord), NEW x
  PROVE  IsFiniteSet(Holds(o, x)) /\ Cardinality(Holds(o, x)) \in Nat
<1>1. Holds(o, x) \subseteq 1..Len(o) /\ IsFiniteSet(1..Len(o))
  BY FS_Interval DEF Holds
<1>2. IsFiniteSet(Holds(o, x))
  BY <1>1, FS_Subset
<1> QED
  BY <1>2, FS_CardinalityType

\* One more record in the outbox.
LEMMA HoldsAppend ==
  ASSUME NEW o \in Seq(AccessRecord), NEW r \in AccessRecord, NEW x
  PROVE  Cardinality(Holds(Append(o, r), x))
           = IF <<r.user, r.copy>> = x /\ ~r.taken
             THEN Cardinality(Holds(o, x)) + 1
             ELSE Cardinality(Holds(o, x))
<1> DEFINE n == Len(o) + 1
<1>1. /\ Append(o, r) \in Seq(AccessRecord) /\ Len(Append(o, r)) = n
      /\ Append(o, r)[n] = r /\ \A i \in 1..Len(o) : Append(o, r)[i] = o[i]
      /\ n \notin 1..Len(o) /\ 1..n = 1..Len(o) \cup {n}
  OBVIOUS
<1>2. DOMAIN Append(o, r) = DOMAIN o \cup {n} /\ n \notin DOMAIN o
  BY <1>1
<1>3. CASE <<r.user, r.copy>> = x /\ ~r.taken
  <2>1. Holds(Append(o, r), x) = Holds(o, x) \cup {n} /\ n \notin Holds(o, x)
    BY <1>1, <1>2, <1>3 DEF Holds
  <2>2. IsFiniteSet(Holds(o, x))
    BY HoldsFinite
  <2>3. Cardinality(Holds(o, x) \cup {n}) = Cardinality(Holds(o, x)) + 1
    BY <2>1, <2>2, FS_AddElement
  <2> QED
    BY <1>3, <2>1, <2>3
<1>4. CASE ~(<<r.user, r.copy>> = x /\ ~r.taken)
  <2>1. Holds(Append(o, r), x) = Holds(o, x)
    BY <1>1, <1>2, <1>4 DEF Holds
  <2> QED
    BY <1>4, <2>1
<1> QED
  BY <1>3, <1>4

\* One record less: the ones behind it move up.
LEMMA HoldsRemove ==
  ASSUME NEW o \in Seq(AccessRecord), NEW i \in DOMAIN o, NEW x
  PROVE  Cardinality(Holds(RemoveAt(o, i), x))
           = IF <<o[i].user, o[i].copy>> = x /\ ~o[i].taken
             THEN Cardinality(Holds(o, x)) - 1
             ELSE Cardinality(Holds(o, x))
<1> DEFINE rest == RemoveAt(o, i)
           S == Holds(rest, x)
           T == Holds(o, x) \ {i}
           f == [j \in S |-> IF j < i THEN j ELSE j + 1]
<1>1. /\ rest \in Seq(AccessRecord) /\ DOMAIN rest = 1..Len(o) - 1
      /\ \A j \in 1..Len(o) - 1 : rest[j] = IF j < i THEN o[j] ELSE o[j + 1]
      /\ DOMAIN o = 1..Len(o) /\ i \in 1..Len(o) /\ Len(o) \in Nat
  <2>1. DOMAIN o = 1..Len(o) /\ i \in 1..Len(o) /\ Len(o) \in Nat
    OBVIOUS
  <2>2. /\ RemoveAt(o, i) \in Seq(AccessRecord)
        /\ Len(RemoveAt(o, i)) = Len(o) - 1
        /\ \A j \in 1..Len(o) - 1 :
             RemoveAt(o, i)[j] = IF j < i THEN o[j] ELSE o[j + 1]
    BY RemoveAtFacts
  <2> HIDE DEF rest
  <2>3. rest = RemoveAt(o, i)
    BY DEF rest
  <2> QED
    BY <2>1, <2>2, <2>3
<1> HIDE DEF rest
<1>2. S \subseteq 1..Len(o) - 1 /\ T \subseteq 1..Len(o)
  BY <1>1 DEF Holds
<1>3. ASSUME NEW j \in S
      PROVE  f[j] \in T
  <2>1. CASE j < i
    BY <1>1, <1>2, <2>1 DEF Holds
  <2>2. CASE ~(j < i)
    <3>1. j + 1 \in 1..Len(o) /\ j + 1 # i /\ rest[j] = o[j + 1]
      BY <1>1, <1>2, <2>2
    <3> QED
      BY <1>1, <2>2, <3>1 DEF Holds
  <2> QED
    BY <2>1, <2>2
<1>4. ASSUME NEW j \in S, NEW k \in S, f[j] = f[k]
      PROVE  j = k
  BY <1>1, <1>2, <1>4
<1>5. ASSUME NEW k \in T
      PROVE  \E j \in S : f[j] = k
  <2>1. k \in 1..Len(o) /\ k # i /\ <<o[k].user, o[k].copy>> = x /\ ~o[k].taken
    BY <1>2 DEF Holds
  <2>2. CASE k < i
    <3>1. k \in 1..Len(o) - 1 /\ rest[k] = o[k]
      BY <1>1, <2>1, <2>2
    <3>2. k \in S
      BY <1>1, <2>1, <3>1 DEF Holds
    <3> QED
      BY <2>2, <3>2
  <2>3. CASE ~(k < i)
    <3>1. k - 1 \in 1..Len(o) - 1 /\ ~(k - 1 < i) /\ (k - 1) + 1 = k
      BY <1>1, <2>1, <2>3
    <3>2. rest[k - 1] = o[k]
      BY <1>1, <3>1
    <3>3. k - 1 \in S
      BY <1>1, <2>1, <3>1, <3>2 DEF Holds
    <3> QED
      BY <3>1, <3>3
  <2> QED
    BY <2>2, <2>3
<1>6. f \in Bijection(S, T)
  BY <1>3, <1>4, <1>5 DEF Bijection, Injection, Surjection, IsInjective
<1>7. IsFiniteSet(S) /\ IsFiniteSet(Holds(o, x))
  BY <1>1, HoldsFinite
<1>8. Cardinality(T) = Cardinality(S)
  BY <1>6, <1>7, FS_Bijection DEF ExistsBijection
<1>9. Cardinality(T) = IF i \in Holds(o, x) THEN Cardinality(Holds(o, x)) - 1
                       ELSE Cardinality(Holds(o, x))
  BY <1>7, FS_RemoveElement
<1>10. i \in Holds(o, x) <=> <<o[i].user, o[i].copy>> = x /\ ~o[i].taken
  BY DEF Holds
<1> QED
  BY <1>8, <1>9, <1>10 DEF rest

\* One record that is marked taken is one less that is not.
LEMMA HoldsTaken ==
  ASSUME NEW o \in Seq(AccessRecord), NEW i \in DOMAIN o, NEW x
  PROVE  Cardinality(Holds([o EXCEPT ![i].taken = TRUE], x))
           = IF <<o[i].user, o[i].copy>> = x /\ ~o[i].taken
             THEN Cardinality(Holds(o, x)) - 1
             ELSE Cardinality(Holds(o, x))
<1> DEFINE marked == [o EXCEPT ![i].taken = TRUE]
<1>1. /\ DOMAIN marked = DOMAIN o /\ marked[i].taken
      /\ \A j \in DOMAIN o \ {i} : marked[j] = o[j]
  BY TakenFacts
<1> HIDE DEF marked
<1>2. Holds(marked, x) = Holds(o, x) \ {i}
  BY <1>1 DEF Holds
<1>3. i \in Holds(o, x) <=> <<o[i].user, o[i].copy>> = x /\ ~o[i].taken
  BY DEF Holds
<1>4. Cardinality(Holds(o, x) \ {i})
        = IF i \in Holds(o, x) THEN Cardinality(Holds(o, x)) - 1
          ELSE Cardinality(Holds(o, x))
  BY HoldsFinite, FS_RemoveElement
<1> QED
  BY <1>2, <1>3, <1>4 DEF marked

\* Requests at a step can be counted.
LEMMA InStepFinite ==
  ASSUME NEW at, NEW x
  PROVE  IsFiniteSet(InStep(at, x)) /\ Cardinality(InStep(at, x)) \in Nat
<1>1. IsFiniteSet(InStep(at, x))
  BY FS_Subset, TrailAssumption DEF InStep
<1> QED
  BY <1>1, FS_CardinalityType

\* The requests at a step for an access are finitely many after a step too.
LEMMA InStepFiniteNext ==
  ASSUME NEW at, NEW x
  PROVE  IsFiniteSet(InStep(at, x)') /\ Cardinality(InStep(at, x)') \in Nat
<1>1. IsFiniteSet(InStep(at, x)')
  BY FS_Subset, TrailAssumption DEF InStep
<1> QED
  BY <1>1, FS_CardinalityType

\* A request owed a record leaves a step, or comes to it; the others stay.
LEMMA InStepLeaves ==
  ASSUME NEW at, NEW x, NEW c \in InStep(at, x),
         InStep(at, x)' = InStep(at, x) \ {c}
  PROVE  Cardinality(InStep(at, x)') = Cardinality(InStep(at, x)) - 1
  BY InStepFinite, FS_RemoveElement

\* One request more at a step counts as one.
LEMMA InStepComes ==
  ASSUME NEW at, NEW x, NEW c, c \notin InStep(at, x),
         InStep(at, x)' = InStep(at, x) \cup {c}
  PROVE  Cardinality(InStep(at, x)') = Cardinality(InStep(at, x)) + 1
  BY InStepFinite, FS_AddElement

\* The steps of the request in one buffer, for the others and for itself.
LEMMA InStepMoves ==
  ASSUME Types, NEW c \in Buffers, NEW q \in Read,
         read' = [read EXCEPT ![c] = q], UNCHANGED <<audited, path>>,
         q.user = read[c].user, q.route = read[c].route, NEW at, NEW x
  PROVE  InStep(at, x)' =
           IF q.at = at /\ Due(c) /\ <<read[c].user, path[c]>> = x
           THEN InStep(at, x) \cup {c} ELSE InStep(at, x) \ {c}
<1>1. /\ read'[c] = q /\ \A b \in Buffers \ {c} : read'[b] = read[b]
      /\ path' = path /\ audited' = audited
  BY ReadSet
<1>2. \A b \in Buffers \ {c} : b \in InStep(at, x)' <=> b \in InStep(at, x)
  BY <1>1 DEF InStep, Due
<1>3. c \in InStep(at, x)'
        <=> q.at = at /\ Due(c) /\ <<read[c].user, path[c]>> = x
  BY <1>1 DEF InStep, Due
<1>4. InStep(at, x)' \subseteq Buffers /\ InStep(at, x) \subseteq Buffers
  BY DEF InStep
<1> QED
  BY <1>2, <1>3, <1>4

\* A request that moves to another step is no more at this one.
LEMMA InStepLeft ==
  ASSUME Types, NEW c \in Buffers, NEW q \in Read,
         read' = [read EXCEPT ![c] = q], UNCHANGED <<audited, path>>,
         q.user = read[c].user, q.route = read[c].route, NEW at, NEW x,
         q.at # at
  PROVE  InStep(at, x)' = InStep(at, x) \ {c}
<1>1. read'[c] = q /\ \A b \in Buffers \ {c} : read'[b] = read[b]
  BY ReadSet
<1>2. c \notin InStep(at, x)'
  BY <1>1 DEF InStep
<1>3. \A b \in Buffers \ {c} : b \in InStep(at, x)' <=> b \in InStep(at, x)
  BY <1>1 DEF InStep, Due
<1>4. InStep(at, x)' \subseteq Buffers /\ InStep(at, x) \subseteq Buffers
  BY DEF InStep
<1> QED
  BY <1>2, <1>3, <1>4

\* The trail is accounted for in whole numbers.
LEMMA AccountedNat ==
  ASSUME Types, NEW x \in Accesses
  PROVE  Accounted(x) \in Nat
<1>1. /\ delivered[x] \in Nat /\ dropped[x] \in Nat
      /\ Cardinality(Holds(outbox, x)) \in Nat
  BY HoldsFinite DEF Types
<1> QED
  BY <1>1 DEF Accounted

\* Accounting in terms of what is taken, waits and was dropped after a step.
LEMMA AccountedNext ==
  ASSUME NEW x
  PROVE  Accounted(x)' = delivered'[x] + Cardinality(Holds(outbox', x)) + dropped'[x]
  BY DEF Accounted

\* Posting a new record accounts for its access, wherever the record goes and
\* whether its answer arrives.
LEMMA AccountedPost ==
  ASSUME Types, NEW rec \in AccessRecord, ~rec.taken, PostOrBuffer(rec),
         NEW x \in Accesses
  PROVE  Accounted(x)' = IF x = <<rec.user, rec.copy>> THEN Accounted(x) + 1
                         ELSE Accounted(x)
<1> DEFINE y == <<rec.user, rec.copy>>
           marked == [rec EXCEPT !.taken = TRUE]
<1>1. /\ outbox \in Seq(AccessRecord) /\ delivered[x] \in Nat /\ dropped[x] \in Nat
      /\ delivered \in [Accesses -> Nat] /\ dropped \in [Accesses -> Nat]
      /\ Cardinality(Holds(outbox, x)) \in Nat
  BY HoldsFinite DEF Types
<1>2. Named(rec) = y
  BY TrailAssumption DEF Named, AccessRecord
<1>3. /\ Plus(delivered, y)[x] = IF x = y THEN delivered[x] + 1 ELSE delivered[x]
      /\ Plus(dropped, y)[x] = IF x = y THEN dropped[x] + 1 ELSE dropped[x]
  BY <1>1, PlusFacts
<1>4. Cardinality(Holds(Append(outbox, rec), x))
        = IF x = y THEN Cardinality(Holds(outbox, x)) + 1
          ELSE Cardinality(Holds(outbox, x))
  BY <1>1, HoldsAppend
<1>5. Cardinality(Holds(Append(outbox, marked), x)) = Cardinality(Holds(outbox, x))
  <2>1. marked \in AccessRecord /\ marked.taken
    BY DEF AccessRecord
  <2> HIDE DEF marked
  <2> QED
    BY <1>1, <2>1, HoldsAppend
<1>6. /\ \/ delivered' = Plus(delivered, y) /\ outbox' = outbox /\ dropped' = dropped
         \/ delivered' = delivered /\ outbox' = Append(outbox, rec)
            /\ dropped' = dropped
         \/ delivered' = Plus(delivered, y) /\ outbox' = Append(outbox, marked)
            /\ dropped' = dropped
         \/ delivered' = delivered /\ outbox' = outbox
            /\ dropped' = Plus(dropped, y)
  BY <1>2 DEF PostOrBuffer, Takes
<1>7. Accounted(x)' = delivered'[x] + Cardinality(Holds(outbox', x)) + dropped'[x]
  BY AccountedNext
<1>8. Accounted(x) = delivered[x] + Cardinality(Holds(outbox, x)) + dropped[x]
  BY DEF Accounted
<1> HIDE DEF y, marked
<1>9. CASE delivered' = Plus(delivered, y) /\ outbox' = outbox /\ dropped' = dropped
  BY <1>1, <1>3, <1>7, <1>8, <1>9 DEF y
<1>10. CASE delivered' = delivered /\ outbox' = Append(outbox, rec)
            /\ dropped' = dropped
  BY <1>1, <1>4, <1>7, <1>8, <1>10 DEF y
<1>11. CASE delivered' = Plus(delivered, y) /\ outbox' = Append(outbox, marked)
            /\ dropped' = dropped
  BY <1>1, <1>3, <1>5, <1>7, <1>8, <1>11 DEF y
<1>12. CASE delivered' = delivered /\ outbox' = outbox /\ dropped' = Plus(dropped, y)
  BY <1>1, <1>3, <1>7, <1>8, <1>12 DEF y
<1> QED
  BY <1>6, <1>9, <1>10, <1>11, <1>12

\* Steps of requests that are neither granted nor recorded count for nothing.
LEMMA InStepSame ==
  ASSUME UNCHANGED audited, NEW at \in {"granted", "recorded"},
         \A b \in Buffers :
           at \in {read[b].at, read'[b].at}
             => read'[b] = read[b] /\ path'[b] = path[b],
         NEW x
  PROVE  InStep(at, x)' = InStep(at, x)
<1>1. \A b \in Buffers : b \in InStep(at, x)' <=> b \in InStep(at, x)
  BY DEF InStep, Due
<1> QED
  BY <1>1 DEF InStep

\* A step that changes no tally, no record and no count keeps the balance.
LEMMA BalancedSame ==
  ASSUME Balanced, UNCHANGED <<outbox, tallies, durable>>,
         \A x \in Accesses, at \in {"granted", "recorded"} :
           InStep(at, x)' = InStep(at, x)
  PROVE  Balanced'
<1>1. \A x \in Accesses : Accounted(x)' = Accounted(x)
  BY DEF Accounted, tallies
<1> QED
  BY <1>1 DEF Balanced, tallies

\* A check changes no tally of accesses: its path bytes name no document of a read.
LEMMA CheckBalanced ==
  ASSUME Types, InUse, Balanced, CheckNext
  PROVE  Balanced'
<1>1. UNCHANGED <<outbox, tallies, durable, read, audited>>
  BY DEF CheckNext, Arrive, verifyRefused, verifyAdmitted, fileRefused,
     documentRejected, forward, verifyOutcome, Finish, Post, tallies
<1>2. \A b \in Buffers : read[b].at # "free" => path'[b] = path[b]
  BY DEF CheckNext, Types
<1>3. \A x \in Accesses, at \in {"granted", "recorded"} :
        InStep(at, x)' = InStep(at, x)
  BY <1>1, <1>2, InStepSame
<1> QED
  BY <1>1, <1>3, BalancedSame

\* A read moves its access from one tally to the next.
LEMMA ReadBalanced ==
  ASSUME Types, InUse, Balanced, ReadNext
  PROVE  Balanced'
<1>1. ASSUME NEW c \in Buffers, NEW a \in Addresses, NEW route \in Routes,
             NEW u \in Users \cup {NoUser}, NEW d \in Documents,
             ArriveRead(c, a, route, u, d)
      PROVE  Balanced'
  <2>1. /\ UNCHANGED <<outbox, tallies, durable, audited>>
        /\ read[c].at = "free" /\ read'[c].at = "arrived"
        /\ \A b \in Buffers \ {c} : read'[b] = read[b] /\ path'[b] = path[b]
    BY <1>1 DEF ArriveRead, Types, deployment
  <2> QED
    BY <2>1, InStepSame, BalancedSame
<1>2. ASSUME NEW c \in Buffers,
             \/ notReady(c) \/ onBehalfFails(c) \/ badInput(c) \/ relayErr(c)
             \/ FinishRead(c) \/ onBehalf(c)
      PROVE  Balanced'
  <2>1. /\ UNCHANGED <<outbox, tallies, durable, audited, path>>
        /\ read[c].at \notin {"granted", "recorded"}
    BY <1>2 DEF notReady, onBehalfFails, badInput, relayErr, FinishRead,
       onBehalf, deployment
  <2>2. PICK q \in Read : /\ read' = [read EXCEPT ![c] = q]
                          /\ q.at \notin {"granted", "recorded"}
    BY <1>2, IdleFacts, StepFacts
    DEF notReady, onBehalfFails, badInput, relayErr, FinishRead, Refuse,
        onBehalf, Steps
  <2>3. /\ read'[c] = q
        /\ \A b \in Buffers \ {c} : read'[b] = read[b] /\ path'[b] = path[b]
    BY <2>1, <2>2, ReadSet
  <2> QED
    BY <2>1, <2>2, <2>3, InStepSame, BalancedSame
<1>3. ASSUME NEW c \in Buffers, callAnswers(c)
      PROVE  Balanced'
  <2> DEFINE y == <<read[c].user, path[c]>>
  <2>1. /\ UNCHANGED <<outbox, served, delivered, dropped, durable, audited,
                       path>>
        /\ read[c].at = "asked"
        /\ granted' = IF Due(c) THEN Plus(granted, y) ELSE granted
    BY <1>3 DEF callAnswers, deployment
  <2>2. PICK q \in Read : /\ read' = [read EXCEPT ![c] = q] /\ q.at = "granted"
                          /\ q.route = read[c].route /\ q.user = read[c].user
    BY <1>3, StepFacts DEF callAnswers, Steps
  <2> SUFFICES ASSUME NEW x \in Accesses
               PROVE  /\ Accounted(x)' + Cardinality(InStep("granted", x)')
                           <= granted'[x]
                      /\ durable' => served'[x]
                           + Cardinality(InStep("recorded", x)') <= Accounted(x)'
    BY DEF Balanced
  <2>3. Accounted(x)' = Accounted(x) /\ Accounted(x) \in Nat
    BY <2>1, AccountedNat DEF Accounted
  <2>4. InStep("recorded", x)' = InStep("recorded", x)
    <3>1. c \notin InStep("recorded", x)
      BY <2>1 DEF InStep
    <3>0. q.at # "recorded"
      BY <2>2
    <3>2. InStep("recorded", x)' = InStep("recorded", x) \ {c}
      BY <2>1, <2>2, <3>0, InStepLeft, ZenonT(60)
    <3> QED
      BY <3>1, <3>2
  <2>5. granted'[x] = IF Due(c) /\ x = y THEN granted[x] + 1 ELSE granted[x]
    <3>1. granted \in [Accesses -> Nat]
      BY DEF Types
    <3>2. CASE Due(c)
      BY <2>1, <3>1, <3>2, PlusFacts
    <3>3. CASE ~Due(c)
      BY <2>1, <3>3
    <3> QED
      BY <3>2, <3>3
  <2>6. Cardinality(InStep("granted", x)')
          = IF Due(c) /\ x = y THEN Cardinality(InStep("granted", x)) + 1
            ELSE Cardinality(InStep("granted", x))
    <3>1. c \notin InStep("granted", x)
      BY <2>1 DEF InStep
    <3>2. CASE Due(c) /\ x = y
      <4>1. InStep("granted", x)' = InStep("granted", x) \cup {c}
        BY <2>1, <2>2, <3>2, InStepMoves
      <4> QED
        BY <3>1, <3>2, <4>1, InStepComes
    <3>3. CASE ~(Due(c) /\ x = y)
      <4>1. InStep("granted", x)' = InStep("granted", x) \ {c}
        BY <2>1, <2>2, <3>3, InStepMoves
      <4> QED
        BY <3>1, <3>3, <4>1
    <3> QED
      BY <3>2, <3>3
  <2>7. granted[x] \in Nat /\ Cardinality(InStep("granted", x)) \in Nat
    BY InStepFinite DEF Types
  <2> HIDE DEF y
  <2>8. Accounted(x) + Cardinality(InStep("granted", x)) <= granted[x]
    BY DEF Balanced
  <2>9. Accounted(x)' + Cardinality(InStep("granted", x)') <= granted'[x]
    BY <2>3, <2>5, <2>6, <2>7, <2>8
  <2> QED
    BY <2>1, <2>3, <2>4, <2>9 DEF Balanced
<1>4. ASSUME NEW c \in Buffers, documentRead(c)
      PROVE  Balanced'
  <2> DEFINE y == <<read[c].user, path[c]>>
  <2>1. /\ UNCHANGED <<granted, served, durable, audited, path>>
        /\ read[c].at = "granted" /\ read[c].route \in RecordedRoutes
        /\ RecordAccess(c)
    BY <1>4 DEF documentRead, deployment
  <2>2. PICK q \in Read : /\ read' = [read EXCEPT ![c] = q] /\ q.at = "recorded"
                          /\ q.route = read[c].route /\ q.user = read[c].user
    BY <1>4, StepFacts DEF documentRead, Steps
  <2> SUFFICES ASSUME NEW x \in Accesses
               PROVE  /\ Accounted(x)' + Cardinality(InStep("granted", x)')
                           <= granted'[x]
                      /\ durable' => served'[x]
                           + Cardinality(InStep("recorded", x)') <= Accounted(x)'
    BY DEF Balanced
  <2>3. /\ granted[x] \in Nat /\ served[x] \in Nat /\ Accounted(x) \in Nat
        /\ Cardinality(InStep("granted", x)) \in Nat
        /\ Cardinality(InStep("recorded", x)) \in Nat
        /\ Accounted(x) + Cardinality(InStep("granted", x)) <= granted[x]
        /\ durable => served[x] + Cardinality(InStep("recorded", x))
                        <= Accounted(x)
    BY AccountedNat, InStepFinite DEF Types, Balanced
  <2>4. Accounted(x)' = IF Due(c) /\ x = y THEN Accounted(x) + 1
                        ELSE Accounted(x)
    <3>1. CASE Due(c)
      <4>1. /\ accessRecord(c) \in AccessRecord /\ ~accessRecord(c).taken
            /\ PostOrBuffer(accessRecord(c))
            /\ <<accessRecord(c).user, accessRecord(c).copy>> = y
        BY <2>1, <3>1, RecordFacts DEF Due, RecordAccess, accessRecord
      <4> QED
        BY <3>1, <4>1, AccountedPost
    <3>2. CASE ~Due(c)
      <4>1. UNCHANGED <<outbox, delivered, dropped>>
        BY <2>1, <3>2 DEF Due, RecordAccess, RecordedRoutes
      <4> QED
        BY <3>2, <4>1 DEF Accounted
    <3> QED
      BY <3>1, <3>2
  <2>5. CASE Due(c) /\ x = y
    <3>1. c \in InStep("granted", x) /\ c \notin InStep("recorded", x)
      BY <2>1, <2>5 DEF InStep
    <3>2. /\ InStep("granted", x)' = InStep("granted", x) \ {c}
          /\ InStep("recorded", x)' = InStep("recorded", x) \cup {c}
      <4>0. q.at # "granted"
        BY <2>2
      <4>1. InStep("granted", x)' = InStep("granted", x) \ {c}
        BY <2>1, <2>2, <4>0, InStepLeft, ZenonT(60)
      <4>2. InStep("recorded", x)' = InStep("recorded", x) \cup {c}
        BY <2>1, <2>2, <2>5, InStepMoves
      <4> QED
        BY <4>1, <4>2
    <3>3. /\ Cardinality(InStep("granted", x)')
               = Cardinality(InStep("granted", x)) - 1
          /\ Cardinality(InStep("recorded", x)')
               = Cardinality(InStep("recorded", x)) + 1
      BY <3>1, <3>2, InStepLeaves, InStepComes
    <3>4. Accounted(x)' = Accounted(x) + 1
      BY <2>4, <2>5
    <3> QED
      BY <2>1, <2>3, <3>3, <3>4
  <2>6. CASE ~(Due(c) /\ x = y)
    <3>1. c \notin InStep("granted", x) /\ c \notin InStep("recorded", x)
      BY <2>1, <2>6 DEF InStep
    <3>2. /\ InStep("granted", x)' = InStep("granted", x) \ {c}
          /\ InStep("recorded", x)' = InStep("recorded", x) \ {c}
      BY <2>1, <2>2, <2>6, InStepMoves
    <3>3. /\ InStep("granted", x)' = InStep("granted", x)
          /\ InStep("recorded", x)' = InStep("recorded", x)
      BY <3>1, <3>2
    <3>4. Accounted(x)' = Accounted(x)
      BY <2>4, <2>6
    <3> QED
      BY <2>1, <2>3, <3>3, <3>4
  <2> QED
    BY <2>5, <2>6
<1>5. ASSUME NEW c \in Buffers, answer(c)
      PROVE  Balanced'
  <2> DEFINE y == <<read[c].user, path[c]>>
  <2>1. /\ UNCHANGED <<outbox, granted, delivered, dropped, durable, audited,
                       path>>
        /\ read[c].at = "recorded"
        /\ served' = IF Due(c) THEN Plus(served, y) ELSE served
    BY <1>5 DEF answer, deployment
  <2>2. PICK q \in Read : /\ read' = [read EXCEPT ![c] = q] /\ q.at = "served"
                          /\ q.route = read[c].route /\ q.user = read[c].user
    BY <1>5, StepFacts DEF answer, Steps
  <2> SUFFICES ASSUME NEW x \in Accesses
               PROVE  /\ Accounted(x)' + Cardinality(InStep("granted", x)')
                           <= granted'[x]
                      /\ durable' => served'[x]
                           + Cardinality(InStep("recorded", x)') <= Accounted(x)'
    BY DEF Balanced
  <2>3. /\ granted[x] \in Nat /\ served[x] \in Nat /\ Accounted(x) \in Nat
        /\ Cardinality(InStep("granted", x)) \in Nat
        /\ Cardinality(InStep("recorded", x)) \in Nat
        /\ Accounted(x) + Cardinality(InStep("granted", x)) <= granted[x]
        /\ durable => served[x] + Cardinality(InStep("recorded", x))
                        <= Accounted(x)
    BY AccountedNat, InStepFinite DEF Types, Balanced
  <2>4. Accounted(x)' = Accounted(x)
    BY <2>1 DEF Accounted
  <2>5. /\ InStep("granted", x)' = InStep("granted", x) \ {c}
        /\ InStep("recorded", x)' = InStep("recorded", x) \ {c}
        /\ c \notin InStep("granted", x)
        /\ c \in InStep("recorded", x) <=> Due(c) /\ x = y
    <3>0. q.at # "granted" /\ q.at # "recorded"
      BY <2>2
    <3>1. InStep("granted", x)' = InStep("granted", x) \ {c}
      BY <2>1, <2>2, <3>0, InStepLeft, ZenonT(60)
    <3>2. InStep("recorded", x)' = InStep("recorded", x) \ {c}
      BY <2>1, <2>2, <3>0, InStepLeft, ZenonT(60)
    <3>3. c \notin InStep("granted", x)
      BY <2>1 DEF InStep
    <3>4. c \in InStep("recorded", x) <=> Due(c) /\ x = y
      BY <2>1 DEF InStep
    <3> QED
      BY <3>1, <3>2, <3>3, <3>4
  <2>6. InStep("granted", x)' = InStep("granted", x)
    BY <2>5
  <2>7. CASE Due(c) /\ x = y
    <3>1. Cardinality(InStep("recorded", x)')
            = Cardinality(InStep("recorded", x)) - 1
      BY <2>5, <2>7, InStepLeaves
    <3>2. served'[x] = served[x] + 1
      BY <2>1, <2>7, PlusFacts DEF Types
    <3> QED
      BY <2>1, <2>3, <2>4, <2>6, <3>1, <3>2
  <2>8. CASE ~(Due(c) /\ x = y)
    <3>1. InStep("recorded", x)' = InStep("recorded", x)
      BY <2>5, <2>8
    <3>2. served'[x] = served[x]
      <4>1. CASE Due(c)
        <5>1. served \in [Accesses -> Nat] /\ served' = Plus(served, y) /\ x # y
          BY <2>1, <2>8, <4>1 DEF Types
        <5> QED
          BY <5>1, PlusFacts
      <4>2. CASE ~Due(c)
        BY <2>1, <4>2
      <4> QED
        BY <4>1, <4>2
    <3> QED
      BY <2>1, <2>3, <2>4, <2>6, <3>1, <3>2
  <2> QED
    BY <2>7, <2>8
<1>6. ASSUME NEW c \in Buffers, relay(c)
      PROVE  Balanced'
  <2>1. /\ UNCHANGED <<outbox, tallies, durable, audited, path>>
        /\ read[c].at = "granted" /\ read[c].route \notin RecordedRoutes
    BY <1>6 DEF relay, deployment
  <2>2. PICK q \in Read : /\ read' = [read EXCEPT ![c] = q] /\ q.at = "served"
                          /\ q.route = read[c].route /\ q.user = read[c].user
    BY <1>6, StepFacts DEF relay, Steps
  <2>3. ~Due(c)
    BY <2>1 DEF Due, RecordedRoutes
  <2>4. ASSUME NEW x \in Accesses
        PROVE  /\ InStep("granted", x)' = InStep("granted", x)
               /\ InStep("recorded", x)' = InStep("recorded", x)
    <3>1. UNCHANGED <<audited, path>>
      BY <2>1
    <3>2. InStep("granted", x)' = InStep("granted", x) \ {c}
      BY <2>2, <2>3, <3>1, InStepMoves
    <3>3. InStep("recorded", x)' = InStep("recorded", x) \ {c}
      BY <2>2, <2>3, <3>1, InStepMoves
    <3>4. c \notin InStep("granted", x) /\ c \notin InStep("recorded", x)
      BY <2>3 DEF InStep
    <3> QED
      BY <3>2, <3>3, <3>4
  <2> QED
    BY <2>1, <2>4, BalancedSame
<1> QED
  BY <1>1, <1>2, <1>3, <1>4, <1>5, <1>6 DEF ReadNext

\* Every step keeps the tallies balanced; a restart loses only what it may lose.
LEMMA BalancedStep ==
  ASSUME Types, InUse, Balanced, [TrailNext]_trailVars
  PROVE  Balanced'
<1>1. ASSUME NEW i \in DOMAIN outbox, Drain(i)
      PROVE  Balanced'
  <2> DEFINE rec == outbox[i]
             y == <<rec.user, rec.copy>>
  <2>1. /\ UNCHANGED <<deployment, path, read, granted, served, dropped>>
        /\ \/ outbox' = RemoveAt(outbox, i)
           \/ outbox' = [outbox EXCEPT ![i].taken = TRUE]
        /\ delivered' = IF rec.taken THEN delivered
                        ELSE Plus(delivered, Named(rec))
        /\ outbox \in Seq(AccessRecord) /\ delivered \in [Accesses -> Nat]
        /\ dropped \in [Accesses -> Nat] /\ rec \in AccessRecord
    BY <1>1 DEF Drain, Takes, Types
  <2>2. Named(rec) = y
    BY <2>1, TrailAssumption DEF Named, AccessRecord
  <2>3. ASSUME NEW x \in Accesses
        PROVE  Accounted(x)' = Accounted(x)
    <3>1. Cardinality(Holds(outbox', x))
            = IF y = x /\ ~rec.taken THEN Cardinality(Holds(outbox, x)) - 1
              ELSE Cardinality(Holds(outbox, x))
      <4>1. /\ Cardinality(Holds(RemoveAt(outbox, i), x))
                 = IF y = x /\ ~rec.taken
                   THEN Cardinality(Holds(outbox, x)) - 1
                   ELSE Cardinality(Holds(outbox, x))
            /\ Cardinality(Holds([outbox EXCEPT ![i].taken = TRUE], x))
                 = IF y = x /\ ~rec.taken
                   THEN Cardinality(Holds(outbox, x)) - 1
                   ELSE Cardinality(Holds(outbox, x))
        <5>1. outbox \in Seq(AccessRecord)
          BY <2>1
        <5>2. Cardinality(Holds(RemoveAt(outbox, i), x))
                = IF y = x /\ ~rec.taken
                  THEN Cardinality(Holds(outbox, x)) - 1
                  ELSE Cardinality(Holds(outbox, x))
          BY <5>1, HoldsRemove
        <5>3. Cardinality(Holds([outbox EXCEPT ![i].taken = TRUE], x))
                = IF y = x /\ ~rec.taken
                  THEN Cardinality(Holds(outbox, x)) - 1
                  ELSE Cardinality(Holds(outbox, x))
          BY <5>1, HoldsTaken
        <5> QED
          BY <5>2, <5>3
      <4> HIDE DEF y, rec
      <4> QED
        BY <2>1, <4>1
    <3>2. /\ delivered[x] \in Nat /\ dropped[x] \in Nat /\ dropped' = dropped
          /\ Cardinality(Holds(outbox, x)) \in Nat
      BY <2>1, HoldsFinite
    <3>3. Accounted(x)' = delivered'[x] + Cardinality(Holds(outbox', x))
                            + dropped'[x]
      BY AccountedNext
    <3> HIDE DEF y, rec
    <3>4. Plus(delivered, y)[x] = IF x = y THEN delivered[x] + 1 ELSE delivered[x]
      BY <2>1, PlusFacts
    <3>5. delivered'[x] = IF y = x /\ ~rec.taken THEN delivered[x] + 1
                          ELSE delivered[x]
      BY <2>1, <2>2, <3>4
    <3> QED
      BY <3>1, <3>2, <3>3, <3>5 DEF Accounted
  <2>4. \A x, at : InStep(at, x)' = InStep(at, x)
    BY <2>1 DEF InStep, Due, deployment
  <2> QED
    BY <2>1, <2>3, <2>4 DEF Balanced, deployment
<1>2. CASE Restart
  <2>1. /\ UNCHANGED <<granted, served, delivered, dropped, durable>>
        /\ outbox' = IF durable THEN outbox ELSE <<>>
        /\ \A b \in Buffers : read'[b].at = "free"
    BY <1>2, IdleFacts DEF Restart, restartedOutbox, deployment, tallies
  <2> SUFFICES ASSUME NEW x \in Accesses
               PROVE  /\ Accounted(x)' + Cardinality(InStep("granted", x)')
                           <= granted'[x]
                      /\ durable' => served'[x]
                           + Cardinality(InStep("recorded", x)') <= Accounted(x)'
    BY DEF Balanced
  <2>2. /\ granted[x] \in Nat /\ served[x] \in Nat /\ Accounted(x) \in Nat
        /\ delivered[x] \in Nat /\ dropped[x] \in Nat
        /\ Cardinality(Holds(outbox, x)) \in Nat
        /\ Cardinality(InStep("granted", x)) \in Nat
        /\ Cardinality(InStep("recorded", x)) \in Nat
        /\ Accounted(x) + Cardinality(InStep("granted", x)) <= granted[x]
        /\ durable => served[x] + Cardinality(InStep("recorded", x))
                        <= Accounted(x)
    BY AccountedNat, InStepFinite, HoldsFinite DEF Types, Balanced
  <2>3. InStep("granted", x)' = {} /\ InStep("recorded", x)' = {}
    BY <2>1 DEF InStep
  <2>4. /\ Cardinality(InStep("granted", x)') = 0
        /\ Cardinality(InStep("recorded", x)') = 0
    BY <2>3, FS_EmptySet
  <2>5. CASE durable
    <3>1. Accounted(x)' = Accounted(x)
      BY <2>1, <2>5 DEF Accounted
    <3> QED
      BY <2>1, <2>2, <2>4, <3>1
  <2>6. CASE ~durable
    <3>1. outbox' = <<>>
      BY <2>1, <2>6
    <3>2. Holds(outbox', x) = {}
      BY <3>1 DEF Holds
    <3>3. Cardinality(Holds(outbox', x)) = 0
      BY <3>2, FS_EmptySet
    <3>4. Accounted(x)' = (delivered[x] + 0) + dropped[x]
      BY <2>1, <3>3 DEF Accounted
    <3>5. Accounted(x)' <= Accounted(x) /\ Accounted(x)' \in Nat
      BY <2>2, <3>4 DEF Accounted
    <3> QED
      BY <2>1, <2>2, <2>4, <2>6, <3>5
  <2> QED
    BY <2>5, <2>6
<1>3. CASE UNCHANGED trailVars
  <2>1. UNCHANGED <<outbox, tallies, durable, audited, read, path>>
    BY <1>3 DEF trailVars, deployment
  <2> QED
    BY <2>1, InStepSame, BalancedSame
<1> QED
  BY <1>1, <1>2, <1>3, CheckBalanced, ReadBalanced DEF TrailNext

\* Empty tallies balance.
LEMMA BalancedInit == TrailInit => Balanced
<1> SUFFICES ASSUME TrailInit, NEW x \in Accesses
             PROVE  /\ Accounted(x) + Cardinality(InStep("granted", x))
                         <= granted[x]
                    /\ durable => served[x] + Cardinality(InStep("recorded", x))
                                    <= Accounted(x)
  BY DEF Balanced
<1>1. /\ granted[x] = 0 /\ served[x] = 0 /\ delivered[x] = 0 /\ dropped[x] = 0
      /\ outbox = <<>> /\ \A b \in Buffers : read[b].at = "free"
  BY IdleFacts DEF TrailInit
<1>2. /\ Holds(outbox, x) = {} /\ InStep("granted", x) = {}
      /\ InStep("recorded", x) = {}
  BY <1>1 DEF Holds, InStep
<1>3. /\ Cardinality(Holds(outbox, x)) = 0
      /\ Cardinality(InStep("granted", x)) = 0
      /\ Cardinality(InStep("recorded", x)) = 0
  BY <1>2, FS_EmptySet
<1>4. Accounted(x) = 0
  BY <1>1, <1>3 DEF Accounted
<1> QED
  BY <1>1, <1>3, <1>4

----------------------------------------------------------------------------
(* What waits was granted, delivered already or not.                       *)

Warranted == \A i \in DOMAIN outbox :
  granted[<<outbox[i].user, outbox[i].copy>>] > 0

\* An outbox of the same records, in part, is warranted still.
LEMMA WarrantedKept ==
  ASSUME Types, Warranted, granted' \in [Accesses -> Nat],
         \A x \in Accesses : granted[x] <= granted'[x],
         \A i \in DOMAIN outbox' : \E j \in DOMAIN outbox :
           /\ outbox'[i].user = outbox[j].user
           /\ outbox'[i].copy = outbox[j].copy
  PROVE  Warranted'
<1> SUFFICES ASSUME NEW i \in DOMAIN outbox'
             PROVE  granted'[<<outbox'[i].user, outbox'[i].copy>>] > 0
  BY DEF Warranted
<1>1. PICK j \in DOMAIN outbox : /\ outbox'[i].user = outbox[j].user
                                 /\ outbox'[i].copy = outbox[j].copy
  OBVIOUS
<1> DEFINE x == <<outbox[j].user, outbox[j].copy>>
<1>2. x \in Accesses
  <2>1. outbox \in Seq(AccessRecord)
    BY DEF Types
  <2>2. outbox[j] \in AccessRecord
    BY <2>1
  <2> QED
    BY <2>2 DEF AccessRecord, Accesses
<1>3. granted[x] > 0
  BY DEF Warranted
<1>4. granted[x] \in Nat /\ granted'[x] \in Nat /\ granted[x] <= granted'[x]
  BY <1>2 DEF Types
<1> HIDE DEF x
<1>5. granted'[x] > 0
  BY <1>3, <1>4
<1> QED
  BY <1>1, <1>5 DEF x

\* A granted access makes its record warranted, wherever it goes.
LEMMA WarrantedRead ==
  ASSUME Types, InUse, Balanced, Warranted, NEW c \in Buffers, documentRead(c)
  PROVE  Warranted'
<1>1. /\ granted' = granted /\ read[c].at = "granted" /\ RecordAccess(c)
      /\ read[c].route \in RecordedRoutes
  BY DEF documentRead
<1>2. CASE outbox' = outbox
  BY <1>1, <1>2 DEF Warranted
<1>3. CASE outbox' # outbox
  <2> DEFINE rec == accessRecord(c)
             x == <<read[c].user, path[c]>>
  <2>1. Due(c)
    BY <1>1, <1>3 DEF RecordAccess, Due, RecordedRoutes
  <2>2. /\ rec \in AccessRecord /\ rec.user = read[c].user /\ rec.copy = path[c]
        /\ x \in Accesses
    BY <1>1, <2>1, RecordFacts DEF Due, accessRecord
  <2>3. PostOrBuffer(rec)
    BY <1>1, <2>1 DEF RecordAccess, Due
  <2>4. PICK r \in AccessRecord :
          /\ outbox' = Append(outbox, r)
          /\ r.user = read[c].user /\ r.copy = path[c]
    <3>1. [rec EXCEPT !.taken = TRUE] \in AccessRecord
          /\ [rec EXCEPT !.taken = TRUE].user = rec.user
          /\ [rec EXCEPT !.taken = TRUE].copy = rec.copy
      BY <2>2 DEF AccessRecord
    <3>2. \/ outbox' = Append(outbox, rec)
          \/ outbox' = Append(outbox, [rec EXCEPT !.taken = TRUE])
      BY <1>3, <2>3 DEF PostOrBuffer
    <3> HIDE DEF rec
    <3> QED
      BY <2>2, <3>1, <3>2
  <2>5. granted[x] > 0
    <3>1. c \in InStep("granted", x)
      BY <1>1, <2>1 DEF InStep
    <3>2. Cardinality(InStep("granted", x)) # 0
      BY <3>1, InStepFinite, FS_EmptySet
    <3>3. /\ Accounted(x) + Cardinality(InStep("granted", x)) <= granted[x]
          /\ Accounted(x) \in Nat /\ granted[x] \in Nat
          /\ Cardinality(InStep("granted", x)) \in Nat
      BY <2>2, AccountedNat, InStepFinite DEF Balanced, Types
    <3> QED
      BY <3>2, <3>3
  <2>6. outbox \in Seq(AccessRecord)
    BY DEF Types
  <2> HIDE DEF rec
  <2> SUFFICES ASSUME NEW i \in DOMAIN outbox'
               PROVE  granted[<<outbox'[i].user, outbox'[i].copy>>] > 0
    BY <1>1 DEF Warranted
  <2>7. CASE i \in DOMAIN outbox
    <3>1. outbox'[i] = outbox[i]
      BY <2>4, <2>6, <2>7
    <3> QED
      BY <2>7, <3>1 DEF Warranted
  <2>8. CASE i \notin DOMAIN outbox
    <3>1. outbox'[i] = r
      BY <2>4, <2>6, <2>8
    <3> QED
      BY <2>4, <2>5, <3>1
  <2> QED
    BY <2>7, <2>8
<1> QED
  BY <1>2, <1>3

\* Every step keeps what waits warranted: deliveries and restarts only take
\* records away, and an access that was granted stays so.
LEMMA WarrantedStep ==
  ASSUME Types, InUse, Balanced, Warranted, [TrailNext]_trailVars
  PROVE  Warranted'
<1>1. ASSUME NEW c \in Buffers, documentRead(c)
      PROVE  Warranted'
  BY <1>1, WarrantedRead
<1>2. ASSUME NEW c \in Buffers, callAnswers(c)
      PROVE  Warranted'
  <2>1. granted \in [Accesses -> Nat] /\ outbox' = outbox
    BY <1>2 DEF callAnswers, Types
  <2>2. /\ granted' \in [Accesses -> Nat]
        /\ \A x \in Accesses : granted[x] <= granted'[x]
    <3> DEFINE y == <<read[c].user, path[c]>>
    <3>1. granted' = Plus(granted, y) \/ granted' = granted
      BY <1>2 DEF callAnswers
    <3> HIDE DEF y
    <3>2. /\ Plus(granted, y) \in [Accesses -> Nat]
          /\ \A x \in Accesses :
               Plus(granted, y)[x] = IF x = y THEN granted[x] + 1 ELSE granted[x]
      BY <2>1, PlusFacts
    <3>3. \A x \in Accesses : granted[x] \in Nat
      BY <2>1
    <3> QED
      BY <2>1, <3>1, <3>2, <3>3
  <2> QED
    BY <2>1, <2>2, WarrantedKept
<1>3. ASSUME NEW i \in DOMAIN outbox, Drain(i)
      PROVE  Warranted'
  <2>1. /\ outbox \in Seq(AccessRecord) /\ granted' = granted
        /\ granted \in [Accesses -> Nat]
        /\ \/ outbox' = RemoveAt(outbox, i)
           \/ outbox' = [outbox EXCEPT ![i].taken = TRUE]
    BY <1>3 DEF Drain, Types
  <2>2. CASE outbox' = RemoveAt(outbox, i)
    <3>1. /\ outbox' \in Seq(AccessRecord) /\ Len(outbox') = Len(outbox) - 1
          /\ \A j \in 1..Len(outbox) - 1 :
               outbox'[j] = IF j < i THEN outbox[j] ELSE outbox[j + 1]
      BY <2>1, <2>2, RemoveAtFacts
    <3>2. ASSUME NEW j \in DOMAIN outbox'
          PROVE  \E k \in DOMAIN outbox : outbox'[j] = outbox[k]
      <4>1. j \in 1..Len(outbox) - 1 /\ DOMAIN outbox = 1..Len(outbox)
        BY <2>1, <3>1
      <4>2. j \in DOMAIN outbox /\ j + 1 \in DOMAIN outbox
        BY <2>1, <4>1
      <4> QED
        BY <3>1, <4>1, <4>2
    <3> QED
      BY <2>1, <3>2, WarrantedKept
  <2>3. CASE outbox' = [outbox EXCEPT ![i].taken = TRUE]
    <3>1. /\ DOMAIN outbox' = DOMAIN outbox
          /\ \A j \in DOMAIN outbox : /\ outbox'[j].user = outbox[j].user
                                     /\ outbox'[j].copy = outbox[j].copy
      BY <2>1, <2>3, TakenFacts
    <3> QED
      BY <2>1, <3>1, WarrantedKept
  <2> QED
    BY <2>1, <2>2, <2>3
<1>4. CASE Restart
  BY <1>4 DEF Restart, restartedOutbox, Warranted, tallies
<1>5. CASE UNCHANGED <<outbox, granted>>
  BY <1>5 DEF Warranted
<1>6. CASE CheckNext
  BY <1>5, <1>6 DEF CheckNext, tallies
<1>7. CASE ReadNext
  <2>1. ASSUME NEW c \in Buffers, ~documentRead(c), ~callAnswers(c),
               \/ \E a \in Addresses, route \in Routes,
                    u \in Users \cup {NoUser}, d \in Documents :
                    ArriveRead(c, a, route, u, d)
               \/ notReady(c) \/ onBehalfFails(c) \/ onBehalf(c)
               \/ badInput(c) \/ relayErr(c) \/ answer(c) \/ relay(c)
               \/ FinishRead(c)
        PROVE  UNCHANGED <<outbox, granted>>
    BY <2>1 DEF ArriveRead, notReady, onBehalfFails, onBehalf, badInput,
       relayErr, answer, relay, FinishRead, tallies
  <2> QED
    BY <1>1, <1>2, <1>5, <1>7, <2>1 DEF ReadNext
<1>8. CASE UNCHANGED trailVars
  BY <1>5, <1>8 DEF trailVars, tallies
<1> QED
  BY <1>3, <1>4, <1>6, <1>7, <1>8 DEF TrailNext

----------------------------------------------------------------------------
(* The theorems.                                                           *)

IInv == Types /\ InUse /\ Recorded /\ Balanced /\ Warranted

\* The invariant holds of every reachable state of the document routes, the
\* anonymous check and the trail they share.
THEOREM TrailCorrect == TrailSpec => []IInv
<1>1. TrailInit => IInv
  BY TypesInit, RecordedInit, BalancedInit DEF IInv, TrailInit, Warranted
<1>2. IInv /\ [TrailNext]_trailVars => IInv'
  BY TypesStep, RecordedStep, BalancedStep, WarrantedStep DEF IInv
<1> QED
  BY <1>1, <1>2, PTL DEF TrailSpec

\* A record that waits names the access it was written for.
LEMMA WaitingCounted ==
  ASSUME Types, NEW x \in Accesses
  PROVE  delivered[x] + Waiting(x) + dropped[x] = Accounted(x)
<1>1. \A i \in DOMAIN outbox :
        Named(outbox[i]) = <<outbox[i].user, outbox[i].copy>>
  <2>1. outbox \in Seq(AccessRecord)
    BY DEF Types
  <2>2. ASSUME NEW i \in DOMAIN outbox PROVE outbox[i] \in AccessRecord
    BY <2>1
  <2> QED
    BY <2>2, TrailAssumption DEF Named, AccessRecord
<1>2. Waiting(x) = Cardinality(Holds(outbox, x))
  BY <1>1 DEF Waiting, Holds
<1> QED
  BY <1>2 DEF Accounted

\* No record without an access of its own that was granted, however often it is
\* delivered: documentRead comes after the service has answered, and the record
\* keeps copies.
THEOREM TrailNamesGrantedAccesses == TrailSpec => []TrailIsTruthful
<1>1. ASSUME IInv, NEW x \in Accesses
      PROVE  delivered[x] + Waiting(x) + dropped[x] <= granted[x]
  <2>1. /\ Accounted(x) + Cardinality(InStep("granted", x)) <= granted[x]
        /\ Accounted(x) \in Nat /\ granted[x] \in Nat
        /\ Cardinality(InStep("granted", x)) \in Nat
    BY <1>1, AccountedNat, InStepFinite DEF IInv, Balanced, Types
  <2>2. delivered[x] + Waiting(x) + dropped[x] = Accounted(x)
    BY <1>1, WaitingCounted DEF IInv
  <2> QED
    BY <2>1, <2>2
<1>2. ASSUME IInv, NEW i \in DOMAIN outbox
      PROVE  \E x \in Accesses : Named(outbox[i]) = x /\ granted[x] > 0
  <2>1. outbox \in Seq(AccessRecord)
    BY <1>2 DEF IInv, Types
  <2>2. outbox[i] \in AccessRecord
    BY <1>2, <2>1
  <2>3. /\ Named(outbox[i]) = <<outbox[i].user, outbox[i].copy>>
        /\ <<outbox[i].user, outbox[i].copy>> \in Accesses
    BY <2>2, TrailAssumption DEF Named, AccessRecord, Accesses
  <2>4. granted[<<outbox[i].user, outbox[i].copy>>] > 0
    BY <1>2 DEF IInv, Warranted
  <2> QED
    BY <2>3, <2>4
<1>3. IInv => TrailIsTruthful
  BY <1>1, <1>2 DEF TrailIsTruthful
<1> QED
  BY <1>3, TrailCorrect, PTL

\* Bytes that were answered are on a durable trail, whatever restarts came
\* between: documentRead comes before the answer.
THEOREM NothingServedUnrecorded == TrailSpec => []ServedAccessIsOnRecord
<1>1. ASSUME IInv, durable, NEW x \in Accesses
      PROVE  served[x] <= delivered[x] + Waiting(x) + dropped[x]
  <2>1. /\ served[x] + Cardinality(InStep("recorded", x)) <= Accounted(x)
        /\ Accounted(x) \in Nat /\ served[x] \in Nat
        /\ Cardinality(InStep("recorded", x)) \in Nat
    BY <1>1, AccountedNat, InStepFinite DEF IInv, Balanced, Types
  <2>2. delivered[x] + Waiting(x) + dropped[x] = Accounted(x)
    BY <1>1, WaitingCounted DEF IInv
  <2> QED
    BY <2>1, <2>2
<1>2. IInv => ServedAccessIsOnRecord
  BY <1>1 DEF ServedAccessIsOnRecord
<1> QED
  BY <1>2, TrailCorrect, PTL

\* A download or an opened preview leaves one record, everything else none.
THEOREM OneRecordEach == TrailSpec => []AccessLeavesOneRecord
<1>1. ASSUME IInv, NEW c \in Buffers, read[c].at # "free"
      PROVE  recorded[c] = IF read[c].at \in {"recorded", "served"} /\ Due(c)
                           THEN 1 ELSE 0
  <2>1. read[c].at \in {"arrived", "asked", "granted", "recorded", "served",
                        "refused"} /\ ReadRecorded(c)
    BY <1>1 DEF IInv, Types, Read, Recorded
  <2> QED
    BY <2>1 DEF ReadRecorded
<1>2. IInv => AccessLeavesOneRecord
  BY <1>1 DEF AccessLeavesOneRecord
<1> QED
  BY <1>2, TrailCorrect, PTL

\* An evidence event names its caller, whoever's request is in the buffer when
\* it is posted: recordVerify copies the address.
THEOREM EventNamesCaller == TrailSpec => []EvidenceNamesItsCaller
<1>1. IInv => EvidenceNamesItsCaller
  BY AddressAssumption
  DEF IInv, Types, Event, Recorded, EventsAreCopies, EvidenceNamesItsCaller,
      Names
<1> QED
  BY <1>1, TrailCorrect, PTL

\* A check whose document was looked at leaves one event, before its answer.
THEOREM OneEventEach == TrailSpec => []CheckedLeavesEvidenceOnce
<1>1. ASSUME IInv, NEW c \in Buffers,
             phase[c] \in {"admitted", "forwarded", "answered"}
      PROVE  recorded[c] = IF phase[c] = "answered" /\ c \in seen /\ audited
                           THEN 1 ELSE 0
  <2>1. CheckRecorded(c)
    BY <1>1 DEF IInv, Recorded
  <2> QED
    BY <1>1, <2>1 DEF CheckRecorded
<1>2. IInv => CheckedLeavesEvidenceOnce
  BY <1>1 DEF CheckedLeavesEvidenceOnce
<1> QED
  BY <1>2, TrailCorrect, PTL

----------------------------------------------------------------------------
(* The gate, when it admits one check of an address at a time: the default  *)
(* of VERIFY_CONCURRENT_PER_IP.  With a higher cap it may keep an entry     *)
(* for a check that is over (GateHoldsOnlyInFlight is violated then).       *)

Checking == {"admitted", "forwarded"}

\* The entries of the gate are the checks running, one by one.
GateExact ==
  /\ \A e \in gate : /\ e \in Entry /\ e.n = 1
                     /\ buf[e.key] = e.slot /\ phase[e.key] \in Checking
  /\ \A c \in Buffers : phase[c] \in Checking => \E e \in gate : e.key = c
  /\ \A e, f \in gate : e.slot = f.slot => e = f

\* newInflightGate raises a cap below one to one.
LEMMA CapOne == ASSUME MaxPerKey <= 1 PROVE Cap = 1
  BY BoundsAssumption DEF Cap, newInflightGate

\* Admitting a check adds its entry; no other entry has its address.
LEMMA AdmittedGate ==
  ASSUME MaxPerKey <= 1, Types, InUse, GateExact, NEW c \in Buffers,
         verifyAdmitted(c)
  PROVE  GateExact'
<1> DEFINE e == [slot |-> buf[c], key |-> c, n |-> 1]
<1>1. buf[c] \in Addresses /\ phase[c] = "arrived"
  BY DEF verifyAdmitted, InUse
<1>2. \A f \in gate : f.slot # buf[c]
  <2> SUFFICES ASSUME NEW f \in gate, f.slot = buf[c] PROVE FALSE
    OBVIOUS
  <2>1. f \in Found(buf[c]) /\ f.n = 1
    BY DEF GateExact, Found
  <2> QED
    BY <2>1, CapOne DEF verifyAdmitted, Full
<1>3. gate' = gate \cup {e}
  BY <1>2 DEF verifyAdmitted, acquire, Found
<1>4. e \in Entry
  BY <1>1 DEF Entry
<1>5. /\ phase'[c] = "admitted" /\ buf' = buf
      /\ \A b \in Buffers \ {c} : phase'[b] = phase[b]
  BY DEF verifyAdmitted, Types
<1>6. \A f \in gate : f.key # c /\ f.key \in Buffers
  BY <1>1 DEF GateExact, Entry, Checking
<1> HIDE DEF e
<1>7. e.slot = buf[c] /\ e.key = c /\ e.n = 1
  BY DEF e
<1>8. \A f \in gate' : /\ f \in Entry /\ f.n = 1
                       /\ buf'[f.key] = f.slot /\ phase'[f.key] \in Checking
  BY <1>3, <1>4, <1>5, <1>6, <1>7 DEF GateExact, Checking
<1>9. \A b \in Buffers : phase'[b] \in Checking => \E f \in gate' : f.key = b
  BY <1>3, <1>5, <1>7 DEF GateExact
<1>10. \A f, g \in gate' : f.slot = g.slot => f = g
  BY <1>2, <1>3, <1>7 DEF GateExact
<1> QED
  BY <1>8, <1>9, <1>10 DEF GateExact

\* Ending a check drops its entry.
LEMMA ReleasedGate ==
  ASSUME Types, GateExact, NEW c \in Buffers, phase[c] \in Checking, release(c),
         phase' = [phase EXCEPT ![c] = "answered"], buf' = buf
  PROVE  GateExact'
<1>1. PICK e \in gate : e.key = c
  BY DEF GateExact
<1>2. e.slot = buf[c] /\ e.n = 1
  BY <1>1 DEF GateExact
<1>3. Found(buf[c]) = {e}
  BY <1>1, <1>2 DEF GateExact, Found
<1>4. gate' = gate \ {e}
  BY <1>2, <1>3 DEF release
<1>5. phase'[c] = "answered" /\ \A b \in Buffers \ {c} : phase'[b] = phase[b]
  BY DEF Types
<1>6. \A f \in gate' : f.key # c /\ f.key \in Buffers
  BY <1>1, <1>2, <1>4 DEF GateExact, Entry
<1>7. \A f \in gate' : /\ f \in Entry /\ f.n = 1
                       /\ buf'[f.key] = f.slot /\ phase'[f.key] \in Checking
  BY <1>4, <1>5, <1>6 DEF GateExact
<1>8. \A b \in Buffers : phase'[b] \in Checking => \E f \in gate' : f.key = b
  BY <1>1, <1>4, <1>5 DEF GateExact, Checking
<1> QED
  BY <1>4, <1>7, <1>8 DEF GateExact

\* A request that is not being checked may change its buffer.
LEMMA GateUntouched ==
  ASSUME GateExact, gate' = gate,
         \A b \in Buffers : phase[b] \in Checking
                              => phase'[b] \in Checking /\ buf'[b] = buf[b],
         \A b \in Buffers : phase'[b] \in Checking => phase[b] \in Checking
  PROVE  GateExact'
<1>1. \A e \in gate : e.key \in Buffers
  BY DEF GateExact, Entry
<1> QED
  BY <1>1 DEF GateExact

\* At a cap of one, every step keeps one entry for each check in flight, keyed by its own buffer.
LEMMA GateStep ==
  ASSUME MaxPerKey <= 1, Types, InUse, GateExact, [TrailNext]_trailVars
  PROVE  GateExact'
<1>1. ASSUME NEW c \in Buffers, NEW a \in Addresses, Arrive(c, a)
      PROVE  GateExact'
  BY <1>1, GateUntouched DEF Arrive, Types, Checking
<1>2. ASSUME NEW c \in Buffers, verifyRefused(c) \/ Finish(c)
      PROVE  GateExact'
  BY <1>2, GateUntouched DEF verifyRefused, Finish, Types, Checking
<1>3. ASSUME NEW c \in Buffers, verifyAdmitted(c)
      PROVE  GateExact'
  BY <1>3, AdmittedGate
<1>4. ASSUME NEW c \in Buffers,
             fileRefused(c) \/ documentRejected(c) \/ verifyOutcome(c)
      PROVE  GateExact'
  BY <1>4, ReleasedGate
  DEF fileRefused, documentRejected, verifyOutcome, Checking
<1>5. ASSUME NEW c \in Buffers, forward(c)
      PROVE  GateExact'
  BY <1>5, GateUntouched DEF forward, Types, Checking
<1>6. CASE ReadNext
  <2>1. /\ gate' = gate /\ phase' = phase
        /\ \A b \in Buffers : phase[b] # "free" => buf'[b] = buf[b]
    BY <1>6 DEF ReadNext, ArriveRead, notReady, onBehalfFails, onBehalf,
       badInput, relayErr, callAnswers, documentRead, answer, relay,
       FinishRead, checkVars, Types
  <2> QED
    BY <2>1, GateUntouched DEF Checking
<1>7. CASE Restart
  BY <1>7 DEF Restart, GateExact, Checking
<1>8. CASE UNCHANGED <<gate, phase, buf>>
  BY <1>8, GateUntouched
<1>9. ASSUME NEW ev \in events, Post(ev)
      PROVE  GateExact'
  BY <1>8, <1>9 DEF Post
<1>10. ASSUME NEW i \in DOMAIN outbox, Drain(i)
       PROVE  GateExact'
  BY <1>8, <1>10 DEF Drain, checkVars
<1> QED
  BY <1>1, <1>2, <1>3, <1>4, <1>5, <1>6, <1>7, <1>8, <1>9, <1>10
  DEF TrailNext, CheckNext, trailVars, checkVars

\* With a cap of one, the entries of the gate are exactly the checks running,
\* each under its own address.
THEOREM GateIsExact ==
  ASSUME MaxPerKey <= 1
  PROVE  TrailSpec => []GateExact
<1>1. TrailInit => GateExact
  BY DEF TrailInit, Init, GateExact, Checking
<1>2. IInv /\ GateExact /\ [TrailNext]_trailVars => GateExact'
  BY GateStep DEF IInv
<1> QED
  BY <1>1, <1>2, TrailCorrect, PTL DEF TrailSpec

\* With a cap of one, an address with no check running is never refused:
\* acquire and release leave no count behind.
THEOREM IdleAddressNeverRefused ==
  ASSUME MaxPerKey <= 1
  PROVE  TrailSpec => []IdleAddressAdmitted
<1>1. GateExact => IdleAddressAdmitted
  BY CapOne
  DEF GateExact, IdleAddressAdmitted, InFlight, Full, Found, Entry, Checking
<1> QED
  BY <1>1, GateIsExact, PTL

\* With a cap of one, "the map only ever holds in-flight keys", whatever is
\* written into the buffers of requests that are over (release).
THEOREM OneKeyPerCheck ==
  ASSUME MaxPerKey <= 1
  PROVE  TrailSpec => []GateHoldsOnlyInFlight
<1>1. GateExact => GateHoldsOnlyInFlight
  BY DEF GateExact, GateHoldsOnlyInFlight, InFlight, Entry, Checking
<1> QED
  BY <1>1, GateIsExact, PTL

\* Nothing counted, nothing summed.
LEMMA SumOfNone == MapThenSumSet(LAMBDA e : e.n, {}) = 0
<1> DEFINE picked(s) == CHOOSE e \in s : TRUE
           Counted(g) == [s \in SUBSET {} |->
                            IF s = {} THEN 0
                            ELSE picked(s).n + g[s \ {picked(s)}]]
           total == CHOOSE g : g = Counted(g)
<1>1. MapThenSumSet(LAMBDA e : e.n, {}) = total[{}]
  BY Zenon DEF MapThenSumSet, MapThenFoldSet
<1>2. Counted([s \in SUBSET {} |-> 0]) = [s \in SUBSET {} |-> 0]
  OBVIOUS
<1>3. total = Counted(total)
  <2> HIDE DEF Counted
  <2> QED
    BY <1>2
<1>4. Counted(total)[{}] = 0
  OBVIOUS
<1> QED
  BY <1>1, <1>3, <1>4

\* The sum over one entry is its count: the fold's defining equation has a
\* solution over the subsets of one element, so it is what the fold computes.
LEMMA SumOfOne ==
  ASSUME NEW e, e.n \in Nat
  PROVE  MapThenSumSet(LAMBDA f : f.n, {e}) = e.n
<1> DEFINE picked(s) == CHOOSE f \in s : TRUE
           Counted(g) == [s \in SUBSET {e} |->
                            IF s = {} THEN 0
                            ELSE picked(s).n + g[s \ {picked(s)}]]
           total == CHOOSE g : g = Counted(g)
           h == [s \in SUBSET {e} |-> IF s = {} THEN 0 ELSE e.n]
<1>1. MapThenSumSet(LAMBDA f : f.n, {e}) = total[{e}]
  BY Zenon DEF MapThenSumSet, MapThenFoldSet
<1>2. h = Counted(h)
  <2>1. \A s \in SUBSET {e} : s # {} => picked(s) = e
    OBVIOUS
  <2>2. \A s \in SUBSET {e} : h[s] = Counted(h)[s]
    BY <2>1
  <2> QED
    BY <2>2
<1>3. total = Counted(total)
  <2> HIDE DEF Counted
  <2> QED
    BY <1>2
<1>4. total[{e}] = e.n + total[{}] /\ total[{}] = 0
  <2> HIDE DEF total
  <2>1. picked({e}) = e /\ {e} \ {e} = {}
    OBVIOUS
  <2>2. Counted(total)[{}] = 0 /\ Counted(total)[{e}] = e.n + total[{}]
    BY <2>1
  <2> QED
    BY <1>3, <2>2
<1> QED
  BY <1>1, <1>4

\* An exact gate counts the checks of an address: it has one entry while one
\* is running, and none otherwise.
LEMMA ExactGateCounts ==
  ASSUME MaxPerKey <= 1, Types, GateExact
  PROVE  GateCountsInFlight
<1> SUFFICES ASSUME NEW a \in Addresses
             PROVE  /\ Cardinality(InFlight(a)) <= 1
                    /\ MapThenSumSet(LAMBDA e : e.n, {e \in gate : e.slot = a})
                         = Cardinality(InFlight(a))
  BY CapOne DEF GateCountsInFlight
<1>1. CASE {e \in gate : e.slot = a} = {}
  <2>1. InFlight(a) = {}
    BY <1>1 DEF GateExact, InFlight, Checking
  <2> QED
    BY <1>1, <2>1, SumOfNone, FS_EmptySet
<1>2. CASE {e \in gate : e.slot = a} # {}
  <2>1. PICK e \in gate : e.slot = a
    BY <1>2
  <2>2. {f \in gate : f.slot = a} = {e} /\ e.n = 1
    BY <2>1 DEF GateExact
  <2>3. InFlight(a) = {e.key}
    BY <2>1 DEF GateExact, InFlight, Checking, Entry
  <2>4. MapThenSumSet(LAMBDA f : f.n, {e}) = 1
    BY <2>2, SumOfOne
  <2>5. Cardinality(InFlight(a)) = 1
    BY <2>3, FS_Singleton
  <2>6. MapThenSumSet(LAMBDA f : f.n, {f \in gate : f.slot = a}) = 1
    BY <2>2, <2>4, Zenon
  <2> QED
    BY <2>5, <2>6
<1> QED
  BY <1>1, <1>2

\* With a cap of one, the counts in the gate are the checks running: no address
\* has more than one, and no count is left for a check that has ended, on
\* whichever path the handler returned (acquire, release).
THEOREM GateCountsExactly ==
  ASSUME MaxPerKey <= 1
  PROVE  TrailSpec => []GateCountsInFlight
<1>1. IInv /\ GateExact => GateCountsInFlight
  BY ExactGateCounts DEF IInv
<1> QED
  BY <1>1, GateIsExact, TrailCorrect, PTL

=============================================================================
