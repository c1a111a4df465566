---------------------------- MODULE AccessTrail ----------------------------
(***************************************************************************)
(* Reads and writes of documents on the signed-in user's behalf            *)
(* (routes/documents.go, routes/preview.go), and the trail of personal-    *)
(* data access they leave (audit/audit.go): a download or an opened        *)
(* preview is recorded before its bytes are answered, at once or through   *)
(* an outbox delivered in the background, in memory or on disk.  A record  *)
(* whose delivery was not answered is delivered again.                     *)
(*                                                                         *)
(* Composed with the anonymous check (Verify): both kinds of request are   *)
(* served from the same reused buffers, and both trails go to the same     *)
(* audit service.  A restart loses whatever the process held in memory.    *)
(***************************************************************************)
EXTENDS Verify, Sequences, SequencesExt

CONSTANTS Users,        \* subjects of signed-in sessions
          NoUser,       \* a session whose subject is empty
          Documents,    \* document ids
          NoDocument,   \* path bytes that hold no document id; no copy
          Deployments,  \* the sets of service base URLs a deployment sets
          OutboxCapacity, \* gdpr.DefaultOutboxCapacity
          MaxReads,     \* bound on the on-behalf requests in progress
          MaxAccesses   \* bound on the accesses granted while audited

ASSUME TrailAssumption ==
  /\ NoUser \notin Users /\ NoDocument \notin Documents
  /\ IsFiniteSet(Buffers)
  /\ Deployments \subseteq SUBSET {"documents", "preview", "signer", "other"}
  /\ {OutboxCapacity, MaxReads, MaxAccesses} \subseteq Nat

VARIABLES
  urls,       \* the service base URLs that are set (fixed at start)
  durable,    \* the outbox is a directory, not memory (fixed at start)
  path,       \* path[c]: the document-id bytes in the buffer
  read,       \* read[c]: the on-behalf request in the buffer
  outbox,     \* access records waiting for the background delivery
  granted,    \* granted[x]: times a recorded route was granted access x
  served,     \* served[x]: times its bytes were answered
  delivered,  \* delivered[x]: records of x the audit service has taken, each
              \* counted once however often it was delivered
  dropped     \* dropped[x]: records of x it never took, given up by a full outbox

checkVars == <<buf, phase, seen, recorded, gate, events>>
deployment == <<configured, audited, urls, durable>>
tallies == <<granted, served, delivered, dropped>>
trailVars == <<deployment, checkVars, path, read, outbox, tallies>>

\* An access: who read what.
Accesses == Users \X Documents

----------------------------------------------------------------------------
(* Routes and deployment.                                                  *)

\* The routes, by what tells them apart: "relay" stands for the document routes
\* that only relay (upload, list, metadata, chain, delete, extract, bundle,
\* rebundle, history), "manifest" for the two preview manifests and "page" for
\* page images and text.
Routes == {"download", "relay", "manifest", "page"}
RecordedRoutes == {"download", "manifest"}

\* The service a route is composed from.
Via(route) == IF route \in {"manifest", "page"} THEN "preview" ELSE "documents"

\* An outbound client is built when some collaborator's URL is set.
OutboundEnabled == urls # {}

\* The composition clients that are wired: routes of the others answer 503.
Wired(service) == OutboundEnabled /\ service \in urls

----------------------------------------------------------------------------
(* The access record.                                                      *)

\* Faulty variant: the record keeps the document id as a view of the path.
accessRecordView(c) ==
  [user |-> read[c].user, copy |-> NoDocument, of |-> c, taken |-> FALSE]

\* The record of the access the request in buffer c was granted; the audit
\* library keeps copies of its own.  "taken" is not in the record: it tells
\* whether the audit service has it already.
accessRecord(c) ==
  [user |-> read[c].user, copy |-> path[c], of |-> c, taken |-> FALSE]

\* The access a record names when it is read.
Named(rec) ==
  <<rec.user, IF rec.copy # NoDocument THEN rec.copy ELSE path[rec.of]>>

\* Buffered records that name access x and have not reached the audit service.
Waiting(x) ==
  Cardinality({i \in DOMAIN outbox : Named(outbox[i]) = x /\ ~outbox[i].taken})

Plus(tally, x) == IF x \in Accesses THEN [tally EXCEPT ![x] = @ + 1] ELSE tally

\* A delivery reaches the audit service: a record it has not seen is one more.
Takes(rec) ==
  delivered' = IF rec.taken THEN delivered ELSE Plus(delivered, Named(rec))

\* Posting a record: it reaches the audit service or not, and the answer arrives
\* or not.  Unanswered, it is buffered for the background delivery, though the
\* service may have it; given up, as the outbox is full, it may have got there too.
PostOrBuffer(rec) ==
  \/ Takes(rec) /\ UNCHANGED <<outbox, dropped>>
  \/ /\ Len(outbox) < OutboxCapacity
     /\ \/ UNCHANGED delivered /\ outbox' = Append(outbox, rec)
        \/ Takes(rec) /\ outbox' = Append(outbox, [rec EXCEPT !.taken = TRUE])
     /\ UNCHANGED dropped
  \/ /\ Len(outbox) >= OutboxCapacity
     /\ UNCHANGED delivered
     /\ dropped' = Plus(dropped, Named(rec))
     /\ UNCHANGED outbox

\* The accesses that are owed a record: a download or an opened preview of a
\* known person, where an audit service is wired.
Due(c) ==
  audited /\ read[c].user # NoUser /\ read[c].route \in {"download", "manifest"}

----------------------------------------------------------------------------
(* The request on the user's behalf.                                       *)

Idle == [at |-> "free", route |-> "none", user |-> NoUser]

\* The request in buffer c goes on to step next.
Step(c, next) == read' = [read EXCEPT ![c].at = next]

\* The request in buffer c is answered with a problem, without the document.
Refuse(c) == read' = [read EXCEPT ![c] = [Idle EXCEPT !.at = "refused"]]

\* A signed-in request of user u for document d arrives in a free buffer, and
\* overwrites what the buffer held.
ArriveRead(c, a, route, u, d) ==
  /\ phase[c] = "free" /\ read[c].at = "free"
  /\ Cardinality({b \in Buffers : read[b].at # "free"}) < MaxReads
  /\ buf' = [buf EXCEPT ![c] = a]
  /\ path' = [path EXCEPT ![c] = d]
  /\ read' = [read EXCEPT ![c] = [at |-> "arrived", route |-> route, user |-> u]]
  /\ recorded' = [recorded EXCEPT ![c] = 0]
  /\ seen' = seen \ {c}
  /\ UNCHANGED <<deployment, phase, gate, events, outbox, tallies>>

\* documentsReady, previewReady: the service's client is not wired.
notReady(c) ==
  /\ read[c].at = "arrived" /\ ~Wired(Via(read[c].route))
  /\ Refuse(c)
  /\ UNCHANGED <<deployment, checkVars, path, outbox, tallies>>

\* onBehalf: the session's token could not be renewed.
onBehalfFails(c) ==
  /\ read[c].at = "arrived" /\ Wired(Via(read[c].route))
  /\ Refuse(c)
  /\ UNCHANGED <<deployment, checkVars, path, outbox, tallies>>

\* onBehalf: the call to the service goes out under the user's token.
onBehalf(c) ==
  /\ read[c].at = "arrived" /\ Wired(Via(read[c].route))
  /\ Step(c, "asked")
  /\ UNCHANGED <<deployment, checkVars, path, outbox, tallies>>

\* The file, the body or the page number is missing: nothing is sent.
badInput(c) ==
  /\ read[c].at = "arrived" /\ Wired(Via(read[c].route))
  /\ read[c].route \in {"relay", "page"}
  /\ Refuse(c)
  /\ UNCHANGED <<deployment, checkVars, path, outbox, tallies>>

\* The service refuses, fails or cannot be reached: the error is relayed.
relayErr(c) ==
  /\ read[c].at = "asked"
  /\ Refuse(c)
  /\ UNCHANGED <<deployment, checkVars, path, outbox, tallies>>

\* The service answers with the document: the access is granted.
callAnswers(c) ==
  /\ read[c].at = "asked"
  /\ FoldFunction(+, 0, granted) < MaxAccesses
  /\ granted' = IF Due(c) THEN Plus(granted, <<read[c].user, path[c]>>) ELSE granted
  /\ Step(c, "granted")
  /\ UNCHANGED <<deployment, checkVars, path, outbox, served, delivered, dropped>>

\* The recorder does nothing without an audit service or a known person.
RecordAccess(c) ==
  IF audited /\ read[c].user # NoUser
  THEN /\ PostOrBuffer(accessRecord(c))
       /\ recorded' = [recorded EXCEPT ![c] = @ + 1]
  ELSE UNCHANGED <<recorded, outbox, delivered, dropped>>

\* Faulty variant: the access is recorded while the service is still asked.
documentReadAsked(c) ==
  /\ read[c].at = "asked" /\ read[c].route \in RecordedRoutes
  /\ RecordAccess(c)
  /\ Step(c, "granted")
  /\ UNCHANGED <<deployment, buf, phase, seen, gate, events, path, granted, served>>

\* documentRead: the request goes on whatever comes of the record.
documentRead(c) ==
  /\ read[c].at = "granted" /\ read[c].route \in RecordedRoutes
  /\ RecordAccess(c)
  /\ Step(c, "recorded")
  /\ UNCHANGED <<deployment, buf, phase, seen, gate, events, path, granted, served>>

\* A recorded route answers the bytes, after the record.
answer(c) ==
  /\ read[c].at = "recorded"
  /\ served' = IF Due(c) THEN Plus(served, <<read[c].user, path[c]>>) ELSE served
  /\ Step(c, "served")
  /\ UNCHANGED <<deployment, checkVars, path, outbox, granted, delivered, dropped>>

\* The other routes relay what the service answered.
relay(c) ==
  /\ read[c].at = "granted" /\ read[c].route \notin RecordedRoutes
  /\ Step(c, "served")
  /\ UNCHANGED <<deployment, checkVars, path, outbox, tallies>>

\* The request is over; its buffer is free, its bytes still in it.
FinishRead(c) ==
  /\ read[c].at \in {"refused", "served"}
  /\ read' = [read EXCEPT ![c] = Idle]
  /\ UNCHANGED <<deployment, checkVars, path, outbox, tallies>>

----------------------------------------------------------------------------
(* The background delivery, and the process.                               *)

\* The drain task, or the flush at shutdown, delivers a buffered record; it is
\* kept, and delivered again, when the answer is lost or the process ends first.
Drain(i) ==
  /\ Takes(outbox[i])
  /\ \/ outbox' = RemoveAt(outbox, i)
     \/ outbox' = [outbox EXCEPT ![i].taken = TRUE]
  /\ UNCHANGED <<deployment, checkVars, path, read, granted, served, dropped>>

\* Faulty variant: a restart begins with an empty outbox in any case.
restartedOutboxEmpty == <<>>

\* What is in the outbox after a restart.
restartedOutbox == IF durable THEN outbox ELSE <<>>

\* The process stops or crashes, and starts again: the requests, the gate and
\* the evidence still to be posted are gone; a stop is a flush of some records
\* (Drain) before it.
Restart ==
  /\ buf' = [c \in Buffers |-> NoAddress]
  /\ path' = [c \in Buffers |-> NoDocument]
  /\ phase' = [c \in Buffers |-> "free"]
  /\ read' = [c \in Buffers |-> Idle]
  /\ seen' = {} /\ gate' = {} /\ events' = {}
  /\ recorded' = [c \in Buffers |-> 0]
  /\ outbox' = restartedOutbox
  /\ UNCHANGED <<deployment, tallies>>

----------------------------------------------------------------------------
\* app.init: which clients and recorders a deployment has.
TrailInit ==
  /\ Init
  /\ urls \in Deployments /\ durable \in BOOLEAN
  /\ configured = Wired("signer")
  /\ \E auditURL \in BOOLEAN : audited = (auditURL /\ OutboundEnabled)
  /\ path = [c \in Buffers |-> NoDocument]
  /\ read = [c \in Buffers |-> Idle]
  /\ outbox = <<>>
  /\ granted = [x \in Accesses |-> 0]
  /\ served = [x \in Accesses |-> 0]
  /\ delivered = [x \in Accesses |-> 0]
  /\ dropped = [x \in Accesses |-> 0]

\* The anonymous checks: one arrives only in a free buffer, and its path
\* overwrites the buffer's.
CheckNext ==
  \/ \E c \in Buffers, a \in Addresses :
       /\ read[c].at = "free"
       /\ Arrive(c, a)
       /\ path' = [path EXCEPT ![c] = NoDocument]
       /\ UNCHANGED <<urls, durable, read, outbox, tallies>>
  \/ /\ \/ \E c \in Buffers :
             \/ verifyRefused(c)
             \/ verifyAdmitted(c)
             \/ fileRefused(c)
             \/ documentRejected(c)
             \/ forward(c)
             \/ verifyOutcome(c)
             \/ Finish(c)
        \/ \E ev \in events : Post(ev)
     /\ UNCHANGED <<urls, durable, path, read, outbox, tallies>>

ReadNext ==
  \E c \in Buffers :
    \/ \E a \in Addresses, route \in Routes, u \in Users \cup {NoUser},
          d \in Documents : ArriveRead(c, a, route, u, d)
    \/ notReady(c)
    \/ onBehalfFails(c)
    \/ onBehalf(c)
    \/ badInput(c)
    \/ relayErr(c)
    \/ callAnswers(c)
    \/ documentRead(c)
    \/ answer(c)
    \/ relay(c)
    \/ FinishRead(c)

TrailNext ==
  \/ CheckNext
  \/ ReadNext
  \/ \E i \in DOMAIN outbox : Drain(i)
  \/ Restart

TrailSpec == TrailInit /\ [][TrailNext]_trailVars

----------------------------------------------------------------------------
(* Properties.                                                             *)

\* Every record the audit service has, that waits or was given up stands for an
\* access of its own that the document or preview service really granted: no
\* record of a refused read, none that names another request's document or
\* person.  A record may be delivered again, and then still names a granted one.
TrailIsTruthful ==
  /\ \A x \in Accesses : delivered[x] + Waiting(x) + dropped[x] <= granted[x]
  /\ \A i \in DOMAIN outbox : \E x \in Accesses :
       Named(outbox[i]) = x /\ granted[x] > 0

\* Whose bytes were answered is on the trail, whatever restarts came between: a
\* record of its own, and not a repeated delivery of another's, has reached the
\* audit service, is in the durable outbox, or was given up as that was full.
ServedAccessIsOnRecord ==
  durable => \A x \in Accesses :
               served[x] <= delivered[x] + Waiting(x) + dropped[x]

\* A download or an opened preview has made one record when it is answered; one
\* that was refused, failed or only relayed has made none.
AccessLeavesOneRecord ==
  \A c \in Buffers : read[c].at # "free"
    => recorded[c] = IF read[c].at \in {"recorded", "served"} /\ Due(c)
                     THEN 1 ELSE 0

=============================================================================
