-------------------------- MODULE EnvelopeSigning --------------------------
(***************************************************************************)
(* Signing one envelope: signEnvelopeSlot asks the envelope service        *)
(* (external) whether the slot may sign, begins a job at the signing       *)
(* service (external) and records the job on the slot; getEnvelope         *)
(* composes the view of a participant from the slots and the live jobs     *)
(* (routes/envelope.go, routes/signing.go, clients/).                      *)
(*                                                                         *)
(* Every call is a step of its own, so requests, the signing service's     *)
(* callback and the envelope's transitions interleave.                     *)
(***************************************************************************)
EXTENDS Integers, FiniteSets

CONSTANTS Owner,      \* the envelope's owner
          CoSigners,  \* the other people
          Viewers,    \* the people that open the envelope in an instance
          Invitations,\* the identity codes slots are invited under, and None
          None,       \* no identity, no job, no container, no name
          Slots,      \* slots in signing order, numbers
          Signings,   \* request slots of signEnvelopeSlot
          MaxJobs     \* bound on the jobs begun

People == CoSigners \cup {Owner}

\* An identity code: whose it is, and in which spelling it is stored.
Refs == People \X {"canonical", "partner"}

ASSUME PeopleAssumption == Owner \notin CoSigners /\ None \notin People \cup Nat
ASSUME ViewerAssumption == Viewers \subseteq People
ASSUME InvitationAssumption == Invitations \subseteq Refs \cup {None}
ASSUME SlotAssumption == Slots \subseteq Nat
ASSUME JobAssumption == MaxJobs \in Nat

VARIABLES
  status,    \* the envelope's status
  slot,      \* slot[s]: the slot at the envelope service, or None
  job,       \* job[j]: the job at the signing service; jobs are numbered
  known,     \* jobs the app knows of
  sign,      \* sign[r]: a signEnvelopeSlot request
  view,      \* a getEnvelope request
  missed     \* history: slots with a job begun and never recorded

vars == <<status, slot, job, known, sign, view, missed>>

----------------------------------------------------------------------------
Jobs == 1..MaxJobs

\* Any slot may have been given a return address; here every one is.
NewSlot(ref) == [ref |-> ref, returnURL |-> TRUE, job |-> None,
                 signedDocRef |-> None, name |-> None]

\* A slot at the envelope service, and a job at the signing service.
SlotRecord == [ref : Refs \cup {None}, returnURL : BOOLEAN,
               job : Jobs \cup {None}, signedDocRef : Jobs \cup {None},
               name : People \cup {None}]
JobRecord == [slot : Slots,
              state : {"pending", "signed", "abandoned", "gone"}]

ASSUME RecordAssumption == None \notin SlotRecord \cup JobRecord

IdleSign == [phase |-> "idle", slot |-> 0, job |-> None]
IdleView == [phase |-> "idle", viewer |-> Owner, at |-> 0, slots |-> <<>>,
             read |-> <<>>]

Present == {s \in Slots : slot[s] # None}

\* Who is to sign the slot: the invited person, else the owner.
Signer(sl) == IF sl.ref = None THEN Owner ELSE sl.ref[1]

----------------------------------------------------------------------------
(* The envelope service (external), as the relayed routes drive it.        *)

\* addEnvelopeSlot stores an invitation in its canonical spelling; another
\* system that prepared the envelope may have used its own.
AddSlot(s, ref) ==
  /\ status = "draft" /\ slot[s] = None
  /\ \A t \in Slots : t < s => slot[t] # None
  /\ slot' = [slot EXCEPT ![s] = NewSlot(ref)]
  /\ UNCHANGED <<status, job, known, sign, view, missed>>

Transitions ==
  {<<"draft", "sent">>, <<"draft", "cancelled">>, <<"sent", "cancelled">>,
   <<"sent", "declined">>, <<"completed", "draft">>}

\* sendEnvelope, cancelEnvelope, declineEnvelopeSlot and reopenEnvelope each
\* relay one transition.
Transition(to) ==
  /\ <<status, to>> \in Transitions
  /\ to = "sent" => Present # {}
  /\ status' = to
  /\ UNCHANGED <<slot, job, known, sign, view, missed>>

\* SlotEligible: the envelope is out, and every earlier slot has signed.
Eligible(s) ==
  /\ status = "sent" /\ slot[s] # None /\ slot[s].signedDocRef = None
  /\ \A t \in Present : t < s => slot[t].signedDocRef # None

----------------------------------------------------------------------------
(* The signing service (external).                                         *)

Begun == {j \in Jobs : job[j] # None}
ChainFree == \A j \in Begun : job[j].state # "pending"

\* The person signs, from the app that was given the job: with a card, which
\* clientSignature relays, or by a flow whose end signingStatus reports.
SignJob(j) ==
  /\ j \in known /\ job[j].state = "pending"
  /\ job' = [job EXCEPT ![j].state = "signed"]
  /\ UNCHANGED <<status, slot, known, sign, view, missed>>

\* The signing service reports completion to the envelope service.
Callback(j) ==
  LET s == job[j].slot IN
  /\ job[j].state = "signed" /\ slot[s].signedDocRef = None
  /\ slot' = [slot EXCEPT ![s].signedDocRef = j]
  /\ status' = IF status = "sent" /\ \A t \in Present \ {s} :
                    slot[t].signedDocRef # None
               THEN "completed" ELSE status
  /\ UNCHANGED <<job, known, sign, view, missed>>

\* A pending job's lock lapses; it outlives the request that began the job.
Lapse(j) ==
  /\ job[j].state = "pending"
  /\ \A r \in Signings : sign[r].job # j
  /\ job' = [job EXCEPT ![j].state = "abandoned"]
  /\ UNCHANGED <<status, slot, known, sign, view, missed>>

\* A finished job is forgotten: its status cannot be read any more.
Forget(j) ==
  /\ job[j].state \in {"signed", "abandoned"}
  /\ job[j].state = "signed" => slot[job[j].slot].signedDocRef # None
  /\ job' = [job EXCEPT ![j].state = "gone"]
  /\ UNCHANGED <<status, slot, known, sign, view, missed>>

\* abandonSigning, by an app that was given the job.
abandonSigning(j) ==
  /\ j \in known /\ job[j].state = "pending"
  /\ job' = [job EXCEPT ![j].state = "abandoned"]
  /\ UNCHANGED <<status, slot, known, sign, view, missed>>

----------------------------------------------------------------------------
(* signEnvelopeSlot.                                                       *)

\* The eligibility check; a slot that may not sign now ends the request.
SlotEligible(r, s) ==
  /\ sign[r].phase = "idle"
  /\ Eligible(s)
  /\ sign' = [sign EXCEPT ![r] = [phase |-> "eligible", slot |-> s,
                                  job |-> None]]
  /\ UNCHANGED <<status, slot, job, known, view, missed>>

NextJob == Cardinality(Begun) + 1
Begin(s) == [job EXCEPT ![NextJob] = [slot |-> s, state |-> "pending"]]

\* Faulty variant: the app is answered before the job is recorded.
BeginSigningAnswered(r) ==
  /\ sign[r].phase = "eligible" /\ ChainFree /\ NextJob \in Jobs
  /\ job' = Begin(sign[r].slot)
  /\ sign' = [sign EXCEPT ![r].phase = "begun", ![r].job = NextJob]
  /\ known' = known \cup {NextJob}
  /\ UNCHANGED <<status, slot, view, missed>>

\* BeginSigning: the chain is locked for the new job.
BeginSigning(r) ==
  /\ sign[r].phase = "eligible" /\ ChainFree /\ NextJob \in Jobs
  /\ job' = Begin(sign[r].slot)
  /\ sign' = [sign EXCEPT ![r].phase = "begun", ![r].job = NextJob]
  /\ UNCHANGED <<status, slot, known, view, missed>>

\* The job begins and its answer does not come back in time.
BeginLost(r) ==
  /\ sign[r].phase = "eligible" /\ ChainFree /\ NextJob \in Jobs
  /\ job' = Begin(sign[r].slot)
  /\ missed' = missed \cup {sign[r].slot}
  /\ sign' = [sign EXCEPT ![r] = IdleSign]
  /\ UNCHANGED <<status, slot, known, view>>

\* BeginSigning is refused (the chain is taken) or fails: relayed.
BeginRefused(r) ==
  /\ sign[r].phase = "eligible"
  /\ sign' = [sign EXCEPT ![r] = IdleSign]
  /\ UNCHANGED <<status, slot, job, known, view, missed>>

\* SetSlotJob, best effort; then the app is given the job.
SetSlotJob(r) ==
  LET s == sign[r].slot IN
  /\ sign[r].phase = "begun"
  /\ \/ slot' = [slot EXCEPT ![s].job = sign[r].job] /\ UNCHANGED missed
     \/ missed' = missed \cup {s} /\ UNCHANGED slot
  /\ known' = known \cup {sign[r].job}
  /\ sign' = [sign EXCEPT ![r] = IdleSign]
  /\ UNCHANGED <<status, job, view>>

----------------------------------------------------------------------------
(* getEnvelope.                                                            *)

\* Faulty variant: a slot without a code is anybody's.
youAnybody(v, sl) == sl.ref = None \/ sl.ref[1] = v

\* The viewer's own slot: their code, by its key, or the owner's codeless one.
You(v, sl) == \/ sl.ref # None /\ sl.ref[1] = v
              \/ sl.ref = None /\ v = Owner

\* Faulty variant: only the identity codes are taken out.
redactCodesOnly(v, sl) ==
  [ref |-> IF v = Owner THEN sl.ref ELSE None, returnURL |-> sl.returnURL]

\* What a viewer other than the owner gets of a slot's personal data.
Redacted(v, sl) ==
  [ref |-> IF v = Owner THEN sl.ref ELSE None,
   returnURL |-> sl.returnURL /\ (v = Owner \/ You(v, sl))]

\* A slot of the view before its live state is read: the recorded container.
Composed(v, sl) ==
  [you |-> You(v, sl), shown |-> Redacted(v, sl), name |-> sl.name,
   container |-> sl.signedDocRef, state |-> None]

\* The envelope is read, with its slots as they are now.
Get(v) ==
  /\ view.phase = "idle"
  /\ view' = [phase |-> "composing", viewer |-> v, at |-> 1,
              slots |-> [s \in Present |-> Composed(v, slot[s])],
              read |-> [s \in Present |-> slot[s]]]
  /\ UNCHANGED <<status, slot, job, known, sign, missed>>

\* The container a job's status names: none before it is signed.
ContainerOf(j) == IF job[j].state = "signed" THEN j ELSE None

\* Faulty variant: the job's container replaces the recorded one.
refinedAlways(old, j) == ContainerOf(j)

\* The job's container refines the recorded one and never blanks it.
Refined(old, j) == IF ContainerOf(j) # None THEN ContainerOf(j) ELSE old

\* The next slot's live state is read, if it has a job and it can be read.
Status ==
  LET s == view.at
      j == view.read[s].job IN
  /\ view.phase = "composing" /\ s \in DOMAIN view.read
  /\ \/ view' = [view EXCEPT !.at = s + 1]
     \/ /\ j # None /\ job[j].state # "gone"
        /\ view' = [view EXCEPT !.at = s + 1,
                                !.slots[s].state = job[j].state,
                                !.slots[s].container = Refined(@, j)]
  /\ UNCHANGED <<status, slot, job, known, sign, missed>>

\* The slots whose name the viewer's own is to fill: the first one only.
Unnamed == {s \in DOMAIN view.slots :
              view.slots[s].you /\ view.slots[s].name = None}

\* The viewer's name from their login: found, or any call for it fails.
viewerName(v) == {v, None}

\* CaptureSignerName, best effort and at the envelope service write-once and
\* on the caller's own slot; the name is in this view whatever came of it.
CaptureSignerName ==
  /\ view.phase = "composing" /\ view.at \notin DOMAIN view.read
  /\ IF Unnamed = {} THEN UNCHANGED slot /\ view' = [view EXCEPT !.phase = "shown"]
     ELSE LET s == CHOOSE t \in Unnamed : \A u \in Unnamed : t <= u
              v == view.viewer IN
       \E name \in viewerName(v) :
         /\ view' = [view EXCEPT !.phase = "shown", !.slots[s].name = name]
         /\ \/ UNCHANGED slot
            \/ /\ name # None /\ slot[s].name = None /\ Signer(slot[s]) = v
               /\ slot' = [slot EXCEPT ![s].name = name]
  /\ UNCHANGED <<status, job, known, sign, missed>>

\* The view is with the app, which learns the recorded jobs from it.
Shown ==
  /\ view.phase = "shown"
  /\ known' = known \cup ({view.read[s].job : s \in DOMAIN view.read} \ {None})
  /\ view' = IdleView
  /\ UNCHANGED <<status, slot, job, sign, missed>>

----------------------------------------------------------------------------
Init ==
  /\ status = "draft"
  /\ slot = [s \in Slots |-> None]
  /\ job = [j \in Jobs |-> None]
  /\ known = {}
  /\ sign = [r \in Signings |-> IdleSign]
  /\ view = IdleView
  /\ missed = {}

Next ==
  \/ \E s \in Slots, ref \in Invitations : AddSlot(s, ref)
  \/ \E to \in {"draft", "sent", "cancelled", "declined"} : Transition(to)
  \/ \E j \in Begun : SignJob(j) \/ Callback(j) \/ Lapse(j) \/ Forget(j)
                        \/ abandonSigning(j)
  \/ \E r \in Signings :
       \/ \E s \in Slots : SlotEligible(r, s)
       \/ BeginSigning(r) \/ BeginLost(r) \/ BeginRefused(r) \/ SetSlotJob(r)
  \/ \E v \in Viewers : Get(v)
  \/ Status \/ CaptureSignerName \/ Shown

Spec == Init /\ [][Next]_vars

----------------------------------------------------------------------------
(* Properties.                                                             *)

\* A slot that was signed when the envelope was read offers its download in
\* every view, with a container of a job of that slot, whatever has become of
\* the slot's job since (getEnvelope: "never blank the durable ref").
SignedSlotKeepsDownload ==
  view.phase = "shown" =>
    \A s \in DOMAIN view.read : view.read[s].signedDocRef # None =>
      /\ view.slots[s].container # None
      /\ job[view.slots[s].container].slot = s

\* A co-signer is given no identity code at all, and of the return addresses
\* only their own; the owner is given everything (getEnvelope).
CoSignerSeesOwnOnly ==
  \A s \in DOMAIN view.slots : view.viewer # Owner =>
    /\ view.slots[s].shown.ref = None
    /\ view.slots[s].shown.returnURL => Signer(view.read[s]) = view.viewer

\* A name shown or stored on a slot is that of the person who is to sign it.
NameIsTheSigners ==
  /\ \A s \in DOMAIN view.slots :
       view.slots[s].name # None => view.slots[s].name = Signer(view.read[s])
  /\ \A s \in Present : slot[s].name # None => slot[s].name = Signer(slot[s])

\* Once its sign requests are over, a slot's recorded job is the newest one
\* begun for it: however attempts are abandoned and retried, an older one
\* never overwrites it.  Only a job that was never recorded is an exception.
RecordedJobIsNewest ==
  \A s \in Present \ missed :
    (\A r \in Signings : sign[r].phase = "begun" => sign[r].slot # s)
      => \A j \in Begun : job[j].slot = s =>
           slot[s].job # None /\ slot[s].job >= j

=============================================================================
