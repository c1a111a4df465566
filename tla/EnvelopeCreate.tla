--------------------------- MODULE EnvelopeCreate ---------------------------
(***************************************************************************)
(* Creating envelopes and inviting signers (routes/envelope.go             *)
(* createEnvelope, addEnvelopeSlot, inviteIdentity; routes/documents.go    *)
(* bundleDocuments), with the clients App.init has wired.  The document    *)
(* service absorbs loose uploads into a bundle; requests of several tabs   *)
(* over the same uploads interleave between its calls.                     *)
(*                                                                         *)
(* A document is the sequence of the files in it: <<f>> is a loose upload, *)
(* a longer one a bundle in its sender's order.                            *)
(***************************************************************************)
EXTENDS Integers, Sequences, FiniteSets, SequencesExt

CONSTANTS Files,      \* files the user may upload
          People,     \* people that can be invited
          Org,        \* an organisation
          None,       \* no identity code
          Requests,   \* request slots
          Deployments, \* the sets of clients a deployment may wire
          MaxSlots,   \* bound on the slots one createEnvelope names
          MaxEnvelopes \* bound on the envelopes created

ASSUME NoneAssumption == None \notin People \cup {Org} /\ Org \notin People
ASSUME DeploymentAssumption ==
  Deployments \subseteq SUBSET {"documents", "envelope", "signflow"}
ASSUME BoundAssumption == MaxSlots \in Nat /\ MaxEnvelopes \in Nat

VARIABLES
  wired,   \* the clients App.init built (fixed at start)
  docs,    \* live documents at the document service
  envs,    \* envelopes at the envelope service: documents asked for and held
  slots,   \* identities that slots were stored under
  req      \* req[r]: the request in the slot

vars == <<wired, docs, envs, slots, req>>

----------------------------------------------------------------------------
Services == {"documents", "envelope", "signflow"}

\* What may be typed: whose code it is, and whether it names its country.
Code == [who : People \cup {Org}, full : BOOLEAN]

\* An invitation: a code or none, and whether a country was chosen beside it.
Invitation == [code : Code \cup {None}, country : BOOLEAN]

\* A stored identity: canonical, so with its country.
Canonical(code) == [code EXCEPT !.full = TRUE]

\* inviteIdentity refuses a code of no country, and an organisation's.
refused(inv) ==
  inv.code # None /\ (~(inv.code.full \/ inv.country) \/ inv.code.who = Org)

\* inviteIdentity: no code, or the one spelling the platform stores.
inviteIdentity(inv) == IF inv.code = None THEN None ELSE Canonical(inv.code)

Idle == [phase |-> "idle", ask |-> <<>>, hold |-> <<>>, slots |-> {}]

Goes(r, phase) == req' = [req EXCEPT ![r].phase = phase]
Answers(r) == req' = [req EXCEPT ![r] = Idle]

----------------------------------------------------------------------------
\* uploadDocument, when the document service is wired.
Upload(f) ==
  /\ "documents" \in wired
  /\ \A d \in docs : f \notin Range(d)
  /\ docs' = docs \cup {<<f>>}
  /\ UNCHANGED <<wired, envs, slots, req>>

\* Bundle (external): loose sources that are all still there become one
\* document, in the order given.
Bundled(sources) ==
  /\ \A i \in DOMAIN sources : sources[i] \in docs /\ Len(sources[i]) = 1
  /\ docs' = (docs \ Range(sources)) \cup {FlattenSeq(sources)}

\* bundleDocuments: the draft is bundled as it is staged.
bundleDocuments(sources) ==
  /\ "documents" \in wired
  /\ Len(sources) >= 2 /\ Bundled(sources)
  /\ UNCHANGED <<wired, envs, slots, req>>

\* createEnvelope: a request for documents and slots arrives.
createEnvelope(r, ask, invs) ==
  /\ req[r].phase = "idle"
  /\ "envelope" \in wired
  /\ Cardinality(envs) < MaxEnvelopes
  /\ req' = [req EXCEPT ![r] = [phase |-> "asked", ask |-> ask,
                                hold |-> ask, slots |-> invs]]
  /\ UNCHANGED <<wired, docs, envs, slots>>

\* Faulty variant: two documents are still few enough to go in as they are.
createBundleOfThree(r) ==
  /\ req[r].phase = "asked" /\ Len(req[r].ask) >= 2
  /\ "documents" \in wired
  /\ Goes(r, "bundled")
  /\ UNCHANGED <<wired, docs, envs, slots>>

\* Two documents or more are bundled first.
createBundle(r) ==
  /\ req[r].phase = "asked" /\ Len(req[r].ask) >= 2
  /\ "documents" \in wired
  /\ Bundled(req[r].ask)
  /\ req' = [req EXCEPT ![r].phase = "bundled",
                        ![r].hold = <<FlattenSeq(req[r].ask)>>]
  /\ UNCHANGED <<wired, envs, slots>>

\* The bundle is refused, or the document service does not answer: relayed.
createBundleFails(r) ==
  /\ req[r].phase = "asked" /\ Len(req[r].ask) >= 2
  /\ "documents" \in wired
  /\ Answers(r)
  /\ UNCHANGED <<wired, docs, envs, slots>>

\* Without a document service Documents() is nil: the call panics.
createBundleUnwired(r) ==
  /\ req[r].phase = "asked" /\ Len(req[r].ask) >= 2
  /\ "documents" \notin wired
  /\ Goes(r, "panicked")
  /\ UNCHANGED <<wired, docs, envs, slots>>

\* The documents are settled: one bundle, or the at most one asked for.
Settled(r) == \/ req[r].phase = "bundled"
              \/ req[r].phase = "asked" /\ Len(req[r].ask) <= 1

\* An invitation is refused: the request ends, after the bundle was made.
createRefused(r) ==
  /\ Settled(r)
  /\ \E inv \in req[r].slots : refused(inv)
  /\ Answers(r)
  /\ UNCHANGED <<wired, docs, envs, slots>>

\* Envelope().Create, answered or not; the slots it stores are canonical.
create(r) ==
  /\ Settled(r)
  /\ \A inv \in req[r].slots : ~refused(inv)
  /\ \/ /\ \A i \in DOMAIN req[r].hold : req[r].hold[i] \in docs
        /\ envs' = envs \cup {[ask |-> req[r].ask, hold |-> req[r].hold]}
        /\ slots' = slots \cup {inviteIdentity(inv) : inv \in req[r].slots}
     \/ UNCHANGED <<envs, slots>>
  /\ Answers(r)
  /\ UNCHANGED <<wired, docs>>

\* Faulty variant: a later invitation is stored as it was typed.
addEnvelopeSlotAsTyped(inv) ==
  /\ "envelope" \in wired /\ envs # {}
  /\ ~refused(inv)
  /\ slots' = slots \cup {inv.code}
  /\ UNCHANGED <<wired, docs, envs, req>>

\* addEnvelopeSlot: an invitation to an envelope that is there.
addEnvelopeSlot(inv) ==
  /\ "envelope" \in wired /\ envs # {}
  /\ ~refused(inv)
  /\ slots' = slots \cup {inviteIdentity(inv)}
  /\ UNCHANGED <<wired, docs, envs, req>>

\* A route whose collaborator is not wired: documentsReady, envelopeReady.
notConfigured(r) ==
  /\ req[r].phase = "idle" /\ wired # Services
  /\ UNCHANGED vars

\* The framework answers for a handler that panicked.
Recovered(r) ==
  /\ req[r].phase = "panicked"
  /\ Answers(r)
  /\ UNCHANGED <<wired, docs, envs, slots>>

----------------------------------------------------------------------------
\* What a tab may ask for: documents it saw, which may be gone since.
Seen == {<<f>> : f \in Files} \cup docs
Asks == {<<>>} \cup {<<d>> : d \in Seen}
               \cup {s \in Seen \X Seen : s[1] # s[2]}
Invited == UNION {kSubset(n, Invitation) : n \in 0..MaxSlots}

Init ==
  /\ wired \in Deployments
  /\ docs = {} /\ envs = {} /\ slots = {}
  /\ req = [r \in Requests |-> Idle]

Next ==
  \/ \E f \in Files : Upload(f)
  \/ \E s \in Asks : bundleDocuments(s)
  \/ \E r \in Requests :
       \/ \E ask \in Asks, invs \in Invited : createEnvelope(r, ask, invs)
       \/ createBundle(r) \/ createBundleFails(r) \/ createBundleUnwired(r)
       \/ createRefused(r) \/ create(r)
       \/ notConfigured(r) \/ Recovered(r)
  \/ \E inv \in Invitation : addEnvelopeSlot(inv)

Spec == Init /\ [][Next]_vars

----------------------------------------------------------------------------
(* Properties.                                                             *)

\* Every signer signs the whole set: an envelope asked for over several
\* documents holds one, made of exactly their files in the sender's order,
\* whichever other tab bundles the same uploads meanwhile (createEnvelope:
\* "the envelope holds a single document ref").
WholeSetInOneDocument ==
  \A e \in envs : /\ Len(e.hold) <= 1
                  /\ FlattenSeq(e.hold) = FlattenSeq(e.ask)

\* Every slot stored through this service can be claimed by somebody: it has
\* no code, or the canonical one of a person (inviteIdentity: an organisation
\* is "a row no login can ever reach").
InvitationsCanBeClaimed ==
  \A s \in slots : s # None => s.full /\ s.who # Org

=============================================================================
