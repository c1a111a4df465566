----------------------- MODULE SigningMaterialProofs -----------------------
(***************************************************************************)
(* What TLAPS proves of SigningMaterial, for whatever the Auth Service     *)
(* may capture: any number of seals, with or without their certificates.   *)
(***************************************************************************)
EXTENDS SigningMaterial, TLAPS

----------------------------------------------------------------------------
(* The invariant.                                                          *)

\* What a session can hold.
Holdings == Captures \cup {NoCapabilities}

\* The session keeps exactly what its sign-in captured.
KeptAsCaptured == captured \in Holdings /\ caps = captured

\* The picker shows seals of some session.
ShowsSeals == picker \subseteq SealIds

\* A request in progress was begun with what its session held, and was not
\* one to refuse.
BegunFromHeld ==
  act.at = "begun" =>
    /\ act.held \in Holdings /\ act.rq \in SlotRequests(SealIds)
    /\ ~LacksCertificate(act.held, act.rq)
    /\ act.sent = BeginInput(act.held, act.rq)

ArchivedFromHeld ==
  act.at = "archiving" =>
    act.held.auth # None /\ act.sent.auth = act.held.auth

IInv == KeptAsCaptured /\ ShowsSeals /\ BegunFromHeld /\ ArchivedFromHeld

----------------------------------------------------------------------------
(* What the operators choose.                                              *)

\* The seals of a session, and their certificates.
LEMMA HoldingsFacts ==
  ASSUME NEW c \in Holdings
  PROVE  /\ c \in Capabilities
         /\ \A s \in Range(c.seals) : s \in Seal /\ s.cert \in {s.id, None}
<1>1. CASE c \in Captures
  <2>1. c \in Capabilities /\ c.seals \in Seq(Seal)
    BY <1>1, MaterialAssumption DEF Capabilities
  <2>2. \A s \in Range(c.seals) : s \in Seal
    BY <2>1 DEF Range
  <2> QED
    BY <1>1, <2>1, <2>2, MaterialAssumption
<1>2. CASE c = NoCapabilities
  BY <1>2 DEF NoCapabilities, Capabilities, Range
<1> QED
  BY <1>1, <1>2 DEF Holdings

\* An e-seal flow takes the picked seal, or the only one, or none.
LEMMA ChosenSealFacts ==
  ASSUME NEW c \in Holdings, NEW pick \in SealIds \cup {None},
         NEW s \in ChosenSeal(c, pick)
  PROVE  /\ s \in Range(c.seals)
         /\ pick # None => s.id = pick
         /\ pick = None => Range(c.seals) = {s}
<1>1. \A x \in Range(c.seals) : x.id # None
  BY HoldingsFacts, MaterialAssumption DEF Seal
<1>2. CASE pick = None /\ Len(c.seals) = 1
  <2>1. Range(c.seals) = {c.seals[1]}
    BY <1>2, HoldingsFacts DEF Capabilities, Range
  <2> QED
    BY <1>2, <2>1 DEF ChosenSeal
<1>3. CASE ~(pick = None /\ Len(c.seals) = 1)
  BY <1>1, <1>3 DEF ChosenSeal
<1> QED
  BY <1>2, <1>3

\* A picked seal the session has is found.
LEMMA PickedSealFound ==
  ASSUME NEW c \in Holdings, NEW pick \in SealIds, NEW s \in Range(c.seals),
         s.id = pick
  PROVE  ChosenSeal(c, pick) # {}
<1>1. pick # None
  BY MaterialAssumption
<1> QED
  BY <1>1 DEF ChosenSeal

\* What an e-seal flow is begun with.
LEMMA ESealFacts ==
  ASSUME NEW c \in Holdings, NEW rq \in SlotRequests(SealIds), rq.flow = "eseal"
  PROVE  LET m == BeginInput(c, rq)
             seals == Range(c.seals)
             ids == {s.id : s \in seals} IN
         /\ rq.pick # None =>
              m.identity = IF rq.pick \in ids THEN rq.pick ELSE None
         /\ rq.pick = None /\ m.identity # None => ids = {m.identity}
         /\ IF m.identity = None THEN m.cert = rq.cert
            ELSE \E s \in seals :
                   /\ s.id = m.identity
                   /\ m.cert = IF s.cert # None THEN s.cert ELSE rq.cert
<1> DEFINE m == BeginInput(c, rq)
           ids == {s.id : s \in Range(c.seals)}
           who == CapturedIdentity(c, rq)
<1>1. rq.pick \in SealIds \cup {None}
  BY DEF SlotRequests
<1>2. /\ m.identity = who.id
      /\ m.cert = IF who.cert # None THEN who.cert ELSE rq.cert
  BY DEF BeginInput
<1>3. CASE ChosenSeal(c, rq.pick) = {}
  <2>1. who.id = None /\ who.cert = None
    BY <1>3 DEF CapturedIdentity
  <2>2. rq.pick # None => rq.pick \notin ids
    BY <1>1, <1>3, PickedSealFound
  <2> QED
    BY <1>2, <2>1, <2>2
<1>4. CASE ChosenSeal(c, rq.pick) # {}
  <2>1. who \in ChosenSeal(c, rq.pick)
    BY <1>4 DEF CapturedIdentity
  <2>2. /\ who \in Range(c.seals) /\ who.id # None
        /\ rq.pick # None => who.id = rq.pick
        /\ rq.pick = None => Range(c.seals) = {who}
    BY <1>1, <2>1, ChosenSealFacts, HoldingsFacts, MaterialAssumption DEF Seal
  <2> HIDE DEF who
  <2> QED
    BY <1>2, <2>2
<1> QED
  BY <1>3, <1>4

\* What a redirect flow is begun with.
LEMMA RedirectFacts ==
  ASSUME NEW c \in Holdings, NEW rq \in SlotRequests(SealIds),
         rq.flow = "redirect"
  PROVE  LET m == BeginInput(c, rq) IN
         /\ m.identity = c.identity
         /\ m.cert = IF c.cert # None THEN c.cert ELSE rq.cert
  BY DEF BeginInput, CapturedIdentity

\* What a card flow that is not refused is begun with.
LEMMA CardFacts ==
  ASSUME NEW c \in Holdings, NEW rq \in SlotRequests(SealIds),
         rq.flow = "card", ~LacksCertificate(c, rq)
  PROVE  LET m == BeginInput(c, rq) IN
         m.identity = None /\ ~m.returns /\ m.cert = Card /\ m.auth # None
  BY DEF SlotRequests, BeginInput, CapturedIdentity, LacksCertificate,
         ReturnsToApp

----------------------------------------------------------------------------
(* The invariant is kept.                                                  *)

\* There is no session to begin with.
LEMMA MaterialInitial == MaterialInit => IInv
  BY DEF MaterialInit, IInv, KeptAsCaptured, ShowsSeals, BegunFromHeld,
     ArchivedFromHeld, Holdings, NoAct

\* Every step keeps the session as captured and requests begun from it.
LEMMA MaterialStep ==
  ASSUME IInv, [MaterialNext]_materialVars
  PROVE  IInv'
<1>1. CASE UNCHANGED signVars
  BY <1>1 DEF IInv, KeptAsCaptured, ShowsSeals, BegunFromHeld,
     ArchivedFromHeld, signVars
<1>2. ASSUME NEW c \in Captures, SignIn(c)
      PROVE  IInv'
  BY <1>2 DEF SignIn, IInv, KeptAsCaptured, ShowsSeals, BegunFromHeld,
     ArchivedFromHeld, Holdings
<1>3. CASE me
  <2>1. picker' \subseteq SealIds
    BY <1>3, HoldingsFacts DEF me, IInv, KeptAsCaptured, Seal
  <2> QED
    BY <1>3, <2>1 DEF me, IInv, KeptAsCaptured, ShowsSeals, BegunFromHeld,
       ArchivedFromHeld
<1>4. ASSUME NEW rq \in SlotRequests(picker), signEnvelopeSlot(rq)
      PROVE  IInv'
  <2>1. rq \in SlotRequests(SealIds)
    BY <1>4 DEF IInv, ShowsSeals, SlotRequests
  <2>2. /\ caps' = caps /\ UNCHANGED <<captured, picker>>
        /\ act' = IF LacksCertificate(captured, rq) THEN act
                  ELSE [at |-> "begun", rq |-> rq, held |-> captured,
                        sent |-> BeginInput(captured, rq)]
    BY <1>4 DEF signEnvelopeSlot, Renewed, applyTokens, IInv, KeptAsCaptured
  <2>3. BegunFromHeld' /\ ArchivedFromHeld'
    <3>1. CASE LacksCertificate(captured, rq)
      BY <2>2, <3>1 DEF IInv, BegunFromHeld, ArchivedFromHeld
    <3>2. CASE ~LacksCertificate(captured, rq)
      BY <2>1, <2>2, <3>2 DEF IInv, KeptAsCaptured, BegunFromHeld,
         ArchivedFromHeld
    <3> QED
      BY <3>1, <3>2
  <2> QED
    BY <2>2, <2>3 DEF IInv, KeptAsCaptured, ShowsSeals
<1>5. CASE archiveTimestamp
  <2>1. /\ caps' = caps /\ UNCHANGED <<captured, picker>>
        /\ act' = IF captured.auth = None THEN act
                  ELSE [NoAct EXCEPT !.at = "archiving", !.held = captured,
                                     !.sent.auth = captured.auth]
    BY <1>5 DEF archiveTimestamp, Renewed, applyTokens, IInv, KeptAsCaptured
  <2>2. BegunFromHeld' /\ ArchivedFromHeld'
    BY <2>1 DEF IInv, BegunFromHeld, ArchivedFromHeld, NoAct, NoMaterial
  <2> QED
    BY <2>1, <2>2 DEF IInv, KeptAsCaptured, ShowsSeals
<1>6. CASE answered
  BY <1>6 DEF answered, IInv, KeptAsCaptured, ShowsSeals, BegunFromHeld,
     ArchivedFromHeld, NoAct
<1> QED
  BY <1>1, <1>2, <1>3, <1>4, <1>5, <1>6 DEF MaterialNext, materialVars

\* The session's capabilities stay the ones its sign-in captured, over every
\* renewal of its token (routes/session.go applyTokens), and a request in
\* progress was begun from them (routes/envelope.go signEnvelopeSlot).
THEOREM MaterialCorrect == MaterialSpec => []IInv
  BY MaterialInitial, MaterialStep, PTL DEF MaterialSpec

\* The identity and the captured certificates of a signing or an archive
\* timestamp are the ones of the session it was asked in, whatever the request
\* brings (signEnvelopeSlot, archiveTimestamp).
THEOREM MaterialIsTheSessions == MaterialSpec => []MaterialBelongsTogether
<1>1. ASSUME IInv, act.at = "begun"
      PROVE  /\ SignsAsThePerson /\ SignsWithTheSeal /\ SignsWithTheCard
             /\ act.sent.auth = IF act.rq.auth # None THEN act.rq.auth
                               ELSE act.held.auth
  <2>1. /\ act.held \in Holdings /\ act.rq \in SlotRequests(SealIds)
        /\ ~LacksCertificate(act.held, act.rq)
        /\ act.sent = BeginInput(act.held, act.rq)
        /\ act.sent.auth = AuthCert(act.held, act.rq)
    BY <1>1 DEF IInv, BegunFromHeld, SlotRequests, BeginInput
  <2>2. SignsAsThePerson
    BY <2>1, RedirectFacts DEF SignsAsThePerson, Certificate
  <2>3. SignsWithTheSeal
    <3> DEFINE m == BeginInput(act.held, act.rq)
    <3>1. CASE act.rq.flow = "eseal"
      <4>1. LET seals == Range(act.held.seals)
                ids == {s.id : s \in seals} IN
            /\ act.rq.pick # None =>
                 m.identity = IF act.rq.pick \in ids THEN act.rq.pick ELSE None
            /\ act.rq.pick = None /\ m.identity # None => ids = {m.identity}
            /\ IF m.identity = None THEN m.cert = act.rq.cert
               ELSE \E s \in seals :
                      /\ s.id = m.identity
                      /\ m.cert = IF s.cert # None THEN s.cert ELSE act.rq.cert
        BY <2>1, <3>1, ESealFacts
      <4> HIDE DEF m
      <4>2. act.sent = m
        BY <2>1 DEF m
      <4> QED
        BY <4>1, <4>2 DEF SignsWithTheSeal, Certificate
    <3> QED
      BY <3>1 DEF SignsWithTheSeal
  <2>4. SignsWithTheCard
    BY <2>1, CardFacts DEF SignsWithTheCard
  <2> QED
    BY <2>1, <2>2, <2>3, <2>4 DEF AuthCert
<1>2. IInv => MaterialBelongsTogether
  BY <1>1 DEF IInv, ArchivedFromHeld, MaterialBelongsTogether
<1> QED
  BY <1>2, MaterialCorrect, PTL

----------------------------------------------------------------------------
(* The invitations of EnvelopeCreate, under the composed specification.    *)

\* A request is a record, and its slots are invitations.
RequestsInvite ==
  /\ req = [r \in Requests |-> req[r]]
  /\ \A r \in Requests :
       /\ req[r] = [phase |-> req[r].phase, ask |-> req[r].ask,
                    hold |-> req[r].hold, slots |-> req[r].slots]
       /\ req[r].slots \subseteq Invitation

Invites == RequestsInvite /\ InvitationsCanBeClaimed

\* What is not refused is stored under a spelling somebody can claim.
LEMMA IdentityClaimable ==
  ASSUME NEW inv \in Invitation, ~refused(inv)
  PROVE  LET s == inviteIdentity(inv) IN s # None => s.full /\ s.who # Org
  BY DEF Invitation, Code, refused, inviteIdentity, Canonical

\* A request moves on, is answered, or arrives with its invitations.
LEMMA RequestMoves ==
  ASSUME RequestsInvite, NEW r \in Requests,
         Goes(r, "bundled") \/ Goes(r, "panicked") \/ Answers(r)
           \/ createBundle(r)
  PROVE  RequestsInvite'
<1>1. ASSUME NEW x \in Requests
      PROVE  /\ req'[x] = [phase |-> req'[x].phase, ask |-> req'[x].ask,
                           hold |-> req'[x].hold, slots |-> req'[x].slots]
             /\ req'[x].slots \subseteq Invitation
  BY <1>1 DEF RequestsInvite, Goes, Answers, createBundle, Idle
<1>2. req' = [x \in Requests |-> req'[x]]
  BY DEF RequestsInvite, Goes, Answers, createBundle
<1> QED
  BY <1>1, <1>2 DEF RequestsInvite

\* Every step stores invitations in a form a login can match.
LEMMA InvitesStep ==
  ASSUME Invites, [MaterialNext]_materialVars
  PROVE  Invites'
<1>1. CASE UNCHANGED vars
  BY <1>1 DEF vars, Invites, RequestsInvite, InvitationsCanBeClaimed
<1>2. ASSUME NEW f \in Files, Upload(f)
      PROVE  Invites'
  BY <1>2 DEF Upload, Invites, RequestsInvite, InvitationsCanBeClaimed
<1>3. ASSUME NEW s \in Asks, bundleDocuments(s)
      PROVE  Invites'
  BY <1>3 DEF bundleDocuments, Invites, RequestsInvite, InvitationsCanBeClaimed
<1>4. ASSUME NEW r \in Requests, NEW ask \in Asks, NEW invs \in Invited,
             createEnvelope(r, ask, invs)
      PROVE  Invites'
  <2>1. invs \subseteq Invitation
    BY DEF Invited, kSubset
  <2>2. /\ req' = [req EXCEPT ![r] = [phase |-> "asked", ask |-> ask,
                                      hold |-> ask, slots |-> invs]]
        /\ slots' = slots
    BY <1>4 DEF createEnvelope
  <2>3. ASSUME NEW x \in Requests
        PROVE  /\ req'[x] = [phase |-> req'[x].phase, ask |-> req'[x].ask,
                             hold |-> req'[x].hold, slots |-> req'[x].slots]
               /\ req'[x].slots \subseteq Invitation
    BY <2>1, <2>2 DEF Invites, RequestsInvite
  <2>4. req' = [x \in Requests |-> req'[x]]
    BY <2>2 DEF Invites, RequestsInvite
  <2> QED
    BY <2>2, <2>3, <2>4 DEF Invites, RequestsInvite, InvitationsCanBeClaimed
<1>5. ASSUME NEW r \in Requests,
             \/ createBundle(r) \/ createBundleFails(r)
             \/ createBundleUnwired(r) \/ createRefused(r) \/ Recovered(r)
      PROVE  Invites'
  <2>1. RequestsInvite'
    BY <1>5, RequestMoves DEF Invites, createBundleFails, createBundleUnwired,
       createRefused, Recovered
  <2>2. slots' = slots
    BY <1>5 DEF createBundle, createBundleFails, createBundleUnwired,
       createRefused, Recovered
  <2> QED
    BY <2>1, <2>2 DEF Invites, InvitationsCanBeClaimed
<1>6. ASSUME NEW r \in Requests, create(r)
      PROVE  Invites'
  <2>1. RequestsInvite'
    BY <1>6, RequestMoves DEF Invites, create
  <2>2. \A inv \in req[r].slots : inv \in Invitation /\ ~refused(inv)
    BY <1>6 DEF create, Invites, RequestsInvite
  <2>3. slots' = slots
          \/ slots' = slots \cup {inviteIdentity(inv) : inv \in req[r].slots}
    BY <1>6 DEF create
  <2>4. InvitationsCanBeClaimed'
    BY <2>2, <2>3, IdentityClaimable DEF Invites, InvitationsCanBeClaimed
  <2> QED
    BY <2>1, <2>4 DEF Invites
<1>7. ASSUME NEW inv \in Invitation, addEnvelopeSlot(inv)
      PROVE  Invites'
  BY <1>7, IdentityClaimable
  DEF addEnvelopeSlot, Invites, RequestsInvite, InvitationsCanBeClaimed
<1> QED
  BY <1>1, <1>2, <1>3, <1>4, <1>5, <1>6, <1>7
  DEF MaterialNext, materialVars, Next, notConfigured, SignIn, me,
      signEnvelopeSlot, archiveTimestamp, answered

\* Every slot stored can be claimed by somebody: createEnvelope and
\* addEnvelopeSlot store what inviteIdentity made of the invitation.
THEOREM SlotsCanBeClaimed == MaterialSpec => []InvitationsCanBeClaimed
<1>1. MaterialInit => Invites
  BY DEF MaterialInit, Init, Invites, RequestsInvite, InvitationsCanBeClaimed,
     Idle
<1>2. Invites /\ [MaterialNext]_materialVars => Invites'
  BY InvitesStep
<1>3. Invites => InvitationsCanBeClaimed
  BY DEF Invites
<1> QED
  BY <1>1, <1>2, <1>3, PTL DEF MaterialSpec

----------------------------------------------------------------------------
(* The documents of EnvelopeCreate, under the composed specification.      *)

\* A sequence of one is flattened to its element.
LEMMA FlattenOne == ASSUME NEW d PROVE FlattenSeq(<<d>>) = d
<1> DEFINE Joined(g) == [i \in 1..Len(<<d>>) |->
                           IF i = 1 THEN <<d>>[i] ELSE g[i-1] \o <<d>>[i]]
           flat == CHOOSE g : g = Joined(g)
<1>1. FlattenSeq(<<d>>) =
        IF Len(<<d>>) = 0 THEN <<d>> ELSE flat[Len(<<d>>)]
  BY Zenon DEF FlattenSeq
<1>2. Len(<<d>>) = 1
  OBVIOUS
<1>3. <<d>> = Joined(<<d>>)
  <2>1. \A i \in 1..1 : Joined(<<d>>)[i] = d
    BY <1>2
  <2> QED
    BY <1>2, <2>1
<1>4. flat = Joined(flat)
  <2> HIDE DEF Joined
  <2> QED
    BY <1>3
<1>5. flat[1] = d
  <2> HIDE DEF flat
  <2>1. Joined(flat)[1] = d
    BY <1>2
  <2> QED
    BY <1>4, <2>1
<1> QED
  BY <1>1, <1>2, <1>5

\* What a request holds: what it asked for until it is bundled, and then the
\* one bundle of all of it.
HoldsForAsked(r) ==
  /\ req[r].phase = "asked" => req[r].hold = req[r].ask
  /\ req[r].phase = "bundled" => req[r].hold = <<FlattenSeq(req[r].ask)>>

\* What an envelope was created with: the documents asked for, when they were
\* at most one, or the one bundle of them.
HoldsWhole(e) == \/ e.hold = e.ask /\ Len(e.ask) <= 1
                 \/ e.hold = <<FlattenSeq(e.ask)>>

Holds == /\ \A r \in Requests : HoldsForAsked(r)
         /\ \A e \in envs : HoldsWhole(e)

\* A request that goes on without a bundle, or ends, holds what it asked for.
LEMMA HoldsMoves ==
  ASSUME RequestsInvite, Holds, NEW r \in Requests, envs' = envs,
         Goes(r, "panicked") \/ Answers(r) \/ createBundle(r)
  PROVE  Holds'
<1>1. CASE Goes(r, "panicked")
  BY <1>1 DEF Goes, Holds, HoldsForAsked, HoldsWhole, RequestsInvite
<1>2. CASE Answers(r)
  BY <1>2 DEF Answers, Idle, Holds, HoldsForAsked, HoldsWhole, RequestsInvite
<1>3. CASE createBundle(r)
  <2> DEFINE bundle == <<FlattenSeq(req[r].ask)>>
  <2>1. req' = [req EXCEPT ![r].phase = "bundled", ![r].hold = bundle]
    BY <1>3 DEF createBundle
  <2>2. /\ req'[r].phase = "bundled" /\ req'[r].ask = req[r].ask
        /\ req'[r].hold = bundle
        /\ \A x \in Requests \ {r} : req'[x] = req[x]
    <3> HIDE DEF bundle
    <3>1. DOMAIN req = Requests
      BY DEF RequestsInvite
    <3>2. \A x \in Requests \ {r} : req'[x] = req[x]
      BY <2>1, <3>1
    <3>3. req'[r] = [req[r] EXCEPT !.phase = "bundled", !.hold = bundle]
      BY <2>1, <3>1
    <3>4. DOMAIN req[r] = {"phase", "ask", "hold", "slots"}
      BY DEF RequestsInvite
    <3> QED
      BY <3>2, <3>3, <3>4
  <2> QED
    BY <2>2 DEF Holds, HoldsForAsked, HoldsWhole
<1> QED
  BY <1>1, <1>2, <1>3

\* Every step keeps requests and envelopes to the whole set asked for.
LEMMA HoldsStep ==
  ASSUME RequestsInvite, Holds, [MaterialNext]_materialVars
  PROVE  Holds'
<1>1. CASE UNCHANGED <<req, envs>>
  BY <1>1 DEF Holds, HoldsForAsked, HoldsWhole
<1>2. ASSUME NEW r \in Requests, NEW ask \in Asks, NEW invs \in Invited,
             createEnvelope(r, ask, invs)
      PROVE  Holds'
  <2>1. ASSUME NEW x \in Requests
        PROVE  HoldsForAsked(x)'
    BY <1>2, <2>1 DEF Holds, HoldsForAsked, RequestsInvite, createEnvelope
  <2> QED
    BY <1>2, <2>1 DEF createEnvelope, Holds, HoldsWhole
<1>3. ASSUME NEW r \in Requests,
             \/ createBundle(r) \/ createBundleFails(r)
             \/ createBundleUnwired(r) \/ createRefused(r) \/ Recovered(r)
      PROVE  Holds'
  BY <1>3, HoldsMoves DEF createBundle, createBundleFails,
     createBundleUnwired, createRefused, Recovered
<1>4. ASSUME NEW r \in Requests, create(r)
      PROVE  Holds'
  <2> DEFINE new == [ask |-> req[r].ask, hold |-> req[r].hold]
  <2>1. HoldsWhole(new)
    BY <1>4 DEF create, Settled, Holds, HoldsForAsked, HoldsWhole
  <2>2. envs' = envs \/ envs' = envs \cup {new}
    BY <1>4 DEF create
  <2>3. \A e \in envs' : HoldsWhole(e)
    <3> HIDE DEF new
    <3> QED
      BY <2>1, <2>2 DEF Holds
  <2>4. ASSUME NEW x \in Requests
        PROVE  HoldsForAsked(x)'
    BY <1>4, <2>4 DEF Holds, HoldsForAsked, RequestsInvite, create, Answers,
       Idle
  <2> QED
    BY <2>3, <2>4 DEF Holds, HoldsWhole
<1> QED
  BY <1>1, <1>2, <1>3, <1>4
  DEF MaterialNext, materialVars, vars, Next, Upload, bundleDocuments,
      addEnvelopeSlot, notConfigured, SignIn, me, signEnvelopeSlot,
      archiveTimestamp, answered

\* Every signer signs the whole set: an envelope asked for over several
\* documents is created only with the one bundle of all of them, in their
\* order, whatever other tabs bundle and whichever call fails (createEnvelope).
THEOREM EnvelopeHoldsTheWholeSet == MaterialSpec => []WholeSetInOneDocument
<1>1. MaterialInit => Invites /\ Holds
  BY DEF MaterialInit, Init, Invites, RequestsInvite, InvitationsCanBeClaimed,
     Holds, HoldsForAsked, Idle
<1>2. Invites /\ Holds /\ [MaterialNext]_materialVars => Invites' /\ Holds'
  BY InvitesStep, HoldsStep DEF Invites
<1>3. ASSUME Holds, NEW e \in envs
      PROVE  Len(e.hold) <= 1 /\ FlattenSeq(e.hold) = FlattenSeq(e.ask)
  <2>1. CASE e.hold = e.ask /\ Len(e.ask) <= 1
    BY <2>1
  <2>2. CASE e.hold = <<FlattenSeq(e.ask)>>
    <3>1. Len(<<FlattenSeq(e.ask)>>) = 1
      OBVIOUS
    <3> QED
      BY <2>2, <3>1, FlattenOne
  <2> QED
    BY <1>3, <2>1, <2>2 DEF Holds, HoldsWhole
<1>4. Holds => WholeSetInOneDocument
  BY <1>3 DEF WholeSetInOneDocument
<1> QED
  BY <1>1, <1>2, <1>4, PTL DEF MaterialSpec

=============================================================================
