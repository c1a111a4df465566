-------------------------- MODULE SigningMaterial --------------------------
(***************************************************************************)
(* What a signing is begun with (routes/envelope.go signEnvelopeSlot,      *)
(* routes/documents.go archiveTimestamp): the identity, certificates and   *)
(* seal that the sign-in captured and the session kept (routes/session.go  *)
(* capabilitiesFromTokens, applyTokens, me), the ones the request brings,  *)
(* and the return addresses of the configuration (config.go).              *)
(*                                                                         *)
(* An envelope made as in EnvelopeCreate is signed once its creation is    *)
(* over; the signer may sign in again, as for another organisation, while  *)
(* a tab still shows the seals of the session before.                      *)
(*                                                                         *)
(* A certificate is named after the identity or seal it belongs to.        *)
(***************************************************************************)
EXTENDS EnvelopeCreate

CONSTANTS Own,       \* the person's own signing identity
          Login,     \* the authentication certificate of the sign-in
          Card,      \* a certificate read off a card by the app
          SealIds,   \* organisation seals
          AppOrigin, \* the app's origin is configured
          Captures   \* what the Auth Service may capture at a sign-in

Seal == [id : SealIds, cert : SealIds \cup {None}]

\* A session's capabilities; absent ones are ones with nothing captured.
Capabilities == [identity : {Own, None}, cert : {Own, None},
                 auth : {Login, None}, seals : Seq(Seal), known : BOOLEAN]

ASSUME MaterialAssumption ==
  /\ None \notin SealIds \cup {Own, Login, Card} /\ Own \notin SealIds
  /\ Captures \subseteq Capabilities /\ AppOrigin \in BOOLEAN
  /\ \A c \in Captures : \A s \in Range(c.seals) : s.cert \in {s.id, None}

VARIABLES
  captured,  \* history: what the session's sign-in captured
  caps,      \* Session.Capabilities
  picker,    \* the seals the app's picker shows, from the last /me
  act        \* the signing or archiving request in progress

signVars == <<captured, caps, picker, act>>
materialVars == <<vars, signVars>>

----------------------------------------------------------------------------
Flows == {"card", "eseal", "redirect"}

\* A request, of any flow with or without certificates: the app is to omit
\* them outside the card flow, which nothing checks. A seal is picked among
\* the ones shown.
SlotRequests(shown) ==
  [flow : Flows, pick : shown \cup {None}, cert : {Card, None},
   auth : {Card, None}]

NoCapabilities == [identity |-> None, cert |-> None, auth |-> None,
                   seals |-> <<>>, known |-> FALSE]
NoRequest == [flow |-> "redirect", pick |-> None, cert |-> None, auth |-> None]
NoMaterial == [identity |-> None, cert |-> None, auth |-> None, seal |-> None,
               returns |-> FALSE]
NoAct == [at |-> "none", rq |-> NoRequest, held |-> NoCapabilities,
          sent |-> NoMaterial]

----------------------------------------------------------------------------
(* Choosing the material.                                                  *)

\* Faulty variant: a session's only seal signs whatever was picked.
ChosenSealOnly(c, pick) ==
  IF Len(c.seals) = 1 THEN Range(c.seals)
  ELSE {s \in Range(c.seals) : s.id = pick}

\* The seal that signs: the session's only one when none was picked, else the
\* picked one, if the session has it.
ChosenSeal(c, pick) ==
  IF pick = None /\ Len(c.seals) = 1 THEN Range(c.seals)
  ELSE {s \in Range(c.seals) : s.id = pick}

\* The identity a redirect flow takes from the session, with the certificate
\* captured along with it, if one was.
CapturedIdentity(c, rq) ==
  CASE rq.flow = "card" -> [id |-> None, cert |-> None]
    [] rq.flow = "redirect" -> [id |-> c.identity, cert |-> c.cert]
    [] rq.flow = "eseal" ->
         LET chosen == ChosenSeal(c, rq.pick) IN
         IF chosen = {} THEN [id |-> None, cert |-> None]
         ELSE CHOOSE s \in chosen : TRUE

\* The authentication certificate: the app's, else the sign-in's.
AuthCert(c, rq) == IF rq.auth # None THEN rq.auth ELSE c.auth

\* A card flow lacks one of its two certificates.
LacksCertificate(c, rq) ==
  rq.flow = "card" /\ (rq.cert = None \/ AuthCert(c, rq) = None)

\* SigningSlotReturnURLs: a redirect flow comes back to the app, if the
\* configuration tells where that is.
ReturnsToApp(rq) == rq.flow # "card" /\ AppOrigin

\* The BeginInput of a request: the captured certificate, else the app's.
BeginInput(c, rq) ==
  LET who == CapturedIdentity(c, rq) IN
  [identity |-> who.id,
   cert |-> IF who.cert # None THEN who.cert ELSE rq.cert,
   auth |-> AuthCert(c, rq),
   seal |-> rq.pick,
   returns |-> ReturnsToApp(rq)]

----------------------------------------------------------------------------
\* The signer signs in, again perhaps: the session holds what was captured.
SignIn(c) ==
  /\ envs # {} /\ \A r \in Requests : req[r] = Idle
  /\ captured' = c /\ caps' = c
  /\ UNCHANGED <<vars, picker, act>>

\* me: the seals are shown when the sign-in could read them.
me ==
  /\ picker' = IF caps.known THEN {s.id : s \in Range(caps.seals)} ELSE {}
  /\ UNCHANGED <<vars, captured, caps, act>>

\* applyTokens: a renewed token leaves the capabilities as they are.
applyTokens(c) == c

\* onBehalf saves the session when it has to renew the token.
Renewed(c) == {c, applyTokens(c)}

\* signEnvelopeSlot: the material is settled from the session as it was read,
\* or the request is refused with 400; the calls that follow (SlotEligible,
\* BeginSigning, SetSlotJob) are those of EnvelopeSigning.
signEnvelopeSlot(rq) ==
  /\ act.at = "none" /\ envs # {} /\ {"envelope", "signflow"} \subseteq wired
  /\ \E c \in Renewed(caps) :
       /\ caps' = c
       /\ act' = IF LacksCertificate(c, rq) THEN act
                 ELSE [at |-> "begun", rq |-> rq, held |-> captured,
                       sent |-> BeginInput(c, rq)]
  /\ UNCHANGED <<vars, captured, picker>>

\* archiveTimestamp: refused with 409 when the session has no certificate.
archiveTimestamp ==
  /\ act.at = "none" /\ envs # {} /\ "signflow" \in wired
  /\ \E c \in Renewed(caps) :
       /\ caps' = c
       /\ act' = IF c.auth = None THEN act
                 ELSE [NoAct EXCEPT !.at = "archiving", !.held = captured,
                                    !.sent.auth = c.auth]
  /\ UNCHANGED <<vars, captured, picker>>

\* The slot may not sign, a call fails, or the request is answered.
answered ==
  /\ act.at # "none"
  /\ act' = NoAct
  /\ UNCHANGED <<vars, captured, caps, picker>>

----------------------------------------------------------------------------
MaterialInit ==
  /\ Init
  /\ captured = NoCapabilities /\ caps = NoCapabilities
  /\ picker = {} /\ act = NoAct

MaterialNext ==
  \/ Next /\ UNCHANGED signVars
  \/ \E c \in Captures : SignIn(c)
  \/ me
  \/ \E rq \in SlotRequests(picker) : signEnvelopeSlot(rq)
  \/ archiveTimestamp
  \/ answered

MaterialSpec == MaterialInit /\ [][MaterialNext]_materialVars

----------------------------------------------------------------------------
(* Properties.                                                             *)

\* The certificate captured with an identity, else the one the app brought.
Certificate(own) == IF own # None THEN own ELSE act.rq.cert

\* A redirect flow signs as the person the session's sign-in captured.
SignsAsThePerson ==
  act.rq.flow = "redirect" =>
    /\ act.sent.identity = act.held.identity
    /\ act.sent.cert = Certificate(act.held.cert)

\* An e-seal flow signs with a seal: the one that was picked or, when none
\* was, the session's only one, and with the certificate of that seal.
SignsWithTheSeal ==
  act.rq.flow = "eseal" =>
    LET seals == Range(act.held.seals)
        ids == {s.id : s \in seals}
        pick == act.rq.pick
        who == act.sent.identity IN
    /\ pick # None => who = IF pick \in ids THEN pick ELSE None
    /\ pick = None /\ who # None => ids = {who}
    /\ IF who = None THEN act.sent.cert = act.rq.cert
       ELSE \E s \in seals : s.id = who /\ act.sent.cert = Certificate(s.cert)

\* A card flow signs with the card, and never leaves the page.
SignsWithTheCard ==
  act.rq.flow = "card" =>
    act.sent.identity = None /\ ~act.sent.returns
      /\ act.sent.cert = Card /\ act.sent.auth # None

\* What a signing is begun with is the session's it was asked in, however
\* often the token was renewed, the person signed in again or the picker
\* showed another session's seals (routes/envelope.go signEnvelopeSlot): the
\* identity is the captured one; a picked seal is never replaced by another;
\* a captured certificate goes out with the identity it was captured with,
\* neither the app's nor another identity's in its place; and an archive
\* timestamp is requested in the acting user's name (routes/documents.go
\* archiveTimestamp). Where an identity was captured without a certificate,
\* one that the app brings goes out with it.
MaterialBelongsTogether ==
  /\ act.at = "begun" =>
       /\ SignsAsThePerson /\ SignsWithTheSeal /\ SignsWithTheCard
       /\ act.sent.auth = IF act.rq.auth # None THEN act.rq.auth
                         ELSE act.held.auth
  /\ act.at = "archiving" =>
       act.sent.auth # None /\ act.sent.auth = act.held.auth

=============================================================================
