------------------------ MODULE PortalSessionProofs ------------------------
(***************************************************************************)
(* What TLAPS proves of PortalSession, for any number of browsers, session *)
(* ids and requests in flight, any bound on rotations, and both kinds of   *)
(* Auth Service.                                                           *)
(***************************************************************************)
EXTENDS PortalSession, TLAPS

\* The arithmetic of refresh-token generations.
LEMMA GenFacts ==
  /\ Gen \subseteq Nat /\ Absent \notin Gen /\ 0 \in Gen
  /\ \A g \in Gen : /\ g <= NextGen(g)
                    /\ NextGen(g) \in Nat
                    /\ applyTokens(g, IssuedToken(g)) = NextGen(g)
                    /\ Rotates => g < NextGen(g)
                    /\ ~Rotates => NextGen(g) = g
  BY GenAssumption, RotatesAssumption
     DEF Gen, Absent, NextGen, applyTokens, IssuedToken

\* The order of the integers, for comparing fields of records.
LEMMA Order ==
  /\ \A a \in Int : a <= a /\ ~(a < a)
  /\ \A a \in Int : a + 1 \in Int /\ a <= a + 1 /\ a < a + 1
  /\ \A a, b, c \in Int : a <= b /\ b <= c => a <= c
  /\ \A a, b, c \in Int : a <= b /\ b < c => a < c
  OBVIOUS

\* Generations are integers, and a missing token is below all of them.
LEMMA GenInts ==
  /\ Absent \in Int
  /\ \A g \in Gen : g \in Int /\ g \in Nat /\ Absent < g
  /\ \A n \in Nat : Absent <= n
  BY GenAssumption DEF Gen, Absent

\* An answer leaves a well-formed slot, and the other slots alone.
LEMMA AnsweredFacts ==
  ASSUME TypeOK, NEW r \in Requests, NEW b \in Browsers,
         NEW eff \in CookieEffects, NEW s \in Sids \cup {NoSid}
  PROVE  /\ AnsweredWith(r, b, eff, s) \in [Requests -> Request]
         /\ AnsweredWith(r, b, eff, s)[r].phase = "answered"
         /\ AnsweredWith(r, b, eff, s)[r].sid = s
         /\ \A x \in Requests \ {r} :
              AnsweredWith(r, b, eff, s)[x] = req[x]
  BY DEF TypeOK, AnsweredWith, Request, Kinds, Phases

\* The answer of a request on a session, as AnsweredFacts has it.
LEMMA AnsweredOnSession ==
  ASSUME TypeOK, NEW r \in Requests, NEW eff \in CookieEffects
  PROVE  /\ Answered(r, eff) \in [Requests -> Request]
         /\ Answered(r, eff)[r].phase = "answered"
         /\ Answered(r, eff)[r].sid = NoSid
         /\ \A x \in Requests \ {r} : Answered(r, eff)[x] = req[x]
<1>1. req[r].browser \in Browsers
  BY DEF TypeOK, Request
<1> QED
  BY <1>1, AnsweredFacts DEF Answered

\* A slot whose request moves to another phase with another snapshot.
LEMMA MovedFacts ==
  ASSUME TypeOK, NEW r \in Requests, NEW p \in Phases,
         NEW g \in Gen \cup {Absent},
         NEW q, q = [req EXCEPT ![r].phase = p, ![r].gen = g]
  PROVE  /\ q \in [Requests -> Request]
         /\ q[r].phase = p /\ q[r].gen = g /\ q[r].sid = req[r].sid
         /\ \A x \in Requests \ {r} : q[x] = req[x]
  BY ZenonT(60) DEF TypeOK, Request

\* A slot that is freed.
LEMMA IdleFacts ==
  ASSUME TypeOK, NEW r \in Requests
  PROVE  /\ Idle(r) \in [Requests -> Request]
         /\ Idle(r)[r].phase = "idle"
         /\ \A x \in Requests \ {r} : Idle(r)[x] = req[x]
<1> DEFINE f == [req[r] EXCEPT !.phase = "idle", !.sid = NoSid,
                               !.effect = "none"]
<1>1. req \in [Requests -> Request] /\ req[r] \in Request
  BY DEF TypeOK
<1>2. f \in Request /\ f.phase = "idle"
  BY <1>1 DEF Request, Phases, CookieEffects
<1>3. Idle(r) = [req EXCEPT ![r] = f]
  BY <1>1 DEF Idle
<1> QED
  BY <1>1, <1>2, <1>3

\* What one slot, the store and the Auth Service look like by type.
LEMMA SlotFacts ==
  ASSUME TypeOK, NEW r \in Requests
  PROVE  /\ req[r].sid \in Sids \cup {NoSid}
         /\ req[r].gen \in Gen \cup {Absent}
         /\ req[r].browser \in Browsers
         /\ req[r].effect \in CookieEffects
         /\ req[r].phase \in Phases
  BY DEF TypeOK, Request

\* The next state is well formed when its parts are.
LEMMA TypeParts ==
  ASSUME TypeOK,
         store' \in [Sids -> Gen \cup {Absent}],
         used' \subseteq Sids,
         as' \in [Sids -> [live : BOOLEAN, gen : Gen]],
         jar' \in [Browsers -> Sids \cup {NoSid}],
         ended' \subseteq Sids, lost' \subseteq Sids,
         req' \in [Requests -> Request],
         NEW r \in Requests,
         \A x \in Requests \ {r} : req'[x] = req[x],
         req'[r].phase \in {"admitted", "granted", "revoked"} =>
           req'[r].sid \in Sids /\ req'[r].gen \in Gen
  PROVE  TypeOK'
<1>1. \A x \in Requests :
        req'[x].phase \in {"admitted", "granted", "revoked"} =>
          req'[x].sid \in Sids /\ req'[x].gen \in Gen
  BY DEF TypeOK
<1> QED
  BY <1>1 DEF TypeOK

\* TypeOK is inductive: every step of the portal's session handling keeps the
\* store, the cookies and the requests well formed.
LEMMA TypeStep == TypeOK /\ [Next]_vars => TypeOK'
<1> SUFFICES ASSUME TypeOK, [Next]_vars PROVE TypeOK'
  OBVIOUS
<1>0. "none" \in CookieEffects /\ "clear" \in CookieEffects
      /\ "set" \in CookieEffects
  BY DEF CookieEffects
<1>t. /\ store \in [Sids -> Gen \cup {Absent}] /\ used \subseteq Sids
      /\ as \in [Sids -> [live : BOOLEAN, gen : Gen]]
      /\ jar \in [Browsers -> Sids \cup {NoSid}]
      /\ ended \subseteq Sids /\ lost \subseteq Sids
  BY DEF TypeOK
<1>w. ASSUME NEW r \in Requests,
             req[r].phase \in {"admitted", "granted", "revoked"}
      PROVE  req[r].sid \in Sids /\ req[r].gen \in Gen
  BY <1>w DEF TypeOK
<1>1. ASSUME NEW r \in Requests, NEW b \in Browsers, NEW s \in Sids,
             establishSession(r, b, s)
      PROVE TypeOK'
  <2>1. /\ req' \in [Requests -> Request]
        /\ req'[r].phase = "answered"
        /\ \A x \in Requests \ {r} : req'[x] = req[x]
    BY <1>0, <1>1, AnsweredFacts DEF establishSession
  <2>2. store' \in [Sids -> Gen \cup {Absent}]
    BY <1>1, <1>t, GenFacts DEF establishSession
  <2>3. as' \in [Sids -> [live : BOOLEAN, gen : Gen]]
    BY <1>1, <1>t, GenFacts DEF establishSession
  <2>4. used' \subseteq Sids /\ jar' = jar /\ ended' = ended /\ lost' = lost
    BY <1>1, <1>t DEF establishSession
  <2> QED
    BY <1>t, <2>1, <2>2, <2>3, <2>4, TypeParts
<1>2. ASSUME NEW r \in Requests, NEW b \in Browsers, NEW k \in Kinds,
             NEW tok \in BOOLEAN, Send(r, b, k, tok)
      PROVE TypeOK'
  <2>1. jar[b] \in Sids \cup {NoSid}
    BY <1>t
  <2>2. /\ req' \in [Requests -> Request]
        /\ req'[r].phase = "sent"
        /\ \A x \in Requests \ {r} : req'[x] = req[x]
    BY <1>2, <2>1 DEF TypeOK, Send, Request, Phases, CookieEffects
  <2> QED
    BY <1>2, <1>t, <2>2, TypeParts DEF Send
<1>3. ASSUME NEW r \in Requests,
             refuseSession(r) \/ csrfDenied(r) \/ freshToken(r)
      PROVE TypeOK'
  <2>1. /\ req' \in [Requests -> Request]
        /\ req'[r].phase = "answered"
        /\ \A x \in Requests \ {r} : req'[x] = req[x]
    <3>1. req' = Answered(r, "none") \/ req' = Answered(r, "clear")
      BY <1>3 DEF refuseSession, csrfDenied, freshToken
    <3> QED
      BY <1>0, <3>1, AnsweredOnSession
  <2>2. UNCHANGED <<store, used, as, jar, ended, lost>>
    BY <1>3 DEF refuseSession, csrfDenied, freshToken
  <2> QED
    BY <1>t, <2>1, <2>2, TypeParts
<1>4. ASSUME NEW r \in Requests, requireSession(r) PROVE TypeOK'
  <2>1. req[r].sid \in Sids /\ store[req[r].sid] \in Gen
    BY <1>4, <1>t, SlotFacts DEF requireSession
  <2>2. /\ req' \in [Requests -> Request]
        /\ req'[r].gen \in Gen /\ req'[r].sid \in Sids
        /\ \A x \in Requests \ {r} : req'[x] = req[x]
    <3>1. req' = [req EXCEPT ![r].phase = "admitted",
                             ![r].gen = store[req[r].sid]]
      BY <1>4 DEF requireSession
    <3>2. "admitted" \in Phases
      BY DEF Phases
    <3> QED
      BY <2>1, <3>1, <3>2, MovedFacts
  <2> QED
    BY <1>4, <1>t, <2>2, TypeParts DEF requireSession
<1>5. ASSUME NEW r \in Requests, RefreshAccepted(r)
      PROVE  /\ req[r].sid \in Sids /\ req[r].gen \in Gen
             /\ NextGen(req[r].gen) \in Gen
             /\ as[req[r].sid].gen = req[r].gen
             /\ [as EXCEPT ![req[r].sid].gen = NextGen(@)]
                  \in [Sids -> [live : BOOLEAN, gen : Gen]]
  BY <1>5, <1>t, <1>w DEF RefreshAccepted, MayRefresh
<1>6. ASSUME NEW r \in Requests, refreshGranted(r) PROVE TypeOK'
  <2>1. /\ req' \in [Requests -> Request]
        /\ req'[r].gen \in Gen /\ req'[r].sid \in Sids
        /\ \A x \in Requests \ {r} : req'[x] = req[x]
    <3>1. req[r].gen \in Gen /\ NextGen(req[r].gen) \in Gen
          /\ req[r].sid \in Sids
      BY <1>5, <1>6 DEF refreshGranted
    <3>2. applyTokens(req[r].gen, IssuedToken(req[r].gen))
            = NextGen(req[r].gen)
      BY <3>1, GenFacts
    <3>3. req' = [req EXCEPT ![r].phase = "granted",
                             ![r].gen = NextGen(req[r].gen)]
      BY <1>6, <3>2 DEF refreshGranted
    <3>4. "granted" \in Phases
      BY DEF Phases
    <3> QED
      BY <3>1, <3>3, <3>4, MovedFacts
  <2>2. as' \in [Sids -> [live : BOOLEAN, gen : Gen]]
    BY <1>5, <1>6 DEF refreshGranted
  <2> QED
    BY <1>6, <1>t, <2>1, <2>2, TypeParts DEF refreshGranted
<1>7. ASSUME NEW r \in Requests, refreshAnswerLost(r) PROVE TypeOK'
  <2>1. as' \in [Sids -> [live : BOOLEAN, gen : Gen]] /\ lost' \subseteq Sids
    BY <1>5, <1>7, <1>t, ZenonT(60) DEF refreshAnswerLost
  <2>2. /\ req' \in [Requests -> Request]
        /\ req'[r].phase = "answered"
        /\ \A x \in Requests \ {r} : req'[x] = req[x]
    BY <1>0, <1>7, AnsweredOnSession DEF refreshAnswerLost
  <2> QED
    BY <1>7, <1>t, <2>1, <2>2, TypeParts DEF refreshAnswerLost
<1>8. ASSUME NEW r \in Requests, refreshRefused(r) PROVE TypeOK'
  <2>1. as' \in [Sids -> [live : BOOLEAN, gen : Gen]]
    BY <1>8, <1>t, ZenonT(60) DEF refreshRefused
  <2>2. /\ req' \in [Requests -> Request]
        /\ req'[r].phase = "answered"
        /\ \A x \in Requests \ {r} : req'[x] = req[x]
    BY <1>0, <1>8, AnsweredOnSession DEF refreshRefused
  <2> QED
    BY <1>8, <1>t, <2>1, <2>2, TypeParts DEF refreshRefused
<1>9. ASSUME NEW r \in Requests, PutSession(r) \/ PutSessionFails(r)
      PROVE TypeOK'
  <2>1. /\ req' \in [Requests -> Request]
        /\ req'[r].phase = "answered"
        /\ \A x \in Requests \ {r} : req'[x] = req[x]
    <3>1. req' = Answered(r, "none")
      BY <1>9 DEF PutSession, PutSessionFails
    <3> QED
      BY <1>0, <3>1, AnsweredOnSession
  <2>2. req[r].sid \in Sids /\ req[r].gen \in Gen
    BY <1>9, <1>w DEF PutSession, PutSessionFails
  <2>3. store' \in [Sids -> Gen \cup {Absent}] /\ lost' \subseteq Sids
    BY <1>9, <1>t, <2>2 DEF PutSession, PutSessionFails
  <2> QED
    BY <1>9, <1>t, <2>1, <2>3, TypeParts DEF PutSession, PutSessionFails
<1>10. ASSUME NEW r \in Requests, logoutRevoke(r) PROVE TypeOK'
  <2>1. as' \in [Sids -> [live : BOOLEAN, gen : Gen]]
    BY <1>10, <1>t, ZenonT(60) DEF logoutRevoke
  <2>2. /\ req' \in [Requests -> Request]
        /\ req'[r].gen = req[r].gen /\ req'[r].sid = req[r].sid
        /\ \A x \in Requests \ {r} : req'[x] = req[x]
    BY <1>10, SMTT(40) DEF TypeOK, logoutRevoke, Request, Phases
  <2>3. req[r].sid \in Sids /\ req[r].gen \in Gen
    BY <1>10, <1>w DEF logoutRevoke
  <2> QED
    BY <1>10, <1>t, <2>1, <2>2, <2>3, TypeParts DEF logoutRevoke
<1>11. ASSUME NEW r \in Requests, logoutDelete(r) PROVE TypeOK'
  <2>1. req[r].sid \in Sids
    BY <1>11, <1>w DEF logoutDelete
  <2>2. store' \in [Sids -> Gen \cup {Absent}] /\ ended' \subseteq Sids
    BY <1>11, <1>t, <2>1 DEF logoutDelete
  <2>3. /\ req' \in [Requests -> Request]
        /\ req'[r].phase = "answered"
        /\ \A x \in Requests \ {r} : req'[x] = req[x]
    BY <1>0, <1>11, AnsweredOnSession DEF logoutDelete
  <2> QED
    BY <1>11, <1>t, <2>2, <2>3, TypeParts DEF logoutDelete
<1>12. ASSUME NEW r \in Requests, Deliver(r) \/ Lose(r) PROVE TypeOK'
  <2>1. /\ req' \in [Requests -> Request]
        /\ req'[r].phase = "idle"
        /\ \A x \in Requests \ {r} : req'[x] = req[x]
    <3>1. req' = Idle(r)
      BY <1>12 DEF Deliver, Lose
    <3> QED
      BY <3>1, IdleFacts
  <2>2. jar' \in [Browsers -> Sids \cup {NoSid}]
    <3>1. CASE Lose(r)
      BY <1>t, <3>1 DEF Lose
    <3>2. CASE Deliver(r)
      BY <1>t, <3>2, SlotFacts DEF Deliver, CookieEffects
    <3> QED  BY <1>12, <3>1, <3>2
  <2> QED
    BY <1>12, <1>t, <2>1, <2>2, TypeParts DEF Deliver, Lose
<1>13. ASSUME NEW s \in Sids, Expire(s) PROVE TypeOK'
  BY <1>13 DEF TypeOK, Expire
<1>14. CASE UNCHANGED vars
  BY <1>14 DEF TypeOK, vars
<1> QED
  BY <1>1, <1>2, <1>3, <1>4, <1>6, <1>7, <1>8, <1>9, <1>10, <1>11,
     <1>12, <1>13, <1>14 DEF Next, Serve

\* The service starts well formed: an empty store, nothing in flight.
LEMMA TypeInit == Init => TypeOK
  BY GenFacts DEF Init, TypeOK, Request, Kinds, Phases, CookieEffects

\* The portal's session state is always well formed (TypeOK), a request past
\* requireSession always working on a snapshot it read.
THEOREM TypeCorrect == Spec => []TypeOK
  BY TypeInit, TypeStep, PTL DEF Spec

----------------------------------------------------------------------------
(* A session that is gone stays gone.                                      *)

\* What a step of request r does to the slots: the others are left alone, and
\* r works on a session after the step only if it did before, unless the step
\* is requireSession's.
LEMMA SlotStep ==
  ASSUME TypeOK, NEW r \in Requests, Serve(r) \/ Deliver(r) \/ Lose(r)
  PROVE  /\ \A x \in Requests \ {r} : req'[x] = req[x]
         /\ \A s \in Sids : WorksOn(r, s)' =>
              WorksOn(r, s) \/ (requireSession(r) /\ req[r].sid = s)
<1>0. "none" \in CookieEffects /\ "clear" \in CookieEffects
  BY DEF CookieEffects
<1>1. CASE req' = Answered(r, "none") \/ req' = Answered(r, "clear")
  BY <1>0, <1>1, AnsweredOnSession DEF WorksOn
<1>2. CASE req' = Idle(r)
  BY <1>2, IdleFacts DEF WorksOn
<1>3. CASE requireSession(r)
  BY <1>3 DEF requireSession, WorksOn, TypeOK, Request
<1>4. CASE refreshGranted(r)
  BY <1>4 DEF refreshGranted, RefreshAccepted, MayRefresh, WorksOn, TypeOK,
              Request
<1>5. CASE logoutRevoke(r)
  BY <1>5 DEF logoutRevoke, WorksOn, TypeOK, Request
<1> QED
  BY <1>1, <1>2, <1>3, <1>4, <1>5
     DEF Serve, refuseSession, csrfDenied, freshToken, refreshAnswerLost,
         refreshRefused, PutSession, PutSessionFails, logoutDelete, Deliver,
         Lose

\* The only writes to the store: a refresh stores the session it read, a
\* logout deletes the session it read.
LEMMA StoreStep ==
  ASSUME TypeOK, NEW r \in Requests, Serve(r) \/ Deliver(r) \/ Lose(r),
         NEW s \in Sids
  PROVE  /\ used' = used
         /\ store'[s] # store[s] => WorksOn(r, s)
<1>1. CASE PutSession(r)
  BY <1>1 DEF PutSession, WorksOn, TypeOK
<1>2. CASE logoutDelete(r)
  BY <1>2 DEF logoutDelete, WorksOn, TypeOK
<1>3. CASE store' = store /\ used' = used
  BY <1>3
<1> QED
  BY <1>1, <1>2, <1>3
     DEF Serve, refuseSession, csrfDenied, requireSession, freshToken,
         refreshGranted, refreshAnswerLost, refreshRefused, PutSessionFails,
         logoutRevoke, Deliver, Lose

\* No step brings a gone session back: a session is stored only by the sign-in
\* that mints its id or by a request that works on it.
LEMMA GoneStep ==
  ASSUME TypeOK, [Next]_vars, NEW s \in Sids, Gone(s)
  PROVE  Gone(s)'
<1>1. ASSUME NEW r \in Requests, NEW b \in Browsers, NEW t \in Sids,
             establishSession(r, b, t)
      PROVE Gone(s)'
  <2>1. t # s
    BY <1>1 DEF establishSession, Gone
  <2>2. s \in used' /\ store'[s] = Absent
    BY <1>1, <2>1 DEF establishSession, Gone, TypeOK
  <2>3. /\ req'[r].phase = "answered"
        /\ \A x \in Requests \ {r} : req'[x] = req[x]
    <3>1. "none" \in CookieEffects /\ "set" \in CookieEffects
      BY DEF CookieEffects
    <3> QED
      BY <1>1, <3>1, AnsweredFacts DEF establishSession
  <2>4. \A x \in Requests : ~WorksOn(x, s)'
    BY <2>3 DEF WorksOn, Gone
  <2> QED
    BY <2>2, <2>4 DEF Gone
<1>2. ASSUME NEW r \in Requests, NEW b \in Browsers, NEW k \in Kinds,
             NEW tok \in BOOLEAN, Send(r, b, k, tok)
      PROVE Gone(s)'
  BY <1>2 DEF Send, Gone, WorksOn, TypeOK
<1>3. ASSUME NEW r \in Requests, Serve(r) \/ Deliver(r) \/ Lose(r)
      PROVE Gone(s)'
  <2>1. ~WorksOn(r, s)
    BY DEF Gone
  <2>2. s \in used' /\ store'[s] = Absent
    BY <1>3, <2>1, StoreStep DEF Gone
  <2>3. ~(requireSession(r) /\ req[r].sid = s)
    BY DEF requireSession, Gone
  <2>4. \A x \in Requests : ~WorksOn(x, s)'
    BY <1>3, <2>1, <2>3, SlotStep DEF Gone, WorksOn
  <2> QED
    BY <2>2, <2>4 DEF Gone
<1>4. ASSUME NEW t \in Sids, Expire(t) PROVE Gone(s)'
  BY <1>4 DEF Expire, Gone, WorksOn, TypeOK
<1>5. CASE UNCHANGED vars
  BY <1>5 DEF vars, Gone, WorksOn
<1> QED
  BY <1>1, <1>2, <1>3, <1>4, <1>5 DEF Next

\* GoneStaysGone of every behaviour: once the store no longer answers a session
\* and no request works on a snapshot of it, no interleaving of sign-ins,
\* refreshes and sign-outs brings it back.
THEOREM GoneForGood == Spec => GoneStaysGone
<1>1. TypeOK /\ [Next]_vars
        => [\A s \in Sids : Gone(s) => Gone(s)']_vars
  BY GoneStep
<1> QED
  BY <1>1, TypeCorrect, PTL DEF Spec, GoneStaysGone

----------------------------------------------------------------------------
(* A sign-out that reached the Auth Service is final.                      *)

\* Session s is revoked and out of the store, and no refresh of it that was
\* granted before waits to be stored.  Requests may work on a snapshot of it.
RevokedAndOut(s) == /\ s \in used
                    /\ store[s] = Absent
                    /\ ~as[s].live
                    /\ \A r \in Requests : ~Holds(r, s)

\* A step of request r grants no refresh of such a session, so none of its
\* snapshots is written back.
LEMMA RevokedSlotStep ==
  ASSUME TypeOK, NEW s \in Sids, RevokedAndOut(s),
         NEW r \in Requests, Serve(r) \/ Deliver(r) \/ Lose(r)
  PROVE  RevokedAndOut(s)'
<1>1. \A x \in Requests \ {r} : req'[x] = req[x]
  BY SlotStep
<1>2. ~PutSession(r) \/ req[r].sid # s
  BY DEF PutSession, Holds, RevokedAndOut
<1>3. ~refreshGranted(r) \/ req[r].sid # s
  BY DEF refreshGranted, RefreshAccepted, RevokedAndOut
<1>4. store'[s] = Absent
  BY <1>2 DEF Serve, refuseSession, csrfDenied, requireSession, freshToken,
              refreshGranted, refreshAnswerLost, refreshRefused, PutSession,
              PutSessionFails, logoutRevoke, logoutDelete, Deliver, Lose,
              TypeOK, RevokedAndOut
<1>5. used' = used
  BY StoreStep
<1>6. ~as'[s].live
  <2>1. \/ as' = as
        \/ as' = [as EXCEPT ![req[r].sid].live = FALSE]
        \/ as' = [as EXCEPT ![req[r].sid].gen = NextGen(@)]
    BY DEF Serve, refuseSession, csrfDenied, requireSession, freshToken,
           refreshGranted, refreshAnswerLost, refreshRefused, PutSession,
           PutSessionFails, logoutRevoke, logoutDelete, Deliver, Lose
  <2>2. as \in [Sids -> [live : BOOLEAN, gen : Gen]] /\ as[s].live = FALSE
    BY DEF TypeOK, RevokedAndOut
  <2>3. CASE as' = [as EXCEPT ![req[r].sid].live = FALSE]
    BY <2>2, <2>3
  <2>4. CASE as' = [as EXCEPT ![req[r].sid].gen = NextGen(@)]
    BY <2>2, <2>4
  <2> QED
    BY <2>1, <2>2, <2>3, <2>4
<1>7. ~Holds(r, s)'
  <2>1. CASE req[r].sid # s
    BY <2>1, SlotStep DEF Holds, WorksOn, RevokedAndOut
  <2>2. CASE req[r].sid = s
    <3>1. \/ req' = Idle(r)
          \/ req' = Answered(r, "none") \/ req' = Answered(r, "clear")
          \/ requireSession(r) \/ logoutRevoke(r)
      BY <1>3, <2>2
         DEF Serve, refuseSession, csrfDenied, freshToken, refreshAnswerLost,
             refreshRefused, PutSession, PutSessionFails, logoutDelete,
             Deliver, Lose
    <3>2. CASE req' = Idle(r)
      BY <3>2, IdleFacts DEF Holds
    <3>3. CASE req' = Answered(r, "none") \/ req' = Answered(r, "clear")
      BY <3>3, AnsweredOnSession DEF Holds, CookieEffects
    <3>4. req \in [Requests -> Request]
      BY DEF TypeOK
    <3>5. CASE requireSession(r)
      BY <3>4, <3>5 DEF requireSession, Holds, Request
    <3>6. CASE logoutRevoke(r)
      BY <3>4, <3>6 DEF logoutRevoke, Holds, Request
    <3> QED
      BY <3>1, <3>2, <3>3, <3>5, <3>6
  <2> QED
    BY <2>1, <2>2
<1> QED
  BY <1>1, <1>4, <1>5, <1>6, <1>7 DEF RevokedAndOut, Holds

\* No step at all brings it back: a sign-in takes an id of its own.
LEMMA RevokedStep ==
  ASSUME TypeOK, [Next]_vars, NEW s \in Sids, RevokedAndOut(s)
  PROVE  RevokedAndOut(s)'
<1>1. ASSUME NEW r \in Requests, NEW b \in Browsers, NEW t \in Sids,
             establishSession(r, b, t)
      PROVE  RevokedAndOut(s)'
  <2>1. t # s
    BY <1>1 DEF establishSession, RevokedAndOut
  <2>2. s \in used' /\ store'[s] = Absent /\ ~as'[s].live
    BY <1>1, <2>1 DEF establishSession, RevokedAndOut, TypeOK
  <2>3. /\ req'[r].phase = "answered"
        /\ \A x \in Requests \ {r} : req'[x] = req[x]
    <3>1. "none" \in CookieEffects /\ "set" \in CookieEffects
      BY DEF CookieEffects
    <3> QED
      BY <1>1, <3>1, AnsweredFacts DEF establishSession
  <2> QED
    BY <2>2, <2>3 DEF RevokedAndOut, Holds
<1>2. ASSUME NEW r \in Requests, NEW b \in Browsers, NEW k \in Kinds,
             NEW tok \in BOOLEAN, Send(r, b, k, tok)
      PROVE  RevokedAndOut(s)'
  BY <1>2 DEF Send, RevokedAndOut, Holds, TypeOK
<1>3. ASSUME NEW r \in Requests, Serve(r) \/ Deliver(r) \/ Lose(r)
      PROVE  RevokedAndOut(s)'
  BY <1>3, RevokedSlotStep
<1>4. ASSUME NEW t \in Sids, Expire(t) PROVE RevokedAndOut(s)'
  BY <1>4 DEF Expire, RevokedAndOut, Holds, TypeOK
<1>5. CASE UNCHANGED vars
  BY <1>5 DEF vars, RevokedAndOut, Holds
<1> QED
  BY <1>1, <1>2, <1>3, <1>4, <1>5 DEF Next

\* A session that a sign-out has revoked and deleted stays out of the store,
\* whatever snapshots of it requests still work on: only a refresh the Auth
\* Service had granted before can write it back (logout, refresh, freshToken).
THEOREM RevokedForGood ==
  Spec => [][\A s \in Sids : RevokedAndOut(s) => RevokedAndOut(s)']_vars
<1>1. TypeOK /\ [Next]_vars
        => [\A s \in Sids : RevokedAndOut(s) => RevokedAndOut(s)']_vars
  BY RevokedStep
<1> QED
  BY <1>1, TypeCorrect, PTL DEF Spec

----------------------------------------------------------------------------
(* The stored refresh token is the newest one.                             *)

\* The inductive strengthening of QuietSessionIsCurrent, for one session.  No
\* copy of the refresh token is newer than the Auth Service's; whoever holds a
\* fresh answer holds the newest one, and with rotation everything else on
\* the session is older, so no second refresh can be accepted meanwhile.
Custody(s) ==
  /\ s \notin used => /\ store[s] = Absent
                      /\ \A r \in Requests : ~WorksOn(r, s)
  /\ store[s] <= as[s].gen
  /\ \A r \in Requests : WorksOn(r, s) => req[r].gen <= as[s].gen
  /\ \A r \in Requests : Holds(r, s) =>
       /\ req[r].gen = as[s].gen
       /\ Rotates => /\ store[s] < as[s].gen
                     /\ \A x \in Requests \ {r} :
                          WorksOn(x, s) => req[x].gen < as[s].gen
  /\ (store[s] # Absent /\ s \notin lost
        /\ \A r \in Requests : ~Holds(r, s)) => store[s] = as[s].gen

TokenCustody == \A s \in Sids : Custody(s)

\* The integers Custody compares.
LEMMA CustodyTypes ==
  ASSUME TypeOK, NEW s \in Sids
  PROVE  /\ store[s] \in Int /\ as[s].gen \in Nat /\ as[s].gen \in Gen
         /\ store[s] # Absent => store[s] \in Gen
         /\ \A r \in Requests : req[r].gen \in Int
         /\ Absent < as[s].gen
<1>1. store[s] \in Gen \cup {Absent} /\ as[s].gen \in Gen
  BY DEF TypeOK
<1>2. \A r \in Requests : req[r].gen \in Gen \cup {Absent}
  BY SlotFacts
<1>3. store[s] \in Int /\ as[s].gen \in Nat /\ Absent < as[s].gen
  BY <1>1, GenInts
<1>4. \A r \in Requests : req[r].gen \in Int
  BY <1>2, GenInts
<1> QED
  BY <1>1, <1>3, <1>4

\* Steps that issue no token for s and store none: request r may end, or
\* change phase on its snapshot, and the entry of s may vanish.
LEMMA CustodyQuiet ==
  ASSUME TypeOK, TypeOK', NEW s \in Sids, NEW r \in Requests, Custody(s),
         as'[s].gen = as[s].gen, used' = used, lost \subseteq lost',
         store'[s] = store[s] \/ store'[s] = Absent,
         \A x \in Requests \ {r} : req'[x] = req[x],
         WorksOn(r, s)' => WorksOn(r, s) /\ req'[r].gen = req[r].gen,
         Holds(r, s)' => Holds(r, s),
         Holds(r, s) => Holds(r, s)' \/ s \in lost'
  PROVE  Custody(s)'
<1>1. \A x \in Requests : WorksOn(x, s)' => WorksOn(x, s) /\ req'[x].gen = req[x].gen
  BY DEF WorksOn
<1>2. \A x \in Requests : Holds(x, s)' => Holds(x, s)
  BY DEF Holds
<1>3. \A x \in Requests : Holds(x, s) => Holds(x, s)' \/ s \in lost'
  BY DEF Holds
<1>4. \A x \in Requests : Holds(x, s) => WorksOn(x, s)
  BY DEF Holds, WorksOn
<1>5. \A x \in Requests : Holds(x, s)' => WorksOn(x, s)'
  BY DEF Holds, WorksOn
<1>6. /\ store[s] \in Int /\ as[s].gen \in Nat /\ Absent < as[s].gen
      /\ \A x \in Requests : req[x].gen \in Int
  BY CustodyTypes
<1>7. s \notin used' => /\ store'[s] = Absent
                       /\ \A x \in Requests : ~WorksOn(x, s)'
  BY <1>1 DEF Custody
<1>8. /\ store'[s] <= as'[s].gen
      /\ \A x \in Requests : WorksOn(x, s)' => req'[x].gen <= as'[s].gen
  <2>1. store'[s] <= as'[s].gen
    <3>1. store[s] <= as[s].gen
      BY DEF Custody
    <3>2. CASE store'[s] = store[s]
      BY <3>1, <3>2
    <3>3. CASE store'[s] = Absent
      <4>1. as'[s].gen \in Nat
        BY <1>6
      <4> QED
        BY <3>3, <4>1, GenInts
    <3> QED  BY <3>2, <3>3
  <2>2. ASSUME NEW x \in Requests, WorksOn(x, s)'
        PROVE  req'[x].gen <= as'[s].gen
    BY <1>1, <2>2 DEF Custody
  <2> QED
    BY <2>1, <2>2
<1>9. ASSUME NEW x \in Requests, Holds(x, s)'
      PROVE /\ req'[x].gen = as'[s].gen
            /\ Rotates => /\ store'[s] < as'[s].gen
                          /\ \A y \in Requests \ {x} :
                               WorksOn(y, s)' => req'[y].gen < as'[s].gen
  BY <1>1, <1>2, <1>4, <1>5, <1>6, <1>9 DEF Custody
<1>10. (store'[s] # Absent /\ s \notin lost'
         /\ \A x \in Requests : ~Holds(x, s)') => store'[s] = as'[s].gen
  BY <1>3 DEF Custody
<1> QED
  BY <1>7, <1>8, <1>9, <1>10 DEF Custody

\* requireSession's snapshot is a copy of the stored token.
LEMMA CustodyRequire ==
  ASSUME TypeOK, TypeOK', NEW s \in Sids, NEW r \in Requests, Custody(s),
         requireSession(r), req[r].sid = s
  PROVE  Custody(s)'
<1>1. UNCHANGED <<store, used, as, lost>>
  BY DEF requireSession
<1>2. /\ \A x \in Requests \ {r} : req'[x] = req[x]
      /\ req'[r].phase = "admitted" /\ req'[r].gen = store[s]
      /\ req[r].phase = "sent"
  BY DEF requireSession, TypeOK, Request
<1>3. /\ \A x \in Requests \ {r} : WorksOn(x, s)' <=> WorksOn(x, s)
      /\ \A x \in Requests : Holds(x, s)' <=> Holds(x, s)
      /\ ~Holds(r, s)
  BY <1>2 DEF WorksOn, Holds
<1>4. store[s] # Absent
  BY DEF requireSession
<1> QED
  BY <1>1, <1>2, <1>3, <1>4, CustodyTypes DEF Custody

\* A token newly issued for s goes to the one request that asked (granted), or
\* to nobody (s is then in lost).
LEMMA CustodyIssued ==
  ASSUME TypeOK, TypeOK', NEW s \in Sids, NEW r \in Requests, Custody(s),
         refreshGranted(r) \/ refreshAnswerLost(r), req[r].sid = s
  PROVE  Custody(s)'
<1>1. /\ RefreshAccepted(r)
      /\ store' = store /\ used' = used /\ lost \subseteq lost'
  BY DEF refreshGranted, refreshAnswerLost
<1>2. WorksOn(r, s) /\ ~Holds(r, s) /\ req[r].gen = as[s].gen
  BY <1>1 DEF RefreshAccepted, MayRefresh, WorksOn, Holds
<1>3. /\ as[s].gen \in Gen /\ as[s].gen \in Int /\ store[s] \in Int
      /\ \A x \in Requests : req[x].gen \in Int
  BY CustodyTypes, GenInts
<1>4. as'[s].gen = NextGen(as[s].gen)
  <2>1. as' = [as EXCEPT ![s].gen = NextGen(as[s].gen)]
    BY DEF refreshGranted, refreshAnswerLost
  <2> QED
    BY <2>1 DEF TypeOK
<1>5. /\ as'[s].gen \in Int
      /\ as[s].gen <= as'[s].gen
      /\ Rotates => as[s].gen < as'[s].gen
      /\ ~Rotates => as[s].gen = as'[s].gen
  <2>1. CASE Rotates
    <3>1. as'[s].gen = as[s].gen + 1
      BY <1>4, <2>1 DEF NextGen
    <3> HIDE <2>1
    <3> DEFINE o == as[s].gen
    <3>2. o \in Int
      BY <1>3
    <3> HIDE DEF o
    <3>3. o + 1 \in Int /\ o <= o + 1 /\ o < o + 1
      BY <3>2, Order
    <3> QED
      BY <2>1, <3>1, <3>3 DEF o
  <2>2. CASE ~Rotates
    BY <1>3, <1>4, <2>2, Order DEF NextGen
  <2> QED  BY <2>1, <2>2
<1>o. \A a \in Int : a <= as[s].gen =>
        a <= as'[s].gen /\ (Rotates => a < as'[s].gen)
  <2> DEFINE o == as[s].gen
             n == as'[s].gen
  <2>1. o \in Int /\ n \in Int /\ o <= n /\ (Rotates => o < n)
    BY <1>3, <1>5
  <2> HIDE DEF o, n
  <2>2. \A a \in Int : a <= o => a <= n /\ (Rotates => a < n)
    BY <2>1
  <2> QED
    BY <2>2 DEF o, n
<1>6. ASSUME Rotates, NEW x \in Requests, Holds(x, s) PROVE FALSE
  <2>1. x # r
    BY <1>2, <1>6
  <2>2. req[r].gen < as[s].gen
    BY <1>2, <1>6, <2>1 DEF Custody
  <2> QED
    BY <1>2, <1>3, <2>2, Order
<1>7. \A x \in Requests \ {r} :
        /\ req'[x] = req[x]
        /\ WorksOn(x, s)' <=> WorksOn(x, s)
        /\ Holds(x, s)' <=> Holds(x, s)
  BY SlotStep DEF Serve, WorksOn, Holds
<1>8. s \in used' /\ store'[s] <= as'[s].gen
  <2>1. s \in used /\ store[s] <= as[s].gen
    BY <1>2 DEF Custody
  <2> QED
    BY <1>1, <1>3, <1>o, <2>1
<1>9. ASSUME NEW x \in Requests \ {r}, WorksOn(x, s)'
      PROVE  /\ req'[x].gen <= as'[s].gen
             /\ Rotates => req'[x].gen < as'[s].gen
  <2>1. req[x].gen <= as[s].gen /\ req'[x].gen = req[x].gen
    BY <1>7, <1>9 DEF Custody
  <2> QED
    BY <1>3, <1>o, <2>1
<1>10. ASSUME NEW x \in Requests \ {r}, Holds(x, s)'
       PROVE  req'[x].gen = as'[s].gen /\ ~Rotates
  <2>1. req[x].gen = as[s].gen /\ ~Rotates
    BY <1>6, <1>7, <1>10 DEF Custody
  <2> QED
    BY <1>5, <1>7, <2>1
<1>11. Rotates => store'[s] < as'[s].gen
  <2>1. store[s] <= as[s].gen
    BY DEF Custody
  <2> QED
    BY <1>1, <1>3, <1>o, <2>1
<1>12. CASE refreshGranted(r)
  <2>1. Holds(r, s)' /\ WorksOn(r, s)' /\ req'[r].gen = as'[s].gen
    <3>1. applyTokens(req[r].gen, IssuedToken(req[r].gen))
            = NextGen(as[s].gen)
      BY <1>2, <1>3, GenFacts
    <3>2. /\ req'[r].phase = "granted" /\ req'[r].sid = s
          /\ req'[r].gen = NextGen(as[s].gen)
      BY <1>12, <3>1 DEF refreshGranted, TypeOK, Request
    <3> QED
      BY <1>4, <3>2 DEF Holds, WorksOn
  <2>2. \A x \in Requests : WorksOn(x, s)' => req'[x].gen <= as'[s].gen
    BY <1>5, <1>9, <2>1
  <2> QED
    BY <1>8, <1>9, <1>10, <1>11, <2>1, <2>2 DEF Custody
<1>13. CASE refreshAnswerLost(r)
  <2>1. ~WorksOn(r, s)' /\ ~Holds(r, s)' /\ s \in lost'
    <3>1. req' = Answered(r, "none") /\ "none" \in CookieEffects
      BY <1>13 DEF refreshAnswerLost, CookieEffects
    <3> QED
      BY <1>13, <3>1, AnsweredOnSession DEF refreshAnswerLost, WorksOn, Holds
  <2> QED
    BY <1>8, <1>9, <1>10, <2>1 DEF Custody
<1> QED
  BY <1>12, <1>13

\* What PutSession writes is the newest token.
LEMMA CustodyPut ==
  ASSUME TypeOK, TypeOK', NEW s \in Sids, NEW r \in Requests, Custody(s),
         PutSession(r), req[r].sid = s
  PROVE  Custody(s)'
<1>1. /\ used' = used /\ as' = as /\ lost' = lost
      /\ store'[s] = req[r].gen
  BY DEF PutSession, TypeOK
<1>2. Holds(r, s) /\ WorksOn(r, s)
  BY DEF PutSession, Holds, WorksOn
<1>3. req[r].gen = as[s].gen /\ s \in used
  BY <1>2 DEF Custody
<1>4. ASSUME Rotates, NEW x \in Requests \ {r}, Holds(x, s) PROVE FALSE
  <2>1. req[r].gen < as[s].gen
    BY <1>2, <1>4 DEF Custody
  <2> QED
    BY <1>3, <2>1, CustodyTypes, GenInts, Order
<1>5. /\ \A x \in Requests \ {r} :
           /\ req'[x] = req[x]
           /\ WorksOn(x, s)' <=> WorksOn(x, s)
           /\ Holds(x, s)' <=> Holds(x, s)
      /\ ~WorksOn(r, s)' /\ ~Holds(r, s)'
  <2>1. req' = Answered(r, "none") /\ "none" \in CookieEffects
    BY DEF PutSession, CookieEffects
  <2> QED
    BY <2>1, AnsweredOnSession DEF WorksOn, Holds
<1>6. store'[s] = as'[s].gen /\ store'[s] <= as'[s].gen
  BY <1>1, <1>3, CustodyTypes, GenInts, Order
<1>7. \A x \in Requests : WorksOn(x, s)' => req'[x].gen <= as'[s].gen
  BY <1>1, <1>5 DEF Custody
<1>8. ASSUME NEW x \in Requests, Holds(x, s)'
      PROVE  req'[x].gen = as'[s].gen /\ ~Rotates
  BY <1>1, <1>4, <1>5, <1>8 DEF Custody
<1> QED
  BY <1>1, <1>3, <1>6, <1>7, <1>8 DEF Custody

\* Ending a session at the Auth Service leaves the generations alone.
LEMMA EndedKeepsGen ==
  ASSUME TypeOK, NEW s \in Sids, NEW t,
         as' = as \/ as' = [as EXCEPT ![t].live = FALSE]
  PROVE  as'[s].gen = as[s].gen
<1>1. as \in [Sids -> [live : BOOLEAN, gen : Gen]]
  BY DEF TypeOK
<1>2. CASE as' = [as EXCEPT ![t].live = FALSE] /\ t = s
  BY <1>1, <1>2
<1>3. CASE as' = [as EXCEPT ![t].live = FALSE] /\ t # s
  BY <1>1, <1>3
<1> QED
  BY <1>2, <1>3

\* A sign-in starts its session with the Auth Service's first token.
LEMMA CustodyEstablish ==
  ASSUME TypeOK, TypeOK', NEW s \in Sids, Custody(s), NEW r \in Requests,
         NEW b \in Browsers, NEW t \in Sids, establishSession(r, b, t)
  PROVE  Custody(s)'
<1>1. /\ \A x \in Requests \ {r} : req'[x] = req[x]
      /\ req'[r].phase = "answered" /\ req[r].phase = "idle"
  <2>1. "none" \in CookieEffects /\ "set" \in CookieEffects
    BY DEF CookieEffects
  <2> QED
    BY <2>1, AnsweredFacts DEF establishSession
<1>2. \A x \in Requests : /\ WorksOn(x, s)' <=> WorksOn(x, s)
                          /\ Holds(x, s)' <=> Holds(x, s)
                          /\ Holds(x, s) => WorksOn(x, s)
                          /\ WorksOn(x, s) => req'[x] = req[x]
  BY <1>1 DEF WorksOn, Holds
<1>3. lost' = lost
  BY DEF establishSession
<1>4. CASE t = s
  <2>1. s \notin used /\ s \in used'
    BY <1>4 DEF establishSession
  <2>2. \A x \in Requests : ~WorksOn(x, s)' /\ ~Holds(x, s)'
    BY <1>2, <2>1 DEF Custody
  <2>3. as'[s].gen = 0 /\ store'[s] \in {0, Absent}
    BY <1>4 DEF establishSession, TypeOK
  <2>4. store'[s] <= as'[s].gen
    BY <2>3, GenInts
  <2> QED
    BY <2>1, <2>2, <2>3, <2>4 DEF Custody
<1>5. CASE t # s
  <2>1. /\ store'[s] = store[s] /\ as'[s] = as[s]
        /\ s \in used' <=> s \in used
    BY <1>5 DEF establishSession, TypeOK
  <2> QED
    BY <1>2, <1>3, <2>1 DEF Custody
<1> QED
  BY <1>4, <1>5

\* Custody is inductive: every step keeps each session's newest token with the
\* store or with the one request that was issued it.
LEMMA CustodyStep ==
  ASSUME TypeOK, TypeOK', TokenCustody, [Next]_vars, NEW s \in Sids
  PROVE  Custody(s)'
<1>0. Custody(s)
  BY DEF TokenCustody
<1>1. ASSUME NEW r \in Requests, NEW b \in Browsers, NEW t \in Sids,
             establishSession(r, b, t)
      PROVE  Custody(s)'
  BY <1>0, <1>1, CustodyEstablish
<1>2. ASSUME NEW r \in Requests, NEW b \in Browsers, NEW k \in Kinds,
             NEW tok \in BOOLEAN, Send(r, b, k, tok)
      PROVE  Custody(s)'
  <2>1. /\ \A x \in Requests \ {r} : req'[x] = req[x]
        /\ req'[r].phase = "sent" /\ req[r].phase = "idle"
        /\ UNCHANGED <<store, used, as, lost>>
    BY <1>2 DEF Send, TypeOK
  <2>2. ~WorksOn(r, s)' /\ ~Holds(r, s)' /\ ~Holds(r, s)
    BY <2>1 DEF WorksOn, Holds
  <2> QED
    BY <1>0, <2>1, <2>2, CustodyQuiet
<1>3. ASSUME NEW r \in Requests, Serve(r) \/ Deliver(r) \/ Lose(r)
      PROVE  Custody(s)'
  <2>1. CASE req[r].sid = s /\ requireSession(r)
    BY <1>0, <2>1, CustodyRequire
  <2>2. CASE req[r].sid = s /\ (refreshGranted(r) \/ refreshAnswerLost(r))
    BY <1>0, <2>2, CustodyIssued
  <2>3. CASE req[r].sid = s /\ PutSession(r)
    BY <1>0, <2>3, CustodyPut
  <2>4. CASE req[r].sid # s
    <3>1. ~WorksOn(r, s) /\ ~Holds(r, s)
      BY <2>4 DEF WorksOn, Holds
    <3>2. /\ \A x \in Requests \ {r} : req'[x] = req[x]
          /\ ~WorksOn(r, s)' /\ ~Holds(r, s)'
      BY <1>3, <2>4, <3>1, SlotStep DEF WorksOn, Holds
    <3>3. used' = used /\ store'[s] = store[s]
      BY <1>3, <3>1, StoreStep
    <3>4. as'[s].gen = as[s].gen /\ lost \subseteq lost'
      BY <1>3, <2>4
         DEF Serve, refuseSession, csrfDenied, requireSession, freshToken,
             refreshGranted, refreshAnswerLost, refreshRefused, PutSession,
             PutSessionFails, logoutRevoke, logoutDelete, Deliver, Lose,
             TypeOK
    <3> QED
      BY <1>0, <3>1, <3>2, <3>3, <3>4, CustodyQuiet
  <2>5. CASE \/ refuseSession(r) \/ csrfDenied(r) \/ freshToken(r)
             \/ refreshRefused(r) \/ logoutDelete(r) \/ Deliver(r) \/ Lose(r)
    <3>1. /\ used' = used /\ as'[s].gen = as[s].gen /\ lost' = lost
          /\ store'[s] = store[s] \/ store'[s] = Absent
          /\ req[r].phase # "granted"
      <4>1. as' = as \/ as' = [as EXCEPT ![req[r].sid].live = FALSE]
        BY <2>5 DEF refuseSession, csrfDenied, freshToken, refreshRefused,
                    logoutDelete, Deliver, Lose
      <4>2. as'[s].gen = as[s].gen
        BY <4>1, EndedKeepsGen
      <4>3. store'[s] = store[s] \/ store'[s] = Absent
        BY <2>5 DEF refuseSession, csrfDenied, freshToken, refreshRefused,
                    logoutDelete, Deliver, Lose, TypeOK
      <4>4. used' = used /\ lost' = lost /\ req[r].phase # "granted"
        BY <2>5 DEF refuseSession, csrfDenied, freshToken, refreshRefused,
                    MayRefresh, logoutDelete, Deliver, Lose
      <4> QED
        BY <4>2, <4>3, <4>4
    <3>2. /\ \A x \in Requests \ {r} : req'[x] = req[x]
          /\ req'[r].phase \in {"answered", "idle"}
      <4>1. "none" \in CookieEffects /\ "clear" \in CookieEffects
        BY DEF CookieEffects
      <4>2. req' \in {Answered(r, "none"), Answered(r, "clear"), Idle(r)}
        BY <2>5 DEF refuseSession, csrfDenied, freshToken, refreshRefused,
                    logoutDelete, Deliver, Lose
      <4>3. CASE req' = Idle(r)
        BY <4>3, IdleFacts
      <4>4. CASE req' = Answered(r, "none") \/ req' = Answered(r, "clear")
        BY <4>1, <4>4, AnsweredOnSession
      <4> QED
        BY <4>2, <4>3, <4>4
    <3>3. ~WorksOn(r, s)' /\ ~Holds(r, s)' /\ ~Holds(r, s)
      BY <3>1, <3>2 DEF WorksOn, Holds
    <3> QED
      BY <1>0, <3>1, <3>2, <3>3, CustodyQuiet
  <2>6. CASE PutSessionFails(r) /\ req[r].sid = s
    <3>1. /\ UNCHANGED <<used, as, store>> /\ lost' = lost \cup {s}
          /\ req' = Answered(r, "none") /\ "none" \in CookieEffects
      BY <2>6 DEF PutSessionFails, CookieEffects
    <3>2. /\ \A x \in Requests \ {r} : req'[x] = req[x]
          /\ ~WorksOn(r, s)' /\ ~Holds(r, s)'
      BY <3>1, AnsweredOnSession DEF WorksOn, Holds
    <3> QED
      BY <1>0, <3>1, <3>2, CustodyQuiet
  <2>7. CASE logoutRevoke(r)
    <3>0. as'[s].gen = as[s].gen
      BY <2>7, EndedKeepsGen DEF logoutRevoke
    <3>1. /\ UNCHANGED <<used, store, lost>>
          /\ \A x \in Requests \ {r} : req'[x] = req[x]
          /\ req[r].phase = "admitted" /\ req'[r].phase = "revoked"
          /\ req'[r].sid = req[r].sid /\ req'[r].gen = req[r].gen
      BY <2>7 DEF logoutRevoke, TypeOK, Request
    <3>2. /\ WorksOn(r, s)' => WorksOn(r, s) /\ req'[r].gen = req[r].gen
          /\ ~Holds(r, s)' /\ ~Holds(r, s)
      BY <3>1 DEF WorksOn, Holds
    <3> QED
      BY <1>0, <3>0, <3>1, <3>2, CustodyQuiet
  <2> QED
    BY <1>3, <2>1, <2>2, <2>3, <2>4, <2>5, <2>6, <2>7 DEF Serve
<1>4. ASSUME NEW t \in Sids, Expire(t) PROVE Custody(s)'
  <2>1. /\ UNCHANGED <<used, as, req, lost>>
        /\ store'[s] = store[s] \/ store'[s] = Absent
    BY <1>4 DEF Expire, TypeOK
  <2>2. CASE Requests = {}
    <3>1. as[s].gen \in Nat /\ store[s] <= as[s].gen
      BY <1>0, CustodyTypes DEF Custody
    <3>2. store'[s] <= as'[s].gen
      BY <2>1, <3>1, GenInts
    <3> QED
      BY <1>0, <2>1, <2>2, <3>2 DEF Custody
  <2>3. CASE Requests # {}
    <3>1. PICK r \in Requests : TRUE
      BY <2>3
    <3>2. /\ WorksOn(r, s)' <=> WorksOn(r, s)
          /\ Holds(r, s)' <=> Holds(r, s)
      BY <2>1 DEF WorksOn, Holds
    <3> QED
      BY <1>0, <2>1, <3>2, CustodyQuiet
  <2> QED  BY <2>2, <2>3
<1>5. CASE UNCHANGED vars
  BY <1>0, <1>5 DEF vars, Custody, WorksOn, Holds
<1> QED
  BY <1>1, <1>2, <1>3, <1>4, <1>5 DEF Next

\* At the start no session is stored and no token is out.
LEMMA CustodyInit == Init => TokenCustody
<1> SUFFICES ASSUME Init, NEW s \in Sids PROVE Custody(s)
  BY DEF TokenCustody
<1>1. store[s] = Absent /\ as[s].gen = 0
  BY DEF Init
<1>2. \A r \in Requests : ~WorksOn(r, s) /\ ~Holds(r, s)
  BY DEF Init, WorksOn, Holds
<1>3. store[s] <= as[s].gen
  BY <1>1, GenInts
<1> QED
  BY <1>1, <1>2, <1>3 DEF Custody

\* QuietSessionIsCurrent of every behaviour: whatever refreshes of one session
\* race, what PutSession leaves in the store is the Auth Service's newest
\* refresh token, unless an answer or a write was lost.
THEOREM StoredTokenIsNewest == Spec => []QuietSessionIsCurrent
<1>1. TypeOK /\ TypeOK' /\ TokenCustody /\ [Next]_vars => TokenCustody'
  BY CustodyStep DEF TokenCustody
<1>2. TokenCustody => QuietSessionIsCurrent
  BY DEF TokenCustody, Custody, QuietSessionIsCurrent
<1> QED
  BY <1>1, <1>2, CustodyInit, TypeCorrect, PTL DEF Spec
=============================================================================
