--------------------------- MODULE PortalSession ---------------------------
(***************************************************************************)
(* The life of a signed-in session of the portal BFF: the server-held      *)
(* entry (session/), the browser's session cookie (routes/cookies.go), the *)
(* requests that run on it (routes/middleware.go, routes/session.go) and   *)
(* the session's rotating refresh token at the Auth Service (external).    *)
(*                                                                         *)
(* Every request works on the SNAPSHOT of the session that requireSession  *)
(* read.  The Auth Service call and the write back to the store are steps  *)
(* of their own, so requests of several tabs interleave between them.      *)
(***************************************************************************)
EXTENDS Integers, FiniteSets

CONSTANTS Browsers,   \* browsers (one cookie jar each, shared by its tabs)
          Sids,       \* session ids RandomToken can mint
          NoSid,      \* no session cookie
          Requests,   \* slots for requests in flight
          MaxGen,     \* bound on the refresh-token rotations of one session
          Rotates     \* the Auth Service replaces the refresh token on use

ASSUME SidAssumption == NoSid \notin Sids
ASSUME GenAssumption == MaxGen \in Nat
ASSUME RotatesAssumption == Rotates \in BOOLEAN

VARIABLES
  store,   \* store[s]: refresh-token generation of the session GetSession would
           \* answer, or Absent; an entry of the memory store past its time is
           \* in the map until a restart, and is answered no more
  used,    \* session ids minted so far
  as,      \* as[s]: the session at the Auth Service: live, newest generation
  jar,     \* jar[b]: the session id in the browser's cookie, or NoSid
  req,     \* req[r]: the request in the slot
  ended,   \* history: sessions a logout has deleted from the store
  lost     \* history: sessions with a new token issued but never stored

vars == <<store, used, as, jar, req, ended, lost>>

----------------------------------------------------------------------------
(* Types and empty values.                                                 *)

Gen == 0..MaxGen
Absent == -1

Kinds == {"read", "write", "refresh", "logout"}
Phases == {"idle", "sent", "admitted", "granted", "revoked", "answered"}
CookieEffects == {"none", "set", "clear"}

Request == [phase : Phases, browser : Browsers, kind : Kinds,
            sid : Sids \cup {NoSid},     \* cookie sent; session read
            token : BOOLEAN,             \* echoes the anti-forgery token
            gen : Gen \cup {Absent},     \* refresh token of the snapshot
            effect : CookieEffects]      \* cookies the answer writes

\* The methods requireSession asks the anti-forgery token of.
stateChanging(kind) == kind # "read"

\* The slot's request is answered; of it only the cookies it writes matter.
AnsweredWith(r, b, eff, s) ==
  [req EXCEPT ![r] =
    [phase |-> "answered", browser |-> b, kind |-> "read", sid |-> s,
     token |-> FALSE, gen |-> Absent, effect |-> eff]]

\* A request on a session sets no cookie: its answer clears them or not.
Answered(r, eff) == AnsweredWith(r, req[r].browser, eff, NoSid)

\* Request r works on a snapshot of session s.
WorksOn(r, s) == /\ req[r].phase \in {"admitted", "granted", "revoked"}
                 /\ req[r].sid = s

\* Request r holds a refresh answer for s that is not stored yet.
Holds(r, s) == req[r].phase = "granted" /\ req[r].sid = s

----------------------------------------------------------------------------
(* The sign-in's last step: a session of its own id.                       *)

\* Faulty variant: the sign-in keeps a session id that was used before.
establishSessionKeepingId(r, b, s) ==
  /\ req[r].phase = "idle"
  /\ used' = used \cup {s}
  /\ as' = [as EXCEPT ![s] = [live |-> TRUE, gen |-> 0]]
  /\ store' = [store EXCEPT ![s] = 0]
  /\ req' = AnsweredWith(r, b, "set", s)
  /\ UNCHANGED <<jar, ended, lost>>

\* establishSession: the store is written first, the cookies only then.  A
\* failed write answers an error and leaves the new tokens unused.
establishSession(r, b, s) ==
  /\ req[r].phase = "idle"
  /\ s \notin used
  /\ used' = used \cup {s}
  /\ as' = [as EXCEPT ![s] = [live |-> TRUE, gen |-> 0]]
  /\ \E stored \in BOOLEAN :
       /\ store' = [store EXCEPT ![s] = IF stored THEN 0 ELSE Absent]
       /\ req' = IF stored THEN AnsweredWith(r, b, "set", s)
                            ELSE AnsweredWith(r, b, "none", NoSid)
  /\ UNCHANGED <<jar, ended, lost>>

----------------------------------------------------------------------------
(* A request on a session.                                                 *)

\* The browser sends a request with whatever session cookie it holds, and the
\* application's anti-forgery token or not.
Send(r, b, k, tok) ==
  /\ req[r].phase = "idle"
  /\ req' = [req EXCEPT ![r] =
              [phase |-> "sent", browser |-> b, kind |-> k, sid |-> jar[b],
               token |-> tok, gen |-> Absent, effect |-> "none"]]
  /\ UNCHANGED <<store, used, as, jar, ended, lost>>

\* Faulty variant: a request without a cookie is never answered.
refuseOnlyWithCookie(r) ==
  /\ req[r].phase = "sent" /\ req[r].sid # NoSid
  /\ req' = Answered(r, "clear")
  /\ UNCHANGED <<store, used, as, jar, ended, lost>>

\* requireSession without a usable session: no cookie, or GetSession failed
\* (no entry, or the store did not answer), which also clears the cookies.
refuseSession(r) ==
  /\ req[r].phase = "sent"
  /\ req' = Answered(r, IF req[r].sid = NoSid THEN "none" ELSE "clear")
  /\ UNCHANGED <<store, used, as, jar, ended, lost>>

\* requireSession on a live session, without its anti-forgery token.
csrfDenied(r) ==
  /\ req[r].phase = "sent"
  /\ req[r].sid # NoSid /\ store[req[r].sid] # Absent
  /\ stateChanging(req[r].kind) /\ ~req[r].token
  /\ req' = Answered(r, "none")
  /\ UNCHANGED <<store, used, as, jar, ended, lost>>

\* Faulty variant: an entry that is not found does not stop the request.
requireSessionOpen(r) ==
  /\ req[r].phase = "sent"
  /\ req[r].sid # NoSid
  /\ stateChanging(req[r].kind) => req[r].token
  /\ req' = [req EXCEPT ![r].phase = "admitted",
                        ![r].gen = store[req[r].sid]]
  /\ UNCHANGED <<store, used, as, jar, ended, lost>>

\* requireSession lets the request through with a snapshot of the session.
requireSession(r) ==
  /\ req[r].phase = "sent"
  /\ req[r].sid # NoSid /\ store[req[r].sid] # Absent
  /\ stateChanging(req[r].kind) => req[r].token
  /\ req' = [req EXCEPT ![r].phase = "admitted",
                        ![r].gen = store[req[r].sid]]
  /\ UNCHANGED <<store, used, as, jar, ended, lost>>

\* freshToken with an access token that is not near its expiry.
freshToken(r) ==
  /\ req[r].phase = "admitted" /\ req[r].kind \in {"read", "write"}
  /\ req' = Answered(r, "none")
  /\ UNCHANGED <<store, used, as, jar, ended, lost>>

\* Requests that may ask the Auth Service for new tokens: the refresh route
\* always, every other composed route when its access token is near expiry.
MayRefresh(r) == /\ req[r].phase = "admitted"
                 /\ req[r].kind \in {"read", "write", "refresh"}

\* The refresh token an answer carries, if any, and the one valid after it.
IssuedToken(g) == IF Rotates THEN g + 1 ELSE Absent
NextGen(g) == IF Rotates THEN g + 1 ELSE g

\* Faulty variant: the answer's refresh token is not taken over.
applyTokensAccessOnly(old, issued) == old

\* applyTokens: the refresh token is replaced when the answer carries one.
applyTokens(old, issued) == IF issued # Absent THEN issued ELSE old

\* Refresh answered with tokens: only the newest refresh token is accepted.
RefreshAccepted(r) ==
  LET s == req[r].sid IN
  /\ MayRefresh(r)
  /\ as[s].live /\ req[r].gen = as[s].gen
  /\ NextGen(as[s].gen) \in Gen

refreshGranted(r) ==
  LET s == req[r].sid IN
  /\ RefreshAccepted(r)
  /\ as' = [as EXCEPT ![s].gen = NextGen(@)]
  /\ req' = [req EXCEPT ![r].phase = "granted",
                        ![r].gen = applyTokens(@, IssuedToken(@))]
  /\ UNCHANGED <<store, used, jar, ended, lost>>

\* The Auth Service issued the tokens and its answer never arrived.
refreshAnswerLost(r) ==
  LET s == req[r].sid IN
  /\ RefreshAccepted(r)
  /\ as' = [as EXCEPT ![s].gen = NextGen(@)]
  /\ req' = Answered(r, "none")
  /\ lost' = lost \cup {s}
  /\ UNCHANGED <<store, used, jar, ended>>

\* A refusal or an outage.  The Auth Service may end the session when an
\* already replaced refresh token comes back.
refreshRefused(r) ==
  LET s == req[r].sid IN
  /\ MayRefresh(r)
  /\ \/ UNCHANGED as
     \/ req[r].gen # as[s].gen /\ as' = [as EXCEPT ![s].live = FALSE]
  /\ req' = Answered(r, "none")
  /\ UNCHANGED <<store, used, jar, ended, lost>>

\* applyTokens on the snapshot, then PutSession: an unconditional write.
PutSession(r) ==
  /\ req[r].phase = "granted"
  /\ store' = [store EXCEPT ![req[r].sid] = req[r].gen]
  /\ req' = Answered(r, "none")
  /\ UNCHANGED <<used, as, jar, ended, lost>>

\* PutSession failed: the new tokens are dropped with the request.
PutSessionFails(r) ==
  /\ req[r].phase = "granted"
  /\ req' = Answered(r, "none")
  /\ lost' = lost \cup {req[r].sid}
  /\ UNCHANGED <<store, used, as, jar, ended>>

\* logout, first half: Revoke at the Auth Service, best effort.
logoutRevoke(r) ==
  /\ req[r].phase = "admitted" /\ req[r].kind = "logout"
  /\ \/ UNCHANGED as
     \/ as' = [as EXCEPT ![req[r].sid].live = FALSE]
  /\ req' = [req EXCEPT ![r].phase = "revoked"]
  /\ UNCHANGED <<store, used, jar, ended, lost>>

\* logout, second half: DeleteSession, whose failure is ignored, and the
\* cookies cleared whatever came of it.
logoutDelete(r) ==
  LET s == req[r].sid IN
  /\ req[r].phase = "revoked"
  /\ req' = Answered(r, "clear")
  /\ \/ /\ store' = [store EXCEPT ![s] = Absent]
        /\ ended' = ended \cup {s}
     \/ UNCHANGED <<store, ended>>
  /\ UNCHANGED <<used, as, jar, lost>>

----------------------------------------------------------------------------
(* Answers, and the store's time limit.                                    *)

\* The slot as it is left once the answer is gone.
Idle(r) == [req EXCEPT ![r].phase = "idle", ![r].sid = NoSid,
                       ![r].effect = "none"]

\* The answer reaches the browser, in any order with other answers.
Deliver(r) ==
  /\ req[r].phase = "answered"
  /\ jar' = [jar EXCEPT ![req[r].browser] =
              CASE req[r].effect = "none" -> @
                [] req[r].effect = "set" -> req[r].sid
                [] req[r].effect = "clear" -> NoSid]
  /\ req' = Idle(r)
  /\ UNCHANGED <<store, used, as, ended, lost>>

\* The answer is lost on the way, its cookies with it.
Lose(r) ==
  /\ req[r].phase = "answered"
  /\ req' = Idle(r)
  /\ UNCHANGED <<store, used, as, jar, ended, lost>>

\* Faulty variant: a session written back by a refresh has no time limit.
ExpireFirstWriteOnly(s) ==
  /\ store[s] = 0
  /\ store' = [store EXCEPT ![s] = Absent]
  /\ UNCHANGED <<used, as, jar, req, ended, lost>>

\* The time limit PutSession gave the entry has passed: Redis drops it, and
\* memoryStore's GetSession no longer answers it, though it stays in the map.
Expire(s) ==
  /\ store[s] # Absent
  /\ store' = [store EXCEPT ![s] = Absent]
  /\ UNCHANGED <<used, as, jar, req, ended, lost>>

----------------------------------------------------------------------------
Init ==
  /\ store = [s \in Sids |-> Absent]
  /\ used = {}
  /\ as = [s \in Sids |-> [live |-> FALSE, gen |-> 0]]
  /\ jar = [b \in Browsers |-> NoSid]
  /\ \E b \in Browsers :
       req = [r \in Requests |->
               [phase |-> "idle", browser |-> b, kind |-> "read",
                sid |-> NoSid, token |-> FALSE, gen |-> Absent,
                effect |-> "none"]]
  /\ ended = {}
  /\ lost = {}

\* The steps the service takes on a request it has received.
Serve(r) ==
  \/ refuseSession(r) \/ csrfDenied(r) \/ requireSession(r)
  \/ freshToken(r)
  \/ refreshGranted(r) \/ refreshAnswerLost(r) \/ refreshRefused(r)
  \/ PutSession(r) \/ PutSessionFails(r)
  \/ logoutRevoke(r) \/ logoutDelete(r)

Next ==
  \/ \E r \in Requests, b \in Browsers :
       \/ \E s \in Sids : establishSession(r, b, s)
       \/ \E k \in Kinds, tok \in BOOLEAN : Send(r, b, k, tok)
  \/ \E r \in Requests : Serve(r) \/ Deliver(r) \/ Lose(r)
  \/ \E s \in Sids : Expire(s)

Spec == Init /\ [][Next]_vars

\* Every call a handler makes returns (the clients have time limits), every
\* answer arrives or is lost, and the time limit of every entry runs out, after
\* which neither backend answers it.
Fairness ==
  /\ \A r \in Requests : WF_vars(Serve(r)) /\ WF_vars(Deliver(r) \/ Lose(r))
  /\ \A s \in Sids : WF_vars(Expire(s))

FairSpec == Spec /\ Fairness

----------------------------------------------------------------------------
(* Properties.                                                             *)

\* Type invariant: session store, Auth Service sessions, cookie jars and
\* request slots hold what routes/session.go and session/ put in them, and a
\* request past requireSession has the snapshot of a session.
TypeOK ==
  /\ store \in [Sids -> Gen \cup {Absent}]
  /\ used \subseteq Sids
  /\ as \in [Sids -> [live : BOOLEAN, gen : Gen]]
  /\ jar \in [Browsers -> Sids \cup {NoSid}]
  /\ req \in [Requests -> Request]
  /\ ended \subseteq Sids
  /\ lost \subseteq Sids
  /\ \A r \in Requests :
       req[r].phase \in {"admitted", "granted", "revoked"} =>
         req[r].sid \in Sids /\ req[r].gen \in Gen

\* Outside a refresh that is still to be stored, the stored refresh token is
\* the newest one the Auth Service issued: refreshes of several tabs that race
\* on one snapshot never write an older token over a newer one
\* (routes/session.go refresh, freshToken, applyTokens).  Only a lost answer
\* or a failed write leaves the session with a token already replaced.
QuietSessionIsCurrent ==
  \A s \in Sids :
    store[s] # Absent /\ s \notin lost /\ (\A r \in Requests : ~Holds(r, s))
      => store[s] = as[s].gen

\* A session the store no longer answers, with no request left on a snapshot.
Gone(s) == /\ s \in used
           /\ store[s] = Absent
           /\ \A r \in Requests : ~WorksOn(r, s)

\* A session that is gone (expired or signed out, no request working on it)
\* is never answered again: requireSession fails closed, and no handler writes
\* a session it has not read.
GoneStaysGone == [][\A s \in Sids : Gone(s) => Gone(s)']_vars

\* No browser holds s in its cookie, no request carries it, and no answer is
\* about to hand it out.
Unheld(s) == /\ s \in used
             /\ \A b \in Browsers : jar[b] # s
             /\ \A r \in Requests : req[r].sid # s

\* A session no browser holds any more comes to be answered never again, also
\* when a refresh that raced the sign-out wrote it back with a new time limit
\* (PutSession's TTL).  Of its bytes this says nothing: Redis drops them then,
\* the memory store keeps them in its map until a restart.
UnheldSessionGoes == \A s \in Sids : Unheld(s) ~> []Gone(s)

\* A request, whatever it runs into, is answered and its slot is freed.
EveryRequestAnswered ==
  \A r \in Requests : req[r].phase # "idle" ~> req[r].phase = "idle"

\* "session-scoped, never logged, gone on logout/expiry" (session/session.go):
\* once a logout has deleted the session, the store never answers it again.
GoneOnLogout == \A s \in ended : store[s] = Absent

=============================================================================
