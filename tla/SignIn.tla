------------------------------ MODULE SignIn ------------------------------
(***************************************************************************)
(* Signing in: loginStart parks a flow in the session store under its      *)
(* state and the starting browser's binding, the person authenticates at   *)
(* the Auth Service (external), and loginCallback takes the flow, redeems  *)
(* the code and establishes the session (routes/session.go,                *)
(* routes/cookies.go, session/).                                           *)
(*                                                                         *)
(* Requests, answers and returns of several tabs and browsers interleave;  *)
(* a return may be repeated, come from another browser, or come late.      *)
(***************************************************************************)
EXTENDS Integers

CONSTANTS Browsers,     \* browsers, one cookie jar each
          States,       \* state tokens loginStart can mint
          None,         \* no binding cookie, no state
          Starts,       \* slots for loginStart requests in flight
          Returns,      \* slots for loginCallback requests in flight
          FlowTTL,      \* lifetime of a parked flow and of the binding cookie
          MaxTime       \* bound on the clock

ASSUME NoneAssumption == None \notin States \cup Browsers
ASSUME TimeAssumption == FlowTTL \in Nat /\ MaxTime \in Nat

VARIABLES
  now,         \* the clock
  cookie,      \* cookie[b]: the browser's binding and when it expires
  flows,       \* the parked flows, each under its FlowKey
  start,       \* start[t]: a loginStart request
  ret,         \* ret[c]: a loginCallback request
  auth,        \* auth[st]: the authentication at the Auth Service
  startedBy,   \* history: the browser that began sign-in st, and when
  told,        \* told[b]: sign-ins whose authorization URL reached b
  redeemed,    \* redeemed[st]: exchanges attempted with st's verifier
  sessions,    \* history: sessions established, and in which browser
  crowded      \* history: browsers with two first sign-ins starting at once

vars == <<now, cookie, flows, start, ret, auth, startedBy, told, redeemed,
          sessions, crowded>>

----------------------------------------------------------------------------
Time == 0..MaxTime
\* A parked flow is a record of its state, the binding it is parked under, when
\* it expires and when its sign-in started.  A binding is named after the
\* sign-in it was minted for.

NoCookie == [val |-> None, till |-> 0]
IdleStart == [phase |-> "idle", browser |-> None, binding |-> None,
              state |-> None]
IdleReturn == [phase |-> "idle", browser |-> None, binding |-> None,
               state |-> None, code |-> None, started |-> 0]

\* The binding value the browser sends: the cookie's, until it expires.
browserBinding(b) == IF now <= cookie[b].till THEN cookie[b].val ELSE None

----------------------------------------------------------------------------
(* Starting a sign-in.                                                     *)

\* A tab of browser b begins, perhaps while another tab's start is on its way;
\* when one of the two carries no binding, the browser is noted as crowded.
StartSend(t, b) ==
  /\ start[t].phase = "idle"
  /\ crowded' = IF \E u \in Starts : /\ start[u].browser = b
                                    /\ None \in {start[u].binding,
                                                 browserBinding(b)}
                THEN crowded \cup {b} ELSE crowded
  /\ start' = [start EXCEPT ![t] =
                [phase |-> "sent", browser |-> b,
                 binding |-> browserBinding(b), state |-> None]]
  /\ UNCHANGED <<now, cookie, flows, ret, auth, startedBy, told, redeemed,
                 sessions>>

\* Faulty variant: every sign-in gives its browser a new binding.
bindBrowserAlways(sent, st) == st

\* bindBrowser: a browser that sent a binding keeps it, another gets a new one.
bindBrowser(sent, st) == IF sent = None THEN st ELSE sent

\* loginStart mints the state and parks the flow; when the store fails, the
\* answer is an error, with or without the cookie set before it.
loginStart(t, st) ==
  LET bound == bindBrowser(start[t].binding, st)
      flow == [state |-> st, binding |-> bound, till |-> now + FlowTTL,
               started |-> now]
  IN
  /\ start[t].phase = "sent"
  /\ startedBy[st].browser = None
  /\ startedBy' = [startedBy EXCEPT ![st] = [browser |-> start[t].browser,
                                           at |-> now]]
  /\ \/ /\ flows' = flows \cup {flow}
        /\ start' = [start EXCEPT ![t].phase = "answered",
                                  ![t].binding = bound, ![t].state = st]
     \/ /\ UNCHANGED flows
        /\ \E set \in {bound, None} :
             start' = [start EXCEPT ![t].phase = "answered",
                                    ![t].binding = set]
  /\ UNCHANGED <<now, cookie, ret, auth, told, redeemed, sessions, crowded>>

\* The answer reaches the browser: the cookie is set for FlowTTL from now.
StartDeliver(t) ==
  LET b == start[t].browser IN
  /\ start[t].phase = "answered"
  /\ cookie' = IF start[t].binding = None THEN cookie
               ELSE [cookie EXCEPT ![b] = [val |-> start[t].binding,
                                           till |-> now + FlowTTL]]
  /\ told' = [told EXCEPT ![b] = IF start[t].state = None THEN @
                                 ELSE @ \cup {start[t].state}]
  /\ start' = [start EXCEPT ![t] = IdleStart]
  /\ UNCHANGED <<now, flows, ret, auth, startedBy, redeemed, sessions, crowded>>

StartLost(t) ==
  /\ start[t].phase = "answered"
  /\ start' = [start EXCEPT ![t] = IdleStart]
  /\ UNCHANGED <<now, cookie, flows, ret, auth, startedBy, told, redeemed,
                 sessions, crowded>>

----------------------------------------------------------------------------
(* The Auth Service (external).                                            *)

\* The person authenticates and a code is issued, possibly resting on an
\* authentication of an earlier time.
Authenticate(st, at) ==
  /\ \E b \in Browsers : st \in told[b]
  /\ ~auth[st].code
  /\ at <= now
  /\ auth' = [auth EXCEPT ![st] = [code |-> TRUE, at |-> at, spent |-> FALSE]]
  /\ UNCHANGED <<now, cookie, flows, start, ret, startedBy, told, redeemed,
                 sessions, crowded>>

----------------------------------------------------------------------------
(* Returning from the Auth Service.                                        *)

\* What a return can be: one with a code, an error of the Auth Service, an
\* answer of another issuer, or one without its parameters.
Asks == {"code", "error", "foreign", "empty"}

\* A return in progress: the browser and binding it came with.
Arrived(b, st, code) ==
  [phase |-> "taken", browser |-> b, binding |-> browserBinding(b),
   state |-> st, code |-> code, started |-> 0]

\* loginCallback's redirects before the flow is looked up: nothing is touched.
loginCallbackRefused(b, asks) ==
  /\ asks # "code" \/ browserBinding(b) = None
  /\ UNCHANGED vars

\* Faulty variant: a flow is parked under its state alone.
FlowKeyStateOnly(f, st, binding) == f.state = st

\* FlowKey: the parked flow a state and a binding name together.
FlowKey(f, st, binding) == f.state = st /\ f.binding = binding

\* Faulty variant: the flow is taken by its state, the binding compared after.
TakeFlowByState(st, binding) ==
  [gone |-> {f \in flows : f.state = st},
   live |-> {f \in flows : FlowKey(f, st, binding) /\ now <= f.till}]

\* Faulty variant: the flow is read and left in the store.
TakeFlowKept(st, binding) ==
  [gone |-> {},
   live |-> {f \in flows : FlowKey(f, st, binding) /\ now <= f.till}]

\* TakeFlow removes the flow of the key and answers it unless it has expired.
TakeFlow(st, binding) ==
  [gone |-> {f \in flows : FlowKey(f, st, binding)},
   live |-> {f \in flows : FlowKey(f, st, binding) /\ now <= f.till}]

\* A browser follows a return URL: its own, a repeated one, or one meant for
\* another browser; the code may be another sign-in's.  loginCallback goes on
\* with the flow it took; it redirects when there is none or it has expired,
\* when the store fails, before or after it removed the flow, and when the
\* flow's key cannot be read.
loginCallback(c, b, st, code) ==
  LET taken == TakeFlow(st, browserBinding(b)) IN
  /\ ret[c].phase = "idle"
  /\ startedBy[st].browser # None /\ auth[code].code
  /\ browserBinding(b) # None
  /\ \/ /\ flows' = flows \ taken.gone
        /\ \/ \E f \in taken.live :
                ret' = [ret EXCEPT ![c] = [Arrived(b, st, code)
                                             EXCEPT !.started = f.started]]
           \/ /\ taken.live # {}
              /\ ret' = [ret EXCEPT ![c] = [Arrived(b, st, None)
                                             EXCEPT !.phase = "redirected"]]
           \/ taken.live = {} /\ UNCHANGED ret
     \/ UNCHANGED <<flows, ret>>
  /\ UNCHANGED <<now, cookie, start, auth, startedBy, told, redeemed,
                 sessions, crowded>>

\* The redirect of a return whose flow is lost has been answered.
FinishReturn(c) ==
  /\ ret[c].phase = "redirected"
  /\ ret' = [ret EXCEPT ![c] = IdleReturn]
  /\ UNCHANGED <<now, cookie, flows, start, auth, startedBy, told, redeemed,
                 sessions, crowded>>

\* Faulty variant: the age of the authentication is not looked at.
idTokenProvesAnyAge(c) ==
  LET code == ret[c].code IN code = ret[c].state /\ ~auth[code].spent

\* What ExchangeSignIn requires: an unspent code of this sign-in (its proof
\* key and nonce), resting on an authentication since the sign-in began.
idTokenProves(c) ==
  LET code == ret[c].code IN
  code = ret[c].state /\ ~auth[code].spent /\ auth[code].at >= ret[c].started

\* exchangeFlow: redeems the code, with the flow's verifier and nonce.  The
\* Auth Service takes a code once, and the call may fail on its own.
exchangeFlow(c) ==
  /\ ret[c].phase = "taken"
  /\ redeemed' = [redeemed EXCEPT ![ret[c].state] = @ + 1]
  /\ auth' = [auth EXCEPT ![ret[c].code].spent = TRUE]
  /\ \/ idTokenProves(c) /\ ret' = [ret EXCEPT ![c].phase = "exchanged"]
     \/ ret' = [ret EXCEPT ![c] = IdleReturn]
  /\ UNCHANGED <<now, cookie, flows, start, startedBy, told, sessions, crowded>>

\* establishSession, and the answer that signs the browser in; or a failure of
\* the store, after the flow and the code are spent.
establishSession(c) ==
  /\ ret[c].phase = "exchanged"
  /\ \/ sessions' = sessions \cup {[state |-> ret[c].state,
                                    browser |-> ret[c].browser]}
     \/ UNCHANGED sessions
  /\ ret' = [ret EXCEPT ![c] = IdleReturn]
  /\ UNCHANGED <<now, cookie, flows, start, auth, startedBy, told, redeemed,
                 crowded>>

----------------------------------------------------------------------------
\* The store drops a flow whose time limit has passed.
ExpireFlow(f) ==
  /\ now > f.till
  /\ flows' = flows \ {f}
  /\ UNCHANGED <<now, cookie, start, ret, auth, startedBy, told, redeemed,
                 sessions, crowded>>

Tick ==
  /\ now < MaxTime
  /\ now' = now + 1
  /\ UNCHANGED <<cookie, flows, start, ret, auth, startedBy, told, redeemed,
                 sessions, crowded>>

Init ==
  /\ now = 0
  /\ cookie = [b \in Browsers |-> NoCookie]
  /\ flows = {}
  /\ start = [t \in Starts |-> IdleStart]
  /\ ret = [c \in Returns |-> IdleReturn]
  /\ auth = [st \in States |-> [code |-> FALSE, at |-> 0, spent |-> FALSE]]
  /\ startedBy = [st \in States |-> [browser |-> None, at |-> 0]]
  /\ told = [b \in Browsers |-> {}]
  /\ redeemed = [st \in States |-> 0]
  /\ sessions = {}
  /\ crowded = {}

Next ==
  \/ \E t \in Starts :
       \/ \E b \in Browsers : StartSend(t, b)
       \/ \E st \in States : loginStart(t, st)
       \/ StartDeliver(t)
       \/ StartLost(t)
  \/ \E st \in States, at \in Time : Authenticate(st, at)
  \/ \E b \in Browsers, asks \in Asks : loginCallbackRefused(b, asks)
  \/ \E c \in Returns :
       \/ \E b \in Browsers, st, code \in States : loginCallback(c, b, st, code)
       \/ FinishReturn(c)
       \/ exchangeFlow(c)
       \/ establishSession(c)
  \/ \E f \in flows : ExpireFlow(f)
  \/ Tick

Spec == Init /\ [][Next]_vars

----------------------------------------------------------------------------
(* Properties.                                                             *)

\* A session is only established in the browser that began its sign-in, from
\* whichever browser the return comes (the sign-in cookie and FlowKey).
SignedInWhereStarted ==
  \A x \in sessions : startedBy[x.state].browser = x.browser

\* A flow, with its verifier and nonce, goes into one exchange at most, however
\* often and from wherever its return is repeated (TakeFlow "single use").  A
\* code is another matter: one put into the return of another sign-in is
\* presented there too, and it is the Auth Service that takes a code once.
ExchangedOnce == \A st \in States : redeemed[st] <= 1

\* A session rests on an authentication no earlier than the moment its sign-in
\* began (freshOnly, IDTokenCheck.Started).
FreshSignIn ==
  \A x \in sessions : auth[x.state].at >= startedBy[x.state].at

\* A live parked flow leaves the store only at a return of its own state that
\* came with its own binding, from the browser that began it: the return goes
\* on with the flow, or is redirected and the flow is lost with it.  Every other
\* return, whoever sends it, leaves the flow parked.
ParkedForItsBrowser ==
  [][\A f \in flows : f \notin flows' =>
       \/ now > f.till
       \/ \E c \in Returns : /\ ret[c].phase = "idle"
                             /\ ret'[c].phase \in {"taken", "redirected"}
                             /\ ret'[c].state = f.state
                             /\ ret'[c].binding = f.binding
                             /\ ret'[c].browser = startedBy[f.state].browser]_vars

\* "A browser already holding one keeps it, so two sign-ins started in two tabs
\* both finish" (routes/cookies.go, bindBrowser): while a sign-in the browser
\* was told of is parked and live, the browser holds the binding it is parked
\* under.  Tabs of a browser without a binding that start at the same moment
\* are the exception: each is given a binding, and the last answer's stays.
TwoTabsBothFinish ==
  \A b \in Browsers \ crowded : \A f \in flows :
    f.state \in told[b] /\ now <= f.till => browserBinding(b) = f.binding

=============================================================================
