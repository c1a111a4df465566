---------------------------- MODULE SignInProofs ----------------------------
(***************************************************************************)
(* What TLAPS proves of SignIn, for any number of browsers, sign-ins and   *)
(* requests in flight, and any lifetime of the flow and its cookie.        *)
(***************************************************************************)
EXTENDS SignIn, TLAPS

----------------------------------------------------------------------------
(* The types.                                                              *)

Flow == [state : States, binding : States, till : Nat, started : Nat]
Start == [phase : {"idle", "sent", "answered"}, browser : Browsers \cup {None},
          binding : States \cup {None}, state : States \cup {None}]
Return == [phase : {"idle", "taken", "exchanged", "redirected"},
           browser : Browsers \cup {None}, binding : States \cup {None},
           state : States \cup {None}, code : States \cup {None},
           started : Nat]

\* A return that goes on with the flow it took.
Running(c) == ret[c].phase \in {"taken", "exchanged"}

\* A return past TakeFlow knows its browser and its sign-in, and its code
\* unless it is redirected.
Placed == \A c \in Returns :
  /\ ret[c].phase # "idle" =>
       ret[c].browser \in Browsers /\ ret[c].state \in States
  /\ Running(c) => ret[c].code \in States

\* The variables are well formed; a start on its way knows its browser.
Types ==
  /\ now \in Nat
  /\ cookie \in [Browsers -> [val : States \cup {None}, till : Nat]]
  /\ flows \subseteq Flow
  /\ start \in [Starts -> Start]
  /\ \A t \in Starts : start[t].phase # "idle" => start[t].browser \in Browsers
  /\ ret \in [Returns -> Return]
  /\ Placed
  /\ auth \in [States -> [code : BOOLEAN, at : Nat, spent : BOOLEAN]]
  /\ startedBy \in [States -> [browser : Browsers \cup {None}, at : Nat]]
  /\ redeemed \in [States -> Nat]
  /\ sessions \subseteq [state : States, browser : Browsers]

----------------------------------------------------------------------------
(* The invariant.                                                          *)

\* Binding v is browser b's: the sign-in it was minted for began there.
BindingOf(v, b) ==
  v \in States /\ b \in Browsers /\ startedBy[v].browser = b

\* A browser only ever holds and sends bindings of its own.
CookiesOwned == \A b \in Browsers :
  cookie[b].val # None => BindingOf(cookie[b].val, b)
StartsOwned == \A t \in Starts :
  start[t].binding # None => BindingOf(start[t].binding, start[t].browser)

\* A flow is parked under a binding of the browser its sign-in began in, and
\* keeps when that was.
FlowOwned(f) ==
  /\ startedBy[f.state].browser \in Browsers
  /\ BindingOf(f.binding, startedBy[f.state].browser)
  /\ f.started = startedBy[f.state].at

\* A return that goes on is in the browser its sign-in began in; one whose
\* code was redeemed rests on an authentication since then.
ReturnOwned(c) ==
  Running(c) =>
    /\ startedBy[ret[c].state].browser = ret[c].browser
    /\ ret[c].started = startedBy[ret[c].state].at
    /\ auth[ret[c].code].code
    /\ ret[c].phase = "exchanged" =>
         /\ ret[c].code = ret[c].state
         /\ auth[ret[c].state].at >= startedBy[ret[c].state].at

SessionOwned(x) ==
  /\ startedBy[x.state].browser = x.browser
  /\ auth[x.state].code
  /\ auth[x.state].at >= startedBy[x.state].at

Owned == /\ CookiesOwned /\ StartsOwned
         /\ \A f \in flows : FlowOwned(f)
         /\ \A c \in Returns : ReturnOwned(c)
         /\ \A x \in sessions : SessionOwned(x)

\* A sign-in is in one place: parked once, or taken by one return, or redeemed
\* once, or not begun.
ParkedOnce == \A f, g \in flows : f.state = g.state => f = g
TakenOnce == \A c, d \in Returns :
  ret[c].phase = "taken" /\ ret[d].phase = "taken"
    /\ ret[c].state = ret[d].state => c = d
Unspent(st) == redeemed[st] = 0 /\ startedBy[st].browser # None
ParkedUnspent == \A f \in flows :
  /\ Unspent(f.state)
  /\ \A c \in Returns : ret[c].phase = "taken" => ret[c].state # f.state
TakenUnspent == \A c \in Returns : ret[c].phase = "taken" => Unspent(ret[c].state)
RedeemedOnce == \A st \in States :
  redeemed[st] <= 1 /\ (startedBy[st].browser = None => redeemed[st] = 0)

Single == ParkedOnce /\ TakenOnce /\ ParkedUnspent /\ TakenUnspent /\ RedeemedOnce

----------------------------------------------------------------------------
(* Facts of the operators.                                                 *)

\* A browser sends its own binding, or none.
LEMMA BindingFacts ==
  ASSUME Types, NEW b \in Browsers
  PROVE  /\ browserBinding(b) \in States \cup {None}
         /\ browserBinding(b) # None => browserBinding(b) = cookie[b].val
  BY DEF Types, browserBinding

\* The idle slots.
LEMMA IdleFacts == /\ IdleStart \in Start /\ IdleStart.phase = "idle"
                   /\ IdleStart.binding = None
                   /\ IdleReturn \in Return /\ IdleReturn.phase = "idle"
  BY DEF IdleStart, IdleReturn, Start, Return

\* A slot for returns takes another value, and the others stay.
LEMMA ReturnSet ==
  ASSUME Types, NEW c \in Returns, NEW q \in Return
  PROVE  /\ [ret EXCEPT ![c] = q] \in [Returns -> Return]
         /\ [ret EXCEPT ![c] = q][c] = q
         /\ \A x \in Returns \ {c} : [ret EXCEPT ![c] = q][x] = ret[x]
  BY DEF Types

\* A slot for starts takes another value, and the others stay.
LEMMA StartSet ==
  ASSUME Types, NEW t \in Starts, NEW q \in Start
  PROVE  /\ [start EXCEPT ![t] = q] \in [Starts -> Start]
         /\ [start EXCEPT ![t] = q][t] = q
         /\ \A x \in Starts \ {t} : [start EXCEPT ![t] = q][x] = start[x]
  BY DEF Types

\* What StartSend makes of its slot.
LEMMA SendFacts ==
  ASSUME Types, NEW t \in Starts, NEW b \in Browsers, StartSend(t, b)
  PROVE  \E q \in Start :
           /\ start' = [start EXCEPT ![t] = q]
           /\ q.phase = "sent" /\ q.browser = b
           /\ q.binding = browserBinding(b)
<1> DEFINE q == [phase |-> "sent", browser |-> b,
                 binding |-> browserBinding(b), state |-> None]
<1>1. q \in Start
  BY BindingFacts DEF Start
<1> QED
  BY <1>1 DEF StartSend

\* What loginStart makes of its slot and of the store.
LEMMA LoginStartFacts ==
  ASSUME Types, NEW t \in Starts, NEW st \in States, loginStart(t, st)
  PROVE  \E q \in Start, bound \in States, f \in Flow :
           /\ bound = st \/ bound = start[t].binding
           /\ start' = [start EXCEPT ![t] = q]
           /\ q.phase = "answered" /\ q.browser = start[t].browser
           /\ q.binding \in {bound, None}
           /\ f.state = st /\ f.binding = bound /\ f.started = now
           /\ flows' = flows \/ flows' = flows \cup {f}
<1> DEFINE bound == bindBrowser(start[t].binding, st)
           f == [state |-> st, binding |-> bound, till |-> now + FlowTTL,
                 started |-> now]
<1>1. start[t] \in Start /\ now \in Nat
  BY DEF Types
<1>2. bound \in States /\ (bound = st \/ bound = start[t].binding)
  BY <1>1 DEF bindBrowser, Start
<1>3. f \in Flow
  BY <1>1, <1>2, TimeAssumption DEF Flow
<1>4. \E q \in Start :
        /\ start' = [start EXCEPT ![t] = q]
        /\ q.phase = "answered" /\ q.browser = start[t].browser
        /\ q.binding \in {bound, None}
  <2> HIDE DEF bound
  <2>1. CASE start' = [start EXCEPT ![t].phase = "answered",
                                    ![t].binding = bound, ![t].state = st]
    <3> DEFINE q == [start[t] EXCEPT !.phase = "answered",
                                     !.binding = bound, !.state = st]
    <3>1. start' = [start EXCEPT ![t] = q]
      BY <2>1 DEF Types
    <3>2. /\ q \in Start /\ q.phase = "answered" /\ q.browser = start[t].browser
          /\ q.binding = bound
      BY <1>1, <1>2 DEF Start
    <3> QED
      BY <3>1, <3>2
  <2>2. ASSUME NEW set \in {bound, None},
               start' = [start EXCEPT ![t].phase = "answered",
                                      ![t].binding = set]
        PROVE  \E q \in Start :
                 /\ start' = [start EXCEPT ![t] = q]
                 /\ q.phase = "answered" /\ q.browser = start[t].browser
                 /\ q.binding \in {bound, None}
    <3> DEFINE q == [start[t] EXCEPT !.phase = "answered", !.binding = set]
    <3>1. start' = [start EXCEPT ![t] = q]
      BY <2>2 DEF Types
    <3>2. /\ q \in Start /\ q.phase = "answered" /\ q.browser = start[t].browser
          /\ q.binding = set
      BY <1>1, <1>2, <2>2 DEF Start
    <3> QED
      BY <2>2, <3>1, <3>2
  <2> QED
    BY <2>1, <2>2 DEF loginStart, bound
<1>5. flows' = flows \/ flows' = flows \cup {f}
  BY DEF loginStart
<1> QED
  BY <1>2, <1>3, <1>4, <1>5

\* What TakeFlow finds for a browser's return, and what the return becomes.
LEMMA CallbackFacts ==
  ASSUME Types, NEW c \in Returns, NEW b \in Browsers, NEW st \in States,
         NEW code \in States, loginCallback(c, b, st, code)
  PROVE  /\ browserBinding(b) # None /\ flows' \subseteq flows
         /\ \A f \in flows \ flows' : FlowKey(f, st, browserBinding(b))
         /\ \/ ret' = ret /\ \A f \in flows \ flows' : now > f.till
            \/ \E q \in Return :
                 /\ ret' = [ret EXCEPT ![c] = q]
                 /\ q.phase = "redirected" /\ q.browser = b /\ q.state = st
                 /\ q.binding = browserBinding(b)
            \/ \E q \in Return, f \in flows :
                 /\ FlowKey(f, st, browserBinding(b))
                 /\ \A g \in flows' : ~FlowKey(g, st, browserBinding(b))
                 /\ ret' = [ret EXCEPT ![c] = q]
                 /\ q.phase = "taken" /\ q.browser = b /\ q.state = st
                 /\ q.code = code /\ q.binding = browserBinding(b)
                 /\ q.started = f.started
<1> DEFINE gone == {f \in flows : FlowKey(f, st, browserBinding(b))}
           live == {f \in flows : /\ FlowKey(f, st, browserBinding(b))
                                  /\ now <= f.till}
<1>1. TakeFlow(st, browserBinding(b)) = [gone |-> gone, live |-> live]
  BY DEF TakeFlow
<1>2. /\ browserBinding(b) # None
      /\ \/ UNCHANGED <<flows, ret>>
         \/ /\ flows' = flows \ gone
            /\ \/ \E f \in live :
                    ret' = [ret EXCEPT ![c] = [Arrived(b, st, code)
                                                 EXCEPT !.started = f.started]]
               \/ ret' = [ret EXCEPT ![c] = [Arrived(b, st, None)
                                               EXCEPT !.phase = "redirected"]]
               \/ live = {} /\ ret' = ret
  BY <1>1 DEF loginCallback
<1>3. CASE flows' = flows \ gone /\ live = {} /\ ret' = ret
  <2>1. ASSUME NEW f \in flows, FlowKey(f, st, browserBinding(b))
        PROVE  now > f.till
    <3>1. ~(now <= f.till)
      BY <1>3, <2>1
    <3> QED
      BY <3>1 DEF Types, Flow
  <2> QED
    BY <1>2, <1>3, <2>1
<1>4. ASSUME flows' = flows \ gone, NEW f \in live,
             ret' = [ret EXCEPT ![c] = [Arrived(b, st, code)
                                          EXCEPT !.started = f.started]]
      PROVE  /\ \A g \in flows' : ~FlowKey(g, st, browserBinding(b))
             /\ \E q \in Return :
                 /\ FlowKey(f, st, browserBinding(b))
                 /\ ret' = [ret EXCEPT ![c] = q]
                 /\ q.phase = "taken" /\ q.browser = b /\ q.state = st
                 /\ q.code = code /\ q.binding = browserBinding(b)
                 /\ q.started = f.started
  <2> DEFINE q == [Arrived(b, st, code) EXCEPT !.started = f.started]
  <2>1. /\ q \in Return
        /\ q.phase = "taken" /\ q.browser = b /\ q.state = st
        /\ q.code = code /\ q.binding = browserBinding(b)
        /\ q.started = f.started
    BY BindingFacts DEF Arrived, Return, Types, Flow
  <2> QED
    BY <1>4, <2>1
<1>5. ASSUME ret' = [ret EXCEPT ![c] = [Arrived(b, st, None)
                                          EXCEPT !.phase = "redirected"]]
      PROVE  \E q \in Return :
                 /\ ret' = [ret EXCEPT ![c] = q]
                 /\ q.phase = "redirected" /\ q.browser = b /\ q.state = st
                 /\ q.binding = browserBinding(b)
  <2> DEFINE q == [Arrived(b, st, None) EXCEPT !.phase = "redirected"]
  <2>1. /\ q \in Return
        /\ q.phase = "redirected" /\ q.browser = b /\ q.state = st
        /\ q.binding = browserBinding(b)
    BY BindingFacts DEF Arrived, Return, Types
  <2> QED
    BY <1>5, <2>1
<1>6. /\ flows' \subseteq flows
      /\ \A f \in flows \ flows' : FlowKey(f, st, browserBinding(b))
  BY <1>2
<1>7. CASE UNCHANGED <<flows, ret>>
  BY <1>2, <1>7
<1>8. CASE flows' = flows \ gone /\ \E f \in live :
             ret' = [ret EXCEPT ![c] = [Arrived(b, st, code)
                                          EXCEPT !.started = f.started]]
  <2>1. PICK f \in live : ret' = [ret EXCEPT ![c] = [Arrived(b, st, code)
                                          EXCEPT !.started = f.started]]
    BY <1>8
  <2>2. f \in flows
    OBVIOUS
  <2> HIDE DEF gone, live
  <2>3. /\ \A g \in flows' : ~FlowKey(g, st, browserBinding(b))
        /\ \E q \in Return :
             /\ FlowKey(f, st, browserBinding(b))
             /\ ret' = [ret EXCEPT ![c] = q]
             /\ q.phase = "taken" /\ q.browser = b /\ q.state = st
             /\ q.code = code /\ q.binding = browserBinding(b)
             /\ q.started = f.started
    BY <1>4, <1>8, <2>1
  <2> QED
    BY <1>2, <1>6, <2>2, <2>3
<1> HIDE DEF gone, live
<1> QED
  BY <1>2, <1>3, <1>5, <1>6, <1>7, <1>8

\* What exchangeFlow makes of its slot: the code proved the sign-in, or not.
LEMMA ExchangeFacts ==
  ASSUME Types, NEW c \in Returns, exchangeFlow(c)
  PROVE  /\ ret[c].phase = "taken" /\ ret[c].state \in States
         /\ \E q \in Return :
              /\ ret' = [ret EXCEPT ![c] = q]
              /\ \/ q.phase = "idle"
                 \/ /\ q.phase = "exchanged" /\ q.browser = ret[c].browser
                    /\ q.state = ret[c].state /\ q.started = ret[c].started
                    /\ q.code = ret[c].code /\ idTokenProves(c)
<1>1. /\ ret[c].phase = "taken" /\ ret[c] \in Return
      /\ ret[c].state \in States /\ ret[c].code \in States
  BY DEF exchangeFlow, Types, Placed, Running
<1>2. CASE ret' = [ret EXCEPT ![c] = IdleReturn]
  BY <1>1, <1>2, IdleFacts
<1>3. CASE idTokenProves(c) /\ ret' = [ret EXCEPT ![c].phase = "exchanged"]
  <2> DEFINE q == [ret[c] EXCEPT !.phase = "exchanged"]
  <2>1. ret' = [ret EXCEPT ![c] = q]
    BY <1>3 DEF Types
  <2>2. /\ q \in Return /\ q.phase = "exchanged" /\ q.browser = ret[c].browser
        /\ q.state = ret[c].state /\ q.started = ret[c].started
        /\ q.code = ret[c].code
    BY <1>1 DEF Return
  <2> QED
    BY <1>1, <1>3, <2>1, <2>2
<1> QED
  BY <1>2, <1>3 DEF exchangeFlow

----------------------------------------------------------------------------
(* The types are kept.                                                     *)

\* The browsers and the portal begin well formed.
LEMMA TypesInit == Init => Types
  BY IdleFacts, TimeAssumption
  DEF Init, Types, NoCookie, Flow, Time, Placed, Running

\* Every step keeps the types.
LEMMA TypesStep ==
  ASSUME Types, [Next]_vars
  PROVE  Types'
<1>1. ASSUME NEW t \in Starts, NEW b \in Browsers, StartSend(t, b)
      PROVE  Types'
  <2>1. PICK q \in Start : /\ start' = [start EXCEPT ![t] = q]
                           /\ q.phase = "sent" /\ q.browser = b
    BY <1>1, SendFacts
  <2>2. /\ start' \in [Starts -> Start] /\ start'[t] = q
        /\ \A x \in Starts \ {t} : start'[x] = start[x]
    BY <2>1, StartSet
  <2>3. \A x \in Starts : start'[x].phase # "idle" => start'[x].browser \in Browsers
    BY <2>1, <2>2 DEF Types
  <2> QED
    BY <1>1, <2>2, <2>3 DEF StartSend, Types, Placed, Running
<1>2. ASSUME NEW t \in Starts, NEW st \in States, loginStart(t, st)
      PROVE  Types'
  <2>1. PICK q \in Start, bound \in States, f \in Flow :
           /\ start' = [start EXCEPT ![t] = q]
           /\ q.browser = start[t].browser
           /\ flows' = flows \/ flows' = flows \cup {f}
    BY <1>2, LoginStartFacts
  <2>2. /\ start' \in [Starts -> Start] /\ start'[t] = q
        /\ \A x \in Starts \ {t} : start'[x] = start[x]
    BY <2>1, StartSet
  <2>3. start[t].browser \in Browsers
    BY <1>2 DEF loginStart, Types
  <2>4. \A x \in Starts : start'[x].phase # "idle" => start'[x].browser \in Browsers
    BY <2>1, <2>2, <2>3 DEF Types
  <2>5. startedBy' \in [States -> [browser : Browsers \cup {None}, at : Nat]]
    BY <1>2, <2>3 DEF loginStart, Types
  <2>6. flows' \subseteq Flow
    BY <2>1 DEF Types
  <2> QED
    BY <1>2, <2>2, <2>4, <2>5, <2>6 DEF loginStart, Types, Placed, Running
<1>3. ASSUME NEW t \in Starts, StartDeliver(t)
      PROVE  Types'
  <2>1. /\ start' \in [Starts -> Start] /\ start'[t] = IdleStart
        /\ \A x \in Starts \ {t} : start'[x] = start[x]
    BY <1>3, StartSet, IdleFacts DEF StartDeliver
  <2>2. \A x \in Starts : start'[x].phase # "idle" => start'[x].browser \in Browsers
    BY <2>1, IdleFacts DEF Types
  <2>3. start[t] \in Start /\ now + FlowTTL \in Nat
    BY TimeAssumption DEF Types
  <2>4. [val |-> start[t].binding, till |-> now + FlowTTL]
          \in [val : States \cup {None}, till : Nat]
    BY <2>3 DEF Start
  <2>5. cookie' \in [Browsers -> [val : States \cup {None}, till : Nat]]
    BY <1>3, <2>4 DEF StartDeliver, Types
  <2> QED
    BY <1>3, <2>1, <2>2, <2>5 DEF StartDeliver, Types, Placed, Running
<1>4. ASSUME NEW t \in Starts, StartLost(t)
      PROVE  Types'
  <2>1. /\ start' \in [Starts -> Start] /\ start'[t] = IdleStart
        /\ \A x \in Starts \ {t} : start'[x] = start[x]
    BY <1>4, StartSet, IdleFacts DEF StartLost
  <2>2. \A x \in Starts : start'[x].phase # "idle" => start'[x].browser \in Browsers
    BY <2>1, IdleFacts DEF Types
  <2> QED
    BY <1>4, <2>1, <2>2 DEF StartLost, Types, Placed, Running
<1>5. ASSUME NEW st \in States, NEW at \in Time, Authenticate(st, at)
      PROVE  Types'
  <2>1. auth' \in [States -> [code : BOOLEAN, at : Nat, spent : BOOLEAN]]
    BY <1>5, TimeAssumption DEF Authenticate, Types, Time
  <2> QED
    BY <1>5, <2>1 DEF Authenticate, Types, Placed, Running
<1>6. ASSUME NEW c \in Returns, NEW b \in Browsers, NEW st \in States,
             NEW code \in States, loginCallback(c, b, st, code)
      PROVE  Types'
  <2>1. flows' \subseteq Flow
    BY <1>6, CallbackFacts DEF Types
  <2>2. \/ ret' = ret
        \/ \E q \in Return :
             /\ ret' = [ret EXCEPT ![c] = q]
             /\ q.browser = b /\ q.state = st
             /\ q.phase = "redirected" \/ q.code = code
    BY <1>6, CallbackFacts
  <2>3. ret' \in [Returns -> Return] /\ Placed'
    <3>1. CASE ret' = ret
      BY <3>1 DEF Types, Placed, Running
    <3>2. ASSUME NEW q \in Return, ret' = [ret EXCEPT ![c] = q],
                 q.browser = b, q.state = st,
                 q.phase = "redirected" \/ q.code = code
          PROVE  ret' \in [Returns -> Return] /\ Placed'
      BY <3>2, ReturnSet DEF Types, Placed, Running
    <3> QED
      BY <2>2, <3>1, <3>2
  <2> QED
    BY <1>6, <2>1, <2>3 DEF loginCallback, Types
<1>7. ASSUME NEW c \in Returns, exchangeFlow(c)
      PROVE  Types'
  <2>1. PICK q \in Return :
           /\ ret' = [ret EXCEPT ![c] = q]
           /\ \/ q.phase = "idle"
              \/ /\ q.browser = ret[c].browser
                 /\ q.state = ret[c].state /\ q.code = ret[c].code
    BY <1>7, ExchangeFacts
  <2>2. ret[c].phase = "taken" /\ {ret[c].state, ret[c].code} \subseteq States
        /\ ret[c].browser \in Browsers
    BY <1>7 DEF exchangeFlow, Types, Placed, Running
  <2>3. ret' \in [Returns -> Return] /\ Placed'
    BY <2>1, <2>2, ReturnSet DEF Types, Placed, Running
  <2>4. redeemed' \in [States -> Nat]
    BY <1>7, <2>2 DEF exchangeFlow, Types
  <2>5. auth' \in [States -> [code : BOOLEAN, at : Nat, spent : BOOLEAN]]
    BY <1>7, <2>2 DEF exchangeFlow, Types
  <2> QED
    BY <1>7, <2>3, <2>4, <2>5 DEF exchangeFlow, Types
<1>8. ASSUME NEW c \in Returns, establishSession(c)
      PROVE  Types'
  <2>1. /\ ret' \in [Returns -> Return] /\ ret'[c] = IdleReturn
        /\ \A x \in Returns \ {c} : ret'[x] = ret[x]
    BY <1>8, ReturnSet, IdleFacts DEF establishSession
  <2>2. Placed'
    BY <2>1, IdleFacts DEF Types, Placed, Running
  <2>3. ret[c].state \in States /\ ret[c].browser \in Browsers
    BY <1>8 DEF establishSession, Types, Placed
  <2>4. sessions' \subseteq [state : States, browser : Browsers]
    BY <1>8, <2>3 DEF establishSession, Types
  <2> QED
    BY <1>8, <2>1, <2>2, <2>4 DEF establishSession, Types
<1>9. ASSUME NEW f \in flows, ExpireFlow(f)
      PROVE  Types'
  BY <1>9 DEF ExpireFlow, Types, Placed, Running
<1>10. CASE Tick
  BY <1>10 DEF Tick, Types, Placed, Running
<1>11. CASE UNCHANGED vars
  BY <1>11 DEF vars, Types, Placed, Running
<1>12. ASSUME NEW c \in Returns, FinishReturn(c)
       PROVE  Types'
  <2>1. /\ ret' \in [Returns -> Return] /\ ret'[c] = IdleReturn
        /\ \A x \in Returns \ {c} : ret'[x] = ret[x]
    BY <1>12, ReturnSet, IdleFacts DEF FinishReturn
  <2>2. Placed'
    BY <2>1, IdleFacts DEF Types, Placed, Running
  <2> QED
    BY <1>12, <2>1, <2>2 DEF FinishReturn, Types
<1> QED
  BY <1>1, <1>2, <1>3, <1>4, <1>5, <1>6, <1>7, <1>8, <1>9, <1>10, <1>11, <1>12
  DEF Next, loginCallbackRefused

----------------------------------------------------------------------------
(* Every sign-in stays with the browser that began it.                     *)

\* A sign-in that began keeps its browser and its time.
LEMMA BegunKept ==
  ASSUME Types, [Next]_vars, NEW v \in States, startedBy[v].browser # None
  PROVE  startedBy'[v] = startedBy[v]
<1>1. ASSUME NEW t \in Starts, NEW st \in States, loginStart(t, st)
      PROVE  startedBy'[v] = startedBy[v]
  BY <1>1 DEF loginStart, Types
<1> QED
  BY <1>1 DEF Next, vars, StartSend, StartDeliver, StartLost, Authenticate,
     loginCallbackRefused, loginCallback, exchangeFlow, establishSession,
     FinishReturn, ExpireFlow, Tick

\* An authentication that happened keeps its time.
LEMMA AuthKept ==
  ASSUME Types, [Next]_vars, NEW v \in States, auth[v].code
  PROVE  auth'[v].code /\ auth'[v].at = auth[v].at
<1>1. ASSUME NEW st \in States, NEW at \in Time, Authenticate(st, at)
      PROVE  auth'[v].code /\ auth'[v].at = auth[v].at
  BY <1>1 DEF Authenticate, Types
<1>2. ASSUME NEW c \in Returns, exchangeFlow(c)
      PROVE  auth'[v].code /\ auth'[v].at = auth[v].at
  BY <1>2 DEF exchangeFlow, Types
<1> QED
  BY <1>1, <1>2 DEF Next, vars, StartSend, loginStart, StartDeliver, StartLost,
     loginCallbackRefused, loginCallback, FinishReturn, establishSession,
     ExpireFlow, Tick

\* A binding stays its browser's.
LEMMA BindingKept ==
  ASSUME Types, [Next]_vars, NEW v, NEW b, BindingOf(v, b)
  PROVE  v \in States /\ b \in Browsers /\ startedBy'[v].browser = b
  BY BegunKept, NoneAssumption DEF BindingOf

\* A browser is only ever given bindings of its own.
LEMMA CookiesStep ==
  ASSUME Types, CookiesOwned, StartsOwned, [Next]_vars
  PROVE  CookiesOwned'
<1>1. ASSUME NEW b \in Browsers, cookie'[b].val # None
      PROVE  BindingOf(cookie[b].val, b)' 
  <2>1. CASE cookie'[b] = cookie[b]
    <3>1. BindingOf(cookie[b].val, b)
      BY <1>1, <2>1 DEF CookiesOwned
    <3> QED
      BY <2>1, <3>1, BindingKept DEF BindingOf
  <2>2. ASSUME NEW t \in Starts, StartDeliver(t), cookie'[b] # cookie[b]
        PROVE  BindingOf(cookie[b].val, b)'
    <3>1. cookie'[b].val = start[t].binding /\ start[t].browser = b
      BY <2>2 DEF StartDeliver, Types
    <3>2. BindingOf(start[t].binding, b)
      BY <1>1, <3>1 DEF StartsOwned
    <3> QED
      BY <3>1, <3>2, BindingKept DEF BindingOf
  <2> QED
    BY <2>1, <2>2 DEF Next, vars, StartSend, loginStart, StartLost,
       Authenticate, loginCallbackRefused, loginCallback, exchangeFlow,
       establishSession, FinishReturn, ExpireFlow, Tick
<1> QED
  BY <1>1 DEF CookiesOwned

\* A start sends its own browser's binding, or mints one.
LEMMA StartsStep ==
  ASSUME Types, CookiesOwned, StartsOwned, [Next]_vars
  PROVE  StartsOwned'
<1> SUFFICES ASSUME NEW s \in Starts, start'[s].binding # None
             PROVE  BindingOf(start[s].binding, start[s].browser)'
  BY DEF StartsOwned
<1>1. CASE start'[s] = start[s]
  <2>1. BindingOf(start[s].binding, start[s].browser)
    BY <1>1 DEF StartsOwned
  <2> QED
    BY <1>1, <2>1, BindingKept DEF BindingOf
<1>2. ASSUME NEW t \in Starts, NEW b \in Browsers, StartSend(t, b),
             start'[s] # start[s]
      PROVE  BindingOf(start[s].binding, start[s].browser)'
  <2>1. start'[s].browser = b /\ start'[s].binding = browserBinding(b)
    BY <1>2, SendFacts, StartSet
  <2>2. BindingOf(browserBinding(b), b)
    BY <2>1, BindingFacts DEF CookiesOwned
  <2> QED
    BY <2>1, <2>2, BindingKept DEF BindingOf
<1>3. ASSUME NEW t \in Starts, NEW st \in States, loginStart(t, st),
             start'[s] # start[s]
      PROVE  BindingOf(start[s].binding, start[s].browser)'
  <2>1. PICK bound \in States :
          /\ bound = st \/ bound = start[t].binding
          /\ start'[s].browser = start[t].browser
          /\ start'[s].binding = bound /\ s = t
    BY <1>3, LoginStartFacts, StartSet
  <2>2. start[t].browser \in Browsers
    BY <1>3 DEF loginStart, Types
  <2>3. CASE bound = st
    <3>1. startedBy'[st].browser = start[t].browser
      BY <1>3 DEF loginStart, Types
    <3> QED
      BY <2>1, <2>2, <2>3, <3>1 DEF BindingOf
  <2>4. CASE bound = start[t].binding
    <3>1. BindingOf(start[t].binding, start[t].browser)
      BY <2>1, <2>4 DEF StartsOwned
    <3> QED
      BY <2>1, <2>4, <3>1, BindingKept DEF BindingOf
  <2> QED
    BY <2>1, <2>3, <2>4
<1>4. ASSUME NEW t \in Starts, StartDeliver(t) \/ StartLost(t)
      PROVE  start'[s] = start[s]
  BY <1>4, StartSet, IdleFacts DEF StartDeliver, StartLost
<1> QED
  BY <1>1, <1>2, <1>3, <1>4 DEF Next, vars, Authenticate, loginCallbackRefused,
     loginCallback, FinishReturn, exchangeFlow, establishSession, ExpireFlow,
     Tick

\* A flow is parked under the binding of its own start.
LEMMA FlowsStep ==
  ASSUME Types, StartsOwned, \A f \in flows : FlowOwned(f), [Next]_vars
  PROVE  (\A f \in flows : FlowOwned(f))'
<1> SUFFICES ASSUME NEW f \in flows' PROVE FlowOwned(f)'
  OBVIOUS
<1>1. CASE f \in flows
  <2>1. FlowOwned(f) /\ f.state \in States
    BY <1>1 DEF Types, Flow
  <2>2. startedBy'[f.state] = startedBy[f.state]
    BY <2>1, BegunKept, NoneAssumption DEF FlowOwned
  <2> QED
    BY <2>1, <2>2, BindingKept DEF FlowOwned, BindingOf
<1>2. ASSUME NEW t \in Starts, NEW st \in States, loginStart(t, st), f \notin flows
      PROVE  FlowOwned(f)'
  <2>1. PICK bound \in States :
          /\ bound = st \/ bound = start[t].binding
          /\ f.state = st /\ f.binding = bound /\ f.started = now
    BY <1>2, LoginStartFacts
  <2>2. /\ start[t].browser \in Browsers
        /\ startedBy'[st] = [browser |-> start[t].browser, at |-> now]
    BY <1>2 DEF loginStart, Types
  <2>3. startedBy'[bound].browser = start[t].browser
    <3>1. CASE bound = st
      BY <2>2, <3>1
    <3>2. CASE bound = start[t].binding
      <4>1. BindingOf(bound, start[t].browser)
        BY <3>2, NoneAssumption DEF StartsOwned
      <4> QED
        BY <4>1, BindingKept
    <3> QED
      BY <2>1, <3>1, <3>2
  <2> QED
    BY <2>1, <2>2, <2>3 DEF FlowOwned, BindingOf
<1>3. ASSUME NEW c \in Returns, NEW b \in Browsers, NEW st \in States,
             NEW code \in States, loginCallback(c, b, st, code)
      PROVE  f \in flows
  BY <1>3, CallbackFacts
<1> QED
  BY <1>1, <1>2, <1>3 DEF Next, vars, StartSend, StartDeliver, StartLost,
     Authenticate, loginCallbackRefused, FinishReturn, exchangeFlow,
     establishSession, ExpireFlow, Tick

\* A return past TakeFlow is in the browser whose binding the flow was under.
LEMMA ReturnsStep ==
  ASSUME Types, CookiesOwned, \A f \in flows : FlowOwned(f),
         \A c \in Returns : ReturnOwned(c), [Next]_vars
  PROVE  (\A c \in Returns : ReturnOwned(c))'
<1> SUFFICES ASSUME NEW r \in Returns, Running(r)'
             PROVE  ReturnOwned(r)'
  BY DEF ReturnOwned
<1>1. CASE ret'[r] = ret[r]
  <2>1. /\ ReturnOwned(r) /\ Running(r) /\ ret[r].browser \in Browsers
        /\ ret[r].state \in States /\ ret[r].code \in States
    BY <1>1 DEF Types, Placed, Running
  <2>2. startedBy'[ret[r].state] = startedBy[ret[r].state]
    BY <2>1, BegunKept, NoneAssumption DEF ReturnOwned, Running
  <2>3. auth'[ret[r].code].code /\ auth'[ret[r].code].at = auth[ret[r].code].at
    BY <2>1, AuthKept DEF ReturnOwned
  <2> QED
    BY <1>1, <2>1, <2>2, <2>3 DEF ReturnOwned
<1>2. ASSUME NEW c \in Returns, NEW b \in Browsers, NEW st \in States,
             NEW code \in States, loginCallback(c, b, st, code),
             ret'[r] # ret[r]
      PROVE  ReturnOwned(r)'
  <2>1. PICK q \in Return, f \in flows :
           /\ FlowKey(f, st, browserBinding(b))
           /\ ret' = [ret EXCEPT ![c] = q]
           /\ q.phase = "taken" /\ q.browser = b /\ q.state = st
           /\ q.code = code /\ q.started = f.started
    <3>1. ASSUME NEW q \in Return, ret' = [ret EXCEPT ![c] = q],
                 q.phase = "redirected"
          PROVE  FALSE
      BY <1>2, <3>1, ReturnSet DEF Running
    <3> QED
      BY <1>2, <3>1, CallbackFacts
  <2>2. ret'[r] = q
    BY <1>2, <2>1, ReturnSet
  <2>3. /\ f.state = st /\ f.binding = browserBinding(b)
        /\ browserBinding(b) # None /\ FlowOwned(f)
    BY <1>2, <2>1, CallbackFacts DEF FlowKey
  <2>4. startedBy[browserBinding(b)].browser = b
    BY <2>3, BindingFacts DEF CookiesOwned, BindingOf
  <2>5. startedBy[st].browser = b /\ f.started = startedBy[st].at
    BY <2>3, <2>4 DEF FlowOwned, BindingOf
  <2>6. startedBy' = startedBy /\ auth' = auth /\ auth[code].code
    BY <1>2 DEF loginCallback
  <2> QED
    BY <2>1, <2>2, <2>5, <2>6 DEF ReturnOwned
<1>3. ASSUME NEW c \in Returns, exchangeFlow(c), ret'[r] # ret[r]
      PROVE  ReturnOwned(r)'
  <2>1. PICK q \in Return :
           /\ ret' = [ret EXCEPT ![c] = q]
           /\ \/ q.phase = "idle"
              \/ /\ q.phase = "exchanged" /\ q.browser = ret[c].browser
                 /\ q.state = ret[c].state /\ q.started = ret[c].started
                 /\ q.code = ret[c].code /\ idTokenProves(c)
    BY <1>3, ExchangeFacts
  <2>2. r = c /\ ret'[r] = q
    BY <1>3, <2>1, ReturnSet
  <2>3. /\ ReturnOwned(c) /\ ret[c].phase = "taken" /\ Running(c)
        /\ ret[c].code \in States /\ startedBy' = startedBy
    BY <1>3 DEF exchangeFlow, Types, Placed, Running
  <2>4. auth'[ret[c].code].code /\ auth'[ret[c].code].at = auth[ret[c].code].at
    BY <2>3, AuthKept DEF ReturnOwned
  <2>5. /\ q.phase = "exchanged" /\ q.browser = ret[c].browser
        /\ q.state = ret[c].state /\ q.started = ret[c].started
        /\ q.code = ret[c].code /\ idTokenProves(c)
    BY <2>1, <2>2 DEF Running
  <2>6. q.code = q.state /\ auth[q.code].at >= q.started
    BY <2>5 DEF idTokenProves
  <2> QED
    BY <2>2, <2>3, <2>4, <2>5, <2>6 DEF ReturnOwned
<1>4. ASSUME NEW c \in Returns, establishSession(c) \/ FinishReturn(c)
      PROVE  ret'[r] = ret[r]
  BY <1>4, ReturnSet, IdleFacts DEF establishSession, FinishReturn, Running
<1> QED
  BY <1>1, <1>2, <1>3, <1>4 DEF Next, vars, StartSend, loginStart,
     StartDeliver, StartLost, Authenticate, loginCallbackRefused, ExpireFlow,
     Tick

\* A session is established by such a return.
LEMMA SessionsStep ==
  ASSUME Types, \A c \in Returns : ReturnOwned(c),
         \A x \in sessions : SessionOwned(x), [Next]_vars
  PROVE  (\A x \in sessions : SessionOwned(x))'
<1> SUFFICES ASSUME NEW x \in sessions' PROVE SessionOwned(x)'
  OBVIOUS
<1>1. CASE x \in sessions
  <2>1. SessionOwned(x) /\ x.state \in States /\ x.browser \in Browsers
    BY <1>1 DEF Types
  <2>2. startedBy'[x.state] = startedBy[x.state]
    BY <2>1, BegunKept, NoneAssumption DEF SessionOwned
  <2>3. auth'[x.state].code /\ auth'[x.state].at = auth[x.state].at
    BY <2>1, AuthKept DEF SessionOwned
  <2> QED
    BY <2>1, <2>2, <2>3 DEF SessionOwned
<1>2. ASSUME NEW c \in Returns, establishSession(c), x \notin sessions
      PROVE  SessionOwned(x)'
  <2>1. /\ x.state = ret[c].state /\ x.browser = ret[c].browser
        /\ ret[c].phase = "exchanged" /\ startedBy' = startedBy /\ auth' = auth
    BY <1>2 DEF establishSession
  <2> QED
    BY <2>1 DEF ReturnOwned, Running, SessionOwned
<1> QED
  BY <1>1, <1>2 DEF Next, vars, StartSend, loginStart, StartDeliver, StartLost,
     Authenticate, loginCallbackRefused, loginCallback, FinishReturn,
     exchangeFlow, ExpireFlow, Tick

\* To begin with there is no binding, flow or session.
LEMMA OwnedInit == Init => Owned
  BY IdleFacts DEF Init, Owned, CookiesOwned, StartsOwned, ReturnOwned, Running,
     NoCookie

\* Every step keeps bindings, flows, returns and sessions with their browsers.
LEMMA OwnedStep ==
  ASSUME Types, Owned, [Next]_vars
  PROVE  Owned'
  BY CookiesStep, StartsStep, FlowsStep, ReturnsStep, SessionsStep DEF Owned

----------------------------------------------------------------------------
(* Every sign-in is redeemed at most once.                                 *)

\* To begin with no code is spent.
LEMMA SingleInit == Init => Single
  BY IdleFacts DEF Init, Single, ParkedOnce, TakenOnce, ParkedUnspent,
     TakenUnspent, RedeemedOnce

\* Removing flows and leaving returns keeps every sign-in in one place.
LEMMA SingleShrinks ==
  ASSUME Types, Single, flows' \subseteq flows,
         UNCHANGED <<startedBy, redeemed>>,
         \A r \in Returns : ret'[r].phase = "taken" => ret'[r] = ret[r]
  PROVE  Single'
<1>1. /\ ParkedOnce' /\ TakenOnce'
  BY DEF Single, ParkedOnce, TakenOnce
<1>2. ParkedUnspent' /\ TakenUnspent' /\ RedeemedOnce'
  BY DEF Single, ParkedUnspent, TakenUnspent, RedeemedOnce, Unspent
<1> QED
  BY <1>1, <1>2 DEF Single

\* Every step keeps a sign-in in one place: parked, in one return, or spent.
LEMMA SingleStep ==
  ASSUME Types, Single, [Next]_vars
  PROVE  Single'
<1>1. ASSUME NEW t \in Starts, NEW st \in States, loginStart(t, st)
      PROVE  Single'
  <2>1. PICK f \in Flow : /\ f.state = st
                          /\ flows' = flows \/ flows' = flows \cup {f}
    BY <1>1, LoginStartFacts
  <2>2. /\ startedBy[st].browser = None /\ startedBy'[st].browser # None
        /\ \A v \in States \ {st} : startedBy'[v] = startedBy[v]
        /\ ret' = ret /\ redeemed' = redeemed
    BY <1>1, NoneAssumption DEF loginStart, Types
  <2>3. /\ redeemed[st] = 0
        /\ \A g \in flows : g.state # st
        /\ \A r \in Returns : ret[r].phase = "taken" => ret[r].state # st
    BY <2>2 DEF Single, RedeemedOnce, ParkedUnspent, TakenUnspent, Unspent
  <2>4. ParkedOnce'
    BY <2>1, <2>3 DEF Single, ParkedOnce
  <2>5. TakenOnce'
    BY <2>2 DEF Single, TakenOnce
  <2>6. ParkedUnspent'
    <3> SUFFICES ASSUME NEW g \in flows'
                 PROVE  /\ Unspent(g.state)'
                        /\ \A r \in Returns :
                             ret'[r].phase = "taken" => ret'[r].state # g.state
      BY DEF ParkedUnspent
    <3>1. CASE g \in flows
      BY <2>2, <2>3, <3>1 DEF Single, ParkedUnspent, Unspent, Types, Flow
    <3>2. CASE g = f
      BY <2>1, <2>2, <2>3, <3>2 DEF Unspent
    <3> QED
      BY <2>1, <3>1, <3>2
  <2>7. TakenUnspent'
    BY <2>2, <2>3 DEF Single, TakenUnspent, Unspent, Types, Placed
  <2>8. RedeemedOnce'
    BY <2>2 DEF Single, RedeemedOnce
  <2> QED
    BY <2>4, <2>5, <2>6, <2>7, <2>8 DEF Single
<1>2. ASSUME NEW c \in Returns, NEW b \in Browsers, NEW st \in States,
             NEW code \in States, loginCallback(c, b, st, code)
      PROVE  Single'
  <2>1. /\ flows' \subseteq flows
        /\ UNCHANGED <<startedBy, redeemed>>
    BY <1>2, CallbackFacts DEF loginCallback
  <2>2. CASE ret' = ret
    BY <2>1, <2>2, SingleShrinks
  <2>4. ASSUME NEW q \in Return, ret' = [ret EXCEPT ![c] = q],
               q.phase = "redirected"
        PROVE  Single'
    <3>1. \A r \in Returns : ret'[r].phase = "taken" => ret'[r] = ret[r]
      BY <2>4, ReturnSet
    <3> QED
      BY <2>1, <3>1, SingleShrinks
  <2>3. ASSUME NEW q \in Return, NEW f \in flows,
               FlowKey(f, st, browserBinding(b)),
               \A g \in flows' : ~FlowKey(g, st, browserBinding(b)),
               ret' = [ret EXCEPT ![c] = q], q.state = st
        PROVE  Single'
    <3>1. ret'[c] = q /\ \A x \in Returns \ {c} : ret'[x] = ret[x]
      BY <2>3, ReturnSet
    <3>2. /\ f.state = st
          /\ \A g \in flows' : g \in flows /\ g.state # st
      BY <2>1, <2>3 DEF FlowKey, Single, ParkedOnce
    <3>3. /\ Unspent(st)
          /\ \A x \in Returns : ret[x].phase = "taken" => ret[x].state # st
      BY <3>2 DEF Single, ParkedUnspent
    <3>4. ParkedOnce'
      BY <3>2 DEF Single, ParkedOnce
    <3>5. TakenOnce'
      BY <2>3, <3>1, <3>3 DEF Single, TakenOnce
    <3>6. ParkedUnspent'
      BY <2>1, <2>3, <3>1, <3>2 DEF Single, ParkedUnspent, Unspent
    <3>7. TakenUnspent'
      BY <2>1, <2>3, <3>1, <3>3 DEF Single, TakenUnspent, Unspent
    <3>8. RedeemedOnce'
      BY <2>1 DEF Single, RedeemedOnce
    <3> QED
      BY <3>4, <3>5, <3>6, <3>7, <3>8 DEF Single
  <2> QED
    BY <1>2, <2>2, <2>3, <2>4, CallbackFacts
<1>3. ASSUME NEW c \in Returns, exchangeFlow(c)
      PROVE  Single'
  <2>1. PICK q \in Return : /\ ret' = [ret EXCEPT ![c] = q]
                            /\ q.phase # "taken"
    BY <1>3, ExchangeFacts
  <2>2. ret'[c] = q /\ \A x \in Returns \ {c} : ret'[x] = ret[x]
    BY <2>1, ReturnSet
  <2> DEFINE st == ret[c].state
  <2>3. ret[c].phase = "taken" /\ st \in States
    BY <1>3, ExchangeFacts
  <2>4. /\ redeemed[st] = 0 /\ startedBy[st].browser # None
        /\ \A x \in Returns \ {c} : ret[x].phase = "taken" => ret[x].state # st
        /\ \A g \in flows : g.state # st
    BY <2>3 DEF Single, TakenUnspent, Unspent, TakenOnce, ParkedUnspent
  <2>5. /\ redeemed'[st] = 1
        /\ \A v \in States \ {st} : redeemed'[v] = redeemed[v]
        /\ UNCHANGED <<flows, startedBy>>
    BY <1>3, <2>3, <2>4 DEF exchangeFlow, Types
  <2> HIDE DEF st
  <2>6. ParkedOnce'
    BY <2>5 DEF Single, ParkedOnce
  <2>7. TakenOnce'
    BY <2>1, <2>2 DEF Single, TakenOnce
  <2>8. ParkedUnspent'
    BY <2>1, <2>2, <2>4, <2>5 DEF Single, ParkedUnspent, Unspent, Types, Flow
  <2>9. TakenUnspent'
    <3> SUFFICES ASSUME NEW r \in Returns, ret'[r].phase = "taken"
                 PROVE  Unspent(ret[r].state)'
      BY DEF TakenUnspent
    <3>1. r # c /\ ret'[r] = ret[r]
      BY <2>1, <2>2
    <3>2. ret[r].state \in States /\ ret[r].state # st
      BY <2>4, <3>1 DEF Types, Placed
    <3> QED
      BY <2>5, <3>1, <3>2 DEF Single, TakenUnspent, Unspent
  <2>10. RedeemedOnce'
    BY <2>3, <2>4, <2>5 DEF Single, RedeemedOnce
  <2> QED
    BY <2>6, <2>7, <2>8, <2>9, <2>10 DEF Single
<1>4. ASSUME NEW c \in Returns, establishSession(c) \/ FinishReturn(c)
      PROVE  Single'
  <2>1. \A r \in Returns : ret'[r].phase = "taken" => ret'[r] = ret[r]
    BY <1>4, ReturnSet, IdleFacts DEF establishSession, FinishReturn
  <2> QED
    BY <1>4, <2>1, SingleShrinks DEF establishSession, FinishReturn
<1>5. ASSUME flows' \subseteq flows, UNCHANGED <<startedBy, redeemed, ret>>
      PROVE  Single'
  BY <1>5, SingleShrinks
<1> QED
  BY <1>1, <1>2, <1>3, <1>4, <1>5 DEF Next, vars, StartSend, StartDeliver,
     StartLost, Authenticate, loginCallbackRefused, ExpireFlow, Tick

----------------------------------------------------------------------------
(* Two sign-ins of one browser share its binding.                          *)

\* An answer that names a sign-in brings the binding its flow is parked under.
ParkedAs(t) ==
  start[t].state # None =>
    /\ start[t].phase = "answered" /\ start[t].binding # None
    /\ startedBy[start[t].state].browser # None
    /\ \A f \in flows :
         f.state = start[t].state => f.binding = start[t].binding

\* No flow outlives a cookie set now.
Timely == \A f \in flows : f.till <= now + FlowTTL

\* A browser is told only of sign-ins that began.
ToldBegun == \A b \in Browsers :
  \A st \in told[b] : st \in States /\ startedBy[st].browser # None

\* Of several starts of one browser on their way, none is to get a binding of
\* its own, and they bring back the same one, if any.
Alike(b) ==
  \A t, u \in Starts :
    t # u /\ start[t].browser = b /\ start[u].browser = b =>
      /\ start[t].phase = "sent" => start[t].binding # None
      /\ start[t].binding # None /\ start[u].binding # None
           => start[t].binding = start[u].binding

\* While the browser holds a binding, its starts on their way carry that one.
AsHeld(b) ==
  \A t \in Starts :
    start[t].browser = b /\ (start[t].phase = "sent" \/ start[t].binding # None)
      => browserBinding(b) \in {None, start[t].binding}

\* The cookie has the binding of every live flow the browser was told of, and
\* outlives it.
Held(b) ==
  \A f \in flows : f.state \in told[b] /\ now <= f.till =>
    cookie[b].val = f.binding /\ f.till <= cookie[b].till

OneBinding(b) == Alike(b) /\ AsHeld(b) /\ Held(b)

Tabs == /\ told \in [Browsers -> SUBSET States]
        /\ \A t \in Starts : ParkedAs(t)
        /\ Timely /\ ToldBegun
        /\ \A b \in Browsers \ crowded : OneBinding(b)

\* The idle slot carries nothing.
LEMMA IdleStartFacts == /\ IdleStart.browser = None /\ IdleStart.state = None
                        /\ IdleStart.binding = None /\ IdleStart.phase = "idle"
  BY DEF IdleStart

\* There are no sign-ins to begin with.
LEMMA TabsInit == Init => Tabs
  BY IdleStartFacts, NoneAssumption
  DEF Init, Tabs, ParkedAs, Timely, ToldBegun, OneBinding, Alike, AsHeld, Held,
      NoCookie, browserBinding

\* What loginStart parks and answers: the flow and the answer name the sign-in
\* under one binding, which is the one that was sent, if one was.
LEMMA ParkFacts ==
  ASSUME Types, NEW t \in Starts, NEW st \in States, loginStart(t, st),
         start[t].state = None
  PROVE  \E bound \in States :
           /\ start[t].binding # None => bound = start[t].binding
           /\ start'[t].browser = start[t].browser
           /\ start'[t].phase = "answered"
           /\ start'[t].binding \in {bound, None}
           /\ start'[t].state # None =>
                start'[t].state = st /\ start'[t].binding = bound
           /\ \A x \in Starts \ {t} : start'[x] = start[x]
           /\ flows \subseteq flows'
           /\ \A f \in flows' \ flows :
                f.state = st /\ f.binding = bound /\ f.till = now + FlowTTL
<1> DEFINE bound == bindBrowser(start[t].binding, st)
           flow == [state |-> st, binding |-> bound, till |-> now + FlowTTL,
                    started |-> now]
<1>1. start \in [Starts -> Start] /\ start[t] \in Start
  BY DEF Types
<1>2. bound \in States /\ (start[t].binding # None => bound = start[t].binding)
  BY <1>1 DEF bindBrowser, Start
<1>3. flows' = flows \/ flows' = flows \cup {flow}
  BY DEF loginStart
<1>4. /\ flow.state = st /\ flow.binding = bound /\ flow.till = now + FlowTTL
  OBVIOUS
<1>5. \/ start' = [start EXCEPT ![t].phase = "answered",
                                ![t].binding = bound, ![t].state = st]
      \/ \E set \in {bound, None} :
           start' = [start EXCEPT ![t].phase = "answered",
                                  ![t].binding = set]
  BY DEF loginStart
<1> HIDE DEF bound, flow
<1>6. /\ start'[t].browser = start[t].browser /\ start'[t].phase = "answered"
      /\ start'[t].binding \in {bound, None}
      /\ start'[t].state # None =>
           start'[t].state = st /\ start'[t].binding = bound
      /\ \A x \in Starts \ {t} : start'[x] = start[x]
  <2>1. CASE start' = [start EXCEPT ![t].phase = "answered",
                                    ![t].binding = bound, ![t].state = st]
    BY <1>1, <2>1 DEF Start
  <2>2. ASSUME NEW set \in {bound, None},
               start' = [start EXCEPT ![t].phase = "answered",
                                      ![t].binding = set]
        PROVE  /\ start'[t].browser = start[t].browser
               /\ start'[t].phase = "answered"
               /\ start'[t].binding \in {bound, None}
               /\ start'[t].state = None
               /\ \A x \in Starts \ {t} : start'[x] = start[x]
    BY <1>1, <2>2 DEF Start
  <2> QED
    BY <1>5, <2>1, <2>2
<1>7. /\ flows \subseteq flows'
      /\ \A f \in flows' \ flows :
           f.state = st /\ f.binding = bound /\ f.till = now + FlowTTL
  BY <1>3, <1>4
<1> QED
  BY <1>2, <1>6, <1>7

\* Steps that start nothing and tell nothing keep the bindings as they are:
\* flows go, and cookies run out, but not before the flows they hold.
LEMMA TabsElsewhere ==
  ASSUME Types, Tabs, UNCHANGED <<cookie, start, told, startedBy, crowded>>,
         flows' \subseteq flows, now' \in Nat, now <= now'
  PROVE  Tabs'
<1>1. /\ told' \in [Browsers -> SUBSET States]
      /\ \A t \in Starts : ParkedAs(t)'
      /\ ToldBegun'
  BY DEF Tabs, ParkedAs, ToldBegun
<1>2. Timely'
  BY TimeAssumption DEF Tabs, Timely, Types, Flow
<1>3. ASSUME NEW b \in Browsers \ crowded
      PROVE  OneBinding(b)'
  <2>1. browserBinding(b)' \in {None, browserBinding(b)}
    BY DEF browserBinding, Types
  <2>2. Alike(b)'
    BY DEF Tabs, OneBinding, Alike
  <2>3. AsHeld(b)'
    BY <2>1 DEF Tabs, OneBinding, AsHeld
  <2>4. Held(b)'
    <3> SUFFICES ASSUME NEW f \in flows, f.state \in told[b], now' <= f.till
                 PROVE  cookie[b].val = f.binding /\ f.till <= cookie[b].till
      BY DEF Held
    <3>1. now <= f.till
      BY DEF Types, Flow
    <3> QED
      BY <3>1 DEF Tabs, OneBinding, Held
  <2> QED
    BY <2>2, <2>3, <2>4 DEF OneBinding
<1> QED
  BY <1>1, <1>2, <1>3 DEF Tabs

\* A tab's start carries the browser's binding; where another is on its way
\* and one of them brings none, the browser is crowded.
LEMMA TabsSend ==
  ASSUME Types, Tabs, NEW t \in Starts, NEW c \in Browsers, StartSend(t, c)
  PROVE  Tabs'
<1>1. /\ start'[t].phase = "sent" /\ start'[t].browser = c
      /\ start'[t].binding = browserBinding(c) /\ start'[t].state = None
      /\ \A x \in Starts \ {t} : start'[x] = start[x]
  BY DEF StartSend, Types
<1>2. /\ UNCHANGED <<now, cookie, flows, told, startedBy>>
      /\ crowded \subseteq crowded' /\ start[t].phase = "idle"
  BY DEF StartSend
<1>3. c \notin crowded' => \A u \in Starts : start[u].browser = c =>
                              start[u].binding # None /\ browserBinding(c) # None
  BY DEF StartSend
<1>4. \A b \in Browsers : browserBinding(b)' = browserBinding(b)
  BY <1>2 DEF browserBinding
<1>5. \A x \in Starts : ParkedAs(x)'
  BY <1>1, <1>2 DEF Tabs, ParkedAs
<1>6. Timely' /\ ToldBegun' /\ \A b \in Browsers : Held(b)' <=> Held(b)
  BY <1>2 DEF Tabs, Timely, ToldBegun, Held
<1>7. ASSUME NEW b \in Browsers \ crowded'
      PROVE  OneBinding(b)'
  <2>1. Alike(b) /\ AsHeld(b) /\ Held(b)
    BY <1>2 DEF Tabs, OneBinding
  <2>2. CASE b # c
    BY <1>1, <1>4, <1>6, <2>1, <2>2 DEF OneBinding, Alike, AsHeld
  <2>3. CASE b = c
    <3>1. \A u \in Starts : start[u].browser = b =>
             start[u].binding # None /\ start[u].binding = browserBinding(b)
      BY <1>3, <2>1, <2>3 DEF AsHeld
    <3>2. \A u, v \in Starts : u # v /\ start'[u].browser = b
                                 /\ start'[v].browser = b =>
             /\ start'[u].binding = browserBinding(b)
             /\ browserBinding(b) # None
      BY <1>1, <1>3, <2>3, <3>1
    <3>3. Alike(b)'
      BY <3>2 DEF Alike
    <3>4. AsHeld(b)'
      BY <1>1, <1>4, <2>1, <2>3 DEF AsHeld
    <3> QED
      BY <1>6, <2>1, <3>3, <3>4 DEF OneBinding
  <2> QED
    BY <2>2, <2>3
<1> QED
  BY <1>2, <1>5, <1>6, <1>7 DEF Tabs

\* loginStart keeps the binding that was sent; the sign-in is new, so nobody
\* was told of it yet.
LEMMA TabsPark ==
  ASSUME Types, Tabs, \A f \in flows : FlowOwned(f),
         NEW t \in Starts, NEW st \in States, loginStart(t, st)
  PROVE  Tabs'
<1>1. /\ start[t].phase = "sent" /\ start[t].state = None
      /\ startedBy[st].browser = None /\ startedBy'[st].browser # None
      /\ \A v \in States : startedBy[v].browser # None =>
                             startedBy'[v].browser # None
      /\ UNCHANGED <<now, cookie, told, crowded>>
  BY NoneAssumption DEF loginStart, Tabs, ParkedAs, Types
<1>2. PICK bound \in States :
        /\ start[t].binding # None => bound = start[t].binding
        /\ start'[t].browser = start[t].browser
        /\ start'[t].phase = "answered"
        /\ start'[t].binding \in {bound, None}
        /\ start'[t].state # None =>
             start'[t].state = st /\ start'[t].binding = bound
        /\ \A x \in Starts \ {t} : start'[x] = start[x]
        /\ flows \subseteq flows'
        /\ \A f \in flows' \ flows :
             f.state = st /\ f.binding = bound /\ f.till = now + FlowTTL
  BY <1>1, ParkFacts
<1>3. bound # None
  BY NoneAssumption
<1>4. ASSUME NEW x \in Starts
      PROVE  ParkedAs(x)'
  <2>1. start[x].state # st \/ start[x].state = None
    BY <1>1, <1>3 DEF Tabs, ParkedAs
  <2>2. CASE x = t
    <3>1. \A f \in flows : f.state # st
      BY <1>1, NoneAssumption DEF FlowOwned
    <3> QED
      BY <1>1, <1>2, <1>3, <2>2, <3>1 DEF ParkedAs
  <2>3. CASE x # t
    BY <1>1, <1>2, <2>1, <2>3 DEF Tabs, ParkedAs, Types, Start
  <2> QED
    BY <2>2, <2>3
<1>5. Timely' /\ ToldBegun'
  BY <1>1, <1>2, TimeAssumption DEF Tabs, Timely, ToldBegun, Types
<1>6. \A b \in Browsers : browserBinding(b)' = browserBinding(b)
  BY <1>1 DEF browserBinding
<1>7. ASSUME NEW b \in Browsers \ crowded'
      PROVE  OneBinding(b)'
  <2>1. Alike(b) /\ AsHeld(b) /\ Held(b)
    BY <1>1 DEF Tabs, OneBinding
  <2>2. Alike(b)'
    BY <1>1, <1>2, <2>1 DEF Alike
  <2>3. AsHeld(b)'
    BY <1>1, <1>2, <1>6, <2>1 DEF AsHeld
  <2>4. Held(b)'
    <3>1. st \notin told[b]
      BY <1>1 DEF Tabs, ToldBegun
    <3> QED
      BY <1>1, <1>2, <2>1, <3>1 DEF Held
  <2> QED
    BY <2>2, <2>3, <2>4 DEF OneBinding
<1> QED
  BY <1>1, <1>4, <1>5, <1>7 DEF Tabs

\* The cookie is set anew for as long as any flow can last, under the binding
\* the browser's live sign-ins are parked under.
LEMMA TabsDeliver ==
  ASSUME Types, Tabs, NEW t \in Starts, StartDeliver(t)
  PROVE  Tabs'
<1> DEFINE c == start[t].browser
           k == start[t].binding
<1>1. /\ start[t].phase = "answered" /\ c \in Browsers
      /\ UNCHANGED <<now, flows, startedBy, crowded>>
      /\ start'[t] = IdleStart
      /\ \A x \in Starts \ {t} : start'[x] = start[x]
      /\ \A b \in Browsers \ {c} : cookie'[b] = cookie[b] /\ told'[b] = told[b]
  BY DEF StartDeliver, Types, Tabs
<1>2. /\ k = None => cookie'[c] = cookie[c]
      /\ k # None => cookie'[c].val = k /\ cookie'[c].till = now + FlowTTL
  BY <1>1 DEF StartDeliver, Types
<1>3. /\ start[t].state = None => told'[c] = told[c]
      /\ start[t].state # None => told'[c] = told[c] \cup {start[t].state}
  BY <1>1 DEF StartDeliver, Tabs
<1>4. start[t].state \in States \cup {None}
  BY DEF Types, Start
<1>5. told' \in [Browsers -> SUBSET States] /\ ToldBegun'
  <2>1. told' \in [Browsers -> SUBSET States]
    BY <1>1, <1>4 DEF StartDeliver, Tabs
  <2>2. ToldBegun'
    BY <1>1, <1>3, <1>4 DEF Tabs, ToldBegun, ParkedAs
  <2> QED
    BY <2>1, <2>2
<1>6. (\A x \in Starts : ParkedAs(x)') /\ Timely'
  BY <1>1, IdleStartFacts DEF Tabs, ParkedAs, Timely
<1>7. ASSUME NEW b \in Browsers \ crowded'
      PROVE  OneBinding(b)'
  <2>1. Alike(b) /\ AsHeld(b) /\ Held(b)
    BY <1>1 DEF Tabs, OneBinding
  <2>2. \A x \in Starts : start'[x].browser = b => x # t /\ start'[x] = start[x]
    BY <1>1, IdleStartFacts, NoneAssumption
  <2>3. Alike(b)'
    BY <2>1, <2>2 DEF Alike
  <2>4. CASE b # c \/ k = None
    <3>1. cookie'[b] = cookie[b] /\ browserBinding(b)' = browserBinding(b)
      BY <1>1, <1>2, <2>4 DEF browserBinding
    <3>2. told'[b] = told[b]
      BY <1>1, <1>3, <2>4 DEF Tabs, ParkedAs
    <3>3. AsHeld(b)' /\ Held(b)'
      BY <1>1, <2>1, <2>2, <3>1, <3>2 DEF AsHeld, Held
    <3> QED
      BY <2>3, <3>3 DEF OneBinding
  <2>5. CASE b = c /\ k # None
    <3>1. browserBinding(b)' \in {None, k}
      BY <1>2, <2>5 DEF browserBinding
    <3>2. \A x \in Starts :
            start'[x].browser = b
              /\ (start'[x].phase = "sent" \/ start'[x].binding # None)
              => start'[x].binding = k
      BY <2>1, <2>2, <2>5 DEF Alike
    <3>3. AsHeld(b)'
      BY <3>1, <3>2 DEF AsHeld
    <3>4. ASSUME NEW f \in flows, f.state \in told'[b], now <= f.till
          PROVE  cookie'[b].val = f.binding /\ f.till <= cookie'[b].till
      <4>1. f.till <= now + FlowTTL /\ f.binding # None
        BY NoneAssumption DEF Tabs, Timely, Types, Flow
      <4>2. f.binding = k
        <5>1. CASE f.state = start[t].state /\ start[t].state # None
          BY <5>1 DEF Tabs, ParkedAs
        <5>2. CASE f.state \in told[b]
          <6>1. cookie[b].val = f.binding /\ f.till <= cookie[b].till
            BY <2>1, <3>4, <5>2 DEF Held
          <6>2. browserBinding(b) = f.binding
            BY <3>4, <6>1 DEF browserBinding, Types, Flow
          <6> QED
            BY <2>1, <2>5, <4>1, <6>2 DEF AsHeld
        <5> QED
          BY <1>3, <2>5, <3>4, <5>1, <5>2
      <4> QED
        BY <1>2, <2>5, <4>1, <4>2
    <3>5. Held(b)'
      BY <1>1, <3>4 DEF Held
    <3> QED
      BY <2>3, <3>3, <3>5 DEF OneBinding
  <2> QED
    BY <2>4, <2>5
<1> QED
  BY <1>1, <1>5, <1>6, <1>7 DEF Tabs

\* A lost answer leaves the browser with what it has.
LEMMA TabsLost ==
  ASSUME Types, Tabs, NEW t \in Starts, StartLost(t)
  PROVE  Tabs'
<1>1. /\ UNCHANGED <<now, cookie, flows, told, startedBy, crowded>>
      /\ start'[t] = IdleStart
      /\ \A x \in Starts \ {t} : start'[x] = start[x]
  BY DEF StartLost, Types
<1>2. (\A x \in Starts : ParkedAs(x)') /\ Timely' /\ ToldBegun'
  BY <1>1, IdleStartFacts DEF Tabs, ParkedAs, Timely, ToldBegun
<1>3. ASSUME NEW b \in Browsers \ crowded'
      PROVE  OneBinding(b)'
  <2>1. \A x \in Starts : start'[x].browser = b => x # t /\ start'[x] = start[x]
    BY <1>1, IdleStartFacts, NoneAssumption
  <2>2. OneBinding(b) /\ browserBinding(b)' = browserBinding(b)
    BY <1>1 DEF Tabs, browserBinding
  <2> QED
    BY <1>1, <2>1, <2>2 DEF OneBinding, Alike, AsHeld, Held
<1> QED
  BY <1>1, <1>2, <1>3 DEF Tabs

\* Every step keeps a browser that is not crowded to one binding.
LEMMA TabsStep ==
  ASSUME Types, Tabs, Owned, [Next]_vars
  PROVE  Tabs'
<1>1. ASSUME NEW t \in Starts,
             \/ \E b \in Browsers : StartSend(t, b)
             \/ \E st \in States : loginStart(t, st)
             \/ StartDeliver(t) \/ StartLost(t)
      PROVE  Tabs'
  BY <1>1, TabsSend, TabsPark, TabsDeliver, TabsLost DEF Owned
<1>2. ASSUME UNCHANGED <<cookie, start, told, startedBy, crowded>>,
             flows' \subseteq flows, now' = now \/ now' = now + 1
      PROVE  Tabs'
  BY <1>2, TabsElsewhere DEF Types
<1>3. ASSUME NEW c \in Returns, NEW b \in Browsers, NEW st \in States,
             NEW code \in States, loginCallback(c, b, st, code)
      PROVE  Tabs'
  <2>1. flows' \subseteq flows
    BY <1>3, CallbackFacts
  <2> QED
    BY <1>2, <1>3, <2>1 DEF loginCallback
<1>4. CASE \/ \E st \in States, at \in Time : Authenticate(st, at)
           \/ \E b \in Browsers, asks \in Asks : loginCallbackRefused(b, asks)
           \/ \E c \in Returns :
                FinishReturn(c) \/ exchangeFlow(c) \/ establishSession(c)
           \/ \E f \in flows : ExpireFlow(f)
           \/ Tick \/ UNCHANGED vars
  BY <1>2, <1>4 DEF Authenticate, loginCallbackRefused, exchangeFlow,
     FinishReturn, establishSession, ExpireFlow, Tick, vars
<1> QED
  BY <1>1, <1>3, <1>4 DEF Next

----------------------------------------------------------------------------
(* The theorems.                                                           *)

IInv == Types /\ Owned /\ Single /\ Tabs

\* The invariant holds of every reachable state of routes/session.go's sign-in.
THEOREM SignInCorrect == Spec => []IInv
<1>1. Init => IInv
  BY TypesInit, OwnedInit, SingleInit, TabsInit DEF IInv
<1>2. IInv /\ [Next]_vars => IInv'
  BY TypesStep, OwnedStep, SingleStep, TabsStep DEF IInv
<1> QED
  BY <1>1, <1>2, PTL DEF Spec

\* A session is only established in the browser that began its sign-in: the
\* sign-in cookie and FlowKey.
THEOREM SignedInThere == Spec => []SignedInWhereStarted
<1>1. IInv => SignedInWhereStarted
  BY DEF IInv, Owned, SessionOwned, SignedInWhereStarted
<1> QED
  BY <1>1, SignInCorrect, PTL

\* A flow, with its verifier and nonce, goes into one exchange at most, however
\* often its return is repeated: TakeFlow's "single use".
THEOREM FlowExchangedOnce == Spec => []ExchangedOnce
<1>1. IInv => ExchangedOnce
  BY DEF IInv, Single, RedeemedOnce, ExchangedOnce
<1> QED
  BY <1>1, SignInCorrect, PTL

\* A session rests on an authentication since its sign-in began: freshOnly and
\* IDTokenCheck.Started.
THEOREM AuthenticationIsFresh == Spec => []FreshSignIn
<1>1. IInv => FreshSignIn
  BY DEF IInv, Owned, SessionOwned, FreshSignIn
<1> QED
  BY <1>1, SignInCorrect, PTL

\* Two sign-ins started in two tabs both finish: while a sign-in the browser
\* was told of is parked and live, the browser holds the binding it is parked
\* under (bindBrowser), unless the tabs started at once without one.
THEOREM BothTabsFinish == Spec => []TwoTabsBothFinish
<1>1. ASSUME IInv, NEW b \in Browsers \ crowded, NEW f \in flows,
             f.state \in told[b], now <= f.till
      PROVE  browserBinding(b) = f.binding
  <2>1. cookie[b].val = f.binding /\ f.till <= cookie[b].till
    BY <1>1 DEF IInv, Tabs, OneBinding, Held
  <2> QED
    BY <1>1, <2>1 DEF browserBinding, IInv, Types, Flow
<1>2. IInv => TwoTabsBothFinish
  BY <1>1 DEF TwoTabsBothFinish
<1> QED
  BY <1>2, SignInCorrect, PTL

\* A live flow leaves the store only at a return of its own state that came
\* with its own binding from the browser that began it (TakeFlow, FlowKey),
\* whether the return then goes on or is redirected.
THEOREM ParkedUntilItsReturn == Spec => ParkedForItsBrowser
<1>1. ASSUME IInv, Next, NEW f \in flows, f \notin flows'
      PROVE  \/ now > f.till
             \/ \E c \in Returns :
                  /\ ret[c].phase = "idle"
                  /\ ret'[c].phase \in {"taken", "redirected"}
                  /\ ret'[c].state = f.state
                  /\ ret'[c].binding = f.binding
                  /\ ret'[c].browser = startedBy[f.state].browser
  <2>1. ASSUME NEW c \in Returns, NEW b \in Browsers, NEW st \in States,
               NEW code \in States, loginCallback(c, b, st, code)
        PROVE  \/ now > f.till
               \/ /\ ret[c].phase = "idle"
                  /\ ret'[c].phase \in {"taken", "redirected"}
                  /\ ret'[c].state = f.state
                  /\ ret'[c].binding = f.binding
                  /\ ret'[c].browser = startedBy[f.state].browser
    <3>1. f.state = st /\ f.binding = browserBinding(b)
      BY <1>1, <2>1, CallbackFacts DEF IInv, FlowKey
    <3>2. startedBy[f.state].browser = b
      <4>1. BindingOf(f.binding, startedBy[f.state].browser)
        BY <1>1 DEF IInv, Owned, FlowOwned
      <4>2. cookie[b].val = f.binding /\ cookie[b].val # None
        BY <1>1, <2>1, <3>1, BindingFacts, CallbackFacts DEF IInv
      <4>3. BindingOf(f.binding, b)
        BY <1>1, <4>2 DEF IInv, Owned, CookiesOwned
      <4> QED
        BY <4>1, <4>3 DEF BindingOf
    <3>3. CASE ret' = ret /\ \A g \in flows \ flows' : now > g.till
      BY <1>1, <3>3
    <3>4. ASSUME NEW q \in Return, ret' = [ret EXCEPT ![c] = q],
                 q.phase \in {"taken", "redirected"}, q.state = st,
                 q.browser = b, q.binding = browserBinding(b)
          PROVE  /\ ret'[c].phase \in {"taken", "redirected"}
                 /\ ret'[c].state = f.state
                 /\ ret'[c].binding = f.binding
                 /\ ret'[c].browser = startedBy[f.state].browser
      BY <1>1, <3>1, <3>2, <3>4, ReturnSet DEF IInv
    <3>5. ret[c].phase = "idle"
      BY <2>1 DEF loginCallback
    <3>6. \/ ret' = ret /\ \A g \in flows \ flows' : now > g.till
          \/ \E q \in Return :
               /\ ret' = [ret EXCEPT ![c] = q]
               /\ q.phase \in {"taken", "redirected"} /\ q.state = st
               /\ q.browser = b /\ q.binding = browserBinding(b)
      BY <1>1, <2>1, CallbackFacts DEF IInv
    <3> QED
      BY <3>3, <3>4, <3>5, <3>6
  <2>2. ASSUME NEW t \in Starts, NEW st \in States, loginStart(t, st)
        PROVE  FALSE
    BY <1>1, <2>2, LoginStartFacts DEF IInv
  <2> QED
    BY <1>1, <2>1, <2>2 DEF Next, vars, StartSend, StartDeliver, StartLost,
       Authenticate, loginCallbackRefused, FinishReturn, exchangeFlow,
       establishSession, ExpireFlow, Tick
<1>2. IInv /\ [Next]_vars =>
        [\A f \in flows : f \notin flows' =>
           \/ now > f.till
           \/ \E c \in Returns :
                /\ ret[c].phase = "idle"
                /\ ret'[c].phase \in {"taken", "redirected"}
                /\ ret'[c].state = f.state
                /\ ret'[c].binding = f.binding
                /\ ret'[c].browser = startedBy[f.state].browser]_vars
  BY <1>1
<1> QED
  BY <1>2, SignInCorrect, PTL DEF Spec, ParkedForItsBrowser

=============================================================================
