# Verification of the portal BFF

TLA+ modules, model-checking configurations and machine-checked proofs for the
portal's backend-for-frontend (`src/`): the Go service between the browser
application and the Auth, signing, envelope, document and preview services. The
service holds the browser's login session and the user's tokens, composes the
user-facing views from the other services, and keeps almost no data of its own.
What is hard in it is therefore not data but order: several requests of one
browser work on snapshots of one session, calls to other services take seconds
and may fail half way, answers arrive in any order, and request strings point
into buffers that the server reuses.

Paths below are relative to `src/`. "The route" is a handler in `routes/`; the
five other services, the browser, Redis and Go's runtime are modelled from how
this code uses them and marked *external*.

## 1. Inventory

| component | source | state it keeps | operations |
|---|---|---|---|
| portal session | `routes/session.go`, `middleware.go`, `cookies.go` | one entry per session id; the session cookie; the snapshot each request works on | `requireSession`, `csrfDenied`, `freshToken`, `refresh`, `logout`, `me`, `establishSession` |
| sign-in | `routes/session.go`, `cookies.go` | the parked flow under `FlowKey`; the sign-in cookie | `loginStart`, `loginCallback`, `bindBrowser`, `exchangeFlow` |
| session store | `session/` | flows and sessions with a time limit, in a map or in Redis | `PutFlow`, `TakeFlow`, `PutSession`, `GetSession`, `DeleteSession` |
| anonymous document check | `routes/verify.go`, `audit/verify.go`, `clients/verify.go` | the per-address gate; events to be posted | `verifyDocument`, `acquire`, `release`, `recordVerify` |
| offered flows | `clients/offer.go`, `routes/session.go` (`offeredOnly`) | the last answer, its error and the last attempt, under a mutex | `OfferedFlows.Get` |
| validation answer cache | `anscache.go`, `routes/anscache.go`, `documents.go`, `signing.go` | recent answers per user and target | `serveCachedAnswer`, `storeAnswer`, `Get`, `Set` |
| dashboard | `routes/dashboard.go` | none: three listings read one after the other | `withoutDestroyedChains`, `latestPerChain`, `withRetention` |
| envelope signing and view | `routes/envelope.go`, `signing.go` | none: the slot's recorded job and name are at the envelope service | `signEnvelopeSlot`, `getEnvelope`, `abandonSigning`, `clientSignature`, the relayed transitions |
| envelope creation | `routes/envelope.go`, `documents.go` | which clients `App.init` built | `createEnvelope`, `addEnvelopeSlot`, `inviteIdentity`, `bundleDocuments` |
| signing material | `routes/envelope.go`, `documents.go`, `session.go` | the capabilities in the session entry, captured at sign-in | `capabilitiesFromTokens`, `applyTokens`, `me`, `signEnvelopeSlot`, `archiveTimestamp` |
| document relays, previews | `routes/documents.go`, `preview.go` | none | `documentsReady`, `previewReady`, one call each, `relayErr` |
| personal-data access audit | `audit/`, `auditposter.go`, `app.go` | the outbox of access records, in memory or on disk | `documentRead`, `Post`, the drain task, `buildGDPRAudit`, `Stop` |
| delegated calls, error relay | `clients/clients.go`, `routes/router.go` | none | `doOnBehalf`, `relayErr` |
| rate limiter, edge events | `routes/router.go` | the framework's | configuration only |
| configuration, health, types | `config.go`, `health.go`, `request/`, `response/` | none | reading and answering |

How they interact. Every composed route goes through `requireSession`, which
reads the session once and puts a *snapshot* into the request; from there on the
route calls `onBehalf` (and so `freshToken`, which may refresh and write the
snapshot back), then other services one after the other, then answers. The
session store is the only state requests share, besides the gate, the offered
flows and the answer cache, which are process-wide objects with a mutex each, and
the outbox of access records. A download or an opened preview writes its access
record after the document or preview service has answered and before its own
answer goes out; the anonymous check posts its evidence event in the background.

Hard behaviours, and what correctness means for each component:

* **Portal session**: the Auth Service replaces the refresh token on use, so two
  racing refreshes must not end with a replaced token in the store; a session
  that is gone must stay gone; one nobody holds must come to be answered no more;
  every request is answered.
* **Sign-in**: a return may be repeated, come to another browser or come late, and
  the store may remove a flow and fail to say so. A flow is taken once, and only by
  the browser that began it, and its verifier goes into one exchange; several tabs
  do not spoil each other's sign-ins; a session rests on a fresh authentication.
* **Session store**: a flow is handed out once; nothing past its time is
  answered; keys read from request buffers are copied; a Redis command may be
  carried out more than once.
* **Document check**: the gate's counts are exact although its keys are views;
  an address with nothing in flight is admitted; a document that was looked at
  leaves one evidence event, which names its own caller.
* **Offered flows**: an unreachable service costs one timeout per TTL, for those
  in line too; an old answer never passes for a current one.
* **Answer cache**: an answer is the caller's own, its age is bounded, a forced
  validation is not answered from the cache.
* **Dashboard**: no listed chain is lost, whatever changes between the three reads,
  or shown beside its envelope; an envelope loses its row only with its documents or
  to the envelopes that acted on all of them later, and a draft without documents
  never does.
* **Access audit**: a record stands for an access the service granted, and names
  that request's document and person although the buffer they were read from is
  reused; bytes that were answered are on the trail across restarts when the
  outbox is durable. One record is made of an access; it may be delivered several
  times, when the answer to a delivery is lost.
* **Signing material**: what a signing is begun with is the session's own: a
  captured certificate goes out with the identity it was captured with and nothing
  takes its place, a picked seal is never replaced by another, and nothing captured
  at sign-in is lost when the token is renewed.
* **Envelope**: the view marks exactly the viewer's slots, shows a co-signer
  nothing of the others, keeps a signed slot's download; a slot's recorded job
  is its newest; an envelope holds its sender's whole document set.

`PROJECT.json` lists the hazards line by line, each with the properties that
would catch it.

## 2. Modules

Every module has one action per operation or call of the source, under the
source's name where there is one. A call to another service is a step of its
own, so that other requests interleave before and after it. A request is a
record in a *slot* (`Requests`, `Buffers`, `Callers`, ...): slots are reused, so
behaviours are unbounded in length. Operators commented "faulty variant" are
plausible bugs (a dropped guard, a missing reset, a swapped order); nothing of
the model uses them, they serve to show that each property can fail.

| module | models | state ↔ code |
|---|---|---|
| `PortalSession` | portal session | `store[s]`: generation of the refresh token in the entry `GetSession` would answer; `as[s]`: the Auth Service's session (external); `jar[b]`: the session cookie; `req[r]`: request with its snapshot (`gen`) and the cookies its answer writes; `ended`, `lost`: history |
| `SignIn` | sign-in | `flows`: parked flows; `cookie[b]`: the sign-in cookie with its expiry; `start`, `ret`: requests, a return going on with its flow or `redirected` when the flow is removed and not had; `auth[st]`: code and authentication time (external); the rest is history |
| `Store` | abstract: what the `Store` interface promises | `held[k]`: the entry under a key; `call[c]`: a call between begin and answer |
| `SessionStore` | both implementations, and their refinement of `Store` | `entries`: the map's entries, with a key that may be a view over a buffer, or Redis's; `call[c].left`: resends left |
| `Verify` | document check | `gate`: the map, an entry being its slot (the hash's place), the buffer its key points into and a count; `buf[c]`: address bytes; `events`: evidence not yet posted |
| `OfferedFlows` | offered flows | `mu`, `asked`, `at`, `flows`, `err`: the fields; `pc[c]`: a caller; `got[c]`: what it was returned |
| `AnswerCache` | answer cache and its two routes | `cache[k]`, `req[r]`; `stored`: history |
| `Dashboard` | dashboard | `chains`, `envs`, `tasks`: the services' (external); `read`: what was read so far; `rows`: the answer |
| `EnvelopeSigning` | signing and view | `slot[s]`, `status`, `job[j]`: the services' (external); `sign[r]`, `view`: requests; `known`: jobs the app was given |
| `EnvelopeCreate` | creation | `wired`; `docs`, `envs`, `slots`: the services'; `req[r]` |
| `SigningMaterial` | what a signing or an archive timestamp is begun with; extends `EnvelopeCreate` | `caps`: the session's capabilities; `picker`: the seals a tab shows; `act`: the request, with the `BeginInput` it sent; `captured`: history |
| `AccessTrail` | document and preview routes with the access audit; extends `Verify` | `urls`, `durable`: the deployment; `path[c]`: the document id's bytes in the buffer; `read[c]`: the request in it; `outbox`: records not known to be delivered, `taken` (history) when the audit service has them all the same; `granted`, `served`, `delivered`, `dropped`: history |

Two modules compose components. `AccessTrail` runs the anonymous check and the
signed-in document routes over the same request buffers and the same audit
service: an id kept as a view over a buffer is overwritten by a request of either
kind. `SigningMaterial` signs envelopes that were made as in `EnvelopeCreate`, under
the same wiring of clients. `SessionStore` instantiates `Store` under a refinement
mapping (`Promised`).

Each `...Proofs` module holds the theorems about the module it is named after:
`PortalSessionProofs`, `SignInProofs`, `SessionStoreProofs`, `AccessTrailProofs`
(with those of `Verify`), `OfferedFlowsProofs`, `AnswerCacheProofs` and
`SigningMaterialProofs` (with those of `EnvelopeCreate`). `EnvelopeProofs` is about an
envelope: its signing and its view (`EnvelopeSigning`) and its place among the
documents (`Dashboard`); it extends both, each with its own specification.

`MC*` modules only add symmetry sets and the invitations, deployments and
captured capabilities an instance uses.

What is abstracted: tokens are generation numbers, names, documents and
identities are model values, an identity code is its holder and a spelling
(`identitycode.Key` compares holders), a validation answer is whose it is and
when it was made, bodies and wording are left out. A key, a buffer's contents
and what a Go map does with them are *not* abstracted in `Verify`, `AccessTrail`
and `SessionStore`: there the properties turn on them.

## 3. Runs

Passing runs; states are distinct states, times are with two workers.

| run | bounds | states | what it shows |
|---|---|---|---|
| `portal_session` | 1 browser, 1 session id, 2 requests, 2 rotations | 43 k, 20 s | `QuietSessionIsCurrent`: outside a refresh that is still to be stored, the stored refresh token is the newest, unless an answer or write was lost. `GoneStaysGone`. Under fairness, `UnheldSessionGoes` and `EveryRequestAnswered` |
| `sign_in` | 2 browsers, 2 sign-ins, 2 starts and 2 returns in flight, clock to 2 | 354 k, 60 s | `SignedInWhereStarted`, `ExchangedOnce` (a flow's verifier goes into one exchange at most, whatever code the return carries), `FreshSignIn`, `TwoTabsBothFinish`, `ParkedForItsBrowser` (a live flow leaves the store only at a return with its own state and binding from its own browser, which goes on with it or, when the store's answer or the flow's key is lost, is redirected) |
| `session_store` | 2 callers, 1 flow, 1 session, 2 values, clock to 2, 1 resend | 132 k, 60 s | `ImplementsStore` (refinement), `HandedOutOnce`, `ExpiredIsNotServed`, for both backends |
| `verify` | 2 addresses, 2 buffers, configured cap 0, so 1; 1 user, 2 documents, outbox of 1, 1 read at a time, 2 accesses, three deployments, durable and not | 801 k, 90 s | the gate and the evidence of the anonymous check (`GateCountsInFlight`, `IdleAddressAdmitted`, `EvidenceNamesItsCaller`, `CheckedLeavesEvidenceOnce`) and the access records of document reads (`TrailIsTruthful`, `ServedAccessIsOnRecord`, `AccessLeavesOneRecord`), across restarts, lost answers of the audit service and repeated deliveries |
| `offered_flows` | 2 callers, TTL 2, timeout 2, clock to 7, 1 redeployment | 105 k, 20 s | `WaitsForOneCall`, `AskedOncePerTTL`, `UnmarkedAnswerIsRecent`, `LastAnswerKept`, and under fairness `EveryCallerAnswered` |
| `answer_cache` | 2 users, 1 target, 2 requests, TTL 2, a failing cache | 544 k, 15 s | `AnswerIsTheCallers`, `AnswerAgeBounded`, `ForcedAnswerIsFresh`, `RecentIsNotRepeated` |
| `dashboard` | 2 documents, 2 envelopes, 1 change between the reads | 2.6 M, 55 s | `EveryListedChainHasARow`, `NotBesideItsEnvelope`, `EveryEnvelopeAccountedFor`, `NoRowOutlivesItsDocuments` |
| `envelope_signing` | owner and co-signer, 2 slots, 2 sign requests, 2 jobs | 3.4 M, 100 s | `RecordedJobIsNewest`, `SignedSlotKeepsDownload`, `CoSignerSeesOwnOnly`, `NameIsTheSigners` |
| `envelope_create` | 2 files, 2 requests, 1 envelope, 2 seals, four wirings, eight captures, sign requests of any flow with any certificates | 374 k, 115 s | `WholeSetInOneDocument`, `InvitationsCanBeClaimed`, and over the same envelopes `MaterialBelongsTogether` |

Why the bounds are enough. The races this code can run into are between two
requests on one object (two refreshes, a refresh and a logout, two sign
requests, two validations): two slots make each of them happen, and because
slots are reused a third party still arrives between two steps of the others.
Three buffers let the key of a gate entry outlive its request while two others
run (`verify_gate_two`); at a cap of one two buffers suffice, one to hold a key
and one to look it up. One document read at a time is enough in `verify`, because
reads share nothing but the outbox, which one read after another fills, overfills
and drains while checks and restarts come between. Clocks run past every time limit, so that both sides of each comparison and
its boundary are reached. Two documents with two envelopes give every way two
document sets can overlap. All safety properties of the passing runs are moreover
proved for all sizes (section 4); the bounds matter for liveness, and for showing
that the interesting cases happen.

Symmetry is used over interchangeable slots and names, and only in runs without
liveness. Deadlock is checked in every run.

**Fairness.** `PortalSession`: weak fairness of each handler's next step, of an
answer's arrival or loss, and of the store's time limit. Every client call has a
time limit (`clients/`, `http.Client.Timeout`, `slow`), so a handler's call
returns with an answer or an error; the server answers or notices that the
connection is gone; an entry whose time has passed is answered by neither backend.
(Redis drops it then. The memory store keeps its bytes, certificates included, in
the map until the process ends; no property says that they go.) Nothing is assumed of which outcome a call has, nor that a browser ever sends anything.
`OfferedFlows`: weak fairness of the call's end (it has a five-second limit) and
strong fairness of a waiting caller's turn at the mutex, because Go's
`sync.Mutex` switches to hand-off when a waiter is starved; weak fairness would
not do, as the mutex is taken again and again.

### Disagreements the runs show

Each of these runs checks one statement of the repository and finds it violated.

* `portal_session_logout` (`GoneOnLogout`). `session/session.go:77` says of the
  session's contents "gone on logout/expiry". A refresh that has read the session
  before a logout deletes it writes it back afterwards (`routes/session.go:412`,
  `PutSession` is unconditional). The session is then held by no browser and is
  answered no more when its time limit runs out (`UnheldSessionGoes`), its token
  already revoked unless that call failed.
* `verify_gate_two` (`GateHoldsOnlyInFlight`). `routes/verify.go:246-247` says
  the map "only ever holds in-flight keys". Its keys are strings over request
  buffers. With `VERIFY_CONCURRENT_PER_IP` at one, the default, the only request
  of an address owns the buffer its key points into, and the counts are exact
  (`verify`). At two or more, the request whose buffer holds the key may end
  first; the next request in that buffer changes the key's bytes inside the map,
  `release` no longer finds the entry (`:252`), and it stays.
* `dashboard_page` (`DroppedOnlyWhenDestroyed`). `routes/dashboard.go:107-110`
  drops terminal envelopes whose storage "retention has destroyed". The chain
  listing it compares with is one page (`:60`, no cursor is followed), so a
  completed envelope over a document of the next page is dropped too.

Others, met while modelling and visible in the modules, which no run checks:

* `routes/envelope.go:88-94` keeps an envelope at one document by bundling;
  `attachEnvelopeDocument` (`:399`) relays a further document to an envelope that
  has one, and leaves it to the envelope service whether it may.
* `routes/documents.go:493` (`extractDataObject`) answers an inner file's bytes and
  leaves no access record of this service; its comment (`:484-488`) leaves that to the
  document service, so `AccessTrail` counts it among the relays.
* `routes/envelope.go:94`: `createEnvelope` asks `envelopeReady` only, and with
  two documents or more calls `Documents().Bundle` on a nil client when
  `DOCUMENT_BASE_URL` is not set, though `README.md:99` promises "`503
  …notConfigured`" (`EnvelopeCreate`, `createBundleUnwired`).
* `routes/cookies.go:86-87` says of tabs that "two sign-ins started in two tabs
  both finish": so they do when the browser holds a binding or the starts do not
  overlap. Two first starts at the same moment are each given a binding, and the
  last answer's stays (`SignIn`, `crowded`, which `TwoTabsBothFinish` excepts).
* `routes/verify.go:31-33` says "every request leaves a purpose-scoped evidence
  event"; one refused by the gate or by the file checks leaves none (`Verify`,
  `verifyRefused`, `fileRefused`).
* `routes/anscache.go:13-14` says `?force=1` "bypasses the cache and refreshes
  it"; a validation begun before a forced one and finished after it puts its
  older answer back (`AnswerCache`, `storeAnswer`).
* `routes/dashboard.go:209-211` says "one document can never occupy several rows
  at once"; envelopes over overlapping sets of documents each stay while they are
  the latest of one of them (`Dashboard`, `latestPerChain`).
* `clients/signflow.go:51-53` says that the sign identity is the one "the
  certificates belong to", and `routes/request/envelope.go:66-67` that redirect flows
  omit certificates; nothing checks the latter, and an app's certificate goes out
  with an identity that was captured without one (`routes/envelope.go:673`,
  `SigningMaterial`, `BeginInput`).
* `clients/envelope.go:142-145` says of the identity code "it is NEVER forwarded
  to the app"; the owner's view carries it (`routes/envelope.go:272`).

## 4. Proofs

Eight modules of theorems, for any sets of browsers, callers, buffers, users,
documents, jobs and seals and any time limits. Each `ASSUME` a proof uses is in
the module that declares the constants and says what tells constants apart (a
"none" is no member of a set, a record is not `None`), that limits are natural
numbers, or that the request buffers are finitely many; TLC evaluates all of
them on the instances it runs. A few theorems have a further hypothesis of their
own, on the deployment's size or settings, named with them below. In every module the argument is the same: the
invariants of section 3 are not inductive, so a stronger one is stated as a
conjunction of named parts, each part is shown to be kept by a lemma that goes
through the actions, and the properties follow from it.

**`PortalSessionProofs`.** `TypeOK` is inductive; it includes that a request past
`requireSession` works on a session it has read.

* `GoneForGood`: `Spec => GoneStaysGone`, from `TypeOK` alone: a request begins
  to work on a session only by finding it in the store (`SlotStep`), and an entry
  appears only by such a request's write or under a fresh id (`StoreStep`).
* `StoredTokenIsNewest`: `Spec => []QuietSessionIsCurrent`. That says nothing
  while a refresh is being stored, which is when the race happens. `TokenCustody`
  says who has custody of the newest token of a session: at most one request
  holds a refresh answer, what it holds is the newest token, and no snapshot and
  no stored token is newer than the Auth Service's. A second refresh on the old
  snapshot is refused there, so nothing older is ever written over the newest.
* `RevokedForGood`: how far `GoneOnLogout` (section 3) is off. A session that a
  sign-out has revoked and deleted stays out of the store, although requests may
  still work on snapshots of it: only a refresh granted before the revocation and
  not yet stored can write it back.

**`SignInProofs`.** `IInv` is `Owned` (every binding, in a cookie, a start, a flow
or a return, belongs to the browser its sign-in began in, and a session to an
authentication since then), `Single` (a sign-in is parked once, or in one
return, or redeemed once) and `Tabs`. From the first two: `SignedInThere`,
`FlowExchangedOnce`, `AuthenticationIsFresh` and, for each step,
`ParkedUntilItsReturn`, which leaves a flow that was removed without being had to a
return that is redirected.
`BothTabsFinish` needs `Tabs`, which speaks of browsers whose first starts did not
cross: all the bindings such a browser still has to do with, in its cookie, in
starts on their way and in live flows it was told of, are one (`OneBinding`), and a
cookie, renewed by every start's answer, outlives every such flow, because the
answer comes after the parking and both have the same lifetime.

**`SessionStoreProofs`.** `StoresKeepTheirPromise` is the refinement: `Init` maps to
`Store`'s, and each step of either backend is a step of `Store` or a stutter, by
one lemma per action. It rests on `Types`, which is inductive and says that
no stored key is a view and that a key has one entry; without that, what is
found under a key would not be what is held there. `FlowUsedOnce` needs
`SingleUse`: a flow is being put, stored, on its way to one call, or handed out,
and in one of these places only, which a resent `GETDEL` keeps.
`NothingExpiredServed` is shown of each step.

**`AccessTrailProofs`.** `Recorded` says how many records the request in a buffer
has left at each of its steps, and gives `OneRecordEach`, `OneEventEach` and
`EventNamesCaller`. The other two need a count: `Balanced` says for every access
that records accounted for (delivered, waiting, given up) and requests about to
record do not exceed what was granted, and that, with a durable outbox, answered
requests and those about to answer do not exceed the records. A record whose
delivery was not answered stays in the outbox, marked as taken, so that a repeated
delivery counts neither as a record of another access nor in its place; `Warranted`
says that what waits, so marked or not, names a granted access, so a repeated
delivery names one too. The finiteness of `Buffers` is needed to count requests. `IdleAddressNeverRefused` and `OneKeyPerCheck`
are proved for a configured cap of at most one, the default of
`VERIFY_CONCURRENT_PER_IP` (`config.go:202`): then every entry of the gate is of one
running check, under a key in that check's own buffer (`GateIsExact`). At two the
second fails (`verify_gate_two`). `GateCountsExactly` has the same hypothesis: an
address has one entry at most, so the sum over the map has one term or none. That
much of a fold is provable, by writing down the function its recursion defines on
two sets and showing that it is the one (`SumOfNone`, `SumOfOne`).

**`OfferedFlowsProofs`.** The invariant dates the attempt: while a call is out,
nobody in line has waited since before it began (`LineWhileAsking`), and while none
is, whoever waits has just come or the attempt they waited for has just ended
(`LineWhileIdle`). From it `OneCallAtMost`, `OldAnswersAreMarked`, `OneCallPerTTL`
and `NeverForgotten`.

**`AnswerCacheProofs`.** What a slot or an entry holds is of its own key and made at
most so long ago (`SlotsGood`, `CacheGood`), and an answer stored in time is still
there (`CacheKeeps`).

**`EnvelopeProofs`**, signing. `Owned`: a slot's job, container and name, and every row
of a view, refer to that slot and its signer. `Ordered`: jobs are numbered as
they begin, and one that is begun and not yet recorded is the newest, pending,
and known to its request alone. Hence `DownloadKept`, `CoSignerIsGivenOwnOnly`,
`NamedByItsSigner` and `NewestJobRecorded`.

**`EnvelopeProofs`**, dashboard. `AnsweredAsRead` says that the rows are the composition
of the listings as they were read; the rest is about the composition, for any three
listings, consistent with each other or not. It turns on two choices. Of the
envelopes that share a document one acted last (`LatestExists`, by well-foundedness
of the subsets of a finite set), and that one is kept (`LatestKept`); so what covers
a listed chain survives `withoutDestroyedChains`, because the chain is listed, and
`latestPerChain` hands its document to an envelope that has a row
(`ListedChainHasARow`, `EnvelopesAccountedFor`). And of the known retention ends one is
least (`MinFacts`), hence `RowsEndWithTheirDocuments`. `OnePageDropsOnlyDestroyed` is
what `dashboard_page` refutes, under the hypothesis that makes it true: no more
documents than a page has places. Its invariant (`OnePageInv`) is about the library
after the last read: chains keep their root and go by it and their signed head,
envelopes keep their documents, and nothing an envelope is over comes back once it is
destroyed. `Dashboard` gives the signed heads of a document one id, so an envelope over
a signed head keeps its chain when the document is signed again; with heads of their
own it would lose it, but an attached document is its chain's root
(`routes/dashboard.go:67-69`), and the head is matched only in case.

**`SigningMaterialProofs`.** The session keeps exactly what its sign-in captured,
through every renewal of the token, and a request in progress was begun from it;
what the choice of a seal and of certificates yields, whatever the request brings, is
in lemmas of its own (`ChosenSealFacts`, `ESealFacts`, `RedirectFacts`, `CardFacts`). `SlotsCanBeClaimed` is about
`EnvelopeCreate`'s slots, `EnvelopeHoldsTheWholeSet` about its documents: a request
carries one document that is its whole set, or the bundle of it, from the bundling
to the envelope, whatever other requests do meanwhile (`HoldsStep`). The property
compares concatenations; that of a sequence of one is all the proof needs
(`FlattenOne`).

Only model-checked is liveness (`UnheldSessionGoes`, `EveryRequestAnswered`,
`EveryCallerAnswered`), which is beyond the prover. Beyond it too is what a fold or a
recursive function of the library yields for every input, by induction over data:
the proofs need their values on empty and one-element arguments only, and least and
last elements are obtained from well-founded orders instead.

## 5. Not modelled

The token exchange inside a delegated call and the wording of problems
(stateless, and the shared library's); the rate limiter (the framework's); the
retry schedule inside the audit outbox (the shared library's); reading and
validating the configuration; health; types without behaviour. What an upload, a
deletion or a rebundle changes at the document service is modelled where this
service depends on it (`EnvelopeCreate`, `Dashboard`) and not elsewhere. Of the
envelope routes: listing envelopes, and attaching a further document. Of the
store: the readiness ping. The session store's model assumes that a Redis
command sent by an attempt that timed out is not carried out after the call was
answered. `SigningMaterial` has the app pick among seals it was shown, of whichever
session; a request's certificates are any, in any flow. How the audit service knows
a record that is delivered again is its own.

## 6. Plan

Done, in this order: `PortalSession` with its proofs, `SignIn`, `Verify`,
`OfferedFlows`, `AnswerCache`, `Dashboard`, `EnvelopeSigning`, `EnvelopeCreate`,
`Store` and `SessionStore`; then `AccessTrail` and `SigningMaterial`; then the proofs,
by now of every safety property of the passing runs.

Next:

1. Sharing: `PortalSession` and `SignIn` over `Store` in place of their own view of
   the map, now that both backends are proved to implement it.
2. The gate at a cap above one: what it still promises when a key has become
   another address's.
3. The envelope's documents: attaching, with what the envelope service allows.
