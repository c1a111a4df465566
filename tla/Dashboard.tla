----------------------------- MODULE Dashboard -----------------------------
(***************************************************************************)
(* The composed library view (routes/dashboard.go): three listings read    *)
(* one after the other from two services, collapsed to one row per         *)
(* document chain.  The library goes on changing between the reads.        *)
(*                                                                         *)
(* A chain is addressable by its root and by its live head.  Listings are  *)
(* sets: no step of the composition depends on their order.                *)
(***************************************************************************)
EXTENDS Integers, FiniteSets, FiniteSetsExt

CONSTANTS Roots,       \* documents, each the root of a chain
          Envelopes,   \* envelope ids; time-ordered, so numbers
          MaxTouch,    \* bound on the envelopes' last-mutation times
          MaxUntil,    \* bound on retention instants
          ChainPage,   \* the page size of the chain listing
          MaxTasks,    \* bound on open invitations
          MaxChanges   \* bound on the library's changes during one request

ASSUME EnvelopeAssumption == Envelopes \subseteq Nat
ASSUME BoundAssumption == {MaxTouch, MaxUntil, ChainPage, MaxTasks, MaxChanges}
                             \subseteq Nat

VARIABLES
  chains,   \* the document service's live chains
  envs,     \* the envelope service's envelopes of the user
  tasks,    \* envelopes that await the user's signature: sets of document ids
  changes,  \* library changes since the request's first read
  read,     \* what the request has read so far
  rows      \* the answer

dashboardVars == <<chains, envs, tasks, changes, read, rows>>

----------------------------------------------------------------------------
RootId(d) == <<d, "root">>
HeadId(d) == <<d, "signed">>
Ids == {RootId(d) : d \in Roots} \cup {HeadId(d) : d \in Roots}

Unbounded == 0   \* a retention instant that is not set

\* Of a status only its being terminal (completed, declined, cancelled,
\* expired) matters here.
Statuses == {"active", "completed"}
terminal == {"completed"}

\* A chain is a record of its root, its head and its retention end; an envelope
\* of its id, docs, status, updatedAt and, as a row, its retention end.

NothingRead == [phase |-> "idle", tasks |-> {}, envs |-> {}, chains |-> {}]
NoRows == [tasks |-> {}, envs |-> {}, chains |-> {}]

\* The ids a chain goes by.
Names(c) == {c.root, c.head}
Covers(docs, c) == Names(c) \cap docs # {}

----------------------------------------------------------------------------
(* The composition.                                                        *)

\* Faulty variant: only the chain's root is looked up.
standaloneByRoot(tk, es, cs) ==
  LET covered == UNION (tk \cup {e.docs : e \in es}) IN
  {c \in cs : c.root \notin covered}

\* The chains no envelope of the user and no open invitation covers.
standalone(tk, es, cs) ==
  LET covered == UNION (tk \cup {e.docs : e \in es}) IN
  {c \in cs : ~Covers(covered, c)}

\* withoutDestroyedChains: a terminal envelope with documents stays only while
\* one of them is in the chain listing; an empty listing drops nothing.
withoutDestroyedChains(es, cs) ==
  IF cs = {} THEN es
  ELSE {e \in es : \/ e.status \notin terminal \/ e.docs = {}
                   \/ \E c \in cs : Covers(e.docs, c)}

\* actedLater: the later mutation, and of two at one time the later created.
actedLater(a, b) == \/ a.updatedAt > b.updatedAt
                    \/ a.updatedAt = b.updatedAt /\ a.id > b.id

\* Faulty variant: an envelope has to be the latest of all its documents.
latestOfAll(es) ==
  {e \in es : \A d \in e.docs : \A f \in es : d \in f.docs => ~actedLater(f, e)}

\* latestPerChain: an envelope stays while it is the last to have acted on one
\* of its documents, or has none.
latestPerChain(es) ==
  {e \in es : \/ e.docs = {}
              \/ \E d \in e.docs :
                   \A f \in es : d \in f.docs => ~actedLater(f, e)}

\* Faulty variant: the horizon comes from the document seen last.
withRetentionLast(es, cs) ==
  {LET known == {c.until : c \in {k \in cs : Covers(e.docs, k)}} \ {Unbounded}
   IN IF known = {} THEN e ELSE [e EXCEPT !.until = Max(known)] : e \in es}

\* withRetention: an envelope goes with the soonest of its documents whose
\* retention instant is known.
withRetention(es, cs) ==
  {LET known == {c.until : c \in {k \in cs : Covers(e.docs, k)}} \ {Unbounded}
   IN IF known = {} THEN e ELSE [e EXCEPT !.until = Min(known)] : e \in es}

\* Faulty variant: collapsed first, destroyed envelopes dropped after.
EnvelopeRowsSwapped(es, cs) ==
  withRetention(withoutDestroyedChains(latestPerChain(es), cs), cs)

EnvelopeRows(es, cs) ==
  withRetention(latestPerChain(withoutDestroyedChains(es, cs)), cs)

----------------------------------------------------------------------------
(* The request.                                                            *)

readTasks ==
  /\ read.phase = "idle"
  /\ read' = [read EXCEPT !.phase = "tasks", !.tasks = tasks]
  /\ UNCHANGED <<chains, envs, tasks, changes, rows>>

readEnvelopes ==
  /\ read.phase = "tasks"
  /\ read' = [read EXCEPT !.phase = "envelopes", !.envs = envs]
  /\ UNCHANGED <<chains, envs, tasks, changes, rows>>

\* The first page of the chain listing, whatever its order.
ChainPages ==
  {page \in SUBSET chains :
     Cardinality(page) = Min({ChainPage, Cardinality(chains)})}

\* The last read, and the answer composed from the three.
dashboard ==
  /\ read.phase = "envelopes"
  /\ \E page \in ChainPages :
       /\ read' = [read EXCEPT !.phase = "answered", !.chains = page]
       /\ rows' = [tasks |-> read.tasks,
                   envs |-> EnvelopeRows(read.envs, page),
                   chains |-> standalone(read.tasks, read.envs, page)]
  /\ UNCHANGED <<chains, envs, tasks, changes>>

\* One of the services did not answer (the first read is no different from no
\* request): relayed, and nothing is rendered.
relayErr ==
  /\ read.phase \in {"tasks", "envelopes"}
  /\ read' = NothingRead /\ changes' = 0
  /\ UNCHANGED <<chains, envs, tasks, rows>>

Rendered ==
  /\ read.phase = "answered"
  /\ read' = NothingRead /\ changes' = 0
  /\ rows' = NoRows
  /\ UNCHANGED <<chains, envs, tasks>>

----------------------------------------------------------------------------
(* The library at the two services (external).                             *)

Upload(d, until) ==
  /\ \A c \in chains : c.root # RootId(d)
  /\ \A e \in envs : {RootId(d), HeadId(d)} \cap e.docs = {}
  /\ chains' = chains \cup {[root |-> RootId(d), head |-> RootId(d),
                             until |-> until]}
  /\ UNCHANGED <<envs, tasks>>

\* A signed container becomes the chain's live head, in place of an earlier
\* one when the document is signed again: the two go by one id here.
Sign(c) ==
  /\ chains' = (chains \ {c})
       \cup {[c EXCEPT !.head = HeadId(CHOOSE d \in Roots : RootId(d) = c.root)]}
  /\ UNCHANGED <<envs, tasks>>

\* Retention destroys the chain's storage.
Destroy(c) ==
  /\ chains' = chains \ {c}
  /\ UNCHANGED <<envs, tasks>>

\* An envelope over documents of live chains, by their roots as a rule but by
\* their heads too, or over none yet.
CreateEnvelope(id, docs, at) ==
  /\ \A e \in envs : e.id < id
  /\ \A e \in envs : e.updatedAt <= at
  /\ envs' = envs \cup {[id |-> id, docs |-> docs, status |-> "active",
                         updatedAt |-> at, until |-> Unbounded]}
  /\ UNCHANGED <<chains, tasks>>

\* An envelope is sent, signed, reopened, cancelled or completed.
Touch(e, status, at) ==
  /\ status # e.status
  /\ \A f \in envs : f.updatedAt <= at
  /\ envs' = (envs \ {e}) \cup {[e EXCEPT !.status = status, !.updatedAt = at]}
  /\ UNCHANGED <<chains, tasks>>

\* Somebody invites the user to sign a document, or the invitation is over.
Invite(c) ==
  /\ Cardinality(tasks) < MaxTasks
  /\ tasks' = tasks \cup {{c.root}}
  /\ UNCHANGED <<chains, envs>>

Uninvite(t) ==
  /\ tasks' = tasks \ {t}
  /\ UNCHANGED <<chains, envs>>

Library ==
  /\ read.phase = "idle" \/ changes < MaxChanges
  /\ changes' = IF read.phase = "idle" THEN 0 ELSE changes + 1
  /\ \/ \E d \in Roots, until \in 0..MaxUntil : Upload(d, until)
     \/ \E c \in chains : Sign(c) \/ Destroy(c) \/ Invite(c)
     \/ \E id \in Envelopes, docs \in SUBSET UNION {Names(c) : c \in chains},
           at \in 0..MaxTouch : CreateEnvelope(id, docs, at)
     \/ \E e \in envs, status \in Statuses, at \in 0..MaxTouch :
          Touch(e, status, at)
     \/ \E t \in tasks : Uninvite(t)
  /\ UNCHANGED <<read, rows>>

----------------------------------------------------------------------------
DashboardInit ==
  /\ chains = {} /\ envs = {} /\ tasks = {} /\ changes = 0
  /\ read = NothingRead
  /\ rows = NoRows

DashboardNext ==
  \/ readTasks \/ readEnvelopes \/ dashboard \/ relayErr \/ Rendered
  \/ Library

DashboardSpec == DashboardInit /\ [][DashboardNext]_dashboardVars

----------------------------------------------------------------------------
(* Properties of the answer.                                               *)

\* A chain the listing names has a row: its own, or that of an envelope or an
\* invitation that covers it, also when the listings were read at different
\* moments (latestPerChain: "would leave the document with no row at all").
EveryListedChainHasARow ==
  \A c \in read.chains :
    \/ c \in rows.chains
    \/ \E e \in rows.envs : Covers(e.docs, c)
    \/ \E t \in rows.tasks : Covers(t, c)

\* "the browser can never render a document next to the envelope that contains
\* it" (dashboardResponse).
NotBesideItsEnvelope ==
  \A c \in rows.chains :
    /\ \A e \in rows.envs : ~Covers(e.docs, c)
    /\ \A t \in rows.tasks : ~Covers(t, c)

\* A listed envelope without a row is terminal with no document left in the
\* chain listing (withoutDestroyedChains), or has documents and each of them
\* the row of an envelope that acted later, whatever the two statuses are
\* (latestPerChain). So one with nothing attached always has its own: "it is
\* a row in its own right".
EveryEnvelopeAccountedFor ==
  \A e \in read.envs : read.phase = "answered" =>
    \/ \E f \in rows.envs : f.id = e.id
    \/ /\ e.status \in terminal /\ e.docs # {}
       /\ \A c \in read.chains : ~Covers(e.docs, c)
    \/ /\ e.docs # {}
       /\ \A d \in e.docs : \E f \in rows.envs : d \in f.docs /\ actedLater(f, e)

\* An envelope's row does not claim to last longer than any listed document it
\* covers (withRetention: "the soonest wins").
NoRowOutlivesItsDocuments ==
  \A e \in rows.envs : \A c \in read.chains :
    Covers(e.docs, c) /\ c.until # Unbounded
      => e.until # Unbounded /\ e.until <= c.until

\* withoutDestroyedChains drops a terminal envelope because "retention has
\* destroyed the storage": one with a document that is stored now, and was
\* when the listings were read, is never dropped.
DroppedOnlyWhenDestroyed ==
  read.phase = "answered" =>
    \A e \in read.envs :
      (\E c \in chains : Covers(e.docs, c))
        => \/ \E f \in rows.envs : f.id = e.id
           \/ \A d \in e.docs : \E f \in rows.envs : d \in f.docs
=============================================================================
