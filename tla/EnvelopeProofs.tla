--------------------------- MODULE EnvelopeProofs ---------------------------
(***************************************************************************)
(* What TLAPS proves of an envelope: of its signing and its view           *)
(* (EnvelopeSigning), for any number of people, slots, requests and jobs,  *)
(* and of its place among the documents (Dashboard), for any number of     *)
(* documents, envelopes and invitations and any page of the listing.       *)
(***************************************************************************)
EXTENDS EnvelopeSigning, Dashboard, FiniteSetTheorems, WellFoundedInduction,
        TLAPS

----------------------------------------------------------------------------
(* The types.                                                              *)

\* A slot as a view shows it.
Row == [you : BOOLEAN, shown : [ref : Refs \cup {None}, returnURL : BOOLEAN],
        name : People \cup {None}, container : Jobs \cup {None},
        state : {"pending", "signed", "abandoned", "gone", None}]
Request == [phase : {"idle", "eligible", "begun"}, slot : Nat,
            job : Jobs \cup {None}]
View == [phase : {"idle", "composing", "shown"}, viewer : People, at : Int,
         slots : UNION {[D -> Row] : D \in SUBSET Slots},
         read : UNION {[D -> SlotRecord] : D \in SUBSET Slots}]

Types ==
  /\ slot \in [Slots -> SlotRecord \cup {None}]
  /\ job \in [Jobs -> JobRecord \cup {None}]
  /\ \A j \in Begun : job[j].slot \in Present
  /\ sign \in [Signings -> Request]
  /\ \A r \in Signings : sign[r].phase # "idle" =>
       sign[r].slot \in Present
  /\ view \in View
  /\ DOMAIN view.slots = DOMAIN view.read /\ DOMAIN view.read \subseteq Present

----------------------------------------------------------------------------
(* The invariants.                                                         *)

\* Job j was begun for slot s.
JobOf(j, s) == j \in Begun /\ job[j].slot = s

\* What a slot refers to is its own: its job, its container, its name.
SlotOwn(s, sl) ==
  /\ sl.job # None => JobOf(sl.job, s)
  /\ sl.signedDocRef # None => JobOf(sl.signedDocRef, s)
  /\ sl.name # None => sl.name = Signer(sl)

\* A row of the view is what the viewer may see of the slot that was read.
RowOf(s, row, sl) ==
  /\ row.you <=> You(view.viewer, sl)
  /\ row.shown = Redacted(view.viewer, sl)
  /\ row.name # None => row.name = Signer(sl)
  /\ row.container # None => JobOf(row.container, s)
  /\ sl.signedDocRef # None => row.container # None

Owned ==
  /\ \A s \in Present : SlotOwn(s, slot[s])
  /\ \A s \in DOMAIN view.read :
       SlotOwn(s, view.read[s]) /\ RowOf(s, view.slots[s], view.read[s])
  /\ \A r \in Signings : sign[r].phase = "begun" =>
       sign[r].job # None /\ JobOf(sign[r].job, sign[r].slot)

\* Jobs are numbered as they are begun.
BegunInOrder == \E n \in Nat : Begun = 1..n

\* A job that is begun and not yet recorded is the newest, still pending, and
\* nobody knows of it: its request alone holds it.
Unrecorded(r) ==
  /\ job[sign[r].job].state = "pending" /\ sign[r].job \notin known
  /\ \A j \in Begun : j <= sign[r].job
  /\ \A s \in Present : slot[s].job # sign[r].job
  /\ \A s \in DOMAIN view.read : view.read[s].job # sign[r].job
OneUnrecorded ==
  /\ \A r \in Signings : sign[r].phase = "begun" => Unrecorded(r)
  /\ \A r \in Signings : sign[r].phase # "begun" => sign[r].job = None
  /\ \A r, q \in Signings :
       sign[r].phase = "begun" /\ sign[q].phase = "begun" => r = q

Ordered == /\ BegunInOrder /\ known \subseteq Begun
           /\ OneUnrecorded /\ RecordedJobIsNewest

----------------------------------------------------------------------------
(* Facts of the operators.                                                 *)

\* What getEnvelope has read is slots as the envelope service holds them.
LEMMA ReadFacts ==
  ASSUME Types
  PROVE  /\ DOMAIN view.read \subseteq Slots
         /\ \A s \in DOMAIN view.read : view.read[s] \in SlotRecord
         /\ \A s \in DOMAIN view.read : view.slots[s] \in Row
  BY DEF Types, View

\* A slot or job that is there is a record, any other is None.
LEMMA PresentFacts ==
  ASSUME Types
  PROVE  /\ \A s \in Present : s \in Slots /\ slot[s] \in SlotRecord
         /\ \A s \in Slots \ Present : slot[s] = None
         /\ \A j \in Begun : j \in Jobs /\ job[j] \in JobRecord
         /\ \A j \in Jobs \ Begun : job[j] = None
  BY DEF Types, Present, Begun

\* The viewer's own slot is theirs to sign.
LEMMA YouSigns ==
  ASSUME NEW sl \in SlotRecord, NEW v \in People
  PROVE  You(v, sl) <=> Signer(sl) = v
  BY PeopleAssumption DEF You, Signer, SlotRecord, Refs

\* The next job was not begun before, and comes after every job.
LEMMA NextJobFacts ==
  ASSUME BegunInOrder
  PROVE  /\ NextJob \in Nat /\ NextJob \notin Begun
         /\ \A j \in Begun : j < NextJob
         /\ Begun \cup {NextJob} = 1..NextJob
<1>1. PICK n \in Nat : Begun = 1..n
  BY DEF BegunInOrder
<1>2. Cardinality(1..n) = IF 1 > n THEN 0 ELSE (n - 1) + 1
  BY FS_Interval
<1>3. NextJob = n + 1
  BY <1>1, <1>2 DEF NextJob
<1> QED
  BY <1>1, <1>3

\* A slot of the envelope takes another value.
LEMMA SlotSet ==
  ASSUME Types, NEW s \in Slots, NEW sl \in SlotRecord,
         slot' = [slot EXCEPT ![s] = sl]
  PROVE  /\ slot' \in [Slots -> SlotRecord \cup {None}]
         /\ slot'[s] = sl /\ \A t \in Slots \ {s} : slot'[t] = slot[t]
         /\ Present' = Present \cup {s}
<1>1. sl # None
  BY RecordAssumption
<1>2. /\ slot' \in [Slots -> SlotRecord \cup {None}]
      /\ slot'[s] = sl /\ \A t \in Slots \ {s} : slot'[t] = slot[t]
  BY DEF Types
<1> QED
  BY <1>1, <1>2 DEF Present

\* A job takes another value.
LEMMA JobSet ==
  ASSUME Types, NEW j \in Jobs, NEW q \in JobRecord,
         job' = [job EXCEPT ![j] = q]
  PROVE  /\ job' \in [Jobs -> JobRecord \cup {None}]
         /\ job'[j] = q /\ \A k \in Jobs \ {j} : job'[k] = job[k]
         /\ Begun' = Begun \cup {j}
<1>1. q # None
  BY RecordAssumption
<1>2. /\ job' \in [Jobs -> JobRecord \cup {None}]
      /\ job'[j] = q /\ \A k \in Jobs \ {j} : job'[k] = job[k]
  BY DEF Types
<1> QED
  BY <1>1, <1>2 DEF Begun

\* A job in progress changes its state and stays its slot's.
LEMMA JobStateSet ==
  ASSUME Types, NEW j \in Begun,
         NEW st \in {"pending", "signed", "abandoned", "gone"},
         job' = [job EXCEPT ![j].state = st]
  PROVE  /\ job' \in [Jobs -> JobRecord \cup {None}]
         /\ Begun' = Begun /\ \A k \in Begun : job'[k].slot = job[k].slot
         /\ \A k \in Begun \ {j} : job'[k] = job[k]
         /\ job'[j].state = st
<1> DEFINE q == [job[j] EXCEPT !.state = st]
<1>1. j \in Jobs /\ job[j] \in JobRecord
  BY PresentFacts
<1>2. q \in JobRecord /\ q.slot = job[j].slot /\ q.state = st
  BY <1>1 DEF JobRecord
<1>3. job' = [job EXCEPT ![j] = q]
  BY <1>1 DEF Types
<1> HIDE DEF q
<1>4. /\ job' \in [Jobs -> JobRecord \cup {None}]
      /\ job'[j] = q /\ \A k \in Jobs \ {j} : job'[k] = job[k]
      /\ Begun' = Begun \cup {j}
  BY <1>1, <1>2, <1>3, JobSet
<1>5. Begun \subseteq Jobs
  BY DEF Begun
<1> QED
  BY <1>2, <1>4, <1>5

\* A set of slots that is not empty has a first one.
LEMMA FirstOf ==
  ASSUME NEW T \in SUBSET Nat, T # {}
  PROVE  \E x \in T : \A y \in T : x <= y
<1> DEFINE R == {ss \in Nat \X Nat : ss[1] < ss[2]}
<1>1. IsWellFoundedOn(R, Nat)
  BY NatLessThanWellFounded DEF OpToRel
<1>2. \A x, y \in Nat : y < x => <<y, x>> \in R
  OBVIOUS
<1> HIDE DEF R
<1>3. PICK x \in T : \A y \in T : ~(<<y, x>> \in R)
  BY <1>1, WFMin
<1>4. x \in Nat /\ \A y \in T : y \in Nat /\ ~(y < x)
  BY <1>2, <1>3
<1>5. \A y \in T : x <= y
  BY <1>4
<1> QED
  BY <1>5

----------------------------------------------------------------------------
(* The types hold throughout.                                              *)

\* No view is open: nothing was read.
LEMMA IdleViewFacts ==
  IdleView \in View /\ IdleView.phase = "idle"
    /\ DOMAIN IdleView.slots = {} /\ DOMAIN IdleView.read = {}
    /\ IdleView.viewer \in People
<1>1. <<>> \in [{} -> Row] /\ <<>> \in [{} -> SlotRecord] /\ DOMAIN <<>> = {}
  OBVIOUS
<1>2. {} \in SUBSET Slots
  OBVIOUS
<1>3. /\ <<>> \in UNION {[D -> Row] : D \in SUBSET Slots}
      /\ <<>> \in UNION {[D -> SlotRecord] : D \in SUBSET Slots}
  BY <1>1, <1>2
<1> QED
  BY <1>1, <1>3 DEF IdleView, View, People

\* The services begin well formed.
LEMMA TypesInit == Init => Types
  BY IdleViewFacts DEF Init, Types, Request, IdleSign, Present, Begun

\* A slot is read into a row of the view.
LEMMA ComposedFacts ==
  ASSUME NEW sl \in SlotRecord, NEW v \in People
  PROVE  Composed(v, sl) \in Row
  BY DEF Composed, Redacted, You, SlotRecord, Row, Refs

\* What getEnvelope reads is a view.
LEMMA GetTypes ==
  ASSUME Types, NEW v \in Viewers, Get(v)
  PROVE  /\ view' \in View /\ DOMAIN view'.slots = DOMAIN view'.read
         /\ DOMAIN view'.read = Present
<1> DEFINE rowsOf == [s \in Present |-> Composed(v, slot[s])]
           slotsRead == [s \in Present |-> slot[s]]
<1>1. v \in People
  BY ViewerAssumption
<1>2. Present \in SUBSET Slots
  BY DEF Present
<1>3. slotsRead \in [Present -> SlotRecord]
  BY PresentFacts
<1>4. rowsOf \in [Present -> Row]
  BY <1>1, PresentFacts, ComposedFacts
<1>5. view' = [phase |-> "composing", viewer |-> v, at |-> 1,
               slots |-> rowsOf, read |-> slotsRead]
  BY DEF Get
<1> HIDE DEF rowsOf, slotsRead
<1>6. rowsOf \in UNION {[D -> Row] : D \in SUBSET Slots}
  BY <1>2, <1>4
<1>7. slotsRead \in UNION {[D -> SlotRecord] : D \in SUBSET Slots}
  BY <1>2, <1>3
<1> QED
  BY <1>1, <1>3, <1>4, <1>5, <1>6, <1>7 DEF View

\* A view with one row replaced is a view.
LEMMA RowSet ==
  ASSUME Types, NEW s \in DOMAIN view.read, NEW row \in Row,
         NEW at \in Int, NEW ph \in {"idle", "composing", "shown"},
         view' = [view EXCEPT !.phase = ph, !.at = at, !.slots[s] = row]
  PROVE  /\ view' \in View /\ view'.read = view.read
         /\ view'.viewer = view.viewer /\ view'.phase = ph
         /\ DOMAIN view'.slots = DOMAIN view.read
         /\ view'.slots[s] = row
         /\ \A t \in DOMAIN view.read \ {s} : view'.slots[t] = view.slots[t]
<1> DEFINE rowsOf == [view.slots EXCEPT ![s] = row]
<1>1. view \in View /\ DOMAIN view.slots = DOMAIN view.read
  BY DEF Types
<1>2. PICK D \in SUBSET Slots : view.slots \in [D -> Row]
  BY <1>1 DEF View
<1>3. /\ rowsOf \in [D -> Row] /\ DOMAIN rowsOf = D /\ rowsOf[s] = row
      /\ \A t \in D \ {s} : rowsOf[t] = view.slots[t]
  BY <1>1, <1>2
<1>4. view' = [view EXCEPT !.phase = ph, !.at = at, !.slots = rowsOf]
  BY <1>1 DEF View
<1> HIDE DEF rowsOf
<1>5. rowsOf \in UNION {[E -> Row] : E \in SUBSET Slots}
  BY <1>3
<1>6. view' \in View /\ view'.slots = rowsOf /\ view'.read = view.read
      /\ view'.viewer = view.viewer /\ view'.phase = ph
  BY <1>1, <1>4, <1>5 DEF View
<1> QED
  BY <1>1, <1>2, <1>3, <1>6

\* Status reads on, and may refine the row of one slot by that slot's job.
LEMMA StatusFacts ==
  ASSUME Types, Owned, Status
  PROVE  /\ view' \in View /\ DOMAIN view'.slots = DOMAIN view'.read
         /\ view'.read = view.read /\ view'.viewer = view.viewer
         /\ view'.phase = "composing"
         /\ \A t \in DOMAIN view.read :
              /\ view'.slots[t].you = view.slots[t].you
              /\ view'.slots[t].shown = view.slots[t].shown
              /\ view'.slots[t].name = view.slots[t].name
              /\ \/ view'.slots[t].container = view.slots[t].container
                 \/ /\ view'.slots[t].container = view.read[t].job
                    /\ view.read[t].job # None
<1> DEFINE s == view.at
           j == view.read[s].job
           row == [view.slots[s] EXCEPT !.state = job[j].state,
                                        !.container = Refined(@, j)]
<1>1. /\ s \in DOMAIN view.read /\ s \in Slots /\ s \in Int
      /\ view.slots[s] \in Row /\ view.read[s] \in SlotRecord
      /\ view.phase = "composing" /\ s + 1 \in Int
  BY ReadFacts, SlotAssumption DEF Status
<1>2. /\ view \in View /\ DOMAIN view.slots = DOMAIN view.read
      /\ view.slots[s] \in Row
  BY <1>1 DEF Types
<1>3. CASE view' = [view EXCEPT !.at = s + 1]
  BY <1>1, <1>2, <1>3, SMTT(40) DEF View
<1>4. CASE /\ j # None /\ job[j].state # "gone"
           /\ view' = [view EXCEPT !.at = s + 1,
                                   !.slots[s].state = job[j].state,
                                   !.slots[s].container = Refined(@, j)]
  <2>1. j \in Begun
    BY <1>1, <1>4 DEF Owned, SlotOwn, JobOf
  <2>2. job[j].state \in {"pending", "signed", "abandoned", "gone"} /\ j \in Jobs
    BY <2>1, PresentFacts DEF JobRecord
  <2>3. Refined(view.slots[s].container, j) \in {view.slots[s].container, j}
    BY DEF Refined, ContainerOf
  <2>4. /\ row \in Row /\ row.you = view.slots[s].you
        /\ row.shown = view.slots[s].shown /\ row.name = view.slots[s].name
        /\ row.container \in {view.slots[s].container, j}
    BY <1>1, <2>2, <2>3 DEF Row
  <2>5. view' = [view EXCEPT !.phase = "composing", !.at = s + 1,
                             !.slots[s] = row]
    <3> DEFINE c == Refined(view.slots[s].container, j)
               st == job[j].state
    <3>1. row = [view.slots[s] EXCEPT !.state = st, !.container = c]
      OBVIOUS
    <3>2. view' = [view EXCEPT !.at = s + 1, !.slots[s].state = st,
                               !.slots[s].container = c]
      BY <1>1, <1>2, <1>4 DEF View, Row
    <3> HIDE DEF c, st, row, s
    <3>3. PICK D \in SUBSET Slots : view.slots \in [D -> Row] /\ s \in D
      BY <1>1, <1>2 DEF View
    <3>4. [view.slots EXCEPT ![s].state = st, ![s].container = c]
            = [view.slots EXCEPT ![s] = row]
      BY <3>1, <3>3 DEF Row
    <3>5. view' = [view EXCEPT !.at = s + 1, !.slots =
                     [view.slots EXCEPT ![s].state = st, ![s].container = c]]
      BY <1>2, <3>2, <3>3 DEF View, Row
    <3>6. view' = [view EXCEPT !.at = s + 1, !.slots =
                     [view.slots EXCEPT ![s] = row]]
      BY <3>4, <3>5
    <3> QED
      BY <1>1, <1>2, <3>6 DEF View
  <2> HIDE DEF row
  <2>6. /\ view' \in View /\ view'.read = view.read
        /\ view'.viewer = view.viewer /\ view'.phase = "composing"
        /\ DOMAIN view'.slots = DOMAIN view.read
        /\ view'.slots[s] = row
        /\ \A t \in DOMAIN view.read \ {s} : view'.slots[t] = view.slots[t]
    BY <1>1, <2>4, <2>5, RowSet
  <2> QED
    BY <1>4, <2>4, <2>6
<1> QED
  BY <1>3, <1>4 DEF Status

\* CaptureSignerName may name one slot, in the view and at the service: each
\* time a slot that is the viewer's to sign, and with the viewer's name.
LEMMA CaptureFacts ==
  ASSUME Types, Owned, CaptureSignerName
  PROVE  /\ view' \in View /\ DOMAIN view'.slots = DOMAIN view'.read
         /\ view'.read = view.read /\ view'.viewer = view.viewer
         /\ view'.phase = "shown"
         /\ \A t \in DOMAIN view.read :
              /\ view'.slots[t].you = view.slots[t].you
              /\ view'.slots[t].shown = view.slots[t].shown
              /\ view'.slots[t].container = view.slots[t].container
              /\ view'.slots[t].name \in
                   {None, view.slots[t].name, Signer(view.read[t])}
         /\ slot' \in [Slots -> SlotRecord \cup {None}] /\ Present' = Present
         /\ \A t \in Present :
              /\ slot'[t].ref = slot[t].ref /\ slot'[t].job = slot[t].job
              /\ slot'[t].signedDocRef = slot[t].signedDocRef
              /\ slot'[t].name \in {slot[t].name, Signer(slot[t])}
<1>1. /\ view \in View /\ DOMAIN view.slots = DOMAIN view.read
      /\ view.phase = "composing" /\ view.at \in Int /\ view.viewer \in People
  BY DEF Types, View, CaptureSignerName
<1>2. CASE Unnamed = {}
  BY <1>1, <1>2 DEF CaptureSignerName, Types, View, Present
<1>3. CASE Unnamed # {}
  <2> DEFINE v == view.viewer
             s == CHOOSE t \in Unnamed : \A u \in Unnamed : t <= u
  <2>1. Unnamed \in SUBSET Nat
    BY <1>1, ReadFacts, SlotAssumption DEF Unnamed
  <2>2. s \in Unnamed
    BY <1>3, <2>1, FirstOf
  <2> HIDE DEF s
  <2>3. /\ s \in DOMAIN view.read /\ view.slots[s].you /\ s \in Present
        /\ s \in Slots /\ view.read[s] \in SlotRecord /\ view.slots[s] \in Row
        /\ slot[s] \in SlotRecord
    BY <1>1, <2>2, ReadFacts, PresentFacts DEF Unnamed, Types
  <2>4. RowOf(s, view.slots[s], view.read[s])
    BY <2>3 DEF Owned
  <2>5. You(v, view.read[s])
    BY <2>3, <2>4 DEF RowOf
  <2>6. Signer(view.read[s]) = v
    BY <1>1, <2>3, <2>5, YouSigns
  <2>7. PICK name \in {v, None} :
          /\ view' = [view EXCEPT !.phase = "shown", !.slots[s].name = name]
          /\ \/ slot' = slot
             \/ /\ name # None /\ slot[s].name = None /\ Signer(slot[s]) = v
                /\ slot' = [slot EXCEPT ![s].name = name]
    BY <1>3 DEF CaptureSignerName, viewerName, s
  <2> DEFINE row == [view.slots[s] EXCEPT !.name = name]
             sl == [slot[s] EXCEPT !.name = name]
  <2>8. /\ row \in Row /\ row.you = view.slots[s].you
        /\ row.shown = view.slots[s].shown /\ row.name \in {v, None}
        /\ row.container = view.slots[s].container
    BY <1>1, <2>3 DEF Row
  <2>9. view' = [view EXCEPT !.phase = "shown", !.at = view.at, !.slots[s] = row]
    BY <1>1, <2>3, <2>7 DEF View
  <2>10. /\ sl \in SlotRecord /\ sl.ref = slot[s].ref /\ sl.job = slot[s].job
         /\ sl.signedDocRef = slot[s].signedDocRef /\ sl.name = name
    BY <1>1, <2>3, <2>7 DEF SlotRecord
  <2>11. slot' = slot \/ /\ Signer(slot[s]) = v /\ name = v
                         /\ slot' = [slot EXCEPT ![s] = sl]
    BY <2>3, <2>7 DEF Types
  <2> HIDE DEF row, sl
  <2>12. /\ view' \in View /\ view'.read = view.read
         /\ view'.viewer = view.viewer /\ view'.phase = "shown"
         /\ DOMAIN view'.slots = DOMAIN view.read
         /\ view'.slots[s] = row
         /\ \A t \in DOMAIN view.read \ {s} : view'.slots[t] = view.slots[t]
    BY <1>1, <2>3, <2>8, <2>9, RowSet
  <2>13. \A t \in DOMAIN view.read :
              /\ view'.slots[t].you = view.slots[t].you
              /\ view'.slots[t].shown = view.slots[t].shown
              /\ view'.slots[t].container = view.slots[t].container
              /\ view'.slots[t].name \in
                   {None, view.slots[t].name, Signer(view.read[t])}
    BY <2>6, <2>8, <2>12
  <2>14. CASE slot' = slot
    BY <2>12, <2>13, <2>14 DEF Types, Present
  <2>15. CASE /\ Signer(slot[s]) = v /\ name = v
              /\ slot' = [slot EXCEPT ![s] = sl]
    <3>1. /\ slot' \in [Slots -> SlotRecord \cup {None}]
          /\ slot'[s] = sl /\ \A t \in Slots \ {s} : slot'[t] = slot[t]
          /\ Present' = Present \cup {s}
      BY <2>3, <2>10, <2>15, SlotSet
    <3>2. Present' = Present /\ Present \subseteq Slots
      BY <2>3, <3>1 DEF Present
    <3>3. \A t \in Present :
              /\ slot'[t].ref = slot[t].ref /\ slot'[t].job = slot[t].job
              /\ slot'[t].signedDocRef = slot[t].signedDocRef
              /\ slot'[t].name \in {slot[t].name, Signer(slot[t])}
      BY <2>10, <2>15, <3>1, <3>2
    <3> QED
      BY <2>12, <2>13, <3>1, <3>2, <3>3
  <2> QED
    BY <2>11, <2>14, <2>15
<1> QED
  BY <1>2, <1>3

\* The parts of Types about one variable each.
SignTypes == /\ sign \in [Signings -> Request]
             /\ \A r \in Signings : sign[r].phase # "idle" =>
                  sign[r].slot \in Present
ViewTypes == /\ view \in View
             /\ DOMAIN view.slots = DOMAIN view.read
             /\ DOMAIN view.read \subseteq Present

\* A slot that is replaced by a slot leaves the rest well-typed.
LEMMA SlotStep ==
  ASSUME Types, NEW s \in Slots, NEW sl \in SlotRecord,
         slot' = [slot EXCEPT ![s] = sl]
  PROVE  /\ slot' \in [Slots -> SlotRecord \cup {None}]
         /\ Present \subseteq Present'
         /\ UNCHANGED view => ViewTypes'
         /\ UNCHANGED sign => SignTypes'
<1>1. /\ slot' \in [Slots -> SlotRecord \cup {None}]
      /\ Present \subseteq Present'
  BY SlotSet
<1> QED
  BY <1>1 DEF Types, ViewTypes, SignTypes

\* A request of one caller moves on, the slots being as they are.
LEMMA SignStep ==
  ASSUME Types, NEW r \in Signings, NEW q \in Request,
         q.phase # "idle" => q.slot \in Present, Present \subseteq Present',
         sign' = [sign EXCEPT ![r] = q]
  PROVE  SignTypes' /\ sign'[r] = q
           /\ \A o \in Signings \ {r} : sign'[o] = sign[o]
<1>1. /\ sign' \in [Signings -> Request] /\ sign'[r] = q
      /\ \A o \in Signings \ {r} : sign'[o] = sign[o]
  BY DEF Types
<1> QED
  BY <1>1 DEF Types, SignTypes

\* A job begins: the request has it, and it is the slot's.
LEMMA BeginFacts ==
  ASSUME Types, BegunInOrder, NextJob \in Jobs, NEW r \in Signings,
         sign[r].phase = "eligible", job' = Begin(sign[r].slot)
  PROVE  /\ job' \in [Jobs -> JobRecord \cup {None}]
         /\ job'[NextJob] = [slot |-> sign[r].slot, state |-> "pending"]
         /\ \A k \in Begun : job'[k] = job[k]
         /\ Begun' = Begun \cup {NextJob}
         /\ sign[r].slot \in Present /\ sign[r].slot \in Slots
<1>1. sign[r].slot \in Present /\ sign[r].slot \in Slots
  BY DEF Types, Present
<1>2. [slot |-> sign[r].slot, state |-> "pending"] \in JobRecord
  BY <1>1 DEF JobRecord
<1>3. /\ job' \in [Jobs -> JobRecord \cup {None}]
      /\ job'[NextJob] = [slot |-> sign[r].slot, state |-> "pending"]
      /\ \A k \in Jobs \ {NextJob} : job'[k] = job[k]
      /\ Begun' = Begun \cup {NextJob}
  BY <1>2, JobSet DEF Begin
<1>4. NextJob \notin Begun /\ Begun \subseteq Jobs
  BY NextJobFacts DEF Begun
<1> QED
  BY <1>1, <1>3, <1>4

\* Every step keeps the types.
LEMMA TypesStep == Types /\ Owned /\ BegunInOrder /\ [Next]_vars => Types'
<1> SUFFICES ASSUME Types, Owned, BegunInOrder, [Next]_vars PROVE Types'
  OBVIOUS
<1> USE DEF SignTypes, ViewTypes
<1>1. ASSUME NEW s \in Slots, NEW ref \in Invitations, AddSlot(s, ref)
      PROVE  Types'
  <2>1. NewSlot(ref) \in SlotRecord
    BY InvitationAssumption DEF NewSlot, SlotRecord
  <2>2. slot' = [slot EXCEPT ![s] = NewSlot(ref)] /\ UNCHANGED <<job, sign, view>>
    BY <1>1 DEF AddSlot
  <2> QED
    BY <2>1, <2>2, SlotStep DEF Types, Begun
<1>2. ASSUME NEW to, Transition(to) PROVE Types'
  BY <1>2 DEF Transition, Types, Present, Begun
<1>3. ASSUME NEW j \in Begun,
             SignJob(j) \/ Lapse(j) \/ Forget(j) \/ abandonSigning(j)
      PROVE  Types'
  <2>1. /\ job' \in [Jobs -> JobRecord \cup {None}]
        /\ Begun' = Begun /\ \A k \in Begun : job'[k].slot = job[k].slot
    BY <1>3, JobStateSet DEF SignJob, Lapse, Forget, abandonSigning
  <2> QED
    BY <1>3, <2>1 DEF SignJob, Lapse, Forget, abandonSigning, Types, Present
<1>4. ASSUME NEW j \in Begun, Callback(j) PROVE Types'
  <2> DEFINE s == job[j].slot
             sl == [slot[s] EXCEPT !.signedDocRef = j]
  <2>1. s \in Present /\ s \in Slots /\ j \in Jobs /\ slot[s] \in SlotRecord
    BY PresentFacts DEF Types
  <2>2. sl \in SlotRecord
    BY <2>1 DEF SlotRecord
  <2>3. slot' = [slot EXCEPT ![s] = sl] /\ UNCHANGED <<job, sign, view>>
    BY <1>4, <2>1 DEF Callback, Types
  <2> HIDE DEF sl, s
  <2> QED
    BY <2>1, <2>2, <2>3, SlotStep DEF Types, Begun
<1>5. ASSUME NEW r \in Signings, NEW s \in Slots, SlotEligible(r, s)
      PROVE  Types'
  <2> DEFINE q == [phase |-> "eligible", slot |-> s, job |-> None]
  <2>1. q \in Request /\ s \in Present /\ q.slot = s
    BY <1>5, SlotAssumption DEF SlotEligible, Eligible, Present, Request
  <2>2. sign' = [sign EXCEPT ![r] = q] /\ UNCHANGED <<slot, job, view>>
        /\ Present' = Present /\ Begun' = Begun
    BY <1>5 DEF SlotEligible, Present, Begun
  <2> HIDE DEF q
  <2> QED
    BY <2>1, <2>2, SignStep DEF Types
<1>6. ASSUME NEW r \in Signings, BeginSigning(r) PROVE Types'
  <2> DEFINE q == [sign[r] EXCEPT !.phase = "begun", !.job = NextJob]
  <2>1. /\ job' \in [Jobs -> JobRecord \cup {None}]
        /\ job'[NextJob] = [slot |-> sign[r].slot, state |-> "pending"]
        /\ \A k \in Begun : job'[k] = job[k]
        /\ Begun' = Begun \cup {NextJob}
        /\ sign[r].slot \in Present
    BY <1>6, BeginFacts DEF BeginSigning
  <2>2. q \in Request /\ q.slot = sign[r].slot
    BY <1>6 DEF BeginSigning, Types, Request
  <2>3. sign' = [sign EXCEPT ![r] = q] /\ UNCHANGED <<slot, view>>
        /\ Present' = Present
    BY <1>6 DEF BeginSigning, Types, Present
  <2> HIDE DEF q
  <2>4. SignTypes'
    BY <2>1, <2>2, <2>3, SignStep
  <2>5. \A k \in Begun' : job'[k].slot \in Present'
    BY <2>1, <2>3 DEF Types
  <2> QED
    BY <2>1, <2>3, <2>4, <2>5 DEF Types
<1>7. ASSUME NEW r \in Signings, BeginLost(r) PROVE Types'
  <2>1. /\ job' \in [Jobs -> JobRecord \cup {None}]
        /\ job'[NextJob] = [slot |-> sign[r].slot, state |-> "pending"]
        /\ \A k \in Begun : job'[k] = job[k]
        /\ Begun' = Begun \cup {NextJob}
        /\ sign[r].slot \in Present
    BY <1>7, BeginFacts DEF BeginLost
  <2>2. IdleSign \in Request /\ IdleSign.phase = "idle"
    BY DEF IdleSign, Request
  <2>3. sign' = [sign EXCEPT ![r] = IdleSign] /\ UNCHANGED <<slot, view>>
        /\ Present' = Present
    BY <1>7 DEF BeginLost, Present
  <2>4. SignTypes'
    BY <2>2, <2>3, SignStep
  <2>5. \A k \in Begun' : job'[k].slot \in Present'
    BY <2>1, <2>3 DEF Types
  <2> QED
    BY <2>1, <2>3, <2>4, <2>5 DEF Types
<1>8. ASSUME NEW r \in Signings, BeginRefused(r) PROVE Types'
  <2>1. IdleSign \in Request /\ IdleSign.phase = "idle"
    BY DEF IdleSign, Request
  <2>2. sign' = [sign EXCEPT ![r] = IdleSign] /\ UNCHANGED <<slot, job, view>>
        /\ Present' = Present /\ Begun' = Begun
    BY <1>8 DEF BeginRefused, Present, Begun
  <2> QED
    BY <2>1, <2>2, SignStep DEF Types
<1>9. ASSUME NEW r \in Signings, SetSlotJob(r) PROVE Types'
  <2> DEFINE s == sign[r].slot
             sl == [slot[s] EXCEPT !.job = sign[r].job]
  <2>1. IdleSign \in Request /\ IdleSign.phase = "idle"
    BY DEF IdleSign, Request
  <2>2. s \in Present /\ s \in Slots /\ slot[s] \in SlotRecord
        /\ sign[r].job \in Jobs \cup {None}
    BY <1>9, PresentFacts DEF SetSlotJob, Types, Request
  <2>3. sl \in SlotRecord
    BY <2>2 DEF SlotRecord
  <2>4. /\ slot' = [slot EXCEPT ![s] = sl] \/ slot' = slot
        /\ sign' = [sign EXCEPT ![r] = IdleSign]
        /\ UNCHANGED <<job, view>> /\ Begun' = Begun
    BY <1>9, <2>2 DEF SetSlotJob, Types, Begun
  <2> HIDE DEF s, sl
  <2>5. /\ slot' \in [Slots -> SlotRecord \cup {None}]
        /\ Present \subseteq Present'
    <3>1. CASE slot' = slot
      BY <3>1 DEF Types, Present
    <3>2. CASE slot' = [slot EXCEPT ![s] = sl]
      BY <2>2, <2>3, <3>2, SlotStep
    <3> QED
      BY <2>4, <3>1, <3>2
  <2>6. SignTypes'
    BY <2>1, <2>4, <2>5, SignStep
  <2> QED
    BY <2>4, <2>5, <2>6 DEF Types
<1>10. ASSUME NEW v \in Viewers, Get(v) PROVE Types'
  <2>1. /\ view' \in View /\ DOMAIN view'.slots = DOMAIN view'.read
        /\ DOMAIN view'.read = Present
    BY <1>10, GetTypes
  <2>2. UNCHANGED <<slot, job, sign>> /\ Present' = Present /\ Begun' = Begun
    BY <1>10 DEF Get, Present, Begun
  <2> QED
    BY <2>1, <2>2 DEF Types
<1>11. CASE Status
  <2>1. /\ view' \in View /\ DOMAIN view'.slots = DOMAIN view'.read
        /\ view'.read = view.read
    BY <1>11, StatusFacts
  <2>2. UNCHANGED <<slot, job, sign>> /\ Present' = Present /\ Begun' = Begun
    BY <1>11 DEF Status, Present, Begun
  <2> QED
    BY <2>1, <2>2 DEF Types
<1>12. CASE CaptureSignerName
  <2>1. /\ view' \in View /\ DOMAIN view'.slots = DOMAIN view'.read
        /\ view'.read = view.read
        /\ slot' \in [Slots -> SlotRecord \cup {None}] /\ Present' = Present
    BY <1>12, CaptureFacts
  <2>2. UNCHANGED <<job, sign>> /\ Begun' = Begun
    BY <1>12 DEF CaptureSignerName, Begun
  <2> QED
    BY <2>1, <2>2 DEF Types
<1>13. CASE Shown
  <2>1. view' = IdleView /\ UNCHANGED <<slot, job, sign>>
        /\ Present' = Present /\ Begun' = Begun
    BY <1>13 DEF Shown, Present, Begun
  <2> QED
    BY <2>1, IdleViewFacts DEF Types
<1>14. CASE UNCHANGED vars
  BY <1>14, SMTT(40) DEF vars, Types, Present, Begun
<1> QED
  BY <1>1, <1>2, <1>3, <1>4, <1>5, <1>6, <1>7, <1>8, <1>9, <1>10, <1>11,
     <1>12, <1>13, <1>14 DEF Next

----------------------------------------------------------------------------
(* What a slot refers to stays its own.                                    *)

\* A job is never taken back, nor given to another slot.
LEMMA JobsKept ==
  ASSUME Types, BegunInOrder, [Next]_vars
  PROVE  Begun \subseteq Begun' /\ \A k \in Begun : job'[k].slot = job[k].slot
<1>1. ASSUME NEW j \in Begun,
             SignJob(j) \/ Lapse(j) \/ Forget(j) \/ abandonSigning(j)
      PROVE  Begun \subseteq Begun' /\ \A k \in Begun : job'[k].slot = job[k].slot
  BY <1>1, JobStateSet DEF SignJob, Lapse, Forget, abandonSigning
<1>2. ASSUME NEW r \in Signings, BeginSigning(r) \/ BeginLost(r)
      PROVE  Begun \subseteq Begun' /\ \A k \in Begun : job'[k].slot = job[k].slot
  BY <1>2, BeginFacts DEF BeginSigning, BeginLost
<1>3. CASE UNCHANGED job
  BY <1>3 DEF Begun
<1> QED
  BY <1>1, <1>2, <1>3 DEF Next, vars, AddSlot, Transition, Callback,
     SlotEligible, BeginRefused, SetSlotJob, Get, Status, CaptureSignerName,
     Shown

\* So whatever is a slot's own stays so.
LEMMA OwnKept ==
  ASSUME Types, BegunInOrder, [Next]_vars
  PROVE  /\ \A j, s : JobOf(j, s) => JobOf(j, s)'
         /\ \A s, sl : SlotOwn(s, sl) => SlotOwn(s, sl)'
         /\ \A s, row, sl : RowOf(s, row, sl) /\ view'.viewer = view.viewer
              => RowOf(s, row, sl)'
<1>1. \A j, s : JobOf(j, s) => JobOf(j, s)'
  BY JobsKept DEF JobOf
<1>2. \A s, sl : SlotOwn(s, sl) => SlotOwn(s, sl)'
  BY <1>1 DEF SlotOwn
<1>3. \A s, row, sl : RowOf(s, row, sl) /\ view'.viewer = view.viewer
        => RowOf(s, row, sl)'
  BY <1>1 DEF RowOf
<1> QED
  BY <1>1, <1>2, <1>3

\* The parts of Owned about one variable each.
SlotsOwn == \A s \in Present : SlotOwn(s, slot[s])
ViewOwn == \A s \in DOMAIN view.read :
             SlotOwn(s, view.read[s]) /\ RowOf(s, view.slots[s], view.read[s])
SignsOwn == \A r \in Signings : sign[r].phase = "begun" =>
              sign[r].job # None /\ JobOf(sign[r].job, sign[r].slot)

\* What a step leaves alone stays its own.
LEMMA OwnUnchanged ==
  ASSUME Types, Owned, BegunInOrder, [Next]_vars
  PROVE  /\ UNCHANGED slot => SlotsOwn'
         /\ UNCHANGED view => ViewOwn'
         /\ \A r \in Signings :
              (\A o \in Signings \ {r} : sign'[o] = sign[o])
                /\ sign'[r].phase # "begun" => SignsOwn'
         /\ UNCHANGED sign => SignsOwn'
<1>1. UNCHANGED slot => SlotsOwn'
  BY OwnKept DEF SlotsOwn, Owned, Present
<1>2. UNCHANGED view => ViewOwn'
  BY OwnKept DEF ViewOwn, Owned
<1>3. ASSUME NEW r \in Signings, sign'[r].phase # "begun",
             \A o \in Signings \ {r} : sign'[o] = sign[o]
      PROVE  SignsOwn'
  BY <1>3, OwnKept DEF SignsOwn, Owned
<1>4. UNCHANGED sign => SignsOwn'
  BY OwnKept DEF SignsOwn, Owned
<1> QED
  BY <1>1, <1>2, <1>3, <1>4

\* One slot is given something of its own.
LEMMA OwnSlotSet ==
  ASSUME Types, Owned, BegunInOrder, [Next]_vars,
         NEW s \in Slots, NEW sl \in SlotRecord,
         slot' = [slot EXCEPT ![s] = sl], SlotOwn(s, sl)
  PROVE  SlotsOwn'
<1>1. /\ slot'[s] = sl /\ \A t \in Slots \ {s} : slot'[t] = slot[t]
      /\ Present' = Present \cup {s}
  BY SlotSet
<1>2. SlotOwn(s, sl)'
  BY OwnKept
<1>3. \A t \in Present : SlotOwn(t, slot[t])
  BY DEF Owned
<1>4. ASSUME NEW t \in Present' PROVE SlotOwn(t, slot[t])'
  <2>1. CASE t = s
    BY <1>1, <1>2, <2>1 DEF SlotOwn
  <2>2. CASE t # s
    <3>1. t \in Present /\ slot'[t] = slot[t]
      BY <1>1, <2>2 DEF Present
    <3>2. \A x, y : SlotOwn(x, y) => SlotOwn(x, y)'
      BY OwnKept
    <3> QED
      BY <1>3, <3>1, <3>2 DEF SlotOwn
  <2> QED
    BY <2>1, <2>2
<1> QED
  BY <1>4 DEF SlotsOwn

\* To begin with nobody signs, and no job is known.
LEMMA OwnedInit == Init => Owned
  BY IdleViewFacts DEF Init, Owned, Present, IdleSign

\* Every step keeps jobs, names and views with whom they belong to.
LEMMA OwnedStep == Types /\ Owned /\ BegunInOrder /\ [Next]_vars => Owned'
<1> SUFFICES ASSUME Types, Owned, BegunInOrder, [Next]_vars PROVE Owned'
  OBVIOUS
<1>0. SlotsOwn' /\ ViewOwn' /\ SignsOwn' => Owned'
  BY DEF SlotsOwn, ViewOwn, SignsOwn, Owned
<1>1. ASSUME NEW s \in Slots, NEW ref \in Invitations, AddSlot(s, ref)
      PROVE  Owned'
  <2>1. NewSlot(ref) \in SlotRecord /\ SlotOwn(s, NewSlot(ref))
    BY InvitationAssumption DEF NewSlot, SlotRecord, SlotOwn
  <2>2. slot' = [slot EXCEPT ![s] = NewSlot(ref)] /\ UNCHANGED <<sign, view>>
    BY <1>1 DEF AddSlot
  <2>3. SlotsOwn'
    BY <2>1, <2>2, OwnSlotSet
  <2> QED
    BY <1>0, <2>2, <2>3, OwnUnchanged
<1>2. ASSUME NEW to, Transition(to) PROVE Owned'
  BY <1>0, <1>2, OwnUnchanged DEF Transition
<1>3. ASSUME NEW j \in Begun,
             SignJob(j) \/ Lapse(j) \/ Forget(j) \/ abandonSigning(j)
      PROVE  Owned'
  BY <1>0, <1>3, OwnUnchanged DEF SignJob, Lapse, Forget, abandonSigning
<1>4. ASSUME NEW j \in Begun, Callback(j) PROVE Owned'
  <2> DEFINE s == job[j].slot
             sl == [slot[s] EXCEPT !.signedDocRef = j]
  <2>1. s \in Present /\ s \in Slots /\ j \in Jobs /\ slot[s] \in SlotRecord
    BY PresentFacts DEF Types
  <2>2. sl \in SlotRecord
    BY <2>1 DEF SlotRecord
  <2>3. slot' = [slot EXCEPT ![s] = sl] /\ UNCHANGED <<sign, view>>
    BY <1>4, <2>1 DEF Callback, Types
  <2>4. SlotOwn(s, sl)
    BY <2>1 DEF Owned, SlotOwn, JobOf, SlotRecord, Signer
  <2> HIDE DEF sl, s
  <2>5. SlotsOwn'
    BY <2>1, <2>2, <2>3, <2>4, OwnSlotSet
  <2> QED
    BY <1>0, <2>3, <2>5, OwnUnchanged
<1>5. ASSUME NEW r \in Signings, NEW s \in Slots, SlotEligible(r, s)
      PROVE  Owned'
  <2>1. /\ UNCHANGED <<slot, view>> /\ sign'[r].phase # "begun"
        /\ \A o \in Signings \ {r} : sign'[o] = sign[o]
    BY <1>5 DEF SlotEligible, Types
  <2> QED
    BY <1>0, <2>1, OwnUnchanged
<1>6. ASSUME NEW r \in Signings, BeginSigning(r) PROVE Owned'
  <2>1. UNCHANGED <<slot, view>>
    BY <1>6 DEF BeginSigning
  <2>2. /\ sign'[r].job = NextJob /\ sign'[r].slot = sign[r].slot
        /\ \A o \in Signings \ {r} : sign'[o] = sign[o]
    BY <1>6 DEF BeginSigning, Types, Request
  <2>3. /\ job'[NextJob] = [slot |-> sign[r].slot, state |-> "pending"]
        /\ Begun' = Begun \cup {NextJob}
    BY <1>6, BeginFacts DEF BeginSigning
  <2>4. NextJob # None
    BY NextJobFacts, PeopleAssumption
  <2>5. \A o \in Signings \ {r} : sign'[o].phase = "begun" =>
          sign'[o].job # None /\ JobOf(sign[o].job, sign[o].slot)'
    BY <2>2, OwnKept DEF Owned
  <2>6. SignsOwn'
    BY <2>2, <2>3, <2>4, <2>5 DEF SignsOwn, JobOf
  <2> QED
    BY <1>0, <2>1, <2>6, OwnUnchanged
<1>7. ASSUME NEW r \in Signings, BeginLost(r) \/ BeginRefused(r)
      PROVE  Owned'
  <2>1. /\ UNCHANGED <<slot, view>> /\ sign'[r].phase # "begun"
        /\ \A o \in Signings \ {r} : sign'[o] = sign[o]
    BY <1>7 DEF BeginLost, BeginRefused, Types, IdleSign
  <2> QED
    BY <1>0, <2>1, OwnUnchanged
<1>8. ASSUME NEW r \in Signings, SetSlotJob(r) PROVE Owned'
  <2> DEFINE s == sign[r].slot
             sl == [slot[s] EXCEPT !.job = sign[r].job]
  <2>1. /\ UNCHANGED view /\ sign'[r].phase # "begun"
        /\ \A o \in Signings \ {r} : sign'[o] = sign[o]
    BY <1>8 DEF SetSlotJob, Types, IdleSign
  <2>2. s \in Present /\ s \in Slots /\ slot[s] \in SlotRecord
        /\ sign[r].job \in Jobs /\ JobOf(sign[r].job, s)
    BY <1>8, PresentFacts DEF SetSlotJob, Types, Request, Owned
  <2>3. sl \in SlotRecord
    BY <2>2 DEF SlotRecord
  <2>4. slot' = [slot EXCEPT ![s] = sl] \/ slot' = slot
    BY <1>8, <2>2 DEF SetSlotJob, Types
  <2>5. SlotOwn(s, sl)
    BY <2>2 DEF Owned, SlotOwn, SlotRecord, Signer
  <2> HIDE DEF s, sl
  <2>6. CASE slot' = slot
    BY <1>0, <2>1, <2>6, OwnUnchanged
  <2>7. CASE slot' = [slot EXCEPT ![s] = sl]
    <3>1. SlotsOwn'
      BY <2>2, <2>3, <2>5, <2>7, OwnSlotSet
    <3> QED
      BY <1>0, <2>1, <3>1, OwnUnchanged
  <2> QED
    BY <2>4, <2>6, <2>7
<1>9. ASSUME NEW v \in Viewers, Get(v) PROVE Owned'
  <2>1. /\ view'.viewer = v /\ view'.read = [s \in Present |-> slot[s]]
        /\ view'.slots = [s \in Present |-> Composed(v, slot[s])]
        /\ UNCHANGED <<slot, sign, job>>
    BY <1>9 DEF Get
  <2>2. \A s \in Present : SlotOwn(s, slot[s])'
    BY <2>1, OwnKept DEF Owned, Present, SlotOwn
  <2>3. ASSUME NEW s \in Present
        PROVE  /\ SlotOwn(s, slot[s])
               /\ RowOf(s, Composed(v, slot[s]), slot[s])'
    BY <2>1, <2>3 DEF RowOf, Composed, Owned, SlotOwn, JobOf, Begun
  <2>4. ViewOwn'
    BY <2>1, <2>3, OwnKept DEF ViewOwn, RowOf
  <2> QED
    BY <1>0, <2>1, <2>4, OwnUnchanged
<1>10. CASE Status
  <2>1. UNCHANGED <<slot, sign>>
    BY <1>10 DEF Status
  <2>2. ViewOwn'
    BY <1>10, StatusFacts, OwnKept DEF ViewOwn, Owned, RowOf, SlotOwn
  <2> QED
    BY <1>0, <2>1, <2>2, OwnUnchanged
<1>11. CASE CaptureSignerName
  <2>1. UNCHANGED sign
    BY <1>11 DEF CaptureSignerName
  <2>2. ViewOwn'
    BY <1>11, CaptureFacts, OwnKept DEF ViewOwn, Owned, RowOf, SlotOwn
  <2>3. SlotsOwn'
    BY <1>11, CaptureFacts, OwnKept DEF SlotsOwn, Owned, SlotOwn, Signer
  <2> QED
    BY <1>0, <2>1, <2>2, <2>3, OwnUnchanged
<1>12. CASE Shown
  <2>1. view' = IdleView /\ UNCHANGED <<slot, sign>>
    BY <1>12 DEF Shown
  <2>2. ViewOwn'
    BY <2>1, IdleViewFacts DEF ViewOwn
  <2> QED
    BY <1>0, <2>1, <2>2, OwnUnchanged
<1>13. CASE UNCHANGED vars
  BY <1>0, <1>13, OwnUnchanged DEF vars
<1> QED
  BY <1>1, <1>2, <1>3, <1>4, <1>5, <1>6, <1>7, <1>8, <1>9, <1>10, <1>11,
     <1>12, <1>13 DEF Next

----------------------------------------------------------------------------
(* Jobs are recorded in the order they are begun.                          *)

\* To begin with no job is recorded.
LEMMA OrderedInit == Init => Ordered
<1> SUFFICES ASSUME Init PROVE Ordered
  OBVIOUS
<1>1. Begun = {} /\ Present = {}
  BY DEF Init, Begun, Present
<1>2. {} = 1..0
  OBVIOUS
<1>3. BegunInOrder
  BY <1>1, <1>2 DEF BegunInOrder
<1>4. OneUnrecorded
  BY DEF Init, OneUnrecorded, IdleSign
<1>5. RecordedJobIsNewest
  BY <1>1 DEF RecordedJobIsNewest
<1> QED
  BY <1>3, <1>4, <1>5 DEF Ordered, Init

\* A step that begins no job and records none.
LEMMA OrderKept ==
  ASSUME Types, Owned, Ordered,
         \A r \in Signings : sign'[r].phase = "begun" \/ sign[r].phase = "begun"
           => sign'[r] = sign[r],
         \A r \in Signings : sign'[r].phase # "begun" => sign'[r].job = None,
         Begun' = Begun, \A k \in Begun : job'[k].slot = job[k].slot,
         \A r \in Signings : sign[r].phase = "begun" =>
           /\ job'[sign[r].job].state = "pending"
           /\ sign[r].job \notin known'
           /\ \A s \in DOMAIN view'.read : view'.read[s].job # sign[r].job,
         known' \subseteq Begun',
         \A t \in Present' :
           \/ t \in Present /\ slot'[t].job = slot[t].job
           \/ t \notin Present /\ slot'[t].job = None,
         missed' = missed
  PROVE  Ordered'
<1>1. BegunInOrder'
  BY DEF Ordered, BegunInOrder
<1>2. \A r \in Signings : sign'[r].phase = "begun" => Unrecorded(r)'
  <2>1. SUFFICES ASSUME NEW r \in Signings, sign'[r].phase = "begun"
                 PROVE  Unrecorded(r)'
    OBVIOUS
  <2>2. sign'[r] = sign[r] /\ sign[r].phase = "begun" /\ Unrecorded(r)
        /\ sign[r].job # None
    BY <2>1 DEF Ordered, OneUnrecorded, Owned
  <2> QED
    BY <2>2 DEF Unrecorded
<1>3. OneUnrecorded'
  BY <1>2 DEF Ordered, OneUnrecorded
<1>4. RecordedJobIsNewest'
  <2>1. SUFFICES ASSUME NEW s \in Present', s \notin missed,
                        \A r \in Signings : sign'[r].phase = "begun"
                          => sign'[r].slot # s,
                        NEW j \in Begun, job'[j].slot = s
                 PROVE  slot'[s].job # None /\ slot'[s].job >= j
    BY DEF RecordedJobIsNewest
  <2>2. job[j].slot = s /\ s \in Present /\ slot'[s].job = slot[s].job
    BY <2>1 DEF Types
  <2>3. \A r \in Signings : sign[r].phase = "begun" => sign[r].slot # s
    BY <2>1
  <2> QED
    BY <2>1, <2>2, <2>3 DEF Ordered, RecordedJobIsNewest
<1> QED
  BY <1>1, <1>3, <1>4 DEF Ordered

\* A slot's job, and a read slot's, are jobs begun.
LEMMA RecordedBegun ==
  ASSUME Types, Owned
  PROVE  /\ \A s \in Present : slot[s].job \in Begun \cup {None}
         /\ \A s \in DOMAIN view.read : view.read[s].job \in Begun \cup {None}
  BY DEF Owned, SlotOwn, JobOf

\* While the chain is free no begun job is unrecorded.
LEMMA FreeMeansRecorded ==
  ASSUME Owned, OneUnrecorded, ChainFree
  PROVE  \A r \in Signings : sign[r].phase # "begun"
  BY DEF Owned, JobOf, OneUnrecorded, Unrecorded, ChainFree

\* Every step keeps the order in which jobs were begun and recorded.
LEMMA OrderedStep ==
  Types /\ Owned /\ Ordered /\ [Next]_vars => Ordered'
<1> SUFFICES ASSUME Types, Owned, Ordered, [Next]_vars PROVE Ordered'
  OBVIOUS
<1>0. /\ BegunInOrder /\ known \subseteq Begun /\ OneUnrecorded
      /\ RecordedJobIsNewest
      /\ \A r \in Signings : sign[r].phase = "begun" =>
           Unrecorded(r) /\ sign[r].job \in Begun /\ sign[r].job # None
      /\ \A r \in Signings : sign[r].phase # "begun" => sign[r].job = None
  BY DEF Ordered, OneUnrecorded, Owned, JobOf
<1>1. ASSUME NEW s \in Slots, NEW ref \in Invitations, AddSlot(s, ref)
      PROVE  Ordered'
  <2>1. NewSlot(ref) \in SlotRecord /\ NewSlot(ref).job = None
    BY InvitationAssumption DEF NewSlot, SlotRecord
  <2>2. /\ slot' = [slot EXCEPT ![s] = NewSlot(ref)] /\ s \notin Present
        /\ UNCHANGED <<job, known, sign, view, missed>> /\ Begun' = Begun
    BY <1>1 DEF AddSlot, Begun, Present
  <2>3. /\ slot'[s] = NewSlot(ref) /\ \A t \in Slots \ {s} : slot'[t] = slot[t]
        /\ Present' = Present \cup {s} /\ Present \subseteq Slots
    BY <2>1, <2>2, SlotSet DEF Present
  <2>4. \A t \in Present' :
           \/ t \in Present /\ slot'[t].job = slot[t].job
           \/ t \notin Present /\ slot'[t].job = None
    BY <2>1, <2>2, <2>3
  <2> QED
    BY <1>0, <2>2, <2>4, OrderKept DEF Unrecorded
<1>2. ASSUME NEW to, Transition(to) PROVE Ordered'
  BY <1>0, <1>2, OrderKept DEF Transition, Unrecorded, Present, Begun
<1>3. ASSUME NEW j \in Begun,
             SignJob(j) \/ Lapse(j) \/ Forget(j) \/ abandonSigning(j)
      PROVE  Ordered'
  <2>1. /\ Begun' = Begun /\ \A k \in Begun : job'[k].slot = job[k].slot
        /\ \A k \in Begun \ {j} : job'[k] = job[k]
        /\ UNCHANGED <<slot, known, sign, view, missed>> /\ Present' = Present
    BY <1>3, JobStateSet
       DEF SignJob, Lapse, Forget, abandonSigning, Present
  <2>2. \A r \in Signings : sign[r].phase = "begun" => sign[r].job # j
    BY <1>0, <1>3 DEF SignJob, Lapse, Forget, abandonSigning, Unrecorded
  <2> QED
    BY <1>0, <2>1, <2>2, OrderKept DEF Unrecorded
<1>4. ASSUME NEW j \in Begun, Callback(j) PROVE Ordered'
  <2> DEFINE s == job[j].slot
             sl == [slot[s] EXCEPT !.signedDocRef = j]
  <2>1. s \in Present /\ s \in Slots /\ j \in Jobs /\ slot[s] \in SlotRecord
    BY PresentFacts DEF Types
  <2>2. sl \in SlotRecord /\ sl.job = slot[s].job
    BY <2>1 DEF SlotRecord
  <2>3. /\ slot' = [slot EXCEPT ![s] = sl] /\ Begun' = Begun
        /\ UNCHANGED <<job, known, sign, view, missed>>
    BY <1>4, <2>1 DEF Callback, Types, Begun
  <2> HIDE DEF sl, s
  <2>4. /\ slot'[s] = sl /\ \A t \in Slots \ {s} : slot'[t] = slot[t]
        /\ Present' = Present \cup {s} /\ Present \subseteq Slots
    BY <2>1, <2>2, <2>3, SlotSet DEF Present
  <2>5. \A t \in Present' : t \in Present /\ slot'[t].job = slot[t].job
    BY <2>1, <2>2, <2>4
  <2> QED
    BY <1>0, <2>3, <2>5, OrderKept DEF Unrecorded
<1>5. ASSUME NEW r \in Signings,
             BeginRefused(r) \/ \E s \in Slots : SlotEligible(r, s)
      PROVE  Ordered'
  <2>1. /\ sign[r].phase # "begun" /\ sign'[r].phase # "begun"
        /\ sign'[r].job = None
        /\ \A o \in Signings \ {r} : sign'[o] = sign[o]
        /\ UNCHANGED <<slot, job, known, view, missed>>
        /\ Begun' = Begun /\ Present' = Present
    BY <1>5 DEF BeginRefused, SlotEligible, IdleSign, Types, Begun, Present
  <2> QED
    BY <1>0, <2>1, OrderKept DEF Unrecorded
<1>6. ASSUME NEW v \in Viewers, Get(v) PROVE Ordered'
  <2>1. /\ view'.read = [s \in Present |-> slot[s]]
        /\ UNCHANGED <<slot, job, known, sign, missed>>
        /\ Begun' = Begun /\ Present' = Present
    BY <1>6 DEF Get, Begun, Present
  <2>2. \A s \in DOMAIN view'.read :
          s \in Present /\ view'.read[s].job = slot[s].job
    BY <2>1
  <2> QED
    BY <1>0, <2>1, <2>2, OrderKept DEF Unrecorded
<1>7. CASE Status
  <2>1. /\ view'.read = view.read
        /\ UNCHANGED <<slot, job, known, sign, missed>>
        /\ Begun' = Begun /\ Present' = Present
    BY <1>7, StatusFacts DEF Status, Begun, Present
  <2> QED
    BY <1>0, <2>1, OrderKept DEF Unrecorded
<1>8. CASE CaptureSignerName
  <2>1. /\ view'.read = view.read /\ Present' = Present
        /\ \A t \in Present : slot'[t].job = slot[t].job
        /\ UNCHANGED <<job, known, sign, missed>> /\ Begun' = Begun
    BY <1>8, CaptureFacts DEF CaptureSignerName, Begun
  <2> QED
    BY <1>0, <2>1, OrderKept, SMTT(40) DEF Unrecorded
<1>9. CASE Shown
  <2> DEFINE learned == {view.read[s].job : s \in DOMAIN view.read} \ {None}
  <2>1. /\ known' = known \cup learned /\ view' = IdleView
        /\ UNCHANGED <<slot, job, sign, missed>>
        /\ Begun' = Begun /\ Present' = Present
    BY <1>9 DEF Shown, Begun, Present
  <2>2. learned \subseteq Begun
    BY RecordedBegun
  <2>3. \A r \in Signings : sign[r].phase = "begun" => sign[r].job \notin learned
    BY <1>0 DEF Unrecorded
  <2> HIDE DEF learned
  <2> QED
    BY <1>0, <2>1, <2>2, <2>3, IdleViewFacts, OrderKept DEF Unrecorded
<1>10. CASE UNCHANGED vars
  BY <1>0, <1>10, OrderKept DEF vars, Unrecorded, Present, Begun
<1>11. ASSUME NEW r \in Signings, BeginSigning(r) \/ BeginLost(r)
       PROVE  Ordered'
  <2> DEFINE s == sign[r].slot
  <2>1. /\ sign[r].phase = "eligible" /\ NextJob \in Jobs /\ ChainFree
        /\ UNCHANGED <<slot, known, view>> /\ Present' = Present
        /\ job' = Begin(sign[r].slot)
        /\ \A o \in Signings \ {r} : sign'[o] = sign[o]
    BY <1>11 DEF BeginSigning, BeginLost, Present, Types
  <2>2. /\ job'[NextJob] = [slot |-> s, state |-> "pending"]
        /\ \A k \in Begun : job'[k] = job[k]
        /\ Begun' = Begun \cup {NextJob} /\ s \in Present
    BY <1>0, <2>1, BeginFacts
  <2>3. /\ NextJob \in Nat /\ NextJob \notin Begun
        /\ \A j \in Begun : j < NextJob
        /\ Begun \cup {NextJob} = 1..NextJob /\ NextJob # None
    BY <1>0, NextJobFacts, PeopleAssumption
  <2>4. \A o \in Signings : sign[o].phase # "begun"
    BY <1>0, <2>1, FreeMeansRecorded
  <2>5. BegunInOrder'
    BY <2>2, <2>3 DEF BegunInOrder
  <2>6. /\ \A t \in Present : slot[t].job # NextJob
        /\ \A t \in DOMAIN view.read : view.read[t].job # NextJob
        /\ NextJob \notin known
    BY <1>0, <2>3, RecordedBegun
  <2>7. Begun \subseteq Nat
    BY DEF Begun, Jobs
  <2> HIDE DEF s
  <2>8. CASE BeginSigning(r)
    <3>1. /\ sign'[r].phase = "begun" /\ sign'[r].job = NextJob
          /\ sign'[r].slot = s /\ missed' = missed
      BY <2>8 DEF BeginSigning, Types, Request, s
    <3>2. \A j \in Begun' : j <= NextJob
      BY <2>2, <2>3, <2>7
    <3>3. Unrecorded(r)'
      BY <2>1, <2>2, <2>6, <3>1, <3>2 DEF Unrecorded
    <3>4. OneUnrecorded'
      BY <1>0, <2>1, <2>4, <3>1, <3>3 DEF OneUnrecorded
    <3>5. \A t \in Present : (\A o \in Signings : sign'[o].phase = "begun"
                                => sign'[o].slot # t) => t # s
      BY <3>1
    <3>6. RecordedJobIsNewest'
      BY <1>0, <2>1, <2>2, <2>4, <3>1, <3>5 DEF RecordedJobIsNewest
    <3> QED
      BY <1>0, <2>1, <2>2, <2>5, <3>4, <3>6 DEF Ordered
  <2>9. CASE BeginLost(r)
    <3>1. /\ sign'[r].phase # "begun" /\ sign'[r].job = None
          /\ missed' = missed \cup {s}
      BY <2>9 DEF BeginLost, Types, IdleSign, s
    <3>2. OneUnrecorded'
      BY <1>0, <2>1, <2>4, <3>1 DEF OneUnrecorded
    <3>3. RecordedJobIsNewest'
      BY <1>0, <2>1, <2>2, <2>4, <3>1 DEF RecordedJobIsNewest
    <3> QED
      BY <1>0, <2>1, <2>2, <2>5, <3>2, <3>3 DEF Ordered
  <2> QED
    BY <1>11, <2>8, <2>9
<1>12. ASSUME NEW r \in Signings, SetSlotJob(r) PROVE Ordered'
  <2> DEFINE s == sign[r].slot
             k == sign[r].job
             sl == [slot[s] EXCEPT !.job = k]
  <2>1. /\ sign[r].phase = "begun" /\ known' = known \cup {k}
        /\ sign'[r].phase # "begun" /\ sign'[r].job = None
        /\ \A o \in Signings \ {r} : sign'[o] = sign[o]
        /\ UNCHANGED <<job, view>> /\ Begun' = Begun
    BY <1>12 DEF SetSlotJob, Types, IdleSign, Begun
  <2>2. /\ s \in Present /\ s \in Slots /\ slot[s] \in SlotRecord
        /\ k \in Begun /\ k \in Jobs /\ k # None
        /\ \A j \in Begun : j <= k
    BY <1>0, <2>1, PresentFacts DEF Types, Unrecorded
  <2>3. sl \in SlotRecord /\ sl.job = k
    BY <2>2 DEF SlotRecord
  <2>4. \A o \in Signings : sign'[o].phase # "begun"
    BY <1>0, <2>1 DEF OneUnrecorded
  <2>5. \A o \in Signings \ {r} : sign[o].phase # "begun"
    BY <1>0, <2>1 DEF OneUnrecorded
  <2>6. \/ slot' = [slot EXCEPT ![s] = sl] /\ missed' = missed
        \/ slot' = slot /\ missed' = missed \cup {s}
    BY <1>12, <2>2 DEF SetSlotJob, Types
  <2> HIDE DEF s, k, sl
  <2>7. BegunInOrder' /\ known' \subseteq Begun'
    BY <1>0, <2>1, <2>2 DEF BegunInOrder
  <2>8. OneUnrecorded'
    BY <1>0, <2>1, <2>4 DEF OneUnrecorded
  <2>9. \A t \in Present \ missed : t # s => \A j \in Begun : job[j].slot = t =>
          slot[t].job # None /\ slot[t].job >= j
    BY <1>0, <2>5 DEF RecordedJobIsNewest, s
  <2>10. CASE slot' = [slot EXCEPT ![s] = sl] /\ missed' = missed
    <3>1. /\ slot'[s] = sl /\ \A t \in Slots \ {s} : slot'[t] = slot[t]
          /\ Present' = Present \cup {s} /\ Present \subseteq Slots
      BY <2>2, <2>3, <2>10, SlotSet DEF Present
    <3>2. \A j \in Begun : sl.job # None /\ sl.job >= j
      BY <2>2, <2>3 DEF Jobs, Begun
    <3>3. RecordedJobIsNewest'
      BY <2>1, <2>2, <2>9, <2>10, <3>1, <3>2 DEF RecordedJobIsNewest
    <3> QED
      BY <2>7, <2>8, <3>3 DEF Ordered
  <2>11. CASE slot' = slot /\ missed' = missed \cup {s}
    <3>1. RecordedJobIsNewest'
      BY <2>1, <2>9, <2>11 DEF RecordedJobIsNewest, Present
    <3> QED
      BY <2>7, <2>8, <3>1 DEF Ordered
  <2> QED
    BY <2>6, <2>10, <2>11
<1> QED
  BY <1>1, <1>2, <1>3, <1>4, <1>5, <1>6, <1>7, <1>8, <1>9, <1>10, <1>11,
     <1>12 DEF Next

----------------------------------------------------------------------------
(* What follows for every behaviour.                                       *)

SigningInv == Types /\ Owned /\ Ordered

\* The inductive invariant: what a slot and a view refer to is their own, and
\* a job not yet recorded is the newest one, known to its request alone.
THEOREM SigningCorrect == Spec => []SigningInv
<1>1. Init => SigningInv
  BY TypesInit, OwnedInit, OrderedInit DEF SigningInv
<1>2. SigningInv /\ [Next]_vars => SigningInv'
  BY TypesStep, OwnedStep, OrderedStep DEF SigningInv, Ordered
<1> QED
  BY <1>1, <1>2, PTL DEF Spec

\* A signed slot keeps its download in every view (getEnvelope), whatever the
\* signing service says of its job.
THEOREM DownloadKept == Spec => []SignedSlotKeepsDownload
<1>1. SigningInv => SignedSlotKeepsDownload
  BY DEF SigningInv, Owned, RowOf, JobOf, SignedSlotKeepsDownload
<1> QED
  BY <1>1, SigningCorrect, PTL

\* A co-signer is given nobody else's identity code or return address
\* (getEnvelope's redaction).
THEOREM CoSignerIsGivenOwnOnly == Spec => []CoSignerSeesOwnOnly
<1>1. SigningInv => CoSignerSeesOwnOnly
  <2> SUFFICES ASSUME SigningInv, NEW s \in DOMAIN view.slots,
                      view.viewer # Owner
               PROVE  /\ view.slots[s].shown.ref = None
                      /\ view.slots[s].shown.returnURL
                           => Signer(view.read[s]) = view.viewer
    BY DEF CoSignerSeesOwnOnly
  <2>1. /\ s \in DOMAIN view.read /\ view.viewer \in People
        /\ view.read[s] \in SlotRecord
    BY ReadFacts DEF SigningInv, Types, View
  <2>2. view.slots[s].shown = Redacted(view.viewer, view.read[s])
    BY <2>1 DEF SigningInv, Owned, RowOf
  <2>3. You(view.viewer, view.read[s]) <=> Signer(view.read[s]) = view.viewer
    BY <2>1, YouSigns
  <2>4. Redacted(view.viewer, view.read[s]).ref = None
    BY DEF Redacted
  <2>5. Redacted(view.viewer, view.read[s]).returnURL
          = (view.read[s].returnURL
               /\ (view.viewer = Owner \/ You(view.viewer, view.read[s])))
    BY DEF Redacted
  <2> QED
    BY <2>2, <2>3, <2>4, <2>5
<1> QED
  BY <1>1, SigningCorrect, PTL

\* A name shown or stored on a slot is its signer's (CaptureSignerName).
THEOREM NamedByItsSigner == Spec => []NameIsTheSigners
<1>1. SigningInv => NameIsTheSigners
  BY DEF SigningInv, Types, Owned, SlotOwn, RowOf, NameIsTheSigners
<1> QED
  BY <1>1, SigningCorrect, PTL

\* However attempts are abandoned and retried, the recorded job is the newest
\* (signEnvelopeSlot: BeginSigning, then SetSlotJob).
THEOREM NewestJobRecorded == Spec => []RecordedJobIsNewest
<1>1. SigningInv => RecordedJobIsNewest
  BY DEF SigningInv, Ordered
<1> QED
  BY <1>1, SigningCorrect, PTL

----------------------------------------------------------------------------
(* The dashboard: its listings are well formed.                            *)

Chain == [root : {RootId(d) : d \in Roots}, head : Ids, until : Nat]
LibraryEnvelope == [id : Nat, docs : SUBSET Ids, status : Statuses,
                    updatedAt : Nat, until : Nat]

\* The library and what was read of it; the envelopes are finitely many.
Listings ==
  /\ chains \subseteq Chain
  /\ envs \subseteq LibraryEnvelope /\ IsFiniteSet(envs)
  /\ tasks \subseteq SUBSET Ids
  /\ read \in [phase : {"idle", "tasks", "envelopes", "answered"},
               tasks : SUBSET SUBSET Ids, envs : SUBSET LibraryEnvelope,
               chains : SUBSET Chain]
  /\ IsFiniteSet(read.envs)

\* The rows are what the three listings compose to, and there are none before.
Answered ==
  /\ read.phase = "answered" =>
       rows = [tasks |-> read.tasks,
               envs |-> EnvelopeRows(read.envs, read.chains),
               chains |-> standalone(read.tasks, read.envs, read.chains)]
  /\ read.phase # "answered" => rows = NoRows /\ read.chains = {}

DashboardInv == Listings /\ Answered

----------------------------------------------------------------------------
(* What the composition's operators choose.                                *)

\* Of finitely many envelopes one acted last.  Of the nonempty subsets without
\* one take a smallest: the part of it that acted after some envelope of it is
\* smaller and has none either.
LEMMA LatestExists ==
  ASSUME NEW E, IsFiniteSet(E), E # {},
         \A e \in E : e.id \in Nat /\ e.updatedAt \in Nat
  PROVE  \E f \in E : \A g \in E : ~actedLater(g, f)
<1> DEFINE Endless(U) == U # {} /\ \A f \in U : \E g \in U : actedLater(g, f)
           T == {U \in FiniteSubsetsOf(E) : Endless(U)}
<1> SUFFICES ASSUME \A f \in E : \E g \in E : actedLater(g, f)
             PROVE  FALSE
  OBVIOUS
<1>1. E \in T
  BY DEF FiniteSubsetsOf
<1>2. IsWellFoundedOn(StrictSubsetOrdering(E), FiniteSubsetsOf(E))
  BY FS_StrictSubsetOrderingWellFounded
<1>3. PICK U \in T : \A V \in T : <<V, U>> \notin StrictSubsetOrdering(E)
  <2>1. T \subseteq FiniteSubsetsOf(E) /\ T # {}
    BY <1>1
  <2> HIDE DEF T
  <2> QED
    BY <1>2, <2>1, WFMin
<1>4. U \in SUBSET E /\ IsFiniteSet(U) /\ Endless(U)
  BY <1>3 DEF FiniteSubsetsOf
<1>5. PICK f \in U : TRUE
  BY <1>4
<1> DEFINE V == {g \in U : actedLater(g, f)}
<1>6. V \in SUBSET U /\ V # U
  <2>1. ~actedLater(f, f)
    BY <1>4, <1>5 DEF actedLater
  <2> QED
    BY <1>5, <2>1
<1>7. Endless(V)
  <2>1. V # {}
    BY <1>4, <1>5
  <2>2. ASSUME NEW g \in V
        PROVE  \E h \in V : actedLater(h, g)
    <3>1. PICK h \in U : actedLater(h, g)
      BY <1>4, <2>2
    <3>2. /\ f.id \in Nat /\ f.updatedAt \in Nat
          /\ g.id \in Nat /\ g.updatedAt \in Nat
          /\ h.id \in Nat /\ h.updatedAt \in Nat
      BY <1>4, <1>5, <2>2, <3>1
    <3>3. actedLater(g, f)
      BY <2>2
    <3>4. actedLater(h, f)
      BY <3>1, <3>2, <3>3 DEF actedLater
    <3>5. h \in V
      BY <3>1, <3>4
    <3> HIDE DEF V
    <3> QED
      BY <3>1, <3>5
  <2> QED
    BY <2>1, <2>2
<1>8. IsFiniteSet(V) /\ V \in SUBSET E
  BY <1>4, <1>6, FS_Subset
<1>9. <<V, U>> \in StrictSubsetOrdering(E)
  BY <1>4, <1>6, <1>8 DEF StrictSubsetOrdering
<1> QED
  BY <1>3, <1>7, <1>8, <1>9 DEF FiniteSubsetsOf

\* The least of some numbers.
LEMMA MinFacts ==
  ASSUME NEW S \in SUBSET Nat, S # {}
  PROVE  Min(S) \in S /\ \A x \in S : Min(S) <= x
<1> DEFINE R == OpToRel(<, Nat)
<1>1. IsWellFoundedOn(R, Nat)
  BY NatLessThanWellFounded
<1> HIDE DEF R
<1>2. PICK m \in S : \A y \in S : <<y, m>> \notin R
  BY <1>1, WFMin
<1>3. \A y \in S : ~(y < m)
  BY <1>2 DEF R, OpToRel
<1>4. \A y \in S : m <= y
  BY <1>3
<1> QED
  BY <1>4 DEF Min

\* Among the envelopes of a listing that have a document, the one that acted
\* last keeps its row.
LEMMA LatestKept ==
  ASSUME NEW E \in SUBSET LibraryEnvelope, IsFiniteSet(E),
         NEW e \in E, NEW d \in e.docs
  PROVE  \E f \in latestPerChain(E) :
           /\ d \in f.docs
           /\ \A g \in E : d \in g.docs => ~actedLater(g, f)
<1> DEFINE D == {f \in E : d \in f.docs}
<1>1. IsFiniteSet(D) /\ D # {}
  BY FS_Subset
<1>2. \A f \in D : f.id \in Nat /\ f.updatedAt \in Nat
  BY DEF LibraryEnvelope
<1>3. PICK f \in D : \A g \in D : ~actedLater(g, f)
  <2> HIDE DEF D
  <2> QED
    BY <1>1, <1>2, LatestExists
<1>4. f \in latestPerChain(E)
  BY <1>3 DEF latestPerChain
<1> QED
  BY <1>3, <1>4

\* What withRetention makes of one envelope.
Limits(cs, e) == {c.until : c \in {k \in cs : Covers(e.docs, k)}} \ {Unbounded}
Kept(cs, e) ==
  IF Limits(cs, e) = {} THEN e ELSE [e EXCEPT !.until = Min(Limits(cs, e))]

\* It is the same envelope, with an end no later than its documents'.
LEMMA KeptFacts ==
  ASSUME NEW cs \in SUBSET Chain, NEW e \in LibraryEnvelope
  PROVE  /\ Kept(cs, e).id = e.id /\ Kept(cs, e).docs = e.docs
         /\ Kept(cs, e).updatedAt = e.updatedAt
         /\ \A c \in cs : Covers(e.docs, c) /\ c.until # Unbounded
              => /\ Kept(cs, e).until # Unbounded
                 /\ Kept(cs, e).until <= c.until
<1>1. Limits(cs, e) \in SUBSET Nat /\ Unbounded \notin Limits(cs, e)
  BY DEF Limits, Chain
<1>2. \A c \in cs : Covers(e.docs, c) /\ c.until # Unbounded
        => c.until \in Limits(cs, e)
  BY DEF Limits
<1>3. CASE Limits(cs, e) = {}
  BY <1>2, <1>3 DEF Kept
<1>4. CASE Limits(cs, e) # {}
  <2>1. /\ Min(Limits(cs, e)) \in Limits(cs, e)
        /\ \A x \in Limits(cs, e) : Min(Limits(cs, e)) <= x
    BY <1>1, <1>4, MinFacts
  <2>2. /\ Kept(cs, e).id = e.id /\ Kept(cs, e).docs = e.docs
        /\ Kept(cs, e).updatedAt = e.updatedAt
        /\ Kept(cs, e).until = Min(Limits(cs, e))
    BY <1>4 DEF LibraryEnvelope, Kept
  <2> QED
    BY <1>1, <1>2, <2>1, <2>2
<1> QED
  BY <1>3, <1>4

\* Every row is that of an envelope of the listing, and every envelope has one.
LEMMA RetentionRows ==
  ASSUME NEW cs, NEW es
  PROVE  withRetention(es, cs) = {Kept(cs, e) : e \in es}
  BY DEF withRetention, Kept, Limits

----------------------------------------------------------------------------
(* The listings stay well formed, and the answer what they compose to.     *)

\* Before the first request nothing is read, rendered or stored.
LEMMA DashboardStart == DashboardInit => DashboardInv
<1> SUFFICES ASSUME DashboardInit PROVE DashboardInv
  OBVIOUS
<1>1. IsFiniteSet(envs) /\ IsFiniteSet(read.envs)
  BY FS_EmptySet DEF DashboardInit, NothingRead
<1> QED
  BY <1>1 DEF DashboardInit, DashboardInv, Listings, Answered, NothingRead

\* The library's changes leave it well formed.
LEMMA LibraryStep ==
  ASSUME Listings, Library
  PROVE  Listings'
<1>1. read' = read
  BY DEF Library
<1>2. ASSUME NEW d \in Roots, NEW until \in 0..MaxUntil, Upload(d, until)
      PROVE  Listings'
  <2>1. RootId(d) \in Ids /\ until \in Nat
    BY DEF Ids
  <2>2. [root |-> RootId(d), head |-> RootId(d), until |-> until] \in Chain
    BY <2>1 DEF Chain
  <2> QED
    BY <1>1, <1>2, <2>2 DEF Upload, Listings
<1>3. ASSUME NEW c \in chains, Sign(c)
      PROVE  Listings'
  <2>1. c \in Chain
    BY DEF Listings
  <2> DEFINE d == CHOOSE x \in Roots : RootId(x) = c.root
  <2>2. d \in Roots
    BY <2>1 DEF Chain
  <2>3. HeadId(d) \in Ids
    BY <2>2 DEF Ids
  <2> HIDE DEF d
  <2>4. [c EXCEPT !.head = HeadId(d)] \in Chain
    BY <2>1, <2>3 DEF Chain
  <2>5. chains' = (chains \ {c}) \cup {[c EXCEPT !.head = HeadId(d)]}
    BY <1>3 DEF Sign, d
  <2> QED
    BY <1>1, <1>3, <2>4, <2>5 DEF Sign, Listings
<1>4. ASSUME NEW c \in chains, Destroy(c)
      PROVE  Listings'
  BY <1>1, <1>4 DEF Destroy, Listings
<1>5. ASSUME NEW c \in chains, Invite(c)
      PROVE  Listings'
  <2>1. {c.root} \in SUBSET Ids
    BY DEF Listings, Chain, Ids
  <2> QED
    BY <1>1, <1>5, <2>1 DEF Invite, Listings
<1>6. ASSUME NEW id \in Envelopes, NEW at \in 0..MaxTouch,
             NEW docs \in SUBSET UNION {Names(c) : c \in chains},
             CreateEnvelope(id, docs, at)
      PROVE  Listings'
  <2> DEFINE new == [id |-> id, docs |-> docs, status |-> "active",
                     updatedAt |-> at, until |-> Unbounded]
  <2>1. id \in Nat /\ at \in Nat
    BY EnvelopeAssumption
  <2>2. docs \in SUBSET Ids
    <3>1. \A c \in chains : c.root \in Ids /\ c.head \in Ids
      BY DEF Listings, Chain, Ids
    <3> QED
      BY <3>1 DEF Names
  <2>3. new \in LibraryEnvelope
    BY <2>1, <2>2 DEF LibraryEnvelope, Statuses, Unbounded
  <2>4. envs' = envs \cup {new}
    BY <1>6 DEF CreateEnvelope
  <2> HIDE DEF new
  <2>5. IsFiniteSet(envs')
    BY <2>4, FS_AddElement DEF Listings
  <2> QED
    BY <1>1, <1>6, <2>3, <2>4, <2>5 DEF CreateEnvelope, Listings
<1>7. ASSUME NEW e \in envs, NEW st \in Statuses, NEW at \in 0..MaxTouch,
             Touch(e, st, at)
      PROVE  Listings'
  <2> DEFINE new == [e EXCEPT !.status = st, !.updatedAt = at]
  <2>1. e \in LibraryEnvelope /\ at \in Nat
    BY DEF Listings
  <2>2. new \in LibraryEnvelope
    BY <2>1 DEF LibraryEnvelope
  <2>3. envs' = (envs \ {e}) \cup {new}
    BY <1>7 DEF Touch
  <2> HIDE DEF new
  <2>4. IsFiniteSet(envs \ {e})
    BY FS_RemoveElement DEF Listings
  <2>5. IsFiniteSet(envs')
    BY <2>3, <2>4, FS_AddElement
  <2> QED
    BY <1>1, <1>7, <2>2, <2>3, <2>5 DEF Touch, Listings
<1>8. ASSUME NEW t \in tasks, Uninvite(t)
      PROVE  Listings'
  BY <1>1, <1>8 DEF Uninvite, Listings
<1> QED
  BY <1>2, <1>3, <1>4, <1>5, <1>6, <1>7, <1>8 DEF Library

\* A page of the listing is some of its chains.
LEMMA PageFacts ==
  ASSUME NEW page \in ChainPages
  PROVE  page \subseteq chains
  BY DEF ChainPages

\* A request reads what the library holds, and answers what it has read.
LEMMA DashboardStep ==
  ASSUME DashboardInv, [DashboardNext]_dashboardVars
  PROVE  DashboardInv'
<1> USE DEF DashboardInv
<1>1. CASE readTasks
  <2>1. /\ read' = [read EXCEPT !.phase = "tasks", !.tasks = tasks]
        /\ UNCHANGED <<chains, envs, tasks, rows>> /\ read.phase = "idle"
    BY <1>1 DEF readTasks
  <2>2. read'.phase = "tasks" /\ read'.envs = read.envs /\ read'.chains = {}
    BY <2>1 DEF Listings, Answered
  <2> QED
    BY <2>1, <2>2 DEF Listings, Answered
<1>2. CASE readEnvelopes
  <2>1. /\ read' = [read EXCEPT !.phase = "envelopes", !.envs = envs]
        /\ UNCHANGED <<chains, envs, tasks, rows>> /\ read.phase = "tasks"
    BY <1>2 DEF readEnvelopes
  <2>2. read'.phase = "envelopes" /\ read'.envs = envs /\ read'.chains = {}
    BY <2>1 DEF Listings, Answered
  <2> QED
    BY <2>1, <2>2 DEF Listings, Answered
<1>3. CASE dashboard
  <2>1. PICK page \in ChainPages :
          /\ read' = [read EXCEPT !.phase = "answered", !.chains = page]
          /\ rows' = [tasks |-> read.tasks,
                      envs |-> EnvelopeRows(read.envs, page),
                      chains |-> standalone(read.tasks, read.envs, page)]
    BY <1>3 DEF dashboard
  <2>2. UNCHANGED <<chains, envs, tasks>>
    BY <1>3 DEF dashboard
  <2>3. page \in SUBSET Chain
    BY PageFacts DEF Listings
  <2>4. /\ read'.phase = "answered" /\ read'.chains = page
        /\ read'.envs = read.envs /\ read'.tasks = read.tasks
    BY <2>1 DEF Listings
  <2>5. Listings'
    BY <2>1, <2>2, <2>3, <2>4 DEF Listings
  <2>6. Answered'
    BY <2>1, <2>4 DEF Answered
  <2> QED
    BY <2>5, <2>6
<1>4. CASE relayErr \/ Rendered
  <2>1. read' = NothingRead /\ rows' = NoRows
        /\ UNCHANGED <<chains, envs, tasks>>
    BY <1>4 DEF relayErr, Rendered, Answered
  <2>2. IsFiniteSet(read'.envs)
    BY <2>1, FS_EmptySet DEF NothingRead
  <2> QED
    BY <2>1, <2>2 DEF Listings, Answered, NothingRead
<1>5. CASE Library
  <2>1. Listings'
    BY <1>5, LibraryStep
  <2>2. UNCHANGED <<read, rows>>
    BY <1>5 DEF Library
  <2> QED
    BY <2>1, <2>2 DEF Answered
<1>6. CASE UNCHANGED dashboardVars
  BY <1>6 DEF dashboardVars, Listings, Answered
<1> QED
  BY <1>1, <1>2, <1>3, <1>4, <1>5, <1>6 DEF DashboardNext

\* The answer is the composition of what was read, whatever the library does
\* between the reads and while it is rendered (dashboard).
THEOREM AnsweredAsRead == DashboardSpec => []DashboardInv
  BY DashboardStart, DashboardStep, PTL DEF DashboardSpec

----------------------------------------------------------------------------
(* What the answer leaves out, and what stands for it.                     *)

\* The composed rows, in terms of the listings.
LEMMA RowFacts ==
  ASSUME DashboardInv, read.phase = "answered"
  PROVE  LET live == withoutDestroyedChains(read.envs, read.chains) IN
         /\ live \in SUBSET LibraryEnvelope /\ IsFiniteSet(live)
         /\ live \subseteq read.envs
         /\ rows.envs = {Kept(read.chains, e) : e \in latestPerChain(live)}
         /\ rows.chains = standalone(read.tasks, read.envs, read.chains)
         /\ rows.tasks = read.tasks
         /\ latestPerChain(live) \subseteq live
<1> DEFINE live == withoutDestroyedChains(read.envs, read.chains)
<1>1. live \subseteq read.envs
  BY DEF withoutDestroyedChains
<1>2. latestPerChain(live) \subseteq live
  BY DEF latestPerChain
<1>3. read.envs \in SUBSET LibraryEnvelope /\ IsFiniteSet(read.envs)
  BY DEF DashboardInv, Listings
<1>4. EnvelopeRows(read.envs, read.chains)
        = {Kept(read.chains, e) : e \in latestPerChain(live)}
  BY RetentionRows DEF EnvelopeRows
<1> HIDE DEF live
<1>5. live \in SUBSET LibraryEnvelope /\ IsFiniteSet(live)
  BY <1>1, <1>3, FS_Subset
<1> QED
  BY <1>1, <1>2, <1>4, <1>5 DEF DashboardInv, Answered, live

\* The row of a kept envelope names it and its documents.
LEMMA RowOfEnvelope ==
  ASSUME DashboardInv, read.phase = "answered",
         NEW e \in latestPerChain(withoutDestroyedChains(read.envs,
                                                         read.chains))
  PROVE  /\ Kept(read.chains, e) \in rows.envs
         /\ Kept(read.chains, e).id = e.id
         /\ Kept(read.chains, e).docs = e.docs
         /\ Kept(read.chains, e).updatedAt = e.updatedAt
<1>1. e \in LibraryEnvelope /\ Kept(read.chains, e) \in rows.envs
  BY RowFacts
<1>2. read.chains \in SUBSET Chain
  BY DEF DashboardInv, Listings
<1> QED
  BY <1>1, <1>2, KeptFacts

\* Whatever is created, signed or destroyed between the reads, a listed chain
\* has a row (latestPerChain, withoutDestroyedChains, standalone).
THEOREM ListedChainHasARow == DashboardSpec => []EveryListedChainHasARow
<1>1. DashboardInv => EveryListedChainHasARow
  <2> SUFFICES ASSUME DashboardInv, NEW c \in read.chains
               PROVE  \/ c \in rows.chains
                      \/ \E e \in rows.envs : Covers(e.docs, c)
                      \/ \E t \in rows.tasks : Covers(t, c)
    BY DEF EveryListedChainHasARow
  <2> DEFINE live == withoutDestroyedChains(read.envs, read.chains)
  <2>1. read.phase = "answered"
    BY DEF DashboardInv, Answered
  <2>2. CASE c \in standalone(read.tasks, read.envs, read.chains)
    BY <2>1, <2>2, RowFacts
  <2>3. ASSUME NEW t \in read.tasks, Covers(t, c)
        PROVE  \E u \in rows.tasks : Covers(u, c)
    BY <2>1, <2>3, RowFacts
  <2>4. ASSUME NEW e \in read.envs, NEW d \in e.docs, d \in Names(c)
        PROVE  \E r \in rows.envs : Covers(r.docs, c)
    <3>1. e \in live
      BY <2>4 DEF withoutDestroyedChains, Covers
    <3>2. live \in SUBSET LibraryEnvelope /\ IsFiniteSet(live)
      BY <2>1, RowFacts
    <3>3. PICK f \in latestPerChain(live) : d \in f.docs
      <4> HIDE DEF live
      <4> QED
        BY <2>4, <3>1, <3>2, LatestKept
    <3>4. /\ Kept(read.chains, f) \in rows.envs
          /\ Kept(read.chains, f).docs = f.docs
      BY <2>1, <3>3, RowOfEnvelope
    <3>5. Covers(Kept(read.chains, f).docs, c)
      BY <2>4, <3>3, <3>4 DEF Covers
    <3> QED
      BY <3>4, <3>5
  <2>5. CASE c \notin standalone(read.tasks, read.envs, read.chains)
    <3>1. PICK d \in Names(c) :
            d \in UNION (read.tasks \cup {e.docs : e \in read.envs})
      BY <2>5 DEF standalone, Covers
    <3>2. CASE \E t \in read.tasks : d \in t
      BY <2>3, <3>1, <3>2 DEF Covers
    <3>3. CASE \E e \in read.envs : d \in e.docs
      BY <2>4, <3>1, <3>3
    <3> QED
      BY <3>1, <3>2, <3>3
  <2> QED
    BY <2>2, <2>5
<1> QED
  BY <1>1, AnsweredAsRead, PTL

\* A document never has a row beside that of its envelope or of an invitation
\* to it (standalone; "the browser can never render a document next to the
\* envelope that contains it").
THEOREM NeverBesideItsEnvelope == DashboardSpec => []NotBesideItsEnvelope
<1>1. DashboardInv => NotBesideItsEnvelope
  <2> SUFFICES ASSUME DashboardInv, NEW c \in rows.chains
               PROVE  /\ \A e \in rows.envs : ~Covers(e.docs, c)
                      /\ \A t \in rows.tasks : ~Covers(t, c)
    BY DEF NotBesideItsEnvelope
  <2> DEFINE covered == UNION (read.tasks \cup {e.docs : e \in read.envs})
  <2>1. read.phase = "answered"
    BY DEF DashboardInv, Answered, NoRows
  <2>2. ~Covers(covered, c)
    BY <2>1, RowFacts DEF standalone
  <2>3. \A docs \in SUBSET covered : ~Covers(docs, c)
    BY <2>2 DEF Covers
  <2>4. ASSUME NEW t \in rows.tasks PROVE t \in SUBSET covered
    BY <2>1, RowFacts
  <2>5. ASSUME NEW r \in rows.envs PROVE r.docs \in SUBSET covered
    <3>1. PICK e \in latestPerChain(withoutDestroyedChains(read.envs,
                                                           read.chains)) :
            r = Kept(read.chains, e)
      BY <2>1, RowFacts
    <3>2. r.docs = e.docs
      BY <2>1, <3>1, RowOfEnvelope
    <3>3. e \in read.envs
      BY <2>1, <3>1, RowFacts
    <3> QED
      BY <3>2, <3>3
  <2> QED
    BY <2>3, <2>4, <2>5
<1> QED
  BY <1>1, AnsweredAsRead, PTL

\* A listed envelope has its row, unless it has documents and either it is
\* terminal with none of them listed, or each of them has the row of an
\* envelope that acted later (withoutDestroyedChains, latestPerChain).
THEOREM EnvelopesAccountedFor == DashboardSpec => []EveryEnvelopeAccountedFor
<1>1. DashboardInv => EveryEnvelopeAccountedFor
  <2> SUFFICES ASSUME DashboardInv, NEW e \in read.envs, read.phase = "answered"
               PROVE  \/ \E f \in rows.envs : f.id = e.id
                      \/ /\ e.status \in terminal /\ e.docs # {}
                         /\ \A c \in read.chains : ~Covers(e.docs, c)
                      \/ /\ e.docs # {}
                         /\ \A d \in e.docs : \E f \in rows.envs :
                              d \in f.docs /\ actedLater(f, e)
    BY DEF EveryEnvelopeAccountedFor
  <2> DEFINE live == withoutDestroyedChains(read.envs, read.chains)
  <2>1. CASE e \notin live
    BY <2>1 DEF withoutDestroyedChains
  <2>2. CASE e \in latestPerChain(live)
    BY <2>2, RowOfEnvelope
  <2>3. CASE e \in live /\ e \notin latestPerChain(live)
    <3>1. e.docs # {}
      BY <2>3 DEF latestPerChain
    <3> SUFFICES ASSUME NEW d \in e.docs
                 PROVE  \E r \in rows.envs : d \in r.docs /\ actedLater(r, e)
      BY <3>1
    <3>2. PICK g \in live : d \in g.docs /\ actedLater(g, e)
      BY <2>3 DEF latestPerChain
    <3>3. /\ live \in SUBSET LibraryEnvelope /\ IsFiniteSet(live)
          /\ latestPerChain(live) \subseteq live
      BY RowFacts
    <3>4. PICK f \in latestPerChain(live) :
            d \in f.docs /\ \A h \in live : d \in h.docs => ~actedLater(h, f)
      <4> HIDE DEF live
      <4> QED
        BY <2>3, <3>3, LatestKept
    <3>5. ~actedLater(g, f)
      BY <3>2, <3>4
    <3>6. /\ e.id \in Nat /\ e.updatedAt \in Nat
          /\ f.id \in Nat /\ f.updatedAt \in Nat
          /\ g.id \in Nat /\ g.updatedAt \in Nat
      <4> HIDE DEF live
      <4> QED
        BY <2>3, <3>2, <3>3, <3>4 DEF LibraryEnvelope
    <3>7. actedLater(f, e)
      BY <3>2, <3>5, <3>6 DEF actedLater
    <3>8. /\ Kept(read.chains, f) \in rows.envs
          /\ Kept(read.chains, f).id = f.id
          /\ Kept(read.chains, f).docs = f.docs
          /\ Kept(read.chains, f).updatedAt = f.updatedAt
      BY <3>4, RowOfEnvelope
    <3>9. actedLater(Kept(read.chains, f), e)
      BY <3>7, <3>8 DEF actedLater
    <3> QED
      BY <3>4, <3>8, <3>9
  <2> QED
    BY <2>1, <2>2, <2>3
<1> QED
  BY <1>1, AnsweredAsRead, PTL

\* An envelope's row ends no later than the documents of it that are listed
\* (withRetention).
THEOREM RowsEndWithTheirDocuments ==
  DashboardSpec => []NoRowOutlivesItsDocuments
<1>1. DashboardInv => NoRowOutlivesItsDocuments
  <2> SUFFICES ASSUME DashboardInv, NEW r \in rows.envs, NEW c \in read.chains,
                      Covers(r.docs, c), c.until # Unbounded
               PROVE  r.until # Unbounded /\ r.until <= c.until
    BY DEF NoRowOutlivesItsDocuments
  <2>1. read.phase = "answered"
    BY DEF DashboardInv, Answered
  <2>2. PICK e \in latestPerChain(withoutDestroyedChains(read.envs,
                                                         read.chains)) :
          r = Kept(read.chains, e)
    BY <2>1, RowFacts
  <2>3. e \in LibraryEnvelope /\ read.chains \in SUBSET Chain
    BY <2>1, <2>2, RowFacts DEF DashboardInv, Listings
  <2>4. r.docs = e.docs
    BY <2>2, <2>3, KeptFacts
  <2> QED
    BY <2>2, <2>3, <2>4, KeptFacts
<1> QED
  BY <1>1, AnsweredAsRead, PTL

----------------------------------------------------------------------------
(* A listing that fits one page (dashboard reads no second one).           *)

\* Chain c began as document d, and goes by it or by its signed container.
ChainOf(c, d) == c.root = RootId(d) /\ c.head \in {RootId(d), HeadId(d)}

\* The chains: one to a document, and signed once an envelope is over the
\* signed container.
Rooted ==
  /\ \A c \in chains : \E d \in Roots : ChainOf(c, d)
  /\ \A c, k \in chains : c.root = k.root => c = k
  /\ \A d \in Roots, c \in chains, e \in envs :
       c.root = RootId(d) /\ HeadId(d) \in e.docs => c.head = HeadId(d)

\* An envelope that was listed is one of the user's still, over its documents.
StillThere == \A e \in read.envs : \E f \in envs : f.docs = e.docs

\* While the answer is rendered, a document of a listed envelope that is stored
\* was listed too.
Witnessed ==
  read.phase = "answered" =>
    \A e \in read.envs, c \in chains : Covers(e.docs, c) =>
      \E k \in read.chains : Covers(e.docs, k)

OnePageInv == DashboardInv /\ Rooted /\ StillThere /\ Witnessed

\* Ids tell documents apart, and a document from its signed container.
LEMMA IdFacts ==
  /\ \A d, x : RootId(d) = RootId(x) <=> d = x
  /\ \A d, x : HeadId(d) = HeadId(x) <=> d = x
  /\ \A d, x : RootId(d) # HeadId(x)
  BY DEF RootId, HeadId

\* There are no more chains than documents, so all are on one page.
LEMMA OnePage ==
  ASSUME IsFiniteSet(Roots), Cardinality(Roots) <= ChainPage, Rooted,
         NEW page \in ChainPages
  PROVE  page = chains
<1> DEFINE root(c) == CHOOSE d \in Roots : ChainOf(c, d)
           f == [c \in chains |-> root(c)]
<1>1. \A c \in chains : root(c) \in Roots /\ c.root = RootId(root(c))
  BY DEF Rooted, ChainOf
<1>2. \A c, k \in chains : root(c) = root(k) => c = k
  BY <1>1 DEF Rooted
<1>3. f \in Injection(chains, Roots)
  <2> HIDE DEF root
  <2> QED
    BY <1>1, <1>2 DEF Injection, IsInjective
<1> HIDE DEF f
<1>4. IsFiniteSet(chains) /\ Cardinality(chains) <= Cardinality(Roots)
  BY <1>3, FS_Injection
<1>5. Cardinality(chains) \in Nat /\ Cardinality(Roots) \in Nat
  BY <1>4, FS_CardinalityType
<1>6. ChainPage \in Nat /\ Cardinality(chains) <= ChainPage
  BY <1>4, <1>5, BoundAssumption
<1>7. Min({ChainPage, Cardinality(chains)}) = Cardinality(chains)
  <2>1. {ChainPage, Cardinality(chains)} \in SUBSET Nat
    BY <1>5, <1>6
  <2>2. /\ Min({ChainPage, Cardinality(chains)})
             \in {ChainPage, Cardinality(chains)}
        /\ Min({ChainPage, Cardinality(chains)}) <= Cardinality(chains)
    BY <2>1, MinFacts
  <2> QED
    BY <1>5, <1>6, <2>2
<1>8. page \in SUBSET chains /\ Cardinality(page) = Cardinality(chains)
  BY <1>7 DEF ChainPages
<1> QED
  BY <1>4, <1>8, FS_Subset

\* The chains stay rooted as the library changes.
LEMMA LibraryRooted ==
  ASSUME Listings, Rooted, Library
  PROVE  Rooted'
<1>1. ASSUME NEW d \in Roots, NEW until \in 0..MaxUntil, Upload(d, until)
      PROVE  Rooted'
  <2> DEFINE new == [root |-> RootId(d), head |-> RootId(d), until |-> until]
  <2>1. /\ \A c \in chains : c.root # RootId(d)
        /\ \A e \in envs : HeadId(d) \notin e.docs
        /\ chains' = chains \cup {new} /\ envs' = envs
    BY <1>1 DEF Upload
  <2>2. ChainOf(new, d) /\ new.root = RootId(d)
    BY DEF ChainOf
  <2> HIDE DEF new
  <2> QED
    BY <2>1, <2>2, IdFacts DEF Rooted
<1>2. ASSUME NEW c \in chains, Sign(c)
      PROVE  Rooted'
  <2>1. PICK d \in Roots : ChainOf(c, d)
    BY DEF Rooted
  <2>2. (CHOOSE x \in Roots : RootId(x) = c.root) = d
    BY <2>1, IdFacts DEF ChainOf
  <2> DEFINE new == [c EXCEPT !.head = HeadId(d)]
  <2>3. chains' = (chains \ {c}) \cup {new} /\ envs' = envs
    BY <1>2, <2>2 DEF Sign
  <2>4. new.root = c.root /\ new.head = HeadId(d)
    BY DEF Listings, Chain
  <2>5. ChainOf(new, d)
    BY <2>1, <2>4 DEF ChainOf
  <2> HIDE DEF new
  <2>6. \A k \in chains' : k = new \/ (k \in chains /\ k # c)
    BY <2>3
  <2>7. \A k \in chains' : \E x \in Roots : ChainOf(k, x)
    BY <2>5, <2>6 DEF Rooted
  <2>8. \A k, l \in chains' : k.root = l.root => k = l
    BY <2>4, <2>6 DEF Rooted
  <2>9. ASSUME NEW x \in Roots, NEW k \in chains', NEW e \in envs',
               k.root = RootId(x), HeadId(x) \in e.docs
        PROVE  k.head = HeadId(x)
    BY <2>1, <2>3, <2>4, <2>6, <2>9, IdFacts DEF Rooted, ChainOf
  <2> QED
    BY <2>7, <2>8, <2>9 DEF Rooted
<1>3. ASSUME NEW c \in chains, Destroy(c)
      PROVE  Rooted'
  BY <1>3 DEF Destroy, Rooted
<1>4. ASSUME NEW id \in Envelopes, NEW at \in 0..MaxTouch,
             NEW docs \in SUBSET UNION {Names(c) : c \in chains},
             CreateEnvelope(id, docs, at)
      PROVE  Rooted'
  <2>1. ASSUME NEW d \in Roots, NEW c \in chains, c.root = RootId(d),
               HeadId(d) \in docs
        PROVE  c.head = HeadId(d)
    <3>1. PICK k \in chains : HeadId(d) \in Names(k)
      BY <2>1
    <3>2. PICK x \in Roots : ChainOf(k, x)
      BY DEF Rooted
    <3>3. k.root = c.root /\ k.head = HeadId(d)
      BY <2>1, <3>1, <3>2, IdFacts DEF ChainOf, Names
    <3> QED
      BY <3>1, <3>3 DEF Rooted
  <2>2. \A e \in envs' : e \in envs \/ e.docs = docs
    BY <1>4 DEF CreateEnvelope
  <2>3. chains' = chains
    BY <1>4 DEF CreateEnvelope
  <2> QED
    BY <2>1, <2>2, <2>3 DEF Rooted
<1>5. ASSUME NEW e \in envs, NEW st \in Statuses, NEW at \in 0..MaxTouch,
             Touch(e, st, at)
      PROVE  Rooted'
  <2>1. \A f \in envs' : \E g \in envs : g.docs = f.docs
    BY <1>5 DEF Touch, Listings, LibraryEnvelope
  <2>2. chains' = chains
    BY <1>5 DEF Touch
  <2> QED
    BY <2>1, <2>2 DEF Rooted
<1>6. ASSUME UNCHANGED <<chains, envs>>
      PROVE  Rooted'
  BY <1>6 DEF Rooted
<1> QED
  BY <1>1, <1>2, <1>3, <1>4, <1>5, <1>6 DEF Library, Invite, Uninvite

\* No change of the library removes an envelope or changes its documents.
LEMMA EnvelopesStay ==
  ASSUME Listings, Library
  PROVE  \A e \in envs : \E f \in envs' : f.docs = e.docs
<1>1. ASSUME NEW e \in envs, NEW st \in Statuses, NEW at \in 0..MaxTouch,
             Touch(e, st, at)
      PROVE  \A g \in envs : \E f \in envs' : f.docs = g.docs
  <2> DEFINE new == [e EXCEPT !.status = st, !.updatedAt = at]
  <2>1. new.docs = e.docs
    BY DEF Listings, LibraryEnvelope
  <2>2. envs' = (envs \ {e}) \cup {new}
    BY <1>1 DEF Touch
  <2> HIDE DEF new
  <2> QED
    BY <2>1, <2>2
<1>2. (\E e \in envs, st \in Statuses, at \in 0..MaxTouch : Touch(e, st, at))
        \/ envs \subseteq envs'
  BY DEF Library, Upload, Sign, Destroy, Invite, Uninvite, CreateEnvelope
<1> QED
  BY <1>1, <1>2

\* A change of the library stores no document of an envelope that was not
\* stored before.
LEMMA NothingReturns ==
  ASSUME Listings, Rooted, Library, NEW e \in envs, NEW c \in chains',
         Covers(e.docs, c)
  PROVE  \E k \in chains : Covers(e.docs, k)
<1>1. CASE c \in chains
  BY <1>1
<1>2. ASSUME NEW d \in Roots, NEW until \in 0..MaxUntil, Upload(d, until),
             c \notin chains
      PROVE  FALSE
  <2>1. c.root = RootId(d) /\ c.head = RootId(d)
    BY <1>2 DEF Upload
  <2> QED
    BY <1>2, <2>1 DEF Upload, Covers, Names
<1>3. ASSUME NEW k \in chains, Sign(k), c \notin chains
      PROVE  Covers(e.docs, k)
  <2>1. PICK d \in Roots : ChainOf(k, d)
    BY DEF Rooted
  <2>2. (CHOOSE x \in Roots : RootId(x) = k.root) = d
    BY <2>1, IdFacts DEF ChainOf
  <2>3. c = [k EXCEPT !.head = HeadId(d)] /\ c # k
    BY <1>3, <2>2 DEF Sign
  <2>4. c.root = k.root /\ c.head = HeadId(d)
    BY <2>3 DEF Listings, Chain
  <2>5. k.head # HeadId(d)
    BY <2>3 DEF Listings, Chain
  <2>6. HeadId(d) \notin e.docs
    BY <2>1, <2>5 DEF Rooted, ChainOf
  <2> QED
    BY <2>4, <2>6 DEF Covers, Names
<1>4. \/ \E d \in Roots, until \in 0..MaxUntil : Upload(d, until)
      \/ \E k \in chains : Sign(k)
      \/ chains' \subseteq chains
  BY DEF Library, Destroy, Invite, Uninvite, CreateEnvelope, Touch
<1> QED
  BY <1>1, <1>2, <1>3, <1>4

\* Between the last read and the answer's end the library destroys documents,
\* and brings none of a listed envelope back.
LEMMA OnePageStep ==
  ASSUME IsFiniteSet(Roots), Cardinality(Roots) <= ChainPage,
         OnePageInv, [DashboardNext]_dashboardVars
  PROVE  OnePageInv'
<1>1. DashboardInv'
  BY DashboardStep DEF OnePageInv
<1>2. CASE readTasks
  <2>1. /\ UNCHANGED <<chains, envs>>
        /\ read'.phase = "tasks" /\ read'.envs = read.envs
    BY <1>2 DEF readTasks, OnePageInv, DashboardInv, Listings
  <2> QED
    BY <1>1, <2>1 DEF OnePageInv, Rooted, StillThere, Witnessed
<1>3. CASE readEnvelopes
  <2>1. /\ UNCHANGED <<chains, envs>>
        /\ read'.phase = "envelopes" /\ read'.envs = envs
    BY <1>3 DEF readEnvelopes, OnePageInv, DashboardInv, Listings
  <2> QED
    BY <1>1, <2>1 DEF OnePageInv, Rooted, StillThere, Witnessed
<1>4. CASE dashboard
  <2>1. PICK page \in ChainPages :
          read' = [read EXCEPT !.phase = "answered", !.chains = page]
    BY <1>4 DEF dashboard
  <2>2. UNCHANGED <<chains, envs>>
    BY <1>4 DEF dashboard
  <2>3. page = chains
    BY OnePage DEF OnePageInv
  <2>4. read'.envs = read.envs /\ read'.chains = chains
    BY <2>1, <2>3 DEF OnePageInv, DashboardInv, Listings
  <2> QED
    BY <1>1, <2>2, <2>4 DEF OnePageInv, Rooted, StillThere, Witnessed
<1>5. CASE relayErr \/ Rendered
  <2>1. read' = NothingRead /\ UNCHANGED <<chains, envs>>
    BY <1>5 DEF relayErr, Rendered
  <2> QED
    BY <1>1, <2>1
       DEF OnePageInv, Rooted, StillThere, Witnessed, NothingRead
<1>6. CASE Library
  <2>1. Listings /\ Rooted /\ read' = read
    BY <1>6 DEF OnePageInv, DashboardInv, Library
  <2>2. Rooted'
    BY <1>6, <2>1, LibraryRooted
  <2>3. StillThere'
    BY <1>6, <2>1, EnvelopesStay DEF OnePageInv, StillThere
  <2>4. ASSUME read.phase = "answered", NEW e \in read.envs,
               NEW c \in chains', Covers(e.docs, c)
        PROVE  \E k \in read.chains : Covers(e.docs, k)
    <3>1. PICK f \in envs : f.docs = e.docs
      BY DEF OnePageInv, StillThere
    <3>2. \E k \in chains : Covers(e.docs, k)
      BY <1>6, <2>1, <2>4, <3>1, NothingReturns
    <3> QED
      BY <2>4, <3>2 DEF OnePageInv, Witnessed
  <2> QED
    BY <1>1, <2>1, <2>2, <2>3, <2>4 DEF OnePageInv, Witnessed
<1>7. CASE UNCHANGED dashboardVars
  BY <1>1, <1>7
     DEF dashboardVars, OnePageInv, Rooted, StillThere, Witnessed
<1> QED
  BY <1>2, <1>3, <1>4, <1>5, <1>6, <1>7 DEF DashboardNext

\* Of a library that fits the one page dashboard reads, an envelope is left out
\* only when its documents are destroyed or have later envelopes; that it is
\* one page is what withoutDestroyedChains takes for granted.
THEOREM OnePageDropsOnlyDestroyed ==
  ASSUME IsFiniteSet(Roots), Cardinality(Roots) <= ChainPage
  PROVE  DashboardSpec => []DroppedOnlyWhenDestroyed
<1>1. DashboardInit => OnePageInv
  <2>1. DashboardInit => read.phase = "idle"
    BY DEF DashboardInit, NothingRead
  <2> QED
    BY <2>1, DashboardStart
       DEF DashboardInit, OnePageInv, Rooted, StillThere, Witnessed, NothingRead
<1>2. OnePageInv /\ [DashboardNext]_dashboardVars => OnePageInv'
  BY OnePageStep
<1>3. OnePageInv /\ EveryEnvelopeAccountedFor => DroppedOnlyWhenDestroyed
  BY DEF OnePageInv, Witnessed, EveryEnvelopeAccountedFor,
         DroppedOnlyWhenDestroyed
<1> QED
  BY <1>1, <1>2, <1>3, EnvelopesAccountedFor, PTL DEF DashboardSpec

=============================================================================
