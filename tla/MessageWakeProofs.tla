------------------------- MODULE MessageWakeProofs -------------------------
(***************************************************************************)
(* Proofs about MessageWake, for any scopes, work items, daemons and bounds *)
(***************************************************************************)
EXTENDS MessageWake, TLAPS, SequenceTheorems, WellFoundedInduction

-----------------------------------------------------------------------------
(* The operators the actions are built from.                               *)

\* Two ranges, of entries or Runs, deliver the same messages.
SameRange(x, y) == /\ x.scope = y.scope /\ x.first = y.first /\ x.latest = y.latest
                   /\ x.visible = y.visible

\* Merging two ranges of a scope gives a range of that scope that contains
\* both and owes a visible result if either does (ON CONFLICT DO UPDATE).
LEMMA MergeContains ==
    ASSUME NEW o \in Entry, NEW e \in Entry
    PROVE  /\ Merge(o, e) \in Entry
           /\ Merge(o, e).scope = o.scope
           /\ Merge(o, e).first <= o.first /\ Merge(o, e).first <= e.first
           /\ o.latest <= Merge(o, e).latest /\ e.latest <= Merge(o, e).latest
           /\ Merge(o, e).visible = (o.visible \/ e.visible)
           /\ o.first > 0 /\ e.first > 0 => Merge(o, e).first > 0
<1>1. Lower(o.first, e.first) \in Nat /\ Higher(o.latest, e.latest) \in Nat
  BY DEF Lower, Higher, Entry
<1>2. (o.visible \/ e.visible) \in BOOLEAN
  OBVIOUS
<1>3. /\ Merge(o, e).first = Lower(o.first, e.first)
      /\ Merge(o, e).latest = Higher(o.latest, e.latest)
      /\ Merge(o, e).visible = (o.visible \/ e.visible)
      /\ Merge(o, e).scope = o.scope
      /\ Merge(o, e) \in Entry
  BY <1>1, <1>2 DEF Merge, Entry
<1> QED BY <1>3 DEF Lower, Higher, Entry

\* What an upsert leaves in the inbox: well-typed entries.
LEMMA UpsertType ==
    ASSUME NEW e \in Entry, inbox \subseteq Entry, clock \in Nat, Upsert(e)
    PROVE  inbox' \subseteq Entry /\ clock' \in Nat
<1>1. \A o \in inbox : Merge(o, e) \in Entry
  BY MergeContains
<1>2. e.at \in Nat
  BY DEF Entry
<1> QED BY <1>1, <1>2 DEF Upsert

\* startRunTx appends one queued Run that carries the range of the entry.
LEMMA StartRunAppends ==
    ASSUME NEW e \in Entry, runs \in Seq(Run), WakeAssumption, StartRun(e)
    PROVE  /\ runs' \in Seq(Run)
           /\ Len(runs') = Len(runs) + 1
           /\ \A r \in DOMAIN runs : r \in DOMAIN runs' /\ runs'[r] = runs[r]
           /\ Len(runs) + 1 \in DOMAIN runs'
           /\ \A r \in DOMAIN runs' : r \in DOMAIN runs \/ r = Len(runs) + 1
           /\ LET n == runs'[Len(runs) + 1]
              IN  /\ n.scope = e.scope /\ n.first = e.first /\ n.latest = e.latest
                  /\ n.visible = e.visible
                  /\ ~n.held /\ ~n.taken /\ ~n.started /\ ~n.finished
<1>1. PICK k \in Kinds :
        runs' = Append(runs, [scope |-> e.scope, first |-> e.first, latest |-> e.latest,
                              visible |-> e.visible, remote |-> k, held |-> FALSE,
                              taken |-> FALSE, started |-> FALSE, finished |-> FALSE])
  BY DEF StartRun
<1> DEFINE n == [scope |-> e.scope, first |-> e.first, latest |-> e.latest,
                 visible |-> e.visible, remote |-> k, held |-> FALSE,
                 taken |-> FALSE, started |-> FALSE, finished |-> FALSE]
<1>2. n \in Run
  BY DEF Run, Entry, WakeAssumption
<1>3. runs' = Append(runs, n)
  BY <1>1
<1>4. /\ n.scope = e.scope /\ n.first = e.first /\ n.latest = e.latest
      /\ n.visible = e.visible
      /\ ~n.held /\ ~n.taken /\ ~n.started /\ ~n.finished
  OBVIOUS
<1> HIDE DEF n
<1> QED BY <1>2, <1>3, <1>4

\* An update of one Run row leaves the others alone.
LEMMA SetRunReplaces ==
    ASSUME runs \in Seq(Run), NEW r \in DOMAIN runs, NEW rec \in Run, SetRun(r, rec)
    PROVE  /\ runs' \in Seq(Run)
           /\ DOMAIN runs' = DOMAIN runs
           /\ runs'[r] = rec
           /\ \A q \in DOMAIN runs : q # r => runs'[q] = runs[q]
  BY DEF SetRun

-----------------------------------------------------------------------------
(* Single flight.                                                          *)

\* Rows that name each other exist, ranges of messages are positive, and what
\* was held or started has been taken.
RunOK(x) == /\ x.scope \in Scopes => x.first > 0
            /\ x.held => x.taken
            /\ x.started => x.taken
RunsOK == \A r \in DOMAIN runs : RunOK(runs[r])
InboxOK == \A e \in inbox : e.scope \in Scopes => e.first > 0
FinishersOK == \A f \in finishers : f.run \in DOMAIN runs /\ (f.started => runs[f.run].taken)
RoutingOK == routing \subseteq DOMAIN msgs

\* A Run row when a daemon takes it.
LEMMA RowReceived ==
    ASSUME NEW x \in Run, RunOK(x)
    PROVE  LET y == [x EXCEPT !.held = TRUE, !.taken = TRUE]
           IN  /\ y \in Run /\ RunOK(y) /\ SameRange(y, x)
               /\ y.finished = x.finished /\ y.taken
  BY DEF Run, RunOK, SameRange

\* A Run row when its backend starts.
LEMMA RowStarted ==
    ASSUME NEW x \in Run, RunOK(x), x.held
    PROVE  LET y == [x EXCEPT !.started = TRUE]
           IN  /\ y \in Run /\ RunOK(y) /\ SameRange(y, x)
               /\ y.finished = x.finished /\ y.taken = x.taken
  BY DEF Run, RunOK, SameRange

\* A Run row whose attempt is cleared.
LEMMA RowUnassigned ==
    ASSUME NEW x \in Run, RunOK(x)
    PROVE  LET y == [x EXCEPT !.held = FALSE]
           IN  /\ y \in Run /\ RunOK(y) /\ SameRange(y, x)
               /\ y.finished = x.finished /\ y.taken = x.taken
  BY DEF Run, RunOK, SameRange

\* A Run row with a terminal status.
LEMMA RowFinished ==
    ASSUME NEW x \in Run, RunOK(x)
    PROVE  LET y == [x EXCEPT !.finished = TRUE]
           IN  /\ y \in Run /\ RunOK(y) /\ SameRange(y, x)
               /\ y.finished /\ y.taken = x.taken
  BY DEF Run, RunOK, SameRange

\* The inductive invariant of single flight.
Sound == TypeOK /\ RoutingOK /\ InboxOK /\ RunsOK /\ FinishersOK /\ OneRunPerAgent

\* A step that spends one unit of a bound.
LEMMA SpendType ==
    ASSUME budget \in [Steps -> Nat], NEW s \in Steps, Spend(s)
    PROVE  budget' \in [Steps -> Nat]
  BY DEF Spend

\* What a step must do to the Runs and the terminal paths to stay sound.
RunsSound == runs \in Seq(Run) /\ RunsOK /\ FinishersOK /\ OneRunPerAgent

\* A Run started for an idle Agent.
LEMMA StartKeepsSound ==
    ASSUME Sound, WakeAssumption, Active = {}, NEW e \in Entry, e.scope \in Scopes => e.first > 0,
           StartRun(e), UNCHANGED finishers
    PROVE  RunsSound'
<1>1. runs \in Seq(Run) /\ RunsOK /\ FinishersOK
  BY DEF Sound, TypeOK
<1>2. \A r \in DOMAIN runs : runs[r].finished
  BY DEF Active
<1>3. /\ runs' \in Seq(Run)
      /\ \A r \in DOMAIN runs : r \in DOMAIN runs' /\ runs'[r] = runs[r]
      /\ \A r \in DOMAIN runs' : r \in DOMAIN runs \/ r = Len(runs) + 1
      /\ LET n == runs'[Len(runs) + 1]
         IN  /\ n.scope = e.scope /\ n.first = e.first
             /\ ~n.held /\ ~n.taken /\ ~n.started /\ ~n.finished
  BY <1>1, StartRunAppends
<1>4. RunsOK'
  BY <1>1, <1>3 DEF RunsOK, RunOK
<1>5. FinishersOK'
  BY <1>1, <1>3 DEF FinishersOK
<1>6. OneRunPerAgent'
  BY <1>2, <1>3 DEF OneRunPerAgent
<1> QED BY <1>3, <1>4, <1>5, <1>6 DEF RunsSound

\* A row update that neither revives a Run nor forgets that it was taken.
LEMMA SetKeepsSound ==
    ASSUME Sound, NEW r \in DOMAIN runs, NEW y \in Run, SetRun(r, y), RunOK(y),
           runs[r].finished => y.finished, runs[r].taken => y.taken, finishers' \subseteq finishers
    PROVE  RunsSound'
<1>1. runs \in Seq(Run) /\ RunsOK /\ FinishersOK /\ OneRunPerAgent
  BY DEF Sound, TypeOK
<1>2. /\ runs' \in Seq(Run)
      /\ DOMAIN runs' = DOMAIN runs
      /\ runs'[r] = y
      /\ \A q \in DOMAIN runs : q # r => runs'[q] = runs[q]
  BY <1>1, SetRunReplaces
<1>3. RunsOK'
  BY <1>1, <1>2 DEF RunsOK
<1>4. FinishersOK'
  BY <1>1, <1>2 DEF FinishersOK
<1>5. OneRunPerAgent'
  BY <1>1, <1>2 DEF OneRunPerAgent
<1> QED BY <1>2, <1>3, <1>4, <1>5 DEF RunsSound

\* The rest of the invariant.
RestSound ==
    /\ msgs \in Seq(Message)
    /\ hidden \in SUBSET Nat
    /\ routing \in SUBSET Nat
    /\ policy \in Policies
    /\ follows \in [Scopes -> Follow]
    /\ inbox \subseteq Entry
    /\ clock \in Nat
    /\ enqueued \subseteq Works
    /\ slot \in Nat \cup {None}
    /\ advancing \in BOOLEAN
    /\ finishers \subseteq Finisher
    /\ released \in SUBSET Nat
    /\ budget \in [Steps -> Nat]
    /\ RoutingOK
    /\ InboxOK

\* The invariant is its two halves.
LEMMA SoundParts == Sound <=> RunsSound /\ RestSound
  BY DEF Sound, RunsSound, RestSound, TypeOK

\* Steps that leave Runs and terminal paths alone keep that half.
LEMMA RunsUntouched ==
    ASSUME RunsSound, UNCHANGED <<runs, finishers>>
    PROVE  RunsSound'
  BY DEF RunsSound, RunsOK, FinishersOK, OneRunPerAgent

\* An upsert keeps positive ranges positive.
LEMMA UpsertKeepsInbox ==
    ASSUME RestSound, NEW e \in Entry, e.scope \in Scopes => e.first > 0, Upsert(e)
    PROVE  inbox' \subseteq Entry /\ clock' \in Nat /\ InboxOK'
<1>1. inbox' \subseteq Entry /\ clock' \in Nat
  BY UpsertType DEF RestSound
<1>2. ASSUME NEW x \in inbox', x.scope \in Scopes
      PROVE  x.first > 0
  <2>1. x \in inbox \/ x = e \/ \E o \in inbox : o.scope = e.scope /\ x = Merge(o, e)
    BY DEF Upsert
  <2>2. CASE x \in inbox
    BY <1>2, <2>2 DEF RestSound, InboxOK
  <2>3. CASE x = e
    BY <1>2, <2>3
  <2>4. ASSUME NEW o \in inbox, o.scope = e.scope, x = Merge(o, e)
        PROVE  x.first > 0
    <3>1. o \in Entry /\ o.scope \in Scopes
      BY <1>2, <2>4, MergeContains DEF RestSound
    <3>2. o.first > 0 /\ e.first > 0
      BY <3>1, <2>4 DEF RestSound, InboxOK
    <3> QED BY <3>1, <3>2, <2>4, MergeContains
  <2> QED BY <2>1, <2>2, <2>3, <2>4
<1> QED BY <1>1, <1>2 DEF InboxOK

\* Sequence numbers of messages are positive naturals.
LEMMA SeqNumbers ==
    ASSUME msgs \in Seq(Message)
    PROVE  DOMAIN msgs \subseteq Nat /\ \A m \in DOMAIN msgs : m > 0 /\ msgs[m] \in Message
  OBVIOUS

\* The transaction of advancePendingMessageWake keeps the invariant.
LEMMA AdvanceKeepsSound ==
    ASSUME Sound, WakeAssumption, AdvancePending,
           UNCHANGED <<msgs, hidden, routing, ownerVars, enqueued, finishers, budget>>,
           advancing' \in BOOLEAN
    PROVE  Sound'
<1> USE DEF ownerVars, wakeVars
<1>0. RunsSound /\ RestSound
  BY SoundParts
<1>1. DOMAIN msgs \subseteq Nat /\ DOMAIN runs \subseteq Nat /\ Len(runs) + 1 \in Nat
  BY <1>0 DEF RestSound, RunsSound
<1>2. CASE Active # {} /\ slot' \in Active /\ UNCHANGED <<inbox, clock, runs, released>>
  <2>1. RunsSound'
    BY <1>0, <1>2, RunsUntouched
  <2>2. RestSound'
    BY <1>0, <1>1, <1>2 DEF RestSound, RoutingOK, InboxOK, Active
  <2> QED BY <2>1, <2>2, SoundParts, PTL
<1>3. CASE Active = {} /\ Advanced
  <2> DEFINE live == {e \in Wakes : Live(e)}
             next == First(live)
             dead == {e \in Wakes \ live : live # {} => Before(e, next)}
             muted == {e \in dead : ~Allowed(e.scope, e.visible)}
  <2>0. Withdrawn(muted) \subseteq DOMAIN msgs
    BY DEF Withdrawn
  <2>1. CASE /\ inbox' = inbox \ dead /\ slot' = None
             /\ released' = released \cup Withdrawn(muted) /\ UNCHANGED <<clock, runs>>
    <3>1. RunsSound'
      BY <1>0, <2>1, RunsUntouched
    <3> HIDE DEF dead, muted
    <3>2. RestSound'
      BY <1>0, <1>1, <2>0, <2>1 DEF RestSound, RoutingOK, InboxOK
    <3> QED BY <3>1, <3>2, SoundParts, PTL
  <2>2. CASE /\ IsHead(next, Ready \ dead) /\ StartRun(next)
             /\ inbox' = inbox \ (dead \cup {next}) /\ slot' = Len(runs) + 1
             /\ released' = released \cup Withdrawn(muted) /\ UNCHANGED clock
    <3>1. next \in inbox
      BY <2>2 DEF IsHead, Ready
    <3>2. next \in Entry /\ (next.scope \in Scopes => next.first > 0)
      BY <1>0, <3>1 DEF RestSound, InboxOK
    <3> HIDE DEF next, dead, muted
    <3>3. RunsSound'
      BY <1>3, <2>2, <3>2, StartKeepsSound
    <3>4. RestSound'
      BY <1>0, <1>1, <2>0, <2>2 DEF RestSound, RoutingOK, InboxOK
    <3> QED BY <3>3, <3>4, SoundParts, PTL
  <2>3. CASE UNCHANGED <<inbox, clock, runs, slot, released>>
    <3>1. RunsSound'
      BY <1>0, <2>3, RunsUntouched
    <3>2. RestSound'
      BY <1>0, <2>3 DEF RestSound, RoutingOK, InboxOK
    <3> QED BY <3>1, <3>2, SoundParts, PTL
  <2> QED BY <1>3, <2>1, <2>2, <2>3 DEF Advanced
<1> QED BY <1>2, <1>3 DEF AdvancePending

\* Every step keeps the invariant of single flight.
LEMMA SoundStep ==
    ASSUME Sound, WakeAssumption, [Next]_vars
    PROVE  Sound'
<1> USE DEF ownerVars, wakeVars
<1>0. RunsSound /\ RestSound
  BY SoundParts
<1>a. DOMAIN msgs \subseteq Nat /\ Len(msgs) + 1 \in Nat /\ DOMAIN runs \subseteq Nat /\ Len(runs) + 1 \in Nat
  BY <1>0 DEF RestSound, RunsSound
<1>b. clock \in Nat
  BY <1>0 DEF RestSound
<1>1. ASSUME NEW scope \in Scopes, NEW explicit \in BOOLEAN, Send(scope, explicit)
      PROVE  Sound'
  <2>1. RunsSound'
    BY <1>0, <1>1, RunsUntouched DEF Send
  <2>2. [scope |-> scope, explicit |-> explicit] \in Message
    BY DEF Message
  <2>3. msgs' \in Seq(Message) /\ Len(msgs) + 1 \in DOMAIN msgs' /\ DOMAIN msgs \subseteq DOMAIN msgs'
    BY <1>0, <1>1, <2>2 DEF Send, RestSound
  <2>4. RestSound'
    BY <1>0, <1>a, <1>1, <2>3 DEF Send, RestSound, RoutingOK, InboxOK
  <2> QED BY <2>1, <2>4, SoundParts, PTL
<1>2. ASSUME NEW m \in routing, Claim(m)
      PROVE  Sound'
  <2> DEFINE e == Wake(msgs[m].scope, m, m, msgs[m].explicit)
  <2>1. m \in DOMAIN msgs /\ m \in Nat /\ m > 0 /\ msgs[m] \in Message
    BY <1>0, SeqNumbers DEF RestSound, RoutingOK
  <2>2. msgs[m].scope \in Scopes \cup Works /\ msgs[m].explicit \in BOOLEAN
    BY <2>1 DEF Message
  <2>3. e \in Entry /\ e.first > 0
    BY <1>b, <2>1, <2>2 DEF Wake, Entry
  <2>4. Claimed(m, e)
    BY <1>2 DEF Claim
  <2> HIDE DEF e
  <2>5. CASE released' = released \cup {m} /\ advancing' = TRUE /\ UNCHANGED wakeVars
    <3>1. RunsSound'
      BY <1>0, <1>2, <2>5, RunsUntouched DEF Claim
    <3>2. RestSound'
      BY <1>0, <1>2, <2>1, <2>5 DEF Claim, RestSound, RoutingOK, InboxOK
    <3> QED BY <3>1, <3>2, SoundParts, PTL
  <2>6. CASE /\ Upsert(e) /\ slot' \in (IF Active = {} THEN {slot} ELSE Active)
             /\ advancing' = TRUE /\ UNCHANGED <<runs, released>>
    <3>1. RunsSound'
      BY <1>0, <1>2, <2>6, RunsUntouched DEF Claim
    <3>2. inbox' \subseteq Entry /\ clock' \in Nat /\ InboxOK'
      BY <1>0, <2>3, <2>6, UpsertKeepsInbox
    <3>3. slot' \in Nat \cup {None}
      BY <1>0, <1>a, <2>6 DEF Active, RestSound
    <3>4. RestSound'
      BY <1>0, <1>2, <2>6, <3>2, <3>3 DEF Claim, RestSound, RoutingOK
    <3> QED BY <3>1, <3>4, SoundParts, PTL
  <2>7. CASE /\ Active = {} /\ StartRun(e) /\ slot' = Len(runs) + 1
             /\ UNCHANGED <<inbox, clock, advancing, released>>
    <3>1. RunsSound'
      BY <1>2, <2>3, <2>7, StartKeepsSound DEF Claim
    <3>2. RestSound'
      BY <1>0, <1>a, <1>2, <2>7 DEF Claim, RestSound, RoutingOK, InboxOK
    <3> QED BY <3>1, <3>2, SoundParts, PTL
  <2> QED BY <2>4, <2>5, <2>6, <2>7 DEF Claimed
<1>3. ASSUME NEW m \in routing, Refuse(m)
      PROVE  Sound'
  <2>1. RunsSound'
    BY <1>0, <1>3, RunsUntouched DEF Refuse
  <2>2. RestSound'
    BY <1>0, <1>3 DEF Refuse, RestSound, RoutingOK, InboxOK
  <2> QED BY <2>1, <2>2, SoundParts, PTL
<1>4. ASSUME Advance \/ Drain
      PROVE  Sound'
  BY <1>0, <1>4, AdvanceKeepsSound DEF Advance, Drain, RestSound
<1>5. ASSUME NEW w \in Works, NEW urgent \in BOOLEAN, EnqueueWork(w, urgent)
      PROVE  Sound'
  <2>1. RunsSound'
    BY <1>0, <1>5, RunsUntouched DEF EnqueueWork
  <2>2. Wake(w, 0, 0, urgent) \in Entry /\ Wake(w, 0, 0, urgent).scope \notin Scopes
    BY <1>b DEF Wake, Entry, WakeAssumption
  <2>3. inbox' \subseteq Entry /\ clock' \in Nat /\ InboxOK'
    BY <1>0, <1>5, <2>2, UpsertKeepsInbox DEF EnqueueWork
  <2>4. RestSound'
    BY <1>0, <1>5, <2>3 DEF EnqueueWork, RestSound, RoutingOK
  <2> QED BY <2>1, <2>4, SoundParts, PTL
<1>6. ASSUME NEW e \in inbox, DispatchWork(e)
      PROVE  Sound'
  <2>1. e \in Entry /\ (e.scope \in Scopes => e.first > 0) /\ e.scope \notin Scopes
    BY <1>0, <1>6 DEF RestSound, InboxOK, DispatchWork, WakeAssumption
  <2>2. CASE StartRun(e) /\ inbox' = inbox \ {e} /\ UNCHANGED budget
    <3>1. RunsSound'
      BY <1>6, <2>1, <2>2, StartKeepsSound DEF DispatchWork, IsHead
    <3>2. RestSound'
      BY <1>0, <1>6, <2>2 DEF DispatchWork, RestSound, RoutingOK, InboxOK
    <3> QED BY <3>1, <3>2, SoundParts, PTL
  <2>3. CASE /\ inbox' = (inbox \ {e}) \cup {[e EXCEPT !.ready = FALSE]}
             /\ Spend("failure") /\ UNCHANGED runs
    <3>1. RunsSound'
      BY <1>0, <1>6, <2>3, RunsUntouched DEF DispatchWork
    <3>2. budget' \in [Steps -> Nat]
      BY <1>0, <2>3, SpendType DEF RestSound, Steps
    <3>3. [e EXCEPT !.ready = FALSE] \in Entry /\ [e EXCEPT !.ready = FALSE].scope = e.scope
      BY <2>1 DEF Entry
    <3>4. RestSound'
      BY <1>0, <1>6, <2>1, <2>3, <3>2, <3>3 DEF DispatchWork, RestSound, RoutingOK, InboxOK
    <3> QED BY <3>1, <3>4, SoundParts, PTL
  <2>4. CASE inbox' = inbox \ {e} /\ UNCHANGED <<runs, budget>>
    <3>1. RunsSound'
      BY <1>0, <1>6, <2>4, RunsUntouched DEF DispatchWork
    <3>2. RestSound'
      BY <1>0, <1>6, <2>4 DEF DispatchWork, RestSound, RoutingOK, InboxOK
    <3> QED BY <3>1, <3>2, SoundParts, PTL
  <2> QED BY <1>6, <2>2, <2>3, <2>4 DEF DispatchWork
<1>7. ASSUME NEW e \in inbox, WorkDue(e)
      PROVE  Sound'
  <2>1. e \in Entry
    BY <1>0 DEF RestSound
  <2>2. /\ [e EXCEPT !.ready = TRUE] \in Entry
        /\ [e EXCEPT !.ready = TRUE].scope = e.scope /\ [e EXCEPT !.ready = TRUE].first = e.first
    BY <2>1 DEF Entry
  <2>3. RunsSound'
    BY <1>0, <1>7, RunsUntouched DEF WorkDue
  <2>4. RestSound'
    BY <1>0, <1>7, <2>2 DEF WorkDue, RestSound, RoutingOK, InboxOK
  <2> QED BY <2>3, <2>4, SoundParts, PTL
<1>8. ASSUME NEW r \in DOMAIN runs, Receive(r)
      PROVE  Sound'
  <2> DEFINE y == [runs[r] EXCEPT !.held = TRUE, !.taken = TRUE]
  <2>1. runs[r] \in Run /\ RunOK(runs[r])
    BY <1>0, <1>8 DEF RunsSound, RunsOK
  <2>2. y \in Run /\ RunOK(y) /\ (runs[r].finished => y.finished) /\ (runs[r].taken => y.taken)
    BY <1>8, <2>1, RowReceived DEF Receive
  <2>3. SetRun(r, y)
    BY <1>8 DEF Receive
  <2> HIDE DEF y
  <2>4. RunsSound'
    BY <1>8, <2>2, <2>3, SetKeepsSound DEF Receive
  <2>6. RestSound'
    BY <1>0, <1>8 DEF Receive, OnlyRuns, RestSound, RoutingOK, InboxOK
  <2> QED BY <2>4, <2>6, SoundParts, PTL
<1>9. ASSUME NEW r \in DOMAIN runs, BackendStarted(r)
      PROVE  Sound'
  <2> DEFINE y == [runs[r] EXCEPT !.started = TRUE]
  <2>1. runs[r] \in Run /\ RunOK(runs[r])
    BY <1>0, <1>9 DEF RunsSound, RunsOK
  <2>2. y \in Run /\ RunOK(y) /\ (runs[r].finished => y.finished) /\ (runs[r].taken => y.taken)
    BY <1>9, <2>1, RowStarted DEF BackendStarted
  <2>3. SetRun(r, y)
    BY <1>9 DEF BackendStarted
  <2> HIDE DEF y
  <2>4. RunsSound'
    BY <1>9, <2>2, <2>3, SetKeepsSound DEF BackendStarted
  <2>6. RestSound'
    BY <1>0, <1>9 DEF BackendStarted, OnlyRuns, RestSound, RoutingOK, InboxOK
  <2> QED BY <2>4, <2>6, SoundParts, PTL
<1>10. ASSUME NEW r \in DOMAIN runs, Unassign(r)
      PROVE  Sound'
  <2> DEFINE y == [runs[r] EXCEPT !.held = FALSE]
  <2>1. runs[r] \in Run /\ RunOK(runs[r])
    BY <1>0, <1>10 DEF RunsSound, RunsOK
  <2>2. y \in Run /\ RunOK(y) /\ (runs[r].finished => y.finished) /\ (runs[r].taken => y.taken)
    BY <1>10, <2>1, RowUnassigned DEF Unassign
  <2>3. SetRun(r, y)
    BY <1>10 DEF Unassign
  <2> HIDE DEF y
  <2>4. RunsSound'
    BY <1>10, <2>2, <2>3, SetKeepsSound DEF Unassign
  <2>5. budget' \in [Steps -> Nat]
    BY <1>0, <1>10, SpendType DEF RestSound, Steps, Unassign
  <2>6. RestSound'
    BY <1>0, <1>10, <2>5 DEF Unassign, OnlyRuns, RestSound, RoutingOK, InboxOK
  <2> QED BY <2>4, <2>6, SoundParts, PTL
<1>11. ASSUME NEW r \in DOMAIN runs, Complete(r)
      PROVE  Sound'
  <2> DEFINE y == [runs[r] EXCEPT !.finished = TRUE]
  <2>1. runs[r] \in Run /\ RunOK(runs[r])
    BY <1>0, <1>11 DEF RunsSound, RunsOK
  <2>2. y \in Run /\ RunOK(y) /\ (runs[r].finished => y.finished) /\ (runs[r].taken => y.taken)
    BY <1>11, <2>1, RowFinished DEF Complete, Finished
  <2>3. SetRun(r, y)
    BY <1>11 DEF Complete, Finished
  <2> HIDE DEF y
  <2>4. RunsSound'
    BY <1>11, <2>2, <2>3, SetKeepsSound DEF Complete, Finished
  <2>6. RestSound'
    BY <1>0, <1>11 DEF Complete, Finished, OnlyRuns, RestSound, RoutingOK, InboxOK
  <2> QED BY <2>4, <2>6, SoundParts, PTL
<1>12. ASSUME NEW r \in DOMAIN runs, HealthFinish(r)
      PROVE  Sound'
  <2> DEFINE y == [runs[r] EXCEPT !.finished = TRUE]
  <2>1. runs[r] \in Run /\ RunOK(runs[r])
    BY <1>0, <1>12 DEF RunsSound, RunsOK
  <2>2. y \in Run /\ RunOK(y) /\ (runs[r].finished => y.finished) /\ (runs[r].taken => y.taken)
    BY <1>12, <2>1, RowFinished DEF HealthFinish
  <2>3. SetRun(r, y)
    BY <1>12 DEF HealthFinish
  <2> HIDE DEF y
  <2>4. RunsSound'
    BY <1>12, <2>2, <2>3, SetKeepsSound DEF HealthFinish
  <2>5. budget' \in [Steps -> Nat]
    BY <1>0, <1>12, SpendType DEF RestSound, Steps, HealthFinish
  <2>6. RestSound'
    BY <1>0, <1>12, <2>5 DEF HealthFinish, OnlyRuns, RestSound, RoutingOK, InboxOK
  <2> QED BY <2>4, <2>6, SoundParts, PTL
<1>13. ASSUME NEW r \in DOMAIN runs, BeginFinish(r)
      PROVE  Sound'
  <2> DEFINE f == [run |-> r, started |-> runs[r].started, stage |-> "requeue"]
  <2>1. runs[r] \in Run /\ RunOK(runs[r]) /\ r \in Nat
    BY <1>0, <1>a DEF RunsSound, RunsOK
  <2>2. f \in Finisher /\ f.run = r /\ f.started = runs[r].started
    BY <2>1 DEF Finisher, Run
  <2>3. finishers' = finishers \cup {f} /\ UNCHANGED runs
    BY <1>13 DEF BeginFinish
  <2> HIDE DEF f
  <2>4. RunsSound'
    BY <1>0, <2>1, <2>2, <2>3 DEF RunsSound, RunsOK, RunOK, FinishersOK, OneRunPerAgent
  <2>5. budget' \in [Steps -> Nat]
    BY <1>0, <1>13, SpendType DEF BeginFinish, RestSound, Steps
  <2>6. RestSound'
    BY <1>0, <1>13, <2>2, <2>3, <2>5 DEF BeginFinish, OnlyRuns, RestSound, RoutingOK, InboxOK
  <2> QED BY <2>4, <2>6, SoundParts, PTL
<1>14. ASSUME NEW f \in finishers, Requeue(f)
       PROVE  Sound'
  <2> DEFINE run == runs[f.run]
             g == [f EXCEPT !.stage = "finish"]
  <2>1. f \in Finisher /\ f.run \in DOMAIN runs /\ run \in Run /\ RunOK(run)
    BY <1>0 DEF RestSound, RunsSound, FinishersOK, RunsOK
  <2>2. g \in Finisher /\ g.run = f.run /\ g.started = f.started
    BY <2>1 DEF Finisher
  <2>3. finishers' = (finishers \ {f}) \cup {g} /\ UNCHANGED runs
    BY <1>14 DEF Requeue
  <2> HIDE DEF g
  <2>4. RunsSound'
    BY <1>0, <2>2, <2>3 DEF RunsSound, RunsOK, FinishersOK, OneRunPerAgent
  <2>5. inbox' \subseteq Entry /\ clock' \in Nat /\ InboxOK' /\ released' \in SUBSET Nat
    <3> DEFINE e == Wake(run.scope, run.first, run.latest, run.visible)
    <3>1. e \in Entry /\ (e.scope \in Scopes => e.first > 0)
      BY <1>b, <2>1 DEF Wake, Entry, Run, RunOK
    <3>2. \/ Upsert(e) /\ UNCHANGED released
          \/ released' = released \cup {m \in DOMAIN msgs : Covers(run, m)} /\ UNCHANGED <<inbox, clock>>
          \/ UNCHANGED <<inbox, clock, released>>
      BY <1>14 DEF Requeue
    <3> HIDE DEF e
    <3> QED BY <1>0, <1>a, <3>1, <3>2, UpsertKeepsInbox DEF RestSound, RoutingOK, InboxOK
  <2>6. RestSound'
    BY <1>0, <1>14, <2>2, <2>3, <2>5 DEF Requeue, RestSound, RoutingOK
  <2> QED BY <2>4, <2>6, SoundParts, PTL
<1>15. ASSUME NEW f \in finishers, Finish(f)
       PROVE  Sound'
  <2> DEFINE y == [runs[f.run] EXCEPT !.finished = TRUE]
  <2>1. f.run \in DOMAIN runs /\ runs[f.run] \in Run /\ RunOK(runs[f.run])
    BY <1>0 DEF RunsSound, FinishersOK, RunsOK
  <2>2. y \in Run /\ RunOK(y) /\ y.finished /\ (runs[f.run].taken => y.taken)
    BY <2>1, RowFinished
  <2>3. UNCHANGED <<runs, advancing>> \/ (SetRun(f.run, y) /\ advancing' \in BOOLEAN)
    BY <1>0, <1>15 DEF Finish, Finished, RestSound
  <2>4. finishers' \subseteq finishers
    BY <1>15 DEF Finish
  <2> HIDE DEF y
  <2>6. RunsSound'
    BY <1>0, <2>1, <2>2, <2>3, <2>4, SetKeepsSound DEF RunsSound, RunsOK, FinishersOK, OneRunPerAgent
  <2>7. RestSound'
    BY <1>0, <1>15, <2>3, <2>4 DEF Finish, OnlyRuns, RestSound, RoutingOK, InboxOK
  <2> QED BY <2>6, <2>7, SoundParts, PTL
<1>16. ASSUME NEW p \in Policies, SetAttention(p)
       PROVE  Sound'
  <2>1. RunsSound'
    BY <1>0, <1>16, RunsUntouched DEF SetAttention, Withdrawn
  <2>2. budget' \in [Steps -> Nat]
    BY <1>0, <1>16, SpendType DEF RestSound, Steps, SetAttention, Withdrawn
  <2>3. RestSound'
    BY <1>0, <1>16, <2>2, <1>a DEF SetAttention, Withdrawn, RestSound, RoutingOK, InboxOK
  <2> QED BY <2>1, <2>3, SoundParts, PTL
<1>17. ASSUME NEW scope \in Scopes, Unfollow(scope)
       PROVE  Sound'
  <2>1. RunsSound'
    BY <1>0, <1>17, RunsUntouched DEF Unfollow, Withdrawn, Follow
  <2>2. budget' \in [Steps -> Nat]
    BY <1>0, <1>17, SpendType DEF RestSound, Steps, Unfollow, Withdrawn, Follow
  <2>3. RestSound'
    BY <1>0, <1>17, <2>2, <1>a DEF Unfollow, Withdrawn, Follow, RestSound, RoutingOK, InboxOK
  <2> QED BY <2>1, <2>3, SoundParts, PTL
<1>18. ASSUME NEW scope \in Scopes, Participate(scope)
       PROVE  Sound'
  <2>1. RunsSound'
    BY <1>0, <1>18, RunsUntouched DEF Participate, Follow
  <2>2. budget' \in [Steps -> Nat]
    BY <1>0, <1>18, SpendType DEF RestSound, Steps, Participate, Follow
  <2>3. RestSound'
    BY <1>0, <1>18, <2>2 DEF Participate, Follow, RestSound, RoutingOK, InboxOK
  <2> QED BY <2>1, <2>3, SoundParts, PTL
<1>19. ASSUME NEW m \in DOMAIN msgs, Hide(m)
       PROVE  Sound'
  <2>1. RunsSound'
    BY <1>0, <1>19, RunsUntouched DEF Hide
  <2>2. budget' \in [Steps -> Nat]
    BY <1>0, <1>19, SpendType DEF RestSound, Steps, Hide
  <2>3. RestSound'
    BY <1>0, <1>19, <2>2, <1>a DEF Hide, RestSound, RoutingOK, InboxOK
  <2> QED BY <2>1, <2>3, SoundParts, PTL
<1>20. CASE Restart
  <2>1. RunsSound'
    BY <1>0, <1>20 DEF Restart, RunsSound, RunsOK, FinishersOK, OneRunPerAgent
  <2>2. budget' \in [Steps -> Nat]
    BY <1>0, <1>20, SpendType DEF RestSound, Steps, Restart
  <2>3. RestSound'
    BY <1>0, <1>20, <2>2 DEF Restart, RestSound, RoutingOK, InboxOK
  <2> QED BY <2>1, <2>3, SoundParts, PTL
<1>21. CASE UNCHANGED vars
  <2>1. RunsSound'
    BY <1>0, <1>21, RunsUntouched DEF vars
  <2>2. RestSound'
    BY <1>0, <1>21 DEF vars, RestSound, RoutingOK, InboxOK
  <2> QED BY <2>1, <2>2, SoundParts, PTL
<1>22. CASE Environment
  BY <1>1, <1>3, <1>5, <1>10, <1>12, <1>13, <1>16, <1>17, <1>18, <1>19, <1>20, <1>22 DEF Environment
<1>23. CASE Progress
  BY <1>2, <1>4, <1>6, <1>7, <1>8, <1>9, <1>11, <1>14, <1>15, <1>23 DEF Progress
<1> QED BY <1>21, <1>22, <1>23 DEF Next

\* The initial state satisfies it.
LEMMA SoundInit ==
    ASSUME Init, WakeAssumption
    PROVE  Sound
<1>1. budget \in [Steps -> Nat]
  BY DEF Init, Steps, WakeAssumption
<1>2. /\ msgs \in Seq(Message) /\ runs \in Seq(Run)
      /\ DOMAIN runs = {}
  BY DEF Init
<1>3. RunsSound
  BY <1>2 DEF Init, RunsSound, RunsOK, FinishersOK, OneRunPerAgent
<1>4. RestSound
  BY <1>1, <1>2 DEF Init, RestSound, RoutingOK, InboxOK, Policies, Follow
<1> QED BY <1>3, <1>4, SoundParts

\* The invariant holds in every reachable state.
THEOREM WakeIsSound == Spec => []Sound
<1>1. Init => Sound
  BY SoundInit, WakeAssumption
<1>2. Sound /\ [Next]_vars => Sound'
  BY SoundStep, WakeAssumption
<1> QED BY <1>1, <1>2, PTL DEF Spec

\* Every row, goroutine record and bound keeps its type.
THEOREM TypeCorrect == Spec => []TypeOK
<1>1. Sound => TypeOK
  BY DEF Sound
<1> QED BY <1>1, WakeIsSound, PTL

\* Single flight: whatever the claims, drains, dispatches of other work and
\* terminal paths, the Agent has at most one unfinished Run.
THEOREM SingleFlight == Spec => []OneRunPerAgent
<1>1. Sound => OneRunPerAgent
  BY DEF Sound
<1> QED BY <1>1, WakeIsSound, PTL

-----------------------------------------------------------------------------
(* No message is lost while the health loop has ended no Run.              *)

\* A range delivers m under the contract m asks for.
Holds(x, m) == Covers(x, m) /\ (msgs[m].explicit => x.visible)
InWake(m) == \E e \in Wakes : Holds(e, m)
InRun(m) == \E r \in DOMAIN runs : Holds(runs[r], m) /\ (~runs[r].finished \/ runs[r].taken)

\* A terminal path past its requeue may finish its Run: the Run is finished
\* or was taken, or all it still owes is back in the inbox.
MayFinish(f) == \/ runs[f.run].finished
                \/ runs[f.run].taken
                \/ \A m \in DOMAIN msgs : Owed(m) /\ Holds(runs[f.run], m) => InWake(m)

AllKept == \A m \in DOMAIN msgs : Owed(m) => InWake(m) \/ InRun(m)
FinishersKeep == \A f \in finishers : f.stage = "finish" => MayFinish(f)

\* The inductive invariant of delivery.
Kept == Sound /\ budget["health"] <= MaxHealth /\ (Undisturbed => AllKept /\ FinishersKeep)

\* Steps that leave messages and Runs alone: each message owed afterwards is
\* in the inbox afterwards, or was owed and has lost no pending range.
LEMMA InboxStep ==
    ASSUME AllKept, FinishersKeep, UNCHANGED <<msgs, runs>>,
           \A m \in DOMAIN msgs : Owed(m)' => InWake(m)' \/ (Owed(m) /\ (InWake(m) => InWake(m)')),
           \A f \in finishers' : f.stage = "finish" => f \in finishers \/ MayFinish(f)'
    PROVE  AllKept' /\ FinishersKeep'
<1>1. \A m \in DOMAIN msgs : InRun(m) => InRun(m)'
  BY DEF InRun, Holds, Covers
<1>2. AllKept'
  BY <1>1 DEF AllKept
<1>3. \A r, m : Holds(runs[r], m)' => Holds(runs[r], m)
  BY DEF Holds, Covers
<1>4. ASSUME NEW f \in finishers', f.stage = "finish", f \in finishers
      PROVE  MayFinish(f)'
  <2>1. MayFinish(f)
    BY <1>4 DEF FinishersKeep
  <2>2. CASE runs[f.run].finished \/ runs[f.run].taken
    BY <2>2 DEF MayFinish
  <2>3. CASE \A m \in DOMAIN msgs : Owed(m) /\ Holds(runs[f.run], m) => InWake(m)
    BY <1>3, <2>3 DEF MayFinish
  <2> QED BY <2>1, <2>2, <2>3 DEF MayFinish
<1> QED BY <1>2, <1>4 DEF FinishersKeep

\* The step of a Run's row.
LEMMA RowStep ==
    ASSUME Sound, AllKept, FinishersKeep, NEW r \in DOMAIN runs, NEW y \in Run, SetRun(r, y),
           SameRange(y, runs[r]), runs[r].taken => y.taken, runs[r].finished => y.finished,
           \/ ~y.finished \/ y.taken \/ runs[r].finished
           \/ \A m \in DOMAIN msgs : Owed(m) /\ Holds(runs[r], m) => InWake(m),
           UNCHANGED <<msgs, hidden, routing, inbox, released>>, finishers' \subseteq finishers
    PROVE  AllKept' /\ FinishersKeep'
<1>0. runs \in Seq(Run) /\ FinishersOK
  BY DEF Sound, TypeOK
<1>1. /\ DOMAIN runs' = DOMAIN runs
      /\ runs'[r] = y
      /\ \A q \in DOMAIN runs : q # r => runs'[q] = runs[q]
  BY <1>0, SetRunReplaces
<1>2. \A m : /\ Owed(m)' <=> Owed(m)
             /\ InWake(m)' <=> InWake(m)
  BY DEF Owed, InWake, Holds, Covers, Wakes
<1>3. \A q \in DOMAIN runs : \A m : Holds(runs[q], m)' <=> Holds(runs[q], m)
  BY <1>1 DEF Holds, Covers, SameRange
<1>4. ASSUME NEW m \in DOMAIN msgs, Owed(m), InRun(m)
      PROVE  InWake(m) \/ InRun(m)'
  <2>1. PICK q \in DOMAIN runs : Holds(runs[q], m) /\ (~runs[q].finished \/ runs[q].taken)
    BY <1>4 DEF InRun
  <2>2. CASE q # r
    BY <1>1, <1>3, <2>1, <2>2 DEF InRun
  <2>3. CASE q = r
    BY <1>1, <1>3, <1>4, <2>1, <2>3 DEF InRun
  <2> QED BY <2>2, <2>3
<1>5. AllKept'
  BY <1>2, <1>4 DEF AllKept
<1>6. ASSUME NEW f \in finishers', f.stage = "finish"
      PROVE  MayFinish(f)'
  <2>1. f \in finishers /\ MayFinish(f) /\ f.run \in DOMAIN runs
    BY <1>0, <1>6 DEF FinishersKeep, FinishersOK
  <2> QED BY <1>1, <1>2, <1>3, <2>1 DEF MayFinish
<1> QED BY <1>5, <1>6 DEF FinishersKeep

\* A Run started for an idle Agent: the terminal paths still in progress have
\* a finished Run, and the new one carries what left the inbox.
LEMMA StartStep ==
    ASSUME Sound, WakeAssumption, AllKept, Active = {}, NEW e \in Entry, StartRun(e),
           UNCHANGED <<msgs, finishers>>,
           \A m \in DOMAIN msgs : Owed(m)' => Holds(e, m) \/ (Owed(m) /\ (InWake(m) => InWake(m)'))
    PROVE  AllKept' /\ FinishersKeep'
<1>0. runs \in Seq(Run) /\ FinishersOK
  BY DEF Sound, TypeOK
<1>1. /\ \A r \in DOMAIN runs : r \in DOMAIN runs' /\ runs'[r] = runs[r]
      /\ Len(runs) + 1 \in DOMAIN runs'
      /\ LET n == runs'[Len(runs) + 1]
         IN  /\ n.scope = e.scope /\ n.first = e.first /\ n.latest = e.latest
             /\ n.visible = e.visible /\ ~n.finished
  BY <1>0, StartRunAppends
<1>2. \A m \in DOMAIN msgs : Holds(e, m) => InRun(m)'
  BY <1>1 DEF InRun, Holds, Covers
<1>3. \A m \in DOMAIN msgs : InRun(m) => InRun(m)'
  BY <1>1 DEF InRun, Holds, Covers
<1>4. AllKept'
  BY <1>2, <1>3 DEF AllKept
<1>5. \A f \in finishers : runs[f.run].finished
  BY <1>0 DEF FinishersOK, Active
<1>6. FinishersKeep'
  BY <1>0, <1>1, <1>5 DEF FinishersKeep, MayFinish, FinishersOK
<1> QED BY <1>4, <1>6

\* After an upsert the inbox delivers what the new range holds, and still all
\* it delivered before.
LEMMA UpsertStep ==
    ASSUME RestSound, NEW e \in Entry, e.scope \in Scopes, Upsert(e), UNCHANGED msgs
    PROVE  \A m \in DOMAIN msgs : /\ Holds(e, m) => InWake(m)'
                                  /\ InWake(m) => InWake(m)'
<1>0. inbox \subseteq Entry /\ DOMAIN msgs \subseteq Nat
  BY SeqNumbers DEF RestSound
<1> SUFFICES ASSUME NEW m \in DOMAIN msgs
             PROVE  (Holds(e, m) => InWake(m)') /\ (InWake(m) => InWake(m)')
  OBVIOUS
<1>1. \A x : Holds(x, m) => Holds(x, m)'
  BY DEF Holds, Covers
<1>2. ASSUME NEW o \in inbox, o.scope = e.scope
      PROVE  /\ Holds(o, m) => Holds(Merge(o, e), m)
             /\ Holds(e, m) => Holds(Merge(o, e), m)
             /\ Merge(o, e).scope \in Scopes
  <2>1. o \in Entry /\ m \in Nat
    BY <1>0
  <2>2. /\ Merge(o, e).scope = o.scope
        /\ Merge(o, e).first <= o.first /\ Merge(o, e).first <= e.first
        /\ o.latest <= Merge(o, e).latest /\ e.latest <= Merge(o, e).latest
        /\ Merge(o, e).visible = (o.visible \/ e.visible)
        /\ Merge(o, e) \in Entry
    BY <2>1, MergeContains
  <2>3. /\ o.first \in Nat /\ o.latest \in Nat /\ e.first \in Nat /\ e.latest \in Nat
        /\ Merge(o, e).first \in Nat /\ Merge(o, e).latest \in Nat
    BY <2>1, <2>2 DEF Entry
  <2>4. Covers(o, m) => Covers(Merge(o, e), m)
    BY <2>1, <2>2, <2>3 DEF Covers
  <2>5. Covers(e, m) => Covers(Merge(o, e), m)
    BY <1>2, <2>1, <2>2, <2>3 DEF Covers
  <2>6. (o.visible \/ e.visible) => Merge(o, e).visible
    BY <2>2, Zenon
  <2>7. Merge(o, e).scope \in Scopes
    BY <1>2, <2>2
  <2> QED BY <2>4, <2>5, <2>6, <2>7 DEF Holds
<1>3. ASSUME NEW x \in inbox, x.scope \in Scopes, Holds(x, m)
      PROVE  InWake(m)'
  <2>1. CASE x \in inbox'
    BY <1>1, <1>3, <2>1 DEF InWake, Wakes
  <2>2. CASE x \notin inbox'
    <3>1. x.scope = e.scope /\ Merge(x, e) \in inbox'
      BY <1>3, <2>2 DEF Upsert
    <3> QED BY <1>1, <1>2, <1>3, <3>1 DEF InWake, Wakes
  <2> QED BY <2>1, <2>2
<1>4. ASSUME Holds(e, m)
      PROVE  InWake(m)'
  <2>1. CASE e \in inbox'
    BY <1>1, <1>4, <2>1 DEF InWake, Wakes
  <2>2. CASE e \notin inbox'
    <3>1. \E o \in inbox : o.scope = e.scope /\ Merge(o, e) \in inbox'
      BY <2>2 DEF Upsert
    <3> QED BY <1>1, <1>2, <1>4, <3>1 DEF InWake, Wakes
  <2> QED BY <2>1, <2>2
<1> QED BY <1>3, <1>4 DEF InWake, Wakes

\* Ranges dropped from the inbox lose no message that is still owed.
LEMMA DropStep ==
    ASSUME NEW gone, inbox' = inbox \ gone, UNCHANGED <<msgs, hidden, routing>>,
           released \subseteq released', NEW m \in DOMAIN msgs, Owed(m)',
           \A e \in gone : e \in Wakes /\ Holds(e, m) => m \in released \cup released' \cup hidden
    PROVE  Owed(m) /\ (InWake(m) => InWake(m)')
<1>1. Owed(m)
  BY DEF Owed
<1>2. ASSUME NEW e \in Wakes, Holds(e, m)
      PROVE  e \in Wakes' /\ Holds(e, m)'
  <2>1. e \notin gone
    BY <1>2 DEF Owed
  <2> QED BY <1>2, <2>1 DEF Wakes, Holds, Covers
<1> QED BY <1>1, <1>2 DEF InWake

\* Steps outside the inbox: nothing becomes owed and no terminal path advances.
LEMMA AsideStep ==
    ASSUME AllKept, FinishersKeep, UNCHANGED <<msgs, runs, inbox>>,
           \A m \in DOMAIN msgs : Owed(m)' => Owed(m),
           \A f \in finishers' : f.stage = "finish" => f \in finishers
    PROVE  AllKept' /\ FinishersKeep'
<1>1. \A m \in DOMAIN msgs : InWake(m) => InWake(m)'
  BY DEF InWake, Holds, Covers, Wakes
<1> QED BY <1>1, InboxStep

\* The transaction of advancePendingMessageWake.
LEMMA KeptAdvance ==
    ASSUME Sound, WakeAssumption, AllKept, FinishersKeep, AdvancePending,
           UNCHANGED <<msgs, hidden, routing, finishers>>
    PROVE  AllKept' /\ FinishersKeep'
<1> USE DEF wakeVars
<1>0. RestSound
  BY SoundParts
<1>1. CASE Active # {} /\ slot' \in Active /\ UNCHANGED <<inbox, clock, runs, released>>
  BY <1>1, AsideStep DEF Owed
<1>2. CASE Active = {} /\ Advanced
  <2> DEFINE live == {e \in Wakes : Live(e)}
             next == First(live)
             dead == {e \in Wakes \ live : live # {} => Before(e, next)}
             muted == {e \in dead : ~Allowed(e.scope, e.visible)}
  <2>1. ASSUME NEW e \in dead, NEW m \in DOMAIN msgs, Holds(e, m)
        PROVE  m \in Withdrawn(muted) \cup hidden
    <3>1. CASE e \in muted
      BY <2>1, <3>1 DEF Withdrawn, Holds
    <3>2. CASE e \notin muted
      <4>1. e \in Wakes /\ ~Live(e) /\ Allowed(e.scope, e.visible)
        BY <3>2
      <4> QED BY <2>1, <4>1 DEF Live, Holds
    <3> QED BY <3>1, <3>2
  <2>2. CASE /\ inbox' = inbox \ dead /\ slot' = None
             /\ released' = released \cup Withdrawn(muted) /\ UNCHANGED <<clock, runs>>
    <3> HIDE DEF dead, muted
    <3>1. \A m \in DOMAIN msgs : Owed(m)' => Owed(m) /\ (InWake(m) => InWake(m)')
      BY <2>1, <2>2, DropStep
    <3> QED BY <2>2, <3>1, InboxStep
  <2>3. CASE /\ IsHead(next, Ready \ dead) /\ StartRun(next)
             /\ inbox' = inbox \ (dead \cup {next}) /\ slot' = Len(runs) + 1
             /\ released' = released \cup Withdrawn(muted) /\ UNCHANGED clock
    <3>1. next \in Entry
      BY <1>0, <2>3 DEF IsHead, Ready, RestSound
    <3> HIDE DEF next, dead, muted
    <3>2. ASSUME NEW m \in DOMAIN msgs, Owed(m)', ~Holds(next, m)
          PROVE  Owed(m) /\ (InWake(m) => InWake(m)')
      <4> DEFINE gone == dead \cup {next}
      <4>1. \A e \in gone : e \in Wakes /\ Holds(e, m) => m \in released \cup released' \cup hidden
        BY <2>1, <2>3, <3>2
      <4>2. inbox' = inbox \ gone /\ released \subseteq released'
        BY <2>3
      <4> HIDE DEF gone
      <4> QED BY <3>2, <4>1, <4>2, DropStep
    <3> QED BY <1>2, <2>3, <3>1, <3>2, StartStep
  <2>4. CASE UNCHANGED <<inbox, clock, runs, slot, released>>
    BY <2>4, AsideStep DEF Owed
  <2> QED BY <1>2, <2>2, <2>3, <2>4 DEF Advanced
<1> QED BY <1>1, <1>2 DEF AdvancePending

\* The bound of the health loop only falls, and falls when it ends a Run.
LEMMA HealthStep ==
    ASSUME budget \in [Steps -> Nat], [Next]_vars
    PROVE  /\ budget'["health"] <= budget["health"]
           /\ \A r \in DOMAIN runs : HealthFinish(r) => budget'["health"] < budget["health"]
<1>1. \A s \in Steps : Spend(s) => budget'["health"] <= budget["health"]
  BY DEF Spend, Steps
<1>2. "health" \in Steps /\ "failure" \in Steps /\ "policy" \in Steps /\ "edit" \in Steps /\ "restart" \in Steps
  BY DEF Steps
<1>3. Spend("health") => budget'["health"] < budget["health"]
  BY <1>2 DEF Spend
<1> SUFFICES budget'["health"] <= budget["health"]
  BY <1>3 DEF HealthFinish
<1>a. budget["health"] <= budget["health"]
  BY <1>2
<1>4. CASE Environment
  BY <1>1, <1>2, <1>4, <1>a DEF Environment, Send, Refuse, EnqueueWork, Unassign, BeginFinish, HealthFinish,
       SetAttention, Unfollow, Participate, Hide, Restart
<1>5. CASE Progress
  BY <1>1, <1>2, <1>5, <1>a DEF Progress, Claim, Advance, Drain, DispatchWork, WorkDue, Receive, BackendStarted,
       Complete, Requeue, Finish
<1>6. CASE UNCHANGED vars
  BY <1>6, <1>a DEF vars
<1> QED BY <1>4, <1>5, <1>6 DEF Next

\* A new message is in a routing goroutine; the older ones stay where they are.
LEMMA KeptSend ==
    ASSUME Sound, AllKept, FinishersKeep,
           NEW scope \in Scopes, NEW explicit \in BOOLEAN, Send(scope, explicit)
    PROVE  AllKept' /\ FinishersKeep'
<1> USE DEF ownerVars, wakeVars
<1>1. msgs \in Seq(Message) /\ runs \in Seq(Run) /\ FinishersOK
  BY DEF Sound, TypeOK
<1>2. [scope |-> scope, explicit |-> explicit] \in Message
  BY DEF Message
<1>3. /\ DOMAIN msgs \subseteq DOMAIN msgs'
      /\ \A m \in DOMAIN msgs : msgs'[m] = msgs[m]
      /\ \A m \in DOMAIN msgs' : m \in DOMAIN msgs \/ m = Len(msgs) + 1
  BY <1>1, <1>2 DEF Send
<1>4. \A m \in DOMAIN msgs' : Owed(m)' => m \in DOMAIN msgs /\ Owed(m)
  BY <1>3 DEF Owed, Send
<1>5. \A m \in DOMAIN msgs : \A x : Holds(x, m)' <=> Holds(x, m)
  BY <1>3 DEF Holds, Covers
<1>6. \A m \in DOMAIN msgs : InWake(m)' <=> InWake(m)
  BY <1>5 DEF InWake, Wakes, Send
<1>7. \A m \in DOMAIN msgs : \A r \in DOMAIN runs : Holds(runs[r], m)' <=> Holds(runs[r], m)
  BY <1>3 DEF Holds, Covers, Send
<1>8. \A m \in DOMAIN msgs : InRun(m)' <=> InRun(m)
  BY <1>7 DEF InRun, Send
<1>9. AllKept'
  BY <1>4, <1>6, <1>8 DEF AllKept
<1>10. ASSUME NEW f \in finishers', f.stage = "finish"
       PROVE  MayFinish(f)'
  <2>1. f \in finishers /\ MayFinish(f) /\ f.run \in DOMAIN runs /\ runs' = runs
    BY <1>1, <1>10 DEF FinishersKeep, FinishersOK, Send
  <2> QED BY <1>4, <1>6, <1>7, <2>1 DEF MayFinish
<1> QED BY <1>9, <1>10 DEF FinishersKeep

\* claimMessageWake keeps the message, or releases it.
LEMMA KeptClaim ==
    ASSUME Sound, WakeAssumption, AllKept, FinishersKeep, NEW m \in routing, Claim(m)
    PROVE  AllKept' /\ FinishersKeep'
<1> USE DEF ownerVars, wakeVars
<1> DEFINE e == Wake(msgs[m].scope, m, m, msgs[m].explicit)
<1>0. RestSound
  BY SoundParts
<1>1. m \in DOMAIN msgs /\ m \in Nat /\ msgs[m] \in Message /\ clock \in Nat
  BY <1>0, SeqNumbers DEF RestSound, RoutingOK
<1>2. msgs[m].scope \in Scopes /\ msgs[m].explicit \in BOOLEAN
  BY <1>1 DEF Message
<1>3. e \in Entry /\ e.scope = msgs[m].scope /\ e.first = m /\ e.latest = m /\ e.visible = msgs[m].explicit
  BY <1>1, <1>2 DEF Wake, Entry
<1>4. Claimed(m, e) /\ UNCHANGED <<msgs, hidden, finishers>> /\ routing' = routing \ {m}
  BY DEF Claim
<1> HIDE DEF e
<1>5. Holds(e, m)
  BY <1>1, <1>3 DEF Holds, Covers
<1>6. released \subseteq released'
  BY <1>4 DEF Claimed
<1>7. \A q \in DOMAIN msgs : Owed(q)' => q = m \/ Owed(q)
  BY <1>4, <1>6 DEF Owed
<1>8. CASE released' = released \cup {m} /\ UNCHANGED <<inbox, runs>>
  <2>1. \A q \in DOMAIN msgs : Owed(q)' => Owed(q)
    BY <1>7, <1>8 DEF Owed
  <2> QED BY <1>4, <1>8, <2>1, AsideStep
<1>9. CASE Upsert(e) /\ UNCHANGED <<runs, released>>
  <2>1. \A q \in DOMAIN msgs : (Holds(e, q) => InWake(q)') /\ (InWake(q) => InWake(q)')
    BY <1>0, <1>2, <1>3, <1>4, <1>9, UpsertStep
  <2>2. \A q \in DOMAIN msgs : Owed(q)' => InWake(q)' \/ (Owed(q) /\ (InWake(q) => InWake(q)'))
    BY <1>5, <1>7, <2>1
  <2> QED BY <1>4, <1>9, <2>2, InboxStep
<1>10. CASE Active = {} /\ StartRun(e) /\ UNCHANGED <<inbox, released>>
  <2>1. \A q \in DOMAIN msgs : InWake(q) => InWake(q)'
    BY <1>4, <1>10 DEF InWake, Wakes, Holds, Covers
  <2>2. \A q \in DOMAIN msgs : Owed(q)' => Holds(e, q) \/ (Owed(q) /\ (InWake(q) => InWake(q)'))
    BY <1>5, <1>7, <2>1
  <2> QED BY <1>3, <1>4, <1>10, <2>2, StartStep
<1> QED BY <1>4, <1>8, <1>9, <1>10 DEF Claimed

\* Pending ranges that stay in the inbox keep what they hold.
LEMMA WakesStay ==
    ASSUME Wakes \subseteq inbox', UNCHANGED msgs
    PROVE  \A m : InWake(m) => InWake(m)'
<1>1. \A x, m : Holds(x, m) => Holds(x, m)'
  BY DEF Holds, Covers
<1> QED BY <1>1 DEF InWake, Wakes

\* An upsert of other work does not touch the pending ranges.
LEMMA UpsertWork ==
    ASSUME NEW e, e.scope \notin Scopes, Upsert(e)
    PROVE  Wakes \subseteq inbox'
  BY DEF Upsert, Wakes

\* Other work of the Agent: enqueued, dispatched or due again.
LEMMA KeptWork ==
    ASSUME Sound, WakeAssumption, AllKept, FinishersKeep,
           \/ \E w \in Works, u \in BOOLEAN : EnqueueWork(w, u)
           \/ \E e \in inbox : DispatchWork(e) \/ WorkDue(e)
    PROVE  AllKept' /\ FinishersKeep'
<1> USE DEF ownerVars
<1>0. RestSound
  BY SoundParts
<1>1. ASSUME NEW w \in Works, NEW u \in BOOLEAN, EnqueueWork(w, u)
      PROVE  AllKept' /\ FinishersKeep'
  <2>1. Wake(w, 0, 0, u).scope \notin Scopes
    BY DEF Wake, WakeAssumption
  <2>2. Wakes \subseteq inbox' /\ UNCHANGED <<msgs, runs, hidden, routing, finishers, released>>
    BY <1>1, <2>1, UpsertWork DEF EnqueueWork
  <2>3. \A m \in DOMAIN msgs : InWake(m) => InWake(m)'
    BY <2>2, WakesStay
  <2> QED BY <2>2, <2>3, InboxStep DEF Owed
<1>2. ASSUME NEW e \in inbox, DispatchWork(e)
      PROVE  AllKept' /\ FinishersKeep'
  <2>1. e \in Entry /\ e \notin Wakes
    BY <1>0, <1>2 DEF RestSound, DispatchWork, WakeAssumption, Wakes
  <2>2. Wakes \subseteq inbox' /\ UNCHANGED <<msgs, hidden, routing, finishers, released>>
    BY <1>2, <2>1 DEF DispatchWork, Wakes
  <2>3. \A m \in DOMAIN msgs : InWake(m) => InWake(m)'
    BY <2>2, WakesStay
  <2>4. \A m \in DOMAIN msgs : Owed(m)' => Owed(m)
    BY <2>2 DEF Owed
  <2>5. CASE UNCHANGED runs
    BY <2>2, <2>3, <2>4, <2>5, InboxStep
  <2>6. CASE StartRun(e)
    <3>1. Active = {}
      BY <1>2 DEF DispatchWork, IsHead
    <3> QED BY <2>1, <2>2, <2>3, <2>4, <2>6, <3>1, StartStep
  <2> QED BY <1>2, <2>5, <2>6 DEF DispatchWork
<1>3. ASSUME NEW e \in inbox, WorkDue(e)
      PROVE  AllKept' /\ FinishersKeep'
  <2> DEFINE y == [e EXCEPT !.ready = TRUE]
  <2>1. e \in Entry
    BY <1>0 DEF RestSound
  <2>2. y.scope = e.scope /\ y.first = e.first /\ y.latest = e.latest /\ y.visible = e.visible
    BY <2>1 DEF Entry
  <2>3. inbox' = (inbox \ {e}) \cup {y} /\ UNCHANGED <<msgs, runs, hidden, routing, finishers, released>>
    BY <1>3 DEF WorkDue
  <2> HIDE DEF y
  <2>4. \A m : Holds(e, m) => Holds(y, m)'
    BY <2>2, <2>3 DEF Holds, Covers
  <2>5. \A x, m : Holds(x, m) => Holds(x, m)'
    BY <2>3 DEF Holds, Covers
  <2>6. \A m \in DOMAIN msgs : InWake(m) => InWake(m)'
    BY <2>2, <2>3, <2>4, <2>5 DEF InWake, Wakes
  <2> QED BY <2>3, <2>6, InboxStep DEF Owed
<1> QED BY <1>1, <1>2, <1>3

\* Steps of a Run's row: taken, started, unassigned, completed or finished by
\* a terminal path past its requeue.
LEMMA KeptRow ==
    ASSUME Sound, AllKept, FinishersKeep,
           \/ \E r \in DOMAIN runs : Receive(r) \/ BackendStarted(r) \/ Unassign(r) \/ Complete(r)
           \/ \E f \in finishers : Finish(f)
    PROVE  AllKept' /\ FinishersKeep'
<1> USE DEF ownerVars, OnlyRuns
<1>0. runs \in Seq(Run) /\ RunsOK /\ FinishersOK
  BY DEF Sound, TypeOK
<1>1. \A r \in DOMAIN runs : runs[r] \in Run /\ RunOK(runs[r])
  BY <1>0 DEF RunsOK
<1>2. ASSUME NEW r \in DOMAIN runs, Receive(r)
      PROVE  AllKept' /\ FinishersKeep'
  <2> DEFINE y == [runs[r] EXCEPT !.held = TRUE, !.taken = TRUE]
  <2>1. y \in Run /\ SameRange(y, runs[r]) /\ y.finished = runs[r].finished /\ y.taken
    BY <1>1, RowReceived
  <2>2. SetRun(r, y) /\ UNCHANGED <<msgs, hidden, routing, inbox, released, finishers>>
    BY <1>2 DEF Receive
  <2> HIDE DEF y
  <2> QED BY <2>1, <2>2, RowStep
<1>3. ASSUME NEW r \in DOMAIN runs, BackendStarted(r)
      PROVE  AllKept' /\ FinishersKeep'
  <2> DEFINE y == [runs[r] EXCEPT !.started = TRUE]
  <2>1. y \in Run /\ SameRange(y, runs[r]) /\ y.finished = runs[r].finished /\ y.taken = runs[r].taken
    BY <1>1, <1>3, RowStarted DEF BackendStarted
  <2>2. SetRun(r, y) /\ UNCHANGED <<msgs, hidden, routing, inbox, released, finishers>>
    BY <1>3 DEF BackendStarted
  <2>3. ~runs[r].finished
    BY <1>3 DEF BackendStarted
  <2> HIDE DEF y
  <2> QED BY <2>1, <2>2, <2>3, RowStep
<1>4. ASSUME NEW r \in DOMAIN runs, Unassign(r)
      PROVE  AllKept' /\ FinishersKeep'
  <2> DEFINE y == [runs[r] EXCEPT !.held = FALSE]
  <2>1. y \in Run /\ SameRange(y, runs[r]) /\ y.finished = runs[r].finished /\ y.taken = runs[r].taken
    BY <1>1, RowUnassigned
  <2>2. SetRun(r, y) /\ UNCHANGED <<msgs, hidden, routing, inbox, released, finishers>>
    BY <1>4 DEF Unassign
  <2>3. ~runs[r].finished
    BY <1>4 DEF Unassign
  <2> HIDE DEF y
  <2> QED BY <2>1, <2>2, <2>3, RowStep
<1>5. ASSUME NEW r \in DOMAIN runs, Complete(r)
      PROVE  AllKept' /\ FinishersKeep'
  <2> DEFINE y == [runs[r] EXCEPT !.finished = TRUE]
  <2>1. y \in Run /\ SameRange(y, runs[r]) /\ y.finished /\ y.taken = runs[r].taken
    BY <1>1, RowFinished
  <2>2. SetRun(r, y) /\ UNCHANGED <<msgs, hidden, routing, inbox, released, finishers>>
    BY <1>5 DEF Complete, Finished
  <2>3. runs[r].taken
    BY <1>1, <1>5 DEF Complete, RunOK
  <2> HIDE DEF y
  <2> QED BY <2>1, <2>2, <2>3, RowStep
<1>6. ASSUME NEW f \in finishers, Finish(f)
      PROVE  AllKept' /\ FinishersKeep'
  <2>1. /\ f.run \in DOMAIN runs /\ MayFinish(f)
        /\ finishers' \subseteq finishers /\ UNCHANGED <<msgs, hidden, routing, inbox, released>>
    BY <1>0, <1>6 DEF FinishersOK, FinishersKeep, Finish
  <2>2. CASE runs[f.run].finished
    <3>1. UNCHANGED runs
      BY <1>6, <2>2 DEF Finish
    <3> QED BY <2>1, <3>1, AsideStep DEF Owed
  <2>3. CASE ~runs[f.run].finished
    <3> DEFINE y == [runs[f.run] EXCEPT !.finished = TRUE]
    <3>1. y \in Run /\ SameRange(y, runs[f.run]) /\ y.finished /\ y.taken = runs[f.run].taken
      BY <1>1, <2>1, RowFinished
    <3>2. SetRun(f.run, y)
      BY <1>6, <2>3 DEF Finish, Finished
    <3> HIDE DEF y
    <3>3. \/ y.taken
          \/ \A m \in DOMAIN msgs : Owed(m) /\ Holds(runs[f.run], m) => InWake(m)
      BY <2>1, <2>3, <3>1 DEF MayFinish
    <3> QED BY <2>1, <3>1, <3>2, <3>3, RowStep
  <2> QED BY <2>2, <2>3
<1> QED BY <1>2, <1>3, <1>4, <1>5, <1>6

\* requeueUndeliveredMessageWake: afterwards the path may finish its Run.
LEMMA KeptRequeue ==
    ASSUME Sound, WakeAssumption, AllKept, FinishersKeep, NEW f \in finishers, Requeue(f)
    PROVE  AllKept' /\ FinishersKeep'
<1> USE DEF ownerVars
<1> DEFINE run == runs[f.run]
           g == [f EXCEPT !.stage = "finish"]
           e == Wake(run.scope, run.first, run.latest, run.visible)
<1>0. RestSound /\ RunsSound
  BY SoundParts
<1>1. f \in Finisher /\ f.run \in DOMAIN runs /\ (f.started => run.taken)
  BY <1>0 DEF RestSound, RunsSound, FinishersOK
<1>2. run \in Run /\ RunOK(run)
  BY <1>0, <1>1 DEF RunsSound, RunsOK
<1>3. g.run = f.run
  BY <1>1 DEF Finisher
<1>4. /\ UNCHANGED <<msgs, hidden, routing, runs>>
      /\ finishers' = (finishers \ {f}) \cup {g}
  BY DEF Requeue
<1>5. \/ f.started /\ UNCHANGED <<inbox, released>>
      \/ ~Undelivered(run) /\ UNCHANGED <<inbox, released>>
      \/ Upsert(e) /\ UNCHANGED released
      \/ released' = released \cup {m \in DOMAIN msgs : Covers(run, m)} /\ UNCHANGED inbox
  BY DEF Requeue
<1> HIDE DEF g
<1>6. \A m \in DOMAIN msgs : Owed(m)' => Owed(m)
  BY <1>4, <1>5 DEF Owed
<1>7. \A m : Holds(runs[g.run], m)' <=> Holds(run, m)
  BY <1>3, <1>4 DEF Holds, Covers
<1>8. run.scope \notin Scopes => \A m \in DOMAIN msgs : ~Holds(run, m)
  <2>1. \A m \in DOMAIN msgs : msgs[m].scope \in Scopes
    BY <1>0, SeqNumbers DEF RestSound, Message
  <2> QED BY <2>1 DEF Holds, Covers
<1>9. run.taken \/ run.finished => MayFinish(g)'
  BY <1>3, <1>4 DEF MayFinish
<1>10. (\A m \in DOMAIN msgs : ~Holds(run, m)) => MayFinish(g)'
  BY <1>4, <1>7 DEF MayFinish
<1>11. ASSUME UNCHANGED <<inbox, released>>, MayFinish(g)'
       PROVE  AllKept' /\ FinishersKeep'
  <2>1. \A m \in DOMAIN msgs : InWake(m) => InWake(m)'
    BY <1>4, <1>11, WakesStay DEF Wakes
  <2> QED BY <1>4, <1>6, <1>11, <2>1, InboxStep
<1>12. CASE f.started /\ UNCHANGED <<inbox, released>>
  BY <1>1, <1>9, <1>11, <1>12
<1>13. CASE ~Undelivered(run) /\ UNCHANGED <<inbox, released>>
  <2>1. CASE run.finished \/ (run.remote /\ run.held)
    BY <1>2, <1>9, <1>11, <1>13, <2>1 DEF RunOK
  <2>2. CASE ~(run.first > 0)
    BY <1>2, <1>8, <1>10, <1>11, <1>13, <2>2 DEF RunOK
  <2> QED BY <1>13, <2>1, <2>2 DEF Undelivered
<1>14. CASE Upsert(e) /\ UNCHANGED released
  <2>1. /\ e \in Entry /\ e.scope = run.scope /\ e.first = run.first
        /\ e.latest = run.latest /\ e.visible = run.visible
    BY <1>0, <1>2 DEF RestSound, Run, Wake, Entry
  <2> HIDE DEF e
  <2>2. \A m : Holds(run, m) => Holds(e, m)
    BY <2>1 DEF Holds, Covers
  <2>3. CASE run.scope \in Scopes
    <3>1. \A m \in DOMAIN msgs : (Holds(e, m) => InWake(m)') /\ (InWake(m) => InWake(m)')
      BY <1>0, <1>4, <1>14, <2>1, <2>3, UpsertStep
    <3>2. MayFinish(g)'
      BY <1>4, <1>7, <2>2, <3>1 DEF MayFinish
    <3> QED BY <1>4, <1>6, <3>1, <3>2, InboxStep
  <2>4. CASE run.scope \notin Scopes
    <3>1. \A m \in DOMAIN msgs : InWake(m) => InWake(m)'
      BY <1>4, <1>14, <2>1, <2>4, UpsertWork, WakesStay
    <3> QED BY <1>4, <1>6, <1>8, <1>10, <2>4, <3>1, InboxStep
  <2> QED BY <2>3, <2>4
<1>15. CASE released' = released \cup {m \in DOMAIN msgs : Covers(run, m)} /\ UNCHANGED inbox
  <2>1. \A m \in DOMAIN msgs : InWake(m) => InWake(m)'
    BY <1>4, <1>15, WakesStay DEF Wakes
  <2>2. \A m \in DOMAIN msgs : Owed(m)' => ~Holds(run, m)
    BY <1>15 DEF Owed, Holds
  <2>3. MayFinish(g)'
    BY <1>4, <1>7, <2>2 DEF MayFinish
  <2> QED BY <1>4, <1>6, <2>1, <2>3, InboxStep
<1> QED BY <1>5, <1>12, <1>13, <1>14, <1>15

\* The owner withdraws pending ranges.
LEMMA KeptOwner ==
    ASSUME AllKept, FinishersKeep,
           (\E p \in Policies : SetAttention(p)) \/ (\E scope \in Scopes : Unfollow(scope))
    PROVE  AllKept' /\ FinishersKeep'
<1>1. PICK gone : /\ gone \subseteq Wakes /\ inbox' = inbox \ gone
                  /\ released' = released \cup Withdrawn(gone)
                  /\ UNCHANGED <<msgs, hidden, routing, runs, finishers>>
  BY DEF SetAttention, Unfollow
<1>2. ASSUME NEW m \in DOMAIN msgs, Owed(m)'
      PROVE  Owed(m) /\ (InWake(m) => InWake(m)')
  <2>1. \A e \in gone : Holds(e, m) => m \in released'
    BY <1>1 DEF Withdrawn, Holds
  <2> QED BY <1>1, <1>2, <2>1, DropStep
<1> QED BY <1>1, <1>2, InboxStep

\* Every step keeps the invariant of delivery.
LEMMA KeptStep ==
    ASSUME Kept, WakeAssumption, [Next]_vars
    PROVE  Kept'
<1> USE DEF ownerVars, wakeVars
<1>a. Sound /\ budget["health"] <= MaxHealth /\ budget \in [Steps -> Nat] /\ MaxHealth \in Nat
  BY DEF Kept, Sound, TypeOK, WakeAssumption
<1>1. Sound'
  BY <1>a, SoundStep
<1>b. /\ budget["health"] \in Nat /\ budget'["health"] \in Nat
      /\ budget'["health"] <= budget["health"]
      /\ \A r \in DOMAIN runs : HealthFinish(r) => budget'["health"] < budget["health"]
  BY <1>a, <1>1, HealthStep DEF Sound, TypeOK, Steps
<1>c. budget'["health"] <= MaxHealth
  BY <1>a, <1>b
<1> SUFFICES ASSUME Undisturbed' PROVE AllKept' /\ FinishersKeep'
  BY <1>1, <1>c DEF Kept
<1>d. Undisturbed
  BY <1>a, <1>b DEF Undisturbed
<1>0. Sound /\ AllKept /\ FinishersKeep
  BY <1>a, <1>d DEF Kept
<1>2. \A r \in DOMAIN runs : ~HealthFinish(r)
  BY <1>a, <1>b DEF Undisturbed
<1>3. CASE Environment
  <2>1. ASSUME NEW m \in routing, Refuse(m)
        PROVE  AllKept' /\ FinishersKeep'
    BY <1>0, <2>1, AsideStep DEF Refuse, Owed
  <2>2. ASSUME NEW r \in DOMAIN runs, BeginFinish(r)
        PROVE  AllKept' /\ FinishersKeep'
    BY <1>0, <2>2, AsideStep DEF BeginFinish, OnlyRuns, Owed
  <2>3. ASSUME NEW scope \in Scopes, Participate(scope)
        PROVE  AllKept' /\ FinishersKeep'
    BY <1>0, <2>3, AsideStep DEF Participate, Owed
  <2>4. ASSUME NEW m \in DOMAIN msgs, Hide(m)
        PROVE  AllKept' /\ FinishersKeep'
    BY <1>0, <2>4, AsideStep DEF Hide, Owed
  <2>5. CASE Restart
    BY <1>0, <2>5, AsideStep DEF Restart, Owed
  <2> QED BY <1>0, <1>2, <1>3, <2>1, <2>2, <2>3, <2>4, <2>5, KeptSend, KeptWork, KeptRow, KeptOwner
          DEF Environment
<1>4. CASE Progress
  <2>1. CASE Advance \/ Drain
    BY <1>0, <2>1, KeptAdvance DEF Advance, Drain
  <2> QED BY <1>0, <1>4, <2>1, KeptClaim, KeptWork, KeptRow, KeptRequeue DEF Progress
<1>5. CASE UNCHANGED vars
  BY <1>0, <1>5, AsideStep DEF vars, Owed
<1> QED BY <1>3, <1>4, <1>5 DEF Next

\* The invariant of delivery holds in every reachable state.
THEOREM DeliveryIsKept == Spec => []Kept
<1>1. Init => Kept
  <2> SUFFICES ASSUME Init
               PROVE  Kept
    OBVIOUS
  <2>0. MaxHealth \in Nat /\ budget["health"] = MaxHealth
    BY WakeAssumption DEF Init, Steps, WakeAssumption
  <2>1. Sound /\ budget["health"] <= MaxHealth
    BY <2>0, SoundInit, WakeAssumption
  <2>2. AllKept /\ FinishersKeep
    BY DEF Init, AllKept, FinishersKeep
  <2> QED BY <2>1, <2>2 DEF Kept
<1>2. Kept /\ [Next]_vars => Kept'
  BY KeptStep, WakeAssumption
<1> QED BY <1>1, <1>2, PTL DEF Spec

\* While the health loop has ended no Run, a claimed message stays in a
\* pending range or in a Run until a daemon has taken it.
THEOREM NothingIsLost == Spec => []ClaimedMessagesAreKept
<1>1. Kept => ClaimedMessagesAreKept
  BY DEF Kept, AllKept, ClaimedMessagesAreKept, NoMessageLost, InWake, InRun, Holds, Carries
<1> QED BY <1>1, DeliveryIsKept, PTL

\* As long as that is so, a mention or DM keeps its claim to a visible answer
\* across merges, requeues and restarts.
THEOREM VisibleAnswerStaysOwed == Spec => []VisibleResultIsOwed
<1>1. Kept => VisibleResultIsOwed
  BY DEF Kept, AllKept, VisibleResultIsOwed, InWake, InRun, Holds, Carries
<1> QED BY <1>1, DeliveryIsKept, PTL


-----------------------------------------------------------------------------
(* The order of the inbox.                                                 *)

\* No two entries of the inbox were created at the same time, and none later
\* than the clock: the inbox order is total.
Ordered ==
    /\ \A e, f \in inbox : e.at = f.at => e = f
    /\ \A e \in inbox : e.at <= clock

\* A set of naturals has a least member.
LEMMA LeastNat ==
    ASSUME NEW S, S \subseteq Nat, S # {}
    PROVE  \E x \in S : \A y \in S : x <= y
<1> DEFINE R == {p \in Nat \X Nat : p[1] < p[2]}
<1>1. IsWellFoundedOn(R, Nat)
  BY NatLessThanWellFounded DEF OpToRel
<1> HIDE DEF R
<1>2. \E x \in S : \A y \in S : ~(<<y, x>> \in R)
  BY <1>1, WFMin
<1>3. ASSUME NEW x \in Nat, NEW y \in Nat, ~(<<y, x>> \in R)
      PROVE  x <= y
  <2>1. y < x => <<y, x>> \in R
    BY DEF R
  <2> QED BY <1>3, <2>1
<1> QED BY <1>2, <1>3

\* Entries with different times have an oldest one.
LEMMA OldestEntry ==
    ASSUME NEW S, S \subseteq Entry, S # {}, \A e, f \in S : e.at = f.at => e = f
    PROVE  \E e \in S : \A f \in S \ {e} : e.at < f.at
<1> DEFINE T == {e.at : e \in S}
<1>1. \A e \in S : e.at \in Nat
  BY DEF Entry
<1>2. T \subseteq Nat /\ T # {}
  BY <1>1
<1> HIDE DEF T
<1>3. PICK x \in T : \A y \in T : x <= y
  BY <1>2, LeastNat
<1> USE DEF T
<1>4. PICK e \in S : e.at = x
  BY <1>3
<1>5. ASSUME NEW f \in S \ {e} PROVE e.at < f.at
  <2>1. x <= f.at /\ f.at # e.at
    BY <1>3, <1>5
  <2> QED BY <1>1, <1>4, <2>1
<1> QED BY <1>5

\* agent_inbox_heads has a row for every Agent with ready work: a set of
\* entries with different times has a first one, and First returns it.
LEMMA FirstIsFirst ==
    ASSUME NEW S, S \subseteq Entry, S # {}, \A e, f \in S : e.at = f.at => e = f
    PROVE  First(S) \in S /\ \A f \in S \ {First(S)} : Before(First(S), f)
<1> DEFINE V == {e \in S : e.visible}
<1>1. \E e \in S : \A f \in S \ {e} : Before(e, f)
  <2>1. CASE V # {}
    <3>1. PICK e \in V : \A f \in V \ {e} : e.at < f.at
      BY <2>1, OldestEntry
    <3>2. e \in S /\ \A f \in S \ {e} : Before(e, f)
      BY <3>1 DEF Before
    <3> QED BY <3>2
  <2>2. CASE V = {}
    <3>1. PICK e \in S : \A f \in S \ {e} : e.at < f.at
      BY OldestEntry
    <3>2. \A f \in S : ~f.visible
      BY <2>2
    <3> QED BY <3>1, <3>2 DEF Before, Entry
  <2> QED BY <2>1, <2>2
<1> QED BY <1>1 DEF First

\* Removing entries leaves the inbox ordered.
LEMMA OrderedShrinks ==
    ASSUME Ordered, inbox' \subseteq inbox, UNCHANGED clock
    PROVE  Ordered'
  BY DEF Ordered

\* So does changing whether an entry is ready.
LEMMA OrderedReplace ==
    ASSUME Ordered, inbox \subseteq Entry, NEW e \in inbox, NEW b \in BOOLEAN,
           inbox' = (inbox \ {e}) \cup {[e EXCEPT !.ready = b]}, UNCHANGED clock
    PROVE  Ordered'
<1> DEFINE n == [e EXCEPT !.ready = b]
<1>1. n.at = e.at
  BY DEF Entry
<1> HIDE DEF n
<1>2. inbox' = (inbox \ {e}) \cup {n}
  BY DEF n
<1>3. ASSUME NEW x \in inbox', NEW y \in inbox', x.at = y.at
      PROVE  x = y
  BY <1>1, <1>2, <1>3 DEF Ordered
<1> QED BY <1>1, <1>2, <1>3 DEF Ordered

\* So does an upsert: a merge keeps created_at, an insert gets a later one.
LEMMA OrderedUpsert ==
    ASSUME Ordered, inbox \subseteq Entry, clock \in Nat, NEW e, e.at = clock + 1, Upsert(e)
    PROVE  Ordered'
<1> DEFINE same == {o \in inbox : o.scope = e.scope}
<1>0. \A o \in inbox : o.at \in Nat /\ o.at <= clock
  BY DEF Ordered, Entry
<1>1. CASE inbox' = (inbox \ same) \cup {Merge(o, e) : o \in same} /\ UNCHANGED clock
  <2>1. \A o \in inbox : Merge(o, e).at = o.at
    BY DEF Merge, Entry
  <2>2. \A x \in inbox' : \E o \in inbox : /\ x.at = o.at
                                           /\ x = IF o \in same THEN Merge(o, e) ELSE o
    BY <1>1, <2>1
  <2>3. ASSUME NEW x \in inbox', NEW y \in inbox', x.at = y.at
        PROVE  x = y
    <3> HIDE DEF same
    <3> QED BY <2>2, <2>3 DEF Ordered
  <2>4. \A x \in inbox' : x.at <= clock
    BY <1>0, <2>2
  <2> QED BY <1>1, <2>3, <2>4 DEF Ordered
<1>2. CASE inbox' = inbox \cup {e} /\ clock' = e.at
  <2>1. \A o \in inbox : o.at # e.at
    BY <1>0
  <2>2. \A o \in inbox : o.at <= clock'
    BY <1>0, <1>2
  <2>3. e.at \in Nat /\ e.at <= clock'
    BY <1>2
  <2> QED BY <1>2, <2>1, <2>2, <2>3 DEF Ordered
<1> QED BY <1>1, <1>2 DEF Upsert


\* The transaction of advancePendingMessageWake only takes entries out.
LEMMA AdvanceShrinks ==
    ASSUME AdvancePending PROVE inbox' \subseteq inbox /\ UNCHANGED clock
  BY DEF AdvancePending, Advanced, wakeVars

\* Every step leaves the inbox ordered.
LEMMA OrderedStep ==
    ASSUME Sound, Ordered, [Next]_vars
    PROVE  Ordered'
<1> USE DEF ownerVars, wakeVars
<1>0. inbox \subseteq Entry /\ clock \in Nat
  BY DEF Sound, TypeOK
<1>1. CASE Environment
  <2>1. CASE \E w \in Works, u \in BOOLEAN : EnqueueWork(w, u)
    <3> PICK w \in Works, u \in BOOLEAN : EnqueueWork(w, u)
      BY <2>1
    <3>1. Wake(w, 0, 0, u).at = clock + 1 /\ Upsert(Wake(w, 0, 0, u))
      BY DEF EnqueueWork, Wake
    <3> QED BY <1>0, <3>1, OrderedUpsert
  <2>2. CASE \/ \E s \in Scopes, e \in BOOLEAN : Send(s, e)
             \/ \E m \in routing : Refuse(m)
             \/ \E m \in DOMAIN msgs : Hide(m)
             \/ Restart
    BY <2>2, OrderedShrinks DEF Send, Refuse, Hide, Restart
  <2>3. CASE \E r \in DOMAIN runs : Unassign(r) \/ BeginFinish(r) \/ HealthFinish(r)
    BY <2>3, OrderedShrinks DEF Unassign, BeginFinish, HealthFinish, OnlyRuns
  <2>4. CASE \/ \E p \in Policies : SetAttention(p)
             \/ \E s \in Scopes : Unfollow(s) \/ Participate(s)
    BY <2>4, OrderedShrinks DEF SetAttention, Unfollow, Participate
  <2> QED BY <1>1, <2>1, <2>2, <2>3, <2>4 DEF Environment
<1>2. CASE Progress
  <2>1. CASE \E m \in routing : Claim(m)
    <3> PICK m \in routing : Claim(m)
      BY <2>1
    <3> DEFINE e == Wake(msgs[m].scope, m, m, msgs[m].explicit)
    <3>1. e.at = clock + 1
      BY DEF Wake
    <3>2. Claimed(m, e)
      BY DEF Claim
    <3> HIDE DEF e
    <3>3. Upsert(e) \/ UNCHANGED <<inbox, clock>>
      BY <3>2 DEF Claimed
    <3> QED BY <1>0, <3>1, <3>3, OrderedUpsert, OrderedShrinks
  <2>2. CASE Advance \/ Drain
    BY <2>2, AdvanceShrinks, OrderedShrinks DEF Advance, Drain
  <2>3. ASSUME NEW e \in inbox, DispatchWork(e)
        PROVE  Ordered'
    <3>1. UNCHANGED clock
      BY <2>3 DEF DispatchWork
    <3>2. inbox' = inbox \ {e} \/ inbox' = (inbox \ {e}) \cup {[e EXCEPT !.ready = FALSE]}
      BY <2>3 DEF DispatchWork
    <3> QED BY <1>0, <3>1, <3>2, OrderedShrinks, OrderedReplace
  <2>4. ASSUME NEW e \in inbox, WorkDue(e)
        PROVE  Ordered'
    BY <1>0, <2>4, OrderedReplace DEF WorkDue
  <2>5. CASE \E r \in DOMAIN runs : Receive(r) \/ BackendStarted(r) \/ Complete(r)
    BY <2>5, OrderedShrinks DEF Receive, BackendStarted, Complete, OnlyRuns
  <2>6. CASE \E f \in finishers : Requeue(f)
    <3> PICK f \in finishers : Requeue(f)
      BY <2>6
    <3> DEFINE run == runs[f.run]
               e == Wake(run.scope, run.first, run.latest, run.visible)
    <3>1. e.at = clock + 1
      BY DEF Wake
    <3>2. Upsert(e) \/ UNCHANGED <<inbox, clock>>
      BY DEF Requeue
    <3> HIDE DEF e
    <3> QED BY <1>0, <3>1, <3>2, OrderedUpsert, OrderedShrinks
  <2>7. CASE \E f \in finishers : Finish(f)
    BY <2>7, OrderedShrinks DEF Finish, OnlyRuns
  <2> QED BY <1>2, <2>1, <2>2, <2>3, <2>4, <2>5, <2>6, <2>7 DEF Progress
<1>3. CASE UNCHANGED vars
  BY <1>3, OrderedShrinks DEF vars
<1> QED BY <1>1, <1>2, <1>3 DEF Next

\* Why a Run may start: the Agent is allowed to be woken for the message or
\* range, and nothing ready of the inbox that stays behind comes before it.
MayStart(e) ==
    /\ e.scope \in Scopes => Allowed(e.scope, e.visible)
    /\ \/ Ready = {}
       \/ e \in Ready /\ \A f \in Ready \cap inbox' : Before(e, f)

\* A range that advancePendingMessageWake starts may start: it is live under
\* the policy in force, and the first of the ready entries left.
LEMMA AdvanceMayStart ==
    ASSUME Sound, Ordered, AdvancePending, NewRun
    PROVE  \E e \in Entry : MayStart(e) /\ StartRun(e)
<1> DEFINE live == {e \in Wakes : Live(e)}
           next == First(live)
           dead == {e \in Wakes \ live : live # {} => Before(e, next)}
<1>0. inbox \subseteq Entry
  BY DEF Sound, TypeOK
<1>1. /\ live # {} /\ IsHead(next, Ready \ dead) /\ StartRun(next)
      /\ inbox' = inbox \ (dead \cup {next})
  BY DEF AdvancePending, Advanced, NewRun, wakeVars
<1>2. next \in live /\ next \in Entry
  <2>1. live \subseteq inbox
    BY DEF Wakes
  <2> HIDE DEF live
  <2> QED BY <1>0, <1>1, <2>1, FirstIsFirst DEF Ordered
<1>3. Allowed(next.scope, next.visible)
  BY <1>2 DEF Live
<1>4. next \in Ready /\ \A f \in Ready \cap inbox' : Before(next, f)
  <2> DEFINE S == Ready \ dead
  <2>1. S \subseteq inbox /\ next \in S /\ next = First(S)
    BY <1>1 DEF IsHead, Ready
  <2>2. \A f \in Ready \cap inbox' : f \in S \ {next}
    BY <1>1
  <2> HIDE DEF S, next
  <2>3. \A f \in S \ {next} : Before(next, f)
    BY <1>0, <2>1, FirstIsFirst DEF Ordered
  <2>4. next \in Ready
    BY <2>1 DEF S
  <2> QED BY <2>2, <2>3, <2>4
<1> HIDE DEF next
<1> QED BY <1>1, <1>2, <1>3, <1>4 DEF MayStart

\* A claim that starts a Run found the inbox without ready work.
LEMMA ClaimMayStart ==
    ASSUME Sound, NEW m \in routing, Claim(m), NewRun
    PROVE  \E e \in Entry : MayStart(e) /\ StartRun(e)
<1> DEFINE e == Wake(msgs[m].scope, m, m, msgs[m].explicit)
<1>1. m \in DOMAIN msgs /\ msgs \in Seq(Message) /\ clock \in Nat
  BY DEF Sound, TypeOK, RoutingOK
<1>2. m \in Nat /\ msgs[m] \in Message
  BY <1>1, SeqNumbers
<1>3. e \in Entry
  BY <1>1, <1>2 DEF Wake, Entry, Message
<1>4. Claimed(m, e)
  BY DEF Claim
<1> HIDE DEF e
<1>5. Allowed(e.scope, e.visible) /\ Ready = {} /\ StartRun(e)
  BY <1>4 DEF Claimed, NewRun, wakeVars
<1> QED BY <1>3, <1>5 DEF MayStart

\* dispatchPendingAgentWork starts the head of the inbox.
LEMMA DispatchMayStart ==
    ASSUME Sound, Ordered, WakeAssumption, NEW w \in inbox, DispatchWork(w), NewRun
    PROVE  \E e \in Entry : MayStart(e) /\ StartRun(e)
<1>0. inbox \subseteq Entry
  BY DEF Sound, TypeOK
<1>1. w.scope \in Works /\ IsHead(w, Ready) /\ StartRun(w) /\ inbox' = inbox \ {w}
  BY DEF DispatchWork, NewRun
<1>2. w.scope \notin Scopes
  BY <1>1 DEF WakeAssumption
<1>3. Ready \subseteq inbox /\ w \in Ready /\ w = First(Ready)
  BY <1>1 DEF IsHead, Ready
<1>4. \A f \in Ready \ {w} : Before(w, f)
  BY <1>0, <1>3, FirstIsFirst DEF Ordered
<1> QED BY <1>0, <1>1, <1>2, <1>3, <1>4 DEF MayStart

\* No other step creates a Run.
LEMMA RunsStartOnce ==
    ASSUME Sound, [Next]_vars, NewRun
    PROVE  \/ \E m \in routing : Claim(m)
           \/ AdvancePending /\ UNCHANGED ownerVars
           \/ \E e \in inbox : DispatchWork(e)
<1> USE DEF NewRun, ownerVars, wakeVars
<1>0. runs \in Seq(Run)
  BY DEF Sound, TypeOK
<1>1. \A r \in DOMAIN runs : \A y : SetRun(r, y) => Len(runs') = Len(runs)
  BY <1>0 DEF SetRun
<1>2. CASE Environment
  <2>1. ASSUME NEW r \in DOMAIN runs, Unassign(r) \/ BeginFinish(r) \/ HealthFinish(r)
        PROVE  Len(runs') = Len(runs)
    BY <1>1, <2>1 DEF Unassign, BeginFinish, HealthFinish
  <2>2. CASE \/ \E s \in Scopes, e \in BOOLEAN : Send(s, e)
             \/ \E m \in routing : Refuse(m)
             \/ \E w \in Works, u \in BOOLEAN : EnqueueWork(w, u)
             \/ \E m \in DOMAIN msgs : Hide(m)
             \/ Restart
    <3>1. UNCHANGED runs
      BY <2>2 DEF Send, Refuse, EnqueueWork, Hide, Restart
    <3> QED BY <1>0, <3>1
  <2>3. CASE \/ \E p \in Policies : SetAttention(p)
             \/ \E s \in Scopes : Unfollow(s) \/ Participate(s)
    BY <1>0, <2>3 DEF SetAttention, Unfollow, Participate
  <2> QED BY <1>0, <1>2, <2>1, <2>2, <2>3 DEF Environment
<1>3. CASE Progress
  <2>1. ASSUME NEW r \in DOMAIN runs, Receive(r) \/ BackendStarted(r) \/ Complete(r)
        PROVE  Len(runs') = Len(runs)
    BY <1>1, <2>1 DEF Receive, BackendStarted, Complete, Finished
  <2>2. ASSUME NEW f \in finishers, Requeue(f) \/ Finish(f)
        PROVE  Len(runs') = Len(runs)
    <3>1. f.run \in DOMAIN runs
      BY DEF Sound, FinishersOK
    <3> QED BY <1>1, <2>2, <3>1 DEF Requeue, Finish, Finished
  <2>3. ASSUME NEW e \in inbox, WorkDue(e)
        PROVE  Len(runs') = Len(runs)
    BY <2>3 DEF WorkDue
  <2>4. Advance \/ Drain => AdvancePending /\ UNCHANGED ownerVars
    BY DEF Advance, Drain
  <2> QED BY <1>0, <1>3, <2>1, <2>2, <2>3, <2>4 DEF Progress
<1>4. CASE UNCHANGED vars
  BY <1>0, <1>4 DEF vars
<1> QED BY <1>2, <1>3, <1>4 DEF Next

\* Every new Run may start, and the step leaves the policy alone.
LEMMA NewRunMayStart ==
    ASSUME Sound, Ordered, WakeAssumption, [Next]_vars, NewRun
    PROVE  \E e \in Entry : /\ MayStart(e)
                            /\ LastRun.scope = e.scope /\ LastRun.visible = e.visible
<1>1. \E e \in Entry : MayStart(e) /\ StartRun(e)
  BY RunsStartOnce, ClaimMayStart, AdvanceMayStart, DispatchMayStart
<1>2. PICK e \in Entry : MayStart(e) /\ StartRun(e)
  BY <1>1
<1>3. runs \in Seq(Run)
  BY DEF Sound, TypeOK
<1>4. LastRun.scope = e.scope /\ LastRun.visible = e.visible
  BY <1>2, <1>3, StartRunAppends DEF LastRun
<1> QED BY <1>2, <1>4

\* The inbox is ordered in every reachable state.
THEOREM InboxIsOrdered == Spec => []Ordered
<1>1. Init => Ordered
  BY DEF Init, Ordered
<1>2. Sound /\ Ordered /\ [Next]_vars => Ordered'
  BY OrderedStep
<1> QED BY <1>1, <1>2, WakeIsSound, PTL DEF Spec

\* No Run of messages starts against the attention policy in force, however
\* long ago routing, a claim or a requeue decided for it.
THEOREM MuteIsRespected == Spec => MutedAgentIsLeftAlone
<1>1. Sound /\ Ordered /\ [Next]_vars =>
        (NewRun /\ LastRun.scope \in Scopes => Allowed(LastRun.scope, LastRun.visible))
  BY NewRunMayStart, WakeAssumption DEF MayStart
<1> QED BY <1>1, WakeIsSound, InboxIsOrdered, PTL DEF Spec, MutedAgentIsLeftAlone

\* No Run overtakes ready work of the inbox.
THEOREM QueueIsFair == Spec => NobodyJumpsTheQueue
<1> DEFINE Fair == NewRun => \/ Ready = {}
                             \/ \E e \in Ready : /\ e.scope = LastRun.scope
                                                /\ \A f \in Ready \cap inbox' : Before(e, f)
<1>1. Sound /\ Ordered /\ [Next]_vars => Fair
  BY NewRunMayStart, WakeAssumption DEF MayStart
<1> QED BY <1>1, WakeIsSound, InboxIsOrdered, PTL DEF Spec, NobodyJumpsTheQueue
=============================================================================
