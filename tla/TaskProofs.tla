----------------------------- MODULE TaskProofs -----------------------------
(***************************************************************************)
(* Proofs about Task, for every set of tasks, actors, contracts, messages, *)
(* submissions, keys and concurrent requests.                              *)
(***************************************************************************)
EXTENDS Task, TLAPS

-----------------------------------------------------------------------------
(* What the trigger does to a row.                                         *)

\* The trigger turns a row into a row.
LEMMA StampType ==
    ASSUME NEW old \in Row, NEW new \in Row
    PROVE  Stamp(old, new) \in Row
<1> DEFINE v == NewVersion(old, new)
<1>1. v \in Nat
  BY DEF NewVersion, Row
<1>2. [new EXCEPT !.version = v] \in Row
  BY <1>1 DEF Row
<1>3. CASE LeavesReview(old, new)
  <2> DEFINE st == IF new.claimer = None THEN "todo" ELSE "in_progress"
  <2>1. st \in Live \cup {"absent", "deleted"}
    BY DEF Live
  <2>2. [new EXCEPT !.version = v, !.status = st, !.cur = None] \in Row
    <3> HIDE DEF v, st
    <3> QED BY <1>1, <2>1 DEF Row
  <2> QED BY <1>3, <2>2 DEF Stamp
<1> QED BY <1>2, <1>3 DEF Stamp

\* The trigger writes version, status and current submission, nothing else.
LEMMA StampFields ==
    ASSUME NEW old \in Row, NEW new \in Row
    PROVE  LET row == Stamp(old, new) IN
           /\ row.claimer = new.claimer
           /\ row.contract = new.contract
           /\ row.scope = new.scope
           /\ row.src = new.src
           /\ row.version = NewVersion(old, new)
           /\ LeavesReview(old, new) => row.status \in {"todo", "in_progress"}
           /\ ~ LeavesReview(old, new) => row.status = new.status /\ row.cur = new.cur
  BY DEF Stamp, Row

\* The trigger moves the version by at most one, and by one whenever it bumps.
LEMMA VersionStep ==
    ASSUME NEW old \in Row, NEW new \in Row
    PROVE  /\ NewVersion(old, new) \in {old.version, old.version + 1}
           /\ NewVersion(old, new) = old.version => ~ Bumps(old, new)
           /\ ~ Bumps(old, new) => ~ LeavesReview(old, new)
  BY DEF NewVersion, Row, Bumps, LeavesReview

\* An INSERT of CreateTask or messageTask writes a row.
LEMMA NewRowType ==
    ASSUME NEW u \in Actors, NEW x \in Scopes, NEW c \in Contracts \cup {None},
           NEW a \in Actors \cup {None}, NEW p \in TaskIds \cup {None},
           NEW m \in Messages \cup {None}, NEW v \in Nat
    PROVE  NewRow(u, x, c, a, p, m, v) \in Row
  BY DEF NewRow, Row, Live

\* A task that was never created is a row too.
LEMMA NoRowType == NoRow \in Row
  BY TaskConstants DEF NoRow, Row

-----------------------------------------------------------------------------
(* The inductive invariant.                                                *)

\* History belongs to tasks that exist, and reviews to submissions that do.
HistoryHasOwner ==
    /\ \A s \in Subs : subs[s] # None => Exists(subs[s].task)
    /\ \A e \in events : Exists(e.task)
    /\ \A r \in reviews : subs[r.sub] # None

\* A submission that has its verdict is not under review again.
VerdictIsFinal ==
    \A r \in reviews, t \in TaskIds :
        r.decision \in {"accepted", "rejected"} =>
            ~ (tasks[t].contract # None /\ tasks[t].status = "in_review" /\ tasks[t].cur = r.sub)

\* What a pending edit read is still so, unless the version moved.
EditsReadTheirVersion ==
    \A h \in Handlers :
        req[h] # None /\ req[h].op = "update" =>
            LET q == req[h] IN
            /\ tasks[q.task].status # "absent"
            /\ q.contract # None => q.status \notin Terminal
            /\ Exists(q.task) =>
                 /\ q.version <= tasks[q.task].version
                 /\ q.version = tasks[q.task].version =>
                      /\ tasks[q.task].status = q.status
                      /\ tasks[q.task].contract # None => q.contract # None

BoardInv ==
    /\ ReviewShowsCurrentWork
    /\ DoneMeansAccepted
    /\ HistoryOlderThanRow
    /\ OneFinalVerdict
    /\ AgentReviewNotStranded
    /\ HistoryHasOwner
    /\ VerdictIsFinal

TaskInv == TypeOK /\ BoardInv /\ EditsReadTheirVersion

-----------------------------------------------------------------------------
(* Steps that write rows and no history.                                   *)

\* A write that neither enters review nor finishes a contract task.
Quiet(old, new) ==
    \/ new.contract = None
    \/ new.status \notin {"in_review", "done"}
    \/ LeavesReview(old, new)
    \/ ~ Bumps(old, new) /\ new.cur = old.cur

QuietRow(t) ==
    \/ tasks'[t] = tasks[t]
    \/ \E new \in Row : /\ Exists(t)
                        /\ new.status \in Live
                        /\ Quiet(tasks[t], new)
                        /\ tasks'[t] = Stamp(tasks[t], new)

\* What a quiet write can do to a row: it cannot bring a contract task into
\* review or done, and any visible change moves the version.
LEMMA QuietRowFacts ==
    ASSUME TypeOK, NEW t \in TaskIds, QuietRow(t)
    PROVE  /\ Exists(t) => tasks'[t].status \in Live
           /\ ~ Exists(t) => tasks'[t] = tasks[t]
           /\ tasks'[t].version \in {tasks[t].version, tasks[t].version + 1}
           /\ tasks'[t].version = tasks[t].version =>
                 /\ tasks'[t].status = tasks[t].status
                 /\ tasks'[t].contract = tasks[t].contract
           /\ \/ tasks'[t].contract = None
              \/ tasks'[t].status \notin {"in_review", "done"}
              \/ /\ tasks'[t].status = tasks[t].status
                 /\ tasks'[t].contract = tasks[t].contract
                 /\ tasks'[t].claimer = tasks[t].claimer
                 /\ tasks'[t].cur = tasks[t].cur
                 /\ tasks'[t].version = tasks[t].version
<1> tasks[t] \in Row
  BY DEF TypeOK
<1>1. CASE tasks'[t] = tasks[t]
  BY <1>1 DEF Exists, Row
<1>2. CASE tasks'[t] # tasks[t]
  <2> PICK new \in Row : /\ Exists(t)
                         /\ new.status \in Live
                         /\ Quiet(tasks[t], new)
                         /\ tasks'[t] = Stamp(tasks[t], new)
    BY <1>2 DEF QuietRow
  <2>1. /\ tasks'[t].claimer = new.claimer
        /\ tasks'[t].contract = new.contract
        /\ tasks'[t].version = NewVersion(tasks[t], new)
        /\ LeavesReview(tasks[t], new) => tasks'[t].status \in {"todo", "in_progress"}
        /\ ~ LeavesReview(tasks[t], new) =>
              tasks'[t].status = new.status /\ tasks'[t].cur = new.cur
    BY StampFields
  <2>2. /\ NewVersion(tasks[t], new) \in {tasks[t].version, tasks[t].version + 1}
        /\ NewVersion(tasks[t], new) = tasks[t].version => ~ Bumps(tasks[t], new)
        /\ ~ Bumps(tasks[t], new) => ~ LeavesReview(tasks[t], new)
    BY VersionStep
  <2>3. ~ Bumps(tasks[t], new) => /\ new.status = tasks[t].status
                                  /\ new.contract = tasks[t].contract
                                  /\ new.claimer = tasks[t].claimer
                                  /\ NewVersion(tasks[t], new) = tasks[t].version
    BY DEF Bumps, NewVersion
  <2> QED BY <2>1, <2>2, <2>3 DEF Quiet, Live
<1> QED BY <1>1, <1>2

\* Steps made of quiet writes preserve the invariants of the board.
LEMMA QuietStep ==
    ASSUME TypeOK, TypeOK', BoardInv, \A t \in TaskIds : QuietRow(t),
           UNCHANGED <<subs, reviews>>,
           \A s \in Subs : \/ deliv'[s] = deliv[s]
                           \/ /\ deliv[s] # None /\ deliv'[s] # None
                              /\ deliv'[s].reviewer = deliv[s].reviewer,
           \A e \in events' : \/ e \in events
                              \/ /\ e.task \in TaskIds /\ Exists(e.task)
                                 /\ e.version <= tasks'[e.task].version
    PROVE  BoardInv'
<1> DEFINE Same(t) == /\ tasks'[t].status = tasks[t].status
                      /\ tasks'[t].contract = tasks[t].contract
                      /\ tasks'[t].claimer = tasks[t].claimer
                      /\ tasks'[t].cur = tasks[t].cur
                      /\ tasks'[t].version = tasks[t].version
<1>1. \A t \in TaskIds : \/ tasks'[t].contract = None
                         \/ tasks'[t].status \notin {"in_review", "done"}
                         \/ Same(t)
  BY QuietRowFacts
<1>2. \A t \in TaskIds : /\ Exists(t) => tasks'[t].status \in Live
                         /\ tasks'[t].version \in {tasks[t].version, tasks[t].version + 1}
  BY QuietRowFacts
<1>3. \A s \in Subs : subs[s] # None => subs[s] \in Submission
  BY DEF TypeOK
<1>4. \A t \in TaskIds : tasks[t].version \in Nat /\ tasks[t].cur \in Subs \cup {None}
  BY DEF TypeOK, Row
<1>5. ReviewShowsCurrentWork'
  BY <1>1 DEF ReviewShowsCurrentWork, BoardInv
<1>6. DoneMeansAccepted'
  BY <1>1 DEF DoneMeansAccepted, BoardInv
<1>7. HistoryOlderThanRow'
  <2>1. \A s \in Subs : subs[s] # None => subs[s].version < tasks'[subs[s].task].version
    BY <1>2, <1>3, <1>4 DEF HistoryOlderThanRow, BoardInv, Submission
  <2>2. \A e \in events' : e.version <= tasks'[e.task].version
    BY <1>2, <1>4 DEF HistoryOlderThanRow, BoardInv, TypeOK, Event
  <2> QED BY <2>1, <2>2 DEF HistoryOlderThanRow, BoardInv
<1>8. OneFinalVerdict'
  BY DEF OneFinalVerdict, BoardInv
<1>9. AgentReviewNotStranded'
  BY <1>1, <1>4 DEF AgentReviewNotStranded, BoardInv, ReviewShowsCurrentWork
<1>10. HistoryHasOwner'
  BY <1>2, <1>3 DEF HistoryHasOwner, BoardInv, Exists, Submission, TypeOK, Event
<1>11. VerdictIsFinal'
  BY <1>1 DEF VerdictIsFinal, BoardInv
<1> QED BY <1>5, <1>6, <1>7, <1>8, <1>9, <1>10, <1>11 DEF BoardInv

\* Pending edits survive a quiet step.
LEMMA QuietEdits ==
    ASSUME TypeOK, EditsReadTheirVersion, \A t \in TaskIds : QuietRow(t),
           \A h \in Handlers : req'[h] = req[h] \/ req'[h] = None \/ req'[h].op # "update"
    PROVE  EditsReadTheirVersion'
<1> SUFFICES ASSUME NEW h \in Handlers, req'[h] # None, req'[h].op = "update"
             PROVE  LET q == req'[h] IN
                    /\ tasks'[q.task].status # "absent"
                    /\ q.contract # None => q.status \notin Terminal
                    /\ tasks'[q.task].status \in Live =>
                         /\ q.version <= tasks'[q.task].version
                         /\ q.version = tasks'[q.task].version =>
                              /\ tasks'[q.task].status = q.status
                              /\ tasks'[q.task].contract # None => q.contract # None
  BY DEF EditsReadTheirVersion, Exists
<1>1. req'[h] = req[h]
  OBVIOUS
<1> DEFINE q == req[h]
<1>2. q.task \in TaskIds /\ q.version \in Nat
  BY <1>1 DEF TypeOK, Request
<1>3. tasks[q.task].version \in Nat
  BY <1>2 DEF TypeOK, Row
<1>4. /\ Exists(q.task) => tasks'[q.task].status \in Live
      /\ ~ Exists(q.task) => tasks'[q.task] = tasks[q.task]
      /\ tasks'[q.task].version \in {tasks[q.task].version, tasks[q.task].version + 1}
      /\ tasks'[q.task].version = tasks[q.task].version =>
            /\ tasks'[q.task].status = tasks[q.task].status
            /\ tasks'[q.task].contract = tasks[q.task].contract
  BY <1>2, QuietRowFacts
<1>5. /\ tasks[q.task].status # "absent"
      /\ q.contract # None => q.status \notin Terminal
      /\ Exists(q.task) =>
           /\ q.version <= tasks[q.task].version
           /\ q.version = tasks[q.task].version =>
                /\ tasks[q.task].status = q.status
                /\ tasks[q.task].contract # None => q.contract # None
  BY <1>1 DEF EditsReadTheirVersion
<1> HIDE DEF q
<1> QED BY <1>1, <1>2, <1>3, <1>4, <1>5 DEF Exists, Live, Terminal, q

\* One UPDATE whose new row is quiet writes one row, quietly.
LEMMA UpdateIsQuiet ==
    ASSUME TypeOK, NEW t \in TaskIds, NEW new \in Row, new.status \in Live,
           Exists(t), Quiet(tasks[t], new), Update(t, new)
    PROVE  /\ \A x \in TaskIds : QuietRow(x)
           /\ tasks' \in [TaskIds -> Row]
<1>1. tasks \in [TaskIds -> Row] /\ tasks[t] \in Row
  BY DEF TypeOK
<1>2. tasks' = [tasks EXCEPT ![t] = Stamp(tasks[t], new)]
  BY DEF Update
<1>3. tasks' \in [TaskIds -> Row]
  BY <1>1, <1>2, StampType
<1>4. ASSUME NEW x \in TaskIds PROVE QuietRow(x)
  <2>1. CASE x = t
    BY <1>1, <1>2, <2>1 DEF QuietRow
  <2>2. CASE x # t
    BY <1>1, <1>2, <2>2 DEF QuietRow
  <2> QED BY <2>1, <2>2
<1> QED BY <1>3, <1>4

\* A step that leaves the rows alone is quiet.
LEMMA IdleIsQuiet ==
    ASSUME UNCHANGED tasks
    PROVE  \A x \in TaskIds : QuietRow(x)
  BY DEF QuietRow

\* The pattern of most operations: one quiet update, no new history.
LEMMA QuietOperation ==
    ASSUME TaskInv, \A x \in TaskIds : QuietRow(x), tasks' \in [TaskIds -> Row],
           UNCHANGED <<subs, reviews, deliv, events>>,
           req' \in [Handlers -> Request \cup {None}],
           \A h \in Handlers : req'[h] = req[h] \/ req'[h] = None \/ req'[h].op # "update"
    PROVE  TaskInv'
<1>1. TypeOK'
  BY DEF TaskInv, TypeOK
<1>2. BoardInv'
  BY <1>1, QuietStep DEF TaskInv
<1>3. EditsReadTheirVersion'
  BY QuietEdits DEF TaskInv
<1> QED BY <1>1, <1>2, <1>3 DEF TaskInv

-----------------------------------------------------------------------------
(* One lemma per operation.                                                *)

\* Changing claimer and status of a row gives a row.
LEMMA ReassignedRow ==
    ASSUME NEW row \in Row, NEW a \in Actors \cup {None}, NEW st \in Live
    PROVE  LET new == [row EXCEPT !.claimer = a, !.status = st] IN
           new \in Row /\ new.status = st
  BY DEF Row

\* A row without claimer, back in todo, is a row.
LEMMA ReleasedRow ==
    \A row \in Row : LET new == [row EXCEPT !.claimer = None, !.status = "todo"] IN
                     new \in Row /\ new.status = "todo"
<1>1. "todo" \in Live
  BY DEF Live
<1> QED BY <1>1, ReassignedRow

Edited(row, x, st, c) == [row EXCEPT !.scope = x, !.status = st, !.contract = c]

\* Changing scope, status and contract of a row gives a row.
LEMMA EditedRow ==
    ASSUME NEW row \in Row, NEW x \in Scopes, NEW st \in Live,
           NEW c \in Contracts \cup {None}
    PROVE  /\ Edited(row, x, st, c) \in Row
           /\ Edited(row, x, st, c).status = st
           /\ Edited(row, x, st, c).contract = c
           /\ Edited(row, x, st, c).scope = x
           /\ Edited(row, x, st, c).claimer = row.claimer
           /\ Edited(row, x, st, c).cur = row.cur
  BY DEF Row, Edited

\* claimTaskTx preserves the invariant.
LEMMA StepClaimTask ==
    ASSUME TaskInv, NEW t \in TaskIds, NEW u \in Actors, ClaimTask(t, u)
    PROVE  TaskInv'
<1> DEFINE new == [tasks[t] EXCEPT !.claimer = u, !.status = "in_progress"]
<1>1. tasks[t] \in Row /\ new \in Row /\ new.status = "in_progress"
  BY DEF TaskInv, TypeOK, Row, Live
<1>2. Exists(t) /\ Update(t, new)
  BY DEF ClaimTask, Exists, Live
<1>3. (\A x \in TaskIds : QuietRow(x)) /\ tasks' \in [TaskIds -> Row]
  BY <1>1, <1>2, UpdateIsQuiet DEF Quiet, Live, TaskInv
<1>4. TypeOK'
  BY <1>3 DEF ClaimTask, TaskInv, TypeOK, Event, Row
<1>5. \A e \in events' : \/ e \in events
                         \/ e.task = t /\ e.version = tasks'[t].version
  BY DEF ClaimTask
<1>6. tasks'[t].version \in Nat
  BY <1>3 DEF Row
<1>7. BoardInv'
  BY <1>2, <1>3, <1>4, <1>5, <1>6, QuietStep DEF ClaimTask, TaskInv
<1>8. EditsReadTheirVersion'
  BY <1>3, QuietEdits DEF ClaimTask, TaskInv
<1> QED BY <1>4, <1>7, <1>8 DEF TaskInv

\* The unconditional UPDATE of UnclaimTask preserves the invariant.
LEMMA StepUnclaimWrite ==
    ASSUME TaskInv, NEW h \in Handlers, UnclaimWrite(h)
    PROVE  TaskInv'
<1> DEFINE t == req[h].task
           new == [tasks[t] EXCEPT !.claimer = None, !.status = "todo"]
<1>1. t \in TaskIds
  BY DEF UnclaimWrite, TaskInv, TypeOK, Request
<1>2. tasks[t] \in Row /\ new \in Row /\ new.status = "todo"
  <2>1. tasks[t] \in Row /\ "todo" \in Live
    BY <1>1 DEF TaskInv, TypeOK, Live
  <2> QED BY <2>1, ReleasedRow
<1>3. (\A x \in TaskIds : QuietRow(x)) /\ tasks' \in [TaskIds -> Row]
  <2>1. CASE Exists(t)
    <3>1. Update(t, new)
      BY <2>1 DEF UnclaimWrite
    <3> QED BY <1>1, <1>2, <2>1, <3>1, UpdateIsQuiet DEF Quiet, Live, TaskInv
  <2>2. CASE ~ Exists(t)
    BY <2>2, IdleIsQuiet DEF UnclaimWrite, TaskInv, TypeOK
  <2> QED BY <2>1, <2>2
<1> QED BY <1>3, QuietOperation DEF UnclaimWrite, TaskInv, TypeOK

\* Releasing the tasks of an agent preserves the invariant.
LEMMA StepReleaseAgent ==
    ASSUME TaskInv, NEW a \in Agents, ReleaseAgent(a)
    PROVE  TaskInv'
<1>1. ASSUME NEW x \in TaskIds PROVE QuietRow(x) /\ tasks'[x] \in Row
  <2> DEFINE new == [tasks[x] EXCEPT !.claimer = None, !.status = "todo"]
  <2>1. tasks[x] \in Row /\ new \in Row /\ new.status = "todo"
    BY DEF TaskInv, TypeOK, Row, Live
  <2>2. tasks'[x] = Released(x, a)
    BY DEF ReleaseAgent
  <2>3. CASE tasks'[x] = tasks[x]
    BY <2>1, <2>3 DEF QuietRow
  <2>4. CASE tasks'[x] # tasks[x]
    <3>1. Exists(x) /\ tasks'[x] = Stamp(tasks[x], new)
      BY <2>2, <2>4 DEF Released, Exists, Live
    <3>2. tasks'[x] \in Row
      BY <2>1, <3>1, StampType
    <3> QED BY <2>1, <3>1, <3>2 DEF QuietRow, Quiet, Live
  <2> QED BY <2>3, <2>4
<1>2. tasks' \in [TaskIds -> Row]
  BY <1>1 DEF ReleaseAgent
<1> QED BY <1>1, <1>2, QuietOperation DEF ReleaseAgent, TaskInv, TypeOK

\* SubmitTask, ReviewTask and AutomationComplete act on tasks without contract.
LEMMA NoContractUpdate ==
    ASSUME TaskInv, NEW t \in TaskIds, NEW st \in Live, Exists(t),
           tasks[t].contract = None,
           Update(t, [tasks[t] EXCEPT !.status = st]),
           UNCHANGED <<subs, reviews, deliv, events, req>>
    PROVE  TaskInv'
<1> DEFINE new == [tasks[t] EXCEPT !.status = st]
<1>1. tasks[t] \in Row /\ new \in Row /\ new.status = st /\ new.contract = None
  BY DEF TaskInv, TypeOK, Row
<1>2. (\A x \in TaskIds : QuietRow(x)) /\ tasks' \in [TaskIds -> Row]
  BY <1>1, UpdateIsQuiet DEF Quiet, TaskInv
<1> QED BY <1>2, QuietOperation DEF TaskInv, TypeOK

\* SubmitTask preserves the invariant.
LEMMA StepSubmitTask ==
    ASSUME TaskInv, NEW t \in TaskIds, NEW u \in Actors, SubmitTask(t, u)
    PROVE  TaskInv'
  BY NoContractUpdate DEF SubmitTask, Exists, Live

\* AcceptTask and RejectTask preserve the invariant.
LEMMA StepReviewTask ==
    ASSUME TaskInv, NEW t \in TaskIds, NEW u \in Actors,
           NEW v \in {"accepted", "rejected"}, ReviewTask(t, u, v)
    PROVE  TaskInv'
<1> DEFINE st == IF v = "accepted" THEN "done" ELSE "in_progress"
<1>1. st \in Live
  BY DEF Live, Terminal
<1>2. Update(t, [tasks[t] EXCEPT !.status = st])
  BY DEF ReviewTask
<1> HIDE DEF st
<1> QED BY <1>1, <1>2, NoContractUpdate DEF ReviewTask, Exists, Live

\* updateCompletedAutomationTask preserves the invariant.
LEMMA StepAutomationComplete ==
    ASSUME TaskInv, NEW t \in TaskIds, NEW st \in {"done", "in_review"},
           AutomationComplete(t, st)
    PROVE  TaskInv'
<1>1. st \in Live /\ Exists(t)
  BY DEF Live, Terminal, AutomationComplete, Exists
<1> QED BY <1>1, NoContractUpdate DEF AutomationComplete

\* failDispatchedTask and dispatchSelectionTask preserve the invariant.
LEMMA StepBackgroundClose ==
    ASSUME TaskInv, NEW t \in TaskIds, BackgroundClose(t)
    PROVE  TaskInv'
<1> DEFINE new == [tasks[t] EXCEPT !.status = "closed"]
<1>1. tasks[t] \in Row /\ new \in Row /\ new.status = "closed"
  BY DEF TaskInv, TypeOK, Row, Live, Terminal
<1>2. Exists(t) /\ Update(t, new)
  BY DEF BackgroundClose, Exists, Live
<1>3. (\A x \in TaskIds : QuietRow(x)) /\ tasks' \in [TaskIds -> Row]
  BY <1>1, <1>2, UpdateIsQuiet DEF Quiet, TaskInv, Live, Terminal
<1> QED BY <1>3, QuietOperation DEF BackgroundClose, TaskInv, TypeOK

\* retryTaskRun giving a task up preserves the invariant.
LEMMA StepRetryReturn ==
    ASSUME TaskInv, NEW t \in TaskIds, NEW a \in Agents, RetryReturn(t, a)
    PROVE  TaskInv'
<1> DEFINE new == [tasks[t] EXCEPT !.claimer = None, !.status = "todo"]
<1>1. tasks[t] \in Row /\ new \in Row /\ new.status = "todo"
  BY DEF TaskInv, TypeOK, Row, Live
<1>2. Exists(t) /\ Update(t, new)
  BY DEF RetryReturn, Exists, Live
<1>3. (\A x \in TaskIds : QuietRow(x)) /\ tasks' \in [TaskIds -> Row]
  BY <1>1, <1>2, UpdateIsQuiet DEF Quiet, Live, TaskInv
<1> QED BY <1>3, QuietOperation DEF RetryReturn, TaskInv, TypeOK

\* retryTaskRun giving a task back to its agent preserves the invariant.
LEMMA StepRetryClaim ==
    ASSUME TaskInv, NEW h \in Handlers, NEW t \in TaskIds, NEW a \in Agents,
           RetryClaim(h, t, a)
    PROVE  TaskInv'
<1> DEFINE new == [tasks[t] EXCEPT !.claimer = a, !.status = "in_progress"]
<1>1. tasks[t] \in Row /\ new \in Row /\ new.status = "in_progress"
  BY DEF TaskInv, TypeOK, Row, Live, Actors
<1>2. Exists(t) /\ Update(t, new)
  BY DEF RetryClaim, Exists, Live
<1>3. (\A x \in TaskIds : QuietRow(x)) /\ tasks' \in [TaskIds -> Row]
  BY <1>1, <1>2, UpdateIsQuiet DEF Quiet, Live, TaskInv
<1>4. req' = [req EXCEPT ![h] = [op |-> "retry", task |-> t, actor |-> a]]
  BY DEF RetryClaim
<1>5. [op |-> "retry", task |-> t, actor |-> a] \in Request
  BY DEF Request
<1>6. req' \in [Handlers -> Request \cup {None}]
  BY <1>4, <1>5 DEF TaskInv, TypeOK
<1>7. \A g \in Handlers : req'[g] = req[g] \/ req'[g] = None \/ req'[g].op # "update"
  BY <1>4 DEF TaskInv, TypeOK
<1> QED BY <1>3, <1>6, <1>7, QuietOperation DEF RetryClaim

\* The undo of retryTaskRun preserves the invariant.
LEMMA StepRetryRollback ==
    ASSUME TaskInv, NEW h \in Handlers, RetryRollback(h)
    PROVE  TaskInv'
<1> DEFINE t == req[h].task
           new == [tasks[t] EXCEPT !.claimer = None, !.status = "todo"]
<1>1. t \in TaskIds
  BY DEF RetryRollback, TaskInv, TypeOK, Request
<1>2. tasks[t] \in Row /\ new \in Row /\ new.status = "todo"
  <2>1. tasks[t] \in Row /\ "todo" \in Live
    BY <1>1 DEF TaskInv, TypeOK, Live
  <2> QED BY <2>1, ReleasedRow
<1>3. (\A x \in TaskIds : QuietRow(x)) /\ tasks' \in [TaskIds -> Row]
  <2>1. CASE Exists(t) /\ tasks[t].claimer = req[h].actor
    <3>1. Update(t, new)
      BY <2>1 DEF RetryRollback
    <3> QED BY <1>1, <1>2, <2>1, <3>1, UpdateIsQuiet DEF Quiet, Live, TaskInv
  <2>2. CASE ~ (Exists(t) /\ tasks[t].claimer = req[h].actor)
    BY <2>2, IdleIsQuiet DEF RetryRollback, TaskInv, TypeOK
  <2> QED BY <2>1, <2>2
<1> QED BY <1>3, QuietOperation DEF RetryRollback, TaskInv, TypeOK

\* The unconditional UPDATE of setTaskStatus preserves the invariant.
LEMMA StepSetTaskStatus ==
    ASSUME TaskInv, NEW h \in Handlers, SetTaskStatus(h)
    PROVE  TaskInv'
<1> DEFINE t == req[h].task
           st == IF req[h].op = "close" THEN "closed" ELSE "todo"
           new == [tasks[t] EXCEPT !.status = st]
<1>1. t \in TaskIds
  BY DEF SetTaskStatus, TaskInv, TypeOK, Request
<1>2. st \in Live /\ st \notin {"in_review", "done"}
  BY DEF Live, Terminal
<1>3. tasks[t] \in Row /\ new \in Row /\ new.status = st
  BY <1>1, <1>2 DEF TaskInv, TypeOK, Row
<1>4. (\A x \in TaskIds : QuietRow(x)) /\ tasks' \in [TaskIds -> Row]
  <2>1. CASE Exists(t)
    <3>1. Update(t, new)
      BY <2>1 DEF SetTaskStatus
    <3> QED BY <1>1, <1>2, <1>3, <2>1, <3>1, UpdateIsQuiet DEF Quiet, TaskInv
  <2>2. CASE ~ Exists(t)
    BY <2>2, IdleIsQuiet DEF SetTaskStatus, TaskInv, TypeOK
  <2> QED BY <2>1, <2>2
<1> QED BY <1>4, QuietOperation DEF SetTaskStatus, TaskInv, TypeOK

\* CreateTask, ConvertMessageToTask and ClaimMessageTask insert a row that is
\* neither in review nor finished, where there was none.
LEMMA InsertedRow ==
    ASSUME TaskInv, NEW t \in TaskIds, tasks[t].status = "absent", NEW row \in Row,
           row.status \in {"todo", "in_progress"},
           tasks' = [tasks EXCEPT ![t] = row],
           UNCHANGED <<subs, reviews, deliv, req>>,
           events' \subseteq Event,
           \A e \in events' : e \in events \/ (e.task = t /\ e.version <= row.version)
    PROVE  TaskInv'
<1>1. TypeOK'
  BY DEF TaskInv, TypeOK
<1>2. tasks'[t] = row /\ \A x \in TaskIds : x # t => tasks'[x] = tasks[x]
  BY DEF TaskInv, TypeOK
<1>3. ~ Exists(t) /\ row.status \in Live
  BY DEF Exists, Live, Terminal
<1>4. \A s \in Subs : subs[s] # None => subs[s].task \in TaskIds /\ subs[s].task # t
  BY <1>3 DEF TaskInv, TypeOK, BoardInv, HistoryHasOwner, Submission
<1>5. \A e \in events : e.task \in TaskIds /\ e.task # t
  BY <1>3 DEF TaskInv, TypeOK, BoardInv, HistoryHasOwner, Event
<1>6. ReviewShowsCurrentWork'
  BY <1>2 DEF ReviewShowsCurrentWork, BoardInv, TaskInv
<1>7. DoneMeansAccepted'
  BY <1>2 DEF DoneMeansAccepted, BoardInv, TaskInv
<1>8. HistoryOlderThanRow'
  BY <1>2, <1>4, <1>5 DEF HistoryOlderThanRow, BoardInv, TaskInv
<1>9. OneFinalVerdict'
  BY DEF OneFinalVerdict, BoardInv, TaskInv
<1>10. AgentReviewNotStranded'
  BY <1>2 DEF AgentReviewNotStranded, BoardInv, TaskInv
<1>11. HistoryHasOwner'
  BY <1>2, <1>3, <1>4, <1>5 DEF HistoryHasOwner, BoardInv, TaskInv, Exists
<1>12. VerdictIsFinal'
  BY <1>2 DEF VerdictIsFinal, BoardInv, TaskInv
<1>13. EditsReadTheirVersion'
  <2>1. \A h \in Handlers : req[h] # None /\ req[h].op = "update" =>
            req[h].task \in TaskIds /\ req[h].task # t
    BY DEF TaskInv, EditsReadTheirVersion, TypeOK, Request
  <2> QED BY <1>2, <2>1 DEF EditsReadTheirVersion, TaskInv, Exists
<1> QED BY <1>1, <1>6, <1>7, <1>8, <1>9, <1>10, <1>11, <1>12, <1>13 DEF TaskInv, BoardInv

\* CreateTask preserves the invariant.
LEMMA StepCreateTask ==
    ASSUME TaskInv, NEW t \in TaskIds, NEW u \in Actors, NEW x \in Scopes,
           NEW c \in Contracts \cup {None}, NEW a \in Actors \cup {None},
           NEW p \in TaskIds \cup {None}, NEW m \in Messages \cup {None},
           CreateTask(t, u, x, c, a, p, m)
    PROVE  TaskInv'
<1> DEFINE row == NewRow(u, x, c, a, p, m, 1)
<1>1. row \in Row
  BY NewRowType
<1>2. row.status \in {"todo", "in_progress"} /\ row.version = 1
  BY DEF NewRow
<1>3. a # None => [task |-> t, version |-> 1, assignee |-> a] \in Event
  BY DEF Event
<1>4. events' \subseteq Event
  BY <1>3 DEF CreateTask, TaskInv, TypeOK
<1>5. \A e \in events' : e \in events \/ (e.task = t /\ e.version <= row.version)
  BY <1>2 DEF CreateTask
<1>6. /\ tasks[t].status = "absent"
      /\ tasks' = [tasks EXCEPT ![t] = row]
      /\ UNCHANGED <<subs, reviews, deliv, req>>
  BY DEF CreateTask
<1> HIDE DEF row
<1> QED BY <1>1, <1>2, <1>4, <1>5, <1>6, InsertedRow

\* ConvertMessageToTask preserves the invariant.
LEMMA StepConvertMessageToTask ==
    ASSUME TaskInv, NEW t \in TaskIds, NEW u \in Actors, NEW x \in Scopes,
           NEW m \in Messages, ConvertMessageToTask(t, u, x, m)
    PROVE  TaskInv'
<1> DEFINE row == NewRow(u, x, None, None, None, m, 1)
<1>1. row \in Row
  BY NewRowType
<1>2. row.status \in {"todo", "in_progress"}
  BY DEF NewRow
<1>3. /\ tasks[t].status = "absent"
      /\ tasks' = [tasks EXCEPT ![t] = row]
      /\ UNCHANGED <<subs, reviews, deliv, events, req>>
  BY DEF ConvertMessageToTask
<1>4. events' \subseteq Event
  BY <1>3 DEF TaskInv, TypeOK
<1> HIDE DEF row
<1> QED BY <1>1, <1>2, <1>3, <1>4, InsertedRow

\* ClaimMessageTask preserves the invariant.
LEMMA StepClaimMessageTask ==
    ASSUME TaskInv, NEW t \in TaskIds, NEW u \in Actors, NEW x \in Scopes,
           NEW m \in Messages, NEW c \in Contracts \cup {None},
           ClaimMessageTask(t, u, x, m, c)
    PROVE  TaskInv'
<1> DEFINE row == NewRow(Sender[m], x, c, u, None, m, 2)
<1>1. row \in Row
  BY NewRowType, TaskConstants
<1>2. row.status \in {"todo", "in_progress"} /\ row.version = 2
  BY DEF NewRow
<1>3. /\ tasks[t].status = "absent"
      /\ tasks' = [tasks EXCEPT ![t] = row]
      /\ UNCHANGED <<subs, reviews, deliv, req>>
      /\ events' = events \cup {[task |-> t, version |-> 2, assignee |-> u]}
  BY DEF ClaimMessageTask
<1>4. events' \subseteq Event
  BY <1>3 DEF TaskInv, TypeOK, Event
<1>5. \A e \in events' : e \in events \/ (e.task = t /\ e.version <= row.version)
  BY <1>2, <1>3
<1> HIDE DEF row
<1> QED BY <1>1, <1>2, <1>3, <1>4, <1>5, InsertedRow

\* A read that leaves a request other than an edit preserves the invariant.
LEMMA StepBegin ==
    ASSUME TaskInv, NEW h \in Handlers, NEW r \in Request, r.op # "update", Begin(h, r)
    PROVE  TaskInv'
<1>1. (\A x \in TaskIds : QuietRow(x)) /\ tasks' \in [TaskIds -> Row]
  BY IdleIsQuiet DEF Begin, TaskInv, TypeOK
<1>2. req' \in [Handlers -> Request \cup {None}]
  BY DEF Begin, TaskInv, TypeOK
<1>3. \A g \in Handlers : req'[g] = req[g] \/ req'[g] = None \/ req'[g].op # "update"
  BY DEF Begin, TaskInv, TypeOK
<1> QED BY <1>1, <1>2, <1>3, QuietOperation DEF Begin

\* The reads of UnclaimTask, CloseTask and ReopenTask preserve the invariant.
LEMMA StepReads ==
    ASSUME TaskInv, NEW h \in Handlers, NEW t \in TaskIds, NEW u \in Actors,
           UnclaimRead(h, t, u) \/ CloseRead(h, t, u) \/ ReopenRead(h, t, u)
    PROVE  TaskInv'
<1> DEFINE r(op) == [op |-> op, task |-> t, actor |-> u]
<1>1. \A op \in {"unclaim", "close", "reopen"} : r(op) \in Request /\ r(op).op # "update"
  BY DEF Request
<1>2. \E op \in {"unclaim", "close", "reopen"} : Begin(h, r(op))
  BY DEF UnclaimRead, CloseRead, ReopenRead
<1> HIDE DEF r
<1> QED BY <1>1, <1>2, StepBegin

\* A request that is given up preserves the invariant.
LEMMA StepAbandon ==
    ASSUME TaskInv, NEW h \in Handlers, Abandon(h)
    PROVE  TaskInv'
<1>1. (\A x \in TaskIds : QuietRow(x)) /\ tasks' \in [TaskIds -> Row]
  BY IdleIsQuiet DEF Abandon, TaskInv, TypeOK
<1> QED BY <1>1, QuietOperation DEF Abandon, TaskInv, TypeOK

\* The read of UpdateTask preserves the invariant.
LEMMA StepUpdateRead ==
    ASSUME TaskInv, NEW h \in Handlers, NEW t \in TaskIds, NEW u \in Actors,
           NEW x \in Scopes, NEW c \in Contracts \cup {None}, UpdateRead(h, t, u, x, c)
    PROVE  TaskInv'
<1> DEFINE k == IF c = None THEN tasks[t].contract ELSE c
           q == [op |-> "update", task |-> t, actor |-> u,
                 version |-> tasks[t].version, status |-> tasks[t].status,
                 scope |-> x, contract |-> k]
<1>1. tasks[t] \in Row /\ tasks[t].version \in Nat
  BY DEF TaskInv, TypeOK, Row
<1>2. k \in Contracts \cup {None} /\ tasks[t].status \in Live
  BY <1>1 DEF UpdateRead, Exists, Row
<1>3. q \in Request
  BY <1>1, <1>2 DEF Request
<1>4. req' = [req EXCEPT ![h] = q] /\ UNCHANGED <<tasks, subs, reviews, deliv, events>>
  BY DEF UpdateRead, Begin
<1>5. TypeOK'
  BY <1>3, <1>4 DEF TaskInv, TypeOK
<1>6. BoardInv'
  BY <1>4, <1>5, IdleIsQuiet, QuietStep DEF TaskInv
<1>7. EditsReadTheirVersion'
  <2>1. k # None => tasks[t].status \notin Terminal
    BY DEF UpdateRead, MayEdit
  <2>2. tasks[t].contract # None => k # None
    BY TaskConstants
  <2>3. tasks[t].status # "absent"
    BY <1>2 DEF Live, Terminal
  <2>4. \A g \in Handlers : g # h => req'[g] = req[g]
    BY <1>4 DEF TaskInv, TypeOK
  <2>5. req'[h] = q
    BY <1>4 DEF TaskInv, TypeOK
  <2> HIDE DEF k
  <2> QED BY <1>1, <1>4, <2>1, <2>2, <2>3, <2>4, <2>5 DEF EditsReadTheirVersion, TaskInv, Exists
<1> QED BY <1>5, <1>6, <1>7 DEF TaskInv

\* The conditional UPDATE of UpdateTask preserves the invariant: the status it
\* writes back is the one the row still has.
LEMMA StepUpdateWrite ==
    ASSUME TaskInv, NEW h \in Handlers, UpdateWrite(h)
    PROVE  TaskInv'
<1> DEFINE q == req[h]
           t == q.task
           new == [tasks[t] EXCEPT !.scope = q.scope, !.status = q.status,
                                   !.contract = q.contract]
<1>1. /\ t \in TaskIds /\ q.scope \in Scopes /\ q.status \in Live
      /\ q.contract \in Contracts \cup {None}
  BY DEF UpdateWrite, TaskInv, TypeOK, Request
<1>2. tasks[t] \in Row
  BY <1>1 DEF TaskInv, TypeOK
<1>3. (\A x \in TaskIds : QuietRow(x)) /\ tasks' \in [TaskIds -> Row]
  <2>1. CASE Exists(t) /\ tasks[t].version = q.version
    <3>1. Update(t, new)
      BY <2>1 DEF UpdateWrite
    <3>2. /\ tasks[t].status = q.status
          /\ q.contract # None => q.status \notin Terminal
      BY <2>1 DEF UpdateWrite, TaskInv, EditsReadTheirVersion
    <3>3. /\ new \in Row
          /\ new.status = q.status /\ new.contract = q.contract /\ new.scope = q.scope
          /\ new.claimer = tasks[t].claimer /\ new.cur = tasks[t].cur
      <4>1. new = Edited(tasks[t], q.scope, q.status, q.contract)
        BY DEF Edited
      <4> HIDE DEF q, t, new
      <4> QED BY <1>1, <1>2, <4>1, EditedRow
    <3>4. Quiet(tasks[t], new)
      <4>1. CASE q.contract # None /\ q.status = "in_review"
        <5>1. CASE q.scope = tasks[t].scope /\ q.contract = tasks[t].contract
          <6>1. ~ Bumps(tasks[t], new) /\ new.cur = tasks[t].cur
            <7> HIDE DEF new, q, t
            <7> QED BY <3>2, <3>3, <5>1 DEF Bumps
          <6> QED BY <6>1 DEF Quiet
        <5>2. CASE ~ (q.scope = tasks[t].scope /\ q.contract = tasks[t].contract)
          <6> HIDE DEF new, q, t
          <6> QED BY <3>2, <3>3, <4>1, <5>2 DEF Quiet, LeavesReview
        <5> QED BY <5>1, <5>2
      <4>2. CASE ~ (q.contract # None /\ q.status = "in_review")
        <5> HIDE DEF new, q, t
        <5> QED BY <3>2, <3>3, <4>2 DEF Quiet, Terminal
      <4> QED BY <4>1, <4>2
    <3> HIDE DEF new
    <3> QED BY <1>1, <2>1, <3>1, <3>3, <3>4, UpdateIsQuiet DEF TaskInv
  <2>2. CASE ~ (Exists(t) /\ tasks[t].version = q.version)
    BY <2>2, IdleIsQuiet DEF UpdateWrite, TaskInv, TypeOK
  <2> QED BY <2>1, <2>2
<1> QED BY <1>3, QuietOperation DEF UpdateWrite, TaskInv, TypeOK

-----------------------------------------------------------------------------
(* The dispatcher.                                                         *)

\* dispatchTaskReview preserves the invariant.
LEMMA StepDispatchTaskReview ==
    ASSUME TaskInv, NEW s \in Subs, NEW started \in BOOLEAN,
           DispatchTaskReview(s, started)
    PROVE  TaskInv'
<1> DEFINE d == CountAttempt(deliv[s], started)
<1>1. deliv[s] # None /\ deliv[s] \in Delivery
  BY DEF DispatchTaskReview, TaskInv, TypeOK
<1>2. deliv[s].attempts + 1 \in 0 .. MaxReviewAttempts
  BY <1>1 DEF DispatchTaskReview, AttemptsLeft, Delivery, MaxReviewAttempts
<1>3. d \in Delivery /\ d.reviewer = deliv[s].reviewer
  BY <1>1, <1>2 DEF CountAttempt, Delivery
<1>4. d # None
  BY <1>3, RowsAreNotNull
<1>5. UNCHANGED <<tasks, subs, reviews, events, req>> /\ deliv' = [deliv EXCEPT ![s] = d]
  BY DEF DispatchTaskReview
<1> HIDE DEF d
<1>6. TypeOK'
  BY <1>3, <1>5 DEF TaskInv, TypeOK
<1>7. \A x \in Subs : \/ deliv'[x] = deliv[x]
                      \/ /\ deliv[x] # None /\ deliv'[x] # None
                         /\ deliv'[x].reviewer = deliv[x].reviewer
  BY <1>1, <1>3, <1>4, <1>5 DEF TaskInv, TypeOK
<1> QED BY <1>5, <1>6, <1>7, IdleIsQuiet, QuietStep, QuietEdits DEF TaskInv

\* The end of a review run preserves the invariant.
LEMMA StepFinishReviewRun ==
    ASSUME TaskInv, NEW s \in Subs, FinishReviewRun(s)
    PROVE  TaskInv'
<1> DEFINE d == [deliv[s] EXCEPT !.run = "ended"]
<1>1. deliv[s] # None /\ deliv[s] \in Delivery
  BY DEF FinishReviewRun, TaskInv, TypeOK
<1>2. d \in Delivery /\ d.reviewer = deliv[s].reviewer
  BY <1>1 DEF Delivery
<1>3. d # None
  BY <1>2, RowsAreNotNull
<1>4. UNCHANGED <<tasks, subs, reviews, events, req>> /\ deliv' = [deliv EXCEPT ![s] = d]
  BY DEF FinishReviewRun
<1> HIDE DEF d
<1>5. TypeOK'
  BY <1>2, <1>4 DEF TaskInv, TypeOK
<1>6. \A x \in Subs : \/ deliv'[x] = deliv[x]
                      \/ /\ deliv[x] # None /\ deliv'[x] # None
                         /\ deliv'[x].reviewer = deliv[x].reviewer
  BY <1>1, <1>2, <1>3, <1>4 DEF TaskInv, TypeOK
<1> QED BY <1>4, <1>5, <1>6, IdleIsQuiet, QuietStep, QuietEdits DEF TaskInv

-----------------------------------------------------------------------------
(* Deliveries and their reviews: the steps that are not quiet.             *)

\* A submitted row is a row.
LEMMA SubmittedRow ==
    ASSUME NEW row \in Row, NEW s \in Subs
    PROVE  LET new == [row EXCEPT !.status = "in_review", !.cur = s] IN
           /\ new \in Row
           /\ new.status = "in_review" /\ new.cur = s
           /\ new.contract = row.contract /\ new.scope = row.scope
           /\ new.claimer = row.claimer
  BY DEF Row, Live

\* The row SubmitDelivery leaves behind.
LEMMA RowAfterSubmit ==
    ASSUME TypeOK, NEW t \in TaskIds, NEW u \in Actors, NEW s \in Subs,
           SubmitDelivery(t, u, s)
    PROVE  /\ tasks' \in [TaskIds -> Row]
           /\ \A x \in TaskIds : x # t => tasks'[x] = tasks[x]
           /\ tasks'[t].status = "in_review"
           /\ tasks'[t].cur = s
           /\ tasks'[t].contract = tasks[t].contract
           /\ tasks'[t].claimer = tasks[t].claimer
           /\ tasks'[t].version = tasks[t].version + 1
<1> DEFINE new == [tasks[t] EXCEPT !.status = "in_review", !.cur = s]
<1>1. tasks \in [TaskIds -> Row] /\ tasks[t] \in Row
  BY DEF TypeOK
<1>2. /\ new \in Row
      /\ new.status = "in_review" /\ new.cur = s
      /\ new.contract = tasks[t].contract /\ new.scope = tasks[t].scope
      /\ new.claimer = tasks[t].claimer
  BY <1>1, SubmittedRow
<1>3. tasks[t].status = "in_progress" /\ tasks' = [tasks EXCEPT ![t] = Stamp(tasks[t], new)]
  BY DEF SubmitDelivery, Update
<1> HIDE DEF new
<1>4. ~ LeavesReview(tasks[t], new) /\ NewVersion(tasks[t], new) = tasks[t].version + 1
  BY <1>2, <1>3 DEF LeavesReview, NewVersion, Bumps
<1>5. Stamp(tasks[t], new) \in Row
  BY <1>1, <1>2, StampType
<1>6. tasks'[t] = Stamp(tasks[t], new) /\ \A x \in TaskIds : x # t => tasks'[x] = tasks[x]
  BY <1>1, <1>3
<1>7. tasks' \in [TaskIds -> Row]
  BY <1>1, <1>3, <1>5
<1> QED BY <1>1, <1>2, <1>4, <1>6, <1>7, StampFields

\* SubmitDelivery preserves the invariant.
LEMMA StepSubmitDelivery ==
    ASSUME TaskInv, NEW t \in TaskIds, NEW u \in Actors, NEW s \in Subs,
           SubmitDelivery(t, u, s)
    PROVE  TaskInv'
<1> DEFINE c == tasks[t].contract
           sb == [task |-> t, by |-> u, contract |-> c, version |-> tasks[t].version]
           dl == [reviewer |-> c.reviewer, attempts |-> 0, run |-> "none"]
<1>1. /\ tasks[t].status = "in_progress" /\ c # None /\ tasks[t].claimer = u
      /\ subs[s] = None /\ subs' = [subs EXCEPT ![s] = sb]
      /\ UNCHANGED <<reviews, events, req>>
      /\ deliv' = IF QueuesReview(c) THEN [deliv EXCEPT ![s] = dl] ELSE deliv
  BY DEF SubmitDelivery
<1>2. /\ tasks' \in [TaskIds -> Row]
      /\ \A x \in TaskIds : x # t => tasks'[x] = tasks[x]
      /\ tasks'[t].status = "in_review"
      /\ tasks'[t].cur = s
      /\ tasks'[t].contract = c
      /\ tasks'[t].claimer = tasks[t].claimer
      /\ tasks'[t].version = tasks[t].version + 1
  BY RowAfterSubmit DEF TaskInv
<1>3. tasks[t].version \in Nat /\ c \in Contracts
  BY <1>1 DEF TaskInv, TypeOK, Row
<1>4. sb \in Submission /\ sb # None
  BY <1>3, RowsAreNotNull DEF Submission
<1>5. c.reviewer \in Actors /\ c.kind \in GateKinds
  BY <1>3, TaskConstants DEF Contract
<1>6. dl \in Delivery /\ dl # None
  BY <1>5, RowsAreNotNull DEF Delivery, MaxReviewAttempts
<1>7. /\ subs'[s] = sb /\ \A x \in Subs : x # s => subs'[x] = subs[x]
      /\ QueuesReview(c) => deliv'[s] = dl
      /\ \A x \in Subs : x # s => deliv'[x] = deliv[x]
  BY <1>1 DEF TaskInv, TypeOK
<1>8. TypeOK'
  BY <1>1, <1>2, <1>4, <1>6 DEF TaskInv, TypeOK
<1>9. sb.task = t /\ sb.by = u /\ sb.contract = c /\ sb.version = tasks[t].version
  OBVIOUS
<1>10. dl.reviewer = c.reviewer
  OBVIOUS
<1> HIDE DEF c, sb, dl
<1>11. \A r \in reviews : r.sub \in Subs /\ r.sub # s
  BY <1>1 DEF TaskInv, TypeOK, BoardInv, HistoryHasOwner, Review
<1>12. \A x \in Subs : subs[x] # None =>
          /\ x # s /\ subs[x].task \in TaskIds /\ subs[x].version \in Nat
          /\ Exists(subs[x].task)
          /\ subs[x].version < tasks[subs[x].task].version
  BY <1>1 DEF TaskInv, TypeOK, BoardInv, HistoryHasOwner, HistoryOlderThanRow, Submission
<1>13. \A x \in TaskIds : x # t /\ tasks[x].cur # None => tasks[x].cur \in Subs
  BY DEF TaskInv, TypeOK, Row
<1>14. ReviewShowsCurrentWork'
  <2> SUFFICES ASSUME NEW x \in TaskIds, tasks'[x].contract # None,
                      tasks'[x].status = "in_review"
               PROVE  /\ tasks'[x].cur # None
                      /\ subs'[tasks'[x].cur] # None
                      /\ subs'[tasks'[x].cur].task = x
                      /\ subs'[tasks'[x].cur].version + 1 = tasks'[x].version
                      /\ subs'[tasks'[x].cur].contract = tasks'[x].contract
                      /\ subs'[tasks'[x].cur].by = tasks'[x].claimer
    BY DEF ReviewShowsCurrentWork
  <2>1. CASE x = t
    BY <1>1, <1>2, <1>4, <1>7, <1>9, <2>1, TaskConstants
  <2>2. CASE x # t
    BY <1>2, <1>7, <1>12, <1>13, <2>2 DEF TaskInv, BoardInv, ReviewShowsCurrentWork
  <2> QED BY <2>1, <2>2
<1>15. DoneMeansAccepted'
  <2> SUFFICES ASSUME NEW x \in TaskIds, tasks'[x].contract # None,
                      tasks'[x].status = "done"
               PROVE  /\ tasks'[x].cur # None
                      /\ subs'[tasks'[x].cur] # None
                      /\ subs'[tasks'[x].cur].task = x
                      /\ subs'[tasks'[x].cur].version + 2 = tasks'[x].version
                      /\ subs'[tasks'[x].cur].contract = tasks'[x].contract
                      /\ subs'[tasks'[x].cur].by = tasks'[x].claimer
                      /\ \E r \in reviews' : /\ r.sub = tasks'[x].cur
                                             /\ r.decision = "accepted"
                                             /\ r.reviewer # subs'[tasks'[x].cur].by
    BY DEF DoneMeansAccepted
  <2>1. x # t
    BY <1>2
  <2> QED BY <1>1, <1>2, <1>7, <1>12, <1>13, <2>1 DEF TaskInv, BoardInv, DoneMeansAccepted
<1>16. HistoryOlderThanRow'
  <2>1. \A x \in Subs : subs'[x] # None => subs'[x].version < tasks'[subs'[x].task].version
    BY <1>2, <1>3, <1>7, <1>9, <1>12
  <2>2. \A e \in events' : e.version <= tasks'[e.task].version
    BY <1>1, <1>2, <1>3 DEF TaskInv, BoardInv, HistoryOlderThanRow, TypeOK, Event
  <2>3. \A x, y \in Subs :
          /\ subs'[x] # None /\ subs'[y] # None
          /\ subs'[x].task = subs'[y].task
          /\ subs'[x].version = subs'[y].version
          => x = y
    BY <1>3, <1>7, <1>9, <1>12 DEF TaskInv, BoardInv, HistoryOlderThanRow
  <2> QED BY <2>1, <2>2, <2>3 DEF HistoryOlderThanRow
<1>17. OneFinalVerdict'
  BY <1>1 DEF TaskInv, BoardInv, OneFinalVerdict
<1>18. AgentReviewNotStranded'
  <2> SUFFICES ASSUME NEW x \in TaskIds, tasks'[x].contract # None,
                      tasks'[x].status = "in_review", tasks'[x].contract.kind # "human"
               PROVE  \/ /\ deliv'[tasks'[x].cur] # None
                         /\ deliv'[tasks'[x].cur].reviewer = tasks'[x].contract.reviewer
                      \/ \E r \in reviews' : /\ r.sub = tasks'[x].cur
                                             /\ r.decision = "needs_human"
    BY DEF AgentReviewNotStranded
  <2>1. CASE x = t
    <3>1. QueuesReview(c)
      BY <1>2, <1>5, <2>1 DEF QueuesReview, GateKinds
    <3> QED BY <1>2, <1>6, <1>7, <1>10, <2>1, <3>1
  <2>2. CASE x # t
    <3>1. tasks[x].cur \in Subs /\ tasks[x].cur # s
      BY <1>2, <1>12, <1>13, <2>2 DEF TaskInv, BoardInv, ReviewShowsCurrentWork
    <3> QED BY <1>1, <1>2, <1>7, <2>2, <3>1 DEF TaskInv, BoardInv, AgentReviewNotStranded
  <2> QED BY <2>1, <2>2
<1>19. HistoryHasOwner'
  <2>1. \A x \in TaskIds : Exists(x) => tasks'[x].status \in Live
    BY <1>2 DEF Exists, Live
  <2>2. tasks'[t].status \in Live
    BY <1>2 DEF Live
  <2>3. \A x \in Subs : subs'[x] # None => tasks'[subs'[x].task].status \in Live
    BY <1>7, <1>9, <1>12, <2>1, <2>2
  <2>4. \A e \in events' : tasks'[e.task].status \in Live
    BY <1>1, <2>1 DEF TaskInv, TypeOK, BoardInv, HistoryHasOwner, Event
  <2>5. \A r \in reviews' : subs'[r.sub] # None
    BY <1>1, <1>7, <1>11 DEF TaskInv, BoardInv, HistoryHasOwner
  <2> QED BY <2>3, <2>4, <2>5 DEF HistoryHasOwner, Exists
<1>20. VerdictIsFinal'
  BY <1>1, <1>2, <1>11 DEF TaskInv, BoardInv, VerdictIsFinal
<1>21. EditsReadTheirVersion'
  <2>1. \A h \in Handlers : req[h] # None /\ req[h].op = "update" =>
            req[h].task \in TaskIds /\ req[h].version \in Nat
    BY DEF TaskInv, TypeOK, Request
  <2>2. Exists(t) /\ tasks'[t].status \in Live
    BY <1>1, <1>2 DEF Exists, Live
  <2> QED BY <1>1, <1>2, <1>3, <2>1, <2>2 DEF TaskInv, EditsReadTheirVersion, Exists
<1> QED BY <1>8, <1>14, <1>15, <1>16, <1>17, <1>18, <1>19, <1>20, <1>21 DEF TaskInv, BoardInv

\* A reviewed row is a row.
LEMMA ReviewedRow ==
    ASSUME NEW row \in Row, NEW st \in Live
    PROVE  LET new == [row EXCEPT !.status = st] IN
           /\ new \in Row
           /\ new.status = st /\ new.cur = row.cur
           /\ new.contract = row.contract /\ new.scope = row.scope
           /\ new.claimer = row.claimer
  BY DEF Row

Verdict(d) == CASE d = "accepted" -> "done"
                [] d = "rejected" -> "in_progress"
                [] OTHER -> "in_review"

\* The row ReviewDelivery leaves behind.
LEMMA RowAfterReview ==
    ASSUME TypeOK, NEW t \in TaskIds, NEW u \in Actors, NEW s \in Subs,
           NEW d \in Decisions, NEW k \in Keys, ReviewDelivery(t, u, s, d, k)
    PROVE  /\ tasks' \in [TaskIds -> Row]
           /\ \A x \in TaskIds : x # t => tasks'[x] = tasks[x]
           /\ tasks'[t].status = Verdict(d)
           /\ tasks'[t].cur = s
           /\ tasks'[t].contract = tasks[t].contract
           /\ tasks'[t].claimer = tasks[t].claimer
           /\ tasks'[t].version = IF d = "needs_human" THEN tasks[t].version
                                                       ELSE tasks[t].version + 1
<1> DEFINE st == Verdict(d)
           new == [tasks[t] EXCEPT !.status = st]
<1>1. tasks \in [TaskIds -> Row] /\ tasks[t] \in Row
  BY DEF TypeOK
<1>2. st \in Live /\ (st = "in_review" <=> d = "needs_human")
  BY DEF Verdict, Live, Terminal, Decisions
<1>3. tasks[t].status = "in_review" /\ tasks[t].cur = s
  BY DEF ReviewDelivery, UnderReview
<1>4. tasks' = [tasks EXCEPT ![t] = Stamp(tasks[t], new)]
  BY DEF ReviewDelivery, Update, Verdict
<1> HIDE DEF st
<1>5. /\ new \in Row
      /\ new.status = st /\ new.cur = tasks[t].cur
      /\ new.contract = tasks[t].contract /\ new.scope = tasks[t].scope
      /\ new.claimer = tasks[t].claimer
  BY <1>1, <1>2, ReviewedRow
<1> HIDE DEF new
<1>6. /\ ~ LeavesReview(tasks[t], new)
      /\ NewVersion(tasks[t], new) = IF d = "needs_human" THEN tasks[t].version
                                                          ELSE tasks[t].version + 1
  BY <1>2, <1>3, <1>5 DEF LeavesReview, NewVersion, Bumps
<1>7. Stamp(tasks[t], new) \in Row
  BY <1>1, <1>5, StampType
<1>8. tasks'[t] = Stamp(tasks[t], new) /\ \A x \in TaskIds : x # t => tasks'[x] = tasks[x]
  BY <1>1, <1>4
<1>9. tasks' \in [TaskIds -> Row]
  BY <1>1, <1>4, <1>7
<1>10. /\ tasks'[t].status = new.status /\ tasks'[t].cur = new.cur
       /\ tasks'[t].claimer = new.claimer /\ tasks'[t].contract = new.contract
       /\ tasks'[t].version = NewVersion(tasks[t], new)
  BY <1>1, <1>5, <1>6, <1>8, StampFields
<1> QED BY <1>3, <1>5, <1>6, <1>8, <1>9, <1>10 DEF st

\* ReviewDelivery preserves the invariant.
LEMMA StepReviewDelivery ==
    ASSUME TaskInv, NEW t \in TaskIds, NEW u \in Actors, NEW s \in Subs,
           NEW d \in Decisions, NEW k \in Keys, ReviewDelivery(t, u, s, d, k)
    PROVE  TaskInv'
<1> DEFINE rv == [sub |-> s, reviewer |-> u, decision |-> d, key |-> k]
<1>1. /\ tasks[t].contract # None /\ tasks[t].status = "in_review" /\ tasks[t].cur = s
      /\ tasks[t].claimer # u
      /\ subs[s] # None /\ subs[s].task = t /\ subs[s].version + 1 = tasks[t].version
      /\ reviews' = reviews \cup {rv}
      /\ deliv' = [deliv EXCEPT ![s] = None]
      /\ UNCHANGED <<subs, events, req>>
  BY DEF ReviewDelivery, UnderReview, MayReview
<1>2. /\ tasks' \in [TaskIds -> Row]
      /\ \A x \in TaskIds : x # t => tasks'[x] = tasks[x]
      /\ tasks'[t].status = Verdict(d)
      /\ tasks'[t].cur = s
      /\ tasks'[t].contract = tasks[t].contract
      /\ tasks'[t].claimer = tasks[t].claimer
      /\ tasks'[t].version = IF d = "needs_human" THEN tasks[t].version
                                                  ELSE tasks[t].version + 1
  BY RowAfterReview DEF TaskInv
<1>3. /\ Verdict(d) = "in_review" <=> d = "needs_human"
      /\ Verdict(d) = "done" <=> d = "accepted"
      /\ Verdict(d) \in Live
  BY DEF Verdict, Decisions, Live, Terminal
<1>4. rv \in Review
  BY DEF Review
<1>5. TypeOK'
  BY <1>1, <1>2, <1>4 DEF TaskInv, TypeOK
<1>6. rv.sub = s /\ rv.decision = d /\ rv.reviewer = u
  OBVIOUS
<1> HIDE DEF rv
<1>7. \A x \in Subs : x # s => deliv'[x] = deliv[x]
  BY <1>1 DEF TaskInv, TypeOK
<1>8. \A x \in TaskIds : /\ tasks[x].version \in Nat
                         /\ tasks[x].cur # None => tasks[x].cur \in Subs
  BY DEF TaskInv, TypeOK, Row
<1>9. \A x \in Subs : subs[x] # None => subs[x].task \in TaskIds /\ subs[x].version \in Nat
  BY DEF TaskInv, TypeOK, Submission
<1>10. subs[s].contract = tasks[t].contract /\ subs[s].by = tasks[t].claimer
  BY <1>1 DEF TaskInv, BoardInv, ReviewShowsCurrentWork
<1>11. \A r \in reviews : r.sub = s => r.decision \notin {"accepted", "rejected"}
  BY <1>1 DEF TaskInv, BoardInv, VerdictIsFinal
<1>12. ReviewShowsCurrentWork'
  <2> SUFFICES ASSUME NEW x \in TaskIds, tasks'[x].contract # None,
                      tasks'[x].status = "in_review"
               PROVE  /\ tasks'[x].cur # None
                      /\ subs'[tasks'[x].cur] # None
                      /\ subs'[tasks'[x].cur].task = x
                      /\ subs'[tasks'[x].cur].version + 1 = tasks'[x].version
                      /\ subs'[tasks'[x].cur].contract = tasks'[x].contract
                      /\ subs'[tasks'[x].cur].by = tasks'[x].claimer
    BY DEF ReviewShowsCurrentWork
  <2>1. CASE x = t
    BY <1>1, <1>2, <1>3, <1>10, <2>1, TaskConstants
  <2>2. CASE x # t
    BY <1>1, <1>2, <2>2 DEF TaskInv, BoardInv, ReviewShowsCurrentWork
  <2> QED BY <2>1, <2>2
<1>13. DoneMeansAccepted'
  <2> SUFFICES ASSUME NEW x \in TaskIds, tasks'[x].contract # None,
                      tasks'[x].status = "done"
               PROVE  /\ tasks'[x].cur # None
                      /\ subs'[tasks'[x].cur] # None
                      /\ subs'[tasks'[x].cur].task = x
                      /\ subs'[tasks'[x].cur].version + 2 = tasks'[x].version
                      /\ subs'[tasks'[x].cur].contract = tasks'[x].contract
                      /\ subs'[tasks'[x].cur].by = tasks'[x].claimer
                      /\ \E r \in reviews' : /\ r.sub = tasks'[x].cur
                                             /\ r.decision = "accepted"
                                             /\ r.reviewer # subs'[tasks'[x].cur].by
    BY DEF DoneMeansAccepted
  <2>1. CASE x = t
    <3>1. d = "accepted"
      BY <1>2, <1>3, <2>1
    <3>2. \E r \in reviews' : r.sub = s /\ r.decision = "accepted" /\ r.reviewer # subs[s].by
      BY <1>1, <1>6, <1>10, <3>1
    <3> QED BY <1>1, <1>2, <1>8, <1>9, <1>10, <2>1, <3>1, <3>2, TaskConstants
  <2>2. CASE x # t
    BY <1>1, <1>2, <2>2 DEF TaskInv, BoardInv, DoneMeansAccepted
  <2> QED BY <2>1, <2>2
<1>14. HistoryOlderThanRow'
  <2>1. \A x \in Subs : subs[x] # None => subs[x].version < tasks'[subs[x].task].version
    BY <1>2, <1>8, <1>9 DEF TaskInv, BoardInv, HistoryOlderThanRow
  <2>2. \A e \in events : e.version <= tasks'[e.task].version
    BY <1>2, <1>8 DEF TaskInv, BoardInv, HistoryOlderThanRow, TypeOK, Event
  <2> QED BY <1>1, <2>1, <2>2 DEF TaskInv, BoardInv, HistoryOlderThanRow
<1>15. OneFinalVerdict'
  BY <1>1, <1>6, <1>11 DEF TaskInv, BoardInv, OneFinalVerdict
<1>16. AgentReviewNotStranded'
  <2> SUFFICES ASSUME NEW x \in TaskIds, tasks'[x].contract # None,
                      tasks'[x].status = "in_review", tasks'[x].contract.kind # "human"
               PROVE  \/ /\ deliv'[tasks'[x].cur] # None
                         /\ deliv'[tasks'[x].cur].reviewer = tasks'[x].contract.reviewer
                      \/ \E r \in reviews' : /\ r.sub = tasks'[x].cur
                                             /\ r.decision = "needs_human"
    BY DEF AgentReviewNotStranded
  <2>1. CASE x = t
    BY <1>1, <1>2, <1>3, <1>6, <2>1
  <2>2. CASE x # t
    <3>1. tasks[x].cur \in Subs /\ tasks[x].cur # s
      BY <1>1, <1>2, <1>8, <2>2 DEF TaskInv, BoardInv, ReviewShowsCurrentWork
    <3> QED BY <1>1, <1>2, <1>7, <2>2, <3>1 DEF TaskInv, BoardInv, AgentReviewNotStranded
  <2> QED BY <2>1, <2>2
<1>17. HistoryHasOwner'
  <2>1. \A x \in TaskIds : Exists(x) => tasks'[x].status \in Live
    BY <1>2, <1>3 DEF Exists
  <2>2. \A r \in reviews' : subs[r.sub] # None
    BY <1>1, <1>6 DEF TaskInv, BoardInv, HistoryHasOwner
  <2> QED BY <1>1, <1>9, <2>1, <2>2 DEF TaskInv, TypeOK, BoardInv, HistoryHasOwner, Event, Exists
<1>18. VerdictIsFinal'
  <2> SUFFICES ASSUME NEW r \in reviews', NEW x \in TaskIds,
                      r.decision \in {"accepted", "rejected"},
                      tasks'[x].contract # None, tasks'[x].status = "in_review",
                      tasks'[x].cur = r.sub
               PROVE  FALSE
    BY DEF VerdictIsFinal
  <2>1. CASE x = t
    BY <1>1, <1>2, <1>3, <1>6, <1>11, <2>1
  <2>2. CASE x # t
    <3>1. tasks[x].cur # s
      BY <1>1, <1>2, <2>2 DEF TaskInv, BoardInv, ReviewShowsCurrentWork
    <3> QED BY <1>1, <1>2, <1>6, <2>2, <3>1 DEF TaskInv, BoardInv, VerdictIsFinal
  <2> QED BY <2>1, <2>2
<1>19. EditsReadTheirVersion'
  <2>1. \A h \in Handlers : req[h] # None /\ req[h].op = "update" =>
            req[h].task \in TaskIds /\ req[h].version \in Nat
    BY DEF TaskInv, TypeOK, Request
  <2>2. /\ Exists(t) /\ tasks'[t].status \in Live
        /\ tasks'[t].version = tasks[t].version => tasks'[t].status = tasks[t].status
    BY <1>1, <1>2, <1>3, <1>8 DEF Exists, Live
  <2>3. tasks'[t].status # "absent"
    BY <2>2 DEF Live, Terminal
  <2> QED BY <1>1, <1>2, <1>8, <2>1, <2>2, <2>3 DEF TaskInv, EditsReadTheirVersion, Exists
<1> QED BY <1>5, <1>12, <1>13, <1>14, <1>15, <1>16, <1>17, <1>18, <1>19 DEF TaskInv, BoardInv

-----------------------------------------------------------------------------
(* Deletion.                                                               *)

\* A row and what is left of it when another task is deleted.
SameButParent(new, old) ==
    /\ new.status = old.status
    /\ new.claimer = old.claimer
    /\ new.version = old.version
    /\ new.contract = old.contract
    /\ new.cur = old.cur

\* DeleteTask empties one row and touches only the parent of the others.
LEMMA RowsAfterDelete ==
    ASSUME TypeOK, NEW t \in TaskIds, DeleteTask(t)
    PROVE  /\ tasks' \in [TaskIds -> Row]
           /\ tasks'[t].status = "deleted" /\ tasks'[t].contract = None
           /\ \A x \in TaskIds : x # t => SameButParent(tasks'[x], tasks[x])
<1>1. [NoRow EXCEPT !.status = "deleted"] \in Row
  BY NoRowType DEF Row
<1>2. ASSUME NEW x \in TaskIds
      PROVE  /\ [tasks[x] EXCEPT !.parent = None] \in Row
             /\ SameButParent([tasks[x] EXCEPT !.parent = None], tasks[x])
  <2>1. tasks[x] \in Row
    BY DEF TypeOK
  <2> QED BY <2>1 DEF Row, SameButParent
<1>3. tasks' = [c \in TaskIds |->
                   IF c = t THEN [NoRow EXCEPT !.status = "deleted"]
                   ELSE IF tasks[c].parent = t THEN [tasks[c] EXCEPT !.parent = None]
                   ELSE tasks[c]]
  BY DEF DeleteTask
<1>4. tasks' \in [TaskIds -> Row]
  BY <1>1, <1>2, <1>3 DEF TypeOK
<1>5. tasks'[t] = [NoRow EXCEPT !.status = "deleted"]
  BY <1>3
<1>6. tasks'[t].status = "deleted" /\ tasks'[t].contract = None
  BY <1>5 DEF NoRow
<1>7. ASSUME NEW x \in TaskIds, x # t
      PROVE  SameButParent(tasks'[x], tasks[x])
  <2>1. CASE tasks[x].parent = t
    <3>1. tasks'[x] = [tasks[x] EXCEPT !.parent = None]
      BY <1>3, <1>7, <2>1
    <3> QED BY <1>2, <3>1
  <2>2. CASE tasks[x].parent # t
    <3>1. tasks'[x] = tasks[x]
      BY <1>3, <1>7, <2>2
    <3> QED BY <3>1 DEF SameButParent
  <2> QED BY <2>1, <2>2
<1> QED BY <1>4, <1>6, <1>7

\* DeleteTask preserves the invariant.
LEMMA StepDeleteTask ==
    ASSUME TaskInv, NEW t \in TaskIds, DeleteTask(t)
    PROVE  TaskInv'
<1> DEFINE gone == SubmissionsOf(t)
<1>1. /\ reviews' = {r \in reviews : r.sub \notin gone}
      /\ subs' = [s \in Subs |-> IF s \in gone THEN None ELSE subs[s]]
      /\ deliv' = [s \in Subs |-> IF s \in gone THEN None ELSE deliv[s]]
      /\ events' = {e \in events : e.task # t}
      /\ UNCHANGED req
  BY DEF DeleteTask, EventsWithout
<1>2. /\ tasks' \in [TaskIds -> Row]
      /\ tasks'[t].status = "deleted" /\ tasks'[t].contract = None
      /\ \A x \in TaskIds : x # t => SameButParent(tasks'[x], tasks[x])
  BY RowsAfterDelete DEF TaskInv
<1>3. \A s \in Subs : s \in gone <=> subs[s] # None /\ subs[s].task = t
  BY DEF SubmissionsOf
<1> HIDE DEF gone
<1>4. TypeOK'
  BY <1>1, <1>2 DEF TaskInv, TypeOK
<1>5. \A s \in Subs : subs'[s] # None => subs'[s] = subs[s] /\ subs[s] # None
                                         /\ subs[s].task \in TaskIds /\ subs[s].task # t
  BY <1>1, <1>3 DEF TaskInv, TypeOK, Submission
<1>6. \A s \in Subs : s \notin gone => subs'[s] = subs[s] /\ deliv'[s] = deliv[s]
  BY <1>1
<1>7. \A r \in reviews' : r \in reviews /\ r.sub \in Subs /\ r.sub \notin gone
  BY <1>1 DEF TaskInv, TypeOK, Review
<1>8. \A r \in reviews : r.sub \notin gone => r \in reviews'
  BY <1>1
<1>9. \A e \in events' : e \in events /\ e.task \in TaskIds /\ e.task # t
  BY <1>1 DEF TaskInv, TypeOK, Event
<1>10. \A x \in TaskIds : x # t /\ tasks[x].contract # None
                          /\ tasks[x].status \in {"in_review", "done"} =>
          tasks[x].cur \in Subs /\ tasks[x].cur \notin gone
  BY <1>3 DEF TaskInv, TypeOK, Row, BoardInv, ReviewShowsCurrentWork, DoneMeansAccepted
<1>11. ReviewShowsCurrentWork'
  BY <1>2, <1>6, <1>10 DEF TaskInv, BoardInv, ReviewShowsCurrentWork, SameButParent
<1>12. DoneMeansAccepted'
  BY <1>2, <1>6, <1>8, <1>10 DEF TaskInv, BoardInv, DoneMeansAccepted, SameButParent
<1>13. HistoryOlderThanRow'
  <2>1. \A s \in Subs : subs'[s] # None => subs'[s].version < tasks'[subs'[s].task].version
    BY <1>2, <1>5 DEF TaskInv, BoardInv, HistoryOlderThanRow, SameButParent
  <2>2. \A e \in events' : e.version <= tasks'[e.task].version
    BY <1>2, <1>9 DEF TaskInv, BoardInv, HistoryOlderThanRow, SameButParent
  <2>3. \A x, y \in Subs :
          /\ subs'[x] # None /\ subs'[y] # None
          /\ subs'[x].task = subs'[y].task
          /\ subs'[x].version = subs'[y].version
          => x = y
    BY <1>5 DEF TaskInv, BoardInv, HistoryOlderThanRow
  <2> QED BY <2>1, <2>2, <2>3 DEF HistoryOlderThanRow
<1>14. OneFinalVerdict'
  BY <1>7 DEF TaskInv, BoardInv, OneFinalVerdict
<1>15. AgentReviewNotStranded'
  BY <1>2, <1>6, <1>8, <1>10 DEF TaskInv, BoardInv, AgentReviewNotStranded, SameButParent
<1>16. HistoryHasOwner'
  <2>1. \A s \in Subs : subs'[s] # None => tasks'[subs'[s].task].status \in Live
    BY <1>2, <1>5 DEF TaskInv, BoardInv, HistoryHasOwner, SameButParent, Exists
  <2>2. \A e \in events' : tasks'[e.task].status \in Live
    BY <1>2, <1>9 DEF TaskInv, BoardInv, HistoryHasOwner, SameButParent, Exists
  <2>3. \A r \in reviews' : subs'[r.sub] # None
    BY <1>6, <1>7 DEF TaskInv, BoardInv, HistoryHasOwner
  <2> QED BY <2>1, <2>2, <2>3 DEF HistoryHasOwner, Exists
<1>17. VerdictIsFinal'
  BY <1>2, <1>7 DEF TaskInv, BoardInv, VerdictIsFinal, SameButParent
<1>18. EditsReadTheirVersion'
  <2>1. \A h \in Handlers : req[h] # None /\ req[h].op = "update" => req[h].task \in TaskIds
    BY DEF TaskInv, TypeOK, Request
  <2>2. tasks'[t].status \notin Live /\ tasks'[t].status # "absent"
    BY <1>2 DEF Live, Terminal
  <2> QED BY <1>1, <1>2, <2>1, <2>2 DEF TaskInv, EditsReadTheirVersion, SameButParent, Exists
<1> QED BY <1>4, <1>11, <1>12, <1>13, <1>14, <1>15, <1>16, <1>17, <1>18 DEF TaskInv, BoardInv

-----------------------------------------------------------------------------
(* The specification.                                                      *)

\* An empty board satisfies the invariant.
LEMMA InitTaskInv == Init => TaskInv
<1> SUFFICES ASSUME Init PROVE TaskInv
  OBVIOUS
<1>1. \A t \in TaskIds : tasks[t] = NoRow
  BY DEF Init
<1>2. NoRow.status = "absent" /\ NoRow.contract = None
  BY DEF NoRow
<1>3. TypeOK
  BY NoRowType DEF Init, TypeOK
<1>4. BoardInv
  BY <1>1, <1>2 DEF Init, BoardInv, ReviewShowsCurrentWork, DoneMeansAccepted,
     HistoryOlderThanRow, OneFinalVerdict, AgentReviewNotStranded, HistoryHasOwner,
     VerdictIsFinal
<1>5. EditsReadTheirVersion
  BY DEF Init, EditsReadTheirVersion
<1> QED BY <1>3, <1>4, <1>5 DEF TaskInv

\* A step that changes nothing preserves the invariant.
LEMMA StutterTaskInv == TaskInv /\ UNCHANGED vars => TaskInv'
  BY DEF vars, TaskInv, TypeOK, BoardInv, ReviewShowsCurrentWork, DoneMeansAccepted,
     HistoryOlderThanRow, OneFinalVerdict, AgentReviewNotStranded, HistoryHasOwner,
     VerdictIsFinal, EditsReadTheirVersion, Exists

\* Every step of the board preserves the invariant.
LEMMA NextTaskInv == TaskInv /\ [Next]_vars => TaskInv'
<1> SUFFICES ASSUME TaskInv, [Next]_vars PROVE TaskInv'
  OBVIOUS
<1>1. CASE Creation
  BY <1>1, StepCreateTask, StepConvertMessageToTask, StepClaimMessageTask DEF Creation
<1>2. CASE Board
  BY <1>2, StepClaimTask, StepSubmitTask, StepReviewTask, StepSubmitDelivery,
     StepReviewDelivery DEF Board
<1>3. CASE CheckThenAct
  BY <1>3, StepReads, StepUpdateRead, StepRetryClaim, StepUnclaimWrite, StepSetTaskStatus,
     StepUpdateWrite, StepRetryRollback, StepAbandon DEF CheckThenAct
<1>4. CASE Background
  BY <1>4, StepReleaseAgent, StepAutomationComplete, StepBackgroundClose, StepDeleteTask,
     StepRetryReturn DEF Background
<1>5. CASE Dispatcher
  BY <1>5, StepDispatchTaskReview, StepFinishReviewRun DEF Dispatcher
<1>6. CASE UNCHANGED vars
  BY <1>6, StutterTaskInv
<1> QED BY <1>1, <1>2, <1>3, <1>4, <1>5, <1>6 DEF Next

\* The strengthened invariant holds in every reachable state of the board.
THEOREM BoardIsSound == Spec => []TaskInv
  BY InitTaskInv, NextTaskInv, PTL DEF Spec

\* Every row the services write is a legal row; in particular no review is
\* dispatched a fourth time.
THEOREM TypeCorrect == Spec => []TypeOK
<1>1. TaskInv => TypeOK
  BY DEF TaskInv
<1> QED BY <1>1, BoardIsSound, PTL

\* Whatever edits, releases and stale writes arrive during a review, the
\* reviewer is shown the claimer's submission under the present contract.
THEOREM ReviewsAreOfCurrentWork == Spec => []ReviewShowsCurrentWork
<1>1. TaskInv => ReviewShowsCurrentWork
  BY DEF TaskInv, BoardInv
<1> QED BY <1>1, BoardIsSound, PTL

\* A contract task that is done was accepted as it stands by someone else.
THEOREM DoneIsAccepted == Spec => []DoneMeansAccepted
<1>1. TaskInv => DoneMeansAccepted
  BY DEF TaskInv, BoardInv
<1> QED BY <1>1, BoardIsSound, PTL

\* ReviewDelivery never records two final verdicts on one submission.
THEOREM VerdictsAreFinal == Spec => []OneFinalVerdict
<1>1. TaskInv => OneFinalVerdict
  BY DEF TaskInv, BoardInv
<1> QED BY <1>1, BoardIsSound, PTL

\* The unique keys on (task, version) never refuse a legal submit or claim.
THEOREM HistoryIsOlder == Spec => []HistoryOlderThanRow
<1>1. TaskInv => HistoryOlderThanRow
  BY DEF TaskInv, BoardInv
<1> QED BY <1>1, BoardIsSound, PTL

\* The review of an agent gate always has a delivery row or a call for help.
THEOREM ReviewsAreNotStranded == Spec => []AgentReviewNotStranded
<1>1. TaskInv => AgentReviewNotStranded
  BY DEF TaskInv, BoardInv
<1> QED BY <1>1, BoardIsSound, PTL


-----------------------------------------------------------------------------
(* What a step can do to the rows: an operation rewrites rows through the  *)
(* trigger, inserts one, or deletes one.                                   *)

\* The row of t is left alone, or rewritten through the trigger by an
\* operation that leaves the source message alone.
Rewritten(t) ==
    \/ tasks'[t] = tasks[t]
    \/ \E new \in Row : /\ Exists(t)
                        /\ new.src = tasks[t].src
                        /\ tasks'[t] = Stamp(tasks[t], new)

RowsRewritten == \A t \in TaskIds : Rewritten(t)

\* One row appears, for no message or for a message that had no task.
RowInserted ==
    \E t \in TaskIds, m \in Messages \cup {None} :
        /\ ~ Exists(t)
        /\ m # None => SourceFree(m)
        /\ tasks'[t].src = m
        /\ \A x \in TaskIds : x # t => tasks'[x] = tasks[x]

\* One row goes, and the others lose at most their parent.
RowDeleted ==
    \E t \in TaskIds :
        /\ tasks'[t].status \notin Live
        /\ \A x \in TaskIds : x # t => /\ SameButParent(tasks'[x], tasks[x])
                                       /\ tasks'[x].scope = tasks[x].scope
                                       /\ tasks'[x].src = tasks[x].src

\* One UPDATE rewrites one row.
LEMMA UpdateRewrites ==
    ASSUME TypeOK, NEW t \in TaskIds, NEW new \in Row, Exists(t),
           new.src = tasks[t].src, Update(t, new)
    PROVE  RowsRewritten
<1>1. tasks' = [tasks EXCEPT ![t] = Stamp(tasks[t], new)]
  BY DEF Update
<1>2. ASSUME NEW x \in TaskIds PROVE Rewritten(x)
  <2>1. CASE x = t
    BY <1>1, <2>1 DEF TypeOK, Rewritten
  <2>2. CASE x # t
    BY <1>1, <2>2 DEF TypeOK, Rewritten
  <2> QED BY <2>1, <2>2
<1> QED BY <1>2 DEF RowsRewritten

\* An UPDATE of claimer and status rewrites one row.
LEMMA ReassignRewrites ==
    ASSUME TypeOK, NEW t \in TaskIds, NEW a \in Actors \cup {None}, NEW st \in Live,
           Exists(t), Update(t, [tasks[t] EXCEPT !.claimer = a, !.status = st])
    PROVE  RowsRewritten
<1> DEFINE new == [tasks[t] EXCEPT !.claimer = a, !.status = st]
<1>1. tasks[t] \in Row
  BY DEF TypeOK
<1>2. new \in Row /\ new.src = tasks[t].src
  BY <1>1 DEF Row
<1> HIDE DEF new
<1> QED BY <1>2, UpdateRewrites DEF new

\* An UPDATE of the status alone rewrites one row.
LEMMA StatusRewrites ==
    ASSUME TypeOK, NEW t \in TaskIds, NEW st \in Live, Exists(t),
           Update(t, [tasks[t] EXCEPT !.status = st])
    PROVE  RowsRewritten
<1> DEFINE new == [tasks[t] EXCEPT !.status = st]
<1>1. tasks[t] \in Row
  BY DEF TypeOK
<1>2. new \in Row /\ new.src = tasks[t].src
  BY <1>1 DEF Row
<1> HIDE DEF new
<1> QED BY <1>2, UpdateRewrites DEF new

\* A step that leaves the rows alone rewrites nothing.
LEMMA IdleRewrites == ASSUME UNCHANGED tasks PROVE RowsRewritten
  BY DEF RowsRewritten, Rewritten

\* The operations that insert: CreateTask, ConvertMessageToTask and
\* ClaimMessageTask check the message under its lock.
LEMMA CreationInserts ==
    ASSUME TypeOK, Creation PROVE RowInserted
<1>1. PICK t \in TaskIds, u \in Actors, x \in Scopes :
        \/ \E c \in Contracts \cup {None}, a \in Actors \cup {None},
              p \in TaskIds \cup {None}, m \in Messages \cup {None} :
                CreateTask(t, u, x, c, a, p, m)
        \/ \E m \in Messages :
              \/ ConvertMessageToTask(t, u, x, m)
              \/ \E c \in Contracts \cup {None} : ClaimMessageTask(t, u, x, m, c)
  BY DEF Creation
<1>2. \E m \in Messages \cup {None} : \E row :
        /\ tasks[t].status = "absent"
        /\ m # None => SourceFree(m)
        /\ row.src = m
        /\ tasks' = [tasks EXCEPT ![t] = row]
  <2>1. CASE \E c \in Contracts \cup {None}, a \in Actors \cup {None},
                p \in TaskIds \cup {None}, m \in Messages \cup {None} :
                CreateTask(t, u, x, c, a, p, m)
    <3> PICK c \in Contracts \cup {None}, a \in Actors \cup {None},
             p \in TaskIds \cup {None}, m \in Messages \cup {None} :
             CreateTask(t, u, x, c, a, p, m)
      BY <2>1
    <3>1. NewRow(u, x, c, a, p, m, 1).src = m
      BY DEF NewRow
    <3> QED BY <3>1 DEF CreateTask
  <2>2. CASE \E m \in Messages : ConvertMessageToTask(t, u, x, m)
    <3> PICK m \in Messages : ConvertMessageToTask(t, u, x, m)
      BY <2>2
    <3>1. NewRow(u, x, None, None, None, m, 1).src = m
      BY DEF NewRow
    <3> QED BY <3>1 DEF ConvertMessageToTask
  <2>3. CASE \E m \in Messages, c \in Contracts \cup {None} :
                ClaimMessageTask(t, u, x, m, c)
    <3> PICK m \in Messages, c \in Contracts \cup {None} : ClaimMessageTask(t, u, x, m, c)
      BY <2>3
    <3>1. NewRow(Sender[m], x, c, u, None, m, 2).src = m
      BY DEF NewRow
    <3> QED BY <3>1 DEF ClaimMessageTask
  <2> QED BY <1>1, <2>1, <2>2, <2>3
<1>3. PICK m \in Messages \cup {None} : \E row :
        /\ tasks[t].status = "absent"
        /\ m # None => SourceFree(m)
        /\ row.src = m
        /\ tasks' = [tasks EXCEPT ![t] = row]
  BY <1>2
<1> PICK row :
        /\ tasks[t].status = "absent"
        /\ m # None => SourceFree(m)
        /\ row.src = m
        /\ tasks' = [tasks EXCEPT ![t] = row]
  BY <1>3
<1>4. ~ Exists(t)
  BY <1>3 DEF Exists, Live, Terminal
<1>5. tasks'[t] = row /\ \A y \in TaskIds : y # t => tasks'[y] = tasks[y]
  BY <1>3 DEF TypeOK
<1> QED BY <1>3, <1>4, <1>5 DEF RowInserted

\* DeleteTask deletes.
LEMMA DeleteDeletes ==
    ASSUME TypeOK, NEW t \in TaskIds, DeleteTask(t) PROVE RowDeleted
<1>1. /\ tasks'[t].status = "deleted"
      /\ \A x \in TaskIds : x # t => SameButParent(tasks'[x], tasks[x])
  BY RowsAfterDelete
<1>2. ASSUME NEW x \in TaskIds, x # t
      PROVE  tasks'[x].scope = tasks[x].scope /\ tasks'[x].src = tasks[x].src
  <2>1. tasks[x] \in Row
    BY DEF TypeOK
  <2>2. tasks'[x] = tasks[x] \/ tasks'[x] = [tasks[x] EXCEPT !.parent = None]
    BY <1>2 DEF DeleteTask
  <2> QED BY <2>1, <2>2 DEF Row
<1>3. tasks'[t].status \notin Live
  BY <1>1 DEF Live, Terminal
<1> QED BY <1>1, <1>2, <1>3 DEF RowDeleted


\* Submission, verdict and claim rewrite one row.
LEMMA BoardRewrites ==
    ASSUME TypeOK, Board PROVE RowsRewritten
<1>1. PICK t \in TaskIds, u \in Actors :
        \/ ClaimTask(t, u)
        \/ SubmitTask(t, u)
        \/ \E v \in {"accepted", "rejected"} : ReviewTask(t, u, v)
        \/ \E s \in Subs :
              \/ SubmitDelivery(t, u, s)
              \/ \E d \in Decisions, k \in Keys : ReviewDelivery(t, u, s, d, k)
  BY DEF Board
<1>2. CASE ClaimTask(t, u)
  BY <1>2, ReassignRewrites DEF ClaimTask, Exists, Live
<1>3. CASE SubmitTask(t, u)
  BY <1>3, StatusRewrites DEF SubmitTask, Exists, Live
<1>4. CASE \E v \in {"accepted", "rejected"} : ReviewTask(t, u, v)
  <2> PICK v \in {"accepted", "rejected"} : ReviewTask(t, u, v)
    BY <1>4
  <2> DEFINE st == IF v = "accepted" THEN "done" ELSE "in_progress"
  <2>1. st \in Live /\ Exists(t)
    BY DEF Live, Terminal, ReviewTask, Exists
  <2>2. Update(t, [tasks[t] EXCEPT !.status = st])
    BY DEF ReviewTask
  <2> HIDE DEF st
  <2> QED BY <2>1, <2>2, StatusRewrites
<1>5. CASE \E s \in Subs : SubmitDelivery(t, u, s)
  <2> PICK s \in Subs : SubmitDelivery(t, u, s)
    BY <1>5
  <2> DEFINE new == [tasks[t] EXCEPT !.status = "in_review", !.cur = s]
  <2>1. tasks[t] \in Row
    BY DEF TypeOK
  <2>2. new \in Row /\ new.src = tasks[t].src
    BY <2>1, SubmittedRow DEF Row
  <2>3. Exists(t) /\ Update(t, new)
    BY DEF SubmitDelivery, Exists, Live
  <2> HIDE DEF new
  <2> QED BY <2>2, <2>3, UpdateRewrites
<1>6. CASE \E s \in Subs, d \in Decisions, k \in Keys : ReviewDelivery(t, u, s, d, k)
  <2> PICK s \in Subs, d \in Decisions, k \in Keys : ReviewDelivery(t, u, s, d, k)
    BY <1>6
  <2> DEFINE st == Verdict(d)
  <2>1. st \in Live /\ Exists(t)
    BY DEF Verdict, Live, Terminal, ReviewDelivery, UnderReview, Exists
  <2>2. Update(t, [tasks[t] EXCEPT !.status = st])
    BY DEF ReviewDelivery, Verdict
  <2> HIDE DEF st
  <2> QED BY <2>1, <2>2, StatusRewrites
<1> QED BY <1>1, <1>2, <1>3, <1>4, <1>5, <1>6

\* The requests read first and write later rewrite at most one row.
LEMMA CheckThenActRewrites ==
    ASSUME TypeOK, CheckThenAct PROVE RowsRewritten
<1>1. PICK h \in Handlers :
        \/ \E t \in TaskIds, u \in Actors :
              \/ UnclaimRead(h, t, u)
              \/ CloseRead(h, t, u)
              \/ ReopenRead(h, t, u)
              \/ \E x \in Scopes, c \in Contracts \cup {None} : UpdateRead(h, t, u, x, c)
        \/ \E t \in TaskIds, a \in Agents : RetryClaim(h, t, a)
        \/ UnclaimWrite(h)
        \/ SetTaskStatus(h)
        \/ UpdateWrite(h)
        \/ RetryRollback(h)
        \/ Abandon(h)
  BY DEF CheckThenAct
<1> DEFINE t == req[h].task
<1>2. CASE UNCHANGED tasks
  BY <1>2, IdleRewrites
<1>3. CASE \E x \in TaskIds, a \in Agents : RetryClaim(h, x, a)
  <2> PICK x \in TaskIds, a \in Agents : RetryClaim(h, x, a)
    BY <1>3
  <2> QED BY ReassignRewrites DEF RetryClaim, Exists, Live, Actors
<1>4. CASE UnclaimWrite(h) /\ ~ UNCHANGED tasks
  <2>1. t \in TaskIds /\ Exists(t)
    BY <1>4 DEF UnclaimWrite, TypeOK, Request
  <2>2. Update(t, [tasks[t] EXCEPT !.claimer = None, !.status = "todo"])
    BY <1>4 DEF UnclaimWrite
  <2> HIDE DEF t
  <2> QED BY <2>1, <2>2, ReassignRewrites DEF Live
<1>5. CASE SetTaskStatus(h) /\ ~ UNCHANGED tasks
  <2> DEFINE st == IF req[h].op = "close" THEN "closed" ELSE "todo"
  <2>1. t \in TaskIds /\ Exists(t) /\ st \in Live
    BY <1>5 DEF SetTaskStatus, TypeOK, Request, Live, Terminal
  <2>2. Update(t, [tasks[t] EXCEPT !.status = st])
    BY <1>5 DEF SetTaskStatus
  <2> HIDE DEF t, st
  <2> QED BY <2>1, <2>2, StatusRewrites
<1>6. CASE UpdateWrite(h) /\ ~ UNCHANGED tasks
  <2> DEFINE new == Edited(tasks[t], req[h].scope, req[h].status, req[h].contract)
  <2>1. /\ t \in TaskIds /\ Exists(t)
        /\ req[h].scope \in Scopes /\ req[h].status \in Live
        /\ req[h].contract \in Contracts \cup {None}
    BY <1>6 DEF UpdateWrite, TypeOK, Request
  <2>2. Update(t, new)
    BY <1>6 DEF UpdateWrite, Edited
  <2>3. tasks[t] \in Row
    BY <2>1 DEF TypeOK
  <2>4. new \in Row
    BY <2>1, <2>3, EditedRow
  <2>5. new.src = tasks[t].src
    BY <2>3 DEF Edited, Row
  <2> HIDE DEF t, new
  <2> QED BY <2>1, <2>2, <2>4, <2>5, UpdateRewrites
<1>7. CASE RetryRollback(h) /\ ~ UNCHANGED tasks
  <2>1. t \in TaskIds /\ Exists(t)
    BY <1>7 DEF RetryRollback, TypeOK, Request
  <2>2. Update(t, [tasks[t] EXCEPT !.claimer = None, !.status = "todo"])
    BY <1>7 DEF RetryRollback
  <2> HIDE DEF t
  <2> QED BY <2>1, <2>2, ReassignRewrites DEF Live
<1>8. CASE \/ \E x \in TaskIds, u \in Actors :
                 \/ UnclaimRead(h, x, u)
                 \/ CloseRead(h, x, u)
                 \/ ReopenRead(h, x, u)
                 \/ \E y \in Scopes, c \in Contracts \cup {None} : UpdateRead(h, x, u, y, c)
           \/ Abandon(h)
  <2>1. UNCHANGED tasks
    BY <1>8 DEF UnclaimRead, CloseRead, ReopenRead, UpdateRead, Begin, Abandon
  <2> QED BY <2>1, <1>2
<1> QED BY <1>1, <1>2, <1>3, <1>4, <1>5, <1>6, <1>7, <1>8

\* The background writers rewrite rows or delete one.
LEMMA BackgroundWrites ==
    ASSUME TypeOK, Background PROVE RowsRewritten \/ RowDeleted
<1>1. CASE \E a \in Agents : ReleaseAgent(a)
  <2> PICK a \in Agents : ReleaseAgent(a)
    BY <1>1
  <2>1. ASSUME NEW x \in TaskIds PROVE Rewritten(x)
    <3> DEFINE new == [tasks[x] EXCEPT !.claimer = None, !.status = "todo"]
    <3>1. tasks[x] \in Row
      BY DEF TypeOK
    <3>2. new \in Row /\ new.src = tasks[x].src
      BY <3>1 DEF Row, Live
    <3>3. \/ tasks'[x] = tasks[x]
          \/ Exists(x) /\ tasks'[x] = Stamp(tasks[x], new)
      BY DEF ReleaseAgent, Released, Exists, Live
    <3> HIDE DEF new
    <3> QED BY <3>2, <3>3 DEF Rewritten
  <2> QED BY <2>1 DEF RowsRewritten
<1>2. CASE \E t \in TaskIds, st \in {"done", "in_review"} : AutomationComplete(t, st)
  <2> PICK t \in TaskIds, st \in {"done", "in_review"} : AutomationComplete(t, st)
    BY <1>2
  <2>1. st \in Live /\ Exists(t)
    BY DEF Live, Terminal, AutomationComplete, Exists
  <2> QED BY <2>1, StatusRewrites DEF AutomationComplete
<1>3. CASE \E t \in TaskIds : BackgroundClose(t)
  BY <1>3, StatusRewrites DEF BackgroundClose, Exists, Live, Terminal
<1>4. CASE \E t \in TaskIds : DeleteTask(t)
  BY <1>4, DeleteDeletes
<1>5. CASE \E t \in TaskIds, a \in Agents : RetryReturn(t, a)
  BY <1>5, ReassignRewrites DEF RetryReturn, Exists, Live
<1> QED BY <1>1, <1>2, <1>3, <1>4, <1>5 DEF Background

\* Every step of the board has one of the three shapes.
LEMMA EveryStep ==
    ASSUME TypeOK, [Next]_vars PROVE RowsRewritten \/ RowInserted \/ RowDeleted
<1>1. CASE Creation
  BY <1>1, CreationInserts
<1>2. CASE Board
  BY <1>2, BoardRewrites
<1>3. CASE CheckThenAct
  BY <1>3, CheckThenActRewrites
<1>4. CASE Background
  BY <1>4, BackgroundWrites
<1>5. CASE Dispatcher \/ UNCHANGED vars
  <2>1. UNCHANGED tasks
    BY <1>5 DEF Dispatcher, DispatchTaskReview, FinishReviewRun, vars
  <2> QED BY <2>1, IdleRewrites
<1> QED BY <1>1, <1>2, <1>3, <1>4, <1>5 DEF Next


-----------------------------------------------------------------------------
(* What follows for steps.                                                 *)

\* A row rewritten through the trigger keeps its version or moves it by one,
\* and moves it when a client can see the difference.
LEMMA RewriteMovesVersion ==
    ASSUME TypeOK, NEW t \in TaskIds, Rewritten(t)
    PROVE  /\ tasks'[t].version \in {tasks[t].version, tasks[t].version + 1}
           /\ tasks'[t].version = tasks[t].version =>
                 /\ tasks'[t].status = tasks[t].status
                 /\ tasks'[t].claimer = tasks[t].claimer
                 /\ tasks'[t].contract = tasks[t].contract
                 /\ tasks'[t].scope = tasks[t].scope
           /\ tasks'[t].src = tasks[t].src
<1>1. tasks[t] \in Row
  BY DEF TypeOK
<1>2. CASE tasks'[t] = tasks[t]
  BY <1>1, <1>2 DEF Row
<1>3. CASE tasks'[t] # tasks[t]
  <2> PICK new \in Row : new.src = tasks[t].src /\ tasks'[t] = Stamp(tasks[t], new)
    BY <1>3 DEF Rewritten
  <2>1. /\ tasks'[t].claimer = new.claimer
        /\ tasks'[t].contract = new.contract
        /\ tasks'[t].scope = new.scope
        /\ tasks'[t].src = new.src
        /\ tasks'[t].version = NewVersion(tasks[t], new)
        /\ ~ LeavesReview(tasks[t], new) => tasks'[t].status = new.status
    BY <1>1, StampFields
  <2>2. /\ NewVersion(tasks[t], new) \in {tasks[t].version, tasks[t].version + 1}
        /\ NewVersion(tasks[t], new) = tasks[t].version => ~ Bumps(tasks[t], new)
        /\ ~ Bumps(tasks[t], new) => ~ LeavesReview(tasks[t], new)
    BY <1>1, VersionStep
  <2>3. ~ Bumps(tasks[t], new) => /\ new.status = tasks[t].status
                                  /\ new.claimer = tasks[t].claimer
                                  /\ new.contract = tasks[t].contract
                                  /\ new.scope = tasks[t].scope
    BY DEF Bumps
  <2> QED BY <2>1, <2>2, <2>3
<1> QED BY <1>2, <1>3

\* Every operation leaves the version as an optimistic lock: whoever finds the
\* version he read finds the status, claimer, contract and scope he read.
THEOREM VersionLocksTheRow == Spec => VersionIsALock
<1> DEFINE Lock == \A t \in TaskIds :
          Exists(t) /\ tasks'[t].status \in Live =>
            /\ tasks'[t].version \in {tasks[t].version, tasks[t].version + 1}
            /\ tasks'[t].version = tasks[t].version =>
                  /\ tasks'[t].status = tasks[t].status
                  /\ tasks'[t].claimer = tasks[t].claimer
                  /\ tasks'[t].contract = tasks[t].contract
                  /\ tasks'[t].scope = tasks[t].scope
<1>1. TypeOK /\ [Next]_vars => Lock
  <2> SUFFICES ASSUME TypeOK, [Next]_vars, NEW t \in TaskIds,
                      Exists(t), tasks'[t].status \in Live
               PROVE  /\ tasks'[t].version \in {tasks[t].version, tasks[t].version + 1}
                      /\ tasks'[t].version = tasks[t].version =>
                            /\ tasks'[t].status = tasks[t].status
                            /\ tasks'[t].claimer = tasks[t].claimer
                            /\ tasks'[t].contract = tasks[t].contract
                            /\ tasks'[t].scope = tasks[t].scope
    OBVIOUS
  <2>1. CASE RowsRewritten
    BY <2>1, RewriteMovesVersion DEF RowsRewritten
  <2>2. CASE RowInserted
    BY <2>2 DEF RowInserted
  <2>3. CASE RowDeleted
    BY <2>3 DEF RowDeleted, SameButParent
  <2> QED BY <2>1, <2>2, <2>3, EveryStep
<1> QED BY <1>1, TypeCorrect, PTL DEF Spec, VersionIsALock

\* Every operation preserves the promise that a message has one task: only an
\* insert can break it, and the inserts look under the lock of the message.
LEMMA OneTaskPerMessageStep ==
    ASSUME TypeOK, OneTaskPerMessage, [Next]_vars PROVE OneTaskPerMessage'
<1> SUFFICES ASSUME NEW t1 \in TaskIds, NEW t2 \in TaskIds,
                    tasks'[t1].status \in Live, tasks'[t2].status \in Live,
                    tasks'[t1].src # None, tasks'[t1].src = tasks'[t2].src
             PROVE  t1 = t2
  BY DEF OneTaskPerMessage, Exists
<1>1. CASE RowsRewritten
  <2>1. \A t \in TaskIds : tasks'[t].status \in Live => Exists(t)
    BY <1>1 DEF RowsRewritten, Rewritten, Exists
  <2>2. \A t \in TaskIds : tasks'[t].src = tasks[t].src
    BY <1>1, RewriteMovesVersion DEF RowsRewritten
  <2> QED BY <2>1, <2>2 DEF OneTaskPerMessage
<1>2. CASE RowInserted
  BY <1>2 DEF RowInserted, SourceFree, OneTaskPerMessage, Exists
<1>3. CASE RowDeleted
  BY <1>3 DEF RowDeleted, SameButParent, OneTaskPerMessage, Exists
<1> QED BY <1>1, <1>2, <1>3, EveryStep

\* However converting, claiming and deleting interleave, a message never has
\* two tasks: the unique index unique_task_source_message never fires.
THEOREM MessagesHaveOneTask == Spec => []OneTaskPerMessage
<1>1. Init => OneTaskPerMessage
  <2>1. NoRow.src = None
    BY DEF NoRow
  <2> QED BY <2>1 DEF Init, OneTaskPerMessage
<1>2. TypeOK /\ OneTaskPerMessage /\ [Next]_vars => OneTaskPerMessage'
  BY OneTaskPerMessageStep
<1> QED BY <1>1, <1>2, TypeCorrect, PTL DEF Spec

\* Only ReviewDelivery records verdicts.
LEMMA OnlyReviewsAddVerdicts ==
    ASSUME [Next]_vars, NEW r \in reviews' \ reviews
    PROVE  \E t \in TaskIds, u \in Actors, s \in Subs, d \in Decisions, k \in Keys :
               ReviewDelivery(t, u, s, d, k)
<1>1. CASE Creation
  BY <1>1 DEF Creation, CreateTask, ConvertMessageToTask, ClaimMessageTask
<1>2. CASE Board
  BY <1>2 DEF Board, ClaimTask, SubmitTask, ReviewTask, SubmitDelivery
<1>3. CASE CheckThenAct
  <2>1. ASSUME NEW h \in Handlers, NEW t \in TaskIds, NEW u \in Actors,
               UnclaimRead(h, t, u) \/ CloseRead(h, t, u) \/ ReopenRead(h, t, u)
        PROVE  UNCHANGED reviews
    BY <2>1 DEF UnclaimRead, CloseRead, ReopenRead, Begin
  <2>2. ASSUME NEW h \in Handlers, NEW t \in TaskIds, NEW u \in Actors,
               NEW x \in Scopes, NEW c \in Contracts \cup {None}, UpdateRead(h, t, u, x, c)
        PROVE  UNCHANGED reviews
    BY <2>2 DEF UpdateRead, Begin
  <2>3. ASSUME NEW h \in Handlers, NEW t \in TaskIds, NEW a \in Agents, RetryClaim(h, t, a)
        PROVE  UNCHANGED reviews
    BY <2>3 DEF RetryClaim
  <2>4. ASSUME NEW h \in Handlers,
               \/ UnclaimWrite(h) \/ SetTaskStatus(h) \/ UpdateWrite(h)
               \/ RetryRollback(h) \/ Abandon(h)
        PROVE  UNCHANGED reviews
    BY <2>4 DEF UnclaimWrite, SetTaskStatus, UpdateWrite, RetryRollback, Abandon
  <2> QED BY <1>3, <2>1, <2>2, <2>3, <2>4 DEF CheckThenAct
<1>4. CASE Background
  BY <1>4 DEF Background, ReleaseAgent, AutomationComplete, BackgroundClose, DeleteTask,
     RetryReturn
<1>5. CASE Dispatcher
  BY <1>5 DEF Dispatcher, DispatchTaskReview, FinishReviewRun
<1>6. CASE UNCHANGED vars
  BY <1>6 DEF vars
<1> QED BY <1>1, <1>2, <1>3, <1>4, <1>5, <1>6 DEF Next

\* However late a verdict arrives, it is recorded for the work its reviewer
\* was shown, under the contract the task still has, and never by its author.
THEOREM VerdictsHitTheirTask == Spec => VerdictHitsItsTask
<1> DEFINE Hit == \A r \in reviews' \ reviews :
          LET t == subs[r.sub].task IN
          /\ tasks[t].status = "in_review" /\ tasks[t].cur = r.sub
          /\ tasks[t].contract = subs[r.sub].contract
          /\ r.reviewer # subs[r.sub].by
<1>1. TaskInv /\ [Next]_vars => Hit
  <2> SUFFICES ASSUME TaskInv, [Next]_vars, NEW r \in reviews' \ reviews
               PROVE  LET t == subs[r.sub].task IN
                      /\ tasks[t].status = "in_review" /\ tasks[t].cur = r.sub
                      /\ tasks[t].contract = subs[r.sub].contract
                      /\ r.reviewer # subs[r.sub].by
    OBVIOUS
  <2> PICK t \in TaskIds, u \in Actors, s \in Subs, d \in Decisions, k \in Keys :
           ReviewDelivery(t, u, s, d, k)
    BY OnlyReviewsAddVerdicts
  <2>1. r.sub = s /\ r.reviewer = u
    BY DEF ReviewDelivery
  <2>2. /\ tasks[t].contract # None /\ tasks[t].status = "in_review" /\ tasks[t].cur = s
        /\ subs[s].task = t /\ tasks[t].claimer # u
    BY DEF ReviewDelivery, UnderReview, MayReview
  <2>3. subs[s].contract = tasks[t].contract /\ subs[s].by = tasks[t].claimer
    BY <2>2 DEF TaskInv, BoardInv, ReviewShowsCurrentWork
  <2> QED BY <2>1, <2>2, <2>3
<1> QED BY <1>1, BoardIsSound, PTL DEF Spec, VerdictHitsItsTask
=============================================================================
