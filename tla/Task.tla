-------------------------------- MODULE Task --------------------------------
(***************************************************************************)
(* The task board of one channel: the rows of `tasks`, `task_submissions`, *)
(* `task_reviews`, `task_review_deliveries` and                            *)
(* `task_responsibility_events`, every operation that writes them, and the *)
(* database trigger that stamps the version of a task.                     *)
(*                                                                         *)
(* A transaction that locks the task row (SELECT ... FOR UPDATE) is one    *)
(* action.  An operation that reads the row without a lock and writes it   *)
(* in a later statement is two actions, joined by a slot of `req`; other   *)
(* operations may come in between.  Title, description, priority and due   *)
(* date are one abstract `scope`; channel membership is not tracked: any   *)
(* actor may pass a membership check, so every request the code could let  *)
(* through is let through here.                                            *)
(***************************************************************************)
EXTENDS Integers, FiniteSets

CONSTANTS
    TaskIds,      \* task rows that may be created
    Users,        \* human members of the channel
    Agents,       \* agent members of the channel
    Owner,        \* [Agents -> Users], agents.owner_id
    Contracts,    \* delivery contracts that may be attached to a task
    Scopes,       \* values of (title, description, priority, due date)
    Messages,     \* source messages that may be turned into a task
    Sender,       \* [Messages -> Users \cup Agents], messages.sender_id
    Subs,         \* submission ids
    Keys,         \* idempotency keys of review requests
    Handlers,     \* requests that can be between their read and their write
    None,         \* SQL NULL
    MaxVersion    \* bound on tasks.version

Actors == Users \cup Agents

GateKinds == {"human", "agent", "code"}

\* TaskContract, reduced to what the lifecycle looks at.
Contract == [kind : GateKinds, reviewer : Actors, max : Nat]

ASSUME TaskConstants ==
    /\ None \notin TaskIds \cup Actors \cup Contracts \cup Subs \cup Messages
    /\ Owner \in [Agents -> Users]
    /\ Sender \in [Messages -> Actors]
    /\ Contracts \subseteq Contract
    /\ MaxVersion \in Nat
    /\ Scopes # {}

MaxReviewAttempts == 3

Terminal == {"done", "closed"}
Live == {"todo", "in_progress", "in_review"} \cup Terminal

VARIABLES
    tasks,     \* [TaskIds -> Row]
    subs,      \* [Subs -> Submission \cup {None}]
    reviews,   \* set of task_reviews rows that name a submission
    deliv,     \* [Subs -> task_review_deliveries row, or None]
    events,    \* task_responsibility_events, as (task, version, assignee)
    req        \* [Handlers -> pending request, or None]

vars == <<tasks, subs, reviews, deliv, events, req>>

Row == [status   : Live \cup {"absent", "deleted"},
        claimer  : Actors \cup {None},
        creator  : Actors \cup {None},
        version  : Nat,
        contract : Contracts \cup {None},
        scope    : Scopes,
        cur      : Subs \cup {None},
        parent   : TaskIds \cup {None},
        src      : Messages \cup {None}]

Submission == [task : TaskIds, by : Actors, version : Nat, contract : Contracts]

Decisions == {"accepted", "rejected", "needs_human"}

Review == [sub : Subs, reviewer : Actors, decision : Decisions, key : Keys]

Delivery == [reviewer : Actors, attempts : 0 .. MaxReviewAttempts,
             run : {"none", "live", "ended"}]

\* A row is not NULL.
ASSUME RowsAreNotNull == None \notin Submission \cup Delivery

Request == [op : {"unclaim", "close", "reopen"}, task : TaskIds, actor : Actors]
           \cup [op : {"retry"}, task : TaskIds, actor : Agents]
           \cup [op : {"update"}, task : TaskIds, actor : Actors,
                 version : Nat, status : Live,
                 scope : Scopes, contract : Contracts \cup {None}]

Event == [task : TaskIds, version : Nat, assignee : Actors]

TypeOK ==
    /\ tasks \in [TaskIds -> Row]
    /\ subs \in [Subs -> Submission \cup {None}]
    /\ reviews \subseteq Review
    /\ deliv \in [Subs -> Delivery \cup {None}]
    /\ events \subseteq Event
    /\ req \in [Handlers -> Request \cup {None}]

-----------------------------------------------------------------------------
(* The trigger bump_task_version, run BEFORE every UPDATE of a task row.   *)

\* Variant: a new contract does not count as a change.
BumpsIgnoringContract(old, new) ==
    \/ new.status # old.status
    \/ new.scope # old.scope
    \/ new.claimer # old.claimer

Bumps(old, new) ==
    \/ new.status # old.status
    \/ new.scope # old.scope
    \/ new.claimer # old.claimer
    \/ new.contract # old.contract

NewVersion(old, new) == IF Bumps(old, new) THEN old.version + 1 ELSE old.version

\* Variant: a new contract does not take the task out of review.
LeavesReviewIgnoringContract(old, new) ==
    /\ new.contract # None
    /\ old.status = "in_review"
    /\ \/ new.scope # old.scope
       \/ new.claimer # old.claimer

\* A contract task edited or released while it is in review leaves review.
LeavesReview(old, new) ==
    /\ new.contract # None
    /\ old.status = "in_review"
    /\ \/ new.scope # old.scope
       \/ new.contract # old.contract
       \/ new.claimer # old.claimer

Stamp(old, new) ==
    IF LeavesReview(old, new)
      THEN [new EXCEPT !.version = NewVersion(old, new),
                       !.status  = IF new.claimer = None THEN "todo" ELSE "in_progress",
                       !.cur     = None]
      ELSE [new EXCEPT !.version = NewVersion(old, new)]

\* The exception the trigger raises unless the current submission of a
\* contract task was accepted at the version the task still has.
DoneAllowed(t, old, new, revs) ==
    new.contract # None /\ new.status = "done" /\ old.status # "done" =>
       /\ new.cur # None
       /\ subs[new.cur] # None
       /\ subs[new.cur].task = t
       /\ subs[new.cur].version + 1 = old.version
       /\ \E r \in revs : r.sub = new.cur /\ r.decision = "accepted"

\* UPDATE tasks SET <new> WHERE id = t
Update(t, new) ==
    /\ NewVersion(tasks[t], new) <= MaxVersion
    /\ LET row == Stamp(tasks[t], new)
       IN  /\ DoneAllowed(t, tasks[t], row, reviews')
           /\ tasks' = [tasks EXCEPT ![t] = row]

-----------------------------------------------------------------------------
(* Helpers                                                                 *)

Exists(t) == tasks[t].status \in Live

OpenSubtask(t) == \E c \in TaskIds : /\ tasks[c].parent = t
                                     /\ Exists(c)
                                     /\ tasks[c].status \notin Terminal

SubmissionsOf(t) == {s \in Subs : subs[s] # None /\ subs[s].task = t}

\* validateTaskContract
ValidContract(c, creator) ==
    c # None =>
       /\ c.max \in 1 .. 20
       /\ c.kind = "human" => c.reviewer \in Users
       /\ c.kind \in {"agent", "code"} => c.reviewer \in Agents
       /\ c.kind = "code" => Owner[c.reviewer] = creator

\* INSERT INTO tasks: the row of a new task, claimed by a or by nobody.
NewRow(u, x, c, a, p, m, v) ==
    [status |-> IF a = None THEN "todo" ELSE "in_progress", claimer |-> a,
     creator |-> u, version |-> v, contract |-> c, scope |-> x, cur |-> None,
     parent |-> p, src |-> m]

NoRow == [status |-> "absent", claimer |-> None, creator |-> None, version |-> 0,
          contract |-> None, scope |-> CHOOSE x \in Scopes : TRUE, cur |-> None,
          parent |-> None, src |-> None]

Init ==
    /\ tasks = [t \in TaskIds |-> NoRow]
    /\ subs = [s \in Subs |-> None]
    /\ reviews = {}
    /\ deliv = [s \in Subs |-> None]
    /\ events = {}
    /\ req = [h \in Handlers |-> None]

-----------------------------------------------------------------------------
(* Creation                                                                *)

\* Variant: only a task that is still open counts as the task of a message.
SourceFreeOfOpen(m) ==
    \A t \in TaskIds : Exists(t) /\ tasks[t].status \notin Terminal => tasks[t].src # m

SourceFree(m) == \A t \in TaskIds : Exists(t) => tasks[t].src # m

\* CreateTask: parent and source message are locked, the parent must be open.
CreateTask(t, u, x, c, a, p, m) ==
    /\ tasks[t].status = "absent"
    /\ ValidContract(c, u)
    /\ p # None => Exists(p) /\ tasks[p].status \in {"todo", "in_progress"}
    /\ m # None => SourceFree(m)
    /\ tasks' = [tasks EXCEPT ![t] = NewRow(u, x, c, a, p, m, 1)]
    /\ events' = IF a = None THEN events
                 ELSE events \cup {[task |-> t, version |-> 1, assignee |-> a]}
    /\ UNCHANGED <<subs, reviews, deliv, req>>

\* ConvertMessageToTask: messageTask without a claim.
ConvertMessageToTask(t, u, x, m) ==
    /\ tasks[t].status = "absent"
    /\ SourceFree(m)
    /\ tasks' = [tasks EXCEPT ![t] = NewRow(u, x, None, None, None, m, 1)]
    /\ UNCHANGED <<subs, reviews, deliv, events, req>>

\* The rules for the contract an agent attaches while claiming a message.
ClaimContractOK(c, u, creator) ==
    c # None =>
       /\ ValidContract(c, creator)
       /\ c.reviewer # u
       /\ u # creator => creator \in Users /\ c.kind = "human" /\ c.reviewer = creator

\* ClaimMessageTask on a message without a task: INSERT (version 1), then
\* claimTaskTx (version 2), in one transaction.
ClaimMessageTask(t, u, x, m, c) ==
    /\ tasks[t].status = "absent"
    /\ SourceFree(m)
    /\ ClaimContractOK(c, u, Sender[m])
    /\ tasks' = [tasks EXCEPT ![t] = NewRow(Sender[m], x, c, u, None, m, 2)]
    /\ events' = events \cup {[task |-> t, version |-> 2, assignee |-> u]}
    /\ UNCHANGED <<subs, reviews, deliv, req>>

-----------------------------------------------------------------------------
(* Claiming                                                                *)

\* claimTaskTx, from ClaimTask and from ClaimMessageTask on an existing task.
ClaimTask(t, u) ==
    /\ tasks[t].status \in {"todo", "in_progress"}
    /\ tasks[t].claimer \in {None, u}
    /\ UNCHANGED reviews
    /\ Update(t, [tasks[t] EXCEPT !.claimer = u, !.status = "in_progress"])
    /\ events' = IF tasks[t].claimer # None THEN events
                 ELSE events \cup {[task |-> t, version |-> tasks'[t].version,
                                    assignee |-> u]}
    /\ UNCHANGED <<subs, deliv, req>>

Begin(h, r) ==
    /\ req[h] = None
    /\ req' = [req EXCEPT ![h] = r]
    /\ UNCHANGED <<tasks, subs, reviews, deliv, events>>

\* UnclaimTask up to its write: the checks look at an unlocked read.
UnclaimRead(h, t, u) ==
    /\ Exists(t)
    /\ tasks[t].claimer = u
    /\ tasks[t].status \notin Terminal
    /\ Begin(h, [op |-> "unclaim", task |-> t, actor |-> u])

\* The UPDATE of UnclaimTask, whatever the row has become; no row, no effect.
UnclaimWrite(h) ==
    /\ req[h] # None /\ req[h].op = "unclaim"
    /\ UNCHANGED reviews
    /\ LET t == req[h].task
       IN  IF Exists(t)
             THEN Update(t, [tasks[t] EXCEPT !.claimer = None, !.status = "todo"])
             ELSE UNCHANGED tasks
    /\ req' = [req EXCEPT ![h] = None]
    /\ UNCHANGED <<subs, deliv, events>>

\* DELETE agent and remove member: tasks in work go back to todo.
Released(t, a) ==
    IF tasks[t].claimer = a /\ tasks[t].status \in {"in_progress", "in_review"}
      THEN Stamp(tasks[t], [tasks[t] EXCEPT !.claimer = None, !.status = "todo"])
      ELSE tasks[t]

ReleaseAgent(a) ==
    /\ \E t \in TaskIds : Released(t, a) # tasks[t]
    /\ \A t \in TaskIds : Released(t, a).version <= MaxVersion
    /\ tasks' = [t \in TaskIds |-> Released(t, a)]
    /\ UNCHANGED <<subs, reviews, deliv, events, req>>

-----------------------------------------------------------------------------
(* Delivery of a task without a contract                                   *)

SubmitTask(t, u) ==
    /\ tasks[t].status = "in_progress"
    /\ tasks[t].contract = None
    /\ tasks[t].claimer = u
    /\ ~ OpenSubtask(t)
    /\ UNCHANGED reviews
    /\ Update(t, [tasks[t] EXCEPT !.status = "in_review"])
    /\ UNCHANGED <<subs, deliv, events, req>>

\* AcceptTask and RejectTask; their review row names no submission.
ReviewTask(t, u, verdict) ==
    /\ tasks[t].status = "in_review"
    /\ tasks[t].contract = None
    /\ tasks[t].creator = u
    /\ UNCHANGED reviews
    /\ Update(t, [tasks[t] EXCEPT !.status = IF verdict = "accepted" THEN "done"
                                             ELSE "in_progress"])
    /\ UNCHANGED <<subs, deliv, events, req>>

-----------------------------------------------------------------------------
(* Delivery of a task with a contract                                      *)

\* Variant: only the review of a code gate is queued.
QueuesCodeReview(c) == c.kind = "code"

\* A human gate waits for its reviewer; agents are sent their reviews.
QueuesReview(c) == c.kind \in {"agent", "code"}

\* SubmitDelivery.  A request whose expected version is not the current one,
\* and the replay of a recorded request, change nothing.
SubmitDelivery(t, u, s) ==
    LET c == tasks[t].contract IN
    /\ tasks[t].status = "in_progress"
    /\ c # None
    /\ tasks[t].claimer = u
    /\ c.reviewer # u
    /\ ~ OpenSubtask(t)
    /\ Cardinality(SubmissionsOf(t)) < c.max
    /\ subs[s] = None
    /\ subs' = [subs EXCEPT ![s] = [task |-> t, by |-> u, contract |-> c,
                                    version |-> tasks[t].version]]
    /\ UNCHANGED reviews
    /\ Update(t, [tasks[t] EXCEPT !.status = "in_review", !.cur = s])
    /\ deliv' = IF QueuesReview(c)
                THEN [deliv EXCEPT ![s] = [reviewer |-> c.reviewer, attempts |-> 0,
                                           run |-> "none"]]
                ELSE deliv
    /\ UNCHANGED <<events, req>>

\* A submission is escalated once a reviewer asked for a human, or once the
\* review was dispatched three times and its last run is over.
Escalated(s) ==
    \/ \E r \in reviews : r.sub = s /\ r.decision = "needs_human"
    \/ /\ deliv[s] # None
       /\ deliv[s].attempts >= MaxReviewAttempts
       /\ deliv[s].run # "live"

MayReview(t, u, s) ==
    /\ \/ tasks[t].contract.reviewer = u
       \/ tasks[t].creator = u /\ u \in Users /\ Escalated(s)
    /\ tasks[t].claimer # u

\* A code gate is decided by its own live run only.
CodeGateRunLive(t, u, s) ==
    tasks[t].contract.kind = "code" /\ tasks[t].contract.reviewer = u
        => deliv[s] # None /\ deliv[s].run = "live"

\* Variant: the verdict is recorded for any submission of the task.
IsSubmissionOf(t, s) == subs[s] # None /\ subs[s].task = t

\* The submission under review is the current one, and nothing moved since.
UnderReview(t, s) ==
    /\ tasks[t].status = "in_review"
    /\ tasks[t].cur = s
    /\ subs[s] # None /\ subs[s].task = t
    /\ subs[s].version + 1 = tasks[t].version

\* ReviewDelivery.  The replay of a recorded key changes nothing.
ReviewDelivery(t, u, s, d, k) ==
    /\ tasks[t].contract # None
    /\ MayReview(t, u, s)
    /\ ~ \E r \in reviews : r.sub = s /\ r.key = k
    /\ CodeGateRunLive(t, u, s)
    /\ UnderReview(t, s)
    /\ reviews' = reviews \cup {[sub |-> s, reviewer |-> u, decision |-> d, key |-> k]}
    /\ Update(t, [tasks[t] EXCEPT !.status = CASE d = "accepted" -> "done"
                                               [] d = "rejected" -> "in_progress"
                                               [] OTHER -> "in_review"])
    /\ deliv' = [deliv EXCEPT ![s] = None]
    /\ UNCHANGED <<subs, events, req>>

-----------------------------------------------------------------------------
(* The review dispatcher                                                   *)

ReviewerBusy(a) == \E s \in Subs : /\ deliv[s] # None
                                   /\ deliv[s].reviewer = a
                                   /\ deliv[s].run = "live"

AttemptsLeft(s) == deliv[s].attempts < MaxReviewAttempts

CountAttempt(d, started) ==
    [d EXCEPT !.attempts = @ + 1, !.run = IF started THEN "live" ELSE @]

\* dispatchTaskReview: the run starts, or the attempt fails and is counted.
DispatchTaskReview(s, started) ==
    /\ subs[s] # None /\ deliv[s] # None
    /\ UnderReview(subs[s].task, s)
    /\ AttemptsLeft(s)
    /\ ~ ReviewerBusy(deliv[s].reviewer)
    /\ deliv' = [deliv EXCEPT ![s] = CountAttempt(@, started)]
    /\ UNCHANGED <<tasks, subs, reviews, events, req>>

\* The review run reaches a terminal status (agent_runs.finished_at is set).
FinishReviewRun(s) ==
    /\ deliv[s] # None /\ deliv[s].run = "live"
    /\ deliv' = [deliv EXCEPT ![s].run = "ended"]
    /\ UNCHANGED <<tasks, subs, reviews, events, req>>

-----------------------------------------------------------------------------
(* Close, reopen, edit and delete                                          *)

CloseRead(h, t, u) ==
    /\ u \in Users
    /\ Exists(t)
    /\ tasks[t].status # "closed"
    /\ Begin(h, [op |-> "close", task |-> t, actor |-> u])

ReopenRead(h, t, u) ==
    /\ u \in Users
    /\ tasks[t].creator = u
    /\ tasks[t].status \in Terminal
    /\ Begin(h, [op |-> "reopen", task |-> t, actor |-> u])

\* setTaskStatus, whatever the row has become; a missing row is an error.
SetTaskStatus(h) ==
    /\ req[h] # None /\ req[h].op \in {"close", "reopen"}
    /\ UNCHANGED reviews
    /\ LET t == req[h].task
       IN  IF Exists(t)
             THEN Update(t, [tasks[t] EXCEPT !.status = IF req[h].op = "close"
                                                        THEN "closed" ELSE "todo"])
             ELSE UNCHANGED tasks
    /\ req' = [req EXCEPT ![h] = None]
    /\ UNCHANGED <<subs, deliv, events>>

\* Variant: a contract may be given to a finished task.
MayEditFinished(t, u, c) ==
    \/ tasks[t].contract = None /\ c = None
    \/ tasks[t].creator = u

\* A task that has or gets a contract is edited by its creator, at the version
\* the creator names, and not once it is finished.
MayEdit(t, u, c) ==
    \/ tasks[t].contract = None /\ c = None
    \/ tasks[t].status \notin Terminal /\ tasks[t].creator = u

\* UpdateTask up to its write.
UpdateRead(h, t, u, x, c) ==
    /\ Exists(t)
    /\ MayEdit(t, u, c)
    /\ ValidContract(c, u)
    /\ Begin(h, [op |-> "update", task |-> t, actor |-> u,
                 version |-> tasks[t].version, status |-> tasks[t].status,
                 scope |-> x, contract |-> IF c = None THEN tasks[t].contract ELSE c])

\* The UPDATE of UpdateTask, conditional on the version that was read.
UpdateWrite(h) ==
    /\ req[h] # None /\ req[h].op = "update"
    /\ UNCHANGED reviews
    /\ LET t == req[h].task
       IN  IF Exists(t) /\ tasks[t].version = req[h].version
             THEN Update(t, [tasks[t] EXCEPT !.scope = req[h].scope,
                                             !.status = req[h].status,
                                             !.contract = req[h].contract])
             ELSE UNCHANGED tasks
    /\ req' = [req EXCEPT ![h] = None]
    /\ UNCHANGED <<subs, deliv, events>>

\* Variant: the events of a deleted task stay behind.
EventsLeft(t) == events

EventsWithout(t) == {e \in events : e.task # t}

\* DeleteTask and the foreign keys: history goes with the row, subtasks
\* lose their parent.
DeleteTask(t) ==
    /\ Exists(t)
    /\ tasks' = [c \in TaskIds |->
                   IF c = t THEN [NoRow EXCEPT !.status = "deleted"]
                   ELSE IF tasks[c].parent = t THEN [tasks[c] EXCEPT !.parent = None]
                   ELSE tasks[c]]
    /\ reviews' = {r \in reviews : r.sub \notin SubmissionsOf(t)}
    /\ subs' = [s \in Subs |-> IF s \in SubmissionsOf(t) THEN None ELSE subs[s]]
    /\ deliv' = [s \in Subs |-> IF s \in SubmissionsOf(t) THEN None ELSE deliv[s]]
    /\ events' = EventsWithout(t)
    /\ UNCHANGED req

\* The request is cancelled between its read and its write.
Abandon(h) ==
    /\ req[h] # None
    /\ req' = [req EXCEPT ![h] = None]
    /\ UNCHANGED <<tasks, subs, reviews, deliv, events>>

-----------------------------------------------------------------------------
(* Background writers                                                      *)

\* updateCompletedAutomationTask: done or in_review, by completion policy.
AutomationComplete(t, st) ==
    /\ tasks[t].status \in {"todo", "in_progress"}
    /\ tasks[t].contract = None
    /\ ~ OpenSubtask(t)
    /\ UNCHANGED reviews
    /\ Update(t, [tasks[t] EXCEPT !.status = st])
    /\ UNCHANGED <<subs, deliv, events, req>>

\* failDispatchedTask of an automation, and the two closing statements of
\* dispatchSelectionTask.
BackgroundClose(t) ==
    /\ tasks[t].status = "in_progress"
    /\ UNCHANGED reviews
    /\ Update(t, [tasks[t] EXCEPT !.status = "closed"])
    /\ UNCHANGED <<subs, deliv, events, req>>

\* retryTaskRun, attempts exhausted or failure not recoverable.
RetryReturn(t, a) ==
    /\ tasks[t].status \in {"todo", "in_progress"}
    /\ tasks[t].claimer \in {None, a}
    /\ UNCHANGED reviews
    /\ Update(t, [tasks[t] EXCEPT !.claimer = None, !.status = "todo"])
    /\ UNCHANGED <<subs, deliv, events, req>>

\* retryTaskRun, recovery: the task is given back to the agent and committed,
\* then the run is triggered outside the transaction.
RetryClaim(h, t, a) ==
    /\ req[h] = None
    /\ tasks[t].status \in {"todo", "in_progress"}
    /\ tasks[t].claimer \in {None, a}
    /\ UNCHANGED reviews
    /\ Update(t, [tasks[t] EXCEPT !.claimer = a, !.status = "in_progress"])
    /\ req' = [req EXCEPT ![h] = [op |-> "retry", task |-> t, actor |-> a]]
    /\ UNCHANGED <<subs, deliv, events>>

\* The run could not be triggered: undo, if the agent still holds the task.
RetryRollback(h) ==
    /\ req[h] # None /\ req[h].op = "retry"
    /\ UNCHANGED reviews
    /\ LET t == req[h].task
       IN  IF Exists(t) /\ tasks[t].claimer = req[h].actor
             THEN Update(t, [tasks[t] EXCEPT !.claimer = None, !.status = "todo"])
             ELSE UNCHANGED tasks
    /\ req' = [req EXCEPT ![h] = None]
    /\ UNCHANGED <<subs, deliv, events>>

-----------------------------------------------------------------------------
Creation ==
    \E t \in TaskIds, u \in Actors, x \in Scopes :
        \/ \E c \in Contracts \cup {None}, a \in Actors \cup {None},
              p \in TaskIds \cup {None}, m \in Messages \cup {None} :
                CreateTask(t, u, x, c, a, p, m)
        \/ \E m \in Messages :
              \/ ConvertMessageToTask(t, u, x, m)
              \/ \E c \in Contracts \cup {None} : ClaimMessageTask(t, u, x, m, c)

Board ==
    \E t \in TaskIds, u \in Actors :
        \/ ClaimTask(t, u)
        \/ SubmitTask(t, u)
        \/ \E v \in {"accepted", "rejected"} : ReviewTask(t, u, v)
        \/ \E s \in Subs :
              \/ SubmitDelivery(t, u, s)
              \/ \E d \in Decisions, k \in Keys : ReviewDelivery(t, u, s, d, k)

CheckThenAct ==
    \E h \in Handlers :
        \/ \E t \in TaskIds, u \in Actors :
              \/ UnclaimRead(h, t, u)
              \/ CloseRead(h, t, u)
              \/ ReopenRead(h, t, u)
              \/ \E x \in Scopes, c \in Contracts \cup {None} : UpdateRead(h, t, u, x, c)
        \/ \E t \in TaskIds, a \in Agents : RetryClaim(h, t, a)
        \/ UnclaimWrite(h)
        \/ SetTaskStatus(h)
        \/ UpdateWrite(h)
        \/ RetryRollback(h)
        \/ Abandon(h)

Background ==
    \/ \E a \in Agents : ReleaseAgent(a)
    \/ \E t \in TaskIds :
          \/ \E st \in {"done", "in_review"} : AutomationComplete(t, st)
          \/ BackgroundClose(t)
          \/ DeleteTask(t)
          \/ \E a \in Agents : RetryReturn(t, a)

Dispatcher ==
    \E s \in Subs :
        \/ \E started \in BOOLEAN : DispatchTaskReview(s, started)
        \/ FinishReviewRun(s)

Next == Creation \/ Board \/ CheckThenAct \/ Background \/ Dispatcher

Spec == Init /\ [][Next]_vars

-----------------------------------------------------------------------------
(* Properties                                                              *)

\* A contract task in review shows exactly one thing to its reviewer: the
\* submission its present claimer made under its present contract, one
\* version ago.  (SubmitDelivery and the trigger against edits, releases and
\* stale writes that arrive while the task is in review.)
ReviewShowsCurrentWork ==
    \A t \in TaskIds :
        LET row == tasks[t] IN
        row.contract # None /\ row.status = "in_review" =>
            /\ row.cur # None
            /\ subs[row.cur] # None
            /\ subs[row.cur].task = t
            /\ subs[row.cur].version + 1 = row.version
            /\ subs[row.cur].contract = row.contract
            /\ subs[row.cur].by = row.claimer

\* A contract task is done only on the strength of an acceptance, by someone
\* else than its author, of the submission made under the contract the task
\* still has, with no change in between.  (ReviewDelivery, UpdateTask and the
\* check in bump_task_version.)
DoneMeansAccepted ==
    \A t \in TaskIds :
        LET row == tasks[t] IN
        row.contract # None /\ row.status = "done" =>
            /\ row.cur # None
            /\ subs[row.cur] # None
            /\ subs[row.cur].task = t
            /\ subs[row.cur].version + 2 = row.version
            /\ subs[row.cur].contract = row.contract
            /\ subs[row.cur].by = row.claimer
            /\ \E r \in reviews : /\ r.sub = row.cur
                                  /\ r.decision = "accepted"
                                  /\ r.reviewer # subs[row.cur].by

\* No submission gets two final verdicts, although several people may be
\* entitled to review it.  (The index task_reviews_submission_final is a net
\* under ReviewDelivery, never its control flow.)
OneFinalVerdict ==
    \A q, r \in reviews :
        /\ q.sub = r.sub
        /\ q.decision \in {"accepted", "rejected"}
        /\ r.decision \in {"accepted", "rejected"}
        => q = r

\* History is strictly older than the row it belongs to, so the unique keys
\* (task_id, task_version) of task_submissions and (task_id, task_version,
\* assignee_id) of task_responsibility_events never refuse a legal submit or
\* claim.  (claimTaskTx, SubmitDelivery and the version trigger.)
HistoryOlderThanRow ==
    /\ \A s \in Subs : subs[s] # None =>
          subs[s].version < tasks[subs[s].task].version
    /\ \A e \in events : e.version <= tasks[e.task].version
    /\ \A s1, s2 \in Subs :
          /\ subs[s1] # None /\ subs[s2] # None
          /\ subs[s1].task = subs[s2].task
          /\ subs[s1].version = subs[s2].version
          => s1 = s2

\* A review by an agent is never stranded: until some review is recorded for
\* the current submission its delivery row is there, so either the dispatcher
\* or, after three attempts, the creator can go on.  (SubmitDelivery inserts
\* the row, ReviewDelivery deletes it.)
AgentReviewNotStranded ==
    \A t \in TaskIds :
        LET row == tasks[t] IN
        /\ row.contract # None /\ row.status = "in_review"
        /\ row.contract.kind # "human"
        => \/ deliv[row.cur] # None /\ deliv[row.cur].reviewer = row.contract.reviewer
           \/ \E r \in reviews : r.sub = row.cur /\ r.decision = "needs_human"

\* The version is the optimistic lock of the board: it never goes back, moves
\* by one, and any change of what a client can see of a task moves it.
\* (bump_task_version, whichever operation wrote the row.)
VersionIsALock ==
    [][\A t \in TaskIds :
          Exists(t) /\ tasks'[t].status \in Live =>
            /\ tasks'[t].version \in {tasks[t].version, tasks[t].version + 1}
            /\ tasks'[t].version = tasks[t].version =>
                  /\ tasks'[t].status = tasks[t].status
                  /\ tasks'[t].claimer = tasks[t].claimer
                  /\ tasks'[t].contract = tasks[t].contract
                  /\ tasks'[t].scope = tasks[t].scope]_vars

\* A verdict moves the task it was given on and no other, and only from the
\* state it was given in.  (ReviewDelivery.)
VerdictHitsItsTask ==
    [][\A r \in reviews' \ reviews :
          LET t == subs[r.sub].task IN
          /\ tasks[t].status = "in_review" /\ tasks[t].cur = r.sub
          /\ tasks[t].contract = subs[r.sub].contract
          /\ r.reviewer # subs[r.sub].by]_vars

\* A message has at most one task, whoever converts or claims it.
\* (messageTask, CreateTask and the index unique_task_source_message.)
OneTaskPerMessage ==
    \A t1, t2 \in TaskIds :
        /\ Exists(t1) /\ Exists(t2)
        /\ tasks[t1].src # None /\ tasks[t1].src = tasks[t2].src
        => t1 = t2

\* Under a fair dispatcher, and runs that end, a submission waiting for an
\* agent is decided, leaves review, or is escalated to the human creator.
\* (dispatchTaskReview, its three attempts, and the escalation of
\* ReviewDelivery.)
ReviewProgress ==
    \A s \in Subs :
        (deliv[s] # None /\ subs[s] # None /\ tasks[subs[s].task].cur = s
            /\ tasks[subs[s].task].status = "in_review")
        ~> \/ subs[s] = None
           \/ Escalated(s)
           \/ tasks[subs[s].task].cur # s
           \/ tasks[subs[s].task].status # "in_review"

\* RunTaskReviews polls every five seconds, and the run lifecycle gives every
\* run a deadline.
Fairness ==
    \A s \in Subs : /\ WF_vars(\E started \in BOOLEAN : DispatchTaskReview(s, started))
                    /\ WF_vars(FinishReviewRun(s))

FairSpec == Spec /\ Fairness

\* What the comment on UnclaimTask says: a request to unclaim takes a task
\* from the actor who made it and from nobody else.
OnlyClaimerUnclaims ==
    [][\A h \in Handlers :
          UnclaimWrite(h) /\ Exists(req[h].task) =>
              tasks[req[h].task].claimer \in {None, req[h].actor}]_vars

=============================================================================
