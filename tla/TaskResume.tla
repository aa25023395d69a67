----------------------------- MODULE TaskResume -----------------------------
(***************************************************************************)
(* How work on a task starts again without a human: waits (`task_waits`),  *)
(* the recovery of failed runs (agent_retry.go) and the durable work item  *)
(* a recovery leaves behind (`agent_pending_work`).                        *)
(*                                                                         *)
(* WaitTask checks the dependency graph and inserts in one transaction,    *)
(* under an advisory lock of the channel; the model splits it in two, so   *)
(* that the lock is what keeps two of them apart.  dispatchTaskWait reads  *)
(* its candidate in one statement and the dependency in a later one, and   *)
(* is split there too.  retryFailedTaskRuns lists candidates without a     *)
(* lock, commits the claim, and triggers the agent: three steps.  The      *)
(* lifecycle operations of the board (module Task) appear as BoardMove,    *)
(* with the trigger invalidate_task_wait that follows every update.        *)
(* Times are reduced to "has come" and "is still to come".                 *)
(***************************************************************************)
EXTENDS Naturals, FiniteSets, Relation

CONSTANTS
    WTasks,        \* tasks of one channel
    WAgents,       \* agents that may be claimers
    WParent,       \* [WTasks -> WTasks \cup {WNull}], parent_task_id
    Waits,         \* ids of task_waits rows
    WaitKinds,     \* conditions that requests may name
    WNull,         \* SQL NULL
    MaxWVersion,   \* bound on the version up to which the board edits a task
    MaxWFailures,  \* bound on failed runs
    MaxWCrashes    \* bound on stops of the server

ASSUME WaitConstants ==
    /\ WNull \notin WTasks \cup WAgents \cup Waits
    /\ WaitKinds \subseteq {"task_done", "at_time", "signal"}
    /\ WParent \in [WTasks -> WTasks \cup {WNull}]
    /\ MaxWVersion \in Nat /\ MaxWFailures \in Nat /\ MaxWCrashes \in Nat

MaxTaskRunAttempts == 3

VARIABLES
    wtask,     \* [WTasks -> tasks row]
    wwait,     \* [Waits -> task_waits row, or WNull]
    requested,    \* WaitTask transactions past their checks
    picked,    \* the wait dispatchTaskWait has selected, or WNull
    wrun,      \* [WTasks -> latest primary run of the task]
    wretry,    \* [WTasks -> progress of retryTaskRun]
    wwork,     \* tasks with a pending row in agent_pending_work
    wfailures, \* failed runs so far
    wcrashes,  \* stops of the server so far
    orphaned   \* tasks claimed by a recovery that died before its trigger

waitVars == <<wtask, wwait, requested, picked, wrun, wretry, wwork, wfailures, wcrashes, orphaned>>

WTaskRow == [status : {"todo", "in_progress", "in_review", "done", "closed"},
             agent : WAgents \cup {WNull}, version : Nat]

\* ready: the time has come or the signal is recorded; later: next_attempt_at
\* is in the future.
WaitRow == [task : WTasks, version : Nat, agent : WAgents, kind : {"task_done", "at_time", "signal"},
            dep : WTasks \cup {WNull}, state : {"waiting", "resumed", "cancelled"},
            ready : BOOLEAN, later : BOOLEAN]

\* fresh, of a failed run: tasks.updated_at <= agent_runs.finished_at; handled: a recovery event
\* names this run.
WRunRow == [state : {"none", "live", "completed", "failed"}, agent : WAgents \cup {WNull},
            recoverable : BOOLEAN, fresh : BOOLEAN, handled : BOOLEAN, attempts : Nat]

WaitTypeOK ==
    /\ wtask \in [WTasks -> WTaskRow]
    /\ wwait \in [Waits -> WaitRow \cup {WNull}]
    /\ requested \subseteq [wait : Waits, row : WaitRow]
    /\ picked \in Waits \cup {WNull}
    /\ wrun \in [WTasks -> WRunRow]
    /\ \A t \in WTasks : wrun[t].attempts <= MaxTaskRunAttempts
          + Cardinality({w \in Waits : wwait[w] # WNull /\ wwait[w].task = t
                                         /\ wwait[w].state = "resumed"})
    /\ wretry \in [WTasks -> {"idle", "listed", "claimed"}]
    /\ wwork \subseteq WTasks
    /\ wfailures \in Nat /\ wcrashes \in Nat
    /\ orphaned \subseteq WTasks

NoRun == [state |-> "none", agent |-> WNull, recoverable |-> FALSE,
          fresh |-> FALSE, handled |-> FALSE, attempts |-> 0]

FirstRun(a, n) == [NoRun EXCEPT !.state = "live", !.agent = a, !.attempts = n]

\* Tasks in work, some of them with the run that works on them: the first one,
\* or the last that recovery allows.
WaitInit ==
    /\ wtask \in [WTasks -> [status : {"in_progress"}, agent : WAgents, version : {1}]]
    /\ wwait = [w \in Waits |-> WNull]
    /\ requested = {}
    /\ picked = WNull
    /\ \E started \in SUBSET WTasks, n \in {1, MaxTaskRunAttempts} :
          /\ \A s, t \in started : wtask[s].agent = wtask[t].agent => s = t
          /\ wrun = [t \in WTasks |-> IF t \in started THEN FirstRun(wtask[t].agent, n) ELSE NoRun]
    /\ wretry = [t \in WTasks |-> "idle"]
    /\ wwork = {}
    /\ wfailures = 0 /\ wcrashes = 0
    /\ orphaned = {}

-----------------------------------------------------------------------------
(* Helpers                                                                 *)

Waiting(w) == wwait[w] # WNull /\ wwait[w].state = "waiting"

WaitsOf(t) == {w \in Waits : Waiting(w) /\ wwait[w].task = t}

WAgentBusy(a) == \E t \in WTasks : wrun[t].state = "live" /\ wrun[t].agent = a

\* Rows locked by an open transaction (SELECT ... FOR UPDATE).
WLocked(t) ==
    \/ \E q \in requested : q.row.task = t
    \/ picked # WNull /\ wwait[picked].task = t

\* invalidate_task_wait: AFTER UPDATE ON tasks.
InvalidatesWait(old, new) == new.version # old.version \/ new.status # "in_progress"

\* A settled wait keeps its task and its state; nothing reads the rest again.
Settled(w, st) ==
    [wwait[w] EXCEPT !.state = st, !.version = 0, !.kind = "signal", !.dep = WNull,
                     !.ready = FALSE, !.later = FALSE]

\* UPDATE tasks SET status, claimer_id, updated_at = now(), with both triggers.
WUpdate(t, st, a) ==
    LET old == wtask[t]
        new == [status |-> st, agent |-> a,
                version |-> IF st # old.status \/ a # old.agent THEN old.version + 1
                            ELSE old.version]
    IN  /\ wtask' = [wtask EXCEPT ![t] = new]
        /\ wwait' = [w \in Waits |-> IF w \in WaitsOf(t) /\ InvalidatesWait(old, new)
                                     THEN Settled(w, "cancelled")
                                     ELSE wwait[w]]

NotFresh(t) == [wrun EXCEPT ![t].fresh = FALSE]

-----------------------------------------------------------------------------
(* The board: claim, release, submit, verdict, close and reopen.           *)

WBoardMoves ==
    {<<"todo", "in_progress">>, <<"in_progress", "todo">>, <<"in_progress", "in_review">>,
     <<"in_review", "in_progress">>, <<"in_review", "done">>, <<"in_progress", "done">>,
     <<"todo", "closed">>, <<"in_progress", "closed">>, <<"in_review", "closed">>,
     <<"done", "closed">>, <<"done", "todo">>, <<"closed", "todo">>}

BoardMove(t, st, a) ==
    /\ ~ WLocked(t)
    /\ <<wtask[t].status, st>> \in WBoardMoves
    /\ CASE wtask[t].status = "todo" -> a \in WAgents /\ wtask[t].agent \in {WNull, a}
         [] st = "todo" /\ wtask[t].status = "in_progress" -> a = WNull
         [] OTHER -> a = wtask[t].agent
    /\ wtask[t].version < MaxWVersion
    /\ WUpdate(t, st, a)
    /\ wrun' = NotFresh(t)
    /\ UNCHANGED <<requested, picked, wretry, wwork, wfailures, wcrashes, orphaned>>

-----------------------------------------------------------------------------
(* Registering and resolving waits                                         *)

\* The edges of the recursive query: waits on tasks, parents on open children.
WaitEdges == {<<wwait[w].task, wwait[w].dep>> : w \in {x \in Waits :
                 Waiting(x) /\ wwait[x].kind = "task_done"
                   /\ wwait[x].version = wtask[wwait[x].task].version}}

ChildEdges == {<<WParent[t], t>> : t \in {c \in WTasks :
                 WParent[c] # WNull /\ wtask[c].status \notin {"done", "closed"}}}

Reaches(edges, s, t) ==
    ReflexiveTransitiveClosure([x, y \in WTasks |-> <<x, y>> \in edges], WTasks)[s, t]

\* pg_advisory_xact_lock(task-wait:<channel>) held until commit.
ChannelLockFree == requested = {}

\* lockTaskWaitOwner: a claimed task in progress, its row locked.
MayWait(t) == wtask[t].status = "in_progress" /\ wtask[t].agent # WNull /\ ~ WLocked(t)

\* WaitTask up to its INSERT.  A replay of the same key and a stale expected
\* version change nothing.
WaitCheck(w, t, kind, d) ==
    /\ ChannelLockFree
    /\ wwait[w] = WNull /\ \A q \in requested : q.wait # w
    /\ MayWait(t)
    /\ WaitsOf(t) = {}
    /\ IF kind # "task_done" THEN d = WNull
       ELSE /\ d \in WTasks \ {t}
            /\ wtask[d].status # "closed"
            /\ ~ Reaches(WaitEdges \cup ChildEdges, d, t)
    /\ requested' = requested \cup
          {[wait |-> w,
            row |-> [task |-> t, version |-> wtask[t].version, agent |-> wtask[t].agent,
                     kind |-> kind, dep |-> d, state |-> "waiting",
                     ready |-> FALSE, later |-> FALSE]]}
    /\ UNCHANGED <<wtask, wwait, picked, wrun, wretry, wwork, wfailures, wcrashes, orphaned>>

\* The INSERT and COMMIT of WaitTask.
WaitInsert(q) ==
    /\ wwait' = [wwait EXCEPT ![q.wait] = q.row]
    /\ requested' = requested \ {q}
    /\ UNCHANGED <<wtask, picked, wrun, wretry, wwork, wfailures, wcrashes, orphaned>>

\* ResolveTaskWait: a human confirms a signal, or the wait is cancelled.
ResolveTaskWait(w, action) ==
    /\ Waiting(w) /\ picked # w
    /\ MayWait(wwait[w].task)
    /\ wtask[wwait[w].task].version = wwait[w].version
    /\ \/ /\ action = "cancel"
          /\ wwait' = [wwait EXCEPT ![w] = Settled(w, "cancelled")]
       \/ /\ action = "signal" /\ wwait[w].kind = "signal" /\ ~ wwait[w].ready
          /\ wwait' = [wwait EXCEPT ![w].ready = TRUE, ![w].later = FALSE]
    /\ UNCHANGED <<wtask, requested, picked, wrun, wretry, wwork, wfailures, wcrashes, orphaned>>

ClockReaches(w) ==
    \/ /\ wwait[w].kind = "at_time" /\ ~ wwait[w].ready
       /\ wwait' = [wwait EXCEPT ![w].ready = TRUE]
    \/ /\ wwait[w].later
       /\ wwait' = [wwait EXCEPT ![w].later = FALSE]

\* The timestamp of an at_time condition, or of next_attempt_at, passes.
WaitTimePasses(w) ==
    /\ Waiting(w) /\ picked # w
    /\ ClockReaches(w)
    /\ UNCHANGED <<wtask, requested, picked, wrun, wretry, wwork, wfailures, wcrashes, orphaned>>

-----------------------------------------------------------------------------
(* Resuming a wait                                                         *)

DependencyDone(w) == wwait[w].kind = "task_done" => wtask[wwait[w].dep].status = "done"

Satisfied(w) == IF wwait[w].kind = "task_done" THEN DependencyDone(w) ELSE wwait[w].ready

WaitDue(w) ==
    /\ Waiting(w) /\ ~ wwait[w].later
    /\ LET t == wwait[w].task
       IN  wtask[t] = [status |-> "in_progress", agent |-> wwait[w].agent,
                       version |-> wwait[w].version]
    /\ Satisfied(w)
    /\ ~ WAgentBusy(wwait[w].agent)

\* The first query of dispatchTaskWait: FOR UPDATE OF t, w SKIP LOCKED.
PickWait(w) ==
    /\ picked = WNull
    /\ WaitDue(w) /\ ~ WLocked(wwait[w].task)
    /\ picked' = w
    /\ UNCHANGED <<wtask, wwait, requested, wrun, wretry, wwork, wfailures, wcrashes, orphaned>>

\* Variant: the dependency is not read again.
StillDoneUnread(w) == TRUE

\* SELECT ... status='done' FOR SHARE: the dependency as it is now.
StillDone(w) == DependencyDone(w)

\* The rest of dispatchTaskWait.  ok: the agent is a member, its daemon is
\* known and the run can be started; otherwise the attempt is put off.
ResumeWait(ok) ==
    /\ picked # WNull
    /\ picked' = WNull
    /\ LET w == picked
           t == wwait[w].task
           a == wwait[w].agent
       IN  IF ~ StillDone(w) \/ WAgentBusy(a)
             THEN UNCHANGED <<wwait, wrun>>
           ELSE IF ~ ok
             THEN /\ wwait' = [wwait EXCEPT ![w].later = TRUE]
                  /\ UNCHANGED wrun
           ELSE /\ wwait' = [wwait EXCEPT ![w] = Settled(w, "resumed")]
                /\ wrun' = [wrun EXCEPT ![t] = [state |-> "live", agent |-> a,
                              recoverable |-> FALSE, fresh |-> FALSE, handled |-> FALSE,
                              attempts |-> wrun[t].attempts + 1]]
    /\ UNCHANGED <<wtask, requested, wretry, wwork, wfailures, wcrashes, orphaned>>

-----------------------------------------------------------------------------
(* Runs, and the recovery of a failed one                                  *)

\* A run of the task ends: finished_at is later than any update so far.
EndTaskRun(t, st, recoverable) ==
    /\ wrun[t].state = "live"
    /\ recoverable => st = "failed"
    /\ wrun' = [wrun EXCEPT ![t].state = st, ![t].fresh = (st = "failed"),
                            ![t].recoverable = recoverable]
    /\ wfailures' = IF st = "failed" THEN wfailures + 1 ELSE wfailures
    /\ wfailures' <= MaxWFailures
    /\ UNCHANGED <<wtask, wwait, requested, picked, wretry, wwork, wcrashes, orphaned>>

\* The failure is worth another attempt, and one is left.
MayTryAgain(t) == wrun[t].attempts < MaxTaskRunAttempts /\ wrun[t].recoverable

\* The conditions of retryTaskRun under the row lock.
RetryApplies(t) ==
    /\ wrun[t].state = "failed" /\ wrun[t].fresh /\ ~ wrun[t].handled
    /\ wtask[t].status \in {"todo", "in_progress"}
    /\ wtask[t].agent \in {WNull, wrun[t].agent}

\* The query of retryFailedTaskRuns; it also skips tasks that wait.
ListRetry(t) ==
    /\ wretry[t] = "idle"
    /\ RetryApplies(t) /\ WaitsOf(t) = {}
    /\ wretry' = [wretry EXCEPT ![t] = "listed"]
    /\ UNCHANGED <<wtask, wwait, requested, picked, wrun, wwork, wfailures, wcrashes, orphaned>>

\* retryTaskRun up to its commit: given up, or claimed again for its agent.
RetryTaskRun(t) ==
    /\ wretry[t] = "listed" /\ ~ WLocked(t)
    /\ \/ /\ ~ RetryApplies(t)
          /\ wretry' = [wretry EXCEPT ![t] = "idle"]
          /\ UNCHANGED <<wtask, wwait, wrun>>
       \/ /\ RetryApplies(t)
          /\ ~ MayTryAgain(t)
          /\ WUpdate(t, "todo", WNull)
          /\ wrun' = [wrun EXCEPT ![t].fresh = FALSE, ![t].handled = TRUE]
          /\ wretry' = [wretry EXCEPT ![t] = "idle"]
       \/ /\ RetryApplies(t)
          /\ MayTryAgain(t)
          /\ WUpdate(t, "in_progress", wrun[t].agent)
          /\ wrun' = NotFresh(t)
          /\ wretry' = [wretry EXCEPT ![t] = "claimed"]
    /\ UNCHANGED <<requested, picked, wwork, wfailures, wcrashes, orphaned>>

\* Variant: the event that names the failed run is not written.
RetryUnrecorded(t) == wrun

\* recordTaskRunRecovery.
RetryRecorded(t) == [wrun EXCEPT ![t].handled = TRUE]

\* triggerAgentForTask and the event that records how it went.  A task that
\* waits, or a failure to enqueue, gives the claim back.
TriggerRetry(t, ok) ==
    /\ wretry[t] = "claimed"
    /\ wretry' = [wretry EXCEPT ![t] = "idle"]
    /\ \/ /\ ok /\ WaitsOf(t) = {}
          /\ wwork' = wwork \cup {t}
          /\ wrun' = RetryRecorded(t)
          /\ UNCHANGED <<wtask, wwait>>
       \/ /\ ~ ok \/ WaitsOf(t) # {}
          /\ ~ WLocked(t)
          /\ IF wtask[t].agent = wrun[t].agent
               THEN /\ WUpdate(t, "todo", WNull)
                    /\ wrun' = [RetryRecorded(t) EXCEPT ![t].fresh = FALSE]
               ELSE /\ wrun' = RetryRecorded(t)
                    /\ UNCHANGED <<wtask, wwait>>
          /\ UNCHANGED wwork
    /\ UNCHANGED <<requested, picked, wfailures, wcrashes, orphaned>>

\* dispatchPendingAgentWork reads the task FOR SHARE: still this agent's work.
WorkAllowed(t) ==
    /\ wtask[t].status \in {"todo", "in_progress"}
    /\ wtask[t].agent \in {WNull, wrun[t].agent}
    /\ WaitsOf(t) = {}

DispatchTaskWork(t) ==
    /\ t \in wwork /\ ~ WLocked(t)
    /\ ~ WAgentBusy(wrun[t].agent)
    /\ wwork' = wwork \ {t}
    /\ IF WorkAllowed(t)
         THEN wrun' = [wrun EXCEPT ![t] = [@ EXCEPT !.state = "live", !.fresh = FALSE,
                            !.recoverable = FALSE, !.handled = FALSE, !.attempts = @ + 1]]
         ELSE UNCHANGED wrun
    /\ UNCHANGED <<wtask, wwait, requested, picked, wretry, wfailures, wcrashes, orphaned>>

\* The server stops: open transactions roll back, the retry loop starts anew.
WServerStops ==
    /\ wcrashes < MaxWCrashes
    /\ wcrashes' = wcrashes + 1
    /\ orphaned' = orphaned \cup {t \in WTasks : wretry[t] = "claimed"}
    /\ requested' = {} /\ picked' = WNull
    /\ wretry' = [t \in WTasks |-> "idle"]
    /\ UNCHANGED <<wtask, wwait, wrun, wwork, wfailures>>

-----------------------------------------------------------------------------
WaitUsers ==
    \/ \E t \in WTasks, a \in WAgents \cup {WNull} :
          \E st \in {"todo", "in_progress", "in_review", "done", "closed"} : BoardMove(t, st, a)
    \/ \E w \in Waits, t \in WTasks, k \in WaitKinds, d \in WTasks \cup {WNull} :
          WaitCheck(w, t, k, d)
    \/ \E w \in Waits, x \in {"cancel", "signal"} : ResolveTaskWait(w, x)
    \/ WServerStops

WaitLoops ==
    \/ \E q \in requested : WaitInsert(q)
    \/ \E w \in Waits : WaitTimePasses(w) \/ PickWait(w)
    \/ \E ok \in BOOLEAN : ResumeWait(ok)
    \/ \E t \in WTasks :
          \/ \E st \in {"completed", "failed"}, r \in BOOLEAN : EndTaskRun(t, st, r)
          \/ ListRetry(t)
          \/ RetryTaskRun(t)
          \/ \E ok \in BOOLEAN : TriggerRetry(t, ok)
          \/ DispatchTaskWork(t)

WaitNext == WaitUsers \/ WaitLoops

\* The background loops run forever and daemons come back; runs end by
\* themselves or by the watchdog.
WaitProgress ==
    \/ \E q \in requested : WaitInsert(q)
    \/ \E t \in WTasks :
          \/ \E st \in {"completed", "failed"}, r \in BOOLEAN : EndTaskRun(t, st, r)
          \/ ListRetry(t) \/ RetryTaskRun(t)
          \/ \E ok \in BOOLEAN : TriggerRetry(t, ok)
          \/ DispatchTaskWork(t)

WaitFairness ==
    /\ WF_waitVars(WaitProgress)
    /\ WF_waitVars(\E w \in Waits : WaitTimePasses(w))
    /\ WF_waitVars(\E w \in Waits : PickWait(w))
    /\ WF_waitVars(ResumeWait(FALSE)) /\ SF_waitVars(ResumeWait(TRUE))

WaitSpec == WaitInit /\ [][WaitNext]_waitVars

FairWaitSpec == WaitSpec /\ WaitFairness

-----------------------------------------------------------------------------
(* Properties                                                              *)

\* A wait that is still open belongs to the task as it is now: in progress, at
\* the version the wait names, held by the agent that will be resumed.
WaitFitsTask ==
    \A w \in Waits : Waiting(w) =>
        wtask[wwait[w].task] = [status |-> "in_progress", agent |-> wwait[w].agent,
                                version |-> wwait[w].version]

\* The cycle check of WaitTask and the lock it runs under: tasks never wait for
\* each other in a circle, however many requests register waits at once.
NoWaitingCycle ==
    \A p \in WaitEdges : ~ Reaches(WaitEdges, p[2], p[1])

\* dispatchTaskWait resumes a task only while the dependency it waited for is
\* done in the very state the resume commits in, and its agent is idle.
ResumesOnFacts ==
    [][\A w \in Waits :
          Waiting(w) /\ wwait'[w].state = "resumed" =>
             /\ Satisfied(w)
             /\ ~ WAgentBusy(wwait[w].agent)
             /\ wtask[wwait[w].task].agent = wwait[w].agent]_waitVars

\* No recovery and no queued work item starts a run of a task that has an open
\* wait: whatever order the loops and the request that registers the wait run
\* in, only the wait itself resumes the task.
WaitingTaskIsLeftAlone ==
    [][\A t \in WTasks :
          wrun'[t].attempts > wrun[t].attempts =>
             \A w \in WaitsOf(t) : wwait'[w].state = "resumed"]_waitVars

\* A wait whose condition holds and keeps holding is resumed or withdrawn.
ReadyWaitResumes ==
    \A w \in Waits : (Waiting(w) /\ Satisfied(w)) ~> ~ (Waiting(w) /\ Satisfied(w))

\* retryFailedTaskRuns comes to a decision on every failed run it may recover:
\* after the claim is committed the run is marked as handled, unless the server
\* stops exactly between that commit and the trigger.
FailureIsDecided ==
    \A t \in WTasks :
        /\ (RetryApplies(t) /\ WaitsOf(t) = {}) ~> ~ (RetryApplies(t) /\ WaitsOf(t) = {})
        /\ (wretry[t] = "claimed") ~> (wrun[t].handled \/ t \in orphaned)

\* What waits and retries promise: an open wait fits its task, tasks never wait
\* for each other in a circle, a task is resumed on facts that still hold, and
\* one that waits is left alone by every other loop.
WaitsPromise ==
    /\ []WaitTypeOK
    /\ []WaitFitsTask
    /\ []NoWaitingCycle
    /\ ResumesOnFacts
    /\ WaitingTaskIsLeftAlone
=============================================================================
