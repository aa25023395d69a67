------------------------------ MODULE RunStream ------------------------------
(***************************************************************************)
(* The life of one run as the server sees it (service/agent.go, daemon.go):*)
(* a goroutine dispatches it to a local daemon and consumes its events,    *)
(* asks once more for a visible result or a fresh session, and finishes    *)
(* the run.  The health loop, the watchdog and the reconciliation of a     *)
(* daemon that registers finish it too.  The wake of the messages of a run *)
(* is MessageWake, its tokens RunLedger, its session SessionRollover; runs *)
(* on a paired Computer are RemoteRun.                                     *)
(***************************************************************************)
EXTENDS Naturals, FiniteSets

CONSTANTS
    VisibleContract,   \* BOOLEAN: the run owes a visible message
    Consumers,         \* goroutines that may consume the run, in order: 1 .. n
    DTasks,            \* daemon tasks of the run, 1 is the run itself: 1 .. n
    DaemonOutcomes,    \* how a task may end by itself
    MaxRegs,           \* bound on registrations of the daemon
    MaxSFaults         \* bound on crashes and lost connections

ASSUME RunStreamConstants ==
    /\ VisibleContract \in BOOLEAN
    /\ Consumers \subseteq Nat /\ 1 \in Consumers
    /\ DTasks \subseteq Nat /\ 1 \in DTasks
    /\ DaemonOutcomes \subseteq {"completed", "failed", "cancelled", "timeout"}
    /\ MaxRegs \in Nat /\ MaxSFaults \in Nat

VARIABLES
    runRow,       \* the row of the run
    con,        \* [Consumers -> runStreamingAgentTask]
    tracked,    \* pendingTasks: [DTasks -> absent, queue or execution]
    dtask,      \* [DTasks -> the task in the daemon]
    dstate,     \* the daemon: up, down; and as the DaemonManager knows it
    reconciles,\* ReconcileDaemonRuns under way
    lost,       \* tasks of the health loop whose run is still to be finished
    sfaults,    \* crashes and lost connections so far
    regs,       \* registrations so far
    past        \* what happened: finishes, reminders, doubled consumers

streamVars == <<runRow, con, tracked, dtask, dstate, reconciles, lost,
                sfaults, regs, past>>

SActive == {"queued", "running"}
SFinal == {"completed", "failed", "cancelled", "timeout"}
RunLive == runRow.status \in SActive

NoCon == [pc |-> "none", task |-> 0, opened |-> {}, fresh |-> FALSE,
          reminder |-> FALSE, recovery |-> FALSE, started |-> FALSE,
          status |-> "none", missing |-> FALSE, retry |-> FALSE]

StreamInit ==
    /\ runRow = [status |-> "none", started |-> FALSE, visible |-> FALSE,
               held |-> FALSE, retryable |-> FALSE]
    /\ con = [c \in Consumers |-> IF c = 1 THEN [NoCon EXCEPT !.pc = "start", !.fresh = TRUE]
                                  ELSE NoCon]
    /\ tracked = [t \in DTasks |-> "absent"]
    /\ dtask = [t \in DTasks |-> "none"]
    /\ dstate = [up |-> TRUE, known |-> "online"]
    /\ reconciles = {} /\ lost = {}
    /\ sfaults = 0 /\ regs = 0
    /\ past = [finishes |-> 0, reminders |-> 0, doubled |-> FALSE, left |-> FALSE]

Goes_(c, f) == con' = [con EXCEPT ![c] = f]
Busy == {c \in Consumers : con[c].pc \notin {"none", "ended"}}

\* FinishRun, and the broadcast of agent.run.finished: only an active run.
FinishRun_(status, retry) ==
    IF RunLive
    THEN /\ runRow' = [runRow EXCEPT !.status = status, !.retryable = retry,
                                 !.visible = @ /\ status = "completed",
                                 !.held = @ /\ status = "completed"]
         /\ past' = [past EXCEPT !.finishes = @ + 1]
    ELSE UNCHANGED <<runRow, past>>

\* The deferred RemoveTask of a goroutine and of the ones it called.
Untracked(c) == [t \in DTasks |-> IF t \in con[c].opened THEN "absent" ELSE tracked[t]]
ConsumerEnded(c) == [NoCon EXCEPT !.pc = "ended"]
-----------------------------------------------------------------------------
\* StartRun, or its refusal by the budget.
StartRun_(c) ==
    /\ con[c].pc = "start"
    /\ \/ /\ runRow' = [runRow EXCEPT !.status = "queued"]
          /\ Goes_(c, [con[c] EXCEPT !.pc = "track", !.task = 1])
       \/ Goes_(c, ConsumerEnded(c)) /\ UNCHANGED runRow
    /\ UNCHANGED <<tracked, dtask, dstate, reconciles, lost, sfaults, regs, past>>

\* Revision and session are resolved, then TrackTask and AttachTaskRun; a
\* failure on the way is finishDispatchFailure.
TrackTask(c) ==
    /\ con[c].pc = "track"
    /\ \/ /\ tracked' = [tracked EXCEPT ![con[c].task] = "queue"]
          /\ Goes_(c, [con[c] EXCEPT !.pc = "send", !.opened = @ \cup {con[c].task}])
          /\ UNCHANGED <<runRow, past>>
       \/ /\ FinishRun_("failed", FALSE)
          /\ Goes_(c, ConsumerEnded(c)) /\ tracked' = Untracked(c)
    /\ UNCHANGED <<dtask, dstate, reconciles, lost, sfaults, regs>>

Fails(c, status, retry) ==
    [con[c] EXCEPT !.pc = "finish", !.status = status, !.retry = retry]

\* StreamTask sends the task and subscribes; SubscribeTask only subscribes.  The
\* daemon may take the task and the subscription fail.
StreamTask(c) ==
    /\ con[c].pc = "send"
    /\ LET t == con[c].task IN
       \/ /\ dstate.up /\ (con[c].fresh \/ dtask[t] # "none")
          /\ dtask' = [dtask EXCEPT ![t] = IF @ = "none" THEN "working" ELSE @]
          /\ Goes_(c, [con[c] EXCEPT !.pc = "stream"])
          /\ UNCHANGED sfaults
       \/ /\ ~ dstate.up \/ (~ con[c].fresh /\ dtask[t] = "none")
          /\ Goes_(c, Fails(c, "failed", TRUE))
          /\ UNCHANGED <<dtask, sfaults>>
       \/ /\ dstate.up /\ con[c].fresh /\ sfaults < MaxSFaults
          /\ sfaults' = sfaults + 1
          /\ dtask' = [dtask EXCEPT ![t] = IF @ = "none" THEN "working" ELSE @]
          /\ Goes_(c, Fails(c, "failed", TRUE))
    /\ UNCHANGED <<runRow, tracked, dstate, reconciles, lost, regs, past>>

\* backend_started: the row is marked once, the pending task for each attempt.  A
\* receipt that differs from the snapshot ends the run.
BackendStarted_(c) ==
    /\ con[c].pc = "stream" /\ dtask[con[c].task] # "none"
    /\ tracked[con[c].task] = "queue" \/ ~ con[c].started
    /\ \/ /\ con[c].started \/ RunLive
          /\ runRow' = IF con[c].started THEN runRow
                     ELSE [runRow EXCEPT !.started = TRUE, !.status = "running"]
          /\ tracked' = [tracked EXCEPT ![con[c].task] = IF @ = "queue" THEN "execution" ELSE @]
          /\ Goes_(c, [con[c] EXCEPT !.started = TRUE])
          /\ UNCHANGED past
       \/ /\ FinishRun_("failed", FALSE) /\ Goes_(c, Fails(c, "failed", FALSE))
          /\ UNCHANGED tracked
    /\ UNCHANGED <<dtask, dstate, reconciles, lost, sfaults, regs>>

\* agent.run.updated.
RunUpdated(c) ==
    /\ con[c].pc = "stream" /\ dtask[con[c].task] = "working" /\ con[c].started
    /\ runRow.status = "queued" /\ runRow' = [runRow EXCEPT !.status = "running"]
    /\ UNCHANGED <<con, tracked, dtask, dstate, reconciles, lost, sfaults, regs, past>>

\* complete, or error with what the daemon says of a retry, then done; or the
\* stream breaks off without either.
StreamEnds(c) ==
    /\ con[c].pc = "stream"
    /\ LET t == con[c].task IN
       \/ /\ dtask[t] \in SFinal
          /\ \E m, retry \in BOOLEAN :
                /\ m => dtask[t] = "failed" /\ ~ con[c].recovery /\ con[c].fresh /\ ~ retry
                /\ retry => dtask[t] = "failed"
                /\ Goes_(c, [Fails(c, dtask[t], retry) EXCEPT !.missing = m])
          /\ UNCHANGED sfaults
       \/ ~ dstate.up /\ Goes_(c, Fails(c, "failed", FALSE)) /\ UNCHANGED sfaults
       \/ /\ dstate.up /\ sfaults < MaxSFaults /\ sfaults' = sfaults + 1
          /\ Goes_(c, Fails(c, "failed", FALSE))
    /\ UNCHANGED <<runRow, tracked, dtask, dstate, reconciles, lost, regs, past>>

\* Variant: a second reminder follows the first.
RemindAgain(c) == TRUE

MayRemind(c) == ~ con[c].reminder

\* finishRun up to its decision: a run that is over is left alone; a failure
\* after a visible message is a success; a vanished session is replaced; an
\* answer without a visible or held message is asked for once.
DecideFinish(c) ==
    /\ con[c].pc = "finish"
    /\ LET failed == con[c].status \in {"failed", "timeout"}
           shown == VisibleContract /\ failed /\ runRow.visible
           status == IF shown THEN "completed" ELSE con[c].status
           owes == VisibleContract /\ status = "completed" /\ ~ runRow.visible /\ ~ runRow.held
       IN  IF ~ RunLive
           THEN Goes_(c, ConsumerEnded(c)) /\ tracked' = Untracked(c)
           ELSE /\ UNCHANGED tracked
                /\ Goes_(c, [con[c] EXCEPT
                     !.status = IF owes THEN "failed" ELSE status,
                     !.missing = @ /\ status = "failed",
                     !.retry = owes \/ (@ /\ ~ shown),
                     !.pc = IF (con[c].missing /\ status = "failed") \/ (owes /\ MayRemind(c))
                            THEN "again" ELSE "close"])
    /\ UNCHANGED <<runRow, dtask, dstate, reconciles, lost, sfaults, regs, past>>

FreshTask == {t \in DTasks : tracked[t] = "absent" /\ dtask[t] = "none" /\ t # 1
                /\ \A x \in Consumers : t \notin con[x].opened}

\* UpdateStatus to queued and the recursive call with a task of its own; the
\* outer call keeps its pending task until the inner one returns.
RunAgain(c) ==
    /\ con[c].pc = "again"
    /\ IF RunLive
       THEN \E t \in FreshTask :
              /\ \A u \in FreshTask : t <= u
              /\ runRow' = [runRow EXCEPT !.status = "queued"]
              /\ past' = [past EXCEPT !.reminders = IF con[c].missing THEN @ ELSE @ + 1]
              /\ Goes_(c, [con[c] EXCEPT !.pc = "track", !.task = t, !.fresh = TRUE,
                              !.recovery = @ \/ con[c].missing, !.missing = FALSE,
                              !.retry = FALSE,
                              !.reminder = @ \/ ~ con[c].missing])
       ELSE Goes_(c, [con[c] EXCEPT !.pc = "close"]) /\ UNCHANGED <<runRow, past>>
    /\ UNCHANGED <<tracked, dtask, dstate, reconciles, lost, sfaults, regs>>

\* requeueUndeliveredMessageWake (MessageWake), FinishRun and its events.
CloseRun(c) ==
    /\ con[c].pc = "close"
    /\ FinishRun_(con[c].status, con[c].retry)
    /\ Goes_(c, ConsumerEnded(c)) /\ tracked' = Untracked(c)
    /\ UNCHANGED <<dtask, dstate, reconciles, lost, sfaults, regs>>
-----------------------------------------------------------------------------
\* The agent posts, or its message is held for freshness.
AgentAnswers ==
    /\ RunLive /\ \E t \in DTasks : dtask[t] = "working"
    /\ \E held \in BOOLEAN :
          runRow' = IF held THEN [runRow EXCEPT !.held = TRUE] ELSE [runRow EXCEPT !.visible = TRUE]
    /\ runRow' # runRow
    /\ UNCHANGED <<con, tracked, dtask, dstate, reconciles, lost, sfaults, regs, past>>

DaemonEnds(t, out) ==
    /\ dstate.up /\ dtask[t] = "working" /\ dtask' = [dtask EXCEPT ![t] = out]
    /\ UNCHANGED <<runRow, con, tracked, dstate, reconciles, lost, sfaults, regs, past>>

\* Register: the daemon sends the tasks it knows, the reconciliation runs later.
RegisterDaemon ==
    /\ dstate.up /\ regs < MaxRegs /\ regs' = regs + 1
    /\ dstate' = [dstate EXCEPT !.known = "online"]
    /\ reconciles' = reconciles \cup
          {[id |-> regs, knows |-> dtask[1] # "none", stage |-> "list"]}
    /\ UNCHANGED <<runRow, con, tracked, dtask, lost, sfaults, past>>

\* ReconcileDaemonRuns: a run the daemon does not know is lost, one that nobody
\* consumes gets a consumer.
ReconcileDaemonRuns(r) ==
    /\ r \in reconciles /\ r.stage = "list"
    /\ IF RunLive /\ ~ r.knows
       THEN /\ tracked' = [tracked EXCEPT ![1] = "absent"] /\ FinishRun_("failed", TRUE)
            /\ reconciles' = reconciles \ {r}
       ELSE /\ reconciles' = (reconciles \ {r}) \cup
                  (IF RunLive /\ tracked[1] = "absent" THEN {[r EXCEPT !.stage = "adopt"]} ELSE {})
            /\ UNCHANGED <<tracked, runRow, past>>
    /\ UNCHANGED <<con, dtask, dstate, lost, sfaults, regs>>

\* Its tail: TrackTask and a goroutine for the run as it was read.
AdoptRun(r) ==
    /\ r \in reconciles /\ r.stage = "adopt" /\ reconciles' = reconciles \ {r}
    /\ \E c \in Consumers :
          /\ con[c].pc = "none" /\ \A x \in Consumers : x < c => con[x].pc # "none"
          /\ Goes_(c, [NoCon EXCEPT !.pc = "track", !.task = 1, !.started = runRow.started])
    /\ tracked' = [tracked EXCEPT ![1] = "queue"]
    /\ past' = [past EXCEPT !.doubled = @ \/ Busy # {}]
    /\ UNCHANGED <<runRow, dtask, dstate, lost, sfaults, regs>>

\* checkHealth: a daemon that missed its heartbeats is marked offline and its
\* tasks are lost...
MissesHeartbeats ==
    /\ dstate.known = "online" /\ lost = {}
    /\ dstate' = [dstate EXCEPT !.known = "offline"]
    /\ lost' = {[task |-> t, status |-> "failed"] : t \in {u \in DTasks : tracked[u] # "absent"}}
    /\ tracked' = [t \in DTasks |-> "absent"]
    /\ UNCHANGED <<runRow, con, dtask, reconciles, regs, past>>

DaemonOffline == ~ dstate.up /\ MissesHeartbeats /\ UNCHANGED sfaults

\* ... also one that works and whose heartbeats are lost...
DaemonSilent ==
    dstate.up /\ sfaults < MaxSFaults /\ sfaults' = sfaults + 1 /\ MissesHeartbeats

\* ... and tasks beyond the limit of their phase are timed out.  The loop takes
\* up nothing new before it has finished their runs.
RemoveStaleTasks(stale) ==
    /\ lost = {} /\ stale # {} /\ \A t \in stale : tracked[t] # "absent"
    /\ tracked' = [t \in DTasks |-> IF t \in stale THEN "absent" ELSE tracked[t]]
    /\ lost' = {[task |-> t, status |-> "timeout"] : t \in stale}
    /\ UNCHANGED <<runRow, con, dtask, dstate, reconciles, sfaults, regs, past>>

\* CancelTask of the DaemonManager; the daemon refuses what it does not execute.
CancelSucceeds(t) == dstate.up /\ dtask[t] = "working"
AfterCancel(t) == IF CancelSucceeds(t) THEN [dtask EXCEPT ![t] = "cancelled"] ELSE dtask

\* finishPendingTaskRun: the task is cancelled in a daemon that is online, then
\* the run is finished, to be retried unless the cancellation failed.
FinishPendingTaskRun(f) ==
    /\ f \in lost /\ lost' = lost \ {f}
    /\ IF dstate.known = "online"
       THEN dtask' = AfterCancel(f.task) /\ FinishRun_(f.status, CancelSucceeds(f.task))
       ELSE FinishRun_(f.status, TRUE) /\ UNCHANGED dtask
    /\ UNCHANGED <<con, tracked, dstate, reconciles, sfaults, regs>>

\* The two queries of the watchdog for runs that have had their time.
StaleQueued == runRow.status = "queued" /\ ~ runRow.started
StaleActive == runRow.status = "running" /\ runRow.started

\* finishTimedOutAgentRun cancels the task of the run, then finishes the run.
Watchdog ==
    /\ StaleQueued \/ StaleActive
    /\ LET reached == dstate.known = "online"
       IN  /\ dtask' = IF reached THEN AfterCancel(1) ELSE dtask
           /\ FinishRun_("timeout", reached /\ CancelSucceeds(1))
    /\ UNCHANGED <<con, tracked, dstate, reconciles, lost, sfaults, regs>>

\* A crash of the server: the goroutines and the DaemonManager are gone.  The
\* daemon learns it from the 404 of its next heartbeat.
ServerCrash ==
    /\ sfaults < MaxSFaults /\ sfaults' = sfaults + 1
    /\ con' = [c \in Consumers |-> IF con[c].pc = "none" THEN con[c] ELSE ConsumerEnded(c)]
    /\ tracked' = [t \in DTasks |-> "absent"]
    /\ reconciles' = {} /\ lost' = {}
    /\ dstate' = [dstate EXCEPT !.known = "unknown"]
    /\ past' = [past EXCEPT !.left = @ \/ (runRow.status = "queued" /\ runRow.started)]
    /\ UNCHANGED <<runRow, dtask, regs>>

DaemonStops ==
    /\ dstate.up /\ sfaults < MaxSFaults /\ sfaults' = sfaults + 1
    /\ dstate' = [dstate EXCEPT !.up = FALSE]
    /\ dtask' = [t \in DTasks |-> "none"]
    /\ UNCHANGED <<runRow, con, tracked, reconciles, lost, regs, past>>

DaemonStarts ==
    /\ ~ dstate.up /\ regs < MaxRegs /\ dstate' = [dstate EXCEPT !.up = TRUE]
    /\ UNCHANGED <<runRow, con, tracked, dtask, reconciles, lost, sfaults, regs, past>>
-----------------------------------------------------------------------------
ConsumeRun(c) ==
    \/ StartRun_(c) \/ TrackTask(c) \/ StreamTask(c) \/ BackendStarted_(c)
    \/ RunUpdated(c) \/ StreamEnds(c) \/ DecideFinish(c) \/ RunAgain(c) \/ CloseRun(c)

StreamLoops ==
    \/ \E c \in Consumers : ConsumeRun(c)
    \/ \E r \in reconciles : ReconcileDaemonRuns(r) \/ AdoptRun(r)
    \/ \E f \in lost : FinishPendingTaskRun(f)
    \/ RunLive /\ (DaemonOffline \/ Watchdog \/ \E stale \in SUBSET DTasks : RemoveStaleTasks(stale))

\* What happens around the run is followed until it is over.
StreamNext ==
    \/ StreamLoops
    \/ /\ runRow.status \notin SFinal
       /\ \/ AgentAnswers \/ \E t \in DTasks, out \in DaemonOutcomes : DaemonEnds(t, out)
          \/ RegisterDaemon \/ DaemonSilent \/ ServerCrash \/ DaemonStops \/ DaemonStarts

StreamSpec == StreamInit /\ [][StreamNext]_streamVars
FairStreamSpec == StreamSpec /\ WF_streamVars(StreamLoops)
-----------------------------------------------------------------------------
StreamTypeOK ==
    /\ runRow.status \in {"none"} \cup SActive \cup SFinal
    /\ \A t \in DTasks : /\ tracked[t] \in {"absent", "queue", "execution"}
                         /\ dtask[t] \in {"none", "working"} \cup SFinal
    /\ \A c \in Consumers : con[c].opened \subseteq DTasks

\* However many goroutines and loops end a run, it is finished once.
FinishedOnce == past.finishes <= 1 /\ (runRow.status \in SFinal => past.finishes = 1)

\* A run that owes a visible message is completed only with one, or with one
\* that is held.
CompletedShowsResult ==
    runRow.status = "completed" /\ VisibleContract => runRow.visible \/ runRow.held

\* "retrying once for a visible result": twice only when two goroutines consume
\* the run or the server stopped in between.
RemindedOnce == past.reminders > 1 => past.doubled \/ sfaults > 0

\* A run in work is never out of sight: somebody consumes it, the health loop
\* holds its task, the watchdog finds it; the exception is a second attempt that
\* a crash interrupts, which waits for its daemon to register.
ActiveIsWatched ==
    RunLive => \/ Busy # {} \/ lost # {} \/ \E t \in DTasks : tracked[t] # "absent"
            \/ StaleQueued \/ StaleActive \/ past.left

\* "Only when the old run is final and its local runtime is known to have stopped
\* may the next run be created": a failure that may be retried leaves no task at
\* work.
RetriedIsStopped ==
    runRow.status \in SFinal /\ runRow.retryable => \A t \in DTasks : dtask[t] # "working"

RunStreamPromise ==
    StreamTypeOK /\ FinishedOnce /\ CompletedShowsResult /\ RemindedOnce /\ ActiveIsWatched

\* A run that was started is decided.
RunIsDecided == (runRow.status \in SActive /\ ~ past.left) ~> (~ RunLive \/ past.left)
=============================================================================
