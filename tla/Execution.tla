------------------------------ MODULE Execution ------------------------------
(***************************************************************************)
(* Executions in the daemon (cmd/daemon/handler.go, task.go, code_gate.go).*)
(* A run that arrives is registered and gets a goroutine, which waits for  *)
(* the turn of its agent, drives a runtime and reports one outcome.  The   *)
(* server cancels, cleans agents up, delivers further attempts of a run    *)
(* and the daemon shuts down, all while goroutines are anywhere.  The      *)
(* model has one agent: only executions of one agent meet.                 *)
(***************************************************************************)
EXTENDS Naturals, Sequences, FiniteSets

CONSTANTS
    XTasks,        \* the tasks (runs) of the agent
    PathOf,        \* [XTasks -> {"backend", "provider", "review"}]
    XAttempts,      \* delivery attempts of a run
    MaxExecs,      \* bound on executions
    MaxStops       \* bound on cancellations and cleanups

ASSUME ExecutionConstants ==
    /\ PathOf \in [XTasks -> {"backend", "provider", "review"}]
    /\ MaxExecs \in Nat /\ MaxStops \in Nat

VARIABLES
    xstatus,     \* [XTasks -> status of the registered taskState]
    xattempt,    \* [XTasks -> the attempt it was registered for]
    exec,        \* [Execs -> goroutine started by startTask]
    xcancel,     \* [XTasks -> the execution whose cancel function is stored]
    xturn,       \* the execution that holds the turn of the agent
    marking,     \* tasks that CancelTask has cancelled and not marked yet
    cleaning,    \* tasks a cleanup of the agent still has to cancel
    xdown,       \* how far main has come in shutting down
    stops        \* cancellations and cleanups so far

execVars == <<xstatus, xattempt, exec, xcancel, xturn, marking, cleaning,
              xdown, stops>>

Execs == 1 .. MaxExecs
Nobody == 0

XActive == {"queued", "thinking"}
Outcomes == {"none", "completed", "failed", "cancelled"}

\* pc: where the goroutine is; stopped: its context is cancelled; live: a
\* runtime works for it; managed: the runtime is in a session manager; out:
\* what will be reported; said: its share of the event history of the task.
ExecRecord == [task : XTasks \cup {"none"}, stopped : BOOLEAN, live : BOOLEAN,
         managed : BOOLEAN, out : Outcomes,
         said : Seq({"started", "complete", "error", "done"}),
         pc : {"absent", "added", "waiting", "early", "prepare", "start", "begin",
               "stream", "result", "finish", "clear", "ended"}]

NoExec == [task |-> "none", stopped |-> FALSE, live |-> FALSE, managed |-> FALSE,
           out |-> "none", said |-> <<>>, pc |-> "absent"]

ExecInit ==
    /\ xstatus = [t \in XTasks |-> "absent"]
    /\ xattempt = [t \in XTasks |-> "none"]
    /\ exec = [e \in Execs |-> NoExec]
    /\ xcancel = [t \in XTasks |-> Nobody]
    /\ xturn = Nobody
    /\ marking = {} /\ cleaning = {}
    /\ xdown = "up" /\ stops = 0

At(e, pc) == exec[e].pc = pc
TaskOf(e) == exec[e].task
ShuttingDown == xdown # "up"

\* The goroutine of e goes on at pc with the fields of f changed.
Goes(e, f) == exec' = [exec EXCEPT ![e] = f]
Move(e, pc) == Goes(e, [exec[e] EXCEPT !.pc = pc])

\* finalizer.finish(status, event, data), after stopAndDrainContext where the
\* runtime still works.
Settle(e, out) == Goes(e, [exec[e] EXCEPT !.out = out, !.pc = "finish", !.live = FALSE])

\* The finalizer is suppressed: the server finds out by itself.
Suppress(e) == Goes(e, [exec[e] EXCEPT !.pc = "finish", !.live = FALSE])

UpdateStatus_(t, s) ==
    xstatus' = [xstatus EXCEPT ![t] = IF @ = "absent" THEN @ ELSE s]

\* PushSSEEvent for each event, and the goroutine goes on.
Say(e, evs, pc) ==
    Goes(e, [exec[e] EXCEPT !.said = @ \o evs, !.pc = pc])

Unmoved == UNCHANGED <<xattempt, xcancel, marking, cleaning, xdown, stops>>
-----------------------------------------------------------------------------
\* AddTask knows the attempt it registered last.
KnownAttempt(t, a) == xattempt[t] = a

\* startTask up to AddTask.  Another attempt of a known task replaces its state.
AddTask(e, t, a) ==
    /\ ~ KnownAttempt(t, a)
    /\ At(e, "absent") /\ \A x \in 1 .. (e - 1) : ~ At(x, "absent")
    /\ Goes(e, [NoExec EXCEPT !.task = t, !.pc = "added"])
    /\ xstatus' = [xstatus EXCEPT ![t] = "queued"]
    /\ xattempt' = [xattempt EXCEPT ![t] = a]
    /\ UNCHANGED <<xcancel, xturn, marking, cleaning, xdown, stops>>

\* SetCancelFunc and the start of the goroutine.
SetCancelFunc(e) ==
    /\ At(e, "added") /\ Move(e, "waiting")
    /\ xcancel' = [xcancel EXCEPT ![TaskOf(e)] = e]
    /\ UNCHANGED <<xstatus, xattempt, xturn, marking, cleaning, xdown, stops>>

\* Variant: the turn is not waited for.
TurnIgnored(e) == TRUE

TurnFree(e) == xturn = Nobody

\* processTaskStreaming: the turn of the agent, or the end of the context.
AcquireAgentTurn(e) ==
    /\ At(e, "waiting")
    /\ \/ TurnFree(e) /\ xturn' = e /\ Move(e, "prepare")
       \/ exec[e].stopped /\ Move(e, "early") /\ UNCHANGED xturn
    /\ UNCHANGED xstatus /\ Unmoved

\* finishCancelledTask for a goroutine that never got the turn.
FinishCancelledTask(e) ==
    /\ At(e, "early")
    /\ IF ShuttingDown
       THEN Move(e, "clear") /\ UNCHANGED xstatus
       ELSE UpdateStatus_(TaskOf(e), "cancelled") /\ Say(e, <<"error", "done">>, "clear")
    /\ UNCHANGED xturn /\ Unmoved

\* Workspace, attachments, skills: a failure is final.  The session manager then
\* delivers to a persistent session, fails for good (a fresh session was
\* required, the context is exhausted) or leaves the task to a runtime of its
\* own; the context is looked at once more before anything is reported as
\* started.  The provider path and the code gate have no sessions.
PrepareAndDispatch(e) ==
    /\ At(e, "prepare")
    /\ \/ Settle(e, "failed")
       \/ PathOf[TaskOf(e)] # "backend" /\ Move(e, "start")
       \/ /\ PathOf[TaskOf(e)] = "backend"
          /\ \/ exec[e].stopped /\ Settle(e, "cancelled")
             \/ ~ exec[e].stopped /\ Move(e, "start")
             \/ ~ exec[e].stopped
                /\ Goes(e, [exec[e] EXCEPT !.pc = "begin", !.live = TRUE, !.managed = TRUE])
    /\ UNCHANGED <<xstatus, xturn>> /\ Unmoved

\* backend.Execute, provider.CompleteStream or the code gate.  The code gate
\* reports its start before it runs.
StartRuntime(e) ==
    /\ At(e, "start")
    /\ \/ Goes(e, [exec[e] EXCEPT !.pc = "begin", !.live = TRUE])
       \/ PathOf[TaskOf(e)] # "review"
          /\ Settle(e, IF exec[e].stopped /\ PathOf[TaskOf(e)] = "backend"
                       THEN "cancelled" ELSE "failed")
    /\ UNCHANGED <<xstatus, xturn>> /\ Unmoved

\* backend_started; the code gate leaves the status as it is.
ReportStarted(e) ==
    /\ At(e, "begin") /\ Say(e, <<"started">>, "stream")
    /\ IF PathOf[TaskOf(e)] = "review" THEN UNCHANGED xstatus
       ELSE UpdateStatus_(TaskOf(e), "thinking")
    /\ UNCHANGED xturn /\ Unmoved

\* The stream of a backend: the context ends, an error comes, or it closes.
BackendStream(e) ==
    /\ At(e, "stream") /\ PathOf[TaskOf(e)] = "backend"
    /\ \/ exec[e].stopped /\ Settle(e, "cancelled")
       \/ IF ShuttingDown THEN Suppress(e) ELSE Settle(e, "failed")
       \/ IF ShuttingDown THEN Suppress(e)
          ELSE IF exec[e].stopped THEN Settle(e, "cancelled") ELSE Move(e, "result")
    /\ UNCHANGED <<xstatus, xturn>> /\ Unmoved

\* readBackendFinalResult: the result, the end of the context or a timeout.
ReadBackendFinalResult(e) ==
    /\ At(e, "result")
    /\ \E out \in {"completed", "failed", "cancelled"} : Settle(e, out)
    /\ UNCHANGED <<xstatus, xturn>> /\ Unmoved

\* The stream of an API provider, or the code gate and the report of its verdict:
\* neither looks at shuttingDown unless it was cancelled.
OtherStream(e) ==
    /\ At(e, "stream") /\ PathOf[TaskOf(e)] # "backend"
    /\ \/ Settle(e, "failed")
       \/ PathOf[TaskOf(e)] = "provider" /\ exec[e].stopped
          /\ IF ShuttingDown THEN Suppress(e) ELSE Settle(e, "cancelled")
       \/ (PathOf[TaskOf(e)] = "provider" => ~ exec[e].stopped) /\ Settle(e, "completed")
    /\ UNCHANGED <<xstatus, xturn>> /\ Unmoved

\* What an execution says at its end.  The provider path leaves a failed stream
\* without its end, and a suppressed finalizer says nothing.
Report(e) ==
    CASE exec[e].out = "none" -> <<>>
      [] exec[e].out = "completed" -> <<"complete", "done">>
      [] exec[e].out = "failed" /\ PathOf[TaskOf(e)] = "provider" -> <<"error">>
      [] OTHER -> <<"error", "done">>

\* finalize: the status of the task, the event, the end of the stream; then the
\* handler returns and gives the turn back.
Finalize(e) ==
    /\ At(e, "finish") /\ Say(e, Report(e), "clear")
    /\ IF exec[e].out = "none" THEN UNCHANGED xstatus ELSE UpdateStatus_(TaskOf(e), exec[e].out)
    /\ xturn' = IF xturn = e THEN Nobody ELSE xturn
    /\ Unmoved

\* The deferred ClearCancelFunc drops whatever is stored for the task.
ClearCancelFunc(e) ==
    /\ At(e, "clear")
    /\ Goes(e, [NoExec EXCEPT !.task = TaskOf(e), !.pc = "ended"])
    /\ xcancel' = [xcancel EXCEPT ![TaskOf(e)] = Nobody]
    /\ UNCHANGED <<xstatus, xattempt, xturn, marking, cleaning, xdown, stops>>
-----------------------------------------------------------------------------
\* CancelTask takes the stored function and calls it...
Cancelled(t) ==
    /\ xcancel[t] # Nobody
    /\ exec' = [exec EXCEPT ![xcancel[t]].stopped = TRUE]
    /\ xcancel' = [xcancel EXCEPT ![t] = Nobody]
    /\ marking' = marking \cup {t}

CancelTask(t) ==
    /\ stops < MaxStops /\ t \notin marking /\ Cancelled(t)
    /\ stops' = stops + 1
    /\ UNCHANGED <<xstatus, xattempt, xturn, cleaning, xdown>>

\* ... and marks the task afterwards, whatever became of it.
MarkCancelled(t) ==
    /\ t \in marking /\ marking' = marking \ {t} /\ UpdateStatus_(t, "cancelled")
    /\ UNCHANGED <<xattempt, exec, xcancel, xturn, cleaning, xdown, stops>>

\* cleanupAgent: the active tasks are listed, then cancelled one by one.
CleanupAgent(chosen) ==
    /\ stops < MaxStops /\ cleaning = {}
    /\ cleaning' = {t \in chosen : xstatus[t] \in XActive}
    /\ stops' = stops + 1
    /\ UNCHANGED <<xstatus, xattempt, exec, xcancel, xturn, marking, xdown>>

CleanupCancels(t) ==
    /\ t \in cleaning /\ t \notin marking /\ cleaning' = cleaning \ {t}
    /\ IF xcancel[t] = Nobody THEN UNCHANGED <<exec, xcancel, marking>>
       ELSE Cancelled(t)
    /\ UNCHANGED <<xstatus, xattempt, xturn, xdown, stops>>

\* main: shuttingDown, CloseAll of every session manager, release of the lock.
\* A managed runtime is closed, which ends its stream.
ShutDown ==
    /\ \/ xdown = "up" /\ xdown' = "stopping" /\ UNCHANGED exec
       \/ xdown = "stopping" /\ xdown' = "closed"
          /\ exec' = [e \in Execs |-> IF exec[e].managed THEN [exec[e] EXCEPT !.live = FALSE]
                                      ELSE exec[e]]
       \/ xdown = "closed" /\ xdown' = "released" /\ UNCHANGED exec
    /\ UNCHANGED <<xstatus, xattempt, xcancel, xturn, marking, cleaning, stops>>
-----------------------------------------------------------------------------
Goroutine(e) ==
    \/ SetCancelFunc(e) \/ AcquireAgentTurn(e) \/ FinishCancelledTask(e)
    \/ PrepareAndDispatch(e) \/ StartRuntime(e)
    \/ ReportStarted(e) \/ BackendStream(e) \/ ReadBackendFinalResult(e)
    \/ OtherStream(e) \/ Finalize(e) \/ ClearCancelFunc(e)

ExecNext ==
    \/ \E e \in Execs : Goroutine(e) \/ \E t \in XTasks, a \in XAttempts : AddTask(e, t, a)
    \/ \E t \in XTasks : CancelTask(t) \/ MarkCancelled(t) \/ CleanupCancels(t)
    \/ \E chosen \in SUBSET XTasks : CleanupAgent(chosen)
    \/ ShutDown

ExecSpec == ExecInit /\ [][ExecNext]_execVars

\* A runtime whose context is cancelled ends its stream; one that is not may
\* work for as long as it likes.
Unhindered(e) == At(e, "stream") => exec[e].stopped

ExecProgress == \E e \in Execs : Unhindered(e) /\ Goroutine(e)
ExecFairness == WF_execVars(ExecProgress)
FairExecSpec == ExecSpec /\ ExecFairness
-----------------------------------------------------------------------------
ExecTypeOK ==
    /\ xstatus \in [XTasks -> {"absent"} \cup XActive \cup Outcomes]
    /\ exec \in [Execs -> ExecRecord]
    /\ xcancel \in [XTasks -> Execs \cup {Nobody}]
    /\ xturn \in Execs \cup {Nobody}
    /\ marking \subseteq XTasks /\ cleaning \subseteq XTasks

\* The daemon lends the credential of a task only to the runtime that has the
\* turn: a task shown as thinking is the one that is executing, so the proxy
\* finds at most one.
CredentialOfTheTurn ==
    \A t \in XTasks :
        xstatus[t] = "thinking" /\ ~ ShuttingDown =>
            xturn # Nobody /\ TaskOf(xturn) = t

Terminals(e) == {i \in DOMAIN exec[e].said : exec[e].said[i] \in {"complete", "error"}}

\* Every execution reports one outcome, after its start, unless the daemon is
\* shutting down.
OneOutcome ==
    \A e \in Execs :
        /\ Cardinality(Terminals(e)) <= 1
        /\ \A i \in Terminals(e), j \in DOMAIN exec[e].said :
              exec[e].said[j] = "started" => j < i
        /\ At(e, "clear") /\ Terminals(e) = {} => ShuttingDown

\* "A completed task must never retain authority over a reused persistent
\* process": a stored cancel function belongs to a goroutine that still works.
NoStaleAuthority ==
    \A t \in XTasks :
        xcancel[t] # Nobody => TaskOf(xcancel[t]) = t /\ ~ At(xcancel[t], "ended")

\* A task whose goroutines have all ended is not listed as active any more.
EndedTaskIsSettled ==
    \A t \in XTasks :
        (\A e \in Execs : TaskOf(e) = t => At(e, "ended")) /\ ~ ShuttingDown =>
            xstatus[t] \notin XActive

\* A cancelled execution ends, also one that waits behind a busy runtime.
CancelledEnds ==
    \A e \in Execs : (exec[e].stopped ~> At(e, "ended"))

\* What the daemon promises about executions: credentials of the turn, one
\* outcome each, and no trace of a goroutine that has ended.
ExecutionPromise ==
    /\ ExecTypeOK
    /\ CredentialOfTheTurn
    /\ OneOutcome
    /\ NoStaleAuthority
    /\ EndedTaskIsSettled
=============================================================================
