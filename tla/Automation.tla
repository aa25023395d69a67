----------------------------- MODULE Automation -----------------------------
(***************************************************************************)
(* One automation: its definition row, the `automation_runs` it produced   *)
(* and, of the task of each run, what the scheduler looks at: status,      *)
(* claimer, latest primary agent run and open subtasks.  A wait of the      *)
(* task (module TaskResume) is between two of its runs.                    *)
(*                                                                         *)
(* dispatch holds the definition row FOR UPDATE until it commits; the      *)
(* trigger of the agent comes after the commit, so a crash can fall in     *)
(* between.  Agents and people act on the tasks meanwhile.                 *)
(***************************************************************************)
EXTENDS Naturals, FiniteSets

CONSTANTS
    Contracted,    \* TRUE: the definition carries a delivery contract
    MaxARuns,      \* bound on automation_runs rows
    MaxAEdits,     \* bound on edits of the definition
    MaxACrashes    \* bound on stops of the server

ASSUME AutomationConstants ==
    /\ Contracted \in BOOLEAN
    /\ MaxARuns \in Nat /\ MaxAEdits \in Nat /\ MaxACrashes \in Nat

VARIABLES
    adef,      \* the automations row
    arun,      \* [ARunIds -> automation_runs row], in the order of created_at
    atask,     \* [ARunIds -> the task of the run]
    untold,    \* runs committed by dispatch whose agent is not triggered yet
    aedits, acrashes

autoVars == <<adef, arun, atask, untold, aedits, acrashes>>

ARunIds == 1 .. MaxARuns

ADef == [enabled : BOOLEAN, due : BOOLEAN, review : BOOLEAN]

ARun == [status : {"absent", "running", "completed", "failed", "skipped"},
         coalesced : BOOLEAN]

\* work: the latest primary agent run of the task.
ATask == [status : {"none", "todo", "in_progress", "in_review", "done", "closed"},
          held : BOOLEAN, work : {"none", "queued", "live", "completed", "failed"},
          child : BOOLEAN]

AutoTypeOK ==
    /\ adef \in ADef
    /\ arun \in [ARunIds -> ARun]
    /\ atask \in [ARunIds -> ATask]
    /\ untold \subseteq ARunIds
    /\ aedits \in 0 .. MaxAEdits /\ acrashes \in 0 .. MaxACrashes

NoARun == [status |-> "absent", coalesced |-> FALSE]
NoATask == [status |-> "none", held |-> FALSE, work |-> "none", child |-> FALSE]

AutoInit ==
    /\ adef \in [enabled : BOOLEAN, due : {FALSE}, review : BOOLEAN]
    /\ Contracted => adef.review
    /\ arun = [i \in ARunIds |-> NoARun]
    /\ atask = [i \in ARunIds |-> NoATask]
    /\ untold = {}
    /\ aedits = 0 /\ acrashes = 0

-----------------------------------------------------------------------------
(* Reconciliation                                                          *)

Running(runs) == {i \in ARunIds : runs[i].status = "running"}

\* Variant: a subtask that is still open does not keep the run open.
WorkFinishedAlone(k) == k.work = "completed"

\* The latest primary run completed, none is active and no subtask is open.
WorkFinished(k) == k.work = "completed" /\ ~ k.child

\* The verdict of reconcileRuns on a running row.
Verdict(k) ==
    IF Contracted
      THEN CASE k.status = "done" -> "completed"
             [] k.status = "closed" -> "failed"
             [] k.status = "todo" /\ ~ k.held -> "failed"
             [] OTHER -> "running"
      ELSE CASE WorkFinished(k) -> "completed"
             [] k.status = "todo" /\ ~ k.held -> "failed"
             [] OTHER -> "running"

\* updateCompletedAutomationTask: the completion policy decides the status.
CompletedTask(k) ==
    IF ~ Contracted /\ k.status \in {"in_progress", "todo"}
      THEN [k EXCEPT !.status = IF adef.review THEN "in_review" ELSE "done"]
      ELSE k

ReconciledRuns ==
    [i \in ARunIds |-> IF i \in Running(arun)
                       THEN [arun[i] EXCEPT !.status = Verdict(atask[i])] ELSE arun[i]]

\* The scheduler reads the task of a run only while the run is open: once it is
\* settled the model keeps the task's status, until the next dispatch.
Left(k) == [NoATask EXCEPT !.status = k.status]

ReconciledTasks ==
    [i \in ARunIds |->
        CASE i \notin Running(arun) \/ Verdict(atask[i]) = "running" -> atask[i]
          [] Verdict(atask[i]) = "completed" -> Left(CompletedTask(atask[i]))
          [] OTHER -> Left(atask[i])]

\* reconcileRuns: the first part of a tick, in one transaction.
ReconcileRuns ==
    /\ ReconciledRuns # arun
    /\ arun' = ReconciledRuns
    /\ atask' = ReconciledTasks
    /\ UNCHANGED <<adef, untold, aedits, acrashes>>

\* Rows that count for the streak: all but the skips of a running automation.
Relevant(runs) == {i \in ARunIds : runs[i].status # "absent" /\ ~ runs[i].coalesced}

\* The last three relevant rows all failed or could not start.
FailureStreak(runs) ==
    \E a, b, c \in Relevant(runs) :
        /\ a < b /\ b < c
        /\ \A i \in Relevant(runs) : i \in {a, b, c} \/ i < a
        /\ \A i \in {a, b, c} : runs[i].status \in {"failed", "skipped"}

Paused(def, runs) ==
    IF def.enabled /\ FailureStreak(runs) THEN [def EXCEPT !.enabled = FALSE, !.due = FALSE]
    ELSE def

\* pauseRepeatedFailures, on every tick.
PauseRepeatedFailures ==
    /\ Paused(adef, arun) # adef
    /\ adef' = Paused(adef, arun)
    /\ UNCHANGED <<arun, atask, untold, aedits, acrashes>>

-----------------------------------------------------------------------------
(* Dispatch                                                                *)

\* automation_runs with status running, after the reconciliation.
AlreadyActive(runs) == Running(runs) # {}

\* dispatch up to its commit, from the scheduler or from RunNow; reachable says
\* whether the target agent is active and has a daemon.
Dispatch(source, reachable) ==
    LET runs  == ReconciledRuns
        i     == CHOOSE j \in ARunIds :
                    arun[j].status = "absent" /\ \A x \in 1 .. j - 1 : arun[x].status # "absent"
        moved == IF source = "scheduled" THEN [adef EXCEPT !.due = FALSE] ELSE adef
        Skip(coalesced) == [runs EXCEPT ![i] = [status |-> "skipped", coalesced |-> coalesced]]
    IN  /\ \E j \in ARunIds : arun[j].status = "absent"
        /\ source = "scheduled" => adef.enabled /\ adef.due
        /\ \/ /\ AlreadyActive(runs)
              /\ arun' = Skip(TRUE)
              /\ adef' = moved
              /\ atask' = ReconciledTasks
              /\ UNCHANGED untold
           \/ /\ ~ AlreadyActive(runs) /\ ~ reachable
              /\ arun' = Skip(FALSE)
              /\ adef' = Paused(moved, Skip(FALSE))
              /\ atask' = ReconciledTasks
              /\ UNCHANGED untold
           \/ /\ ~ AlreadyActive(runs) /\ reachable
              /\ arun' = [runs EXCEPT ![i] = [status |-> "running", coalesced |-> FALSE]]
              /\ adef' = moved
              /\ atask' = [j \in ARunIds |->
                    IF j = i THEN [NoATask EXCEPT !.status = "in_progress", !.held = TRUE]
                    ELSE IF j \in Running(runs) THEN ReconciledTasks[j] ELSE NoATask]
              /\ untold' = untold \cup {i}
        /\ UNCHANGED <<aedits, acrashes>>

\* TriggerAgentForTask after the commit: the work is queued, or
\* failDispatchedTask ends the run and closes the task.
TellAgent(i, ok) ==
    /\ i \in untold
    /\ untold' = untold \ {i}
    /\ IF ok
         THEN /\ atask' = [atask EXCEPT ![i].work = IF arun[i].status = "running" THEN "queued" ELSE @]
              /\ UNCHANGED <<arun, adef>>
         ELSE /\ arun' = [arun EXCEPT ![i].status = IF @ = "running" THEN "failed" ELSE @]
              /\ atask' = [atask EXCEPT ![i] = IF arun[i].status = "running" THEN Left(@) ELSE @]
              /\ adef' = Paused(adef, arun')
    /\ UNCHANGED <<aedits, acrashes>>

-----------------------------------------------------------------------------
(* The definition, the clock and the server                                *)

\* Create and Update: enabling computes the next occurrence, in the future.
UpdateAutomation(on, review) ==
    /\ aedits < MaxAEdits
    /\ aedits' = aedits + 1
    /\ adef' = [enabled |-> on, due |-> FALSE, review |-> review \/ Contracted]
    /\ UNCHANGED <<arun, atask, untold, acrashes>>

\* next_run_at comes; missed occurrences collapse into one.
OccurrenceComes ==
    /\ adef.enabled /\ ~ adef.due
    /\ adef' = [adef EXCEPT !.due = TRUE]
    /\ UNCHANGED <<arun, atask, untold, aedits, acrashes>>

AServerStops ==
    /\ acrashes < MaxACrashes
    /\ acrashes' = acrashes + 1
    /\ untold' = {}
    /\ UNCHANGED <<adef, arun, atask, aedits>>

-----------------------------------------------------------------------------
(* What agents and people do to the task of a run                          *)

OnTask(i, k) ==
    /\ arun[i].status = "running"
    /\ atask' = [atask EXCEPT ![i] = k]
    /\ UNCHANGED <<adef, arun, untold, aedits, acrashes>>

AWorkStarts(i) ==
    /\ atask[i].work = "queued"
    /\ OnTask(i, [atask[i] EXCEPT !.work =
          IF atask[i].status \in {"todo", "in_progress"} THEN "live" ELSE "none"])

AWorkEnds(i, how) ==
    /\ atask[i].work = "live"
    /\ OnTask(i, [atask[i] EXCEPT !.work = how])

\* retryTaskRun: queued again for its agent, or back to the people.
AWorkRetried(i, again) ==
    /\ atask[i].work = "failed" /\ atask[i].status \in {"todo", "in_progress"}
    /\ OnTask(i, IF again THEN [atask[i] EXCEPT !.work = "queued", !.held = TRUE,
                                                !.status = "in_progress"]
                 ELSE [atask[i] EXCEPT !.held = FALSE, !.status = "todo", !.work = "none"])

ASubtask(i, open) ==
    /\ atask[i].status \in {"todo", "in_progress"} /\ atask[i].child # open
    /\ OnTask(i, [atask[i] EXCEPT !.child = open])

\* Verdicts and close by people; a contract decides who may accept.
AHuman(i, st) ==
    /\ atask[i].status \in {"in_progress", "in_review"} /\ atask[i].status # st
    /\ st = "done" => ~ atask[i].child
    /\ OnTask(i, [atask[i] EXCEPT !.status = st])

-----------------------------------------------------------------------------
AutoScheduler ==
    \/ ReconcileRuns
    \/ PauseRepeatedFailures
    \/ \E reachable \in BOOLEAN : Dispatch("scheduled", reachable)
    \/ \E i \in ARunIds, ok \in BOOLEAN : TellAgent(i, ok)

AutoWorld ==
    \/ \E reachable \in BOOLEAN : Dispatch("manual", reachable)
    \/ \E on, review \in BOOLEAN : UpdateAutomation(on, review)
    \/ OccurrenceComes
    \/ AServerStops
    \/ \E i \in ARunIds :
          \/ AWorkStarts(i)
          \/ \E how \in {"completed", "failed"} : AWorkEnds(i, how)
          \/ \E again \in BOOLEAN : AWorkRetried(i, again)
          \/ \E open \in BOOLEAN : ASubtask(i, open)
          \/ \E st \in {"in_review", "done", "closed"} : AHuman(i, st)

AutoNext == AutoScheduler \/ AutoWorld

\* The scheduler ticks forever; an agent that was told works and stops.
AutoProgress ==
    \/ ReconcileRuns
    \/ \E i \in ARunIds, ok \in BOOLEAN : TellAgent(i, ok)
    \/ \E i \in ARunIds : AWorkStarts(i) \/ \E how \in {"completed", "failed"} : AWorkEnds(i, how)

AutoFairness == WF_autoVars(AutoProgress) /\ WF_autoVars(PauseRepeatedFailures)

AutoSpec == AutoInit /\ [][AutoNext]_autoVars

FairAutoSpec == AutoSpec /\ AutoFairness

-----------------------------------------------------------------------------
(* Properties                                                              *)

\* An automation works on one task at a time: a manual run, the scheduler and
\* the reconciliation never leave two running rows.
OneAutomationRun == \A i, j \in Running(arun) : i = j

\* A run is recorded as completed only on evidence: with a contract its task
\* was accepted, without one the agent's last run completed and every subtask
\* is finished.
CompletedOnEvidence ==
    [][\A i \in ARunIds :
          arun[i].status = "running" /\ arun'[i].status = "completed" =>
             IF Contracted THEN atask[i].status = "done"
             ELSE atask[i].work = "completed" /\ ~ atask[i].child]_autoVars

\* An automation whose last three relevant runs failed or could not start stops
\* being scheduled, unless somebody edits it or a later run changes the picture.
HopelessAutomationPauses ==
    (adef.enabled /\ FailureStreak(arun)) ~> ~ (adef.enabled /\ FailureStreak(arun))

Latest(n, set) == {i \in set : Cardinality({j \in set : j > i}) < n}

\* Only a person or three failures in a row pause an automation: one success or
\* one open run among the latest three keeps it alive, also when a dispatch
\* fails while a reconciliation records the success.
OneSuccessKeepsItAlive ==
    [][adef.enabled /\ ~ adef'.enabled /\ aedits' = aedits =>
          \A i \in Latest(3, Relevant(arun')) :
              arun'[i].status \notin {"completed", "running"}]_autoVars

\* What the scheduler promises: one run at a time, completed only on evidence,
\* and no pause as long as one of the last three runs came through.
AutomationPromise ==
    /\ []AutoTypeOK
    /\ []OneAutomationRun
    /\ CompletedOnEvidence
    /\ OneSuccessKeepsItAlive
=============================================================================
