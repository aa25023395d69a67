------------------------------ MODULE MCProgress ------------------------------
(***************************************************************************)
(* Progress: reviews (Task), waits and retries (TaskResume), automations   *)
(* (Automation), requests that send (Conversation), connections (Hub),     *)
(* returns of thinking nodes (Thinking) and turns in the daemon            *)
(* (DaemonSession), under the fairness of their loops. One component moves *)
(* in each behaviour and the others rest, so a run is as large as the sum  *)
(* of its parts.                                                           *)
(***************************************************************************)
EXTENDS Task, TaskResume, Automation, Conversation, Hub, Thinking,
        DaemonSession

CONSTANT Parts  \* the components a run moves

VARIABLE part   \* the one that moves in this behaviour

CONSTANTS h1, a2, t1, t2

MCOwner == [a \in Agents |-> h1]
MCSender == [m \in Messages |-> h1]
AgentGate == [kind |-> "agent", reviewer |-> a2, max |-> 2]
AgentOnly == {AgentGate}

\* t2 is a subtask of t1.
MCParent == [t \in WTasks |-> IF t = t2 THEN t1 ELSE WNull]

\* Tasks in work without a run: no loop has anything to do.
WaitsAtRest ==
    /\ wtask = [t \in WTasks |-> [status |-> "in_progress",
                                  agent |-> CHOOSE a \in WAgents : TRUE, version |-> 1]]
    /\ wwait = [w \in Waits |-> WNull] /\ requested = {} /\ picked = WNull
    /\ wrun = [t \in WTasks |-> NoRun] /\ wretry = [t \in WTasks |-> "idle"]
    /\ wwork = {} /\ wfailures = 0 /\ wcrashes = 0 /\ orphaned = {}

AutomationAtRest ==
    /\ adef = [enabled |-> FALSE, due |-> FALSE, review |-> TRUE]
    /\ arun = [i \in ARunIds |-> NoARun] /\ atask = [i \in ARunIds |-> NoATask]
    /\ untold = {} /\ aedits = 0 /\ acrashes = 0

Form(k, p, w, c, r, t, keep, task) ==
    [key |-> k, path |-> p, sender |-> w, scope |-> c, run |-> r, text |-> t,
     retain |-> keep, asTask |-> task]

\* What each of three requests may send: retries of one key over every path,
\* an agent's held draft, sends without a key and across scopes.
AllSends ==
    << {Form("k1", "create", "user", "th", "norun", "x", FALSE, FALSE),
        Form("k1", "dm", "user", "dm", "norun", "x", FALSE, TRUE),
        Form("nokey", "wsreply", "user", "th", "norun", "x", FALSE, FALSE),
        Form("nokey", "ws", "user", "top", "norun", "x", FALSE, FALSE)},
       {Form("k1", "dm", "user", "dm", "norun", "x", FALSE, TRUE),
        Form("k2", "create", "agent", "th", "r2", "e", FALSE, FALSE),
        Form("k2", "create", "agent", "th", "r1", "d", TRUE, FALSE),
        Form("nokey", "reply", "agent", "th", "norun", "x", FALSE, FALSE)},
       {Form("k3", "create", "agent", "th", "r1", "d", FALSE, FALSE)} >>

TwoSends ==
    << {Form("k1", "dm", "user", "dm", "norun", "x", FALSE, TRUE),
        Form("k1", "create", "agent", "th", "r1", "d", FALSE, FALSE)},
       {Form("k1", "dm", "user", "dm", "norun", "x", FALSE, TRUE),
        Form("k2", "create", "agent", "th", "r2", "e", FALSE, FALSE)} >>

RunScopes == [r \in CRuns |-> IF r = "r1" THEN "th" ELSE "top"]

\* Every request has been answered.
SendsAtRest ==
    /\ sending = [q \in SendIds |->
                    [Requested(CHOOSE s \in Menu[q] : TRUE) EXCEPT !.pc = "ended"]]
    /\ rows = <<>> /\ cache = [k \in SendKeys |-> Absent] /\ age = <<>>
    /\ crun = [r \in CRuns |-> [live |-> TRUE, seen |-> 0, draft |-> "none",
                                consumed |-> FALSE, shown |-> {}]]
    /\ replies = 0 /\ barred = FALSE /\ spent = 0

\* What the daemon observes of a turn: all is well, or a weak compaction.
GoodTurn == [compaction |-> "none", final |-> "high"]
WeakTurn == [compaction |-> "weak", final |-> "low"]
BothTurns == {GoodTurn, WeakTurn}
WeakTurns == {WeakTurn}

\* Work that waits for somebody is moved on: an agent review is decided, a wait
\* that is due resumes, a failed run is retried or handed back, and an automation
\* that only fails is paused.
WorkProgresses ==
    ReviewProgress /\ ReadyWaitResumes /\ FailureIsDecided /\ HopelessAutomationPauses

\* Whoever asks gets an answer: every send and every turn ends, a broken
\* connection is dropped, and a node that returns has returned or is released.
RequestsAreServed ==
    SendsEnd /\ RequestsEnd /\ BrokenConnectionIsDropped /\ ReturningEnds

mcVars == <<part, vars, waitVars, autoVars, convVars, hubVars, thinkVars, poolVars>>

MCInit ==
    /\ part \in Parts
    /\ Init
    /\ IF part = "waits" THEN WaitInit ELSE WaitsAtRest
    /\ IF part = "automation" THEN AutoInit ELSE AutomationAtRest
    /\ IF part = "sends" THEN ConvInit ELSE SendsAtRest
    /\ HubInit
    /\ ThinkInit
    /\ PoolInit

MCNext ==
    \/ part = "board" /\ Next /\ UNCHANGED <<part, waitVars, autoVars, convVars, hubVars, thinkVars, poolVars>>
    \/ part = "waits" /\ WaitNext /\ UNCHANGED <<part, vars, autoVars, convVars, hubVars, thinkVars, poolVars>>
    \/ part = "automation" /\ AutoNext /\ UNCHANGED <<part, vars, waitVars, convVars, hubVars, thinkVars, poolVars>>
    \/ part = "sends" /\ ConvNext /\ UNCHANGED <<part, vars, waitVars, autoVars, hubVars, thinkVars, poolVars>>
    \/ part = "hub" /\ HubNext /\ UNCHANGED <<part, vars, waitVars, autoVars, convVars, thinkVars, poolVars>>
    \/ part = "thinking" /\ ThinkNext /\ UNCHANGED <<part, vars, waitVars, autoVars, convVars, hubVars, poolVars>>
    \/ part = "pool" /\ PoolNext /\ UNCHANGED <<part, vars, waitVars, autoVars, convVars, hubVars, thinkVars>>

MCSpec == MCInit /\ [][MCNext]_mcVars

FairMCSpec ==
    /\ MCSpec
    /\ WF_vars(part = "board" /\ \E s \in Subs : (\E started \in BOOLEAN : DispatchTaskReview(s, started)) \/ FinishReviewRun(s))
    /\ WF_waitVars(part = "waits" /\ WaitProgress)
    /\ WF_waitVars(part = "waits" /\ \E w \in Waits : WaitTimePasses(w))
    /\ WF_waitVars(part = "waits" /\ \E w \in Waits : PickWait(w))
    /\ WF_waitVars(part = "waits" /\ ResumeWait(FALSE))
    /\ SF_waitVars(part = "waits" /\ ResumeWait(TRUE))
    /\ WF_autoVars(part = "automation" /\ AutoProgress)
    /\ WF_autoVars(part = "automation" /\ PauseRepeatedFailures)
    /\ WF_convVars(part = "sends" /\ \E q \in SendIds : Handler(q))
    /\ WF_hubVars(part = "hub" /\ Alive_(HubProgress))
    /\ WF_thinkVars(part = "thinking" /\ ThinkProgress)
    /\ WF_poolVars(part = "pool" /\ PoolProgress)
===============================================================================
