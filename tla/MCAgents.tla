------------------------------- MODULE MCAgents -------------------------------
(***************************************************************************)
(* The records of agents at work: waits and retries of their tasks         *)
(* (TaskResume), runs and token ledger (RunLedger), sessions on the server *)
(* (SessionRollover) and processes in the daemon (DaemonSession); and what *)
(* surrounds their work: Lark and the claim window of a task               *)
(* (ClaimWindow). One component moves in each behaviour and the others     *)
(* rest, so a run is as large as the sum of its parts.                     *)
(***************************************************************************)
EXTENDS TaskResume, RunLedger, SessionRollover, DaemonSession, Lark,
        ClaimWindow

CONSTANT Parts  \* the components a run moves

VARIABLE part   \* the one that moves in this behaviour

CONSTANTS t1, t2

\* Two tasks that may wait for each other.
MCParent == [t \in WTasks |-> WNull]

WaitsAtRest ==
    /\ wtask = [t \in WTasks |-> [status |-> "in_progress",
                                  agent |-> CHOOSE a \in WAgents : TRUE, version |-> 1]]
    /\ wwait = [w \in Waits |-> WNull] /\ requested = {} /\ picked = WNull
    /\ wrun = [t \in WTasks |-> NoRun] /\ wretry = [t \in WTasks |-> "idle"]
    /\ wwork = {} /\ wfailures = 0 /\ wcrashes = 0 /\ orphaned = {}

\* A policy that no run has met yet.
LedgerAtRest ==
    /\ lpolicy = [p \in LPolicies |-> [enabled |-> TRUE, limit |-> 1]]
    /\ lagent = [a \in LAgents |-> TRUE] /\ lrun = [r \in LRuns |-> NoLRun]
    /\ usage = [r \in LRuns |-> NoUsage]
    /\ resv = [r \in LRuns |-> [p \in LPolicies |-> NoResv]]
    /\ starting = {} /\ pedits = 0 /\ months = 0

\* What the daemon observes of a turn: all is well, or a weak compaction.
GoodTurn == [compaction |-> "none", final |-> "high"]
WeakTurn == [compaction |-> "weak", final |-> "low"]
BothTurns == {GoodTurn, WeakTurn}
WeakTurns == {WeakTurn}

LarkAtRest == LarkInit /\ lbind = NoBinding

\* Around the work, what is promised to people: their conversation with Lark is neither
\* doubled nor crossed, and a task is kept for those it mentions.
ServicesPromise == LarkPromise /\ WindowPromise

mcVars == <<part, waitVars, ledgerVars, sessionVars, poolVars, larkVars, windowVars>>

MCInit ==
    /\ part \in Parts
    /\ IF part = "waits" THEN WaitInit ELSE WaitsAtRest
    /\ IF part = "ledger" THEN LedgerInit ELSE LedgerAtRest
    /\ SessionInit
    /\ PoolInit
    /\ IF part = "lark" THEN LarkInit ELSE LarkAtRest
    /\ WindowInit

MCNext ==
    \/ part = "waits" /\ WaitNext /\ UNCHANGED <<part, ledgerVars, sessionVars, poolVars, larkVars, windowVars>>
    \/ part = "ledger" /\ LedgerNext /\ UNCHANGED <<part, waitVars, sessionVars, poolVars, larkVars, windowVars>>
    \/ part = "sessions" /\ SessionNext /\ UNCHANGED <<part, waitVars, ledgerVars, poolVars, larkVars, windowVars>>
    \/ part = "pool" /\ PoolNext /\ UNCHANGED <<part, waitVars, ledgerVars, sessionVars, larkVars, windowVars>>
    \/ part = "lark" /\ LarkNext /\ UNCHANGED <<part, waitVars, ledgerVars, sessionVars, poolVars, windowVars>>
    \/ part = "window" /\ WindowNext /\ UNCHANGED <<part, waitVars, ledgerVars, sessionVars, poolVars, larkVars>>

MCSpec == MCInit /\ [][MCNext]_mcVars
===============================================================================
