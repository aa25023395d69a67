-------------------------------- MODULE MCRuns --------------------------------
(***************************************************************************)
(* Runs on their way: woken by messages and queued work (MessageWake),     *)
(* streamed from a local daemon (RunStream) and executed in the daemon     *)
(* (Execution). One component moves in each behaviour and the others rest, *)
(* so a run is as large as the sum of its parts.                           *)
(***************************************************************************)
EXTENDS MessageWake, RunStream, Execution

CONSTANT Parts  \* the components a run moves

VARIABLE part   \* the one that moves in this behaviour

\* One task per way of executing.
TaskPaths ==
    [t \in XTasks |-> CASE t = "b" -> "backend" [] t = "p" -> "provider"
                       [] OTHER -> "review"]

\* Runs come about and come to an end: a routed message reaches a daemon, a run
\* that streams from one is decided, and a cancelled execution gives its place up.
RunsProgress == MessagesReachADaemon /\ RunIsDecided /\ CancelledEnds

\* What happens to a run between the server and its daemon: its execution there takes
\* turns and ends once, and its stream is decided by one of the paths that race for it.
StreamingPromise == ExecutionPromise /\ RunStreamPromise

mcVars == <<part, vars, streamVars, execVars>>

MCInit ==
    /\ part \in Parts
    /\ Init
    /\ StreamInit
    /\ ExecInit

MCNext ==
    \/ part = "wake" /\ Next /\ UNCHANGED <<part, streamVars, execVars>>
    \/ part = "stream" /\ StreamNext /\ UNCHANGED <<part, vars, execVars>>
    \/ part = "exec" /\ ExecNext /\ UNCHANGED <<part, vars, streamVars>>

MCSpec == MCInit /\ [][MCNext]_mcVars

FairMCSpec ==
    /\ MCSpec
    /\ WF_vars(part = "wake" /\ Progress)
    /\ WF_streamVars(part = "stream" /\ StreamLoops)
    /\ WF_execVars(part = "exec" /\ ExecProgress)
===============================================================================
