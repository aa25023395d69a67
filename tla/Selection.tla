------------------------------- MODULE Selection --------------------------------
(***************************************************************************)
(* An agent's candidate revision is compared with its baseline: a clone of *)
(* each does the fixed task of its trial, a clone of a receiver consumes   *)
(* what the candidate submitted.  The owner decides on the evidence, and   *)
(* an accepted comparison lets the candidate be published as the live      *)
(* configuration of the agent or applied to its team.  The evidence is     *)
(* read more than once while tasks are reopened, clones edited and runs    *)
(* started: row locks of the selection, a trigger that takes an acceptance *)
(* back, and a second reading before publication are what holds it.        *)
(*                                                                         *)
(* One case, reviewed by a person; every run is of a clone.                *)
(***************************************************************************)
EXTENDS Naturals

CONSTANTS
    MaxAttempts,  \* runs a task may get; three in the code
    MaxSubs,      \* bound: submissions of a task
    MaxOwner      \* bound: what the owner does beside reviewing

ASSUME SelectionConstants == {MaxAttempts, MaxSubs} \subseteq Nat \ {0} /\ MaxOwner \in Nat

VARIABLES
    comparison, \* agent_selections.status
    proof,      \* the evidence that its acceptance rests on
    trial,      \* by arm: the task and its row of the selection
    trialRun,   \* by arm: its latest run
    spent,      \* the trials' token usage: known and within the budget, or not
    unchanged,  \* every clone still has its revision's configuration
    dispatching, \* the dispatcher's transaction
    deciding,   \* the owner's decision, alone or on the way to the team
    publishing, \* the publication of the revision, or of the team's version
    updating,   \* the owner's update of a task
    live,       \* the agent's own configuration
    published,  \* the candidate was published before
    team,       \* the team's version
    asked,      \* how much the owner did
    overlapped       \* an update began before the evidence was decided on and ended after

selectionVars == <<comparison, proof, trial, trialRun, spent, unchanged, dispatching, deciding,
                   publishing, updating, live, published, team, asked, overlapped>>
tablesKept == UNCHANGED <<live, published, team, asked>>

Arms == {"baseline", "candidate", "receiver"}
Open == {"running", "observe"}
TerminalStatuses == {"done", "closed"}

Idle == [pc |-> "no", arm |-> "none", closing |-> {}, input |-> 0]
Undecided == [pc |-> "no", verdict |-> "none", evidence |-> "none", apply |-> FALSE,
              overlapped |-> FALSE]
Unpublished == [pc |-> "no", what |-> "none", from |-> "none"]
NoUpdate == [arm |-> "none", to |-> "none", fences |-> FALSE, after |-> FALSE]

\* CreateAgentSelection commits the clones with their claimed tasks.  What comes after is
\* followed for the candidate and its receiver, the owner having decided to observe once, or
\* for the baseline when those two are done.
FreshTask == [status |-> "in_progress", sub |-> 0, input |-> 0, attempts |-> 0]
Accepted(input) == [status |-> "done", sub |-> 1, input |-> input, attempts |-> 1]

SelectionInit ==
    /\ comparison = "running" /\ proof = "none"
    /\ \E early \in {{"baseline"}, {"candidate", "receiver"}} :
          /\ trial = [a \in Arms |-> IF a \in early THEN Accepted(IF a = "receiver" THEN 1 ELSE 0)
                                                    ELSE FreshTask]
          /\ trialRun = [a \in Arms |-> IF a \in early THEN "finished" ELSE "none"]
          /\ asked = IF "baseline" \in early THEN 1 ELSE 0
    /\ spent = "within" /\ unchanged = TRUE
    /\ dispatching = Idle /\ deciding = Undecided /\ publishing = Unpublished
    /\ updating = NoUpdate
    /\ live = "baseline" /\ published = FALSE /\ team = "none"
    /\ overlapped = FALSE

SelectionTypeOK ==
    /\ comparison \in Open \cup {"accepted", "rejected"}
    /\ \A a \in Arms : /\ trial[a].status \in {"todo", "in_progress", "in_review"} \cup TerminalStatuses
                       /\ trial[a].sub \in 0..MaxSubs /\ trial[a].input \in 0..MaxSubs
                       /\ trial[a].attempts \in 0..MaxAttempts
    /\ trialRun \in [Arms -> {"none", "active", "finished"}]
    /\ spent \in {"within", "unproven"}
    /\ {unchanged, published, overlapped} \subseteq BOOLEAN
    /\ live \in {"baseline", "candidate", "other"}
    /\ team \in {"none", "drafted", "applied"}

-----------------------------------------------------------------------------
(* The evidence, and the locks of the selection's row.                     *)

\* selectionResults of the tasks.
Results == [tasks |-> trial, valid |-> unchanged, used |-> spent]

NoneActive == \A a \in Arms : trialRun[a] # "active"

\* validateSelectionAcceptance
Acceptable(r) ==
    /\ r.valid /\ r.used = "within" /\ NoneActive
    /\ \A a \in Arms : r.tasks[a].attempts > 0 /\ r.tasks[a].status \in TerminalStatuses
    /\ \A a \in {"candidate", "receiver"} : r.tasks[a].status = "done"
    /\ r.tasks["receiver"].input = r.tasks["candidate"].sub

\* FOR UPDATE by a decision, and the trigger's update of an uncommitted task update.
NoWriter == deciding.pc = "no" /\ ~updating.fences
\* FOR SHARE by a run's validation and by a publication.
NoReader == dispatching.pc # "validated" /\ publishing.pc # "checked"

\* Rows of tasks that an open transaction holds.
Held == {updating.arm} \cup (IF dispatching.pc = "no" THEN {}
                             ELSE {dispatching.arm} \cup dispatching.closing)

-----------------------------------------------------------------------------
(* The dispatcher.                                                         *)

\* No accepted output to consume, or three runs without an accepted delivery.
Blocked(a) == /\ a = "receiver" /\ trial["candidate"].status = "closed"
              /\ trialRun[a] # "active"
Exhausted(a) == trial[a].attempts >= MaxAttempts /\ trialRun[a] = "finished"
Closing == {a \in Arms \ Held : /\ comparison \in Open /\ trial[a].status = "in_progress"
                                /\ Blocked(a) \/ Exhausted(a)}

Dispatchable(a) ==
    /\ comparison \in Open /\ a \notin Held \cup Closing
    /\ trial[a].status = "in_progress" /\ trial[a].attempts < MaxAttempts
    /\ trialRun[a] # "active"
    /\ a = "receiver" => trial["candidate"].status = "done"

Closed(tasks, arms) == [a \in Arms |-> IF a \in arms THEN [tasks[a] EXCEPT !.status = "closed"]
                                       ELSE tasks[a]]

(* The task's row is locked; what is closed shows when all commits.        *)
PickTask(a) ==
    /\ dispatching.pc = "no" /\ Dispatchable(a)
    /\ dispatching' = [pc |-> "picked", arm |-> a, closing |-> Closing, input |-> 0]
    /\ UNCHANGED <<comparison, proof, trial, trialRun, spent, unchanged, deciding, publishing,
                   updating, overlapped>>
    /\ tablesKept

CloseOnly ==
    /\ dispatching.pc = "no" /\ Closing # {} /\ \A a \in Arms : ~Dispatchable(a)
    /\ trial' = Closed(trial, Closing)
    /\ UNCHANGED <<comparison, proof, trialRun, spent, unchanged, dispatching, deciding,
                   publishing, updating, overlapped>>
    /\ tablesKept

(* Another dispatcher has the agent, or it is not the task's turn: all is  *)
(* rolled back.                                                            *)
DispatchYields ==
    /\ dispatching.pc = "picked" /\ dispatching' = Idle
    /\ UNCHANGED <<comparison, proof, trial, trialRun, spent, unchanged, deciding, publishing,
                   updating, overlapped>>
    /\ tablesKept

\* validateSelectionRunTx waits for a decision; the receiver's dispatch waits for an update of
\* the candidate's task.
MayValidate == /\ NoWriter
               /\ dispatching.arm = "receiver" => updating.arm # "candidate"

RunAllowed == /\ comparison \in Open /\ unchanged
              /\ dispatching.arm = "receiver" => trial["candidate"].status = "done"

(* The run is inserted, or the attempt put off and what was closed kept.   *)
ValidateRun ==
    /\ dispatching.pc = "picked" /\ MayValidate
    /\ IF RunAllowed
         THEN /\ dispatching' = [pc |-> "validated", arm |-> dispatching.arm,
                   closing |-> dispatching.closing,
                   input |-> IF dispatching.arm = "receiver" THEN trial["candidate"].sub ELSE 0]
              /\ UNCHANGED trial
         ELSE dispatching' = Idle /\ trial' = Closed(trial, dispatching.closing)
    /\ UNCHANGED <<comparison, proof, trialRun, spent, unchanged, deciding, publishing,
                   updating, overlapped>>
    /\ tablesKept

CommitRun ==
    /\ dispatching.pc = "validated" /\ dispatching' = Idle
    /\ trial' = [a \in Arms |-> IF a = dispatching.arm
                  THEN [status |-> trial[a].status, sub |-> trial[a].sub,
                        input |-> dispatching.input, attempts |-> trial[a].attempts + 1]
                  ELSE Closed(trial, dispatching.closing)[a]]
    /\ trialRun' = [trialRun EXCEPT ![dispatching.arm] = "active"]
    /\ UNCHANGED <<comparison, proof, spent, unchanged, deciding, publishing, updating, overlapped>>
    /\ tablesKept

-----------------------------------------------------------------------------
(* The clones and the reviewer.                                            *)

Submit(a) ==
    /\ trialRun[a] = "active" /\ trial[a].status = "in_progress" /\ trial[a].sub < MaxSubs
    /\ a \notin Held
    /\ trial' = [trial EXCEPT ![a] = [status |-> "in_review", sub |-> trial[a].sub + 1,
                                      input |-> trial[a].input, attempts |-> trial[a].attempts]]
    /\ UNCHANGED <<comparison, proof, trialRun, spent, unchanged, dispatching, deciding,
                   publishing, updating, overlapped>>
    /\ tablesKept

ReviewTrial(a, ok) ==
    /\ trial[a].status = "in_review" /\ a \notin Held
    /\ trial' = [trial EXCEPT ![a].status = IF ok THEN "done" ELSE "in_progress"]
    /\ UNCHANGED <<comparison, proof, trialRun, spent, unchanged, dispatching, deciding,
                   publishing, updating, overlapped>>
    /\ tablesKept

(* A run ends with its tokens known and within the trial's budget, or not  *)
(* known: no later settlement makes up for that.                           *)
EndTrialRun(a) ==
    /\ trialRun[a] = "active"
    /\ trialRun' = [trialRun EXCEPT ![a] = "finished"]
    /\ spent' \in {spent, "unproven"}
    /\ UNCHANGED <<comparison, proof, trial, unchanged, dispatching, deciding, publishing,
                   updating, overlapped>>
    /\ tablesKept

-----------------------------------------------------------------------------
(* The owner.                                                              *)

OwnerActs == asked < MaxOwner /\ asked' = asked + 1

\* A change that a decision or a publication, which has read, does not see.
DecisionOverlaps ==
    deciding' = [deciding EXCEPT !.overlapped = @ \/ deciding.pc \in {"read", "checked"}]

Overlaps == DecisionOverlaps /\ overlapped' = (overlapped \/ publishing.pc = "checked")

(* Reopening or closing a task of the comparison.  The trigger takes an    *)
(* acceptance back that it sees, waiting for whoever locked the selection; *)
(* another status needs no change and no waiting.                          *)
UpdateTask(a, to) ==
    /\ updating = NoUpdate /\ a \notin Held /\ OwnerActs
    /\ \/ trial[a].status \in TerminalStatuses /\ to = "todo"
       \/ trial[a].status \notin TerminalStatuses /\ to = "closed"
    /\ comparison = "accepted" => NoWriter /\ NoReader
    /\ updating' = [arm |-> a, to |-> to, fences |-> comparison = "accepted",
                    after |-> comparison = "accepted"]
    /\ UNCHANGED <<comparison, proof, trial, trialRun, spent, unchanged, dispatching, deciding,
                   publishing, live, published, team, overlapped>>

CommitUpdate ==
    /\ updating # NoUpdate /\ updating' = NoUpdate
    /\ trial' = [trial EXCEPT ![updating.arm].status = updating.to]
    /\ comparison' = IF updating.fences THEN "observe" ELSE comparison
    /\ proof' = IF updating.fences THEN "none" ELSE proof
    /\ overlapped' = (overlapped \/ (~updating.after /\ comparison = "accepted"))
    /\ DecisionOverlaps
    /\ UNCHANGED <<trialRun, spent, unchanged, dispatching, publishing>>
    /\ tablesKept

(* A clone is edited like any agent of the owner, and may be edited back.  *)
EditClone ==
    /\ OwnerActs /\ unchanged' = ~unchanged
    /\ Overlaps
    /\ UNCHANGED <<comparison, proof, trial, trialRun, spent, dispatching, publishing,
                   updating, live, published, team>>

(* The agent itself is edited; its row is locked while it is published.    *)
EditAgent(config) ==
    /\ OwnerActs /\ live # config /\ live' = config
    /\ ~(publishing.pc # "no" /\ publishing.what = "revision")
    /\ Overlaps
    /\ UNCHANGED <<comparison, proof, trial, trialRun, spent, unchanged, dispatching,
                   publishing, updating, published, team>>

(* The selection is locked first; to apply the candidate to the team, its  *)
(* present version must be the baseline.                                   *)
LockDecision(verdict, apply) ==
    /\ deciding = Undecided /\ NoWriter /\ NoReader /\ OwnerActs
    /\ apply => /\ verdict = "accepted" /\ team = "none" /\ live = "baseline"
                /\ ~(publishing.pc # "no" /\ publishing.what = "team")
    /\ deciding' = [pc |-> "locked", verdict |-> verdict, evidence |-> "none", apply |-> apply,
                    overlapped |-> FALSE]
    /\ UNCHANGED <<comparison, proof, trial, trialRun, spent, unchanged, dispatching, publishing,
                   updating, live, published, team, overlapped>>

ReadEvidence ==
    /\ deciding.pc = "locked"
    /\ deciding' = IF deciding.verdict = "accepted" /\ ~Acceptable(Results) THEN Undecided
                   ELSE [pc |-> "read", verdict |-> deciding.verdict, evidence |-> Results,
                         apply |-> deciding.apply, overlapped |-> deciding.overlapped]
    /\ UNCHANGED <<comparison, proof, trial, trialRun, spent, unchanged, dispatching, publishing,
                   updating, overlapped>>
    /\ tablesKept

\* selectionPublicationAllowed: the evidence again, and the same.
StillProven(evidence) == Acceptable(Results) /\ Results = evidence

(* Applying reads it a second time, after its own decision.                *)
CheckApplication ==
    /\ deciding.pc = "read" /\ deciding.apply
    /\ deciding' = IF StillProven(deciding.evidence) /\ live = "baseline"
                   THEN [deciding EXCEPT !.pc = "checked"] ELSE Undecided
    /\ UNCHANGED <<comparison, proof, trial, trialRun, spent, unchanged, dispatching, publishing,
                   updating, overlapped>>
    /\ tablesKept

(* A team with members of other owners waits for their approval.           *)
CommitDecision ==
    /\ deciding.pc = (IF deciding.apply THEN "checked" ELSE "read")
    /\ comparison' = deciding.verdict
    /\ proof' = IF deciding.verdict = "accepted" THEN deciding.evidence ELSE "none"
    /\ IF deciding.apply THEN team' \in {"drafted", "applied"} ELSE UNCHANGED team
    /\ deciding' = Undecided /\ overlapped' = deciding.overlapped
    /\ UNCHANGED <<trial, trialRun, spent, unchanged, dispatching, publishing, updating, live,
                   published, asked>>

(* PublishAgentRevision locks the agent, an approval of the drafted        *)
(* version locks the channel.                                              *)
LockPublication(what) ==
    /\ publishing = Unpublished /\ OwnerActs
    /\ what = "team" => team = "drafted" /\ ~deciding.apply
    /\ publishing' = [pc |-> "locked", what |-> what, from |-> live]
    /\ UNCHANGED <<comparison, proof, trial, trialRun, spent, unchanged, dispatching, deciding,
                   updating, live, published, team, overlapped>>

PublicationAllowed ==
    /\ comparison = "accepted" /\ StillProven(proof)
    /\ publishing.what = "revision" => publishing.from = "baseline"
    /\ publishing.what = "team" => live = "baseline"

(* A revision that was live before needs no comparison.                    *)
CheckPublication ==
    /\ publishing.pc = "locked"
    /\ IF publishing.what = "revision" /\ published
         THEN publishing' = [publishing EXCEPT !.pc = "checked"]
         ELSE /\ NoWriter
              /\ publishing' = IF PublicationAllowed THEN [publishing EXCEPT !.pc = "checked"]
                               ELSE Unpublished
    /\ UNCHANGED <<comparison, proof, trial, trialRun, spent, unchanged, dispatching, deciding,
                   updating, overlapped>>
    /\ tablesKept

CommitPublication ==
    /\ publishing.pc = "checked" /\ publishing' = Unpublished
    /\ IF publishing.what = "revision"
         THEN live' = "candidate" /\ published' = TRUE /\ DecisionOverlaps /\ UNCHANGED team
         ELSE team' = "applied" /\ UNCHANGED <<live, published, deciding>>
    /\ UNCHANGED <<comparison, proof, trial, trialRun, spent, unchanged, dispatching, updating,
                   asked, overlapped>>

SelectionNext ==
    \/ \E a \in Arms : PickTask(a) \/ Submit(a) \/ EndTrialRun(a) \/ \E ok \in BOOLEAN : ReviewTrial(a, ok)
    \/ CloseOnly \/ DispatchYields \/ ValidateRun \/ CommitRun
    \/ \E a \in Arms, to \in {"todo", "closed"} : UpdateTask(a, to)
    \/ CommitUpdate \/ EditClone
    \/ \E config \in {"baseline", "other"} : EditAgent(config)
    \/ \E verdict \in {"accepted", "rejected", "observe"}, apply \in BOOLEAN :
          LockDecision(verdict, apply)
    \/ ReadEvidence \/ CheckApplication \/ CommitDecision
    \/ \E what \in {"revision", "team"} : LockPublication(what)
    \/ CheckPublication \/ CommitPublication

SelectionSpec == SelectionInit /\ [][SelectionNext]_selectionVars

-----------------------------------------------------------------------------
(* Properties.                                                             *)

\* While a comparison is accepted no clone works, and its tasks are as they were decided on,
\* but for an update that was under way when it was decided.
AcceptedIsSettled ==
    comparison = "accepted" => NoneActive /\ (overlapped \/ proof.tasks = trial)

\* What a receiver did counts for the submission it was given: none runs before the
\* candidate's case is accepted, and an accepted one is the candidate's current output.
ReceiverConsumes ==
    /\ trial["receiver"].attempts > 0 => trial["receiver"].input > 0
    /\ comparison = "accepted" /\ ~overlapped =>
          trial["receiver"].input = trial["candidate"].sub

\* A candidate becomes live, or its team's, only from the baseline that it was compared with
\* and on evidence that holds when it does, but for what overlapped with the reading; a
\* revision that was live before may come back.
AdoptedOnEvidence ==
    /\ live' = "candidate" /\ ~published =>
          live = "baseline" /\ comparison = "accepted" /\ (overlapped \/ StillProven(proof))
    /\ team' = "applied" /\ team # "applied" =>
          /\ comparison' = "accepted"
          /\ overlapped' \/ (live = "baseline" /\ Acceptable(Results) /\ proof' = Results)

SelectionPromise ==
    /\ [](SelectionTypeOK /\ AcceptedIsSettled /\ ReceiverConsumes)
    /\ [][AdoptedOnEvidence]_selectionVars
===============================================================================
