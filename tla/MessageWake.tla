---------------------------- MODULE MessageWake ----------------------------
(***************************************************************************)
(* How persisted messages of one channel wake one Agent                    *)
(* (internal/server/service/agent_message_wake.go, with the terminal paths *)
(* of agent.go and daemon.go and the attention policy of agent_work.go).   *)
(*                                                                         *)
(* A message selected for the Agent by the routing goroutine is claimed in *)
(* one transaction under the advisory lock agent-work:<id>: either it      *)
(* starts a Run, or its sequence number is merged into the pending range   *)
(* of its scope (the channel root or a thread).  Pending ranges and other  *)
(* work of the Agent share one inbox order.  Whoever ends a Run may put    *)
(* its range back, and whoever finds the Agent idle starts the next entry. *)
(***************************************************************************)
EXTENDS Integers, Sequences, FiniteSets

CONSTANTS
    Scopes,        \* channel root and threads, the scope_key of a wake
    Root,          \* the scope of the channel itself
    Works,         \* other pending work (agent_pending_work.work_key)
    Kinds,         \* daemons in use: TRUE a remote Computer, FALSE legacy
    None,
    MaxMessages,   \* messages of the channel
    MaxFailures,   \* terminal paths that fail or time out a Run
    MaxHealth,     \* Runs ended by the DaemonManager health loop
    MaxPolicies,   \* changes of attention by the Agent's owner
    MaxEdits,      \* deletions and consumed corrections
    MaxRestarts    \* Server restarts

ASSUME WakeAssumption ==
    /\ Root \in Scopes
    /\ Scopes \cap Works = {}
    /\ Kinds \subseteq BOOLEAN
    /\ None \notin Nat
    /\ {MaxMessages, MaxFailures, MaxHealth, MaxPolicies, MaxEdits, MaxRestarts} \subseteq Nat

VARIABLES
    msgs,       \* messages by seq: scope, and whether a visible result is owed
    hidden,     \* seqs deleted, or consumed as a correction of a Run
    routing,    \* seqs in a routing goroutine, selected but not yet claimed
    policy,     \* attention policy of the Agent
    follows,    \* thread_subscriptions.followed of the Agent, where a row exists
    inbox,      \* agent_inbox: pending wakes and other work, with created_at
    clock,      \* the latest created_at
    enqueued,   \* work keys ever stored (UNIQUE(agent_id, work_key))
    runs,       \* the Agent's Runs in order of creation
    slot,       \* agent_message_wake_slots.active_run_id
    advancing,  \* some goroutines are about to call advancePendingMessageWake
    finishers,  \* terminal paths in progress, with the Run row they read
    released,   \* history: seqs the system gave up on purpose
    budget      \* remaining occurrences of each bounded environment step

vars == <<msgs, hidden, routing, policy, follows, inbox, clock, enqueued, runs,
          slot, advancing, finishers, released, budget>>
wakeVars == <<inbox, clock, runs, slot>>
ownerVars == <<policy, follows>>

Policies == {"all", "mentions", "nothing"}
Follow == {"unset", "yes", "no"}
Message == [scope : Scopes, explicit : BOOLEAN]
Entry == [scope : Scopes \cup Works, first : Nat, latest : Nat, visible : BOOLEAN,
          ready : BOOLEAN, at : Nat]
Run == [scope : Scopes \cup Works, first : Nat, latest : Nat, visible : BOOLEAN,
        remote : BOOLEAN,    \* of a Computer, which confirms what it holds
        held : BOOLEAN,      \* by a daemon; accepted_at of a remote Run
        taken : BOOLEAN,     \* history: held at some time
        started : BOOLEAN,   \* backend_started_at is set
        finished : BOOLEAN]  \* finished_at is set
Finisher == [run : Nat, started : BOOLEAN, stage : {"requeue", "finish"}]
Steps == {"failure", "health", "policy", "edit", "restart"}

Init ==
    /\ msgs = <<>>
    /\ hidden = {}
    /\ routing = {}
    /\ policy = "all"
    /\ follows = [s \in Scopes |-> "unset"]
    /\ inbox = {}
    /\ clock = 0
    /\ enqueued = {}
    /\ runs = <<>>
    /\ slot = None
    /\ advancing = FALSE
    /\ finishers = {}
    /\ released = {}
    /\ budget = [s \in Steps |-> CASE s = "failure" -> MaxFailures [] s = "health" -> MaxHealth
                                   [] s = "policy" -> MaxPolicies [] s = "edit" -> MaxEdits
                                   [] s = "restart" -> MaxRestarts]

Spend(s) == budget[s] > 0 /\ budget' = [budget EXCEPT ![s] = @ - 1]

-----------------------------------------------------------------------------
(* What the transactions read.                                             *)

\* Variant: only Runs whose backend has started count as active.
ActiveStarted == {r \in DOMAIN runs : ~runs[r].finished /\ runs[r].started}

\* Unfinished Runs of the Agent (findActiveMessageRunTx).
Active == {r \in DOMAIN runs : ~runs[r].finished}

\* May a message of this scope wake the Agent (messageWakeAllowedTx).
Allowed(scope, explicit) ==
    /\ policy # "nothing"
    /\ \/ explicit
       \/ follows[scope] = "yes"
       \/ policy = "all" /\ follows[scope] # "no"

\* Does a range (of an entry or a Run) hold message m.
Covers(range, m) == /\ m \in DOMAIN msgs
                    /\ range.scope = msgs[m].scope
                    /\ range.first <= m /\ m <= range.latest

Wakes == {e \in inbox : e.scope \in Scopes}
Ready == {e \in inbox : e.ready}

\* The inbox order: work that owes a visible result (priority 10) first.
Before(e, f) == \/ e.visible /\ ~f.visible
                \/ e.visible = f.visible /\ e.at < f.at
First(S) == CHOOSE e \in S : \A f \in S \ {e} : Before(e, f)

\* Variant: an idle Agent may take any ready entry.
AnyReady(e, S) == Active = {} /\ e \in S

\* agent_inbox_heads: an idle Agent's first ready entry.
IsHead(e, S) == Active = {} /\ e \in S /\ e = First(S)

\* Variant: the policy is not read again when a pending range is claimed.
LiveUnderOldPolicy(e) == \E m \in DOMAIN msgs : Covers(e, m) /\ m \notin hidden

\* A pending range that still has a message to deliver.
Live(e) == /\ Allowed(e.scope, e.visible)
           /\ \E m \in DOMAIN msgs : Covers(e, m) /\ m \notin hidden

-----------------------------------------------------------------------------
(* What they write.                                                        *)

\* Variant: a conflicting insert keeps the old first_message_seq.
KeepFirst(a, b) == a

Lower(a, b) == IF a < b THEN a ELSE b
Higher(a, b) == IF a > b THEN a ELSE b

\* Variant: the visible-result requirement of the later wake is dropped.
MergeKeepsContract(old, new) == [old EXCEPT !.first = Lower(@, new.first),
                                            !.latest = Higher(@, new.latest)]

\* LEAST, GREATEST and OR of upsertPendingMessageWakeTx's ON CONFLICT clause.
Merge(old, new) == [old EXCEPT !.first = Lower(@, new.first),
                               !.latest = Higher(@, new.latest),
                               !.visible = @ \/ new.visible]

\* The row of a scope is merged in place, or inserted with a new created_at.
Upsert(e) ==
    LET same == {o \in inbox : o.scope = e.scope}
    IN  \/ /\ same # {}
           /\ inbox' = (inbox \ same) \cup {Merge(o, e) : o \in same}
           /\ UNCHANGED clock
        \/ /\ same = {}
           /\ inbox' = inbox \cup {e}
           /\ clock' = e.at

Wake(scope, first, latest, visible) ==
    [scope |-> scope, first |-> first, latest |-> latest, visible |-> visible,
     ready |-> TRUE, at |-> clock + 1]

\* startRunTx: a queued Run that keeps the range it delivers.
StartRun(e) ==
    \E k \in Kinds :
        runs' = Append(runs, [scope |-> e.scope, first |-> e.first, latest |-> e.latest,
                              visible |-> e.visible, remote |-> k, held |-> FALSE,
                              taken |-> FALSE, started |-> FALSE, finished |-> FALSE])

\* The messages only the entries in S still held when the policy dropped them.
Withdrawn(S) == {m \in DOMAIN msgs : \E e \in S : Covers(e, m)}

-----------------------------------------------------------------------------
(* Messages and the routing goroutine.                                     *)

\* A message is persisted and routing selects the Agent (filterAttention).
Send(scope, explicit) ==
    /\ Len(msgs) < MaxMessages
    /\ Allowed(scope, explicit)
    /\ msgs' = Append(msgs, [scope |-> scope, explicit |-> explicit])
    /\ routing' = routing \cup {Len(msgs) + 1}
    /\ UNCHANGED <<hidden, ownerVars, wakeVars, enqueued, advancing, finishers, released, budget>>

\* claimMessageWake after the lock: mute seen late, Agent busy, inbox not
\* empty, or a Run of its own.
Claimed(m, e) ==
    \/ /\ ~Allowed(e.scope, e.visible)
       /\ released' = released \cup {m}
       /\ advancing' = TRUE
       /\ UNCHANGED wakeVars
    \/ /\ Allowed(e.scope, e.visible)
       /\ Active # {} \/ Ready # {}
       /\ Upsert(e)
       /\ slot' \in IF Active = {} THEN {slot} ELSE Active
       /\ advancing' = TRUE
       /\ UNCHANGED <<runs, released>>
    \/ /\ Allowed(e.scope, e.visible)
       /\ Active = {} /\ Ready = {}
       /\ StartRun(e)
       /\ slot' = Len(runs) + 1
       /\ UNCHANGED <<inbox, clock, advancing, released>>

Claim(m) ==
    /\ m \in routing
    /\ routing' = routing \ {m}
    /\ Claimed(m, Wake(msgs[m].scope, m, m, msgs[m].explicit))
    /\ UNCHANGED <<msgs, hidden, ownerVars, enqueued, finishers, budget>>

\* No daemon, or the Run cannot be started (budget): the error is broadcast
\* to the channel and the wake is dropped.
Refuse(m) ==
    /\ m \in routing
    /\ routing' = routing \ {m}
    /\ released' = released \cup {m}
    /\ UNCHANGED <<msgs, hidden, ownerVars, wakeVars, enqueued, advancing, finishers, budget>>

-----------------------------------------------------------------------------
(* The inbox.                                                              *)

\* The transaction of advancePendingMessageWake on an idle Agent: drop the
\* ranges with nothing to deliver, then start the first one left if it is
\* the head of the inbox, else roll everything back.
Advanced ==
    LET live == {e \in Wakes : Live(e)}
        next == First(live)
        dead == {e \in Wakes \ live : live # {} => Before(e, next)}
        muted == {e \in dead : ~Allowed(e.scope, e.visible)}
    IN  \/ /\ live = {}
           /\ inbox' = inbox \ dead
           /\ slot' = None
           /\ released' = released \cup Withdrawn(muted)
           /\ UNCHANGED <<clock, runs>>
        \/ /\ live # {}
           /\ IsHead(next, Ready \ dead)
           /\ StartRun(next)
           /\ inbox' = inbox \ (dead \cup {next})
           /\ slot' = Len(runs) + 1
           /\ released' = released \cup Withdrawn(muted)
           /\ UNCHANGED clock
        \/ /\ live # {}
           /\ ~IsHead(next, Ready \ dead)
           /\ UNCHANGED <<wakeVars, released>>

\* advancePendingMessageWake: an active Run is only noted in the slot.
AdvancePending ==
    \/ /\ Active # {}
       /\ slot' \in Active
       /\ UNCHANGED <<inbox, clock, runs, released>>
    \/ /\ Active = {}
       /\ Advanced

\* Called by a goroutine of a claim or of a terminal path; others may remain.
Advance ==
    /\ advancing
    /\ advancing' \in BOOLEAN
    /\ AdvancePending
    /\ UNCHANGED <<msgs, hidden, routing, ownerVars, enqueued, finishers, budget>>

\* Variant: the watchdog only refreshes the slots of busy Agents.
DrainBusy ==
    /\ Wakes # {} /\ Active # {}
    /\ AdvancePending
    /\ UNCHANGED <<msgs, hidden, routing, ownerVars, enqueued, advancing, finishers, budget>>

\* drainPendingMessageWakes: the watchdog calls it for every pending range.
Drain ==
    /\ Wakes # {}
    /\ AdvancePending
    /\ UNCHANGED <<msgs, hidden, routing, ownerVars, enqueued, advancing, finishers, budget>>

\* enqueueAgentWork: task, Thinking, artifact or greeting work, stored once.
EnqueueWork(w, urgent) ==
    /\ w \notin enqueued
    /\ enqueued' = enqueued \cup {w}
    /\ Upsert(Wake(w, 0, 0, urgent))
    /\ UNCHANGED <<msgs, hidden, routing, ownerVars, runs, slot, advancing, finishers, released, budget>>

\* dispatchPendingAgentWork: the head starts, fails and waits 30 seconds, or
\* is cancelled because its Task or branch moved on.
DispatchWork(e) ==
    /\ e.scope \in Works
    /\ IsHead(e, Ready)
    /\ \/ StartRun(e) /\ inbox' = inbox \ {e} /\ UNCHANGED budget
       \/ /\ inbox' = (inbox \ {e}) \cup {[e EXCEPT !.ready = FALSE]}
          /\ Spend("failure") /\ UNCHANGED runs
       \/ inbox' = inbox \ {e} /\ UNCHANGED <<runs, budget>>
    /\ UNCHANGED <<msgs, hidden, routing, ownerVars, clock, enqueued, slot, advancing, finishers, released>>

\* next_attempt_at of a failed dispatch is reached.
WorkDue(e) ==
    /\ ~e.ready
    /\ inbox' = (inbox \ {e}) \cup {[e EXCEPT !.ready = TRUE]}
    /\ UNCHANGED <<msgs, hidden, routing, ownerVars, clock, enqueued, runs, slot, advancing, finishers, released, budget>>

-----------------------------------------------------------------------------
(* The life of a Run.                                                      *)

SetRun(r, rec) == runs' = [runs EXCEPT ![r] = rec]
OnlyRuns == UNCHANGED <<msgs, hidden, routing, ownerVars, inbox, clock, enqueued, slot, released>>

\* The daemon takes the Run: accepted_at of a remote Run, the HTTP dispatch of
\* a legacy one (which leaves no mark in the database).
Receive(r) ==
    /\ ~runs[r].finished /\ ~runs[r].held
    /\ SetRun(r, [runs[r] EXCEPT !.held = TRUE, !.taken = TRUE])
    /\ OnlyRuns /\ UNCHANGED <<advancing, finishers, budget>>

\* MarkBackendStarted on the first event of the provider.
BackendStarted(r) ==
    /\ ~runs[r].finished /\ runs[r].held /\ ~runs[r].started
    /\ SetRun(r, [runs[r] EXCEPT !.started = TRUE])
    /\ OnlyRuns /\ UNCHANGED <<advancing, finishers, budget>>

\* reconcileRemoteConnection: a reconnected Computer does not hold the attempt,
\* so accepted_at is cleared and the Run is offered again.
Unassign(r) ==
    /\ ~runs[r].finished /\ runs[r].remote /\ runs[r].held
    /\ Spend("failure")
    /\ SetRun(r, [runs[r] EXCEPT !.held = FALSE])
    /\ OnlyRuns /\ UNCHANGED <<advancing, finishers>>

\* FinishRun, then the goroutine that advances the queue of a message Run.
Finished(r) ==
    /\ SetRun(r, [runs[r] EXCEPT !.finished = TRUE])
    /\ advancing' = (advancing \/ runs[r].scope \in Scopes)

\* finishRun(completed): the stream ended with a result.
Complete(r) ==
    /\ ~runs[r].finished /\ runs[r].held /\ runs[r].started
    /\ Finished(r)
    /\ OnlyRuns /\ UNCHANGED <<finishers, budget>>

\* finishRun(failed), finishDispatchFailure, finishDaemonLostRun and
\* finishTimedOutAgentRun all start from a Run row read before.
BeginFinish(r) ==
    /\ ~runs[r].finished
    /\ Spend("failure")
    /\ finishers' = finishers \cup
         {[run |-> r, started |-> runs[r].started, stage |-> "requeue"]}
    /\ OnlyRuns /\ UNCHANGED <<runs, advancing>>

\* Does requeueUndeliveredMessageWake find the Run undelivered.
Undelivered(run) == ~run.finished /\ ~(run.remote /\ run.held) /\ run.first > 0

\* Its transaction, skipped when the row read says the backend has started.
Requeue(f) ==
    LET run == runs[f.run]
    IN  /\ f.stage = "requeue"
        /\ finishers' = (finishers \ {f}) \cup {[f EXCEPT !.stage = "finish"]}
        /\ IF ~f.started /\ Undelivered(run)
           THEN IF Allowed(run.scope, run.visible)
                THEN /\ Upsert(Wake(run.scope, run.first, run.latest, run.visible))
                     /\ UNCHANGED released
                ELSE /\ released' = released \cup {m \in DOMAIN msgs : Covers(run, m)}
                     /\ UNCHANGED <<inbox, clock>>
           ELSE UNCHANGED <<inbox, clock, released>>
        /\ UNCHANGED <<msgs, hidden, routing, ownerVars, enqueued, runs, slot, advancing, budget>>

\* FinishRun of that path: the first terminal status wins.
Finish(f) ==
    /\ f.stage = "finish"
    /\ finishers' = finishers \ {f}
    /\ IF runs[f.run].finished THEN UNCHANGED <<runs, advancing>> ELSE Finished(f.run)
    /\ OnlyRuns /\ UNCHANGED budget

\* finishPendingTaskRun of the health loop: neither puts the range back nor
\* advances the queue.
HealthFinish(r) ==
    /\ ~runs[r].finished
    /\ Spend("health")
    /\ SetRun(r, [runs[r] EXCEPT !.finished = TRUE])
    /\ OnlyRuns /\ UNCHANGED <<advancing, finishers>>

-----------------------------------------------------------------------------
(* The owner, the authors and the Server process.                          *)

\* SetAgentAttention: "nothing" withdraws every unclaimed range.
SetAttention(p) ==
    LET gone == IF p = "nothing" THEN Wakes ELSE {}
    IN  /\ p # policy
        /\ Spend("policy")
        /\ policy' = p
        /\ inbox' = inbox \ gone
        /\ released' = released \cup Withdrawn(gone)
        /\ UNCHANGED <<msgs, hidden, routing, follows, clock, enqueued, runs, slot, advancing, finishers>>

\* ThreadService.Unfollow withdraws the thread's range unless a result is owed.
Unfollow(scope) ==
    LET gone == {e \in Wakes : e.scope = scope /\ ~e.visible}
    IN  /\ scope # Root /\ follows[scope] # "no"
        /\ Spend("policy")
        /\ follows' = [follows EXCEPT ![scope] = "no"]
        /\ inbox' = inbox \ gone
        /\ released' = released \cup Withdrawn(gone)
        /\ UNCHANGED <<msgs, hidden, routing, policy, clock, enqueued, runs, slot, advancing, finishers>>

\* The Agent writes in a thread (trigger follow_thread_on_reply).
Participate(scope) ==
    /\ scope # Root /\ follows[scope] # "yes"
    /\ Spend("policy")
    /\ follows' = [follows EXCEPT ![scope] = "yes"]
    /\ UNCHANGED <<msgs, hidden, routing, policy, wakeVars, enqueued, advancing, finishers, released>>

\* A message is deleted, or CheckAndHoldAgentSend consumes a correction.
Hide(m) ==
    /\ m \notin hidden
    /\ Spend("edit")
    /\ hidden' = hidden \cup {m}
    /\ UNCHANGED <<msgs, routing, ownerVars, wakeVars, enqueued, advancing, finishers, released>>

\* A Server restart: the database stays, goroutines do not.
Restart ==
    /\ Spend("restart")
    /\ released' = released \cup routing
    /\ routing' = {}
    /\ advancing' = FALSE
    /\ finishers' = {}
    /\ UNCHANGED <<msgs, hidden, ownerVars, wakeVars, enqueued>>

-----------------------------------------------------------------------------
Environment ==
    \/ \E s \in Scopes, e \in BOOLEAN : Send(s, e)
    \/ \E m \in routing : Refuse(m)
    \/ \E w \in Works, u \in BOOLEAN : EnqueueWork(w, u)
    \/ \E r \in DOMAIN runs : Unassign(r) \/ BeginFinish(r) \/ HealthFinish(r)
    \/ \E p \in Policies : SetAttention(p)
    \/ \E s \in Scopes : Unfollow(s) \/ Participate(s)
    \/ \E m \in DOMAIN msgs : Hide(m)
    \/ Restart

Progress ==
    \/ \E m \in routing : Claim(m)
    \/ Advance
    \/ Drain
    \/ \E e \in inbox : DispatchWork(e) \/ WorkDue(e)
    \/ \E r \in DOMAIN runs : Receive(r) \/ BackendStarted(r) \/ Complete(r)
    \/ \E f \in finishers : Requeue(f) \/ Finish(f)

Next == Environment \/ Progress

Spec == Init /\ [][Next]_vars

\* Claims, goroutines, the watchdog's drain and the daemons keep going; what
\* users, owners and failures do is not forced.
FairSpec == Spec /\ WF_vars(Progress)

-----------------------------------------------------------------------------
(* Properties.                                                             *)

\* Type invariant: rows, goroutine records and bounds have their shapes.
TypeOK ==
    /\ msgs \in Seq(Message)
    /\ hidden \in SUBSET Nat
    /\ routing \in SUBSET Nat
    /\ policy \in Policies
    /\ follows \in [Scopes -> Follow]
    /\ inbox \subseteq Entry
    /\ clock \in Nat
    /\ enqueued \subseteq Works
    /\ runs \in Seq(Run)
    /\ slot \in Nat \cup {None}
    /\ advancing \in BOOLEAN
    /\ finishers \subseteq Finisher
    /\ released \in SUBSET Nat
    /\ budget \in [Steps -> Nat]

\* Single flight: whichever mixture of claims, drains, goroutines and work
\* dispatch runs, the Agent never has two unfinished Runs (the provider
\* Session is shared by the channel and its threads).
OneRunPerAgent ==
    \A r, q \in DOMAIN runs : ~runs[r].finished /\ ~runs[q].finished => r = q

\* Nobody has given up on message m and a daemon may still have to get it.
Owed(m) == m \in DOMAIN msgs /\ m \notin routing \cup released \cup hidden

\* A Run carries m: it is unfinished, or a daemon has taken it.
Carries(r, m) == Covers(runs[r], m) /\ (~runs[r].finished \/ runs[r].taken)

\* A claimed message stays in a pending range or in a Run until a daemon has
\* taken it, across merges, requeues, racing terminal paths and restarts.
NoMessageLost ==
    \A m \in DOMAIN msgs : Owed(m) =>
        \/ \E e \in Wakes : Covers(e, m)
        \/ \E r \in DOMAIN runs : Carries(r, m)

\* The health loop has not ended a Run (HealthFinish puts no range back).
Undisturbed == budget["health"] = MaxHealth

\* No claimed message is lost as long as the health loop has ended no Run:
\* upsertPendingMessageWakeTx and requeueUndeliveredMessageWake keep it in a
\* range, the terminal paths end its Run only with the range put back.
ClaimedMessagesAreKept == Undisturbed => NoMessageLost

\* A mention or a DM keeps its claim to a visible answer when it is merged
\* with automatic wakes, requeued or restarted, as long as the health loop
\* has ended no Run.
VisibleResultIsOwed ==
    Undisturbed => \A m \in DOMAIN msgs : Owed(m) /\ msgs[m].explicit =>
        \/ \E e \in Wakes : Covers(e, m) /\ e.visible
        \/ \E r \in DOMAIN runs : Carries(r, m) /\ runs[r].visible

\* The step creates a Run.
NewRun == Len(runs') > Len(runs)
LastRun == runs'[Len(runs')]

\* No message Run starts that the attention policy in force at that moment
\* forbids, although routing decided under an older one.
MutedAgentIsLeftAlone ==
    [][NewRun /\ LastRun.scope \in Scopes => Allowed(LastRun.scope, LastRun.visible)]_vars

\* A new Run never overtakes ready work of the inbox: it comes from the entry
\* before all ready entries that stay behind, or the inbox has none.
NobodyJumpsTheQueue ==
    [][NewRun => \/ Ready = {}
                 \/ \E e \in Ready : /\ e.scope = LastRun.scope
                                    /\ \A f \in Ready \cap inbox' : Before(e, f)]_vars

\* Every routed message is in the end taken by a daemon, unless it was
\* deleted, consumed, or given up openly.
MessagesReachADaemon ==
    \A m \in 1..MaxMessages :
        (m \in DOMAIN msgs) ~> \/ m \in released \cup hidden
                               \/ \E r \in DOMAIN runs : Covers(runs[r], m) /\ runs[r].taken

=============================================================================
