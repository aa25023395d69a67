------------------------------ MODULE Thinking ------------------------------
(***************************************************************************)
(* Thinking spaces: a tree of conversation nodes in a channel.  A node is  *)
(* split into children, works through its own agent turns, and is closed   *)
(* by a return: a lock on the node (returning_at), queued work for its     *)
(* agent, the agent's handoff message to the parent, and the release of    *)
(* the lock when the run ends without one.                                 *)
(*                                                                         *)
(* A child of a node that has a conversation starts pending: nobody may    *)
(* write in it until the agent of the parent has written its handoff.      *)
(* One agent owns the nodes modelled here; it works on one run at a time.  *)
(***************************************************************************)
EXTENDS Naturals, FiniteSets

CONSTANTS
    MaxNodes,       \* nodes of the space, the root included
    TeamSizes,      \* how many Agents work under the root's, as Ensure finds them
    MaxDepth,       \* maxThinkingDepth
    MaxChildren,    \* maxThinkingChildren
    MaxPosts,       \* messages sent
    MaxAsks,        \* returns, forks and refreshes people ask for
    MaxTFaults      \* failed triggers, cancelled runs and server stops

ASSUME ThinkingConstants ==
    /\ {MaxNodes, MaxDepth, MaxChildren, MaxPosts, MaxAsks, MaxTFaults} \subseteq Nat
    /\ TeamSizes \subseteq Nat

TNodes == 1 .. MaxNodes
TRoot == 1
Unmade == [st |-> "none", parent |-> 0, depth |-> 0, team |-> FALSE,
           pending |-> FALSE, talk |-> FALSE]
NoWork == [kind |-> "none", node |-> 0, target |-> 0]

VARIABLES
    node,      \* thinking_nodes
    splitting, \* the parent a CreateChild transaction has read and locked, or 0
    posts,     \* messages checked by the handler and not yet stored
    handoffs,    \* handoffs decided on but not yet queued
    queue,     \* agent_pending_work
    trun,      \* the agent's run
    leaving,   \* return runs that ended and have not released the node
    lost,      \* nodes whose return was dropped by a server stop
    posted, asked, tfaults

thinkVars == <<node, splitting, posts, handoffs, queue, trun, leaving, lost,
               posted, asked, tfaults>>

Made == {n \in TNodes : node[n].st # "none"}
ChildrenOf(n) == {c \in Made : node[c].parent = n}
Open_(n) == node[n].st = "open" /\ ~node[n].pending
Next_ == IF Cardinality(Made) < MaxNodes THEN {Cardinality(Made) + 1} ELSE {}
Work(k, n, t) == [kind |-> k, node |-> n, target |-> t]
Ask == asked < MaxAsks /\ asked' = asked + 1
Fault == tfaults < MaxTFaults /\ tfaults' = tfaults + 1

ThinkInit ==
    /\ node = [n \in TNodes |-> Unmade]
    /\ splitting = 0 /\ posts = {} /\ handoffs = {} /\ queue = {}
    /\ trun = NoWork /\ leaving = {} /\ lost = {}
    /\ posted = 0 /\ asked = 0 /\ tfaults = 0

-----------------------------------------------------------------------------
(* The tree.                                                               *)

(* The space, its root and the nodes of the team are one transaction; the  *)
(* team takes its places unchecked.                                        *)
Ensure(team) ==
    /\ Made = {} /\ team < MaxNodes
    /\ node' = [n \in TNodes |->
         IF n = TRoot THEN [Unmade EXCEPT !.st = "open"]
         ELSE IF n <= team + 1
         THEN [Unmade EXCEPT !.st = "open", !.parent = TRoot, !.depth = 1,
                             !.team = TRUE]
         ELSE Unmade]
    /\ UNCHANGED <<splitting, posts, handoffs, queue, trun, leaving, lost,
                   posted, asked, tfaults>>

(* SELECT ... FOR UPDATE OF n.                                             *)
NodeRowFree(n) == splitting # n

RoomForChild(n) == Cardinality(ChildrenOf(n)) < MaxChildren

(* A branch from a channel message, below the root, with the message as    *)
(* its inherited context.                                                  *)
CreateFromMessage(c) ==
    /\ c \in Next_ /\ node[TRoot].st # "none" /\ NodeRowFree(TRoot)
    /\ RoomForChild(TRoot)
    /\ node' = [node EXCEPT ![c] = [Unmade EXCEPT !.st = "open",
                                      !.parent = TRoot, !.depth = 1]]
    /\ UNCHANGED <<splitting, posts, handoffs, queue, trun, leaving, lost,
                   posted, asked, tfaults>>

MaySplit(n) ==
    /\ Open_(n) /\ node[n].depth < MaxDepth
    /\ RoomForChild(n)
    /\ n = TRoot => ~ \E c \in ChildrenOf(n) : node[c].team

(* CreateChild: the parent is read and locked, then the child is stored.   *)
ReadParent(n) ==
    /\ splitting = 0 /\ Next_ # {} /\ MaySplit(n) /\ Ask /\ splitting' = n
    /\ UNCHANGED <<node, posts, handoffs, queue, trun, leaving, lost, posted, tfaults>>

(* A parent with a conversation owes the child a handoff.                  *)
StoreChild(c) ==
    /\ splitting # 0 /\ c \in Next_ /\ splitting' = 0
    /\ LET p == splitting IN
       /\ node' = [node EXCEPT ![c] = [Unmade EXCEPT !.st = "open", !.parent = p,
                     !.depth = node[p].depth + 1, !.pending = node[p].talk]]
       /\ handoffs' = IF node[p].talk THEN handoffs \cup {Work("fork", p, c)}
                    ELSE handoffs
    /\ UNCHANGED <<posts, queue, trun, leaving, lost, posted, asked, tfaults>>

-----------------------------------------------------------------------------
(* Asking the agent for a handoff.                                         *)

(* The person asks again for the handoff of a pending child.               *)
RetryForkHandoff(c) ==
    /\ node[c].st # "none" /\ node[c].pending /\ Ask
    /\ handoffs' = handoffs \cup {Work("fork", node[c].parent, c)}
    /\ UNCHANGED <<node, splitting, posts, queue, trun, leaving, lost, posted, tfaults>>

BusyNode(n) == trun.node = n

(* A fresh Current State of the node.                                      *)
RefreshCheckpoint(n) ==
    /\ Open_(n) /\ node[n].talk /\ ~BusyNode(n) /\ NodeRowFree(n) /\ Ask
    /\ handoffs' = handoffs \cup {Work("check", n, n)}
    /\ UNCHANGED <<node, splitting, posts, queue, trun, leaving, lost, posted, tfaults>>

(* BeginReturn: all children have returned and the agent is not at work.   *)
BeginReturn(n) ==
    /\ Open_(n) /\ n # TRoot /\ node[n].talk /\ NodeRowFree(n)
    /\ \A c \in ChildrenOf(n) : node[c].st = "returned"
    /\ ~BusyNode(n) /\ Ask
    /\ node' = [node EXCEPT ![n].st = "returning"]
    /\ handoffs' = handoffs \cup {Work("return", n, n)}
    /\ UNCHANGED <<splitting, posts, queue, trun, leaving, lost, posted, tfaults>>

(* CancelReturn: only a node that is still returning is opened again.      *)
ReopenedNode(n) ==
    [node EXCEPT ![n].st = IF @ = "returning" THEN "open" ELSE @]

ReleasedOnFailure(w) == IF w.kind = "return" THEN ReopenedNode(w.node) ELSE node

(* triggerAgentResponseInNode: the work is queued, or the trigger fails    *)
(* and the handler releases a return.                                      *)
TriggerNode(w) ==
    /\ w \in handoffs /\ handoffs' = handoffs \ {w}
    /\ \/ queue' = queue \cup {w} /\ UNCHANGED <<node, tfaults>>
       \/ /\ Fault /\ UNCHANGED queue
          /\ node' = ReleasedOnFailure(w)
    /\ UNCHANGED <<splitting, posts, trun, leaving, lost, posted, asked>>

(* dispatchPendingAgentWork: work of a node that has returned, or whose    *)
(* return was released, is cancelled; otherwise the run starts.            *)
DispatchNode(w) ==
    /\ w \in queue /\ trun = NoWork /\ queue' = queue \ {w}
    /\ IF \/ node[w.node].st = "returned"
          \/ w.kind = "return" /\ node[w.node].st # "returning"
       THEN /\ node' = IF w.kind = "return" THEN ReopenedNode(w.node) ELSE node
            /\ UNCHANGED trun
       ELSE trun' = w /\ UNCHANGED node
    /\ UNCHANGED <<splitting, posts, handoffs, leaving, lost, posted, asked, tfaults>>

(* The run ends; the deferred release of a return comes after that.        *)
NodeRunEnds ==
    /\ trun # NoWork /\ trun' = NoWork
    /\ leaving' = IF trun.kind = "return" THEN leaving \cup {trun.node} ELSE leaving
    /\ UNCHANGED <<node, splitting, posts, handoffs, queue, lost, posted, asked, tfaults>>

ReleasedByRun(n) == ReopenedNode(n)

ReleaseReturn(n) ==
    /\ n \in leaving /\ leaving' = leaving \ {n}
    /\ node' = ReleasedByRun(n)
    /\ UNCHANGED <<splitting, posts, handoffs, queue, trun, lost, posted, asked, tfaults>>

-----------------------------------------------------------------------------
(* Messages.  The handler reads the node, and stores the message later.    *)

Accepts(n) == node[n].st \in {"open", "returning"} /\ ~node[n].pending

CheckPost(by, kind, n, t) ==
    /\ Accepts(n)
    /\ posted < MaxPosts /\ posted' = posted + 1
    /\ posts' = posts \cup {[by |-> by, kind |-> kind, node |-> n, target |-> t]}
    /\ UNCHANGED <<node, splitting, handoffs, queue, trun, leaving, lost, asked, tfaults>>

(* A person writes in a node that is open.                                 *)
PersonPosts(n) ==
    node[n].st = "open" /\ CheckPost("user", "say", n, n)

(* The agent at work writes: words in an open node, the return of a        *)
(* returning one, the handoff of a fork it was asked for.                  *)
AgentPosts(n) ==
    /\ BusyNode(n)
    /\ \/ node[n].st = "open" /\ CheckPost("agent", "say", n, n)
       \/ node[n].st = "returning" /\ CheckPost("agent", "return", n, n)
       \/ /\ node[n].st = "open" /\ trun.kind = "fork"
          /\ CheckPost("agent", "fork", n, trun.target)

StorePost(p) ==
    /\ p \in posts /\ posts' = posts \ {p}
    /\ UNCHANGED <<splitting, handoffs, trun, leaving, lost, posted, asked, tfaults>>

(* A message is stored whatever the node has become; a person's message    *)
(* triggers the agent.                                                     *)
StoreMessage(p) ==
    /\ StorePost(p) /\ p.kind = "say"
    /\ node' = [node EXCEPT ![p.node].talk = TRUE]
    /\ queue' = IF p.by = "user" THEN queue \cup {Work("turn", p.node, p.node)}
                ELSE queue

(* One UPDATE that checks parent and child.                                *)
ForkExpected(p) ==
    /\ node[p.node].st = "open"
    /\ node[p.target].pending /\ ~node[p.target].talk

CompleteForkHandoff(p) ==
    /\ StorePost(p) /\ p.kind = "fork" /\ UNCHANGED queue
    /\ node' = IF ForkExpected(p) THEN [node EXCEPT ![p.target].pending = FALSE]
               ELSE node

(* Variant: the return is completed on the state the handler has read.      *)
ReturnAsRead(p) == TRUE

(* The row is read again under its lock.                                   *)
StillReturning(p) == node[p.node].st = "returning"

(* The node is closed and the handoff becomes a message of the parent.     *)
CompleteReturn(p) ==
    /\ StorePost(p) /\ p.kind = "return" /\ UNCHANGED queue
    /\ node' = IF StillReturning(p)
               THEN [n \in TNodes |->
                       IF n = p.node THEN [node[n] EXCEPT !.st = "returned"]
                       ELSE IF n = node[p.node].parent THEN [node[n] EXCEPT !.talk = TRUE]
                       ELSE node[n]]
               ELSE node

(* The server stops: transactions, triggers and streams in progress end,   *)
(* the queue and the nodes stay as they are stored.                        *)
TServerStops ==
    /\ Fault /\ splitting' = 0 /\ posts' = {} /\ handoffs' = {}
    /\ trun' = NoWork /\ leaving' = {}
    /\ lost' = {n \in Made : node[n].st = "returning"
                  /\ Work("return", n, n) \notin queue}
    /\ UNCHANGED <<node, queue, posted, asked>>

-----------------------------------------------------------------------------

ThinkNext ==
    \/ \E k \in TeamSizes : Ensure(k)
    \/ \E n \in TNodes :
          \/ CreateFromMessage(n) \/ ReadParent(n) \/ StoreChild(n)
          \/ RetryForkHandoff(n) \/ RefreshCheckpoint(n) \/ BeginReturn(n)
          \/ ReleaseReturn(n) \/ PersonPosts(n) \/ AgentPosts(n)
    \/ \E w \in handoffs : TriggerNode(w)
    \/ \E w \in queue : DispatchNode(w)
    \/ NodeRunEnds
    \/ \E p \in posts : StoreMessage(p) \/ CompleteForkHandoff(p) \/ CompleteReturn(p)
    \/ TServerStops

(* Handlers run on, the inbox loop polls, runs end (they have a deadline). *)
ThinkProgress ==
    \/ \E n \in TNodes : StoreChild(n) \/ ReleaseReturn(n)
    \/ NodeRunEnds
    \/ \E w \in handoffs : TriggerNode(w)
    \/ \E w \in queue : DispatchNode(w)

ThinkFairness == WF_thinkVars(ThinkProgress)

ThinkSpec == ThinkInit /\ [][ThinkNext]_thinkVars
FairThinkSpec == ThinkSpec /\ ThinkFairness

-----------------------------------------------------------------------------
(* Properties.                                                             *)

(* Types; every node but the root has an older parent, one level up; only  *)
(* a team may have more branches than the limit, and then nothing else.    *)
ThinkTypeOK ==
    /\ \A n \in Made \ {TRoot} :
          /\ node[n].parent \in Made /\ node[n].parent < n
          /\ node[n].depth = node[node[n].parent].depth + 1
    /\ \A n \in Made :
          \/ Cardinality(ChildrenOf(n)) <= MaxChildren
          \/ n = TRoot /\ \A c \in ChildrenOf(n) : node[c].team
    /\ trun.node \in Made \cup {0} /\ leaving \subseteq Made

(* A node that returns, or has returned, has no child still at work: a     *)
(* split and a return of the same node exclude each other (CreateChild,    *)
(* BeginReturn lock the row).                                              *)
ReturnWaitsForChildren ==
    \A n \in Made : node[n].st \in {"returning", "returned"} =>
       \A c \in ChildrenOf(n) : node[c].st = "returned"

(* A branch begins with its handoff: nothing is written in a child before  *)
(* the parent's agent has handed over.                                     *)
HandoffComesFirst == \A n \in Made : node[n].pending => ~node[n].talk

(* A returned node stays returned, and it became so from a return that was *)
(* still wanted; its handoff reached a parent that is at work itself.      *)
ReturnIsFinal ==
    [][\A n \in TNodes :
        /\ node[n].st = "returned" => node'[n].st = "returned"
        /\ node[n].st # "returned" /\ node'[n].st = "returned" =>
             /\ node[n].st = "returning"
             /\ node'[node[n].parent].talk
             /\ node[node[n].parent].st = "open"]_thinkVars

(* The lock of a return is released: the node returns or is open again,    *)
(* unless the server stopped meanwhile.                                    *)
ReturningEnds ==
    \A n \in TNodes :
       node[n].st = "returning" ~> node[n].st # "returning" \/ n \in lost

\* What the tree of nodes promises: a node returns after its children, a child
\* starts with its handoff, and what has returned stays returned.
ThinkingPromise ==
    /\ []ThinkTypeOK
    /\ []ReturnWaitsForChildren
    /\ []HandoffComesFirst
    /\ ReturnIsFinal
=============================================================================
