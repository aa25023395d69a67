------------------------------- MODULE Departure -------------------------------
(***************************************************************************)
(* An agent leaves: its owner deletes it, or it is removed from its home   *)
(* channel, which deactivates it, or from another channel, which only ends *)
(* its part there.  Its memberships, runs, claims and sessions end in one  *)
(* transaction; the computer is told by a goroutine of its own.  Work that *)
(* is on its way meets it: inbox work that a dispatcher locks the agent    *)
(* for, wakes and claims that only read the membership before, and runs    *)
(* that were started and not yet handed to the computer.                   *)
(*                                                                         *)
(* The agent works in its home channel, in another one, and in a thinking  *)
(* node of that other one.                                                 *)
(***************************************************************************)
EXTENDS Naturals, FiniteSets

CONSTANTS
    WorkPlaces,  \* where there is work for the agent, of home, other and node
    MaxWork,     \* bound: pieces of work for it
    MaxJoins     \* bound: times its owner connects it with the other channel again

ASSUME DepartureConstants ==
    WorkPlaces \subseteq {"home", "other", "node"} /\ {MaxWork, MaxJoins} \subseteq Nat

VARIABLES
    hired,     \* agents.is_active
    membership, \* channels of its channel_members rows
    leaving,   \* the transaction it leaves by
    inbox,     \* agent_pending_work: one item at each place
    wake,      \* a message wake at each place, which starts its run itself
    arun,      \* agent_runs, <<place, what started it>>
    onComputer, \* what the computer does of each run
    usedAt,    \* places whose runs are bound to the agent's session
    session,   \* its status
    claiming,  \* the claim of a task of the other channel: request and row
    cleanup,   \* what the computer is still to be told to drop
    joining,   \* the request to connect it again
    joins,
    late       \* runs and claims of requests that read the agent as a member before it left

departureVars == <<hired, membership, leaving, inbox, wake, arun, onComputer, usedAt, session,
                   claiming, cleanup, joining, joins, late>>

Channels2 == {"home", "other"}
ChannelOf(p) == IF p = "node" THEN "other" ELSE p
RunKeys == WorkPlaces \X {"inbox", "wake"}
NotLeaving == [pc |-> "no", from |-> {}]

\* The agent as AddMember and the triggers ask for it.
Belongs(p) == hired /\ ChannelOf(p) \in membership

\* The agent belongs to both channels, and work is to come at some places.
DepartureInit ==
    /\ hired = TRUE /\ membership = Channels2
    /\ leaving = NotLeaving
    /\ \E work \in {w \in SUBSET RunKeys : Cardinality(w) <= MaxWork} :
          /\ inbox = [p \in WorkPlaces |-> IF <<p, "inbox">> \in work THEN "none" ELSE "unused"]
          /\ wake = [p \in WorkPlaces |-> IF <<p, "wake">> \in work THEN "none" ELSE "unused"]
    /\ arun = [r \in RunKeys |-> "none"]
    /\ onComputer = [r \in RunKeys |-> "none"]
    /\ usedAt = {} /\ session = "active"
    /\ claiming = "none" /\ cleanup = {}
    /\ joining = FALSE /\ joins = 0 /\ late = {}

DepartureTypeOK ==
    /\ hired \in BOOLEAN /\ membership \subseteq Channels2
    /\ leaving \in [pc : {"no", "marked", "gone"}, from : SUBSET Channels2]
    /\ inbox \in [WorkPlaces -> {"unused", "none", "pending", "picked", "locked", "dispatched",
                              "cancelled"}]
    /\ wake \in [WorkPlaces -> {"unused", "none", "read", "done"}]
    /\ arun \in [RunKeys -> {"none", "active", "cancelled"}]
    /\ onComputer \in [RunKeys -> {"none", "working", "stopped"}]
    /\ usedAt \subseteq WorkPlaces /\ session \in {"active", "closed"}
    /\ claiming \in {"none", "asked", "held", "released"}
    /\ cleanup \subseteq Channels2

-----------------------------------------------------------------------------
(* Leaving.                                                                *)

\* A dispatcher holds FOR SHARE on the rows that leaving writes.
RowsLocked(from) == \E p \in WorkPlaces : inbox[p] = "locked" /\ ChannelOf(p) \in from

(* The transaction deactivates the agent, or takes its membership row.     *)
(* What it wrote shows when it commits.                                    *)
MarkRows(from) ==
    /\ leaving.pc = "no" /\ hired /\ from \cap membership # {}
    /\ ~RowsLocked(from)
    /\ leaving' = [pc |-> "marked", from |-> from]
    /\ UNCHANGED <<hired, membership, inbox, wake, arun, onComputer, usedAt, session,
                   claiming, cleanup, joining, joins, late>>

\* Runs that the transaction cancels: of the channels the agent leaves.
RunsOf(from) == {r \in RunKeys : arun[r] = "active" /\ ChannelOf(r[1]) \in from}

\* Whatever is used in the channel ends with it.
ClosesWhatIsUsed(from) == "home" \in from \/ "other" \in usedAt

\* Leaving one channel closes the session that is used there and nowhere else,
\* and a thinking node counts as elsewhere; leaving home closes every one.
SessionEnds(from) == "home" \in from \/ usedAt = {"other"}

(* RemoveMember from the other channel.                                    *)
RemoveMember ==
    /\ leaving.pc = "marked" /\ leaving.from = {"other"}
    /\ membership' = membership \ {"other"} /\ UNCHANGED hired
    /\ arun' = [r \in RunKeys |-> IF r \in RunsOf({"other"}) THEN "cancelled" ELSE arun[r]]
    /\ session' = IF SessionEnds({"other"}) THEN "closed" ELSE session
    /\ claiming' = IF claiming = "held" THEN "released" ELSE claiming
    /\ cleanup' = {"other"}
    /\ late' = late \cup {<<p, "wake">> : p \in {q \in WorkPlaces :
                              wake[q] = "read" /\ ChannelOf(q) = "other"}}
                    \cup (IF claiming = "asked" THEN {<<"other", "claim">>} ELSE {})
    /\ leaving' = [leaving EXCEPT !.pc = "gone"]
    /\ UNCHANGED <<inbox, wake, onComputer, usedAt, joining, joins>>

(* Delete, and RemoveMember from home: they differ in the memberships that *)
(* they take, all of them or only home.                                    *)
Deactivate(taken) ==
    /\ leaving.pc = "marked" /\ leaving.from = Channels2 /\ "home" \in taken
    /\ hired' = FALSE /\ membership' = membership \ taken
    /\ arun' = [r \in RunKeys |-> IF r \in RunsOf(Channels2) THEN "cancelled" ELSE arun[r]]
    /\ session' = IF SessionEnds(Channels2) THEN "closed" ELSE session
    /\ claiming' = IF claiming = "held" THEN "released" ELSE claiming
    /\ cleanup' = Channels2
    /\ late' = late \cup {<<p, "wake">> : p \in {q \in WorkPlaces : wake[q] = "read"}}
                    \cup (IF claiming = "asked" THEN {<<"other", "claim">>} ELSE {})
                    \cup (IF joining THEN {<<"other", "join">>} ELSE {})
    /\ leaving' = [leaving EXCEPT !.pc = "gone"]
    /\ UNCHANGED <<inbox, wake, onComputer, usedAt, joining, joins>>

(* The goroutine tells the computer: all of the agent, or one channel of   *)
(* it.  It gives up after some seconds, or finds no computer.              *)
CleanupAgent(told) ==
    /\ cleanup # {} /\ cleanup' = {}
    /\ onComputer' = [r \in RunKeys |->
         IF told /\ onComputer[r] = "working" /\ ChannelOf(r[1]) \in cleanup
         THEN "stopped" ELSE onComputer[r]]
    /\ UNCHANGED <<hired, membership, leaving, inbox, wake, arun, usedAt, session,
                   claiming, joining, joins, late>>

-----------------------------------------------------------------------------
(* Coming back to the other channel.                                       *)

\* The agent is active when its owner asks to connect it,
AddMember ==
    /\ hired /\ "other" \notin membership /\ ~joining /\ joins < MaxJoins
    /\ joining' = TRUE /\ joins' = joins + 1
    /\ UNCHANGED <<hired, membership, leaving, inbox, wake, arun, onComputer, usedAt, session,
                   claiming, cleanup, late>>

(* and the row is inserted, whatever it is by then.  The agent may leave   *)
(* again.                                                                  *)
InsertMember ==
    /\ joining /\ joining' = FALSE
    /\ membership' = membership \cup {"other"}
    /\ leaving' = IF hired /\ leaving.pc = "gone" THEN NotLeaving ELSE leaving
    /\ late' = IF leaving'.pc = "no" THEN {} ELSE late
    /\ UNCHANGED <<hired, inbox, wake, arun, onComputer, usedAt, session, claiming, cleanup, joins>>

-----------------------------------------------------------------------------
(* Work from the inbox.                                                    *)

\* One statement checks agent and membership and inserts.
EnqueueAgentWork(p) ==
    /\ inbox[p] = "none" /\ Belongs(p)
    /\ inbox' = [inbox EXCEPT ![p] = "pending"]
    /\ UNCHANGED <<hired, membership, leaving, wake, arun, onComputer, usedAt, session,
                   claiming, cleanup, joining, joins, late>>

\* One dispatcher at a time has the agent's advisory lock.
DispatcherFree == \A p \in WorkPlaces : inbox[p] \notin {"picked", "locked"}

(* Work of an agent that left is withdrawn, other work is picked.          *)
PickWork(p) ==
    /\ inbox[p] = "pending" /\ DispatcherFree
    /\ inbox' = [q \in WorkPlaces |-> IF inbox[q] = "pending" /\ ~Belongs(q) THEN "cancelled"
                                      ELSE IF q = p THEN "picked" ELSE inbox[q]]
    /\ UNCHANGED <<hired, membership, leaving, wake, arun, onComputer, usedAt, session,
                   claiming, cleanup, joining, joins, late>>

\* FOR SHARE waits for a transaction that wrote the rows.
MayShare(p) == ~(leaving.pc = "marked" /\ ChannelOf(p) \in leaving.from)

(* Then it reads what was committed: without a row the work waits.         *)
LockAgent(p) ==
    /\ inbox[p] = "picked" /\ MayShare(p)
    /\ inbox' = [inbox EXCEPT ![p] = IF Belongs(p) THEN "locked" ELSE "pending"]
    /\ UNCHANGED <<hired, membership, leaving, wake, arun, onComputer, usedAt, session,
                   claiming, cleanup, joining, joins, late>>

StartInboxRun(p) ==
    /\ inbox[p] = "locked"
    /\ inbox' = [inbox EXCEPT ![p] = "dispatched"]
    /\ arun' = [arun EXCEPT ![<<p, "inbox">>] = "active"]
    /\ UNCHANGED <<hired, membership, leaving, wake, onComputer, usedAt, session,
                   claiming, cleanup, joining, joins, late>>

-----------------------------------------------------------------------------
(* Requests that read the membership and act on it later.                  *)

GetChannelActiveAgents(p) ==
    /\ wake[p] = "none" /\ Belongs(p)
    /\ wake' = [wake EXCEPT ![p] = "read"]
    /\ UNCHANGED <<hired, membership, leaving, inbox, arun, onComputer, usedAt, session,
                   claiming, cleanup, joining, joins, late>>

(* Nothing in the run's insertion asks again.                              *)
StartWakeRun(p) ==
    /\ wake[p] = "read"
    /\ wake' = [wake EXCEPT ![p] = "done"]
    /\ arun' = [arun EXCEPT ![<<p, "wake">>] = "active"]
    /\ UNCHANGED <<hired, membership, leaving, inbox, onComputer, usedAt, session,
                   claiming, cleanup, joining, joins, late>>

\* requireChannelMember
AsksToClaim ==
    /\ claiming \in {"none", "released"} /\ "other" \in membership
    /\ claiming' = "asked"
    /\ UNCHANGED <<hired, membership, leaving, inbox, wake, arun, onComputer, usedAt, session,
                   cleanup, joining, joins, late>>

TakesTask ==
    /\ claiming = "asked"
    /\ claiming' = "held"
    /\ UNCHANGED <<hired, membership, leaving, inbox, wake, arun, onComputer, usedAt, session,
                   cleanup, joining, joins, late>>

-----------------------------------------------------------------------------
(* The runs.                                                               *)

(* A run is handed over by the goroutine that goes on with it, even when   *)
(* it was cancelled meanwhile.                                             *)
HandOver(r) ==
    /\ arun[r] # "none" /\ onComputer[r] = "none"
    /\ onComputer' = [onComputer EXCEPT ![r] = "working"]
    /\ UNCHANGED <<hired, membership, leaving, inbox, wake, arun, usedAt, session,
                   claiming, cleanup, joining, joins, late>>

\* A run that has ended is bound to no session.
BindProviderSession(r) ==
    /\ onComputer[r] = "working" /\ arun[r] = "active" /\ r[1] \notin usedAt
    /\ session = "active"
    /\ usedAt' = usedAt \cup {r[1]}
    /\ UNCHANGED <<hired, membership, leaving, inbox, wake, arun, onComputer, session,
                   claiming, cleanup, joining, joins, late>>

DepartureNext ==
    \/ MarkRows({"other"}) \/ MarkRows(Channels2)
    \/ RemoveMember \/ \E taken \in {{"home"}, Channels2} : Deactivate(taken)
    \/ \E told \in BOOLEAN : CleanupAgent(told)
    \/ AddMember \/ InsertMember \/ AsksToClaim \/ TakesTask
    \/ \E p \in WorkPlaces :
          \/ EnqueueAgentWork(p) \/ PickWork(p) \/ LockAgent(p) \/ StartInboxRun(p)
          \/ GetChannelActiveAgents(p) \/ StartWakeRun(p)
    \/ \E r \in RunKeys : HandOver(r) \/ BindProviderSession(r)

DepartureSpec == DepartureInit /\ [][DepartureNext]_departureVars

-----------------------------------------------------------------------------
(* Properties.                                                             *)

\* An agent that left has no run of the channel but one of a wake that had read it
\* as a member before; the inbox, which locks its rows, leaves none.
NoRunAfterDeparture ==
    \A r \in RunKeys : arun[r] = "active" => Belongs(r[1]) \/ r \in late

\* It holds no task but one whose claim was asked for before.
NoClaimAfterDeparture ==
    claiming = "held" => "other" \in membership \/ <<"other", "claim">> \in late

\* Leaving one channel takes nothing from the others: their runs go on, and the session
\* they are bound to stays open.
OthersGoOn ==
    hired' => /\ \A r \in RunKeys : r[1] = "home" /\ arun[r] = "active" => arun'[r] = "active"
              /\ session = "active" /\ usedAt \cap {"home", "node"} # {} => session' = "active"

\* An agent leaves as a whole, and only from where it leaves.
DeparturePromise ==
    /\ [](DepartureTypeOK /\ NoRunAfterDeparture /\ NoClaimAfterDeparture)
    /\ [][OthersGoOn]_departureVars
===============================================================================
