------------------------------ MODULE ClaimWindow ------------------------------
(***************************************************************************)
(* The thirty seconds in which a new task is reserved for the agents its   *)
(* text mentions (TaskClaimWindowManager), and the claims of everybody     *)
(* else.  The window is opened by the goroutine that wakes agents, after   *)
(* the task is there for all to see; it lives in the server's memory, and  *)
(* an expired one is removed by the next claim that meets it.  A claim     *)
(* asks the window first and takes the task later, in its own transaction. *)
(***************************************************************************)
EXTENDS Naturals, FiniteSets

CONSTANTS
    Claimants,   \* members of the channel
    Mentioned,   \* those the task's text mentions
    MaxClaims    \* bound: claims, releases and restarts

ASSUME WindowConstants == MaxClaims \in Nat /\ Mentioned \subseteq Claimants

VARIABLES
    window,   \* the entry of the task: none, open, or older than thirty seconds
    opening,  \* whether the goroutine has yet to open it
    woken,    \* agents it has woken
    holder,   \* tasks.claimer_id
    claim,    \* the claim of each member
    claims

windowVars == <<window, opening, woken, holder, claim, claims>>

Nobody == "nobody"
NoClaim == [pc |-> "idle", saw |-> "none"]

WindowInit ==
    /\ window = "none" /\ opening = TRUE /\ woken = {} /\ holder = Nobody
    /\ claim = [c \in Claimants |-> NoClaim]
    /\ claims = 0

WindowTypeOK ==
    /\ window \in {"none", "open", "over"} /\ woken \subseteq Claimants
    /\ holder \in Claimants \cup {Nobody}
    /\ claim \in [Claimants -> [pc : {"idle", "sweeping", "allowed", "closing"},
                                saw : {"none", "open", "over"}]]

(* TriggerAllAgentsForTask opens the window, if there is none yet,         *)
OpenWindow ==
    /\ opening /\ opening' = FALSE
    /\ window' = IF window = "none" THEN "open" ELSE window
    /\ UNCHANGED <<woken, holder, claim, claims>>

(* and then wakes those that are mentioned.                                *)
WakeAgent(c) ==
    /\ ~opening /\ c \in Mentioned \ woken
    /\ woken' = woken \cup {c}
    /\ UNCHANGED <<window, opening, holder, claim, claims>>

WindowPasses ==
    /\ window = "open"
    /\ window' = "over"
    /\ UNCHANGED <<opening, woken, holder, claim, claims>>

\* CheckClaimAllowed: during the window only those that are mentioned.
Allowed(c) == window # "open" \/ c \in Mentioned

CheckClaimAllowed(c) ==
    /\ claim[c].pc = "idle" /\ claims < MaxClaims /\ claims' = claims + 1
    /\ claim' = [claim EXCEPT ![c] =
         IF ~Allowed(c) THEN NoClaim
         ELSE [pc |-> IF window = "over" THEN "sweeping" ELSE "allowed", saw |-> window]]
    /\ UNCHANGED <<window, opening, woken, holder>>

(* An expired entry is deleted under another lock than it was read with.   *)
SweepWindow(c) ==
    /\ claim[c].pc = "sweeping"
    /\ window' = "none"
    /\ claim' = [claim EXCEPT ![c].pc = "allowed"]
    /\ UNCHANGED <<opening, woken, holder, claims>>

(* The claim of the row, refused when somebody else holds it.              *)
ClaimRow(c) ==
    /\ claim[c].pc = "allowed"
    /\ IF holder \in {Nobody, c}
       THEN holder' = c /\ claim' = [claim EXCEPT ![c].pc = "closing"]
       ELSE claim' = [claim EXCEPT ![c] = NoClaim] /\ UNCHANGED holder
    /\ UNCHANGED <<window, opening, woken, claims>>

CloseWindow(c) ==
    /\ claim[c].pc = "closing"
    /\ window' = "none"
    /\ claim' = [claim EXCEPT ![c] = NoClaim]
    /\ UNCHANGED <<opening, woken, holder, claims>>

Unclaim(c) ==
    /\ holder = c /\ claim[c].pc = "idle" /\ claims < MaxClaims
    /\ holder' = Nobody /\ claims' = claims + 1
    /\ UNCHANGED <<window, opening, woken, claim>>

(* A restart forgets the window and every request.                         *)
ServerRestarts ==
    /\ claims < MaxClaims /\ claims' = claims + 1
    /\ window' = "none" /\ opening' = FALSE
    /\ claim' = [c \in Claimants |-> NoClaim]
    /\ UNCHANGED <<woken, holder>>

WindowNext ==
    \/ OpenWindow \/ WindowPasses \/ ServerRestarts
    \/ \E c \in Claimants :
          \/ WakeAgent(c) \/ CheckClaimAllowed(c) \/ SweepWindow(c)
          \/ ClaimRow(c) \/ CloseWindow(c) \/ Unclaim(c)

WindowSpec == WindowInit /\ [][WindowNext]_windowVars

-----------------------------------------------------------------------------
(* Properties.                                                             *)

\* While the window is open, somebody who is not mentioned gets the task only with a
\* claim that had asked before there was a window.
ReservedForMentioned ==
    holder' # holder /\ holder' \notin Mentioned \cup {Nobody} /\ window = "open"
        => claim[holder'].saw = "none"

\* Sweeping an expired window never removes one that is open: a task has one window.
SweepHitsNoOpenWindow ==
    \A c \in Claimants : claim[c].pc = "sweeping" => window # "open"

\* The agents that are woken for a task find it reserved, for them or not at all.
WindowPromise ==
    /\ [](WindowTypeOK /\ SweepHitsNoOpenWindow)
    /\ [][ReservedForMentioned]_windowVars
===============================================================================
