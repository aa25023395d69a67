----------------------------- MODULE RunAccount -----------------------------
(***************************************************************************)
(* What the lifecycle of a run promises its owner: a run is opened once,   *)
(* closed once, and its cost is booked in the step that closes it and never *)
(* touched again.  RunLedger is shown to implement it.                     *)
(***************************************************************************)
EXTENDS Naturals

CONSTANT AccountRuns

VARIABLES
    phase,  \* [AccountRuns -> {"absent", "open", "closed"}]
    booked  \* [AccountRuns -> Nat], 0 until the run is closed

accountVars == <<phase, booked>>

AccountInit ==
    /\ phase = [r \in AccountRuns |-> "absent"]
    /\ booked = [r \in AccountRuns |-> 0]

Open(r) ==
    /\ phase[r] = "absent"
    /\ phase' = [phase EXCEPT ![r] = "open"]
    /\ UNCHANGED booked

\* One operation may close several runs, each with a cost of its own.
Close(rs) ==
    /\ rs # {} /\ \A r \in rs : phase[r] = "open"
    /\ phase' = [r \in AccountRuns |-> IF r \in rs THEN "closed" ELSE phase[r]]
    /\ \A r \in AccountRuns \ rs : booked'[r] = booked[r]
    /\ DOMAIN booked' = AccountRuns

AccountNext ==
    \/ \E r \in AccountRuns : Open(r)
    \/ \E rs \in SUBSET AccountRuns : Close(rs)

AccountSpec == AccountInit /\ [][AccountNext]_accountVars
=============================================================================
