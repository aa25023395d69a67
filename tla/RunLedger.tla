----------------------------- MODULE RunLedger ------------------------------
(***************************************************************************)
(* The lifecycle of `agent_runs` and the token ledger behind it: policies  *)
(* (`budget_policies`), the usage row of each run (`agent_run_token_usage`) *)
(* and its reservations (`budget_reservations`), for the agents of one     *)
(* owner.                                                                  *)
(*                                                                         *)
(* startRunTx reads under two advisory locks, of the owner and of the      *)
(* agent, and a shared lock of the agent's row; the usage of a scope comes *)
(* from two statements, the second of which sees what committed after the  *)
(* first.  The settlement takes none of these locks.  A start is therefore *)
(* three steps: read what was booked, read what is reserved and decide,    *)
(* insert and commit.  The lifetime allowance of a trial (Selection) is    *)
(* not part of this module.                                                *)
(***************************************************************************)
EXTENDS Naturals, FiniteSets, Functions

CONSTANTS
    LRuns,           \* ids of runs
    LAgents,         \* agents of the owner
    LimitChoices,    \* limits that people save
    RunReserve,      \* systemRunReserveTokens
    MaxTokens,       \* most tokens one run uses
    MaxPolicyEdits,  \* bound on saved policies
    MaxMonths        \* bound on month ends

ASSUME LedgerConstants ==
    /\ IsFiniteSet(LRuns)
    /\ LimitChoices \subseteq Nat
    /\ RunReserve \in Nat \ {0} /\ MaxTokens \in Nat
    /\ MaxPolicyEdits \in Nat /\ MaxMonths \in Nat
    /\ "user" \notin LAgents

VARIABLES
    lpolicy,   \* [LPolicies -> budget_policies row]
    lagent,   \* [LAgents -> is_active]
    lrun,     \* [LRuns -> agent_runs row]
    usage,    \* [LRuns -> agent_run_token_usage row]
    resv,     \* [LRuns -> [LPolicies -> budget_reservations row]]
    starting, \* startRunTx transactions in progress
    pedits, months

ledgerVars == <<lpolicy, lagent, lrun, usage, resv, starting, pedits, months>>

LPolicies == {"user"} \cup LAgents

LActive == {"queued", "running"}
LTerminal == {"completed", "failed", "cancelled", "timeout"}

LRun == [state : {"none"} \cup LActive \cup LTerminal, agent : LAgents \cup {"none"},
         gate : BOOLEAN, started : BOOLEAN, tokens : 0 .. MaxTokens]

\* month: created in the current month.
Usage == [state : {"none", "pending", "settled", "released", "usage_unknown"},
          actual : 0 .. MaxTokens, month : BOOLEAN]

Resv == [state : {"none", "active", "settled", "released"}, reserved : 0 .. RunReserve,
         accounted : 0 .. RunReserve]

LedgerTypeOK ==
    /\ lpolicy \in [LPolicies -> [enabled : BOOLEAN, limit : LimitChoices \cup {0}]]
    /\ lagent \in [LAgents -> BOOLEAN]
    /\ lrun \in [LRuns -> LRun]
    /\ usage \in [LRuns -> Usage]
    /\ resv \in [LRuns -> [LPolicies -> Resv]]
    /\ \A x \in starting : x.run \in LRuns /\ x.agent \in LAgents
    /\ pedits \in 0 .. MaxPolicyEdits /\ months \in 0 .. MaxMonths

NoLRun == [state |-> "none", agent |-> "none", gate |-> FALSE, started |-> FALSE, tokens |-> 0]
NoUsage == [state |-> "none", actual |-> 0, month |-> FALSE]
NoResv == [state |-> "none", reserved |-> 0, accounted |-> 0]

LedgerInit ==
    /\ lpolicy \in [LPolicies -> [enabled : {TRUE}, limit : LimitChoices]]
    /\ lagent = [a \in LAgents |-> TRUE]
    /\ lrun = [r \in LRuns |-> NoLRun]
    /\ usage = [r \in LRuns |-> NoUsage]
    /\ resv = [r \in LRuns |-> [p \in LPolicies |-> NoResv]]
    /\ starting = {}
    /\ pedits = 0 /\ months = 0

-----------------------------------------------------------------------------
(* Usage of a scope                                                        *)

InScope(r, p) == p \in {"user", lrun[r].agent}

\* The first statement of scopeUsage: what settled runs of the month used.
ActualUse(p) ==
    SumFunctionOnSet([r \in LRuns |-> usage[r].actual],
        {r \in LRuns : usage[r].state = "settled" /\ usage[r].month /\ InScope(r, p)})

\* The second one: reservations booked for runs of unknown cost, and open ones.
UnknownUse(p) ==
    SumFunctionOnSet([r \in LRuns |-> resv[r][p].accounted],
        {r \in LRuns : resv[r][p].state = "settled" /\ usage[r].month})

Reserving(p) == {r \in LRuns : resv[r][p].state = "active"}
ActiveUse(p) == SumFunctionOnSet([r \in LRuns |-> resv[r][p].reserved], Reserving(p))

\* runReserveTokens: never more than the limit itself.
RunReserveTokens(p) ==
    IF ~ lpolicy[p].enabled \/ lpolicy[p].limit = 0 THEN 0
    ELSE IF lpolicy[p].limit < RunReserve THEN lpolicy[p].limit ELSE RunReserve

\* Enabled policies of the owner and the agent.
PlanOf(a) == {p \in {"user", a} : lpolicy[p].enabled}

-----------------------------------------------------------------------------
(* Starting a run                                                          *)

\* Variant: the advisory lock user:<owner> is not taken.
OwnerUnlocked == TRUE

\* lockBudgetKey(user:<owner>), held until commit.
OwnerLockFree == starting = {}

Fresh(r) == lrun[r].state = "none" /\ \A x \in starting : x.run # r

\* buildRunPlanTx: the agent is active (FOR SHARE), the locks, the policies and
\* the first statement of scopeUsage.
StartReads(r, a) ==
    /\ Fresh(r) /\ lagent[a] /\ OwnerLockFree
    /\ \A p \in PlanOf(a) : lpolicy[p].limit > 0
    /\ starting' = starting \cup
          {[run |-> r, agent |-> a, plan |-> PlanOf(a), decided |-> FALSE,
            actual |-> [p \in PlanOf(a) |-> ActualUse(p)]]}
    /\ UNCHANGED <<lpolicy, lagent, lrun, usage, resv, pedits, months>>

\* The second statement, and the decision: over the limit of any scope the
\* start is refused and rolled back.
StartDecides(x) ==
    /\ ~ x.decided
    /\ LET fits == \A p \in x.plan :
                     x.actual[p] + UnknownUse(p) + ActiveUse(p) + RunReserveTokens(p)
                       <= lpolicy[p].limit
       IN  starting' = IF fits THEN (starting \ {x}) \cup {[x EXCEPT !.decided = TRUE]}
                       ELSE starting \ {x}
    /\ UNCHANGED <<lpolicy, lagent, lrun, usage, resv, pedits, months>>

\* The rows of startRunTx and ReserveRunTx appear with the commit.
StartCommits(x) ==
    /\ x.decided
    /\ starting' = starting \ {x}
    /\ lrun' = [lrun EXCEPT ![x.run] = [NoLRun EXCEPT !.state = "queued", !.agent = x.agent]]
    /\ usage' = [usage EXCEPT ![x.run] = [NoUsage EXCEPT !.state = "pending", !.month = TRUE]]
    /\ resv' = [resv EXCEPT ![x.run] =
                  [p \in LPolicies |-> IF p \in x.plan
                                      THEN [NoResv EXCEPT !.state = "active",
                                                          !.reserved = RunReserveTokens(p)]
                                      ELSE NoResv]]
    /\ UNCHANGED <<lpolicy, lagent, pedits, months>>

\* A code gate is a process check: a run without a ledger row.
StartGate(r, a) ==
    /\ Fresh(r) /\ lagent[a]
    /\ lrun' = [lrun EXCEPT ![r] = [NoLRun EXCEPT !.state = "queued", !.agent = a, !.gate = TRUE]]
    /\ UNCHANGED <<lpolicy, lagent, usage, resv, starting, pedits, months>>

-----------------------------------------------------------------------------
(* While it runs                                                           *)

\* Variant: the updates do not look at finished_at.
StartedOnce(r) == lrun[r].state # "none"

\* WHERE finished_at IS NULL.
StillOpen(r) == lrun[r].state \in LActive

MarkBackendStarted(r) ==
    /\ StillOpen(r) /\ ~ lrun[r].started
    /\ lrun' = [lrun EXCEPT ![r] = [@ EXCEPT !.state = "running", !.started = TRUE]]
    /\ UNCHANGED <<lpolicy, lagent, usage, resv, starting, pedits, months>>

\* UpdateStatus: activity and usage, as long as the run is not finished.
UpdateStatus(r, n) ==
    /\ StillOpen(r) /\ ~ lrun[r].gate
    /\ n > lrun[r].tokens
    /\ lrun' = [lrun EXCEPT ![r] = [@ EXCEPT !.tokens = n, !.state = "running"]]
    /\ UNCHANGED <<lpolicy, lagent, usage, resv, starting, pedits, months>>

-----------------------------------------------------------------------------
(* Ending a run                                                            *)

\* The new state of the usage row (SettleRunTx).
SettledState(r) ==
    CASE ~ lrun[r].started -> "released"
      [] lrun[r].started /\ lrun[r].tokens = 0 -> "usage_unknown"
      [] OTHER -> "settled"

\* SettleRunTx and SettleTerminalRunsTx: rows that are not pending are left alone.
SettleRuns(rs) ==
    LET Due(r) == r \in rs /\ usage[r].state = "pending"
        st(r) == SettledState(r)
    IN  /\ usage' = [r \in LRuns |->
              IF Due(r) THEN [usage[r] EXCEPT !.state = st(r),
                                !.actual = IF st(r) = "settled" THEN lrun[r].tokens ELSE 0]
              ELSE usage[r]]
        /\ resv' = [r \in LRuns |->
              IF Due(r)
              THEN [p \in LPolicies |->
                      IF resv[r][p].state # "active" THEN resv[r][p]
                      ELSE [resv[r][p] EXCEPT
                              !.state = IF st(r) = "released" THEN "released" ELSE "settled",
                              !.accounted = IF st(r) = "usage_unknown" THEN resv[r][p].reserved ELSE 0]]
              ELSE resv[r]]

\* FinishRun: the first terminal write wins; later ones find finished_at set.
FinishRun(r, st) ==
    /\ lrun[r].state \in LActive
    /\ lrun' = [lrun EXCEPT ![r].state = st]
    /\ SettleRuns({r})
    /\ UNCHANGED <<lpolicy, lagent, starting, pedits, months>>

ActiveRunsOf(a) == {r \in LRuns : lrun[r].state \in LActive /\ lrun[r].agent = a}

\* UPDATE agent_runs SET status='cancelled' ... RETURNING, then the settlement.
CancelRuns(a) ==
    /\ lrun' = [r \in LRuns |-> IF r \in ActiveRunsOf(a)
                                THEN [lrun[r] EXCEPT !.state = "cancelled"] ELSE lrun[r]]
    /\ SettleRuns(ActiveRunsOf(a))

\* RemoveMember of an agent from a channel that is not its home.
RemoveAgentFromChannel(a) ==
    /\ ActiveRunsOf(a) # {}
    /\ CancelRuns(a)
    /\ UNCHANGED <<lpolicy, lagent, starting, pedits, months>>

\* The UPDATE of the agents row waits for starts that hold it FOR SHARE.
AgentRowFree(a) == \A x \in starting : x.agent # a

\* Delete, and RemoveMember from the home channel.
DeleteAgent(a) ==
    /\ lagent[a] /\ AgentRowFree(a)
    /\ lagent' = [lagent EXCEPT ![a] = FALSE]
    /\ CancelRuns(a)
    /\ UNCHANGED <<lpolicy, starting, pedits, months>>

-----------------------------------------------------------------------------
(* Policies and time                                                       *)

\* validateBudgetInput: an enabled policy has a limit.
ValidBudget(on, n) == on => n > 0

\* SaveUserBudget and SaveAgentBudget, under the same advisory locks.
SaveBudget(p, on, n) ==
    /\ pedits < MaxPolicyEdits
    /\ ValidBudget(on, n)
    /\ OwnerLockFree
    /\ p \in LAgents => lagent[p]
    /\ lpolicy' = [lpolicy EXCEPT ![p] = [enabled |-> on, limit |-> n]]
    /\ pedits' = pedits + 1
    /\ UNCHANGED <<lagent, lrun, usage, resv, starting, months>>

NewMonth ==
    /\ months < MaxMonths
    /\ months' = months + 1
    /\ usage' = [r \in LRuns |-> [usage[r] EXCEPT !.month = FALSE]]
    /\ UNCHANGED <<lpolicy, lagent, lrun, resv, starting, pedits>>

LedgerNext ==
    \/ \E r \in LRuns, a \in LAgents : StartReads(r, a) \/ StartGate(r, a)
    \/ \E x \in starting : StartDecides(x) \/ StartCommits(x)
    \/ \E r \in LRuns : MarkBackendStarted(r)
    \/ \E r \in LRuns, n \in 1 .. MaxTokens : UpdateStatus(r, n)
    \/ \E r \in LRuns, st \in {"completed", "failed"} : FinishRun(r, st)
    \/ \E a \in LAgents : RemoveAgentFromChannel(a) \/ DeleteAgent(a)
    \/ \E p \in LPolicies, on \in BOOLEAN, n \in LimitChoices : SaveBudget(p, on, n)
    \/ NewMonth

LedgerSpec == LedgerInit /\ [][LedgerNext]_ledgerVars

-----------------------------------------------------------------------------
(* Properties                                                              *)

\* A run and its money end together, whichever of the terminal paths comes
\* first: an open run has a pending row and its reservations, a finished one
\* has neither.
SettledWithItsRun ==
    \A r \in LRuns :
        /\ (lrun[r].state \in LActive /\ ~ lrun[r].gate) <=> usage[r].state = "pending"
        /\ \A p \in LPolicies : resv[r][p].state = "active" => usage[r].state = "pending"

\* Whatever starts together, the reservations a new run joins fit the limit of
\* every policy that admitted it.
ReservationsFit ==
    [][\A r \in LRuns :
          lrun[r].state = "none" /\ lrun'[r].state # "none" /\ ~ lrun'[r].gate =>
             \A p \in LPolicies : resv'[r][p].state = "active" =>
                ActiveUse(p)' <= lpolicy'[p].limit]_ledgerVars

\* Deleting an agent ends its work for good: no start that was on its way
\* leaves a run behind.
DeletedAgentHasNoRun ==
    \A a \in LAgents : ~ lagent[a] =>
        ~ \E r \in LRuns : lrun[r].agent = a /\ lrun[r].state \in LActive

\* The cost that counts for a finished run.
Cost(r) ==
    CASE usage[r].state = "settled" -> usage[r].actual
      [] usage[r].state = "usage_unknown" -> RunReserve
      [] OTHER -> 0

Account == INSTANCE RunAccount WITH
    AccountRuns <- LRuns,
    phase <- [r \in LRuns |-> IF lrun[r].state = "none" THEN "absent"
                              ELSE IF lrun[r].state \in LActive THEN "open" ELSE "closed"],
    booked <- [r \in LRuns |-> Cost(r)]

\* The ledger implements the account: a run is closed once, and its cost is
\* booked exactly then.
BookedOnClose == Account!AccountSpec

\* What the ledger promises: usage and reservations are settled in the
\* transaction that ends their run, a deleted agent has no run left, and
\* whatever starts fits into what is left of every policy it belongs to.
LedgerPromise ==
    /\ []LedgerTypeOK
    /\ []SettledWithItsRun
    /\ []DeletedAgentHasNoRun
    /\ ReservationsFit
=============================================================================
