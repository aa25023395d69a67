---------------------------- MODULE DaemonSession ----------------------------
(***************************************************************************)
(* The pool of provider processes a daemon keeps for one agent             *)
(* (AgentSessionManager, pkg/agent/session.go).  Each scope, a channel or  *)
(* a thinking node, has at most one pooled entry; a request takes the turn *)
(* of its scope, then the turn of the agent, sends to the pooled process   *)
(* or starts one, and keeps both turns until the result arrives.  The      *)
(* sleeper takes only the turn of a scope; closing a scope takes none.     *)
(*                                                                         *)
(* An entry and the process it was created for carry one number.  Provider *)
(* session ids are numbers too; which id a start returns is the provider's *)
(* choice.  Start slots only delay a start.                                *)
(***************************************************************************)
EXTENDS Naturals, FiniteSets

CONSTANTS
    DScopes,       \* session keys of the agent
    Nodes,         \* the ones of thinking nodes
    DReqs,         \* requests
    Configs,       \* runtime configurations that requests carry
    Observations,  \* what a turn may report about its context
    MaxProcs,      \* bound on processes started
    MaxIds         \* bound on provider session ids

ASSUME PoolConstants ==
    /\ Nodes \subseteq DScopes
    /\ Observations \subseteq [compaction : {"none", "unknown", "good", "weak", "full"},
                               final : {"none", "low", "high", "estimated"}]
    /\ MaxProcs \in Nat \ {0} /\ MaxIds \in Nat \ {0}
    /\ DReqs \cap {"free", "sleeper"} = {}

VARIABLES
    pool,      \* [DScopes -> current entry, 0 when there is none]
    ent,       \* [Procs -> entry and process]
    dreq,      \* [DReqs -> request]
    scopeTurn, \* [DScopes -> who holds the turn of the scope]
    agentTurn, \* who holds the turn of the agent
    closing,   \* processes that are being closed
    cooldown   \* scopes whose last start died at once, less than 30 s ago

poolVars == <<pool, ent, dreq, scopeTurn, agentTurn, closing, cooldown>>

Procs == 1 .. MaxProcs
Ids == 1 .. MaxIds

Healthy == [weak |-> 0, high |-> 0]

NoEnt == [scope |-> "none", cfg |-> "none", alive |-> FALSE, asleep |-> FALSE, id |-> 0,
          health |-> Healthy]

NewReq == [phase |-> "new", scope |-> "none", cfg |-> "none", fresh |-> FALSE, retire |-> 0,
           resume |-> 0, proc |-> 0, wasThere |-> FALSE]

PoolTypeOK ==
    /\ pool \in [DScopes -> Procs \cup {0}]
    /\ \A p \in Procs : /\ ent[p].alive \in BOOLEAN /\ ent[p].asleep \in BOOLEAN
                        /\ ent[p].id \in Ids \cup {0}
                        /\ ent[p].health \in [weak : 0 .. 2, high : 0 .. 3]
    /\ \A q \in DReqs :
          /\ dreq[q].phase \in {"new", "waitScope", "waitAgent", "turn", "create", "starting",
                                "running", "reported", "ended"}
          /\ dreq[q].phase \in {"running", "reported"} => dreq[q].proc \in Procs
          /\ dreq[q].resume \in Ids \cup {0} /\ dreq[q].retire \in Ids \cup {0}
    /\ scopeTurn \in [DScopes -> DReqs \cup {"free", "sleeper"}]
    /\ agentTurn \in DReqs \cup {"free"}
    /\ closing \subseteq Procs /\ cooldown \subseteq DScopes

\* A daemon that has started one process.
PoolInit ==
    /\ \E s \in DScopes \ Nodes : LET c == CHOOSE x \in Configs : TRUE IN
          /\ pool = [x \in DScopes |-> IF x = s THEN 1 ELSE 0]
          /\ ent = [p \in Procs |-> IF p = 1 THEN [NoEnt EXCEPT !.scope = s, !.cfg = c,
                                                    !.alive = TRUE, !.id = 1] ELSE NoEnt]
    /\ dreq = [q \in DReqs |-> NewReq]
    /\ scopeTurn = [s \in DScopes |-> "free"]
    /\ agentTurn = "free"
    /\ closing = {} /\ cooldown = {}

-----------------------------------------------------------------------------
(* Helpers                                                                 *)

KnownIds == {ent[p].id : p \in Procs} \cup {0}

FreshId == IF KnownIds = Ids \cup {0} THEN 0
           ELSE CHOOSE i \in Ids : i \notin KnownIds /\ \A j \in 1 .. i - 1 : j \in KnownIds

NextProc == CHOOSE p \in Procs : ent[p] = NoEnt /\ \A r \in 1 .. p - 1 : ent[r] # NoEnt

Alive(p) == p # 0 /\ ~ ent[p].asleep /\ ent[p].alive

\* The release function of acquireTurn; only what the request holds.
TurnReleased(q) ==
    /\ scopeTurn' = [s \in DScopes |-> IF scopeTurn[s] = q THEN "free" ELSE scopeTurn[s]]
    /\ agentTurn' = IF agentTurn = q THEN "free" ELSE agentTurn

\* From here on the request only knows its scope and the turn it was given.
Turn(q, p) == [dreq EXCEPT ![q] = [NewReq EXCEPT !.phase = "running", !.scope = dreq[q].scope,
                                                 !.proc = p]]

Ended(q) == [dreq EXCEPT ![q] = [NewReq EXCEPT !.phase = "ended"]]

-----------------------------------------------------------------------------
(* Arrival and turns                                                       *)

\* GetOrCreateScopedSession up to its wait: the pool is read without a turn, and
\* a sleeping entry's session id becomes the one to resume.
GetSession(q, s, c, resume) ==
    LET p == pool[s]
    IN  /\ dreq[q].phase = "new"
        /\ dreq' = IF p = 0 /\ s \in cooldown THEN Ended(q)
                   ELSE [dreq EXCEPT ![q] = [NewReq EXCEPT !.phase = "waitScope", !.scope = s,
                           !.cfg = c, !.resume = IF p # 0 /\ ~ Alive(p) THEN ent[p].id ELSE resume]]
        /\ UNCHANGED <<pool, ent, scopeTurn, agentTurn, closing, cooldown>>

\* RetireAndStartFreshScopedSession up to its wait.
RetireSession(q, s, c, retire) ==
    /\ dreq[q].phase = "new"
    /\ dreq' = [dreq EXCEPT ![q] = [NewReq EXCEPT !.phase = "waitScope", !.scope = s, !.cfg = c,
                                                  !.fresh = TRUE, !.retire = retire]]
    /\ UNCHANGED <<pool, ent, scopeTurn, agentTurn, closing, cooldown>>

TakeScopeTurn(q) ==
    /\ dreq[q].phase = "waitScope" /\ scopeTurn[dreq[q].scope] = "free"
    /\ scopeTurn' = [scopeTurn EXCEPT ![dreq[q].scope] = q]
    /\ dreq' = [dreq EXCEPT ![q].phase = "waitAgent"]
    /\ UNCHANGED <<pool, ent, agentTurn, closing, cooldown>>

AgentTurnFree == agentTurn = "free"

TakeAgentTurn(q) ==
    /\ dreq[q].phase = "waitAgent" /\ AgentTurnFree
    /\ agentTurn' = q
    /\ dreq' = [dreq EXCEPT ![q].phase = "turn"]
    /\ UNCHANGED <<pool, ent, scopeTurn, closing, cooldown>>

\* What a cancelled wait gives back: the turn of the scope, if it was taken.
GiveBack(q) ==
    /\ scopeTurn' = [s \in DScopes |-> IF scopeTurn[s] = q THEN "free" ELSE scopeTurn[s]]
    /\ UNCHANGED agentTurn

\* The context is cancelled during a wait of acquireTurn.
CancelWait(q) ==
    /\ dreq[q].phase \in {"waitScope", "waitAgent"}
    /\ GiveBack(q)
    /\ dreq' = Ended(q)
    /\ UNCHANGED <<pool, ent, closing, cooldown>>

-----------------------------------------------------------------------------
(* Under the turn                                                          *)

Dead(p) == [ent EXCEPT ![p].alive = FALSE]

Unpooled(s) == [pool EXCEPT ![s] = 0]

\* Variant: the entry of the scope is retired whatever session it holds.
RetiresAny(q, p) == TRUE

\* Only the exact session the server named may be retired; without a name the
\* scope's entry is.
Retires(q, p) == dreq[q].retire = 0 \/ ent[p].id = dreq[q].retire

\* RetireAndStartFreshScopedSession after the wait: the session that was named is
\* closed and forgotten; a newer one is used instead, if its configuration fits.
UseTurn(q) ==
    LET p == pool[dreq[q].scope]
    IN  /\ dreq[q].phase = "turn"
        /\ \/ /\ ~ dreq[q].fresh \/ p = 0
              /\ dreq' = [dreq EXCEPT ![q].phase = "create"]
              /\ UNCHANGED <<pool, ent, scopeTurn, agentTurn>>
           \/ /\ dreq[q].fresh /\ p # 0 /\ Retires(q, p)
              /\ ent' = IF ent[p].asleep THEN ent ELSE Dead(p)
              /\ pool' = Unpooled(dreq[q].scope)
              /\ dreq' = [dreq EXCEPT ![q].phase = "create"]
              /\ UNCHANGED <<scopeTurn, agentTurn>>
           \/ /\ dreq[q].fresh /\ p # 0 /\ ~ Retires(q, p) /\ ent[p].cfg = dreq[q].cfg
              /\ dreq' = [dreq EXCEPT ![q].phase = "create", ![q].resume = ent[p].id,
                                      ![q].fresh = FALSE]
              /\ UNCHANGED <<pool, ent, scopeTurn, agentTurn>>
           \/ /\ dreq[q].fresh /\ p # 0 /\ ~ Retires(q, p) /\ ent[p].cfg # dreq[q].cfg
              /\ TurnReleased(q)
              /\ dreq' = Ended(q)
              /\ UNCHANGED <<pool, ent>>
        /\ UNCHANGED <<closing, cooldown>>

\* backend.Close of a session whose configuration no longer fits.
RestartClosed(p) == Dead(p)

\* createSessionWithTurn up to the start: send to a live process that fits, close
\* one that does not, or go on to start one.
SendOrStart(q, sent) ==
    LET s == dreq[q].scope
        p == pool[s]
    IN  /\ dreq[q].phase = "create"
        /\ \/ /\ Alive(p) /\ ent[p].cfg = dreq[q].cfg
              /\ IF sent
                   THEN /\ dreq' = Turn(q, p)
                        /\ UNCHANGED <<scopeTurn, agentTurn>>
                   ELSE dreq' = Ended(q) /\ TurnReleased(q)
              /\ UNCHANGED <<pool, ent>>
           \/ /\ Alive(p) /\ ent[p].cfg # dreq[q].cfg
              /\ ent' = RestartClosed(p)
              /\ pool' = Unpooled(s)
              /\ dreq' = [dreq EXCEPT ![q].phase = "starting", ![q].resume = 0]
              /\ UNCHANGED <<scopeTurn, agentTurn>>
           \/ /\ ~ Alive(p)
              /\ dreq' = [dreq EXCEPT ![q].phase = "starting", ![q].wasThere = (p # 0),
                            ![q].proc = p,
                            ![q].resume = IF p # 0 /\ ent[p].cfg # dreq[q].cfg THEN 0 ELSE @]
              /\ UNCHANGED <<pool, ent, scopeTurn, agentTurn>>
        /\ UNCHANGED <<closing, cooldown>>

\* The ids a start may come back with: the resumed one, a new one, or, from a
\* provider that ignores the request, the one that was to be retired.
StartIds(q) ==
    {i \in {dreq[q].resume, FreshId} \cup (IF dreq[q].fresh THEN {dreq[q].retire} ELSE {}) : i # 0}

\* The rest of createSessionWithTurn.  A fresh start that answers with the
\* retired id is closed again; its turn ends like any other.
StartSession(q, id, diesAtOnce) ==
    LET s    == dreq[q].scope
        p    == NextProc
        kept == dreq[q].wasThere /\ dreq[q].resume # 0 /\ id = dreq[q].resume
        bad  == dreq[q].fresh /\ dreq[q].retire = id
        old  == pool[s]
    IN  /\ dreq[q].phase = "starting"
        /\ \E r \in Procs : ent[r] = NoEnt
        /\ id \in StartIds(q)
        /\ ent' = [r \in Procs |->
              IF r = p THEN [scope |-> s, cfg |-> dreq[q].cfg, asleep |-> FALSE, id |-> id,
                             alive |-> ~ diesAtOnce /\ ~ bad,
                             health |-> IF kept THEN ent[dreq[q].proc].health ELSE Healthy]
              ELSE IF r = old /\ ~ ent[r].asleep THEN [ent[r] EXCEPT !.alive = FALSE]
              ELSE ent[r]]
        /\ pool' = [pool EXCEPT ![s] = IF bad THEN 0 ELSE p]
        /\ cooldown' = IF diesAtOnce THEN cooldown \cup {s} ELSE cooldown
        /\ dreq' = Turn(q, p)
        /\ UNCHANGED <<scopeTurn, agentTurn, closing>>

\* The workspace, the start slot or the start itself fails, or the context is
\* cancelled while it waits for a slot.
StartFails(q) ==
    /\ dreq[q].phase = "starting"
    /\ TurnReleased(q)
    /\ dreq' = Ended(q)
    /\ UNCHANGED <<pool, ent, closing, cooldown>>

\* holdTurnUntilResult: the result of the turn, or the end of the process.
TurnResult(q) ==
    /\ dreq[q].phase = "running"
    /\ TurnReleased(q)
    /\ dreq' = [dreq EXCEPT ![q].phase = "reported"]
    /\ UNCHANGED <<pool, ent, closing, cooldown>>

-----------------------------------------------------------------------------
(* Context health                                                          *)

AtMost(n, max) == IF n > max THEN max ELSE n

Compacted(h, c) ==
    CASE c = "none" -> h
      [] c \in {"weak", "full"} -> [h EXCEPT !.weak = AtMost(@ + 1, 2)]
      [] OTHER -> [h EXCEPT !.weak = 0]

\* evaluateContextTurn: the counters after a turn.  A compaction that asks for a
\* rollover returns before the final snapshot is looked at.
EvaluateTurn(h, o) ==
    LET k == Compacted(h, o.compaction)
    IN  CASE o.compaction = "full" \/ (o.compaction # "none" /\ k.weak = 2) -> k
          [] o.final \in {"high", "estimated"} -> [k EXCEPT !.high = AtMost(@ + 1, 3)]
          [] OTHER -> [k EXCEPT !.high = 0]

\* The entry holds the very provider session the turn ran in.
SameSession(p, t) == ~ ent[p].asleep /\ ent[p].id = ent[t].id

\* FinalizeContextTurn, after the turn was given back.
FinalizeTurn(q, o) ==
    LET s == dreq[q].scope
        p == pool[s]
    IN  /\ dreq[q].phase = "reported"
        /\ ent' = IF s \notin Nodes /\ p # 0 /\ SameSession(p, dreq[q].proc)
                  THEN [ent EXCEPT ![p].health = EvaluateTurn(@, o)] ELSE ent
        /\ dreq' = Ended(q)
        /\ UNCHANGED <<pool, scopeTurn, agentTurn, closing, cooldown>>

-----------------------------------------------------------------------------
(* Sleep, close and crash                                                  *)

\* sleepIdleSessions: the turn of the scope, taken only if it is free.
SleepIdle(s) ==
    LET p == pool[s]
    IN  /\ scopeTurn[s] = "free"
        /\ p # 0 /\ ~ ent[p].asleep
        /\ scopeTurn' = [scopeTurn EXCEPT ![s] = "sleeper"]
        /\ ent' = [ent EXCEPT ![p].asleep = TRUE]
        /\ closing' = IF ent[p].alive THEN closing \cup {p} ELSE closing
        /\ UNCHANGED <<pool, dreq, agentTurn, cooldown>>

SleeperReleases(s) ==
    /\ scopeTurn[s] = "sleeper"
    /\ \A p \in closing : ent[p].scope # s \/ ~ ent[p].asleep
    /\ scopeTurn' = [scopeTurn EXCEPT ![s] = "free"]
    /\ UNCHANGED <<pool, ent, dreq, agentTurn, closing, cooldown>>

\* closeScopedSession, ForceCloseSession and CloseAll take entries out of the pool
\* at once, without a turn, and close their processes afterwards.
CloseScopes(ss) ==
    /\ \A s \in ss : pool[s] # 0
    /\ pool' = [s \in DScopes |-> IF s \in ss THEN 0 ELSE pool[s]]
    /\ closing' = closing \cup {p \in Procs : /\ \E s \in ss : pool[s] = p
                                              /\ ~ ent[p].asleep /\ ent[p].alive}
    /\ UNCHANGED <<ent, dreq, scopeTurn, agentTurn, cooldown>>

ProcessClosed(p) ==
    /\ p \in closing
    /\ ent' = Dead(p)
    /\ closing' = closing \ {p}
    /\ UNCHANGED <<pool, dreq, scopeTurn, agentTurn, cooldown>>

ProcessCrashes(p) ==
    /\ ent[p].alive /\ p \notin closing
    /\ ent' = Dead(p)
    /\ UNCHANGED <<pool, dreq, scopeTurn, agentTurn, closing, cooldown>>

\* watchCrash: the entry sleeps, if it is still the current one.
WatchCrash(p) ==
    /\ ent[p] # NoEnt /\ ~ ent[p].alive /\ ~ ent[p].asleep
    /\ pool[ent[p].scope] = p
    /\ ent' = [ent EXCEPT ![p].asleep = TRUE]
    /\ UNCHANGED <<pool, dreq, scopeTurn, agentTurn, closing, cooldown>>

CooldownEnds(s) ==
    /\ s \in cooldown
    /\ cooldown' = cooldown \ {s}
    /\ UNCHANGED <<pool, ent, dreq, scopeTurn, agentTurn, closing>>

-----------------------------------------------------------------------------
PoolNext ==
    \/ \E q \in DReqs :
          \/ \E s \in DScopes, c \in Configs, i \in KnownIds :
                GetSession(q, s, c, i) \/ RetireSession(q, s, c, i)
          \/ TakeScopeTurn(q) \/ TakeAgentTurn(q) \/ CancelWait(q)
          \/ UseTurn(q)
          \/ \E sent \in BOOLEAN : SendOrStart(q, sent)
          \/ \E id \in Ids, dies \in BOOLEAN : StartSession(q, id, dies)
          \/ StartFails(q) \/ TurnResult(q)
          \/ \E o \in Observations : FinalizeTurn(q, o)
    \/ \E s \in DScopes : SleepIdle(s) \/ SleeperReleases(s) \/ CooldownEnds(s)
    \/ \E ss \in SUBSET DScopes \ {{}} : CloseScopes(ss)
    \/ \E p \in Procs : ProcessClosed(p) \/ ProcessCrashes(p) \/ WatchCrash(p)

\* A turn that is free goes to one of its waiters; turns end, processes close.
PoolProgress ==
    \/ \E q \in DReqs :
          \/ TakeScopeTurn(q) \/ TakeAgentTurn(q) \/ UseTurn(q)
          \/ \E sent \in BOOLEAN : SendOrStart(q, sent)
          \/ StartFails(q) \/ \E id \in Ids, d \in BOOLEAN : StartSession(q, id, d)
          \/ TurnResult(q)
          \/ \E o \in Observations : FinalizeTurn(q, o)
    \/ \E s \in DScopes : SleeperReleases(s)
    \/ \E p \in Procs : ProcessClosed(p)

PoolFairness == WF_poolVars(PoolProgress)

PoolSpec == PoolInit /\ [][PoolNext]_poolVars

FairPoolSpec == PoolSpec /\ PoolFairness

-----------------------------------------------------------------------------
(* Properties                                                              *)

\* One agent works on one thing at a time, in whatever scope: turns that are
\* cancelled, handed on or held past a crash never let a second request start,
\* send or run next to the first.
OneTurnPerAgent ==
    \A q, r \in DReqs :
        /\ dreq[q].phase \in {"turn", "create", "starting", "running"}
        /\ dreq[r].phase \in {"turn", "create", "starting", "running"}
        => q = r

\* No provider process is lost: a live one is the awake entry of its scope, or
\* somebody is closing it.
NoOrphanProcess ==
    \A p \in Procs : ent[p].alive =>
        p \in closing \/ (pool[ent[p].scope] = p /\ ~ ent[p].asleep)

\* "Only that exact provider session may be removed": a request that names the
\* session to retire ends no process of another session.
RetiresExactly ==
    [][\A q \in DReqs :
          dreq[q].phase = "turn" /\ dreq'[q].phase # "turn" /\ dreq[q].retire # 0 =>
             \A p \in Procs : ent[p].alive /\ ~ ent'[p].alive =>
                                 ent[p].id = dreq[q].retire]_poolVars

\* A late finalizer does not touch the health counters of a session that has
\* replaced the one its turn ran in.
HealthOfOwnTurn ==
    [][\A p \in Procs :
          ent[p] # NoEnt /\ ent'[p].health # ent[p].health =>
             \E q \in DReqs : /\ dreq[q].phase = "reported" /\ dreq'[q].phase = "ended"
                              /\ ent[dreq[q].proc].id = ent[p].id]_poolVars

\* Every request that waits for its turn comes to an end, also behind crashed
\* processes, cancelled waits and the sleeper.
RequestsEnd ==
    \A q \in DReqs : (dreq[q].phase = "waitScope") ~> (dreq[q].phase = "ended")

\* What the daemon's pool promises: one turn per agent, no process that nothing
\* will ever close, and a turn that retires or judges its own session only.
PoolPromise ==
    /\ []PoolTypeOK
    /\ []OneTurnPerAgent
    /\ []NoOrphanProcess
    /\ RetiresExactly
    /\ HealthOfOwnTurn
=============================================================================
