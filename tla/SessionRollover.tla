--------------------------- MODULE SessionRollover ---------------------------
(***************************************************************************)
(* Provider sessions of one agent in one channel (`agent_sessions`) and    *)
(* how runs use them: a run is dispatched with a session to resume or to   *)
(* retire, the daemon reports the session it really used, and a session    *)
(* whose context is full is replaced.                                      *)
(*                                                                         *)
(* BindProviderSession is split where other transactions may want the same *)
(* rows: it locks the run and the predecessor, checks, and writes.  The    *)
(* other operations are one transaction and one step.  Which session the   *)
(* daemon reports is up to the provider: any id, known or not.             *)
(***************************************************************************)
EXTENDS Naturals, Sequences, Functions, FiniteSetsExt

CONSTANTS
    MaxSRuns,    \* bound on runs; run ids follow started_at
    MaxSessions, \* bound on provider session ids; a new id is the next number
    MaxForced    \* bound on dispatches that ask for a fresh session

ASSUME SessionConstants ==
    MaxSRuns \in Nat \ {0} /\ MaxSessions \in Nat \ {0} /\ MaxForced \in Nat

VARIABLES
    sess,     \* [Sessions -> status of the agent_sessions row]
    recent,   \* sessions by last_active_at, the latest first
    srun,     \* [SRuns -> the run's columns and its last dispatch]
    binding,  \* BindProviderSession transactions past their checks
    forced    \* dispatches with ForceFreshSession so far

sessionVars == <<sess, recent, srun, binding, forced>>

SRuns == 1 .. MaxSRuns
Sessions == 1 .. MaxSessions
NoSession == 0
SessionOrNone == Sessions \cup {NoSession}

SRun == [state : {"none", "open", "finished"}, session : SessionOrNone, from : SessionOrNone,
         resume : SessionOrNone, fresh : BOOLEAN, asked : BOOLEAN]

SessionTypeOK ==
    /\ sess \in [Sessions -> {"absent", "active", "rollover_pending", "closed"}]
    /\ recent \in Seq(Sessions) /\ IsInjective(recent)
    /\ \A s \in Sessions : s \in Range(recent) <=> sess[s] # "absent"
    /\ srun \in [SRuns -> SRun]
    /\ binding \subseteq [run : SRuns, session : Sessions, from : SessionOrNone,
                          converged : BOOLEAN]
    /\ forced \in 0 .. MaxForced

NoSRun == [state |-> "none", session |-> NoSession, from |-> NoSession, resume |-> NoSession,
           fresh |-> FALSE, asked |-> FALSE]

\* A channel in which the agent has worked once, so that there is a session.
SessionInit ==
    /\ sess = [s \in Sessions |-> IF s = 1 THEN "active" ELSE "absent"]
    /\ recent = <<1>>
    /\ srun = [r \in SRuns |-> IF r = 1 THEN [NoSRun EXCEPT !.state = "finished", !.session = 1]
                               ELSE NoSRun]
    /\ binding = {}
    /\ forced = 0

-----------------------------------------------------------------------------
(* Helpers                                                                 *)

\* last_active_at = now(): s comes first, those before it move down.
Touch(s, seq) ==
    LET known == s \in Range(seq)
        place == IF known THEN CHOOSE i \in DOMAIN seq : seq[i] = s ELSE Len(seq) + 1
    IN  [i \in 1 .. (IF known THEN Len(seq) ELSE Len(seq) + 1) |->
            IF i = 1 THEN s ELSE IF i <= place THEN seq[i - 1] ELSE seq[i]]

RunRowFree(r) == \A b \in binding : b.run # r

\* SELECT ... FOR UPDATE of a session row waits for the transactions that hold it.
SessionRowFree(s) == \A b \in binding : s \notin {b.from, b.session}

BoundRuns(s) == {r \in SRuns : srun[r].session = s}

\* Variant: closed replacements count too.
EveryReplacingRun(x) == {r \in SRuns : srun[r].from = x /\ srun[r].session \notin {NoSession, x}}

\* Active replacements of x, through the runs that replaced it.
ReplacingRuns(x) ==
    {r \in SRuns : /\ srun[r].from = x
                   /\ srun[r].session \notin {NoSession, x}
                   /\ sess[srun[r].session] = "active"}

\* findActiveRolloverReplacementTx: the latest of them.
Replacement(x) ==
    IF ReplacingRuns(x) = {} THEN NoSession ELSE srun[Max(ReplacingRuns(x))].session

CloseIfPending(x, ss) ==
    [y \in Sessions |-> IF y = x /\ ss[y] = "rollover_pending" THEN "closed" ELSE ss[y]]

TouchIfPending(x) == IF sess[x] = "rollover_pending" THEN Touch(x, recent) ELSE recent

\* The dispatch a run is given: a session to resume, or a fresh one instead of the
\* one in `from`, which the daemon retires (RetireSessionID).
Told(run, resume, fresh) ==
    [run EXCEPT !.resume = resume, !.fresh = fresh, !.asked = TRUE]

-----------------------------------------------------------------------------
(* Runs                                                                    *)

StartSRun(r) ==
    /\ srun[r].state = "none" /\ \A q \in 1 .. r - 1 : srun[q].state # "none"
    /\ srun' = [srun EXCEPT ![r].state = "open"]
    /\ UNCHANGED <<sess, recent, binding, forced>>

FinishSRun(r) ==
    /\ srun[r].state = "open" /\ RunRowFree(r)
    /\ srun' = [srun EXCEPT ![r] = [@ EXCEPT !.state = "finished", !.resume = NoSession,
                                             !.fresh = FALSE, !.asked = FALSE]]
    /\ UNCHANGED <<sess, recent, binding, forced>>

-----------------------------------------------------------------------------
(* ResolveSessionDispatch                                                  *)

\* resolvePersistedRolloverTx: the run already knows what it replaces.
ResolvePersisted(r, x, run) ==
    LET win == Replacement(x)
        own == run.session \notin {NoSession, x}
        unbound == IF run.session = x THEN NoSession ELSE run.session
    IN  /\ sess[x] \in {"rollover_pending", "closed"}
        /\ IF own
             THEN /\ sess[run.session] = "active"
                  /\ sess' = CloseIfPending(x, sess)
                  /\ recent' = TouchIfPending(x)
                  /\ srun' = [srun EXCEPT ![r] = Told(run, run.session, FALSE)]
           ELSE IF win # NoSession
             THEN /\ sess' = CloseIfPending(x, sess)
                  /\ recent' = TouchIfPending(x)
                  /\ srun' = [srun EXCEPT ![r] = Told([run EXCEPT !.session = unbound,
                                                                  !.from = NoSession],
                                                      win, FALSE)]
           ELSE IF sess[x] = "closed"
             THEN /\ UNCHANGED <<sess, recent>>
                  /\ srun' = [srun EXCEPT ![r] = Told([run EXCEPT !.session = unbound,
                                                                  !.from = NoSession],
                                                      NoSession, FALSE)]
           ELSE /\ UNCHANGED <<sess, recent>>
                /\ srun' = [srun EXCEPT ![r] = Told(run, NoSession, TRUE)]

\* The run is bound already, for example when its delivery is offered again.
ResolveBound(r, cur) ==
    \/ /\ sess[cur] = "active"
       /\ srun' = [srun EXCEPT ![r] = Told(srun[r], cur, FALSE)]
       /\ UNCHANGED <<sess, recent>>
    \/ /\ sess[cur] = "rollover_pending"
       /\ srun' = [srun EXCEPT ![r] = Told([srun[r] EXCEPT !.from = cur], NoSession, TRUE)]
       /\ UNCHANGED <<sess, recent>>
    \/ /\ sess[cur] = "closed"
       /\ srun' = [srun EXCEPT ![r] = Told([srun[r] EXCEPT !.session = NoSession],
                                           Replacement(cur), FALSE)]
       /\ UNCHANGED <<sess, recent>>

\* ForceFreshSession: the session that was asked for is retired if it exists.
ResolveForced(r, ask) ==
    IF ask # NoSession /\ BoundRuns(ask) # {}
      THEN /\ SessionRowFree(ask)
           /\ LET ss == [sess EXCEPT ![ask] = IF @ = "active" THEN "rollover_pending" ELSE @]
                  run == [srun[r] EXCEPT !.from = ask]
                  win == Replacement(ask)
              IN  IF win # NoSession
                    THEN /\ sess' = CloseIfPending(ask, ss)
                         /\ recent' = Touch(ask, recent)
                         /\ srun' = [srun EXCEPT ![r] = Told([run EXCEPT !.from = NoSession],
                                                             win, FALSE)]
                  ELSE IF ss[ask] = "closed"
                    THEN /\ UNCHANGED <<sess, recent>>
                         /\ srun' = [srun EXCEPT ![r] = Told([run EXCEPT !.from = NoSession],
                                                             NoSession, FALSE)]
                  ELSE /\ sess' = ss
                       /\ recent' = IF sess[ask] = "active" THEN Touch(ask, recent) ELSE recent
                       /\ srun' = [srun EXCEPT ![r] = Told(run, NoSession, TRUE)]
      ELSE /\ srun' = [srun EXCEPT ![r] = Told(srun[r], NoSession, TRUE)]
           /\ UNCHANGED <<sess, recent>>

\* Sessions other runs of the channel used, active or about to be replaced.
Candidates(r) ==
    {s \in Sessions : /\ sess[s] \in {"active", "rollover_pending"}
                      /\ BoundRuns(s) \ {r} # {}}

\* The candidate with the latest activity.
Candidate(r) ==
    LET places == {i \in DOMAIN recent : recent[i] \in Candidates(r)}
    IN  IF places = {} THEN NoSession ELSE recent[Min(places)]

\* The common case: go on with the channel's last session, or replace it.
ResolveLatest(r, ask) ==
    LET c == Candidate(r)
        asked == IF ask # NoSession /\ BoundRuns(ask) # {} /\ sess[ask] = "active" THEN ask ELSE c
    IN  IF c = NoSession
          THEN /\ srun' = [srun EXCEPT ![r] = Told(srun[r], NoSession, FALSE)]
               /\ UNCHANGED <<sess, recent>>
        ELSE /\ SessionRowFree(c)
             /\ IF sess[c] = "active"
                  THEN /\ srun' = [srun EXCEPT ![r] = Told(srun[r], asked, FALSE)]
                       /\ UNCHANGED <<sess, recent>>
                ELSE IF Replacement(c) # NoSession
                  THEN /\ sess' = CloseIfPending(c, sess)
                       /\ recent' = TouchIfPending(c)
                       /\ srun' = [srun EXCEPT ![r] = Told(srun[r], Replacement(c), FALSE)]
                ELSE /\ srun' = [srun EXCEPT ![r] = Told([srun[r] EXCEPT !.from = c],
                                                         NoSession, TRUE)]
                     /\ UNCHANGED <<sess, recent>>

\* ask: the ResumeSessionID of the request; force: it wants a fresh session.
ResolveSessionDispatch(r, ask, force) ==
    /\ srun[r].state = "open" /\ RunRowFree(r)
    /\ force => forced < MaxForced
    /\ forced' = IF force THEN forced + 1 ELSE forced
    /\ \/ /\ srun[r].from # NoSession
          /\ SessionRowFree(srun[r].from)
          /\ ResolvePersisted(r, srun[r].from, srun[r])
       \/ /\ srun[r].from = NoSession /\ srun[r].session # NoSession
          /\ SessionRowFree(srun[r].session)
          /\ ResolveBound(r, srun[r].session)
       \/ /\ srun[r].from = NoSession /\ srun[r].session = NoSession /\ force
          /\ ResolveForced(r, ask)
       \/ /\ srun[r].from = NoSession /\ srun[r].session = NoSession /\ ~ force
          /\ ResolveLatest(r, ask)
    /\ UNCHANGED binding

-----------------------------------------------------------------------------
(* BindProviderSession                                                     *)

\* The run replaces x, which is closed: allowed to follow the winner only.
Converges(r, s, x) ==
    /\ sess[x] = "closed" /\ srun[r].session \in {NoSession, x}
    /\ Replacement(x) = s

\* The checks on a rollover.
MayReplace(r, s, x) ==
    LET replay == srun[r].session = s
    IN  /\ s # x
        /\ sess[s] \in {"absent", "active"} \/ replay
        /\ sess[x] = "rollover_pending" \/ (sess[x] = "closed" /\ (replay \/ Converges(r, s, x)))

\* Locks, checks and the upsert; a refused binding changes nothing.
BindReads(r, s) ==
    LET x == srun[r].from
    IN  /\ srun[r].state = "open" /\ srun[r].asked
        /\ RunRowFree(r)
        /\ \A n \in 1 .. s - 1 : sess[n] # "absent"
        /\ x # NoSession => SessionRowFree(x)
        /\ \A b \in binding : b.session # s
        /\ srun[r].session \in {NoSession, x, s}
        /\ x # NoSession => MayReplace(r, s, x)
        /\ binding' = binding \cup
              {[run |-> r, session |-> s, from |-> x,
                converged |-> x # NoSession /\ srun[r].session # s /\ Converges(r, s, x)]}
        /\ UNCHANGED <<sess, recent, srun, forced>>

BindCommits(b) ==
    LET opened == [sess EXCEPT ![b.session] = IF @ = "absent" THEN "active" ELSE @]
    IN  /\ binding' = binding \ {b}
        /\ srun' = [srun EXCEPT ![b.run] =
               [srun[b.run] EXCEPT !.session = b.session,
                                   !.from = IF b.converged THEN NoSession ELSE @]]
        /\ IF b.from # NoSession /\ ~ b.converged
             THEN /\ sess' = CloseIfPending(b.from, opened)
                  /\ recent' = IF sess[b.from] = "rollover_pending"
                               THEN Touch(b.session, Touch(b.from, recent))
                               ELSE Touch(b.session, recent)
             ELSE sess' = opened /\ recent' = Touch(b.session, recent)
        /\ UNCHANGED forced

-----------------------------------------------------------------------------
(* Retiring and closing                                                    *)

\* RequestSessionRollover: the run's own session, once; also after the run.
RequestRollover(r) ==
    LET s == srun[r].session
    IN  /\ s # NoSession /\ RunRowFree(r) /\ SessionRowFree(s)
        /\ sess[s] = "active"
        /\ sess' = [sess EXCEPT ![s] = "rollover_pending"]
        /\ recent' = Touch(s, recent)
        /\ UNCHANGED <<srun, binding, forced>>

\* The agent leaves the channel or is deleted: its sessions are closed.
CloseSessions ==
    LET open == {s \in Sessions : sess[s] \in {"active", "rollover_pending"} /\ BoundRuns(s) # {}}
    IN  /\ open # {} /\ \A s \in open : SessionRowFree(s)
        /\ \A r \in SRuns : srun[r].state # "open"
        /\ sess' = [s \in Sessions |-> IF s \in open THEN "closed" ELSE sess[s]]
        /\ UNCHANGED <<recent, srun, binding, forced>>

SessionNext ==
    \/ \E r \in SRuns : StartSRun(r) \/ FinishSRun(r) \/ RequestRollover(r)
    \/ \E r \in SRuns, ask \in SessionOrNone, force \in BOOLEAN :
          ResolveSessionDispatch(r, ask, force)
    \/ \E r \in SRuns, s \in Sessions : BindReads(r, s)
    \/ \E b \in binding : BindCommits(b)
    \/ CloseSessions

SessionSpec == SessionInit /\ [][SessionNext]_sessionVars

-----------------------------------------------------------------------------
(* Properties                                                              *)

\* Runs that replace the same retired session converge: it never has two live
\* replacements, however their dispatches and bindings interleave.
OneReplacement ==
    \A x \in Sessions : \A q, r \in ReplacingRuns(x) : srun[q].session = srun[r].session

\* A retired session is not used again: it never becomes active, and a run that
\* was told to replace it ends up on another one.
RetiredStaysRetired ==
    [][/\ \A s \in Sessions : sess[s] \in {"rollover_pending", "closed"} =>
             sess'[s] \in {"closed", sess[s]}
       /\ \A r \in SRuns : srun[r].from # NoSession /\ srun'[r].session # srun[r].session =>
             srun'[r].session # srun[r].from]_sessionVars

\* No dispatch tells the daemon to resume a session that is being replaced.
ResumesLiveSessions ==
    [][\A r \in SRuns :
          srun'[r].resume # NoSession /\ srun'[r].resume # srun[r].resume =>
             sess[srun'[r].resume] = "active"]_sessionVars

\* A binding closes the predecessor it replaced: a session with a live
\* replacement is not offered for replacement again.
ReplacedIsClosed ==
    \A x \in Sessions :
        ReplacingRuns(x) # {} => sess[x] = "closed"

\* What the server promises about provider sessions: a retired one has one
\* replacement, is closed, never comes back, and every run that resumes one
\* resumes a live one.
SessionsPromise ==
    /\ []SessionTypeOK
    /\ []OneReplacement
    /\ []ReplacedIsClosed
    /\ RetiredStaysRetired
    /\ ResumesLiveSessions
=============================================================================
