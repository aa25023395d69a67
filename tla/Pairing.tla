-------------------------------- MODULE Pairing --------------------------------
(***************************************************************************)
(* Computers as the server records them (ComputerService, ComputerHandler): *)
(* created by an owner with an enrollment token, paired by exchanging the  *)
(* token for a credential, connected, revoked, deleted; the old local      *)
(* daemons that register under a label nobody authenticates; the users who *)
(* claim such a registration; and the agents bound to Computers.           *)
(*                                                                         *)
(* A single SQL statement, and a transaction that holds the row it decides *)
(* on, is one step. An exchange is two: it reads the token and then        *)
(* consumes it. So is the binding of an agent, whose check takes no lock.  *)
(* ControlLease models the connection itself and the lease behind it.      *)
(***************************************************************************)
EXTENDS Integers, Sequences, FiniteSets

CONSTANTS
    Machines,    \* ids of computers: numbers, none used twice
    Owners,      \* users
    PHosts,      \* physical hosts
    Labels,      \* daemon ids that local daemons report
    Exchanges,   \* requests that exchange a token
    PAgents,     \* agents
    MaxTokens,   \* bound: enrollment tokens issued
    MaxPActs     \* bound: other acts of users and of old daemons

ASSUME PairingConstants == Machines \subseteq Nat \ {0} /\ {MaxTokens, MaxPActs} \subseteq Nat

VARIABLES
    comp,     \* computers, with computer_members
    exch,     \* what became of each exchange
    link,     \* the authenticated connection of each Computer
    bound,    \* agents: runtime_id, owner, is_active; and the request that binds them
    issued,   \* the machine of each token, in order of issue
    minted,   \* number of the last credential
    pacts     \* acts spent

pairingVars == <<comp, exch, link, bound, issued, minted, pacts>>

PNobody == "nobody"

NoComputer ==
    [row |-> "unused", owner |-> PNobody, members |-> {}, label |-> "", host |-> "",
     token |-> 0, fresh |-> FALSE, cred |-> 0, revoked |-> FALSE, online |-> FALSE]

NoExchange == [pc |-> "idle", machine |-> 0, token |-> 0]

Unbound == [owner |-> PNobody, at |-> 0, to |-> 0, active |-> FALSE,
            run |-> FALSE, late |-> FALSE]

\* Nothing recorded yet, or a local daemon that an owner has claimed.
PairingInit ==
    /\ exch = [x \in Exchanges |-> NoExchange]
    /\ link = [m \in Machines |-> "none"]
    /\ issued = <<>> /\ minted = 0 /\ pacts = 0
    /\ \/ /\ comp = [m \in Machines |-> NoComputer]
          /\ bound = [a \in PAgents |-> Unbound]
       \/ LET u == CHOOSE u \in Owners : TRUE IN
             /\ comp = [m \in Machines |-> IF m = 1
                  THEN [NoComputer EXCEPT !.row = "there", !.owner = u, !.members = {u},
                          !.label = CHOOSE d \in Labels : TRUE,
                          !.host = CHOOSE h \in PHosts : TRUE]
                  ELSE NoComputer]
             /\ bound = [a \in PAgents |->
                  [Unbound EXCEPT !.owner = u, !.at = 1, !.active = TRUE]]

PairingTypeOK ==
    /\ comp \in [Machines ->
         [row : {"unused", "there", "deleted"}, owner : Owners \cup {PNobody},
          members : SUBSET Owners, label : Labels \cup {""}, host : PHosts \cup {""},
          token : 0..MaxTokens, fresh : BOOLEAN, cred : 0..Cardinality(Exchanges),
          revoked : BOOLEAN, online : BOOLEAN]]
    /\ link \in [Machines -> {"none", "authenticated", "up"}]
    /\ issued \in Seq(Machines) /\ Len(issued) <= MaxTokens

There(m) == comp[m].row = "there"

New(m) == comp[m].row = "unused" /\ \A n \in Machines : n < m => comp[n].row # "unused"

\* daemon_id is unique.
Labelled(d) == {m \in Machines : There(m) /\ comp[m].label = d}

PAct == pacts < MaxPActs /\ pacts' = pacts + 1

IssueToken(m) == Len(issued) < MaxTokens /\ issued' = Append(issued, m)

-----------------------------------------------------------------------------
(* What users see.                                                         *)

CanOpen(u, m) == There(m) /\ (comp[m].owner = u \/ u \in comp[m].members)

\* Whoever sees it may take it: registered, alive, never paired.
Claimable(m) ==
    There(m) /\ comp[m].owner = PNobody /\ comp[m].cred = 0 /\ comp[m].online

ListComputers(u) ==
    {m \in Machines : \/ CanOpen(u, m)
                      \/ /\ There(m) /\ comp[m].owner = PNobody
                         /\ comp[m].cred = 0 /\ comp[m].online}

PairingStatus(m) ==
    IF comp[m].revoked THEN "revoked"
    ELSE IF comp[m].cred > 0 THEN "paired"
    ELSE IF comp[m].token > 0 /\ comp[m].fresh THEN "pending" ELSE "unpaired"

\* An agent is shown online only with its Computer.
AgentShownOnline(m, a) ==
    There(m) /\ comp[m].online /\ bound[a].active /\ bound[a].at = m

Authenticates(m, c) == There(m) /\ ~comp[m].revoked /\ comp[m].cred = c /\ c > 0

-----------------------------------------------------------------------------
(* Enrollment and credentials.                                             *)

CreateComputer(u, m) ==
    /\ New(m) /\ IssueToken(m)
    /\ comp' = [comp EXCEPT ![m] = [NoComputer EXCEPT !.row = "there", !.owner = u,
                  !.members = {u}, !.token = Len(issued'), !.fresh = TRUE]]
    /\ UNCHANGED <<exch, link, bound, minted, pacts>>

(* A new token for a Computer of the user's; its credential stays good.    *)
CreateEnrollment(u, m) ==
    /\ There(m) /\ comp[m].owner = u /\ IssueToken(m)
    /\ comp' = [comp EXCEPT ![m].token = Len(issued'), ![m].fresh = TRUE]
    /\ UNCHANGED <<exch, link, bound, minted, pacts>>

TokenExpires(m) ==
    /\ comp[m].token > 0 /\ comp[m].fresh
    /\ comp' = [comp EXCEPT ![m].fresh = FALSE]
    /\ UNCHANGED <<exch, link, bound, issued, minted, pacts>>

(* ExchangeEnrollment loads the unused token and compares.                 *)
LoadEnrollment(x, m, t) ==
    /\ exch[x].pc = "idle" /\ There(m)
    /\ comp[m].token = t /\ t > 0 /\ comp[m].fresh
    /\ exch' = [exch EXCEPT ![x] = [pc |-> "loaded", machine |-> m, token |-> t]]
    /\ UNCHANGED <<comp, link, bound, issued, minted, pacts>>

\* A plausible mistake: any unused token will do.
AnyTokenThere(x) == There(exch[x].machine) /\ comp[exch[x].machine].token # 0

\* The UPDATE takes the row only while the token that was read is in it.
TokenStillThere(x) ==
    /\ There(exch[x].machine)
    /\ comp[exch[x].machine].token = exch[x].token

ConsumeEnrollment(x) ==
    /\ exch[x].pc = "loaded"
    /\ IF TokenStillThere(x)
       THEN /\ minted' = minted + 1
            /\ comp' = [comp EXCEPT ![exch[x].machine].token = 0,
                          ![exch[x].machine].fresh = FALSE,
                          ![exch[x].machine].cred = minted',
                          ![exch[x].machine].revoked = FALSE]
            /\ exch' = [exch EXCEPT ![x].pc = "ok"]
       ELSE /\ exch' = [exch EXCEPT ![x].pc = "invalid"]
            /\ UNCHANGED <<comp, minted>>
    /\ UNCHANGED <<link, bound, issued, pacts>>

(* The owner revokes; the handler then drops the connection.               *)
RevokePairing(u, m) ==
    /\ There(m) /\ comp[m].owner = u /\ comp[m].cred > 0 /\ PAct
    /\ comp' = [comp EXCEPT ![m].revoked = TRUE, ![m].online = FALSE]
    /\ link' = [link EXCEPT ![m] = IF @ = "up" THEN "none" ELSE @]
    /\ UNCHANGED <<exch, bound, issued, minted>>

-----------------------------------------------------------------------------
(* Connections of paired Computers.                                        *)

AuthenticateCredential(m, c) ==
    /\ Authenticates(m, c) /\ link[m] = "none" /\ PAct
    /\ link' = [link EXCEPT ![m] = "authenticated"]
    /\ UNCHANGED <<comp, exch, bound, issued, minted>>

\* The connection may have been revoked since it was authenticated.
StillPaired(m) == There(m) /\ comp[m].cred > 0 /\ ~comp[m].revoked

(* MarkConnected: the Computer takes its own id for a label, and the local *)
(* registration of the same host and label without credential is paused.   *)
ConnectedAs(m, h, d) ==
    /\ link[m] = "authenticated"
    /\ IF StillPaired(m)
       THEN /\ comp' = [n \in Machines |->
                 IF n = m THEN [comp[m] EXCEPT !.online = TRUE, !.label = "", !.host = h]
                 ELSE IF n \in Labelled(d) /\ comp[n].cred = 0 /\ comp[n].host = h
                      THEN [comp[n] EXCEPT !.online = FALSE] ELSE comp[n]]
            /\ link' = [link EXCEPT ![m] = "up"]
       ELSE link' = [link EXCEPT ![m] = "none"] /\ UNCHANGED comp
    /\ UNCHANGED <<exch, bound, issued, minted, pacts>>

(* A heartbeat of the connection; refused, it changes nothing.             *)
RemoteHeartbeat(m) ==
    /\ link[m] = "up" /\ StillPaired(m) /\ ~comp[m].online
    /\ comp' = [comp EXCEPT ![m].online = TRUE]
    /\ UNCHANGED <<exch, link, bound, issued, minted, pacts>>

ControlDisconnected(m) ==
    /\ link[m] # "none"
    /\ link' = [link EXCEPT ![m] = "none"]
    /\ comp' = [comp EXCEPT ![m].online = @ /\ ~(There(m) /\ comp[m].cred > 0)]
    /\ UNCHANGED <<exch, bound, issued, minted, pacts>>

HeartbeatMissed(m) ==
    /\ There(m) /\ comp[m].online /\ PAct
    /\ comp' = [comp EXCEPT ![m].online = FALSE]
    /\ UNCHANGED <<exch, link, bound, issued, minted>>

-----------------------------------------------------------------------------
(* Old daemons, known by a label that nobody authenticates.                *)

RegisterDaemon(h, d, m) ==
    /\ PAct
    /\ IF Labelled(d) # {}
       THEN /\ m \in Labelled(d)
            /\ comp' = [comp EXCEPT ![m].online = TRUE, ![m].host = h]
       ELSE /\ New(m)
            /\ comp' = [comp EXCEPT ![m] = [NoComputer EXCEPT
                          !.row = "there", !.label = d, !.host = h, !.online = TRUE]]
    /\ UNCHANGED <<exch, link, bound, issued, minted>>

(* Its heartbeat finds the row by the label alone.                         *)
DaemonHeartbeat(h, d) ==
    /\ PAct /\ Labelled(d) # {}
    /\ comp' = [m \in Machines |->
         IF m \in Labelled(d) THEN [comp[m] EXCEPT !.online = TRUE, !.host = h] ELSE comp[m]]
    /\ UNCHANGED <<exch, link, bound, issued, minted>>

\* Agents that follow their owner from an old record of the same host.
Recovered(u, m) ==
    {a \in PAgents : \E p \in Machines \ {m} :
        /\ bound[a].active /\ ~bound[a].run /\ bound[a].owner = u /\ bound[a].at = p
        /\ There(p) /\ comp[p].owner = u /\ ~comp[p].online /\ comp[p].cred = 0
        /\ comp[m].cred = 0 /\ comp[p].host # "" /\ comp[p].host = comp[m].host}

(* Whoever has access already is answered without a change; the first      *)
(* stranger becomes the owner, with the row locked all along.              *)
ClaimComputer(u, m) ==
    /\ Claimable(m) /\ ~CanOpen(u, m) /\ PAct
    /\ comp' = [comp EXCEPT ![m].owner = u, ![m].members = @ \cup {u}]
    /\ bound' = [a \in PAgents |->
         IF a \in Recovered(u, m) THEN [bound[a] EXCEPT !.at = m] ELSE bound[a]]
    /\ UNCHANGED <<exch, link, issued, minted>>

InUse(m) ==
    \/ comp[m].online
    \/ \E a \in PAgents : bound[a].at = m /\ (bound[a].active \/ bound[a].run)

DeleteComputer(u, m) ==
    /\ There(m) /\ comp[m].owner = u /\ ~InUse(m) /\ PAct
    /\ comp' = [comp EXCEPT ![m] = [NoComputer EXCEPT !.row = "deleted"]]
    /\ link' = [link EXCEPT ![m] = IF @ = "up" THEN "none" ELSE @]
    /\ UNCHANGED <<exch, bound, issued, minted>>

-----------------------------------------------------------------------------
(* Agents and the Computers they are bound to.                             *)

ComputerUsable(u, m) ==
    /\ CanOpen(u, m)
    /\ (comp[m].cred > 0 /\ ~comp[m].revoked) \/ comp[m].online

(* Creating or moving an agent: the Computer is checked, without a lock,   *)
(* and the binding is written by a later statement.                        *)
CheckComputer(u, a, m) ==
    /\ bound[a].to = 0 /\ bound[a].owner \in {u, PNobody}
    /\ bound[a].at # m /\ ~bound[a].run /\ ComputerUsable(u, m) /\ PAct
    /\ bound' = [bound EXCEPT ![a].owner = u, ![a].to = m]
    /\ UNCHANGED <<comp, exch, link, issued, minted>>

WriteBinding(a) ==
    /\ bound[a].to # 0
    /\ bound' = [bound EXCEPT ![a] = IF bound[a].run
                   THEN [@ EXCEPT !.to = 0]
                   ELSE [@ EXCEPT !.to = 0, !.at = bound[a].to, !.active = TRUE,
                                  !.late = ~There(bound[a].to)]]
    /\ UNCHANGED <<comp, exch, link, issued, minted, pacts>>

(* A run of the agent begins, or ends.                                     *)
AgentRuns(a) ==
    /\ bound[a].active /\ There(bound[a].at)
    /\ bound' = [bound EXCEPT ![a].run = ~@]
    /\ IF bound[a].run THEN UNCHANGED pacts ELSE PAct
    /\ UNCHANGED <<comp, exch, link, issued, minted>>

PairingNext ==
    \/ \E u \in Owners, m \in Machines :
          \/ CreateComputer(u, m) \/ CreateEnrollment(u, m) \/ RevokePairing(u, m)
          \/ ClaimComputer(u, m) \/ DeleteComputer(u, m)
          \/ \E a \in PAgents : CheckComputer(u, a, m)
    \/ \E m \in Machines :
          \/ TokenExpires(m) \/ ControlDisconnected(m) \/ HeartbeatMissed(m)
          \/ RemoteHeartbeat(m) \/ \E c \in 1..minted : AuthenticateCredential(m, c)
          \/ \E h \in PHosts, d \in Labels : ConnectedAs(m, h, d) \/ RegisterDaemon(h, d, m)
          \/ \E x \in Exchanges, t \in 1..Len(issued) : LoadEnrollment(x, m, t)
    \/ \E h \in PHosts, d \in Labels : DaemonHeartbeat(h, d)
    \/ \E x \in Exchanges : ConsumeEnrollment(x)
    \/ \E a \in PAgents : WriteBinding(a) \/ AgentRuns(a)

PairingSpec == PairingInit /\ [][PairingNext]_pairingVars

-----------------------------------------------------------------------------
(* Properties.                                                             *)

\* One token gives one credential, however many daemons offer it at once.
TokenGivesOneCredential ==
    \A x, y \in Exchanges :
        x # y /\ exch[x].pc = "ok" /\ exch[y].pc = "ok" => exch[x].token # exch[y].token

\* An exchange that began with a token succeeds only while no later token replaced
\* it, and leaves the Computer with the credential it answered.
LatestTokenWins ==
    \A x \in Exchanges : exch[x].pc = "loaded" /\ exch'[x].pc = "ok" =>
        LET m == exch[x].machine IN
        /\ \A t \in DOMAIN issued : issued[t] = m => t <= exch[x].token
        /\ comp'[m].cred = minted' /\ comp'[m].token = 0

\* A revoked Computer stays offline, also when its connection was authenticated
\* before; only a local daemon still under its label can show it alive.
RevokedStaysOffline ==
    \A m \in Machines : comp[m].revoked /\ comp[m].label = "" => ~comp[m].online

\* A Computer has one owner, its only member, and nobody takes it over.
OwnershipIsSettled ==
    \A m \in Machines :
        comp[m].members = (IF comp[m].owner = PNobody THEN {} ELSE {comp[m].owner})

\* An agent is bound where its owner has access, and a deletion strands only an
\* agent whose binding was already checked.
AgentsAreAtHome ==
    \A a \in PAgents : bound[a].active =>
        IF There(bound[a].at) THEN CanOpen(bound[a].owner, bound[a].at)
        ELSE bound[a].late

\* What is listed can be opened or claimed, and what is shown as paired has a
\* credential that authenticates.
ShownAsTheyAre ==
    \A m \in Machines :
        /\ \A u \in Owners : m \in ListComputers(u) <=> CanOpen(u, m) \/ Claimable(m)
        /\ There(m) =>
             (PairingStatus(m) = "paired" <=> \E c \in 1..minted : Authenticates(m, c))
        /\ \A a \in PAgents : AgentShownOnline(m, a) => CanOpen(bound[a].owner, m)

\* Pairing keeps its promises: a token is good once and only as the latest, a
\* revocation holds, ownership is settled and agents stay where they may run.
PairingPromise ==
    /\ [](PairingTypeOK /\ TokenGivesOneCredential /\ RevokedStaysOffline
          /\ OwnershipIsSettled /\ AgentsAreAtHome /\ ShownAsTheyAre)
    /\ [][LatestTokenWins]_pairingVars
===============================================================================
