------------------------------- MODULE Agreement -------------------------------
(***************************************************************************)
(* How agents of a channel work together: relationships between agents of  *)
(* one owner (AgentRelationshipService), agreements that both owners       *)
(* accept (team_agreement.go), versions of the team that are published,    *)
(* approved and applied (agent_revision.go, agent_revision_application.go),*)
(* and members that leave, with what the database's triggers revoke.       *)
(*                                                                         *)
(* Relationships change under an advisory lock of the channel and versions *)
(* under its row; a member leaves under the row alone.  The acceptance of  *)
(* an agreement and a departure are therefore two steps each; what takes   *)
(* both locks, or is one statement, is one.                                *)
(***************************************************************************)
EXTENDS Naturals, Sequences, FiniteSets

CONSTANTS
    TAgents,       \* agents that may be in the channel
    TOwner,        \* the owner of each
    ChOwner,       \* who created the channel
    Proposals,     \* agreements between owners
    Directs,       \* relationships an owner makes between agents at home there
    Ends,          \* the two agents of each agreement and relationship
    MaxVersions,   \* bound: team versions
    MaxTActs       \* bound: other acts of users

ASSUME AgreementConstants ==
    /\ {MaxVersions, MaxTActs} \subseteq Nat /\ Proposals \cap Directs = {}
    /\ DOMAIN TOwner = TAgents /\ Proposals \cup Directs \subseteq DOMAIN Ends

VARIABLES
    present,    \* agents that are members of the channel
    rel,        \* relationships: their kind, or none
    prop,       \* proposals
    accepting,  \* the acceptance whose transaction is open
    departing,    \* the departure whose transaction is open
    versions,   \* channel_team_versions
    inUse,    \* channels.team_version_id, 0 for the live team
    tacts

agreementVars == <<present, rel, prop, accepting, departing, versions, inUse, tacts>>

Links == Proposals \cup Directs
NoAccept == [prop |-> "none", by |-> "none"]
NoDeparture == [agent |-> "none", doomed |-> {}]

AgreementInit ==
    /\ present = TAgents
    /\ rel = [r \in Links |-> "none"]
    /\ prop = [p \in Proposals |-> [status |-> "pending", approved |-> {}]]
    /\ accepting = NoAccept /\ departing = NoDeparture
    /\ versions = <<>> /\ inUse = 0 /\ tacts = 0

TUsers == {TOwner[a] : a \in TAgents} \cup {ChOwner}

AgreementTypeOK ==
    /\ present \subseteq TAgents
    /\ rel \in [Links -> {"none", "assigns_to", "collaborates_with"}]
    /\ prop \in [Proposals -> [status : {"pending", "accepted", "withdrawn"},
                               approved : SUBSET TUsers]]
    /\ inUse \in 0..Len(versions)

TAct == tacts < MaxTActs /\ tacts' = tacts + 1

From(r) == Ends[r][1]
Into(r) == Ends[r][2]
OwnersOf(r) == {TOwner[From(r)], TOwner[Into(r)]}
BothPresent(r) == {From(r), Into(r)} \subseteq present
Stands(r) == rel[r] # "none"

\* The lock on the channel's relationships, and the one on its row.
LinksFree == accepting = NoAccept
RowFree == departing = NoDeparture

-----------------------------------------------------------------------------
(* Relationships.                                                          *)

\* Agents reached from a along assigns_to, in at most n steps.
Reached(a, n, except) ==
    LET step[k \in 0..n] ==
          IF k = 0 THEN {a}
          ELSE step[k - 1] \cup
               {Into(r) : r \in {l \in Links \ except :
                                 rel[l] = "assigns_to" /\ From(l) \in step[k - 1]}}
    IN  step[n]

WouldCycle(r) == From(r) \in Reached(Into(r), Cardinality(TAgents), {r})

\* One assigns_to per ordered pair, one collaboration per pair.
Taken(r, kind) ==
    \E l \in Links \ {r} : rel[l] = kind /\
        (Ends[l] = Ends[r] \/ (kind = "collaborates_with" /\ Ends[l] = <<Into(r), From(r)>>))

SetRelationship(r, kind) ==
    /\ kind = "assigns_to" => ~WouldCycle(r)
    /\ ~Taken(r, kind)
    /\ rel' = [rel EXCEPT ![r] = kind]

CreateRelationship(r) ==
    /\ r \in Directs /\ ~Stands(r) /\ LinksFree /\ Cardinality(OwnersOf(r)) = 1
    /\ BothPresent(r) /\ TAct
    /\ \E kind \in {"assigns_to", "collaborates_with"} : SetRelationship(r, kind)
    /\ UNCHANGED <<present, prop, accepting, departing, versions, inUse>>

\* What an agreement says can only be changed by another agreement.
UpdateRelationship(r) ==
    /\ r \in Directs /\ Stands(r) /\ LinksFree /\ TAct
    /\ \E kind \in {"assigns_to", "collaborates_with"} \ {rel[r]} : SetRelationship(r, kind)
    /\ UNCHANGED <<present, prop, accepting, departing, versions, inUse>>

\* A relationship that goes takes its agreement with it, and the published team.
Revoke(gone) ==
    /\ rel' = [r \in Links |-> IF r \in gone THEN "none" ELSE rel[r]]
    /\ inUse' = IF \E r \in gone : Stands(r) THEN 0 ELSE inUse

(* Either owner deletes it; no lock on the relationships is taken.         *)
DeleteRelationship(r) ==
    /\ Stands(r) /\ RowFree /\ TAct
    /\ Revoke({r})
    /\ prop' = [p \in Proposals |-> IF p = r THEN [prop[p] EXCEPT !.status = "withdrawn"]
                                    ELSE prop[p]]
    /\ UNCHANGED <<present, accepting, departing, versions>>

-----------------------------------------------------------------------------
(* Agreements.                                                             *)

(* An owner accepts.  The last one's acceptance makes the relationship,    *)
(* after the members and the chain of assignments have been looked at.     *)
Accept(u, p) ==
    /\ prop[p].status = "pending" /\ u \in OwnersOf(p) /\ LinksFree
    /\ IF OwnersOf(p) \subseteq prop[p].approved \cup {u}
       THEN /\ BothPresent(p) /\ ~WouldCycle(p)
            /\ accepting' = [prop |-> p, by |-> u]
            /\ UNCHANGED prop
       ELSE /\ prop' = [prop EXCEPT ![p].approved = @ \cup {u}]
            /\ UNCHANGED accepting
    /\ UNCHANGED <<present, rel, departing, versions, inUse, tacts>>

(* The insertion, whose trigger looks at the members once more; then the   *)
(* commit, or the end of the transaction without effect.                   *)
CommitAcceptance ==
    LET p == accepting.prop IN
    /\ accepting # NoAccept
    /\ IF BothPresent(p) /\ ~Taken(p, "assigns_to")
       THEN /\ rel' = [rel EXCEPT ![p] = "assigns_to"]
            /\ prop' = [prop EXCEPT ![p] = [status |-> "accepted",
                          approved |-> prop[p].approved \cup {accepting.by}]]
       ELSE UNCHANGED <<rel, prop>>
    /\ accepting' = NoAccept
    /\ UNCHANGED <<present, departing, versions, inUse, tacts>>

(* An owner, or who proposed it, withdraws: relationship and published     *)
(* team go, also when it had been accepted.                                *)
Withdraw(p) ==
    /\ prop[p].status # "withdrawn" /\ LinksFree /\ RowFree /\ TAct
    /\ rel' = [rel EXCEPT ![p] = "none"]
    /\ prop' = [prop EXCEPT ![p].status = "withdrawn"]
    /\ inUse' = 0
    /\ UNCHANGED <<present, accepting, departing, versions>>

-----------------------------------------------------------------------------
(* Members that leave and come back.                                       *)

Touching(a) == {r \in Links : a \in {From(r), Into(r)}}

(* The membership is deleted; the triggers clear the team and delete the   *)
(* relationships they see.                                                 *)
Depart(a) ==
    /\ a \in present /\ RowFree /\ TAct
    /\ departing' = [agent |-> a, doomed |-> {r \in Touching(a) : Stands(r)}]
    /\ UNCHANGED <<present, rel, prop, accepting, versions, inUse>>

(* Then they withdraw its proposals, waiting for one that is being         *)
(* accepted, and take its owner's approval from every version.             *)
CommitDeparture ==
    LET a == departing.agent IN
    /\ departing # NoDeparture /\ accepting.prop \notin Touching(a)
    /\ present' = present \ {a}
    /\ rel' = [r \in Links |-> IF r \in departing.doomed THEN "none" ELSE rel[r]]
    /\ prop' = [p \in Proposals |-> IF p \in Touching(a)
                  THEN [prop[p] EXCEPT !.status = "withdrawn"] ELSE prop[p]]
    /\ versions' = [v \in DOMAIN versions |->
                      [versions[v] EXCEPT !.approved = @ \ {TOwner[a]}]]
    /\ inUse' = 0 /\ departing' = NoDeparture
    /\ UNCHANGED <<accepting, tacts>>

Rejoin(a) ==
    /\ a \notin present /\ TAct
    /\ present' = present \cup {a}
    /\ UNCHANGED <<rel, prop, accepting, departing, versions, inUse>>

-----------------------------------------------------------------------------
(* Versions of the team.                                                   *)

TeamVersion(members, links, u, b) ==
    [members |-> members, links |-> links, approved |-> {u}, basedOn |-> b]

Captured == {<<r, rel[r]>> : r \in {l \in Links : Stands(l)}}

\* A version stands as long as its members are there and its agreements unchanged.
StillValid(v) == v.members \subseteq present /\ v.links \subseteq Captured

\* An application holds against the version it was made for; a capture was made for
\* none.
BaseHolds(v, n) == v.basedOn = {} \/ inUse \in v.basedOn \cup {n}

AllApproved(v) ==
    ChOwner \in v.approved /\ \A a \in v.members : TOwner[a] \in v.approved

Publish(vs, n) ==
    /\ versions' = vs
    /\ inUse' = IF AllApproved(vs[n]) THEN n ELSE inUse

(* The channel's owner publishes the team as it is.                        *)
PublishTeamVersion ==
    /\ RowFree /\ Len(versions) < MaxVersions
    /\ Publish(Append(versions, TeamVersion(present, Captured, ChOwner, {})),
               Len(versions) + 1)
    /\ UNCHANGED <<present, rel, prop, accepting, departing, tacts>>

(* The owner of a member applies a revision of it to the team in use: a    *)
(* version based on the one that was observed.                             *)
ApplyAgentRevision(u) ==
    /\ RowFree /\ Len(versions) < MaxVersions
    /\ \E a \in present : TOwner[a] = u
    /\ LET before == IF inUse = 0 THEN TeamVersion(present, Captured, u, {})
                     ELSE versions[inUse]
           v == TeamVersion(before.members, before.links, u, {inUse})
       IN  StillValid(v) /\ Publish(Append(versions, v), Len(versions) + 1)
    /\ UNCHANGED <<present, rel, prop, accepting, departing, tacts>>

(* Another owner approves; the last one puts it to use.                    *)
ApproveTeamVersion(u, n) ==
    /\ RowFree /\ n \in DOMAIN versions
    /\ u = ChOwner \/ \E a \in present : TOwner[a] = u
    /\ BaseHolds(versions[n], n) /\ StillValid(versions[n])
    /\ Publish([versions EXCEPT ![n].approved = @ \cup {u}], n)
    /\ UNCHANGED <<present, rel, prop, accepting, departing, tacts>>

GoLive ==
    /\ RowFree /\ inUse # 0 /\ TAct
    /\ inUse' = 0
    /\ UNCHANGED <<present, rel, prop, accepting, departing, versions>>

AgreementNext ==
    \/ \E r \in Links :
          CreateRelationship(r) \/ UpdateRelationship(r) \/ DeleteRelationship(r)
    \/ \E p \in Proposals : Withdraw(p) \/ \E u \in TUsers : Accept(u, p)
    \/ \E a \in TAgents : Depart(a) \/ Rejoin(a)
    \/ CommitAcceptance \/ CommitDeparture \/ PublishTeamVersion \/ GoLive
    \/ \E u \in TUsers : ApplyAgentRevision(u)
          \/ \E n \in 1..Len(versions) : ApproveTeamVersion(u, n)

AgreementSpec == AgreementInit /\ [][AgreementNext]_agreementVars

-----------------------------------------------------------------------------
(* Properties.                                                             *)

\* Nobody assigns work to itself, however long the chain.
AssignmentsAcyclic ==
    \A r \in Links : rel[r] = "assigns_to" =>
        From(r) \notin Reached(Into(r), Cardinality(TAgents), {})

\* A relationship between two owners' agents was approved by both, and an accepted
\* agreement has its relationship.
AgreementsAreBacked ==
    \A p \in Proposals :
        /\ Stands(p) => OwnersOf(p) \subseteq prop[p].approved
        /\ prop[p].status = "accepted" => Stands(p)

\* The team in use was approved by the channel's owner and by the owner of every
\* member, who all are still there, and rests on no relationship that was revoked.
TeamInUseStands ==
    inUse > 0 =>
        /\ AllApproved(versions[inUse])
        /\ versions[inUse].members \subseteq present
        /\ \A l \in versions[inUse].links : Stands(l[1])

\* A version that was made for another one never replaces a third.
NoChangeIsOverwritten ==
    inUse' \notin {0, inUse} =>
        versions'[inUse'].basedOn \in {{}, {inUse}}

\* A withdrawn agreement is never accepted again.
WithdrawnForGood ==
    \A p \in Proposals : prop[p].status = "withdrawn" => prop'[p].status = "withdrawn"

\* What owners agreed on holds, and only as long as they do.
AgreementPromise ==
    /\ [](AgreementTypeOK /\ AssignmentsAcyclic /\ AgreementsAreBacked /\ TeamInUseStands)
    /\ [][NoChangeIsOverwritten /\ WithdrawnForGood]_agreementVars
===============================================================================
