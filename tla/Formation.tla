------------------------------- MODULE Formation -------------------------------
(***************************************************************************)
(* A team that Lucy forms for one message of a user (TeamFormationService) *)
(* and a template applied to a channel that exists (TemplateService).  Any *)
(* number of requests may ask for the same message: the first one claims   *)
(* the formation, updated_at is its lease, and two minutes later another   *)
(* may take it over.  Provisioning is one transaction: the channel, its    *)
(* agents and relationships and the end of the formation are seen together *)
(* or not at all.  Its commit may succeed and the answer to it be lost.    *)
(***************************************************************************)
EXTENDS Naturals, FiniteSets

CONSTANTS
    FormReqs,      \* requests to form the team of the message
    ApplyReqs,     \* requests to apply a template to the channel
    MaxLeases,     \* bound: times the formation is claimed
    MaxFFaults     \* bound: failures and stops of the server

ASSUME FormationConstants ==
    {MaxLeases, MaxFFaults} \subseteq Nat /\ FormReqs \cap ApplyReqs = {}

VARIABLES
    form,       \* the row of team_formations
    freq,       \* the requests
    teams,      \* channels that were provisioned, and who did it
    announced,  \* teams told to the user ("team.formed")
    ffaults

formationVars == <<form, freq, teams, announced, ffaults>>

NoFormation == [status |-> "none", lease |-> 0, old |-> FALSE, team |-> "none"]

Asked == [pc |-> "idle", lease |-> 0, seen |-> "none", team |-> "none"]

FormationInit ==
    /\ form = NoFormation
    /\ freq = [q \in FormReqs \cup ApplyReqs |-> Asked]
    /\ teams = {} /\ announced = {} /\ ffaults = 0

FormationTypeOK ==
    /\ form \in [status : {"none", "provisioning", "failed", "completed"}, lease : Nat,
                 old : BOOLEAN, team : FormReqs \cup {"none"}]
    /\ freq \in [FormReqs \cup ApplyReqs ->
         [pc : {"idle", "exists", "retake", "provisioning", "failing", "finalizing",
                "formed", "replayed", "busy", "failed", "lost"},
          lease : Nat, seen : {"none", "provisioning", "failed"},
          team : FormReqs \cup ApplyReqs \cup {"none"}]]
    /\ teams \subseteq FormReqs \cup ApplyReqs

To(q, pc) == freq' = [freq EXCEPT ![q].pc = pc]

FFault == ffaults < MaxFFaults /\ ffaults' = ffaults + 1

-----------------------------------------------------------------------------
(* The claim.                                                              *)

(* INSERT .. ON CONFLICT DO NOTHING: the first request owns the formation. *)
InsertFormation(q) ==
    /\ freq[q].pc = "idle"
    /\ IF form.status = "none"
       THEN /\ form' = [form EXCEPT !.status = "provisioning", !.lease = 1]
            /\ freq' = [freq EXCEPT ![q].pc = "provisioning", ![q].lease = 1]
       ELSE To(q, "exists") /\ UNCHANGED form
    /\ UNCHANGED <<teams, announced, ffaults>>

(* The others read it: a completed one is answered again, a failed one or  *)
(* one that is two minutes old may be taken over.                          *)
ReadFormation(q) ==
    /\ freq[q].pc = "exists"
    /\ IF form.status = "completed"
       THEN freq' = [freq EXCEPT ![q].pc = "finalizing", ![q].team = form.team,
                                 ![q].seen = "none"]
       ELSE IF form.status = "failed" \/ form.old
       THEN freq' = [freq EXCEPT ![q].pc = "retake", ![q].lease = form.lease,
                                 ![q].seen = form.status]
       ELSE To(q, "busy")
    /\ UNCHANGED <<form, teams, announced, ffaults>>

\* The row is still the one that was read.
Retakable(q) ==
    /\ form.status = freq[q].seen /\ form.lease = freq[q].lease
    /\ freq[q].seen = "failed" \/ form.old

RetakeFormation(q) ==
    /\ freq[q].pc = "retake"
    /\ IF Retakable(q)
       THEN /\ form.lease < MaxLeases
            /\ form' = [form EXCEPT !.status = "provisioning", !.lease = @ + 1,
                                    !.old = FALSE, !.team = "none"]
            /\ freq' = [freq EXCEPT ![q].pc = "provisioning", ![q].lease = form'.lease]
       ELSE To(q, "busy") /\ UNCHANGED form
    /\ UNCHANGED <<teams, announced, ffaults>>

TwoMinutesPass ==
    /\ form.status = "provisioning" /\ ~form.old
    /\ form' = [form EXCEPT !.old = TRUE]
    /\ UNCHANGED <<freq, teams, announced, ffaults>>

-----------------------------------------------------------------------------
(* Provisioning.                                                           *)

HoldsLease(q) == form.status = "provisioning" /\ form.lease = freq[q].lease

(* The transaction commits: channel, agents, relationships, both messages  *)
(* and the completed row.                                                  *)
Provision(q) ==
    /\ freq[q].pc = "provisioning" /\ HoldsLease(q)
    /\ teams' = teams \cup {q}
    /\ form' = [form EXCEPT !.status = "completed", !.team = q, !.lease = @ + 1,
                            !.old = FALSE]
    /\ \/ freq' = [freq EXCEPT ![q].pc = "finalizing", ![q].team = q,
                               ![q].seen = "provisioning"] /\ UNCHANGED ffaults
       \/ To(q, "failing") /\ FFault
    /\ UNCHANGED announced

ProvisionLosesLease(q) ==
    /\ freq[q].pc = "provisioning" /\ ~HoldsLease(q)
    /\ To(q, "busy")
    /\ UNCHANGED <<form, teams, announced, ffaults>>

(* A template, a member or a statement fails, and with it the transaction. *)
ProvisionFails(q) ==
    /\ freq[q].pc = "provisioning" /\ FFault
    /\ To(q, "failing")
    /\ UNCHANGED <<form, teams, announced>>

(* The failure is recorded only under the request's own lease.             *)
MarkFailed(q) ==
    /\ freq[q].pc = "failing"
    /\ form' = IF HoldsLease(q) /\ form.team = "none"
               THEN [form EXCEPT !.status = "failed", !.lease = @ + 1, !.old = FALSE]
               ELSE form
    /\ To(q, "failed")
    /\ UNCHANGED <<teams, announced, ffaults>>

(* Documents are written again for every answer; the user is told once, by *)
(* the request that formed the team.                                       *)
Finalize(q) ==
    /\ freq[q].pc = "finalizing"
    /\ IF freq[q].seen = "provisioning"
       THEN To(q, "formed") /\ announced' = announced \cup {freq[q].team}
       ELSE To(q, "replayed") /\ UNCHANGED announced
    /\ UNCHANGED <<form, teams, ffaults>>

(* The server stops: its requests are gone, the row stays.                 *)
ServerStops ==
    /\ FFault
    /\ \E q \in FormReqs : freq[q].pc \in {"provisioning", "failing", "finalizing"}
    /\ freq' = [q \in DOMAIN freq |->
         IF freq[q].pc \in {"idle", "formed", "replayed", "busy", "failed"} THEN freq[q]
         ELSE [freq[q] EXCEPT !.pc = "lost"]]
    /\ UNCHANGED <<form, teams, announced>>

-----------------------------------------------------------------------------
(* A template for a channel that exists.                                   *)

HasTeam == teams \cap ApplyReqs # {}

ApplyTemplate(q) ==
    /\ freq[q].pc = "idle"
    /\ IF HasTeam
       THEN To(q, "failed") /\ UNCHANGED <<teams, ffaults>>
       ELSE \/ /\ teams' = teams \cup {q} /\ UNCHANGED ffaults
               /\ freq' = [freq EXCEPT ![q].pc = "formed", ![q].team = q]
            \/ To(q, "failed") /\ FFault /\ UNCHANGED teams
    /\ UNCHANGED <<form, announced>>

FormationNext ==
    \/ \E q \in FormReqs :
          \/ InsertFormation(q) \/ ReadFormation(q) \/ RetakeFormation(q)
          \/ Provision(q) \/ ProvisionLosesLease(q) \/ ProvisionFails(q)
          \/ MarkFailed(q) \/ Finalize(q)
    \/ \E q \in ApplyReqs : ApplyTemplate(q)
    \/ TwoMinutesPass \/ ServerStops

FormationSpec == FormationInit /\ [][FormationNext]_formationVars

-----------------------------------------------------------------------------
(* Properties.                                                             *)

\* One message gets one team, whatever is retried, taken over or lost on the way,
\* and the formation is completed exactly when its team is there.
OneTeamPerMessage ==
    /\ Cardinality(teams \cap FormReqs) <= 1
    /\ teams \cap FormReqs = (IF form.status = "completed" THEN {form.team} ELSE {})

\* One channel gets one template, and whoever is told of a team is told of this one.
AnswersNameTheTeam ==
    /\ Cardinality(teams \cap ApplyReqs) <= 1
    /\ announced \subseteq teams
    /\ \A q \in DOMAIN freq : freq[q].pc \in {"formed", "replayed"} => freq[q].team \in teams

\* While a request provisions under the lease of the row, nobody else ends the
\* formation: another request may only take it over, and only after two minutes.
LeaseIsRespected ==
    \A q \in FormReqs :
        /\ freq[q].pc = "provisioning" /\ HoldsLease(q) /\ freq'[q] = freq[q]
        /\ form' # form
        => /\ form'.status = "provisioning" /\ form'.lease >= form.lease
           /\ form'.lease > form.lease => form.old

\* A team is formed once, by the request that holds the lease.
FormationPromise ==
    /\ [](FormationTypeOK /\ OneTeamPerMessage /\ AnswersNameTheTeam)
    /\ [][LeaseIsRespected]_formationVars
===============================================================================
