------------------------------ MODULE MCChannels ------------------------------
(***************************************************************************)
(* What people and agents see of a channel: messages sent (Conversation),  *)
(* events delivered (Hub), the tree of thinking nodes (Thinking) and tasks *)
(* (Task), also those that automations put there (Automation); the team    *)
(* that works in it (Formation, Agreement) and the Computers it works on   *)
(* (Pairing). One component moves in each behaviour and the others rest,   *)
(* so a run is as large as the sum of its parts.                           *)
(***************************************************************************)
EXTENDS Conversation, Hub, Thinking, Automation, Task, Pairing, Formation,
        Agreement

CONSTANT Parts  \* the components a run moves

VARIABLE part   \* the one that moves in this behaviour

CONSTANT h1

MCOwner == [a \in Agents |-> h1]
MCSender == [m \in Messages |-> h1]

Form(k, p, w, c, r, t, keep, task) ==
    [key |-> k, path |-> p, sender |-> w, scope |-> c, run |-> r, text |-> t,
     retain |-> keep, asTask |-> task]

\* What each of three requests may send: retries of one key over every path,
\* an agent's held draft, sends without a key and across scopes.
AllSends ==
    << {Form("k1", "create", "user", "th", "norun", "x", FALSE, FALSE),
        Form("k1", "dm", "user", "dm", "norun", "x", FALSE, TRUE),
        Form("nokey", "wsreply", "user", "th", "norun", "x", FALSE, FALSE),
        Form("nokey", "ws", "user", "top", "norun", "x", FALSE, FALSE)},
       {Form("k1", "dm", "user", "dm", "norun", "x", FALSE, TRUE),
        Form("k2", "create", "agent", "th", "r2", "e", FALSE, FALSE),
        Form("k2", "create", "agent", "th", "r1", "d", TRUE, FALSE),
        Form("nokey", "reply", "agent", "th", "norun", "x", FALSE, FALSE)},
       {Form("k3", "create", "agent", "th", "r1", "d", FALSE, FALSE)} >>

TwoSends ==
    << {Form("k1", "dm", "user", "dm", "norun", "x", FALSE, TRUE),
        Form("k1", "create", "agent", "th", "r1", "d", FALSE, FALSE)},
       {Form("k1", "dm", "user", "dm", "norun", "x", FALSE, TRUE),
        Form("k2", "create", "agent", "th", "r2", "e", FALSE, FALSE)} >>

RunScopes == [r \in CRuns |-> IF r = "r1" THEN "th" ELSE "top"]

\* Every request has been answered.
SendsAtRest ==
    /\ sending = [q \in SendIds |->
                    [Requested(CHOOSE s \in Menu[q] : TRUE) EXCEPT !.pc = "ended"]]
    /\ rows = <<>> /\ cache = [k \in SendKeys |-> Absent] /\ age = <<>>
    /\ crun = [r \in CRuns |-> [live |-> TRUE, seen |-> 0, draft |-> "none",
                                consumed |-> FALSE, shown |-> {}]]
    /\ replies = 0 /\ barred = FALSE /\ spent = 0

AutomationAtRest ==
    /\ adef = [enabled |-> FALSE, due |-> FALSE, review |-> TRUE]
    /\ arun = [i \in ARunIds |-> NoARun] /\ atask = [i \in ARunIds |-> NoATask]
    /\ untold = {} /\ aedits = 0 /\ acrashes = 0

\* The agents a and c of one owner, b of another; who assigns work to whom.
MCTOwner == [a \in TAgents |-> IF a = "b" THEN "u2" ELSE "u1"]

MCEnds == [r \in Proposals \cup Directs |->
             CASE r = "ba" -> <<"b", "a">> [] r = "cb" -> <<"c", "b">>
               [] r = "ac" -> <<"a", "c">>]

PairingAtRest == comp = [m \in Machines |-> NoComputer] /\ PairingInit

\* What is agreed on once stays so: a Computer is paired by one token, a message
\* forms one team, and a team works as its owners approved.
TeamsPromise == PairingPromise /\ FormationPromise /\ AgreementPromise

mcVars == <<part, convVars, hubVars, thinkVars, autoVars, vars, pairingVars, formationVars, agreementVars>>

MCInit ==
    /\ part \in Parts
    /\ IF part = "sends" THEN ConvInit ELSE SendsAtRest
    /\ HubInit
    /\ ThinkInit
    /\ IF part = "automation" THEN AutoInit ELSE AutomationAtRest
    /\ Init
    /\ IF part = "pairing" THEN PairingInit ELSE PairingAtRest
    /\ FormationInit
    /\ AgreementInit

MCNext ==
    \/ part = "sends" /\ ConvNext /\ UNCHANGED <<part, hubVars, thinkVars, autoVars, vars, pairingVars, formationVars, agreementVars>>
    \/ part = "hub" /\ HubNext /\ UNCHANGED <<part, convVars, thinkVars, autoVars, vars, pairingVars, formationVars, agreementVars>>
    \/ part = "thinking" /\ ThinkNext /\ UNCHANGED <<part, convVars, hubVars, autoVars, vars, pairingVars, formationVars, agreementVars>>
    \/ part = "automation" /\ AutoNext /\ UNCHANGED <<part, convVars, hubVars, thinkVars, vars, pairingVars, formationVars, agreementVars>>
    \/ part = "board" /\ Next /\ UNCHANGED <<part, convVars, hubVars, thinkVars, autoVars, pairingVars, formationVars, agreementVars>>
    \/ part = "pairing" /\ PairingNext /\ UNCHANGED <<part, convVars, hubVars, thinkVars, autoVars, vars, formationVars, agreementVars>>
    \/ part = "formation" /\ FormationNext /\ UNCHANGED <<part, convVars, hubVars, thinkVars, autoVars, vars, pairingVars, agreementVars>>
    \/ part = "agreement" /\ AgreementNext /\ UNCHANGED <<part, convVars, hubVars, thinkVars, autoVars, vars, pairingVars, formationVars>>

MCSpec == MCInit /\ [][MCNext]_mcVars
===============================================================================
