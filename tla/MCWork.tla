-------------------------------- MODULE MCWork --------------------------------
(***************************************************************************)
(* A task under its gates (Task), the turns of the providers that work on  *)
(* tasks (ProviderSession, CodexTurn, OneShot), the lock of the daemon     *)
(* they run in (MachineLock), and the agents: their departure (Departure)  *)
(* and the comparison of their revisions (Selection). One component moves  *)
(* in each behaviour and the others rest, so a run is as large as the sum  *)
(* of its parts.                                                           *)
(***************************************************************************)
EXTENDS Task, ProviderSession, CodexTurn, OneShot, MachineLock, Departure,
        Selection, TLC

CONSTANT Parts  \* the components a run moves

VARIABLE part   \* the one that moves in this behaviour

CONSTANTS h1, a2

MCOwner == [a \in Agents |-> h1]
MCSender == [m \in Messages |-> h1]

HumanGate == [kind |-> "human", reviewer |-> h1, max |-> 2]
AgentGate == [kind |-> "agent", reviewer |-> a2, max |-> 2]
CodeGate  == [kind |-> "code",  reviewer |-> a2, max |-> 2]
EveryGate == {HumanGate, AgentGate, CodeGate}

\* Submissions and keys are interchangeable: no action tells them apart.
Interchangeable == Permutations(Subs) \cup Permutations(Keys)

ProviderAtRest == pkind = (CHOOSE k \in Kinds : TRUE) /\ ProviderInit
CodexAtRest == protocol = (CHOOSE p \in Protocols : TRUE) /\ CodexInit
OneShotAtRest == ob = (CHOOSE b \in Backends : TRUE) /\ OneShotInit

\* A turn of a provider, in every design of backend, ends once, by what is its own
\* and with the status it earned, in one daemon of a machine.
BackendsPromise == ProviderPromise /\ CodexPromise /\ OneShotPromise /\ LockPromise

DepartureAtRest ==
    DepartureInit /\ \A p \in WorkPlaces : inbox[p] = "unused" /\ wake[p] = "unused"
SelectionAtRest == SelectionInit /\ asked = 0

\* An agent leaves as a whole, and is changed only on evidence that holds.
MembersPromise == DeparturePromise /\ SelectionPromise

mcVars == <<part, vars, providerVars, codexVars, oneShotVars, lockVars, departureVars, selectionVars>>

MCInit ==
    /\ part \in Parts
    /\ Init
    /\ IF part = "provider" THEN ProviderInit ELSE ProviderAtRest
    /\ IF part = "codex" THEN CodexInit ELSE CodexAtRest
    /\ IF part = "oneshot" THEN OneShotInit ELSE OneShotAtRest
    /\ LockInit
    /\ IF part = "departure" THEN DepartureInit ELSE DepartureAtRest
    /\ IF part = "selection" THEN SelectionInit ELSE SelectionAtRest

MCNext ==
    \/ part = "board" /\ Next /\ UNCHANGED <<part, providerVars, codexVars, oneShotVars, lockVars, departureVars, selectionVars>>
    \/ part = "provider" /\ ProviderNext /\ UNCHANGED <<part, vars, codexVars, oneShotVars, lockVars, departureVars, selectionVars>>
    \/ part = "codex" /\ CodexNext /\ UNCHANGED <<part, vars, providerVars, oneShotVars, lockVars, departureVars, selectionVars>>
    \/ part = "oneshot" /\ OneShotNext /\ UNCHANGED <<part, vars, providerVars, codexVars, lockVars, departureVars, selectionVars>>
    \/ part = "lock" /\ LockNext /\ UNCHANGED <<part, vars, providerVars, codexVars, oneShotVars, departureVars, selectionVars>>
    \/ part = "departure" /\ DepartureNext /\ UNCHANGED <<part, vars, providerVars, codexVars, oneShotVars, lockVars, selectionVars>>
    \/ part = "selection" /\ SelectionNext /\ UNCHANGED <<part, vars, providerVars, codexVars, oneShotVars, lockVars, departureVars>>

MCSpec == MCInit /\ [][MCNext]_mcVars
===============================================================================
