----------------------------- MODULE CodexTurn -----------------------------
(***************************************************************************)
(* The turns of a codex app-server process (pkg/agent/codex.go): a client  *)
(* that knows one turn at a time, notifications that name a turn or none,  *)
(* the interrupt that Stop sends and its local fallback, and the reader    *)
(* that fails the turn when the process is gone.  Requests and lines are   *)
(* two FIFO pipes; the app-server itself is external: it runs one turn at  *)
(* a time, refuses a second one, and ends a turn completed, failed or      *)
(* interrupted.  Turns are numbered by the call that asks for them; 0 is   *)
(* the empty turn id.                                                      *)
(***************************************************************************)
EXTENDS Naturals, Sequences, FiniteSets

CONSTANTS Protocols,   \* notifications in use: "raw" (also mixed), "legacy"
          MaxCTurns,   \* turns of the process
          MaxStops,    \* turns whose task is cancelled
          MaxLapses    \* deadlines of turn/start and turn/interrupt that pass

ASSUME CodexAssumption ==
    /\ Protocols \subseteq {"raw", "legacy"}
    /\ MaxCTurns \in Nat \ {0} /\ MaxStops \in Nat /\ MaxLapses \in Nat

VARIABLES protocol,     \* notificationProtocol
          cturn,        \* the calls of Start and Send, their results and stops
          active,       \* the turn whose callbacks are installed
          turnID,       \* the id the client knows of it
          turnDone,     \* it has ended for the client
          completedIDs, \* completedTurnIDs
          requests,     \* pipe to the app-server
          lines,        \* pipe from the app-server
          serving,      \* the turn the app-server runs
          cproc,        \* "up" or "exited"
          creader,      \* reading, drained, reaped, done
          lapses        \* deadlines passed so far

codexVars == <<protocol, cturn, active, turnID, turnDone, completedIDs, requests,
               lines, serving, cproc, creader, lapses>>
client == <<active, turnID, turnDone, completedIDs>>
pipes == <<requests, lines, serving>>

CTurns == 1..MaxCTurns
TurnIDs == 0..MaxCTurns
NotSettled == [kind |-> "none", of |-> 0]
NoCTurn == [pc |-> "idle", res |-> "none", by |-> NotSettled, stop |-> "none", on |-> 0]

CodexTypeOK ==
    /\ protocol \in Protocols
    /\ cturn \in [CTurns ->
         [pc : {"idle", "checked", "prepared", "asking", "acked", "back", "erred"},
          res : {"none", "completed", "cancelled", "failed"},
          by : [kind : {"none", "ended", "stop", "death"}, of : TurnIDs],
          stop : {"none", "called", "asked", "answered", "drain", "over"},
          on : TurnIDs]]
    /\ active \in TurnIDs /\ turnID \in TurnIDs /\ turnDone \in BOOLEAN
    /\ completedIDs \subseteq CTurns /\ serving \in TurnIDs
    /\ cproc \in {"up", "exited"} /\ creader \in {"reading", "drained", "reaped", "done"}
    /\ lapses \in 0..MaxLapses

CodexInit ==
    /\ protocol \in Protocols
    /\ cturn = [t \in CTurns |-> NoCTurn]
    /\ active = 0 /\ turnID = 0 /\ turnDone = FALSE /\ completedIDs = {}
    /\ requests = <<>> /\ lines = <<>> /\ serving = 0
    /\ cproc = "up" /\ creader = "reading" /\ lapses = 0

COver(t) == cturn[t].pc = "erred" \/ (cturn[t].pc = "back" /\ cturn[t].res # "none")
Lapse == lapses < MaxLapses /\ lapses' = lapses + 1
Line(kind, t, status) == [kind |-> kind, of |-> t, status |-> status]

\* The terminal callback of the turn that is installed.
Reported(status, kind, of) ==
    [cturn EXCEPT ![active] =
        [@ EXCEPT !.res = status, !.by = [kind |-> kind, of |-> of]]]

\* Variant: the client forgets which turns it has seen end.
DoneForgetsIDs(id, status, kind, of) ==
    /\ turnDone' = TRUE
    /\ cturn' = IF turnDone THEN cturn ELSE Reported(status, kind, of)
    /\ UNCHANGED <<active, turnID, completedIDs>>

\* signalTurnDoneForID: an id that was seen to end is ignored, any other id ends
\* the turn that is installed.
SignalTurnDone(id, status, kind, of) ==
    LET named == IF id = 0 THEN turnID ELSE id
    IN IF named \in completedIDs THEN UNCHANGED <<cturn, client>>
       ELSE /\ completedIDs' = completedIDs \cup ({named} \ {0})
            /\ turnDone' = TRUE
            /\ cturn' = IF turnDone THEN cturn ELSE Reported(status, kind, of)
            /\ UNCHANGED <<active, turnID>>

\* signalTurnFailureForID: an id that is not the known one is ignored too.
SignalTurnFailure(id, kind, of) ==
    LET named == IF id = 0 THEN turnID ELSE id
    IN IF named \in completedIDs \/ (named # turnID /\ turnID # 0) \/ turnDone
       THEN UNCHANGED <<cturn, client>>
       ELSE /\ completedIDs' = completedIDs \cup ({named} \ {0})
            /\ turnDone' = TRUE
            /\ cturn' = Reported("failed", kind, of)
            /\ UNCHANGED <<active, turnID>>

\* recordTurnID: the id of a turn that has not ended yet.
RecordTurnID(id) == turnID' = IF turnDone THEN turnID ELSE id

----------------------------------------------------------------------------
(* Start and Send.                                                         *)

\* Start: the process is up, handshake and thread/start succeed.
StartThread ==
    /\ cturn[1].pc = "idle" /\ cproc = "up"
    /\ cturn' = [cturn EXCEPT ![1].pc = "prepared"]
    /\ active' = 1
    /\ UNCHANGED <<protocol, turnID, turnDone, completedIDs, pipes, cproc, creader, lapses>>

CodexAlive == creader \in {"reading", "drained"}

\* Send on the session that Start returned looks whether the process lives once
\* the previous turn has ended.
CheckCodex(t) ==
    /\ t > 1 /\ cturn[t].pc = "idle" /\ COver(t - 1) /\ cturn[1].pc = "back"
    /\ cturn' = [cturn EXCEPT ![t].pc = IF CodexAlive THEN "checked" ELSE "erred"]
    /\ UNCHANGED <<protocol, client, pipes, cproc, creader, lapses>>

\* prepareTurn: the known turn is remembered as ended only if it ended.
PrepareTurn(t) ==
    /\ cturn[t].pc = "checked"
    /\ cturn' = [cturn EXCEPT ![t].pc = "prepared"]
    /\ completedIDs' = completedIDs \cup (IF turnDone THEN {turnID} \ {0} ELSE {})
    /\ active' = t /\ turnID' = 0 /\ turnDone' = FALSE
    /\ UNCHANGED <<protocol, pipes, cproc, creader, lapses>>

\* Start gives the process up when its turn cannot be started.
GiveUp(t) == IF t = 1 THEN cproc' = "exited" /\ requests' = <<>> /\ serving' = 0
             ELSE UNCHANGED <<cproc, requests, serving>>

RequestTurn(t) ==
    /\ cturn[t].pc = "prepared" /\ cproc = "up"
    /\ cturn' = [cturn EXCEPT ![t].pc = "asking"]
    /\ requests' = Append(requests, [op |-> "start", of |-> t, by |-> t])
    /\ UNCHANGED <<protocol, client, lines, serving, cproc, creader, lapses>>

TurnWriteFails(t) ==
    /\ cturn[t].pc = "prepared" /\ cproc = "exited"
    /\ cturn' = [cturn EXCEPT ![t].pc = "erred"]
    /\ UNCHANGED <<protocol, client, pipes, cproc, creader, lapses>>

\* No response to turn/start for ten seconds: the turn may start all the same.
TurnStartLapses(t) ==
    /\ cturn[t].pc = "asking" /\ Lapse
    /\ cturn' = [cturn EXCEPT ![t].pc = "erred"]
    /\ GiveUp(t)
    /\ UNCHANGED <<protocol, client, lines, creader>>

\* The caller goes on with the response and records the id in it.
TurnAccepted(t) ==
    /\ cturn[t].pc = "acked"
    /\ cturn' = [cturn EXCEPT ![t].pc = "back"]
    /\ RecordTurnID(t)
    /\ UNCHANGED <<protocol, active, turnDone, completedIDs, pipes, cproc, creader, lapses>>

----------------------------------------------------------------------------
(* The app-server (external) and the reader of its lines.                  *)

\* turn/start: one turn at a time; response and turn/started in either order.
ServesStart ==
    /\ requests # <<>> /\ Head(requests).op = "start"
    /\ requests' = Tail(requests)
    /\ LET t == Head(requests).of
           told == Line("started", t, "none")
           ack == Line("ack", t, "none")
       IN IF serving # 0
          THEN lines' = Append(lines, Line("nack", t, "none")) /\ UNCHANGED serving
          ELSE /\ serving' = t
               /\ \/ lines' = lines \o <<ack, told>>
                  \/ lines' = lines \o <<told, ack>>
    /\ UNCHANGED <<protocol, cturn, client, cproc, creader, lapses>>

\* turn/interrupt of the turn that runs, or "no active turn to interrupt".
ServesInterrupt ==
    /\ requests # <<>> /\ Head(requests).op = "interrupt"
    /\ requests' = Tail(requests)
    /\ LET id == Head(requests).of
           answer == Line("answer", Head(requests).by, "none")
           ended == Line("ended", id, "cancelled")
       IN IF serving # id THEN lines' = Append(lines, answer) /\ UNCHANGED serving
          ELSE /\ serving' = 0
               /\ \/ lines' = lines \o <<answer, ended>>
                  \/ lines' = lines \o <<ended, answer>>
    /\ UNCHANGED <<protocol, cturn, client, cproc, creader, lapses>>

EndsTurn(status) ==
    /\ serving # 0 /\ serving' = 0
    /\ lines' = Append(lines, Line("ended", serving, status))
    /\ UNCHANGED <<protocol, cturn, client, requests, cproc, creader, lapses>>

\* The process leaves; what it wrote before is still read.
CodexExits ==
    /\ cproc = "up" /\ cturn[1].pc # "idle"
    /\ cproc' = "exited" /\ requests' = <<>> /\ serving' = 0
    /\ UNCHANGED <<protocol, cturn, client, lines, creader, lapses>>

Reads(kind) ==
    /\ creader = "reading" /\ lines # <<>> /\ Head(lines).kind = kind
    /\ lines' = Tail(lines)

\* handleResponse: a response that nobody waits for is dropped.
ReadsAck(kind) ==
    /\ kind \in {"ack", "nack"} /\ Reads(kind)
    /\ LET t == Head(lines).of
       IN /\ cturn' = IF cturn[t].pc # "asking" THEN cturn
                      ELSE [cturn EXCEPT ![t].pc = IF kind = "ack" THEN "acked" ELSE "erred"]
          /\ IF cturn[t].pc = "asking" /\ kind = "nack" THEN GiveUp(t)
             ELSE UNCHANGED <<cproc, requests, serving>>
    /\ UNCHANGED <<protocol, client, creader, lapses>>

\* turn/started names the turn; legacy events do not.
ReadsStarted ==
    /\ Reads("started")
    /\ IF protocol = "raw" THEN RecordTurnID(Head(lines).of) ELSE UNCHANGED turnID
    /\ UNCHANGED <<protocol, cturn, active, turnDone, completedIDs, requests, serving,
                   cproc, creader, lapses>>

\* turn/completed of handleRawNotification.
ReadsCompletion ==
    /\ protocol = "raw" /\ Reads("ended")
    /\ LET e == Head(lines)
       IN IF e.status = "failed" THEN SignalTurnFailure(e.of, "ended", e.of)
          ELSE SignalTurnDone(e.of, e.status, "ended", e.of)
    /\ UNCHANGED <<protocol, requests, serving, cproc, creader, lapses>>

\* task_complete and turn_aborted of handleEvent carry no turn.
ReadsLegacyEnd ==
    /\ protocol = "legacy" /\ Reads("ended")
    /\ LET e == Head(lines)
       IN SignalTurnDone(0, IF e.status = "cancelled" THEN "cancelled" ELSE "completed",
                         "ended", e.of)
    /\ UNCHANGED <<protocol, requests, serving, cproc, creader, lapses>>

ReadsInterruptAnswer ==
    /\ Reads("answer")
    /\ LET t == Head(lines).of
       IN cturn' = IF cturn[t].stop = "asked"
                   THEN [cturn EXCEPT ![t].stop = "answered"] ELSE cturn
    /\ UNCHANGED <<protocol, client, requests, serving, cproc, creader, lapses>>

\* End of output: the requests that are pending fail.
CodexEOF ==
    /\ cproc = "exited" /\ creader = "reading" /\ lines = <<>>
    /\ creader' = "drained"
    /\ cturn' = [t \in CTurns |->
                   [cturn[t] EXCEPT !.pc = IF @ = "asking" THEN "erred" ELSE @,
                                    !.stop = IF @ = "asked" THEN "over" ELSE @]]
    /\ UNCHANGED <<protocol, client, pipes, cproc, lapses>>

\* The exit is published, and only then the active turn fails.
CodexReaped ==
    /\ creader = "drained" /\ creader' = "reaped"
    /\ UNCHANGED <<protocol, cturn, client, pipes, cproc, lapses>>

CodexTurnFails ==
    /\ creader = "reaped" /\ creader' = "done"
    /\ SignalTurnFailure(0, "death", 0)
    /\ UNCHANGED <<protocol, pipes, cproc, lapses>>

----------------------------------------------------------------------------
(* Stop of a turn, in a goroutine of its own.                              *)

\* The task of the turn is cancelled before its result.
StopCalled(t) ==
    /\ cturn[t].pc = "back" /\ cturn[t].stop = "none" /\ cturn[t].res = "none"
    /\ Cardinality({s \in CTurns : cturn[s].stop # "none"}) < MaxStops
    /\ cturn' = [cturn EXCEPT ![t].stop = "called"]
    /\ UNCHANGED <<protocol, client, pipes, cproc, creader, lapses>>

\* A failed interrupt ends the process when it is Start's.
StopFails(t) ==
    /\ cturn' = [cturn EXCEPT ![t].stop = "over"]
    /\ GiveUp(t)
    /\ UNCHANGED <<protocol, client, lines, creader>>

\* interruptCurrentTurn interrupts the turn that is installed now.
InterruptCurrentTurn(t) ==
    /\ cturn[t].stop = "called"
    /\ IF turnDone
       THEN /\ cturn' = [cturn EXCEPT ![t].stop = "over"]
            /\ UNCHANGED <<protocol, client, pipes, cproc, creader, lapses>>
       ELSE IF turnID = 0 \/ cproc = "exited" THEN StopFails(t) /\ UNCHANGED lapses
       ELSE /\ cturn' = [cturn EXCEPT ![t].stop = "asked"]
            /\ requests' = Append(requests, [op |-> "interrupt", of |-> turnID, by |-> t])
            /\ UNCHANGED <<protocol, client, lines, serving, cproc, creader, lapses>>

InterruptLapses(t) ==
    /\ cturn[t].stop = "asked" /\ Lapse /\ StopFails(t)

\* waitForTurnDone takes the channel of the turn that is installed now.
AwaitTurnDone(t) ==
    /\ cturn[t].stop = "answered"
    /\ cturn' = [cturn EXCEPT ![t] =
          [@ EXCEPT !.stop = IF turnDone THEN "over" ELSE "drain", !.on = active]]
    /\ UNCHANGED <<protocol, client, pipes, cproc, creader, lapses>>

TurnDoneSeen(t) ==
    /\ cturn[t].stop = "drain" /\ cturn[cturn[t].on].res # "none"
    /\ cturn' = [cturn EXCEPT ![t].stop = "over"]
    /\ UNCHANGED <<protocol, client, pipes, cproc, creader, lapses>>

\* Half a second without the notification: the client ends the turn itself.
DrainLapses(t) ==
    /\ cturn[t].stop = "drain" /\ cturn[cturn[t].on].res = "none"
    /\ LET named == turnID
       IN IF named \in completedIDs \/ turnDone
          THEN cturn' = [cturn EXCEPT ![t].stop = "over"] /\ UNCHANGED client
          ELSE /\ completedIDs' = completedIDs \cup ({named} \ {0}) /\ turnDone' = TRUE
               /\ LET ended == Reported("cancelled", "stop", t)
                  IN cturn' = [u \in CTurns |->
                        IF u = t THEN [ended[u] EXCEPT !.stop = "over"] ELSE ended[u]]
               /\ UNCHANGED <<active, turnID>>
    /\ UNCHANGED <<protocol, pipes, cproc, creader, lapses>>

CodexNext ==
    \/ StartThread \/ ServesStart \/ ServesInterrupt \/ CodexExits \/ ReadsStarted
    \/ ReadsCompletion \/ ReadsLegacyEnd \/ ReadsInterruptAnswer \/ CodexEOF
    \/ CodexReaped \/ CodexTurnFails
    \/ \E status \in {"completed", "failed"} : EndsTurn(status)
    \/ \E kind \in {"ack", "nack"} : ReadsAck(kind)
    \/ \E t \in CTurns :
         \/ CheckCodex(t) \/ PrepareTurn(t) \/ RequestTurn(t) \/ TurnWriteFails(t)
         \/ TurnStartLapses(t) \/ TurnAccepted(t) \/ StopCalled(t)
         \/ InterruptCurrentTurn(t) \/ InterruptLapses(t) \/ AwaitTurnDone(t)
         \/ TurnDoneSeen(t) \/ DrainLapses(t)

CodexSpec == CodexInit /\ [][CodexNext]_codexVars

----------------------------------------------------------------------------
(* Properties.                                                             *)

\* The client did not see this turn end as its own: its turn/start timed out, or
\* the Stop or the end of an earlier turn was taken for it.
Unseen(t) == cturn[t].by.of # t

\* A turn ends by what is its own: its notification, its Stop or the death of the
\* process.  A turn that was seen to end never ends a later one when its
\* notification comes late.  Two windows are open in the code: the Stop of an
\* earlier turn that is still under way, and the notification of an unseen turn.
EndsByItself ==
    protocol = "raw" =>
        \A t \in CTurns : cturn[t].by.kind \in {"ended", "stop"} =>
            LET of == cturn[t].by.of
            IN of # t => of < t /\ (cturn[t].by.kind = "stop" \/ Unseen(of))

\* Once the process is gone nobody waits for a result, and a turn that failed by
\* its death is not reported before the next caller can see the process dead.
CodexGoneMeansSettled ==
    /\ creader = "done" => \A t \in CTurns : cturn[t].pc = "back" => COver(t)
    /\ \A t \in CTurns : cturn[t].by.kind = "death" => ~CodexAlive

\* A turn of the client that has ended is one that was reported, and the other
\* way round: the turn gate is never held by a turn the client believes over.
DoneWasReported ==
    active # 0 => (turnDone <=> cturn[active].res # "none")

\* A Stop that is over left no turn of its own behind: the turn has its result or
\* the interrupt failed (an empty turn id, a deadline, a dead process).
StopConverges ==
    \A t \in CTurns : cturn[t].stop = "over" =>
        COver(t) \/ lapses > 0 \/ cproc = "exited"

\* The turns of a codex process.
CodexPromise ==
    CodexTypeOK /\ EndsByItself /\ CodexGoneMeansSettled /\ DoneWasReported
        /\ StopConverges

=============================================================================
