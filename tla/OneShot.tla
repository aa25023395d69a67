------------------------------ MODULE OneShot ------------------------------
(***************************************************************************)
(* Execute: one run of a provider's program, from the spawn to the single  *)
(* Result.  Four designs:                                                  *)
(*   stream    gemini, pi, cursor, copilot, claude: read lines to the end, *)
(*             reap, then decide the status;                               *)
(*   ACP       kimi, kiro, hermes: a handshake, one session/prompt, and a  *)
(*             last look at what the program wrote to stderr;              *)
(*   codex     a handshake, then whatever comes first of the turn's end,   *)
(*             its failure, silence and the end of the context;            *)
(*   wrapped   opencode, openclaw: the first turn of a persistent session. *)
(* The program is external.                                                *)
(***************************************************************************)
EXTENDS Naturals, FiniteSets

CONSTANTS Backends  \* the providers to check

Streams == {"gemini", "pi", "cursor", "copilot", "claude"}
ACPs == {"kimi", "kiro", "hermes"}
Wrapped == {"opencode", "openclaw"}

ASSUME OneShotAssumption ==
    Backends \subseteq Streams \cup ACPs \cup Wrapped \cup {"codex"}

VARIABLES ob,      \* the provider
          ophase,  \* where the goroutine of the run stands
          octx,    \* the context: live, cancelled (Stop or the task), deadline
          oexit,   \* the program: running, or how it exited
          ofinal,  \* the status in hand
          oseen,   \* what the program reported
          oout,    \* what the output is made of
          ores     \* the Result on the channel

oneShotVars == <<ob, ophase, octx, oexit, ofinal, oseen, oout, ores>>

OStatuses == {"completed", "failed", "timeout", "cancelled"}
Requests == {"initialize", "session", "model", "prompt"}
OEvents == {"text", "error", "goodResult", "badResult", "retryFailed"}

OneShotTypeOK ==
    /\ ob \in Backends
    /\ ophase \in {"spawn", "noSession", "reading", "eof", "closing", "turn",
                   "reported", "closed"} \cup Requests
    /\ octx \in {"live", "cancelled", "deadline"} /\ oexit \in {"no", "ok", "bad"}
    /\ ofinal \in OStatuses
    /\ oseen \subseteq OEvents \cup {"answered", "aborted", "silence", "stderr", "terminal",
                                     "inner"}
    /\ oout \subseteq {"replay", "answer"} /\ ores \in OStatuses \cup {"none"}

OneShotInit ==
    /\ ob \in Backends /\ ophase = "spawn" /\ octx = "live" /\ oexit = "no"
    /\ ofinal = "completed" /\ oseen = {} /\ oout = {} /\ ores = "none"

Running == ophase \notin {"spawn", "noSession", "reported", "closed"}

----------------------------------------------------------------------------
(* The program and the context.                                            *)

\* The executable is missing, a pipe fails or claude's prompt cannot be written:
\* Execute returns an error and no Session.
SpawnFails ==
    /\ ophase = "spawn" /\ ophase' = "noSession"
    /\ UNCHANGED <<ob, octx, oexit, ofinal, oseen, oout, ores>>

Spawns ==
    /\ ophase = "spawn"
    /\ ophase' = CASE ob \in Streams -> "reading" [] ob \in Wrapped -> "turn"
                   [] OTHER -> "initialize"
    /\ UNCHANGED <<ob, octx, oexit, ofinal, oseen, oout, ores>>

ProgramExits(how) ==
    /\ Running /\ oexit = "no" /\ oexit' = how
    /\ UNCHANGED <<ob, ophase, octx, ofinal, oseen, oout, ores>>

\* Stop, the end of the task's context or the deadline: the program is killed.
ContextEnds(why) ==
    /\ Running /\ octx = "live" /\ octx' = why
    /\ oexit' = IF oexit = "no" /\ ob \notin Wrapped THEN "bad" ELSE oexit
    /\ UNCHANGED <<ob, ophase, ofinal, oseen, oout, ores>>

----------------------------------------------------------------------------
(* Streams: what a line does to the status in hand.                        *)

\* Only a result that says so fails the run of gemini; an error event does not.
GeminiFinal(e) == IF e = "badResult" THEN "failed" ELSE ofinal

\* The first error of pi, or retries that ended without success.
PiFinal(e) == IF e \in {"error", "retryFailed"} THEN "failed" ELSE ofinal

\* An error event of cursor leaves a text, not a status.
CursorFinal(e) == IF e = "badResult" THEN "failed" ELSE ofinal

CopilotFinal(e) == IF e \in {"error", "badResult"} THEN "failed" ELSE ofinal

ClaudeFinal(e) == IF e \in {"error", "badResult"} THEN "failed" ELSE ofinal

LineFinal(e) ==
    CASE ob = "gemini" -> GeminiFinal(e) [] ob = "pi" -> PiFinal(e)
      [] ob = "cursor" -> CursorFinal(e) [] ob = "copilot" -> CopilotFinal(e)
      [] OTHER -> ClaudeFinal(e)

\* Lines written before the exit are still read after it.
ReadsLine(e) ==
    /\ ophase = "reading" /\ e \notin oseen
    /\ IF ob = "pi" THEN e \notin {"goodResult", "badResult"} ELSE e # "retryFailed"
    /\ oseen' = oseen \cup {e} /\ ofinal' = LineFinal(e)
    /\ oout' = IF e = "text" THEN oout \cup {"answer"} ELSE oout
    /\ UNCHANGED <<ob, ophase, octx, oexit, ores>>

\* End of output: the program left, or the context closed the pipe (gemini waits
\* for the program).
StreamEnds ==
    /\ ophase = "reading" /\ (oexit # "no" \/ (octx # "live" /\ ob # "gemini"))
    /\ ophase' = "eof"
    /\ UNCHANGED <<ob, octx, oexit, ofinal, oseen, oout, ores>>

\* The status after cmd.Wait: a context that ended outweighs what was read, and a
\* bad exit fails a run that looked complete.
LineStatus ==
    IF octx = "deadline" THEN "timeout"
    ELSE IF octx = "cancelled" THEN "cancelled"
    ELSE IF oexit = "bad" /\ ofinal = "completed" THEN "failed"
    ELSE ofinal

\* copilot: an error that was read outweighs the context.
CopilotStatus == IF ofinal # "completed" THEN ofinal ELSE LineStatus

StreamReports ==
    /\ ophase = "eof" /\ oexit # "no"
    /\ ores' = IF ob = "copilot" THEN CopilotStatus ELSE LineStatus
    /\ ophase' = "reported"
    /\ UNCHANGED <<ob, octx, oexit, ofinal, oseen, oout>>

----------------------------------------------------------------------------
(* ACP providers.                                                          *)

\* A resumed session replays its history while the handshake goes on: hermes does
\* not stream it into the answer, kimi and kiro do.
ReplayRead ==
    /\ ob \in ACPs /\ ophase \in {"session", "model"}
    /\ oout' = IF ob = "hermes" THEN oout ELSE oout \cup {"replay"}
    /\ UNCHANGED <<ob, ophase, octx, oexit, ofinal, oseen, ores>>

AnswerRead ==
    /\ ob \in ACPs \cup {"codex"} /\ ophase \in {"prompt", "turn"}
    /\ oout' = oout \cup {"answer"}
    /\ UNCHANGED <<ob, ophase, octx, oexit, ofinal, oseen, ores>>

\* What the stderr of the program says: an error, perhaps a terminal one.
SniffsError(kind) ==
    /\ ob \in ACPs /\ Running /\ kind \notin oseen
    /\ oseen' = oseen \cup {kind}
    /\ UNCHANGED <<ob, ophase, octx, oexit, ofinal, oout, ores>>

\* A request of the handshake is answered.  set_model is sent when a model is
\* configured, and only the ACP providers ask for it.
HandshakeAnswered ==
    /\ ophase \in Requests \ {"prompt"} /\ oexit # "bad"
    /\ \/ ophase = "initialize" /\ ophase' = "session"
       \/ ophase = "session" /\ ob \in ACPs /\ ophase' \in {"model", "prompt"}
       \/ ophase = "session" /\ ob = "codex" /\ ophase' = "prompt"
       \/ ophase = "model" /\ ophase' = "prompt"
    /\ UNCHANGED <<ob, octx, oexit, ofinal, oseen, oout, ores>>

\* A request of the handshake fails, for whatever reason: the run has failed.
HandshakeRefused ==
    /\ ophase \in Requests \ {"prompt"}
    /\ ores' = "failed" /\ ofinal' = "failed" /\ ophase' = "reported"
    /\ UNCHANGED <<ob, octx, oexit, oseen, oout>>

\* session/prompt fails: the context tells why.
PromptRefused ==
    /\ ob \in ACPs /\ ophase = "prompt"
    /\ ofinal' = CASE octx = "deadline" -> "timeout" [] octx = "cancelled" -> "cancelled"
                   [] OTHER -> "failed"
    /\ ophase' = "closing" /\ oexit' = IF oexit = "no" THEN "bad" ELSE oexit
    /\ UNCHANGED <<ob, octx, oseen, oout, ores>>

\* It is answered, also with the stop reason "cancelled"; the goroutine then ends
\* the program and waits for both readers.
PromptAnswered(aborted) ==
    /\ ob \in ACPs /\ ophase = "prompt"
    /\ oseen' = oseen \cup {IF aborted THEN "aborted" ELSE "answered"}
    /\ ofinal' = IF aborted THEN "cancelled" ELSE "completed"
    /\ ophase' = "closing" /\ oexit' = IF oexit = "no" THEN "bad" ELSE oexit
    /\ UNCHANGED <<ob, octx, oout, ores>>

\* promoteACPResultOnProviderError: a terminal error, an error in the words of the
\* answer, or any error without an answer fails a run that looked complete.
PromotedStatus(wordy) ==
    IF ofinal = "completed"
         /\ ("terminal" \in oseen \/ wordy \/ (oout = {} /\ "stderr" \in oseen))
    THEN "failed" ELSE ofinal

ACPReports(wordy) ==
    /\ ob \in ACPs /\ ophase = "closing" /\ (wordy => oout # {})
    /\ ores' = PromotedStatus(wordy) /\ ophase' = "reported"
    /\ UNCHANGED <<ob, octx, oexit, ofinal, oseen, oout>>

----------------------------------------------------------------------------
(* codex.                                                                  *)

\* turn/start is accepted or refused.
CodexTurnStart(ok) ==
    /\ ob = "codex" /\ ophase = "prompt"
    /\ ok => oexit # "bad"
    /\ IF ok THEN ophase' = "turn" /\ UNCHANGED <<ofinal, ores>>
       ELSE ophase' = "reported" /\ ofinal' = "failed" /\ ores' = "failed"
    /\ UNCHANGED <<ob, octx, oexit, oseen, oout>>

\* The turn ends, with or without an error noted before.
CodexEvent(e) ==
    /\ ob = "codex" /\ ophase \in {"prompt", "turn"}
    /\ e \in {"answered", "aborted", "error"} /\ e \notin oseen
    /\ oseen \cap {"answered", "aborted"} = {}
    /\ oseen' = oseen \cup {e}
    /\ UNCHANGED <<ob, ophase, octx, oexit, ofinal, oout, ores>>

\* Whatever is ready first, and any of several that are ready.
CodexSelects(source) ==
    /\ ob = "codex" /\ ophase = "turn"
    /\ \/ source = "done" /\ oseen \cap {"answered", "aborted"} # {}
          /\ ofinal' = CASE "aborted" \in oseen -> "cancelled"
                         [] "error" \in oseen -> "failed" [] OTHER -> "completed"
       \/ source = "gone" /\ oexit # "no" /\ oseen \cap {"answered", "aborted"} = {}
          /\ ofinal' = "failed"
       \/ source = "silence" /\ ofinal' = "timeout"
       \/ source = "context" /\ octx # "live"
          /\ ofinal' = IF octx = "deadline" THEN "timeout" ELSE "cancelled"
    /\ ores' = ofinal' /\ ophase' = "reported"
    /\ oseen' = IF source = "silence" THEN oseen \cup {"silence"} ELSE oseen
    /\ UNCHANGED <<ob, octx, oexit, oout>>

----------------------------------------------------------------------------
(* opencode and openclaw: the Result of the persistent session's first turn *)
(* (ProviderSession: there always is one) is passed on.                     *)

InnerTurnEnds(status) ==
    /\ ob \in Wrapped /\ ophase = "turn" /\ "inner" \notin oseen
    /\ ofinal' = status /\ oseen' = oseen \cup {"inner"}
    /\ UNCHANGED <<ob, ophase, octx, oexit, oout, ores>>

OpenCodeForwards ==
    /\ ob = "opencode" /\ ophase = "turn" /\ "inner" \in oseen
    /\ ores' = ofinal /\ ophase' = "reported"
    /\ UNCHANGED <<ob, octx, oexit, ofinal, oseen, oout>>

OpenClawForwards ==
    /\ ob = "openclaw" /\ ophase = "turn" /\ "inner" \in oseen
    /\ ores' = ofinal /\ ophase' = "reported"
    /\ UNCHANGED <<ob, octx, oexit, ofinal, oseen, oout>>

\* The deferred calls: the channels are closed and the process is reaped.
ExecutionCloses ==
    /\ ophase = "reported" /\ ophase' = "closed"
    /\ oexit' = IF oexit = "no" THEN "ok" ELSE oexit
    /\ UNCHANGED <<ob, octx, ofinal, oseen, oout, ores>>

OneShotNext ==
    \/ SpawnFails \/ Spawns \/ StreamEnds \/ StreamReports \/ ReplayRead \/ AnswerRead
    \/ HandshakeAnswered \/ HandshakeRefused \/ PromptRefused
    \/ OpenCodeForwards \/ OpenClawForwards \/ ExecutionCloses
    \/ \E how \in {"ok", "bad"} : ProgramExits(how)
    \/ \E why \in {"cancelled", "deadline"} : ContextEnds(why)
    \/ \E e \in OEvents : ReadsLine(e)
    \/ \E kind \in {"stderr", "terminal"} : SniffsError(kind)
    \/ \E b \in BOOLEAN : PromptAnswered(b) \/ ACPReports(b) \/ CodexTurnStart(b)
    \/ \E e \in {"answered", "aborted", "error"} : CodexEvent(e)
    \/ \E s \in {"done", "gone", "silence", "context"} : CodexSelects(s)
    \/ \E s \in {"completed", "failed", "cancelled"} : InnerTurnEnds(s)

OneShotSpec == OneShotInit /\ [][OneShotNext]_oneShotVars

----------------------------------------------------------------------------
(* Properties.                                                             *)

\* A Result exists exactly once the goroutine has reported; Execute's error path
\* leaves none.
ResultOnReport ==
    (ores # "none") <=> (ophase \in {"reported", "closed"})

\* "completed" is earned: a stream was read to a clean exit within a live context
\* and no result of it failed, a prompt or turn was answered, and no terminal
\* error stands on stderr.
CompletedIsEarned ==
    ores = "completed" =>
        /\ ob \in Streams => /\ oexit = "ok" /\ octx = "live"
                             /\ oseen \cap {"badResult", "retryFailed"} = {}
        /\ ob \in {"pi", "copilot", "claude"} => "error" \notin oseen
        /\ ob \in ACPs \cup {"codex"} => "answered" \in oseen
        /\ ob = "codex" => "error" \notin oseen
        /\ ob \in ACPs => "terminal" \notin oseen

\* Stop and the deadline are told apart from failures wherever a program was read
\* or a prompt was out: a timeout is reported only after the deadline (or codex'
\* silence), a cancellation only after Stop or the provider's own.
EndIsNamed ==
    /\ ores = "timeout" => octx = "deadline" \/ "silence" \in oseen
    /\ ores = "cancelled" => octx = "cancelled" \/ "aborted" \in oseen \/ ob \in Wrapped
    /\ ores = "failed" /\ ob \in Streams /\ ob # "copilot" => octx = "live"

\* The answer of hermes holds nothing of an earlier turn.
HermesAnswersOnly == ob = "hermes" => "replay" \notin oout

\* What the Result of an execution says.
OneShotPromise ==
    OneShotTypeOK /\ ResultOnReport /\ CompletedIsEarned /\ EndIsNamed /\ HermesAnswersOnly

\* Variant: the exit status of the program is not asked for.
StatusWithoutExit ==
    IF octx = "deadline" THEN "timeout" ELSE IF octx = "cancelled" THEN "cancelled" ELSE ofinal
=============================================================================
