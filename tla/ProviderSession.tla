-------------------------- MODULE ProviderSession --------------------------
(***************************************************************************)
(* The turns of one long-lived provider process: Start's first turn, the   *)
(* turns sent later, the goroutine that reads the process until it ends,   *)
(* and Stop, Close and ForceClose.  Three designs share the file format of *)
(* a turn, a channel that carries one Result and is then closed:           *)
(*   "claude"      the active turn in an atomic pointer, lines settle it;  *)
(*   "controller"  hermes, opencode, openclaw: acpTurnController;          *)
(*   "captured"    kimi, kiro: a flag for the turn, and a reader that      *)
(*                 writes to the channels that Start made.                 *)
(* The callers of one process are serial (AgentSessionManager holds the    *)
(* turn until its result).  The provider's program is external: it answers *)
(* a prompt at most once, may emit output for any prompt it still works    *)
(* on, and may exit at any time.                                           *)
(***************************************************************************)
EXTENDS Naturals, FiniteSets

CONSTANTS Kinds,     \* the designs to check
          MaxTurns,  \* turns of the process
          MaxCalls   \* cancelled tasks, Close and ForceClose calls

ASSUME ProviderAssumption ==
    /\ Kinds \subseteq {"claude", "controller", "captured"}
    /\ MaxTurns \in Nat \ {0} /\ MaxCalls \in Nat

VARIABLES pkind,    \* the design
          pturn,    \* the turns
          current,  \* the active turn, or where callbacks write (captured); 0: none
          turnFin,  \* captured: the turn has been settled
          proc,     \* "up" or "exited"
          reader,   \* reading, ending, ended, done
          work,     \* prompts the provider works on
          runCtx,   \* the context of the process is cancelled
          stdinOff, \* the daemon closed stdin
          crashed,  \* a goroutine panicked and took the daemon down
          calls     \* calls from outside so far

providerVars == <<pkind, pturn, current, turnFin, proc, reader, work, runCtx,
                  stdinOff, crashed, calls>>

PTurns == 1..MaxTurns

\* A turn: the goroutine that drives it, the context of its task, its channel,
\* the Result written there, what the provider answered, and the prompts whose
\* output it carried.
NoPTurn == [pc |-> "idle", ctx |-> "live", ch |-> "none", res |-> "none",
            reply |-> "none", out |-> {}]

ProviderTypeOK ==
    /\ pkind \in Kinds
    /\ pturn \in [PTurns ->
          [pc : {"idle", "checked", "handshake", "begun", "asking", "answered",
                 "rejected", "shutting", "back", "erred"},
           ctx : {"live", "cancelled"}, ch : {"none", "open", "closed"},
           res : {"none", "completed", "failed", "cancelled"},
           reply : {"none", "ok", "error"}, out : SUBSET PTurns]]
    /\ current \in 0..MaxTurns /\ turnFin \in BOOLEAN
    /\ proc \in {"up", "exited"} /\ reader \in {"reading", "ending", "ended", "done"}
    /\ work \subseteq PTurns /\ runCtx \in BOOLEAN /\ stdinOff \in BOOLEAN
    /\ crashed \in BOOLEAN /\ calls \in 0..MaxCalls

ProviderInit ==
    /\ pkind \in Kinds
    /\ pturn = [t \in PTurns |-> NoPTurn]
    /\ current = 0 /\ turnFin = FALSE
    /\ proc = "up" /\ reader = "reading" /\ work = {}
    /\ runCtx = FALSE /\ stdinOff = FALSE /\ crashed = FALSE /\ calls = 0

Over(t) == pturn[t].pc = "erred" \/ (pturn[t].pc = "back" /\ pturn[t].res # "none")

\* The row of a turn with its Result written and its channels closed.
SettledTurn(row, status) == [row EXCEPT !.ch = "closed", !.res = status]

\* finishTurn and the controller's finish: only the active turn is settled.
FinishActive(row, t, status) == IF current = t THEN SettledTurn(row, status) ELSE row

\* The compare-and-swap of turnFin: who wins writes to the channels of its turn.
FinishFlagged(row, status) == IF turnFin THEN row ELSE SettledTurn(row, status)

FinishedRow(row, t, status) ==
    IF pkind = "captured" THEN FinishFlagged(row, status) ELSE FinishActive(row, t, status)

\* The place of the turn t is free, and the flag says that a turn is settled.
GivesBack(t) ==
    /\ current' = IF pkind # "captured" /\ current = t THEN 0 ELSE current
    /\ turnFin' = (pkind = "captured" \/ turnFin)

\* The goroutine of t goes to pc and settles its turn.
Finished(t, pc, status) ==
    /\ pturn' = [pturn EXCEPT ![t] = FinishedRow([@ EXCEPT !.pc = pc], t, status)]
    /\ GivesBack(t)

\* acpPromptErrorStatus: the controller tells a cancelled task from a failure.
ErrorStatus(t) ==
    IF pkind = "controller" /\ pturn[t].ctx = "cancelled" THEN "cancelled"
    ELSE "failed"

At(t, pc) == [pturn EXCEPT ![t].pc = pc]

----------------------------------------------------------------------------
(* The caller's goroutine.                                                 *)

\* Start of claude: the turn is registered before the prompt is written.
StartClaude ==
    /\ pkind = "claude" /\ pturn[1].pc = "idle"
    /\ pturn' = [pturn EXCEPT ![1] = [@ EXCEPT !.pc = "begun", !.ch = "open"]]
    /\ current' = 1
    /\ UNCHANGED <<pkind, turnFin, proc, reader, work, runCtx, stdinOff, crashed, calls>>

\* Start of the ACP providers up to the handshake; the reader runs already.
StartACP ==
    /\ pkind # "claude" /\ pturn[1].pc = "idle"
    /\ pturn' = [pturn EXCEPT ![1] = [@ EXCEPT !.pc = "handshake", !.ch = "open"]]
    /\ current' = 1
    /\ UNCHANGED <<pkind, turnFin, proc, reader, work, runCtx, stdinOff, crashed, calls>>

\* initialize, session/resume or session/new, session/set_model all answered.
HandshakeDone ==
    /\ pturn[1].pc = "handshake" /\ proc = "up" /\ ~stdinOff
    /\ pturn' = At(1, "begun")
    /\ UNCHANGED <<pkind, current, turnFin, proc, reader, work, runCtx, stdinOff,
                   crashed, calls>>

\* A handshake request is refused, its task is cancelled or the process is gone:
\* the controller settles the turn and closes the process, ...
HandshakeFailsController ==
    /\ pkind = "controller" /\ pturn[1].pc = "handshake"
    /\ Finished(1, "back", ErrorStatus(1))
    /\ stdinOff' = TRUE
    /\ UNCHANGED <<pkind, proc, reader, work, runCtx, crashed, calls>>

\* ... kimi and kiro close the process, wait for the reader and settle then.
HandshakeFailsCaptured ==
    /\ pkind = "captured" /\ pturn[1].pc = "handshake"
    /\ pturn' = At(1, "shutting") /\ stdinOff' = TRUE
    /\ UNCHANGED <<pkind, current, turnFin, proc, reader, work, runCtx, crashed, calls>>

HandshakeReaped ==
    /\ pturn[1].pc = "shutting" /\ reader = "done"
    /\ Finished(1, "back", "failed")
    /\ UNCHANGED <<pkind, proc, reader, work, runCtx, stdinOff, crashed, calls>>

\* IsAlive: claude asks for the exit status that cmd.Wait left, the others for
\* the flag that runner.finish sets last.
ProcessAlive == IF pkind = "claude" THEN reader = "reading" ELSE reader # "done"

\* Send looks whether the process lives; the previous turn is over.
CheckAlive(t) ==
    /\ t > 1 /\ pturn[t].pc = "idle" /\ Over(t - 1)
    /\ pturn' = At(t, IF ProcessAlive THEN "checked" ELSE "erred")
    /\ UNCHANGED <<pkind, current, turnFin, proc, reader, work, runCtx, stdinOff,
                   crashed, calls>>

\* Send of claude and beginTurn: refused while another turn is registered.
BeginClaude(t) ==
    /\ pkind = "claude" /\ pturn[t].pc = "checked"
    /\ pturn' = IF current = 0
                THEN [pturn EXCEPT ![t] = [@ EXCEPT !.pc = "begun", !.ch = "open"]]
                ELSE At(t, "erred")
    /\ current' = IF current = 0 THEN t ELSE current
    /\ UNCHANGED <<pkind, turnFin, proc, reader, work, runCtx, stdinOff, crashed, calls>>

\* Send of the controller's providers and acpTurnController.begin.
BeginController(t) ==
    /\ pkind = "controller" /\ pturn[t].pc = "checked"
    /\ pturn' = IF current = 0
                THEN [pturn EXCEPT ![t] = [@ EXCEPT !.pc = "begun", !.ch = "open"]]
                ELSE At(t, "erred")
    /\ current' = IF current = 0 THEN t ELSE current
    /\ UNCHANGED <<pkind, turnFin, proc, reader, work, runCtx, stdinOff, crashed, calls>>

\* Send of kimi and kiro: callbacks are redirected and the flag is lowered.
BeginCaptured(t) ==
    /\ pkind = "captured" /\ pturn[t].pc = "checked"
    /\ pturn' = [pturn EXCEPT ![t] = [@ EXCEPT !.pc = "begun", !.ch = "open"]]
    /\ current' = t /\ turnFin' = FALSE
    /\ UNCHANGED <<pkind, proc, reader, work, runCtx, stdinOff, crashed, calls>>

\* The prompt is written.  claude returns the session; the others wait for the
\* response to session/prompt.
PromptWritten(t) ==
    /\ pturn[t].pc = "begun" /\ proc = "up" /\ ~stdinOff
    /\ pturn' = At(t, IF pkind = "claude" THEN "back" ELSE "asking")
    /\ work' = work \cup {t}
    /\ UNCHANGED <<pkind, current, turnFin, proc, reader, runCtx, stdinOff, crashed,
                   calls>>

\* Writing fails: claude settles the turn and returns an error (Start also gives
\* the process up), a request fails like a rejected one.
ClaudeWriteFails(t) ==
    /\ pkind = "claude" /\ pturn[t].pc = "begun" /\ (proc = "exited" \/ stdinOff)
    /\ Finished(t, "erred", "failed")
    /\ runCtx' = (t = 1 \/ runCtx) /\ stdinOff' = (t = 1 \/ stdinOff)
    /\ UNCHANGED <<pkind, proc, reader, work, crashed, calls>>

RequestWriteFails(t) ==
    /\ pkind # "claude" /\ pturn[t].pc = "begun" /\ (proc = "exited" \/ stdinOff)
    /\ pturn' = At(t, "rejected")
    /\ UNCHANGED <<pkind, current, turnFin, proc, reader, work, runCtx, stdinOff,
                   crashed, calls>>

\* The request ends for its task: the pending entry is dropped.
RequestCancelled(t) ==
    /\ pturn[t].pc = "asking" /\ pturn[t].ctx = "cancelled"
    /\ pturn' = At(t, "rejected")
    /\ UNCHANGED <<pkind, current, turnFin, proc, reader, work, runCtx, stdinOff,
                   crashed, calls>>

\* The response arrived: the caller settles its turn as completed.
CallerCompletes(t) ==
    /\ pturn[t].pc = "answered"
    /\ Finished(t, "back", "completed")
    /\ UNCHANGED <<pkind, proc, reader, work, runCtx, stdinOff, crashed, calls>>

\* The first prompt failed: the session exists and carries the failure.
FirstPromptFails ==
    /\ pturn[1].pc = "rejected"
    /\ Finished(1, "back", ErrorStatus(1))
    /\ UNCHANGED <<pkind, proc, reader, work, runCtx, stdinOff, crashed, calls>>

\* A later prompt failed: Send returns the error.  kimi and kiro close the
\* channels without a Result.
SendFails(t) ==
    /\ t > 1 /\ pturn[t].pc = "rejected"
    /\ IF pkind = "captured"
       THEN /\ pturn' = [pturn EXCEPT ![t] =
                 [pturn[t] EXCEPT !.pc = "erred", !.ch = IF turnFin THEN @ ELSE "closed"]]
            /\ turnFin' = TRUE /\ UNCHANGED current
       ELSE Finished(t, "erred", ErrorStatus(t))
    /\ UNCHANGED <<pkind, proc, reader, work, runCtx, stdinOff, crashed, calls>>

----------------------------------------------------------------------------
(* The provider and the reader of its output.                              *)

\* Output of the prompt p goes to the turn that is active when it is read.
ReadsOutput(p) ==
    /\ p \in work /\ proc = "up" /\ current # 0 /\ pturn[current].ch = "open"
    /\ pturn' = [pturn EXCEPT ![current].out = @ \cup {p}]
    /\ UNCHANGED <<pkind, current, turnFin, proc, reader, work, runCtx, stdinOff,
                   crashed, calls>>

\* A result or error line of claude settles the turn that is active.
ReadsResult(p, ok) ==
    /\ pkind = "claude" /\ p \in work /\ proc = "up" /\ reader = "reading"
    /\ work' = work \ {p}
    /\ LET told(t) == IF t # p THEN pturn[t]
                      ELSE [pturn[t] EXCEPT !.reply = IF ok THEN "ok" ELSE "error"]
       IN pturn' = [t \in PTurns |->
                      FinishedRow(told(t), t, IF ok THEN "completed" ELSE "failed")]
    /\ GivesBack(current)
    /\ UNCHANGED <<pkind, proc, reader, runCtx, stdinOff, crashed, calls>>

\* The response to a session/prompt wakes the request that waits for it; a late
\* one finds no pending entry.
ReadsResponse(p, ok) ==
    /\ pkind # "claude" /\ p \in work /\ proc = "up" /\ reader = "reading"
    /\ work' = work \ {p}
    /\ pturn' = IF pturn[p].pc = "asking"
                THEN [pturn EXCEPT ![p] =
                       [@ EXCEPT !.reply = IF ok THEN "ok" ELSE "error",
                                 !.pc = IF ok THEN "answered" ELSE "rejected"]]
                ELSE pturn
    /\ UNCHANGED <<pkind, current, turnFin, proc, reader, runCtx, stdinOff, crashed,
                   calls>>

ProcessExits ==
    /\ proc = "up" /\ pturn[1].pc # "idle"
    /\ proc' = "exited" /\ work' = {}
    /\ UNCHANGED <<pkind, pturn, current, turnFin, reader, runCtx, stdinOff, crashed,
                   calls>>

\* End of output: claude reaps the process, the others fail the requests that
\* are pending.
ReaderEOF ==
    /\ proc = "exited" /\ reader = "reading" /\ reader' = "ending"
    /\ pturn' = [t \in PTurns |-> IF pturn[t].pc = "asking"
                                  THEN [pturn[t] EXCEPT !.pc = "rejected"]
                                  ELSE pturn[t]]
    /\ UNCHANGED <<pkind, current, turnFin, proc, work, runCtx, stdinOff, crashed,
                   calls>>

\* The reader fails the turn that is still active.
ReaderFailsTurn ==
    /\ pkind # "captured" /\ reader = "ending" /\ reader' = "ended"
    /\ IF current = 0 THEN UNCHANGED <<pturn, current, turnFin>>
       ELSE Finished(current, pturn[current].pc,
                     IF pkind = "claude" /\ runCtx THEN "cancelled" ELSE "failed")
    /\ UNCHANGED <<pkind, proc, work, runCtx, stdinOff, crashed, calls>>

\* kimi and kiro: whoever lowered the flag last has an active turn, but the
\* reader knows Start's channels only.
ReaderFailsCaptured ==
    /\ pkind = "captured" /\ reader = "ending" /\ reader' = "ended"
    /\ turnFin' = TRUE
    /\ crashed' = (~turnFin /\ pturn[1].ch = "closed")
    /\ pturn' = IF turnFin \/ pturn[1].ch # "open" THEN pturn
                ELSE [pturn EXCEPT ![1] = SettledTurn(@, "failed")]
    /\ UNCHANGED <<pkind, current, proc, work, runCtx, stdinOff, calls>>

\* runner.finish, or close(state.done) of claude.
ReaderDone ==
    /\ reader = "ended" /\ reader' = "done"
    /\ UNCHANGED <<pkind, pturn, current, turnFin, proc, work, runCtx, stdinOff, crashed,
                   calls>>

----------------------------------------------------------------------------
(* Calls from outside.                                                     *)

Called == calls < MaxCalls /\ calls' = calls + 1

\* Start has returned the session: the controller's Start does not wait for the
\* answer to its prompt.
HandedOut ==
    pturn[1].pc = "back"
        \/ (pkind = "controller" /\ pturn[1].pc \in {"asking", "answered", "rejected"})

\* The task of a turn is cancelled; the process of claude belongs to the context
\* of the task that started it.
CancelTask(t) ==
    /\ Called /\ pturn[t].ctx = "live" /\ pturn[t].pc \notin {"idle", "erred"}
    /\ pturn[t].res = "none"
    /\ pturn' = [pturn EXCEPT ![t].ctx = "cancelled"]
    /\ runCtx' = (runCtx \/ (pkind = "claude" /\ t = 1))
    /\ UNCHANGED <<pkind, current, turnFin, proc, reader, work, stdinOff, crashed>>

\* Stop of the first turn ends the process; Stop of a later one does nothing.
StopFirst ==
    /\ pturn[1].pc = "back" /\ pturn[1].ctx = "cancelled" /\ ~runCtx
    /\ runCtx' = TRUE
    /\ UNCHANGED <<pkind, pturn, current, turnFin, proc, reader, work, stdinOff, crashed,
                   calls>>

ContextKills ==
    /\ runCtx /\ proc = "up" /\ proc' = "exited" /\ work' = {}
    /\ UNCHANGED <<pkind, pturn, current, turnFin, reader, runCtx, stdinOff, crashed,
                   calls>>

\* Close: end of input, and a kill when the process does not leave in 10 seconds.
CloseRuntime ==
    /\ Called /\ HandedOut /\ ~stdinOff /\ stdinOff' = TRUE
    /\ UNCHANGED <<pkind, pturn, current, turnFin, proc, reader, work, runCtx, crashed>>

CloseTimesOut ==
    /\ stdinOff /\ proc = "up" /\ runCtx' = TRUE /\ proc' = "exited" /\ work' = {}
    /\ UNCHANGED <<pkind, pturn, current, turnFin, reader, stdinOff, crashed, calls>>

ForceClose ==
    /\ Called /\ HandedOut /\ proc = "up"
    /\ runCtx' = TRUE /\ proc' = "exited" /\ work' = {}
    /\ UNCHANGED <<pkind, pturn, current, turnFin, reader, stdinOff, crashed>>

ProviderNext ==
    /\ ~crashed
    /\ \/ StartClaude \/ StartACP \/ HandshakeDone \/ HandshakeFailsController
       \/ HandshakeFailsCaptured \/ HandshakeReaped \/ FirstPromptFails
       \/ \E t \in PTurns :
            \/ CheckAlive(t) \/ BeginClaude(t) \/ BeginController(t) \/ BeginCaptured(t)
            \/ PromptWritten(t) \/ ClaudeWriteFails(t) \/ RequestWriteFails(t)
            \/ RequestCancelled(t) \/ CallerCompletes(t) \/ SendFails(t)
            \/ ReadsOutput(t) \/ CancelTask(t)
            \/ \E ok \in BOOLEAN : ReadsResult(t, ok) \/ ReadsResponse(t, ok)
       \/ ProcessExits \/ ReaderEOF \/ ReaderFailsTurn \/ ReaderFailsCaptured
       \/ ReaderDone \/ StopFirst \/ ContextKills \/ CloseRuntime \/ CloseTimesOut
       \/ ForceClose

ProviderSpec == ProviderInit /\ [][ProviderNext]_providerVars

----------------------------------------------------------------------------
(* Properties.                                                             *)

\* Nobody is left waiting for a process that is gone: once the reader has ended
\* no request is pending and every session handed out carries its Result.
GoneMeansSettled ==
    reader = "done" =>
        \A t \in PTurns : pturn[t].pc # "asking" /\ (pturn[t].pc = "back" => Over(t))

\* A turn is completed only by the provider's own answer to its prompt: not by
\* an answer to another turn, an exit or a cancellation.
CompletedWasAnswered ==
    \A t \in PTurns : pturn[t].res = "completed" => pturn[t].reply = "ok"

\* A turn carries the output of its own prompt; output of an earlier prompt
\* reaches it only when the task of that prompt was cancelled (no provider is
\* told to stop, so it goes on writing into the next turn).
OutputOfOwnPrompt ==
    \A t \in PTurns : \A p \in pturn[t].out :
        p = t \/ (p < t /\ pkind # "claude" /\ pturn[p].ctx = "cancelled")

\* The place of the active turn is given back: when every caller is through,
\* no turn stays registered and the next Send can begin.
NoTurnLeftActive ==
    pkind # "captured" /\ (\A t \in PTurns : pturn[t].pc = "idle" \/ Over(t))
        => current = 0

\* The turns of a provider process.
ProviderPromise ==
    /\ ProviderTypeOK
    /\ GoneMeansSettled /\ CompletedWasAnswered /\ OutputOfOwnPrompt
    /\ NoTurnLeftActive
    /\ crashed => pkind = "captured"

\* "process exit and late callbacks always target the active turn, never channels
\* captured by Start" (acp.go): the exit of a process never makes the reader
\* write to channels that are closed, which would panic the daemon.
ExitTargetsActiveTurn == ~crashed

\* Variant: Send of claude returns the write error and leaves the turn there.
WriteErrorOnly(t) ==
    /\ pkind = "claude" /\ pturn[t].pc = "begun" /\ (proc = "exited" \/ stdinOff)
    /\ pturn' = At(t, "erred")
    /\ UNCHANGED <<pkind, current, turnFin, proc, reader, work, runCtx, stdinOff,
                   crashed, calls>>
=============================================================================
